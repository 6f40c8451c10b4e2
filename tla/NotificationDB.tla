--------------------------- MODULE NotificationDB ---------------------------
(***************************************************************************)
(* The notification database of the default ROM (notification_db.cpp): per  *)
(* channel the files url, timestamp, data and states on SPIFFS, the pull    *)
(* that replaces the first two, the sync that rebuilds states from data and *)
(* the recalculation that moves the entries through their states.           *)
(*                                                                          *)
(* A data file is the sequence of its lines, a states file the sequence of  *)
(* its entries; a missing file reads as an empty one.  The position of a    *)
(* line is its number.  The file new_states is truncated before every use,  *)
(* so what a crash leaves in it is never read: newStates is a variable of   *)
(* the sync.  One action for each change of a file that outlives a reset.   *)
(***************************************************************************)
EXTENDS Integers, Sequences, SequencesExt

CONSTANTS
  Channels,     \* the channel numbers, 1..n
  Ids,          \* the ids servers give their notifications
  NoId,         \* the id of a line that has none
  NoChannel,    \* no channel is being asked, replaced or deleted
  NoTime,       \* no value: a timestamp that is not there, a missing valid_from
  Feeds,        \* what a server may answer: sequences of lines
  Epoch,        \* server time when the badge is first started
  Horizon       \* bound: server time stays within Epoch..Epoch + Horizon

ASSUME ChannelsAssumption == Channels \subseteq Nat \ {0} /\ NoChannel \notin Channels
ASSUME IdsAssumption      == NoId \notin Ids
ASSUME TimesAssumption    == Epoch \in Nat /\ Horizon \in Nat /\ Horizon < Epoch
ASSUME NoTimeAssumption   == NoTime \notin Int

\* A whole line of data; and what is left of one that was cut off: nothing
\* getKey finds an id in, an id without the times, or a shorter valid_to.
Lines == [id: Ids, from: Nat, to: Nat]
NoIdLine == [id |-> NoId, from |-> NoTime, to |-> NoTime]
Cuts(line) == {NoIdLine, [line EXCEPT !.from = NoTime, !.to = NoTime],
               [line EXCEPT !.to = 0]}

ASSUME FeedsAssumption == Feeds \subseteq Seq(Lines)

VARIABLES
  now,          \* the time of the servers, in seconds
  booted,       \* when this boot began: millis() counts from there
  url,          \* the channels with a url file, those ChannelIterator visits
  timestamp,    \* per channel: server and local time of the last pull
  data,         \* per channel: the lines last received
  states,       \* per channel: the entries of the states file
  newStates,    \* the entries of new_states, while states is being replaced
  pc,           \* where the program is
  todo,         \* the channels the current iterator has still to visit
  ch,           \* the channel asked, or whose states file is replaced or deleted
  after,        \* where the caller of recalculateStates goes on
  synced        \* history: channels whose states were built from their data

files == <<url, timestamp, data, states>>

NoTimestamp == [server |-> NoTime, local |-> NoTime]
Seconds == now - booted            \* millis() / 1000

\* The iterator goes on to the next step when it has visited every channel.
AllVisited(from, to) ==
  /\ pc = from
  /\ todo = {}
  /\ pc' = to
  /\ todo' = url

-----------------------------------------------------------------------------
(* pullNotifications: for every channel connect, verify, read.              *)

\* `while (client.available())` stops whenever no byte is there yet: any part
\* of the feed may be all the badge takes.
Received(feed) ==
  {SubSeq(feed, 1, n) : n \in 0..Len(feed)}
    \cup (UNION {{Append(SubSeq(feed, 1, n - 1), l) : l \in Cuts(feed[n])}
                   : n \in 1..Len(feed)})

\* The status line is not looked at: an error page is data too, without ids.
Answers == (UNION {Received(feed) : feed \in Feeds}) \cup {<<NoIdLine>>}

\* The first line of the body is the server's time.  Of an error page atol makes
\* 0, and of a line that was late its first digits.  (What is left of it is then
\* taken for the name, and the name for one more line of data without an id.)
ServerTimes ==
  {now} \cup {t \in 0..(now \div 10) : t = 0 \/ \E n \in 1..9 : t = now \div (10 ^ n)}

FetchFails(c) ==
  /\ pc = "fetch" /\ c \in todo
  /\ todo' = todo \ {c}
  /\ UNCHANGED <<files, newStates, pc, ch, after, synced>>

\* Connected, verified and asked.
Request(c) ==
  /\ pc = "fetch" /\ c \in todo
  /\ ch' = c /\ pc' = "headers"
  /\ UNCHANGED <<files, newStates, todo, after, synced>>

\* `while (client.connected())` is left when the server has sent its headers or
\* closes, and at no other time: this is a step of the server.
Fetch(answer, server) ==
  /\ pc = "headers"
  /\ timestamp' = [timestamp EXCEPT ![ch] = [server |-> server, local |-> Seconds]]
  /\ data' = [data EXCEPT ![ch] = answer]
  /\ synced' = synced \ {ch}
  /\ todo' = todo \ {ch}
  /\ pc' = "fetch" /\ ch' = NoChannel
  /\ UNCHANGED <<url, states, newStates, after>>

FetchAny == \E answer \in Answers, server \in ServerTimes : Fetch(answer, server)

FetchDone ==
  /\ AllVisited("fetch", "sync")
  /\ UNCHANGED <<files, newStates, ch, after, synced>>

-----------------------------------------------------------------------------
(* syncStatesWithData: new entries are scheduled, known ones keep their     *)
(* state, and what is no longer in data is dropped.                         *)

Known(entries, id) == \E k \in DOMAIN entries : entries[k].id = id
First(entries, id) ==
  entries[CHOOSE k \in DOMAIN entries :
            entries[k].id = id /\ \A j \in 1..(k - 1) : entries[j].id # id]

Entry_StateReset(line, pos, old) ==
  [id |-> line.id, state |-> "SCHEDULED", from |-> line.from, to |-> line.to, pos |-> pos]
Entry_KeepsPosition(line, pos, old) ==
  IF Known(old, line.id)
  THEN [First(old, line.id) EXCEPT !.from = line.from, !.to = line.to]
  ELSE [id |-> line.id, state |-> "SCHEDULED", from |-> line.from, to |-> line.to, pos |-> pos]
Entry(line, pos, old) ==
  [id |-> line.id,
   state |-> IF Known(old, line.id) THEN First(old, line.id).state ELSE "SCHEDULED",
   from |-> line.from, to |-> line.to, pos |-> pos]

WithId_All(lines) == [k \in DOMAIN lines |-> k]
WithId(lines) ==
  LET At[k \in 0..Len(lines)] ==
        IF k = 0 THEN <<>>
        ELSE IF lines[k].id # NoId THEN Append(At[k - 1], k) ELSE At[k - 1]
  IN  At[Len(lines)]

\* new_states
Rebuilt(lines, old) ==
  LET at == WithId(lines)
  IN  [j \in DOMAIN at |-> Entry(lines[at[j]], at[j], old)]

\* atol is given what getKey returned, which is a null pointer for a line with
\* an id and without valid_from or valid_to.
Unreadable(lines) == \E k \in DOMAIN lines : lines[k].id # NoId /\ lines[k].from = NoTime

RemoveStates(c) ==
  /\ pc = "sync" /\ c \in todo
  /\ ~Unreadable(data[c])
  /\ newStates' = Rebuilt(data[c], states[c])
  /\ states' = [states EXCEPT ![c] = <<>>]
  /\ synced' = synced \ {c}
  /\ ch' = c
  /\ pc' = "rename"
  /\ UNCHANGED <<url, timestamp, data, todo, after>>

RenameStates ==
  /\ pc = "rename"
  /\ states' = [states EXCEPT ![ch] = newStates]
  /\ newStates' = <<>>
  /\ synced' = synced \cup {ch}
  /\ todo' = todo \ {ch}
  /\ pc' = "sync" /\ ch' = NoChannel
  /\ UNCHANGED <<url, timestamp, data, after>>

SyncDone ==
  /\ AllVisited("sync", "recalc")
  /\ UNCHANGED <<files, newStates, ch, after, synced>>

-----------------------------------------------------------------------------
(* recalculateStates: every entry of every channel with a timestamp.        *)

ServerTime(stamp) == (Seconds - stamp.local) + stamp.server

UpdateState_Reactivates(entry, time) ==
  [entry EXCEPT !.state = IF time > entry.to THEN "INACTIVE"
                          ELSE IF time > entry.from THEN "ACTIVE_NOT_NOTIFIED"
                          ELSE @]
UpdateState(entry, time) ==
  [entry EXCEPT !.state = IF time > entry.to THEN "INACTIVE"
                          ELSE IF @ = "SCHEDULED" /\ time > entry.from
                          THEN "ACTIVE_NOT_NOTIFIED"
                          ELSE @]

Recalculate(c) ==
  /\ pc = "recalc" /\ c \in todo
  /\ todo' = todo \ {c}
  /\ states' =
       IF timestamp[c] = NoTimestamp THEN states
       ELSE [states EXCEPT ![c] =
               [k \in DOMAIN @ |-> UpdateState(@[k], ServerTime(timestamp[c]))]]
  /\ UNCHANGED <<url, timestamp, data, newStates, pc, ch, after, synced>>

RecalculateDone ==
  /\ AllVisited("recalc", after)
  /\ UNCHANGED <<files, newStates, ch, after, synced>>

-----------------------------------------------------------------------------
(* deleteTimestampFiles: what they say of the local time ends with the boot. *)

DeleteTimestamps_None == UNCHANGED timestamp
DeleteTimestamps == timestamp' = [c \in Channels |-> NoTimestamp]

(* addChannel takes the lowest number that is free. *)

AddChannel ==
  \E c \in Channels \ url :
    /\ \A d \in 1..(c - 1) : d \in url
    /\ url' = url \cup {c}

(* deleteChannel removes the files one by one, in the order of the directory. *)

DeleteStart(c) ==
  /\ ch' = c
  /\ pc' = "delete"
  /\ UNCHANGED <<files, newStates, todo, after, synced>>

DeleteFile ==
  /\ pc = "delete"
  /\ \/ ch \in url /\ url' = url \ {ch} /\ UNCHANGED <<timestamp, data, states, synced>>
     \/ timestamp[ch] # NoTimestamp /\ timestamp' = [timestamp EXCEPT ![ch] = NoTimestamp]
                                    /\ UNCHANGED <<url, data, states, synced>>
     \/ data[ch] # <<>> /\ data' = [data EXCEPT ![ch] = <<>>] /\ synced' = synced \ {ch}
                        /\ UNCHANGED <<url, timestamp, states>>
     \/ states[ch] # <<>> /\ states' = [states EXCEPT ![ch] = <<>>] /\ synced' = synced \ {ch}
                          /\ UNCHANGED <<url, timestamp, data>>
  /\ UNCHANGED <<newStates, pc, todo, ch, after>>

DeleteDone ==
  /\ pc = "delete"
  /\ ch \notin url /\ data[ch] = <<>> /\ states[ch] = <<>> /\ timestamp[ch] = NoTimestamp
  /\ pc' = "config" /\ ch' = NoChannel
  /\ UNCHANGED <<files, newStates, todo, after, synced>>
=============================================================================
