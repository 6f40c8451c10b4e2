------------------------- MODULE DefaultRomProofs -------------------------
(***************************************************************************)
(* The notifications of the default ROM, for any channels, feeds and times:  *)
(* the states files match the data, the screen shows what is meant, changes  *)
(* come on time, and the files implement NotificationLifecycle.              *)
(***************************************************************************)
EXTENDS DefaultRomProperties, BasicLemmas

LEMMA ConstantFacts ==
  /\ Channels \subseteq Nat \ {0} /\ NoChannel \notin Channels
  /\ NoId \notin Ids /\ NoTime \notin Int
  /\ Epoch \in Nat /\ Horizon \in Nat /\ Horizon < Epoch
  /\ Feeds \subseteq Seq(Lines)
BY ChannelsAssumption, IdsAssumption, TimesAssumption, NoTimeAssumption, FeedsAssumption

-----------------------------------------------------------------------------
\* The lines with an id, by their positions.
Positions(lines) == {k \in DOMAIN lines : lines[k].id # NoId}

LEMMA WithIdIs ==
  ASSUME NEW lines, Len(lines) \in Nat, DOMAIN lines = 1..Len(lines)
  PROVE  WithId(lines) \in Seq(Positions(lines))
<1> DEFINE n == Len(lines)
           X == Seq(Positions(lines))
           Extended(k, s) == IF lines[k].id # NoId THEN Append(s, k) ELSE s
           At == CHOOSE f : f = [k \in 0..n |-> IF k = 0 THEN <<>> ELSE Extended(k, f[k - 1])]
           step == [k \in 1..n |-> [s \in X |-> Extended(k, s)]]
<1>1. WithId(lines) = At[n]
  BY DEF WithId
<1>2. \A k \in 1..n : \A s \in X : Extended(k, s) \in X
  <2>1. SUFFICES ASSUME NEW k \in 1..n, NEW s \in X PROVE Extended(k, s) \in X
    OBVIOUS
  <2>2. CASE lines[k].id # NoId
    <3>1. k \in Positions(lines)
      BY <2>2 DEF Positions
    <3>2. QED BY <2>2, <3>1
  <2>3. QED BY <2>2
<1>3. <<>> \in X /\ n \in Nat
  OBVIOUS
<1> HIDE DEF X, n, Extended
<1>4. step \in [1..n -> [X -> X]]
  BY <1>2
<1>5. PICK f \in [0..n -> X] : f[0] = <<>> /\ \A k \in 1..n : f[k] = step[k][f[k - 1]]
  <2> HIDE DEF step, At
  <2>1. Recursive(X, <<>>, n, step) # {}
    BY ONLY <1>3, <1>4, Recursion, Zenon
  <2>2. QED BY ONLY <2>1 DEF Recursive
<1>6. f = [k \in 0..n |-> IF k = 0 THEN <<>> ELSE Extended(k, f[k - 1])]
  <2>1. ASSUME NEW k \in 1..n PROVE f[k] = Extended(k, f[k - 1])
    <3>1. f[k - 1] \in X
      BY <1>3, <1>5, <2>1
    <3>2. QED BY <1>5, <2>1, <3>1
  <2>2. \A k \in 0..n : k = 0 \/ k \in 1..n
    BY <1>3
  <2>3. QED BY <1>5, <2>1, <2>2
<1>7. At = [k \in 0..n |-> IF k = 0 THEN <<>> ELSE Extended(k, At[k - 1])]
  BY <1>6
<1> HIDE DEF At, step
<1>8. At[0] = <<>> /\ \A k \in 1..n : At[k] = Extended(k, At[k - 1])
  BY <1>3, <1>7
<1> DEFINE S == {k \in Nat : k <= n => At[k] \in X}
<1>9. 0 \in S
  BY <1>3, <1>8
<1>10. \A k \in Nat : k \in S => k + 1 \in S
  <2>1. \A k \in Nat : k + 1 <= n => k <= n /\ k + 1 \in 1..n /\ (k + 1) - 1 = k
    BY <1>3
  <2>2. QED BY <1>2, <1>8, <2>1
<1>11. Nat \subseteq S
  <2> HIDE DEF S
  <2>1. QED BY ONLY <1>9, <1>10, Induction
<1>12. At[n] \in X
  BY <1>3, <1>11
<1>13. QED BY <1>1, <1>12 DEF X

-----------------------------------------------------------------------------
\* The inductive invariant.

\* A line has both times or neither.
WholeLines == {l \in DataLines : l.from = NoTime <=> l.to = NoTime}

Types ==
  /\ now \in Epoch..(Epoch + Horizon) /\ booted \in Epoch..now
  /\ url \in SUBSET Channels
  /\ timestamp \in [Channels -> {NoTimestamp} \cup [server: Nat, local: 0..Horizon]]
  /\ data \in [Channels -> Seq(WholeLines)]
  /\ states \in [Channels -> Seq(Entries)]
  /\ newStates \in Seq(Entries)
  /\ pc \in {"setup", "loop", "fetch", "headers", "sync", "rename", "recalc", "timer",
             "announce", "receive", "config", "delete"}
  /\ todo \in SUBSET Channels
  /\ ch \in Channels \cup {NoChannel}
  /\ after \in {"loop", "timer", "announce"}
  /\ synced \in SUBSET Channels /\ interrupted \in SUBSET Channels
  /\ ennotif \in BOOLEAN
  /\ menu \subseteq Channels \X Ids
  /\ screen = NoScreen \/ screen \in Windows

\* An entry says of its line what the line says.
Matches(entries, lines) ==
  LET at == WithId(lines)
  IN  /\ Len(entries) = Len(at)
      /\ \A k \in DOMAIN at :
           LET e == entries[k]
               l == lines[at[k]]
           IN  e.pos = at[k] /\ e.id = l.id /\ e.from = l.from /\ e.to = l.to

\* While a states file is replaced its channel counts as not synced, and what is to
\* come is already what the data say.
ReplaceInv ==
  /\ pc \in {"headers", "rename", "delete"} => ch \in Channels
  /\ pc = "rename" => /\ ch \notin synced /\ states[ch] = <<>> /\ screen = NoScreen
                      /\ Matches(newStates, data[ch])

\* The server's clock when this boot began: the difference in a timestamp of it that
\* came whole.
ClockInv ==
  pc # "setup" =>
    \A c \in Channels : timestamp[c] # NoTimestamp /\ timestamp[c].server >= Epoch =>
                          timestamp[c].server = timestamp[c].local + booted

Inv == Types /\ ReplaceInv /\ ClockInv /\ StatesMatchData

-----------------------------------------------------------------------------
\* The entry of a notification, and no other one before it.
LEMMA FirstIs ==
  ASSUME NEW E, NEW entries \in Seq(E), NEW id, Known(entries, id)
  PROVE  \E k \in DOMAIN entries :
           /\ First(entries, id) = entries[k] /\ entries[k].id = id
           /\ \A j \in 1..(k - 1) : entries[j].id # id
<1> DEFINE T == {k \in DOMAIN entries : entries[k].id = id}
<1>1. DOMAIN entries = 1..Len(entries) /\ Len(entries) \in Nat
  OBVIOUS
<1>2. T \in SUBSET Nat /\ T # {}
  BY <1>1 DEF Known
<1>3. PICK k \in T : \A j \in T : k <= j
  <2> HIDE DEF T
  <2>1. QED BY <1>2, LeastNumber
<1>4. \A j \in 1..(k - 1) : entries[j].id # id
  BY <1>1, <1>3
<1>5. k \in DOMAIN entries /\ entries[k].id = id
  BY <1>3
<1> DEFINE P(j) == entries[j].id = id /\ \A i \in 1..(j - 1) : entries[i].id # id
<1>6. First(entries, id) = entries[CHOOSE j \in DOMAIN entries : P(j)]
  BY DEF First
<1>7. k \in DOMAIN entries /\ P(k)
  BY <1>4, <1>5
<1>8. (CHOOSE j \in DOMAIN entries : P(j)) \in DOMAIN entries /\ P(CHOOSE j \in DOMAIN entries : P(j))
  <2> HIDE DEF P
  <2>1. QED BY ONLY <1>7
<1>9. QED BY <1>6, <1>8

LEMMA FirstAt ==
  ASSUME NEW E, NEW entries \in Seq(E), NEW id, NEW k \in DOMAIN entries, entries[k].id = id,
         \A j \in 1..(k - 1) : entries[j].id # id
  PROVE  First(entries, id) = entries[k]
<1>1. Known(entries, id)
  BY DEF Known
<1>2. PICK m \in DOMAIN entries :
           /\ First(entries, id) = entries[m] /\ entries[m].id = id
           /\ \A j \in 1..(m - 1) : entries[j].id # id
  BY <1>1, FirstIs
<1>3. k \in Nat \ {0} /\ m \in Nat \ {0}
  OBVIOUS
<1>4. m = k
  BY <1>2, <1>3
<1>5. QED BY <1>2, <1>4

\* What a position leads to.
LEMMA Located ==
  ASSUME NEW lines \in Seq(WholeLines), NEW entries \in Seq(Entries), Matches(entries, lines),
         NEW k \in DOMAIN entries
  PROVE  entries[k].pos \in DOMAIN lines /\ lines[entries[k].pos].id = entries[k].id
<1> DEFINE at == WithId(lines)
<1>1. at \in Seq(Positions(lines))
  BY WithIdIs
<1>2. k \in DOMAIN at
  BY <1>1 DEF Matches
<1>3. at[k] \in DOMAIN lines
  BY <1>1, <1>2 DEF Positions
<1>4. entries[k].pos = at[k] /\ entries[k].id = lines[at[k]].id
  BY <1>2 DEF Matches
<1>5. QED BY <1>3, <1>4

\* The new states file: entries of the right kind, and of the data.
LEMMA RebuiltIs ==
  ASSUME NEW lines \in Seq(WholeLines), NEW old \in Seq(Entries), ~Unreadable(lines)
  PROVE  Rebuilt(lines, old) \in Seq(Entries) /\ Matches(Rebuilt(lines, old), lines)
<1> DEFINE at == WithId(lines)
           new == Rebuilt(lines, old)
<1>1. at \in Seq(Positions(lines)) /\ DOMAIN at = 1..Len(at) /\ Len(at) \in Nat
  BY WithIdIs
<1>2. new = [j \in 1..Len(at) |-> Entry(lines[at[j]], at[j], old)]
  BY <1>1 DEF Rebuilt
<1>3. ASSUME NEW j \in 1..Len(at)
      PROVE  /\ Entry(lines[at[j]], at[j], old) \in Entries
             /\ LET e == Entry(lines[at[j]], at[j], old)
                    l == lines[at[j]]
                IN  e.pos = at[j] /\ e.id = l.id /\ e.from = l.from /\ e.to = l.to
  <2> DEFINE k == at[j]
             l == lines[k]
             st == IF Known(old, l.id) THEN First(old, l.id).state ELSE "SCHEDULED"
             e == [id |-> l.id, state |-> st, from |-> l.from, to |-> l.to, pos |-> k]
  <2>1. k \in DOMAIN lines /\ k \in Nat \ {0} /\ l.id # NoId
    BY <1>1, <1>3 DEF Positions
  <2>2. l \in WholeLines
    BY <2>1
  <2>3. l.from # NoTime /\ l.to # NoTime
    BY <2>1, <2>2 DEF Unreadable, WholeLines
  <2>4. l.id \in Ids /\ l.from \in Nat /\ l.to \in Nat
    BY <2>1, <2>2, <2>3 DEF WholeLines, DataLines
  <2>5. st \in StateNames
    <3>1. CASE Known(old, l.id)
      <4>1. PICK m \in DOMAIN old : First(old, l.id) = old[m]
        BY <3>1, FirstIs
      <4>2. First(old, l.id) \in Entries
        BY <4>1
      <4>3. QED BY <3>1, <4>2 DEF Entries
    <3>2. QED BY <3>1 DEF StateNames
  <2>6. Entry(lines[at[j]], at[j], old) = e
    BY DEF Entry
  <2> HIDE DEF k, l, st
  <2>7. e \in Entries /\ e.pos = k /\ e.id = l.id /\ e.from = l.from /\ e.to = l.to
    BY <2>1, <2>4, <2>5 DEF Entries
  <2> HIDE DEF e
  <2>8. QED BY <2>6, <2>7 DEF k, l
<1> HIDE DEF at, new
<1>4. new \in Seq(Entries) /\ Len(new) = Len(at)
  BY <1>1, <1>2, <1>3
<1>5. Matches(new, lines)
  BY <1>1, <1>2, <1>3, <1>4 DEF Matches, at
<1>6. QED BY <1>4, <1>5 DEF new

\* Whatever part of a feed arrives is made of lines of the right kind.
LEMMA AnswersAre == Answers \subseteq Seq(WholeLines)
<1>1. Lines \subseteq WholeLines /\ NoIdLine \in WholeLines
  BY ConstantFacts DEF Lines, WholeLines, DataLines, NoIdLine
<1>2. \A l \in Lines : Cuts(l) \subseteq WholeLines
  <2>1. SUFFICES ASSUME NEW l \in Lines PROVE Cuts(l) \subseteq WholeLines
    OBVIOUS
  <2>2. [l EXCEPT !.from = NoTime, !.to = NoTime] \in WholeLines
    BY <2>1 DEF Lines, WholeLines, DataLines
  <2>3. [l EXCEPT !.to = 0] \in WholeLines
    BY <2>1, ConstantFacts DEF Lines, WholeLines, DataLines
  <2>4. QED BY <1>1, <2>2, <2>3 DEF Cuts
<1>3. ASSUME NEW feed \in Feeds, NEW n \in 0..Len(feed) PROVE SubSeq(feed, 1, n) \in Seq(WholeLines)
  <2>1. feed \in Seq(Lines)
    BY ConstantFacts
  <2>2. SubSeq(feed, 1, n) \in Seq(Lines)
    BY <2>1, <1>3
  <2>3. QED BY <1>1, <2>2
<1>4. ASSUME NEW feed \in Feeds, NEW n \in 1..Len(feed), NEW l \in Cuts(feed[n])
      PROVE  Append(SubSeq(feed, 1, n - 1), l) \in Seq(WholeLines)
  <2>1. feed \in Seq(Lines) /\ n - 1 \in 0..Len(feed)
    BY <1>4, ConstantFacts
  <2>2. l \in WholeLines
    BY <1>2, <1>4, <2>1
  <2>3. SubSeq(feed, 1, n - 1) \in Seq(WholeLines)
    BY <1>3, <2>1
  <2>4. QED BY <2>2, <2>3
<1>5. ASSUME NEW feed \in Feeds, NEW x \in Received(feed) PROVE x \in Seq(WholeLines)
  <2>1. \/ \E n \in 0..Len(feed) : x = SubSeq(feed, 1, n)
        \/ \E n \in 1..Len(feed) : \E l \in Cuts(feed[n]) : x = Append(SubSeq(feed, 1, n - 1), l)
    BY DEF Received
  <2>2. CASE \E n \in 0..Len(feed) : x = SubSeq(feed, 1, n)
    BY <1>3, <2>2
  <2>3. CASE \E n \in 1..Len(feed) : \E l \in Cuts(feed[n]) : x = Append(SubSeq(feed, 1, n - 1), l)
    <3>1. PICK n \in 1..Len(feed) : \E l \in Cuts(feed[n]) : x = Append(SubSeq(feed, 1, n - 1), l)
      BY <2>3
    <3>2. PICK l \in Cuts(feed[n]) : x = Append(SubSeq(feed, 1, n - 1), l)
      BY <3>1
    <3>3. Append(SubSeq(feed, 1, n - 1), l) \in Seq(WholeLines)
      BY <1>4
    <3>4. QED BY <3>2, <3>3
  <2>4. QED BY <2>1, <2>2, <2>3
<1>6. <<NoIdLine>> \in Seq(WholeLines)
  BY <1>1
<1>7. ASSUME NEW x \in Answers PROVE x \in Seq(WholeLines)
  <2>1. x = <<NoIdLine>> \/ \E feed \in Feeds : x \in Received(feed)
    BY DEF Answers
  <2>2. QED BY <1>5, <1>6, <2>1
<1>8. QED BY <1>7

-----------------------------------------------------------------------------
\* The steps that change neither the clock nor what is known of the notifications:
\* they move the thread, or the user changes what is open or which channels there are.
LEMMA ControlKeeps ==
  ASSUME Inv, UNCHANGED <<now, booted, timestamp, data, states, newStates>>,
         url' \subseteq Channels, todo' \subseteq Channels, synced' = synced,
         interrupted' \subseteq Channels,
         ch' \in Channels \cup {NoChannel}, after' \in {"loop", "timer", "announce"},
         ennotif' \in BOOLEAN, menu' \subseteq Channels \X Ids, screen' = NoScreen,
         pc # "setup",
         pc' \in {"loop", "fetch", "headers", "sync", "recalc", "timer", "announce", "receive",
                 "config", "delete"},
         pc' \in {"headers", "delete"} => ch' \in Channels
  PROVE  Inv'
<1>1. Types'
  BY DEF Inv, Types
<1>2. ReplaceInv'
  BY DEF ReplaceInv
<1>3. ClockInv'
  BY DEF Inv, ClockInv
<1>4. StatesMatchData'
  BY DEF Inv, StatesMatchData
<1>5. QED BY <1>1, <1>2, <1>3, <1>4 DEF Inv

\* The control steps of the loop, and of the database between two channels.
LEMMA ControlSteps ==
  ASSUME Inv,
         \/ LoopPull \/ LoopNoPull \/ EverySecond \/ NotYet \/ NothingToAnnounce
         \/ ReceivingEnds
         \/ (\E c \in Channels : (FetchFails(c) \/ Request(c)) /\ Elsewhere)
         \/ (FetchDone /\ Elsewhere) \/ (SyncDone /\ Elsewhere) \/ (RecalculateDone /\ Elsewhere)
         \/ (DeleteDone /\ Elsewhere)
  PROVE  Inv'
<1>1. /\ url \subseteq Channels /\ todo \subseteq Channels /\ synced \subseteq Channels
      /\ interrupted \subseteq Channels
      /\ ch \in Channels \cup {NoChannel} /\ after \in {"loop", "timer", "announce"}
      /\ ennotif \in BOOLEAN /\ menu \subseteq Channels \X Ids
  BY DEF Inv, Types
<1>2. CASE LoopPull \/ LoopNoPull \/ EverySecond \/ NotYet \/ NothingToAnnounce \/ ReceivingEnds
  BY <1>1, <1>2, ControlKeeps
     DEF LoopPull, LoopNoPull, EverySecond, NotYet, NothingToAnnounce, ReceivingEnds, LoopEnds,
         Quietly, clock, history, files
<1>3. ASSUME NEW c \in Channels, FetchFails(c) \/ Request(c), Elsewhere PROVE Inv'
  BY <1>1, <1>3, ControlKeeps DEF FetchFails, Request, Elsewhere, Quietly, clock, files
<1>4. CASE (FetchDone \/ SyncDone \/ RecalculateDone) /\ Elsewhere
  BY <1>1, <1>4, ControlKeeps
     DEF FetchDone, SyncDone, RecalculateDone, AllVisited, Elsewhere, Quietly, clock, files
<1>5. CASE DeleteDone /\ Elsewhere
  BY <1>1, <1>5, ControlKeeps DEF DeleteDone, Elsewhere, Quietly, clock, files
<1>6. QED BY <1>2, <1>3, <1>4, <1>5

LEMMA ListedIds ==
  ASSUME Types, NEW c \in Channels
  PROVE  Listed(c) \subseteq Ids
<1>1. states[c] \in Seq(Entries)
  BY DEF Types
<1>2. \A k \in DOMAIN states[c] : states[c][k].id \in Ids
  <2>1. \A k \in DOMAIN states[c] : states[c][k] \in Entries
    BY <1>1
  <2>2. QED BY <2>1 DEF Entries
<1>3. QED BY <1>2 DEF Listed

LEMMA UserControlSteps ==
  ASSUME Inv,
         \/ AcceptChannel \/ ToggleNotifications \/ OpenMenu \/ OpenConfig
         \/ \E c \in Channels : DeleteChannel(c)
  PROVE  Inv'
<1>1. /\ url \subseteq Channels /\ todo \subseteq Channels /\ synced \subseteq Channels
      /\ interrupted \subseteq Channels
      /\ ch \in Channels \cup {NoChannel} /\ after \in {"loop", "timer", "announce"}
      /\ ennotif \in BOOLEAN /\ menu \subseteq Channels \X Ids
  BY DEF Inv, Types
<1>2. CASE AcceptChannel
  BY <1>1, <1>2, ControlKeeps DEF AcceptChannel, AddChannel, AtUser, Quietly, clock, history
<1>3. CASE ToggleNotifications
  BY <1>1, <1>3, ControlKeeps DEF ToggleNotifications, AtUser, Quietly, clock, history, files
<1>4. CASE OpenMenu
  <2>1. menu' \subseteq Channels \X Ids
    <3>1. \A c \in url : Listed(c) \subseteq Ids
      BY <1>1, ListedIds DEF Inv
    <3>2. menu' = UNION {{<<c, id>> : id \in Listed(c)} : c \in url}
      BY <1>4 DEF OpenMenu
    <3>3. QED BY <1>1, <3>1, <3>2
  <2>2. QED BY <1>1, <1>4, <2>1, ControlKeeps DEF OpenMenu, AtUser, clock, history, files
<1>5. CASE OpenConfig
  BY <1>1, <1>5, ControlKeeps DEF OpenConfig, AtUser, Quietly, clock, history, files
<1>6. ASSUME NEW c \in Channels, DeleteChannel(c) PROVE Inv'
  BY <1>1, <1>6, ControlKeeps DEF DeleteChannel, DeleteStart, Elsewhere, Quietly, clock, files
<1>7. QED BY <1>2, <1>3, <1>4, <1>5, <1>6

-----------------------------------------------------------------------------
\* The steps that do change them.
LEMMA SetupKeeps == ASSUME Inv, Setup PROVE Inv'
<1>1. /\ timestamp' = [c \in Channels |-> NoTimestamp]
      /\ pc' \in {"loop", "fetch", "config"} /\ todo' \subseteq Channels /\ after' = "loop"
      /\ screen' = NoScreen
      /\ UNCHANGED <<now, booted, url, data, states, newStates, ch, synced, interrupted, ennotif,
                     menu>>
  BY DEF Setup, DeleteTimestamps, Quietly, clock, history, Inv, Types
<1>2. Types'
  BY <1>1 DEF Inv, Types
<1>3. ReplaceInv'
  BY <1>1 DEF ReplaceInv
<1>4. ClockInv'
  BY <1>1 DEF ClockInv
<1>5. StatesMatchData'
  BY <1>1 DEF Inv, StatesMatchData
<1>6. QED BY <1>2, <1>3, <1>4, <1>5 DEF Inv

\* A time of which only a part came is not one the servers have had.
LEMMA ServerTimesAre ==
  ASSUME Inv, NEW server \in ServerTimes
  PROVE  server \in Nat /\ (server >= Epoch => server = now)
<1>1. now \in Epoch..(Epoch + Horizon) /\ Epoch \in Nat /\ Horizon \in Nat /\ Horizon < Epoch
  BY ConstantFacts DEF Inv, Types
<1>2. now \div 10 \in Nat /\ now \div 10 < Epoch
  BY ONLY <1>1
<1>3. server = now \/ server \in 0..(now \div 10)
  BY DEF ServerTimes
<1>4. QED BY ONLY <1>1, <1>2, <1>3

LEMMA FetchKeeps == ASSUME Inv, FetchAny, Elsewhere PROVE Inv'
<1>1. PICK answer \in Answers, server \in ServerTimes : Fetch(answer, server)
  BY DEF FetchAny
<1>2. /\ pc = "headers" /\ pc' = "fetch" /\ todo' \subseteq todo /\ ch' = NoChannel
      /\ timestamp' = [timestamp EXCEPT ![ch] = [server |-> server, local |-> Seconds]]
      /\ data' = [data EXCEPT ![ch] = answer]
      /\ synced' = synced \ {ch} /\ interrupted' \subseteq interrupted /\ screen' = NoScreen
      /\ UNCHANGED <<url, states, newStates, after, now, booted, ennotif, menu>>
  BY <1>1 DEF Fetch, Elsewhere, Quietly, clock
<1>3. /\ now \in Nat /\ booted \in Nat /\ Seconds \in 0..Horizon /\ Seconds + booted = now
      /\ server \in Nat /\ (server >= Epoch => server = now) /\ ch \in Channels
  BY <1>2, ConstantFacts, ServerTimesAre DEF Inv, Types, ReplaceInv, Seconds
<1>4. Types'
  <2>1. data' \in [Channels -> Seq(WholeLines)]
    BY <1>2, AnswersAre DEF Inv, Types
  <2>2. [server |-> server, local |-> Seconds] \in [server: Nat, local: 0..Horizon]
    BY <1>3
  <2>3. timestamp' \in [Channels -> {NoTimestamp} \cup [server: Nat, local: 0..Horizon]]
    BY <1>2, <2>2 DEF Inv, Types
  <2>4. QED BY <1>2, <2>1, <2>3 DEF Inv, Types
<1>5. ReplaceInv'
  BY <1>2 DEF ReplaceInv
<1>6. ClockInv'
  <2>1. ASSUME NEW d \in Channels, timestamp'[d] # NoTimestamp, timestamp'[d].server >= Epoch
        PROVE  timestamp'[d].server = timestamp'[d].local + booted
    <3>1. CASE d = ch
      <4>1. timestamp'[d] = [server |-> server, local |-> Seconds]
        BY <1>2, <3>1 DEF Inv, Types
      <4>2. server = now
        BY <1>3, <2>1, <4>1
      <4>3. QED BY <1>3, <4>1, <4>2
    <3>2. CASE d # ch
      BY <1>2, <2>1, <3>2 DEF Inv, Types, ClockInv
    <3>3. QED BY <3>1, <3>2
  <2>2. QED BY <1>2, <2>1 DEF ClockInv
<1>7. StatesMatchData'
  BY <1>2 DEF Inv, Types, StatesMatchData
<1>8. QED BY <1>4, <1>5, <1>6, <1>7 DEF Inv

LEMMA RemoveStatesKeeps ==
  ASSUME Inv, NEW c \in Channels, RemoveStates(c), Elsewhere
  PROVE  Inv'
<1>1. /\ newStates' = Rebuilt(data[c], states[c]) /\ ~Unreadable(data[c])
      /\ states' = [states EXCEPT ![c] = <<>>] /\ synced' = synced \ {c} /\ ch' = c
      /\ pc = "sync" /\ pc' = "rename" /\ screen' = NoScreen /\ interrupted' \subseteq interrupted
      /\ UNCHANGED <<url, timestamp, data, todo, after, now, booted, ennotif, menu>>
  BY DEF RemoveStates, Elsewhere, Quietly, clock
<1>2. newStates' \in Seq(Entries) /\ Matches(newStates', data[c])
  BY <1>1, RebuiltIs DEF Inv, Types
<1>3. states' \in [Channels -> Seq(Entries)] /\ states'[c] = <<>>
  BY <1>1 DEF Inv, Types
<1>4. Types'
  BY <1>1, <1>2, <1>3 DEF Inv, Types
<1>5. ReplaceInv'
  BY <1>1, <1>2, <1>3 DEF ReplaceInv
<1>6. ClockInv'
  BY <1>1 DEF Inv, ClockInv
<1>7. StatesMatchData'
  BY <1>1 DEF Inv, Types, StatesMatchData
<1>8. QED BY <1>4, <1>5, <1>6, <1>7 DEF Inv

LEMMA RenameStatesKeeps == ASSUME Inv, RenameStates, Elsewhere PROVE Inv'
<1>1. /\ states' = [states EXCEPT ![ch] = newStates] /\ newStates' = <<>>
      /\ synced' = synced \cup {ch} /\ todo' \subseteq todo
      /\ pc = "rename" /\ pc' = "sync" /\ ch' = NoChannel /\ screen' = NoScreen
      /\ interrupted' \subseteq interrupted
      /\ UNCHANGED <<url, timestamp, data, after, now, booted, ennotif, menu>>
  BY DEF RenameStates, Elsewhere, Quietly, clock
<1>2. ch \in Channels /\ Matches(newStates, data[ch])
  BY <1>1 DEF Inv, ReplaceInv
<1>3. /\ states' \in [Channels -> Seq(Entries)] /\ states'[ch] = newStates
      /\ \A d \in Channels \ {ch} : states'[d] = states[d]
  BY <1>1, <1>2 DEF Inv, Types
<1>4. Types'
  <2>1. <<>> \in Seq(Entries)
    OBVIOUS
  <2>2. QED BY <1>1, <1>2, <1>3, <2>1 DEF Inv, Types
<1>5. ReplaceInv'
  BY <1>1 DEF ReplaceInv
<1>6. ClockInv'
  BY <1>1 DEF Inv, ClockInv
<1>7. StatesMatchData'
  <2>1. \A d \in synced' : Matches(states'[d], data'[d])
    <3>1. \A d \in synced : d \in Channels /\ Matches(states[d], data[d])
      BY DEF Inv, Types, StatesMatchData, Matches
    <3>2. QED BY <1>1, <1>2, <1>3, <3>1
  <2>2. QED BY <2>1 DEF StatesMatchData, Matches
<1>8. QED BY <1>4, <1>5, <1>6, <1>7 DEF Inv

\* An entry moved through its states is still the entry of its line.
LEMMA UpdatedEntry ==
  ASSUME NEW e \in Entries, NEW time
  PROVE  LET u == UpdateState(e, time)
         IN  /\ u \in Entries
             /\ u.pos = e.pos /\ u.id = e.id /\ u.from = e.from /\ u.to = e.to
BY DEF UpdateState, Entries, StateNames

\* Entries change in place: the states file matches the data if it did.
LEMMA InPlace ==
  ASSUME NEW E, NEW F, NEW old \in Seq(E), NEW new \in Seq(F), NEW lines, Len(new) = Len(old),
         \A k \in 1..Len(old) : /\ new[k].pos = old[k].pos /\ new[k].id = old[k].id
                                /\ new[k].from = old[k].from /\ new[k].to = old[k].to,
         Matches(old, lines), lines \in Seq(WholeLines)
  PROVE  Matches(new, lines)
<1> DEFINE at == WithId(lines)
<1>1. at \in Seq(Positions(lines))
  BY WithIdIs
<1>2. DOMAIN at = 1..Len(old)
  BY <1>1 DEF Matches
<1>3. QED BY <1>2 DEF Matches

LEMMA RecalculateKeeps ==
  ASSUME Inv, NEW c \in Channels, Recalculate(c), Elsewhere
  PROVE  Inv'
<1> DEFINE old == states[c]
           time == ServerTime(timestamp[c])
           new == [k \in DOMAIN old |-> UpdateState(old[k], time)]
<1>1. /\ pc = "recalc" /\ pc' = pc /\ todo' \subseteq todo /\ screen' = NoScreen
      /\ interrupted' \subseteq interrupted
      /\ UNCHANGED <<now, booted, url, timestamp, data, newStates, ch, after, synced, ennotif, menu>>
  BY DEF Recalculate, Elsewhere, Quietly, clock
<1>2. states' = states \/ states' = [states EXCEPT ![c] = new]
  BY DEF Recalculate
<1>3. old \in Seq(Entries) /\ DOMAIN old = 1..Len(old) /\ Len(old) \in Nat
  BY DEF Inv, Types
<1>4. \A k \in DOMAIN old :
        /\ new[k] \in Entries
        /\ new[k].pos = old[k].pos /\ new[k].id = old[k].id
        /\ new[k].from = old[k].from /\ new[k].to = old[k].to
  <2> HIDE DEF time
  <2>1. QED BY <1>3, UpdatedEntry
<1>5. new \in Seq(Entries) /\ Len(new) = Len(old)
  <2> HIDE DEF time
  <2>1. DOMAIN new = 1..Len(old)
    BY <1>3
  <2> HIDE DEF new
  <2>2. new = [k \in 1..Len(old) |-> new[k]]
    BY <1>3, <1>2 DEF new
  <2>3. QED BY <1>3, <1>4, <2>1, <2>2
<1> HIDE DEF new
<1>6. /\ states' \in [Channels -> Seq(Entries)]
      /\ \A d \in Channels : states'[d] = states[d] \/ (d = c /\ states'[d] = new)
  BY <1>2, <1>5 DEF Inv, Types
<1>7. Types'
  BY <1>1, <1>6 DEF Inv, Types
<1>8. ReplaceInv'
  BY <1>1 DEF ReplaceInv
<1>9. ClockInv'
  BY <1>1 DEF Inv, ClockInv
<1>10. StatesMatchData'
  <2>1. c \in synced => Matches(new, data[c])
    <3>1. c \in synced => Matches(old, data[c])
      BY DEF Inv, StatesMatchData, Matches
    <3>2. data[c] \in Seq(WholeLines)
      BY DEF Inv, Types
    <3> HIDE DEF old
    <3>3. QED BY <1>3, <1>4, <1>5, <3>1, <3>2, InPlace
  <2>2. \A d \in synced' : Matches(states'[d], data'[d])
    <3>1. \A d \in synced : d \in Channels /\ Matches(states[d], data[d])
      BY DEF Inv, Types, StatesMatchData, Matches
    <3>2. QED BY <1>1, <1>6, <2>1, <3>1
  <2>3. QED BY <2>2 DEF StatesMatchData, Matches
<1>11. QED BY <1>7, <1>8, <1>9, <1>10 DEF Inv

LEMMA DeleteFileKeeps == ASSUME Inv, DeleteFile, Elsewhere PROVE Inv'
<1>1. /\ pc = "delete" /\ screen' = NoScreen /\ interrupted' \subseteq interrupted
      /\ UNCHANGED <<newStates, pc, todo, ch, after, now, booted, ennotif, menu>>
      /\ url' \subseteq url /\ synced' \subseteq synced
      /\ data' = data \/ data' = [data EXCEPT ![ch] = <<>>]
      /\ states' = states \/ states' = [states EXCEPT ![ch] = <<>>]
      /\ UNCHANGED <<data, states>> \/ ch \notin synced'
      /\ timestamp' = timestamp \/ timestamp' = [timestamp EXCEPT ![ch] = NoTimestamp]
  BY DEF DeleteFile, Elsewhere, Quietly, clock
<1>2. ch \in Channels
  BY <1>1 DEF Inv, ReplaceInv
<1>3. /\ data' \in [Channels -> Seq(WholeLines)] /\ states' \in [Channels -> Seq(Entries)]
      /\ timestamp' \in [Channels -> {NoTimestamp} \cup [server: Nat, local: 0..Horizon]]
      /\ \A d \in Channels \ {ch} : data'[d] = data[d] /\ states'[d] = states[d]
      /\ \A d \in Channels : timestamp'[d] = timestamp[d] \/ timestamp'[d] = NoTimestamp
  <2> DEFINE D == Seq(WholeLines)
             E == Seq(Entries)
             Stamps == {NoTimestamp} \cup [server: Nat, local: 0..Horizon]
  <2>1. data \in [Channels -> D] /\ states \in [Channels -> E] /\ timestamp \in [Channels -> Stamps]
    BY DEF Inv, Types
  <2>2. <<>> \in D /\ <<>> \in E /\ NoTimestamp \in Stamps
    OBVIOUS
  <2> HIDE DEF D, E, Stamps, NoTimestamp
  <2>3. data' \in [Channels -> D] /\ \A d \in Channels \ {ch} : data'[d] = data[d]
    BY ONLY <1>1, <1>2, <2>1, <2>2
  <2>4. states' \in [Channels -> E] /\ \A d \in Channels \ {ch} : states'[d] = states[d]
    BY ONLY <1>1, <1>2, <2>1, <2>2
  <2>5. /\ timestamp' \in [Channels -> Stamps]
        /\ \A d \in Channels : timestamp'[d] = timestamp[d] \/ timestamp'[d] = NoTimestamp
    BY ONLY <1>1, <1>2, <2>1, <2>2
  <2>6. QED BY <2>3, <2>4, <2>5 DEF D, E, Stamps
<1>4. Types'
  BY <1>1, <1>3 DEF Inv, Types
<1>5. ReplaceInv'
  BY <1>1, <1>2 DEF ReplaceInv
<1>6. ClockInv'
  BY <1>1, <1>3 DEF Inv, ClockInv
<1>7. StatesMatchData'
  <2>1. \A d \in synced : d \in Channels /\ Matches(states[d], data[d])
    BY <1>2 DEF Inv, Types, StatesMatchData, Matches
  <2>2. \A d \in synced' : states'[d] = states[d] /\ data'[d] = data[d]
    BY <1>1, <1>3, <2>1
  <2>3. \A d \in synced' : Matches(states'[d], data'[d])
    BY <1>1, <2>1, <2>2
  <2>4. QED BY <2>3 DEF StatesMatchData, Matches
<1>8. QED BY <1>4, <1>5, <1>6, <1>7 DEF Inv

\* What is opened is a window of that channel, meant for that entry, and in a
\* synced channel it has its text.
LEMMA OpensIs ==
  ASSUME Inv, NEW c \in Channels, NEW k \in DOMAIN states[c], Opens(c, states[c][k])
  PROVE  /\ screen' \in Windows /\ screen'.channel = c /\ screen'.want = states[c][k].id
         /\ c \in synced => screen'.got = screen'.want
         /\ c \notin synced => data[c] # <<>>
<1> DEFINE e == states[c][k]
<1>1. /\ data[c] \in Seq(WholeLines) /\ states[c] \in Seq(Entries) /\ NoId \notin Ids
  BY ConstantFacts DEF Inv, Types
<1>2. e.id \in Ids
  <2>1. e \in Entries
    BY <1>1
  <2>2. QED BY <2>1 DEF Entries
<1>3. PICK id \in Texts(c, e) : screen' = [channel |-> c, want |-> e.id, got |-> id]
  BY DEF Opens
<1>4. CASE c \in synced
  <2>1. Matches(states[c], data[c])
    BY <1>4 DEF Inv, StatesMatchData, Matches
  <2>2. e.pos \in DOMAIN data[c] /\ data[c][e.pos].id = e.id
    BY <1>1, <2>1, Located
  <2> HIDE DEF e
  <2>3. id = e.id
    BY <1>3, <1>4, <2>2 DEF Texts, TextId
  <2>4. QED BY <1>2, <1>3, <1>4, <2>3 DEF Windows, e
<1>5. CASE c \notin synced
  <2> HIDE DEF e
  <2>1. PICK j \in DOMAIN data[c] : id = data[c][j].id /\ id # NoId
    BY <1>3, <1>5 DEF Texts
  <2>2. data[c][j] \in WholeLines
    BY <1>1
  <2>3. id \in Ids
    BY <2>1, <2>2 DEF WholeLines, DataLines
  <2>4. data[c] # <<>>
    BY <2>1
  <2>5. QED BY <1>2, <1>3, <1>5, <2>3, <2>4 DEF Windows, e
<1>6. QED BY <1>4, <1>5

LEMMA AnnounceKeeps == ASSUME Inv, Announce PROVE Inv'
<1>1. /\ pc = "announce" /\ pc' \in {"loop", "receive"}
      /\ UNCHANGED <<now, booted, url, timestamp, data, newStates, todo, ch, after, synced,
                     interrupted, ennotif, menu>>
  BY DEF Announce, LoopEnds, clock, history
<1>2. PICK c \in url : \E k \in DOMAIN states[c] :
        /\ IsFirstWaiting(c, k)
        /\ Opens(c, states[c][k])
        /\ states' = [states EXCEPT ![c][k].state = "NOTIFIED"]
  BY DEF Announce
<1>3. PICK k \in DOMAIN states[c] :
        /\ Opens(c, states[c][k])
        /\ states' = [states EXCEPT ![c][k].state = "NOTIFIED"]
  BY <1>2
<1>4. c \in Channels
  BY DEF Inv, Types
<1> DEFINE old == states[c]
           new == [old EXCEPT ![k].state = "NOTIFIED"]
<1>5. old \in Seq(Entries) /\ k \in 1..Len(old) /\ old[k] \in Entries
  BY <1>4 DEF Inv, Types
<1>6. [old[k] EXCEPT !.state = "NOTIFIED"] \in Entries
  BY <1>5 DEF Entries, StateNames
<1>7. new \in Seq(Entries) /\ Len(new) = Len(old)
  BY <1>5, <1>6
<1>8. \A j \in 1..Len(old) : /\ new[j].pos = old[j].pos /\ new[j].id = old[j].id
                             /\ new[j].from = old[j].from /\ new[j].to = old[j].to
  <2>1. \A j \in 1..Len(old) : old[j] \in Entries
    BY <1>5
  <2>2. \A j \in 1..Len(old) : new[j] = IF j = k THEN [old[k] EXCEPT !.state = "NOTIFIED"] ELSE old[j]
    BY <1>5
  <2> HIDE DEF new, old
  <2>3. QED BY <2>1, <2>2 DEF Entries
<1>9. states' = [states EXCEPT ![c] = new]
  BY <1>3
<1> HIDE DEF new
<1>10. /\ states' \in [Channels -> Seq(Entries)] /\ states'[c] = new
       /\ \A d \in Channels \ {c} : states'[d] = states[d]
  BY <1>4, <1>7, <1>9 DEF Inv, Types
<1>11. screen' \in Windows
  BY <1>3, <1>4, OpensIs
<1>12. Types'
  BY <1>1, <1>10, <1>11 DEF Inv, Types
<1>13. ReplaceInv'
  BY <1>1 DEF ReplaceInv
<1>14. ClockInv'
  BY <1>1 DEF Inv, ClockInv
<1>15. StatesMatchData'
  <2>1. \A d \in synced : d \in Channels /\ Matches(states[d], data[d])
    BY DEF Inv, Types, StatesMatchData, Matches
  <2>2. data[c] \in Seq(WholeLines)
    BY <1>4 DEF Inv, Types
  <2>3. c \in synced => Matches(new, data[c])
    <3>1. c \in synced => Matches(old, data[c])
      BY <2>1
    <3> HIDE DEF old
    <3>2. QED BY <1>5, <1>7, <1>8, <2>2, <3>1, InPlace
  <2>4. \A d \in synced' : Matches(states'[d], data'[d])
    BY <1>1, <1>10, <2>1, <2>3
  <2>5. QED BY <2>4 DEF StatesMatchData, Matches
<1>16. QED BY <1>12, <1>13, <1>14, <1>15 DEF Inv

LEMMA SelectKeeps ==
  ASSUME Inv, NEW c \in Channels, NEW id \in Ids, Select(c, id)
  PROVE  Inv'
<1>1. /\ pc \notin {"rename", "setup"} /\ UNCHANGED <<now, booted, ennotif, menu>>
      /\ UNCHANGED <<url, timestamp, data, states, newStates, pc, todo, ch, after, synced, interrupted>>
  BY DEF Select, AtUser, clock, history, files
<1>2. screen' = NoScreen \/ screen' \in Windows
  <2>1. CASE Known(states[c], id)
    <3>1. states[c] \in Seq(Entries)
      BY DEF Inv, Types
    <3>2. PICK k \in DOMAIN states[c] : First(states[c], id) = states[c][k]
      BY <2>1, <3>1, FirstIs
    <3>3. screen' = NoScreen \/ Opens(c, states[c][k])
      BY <3>2 DEF Select
    <3>4. QED BY <3>3, OpensIs
  <2>2. CASE ~Known(states[c], id)
    BY <2>2 DEF Select
  <2>3. QED BY <2>1, <2>2
<1>3. Types'
  BY <1>1, <1>2 DEF Inv, Types
<1>4. ReplaceInv'
  BY <1>1 DEF Inv, ReplaceInv
<1>5. ClockInv'
  BY <1>1 DEF Inv, ClockInv
<1>6. StatesMatchData'
  BY <1>1 DEF Inv, StatesMatchData
<1>7. QED BY <1>2, <1>3, <1>4, <1>5, <1>6 DEF Inv

LEMMA StartOverKeeps == ASSUME Inv, StartOver PROVE Inv'
<1>1. /\ pc' = "setup" /\ booted' = now /\ newStates' = <<>> /\ todo' = {} /\ ch' = NoChannel
      /\ after' = "loop" /\ menu' = {} /\ screen' = NoScreen
      /\ UNCHANGED <<now, url, timestamp, data, states, synced, ennotif>>
      /\ interrupted' \subseteq interrupted \cup url
  BY DEF StartOver, CutShort, files
<1>2. Types'
  <2>1. <<>> \in Seq(Entries) /\ now \in Epoch..now
    BY ConstantFacts DEF Inv, Types
  <2>2. QED BY <1>1, <2>1 DEF Inv, Types
<1>3. ReplaceInv' /\ ClockInv'
  BY <1>1 DEF ReplaceInv, ClockInv
<1>4. StatesMatchData'
  BY <1>1 DEF Inv, StatesMatchData
<1>5. QED BY <1>2, <1>3, <1>4 DEF Inv

LEMMA TickKeeps == ASSUME Inv, Tick PROVE Inv'
<1>1. /\ now < Epoch + Horizon /\ now' = now + 1 /\ screen' = NoScreen
      /\ UNCHANGED <<booted, url, timestamp, data, states, newStates, pc, todo, ch, after, synced,
                     interrupted, ennotif, menu>>
  BY DEF Tick, Quietly, history, files
<1>2. Types'
  <2>1. now' \in Epoch..(Epoch + Horizon) /\ booted \in Epoch..now'
    BY <1>1, ConstantFacts DEF Inv, Types
  <2>2. QED BY <1>1, <2>1 DEF Inv, Types
<1>3. ReplaceInv'
  BY <1>1 DEF Inv, ReplaceInv
<1>4. ClockInv'
  BY <1>1 DEF Inv, ClockInv
<1>5. StatesMatchData'
  BY <1>1 DEF Inv, StatesMatchData
<1>6. QED BY <1>2, <1>3, <1>4, <1>5 DEF Inv

LEMMA InvInit == Init => Inv
<1>1. SUFFICES ASSUME Init PROVE Inv
  OBVIOUS
<1>2. Types
  <2>1. <<>> \in Seq(Entries) /\ <<>> \in Seq(WholeLines)
    OBVIOUS
  <2>2. now \in Epoch..(Epoch + Horizon) /\ booted \in Epoch..now
    BY <1>1, ConstantFacts DEF Init
  <2> HIDE DEF NoTimestamp
  <2>3. QED BY <1>1, <2>1, <2>2 DEF Init, Types
<1>3. ReplaceInv /\ ClockInv /\ StatesMatchData
  BY <1>1 DEF Init, ReplaceInv, ClockInv, StatesMatchData
<1>4. QED BY <1>2, <1>3 DEF Inv

LEMMA InvStep == Inv /\ [Next]_vars => Inv'
<1>1. SUFFICES ASSUME Inv, [Next]_vars PROVE Inv'
  OBVIOUS
<1>2. CASE UNCHANGED vars
  BY <1>1, <1>2
     DEF vars, Inv, Types, ReplaceInv, ClockInv, StatesMatchData, Matches
<1>3. CASE DatabaseStep
  BY <1>1, <1>3, ControlSteps, RemoveStatesKeeps, RenameStatesKeeps, RecalculateKeeps,
     DeleteFileKeeps DEF DatabaseStep
<1>4. CASE Exception \/ Reset
  BY <1>1, <1>4, StartOverKeeps DEF Exception, Reset
<1>5. CASE ProgramStep
  BY <1>1, <1>3, <1>4, <1>5, SetupKeeps, ControlSteps, AnnounceKeeps DEF ProgramStep
<1>6. CASE UserStep
  BY <1>1, <1>6, UserControlSteps, SelectKeeps DEF UserStep
<1>7. CASE Tick
  BY <1>1, <1>7, TickKeeps
<1>8. CASE ServerAnswers \/ ReceivingEnds
  BY <1>1, <1>8, FetchKeeps, ControlSteps DEF ServerAnswers
<1>9. QED BY <1>1, <1>2, <1>4, <1>5, <1>6, <1>7, <1>8 DEF Next

\* All of it together holds for ever.
THEOREM Invariant == Spec => []Inv
BY InvInit, InvStep, PTL DEF Spec

\* The files, the thread and the screen hold what they are for (TypeOK).
THEOREM TypeCorrect == Spec => []TypeOK
<1>1. Inv => TypeOK
  <2>1. WholeLines \subseteq DataLines
    BY DEF WholeLines
  <2>2. Seq(WholeLines) \subseteq Seq(DataLines)
    BY <2>1
  <2>3. QED BY <2>2 DEF Inv, Types, TypeOK
<1>2. QED BY <1>1, Invariant, PTL

\* However often the data are replaced and states updated in place, and wherever a
\* reset falls: a synced states file lists the notifications of its data, with
\* positions that lead back to them (StatesMatchData).
THEOREM StatesAreOfTheData == Spec => []StatesMatchData
BY Invariant, PTL DEF Inv

-----------------------------------------------------------------------------
\* Where a window can open, a channel whose states are not those of its data has
\* none of them, or no data, or a reset cut its pull short.  The pull itself may
\* leave such channels, of those it visits, but it syncs all of them before it ends.
Pulling == {"fetch", "headers", "sync", "rename"}

PullInv ==
  /\ pc \in Pulling => todo \subseteq url
  /\ pc \in {"headers", "rename"} => ch \in url
  /\ pc \in {"sync", "rename"} => url \ todo \subseteq synced

\* Channel c is in order, as far as what can be opened goes.
Settled(c) == c \in synced \/ c \in interrupted \/ states[c] = <<>> \/ data[c] = <<>>

GapInv == \A c \in Channels : Settled(c) \/ (pc \in Pulling /\ c \in url)

ScreenInv == PullInv /\ GapInv /\ ScreenShowsWanted

\* The steps that are no part of a pull, or begin one.
LEMMA OutsidePull ==
  ASSUME Inv, ScreenInv, pc \notin Pulling,
         pc' \in Pulling => pc' = "fetch" /\ todo' = url',
         screen' = NoScreen,
         \A c \in Channels : Settled(c) => Settled(c)'
  PROVE  ScreenInv'
<1>1. PullInv'
  BY DEF PullInv, Pulling
<1>2. GapInv'
  BY DEF ScreenInv, GapInv
<1>3. ScreenShowsWanted'
  BY DEF ScreenShowsWanted
<1>4. QED BY <1>1, <1>2, <1>3 DEF ScreenInv

\* A channel stays in order if its files do, and if it is synced or interrupted still.
LEMMA SettledStays ==
  ASSUME NEW c \in Channels, Settled(c),
         c \in synced \cup interrupted => c \in synced' \cup interrupted',
         states[c] = <<>> => states'[c] = <<>>, data[c] = <<>> => data'[c] = <<>>
  PROVE  Settled(c)'
BY DEF Settled

\* The pull, step by step.
LEMMA PullSteps ==
  ASSUME Inv, Inv', ScreenInv, Elsewhere,
         \/ \E c \in Channels : FetchFails(c) \/ Request(c) \/ RemoveStates(c)
         \/ FetchAny \/ FetchDone \/ RenameStates \/ SyncDone
  PROVE  ScreenInv'
<1>1. /\ screen' = NoScreen /\ url' = url /\ interrupted' = interrupted \ synced'
      /\ url \subseteq Channels /\ synced \subseteq Channels
  <2>1. url' = url
    BY DEF FetchFails, Request, RemoveStates, FetchAny, Fetch, FetchDone, RenameStates, SyncDone,
           AllVisited, files
  <2>2. QED BY <2>1 DEF Elsewhere, Quietly, Inv, Types
<1>2. ScreenShowsWanted'
  BY <1>1 DEF ScreenShowsWanted
<1>3. /\ pc \in Pulling => todo \subseteq url
      /\ pc \in {"headers", "rename"} => ch \in url
      /\ pc \in {"sync", "rename"} => url \ todo \subseteq synced
      /\ \A c \in Channels : Settled(c) \/ (pc \in Pulling /\ c \in url)
  BY DEF ScreenInv, PullInv, GapInv
<1>4. CASE pc' \in Pulling /\ PullInv'
  <2>1. ASSUME NEW c \in Channels, c \notin url PROVE Settled(c)'
    <3>1. Settled(c)
      BY <1>3, <2>1
    <3>2. c \in synced => c \in synced'
      BY <1>3, <2>1
         DEF FetchFails, Request, RemoveStates, FetchAny, Fetch, FetchDone, RenameStates, SyncDone,
             AllVisited, Pulling
    <3>3. states'[c] = states[c] /\ data'[c] = data[c]
      BY <1>3, <2>1
         DEF FetchFails, Request, RemoveStates, FetchAny, Fetch, FetchDone, RenameStates, SyncDone,
             AllVisited, Pulling, files, Inv, Types
    <3>4. QED BY <1>1, <3>1, <3>2, <3>3, SettledStays
  <2>2. GapInv'
    BY <1>1, <1>4, <2>1 DEF GapInv
  <2>3. QED BY <1>2, <1>4, <2>2 DEF ScreenInv
<1>5. ASSUME NEW c \in Channels, FetchFails(c) \/ Request(c) \/ RemoveStates(c) PROVE ScreenInv'
  <2>1. pc' \in Pulling /\ PullInv'
    BY <1>1, <1>3, <1>5 DEF FetchFails, Request, RemoveStates, PullInv, Pulling
  <2>2. QED BY <1>4, <2>1
<1>6. CASE FetchAny \/ FetchDone \/ RenameStates
  <2>1. pc' \in Pulling /\ PullInv'
    BY <1>1, <1>3, <1>6 DEF FetchAny, Fetch, FetchDone, RenameStates, AllVisited, PullInv, Pulling
  <2>2. QED BY <1>4, <2>1
<1>7. CASE SyncDone
  <2>1. /\ pc = "sync" /\ todo = {} /\ pc' = "recalc"
        /\ UNCHANGED <<data, states, synced>>
    BY <1>7 DEF SyncDone, AllVisited, files
  <2>2. ASSUME NEW c \in Channels PROVE Settled(c)'
    <3>1. Settled(c)
      BY <1>3, <2>1 DEF Settled
    <3>2. QED BY <1>1, <2>1, <3>1, SettledStays
  <2>3. PullInv' /\ GapInv'
    BY <2>1, <2>2 DEF PullInv, GapInv, Pulling
  <2>4. QED BY <1>2, <2>3 DEF ScreenInv
<1>8. QED BY <1>5, <1>6, <1>7

\* A reset lists what it cut short.
LEMMA StartOverListed == ASSUME Inv, ScreenInv, StartOver PROVE ScreenInv'
<1>1. /\ pc' = "setup" /\ screen' = NoScreen /\ UNCHANGED <<url, data, states, synced>>
      /\ interrupted' = interrupted \cup CutShort
  BY DEF StartOver, files
<1>2. ASSUME NEW c \in Channels PROVE Settled(c)'
  <2>1. Settled(c) \/ (pc \in Pulling /\ c \in url /\ c \notin synced)
    BY DEF ScreenInv, GapInv, Settled
  <2>2. CASE pc \in Pulling /\ c \in url /\ c \notin synced
    BY <1>1, <2>2 DEF CutShort, Pulling, Settled
  <2>3. QED BY <1>1, <2>1, <2>2, SettledStays
<1>3. PullInv' /\ GapInv' /\ ScreenShowsWanted'
  BY <1>1, <1>2 DEF PullInv, GapInv, ScreenShowsWanted, Pulling
<1>4. QED BY <1>3 DEF ScreenInv

\* A sequence without positions is empty.
LEMMA NoPositions ==
  ASSUME NEW S, NEW s, s \in Seq(S), DOMAIN s = {}
  PROVE  s = <<>>
<1>1. DOMAIN s = 1 .. Len(s) /\ Len(s) \in Nat
  BY ONLY s \in Seq(S)
<1>2. Len(s) = 0
  BY ONLY <1>1, DOMAIN s = {}
<1>3. QED BY ONLY <1>2, s \in Seq(S)

\* The files change in place, or go.
LEMMA FileSteps ==
  ASSUME Inv, Inv', ScreenInv, Elsewhere,
         DeleteFile \/ \E c \in Channels : Recalculate(c)
  PROVE  ScreenInv'
<1>1. screen' = NoScreen /\ interrupted' = interrupted \ synced'
  BY DEF Elsewhere, Quietly
<1>2. states \in [Channels -> Seq(Entries)] /\ data \in [Channels -> Seq(WholeLines)]
  BY DEF Inv, Types
<1>3. CASE DeleteFile
  <2>1. /\ pc = "delete" /\ pc' = pc
        /\ data' = data \/ data' = [data EXCEPT ![ch] = <<>>]
        /\ states' = states \/ states' = [states EXCEPT ![ch] = <<>>]
        /\ \/ synced' = synced
           \/ synced' = synced \ {ch} /\ data' = [data EXCEPT ![ch] = <<>>]
           \/ synced' = synced \ {ch} /\ states' = [states EXCEPT ![ch] = <<>>]
    BY <1>3 DEF DeleteFile
  <2>2. ASSUME NEW c \in Channels, Settled(c) PROVE Settled(c)'
    <3>1. /\ data[c] = <<>> => data'[c] = <<>>
          /\ states[c] = <<>> => states'[c] = <<>>
          /\ c \in synced => c \in synced' \/ data'[c] = <<>> \/ states'[c] = <<>>
      <4> DEFINE D == Seq(WholeLines)
                 E == Seq(Entries)
      <4>1. states \in [Channels -> E] /\ data \in [Channels -> D]
        BY <1>2
      <4> HIDE DEF D, E
      <4>2. QED BY ONLY <2>1, <2>2, <4>1
    <3>2. QED BY <1>1, <2>2, <3>1 DEF Settled
  <2>3. QED BY <1>1, <2>1, <2>2, OutsidePull DEF Pulling
<1>4. ASSUME NEW c \in Channels, Recalculate(c) PROVE ScreenInv'
  <2>1. pc = "recalc" /\ pc' = pc /\ UNCHANGED <<data, synced>>
    BY <1>4 DEF Recalculate
  <2>2. \A d \in Channels : DOMAIN states'[d] = DOMAIN states[d]
    BY <1>2, <1>4 DEF Recalculate
  <2>3. \A d \in Channels : states[d] = <<>> => states'[d] = <<>>
    <3>1. ASSUME NEW d \in Channels, states[d] = <<>> PROVE states'[d] = <<>>
      <4>1. states'[d] \in Seq(Entries)
        BY DEF Inv, Types
      <4>2. DOMAIN states'[d] = {}
        BY <2>2, <3>1
      <4>3. QED BY ONLY <4>1, <4>2, NoPositions
    <3>2. QED BY <3>1
  <2>4. \A d \in Channels : Settled(d) => Settled(d)'
    BY <1>1, <2>1, <2>3, SettledStays
  <2>5. QED BY <1>1, <2>1, <2>4, OutsidePull DEF Pulling
<1>5. QED BY <1>3, <1>4

\* What touches neither data nor states.
LEMMA QuietSteps ==
  ASSUME Inv, ScreenInv,
         \/ Setup \/ LoopPull \/ LoopNoPull \/ EverySecond \/ NotYet \/ NothingToAnnounce
         \/ ReceivingEnds \/ (RecalculateDone /\ Elsewhere) \/ (DeleteDone /\ Elsewhere)
         \/ AcceptChannel \/ ToggleNotifications \/ OpenMenu \/ OpenConfig
         \/ \E c \in Channels : DeleteChannel(c)
  PROVE  ScreenInv'
<1>1. /\ UNCHANGED <<data, states, synced>> /\ interrupted \subseteq interrupted' \cup synced'
      /\ screen' = NoScreen
  BY DEF Setup, LoopPull, LoopNoPull, EverySecond, NotYet, NothingToAnnounce, ReceivingEnds,
         RecalculateDone, AllVisited, DeleteDone, AcceptChannel, ToggleNotifications, OpenMenu,
         OpenConfig, DeleteChannel, DeleteStart, Elsewhere, Quietly, history, files
<1>2. pc \notin Pulling /\ (pc' \in Pulling => pc' = "fetch" /\ todo' = url')
  <2>1. after \in {"loop", "timer", "announce"}
    BY DEF Inv, Types
  <2>2. QED BY <2>1
            DEF Setup, LoopPull, LoopNoPull, EverySecond, NotYet, NothingToAnnounce, ReceivingEnds,
                LoopEnds, RecalculateDone, AllVisited, DeleteDone, AcceptChannel,
                ToggleNotifications, OpenMenu, OpenConfig, DeleteChannel, DeleteStart, AtUser,
                Pulling, files
<1>3. \A c \in Channels : Settled(c) => Settled(c)'
  BY <1>1, SettledStays
<1>4. QED BY <1>1, <1>2, <1>3, OutsidePull

\* A window opens.
LEMMA ShownSteps ==
  ASSUME Inv, Inv', ScreenInv,
         Announce \/ \E c \in Channels, id \in Ids : Select(c, id)
  PROVE  ScreenInv'
<1>1. /\ pc \notin Pulling /\ pc' \notin Pulling /\ UNCHANGED <<data, synced, interrupted>>
      /\ \A c \in Channels : states[c] = <<>> => states'[c] = <<>>
  <2>1. CASE Announce
    <3>1. PICK c \in url : \E k \in DOMAIN states[c] :
                states' = [states EXCEPT ![c][k].state = "NOTIFIED"]
      BY <2>1 DEF Announce
    <3>2. PICK k \in DOMAIN states[c] : states' = [states EXCEPT ![c][k].state = "NOTIFIED"]
      BY <3>1
    <3>3. \A d \in Channels : states[d] = <<>> => d # c
      BY <3>2
    <3>4. states \in [Channels -> Seq(Entries)]
      BY DEF Inv, Types
    <3>5. \A d \in Channels : states[d] = <<>> => states'[d] = <<>>
      BY <3>2, <3>3, <3>4
    <3>6. QED BY <2>1, <3>5 DEF Announce, LoopEnds, history, Pulling
  <2>2. CASE \E c \in Channels, id \in Ids : Select(c, id)
    BY <2>2 DEF Select, AtUser, history, files, Pulling
  <2>3. QED BY <2>1, <2>2
<1>2. \A c \in Channels : Settled(c) /\ Settled(c)'
  <2>1. \A c \in Channels : Settled(c)
    BY <1>1 DEF ScreenInv, GapInv
  <2>2. QED BY <1>1, <2>1, SettledStays
<1>3. ASSUME NEW c \in Channels, NEW k \in DOMAIN states[c], Opens(c, states[c][k])
      PROVE  ScreenShowsWanted'
  <2>1. /\ screen'.channel = c
        /\ c \in synced => screen'.got = screen'.want
        /\ c \notin synced => data[c] # <<>>
    BY <1>3, OpensIs
  <2>2. states[c] # <<>>
    BY <1>3
  <2>3. c \in synced \/ c \in interrupted
    BY <1>2, <2>1, <2>2 DEF Settled
  <2>4. QED BY <1>1, <2>1, <2>3 DEF ScreenShowsWanted
<1>4. ScreenShowsWanted'
  <2>1. CASE Announce
    <3>1. PICK c \in url : \E k \in DOMAIN states[c] : Opens(c, states[c][k])
      BY <2>1 DEF Announce
    <3>2. c \in Channels
      BY DEF Inv, Types
    <3>3. QED BY <1>3, <3>1, <3>2
  <2>2. CASE \E c \in Channels, id \in Ids : Select(c, id)
    <3>1. PICK c \in Channels, id \in Ids : Select(c, id)
      BY <2>2
    <3>2. CASE screen' = NoScreen
      BY <3>2 DEF ScreenShowsWanted
    <3>3. CASE screen' # NoScreen
      <4>1. Known(states[c], id) /\ Opens(c, First(states[c], id))
        BY <3>1, <3>3 DEF Select
      <4>2. states[c] \in Seq(Entries)
        BY DEF Inv, Types
      <4>3. PICK k \in DOMAIN states[c] : First(states[c], id) = states[c][k]
        BY <4>1, <4>2, FirstIs
      <4>4. QED BY <1>3, <4>1, <4>3
    <3>4. QED BY <3>2, <3>3
  <2>3. QED BY <2>1, <2>2
<1>5. PullInv' /\ GapInv'
  BY <1>1, <1>2 DEF PullInv, GapInv, Pulling
<1>6. QED BY <1>4, <1>5 DEF ScreenInv

LEMMA ScreenStep == Inv /\ Inv' /\ ScreenInv /\ [Next]_vars => ScreenInv'
<1>1. SUFFICES ASSUME Inv, Inv', ScreenInv, [Next]_vars PROVE ScreenInv'
  OBVIOUS
<1>2. CASE UNCHANGED vars
  BY <1>1, <1>2 DEF vars, ScreenInv, PullInv, GapInv, Settled, ScreenShowsWanted
<1>3. CASE DatabaseStep
  BY <1>1, <1>3, PullSteps, FileSteps, QuietSteps DEF DatabaseStep
<1>4. CASE Exception \/ Reset
  BY <1>1, <1>4, StartOverListed DEF Exception, Reset
<1>5. CASE ProgramStep
  BY <1>1, <1>3, <1>4, <1>5, QuietSteps, ShownSteps DEF ProgramStep
<1>6. CASE UserStep
  BY <1>1, <1>6, QuietSteps, ShownSteps DEF UserStep
<1>7. CASE Tick
  BY <1>1, <1>7
     DEF Tick, Quietly, history, files, ScreenInv, PullInv, GapInv, Settled, ScreenShowsWanted
<1>8. CASE ServerAnswers \/ ReceivingEnds
  BY <1>1, <1>8, PullSteps, QuietSteps DEF ServerAnswers
<1>9. QED BY <1>1, <1>2, <1>4, <1>5, <1>6, <1>7, <1>8 DEF Next

\* However pulls, sync, announcements, menus and resets follow each other: a window
\* has the text of the notification announced or selected, unless a reset cut the
\* last pull of its channel short (ScreenShowsWanted).
THEOREM ShowsWhatIsMeant == Spec => []ScreenShowsWanted
<1>1. Init => ScreenInv
  BY DEF Init, ScreenInv, PullInv, GapInv, Settled, ScreenShowsWanted, Pulling
<1>2. ScreenInv => ScreenShowsWanted
  BY DEF ScreenInv
<1>3. QED BY <1>1, <1>2, ScreenStep, Invariant, PTL DEF Spec

\* ChangesOnTime, of one step.
OnTimeAction ==
  pc = "recalc" /\ pc' = "recalc" =>
    \A c \in todo \ todo' :
      timestamp[c] # NoTimestamp /\ timestamp[c].server >= Epoch =>
        \A k \in DOMAIN states[c] : OnTime(states[c][k], states'[c][k])

LEMMA OnTimeUpdate == ASSUME NEW e \in Entries, now \in Nat PROVE OnTime(e, UpdateState(e, now))
BY DEF UpdateState, OnTime, Entries

LEMMA OnTimeStep == Inv /\ Next => OnTimeAction
<1>1. SUFFICES ASSUME Inv, Next, pc = "recalc", pc' = "recalc", NEW c \in todo \ todo',
                      timestamp[c] # NoTimestamp, timestamp[c].server >= Epoch, NEW k \in DOMAIN states[c]
               PROVE  OnTime(states[c][k], states'[c][k])
  BY DEF OnTimeAction
<1>2. c \in Channels /\ states[c] \in Seq(Entries)
  BY <1>1 DEF Inv, Types
<1>3. Recalculate(c)
  <2>1. \E d \in Channels : Recalculate(d)
    BY <1>1
       DEF Next, ProgramStep, UserStep, Reset, Tick, StartOver, Exception, DatabaseStep, Setup,
           LoopPull, LoopNoPull, EverySecond, NotYet, Announce, NothingToAnnounce, FetchFails,
           ServerAnswers, FetchAny, Fetch, Request, ReceivingEnds, FetchDone, RemoveStates, RenameStates, SyncDone, RecalculateDone,
           AllVisited, DeleteFile, DeleteDone, AcceptChannel, ToggleNotifications, OpenMenu,
           OpenConfig, DeleteChannel, DeleteStart, Select, files
  <2>2. QED BY <1>1, <2>1 DEF Recalculate
<1>4. states'[c][k] = UpdateState(states[c][k], ServerTime(timestamp[c]))
  BY <1>1, <1>2, <1>3 DEF Recalculate, Inv, Types
<1>5. ServerTime(timestamp[c]) = now
  <2>1. timestamp[c] \in [server: Nat, local: 0..Horizon] /\ now \in Nat /\ booted \in Nat
    BY <1>1, <1>2, ConstantFacts DEF Inv, Types
  <2>2. timestamp[c].server = timestamp[c].local + booted
    BY <1>1, <1>2 DEF Inv, ClockInv
  <2>3. QED BY <2>1, <2>2, ConstantFacts DEF ServerTime, Seconds
<1>6. states[c][k] \in Entries /\ now \in Nat
  <2>1. states[c][k] \in Entries
    BY ONLY <1>2
  <2>2. QED BY <1>1, <2>1, ConstantFacts DEF Inv, Types
<1>7. QED BY ONLY <1>4, <1>5, <1>6, OnTimeUpdate

\* The states change when the server's clock says, whatever the badge's own clock
\* and however many boots lie between (ChangesOnTime).
THEOREM ChangesAreOnTime == Spec => ChangesOnTime
<1>1. Inv /\ [Next]_vars => [OnTimeAction]_vars
  BY OnTimeStep
<1>2. [][OnTimeAction]_vars => ChangesOnTime
  BY PTL DEF ChangesOnTime, OnTimeAction
<1>3. QED BY <1>1, <1>2, Invariant, PTL DEF Spec
-----------------------------------------------------------------------------
\* The files implement NotificationLifecycle: what a states file says of a
\* notification, and what becomes of that in each step.

LEMMA NothingKnown == ASSUME NEW id PROVE Status(<<>>, id) = "ABSENT"
BY DEF Status, Known

LEMMA StatusIs ==
  ASSUME NEW entries \in Seq(Entries), NEW id
  PROVE  /\ Status(entries, id) \in Lifecycle!Statuses
         /\ Known(entries, id) => Status(entries, id) # "ABSENT"
<1>1. CASE Known(entries, id)
  <2>1. PICK k \in DOMAIN entries : First(entries, id) = entries[k]
    BY <1>1, FirstIs
  <2>2. First(entries, id) \in Entries
    BY <2>1
  <2>3. First(entries, id).state \in StateNames
    BY <2>2 DEF Entries
  <2>4. QED BY <1>1, <2>3 DEF Status, StateNames, Lifecycle!Statuses
<1>2. QED BY <1>1 DEF Status, Lifecycle!Statuses

LEMMA StatusOfFirst ==
  ASSUME NEW E, NEW entries \in Seq(E), NEW id, NEW k \in DOMAIN entries, entries[k].id = id,
         \A j \in 1..(k - 1) : entries[j].id # id
  PROVE  Status(entries, id) = entries[k].state
<1>1. First(entries, id) = entries[k]
  BY FirstAt
<1>2. Known(entries, id)
  BY DEF Known
<1>3. QED BY <1>1, <1>2 DEF Status

\* The sync schedules what is new and keeps the state of what it knows.
LEMMA StatusRebuilt ==
  ASSUME NEW lines \in Seq(WholeLines), NEW old \in Seq(Entries), ~Unreadable(lines), NEW id
  PROVE  Status(Rebuilt(lines, old), id) \in Lifecycle!Listed[Status(old, id)]
<1> DEFINE at == WithId(lines)
           new == Rebuilt(lines, old)
           s == Status(old, id)
<1>1. s \in Lifecycle!Statuses /\ (Known(old, id) => s # "ABSENT" /\ s = First(old, id).state)
  BY StatusIs DEF Status
<1>2. Lifecycle!Listed[s] = {"ABSENT", IF s = "ABSENT" THEN "SCHEDULED" ELSE s}
  BY <1>1 DEF Lifecycle!Listed
<1>3. new \in Seq(Entries)
  BY RebuiltIs
<1>4. CASE Known(new, id)
  <2>1. PICK k \in DOMAIN new : First(new, id) = new[k] /\ new[k].id = id
    BY <1>3, <1>4, FirstIs
  <2>2. new[k] = Entry(lines[at[k]], at[k], old)
    BY <2>1 DEF Rebuilt
  <2>3. lines[at[k]].id = id
    BY <2>1, <2>2 DEF Entry
  <2>4. new[k].state = IF Known(old, id) THEN First(old, id).state ELSE "SCHEDULED"
    BY <2>2, <2>3 DEF Entry
  <2>5. Status(new, id) = new[k].state
    BY <1>4, <2>1 DEF Status
  <2>6. ~Known(old, id) => s = "ABSENT"
    BY DEF Status
  <2>7. QED BY <1>1, <1>2, <2>4, <2>5, <2>6
<1>5. CASE ~Known(new, id)
  BY <1>2, <1>5 DEF Status
<1>6. QED BY <1>4, <1>5

\* The recalculation moves every entry on, and which is the first stays.
LEMMA StatusUpdated ==
  ASSUME NEW old \in Seq(Entries), NEW new \in Seq(Entries), NEW time, NEW id,
         DOMAIN new = DOMAIN old, \A k \in DOMAIN old : new[k] = UpdateState(old[k], time)
  PROVE  Status(new, id) \in Lifecycle!Later[Status(old, id)]
<1>1. \A k \in DOMAIN old : new[k].id = old[k].id
  <2>1. \A k \in DOMAIN old : old[k] \in Entries
    OBVIOUS
  <2>2. QED BY <2>1, UpdatedEntry
<1>2. CASE Known(old, id)
  <2>1. PICK k \in DOMAIN old :
           /\ First(old, id) = old[k] /\ old[k].id = id
           /\ \A j \in 1..(k - 1) : old[j].id # id
    BY <1>2, FirstIs
  <2>2. \A j \in 1..(k - 1) : j \in DOMAIN old
    OBVIOUS
  <2>3. Status(old, id) = old[k].state
    BY <2>1, StatusOfFirst
  <2>4. Status(new, id) = new[k].state
    <3>1. k \in DOMAIN new /\ new[k].id = id /\ \A j \in 1..(k - 1) : new[j].id # id
      BY <1>1, <2>1, <2>2
    <3>2. QED BY ONLY <3>1, StatusOfFirst
  <2>5. old[k] \in Entries /\ new[k] = UpdateState(old[k], time)
    OBVIOUS
  <2>6. \A e \in Entries :
          /\ e.state \in Lifecycle!Statuses
          /\ \/ UpdateState(e, time).state = e.state
             \/ UpdateState(e, time).state = "INACTIVE"
             \/ e.state = "SCHEDULED" /\ UpdateState(e, time).state = "ACTIVE_NOT_NOTIFIED"
    <3>1. \A e \in Entries :
            UpdateState(e, time).state = IF time > e.to THEN "INACTIVE"
                                         ELSE IF e.state = "SCHEDULED" /\ time > e.from
                                         THEN "ACTIVE_NOT_NOTIFIED"
                                         ELSE e.state
      BY DEF UpdateState, Entries
    <3>2. \A e \in Entries : e.state \in Lifecycle!Statuses
      BY DEF Entries, StateNames, Lifecycle!Statuses
    <3>3. QED BY <3>1, <3>2
  <2>7. \A e \in Entries : e.state # "ABSENT"
    BY DEF Entries, StateNames
  <2> DEFINE s == old[k].state
             t == new[k].state
  <2>8. s \in Lifecycle!Statuses \ {"ABSENT"}
    BY <2>5, <2>6, <2>7
  <2>9. \/ t \in {s, "INACTIVE"}
        \/ s = "SCHEDULED" /\ t = "ACTIVE_NOT_NOTIFIED"
    BY ONLY <2>5, <2>6
  <2> HIDE DEF s, t
  <2>10. t \in Lifecycle!Later[s]
    <3>1. /\ Lifecycle!Later["SCHEDULED"] = {"SCHEDULED", "ACTIVE_NOT_NOTIFIED", "INACTIVE"}
          /\ Lifecycle!Later["INACTIVE"] = {"INACTIVE"}
          /\ Lifecycle!Later["ACTIVE_NOT_NOTIFIED"] = {"ACTIVE_NOT_NOTIFIED", "INACTIVE"}
          /\ Lifecycle!Later["NOTIFIED"] = {"NOTIFIED", "INACTIVE"}
      BY DEF Lifecycle!Later, Lifecycle!Statuses
    <3>2. s \in {"SCHEDULED", "ACTIVE_NOT_NOTIFIED", "NOTIFIED", "INACTIVE"}
      BY <2>8 DEF Lifecycle!Statuses
    <3>3. QED BY ONLY <2>9, <3>1, <3>2
  <2>11. QED BY <2>3, <2>4, <2>10 DEF s, t
<1>3. CASE ~Known(old, id)
  <2>1. ~Known(new, id)
    BY <1>1, <1>3 DEF Known
  <2>2. Status(old, id) = "ABSENT" /\ Status(new, id) = "ABSENT"
    BY <1>3, <2>1 DEF Status
  <2>3. "ABSENT" \in Lifecycle!Later["ABSENT"]
    BY DEF Lifecycle!Later, Lifecycle!Statuses
  <2>4. QED BY <2>2, <2>3
<1>4. QED BY <1>2, <1>3

\* To mark an entry changes what is said of its notification, if it is the first
\* with that id, and nothing else.
Marked(entries, m) == [entries EXCEPT ![m].state = "NOTIFIED"]
MarksFirst(old, m, new, id) ==
  IF old[m].id = id /\ \A j \in 1..(m - 1) : old[j].id # id
  THEN Status(new, id) = "NOTIFIED" /\ Status(old, id) = old[m].state
  ELSE Status(new, id) = Status(old, id)

LEMMA StatusMarked ==
  ASSUME NEW old \in Seq(Entries), NEW m \in DOMAIN old, NEW id
  PROVE  MarksFirst(old, m, Marked(old, m), id)
<1> DEFINE new == Marked(old, m)
<1>1. /\ \A k \in DOMAIN old : old[k] \in Entries
      /\ DOMAIN old = 1..Len(old) /\ Len(old) \in Nat
  OBVIOUS
<1>2. \A e \in Entries : [e EXCEPT !.state = "NOTIFIED"] \in Entries
                         /\ [e EXCEPT !.state = "NOTIFIED"].id = e.id
                         /\ [e EXCEPT !.state = "NOTIFIED"].state = "NOTIFIED"
  BY DEF Entries, StateNames
<1>3. new = [k \in 1..Len(old) |-> IF k = m THEN [old[m] EXCEPT !.state = "NOTIFIED"] ELSE old[k]]
  BY <1>1 DEF Marked
<1> HIDE DEF new
<1>4. /\ new \in Seq(Entries) /\ DOMAIN new = DOMAIN old
      /\ \A k \in DOMAIN old : new[k].id = old[k].id /\ (k # m => new[k] = old[k])
      /\ new[m].state = "NOTIFIED"
  <2>1. \A k \in DOMAIN old :
          LET e == IF k = m THEN [old[m] EXCEPT !.state = "NOTIFIED"] ELSE old[k]
          IN  e \in Entries /\ e.id = old[k].id
    BY <1>1, <1>2
  <2>2. new \in Seq(Entries) /\ DOMAIN new = DOMAIN old
    BY <1>1, <1>3, <2>1
  <2>3. \A k \in DOMAIN old :
          new[k] = IF k = m THEN [old[m] EXCEPT !.state = "NOTIFIED"] ELSE old[k]
    BY <1>1, <1>3
  <2>4. new[m].state = "NOTIFIED" /\ \A k \in DOMAIN old : k # m => new[k] = old[k]
    BY <1>1, <1>2, <2>3
  <2>5. \A k \in DOMAIN old : new[k].id = old[k].id
    BY <2>1, <2>3
  <2>6. QED BY <2>2, <2>4, <2>5
<1>5. CASE Known(old, id)
  <2>1. PICK k \in DOMAIN old : old[k].id = id /\ \A j \in 1..(k - 1) : old[j].id # id
    BY <1>5, FirstIs
  <2>2. \A j \in 1..(k - 1) : new[j].id # id
    BY <1>1, <1>4, <2>1
  <2>3. Status(old, id) = old[k].state
    BY <2>1, StatusOfFirst
  <2>4. Status(new, id) = new[k].state
    <3>1. k \in DOMAIN new /\ new[k].id = id /\ new \in Seq(Entries)
      BY <1>4, <2>1
    <3>2. QED BY ONLY <2>2, <3>1, StatusOfFirst
  <2>5. old[m].id = id /\ (\A j \in 1..(m - 1) : old[j].id # id) <=> k = m
    BY <1>1, <2>1
  <2>6. QED BY <1>4, <2>3, <2>4, <2>5 DEF MarksFirst, new
<1>6. CASE ~Known(old, id)
  <2>1. ~Known(new, id) /\ old[m].id # id
    BY <1>4, <1>6 DEF Known
  <2>2. QED BY <1>6, <2>1 DEF Status, MarksFirst, new
<1>7. QED BY <1>5, <1>6
\* What the states files s say.
StatusesIn(entries) == [id \in Ids |-> Status(entries, id)]
StatusMap(s) == [c \in Channels |-> StatusesIn(s[c])]

LEMMA Mapped ==
  ASSUME Inv
  PROVE  /\ pc # "rename" => currentStatus = StatusMap(states) /\ currentReplacing = NoChannel
         /\ pc = "rename" => /\ currentStatus = StatusMap([states EXCEPT ![ch] = newStates])
                             /\ currentReplacing = ch
<1>1. states \in [Channels -> Seq(Entries)]
  BY DEF Inv, Types
<1>2. \A c \in Channels : Current(c) = IF pc = "rename" THEN [states EXCEPT ![ch] = newStates][c]
                                       ELSE states[c]
  BY <1>1 DEF Current
<1>3. QED BY <1>2 DEF currentStatus, currentReplacing, StatusMap, StatusesIn

LEMMA MappedAfter ==
  ASSUME Inv'
  PROVE  /\ pc' # "rename" => currentStatus' = StatusMap(states') /\ currentReplacing' = NoChannel
         /\ pc' = "rename" => /\ currentStatus' = StatusMap([states' EXCEPT ![ch'] = newStates'])
                              /\ currentReplacing' = ch'
<1>1. states' \in [Channels -> Seq(Entries)]
  BY DEF Inv, Types
<1>2. \A c \in Channels : Current(c)' = IF pc' = "rename" THEN [states' EXCEPT ![ch'] = newStates'][c]
                                        ELSE states'[c]
  BY <1>1 DEF Current
<1>3. QED BY <1>2 DEF currentStatus, currentReplacing, StatusMap, StatusesIn

LEMMA MapIs ==
  ASSUME NEW s \in [Channels -> Seq(Entries)]
  PROVE  StatusMap(s) \in [Channels -> [Ids -> Lifecycle!Statuses]]
<1>1. \A c \in Channels : \A id \in Ids : Status(s[c], id) \in Lifecycle!Statuses
  BY StatusIs
<1>2. QED BY <1>1 DEF StatusMap, StatusesIn

\* A step that changes the file of one channel and opens nothing.
LEMMA OneChanges ==
  ASSUME NEW old \in [Channels -> Seq(Entries)], NEW new \in [Channels -> Seq(Entries)],
         NEW c \in Channels, NEW allowed,
         currentStatus = StatusMap(old), currentStatus' = StatusMap(new), screen' = NoScreen,
         \A d \in Channels \ {c} : new[d] = old[d],
         \A id \in Ids : Status(new[c], id) \in allowed[Status(old[c], id)]
  PROVE  Lifecycle!Change(c, allowed)
<1>1. currentStatus' \in [Channels -> [Ids -> Lifecycle!Statuses]]
  BY MapIs
<1>2. \A d \in Channels : currentStatus[d] = StatusesIn(old[d])
  BY DEF StatusMap
<1>3. \A d \in Channels : currentStatus'[d] = StatusesIn(new[d])
  BY DEF StatusMap
<1>4. currentShown' = NoId
  BY DEF currentShown
<1>5. \A d \in Channels \ {c} : currentStatus'[d] = currentStatus[d]
  BY <1>2, <1>3
<1>6. \A id \in Ids : currentStatus'[c][id] \in allowed[currentStatus[c][id]]
  <2>1. \A id \in Ids : /\ currentStatus'[c][id] = Status(new[c], id)
                        /\ currentStatus[c][id] = Status(old[c], id)
    BY <1>2, <1>3 DEF StatusesIn
  <2>2. QED BY <2>1
<1>7. QED BY ONLY <1>1, <1>4, <1>5, <1>6 DEF Lifecycle!Change

\* Most steps change no states file and open nothing.
LEMMA Unnoticed ==
  ASSUME Inv, Inv', pc # "rename", pc' # "rename", states' = states, screen' = NoScreen
  PROVE  Lifecycle!Look
<1>1. UNCHANGED <<currentStatus, currentReplacing>> /\ currentReplacing = NoChannel
  BY Mapped, MappedAfter
<1>2. currentShown' = NoId
  BY DEF currentShown
<1>3. QED BY <1>1, <1>2 DEF Lifecycle!Look

LEMMA ControlUnnoticed ==
  ASSUME Inv, Inv',
         \/ LoopPull \/ LoopNoPull \/ EverySecond \/ NotYet \/ NothingToAnnounce \/ Setup
         \/ ReceivingEnds \/ (FetchAny /\ Elsewhere)
         \/ (\E c \in Channels : (FetchFails(c) \/ Request(c)) /\ Elsewhere)
         \/ (FetchDone /\ Elsewhere) \/ (SyncDone /\ Elsewhere) \/ (RecalculateDone /\ Elsewhere)
         \/ (DeleteDone /\ Elsewhere)
         \/ AcceptChannel \/ ToggleNotifications \/ OpenMenu \/ OpenConfig
         \/ \E c \in Channels : DeleteChannel(c)
  PROVE  Lifecycle!Look
<1>1. CASE \/ LoopPull \/ LoopNoPull \/ EverySecond \/ NotYet \/ NothingToAnnounce \/ Setup
           \/ ReceivingEnds
  BY <1>1, Unnoticed
     DEF LoopPull, LoopNoPull, EverySecond, NotYet, NothingToAnnounce, Setup, ReceivingEnds,
         LoopEnds, Quietly, files
<1>2. ASSUME NEW c \in Channels, FetchFails(c) \/ Request(c), Elsewhere
      PROVE  Lifecycle!Look
  BY <1>2, Unnoticed DEF FetchFails, Request, Elsewhere, Quietly, files
<1>3. CASE FetchAny /\ Elsewhere
  BY <1>3, Unnoticed DEF FetchAny, Fetch, Elsewhere, Quietly, files
<1>4. CASE (FetchDone \/ SyncDone \/ RecalculateDone \/ DeleteDone) /\ Elsewhere
  <2>1. after \in {"loop", "timer", "announce"}
    BY DEF Inv, Types
  <2>2. QED BY <1>4, <2>1, Unnoticed
            DEF FetchDone, SyncDone, RecalculateDone, DeleteDone, AllVisited, Elsewhere, Quietly, files
<1>5. CASE AcceptChannel \/ ToggleNotifications \/ OpenMenu \/ OpenConfig
  BY <1>5, Unnoticed
     DEF AcceptChannel, ToggleNotifications, OpenMenu, OpenConfig, AtUser, Quietly, files
<1>6. ASSUME NEW c \in Channels, DeleteChannel(c) PROVE Lifecycle!Look
  BY <1>6, Unnoticed DEF DeleteChannel, DeleteStart, Elsewhere, Quietly, files
<1>7. QED BY <1>1, <1>2, <1>3, <1>4, <1>5, <1>6

\* The sync publishes a new list, of which a reset loses all or nothing.
LEMMA RemoveImplements ==
  ASSUME Inv, Inv', NEW c \in Channels, RemoveStates(c), Elsewhere
  PROVE  Lifecycle!Publish(c)
<1>1. /\ newStates' = Rebuilt(data[c], states[c]) /\ ~Unreadable(data[c])
      /\ states' = [states EXCEPT ![c] = <<>>] /\ ch' = c
      /\ pc = "sync" /\ pc' = "rename" /\ screen' = NoScreen
  BY DEF RemoveStates, Elsewhere, Quietly
<1>2. /\ states \in [Channels -> Seq(Entries)] /\ newStates' \in Seq(Entries)
      /\ data[c] \in Seq(WholeLines)
  BY DEF Inv, Types
<1> DEFINE new == [states' EXCEPT ![c] = newStates']
<1>3. /\ new \in [Channels -> Seq(Entries)] /\ new[c] = newStates'
      /\ \A d \in Channels \ {c} : new[d] = states[d]
  BY <1>1, <1>2
<1>4. /\ currentStatus = StatusMap(states) /\ currentReplacing = NoChannel
      /\ currentStatus' = StatusMap(new) /\ currentReplacing' = c
  BY <1>1, Mapped, MappedAfter
<1>5. \A id \in Ids : Status(new[c], id) \in Lifecycle!Listed[Status(states[c], id)]
  BY <1>1, <1>2, <1>3, StatusRebuilt
<1> HIDE DEF new
<1>6. Lifecycle!Change(c, Lifecycle!Listed)
  BY ONLY <1>1, <1>2, <1>3, <1>4, <1>5, OneChanges
<1>7. QED BY <1>4, <1>6 DEF Lifecycle!Publish

LEMMA RenameImplements ==
  ASSUME Inv, Inv', RenameStates, Elsewhere
  PROVE  Lifecycle!Settle
<1>1. /\ states' = [states EXCEPT ![ch] = newStates]
      /\ pc = "rename" /\ pc' = "sync" /\ screen' = NoScreen
  BY DEF RenameStates, Elsewhere, Quietly
<1>2. ch # NoChannel
  BY <1>1, ConstantFacts DEF Inv, ReplaceInv
<1>3. UNCHANGED currentStatus /\ currentReplacing = ch /\ currentReplacing' = NoChannel
  BY <1>1, Mapped, MappedAfter
<1>4. currentShown' = NoId
  BY <1>1 DEF currentShown
<1>5. QED BY <1>2, <1>3, <1>4 DEF Lifecycle!Settle

LEMMA StartOverImplements ==
  ASSUME Inv, Inv', StartOver
  PROVE  Lifecycle!Lose \/ Lifecycle!Look
<1>1. states' = states /\ pc' = "setup" /\ screen' = NoScreen
  BY DEF StartOver, files
<1>2. CASE pc # "rename"
  BY <1>1, <1>2, Unnoticed
<1>3. CASE pc = "rename"
  <2> DEFINE old == [states EXCEPT ![ch] = newStates]
  <2>1. /\ ch \in Channels /\ states[ch] = <<>> /\ states \in [Channels -> Seq(Entries)]
        /\ newStates \in Seq(Entries)
    BY <1>3 DEF Inv, ReplaceInv, Types
  <2>2. /\ old \in [Channels -> Seq(Entries)] /\ old[ch] \in Seq(Entries)
        /\ \A d \in Channels \ {ch} : states'[d] = old[d]
    BY <1>1, <2>1
  <2>3. /\ currentStatus = StatusMap(old) /\ currentReplacing = ch
        /\ currentStatus' = StatusMap(states') /\ currentReplacing' = NoChannel
    BY <1>1, <1>3, Mapped, MappedAfter
  <2>4. \A id \in Ids : Status(states'[ch], id) \in Lifecycle!Gone[Status(old[ch], id)]
    BY <1>1, <2>1, <2>2, StatusIs, NothingKnown DEF Lifecycle!Gone
  <2>5. states' \in [Channels -> Seq(Entries)] /\ ch # NoChannel
    BY <1>1, <2>1, ConstantFacts
  <2> HIDE DEF old
  <2>6. Lifecycle!Change(ch, Lifecycle!Gone)
    BY ONLY <1>1, <2>1, <2>2, <2>3, <2>4, <2>5, OneChanges
  <2>7. QED BY <2>3, <2>5, <2>6 DEF Lifecycle!Lose
<1>4. QED BY <1>2, <1>3

LEMMA RecalculateImplements ==
  ASSUME Inv, Inv', NEW c \in Channels, Recalculate(c), Elsewhere
  PROVE  Lifecycle!Look \/ Lifecycle!Advance(c)
<1> DEFINE time == ServerTime(timestamp[c])
           new == [k \in DOMAIN states[c] |-> UpdateState(states[c][k], time)]
<1>1. pc = "recalc" /\ pc' = "recalc" /\ screen' = NoScreen
  BY DEF Recalculate, Elsewhere, Quietly
<1>2. states' = states \/ states' = [states EXCEPT ![c] = new]
  BY DEF Recalculate
<1>3. CASE states' = states
  BY <1>1, <1>3, Unnoticed
<1>4. CASE states' = [states EXCEPT ![c] = new]
  <2> HIDE DEF time
  <2>1. states \in [Channels -> Seq(Entries)] /\ states' \in [Channels -> Seq(Entries)]
    BY DEF Inv, Types
  <2>2. states'[c] = new /\ \A d \in Channels \ {c} : states'[d] = states[d]
    BY <1>4, <2>1
  <2>3. /\ DOMAIN states'[c] = DOMAIN states[c]
        /\ \A k \in DOMAIN states[c] : states'[c][k] = UpdateState(states[c][k], time)
    BY <2>2
  <2> HIDE DEF new
  <2>4. \A id \in Ids : Status(states'[c], id) \in Lifecycle!Later[Status(states[c], id)]
    BY ONLY <2>1, <2>3, StatusUpdated
  <2>5. /\ currentStatus = StatusMap(states) /\ currentReplacing = NoChannel
        /\ currentStatus' = StatusMap(states') /\ currentReplacing' = NoChannel
    BY <1>1, Mapped, MappedAfter
  <2>6. Lifecycle!Change(c, Lifecycle!Later)
    BY ONLY <1>1, <2>1, <2>2, <2>4, <2>5, OneChanges
  <2>7. QED BY <2>5, <2>6 DEF Lifecycle!Advance
<1>5. QED BY <1>2, <1>3, <1>4

LEMMA DeleteImplements ==
  ASSUME Inv, Inv', DeleteFile, Elsewhere
  PROVE  Lifecycle!Look \/ \E c \in Channels : Lifecycle!Delete(c)
<1>1. /\ pc = "delete" /\ pc' = "delete" /\ screen' = NoScreen
      /\ states' = states \/ states' = [states EXCEPT ![ch] = <<>>]
  BY DEF DeleteFile, Elsewhere, Quietly
<1>2. CASE states' = states
  BY <1>1, <1>2, Unnoticed
<1>3. CASE states' = [states EXCEPT ![ch] = <<>>]
  <2>1. /\ ch \in Channels
        /\ states \in [Channels -> Seq(Entries)] /\ states' \in [Channels -> Seq(Entries)]
    BY <1>1 DEF Inv, ReplaceInv, Types
  <2>2. states'[ch] = <<>> /\ \A d \in Channels \ {ch} : states'[d] = states[d]
    BY <1>3, <2>1
  <2>3. \A id \in Ids : Status(states'[ch], id) \in Lifecycle!Gone[Status(states[ch], id)]
    BY <2>1, <2>2, StatusIs, NothingKnown DEF Lifecycle!Gone
  <2>4. /\ currentStatus = StatusMap(states) /\ currentReplacing = NoChannel
        /\ currentStatus' = StatusMap(states') /\ currentReplacing' = NoChannel
    BY <1>1, Mapped, MappedAfter
  <2>5. Lifecycle!Change(ch, Lifecycle!Gone)
    BY ONLY <1>1, <2>1, <2>2, <2>3, <2>4, OneChanges
  <2>6. QED BY <2>1, <2>4, <2>5 DEF Lifecycle!Delete
<1>4. QED BY <1>1, <1>2, <1>3
\* An announcement marks the entry it shows; a second entry with the id of another
\* one, which no lookup reaches, is shown and changes nothing.
LEMMA AnnounceImplements ==
  ASSUME Inv, Inv', Announce
  PROVE  Lifecycle!Look \/ \E c \in Channels, id \in Ids : Lifecycle!Announce(c, id)
<1>1. PICK c \in url : \E k \in DOMAIN states[c] :
         /\ IsFirstWaiting(c, k) /\ Opens(c, states[c][k])
         /\ states' = [states EXCEPT ![c][k].state = "NOTIFIED"]
  BY DEF Announce
<1>2. PICK k \in DOMAIN states[c] :
         /\ IsFirstWaiting(c, k) /\ Opens(c, states[c][k])
         /\ states' = [states EXCEPT ![c][k].state = "NOTIFIED"]
  BY <1>1
<1>3. pc = "announce" /\ pc' \in {"loop", "receive"}
  BY DEF Announce, LoopEnds
<1> DEFINE id == states[c][k].id
<1>4. /\ c \in Channels
      /\ states \in [Channels -> Seq(Entries)] /\ states' \in [Channels -> Seq(Entries)]
      /\ states[c] \in Seq(Entries)
  BY DEF Inv, Types
<1>5. states[c][k] \in Entries
  BY ONLY <1>4
<1>6. id \in Ids /\ states[c][k].state = "ACTIVE_NOT_NOTIFIED"
  BY <1>2, <1>5 DEF Entries, IsFirstWaiting
<1>7. /\ states'[c] = Marked(states[c], k)
      /\ \A d \in Channels \ {c} : states'[d] = states[d]
  BY <1>2, <1>4 DEF Marked
<1>8. currentShown' = id
  <2>1. screen' \in Windows /\ screen'.want = id
    BY <1>2, <1>4, OpensIs
  <2>2. screen' # NoScreen
    BY <2>1, NoScreenAssumption
  <2>3. QED BY <2>1, <2>2 DEF currentShown
<1>9. /\ currentStatus = StatusMap(states) /\ currentReplacing = NoChannel
      /\ currentStatus' = StatusMap(states') /\ currentReplacing' = NoChannel
  BY <1>3, Mapped, MappedAfter
<1> DEFINE first == \A j \in 1..(k - 1) : states[c][j].id # id
<1>10. \A i \in Ids :
         IF i = id /\ first
         THEN Status(states'[c], i) = "NOTIFIED" /\ Status(states[c], i) = "ACTIVE_NOT_NOTIFIED"
         ELSE Status(states'[c], i) = Status(states[c], i)
  <2>1. SUFFICES ASSUME NEW i \in Ids
                 PROVE  IF i = id /\ first
                        THEN /\ Status(states'[c], i) = "NOTIFIED"
                             /\ Status(states[c], i) = "ACTIVE_NOT_NOTIFIED"
                        ELSE Status(states'[c], i) = Status(states[c], i)
    OBVIOUS
  <2>2. IF states[c][k].id = i /\ \A j \in 1..(k - 1) : states[c][j].id # i
        THEN Status(states'[c], i) = "NOTIFIED" /\ Status(states[c], i) = states[c][k].state
        ELSE Status(states'[c], i) = Status(states[c], i)
    <3>1. MarksFirst(states[c], k, states'[c], i)
      BY ONLY <1>4, <1>7, StatusMarked
    <3>2. QED BY <3>1 DEF MarksFirst
  <2>3. QED BY <1>6, <2>2
<1> HIDE DEF first
<1>11. CASE first
  <2>1. /\ \A d \in Channels \ {c} : \A i \in Ids : Status(states'[d], i) = Status(states[d], i)
        /\ Status(states[c], id) = "ACTIVE_NOT_NOTIFIED" /\ Status(states'[c], id) = "NOTIFIED"
        /\ \A i \in Ids \ {id} : Status(states'[c], i) = Status(states[c], i)
    BY <1>6, <1>7, <1>10, <1>11
  <2> HIDE DEF id
  <2>2. StatusMap(states') = [StatusMap(states) EXCEPT ![c][id] = "NOTIFIED"]
    <3>1. StatusesIn(states'[c]) = [StatusesIn(states[c]) EXCEPT ![id] = "NOTIFIED"]
      BY ONLY <1>6, <2>1 DEF StatusesIn
    <3>2. \A d \in Channels \ {c} : StatusesIn(states'[d]) = StatusesIn(states[d])
      BY <1>7
    <3>3. QED BY ONLY <1>4, <3>1, <3>2 DEF StatusMap
  <2>3. StatusMap(states)[c][id] = "ACTIVE_NOT_NOTIFIED"
    BY <1>4, <1>6, <2>1 DEF StatusMap, StatusesIn
  <2>4. Lifecycle!Announce(c, id)
    BY <1>8, <1>9, <2>2, <2>3 DEF Lifecycle!Announce
  <2>5. QED BY <1>4, <1>6, <2>4
<1>12. CASE ~first
  <2>1. \A d \in Channels : \A i \in Ids : Status(states'[d], i) = Status(states[d], i)
    BY <1>7, <1>10, <1>12
  <2>2. UNCHANGED currentStatus
    BY <1>9, <2>1 DEF StatusMap, StatusesIn
  <2>3. currentStatus[c][id] # "ABSENT"
    <3>1. Known(states[c], id)
      BY DEF Known
    <3>2. Status(states[c], id) # "ABSENT"
      BY ONLY <1>4, <3>1, StatusIs
    <3>3. QED BY <1>4, <1>6, <1>9, <3>2 DEF StatusMap, StatusesIn
  <2>4. QED BY <1>4, <1>8, <1>9, <2>2, <2>3 DEF Lifecycle!Look
<1>13. QED BY <1>11, <1>12

LEMMA SelectImplements ==
  ASSUME Inv, Inv', NEW c \in Channels, NEW id \in Ids, Select(c, id)
  PROVE  Lifecycle!Look
<1>1. pc # "rename" /\ pc' = pc /\ states' = states
  BY DEF Select, AtUser, files
<1>2. CASE screen' = NoScreen
  BY <1>1, <1>2, Unnoticed
<1>3. CASE screen' # NoScreen
  <2>1. Known(states[c], id) /\ Opens(c, First(states[c], id))
    BY <1>3 DEF Select
  <2>2. states[c] \in Seq(Entries)
    BY DEF Inv, Types
  <2>3. First(states[c], id).id = id
    BY <2>1, <2>2, FirstIs
  <2>4. currentShown' = id
    BY <1>3, <2>1, <2>3 DEF Opens, currentShown
  <2>5. /\ currentStatus = StatusMap(states) /\ currentReplacing = NoChannel
        /\ currentStatus' = StatusMap(states') /\ currentReplacing' = NoChannel
    BY <1>1, Mapped, MappedAfter
  <2>6. currentStatus[c][id] # "ABSENT"
    BY <2>1, <2>2, <2>5, StatusIs DEF StatusMap, StatusesIn
  <2>7. QED BY <1>1, <2>4, <2>5, <2>6 DEF Lifecycle!Look
<1>4. QED BY <1>2, <1>3

\* Time and what the model repeats are no steps of it.
LEMMA SameFiles ==
  ASSUME Inv, Inv', UNCHANGED <<states, newStates, pc, ch>>, screen' = screen \/ screen' = NoScreen
  PROVE  Lifecycle!Look \/ UNCHANGED Lifecycle!vars
<1>1. UNCHANGED <<currentStatus, currentReplacing>>
  <2>1. CASE pc = "rename"
    BY <2>1, Mapped, MappedAfter
  <2>2. CASE pc # "rename"
    BY <2>2, Mapped, MappedAfter
  <2>3. QED BY <2>1, <2>2
<1>2. CASE screen' = screen
  BY <1>1, <1>2 DEF Lifecycle!vars, currentShown
<1>3. CASE screen' = NoScreen /\ pc = "rename"
  BY <1>1, <1>3 DEF Lifecycle!vars, currentShown, Inv, ReplaceInv
<1>4. CASE screen' = NoScreen /\ pc # "rename"
  BY <1>4, Unnoticed
<1>5. QED BY <1>2, <1>3, <1>4

LEMMA StepImplements ==
  ASSUME Inv, Inv', [Next]_vars
  PROVE  [Lifecycle!Next]_(Lifecycle!vars)
<1>1. Lifecycle!Look => Lifecycle!Next
  BY DEF Lifecycle!Next
<1>2. CASE UNCHANGED vars
  BY <1>1, <1>2, SameFiles DEF vars
<1>3. CASE Tick
  BY <1>1, <1>3, SameFiles DEF Tick, Quietly, files
<1>4. CASE Reset \/ Exception
  BY <1>1, <1>4, StartOverImplements DEF Reset, Exception, Lifecycle!Next
<1>5. CASE UserStep
  BY <1>1, <1>5, ControlUnnoticed, SelectImplements DEF UserStep
<1>6. CASE DatabaseStep
  <2>1. CASE \E c \in Channels : RemoveStates(c) /\ Elsewhere
    BY <2>1, RemoveImplements DEF Lifecycle!Next
  <2>2. CASE RenameStates /\ Elsewhere
    BY <2>2, RenameImplements DEF Lifecycle!Next
  <2>3. CASE \E c \in Channels : Recalculate(c) /\ Elsewhere
    BY <1>1, <2>3, RecalculateImplements DEF Lifecycle!Next
  <2>4. CASE DeleteFile /\ Elsewhere
    BY <1>1, <2>4, DeleteImplements DEF Lifecycle!Next
  <2>5. QED BY <1>1, <1>6, <2>1, <2>2, <2>3, <2>4, ControlUnnoticed DEF DatabaseStep
<1>7. CASE Announce
  BY <1>1, <1>7, AnnounceImplements DEF Lifecycle!Next
<1>8. CASE \/ LoopPull \/ LoopNoPull \/ EverySecond \/ NotYet \/ NothingToAnnounce \/ Setup
           \/ ReceivingEnds \/ ServerAnswers
  BY <1>1, <1>8, ControlUnnoticed DEF ServerAnswers
<1>9. QED BY <1>2, <1>3, <1>4, <1>5, <1>6, <1>7, <1>8 DEF Next, ProgramStep

LEMMA InitImplements == Init => Lifecycle!Init
<1>1. SUFFICES ASSUME Init PROVE Lifecycle!Init
  OBVIOUS
<1>2. pc # "rename" /\ screen = NoScreen /\ states = [c \in Channels |-> <<>>]
  BY <1>1 DEF Init
<1>3. currentStatus = StatusMap(states) /\ currentReplacing = NoChannel
  BY <1>1, <1>2, InvInit, Mapped
<1>4. \A c \in Channels : \A id \in Ids : Status(states[c], id) = "ABSENT"
  BY <1>2, NothingKnown
<1>5. QED BY <1>2, <1>3, <1>4 DEF Lifecycle!Init, currentShown, StatusMap, StatusesIn

\* A notification goes through its states once and forward, and is announced at
\* most once, in every run of the program (ImplementsLifecycle).
THEOREM FilesImplementLifecycle == Spec => ImplementsLifecycle
<1>1. Inv /\ Inv' /\ [Next]_vars => [Lifecycle!Next]_(Lifecycle!vars)
  BY StepImplements
<1>2. QED BY <1>1, InitImplements, Invariant, PTL DEF Spec, ImplementsLifecycle, Lifecycle!Spec
=============================================================================
