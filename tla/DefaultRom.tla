----------------------------- MODULE DefaultRom -----------------------------
(***************************************************************************)
(* setup() and loop() of the default ROM around the notification database:  *)
(* one thread, which pulls, recalculates and announces, and lets the user   *)
(* in at its head and, through a callback, between two channels of a        *)
(* recalculation.  A reset may come between any two steps.                  *)
(***************************************************************************)
EXTENDS NotificationDB

CONSTANT NoScreen   \* the last step opened no notification

Windows == [channel: Channels, want: Ids, got: Ids \cup {NoId}]

ASSUME NoScreenAssumption  == NoScreen \notin Windows

VARIABLES
  ennotif,      \* notifications are on (in RAM and in a file)
  menu,         \* the handles of the open notification menu
  screen,       \* history: the window opened by the last step, as the id that
                \* is meant and the id of the notification whose text it shows
  interrupted   \* history: channels whose pull a reset cut short

clock == <<now, booted>>
history == <<synced, interrupted>>

\* What a step leaves alone that opens neither a menu nor a notification.
Quietly == UNCHANGED menu /\ screen' = NoScreen

vars == <<now, booted, url, timestamp, data, states, newStates, pc, todo, ch,
          after, synced, interrupted, ennotif, menu, screen>>

Init ==
  /\ now = Epoch /\ booted = Epoch
  /\ url = {}
  /\ timestamp = [c \in Channels |-> NoTimestamp]
  /\ data = [c \in Channels |-> <<>>]
  /\ states = [c \in Channels |-> <<>>]
  /\ newStates = <<>>
  /\ pc = "setup"
  /\ todo = {} /\ ch = NoChannel /\ after = "loop"
  /\ synced = {} /\ interrupted = {}
  /\ ennotif = TRUE
  /\ menu = {} /\ screen = NoScreen

-----------------------------------------------------------------------------
(* The one thread.                                                          *)

\* To pull, when connected; or to configuration mode, without a wifi.conf.
Setup ==
  /\ pc = "setup"
  /\ DeleteTimestamps
  /\ pc' \in {"loop", "fetch", "config"}
  /\ todo' = IF pc' = "fetch" THEN url ELSE {}
  /\ after' = "loop"
  /\ UNCHANGED <<clock, url, data, states, newStates, ch, history, ennotif>>
  /\ Quietly

\* The interval has passed and the badge is connected.
LoopPull ==
  /\ pc = "loop"
  /\ pc' = "fetch" /\ todo' = url /\ after' = "timer"
  /\ UNCHANGED <<clock, files, newStates, ch, history, ennotif>>
  /\ Quietly

LoopNoPull ==
  /\ pc = "loop"
  /\ pc' = "timer"
  /\ UNCHANGED <<clock, files, newStates, todo, ch, after, history, ennotif>>
  /\ Quietly

EverySecond ==
  /\ pc = "timer"
  /\ pc' = "recalc" /\ todo' = url /\ after' = "announce"
  /\ UNCHANGED <<clock, files, newStates, ch, history, ennotif>>
  /\ Quietly

\* At its end loop() enters the receiving loop, if the user has opened that screen.
LoopEnds == pc' \in {"loop", "receive"}

NotYet ==
  /\ pc = "timer"
  /\ LoopEnds
  /\ UNCHANGED <<clock, files, newStates, todo, ch, after, history, ennotif>>
  /\ Quietly

\* The id in the line at the position an entry has; past the end there is none.
TextId(c, entry) ==
  IF entry.pos \in DOMAIN data[c] THEN data[c][entry.pos].id ELSE NoId

\* The notifications whose text a position leads to: positions count bytes, and
\* in data that changed after the states were built they lead into any line.
\* Where no id is found, nothing is opened: the badge crashes (Exception).
Texts(c, entry) ==
  IF c \in synced THEN {TextId(c, entry)}
  ELSE {data[c][k].id : k \in DOMAIN data[c]} \ {NoId}

Opens(c, entry) ==
  \E id \in Texts(c, entry) : screen' = [channel |-> c, want |-> entry.id, got |-> id]

\* The entry the iterator with filter NOT_NOTIFIED stops at in channel c.
IsFirstWaiting(c, k) ==
  /\ states[c][k].state = "ACTIVE_NOT_NOTIFIED"
  /\ \A j \in 1..(k - 1) : states[c][j].state # "ACTIVE_NOT_NOTIFIED"

Waiting(c) == c \in url /\ \E k \in DOMAIN states[c] : IsFirstWaiting(c, k)

Announce_Forgets ==
  /\ pc = "announce" /\ ennotif
  /\ \E c \in url : \E k \in DOMAIN states[c] :
       IsFirstWaiting(c, k) /\ Opens(c, states[c][k])
  /\ LoopEnds
  /\ UNCHANGED <<clock, files, newStates, todo, ch, after, history, ennotif, menu>>

\* The channels come in the order of the directory.
Announce ==
  /\ pc = "announce" /\ ennotif
  /\ \E c \in url : \E k \in DOMAIN states[c] :
       /\ IsFirstWaiting(c, k)
       /\ Opens(c, states[c][k])
       /\ states' = [states EXCEPT ![c][k].state = "NOTIFIED"]
  /\ LoopEnds
  /\ UNCHANGED <<clock, url, timestamp, data, newStates, todo, ch, after, history, ennotif, menu>>

NothingToAnnounce ==
  /\ pc = "announce"
  /\ ennotif => \A c \in Channels : ~Waiting(c)
  /\ LoopEnds
  /\ UNCHANGED <<clock, files, newStates, todo, ch, after, history, ennotif>>
  /\ Quietly

\* The steps of the database touch nothing of the loop.
Elsewhere ==
  /\ UNCHANGED <<clock, ennotif>>
  /\ interrupted' = interrupted \ synced'
  /\ Quietly

DatabaseStep ==
  \/ \E c \in Channels : FetchFails(c) /\ Elsewhere
  \/ \E c \in Channels : Request(c) /\ Elsewhere
  \/ FetchDone /\ Elsewhere
  \/ \E c \in Channels : RemoveStates(c) /\ Elsewhere
  \/ RenameStates /\ Elsewhere
  \/ SyncDone /\ Elsewhere
  \/ \E c \in Channels : Recalculate(c) /\ Elsewhere
  \/ RecalculateDone /\ Elsewhere
  \/ DeleteFile /\ Elsewhere
  \/ DeleteDone /\ Elsewhere

-----------------------------------------------------------------------------
(* The user: at the head of the loop, between channels, or in the browser.  *)

AtUser_InSync == pc = "loop" \/ (pc = "recalc" /\ after = "announce") \/ pc = "sync"
AtUser == pc = "loop" \/ (pc = "recalc" /\ after = "announce")

\* "Accept" of a channel received by infrared, or /api/channels/add
AcceptChannel ==
  /\ AtUser \/ pc = "config"
  /\ AddChannel
  /\ UNCHANGED <<clock, timestamp, data, states, newStates, pc, todo, ch, after, history, ennotif>>
  /\ Quietly

ToggleNotifications ==
  /\ AtUser
  /\ ennotif' = ~ennotif
  /\ UNCHANGED <<clock, files, newStates, pc, todo, ch, after, history>>
  /\ Quietly

\* Filter ACTIVE.  DISMISSED is a state nothing ever sets.
Listed(c) == {states[c][k].id : k \in {k \in DOMAIN states[c] :
                states[c][k].state \in {"ACTIVE_NOT_NOTIFIED", "NOTIFIED"}}}

OpenMenu ==
  /\ AtUser
  /\ menu' = UNION {{<<c, id>> : id \in Listed(c)} : c \in url}
  /\ screen' = NoScreen
  /\ UNCHANGED <<clock, files, newStates, pc, todo, ch, after, history, ennotif>>

\* getNotificationByHandle: the handle has a number and an id, the position is
\* looked up anew.  Without the entry, "Notification does not exist anymore."
Select(c, id) ==
  /\ AtUser
  /\ <<c, id>> \in menu
  /\ IF c \in url /\ Known(states[c], id)
     THEN Opens(c, First(states[c], id)) ELSE screen' = NoScreen
  /\ UNCHANGED <<clock, files, newStates, pc, todo, ch, after, history, ennotif, menu>>

\* initialConfig never returns.
OpenConfig ==
  /\ AtUser
  /\ pc' = "config" /\ todo' = {}
  /\ UNCHANGED <<clock, files, newStates, ch, after, history, ennotif>>
  /\ Quietly

\* /api/channels/delete
DeleteChannel(c) ==
  /\ pc = "config"
  /\ DeleteStart(c)
  /\ Elsewhere

UserStep ==
  \/ AcceptChannel \/ ToggleNotifications \/ OpenMenu \/ OpenConfig
  \/ \E c \in Channels : DeleteChannel(c) \/ \E id \in Ids : Select(c, id)

-----------------------------------------------------------------------------
(* Servers and other badges.                                                *)

ServerAnswers == FetchAny /\ Elsewhere

\* A transmission ends, in a good or a bad checksum or in a code that is too long;
\* or the user closes the screen.
ReceivingEnds ==
  /\ pc = "receive"
  /\ pc' = "loop"
  /\ UNCHANGED <<clock, files, newStates, todo, ch, after, history, ennotif>>
  /\ Quietly

-----------------------------------------------------------------------------
\* The channels a reset leaves between their data and their states.
CutShort ==
  IF pc \in {"fetch", "headers", "sync", "rename"} THEN url \ synced ELSE {}

StartOver ==
  /\ pc' = "setup"
  /\ booted' = now
  /\ newStates' = <<>> /\ todo' = {} /\ ch' = NoChannel /\ after' = "loop"
  /\ menu' = {} /\ screen' = NoScreen
  /\ interrupted' = interrupted \cup CutShort
  /\ UNCHANGED <<now, files, synced, ennotif>>

Reset == StartOver

\* A null pointer: a line with an id and without times in the sync, or a
\* position with no id at it, for an announcement or an item of the menu, in a
\* channel whose data is not what its states came from.
Exception ==
  /\ \/ pc = "sync" /\ \E c \in todo : Unreadable(data[c])
     \/ pc = "announce" /\ ennotif /\ \E c \in Channels \ synced : Waiting(c)
     \/ AtUser /\ \E c \in url \ synced :
          Listed(c) # {} \/ \E id \in Ids : Known(states[c], id) /\ <<c, id>> \in menu
  /\ StartOver

Tick ==
  /\ now < Epoch + Horizon
  /\ now' = now + 1
  /\ UNCHANGED <<booted, files, newStates, pc, todo, ch, after, history, ennotif>>
  /\ Quietly

ProgramStep ==
  \/ Setup \/ LoopPull \/ LoopNoPull \/ EverySecond \/ NotYet
  \/ Announce \/ NothingToAnnounce \/ DatabaseStep \/ Exception

Next == ProgramStep \/ ServerAnswers \/ ReceivingEnds \/ UserStep \/ Reset \/ Tick

Spec == Init /\ [][Next]_vars

\* The thread goes on, and now and then a second has passed at the timer.  A
\* server need not answer, and what was sent by infrared need not come.
Fairness == WF_vars(ProgramStep) /\ SF_vars(EverySecond)

FairSpec == Spec /\ Fairness
=============================================================================
