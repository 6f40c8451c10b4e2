------------------------ MODULE DefaultRomProperties ------------------------
(* What the default ROM's notifications are to be relied on for.             *)
EXTENDS DefaultRom

StateNames == {"SCHEDULED", "ACTIVE_NOT_NOTIFIED", "NOTIFIED", "INACTIVE"}
Entries == [id: Ids, state: StateNames, from: Nat, to: Nat, pos: Nat \ {0}]
DataLines == [id: Ids \cup {NoId}, from: Nat \cup {NoTime}, to: Nat \cup {NoTime}]

TypeOK ==
  /\ now \in Epoch..(Epoch + Horizon) /\ booted \in Epoch..now
  /\ url \in SUBSET Channels
  /\ \A c \in Channels :
       /\ timestamp[c] = NoTimestamp \/ timestamp[c] \in [server: Nat, local: 0..Horizon]
       /\ data[c] \in Seq(DataLines)
       /\ states[c] \in Seq(Entries)
  /\ newStates \in Seq(Entries)
  /\ pc \in {"setup", "loop", "fetch", "headers", "sync", "rename", "recalc", "timer",
             "announce", "receive", "config", "delete"}
  /\ todo \in SUBSET Channels
  /\ ch \in Channels \cup {NoChannel}
  /\ after \in {"loop", "timer", "announce"}
  /\ synced \in SUBSET Channels /\ interrupted \in SUBSET Channels
  /\ ennotif \in BOOLEAN
  /\ menu \subseteq Channels \X Ids
  /\ screen = NoScreen \/ screen \in Windows

\* Once synced, a states file lists exactly the notifications of its data file,
\* in that order, with their times and with positions that lead back to them,
\* through every update in place (syncStatesWithData, NotificationStateIterator::update).
\* A channel whose pull a reset cut short is not synced before its next sync: what
\* its stale positions lead to is the matter of ScreenShowsWanted.
StatesMatchData ==
  \A c \in synced :
    LET at == WithId(data[c])
    IN  /\ Len(states[c]) = Len(at)
        /\ \A k \in DOMAIN at :
             LET e == states[c][k]
                 l == data[c][at[k]]
             IN  e.pos = at[k] /\ e.id = l.id /\ e.from = l.from /\ e.to = l.to

\* Between the writing of a channel's data and the rebuilding of its states the
\* program opens no window, and a menu opened before does not go wrong after it:
\* the text on the screen is that of the notification announced or selected, in
\* every channel but one whose pull a reset cut short and that no sync has
\* reached since.  There it may be another one's (pullNotifications,
\* getNotification, getNotificationByHandle).
ScreenShowsWanted ==
  screen # NoScreen /\ screen.channel \notin interrupted => screen.got = screen.want

\* Every recalculation of a channel whose server told the time, and told all of
\* it (a part of the number lies before Epoch), leaves each entry
\* as the clock of that server has it, not late and not early, although the
\* badge only counts from its own boot (deleteTimestampFiles, recalculateStates).
OnTime(old, new) ==
  /\ now > new.to => new.state = "INACTIVE"
  /\ new.state = "SCHEDULED" => now <= new.from
  /\ new.state = "ACTIVE_NOT_NOTIFIED" /\ old.state # new.state => now > new.from
  /\ new.state = "INACTIVE" /\ old.state # new.state => now > new.to

ChangesOnTime ==
  [][pc = "recalc" /\ pc' = "recalc" =>
       \A c \in todo \ todo' :
         timestamp[c] # NoTimestamp /\ timestamp[c].server >= Epoch =>
           \A k \in DOMAIN states[c] : OnTime(states[c][k], states'[c][k])]_vars

\* If resets and exceptions stop, the data stay as they are, notifications stay
\* on, every server asked answers or closes (the header loop has no other end)
\* and the user leaves neither the receiving screen nor configuration mode open
\* (the one thread is held there), then every active notification of a channel
\* is announced, or runs out (loop).
Quiet ==
  /\ <>[][~Reset /\ UNCHANGED data]_vars
  /\ <>[](ennotif /\ pc \notin {"config", "delete"})
  /\ []<>(pc \notin {"headers", "receive"})

Current(c) == IF pc = "rename" /\ c = ch THEN newStates ELSE states[c]

Status(entries, id) ==
  IF Known(entries, id) THEN First(entries, id).state ELSE "ABSENT"

Active(c, id) == c \in url /\ Status(Current(c), id) = "ACTIVE_NOT_NOTIFIED"

ActiveAnnounced ==
  Quiet => \A c \in Channels, id \in Ids : Active(c, id) ~> ~Active(c, id)

-----------------------------------------------------------------------------
(* The states files implement NotificationLifecycle.  While states is being  *)
(* replaced, what counts is new_states: nothing but a reset can come between. *)

currentStatus    == [c \in Channels |-> [id \in Ids |-> Status(Current(c), id)]]
currentShown     == IF screen = NoScreen THEN NoId ELSE screen.want
currentReplacing == IF pc = "rename" THEN ch ELSE NoChannel

Lifecycle == INSTANCE NotificationLifecycle WITH
  status <- currentStatus, shown <- currentShown, replacing <- currentReplacing

\* A notification goes through its states once and forward: it is announced at
\* most once, unless the server drops it or a reset falls between remove and
\* rename or its channel is deleted.
ImplementsLifecycle == Lifecycle!Spec
=============================================================================
