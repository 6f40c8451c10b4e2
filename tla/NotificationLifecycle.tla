----------------------- MODULE NotificationLifecycle -----------------------
(***************************************************************************)
(* What the notification database promises, without files: every            *)
(* notification of a channel is absent, or scheduled, active, notified or   *)
(* inactive, and goes that way and never back.                              *)
(***************************************************************************)
CONSTANTS Channels, Ids, NoId, NoChannel

VARIABLES
  status,       \* of every notification of every channel
  shown,        \* the notification the last step put on the screen
  replacing     \* the channel whose list is being replaced

vars == <<status, shown, replacing>>

Statuses == {"ABSENT", "SCHEDULED", "ACTIVE_NOT_NOTIFIED", "NOTIFIED", "INACTIVE"}

Init ==
  /\ status = [c \in Channels |-> [id \in Ids |-> "ABSENT"]]
  /\ shown = NoId
  /\ replacing = NoChannel

\* Channel c, and no other, changes: each of its notifications as allowed says.
Change(c, allowed) ==
  /\ status' \in [Channels -> [Ids -> Statuses]]
  /\ \A d \in Channels \ {c} : status'[d] = status[d]
  /\ \A id \in Ids : status'[c][id] \in allowed[status[c][id]]
  /\ shown' = NoId

Gone == [s \in Statuses |-> {"ABSENT"}]
Listed == [s \in Statuses |-> {"ABSENT", IF s = "ABSENT" THEN "SCHEDULED" ELSE s}]
Later ==
  [s \in Statuses |->
     CASE s = "SCHEDULED" -> {s, "ACTIVE_NOT_NOTIFIED", "INACTIVE"}
       [] s \in {"ACTIVE_NOT_NOTIFIED", "NOTIFIED"} -> {s, "INACTIVE"}
       [] OTHER -> {s}]

\* The server has a new list: what is new is scheduled, what is gone is absent.
Publish(c) ==
  /\ replacing = NoChannel /\ replacing' = c
  /\ Change(c, Listed)

Settle ==
  /\ replacing # NoChannel /\ replacing' = NoChannel
  /\ shown' = NoId
  /\ UNCHANGED status

\* A reset while the list is being replaced loses all of it; it never touches
\* another channel.
Lose ==
  /\ replacing # NoChannel /\ replacing' = NoChannel
  /\ Change(replacing, Gone)

Delete(c) ==
  /\ replacing = NoChannel /\ UNCHANGED replacing
  /\ Change(c, Gone)

\* Time passes for the notifications of one channel.
Advance(c) ==
  /\ replacing = NoChannel /\ UNCHANGED replacing
  /\ Change(c, Later)

\* One active notification is announced.
Announce(c, id) ==
  /\ replacing = NoChannel /\ UNCHANGED replacing
  /\ status[c][id] = "ACTIVE_NOT_NOTIFIED"
  /\ status' = [status EXCEPT ![c][id] = "NOTIFIED"]
  /\ shown' = id

\* The user selects one of the notifications there are.
Look ==
  /\ replacing = NoChannel /\ UNCHANGED replacing
  /\ shown' = NoId \/ \E c \in Channels : status[c][shown'] # "ABSENT"
  /\ UNCHANGED status

Next ==
  \/ Settle \/ Lose \/ Look
  \/ \E c \in Channels : Publish(c) \/ Delete(c) \/ Advance(c)
  \/ \E c \in Channels, id \in Ids : Announce(c, id)

Spec == Init /\ [][Next]_vars
=============================================================================
