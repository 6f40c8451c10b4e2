---------------------------- MODULE MCDefaultRom ----------------------------
EXTENDS DefaultRomProperties

L(id, from, to) == [id |-> id, from |-> Epoch + from, to |-> Epoch + to]

\* Two notifications, the second one later moved to the front and prolonged.
MCFeedsTwoIds == {<<L(1, 0, 1), L(2, 0, 2)>>, <<L(2, 1, 3), L(1, 0, 1)>>}

\* One notification, active from the start.
MCFeedsOneId == {<<L(1, -1, 0)>>}

\* Bound of the run with two channels: what the switch does is checked with one.
NotificationsOn == ennotif
=============================================================================
