-------------------------- MODULE MCInfraredShare --------------------------
EXTENDS InfraredShare

\* The characters are powers of six: two texts with the same sum have the same
\* characters, unless one of them occurs six times.
Weight(n) == 6^n

\* A text of eight characters, that fills its codes, and one of eleven: its third code
\* holds the newline and one zero.  No code has a newline where a checksum would be.
MCChannels ==
  {[host |-> <<Weight(0)>>, url |-> <<Weight(0)>>,
    fingerprint |-> <<Weight(1), Weight(2), Weight(3), Weight(4), Weight(5), Weight(5)>>],
   [host |-> <<Weight(2)>>, url |-> <<Weight(3)>>, fingerprint |-> <<Weight(1), Weight(0), Weight(2)>>]}
MCCR      == Weight(6)
MCNL      == Weight(7)
MCMarker  == Weight(8)
MCModulus == Weight(10)

\* Codes of somebody else: one has a newline in it, one begins with a zero.
MCForeign == {<<Weight(9), Weight(9), MCNL, 0>>, <<0, Weight(9), MCCR, 0>>}
=============================================================================
