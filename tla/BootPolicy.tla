----------------------------- MODULE BootPolicy -----------------------------
(***************************************************************************)
(* What rBoot promises the user of the badge, with the choice of a ROM as    *)
(* one function of the stored configuration, the request of the last ROM,   *)
(* the pin and the images, and the sector replaced in one step.  RBoot is    *)
(* shown to implement it.                                                    *)
(***************************************************************************)
EXTENDS RBootConfig

CONSTANT AppSettings

VARIABLES
  phase,     \* "deciding", "chosen", "running" or "gaveUp"
  stored,    \* the configuration, as it will be once the write under way is done
  inFlight,  \* a write of it is under way
  good,
  request,   \* the ROM requested for one boot, or NoRom
  rom,       \* the ROM chosen
  temporary  \* the choice is for one boot and is not to be stored

policyVars == <<phase, stored, inFlight, good, request, rom, temporary>>

Init ==
  /\ phase = "deciding"
  /\ stored = ErasedSector
  /\ inFlight = FALSE
  /\ good \in SUBSET Slots
  /\ request = NoRom
  /\ rom = NoRom
  /\ temporary = FALSE

Effective(c) == IF c.valid THEN c ELSE DefaultConfig

InRange(c) == c.current_rom < c.count

\* The nearest ROM at or below the stored one, round the end of the table, that
\* is good: no ROM of the configuration on the way from it up to the stored one
\* is.
OnTheWay(c, cur, r) ==
  {q \in Bytes : q < c.count /\ IF r <= cur THEN r < q /\ q <= cur ELSE r < q \/ q <= cur}

Nearest(c, g, cur) ==
  LET Candidates == {r \in Bytes : r < c.count /\ Bootable(c, g, r)}
  IN  IF Candidates = {} THEN NoRom
      ELSE CHOOSE r \in Candidates : Candidates \cap OnTheWay(c, cur, r) = {}

\* The pin wins over a request, and a stored number out of range over both.  What
\* is named by the pin or a request is booted or nothing is.
Choice(c, g, req, level) ==
  LET named == IF ~InRange(c) THEN 0
               ELSE IF level THEN c.gpio_rom
               ELSE IF req # NoRom THEN req
               ELSE c.current_rom
      special == level \/ req # NoRom
  IN  IF (req # NoRom /\ req >= c.count) \/ (level /\ c.gpio_rom >= c.count) THEN NoRom
      ELSE IF ~special THEN Nearest(c, g, named)
      ELSE IF Bootable(c, g, named) THEN named
      ELSE NoRom

\* The request of a boot that found its ROM bad is dropped.
Remaining(c, req, level, choice) ==
  IF choice = NoRom /\ ~level /\ req # NoRom /\ req < c.count THEN NoRom ELSE req

Decide(level) ==
  LET c == Effective(stored)
      choice == Choice(c, good, request, level)
  IN  /\ phase = "deciding"
      /\ phase' = IF choice = NoRom THEN "gaveUp" ELSE "chosen"
      /\ rom' = choice
      /\ temporary' = (choice # NoRom /\ ~level /\ request # NoRom /\ InRange(c))
      /\ request' = Remaining(c, request, level, choice)
      /\ UNCHANGED <<stored, inFlight, good>>

\* A badge without a configuration gets the default one.
Recreate ==
  /\ phase = "deciding"
  /\ ~stored.valid /\ ~inFlight
  /\ stored' = DefaultConfig
  /\ inFlight' = TRUE
  /\ UNCHANGED <<phase, good, request, rom, temporary>>

Commit ==
  /\ phase = "chosen" /\ ~temporary /\ ~inFlight
  /\ stored' = [stored EXCEPT !.current_rom = rom]
  /\ inFlight' = TRUE
  /\ UNCHANGED <<phase, good, request, rom, temporary>>

Written ==
  /\ inFlight
  /\ inFlight' = FALSE
  /\ UNCHANGED <<phase, stored, good, request, rom, temporary>>

\* The ROM runs: it is the stored one by now, unless it was asked for one boot.
Run ==
  /\ phase = "chosen" /\ ~inFlight
  /\ temporary \/ stored.current_rom = rom
  /\ phase' = "running"
  /\ request' = NoRom
  /\ UNCHANGED <<stored, inFlight, good, rom, temporary>>

\* What the ROM may do: select, configure, request, install.
Select(r) ==
  /\ phase = "running" /\ ~inFlight
  /\ r < stored.count
  /\ stored' = [stored EXCEPT !.current_rom = r]
  /\ inFlight' = TRUE
  /\ UNCHANGED <<phase, good, request, rom, temporary>>

Configure(s) ==
  /\ phase = "running" /\ ~inFlight
  /\ stored' = [stored EXCEPT !.mode = s.mode, !.current_rom = s.current_rom,
                              !.gpio_rom = s.gpio_rom, !.count = s.count]
  /\ inFlight' = TRUE
  /\ UNCHANGED <<phase, good, request, rom, temporary>>

Request(r) ==
  /\ phase = "running"
  /\ request' = r
  /\ UNCHANGED <<phase, stored, inFlight, good, rom, temporary>>

Install(g) ==
  /\ phase = "running"
  /\ good' = g
  /\ UNCHANGED <<phase, stored, inFlight, request, rom, temporary>>

\* A finished installation drops the request for a temp boot.
Installed ==
  /\ phase = "running"
  /\ request' = NoRom
  /\ UNCHANGED <<phase, stored, inFlight, good, rom, temporary>>

\* An interruption loses at most the write under way, and power the request:
\* then any byte may stand where it was.
Interrupt(req) ==
  /\ phase' = "deciding"
  /\ stored' \in IF inFlight THEN {Torn(stored, w) : w \in Words} ELSE {stored}
  /\ inFlight' = FALSE
  /\ request' = req
  /\ rom' = NoRom
  /\ temporary' = FALSE
  /\ UNCHANGED good

Next ==
  \/ \E level \in BOOLEAN : Decide(level)
  \/ Recreate \/ Commit \/ Written \/ Run \/ Installed
  \/ \E r \in Bytes : Select(r) \/ Request(r)
  \/ \E s \in AppSettings : Configure(s)
  \/ \E g \in SUBSET Slots : Install(g)
  \/ \E req \in Bytes \cup {NoRom} : Interrupt(req)

Spec == Init /\ [][Next]_policyVars
=============================================================================
