-------------------------- MODULE RBootRefinement --------------------------
(***************************************************************************)
(* RBoot implements BootPolicy: the steps from ReadConfig to the last check  *)
(* of an image are one Decide, and the sector has its new content from the   *)
(* erase on, because what is left to do is known from then on.               *)
(***************************************************************************)
EXTENDS RBoot

Deciding == pc \in {"readConfig", "eraseInvalid", "writeDefault", "tempRom",
                    "gpioRom", "currentRom", "checkRom", "romBad"}
Chosen == pc \in {"chosen", "writeConfig", "writeRtc"}

policyPhase ==
  IF pc = "halt" THEN "gaveUp"
  ELSE IF Deciding THEN "deciding"
  ELSE IF Chosen THEN "chosen"
  ELSE "running"

policyStored    == IF Writing THEN romconf ELSE cfg
policyRequest   == IF TempRequested(rtc) THEN rtc.temp_rom ELSE NoRom
policyRom       == IF pc = "halt" \/ Deciding THEN NoRom ELSE romToBoot
policyTemporary == ~Deciding /\ pc # "halt" /\ temp_boot /\ ~updateConfig

Policy == INSTANCE BootPolicy WITH
  phase <- policyPhase, stored <- policyStored, inFlight <- Writing,
  request <- policyRequest, rom <- policyRom, temporary <- policyTemporary

\* Every behaviour of the boot loader and of the ROMs it starts is one the
\* policy allows: in each boot, and with an interruption after any step, the ROM
\* booted is the policy's choice and the stored selection changes only as it says.
ImplementsPolicy == Policy!Spec
=============================================================================
