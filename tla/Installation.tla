---------------------------- MODULE Installation ----------------------------
(***************************************************************************)
(* The ROM manager installs an image of the store in a slot: the HTTP        *)
(* request and the checks of ESPhttpUpdate, the Updater, and the way back to *)
(* the menu or to a reset.  The Updater is a global object: what a failed    *)
(* update leaves in it is there for the next.                               *)
(***************************************************************************)
EXTENDS Updater

CONSTANTS
  SlotAddresses,    \* where the slots begin
  FreeSketchSpace,  \* the cells ESP.getFreeSketchSpace reports
  Responses         \* of the store: [code, len, body, md5]

Malformed == <<"malformed">>   \* an x-MD5 that has not 32 characters

ASSUME SlotsAssumption == \A s \in SlotAddresses : s \in Addresses /\ s % SectorCells = 0
ASSUME SpaceAssumption == FreeSketchSpace \in Nat
ASSUME ResponsesAssumption == \A r \in Responses : r.len \in Nat /\ r.body \in Seq(Cells)

VARIABLES
  slot, response,
  sound,   \* history: nothing has gone wrong with this update yet
  jammed   \* history: since the reset, an update got a malformed MD5 or a write error

manager == <<slot, response>>
history == <<sound, jammed>>
updater == <<flash, stream, session, md5s, error>>
vars    == <<pc, updater, manager, history>>

NoResponse == [code |-> 0, len |-> 0, body |-> <<>>, md5 |-> NoMD5]

\* The state of the Updater and of the manager after a reset of the chip.
Booted ==
  /\ pc' = "menu"
  /\ stream' = <<>>
  /\ size' = 0 /\ startAddress' = 0 /\ currentAddress' = 0 /\ buffer' = <<>>
  /\ error' = "ok" /\ targetMD5' = NoMD5 /\ md5' = <<>>
  /\ slot' = 0 /\ response' = NoResponse
  /\ sound' = TRUE /\ jammed' = FALSE

Init ==
  /\ pc = "menu"
  /\ flash = [a \in Addresses |-> Blank] /\ stream = <<>>
  /\ size = 0 /\ startAddress = 0 /\ currentAddress = 0 /\ buffer = <<>>
  /\ error = "ok" /\ targetMD5 = NoMD5 /\ md5 = <<>>
  /\ slot = 0 /\ response = NoResponse
  /\ sound = TRUE /\ jammed = FALSE

\* Nothing in the answer keeps it from being installed.
Sound(r) ==
  /\ r.code = 200 /\ r.len \in 1..FreeSketchSpace /\ r.len = Len(r.body)
  /\ Magic(r.body[1]) /\ r.md5 \in {NoMD5, r.body}

\* The user picks a ROM of the store and a slot, and the store answers.
Update ==
  /\ pc = "menu"
  /\ slot' \in SlotAddresses
  /\ \E r \in Responses :
       response' = r /\ stream' = r.body /\ sound' = Sound(r)
  /\ pc' = "answered"
  /\ UNCHANGED <<flash, session, md5s, error, jammed>>

\* handleUpdate: what it refuses before it calls the Updater.  The first cell may
\* not have come in time.
Refused ==
  /\ pc = "answered"
  /\ \/ response.code \notin {200, 304} /\ UNCHANGED sound
     \/ response.code = 200 /\ response.len \notin 1..FreeSketchSpace /\ UNCHANGED sound
     \/ response.code = 200 /\ ~Magic(stream[1]) /\ UNCHANGED sound
     \/ response.code = 200 /\ sound' = FALSE
  /\ pc' = "failed"
  /\ UNCHANGED <<updater, manager, jammed>>

\* "Not modified" is no failure: the ROM manager announces a reboot and does one.
NotModified ==
  /\ pc = "answered" /\ response.code = 304
  /\ pc' = "rebooting"
  /\ UNCHANGED <<updater, manager, history>>

BeginUpdate ==
  /\ pc = "answered"
  /\ response.code = 200 /\ response.len \in 1..FreeSketchSpace /\ Magic(stream[1])
  /\ \/ BeginRefused /\ pc' = "failed"
     \/ Begin(response.len, slot) /\ pc' = "begun"
  /\ UNCHANGED <<flash, stream, manager, history>>

ExpectMD5 ==
  /\ pc = "begun"
  /\ \/ /\ response.md5 = NoMD5
        /\ pc' = "streaming"
        /\ UNCHANGED <<session, error, md5s, jammed>>
     \/ /\ response.md5 = Malformed
        /\ pc' = "failed" /\ jammed' = TRUE
        /\ UNCHANGED <<session, error, md5s>>
     \/ /\ response.md5 \notin {NoMD5, Malformed}
        /\ pc' = "streaming"
        /\ SetMD5(response.md5)
        /\ UNCHANGED jammed
  /\ UNCHANGED <<flash, stream, manager, sound>>

Reading == pc = "streaming" /\ remaining # 0 /\ ~BufferComplete

Read ==
  /\ Reading
  /\ \E n \in 1..SectorCells : ReadBytes(n)
  /\ UNCHANGED <<pc, flash, manager, history>>

Stalled_Retries ==
  /\ Reading
  /\ UNCHANGED vars
Stalled ==
  /\ Reading
  /\ ReadTimeout
  /\ pc' = "failed" /\ sound' = FALSE
  /\ UNCHANGED <<flash, stream, manager, jammed>>

Flushing == pc = "streaming" /\ remaining # 0 /\ BufferComplete

Erase ==
  /\ Flushing
  /\ EraseSector
  /\ pc' = "erased"
  /\ UNCHANGED <<stream, manager, history>>

Write ==
  /\ pc = "erased"
  /\ FlashWrite
  /\ pc' = "streaming"
  /\ UNCHANGED <<stream, manager, history>>

WriteFails ==
  /\ Flushing \/ pc = "erased"
  /\ WriteError
  /\ pc' = "failed" /\ sound' = FALSE /\ jammed' = TRUE
  /\ UNCHANGED <<flash, stream, manager>>

End ==
  /\ pc = "streaming" /\ remaining = 0
  /\ \/ EndFails /\ pc' = "failed"
     \/ EndWell /\ pc' = "rebooting"
  /\ UNCHANGED <<flash, stream, manager, history>>

\* The connection is closed, the error shown, and the menu again (goto reset): the
\* Updater alone remembers the update.
ShowError ==
  /\ pc = "failed"
  /\ pc' = "menu"
  /\ stream' = <<>> /\ slot' = 0 /\ response' = NoResponse /\ sound' = TRUE
  /\ UNCHANGED <<flash, session, md5s, error, jammed>>

Reboot ==
  /\ pc = "rebooting"
  /\ Booted /\ UNCHANGED flash

\* The reset button or a power cut.
ChipReset ==
  /\ flash' \in IF pc = "erased" THEN {Programmed(n) : n \in 0..Len(buffer)} ELSE {flash}
  /\ Booted

ManagerNext ==
  \/ Refused \/ NotModified \/ BeginUpdate \/ ExpectMD5
  \/ Read \/ Stalled \/ Erase \/ Write \/ WriteFails \/ End
  \/ ShowError \/ Reboot

Next == Update \/ ManagerNext \/ ChipReset

Spec == Init /\ [][Next]_vars

\* The processor goes on, and each read comes to an end by its timeout.
FairSpec == Spec /\ WF_vars(ManagerNext)

-----------------------------------------------------------------------------
TypeOK ==
  /\ pc \in {"menu", "answered", "begun", "streaming", "erased", "failed", "rebooting"}
  /\ flash \in [Addresses -> Cells]
  /\ size \in 0..FreeSketchSpace
  /\ startAddress \in Addresses
  /\ currentAddress \in 0..(FlashCells + FreeSketchSpace)
  /\ Len(buffer) <= SectorCells
  /\ isRunning => startAddress \in SlotAddresses
  /\ error \in {"ok", "stream", "write", "md5", "magic"}
  /\ sound \in BOOLEAN /\ jammed \in BOOLEAN

\* An update that ends well has put into the slot what the store announced, cell
\* by cell, whatever pieces the stream came in and whatever updates failed
\* before; it is what an x-MD5 of this answer asked for, and if it is an image,
\* check_image will accept it.
InstalledIsSent ==
  pc = "rebooting" /\ response.code = 200 =>
    /\ \A k \in 1..response.len : flash[slot + k - 1] = response.body[k]
    /\ response.md5 # NoMD5 => response.md5 = SubSeq(response.body, 1, response.len)
    /\ \A i \in DOMAIN Images :
         SubSeq(response.body, 1, response.len) = Image(i) => CheckImage(slot)

\* An update in which nothing goes wrong fails only if an earlier one since the
\* reset jammed the Updater, or left an MD5 that an answer without one does not
\* replace.
FailsForReason ==
  pc = "failed" /\ sound =>
    jammed \/ (response.md5 = NoMD5 /\ targetMD5 # NoMD5)

\* Back in the menu the Updater is ready for another update, unless it got a
\* malformed MD5 or could not write: only these two ways out leave it running.
LeavesReady == pc = "menu" /\ isRunning => jammed

\* An installation changes no sector but those the received bytes fill: the
\* slots before it never, those behind only if it receives more than its slot holds.
RoundUp(n) == ((n + SectorCells - 1) \div SectorCells) * SectorCells

NeighboursKept ==
  [][\A a \in Addresses :
       flash'[a] # flash[a] => a \in slot..(slot + RoundUp(Len(response.body)) - 1)]_vars

\* An update ends: the error is shown or the badge reboots, also if the store
\* sends less or more than it announced.
UpdateEnds == pc = "answered" ~> pc = "menu"
=============================================================================
