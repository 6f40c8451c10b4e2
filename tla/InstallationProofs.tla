------------------------- MODULE InstallationProofs -------------------------
(***************************************************************************)
(* Proofs about Installation, for every size of flash and of its sectors,    *)
(* every set of slots that begin at a sector, every store and every way the  *)
(* stream can be cut into pieces.                                            *)
(***************************************************************************)
EXTENDS Installation, BasicLemmas

\* Slots lie in flash, at the beginning of a sector.
LEMMA SlotFacts ==
  /\ SectorCells \in Nat \ {0} /\ FlashCells \in Nat \ {0} /\ FlashCells % SectorCells = 0
  /\ 0 \in Addresses /\ Addresses \subseteq Nat
  /\ \A s \in SlotAddresses : s \in Addresses /\ s \in Nat /\ s % SectorCells = 0
  /\ FreeSketchSpace \in Nat
<1>1. /\ SectorCells \in Nat \ {0} /\ FlashCells \in Nat \ {0} /\ FlashCells % SectorCells = 0
      /\ 0 \in Addresses /\ Addresses \subseteq Nat
  BY FlashAssumption DEF Addresses
<1>2. QED BY <1>1, SlotsAssumption, SpaceAssumption

\* The sector of a cell at which a sector begins.
LEMMA SectorFacts ==
  ASSUME NEW c \in Addresses, c % SectorCells = 0
  PROVE  /\ c + SectorCells <= FlashCells
         /\ \A b \in Addresses : b \in SectorOf(c) <=> c <= b /\ b < c + SectorCells
<1>1. /\ c \in Int /\ c < FlashCells /\ FlashCells \in Int /\ Addresses \subseteq Int
      /\ SectorCells \in Nat \ {0} /\ FlashCells % SectorCells = 0
  BY SlotFacts DEF Addresses
<1>2. c + SectorCells <= FlashCells
  BY ONLY <1>1, c % SectorCells = 0, MultiplesSum
<1>3. \A b \in Int : b \div SectorCells = c \div SectorCells <=> c <= b /\ b < c + SectorCells
  BY ONLY <1>1, c % SectorCells = 0, BlockOf
<1>4. QED BY <1>1, <1>2, <1>3 DEF SectorOf

-----------------------------------------------------------------------------
(***************************************************************************)
(* The inductive invariant.  InstalledIsSent speaks of the end of an update; *)
(* what makes it true is that all along the announced bytes are the ones in  *)
(* flash, those in the buffer and those still to come, one after the other,  *)
(* and that a sector is erased only behind the ones in flash.                *)
(***************************************************************************)

Going == pc \in {"begun", "streaming", "erased"}

done == currentAddress - slot

\* s is what the body of the answer holds behind its first n cells.
Part(s, n) == s \in Seq(Cells) /\ \A k \in 1..Len(s) : s[k] = response.body[n + k]

\* The Updater works for this answer, and its sectors are those of flash.
Session ==
  /\ response.code = 200 /\ response.len \in Nat /\ response.body \in Seq(Cells)
  /\ slot \in SlotAddresses
  /\ startAddress = slot /\ size = response.len /\ 0 < size
  /\ slot <= currentAddress /\ currentAddress <= FlashCells
  /\ currentAddress % SectorCells = 0 \/ remaining = 0

\* Nothing of the body is lost, doubled or out of order.
Transfer ==
  /\ Part(md5, 0) /\ Len(md5) = done
  /\ Part(buffer, done)
  /\ Part(stream, done + Len(buffer))
  /\ done + Len(buffer) + Len(stream) = Len(response.body)
  /\ \A k \in 1..done : flash[slot + k - 1] = response.body[k]

Flushed == remaining # 0 /\ BufferComplete /\ currentAddress \in Addresses

Expected == response.md5 # NoMD5 => targetMD5 = response.md5

Answered == response \in Responses /\ stream = response.body /\ slot \in SlotAddresses

InstallationInv ==
  /\ pc = "answered" => Answered
  /\ Going => Session /\ Transfer
  /\ pc \in {"streaming", "erased"} => Expected
  /\ pc = "erased" => Flushed
  /\ ~Going /\ isRunning => jammed
  /\ (Going \/ pc = "answered") /\ sound => Sound(response)
  /\ FailsForReason
  /\ InstalledIsSent

IInv == TypeOK /\ InstallationInv

-----------------------------------------------------------------------------
(* The steps, one lemma for each action of the manager.                     *)

\* An Updater that has been reset has the right types, and is not running.
LEMMA ResetFacts ==
  /\ 0 \in 0..FreeSketchSpace /\ 0 \in 0..(FlashCells + FreeSketchSpace)
  /\ Len(<<>>) <= SectorCells /\ ~(0 > 0)
BY SlotFacts

LEMMA InitStep == Init => IInv
<1> SUFFICES ASSUME Init PROVE IInv
  OBVIOUS
<1>1. flash \in [Addresses -> Cells]
  BY DEF Init, Cells
<1>2. /\ size = 0 /\ startAddress = 0 /\ currentAddress = 0 /\ buffer = <<>>
      /\ pc = "menu" /\ error = "ok" /\ sound = TRUE /\ jammed = FALSE
  BY DEF Init
<1>3. Len(buffer) <= SectorCells /\ ~isRunning
  BY <1>2, ResetFacts DEF isRunning
<1>4. TypeOK
  BY ONLY <1>1, <1>2, <1>3, ResetFacts, SlotFacts DEF TypeOK
<1>5. InstallationInv
  BY <1>2, <1>3 DEF InstallationInv, Going, FailsForReason, InstalledIsSent
<1>6. QED BY <1>4, <1>5 DEF IInv

LEMMA UpdateStep == IInv /\ Update => IInv'
BY DEF Update, IInv, TypeOK, InstallationInv, Answered, Going, isRunning, FailsForReason,
   InstalledIsSent, Sound, session

LEMMA RefusedStep == IInv /\ Refused => IInv'
<1> SUFFICES ASSUME IInv, Refused PROVE IInv'
  OBVIOUS
<1>1. pc = "answered" /\ pc' = "failed" /\ UNCHANGED <<flash, size, startAddress, currentAddress, buffer,
        error, targetMD5, md5, slot, response, stream, jammed>> /\ sound' \in {sound, FALSE}
  BY DEF Refused, updater, manager, session, md5s
<1>2. ~sound'
  <2>1. sound => Sound(response) /\ stream = response.body
    BY <1>1 DEF IInv, InstallationInv, Answered
  <2>2. Sound(response) => response.code = 200 /\ response.len \in 1..FreeSketchSpace /\ Magic(response.body[1])
    BY DEF Sound
  <2>3. QED BY <1>1, <2>1, <2>2, 200 \in {200, 304} DEF Refused
<1>3. TypeOK'
  BY <1>1, <1>2 DEF IInv, TypeOK, isRunning
<1>4. InstallationInv'
  BY <1>1, <1>2 DEF IInv, InstallationInv, Going, isRunning, FailsForReason, InstalledIsSent
<1>5. QED BY <1>3, <1>4 DEF IInv

LEMMA NotModifiedStep == IInv /\ NotModified => IInv'
BY DEF NotModified, IInv, TypeOK, InstallationInv, Answered, Going, isRunning, FailsForReason,
   InstalledIsSent, Sound, session, updater, manager, md5s, history

LEMMA StalledStep == IInv /\ Stalled => IInv'
<1> SUFFICES ASSUME IInv, Stalled PROVE IInv'
  OBVIOUS
<1>1. /\ pc' = "failed" /\ sound' = FALSE /\ error' = "stream" /\ UNCHANGED <<flash, jammed>>
      /\ size' = 0 /\ startAddress' = 0 /\ currentAddress' = 0 /\ buffer' = <<>>
  BY DEF Stalled, ReadTimeout, Reset
<1>2. TypeOK'
  <2>1. Len(buffer') <= SectorCells /\ ~isRunning'
    BY <1>1, ResetFacts DEF isRunning
  <2>2. flash' \in [Addresses -> Cells] /\ jammed' \in BOOLEAN
    BY <1>1 DEF IInv, TypeOK
  <2>3. QED BY ONLY <1>1, <2>1, <2>2, ResetFacts, SlotFacts DEF TypeOK
<1>3. InstallationInv'
  BY <1>1 DEF InstallationInv, Going, isRunning, FailsForReason, InstalledIsSent
<1>4. QED BY <1>2, <1>3 DEF IInv

LEMMA WriteFailsStep == IInv /\ WriteFails => IInv'
<1> SUFFICES ASSUME IInv, WriteFails PROVE IInv'
  OBVIOUS
<1>1. /\ pc' = "failed" /\ sound' = FALSE /\ jammed' = TRUE /\ error' = "write"
      /\ currentAddress' = startAddress + size
      /\ UNCHANGED <<flash, size, startAddress, buffer>>
  BY DEF WriteFails, WriteError
<1>2. TypeOK'
  <2>1. startAddress + size \in 0..(FlashCells + FreeSketchSpace)
    BY SlotFacts DEF IInv, TypeOK, Addresses
  <2>2. QED BY <1>1, <2>1 DEF IInv, TypeOK, isRunning
<1>3. InstallationInv'
  BY <1>1 DEF InstallationInv, Going, isRunning, FailsForReason, InstalledIsSent
<1>4. QED BY <1>2, <1>3 DEF IInv

LEMMA ShowErrorStep == IInv /\ ShowError => IInv'
BY DEF ShowError, IInv, TypeOK, InstallationInv, Going, isRunning,
   FailsForReason, InstalledIsSent, Sound, session, md5s

LEMMA StutterStep == IInv /\ UNCHANGED vars => IInv'
<1> SUFFICES ASSUME IInv, UNCHANGED vars PROVE IInv'
  OBVIOUS
<1>1. UNCHANGED <<pc, flash, stream, size, startAddress, currentAddress, buffer, error, targetMD5, md5,
                  slot, response, sound, jammed>>
  BY DEF vars, updater, manager, history, session, md5s
<1>2. TypeOK'
  BY <1>1 DEF IInv, TypeOK, isRunning
<1>3. Session' = Session /\ Flushed' = Flushed
  BY <1>1 DEF Session, Flushed, BufferComplete, remaining
<1>4. Transfer' = Transfer
  BY <1>1 DEF Transfer, Part, done
<1>5. Expected' = Expected /\ Answered' = Answered /\ FailsForReason' = FailsForReason
  BY <1>1 DEF Expected, Answered, FailsForReason
<1>6. CheckImage(slot)' = CheckImage(slot)
  BY <1>1 DEF CheckImage
<1>7. InstalledIsSent' = InstalledIsSent
  BY <1>1, <1>6 DEF InstalledIsSent
<1>8. InstallationInv'
  BY <1>1, <1>3, <1>4, <1>5, <1>7 DEF IInv, InstallationInv, Going, isRunning
<1>9. QED BY <1>2, <1>8 DEF IInv
LEMMA BeginStep == IInv /\ BeginUpdate => IInv'
<1> SUFFICES ASSUME IInv, BeginUpdate PROVE IInv'
  OBVIOUS
<1>1. /\ pc = "answered" /\ response.code = 200 /\ response.len \in 1..FreeSketchSpace
      /\ UNCHANGED <<flash, stream, slot, response, sound, jammed>>
  BY DEF BeginUpdate, manager, history
<1>2. Answered /\ TypeOK /\ InstallationInv
  BY <1>1 DEF IInv, InstallationInv
<1>3. CASE BeginRefused /\ pc' = "failed"
  <2>1. UNCHANGED <<size, startAddress, currentAddress, buffer, error, targetMD5, md5>> /\ isRunning
    BY <1>3 DEF BeginRefused, session, md5s
  <2>2. TypeOK'
    BY <1>1, <1>2, <1>3, <2>1 DEF TypeOK, isRunning
  <2>3. jammed'
    BY <1>1, <1>2, <2>1 DEF InstallationInv, Going
  <2>4. QED BY <1>3, <2>2, <2>3 DEF IInv, InstallationInv, Going, FailsForReason, InstalledIsSent
<1>4. CASE Begin(response.len, slot) /\ pc' = "begun"
  <2>1. /\ size' = response.len /\ startAddress' = slot /\ currentAddress' = slot
        /\ buffer' = <<>> /\ error' = "ok" /\ md5' = <<>> /\ targetMD5' = targetMD5
    BY <1>4 DEF Begin
  <2>2. slot \in SlotAddresses /\ slot \in Nat /\ slot < FlashCells /\ FlashCells \in Nat
        /\ slot % SectorCells = 0 /\ slot \in Addresses /\ FreeSketchSpace \in Nat /\ SectorCells \in Nat
    BY <1>2, SlotFacts DEF Answered, Addresses
  <2>3. /\ response.len \in Nat /\ 0 < response.len
        /\ stream = response.body /\ response.body \in Seq(Cells)
    BY <1>1, <1>2, ResponsesAssumption DEF Answered
  <2>4. TypeOK'
    <3>1. slot \in 0..(FlashCells + FreeSketchSpace) /\ Len(<<>>) <= SectorCells
      BY <2>2
    <3>2. QED BY <1>1, <1>2, <1>4, <2>1, <2>2, <3>1 DEF TypeOK, isRunning
  <2>5. Session'
    BY <1>1, <2>1, <2>2, <2>3 DEF Session
  <2>6. Transfer'
    <3>1. /\ md5' = <<>> /\ buffer' = <<>> /\ stream' = response'.body /\ response'.body \in Seq(Cells)
          /\ done' = 0
      BY <1>1, <2>1, <2>2, <2>3 DEF done
    <3>2. QED BY <3>1 DEF Transfer, Part
  <2>7. sound' => Sound(response')
    BY <1>1, <1>2 DEF InstallationInv
  <2>8. QED
    BY <1>4, <2>4, <2>5, <2>6, <2>7 DEF IInv, InstallationInv, Going, FailsForReason, InstalledIsSent
<1>5. QED BY <1>3, <1>4 DEF BeginUpdate

\* What the expected MD5 is does not matter to the transfer.
LEMMA TransferKept ==
  ASSUME UNCHANGED <<flash, stream, size, startAddress, currentAddress, buffer, md5, slot, response>>
  PROVE  Session' = Session /\ Transfer' = Transfer
BY DEF Session, remaining, Transfer, Part, done

LEMMA ExpectStep == IInv /\ ExpectMD5 => IInv'
<1> SUFFICES ASSUME IInv, ExpectMD5 PROVE IInv'
  OBVIOUS
<1>1. /\ pc = "begun"
      /\ UNCHANGED <<flash, stream, size, startAddress, currentAddress, buffer, error, md5, slot, response, sound>>
  BY DEF ExpectMD5, SetMD5, manager, session, md5s
<1>2. Session /\ Transfer /\ TypeOK /\ InstallationInv
  BY <1>1 DEF IInv, InstallationInv, Going
<1>3. Session' /\ Transfer'
  BY <1>1, <1>2, TransferKept
<1>4. TypeOK'
  BY <1>1, <1>2 DEF ExpectMD5, TypeOK, isRunning
<1>5. CASE pc' = "failed"
  BY <1>4, <1>5 DEF ExpectMD5, IInv, InstallationInv, Going, FailsForReason, InstalledIsSent
<1>6. CASE pc' = "streaming"
  <2>1. Expected'
    BY <1>1, <1>6 DEF ExpectMD5, Expected, SetMD5, md5s
  <2>2. sound' => Sound(response')
    BY <1>1, <1>2 DEF InstallationInv, Going
  <2>3. QED
    BY <1>3, <1>4, <1>6, <2>1, <2>2 DEF IInv, InstallationInv, Going, FailsForReason, InstalledIsSent
<1>7. QED BY <1>5, <1>6 DEF ExpectMD5

LEMMA EraseStep == IInv /\ Erase => IInv'
<1> SUFFICES ASSUME IInv, Erase PROVE IInv'
  OBVIOUS
<1>1. /\ pc = "streaming" /\ pc' = "erased" /\ currentAddress \in Addresses
      /\ remaining # 0 /\ BufferComplete
      /\ flash' = [a \in Addresses |-> IF a \in SectorOf(currentAddress) THEN Blank ELSE flash[a]]
      /\ UNCHANGED <<stream, size, startAddress, currentAddress, buffer, error, targetMD5, md5,
                     slot, response, sound, jammed>>
  BY DEF Erase, Flushing, EraseSector, session, md5s, manager, history
<1>2. Session /\ Transfer /\ Expected /\ TypeOK /\ InstallationInv
  BY <1>1 DEF IInv, InstallationInv, Going
<1>3. TypeOK'
  <2>1. flash' \in [Addresses -> Cells]
    BY <1>1, <1>2 DEF TypeOK, Cells
  <2>2. QED BY <1>1, <1>2, <2>1 DEF TypeOK, isRunning
<1>4. Session' /\ Flushed' /\ Expected'
  BY <1>1, <1>2 DEF Session, Flushed, BufferComplete, remaining, Expected
<1>5. Transfer'
  <2>1. currentAddress % SectorCells = 0 /\ currentAddress \in Nat /\ slot \in Nat /\ slot <= currentAddress
        /\ done \in Nat /\ currentAddress <= FlashCells /\ FlashCells \in Nat
    BY <1>1, <1>2, SlotFacts DEF Session, done
  <2>2. \A k \in 1..done : flash'[slot + k - 1] = flash[slot + k - 1]
    <3>1. SUFFICES ASSUME NEW k \in 1..done PROVE flash'[slot + k - 1] = flash[slot + k - 1]
      OBVIOUS
    <3>2. slot + k - 1 \in Addresses /\ slot + k - 1 < currentAddress
      BY ONLY <2>1, <3>1 DEF done, Addresses
    <3>3. slot + k - 1 \notin SectorOf(currentAddress)
      <4>1. slot + k - 1 \in Int
        BY ONLY <2>1, <3>1
      <4>2. slot + k - 1 \in SectorOf(currentAddress) => currentAddress <= slot + k - 1
        BY ONLY <1>1, <2>1, <3>2, SectorFacts
      <4>3. QED BY ONLY <2>1, <3>2, <4>1, <4>2
    <3>4. QED BY ONLY <1>1, <3>2, <3>3
  <2>3. done' = done
    BY <1>1 DEF done
  <2>4. Part(md5, 0)' = Part(md5, 0) /\ Part(buffer, done)' = Part(buffer, done)
        /\ Part(stream, done + Len(buffer))' = Part(stream, done + Len(buffer))
    BY <1>1, <2>3 DEF Part
  <2>5. QED BY <1>1, <1>2, <2>2, <2>3, <2>4 DEF Transfer
<1>6. sound' => Sound(response')
  BY <1>1, <1>2 DEF InstallationInv, Going
<1>7. QED
  BY <1>1, <1>3, <1>4, <1>5, <1>6 DEF IInv, InstallationInv, Going, FailsForReason, InstalledIsSent

\* A sequence that is part of the body, cut into two pieces.
LEMMA PartCut ==
  ASSUME NEW s, NEW n \in Nat, Part(s, n), NEW m \in 0..Len(s)
  PROVE  /\ Len(SubSeq(s, 1, m)) = m /\ Part(SubSeq(s, 1, m), n)
         /\ Len(SubSeq(s, m + 1, Len(s))) = Len(s) - m
         /\ Part(SubSeq(s, m + 1, Len(s)), n + m)
<1>1. s \in Seq(Cells) /\ Len(s) \in Nat /\ m \in Nat /\ m <= Len(s)
      /\ \A k \in 1..Len(s) : s[k] = response.body[n + k]
  BY DEF Part
<1>2. /\ SubSeq(s, 1, m) \in Seq(Cells) /\ Len(SubSeq(s, 1, m)) = m
      /\ \A j \in 1..m : SubSeq(s, 1, m)[j] = s[j]
      /\ SubSeq(s, m + 1, Len(s)) \in Seq(Cells)
      /\ Len(SubSeq(s, m + 1, Len(s))) = Len(s) - m
      /\ \A j \in 1..(Len(s) - m) : SubSeq(s, m + 1, Len(s))[j] = s[m + j]
  BY ONLY <1>1, Pieces
<1>3. \A j \in 1..m : SubSeq(s, 1, m)[j] = response.body[n + j]
  BY ONLY <1>1, <1>2
<1>4. \A j \in 1..(Len(s) - m) : SubSeq(s, m + 1, Len(s))[j] = response.body[n + m + j]
  <2>1. ASSUME NEW j \in 1..(Len(s) - m)
        PROVE  SubSeq(s, m + 1, Len(s))[j] = response.body[n + m + j]
    <3>1. m + j \in 1..Len(s) /\ n + (m + j) = n + m + j
      BY ONLY <1>1
    <3>2. s[m + j] = response.body[n + (m + j)]
      BY ONLY <1>1, <3>1
    <3>3. QED BY ONLY <1>2, <3>1, <3>2
  <2>2. QED BY <2>1
<1>5. QED BY ONLY <1>2, <1>3, <1>4 DEF Part

\* Two that follow each other are one.
LEMMA PartJoined ==
  ASSUME NEW s, NEW t, NEW n \in Nat, Part(s, n), Part(t, n + Len(s))
  PROVE  Part(s \o t, n) /\ Len(s \o t) = Len(s) + Len(t)
<1>1. /\ s \in Seq(Cells) /\ t \in Seq(Cells) /\ Len(s) \in Nat /\ Len(t) \in Nat
      /\ \A k \in 1..Len(s) : s[k] = response.body[n + k]
      /\ \A k \in 1..Len(t) : t[k] = response.body[n + Len(s) + k]
  BY DEF Part
<1>2. /\ s \o t \in Seq(Cells) /\ Len(s \o t) = Len(s) + Len(t)
      /\ \A i \in 1..(Len(s) + Len(t)) : (s \o t)[i] = IF i <= Len(s) THEN s[i] ELSE t[i - Len(s)]
  BY ONLY <1>1, Joined
<1>3. ASSUME NEW i \in 1..(Len(s) + Len(t)) PROVE (s \o t)[i] = response.body[n + i]
  <2>1. CASE i <= Len(s)
    BY ONLY <1>1, <1>2, <1>3, <2>1
  <2>2. CASE i > Len(s)
    <3>1. i - Len(s) \in 1..Len(t) /\ n + Len(s) + (i - Len(s)) = n + i
      BY ONLY <1>1, <1>3, <2>2
    <3>2. (s \o t)[i] = t[i - Len(s)]
      BY ONLY <1>1, <1>2, <1>3, <2>2
    <3>3. t[i - Len(s)] = response.body[n + Len(s) + (i - Len(s))]
      BY ONLY <1>1, <3>1
    <3>4. QED BY ONLY <3>1, <3>2, <3>3
  <2>3. i <= Len(s) \/ i > Len(s)
    BY ONLY <1>1, <1>3
  <2>4. QED BY ONLY <2>1, <2>2, <2>3, Zenon
<1>4. QED BY ONLY <1>2, <1>3 DEF Part

LEMMA ReadStep == IInv /\ Read => IInv'
<1> SUFFICES ASSUME IInv, Read PROVE IInv'
  OBVIOUS
<1>1. PICK n \in 1..SectorCells : ReadBytes(n)
  BY DEF Read
<1>2. /\ pc = "streaming" /\ pc' = "streaming"
      /\ UNCHANGED <<flash, size, startAddress, currentAddress, error, targetMD5, md5,
                     slot, response, sound, jammed>>
  BY <1>1 DEF Read, Reading, ReadBytes, md5s, manager, history
<1>3. Session /\ Transfer /\ Expected /\ TypeOK /\ InstallationInv
  BY <1>2 DEF IInv, InstallationInv, Going
<1>4. /\ n \in Nat /\ SectorCells \in Nat /\ Len(buffer) \in Nat /\ Len(stream) \in Nat
      /\ done \in Nat /\ Len(buffer) <= SectorCells
      /\ slot \in Nat /\ currentAddress \in Nat
  BY <1>3, SlotFacts DEF Session, Transfer, Part, TypeOK, done
<1>5. n <= SectorCells - Len(buffer) /\ n \in 0..Len(stream)
      /\ buffer' = buffer \o SubSeq(stream, 1, n)
      /\ stream' = SubSeq(stream, n + 1, Len(stream))
  <2>1. n \in 1..Least(SectorCells - Len(buffer), Len(stream))
    BY <1>1 DEF ReadBytes
  <2>2. n <= SectorCells - Len(buffer) /\ n \in 0..Len(stream)
    BY ONLY <1>4, <2>1 DEF Least
  <2>3. QED BY <1>1, <2>2 DEF ReadBytes
<1> DEFINE piece == SubSeq(stream, 1, n)
<1>6. /\ Len(piece) = n /\ Part(piece, done + Len(buffer))
      /\ Len(stream') = Len(stream) - n /\ Part(stream', done + Len(buffer) + n)
  <2>1. Part(stream, done + Len(buffer)) /\ done + Len(buffer) \in Nat
    BY <1>3, <1>4 DEF Transfer
  <2>2. QED BY ONLY <1>5, <2>1, PartCut
<1> HIDE DEF piece
<1>7. Part(buffer', done) /\ Len(buffer') = Len(buffer) + n
  <2>1. Part(buffer, done)
    BY <1>3 DEF Transfer
  <2>2. Part(buffer \o piece, done) /\ Len(buffer \o piece) = Len(buffer) + Len(piece)
    BY ONLY <1>4, <1>6, <2>1, PartJoined
  <2>3. QED BY <1>5, <1>6, <2>2 DEF piece
<1>8. Transfer'
  <2>1. done' = done /\ response' = response /\ slot' = slot /\ flash' = flash /\ md5' = md5
    BY <1>2 DEF done
  <2>2. done + Len(buffer') + Len(stream') = Len(response.body)
    <3>1. done + Len(buffer) + Len(stream) = Len(response.body)
      BY <1>3 DEF Transfer
    <3>2. QED BY ONLY <1>4, <1>6, <1>7, <3>1
  <2>3. done + Len(buffer) + n = done + Len(buffer')
    BY ONLY <1>4, <1>7
  <2>4. Part(stream', done + Len(buffer'))
    BY ONLY <1>6, <2>3
  <2>5. Part(buffer, done)' /\ Part(stream, done + Len(buffer))' /\ Part(md5, 0)' = Part(md5, 0)
    BY <1>7, <2>1, <2>4 DEF Part
  <2>6. QED BY <1>3, <2>1, <2>2, <2>5 DEF Transfer
<1>9. Session' /\ Expected'
  BY <1>2, <1>3 DEF Session, remaining, Expected
<1>10. TypeOK'
  <2>1. Len(buffer') <= SectorCells
    BY ONLY <1>4, <1>5, <1>7
  <2>2. QED BY <1>2, <1>3, <2>1 DEF TypeOK, isRunning
<1>11. sound' => Sound(response')
  BY <1>2, <1>3 DEF InstallationInv, Going
<1>12. QED
  BY <1>2, <1>8, <1>9, <1>10, <1>11 DEF IInv, InstallationInv, Going, FailsForReason, InstalledIsSent

\* The first n cells of the buffer in flash, all of them or what a reset lets through.
LEMMA ProgrammedFacts ==
  ASSUME TypeOK, currentAddress \in Nat, buffer \in Seq(Cells), NEW n \in 0..Len(buffer)
  PROVE  /\ Programmed(n) \in [Addresses -> Cells]
         /\ \A a \in Addresses :
              /\ a < currentAddress \/ currentAddress + Len(buffer) <= a => Programmed(n)[a] = flash[a]
              /\ currentAddress <= a /\ a < currentAddress + n =>
                   Programmed(n)[a] = buffer[a - currentAddress + 1]
<1>1. Addresses \subseteq Nat /\ flash \in [Addresses -> Cells] /\ Len(buffer) \in Nat
      /\ n \in Nat /\ n <= Len(buffer)
  BY SlotFacts DEF TypeOK
<1>2. \A a \in Addresses : a \in currentAddress..(currentAddress + n - 1) =>
        buffer[a - currentAddress + 1] \in Cells
  <2>1. SUFFICES ASSUME NEW a \in Addresses, a \in currentAddress..(currentAddress + n - 1)
                 PROVE  buffer[a - currentAddress + 1] \in Cells
    OBVIOUS
  <2>2. a - currentAddress + 1 \in 1..Len(buffer)
    BY ONLY <1>1, <2>1, currentAddress \in Nat
  <2>3. QED BY ONLY <2>2, buffer \in Seq(Cells), Member
<1>3. Programmed(n) \in [Addresses -> Cells]
  BY <1>1, <1>2 DEF Programmed
<1>4. \A a \in Addresses :
        Programmed(n)[a] = IF a \in currentAddress..(currentAddress + n - 1)
                           THEN buffer[a - currentAddress + 1] ELSE flash[a]
  BY DEF Programmed
<1>5. ASSUME NEW a \in Addresses
      PROVE  /\ a < currentAddress \/ currentAddress + Len(buffer) <= a =>
                  ~(a \in currentAddress..(currentAddress + n - 1))
             /\ currentAddress <= a /\ a < currentAddress + n => a \in currentAddress..(currentAddress + n - 1)
  BY ONLY <1>1, <1>5, currentAddress \in Nat
<1>6. QED BY ONLY <1>3, <1>4, <1>5

\* Where the buffer goes: a sector of flash from its beginning on.
LEMMA BufferPlace ==
  ASSUME TypeOK, Session, Transfer, Flushed
  PROVE  /\ currentAddress \in Nat /\ slot \in Nat /\ slot <= currentAddress /\ done \in Nat
         /\ currentAddress % SectorCells = 0 /\ currentAddress \in Addresses
         /\ currentAddress + SectorCells <= FlashCells
         /\ buffer \in Seq(Cells) /\ Len(buffer) \in 1..SectorCells /\ Len(buffer) \in Nat
         /\ done < Len(response.body) /\ Len(response.body) \in Nat
<1>1. /\ currentAddress \in Nat /\ slot \in Nat /\ slot <= currentAddress /\ done \in Nat
      /\ currentAddress % SectorCells = 0 /\ currentAddress \in Addresses
      /\ SectorCells \in Nat \ {0} /\ response.body \in Seq(Cells)
  BY SlotFacts DEF Session, Flushed, done
<1>2. currentAddress + SectorCells <= FlashCells
  BY ONLY <1>1, SectorFacts
<1>3. buffer \in Seq(Cells) /\ stream \in Seq(Cells) /\ Len(buffer) \in Nat /\ Len(stream) \in Nat
      /\ Len(buffer) <= SectorCells /\ Len(response.body) \in Nat
      /\ done + Len(buffer) + Len(stream) = Len(response.body)
  BY <1>1 DEF Transfer, Part, TypeOK
<1>4. Len(buffer) # 0
  BY <1>1 DEF Flushed, BufferComplete
<1>5. Len(buffer) \in 1..SectorCells /\ done < Len(response.body)
  BY ONLY <1>1, <1>3, <1>4
<1>6. QED BY ONLY <1>1, <1>2, <1>3, <1>5

LEMMA WriteStep == IInv /\ Write => IInv'
<1> SUFFICES ASSUME IInv, Write PROVE IInv'
  OBVIOUS
<1>1. /\ pc = "erased" /\ pc' = "streaming"
      /\ flash' = Programmed(Len(buffer)) /\ md5' = md5 \o buffer
      /\ currentAddress' = currentAddress + Len(buffer) /\ buffer' = <<>>
      /\ UNCHANGED <<size, startAddress, stream, error, targetMD5, slot, response, sound, jammed>>
  BY DEF Write, FlashWrite, manager, history
<1>2. Session /\ Transfer /\ Flushed /\ Expected /\ TypeOK /\ InstallationInv
  BY <1>1 DEF IInv, InstallationInv, Going
<1> DEFINE len == Len(buffer)
<1>3. /\ currentAddress \in Nat /\ slot \in Nat /\ slot <= currentAddress /\ done \in Nat
      /\ currentAddress % SectorCells = 0 /\ currentAddress \in Addresses
      /\ currentAddress + SectorCells <= FlashCells
      /\ buffer \in Seq(Cells) /\ len \in 1..SectorCells /\ len \in Nat
      /\ SectorCells \in Nat \ {0} /\ FlashCells \in Nat /\ Addresses \subseteq Nat
  BY <1>2, BufferPlace, SlotFacts
<1> HIDE DEF len
<1>4. done' = done + len /\ currentAddress' = currentAddress + len
  BY <1>1, <1>3 DEF done, len
<1>5. Session'
  <2>1. /\ response.code = 200 /\ response.len \in Nat /\ response.body \in Seq(Cells)
        /\ slot \in SlotAddresses /\ startAddress = slot /\ size = response.len /\ 0 < size
    BY <1>2 DEF Session
  <2>2. slot <= currentAddress' /\ currentAddress' <= FlashCells
    BY ONLY <1>3, <1>4
  <2>3. currentAddress' % SectorCells = 0 \/ remaining' = 0
    <3>1. CASE len = remaining
      <4>1. len = size - (currentAddress - startAddress) /\ startAddress = slot /\ size \in Nat
        BY <2>1, <3>1 DEF remaining
      <4>2. size - (currentAddress + len - startAddress) = 0
        BY ONLY <1>3, <4>1
      <4>3. remaining' = size - (currentAddress + len - startAddress)
        <5>1. size' = size /\ startAddress' = startAddress /\ currentAddress' = currentAddress + len
          BY <1>1, <1>4
        <5>2. QED BY ONLY <1>3, <4>1, <5>1 DEF remaining
      <4>4. QED BY ONLY <4>2, <4>3, Zenon
    <3>2. CASE len = SectorCells
      <4>1. currentAddress \in Int /\ SectorCells \in Int
        BY <1>3
      <4>2. SectorCells % SectorCells = 0
        BY ONLY <1>3, <4>1, MultiplesSum
      <4>3. (currentAddress + SectorCells) % SectorCells = 0
        BY ONLY <1>3, <4>1, <4>2, MultiplesSum
      <4>4. QED BY ONLY <1>4, <3>2, <4>3, Zenon
    <3>3. QED BY <1>2, <3>1, <3>2 DEF Flushed, BufferComplete, len
  <2>4. QED BY <1>1, <2>1, <2>2, <2>3 DEF Session
<1>6. Transfer'
  <2>1. /\ Part(md5, 0) /\ Len(md5) = done /\ Part(buffer, done) /\ Part(stream, done + len)
        /\ done + len + Len(stream) = Len(response.body)
        /\ \A k \in 1..done : flash[slot + k - 1] = response.body[k]
    BY <1>2 DEF Transfer, len
  <2>2. Part(md5 \o buffer, 0) /\ Len(md5 \o buffer) = done + len
    <3>1. Part(buffer, 0 + Len(md5)) /\ 0 \in Nat
      BY <1>3, <2>1
    <3>2. Part(md5 \o buffer, 0) /\ Len(md5 \o buffer) = Len(md5) + Len(buffer)
      BY ONLY <2>1, <3>1, PartJoined
    <3>3. QED BY <2>1, <3>2 DEF len
  <2>3. Part(<<>>, done + len) /\ Len(<<>>) = 0
    BY DEF Part
  <2>4. \A k \in 1..(done + len) : flash'[slot + k - 1] = response.body[k]
    <3>1. SUFFICES ASSUME NEW k \in 1..(done + len) PROVE flash'[slot + k - 1] = response.body[k]
      OBVIOUS
    <3>2. currentAddress = slot + done
      BY <1>3 DEF done
    <3>3. slot + k - 1 \in Addresses /\ k \in Nat /\ slot + k - 1 \in Int
      BY ONLY <1>3, <3>1, <3>2 DEF Addresses
    <3>4. len \in 0..Len(buffer)
      BY <1>3 DEF len
    <3>5. /\ \A a \in Addresses :
               /\ a < currentAddress => flash'[a] = flash[a]
               /\ currentAddress <= a /\ a < currentAddress + len =>
                    flash'[a] = buffer[a - currentAddress + 1]
      BY ONLY <1>1, <1>2, <1>3, <3>4, ProgrammedFacts DEF len
    <3>6. CASE k <= done
      <4>1. slot + k - 1 < currentAddress /\ k \in 1..done
        BY ONLY <1>3, <3>1, <3>2, <3>3, <3>6
      <4>2. QED BY ONLY <2>1, <3>3, <3>5, <4>1
    <3>7. CASE k > done
      <4>1. /\ currentAddress <= slot + k - 1 /\ slot + k - 1 < currentAddress + len
            /\ slot + k - 1 - currentAddress + 1 = k - done /\ k - done \in 1..len
            /\ done + (k - done) = k
        BY ONLY <1>3, <3>1, <3>2, <3>3, <3>7
      <4>2. flash'[slot + k - 1] = buffer[k - done]
        BY ONLY <1>3, <3>3, <3>5, <4>1
      <4>3. buffer[k - done] = response.body[done + (k - done)]
        BY ONLY <2>1, <4>1 DEF Part, len
      <4>4. QED BY ONLY <4>1, <4>2, <4>3
    <3>8. k <= done \/ k > done
      BY ONLY <1>3, <3>3
    <3>9. QED BY ONLY <3>6, <3>7, <3>8, Zenon
  <2>5. Part(md5, 0)' /\ Len(md5') = done'
    BY <1>1, <1>4, <2>2 DEF Part
  <2>6. Part(buffer, done)' /\ Len(buffer') = 0
    BY <1>1, <1>4, <2>3 DEF Part
  <2>7. Part(stream, done + Len(buffer))'
    <3>1. done' + Len(buffer') = done + len
      BY ONLY <1>3, <1>4, <2>6
    <3>2. QED BY <1>1, <2>1, <3>1 DEF Part
  <2>8. done' + Len(buffer') + Len(stream') = Len(response'.body)
    <3>1. done' + Len(buffer') = done + len
      BY ONLY <1>3, <1>4, <2>6
    <3>2. QED BY <1>1, <2>1, <3>1
  <2>9. QED BY <1>1, <1>4, <2>4, <2>5, <2>6, <2>7, <2>8 DEF Transfer
<1>7. TypeOK'
  <2>1. flash' \in [Addresses -> Cells]
    <3>1. len \in 0..Len(buffer)
      BY <1>3 DEF len
    <3>2. QED BY ONLY <1>1, <1>2, <1>3, <3>1, ProgrammedFacts DEF len
  <2>2. Len(buffer') <= SectorCells
    BY <1>1, ResetFacts
  <2>3. currentAddress' \in 0..(FlashCells + FreeSketchSpace)
    BY ONLY <1>3, <1>4, SlotFacts
  <2>4. QED BY <1>1, <1>2, <2>1, <2>2, <2>3 DEF TypeOK, isRunning
<1>8. Expected' /\ (sound' => Sound(response'))
  BY <1>1, <1>2 DEF Expected, InstallationInv, Going
<1>9. QED
  BY <1>1, <1>5, <1>6, <1>7, <1>8 DEF IInv, InstallationInv, Going, FailsForReason, InstalledIsSent

\* check_image accepts an image that is in flash as it is in the store.
LEMMA ImageAccepted ==
  ASSUME NEW base \in Nat, NEW i \in DOMAIN Images, base + Images[i].cells <= FlashCells,
         \A k \in 1..Images[i].cells : flash[base + k - 1] = <<i, k>>
  PROVE  CheckImage(base)
<1> DEFINE n == Images[i].cells
           m == Images[i].irom
<1>1. n \in Nat \ {0} /\ m \in Nat /\ 1 <= m /\ m <= n - 1 /\ FlashCells \in Nat
  BY ImagesAssumption, SlotFacts
<1>2. base + n <= FlashCells /\ \A k \in 1..n : flash[base + k - 1] = <<i, k>>
  OBVIOUS
<1>3. n = Images[i].cells /\ m = Images[i].irom
  OBVIOUS
<1> HIDE DEF n, m
<1>4. flash[base] = <<i, 1>>
  <2>1. 1 \in 1..n /\ base + 1 - 1 = base
    BY ONLY <1>1
  <2>2. flash[base + 1 - 1] = <<i, 1>>
    BY ONLY <1>2, <2>1
  <2>3. QED BY ONLY <2>1, <2>2
<1>5. flash[base] # Blank /\ flash[base] # Junk /\ flash[base][2] = 1 /\ flash[base][1] = i
  BY ONLY <1>4 DEF Blank, Junk
<1>6. ASSUME NEW k \in (m + 1)..n
      PROVE  /\ base + m + k - m - 1 \in Addresses
             /\ flash[base + m + k - m - 1] = <<i, k>>
  <2>1. /\ k \in 1..n /\ base + m + k - m - 1 = base + k - 1
        /\ base + k - 1 \in Addresses
    BY ONLY <1>1, <1>2, <1>6 DEF Addresses
  <2>2. flash[base + k - 1] = <<i, k>>
    BY ONLY <1>2, <2>1
  <2>3. QED BY ONLY <2>1, <2>2
<1>7. QED BY ONLY <1>3, <1>5, <1>6 DEF CheckImage

\* When nothing remains, flash and the sum hold the announced bytes.
LEMMA AtEnd ==
  ASSUME TypeOK, Session, Transfer, remaining = 0
  PROVE  /\ response.len \in Nat /\ 0 < response.len /\ response.body \in Seq(Cells)
         /\ response.len \in 0..Len(response.body)
         /\ slot \in Nat /\ slot + response.len <= FlashCells /\ startAddress = slot
         /\ \A k \in 1..response.len : flash[slot + k - 1] = response.body[k]
         /\ md5 = SubSeq(response.body, 1, response.len)
<1>1. /\ response.len \in Nat /\ 0 < response.len /\ response.body \in Seq(Cells)
      /\ slot \in Nat /\ currentAddress \in Nat /\ slot <= currentAddress
      /\ currentAddress <= FlashCells /\ FlashCells \in Nat /\ startAddress = slot
      /\ size = response.len
  BY SlotFacts DEF Session, TypeOK
<1>2. done = response.len /\ slot + response.len = currentAddress
  BY ONLY <1>1, remaining = 0 DEF remaining, done
<1>3. /\ md5 \in Seq(Cells) /\ Len(md5) = response.len
      /\ \A k \in 1..Len(md5) : md5[k] = response.body[0 + k]
      /\ \A k \in 1..response.len : flash[slot + k - 1] = response.body[k]
  BY <1>2 DEF Transfer, Part
<1>4. response.len \in 0..Len(response.body)
  <2>1. /\ done + Len(buffer) + Len(stream) = Len(response.body)
        /\ Len(buffer) \in Nat /\ Len(stream) \in Nat
    BY DEF Transfer, Part
  <2>2. QED BY ONLY <1>1, <1>2, <2>1
<1>5. md5 = SubSeq(response.body, 1, response.len)
  <2> DEFINE t == SubSeq(response.body, 1, response.len)
  <2>1. /\ t \in Seq(Cells) /\ Len(t) = response.len
        /\ \A k \in 1..response.len : t[k] = response.body[k]
    BY ONLY <1>1, <1>4, Pieces
  <2> HIDE DEF t
  <2>2. \A k \in 1..Len(md5) : md5[k] = t[k]
    BY ONLY <1>1, <1>3, <2>1
  <2>3. md5 = t
    BY ONLY <1>3, <2>1, <2>2, SameSequence
  <2>4. QED BY <2>3 DEF t
<1>6. QED BY ONLY <1>1, <1>2, <1>3, <1>4, <1>5

LEMMA EndStep == IInv /\ End => IInv'
<1> SUFFICES ASSUME IInv, End PROVE IInv'
  OBVIOUS
<1>1. /\ pc = "streaming" /\ remaining = 0 /\ pc' \in {"failed", "rebooting"}
      /\ size' = 0 /\ startAddress' = 0 /\ currentAddress' = 0 /\ buffer' = <<>>
      /\ error' \in {error, "md5", "magic"}
      /\ UNCHANGED <<flash, targetMD5, md5, stream, slot, response, sound, jammed>>
  BY DEF End, EndFails, EndWell, Reset, manager, history, md5s
<1>2. Session /\ Transfer /\ Expected /\ TypeOK /\ InstallationInv
  BY <1>1 DEF IInv, InstallationInv, Going
<1>3. TypeOK'
  <2>1. Len(buffer') <= SectorCells /\ ~isRunning'
    BY <1>1, ResetFacts DEF isRunning
  <2>2. /\ flash' \in [Addresses -> Cells] /\ error' \in {"ok", "stream", "write", "md5", "magic"}
        /\ sound' \in BOOLEAN /\ jammed' \in BOOLEAN
        /\ pc' \in {"menu", "answered", "begun", "streaming", "erased", "failed", "rebooting"}
    BY <1>1, <1>2 DEF TypeOK
  <2>3. QED BY ONLY <1>1, <2>1, <2>2, ResetFacts, SlotFacts DEF TypeOK
<1> DEFINE len == response.len
           body == response.body
<1>4. /\ len \in Nat /\ 0 < len /\ body \in Seq(Cells) /\ len \in 0..Len(body)
      /\ slot \in Nat /\ slot + len <= FlashCells /\ startAddress = slot
      /\ \A k \in 1..len : flash[slot + k - 1] = body[k]
      /\ md5 = SubSeq(body, 1, len)
  BY <1>1, <1>2, AtEnd
<1>5. ASSUME pc' = "failed", sound PROVE response.md5 = NoMD5 /\ targetMD5 # NoMD5
  <2>1. len = Len(body) /\ Magic(body[1]) /\ response.md5 \in {NoMD5, body}
    BY <1>1, <1>2, <1>5 DEF InstallationInv, Going, Sound
  <2>2. flash[startAddress] = body[1]
    <3>1. 1 \in 1..len /\ slot + 1 - 1 = slot
      BY ONLY <1>4
    <3>2. QED BY ONLY <1>4, <3>1
  <2>3. md5 = body
    <3>1. /\ SubSeq(body, 1, len) \in Seq(Cells) /\ Len(SubSeq(body, 1, len)) = len
          /\ \A j \in 1..len : SubSeq(body, 1, len)[j] = body[j]
      BY ONLY <1>4, Pieces
    <3>2. SubSeq(body, 1, len) = body
      BY ONLY <1>4, <2>1, <3>1, SameSequence
    <3>3. QED BY ONLY <1>4, <3>2
  <2>4. ~MD5Matches
    BY <1>5, <2>1, <2>2 DEF End, EndFails
  <2>5. targetMD5 # NoMD5 /\ targetMD5 # md5
    BY <2>4 DEF MD5Matches
  <2>6. QED BY <1>2, <2>1, <2>3, <2>5 DEF Expected
<1>6. ASSUME pc' = "rebooting"
      PROVE  /\ response.md5 # NoMD5 => response.md5 = SubSeq(body, 1, len)
             /\ \A i \in DOMAIN Images : SubSeq(body, 1, len) = Image(i) => CheckImage(slot)
  <2>1. MD5Matches
    BY <1>6 DEF End, EndWell
  <2>2. response.md5 # NoMD5 => response.md5 = SubSeq(body, 1, len)
    BY <1>2, <1>4, <2>1 DEF MD5Matches, Expected
  <2>3. ASSUME NEW i \in DOMAIN Images, SubSeq(body, 1, len) = Image(i) PROVE CheckImage(slot)
    <3>1. /\ Len(SubSeq(body, 1, len)) = len
          /\ \A j \in 1..len : SubSeq(body, 1, len)[j] = body[j]
      BY ONLY <1>4, Pieces
    <3>2. /\ Images[i].cells \in Nat /\ Len(Image(i)) = Images[i].cells
          /\ \A k \in 1..Images[i].cells : Image(i)[k] = <<i, k>>
      BY ImagesAssumption DEF Image
    <3>3. len = Images[i].cells /\ \A k \in 1..len : body[k] = <<i, k>>
      BY ONLY <2>3, <3>1, <3>2
    <3>4. \A k \in 1..Images[i].cells : flash[slot + k - 1] = <<i, k>>
      BY ONLY <1>4, <3>3
    <3>5. slot \in Nat /\ slot + Images[i].cells <= FlashCells
      BY ONLY <1>4, <3>3
    <3>6. QED BY ONLY <2>3, <3>4, <3>5, ImageAccepted
  <2>4. QED BY <2>2, <2>3
<1>7. FailsForReason'
  BY <1>1, <1>5 DEF FailsForReason
<1>8. CheckImage(slot)' = CheckImage(slot)
  BY <1>1 DEF CheckImage
<1>9. InstalledIsSent'
  BY <1>1, <1>4, <1>6, <1>8 DEF InstalledIsSent
<1>10. ~isRunning'
  BY <1>1, ResetFacts DEF isRunning
<1>11. QED
  BY <1>1, <1>3, <1>7, <1>9, <1>10 DEF IInv, InstallationInv, Going

\* A reset of the chip, whatever of the sector being programmed is in flash.
LEMMA BootedStep ==
  ASSUME Booted, flash' \in [Addresses -> Cells]
  PROVE  IInv'
<1>1. /\ size' = 0 /\ startAddress' = 0 /\ currentAddress' = 0 /\ buffer' = <<>>
      /\ pc' = "menu" /\ error' = "ok" /\ sound' = TRUE /\ jammed' = FALSE
  BY DEF Booted
<1>2. Len(buffer') <= SectorCells /\ ~isRunning'
  BY <1>1, ResetFacts DEF isRunning
<1>3. TypeOK'
  BY ONLY flash' \in [Addresses -> Cells], <1>1, <1>2, ResetFacts, SlotFacts DEF TypeOK
<1>4. InstallationInv'
  BY <1>1, <1>2 DEF InstallationInv, Going, FailsForReason, InstalledIsSent
<1>5. QED BY <1>3, <1>4 DEF IInv

LEMMA ResetStep == IInv /\ (Reboot \/ ChipReset) => IInv'
<1> SUFFICES ASSUME IInv, Reboot \/ ChipReset PROVE IInv'
  OBVIOUS
<1>1. flash \in [Addresses -> Cells] /\ TypeOK
  BY DEF IInv, TypeOK
<1>2. CASE Reboot
  BY <1>1, <1>2, BootedStep DEF Reboot
<1>3. CASE ChipReset
  <2>1. flash' \in [Addresses -> Cells]
    <3>1. CASE pc = "erased"
      <4>1. PICK n \in 0..Len(buffer) : flash' = Programmed(n)
        BY <1>3, <3>1 DEF ChipReset
      <4>2. Session /\ Transfer /\ Flushed
        BY <3>1 DEF IInv, InstallationInv, Going
      <4>3. currentAddress \in Nat /\ buffer \in Seq(Cells)
        BY <1>1, <4>2, BufferPlace
      <4>4. QED BY ONLY <1>1, <4>1, <4>3, ProgrammedFacts
    <3>2. CASE pc # "erased"
      BY <1>1, <1>3, <3>2 DEF ChipReset
    <3>3. QED BY <3>1, <3>2
  <2>2. QED BY <1>3, <2>1, BootedStep DEF ChipReset
<1>4. QED BY <1>2, <1>3

-----------------------------------------------------------------------------
\* The inductive invariant holds in every run, through failed updates and resets.
THEOREM Invariant == Spec => []IInv
<1>1. IInv /\ [Next]_vars => IInv'
  BY UpdateStep, RefusedStep, NotModifiedStep, BeginStep, ExpectStep, ReadStep, StalledStep,
     EraseStep, WriteStep, WriteFailsStep, EndStep, ShowErrorStep, ResetStep, StutterStep
     DEF Next, ManagerNext
<1>2. QED BY InitStep, <1>1, PTL DEF Spec

\* Every variable keeps its type; a running Updater works in a slot.
THEOREM TypeCorrect == Spec => []TypeOK
<1>1. IInv => TypeOK
  BY DEF IInv
<1>2. QED BY <1>1, Invariant, PTL

\* What an update that ends well has put into the slot is what the store announced
\* and, if it was an image, check_image accepts it.
THEOREM InstallsWhatWasSent == Spec => []InstalledIsSent
<1>1. IInv => InstalledIsSent
  BY DEF IInv, InstallationInv
<1>2. QED BY <1>1, Invariant, PTL

\* An update in which nothing goes wrong fails only because of an earlier one.
THEOREM FailuresHaveReason == Spec => []FailsForReason
<1>1. IInv => FailsForReason
  BY DEF IInv, InstallationInv
<1>2. QED BY <1>1, Invariant, PTL

\* Two ways out of an update, and no other, leave the Updater running.
THEOREM MenuIsReady == Spec => []LeavesReady
<1>1. IInv => LeavesReady
  BY DEF IInv, InstallationInv, LeavesReady, Going
<1>2. QED BY <1>1, Invariant, PTL

\* The bytes of a body fill its sectors up to RoundUp.
LEMMA RoundUpFacts ==
  ASSUME NEW n \in Nat
  PROVE  /\ RoundUp(n) \in Int /\ n <= RoundUp(n)
         /\ \A c \in Nat : c % SectorCells = 0 /\ c < n => c + SectorCells <= RoundUp(n)
<1> DEFINE d == SectorCells
           q == (n + d - 1) \div d
<1>1. d \in Nat \ {0}
  BY SlotFacts
<1>2. q \in Int /\ n + d - 1 < q * d + d
  <2>1. n + d - 1 \in Int
    BY ONLY <1>1
  <2>2. QED BY ONLY <1>1, <2>1, Quotient
<1>3. RoundUp(n) = q * d
  BY DEF RoundUp
<1> HIDE DEF q, d
<1> DEFINE r == q * d
<1>4. r \in Int /\ n <= r
  BY ONLY <1>1, <1>2
<1>5. r % d = 0
  <2>1. r \in Int /\ r = q * d
    BY ONLY <1>1, <1>2
  <2> HIDE DEF r
  <2>2. QED BY ONLY <1>1, <1>2, <2>1, Multiple
<1> HIDE DEF r
<1>6. \A c \in Nat : c % d = 0 /\ c < n => c + d <= r
  <2>1. SUFFICES ASSUME NEW c \in Nat, c % d = 0, c < n PROVE c + d <= r
    OBVIOUS
  <2>2. c \in Int /\ c < r
    BY ONLY <1>4, <2>1
  <2>3. QED BY ONLY <1>1, <1>4, <1>5, <2>1, <2>2, MultiplesSum
<1>7. QED BY ONLY <1>3, <1>4, <1>6 DEF d, r

\* No step of an installation changes a cell outside the sectors its bytes fill.
THEOREM NeighboursUntouched == Spec => NeighboursKept
<1> DEFINE Kept == \A a \in Addresses :
                     flash'[a] # flash[a] => a \in slot..(slot + RoundUp(Len(response.body)) - 1)
<1>1. ASSUME IInv, [Next]_vars PROVE Kept
  <2>1. CASE flash' = flash
    BY <2>1
  <2>2. CASE flash' # flash
    <3> DEFINE n == Len(response.body)
    <3>1. \/ Erase \/ Write
          \/ pc = "erased" /\ \E k \in 0..Len(buffer) : flash' = Programmed(k)
      BY <1>1, <2>2 DEF Next, ManagerNext, Update, Refused, NotModified, BeginUpdate, ExpectMD5,
         Read, ReadBytes, Stalled, WriteFails, End, ShowError, Reboot, ChipReset, updater, vars
    <3>2. TypeOK /\ Session /\ Transfer /\ Flushed
      BY <1>1, <3>1 DEF IInv, InstallationInv, Going, Erase, Flushing, EraseSector, Write, Flushed
    <3>3. /\ currentAddress \in Nat /\ slot \in Nat /\ slot <= currentAddress /\ done \in Nat
          /\ currentAddress % SectorCells = 0 /\ currentAddress \in Addresses
          /\ buffer \in Seq(Cells) /\ Len(buffer) \in 1..SectorCells /\ Len(buffer) \in Nat
          /\ done < n /\ n \in Nat /\ SectorCells \in Nat \ {0} /\ Addresses \subseteq Nat
          /\ slot % SectorCells = 0
      BY <3>2, BufferPlace, SlotFacts DEF Session
    <3> HIDE DEF n
    <3>4. ASSUME NEW a \in Addresses, flash'[a] # flash[a]
          PROVE  currentAddress <= a /\ a < currentAddress + SectorCells
      <4>1. CASE Erase
        <5>1. a \in SectorOf(currentAddress)
          BY <3>4, <4>1 DEF Erase, EraseSector
        <5>2. QED BY ONLY <3>3, <3>4, <5>1, SectorFacts
      <4>2. CASE \E k \in 0..Len(buffer) : flash' = Programmed(k)
        <5>1. PICK k \in 0..Len(buffer) : flash' = Programmed(k)
          BY <4>2
        <5>2. ~(a < currentAddress \/ currentAddress + Len(buffer) <= a)
          BY ONLY <3>2, <3>3, <3>4, <5>1, ProgrammedFacts
        <5>3. QED BY ONLY <3>3, <3>4, <5>2
      <4>3. Write => \E k \in 0..Len(buffer) : flash' = Programmed(k)
        <5>1. Len(buffer) \in 0..Len(buffer)
          BY ONLY <3>3
        <5>2. QED BY <5>1 DEF Write, FlashWrite
      <4>4. QED BY <3>1, <4>1, <4>2, <4>3
    <3>5. done % SectorCells = 0 /\ currentAddress = slot + done
      <4>1. currentAddress \in Int /\ slot \in Int
        BY ONLY <3>3
      <4>2. (currentAddress - slot) % SectorCells = 0
        BY ONLY <3>3, <4>1, MultiplesSum
      <4>3. QED BY ONLY <3>3, <4>2 DEF done
    <3>6. RoundUp(n) \in Int /\ done + SectorCells <= RoundUp(n)
      BY ONLY <3>3, <3>5, RoundUpFacts
    <3>7. ASSUME NEW a \in Addresses, flash'[a] # flash[a] PROVE a \in slot..(slot + RoundUp(n) - 1)
      <4>1. currentAddress <= a /\ a < currentAddress + SectorCells /\ a \in Nat
        BY ONLY <3>3, <3>4, <3>7
      <4>2. QED BY ONLY <3>3, <3>5, <3>6, <4>1
    <3>8. QED BY <3>7 DEF n
  <2>3. QED BY <2>1, <2>2
<1>2. IInv /\ [Next]_vars => [Kept]_vars
  BY <1>1
<1>3. QED BY <1>2, Invariant, PTL DEF Spec, NeighboursKept
=============================================================================
