---------------------------- MODULE FlashWriter ----------------------------
(***************************************************************************)
(* rboot_write_init, rboot_write_flash and rboot_write_end: a stream of     *)
(* bytes, given in chunks of any length, is programmed in words, and each    *)
(* sector is erased before the first word that falls into it.               *)
(*                                                                          *)
(* The bytes of the stream are numbered 1, 2, ...: a byte of flash holds the *)
(* number of a byte of the stream, or Blank, or Other for what was there     *)
(* before or comes of programming flash that is not blank.                  *)
(***************************************************************************)
EXTENDS Integers, Sequences

CONSTANTS
  Start,        \* the address given to rboot_write_init
  SectorSize,   \* SECTOR_SIZE
  Total,        \* bound: the bytes of the stream
  MaxChunk      \* bound: the bytes of a chunk

\* spi_flash_write wants whole words.
ASSUME SectorAssumption == SectorSize \in Nat \ {0} /\ SectorSize % 4 = 0
ASSUME StartAssumption  == Start \in Nat \ {0} /\ Start % 4 = 0
ASSUME BoundsAssumption == Total \in Nat /\ MaxChunk \in Nat \ {0}

Blank == 0
Other == -1
Sector(a) == a \div SectorSize
Addresses == 0..(SectorSize * (Sector(Start + Total) + 2) - 1)

VARIABLES
  flash,
  start_addr,         \* where the next word goes
  last_sector_erased,
  extra,              \* extra_bytes: given, but not yet a whole word
  given,              \* history: the bytes of the stream given so far
  phase               \* "open", "ended" or, after a write that failed, "failed"

vars == <<flash, start_addr, last_sector_erased, extra, given, phase>>

\* status: what rboot_write_init returns
WriteInitStatus ==
  /\ start_addr = Start
  /\ last_sector_erased = Sector(Start) - 1
  /\ extra = <<>>
  /\ given = 0
  /\ phase = "open"

Init ==
  /\ flash = [a \in Addresses |-> Other]
  /\ WriteInitStatus

\* Another attempt, after a reset for instance, over what the last one left.
WriteInit ==
  /\ start_addr' = Start
  /\ last_sector_erased' = Sector(Start) - 1
  /\ extra' = <<>>
  /\ given' = 0
  /\ phase' = "open"
  /\ UNCHANGED flash

-----------------------------------------------------------------------------
Words_OffByOne(n) == ((n - 1) \div 4) * 4
Words(n) == (n \div 4) * 4

LastSector_OfStart(addr, len) == Sector(addr)
LastSector_OffByOne(addr, len) == Sector(addr + len)
LastSector(addr, len) == Sector(addr + len - 1)

Later(m, n) == IF m < n THEN n ELSE m

\* The bytes of buf from address addr on, in flash whose sectors secs are erased.
Programmed(addr, len, buf, secs) ==
  [a \in Addresses |->
     LET before == IF Sector(a) \in secs THEN Blank ELSE flash[a]
     IN  IF a \in addr..(addr + len - 1)
         THEN IF before = Blank THEN buf[a - addr + 1] ELSE Other
         ELSE before]

\* rboot_write_flash; ok is what spi_flash_write reports.  When it fails, some
\* words may be programmed, and the sectors are erased and the left-over bytes
\* replaced all the same.  An erase is taken to succeed: the code does not look.
\* (Without memory for its buffer the function changes nothing.)
Write(bytes, ok) ==
  LET buffer   == extra \o bytes
      len      == Words(Len(buffer))
      lastsect == LastSector(start_addr, len)
      erased   == (last_sector_erased + 1)..lastsect
  IN  /\ extra' = SubSeq(buffer, len + 1, Len(buffer))
      /\ last_sector_erased' = Later(last_sector_erased, lastsect)
      /\ \E done \in IF ok THEN {len} ELSE {Words(n) : n \in 0..len} :
           flash' = Programmed(start_addr, done, buffer, erased)
      /\ start_addr' = IF ok THEN start_addr + len ELSE start_addr

Chunk(n) == [i \in 1..n |-> given + i]

\* The caller gives the next n bytes, and the flash takes them.
WriteFlash(n) ==
  /\ phase = "open"
  /\ given + n <= Total
  /\ Write(Chunk(n), TRUE)
  /\ given' = given + n
  /\ UNCHANGED phase

Pad == [i \in 1..(4 - Len(extra)) |-> Blank]

\* rboot_write_end hands the left-over bytes, padded, to rboot_write_flash, which
\* still has them: they are in the buffer twice, and the word is filled with the
\* first of them.
WriteEnd_Drops ==
  /\ phase = "open"
  /\ phase' = "ended"
  /\ UNCHANGED <<flash, start_addr, last_sector_erased, extra, given>>
WriteEnd ==
  /\ phase = "open"
  /\ IF extra # <<>> THEN Write(extra \o Pad, TRUE)
     ELSE UNCHANGED <<flash, start_addr, last_sector_erased, extra>>
  /\ phase' = "ended"
  /\ UNCHANGED given

\* The caller gives the attempt up.
WriteFails ==
  /\ phase = "open"
  /\ \/ \E n \in 1..MaxChunk :
          /\ given + n <= Total
          /\ Write(Chunk(n), FALSE)
     \/ extra # <<>> /\ Write(extra \o Pad, FALSE)
  /\ phase' = "failed"
  /\ UNCHANGED given

\* A reset while a chunk of n bytes is written has erased some of its sectors only.
ResetInErase ==
  /\ phase = "open"
  /\ \E n \in 1..MaxChunk :
       /\ given + n <= Total
       /\ \E s \in (last_sector_erased + 1)..LastSector(start_addr, Words(Len(extra) + n)) :
            flash' = Programmed(start_addr, 0, <<>>, (last_sector_erased + 1)..s)
  /\ phase' = "failed"
  /\ UNCHANGED <<start_addr, last_sector_erased, extra, given>>

Next ==
  \/ WriteInit
  \/ \E n \in 1..MaxChunk : WriteFlash(n)
  \/ WriteEnd
  \/ WriteFails
  \/ ResetInErase

Spec == Init /\ [][Next]_vars

-----------------------------------------------------------------------------
\* Types; never more than three bytes are left over.
TypeOK ==
  /\ flash \in [Addresses -> Other..Total]
  /\ start_addr \in Nat
  /\ last_sector_erased \in Int
  /\ extra \in Seq(Blank..Total) /\ Len(extra) < 4
  /\ given \in 0..Total
  /\ phase \in {"open", "ended", "failed"}

\* What was given is in flash, in order and from the start on, except for less
\* than a word that is still held back (rboot_write_flash), however it was cut
\* into chunks and whatever an earlier attempt left in flash.
StreamKept ==
  phase = "open" =>
    /\ given = start_addr - Start + Len(extra)
    /\ \A k \in 1..(start_addr - Start) : flash[Start + k - 1] = k
    /\ \A j \in 1..Len(extra) : extra[j] = start_addr - Start + j

\* After rboot_write_end nothing is held back.
StreamComplete ==
  phase = "ended" => \A k \in 1..given : flash[Start + k - 1] = k

\* Erasing stops at the last sector the bytes given reach: what follows it in
\* flash, another ROM for instance, is never touched by a call that succeeds.
StaysInSectors ==
  [][\A a \in Addresses :
       flash'[a] # flash[a] /\ phase' # "failed" =>
         Sector(a) \in Sector(Start)..Sector(Start + given' - 1)]_vars
=============================================================================
