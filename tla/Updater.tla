------------------------------ MODULE Updater ------------------------------
(***************************************************************************)
(* UpdaterClass of the badge's Arduino core: a stream is collected in a      *)
(* buffer of one sector and programmed sector by sector at a given address. *)
(*                                                                         *)
(* A cell of flash stands for a run of bytes; SectorCells of them make a     *)
(* sector.  A cell of an image is <<image, position>>.  What the code        *)
(* compares by MD5 is compared cell by cell.                                *)
(***************************************************************************)
EXTENDS Integers, Sequences, FiniteSets

CONSTANTS
  FlashCells,   \* cells of flash from the first slot on
  SectorCells,  \* FLASH_SECTOR_SIZE
  Images        \* the images of the store: [cells, irom], see CheckImage

ASSUME FlashAssumption == FlashCells \in Nat \ {0} /\ SectorCells \in Nat \ {0} /\ FlashCells % SectorCells = 0
ASSUME ImagesAssumption ==
  \A i \in DOMAIN Images : Images[i].cells \in Nat \ {0} /\ Images[i].irom \in 1..(Images[i].cells - 1)

Addresses == 0..(FlashCells - 1)
Image(i)  == [k \in 1..Images[i].cells |-> <<i, k>>]
Blank     == <<>>                     \* an erased cell
Junk      == <<"junk">>               \* anything else
Cells     == {Blank, Junk} \cup UNION {{<<i, k>> : k \in 1..Images[i].cells} : i \in DOMAIN Images}

NoMD5 == <<>>

VARIABLES
  pc,
  flash,        \* address -> cell
  stream,       \* what the connection has still to deliver
  size, startAddress, currentAddress, buffer, error,
  targetMD5,  \* the cells whose MD5 is expected
  md5          \* the cells added so far

session == <<size, startAddress, currentAddress, buffer>>
md5s    == <<targetMD5, md5>>

\* check_image (rboot.c): the header at the start, and behind the irom section,
\* which is not summed up, the normal header, the RAM sections and their checksum.
\* No other cells than those of an image have the right one.
CheckImage(base) ==
  /\ flash[base] # Blank /\ flash[base] # Junk /\ flash[base][2] = 1
  /\ LET readpos == base + Images[flash[base][1]].irom
     IN  \E j \in DOMAIN Images :
           \A k \in (Images[j].irom + 1)..Images[j].cells :
             LET a == readpos + k - Images[j].irom - 1
             IN  a \in Addresses /\ flash[a] = <<j, k>>

-----------------------------------------------------------------------------
remaining  == size - (currentAddress - startAddress)
isRunning  == size > 0

\* _reset; the expected MD5 is not among what it clears.
Reset ==
  /\ size' = 0 /\ startAddress' = 0 /\ currentAddress' = 0 /\ buffer' = <<>>

\* begin, for a size that is not 0.  An address is given, so the space is not
\* looked at.
BeginRefused ==
  /\ isRunning
  /\ UNCHANGED <<session, md5s, error>>

Begin_AtCurrent(len, address) ==
  /\ ~isRunning
  /\ size' = len
  /\ startAddress' = address /\ UNCHANGED currentAddress
  /\ buffer' = <<>> /\ error' = "ok"
  /\ md5' = <<>>
  /\ UNCHANGED targetMD5
Begin_ContinuesMD5(len, address) ==
  /\ ~isRunning
  /\ size' = len
  /\ startAddress' = address /\ currentAddress' = address
  /\ buffer' = <<>> /\ error' = "ok"
  /\ UNCHANGED md5s
Begin(len, address) ==
  /\ ~isRunning
  /\ size' = len
  /\ startAddress' = address /\ currentAddress' = address
  /\ buffer' = <<>> /\ error' = "ok"
  /\ md5' = <<>>
  /\ UNCHANGED targetMD5

SetMD5(expected) ==
  /\ targetMD5' = expected
  /\ UNCHANGED <<session, error, md5>>

Least(a, b) == IF a < b THEN a ELSE b

\* A turn of the loop of writeStream: what readBytes delivers before its timeout,
\* up to the end of the buffer, goes to the buffer.
ReadBytes_Overfills(n) ==
  /\ n \in 1..Least(SectorCells, Len(stream))
  /\ buffer' = buffer \o SubSeq(stream, 1, n)
  /\ stream' = SubSeq(stream, n + 1, Len(stream))
  /\ UNCHANGED <<size, startAddress, currentAddress, error, md5s>>
ReadBytes(n) ==
  /\ n \in 1..Least(SectorCells - Len(buffer), Len(stream))
  /\ buffer' = buffer \o SubSeq(stream, 1, n)
  /\ stream' = SubSeq(stream, n + 1, Len(stream))
  /\ UNCHANGED <<size, startAddress, currentAddress, error, md5s>>

\* Nothing came, twice: the connection is slow, cut, or has delivered all.
ReadTimeout_StaysOpen ==
  /\ error' = "stream"
  /\ currentAddress' = startAddress + size
  /\ UNCHANGED <<size, startAddress, buffer, md5s>>
ReadTimeout ==
  /\ error' = "stream"
  /\ Reset
  /\ UNCHANGED md5s

BufferComplete == Len(buffer) \in {remaining, SectorCells}

\* _writeBuffer
SectorOf(a) == {b \in Addresses : b \div SectorCells = a \div SectorCells}

EraseSector ==
  /\ currentAddress \in Addresses
  /\ flash' = [a \in Addresses |-> IF a \in SectorOf(currentAddress) THEN Blank ELSE flash[a]]
  /\ UNCHANGED <<session, md5s, error>>

\* The first n cells of the buffer are programmed.
Programmed(n) ==
  [a \in Addresses |-> IF a \in currentAddress..(currentAddress + n - 1)
                       THEN buffer[a - currentAddress + 1] ELSE flash[a]]

FlashWrite ==
  /\ flash' = Programmed(Len(buffer))
  /\ md5' = md5 \o buffer
  /\ currentAddress' = currentAddress + Len(buffer)
  /\ buffer' = <<>>
  /\ UNCHANGED <<size, startAddress, error, targetMD5>>

\* Either may fail, and does past the end of flash: there is no _reset.
WriteError ==
  /\ error' = "write"
  /\ currentAddress' = startAddress + size
  /\ UNCHANGED <<size, startAddress, buffer, md5s>>

\* end, after a writeStream that returned the announced size
Magic(cell) == cell \notin {Blank, Junk} /\ cell[2] = 1

MD5Matches_Any == TRUE
MD5Matches == targetMD5 = NoMD5 \/ targetMD5 = md5

EndFails ==
  /\ ~(MD5Matches /\ Magic(flash[startAddress]))
  /\ error' = IF MD5Matches THEN "magic" ELSE "md5"
  /\ Reset
  /\ UNCHANGED md5s

\* The command to eboot that it leaves in RTC memory is in RBootApi.
EndWell ==
  /\ MD5Matches /\ Magic(flash[startAddress])
  /\ Reset
  /\ UNCHANGED <<md5s, error>>
=============================================================================
