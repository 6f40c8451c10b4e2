-------------------------- MODULE FlashWriterProofs --------------------------
(***************************************************************************)
(* Proofs about FlashWriter, for every start address and sector size, every  *)
(* length of the stream and every way to cut it into chunks.                 *)
(***************************************************************************)
EXTENDS FlashWriter, BasicLemmas

USE SectorAssumption, StartAssumption, BoundsAssumption
USE DEF Blank, Other

\* The number of an address's sector.
LEMMA SectorFacts ==
  /\ \A a \in Int : Sector(a) \in Int
  /\ \A a, b \in Int : a <= b => Sector(a) <= Sector(b)
  /\ \A a \in Int : Sector(a) <= Sector(a - 1) + 1
  /\ \A a \in Nat : a % 4 = 0 => Sector(a + 3) = Sector(a)
  /\ \A a \in Nat : 0 <= Sector(a)
<1>1. \A a \in Int : Sector(a) \in Int
  BY Quotient DEF Sector
<1>2. \A a, b \in Int : a <= b => Sector(a) <= Sector(b)
  BY QuotientMonotone DEF Sector
<1>3. \A a \in Int : Sector(a) <= Sector(a - 1) + 1
  BY QuotientOfNext DEF Sector
<1>4. \A a \in Nat : a % 4 = 0 => Sector(a + 3) = Sector(a)
  BY WordInBlock DEF Sector
<1>5. Sector(0) = 0
  BY QuotientUnique DEF Sector
<1>6. QED BY <1>1, <1>2, <1>3, <1>4, <1>5

\* The whole words of n bytes.
LEMMA WordFacts ==
  ASSUME NEW n \in Nat
  PROVE  Words(n) \in Nat /\ Words(n) <= n /\ n < Words(n) + 4 /\ Words(n) % 4 = 0
BY DEF Words

\* The model's flash has room for the stream.
LEMMA StreamInAddresses ==
  /\ Addresses \subseteq Nat
  /\ \A k \in 1..Total : Start + k - 1 \in Addresses
<1> DEFINE s == Sector(Start + Total)
<1>1. s \in Int /\ Start + Total < s * SectorSize + SectorSize
  BY Quotient DEF Sector
<1>2. SectorSize * (s + 2) = (s * SectorSize + SectorSize) + SectorSize
  BY <1>1
<1>3. QED BY <1>1, <1>2 DEF Addresses

-----------------------------------------------------------------------------
(***************************************************************************)
(* The inductive invariant.  StreamKept does not say where the next word can *)
(* be programmed: that needs, of an attempt that is open, which sectors have *)
(* been erased and that what follows the stream in them is blank.            *)
(***************************************************************************)

\* The next word goes where a word may go, in the last sector erased or the next.
Position ==
  /\ start_addr >= Start /\ start_addr % 4 = 0
  /\ last_sector_erased \in (Sector(start_addr) - 1)..Sector(start_addr)
  /\ last_sector_erased >= Sector(Start) - 1
  /\ start_addr # Start => last_sector_erased >= Sector(start_addr - 1)

BlankAhead ==
  \A a \in Addresses :
    a >= start_addr /\ Sector(a) <= last_sector_erased => flash[a] = Blank

WriterInv ==
  /\ StreamKept
  /\ StreamComplete
  /\ phase = "open" => Position /\ BlankAhead

\* A call of rboot_write_flash with a buffer of extra and bytes, as far as it has
\* come when it ends: done bytes are programmed.
Buffer(bytes)   == extra \o bytes
Length(bytes)   == Words(Len(Buffer(bytes)))
LastOf(bytes)   == LastSector(start_addr, Length(bytes))
ErasedBy(bytes) == (last_sector_erased + 1)..LastOf(bytes)

LEMMA WriteIs ==
  ASSUME NEW bytes, NEW ok \in BOOLEAN
  PROVE  Write(bytes, ok) <=>
           /\ extra' = SubSeq(Buffer(bytes), Length(bytes) + 1, Len(Buffer(bytes)))
           /\ last_sector_erased' = Later(last_sector_erased, LastOf(bytes))
           /\ \E done \in IF ok THEN {Length(bytes)} ELSE {Words(n) : n \in 0..Length(bytes)} :
                flash' = Programmed(start_addr, done, Buffer(bytes), ErasedBy(bytes))
           /\ start_addr' = IF ok THEN start_addr + Length(bytes) ELSE start_addr
BY DEF Write, Buffer, Length, LastOf, ErasedBy

\* The types of a call's results.
LEMMA WriteTypes ==
  ASSUME TypeOK, NEW bytes \in Seq(Blank..Total), NEW ok \in BOOLEAN, Write(bytes, ok)
  PROVE  /\ flash' \in [Addresses -> Other..Total]
         /\ start_addr' \in Nat
         /\ last_sector_erased' \in Int
         /\ extra' \in Seq(Blank..Total) /\ Len(extra') < 4
<1> DEFINE buffer == Buffer(bytes)
           len == Length(bytes)
           last == LastOf(bytes)
           erased == ErasedBy(bytes)
<1>1. /\ extra' = SubSeq(buffer, len + 1, Len(buffer))
      /\ last_sector_erased' = Later(last_sector_erased, last)
      /\ \E done \in IF ok THEN {len} ELSE {Words(n) : n \in 0..len} :
           flash' = Programmed(start_addr, done, buffer, erased)
      /\ start_addr' = IF ok THEN start_addr + len ELSE start_addr
  BY WriteIs, Zenon
<1>2. buffer \in Seq(Blank..Total) /\ Len(buffer) \in Nat
  BY DEF TypeOK, Buffer
<1>3. len \in Nat /\ len <= Len(buffer) /\ Len(buffer) < len + 4
  BY <1>2, WordFacts DEF Length
<1>4. last \in Int
  <2>1. start_addr \in Nat
    BY DEF TypeOK
  <2>2. start_addr + len - 1 \in Int
    BY <1>3, <2>1
  <2>3. Sector(start_addr + len - 1) \in Int
    BY ONLY <2>2, SectorFacts
  <2>4. QED BY <2>3 DEF LastOf, LastSector
<1> HIDE DEF buffer, len, last, erased
<1>5. extra' \in Seq(Blank..Total) /\ Len(extra') < 4
  <2>1. len \in 0..Len(buffer)
    BY <1>2, <1>3
  <2>2. /\ SubSeq(buffer, len + 1, Len(buffer)) \in Seq(Blank..Total)
        /\ Len(SubSeq(buffer, len + 1, Len(buffer))) = Len(buffer) - len
    BY ONLY <1>2, <2>1, Pieces
  <2>3. QED BY <1>1, <1>2, <1>3, <2>2
<1>6. start_addr' \in Nat /\ last_sector_erased' \in Int
  BY <1>1, <1>3, <1>4 DEF TypeOK, Later
<1>7. PICK done \in 0..Len(buffer) : flash' = Programmed(start_addr, done, buffer, erased)
  <2>1. \A n \in 0..len : Words(n) \in 0..Len(buffer)
    <3>1. ASSUME NEW n \in 0..len PROVE Words(n) \in 0..Len(buffer)
      <4>1. n \in Nat
        BY <1>3
      <4>2. Words(n) \in Nat /\ Words(n) <= n
        BY ONLY <4>1, WordFacts
      <4>3. QED BY <1>2, <1>3, <4>2
    <3>2. QED BY <3>1
  <2>2. CASE ok
    BY <1>1, <1>2, <1>3, <2>2
  <2>3. CASE ~ok
    BY <1>1, <2>1, <2>3
  <2>4. QED BY <2>2, <2>3
<1>8. flash' \in [Addresses -> Other..Total]
  <2>1. ASSUME NEW a \in Addresses, a \in start_addr..(start_addr + done - 1)
        PROVE  buffer[a - start_addr + 1] \in Blank..Total
    <3>1. a - start_addr + 1 \in 1..Len(buffer)
      BY <1>2, <2>1, StreamInAddresses DEF TypeOK
    <3>2. QED BY ONLY <1>2, <3>1, Member
  <2>2. QED BY <1>7, <2>1 DEF TypeOK, Programmed, Blank, Other
<1>9. QED BY <1>5, <1>6, <1>8

LEMMA ChunkType ==
  ASSUME NEW n \in Nat, given \in Nat, given + n <= Total
  PROVE  /\ Chunk(n) \in Seq(Blank..Total) /\ Len(Chunk(n)) = n
         /\ \A i \in 1..n : Chunk(n)[i] = given + i
<1>1. \A i \in 1..n : given + i \in Blank..Total
  BY DEF Blank
<1>2. QED BY <1>1 DEF Chunk

LEMMA PadType ==
  ASSUME TypeOK
  PROVE  extra \o Pad \in Seq(Blank..Total) /\ Len(extra \o Pad) = 4
<1>1. 4 - Len(extra) \in Nat /\ Blank \in Blank..Total
  BY DEF TypeOK, Blank
<1>2. Pad \in Seq(Blank..Total) /\ Len(Pad) = 4 - Len(extra)
  BY <1>1 DEF Pad
<1>3. QED BY <1>1, <1>2 DEF TypeOK

\* No step leaves the types.
LEMMA TypeStep == TypeOK /\ [Next]_vars => TypeOK'
<1> SUFFICES ASSUME TypeOK, [Next]_vars PROVE TypeOK'
  OBVIOUS
<1>0. Start \in Nat /\ given \in Nat /\ Sector(Start) - 1 \in Int
  <2>1. Start \in Nat /\ Start \in Int
    OBVIOUS
  <2>2. given \in Nat
    BY DEF TypeOK
  <2>3. Sector(Start) \in Int
    BY ONLY <2>1, SectorFacts
  <2>4. QED BY <2>1, <2>2, <2>3
<1>1. CASE WriteInit
  BY <1>0, <1>1 DEF WriteInit, TypeOK, Blank
<1>2. ASSUME NEW n \in 1..MaxChunk, WriteFlash(n) PROVE TypeOK'
  <2>0. n \in Nat
    OBVIOUS
  <2>1. given + n <= Total /\ Write(Chunk(n), TRUE)
    BY <1>2, Zenon DEF WriteFlash
  <2>2. Chunk(n) \in Seq(Blank..Total)
    BY ONLY <1>0, <2>0, <2>1, ChunkType
  <2>3. given' \in 0..Total /\ phase' \in {"open", "ended", "failed"}
    BY <1>0, <1>2 DEF WriteFlash, TypeOK
  <2>4. QED BY <2>1, <2>2, <2>3, WriteTypes DEF TypeOK
<1>3. CASE WriteEnd
  <2>1. given' \in 0..Total /\ phase' \in {"open", "ended", "failed"}
    BY <1>3 DEF WriteEnd, TypeOK
  <2>2. CASE extra = <<>>
    BY <1>3, <2>1, <2>2 DEF WriteEnd, TypeOK
  <2>3. CASE extra # <<>>
    BY <1>3, <2>1, <2>3, PadType, WriteTypes DEF WriteEnd, TypeOK
  <2>4. QED BY <2>2, <2>3
<1>4. CASE WriteFails
  <2>1. given' \in 0..Total /\ phase' \in {"open", "ended", "failed"}
    BY <1>4 DEF WriteFails, TypeOK
  <2>2. ASSUME NEW n \in 1..MaxChunk, given + n <= Total, Write(Chunk(n), FALSE)
        PROVE  TypeOK'
    <3>1. n \in Nat
      OBVIOUS
    <3>2. Chunk(n) \in Seq(Blank..Total)
      BY ONLY <1>0, <2>2, <3>1, ChunkType
    <3>3. QED BY <2>1, <2>2, <3>2, WriteTypes DEF TypeOK
  <2>3. CASE Write(extra \o Pad, FALSE)
    BY <2>1, <2>3, PadType, WriteTypes DEF TypeOK
  <2>4. QED BY <1>4, <2>2, <2>3 DEF WriteFails
<1>5. CASE ResetInErase
  <2>1. ASSUME NEW secs, flash' = Programmed(start_addr, 0, <<>>, secs)
        PROVE  flash' \in [Addresses -> Other..Total]
    BY <2>1, StreamInAddresses DEF TypeOK, Programmed, Blank, Other
  <2>2. QED BY <1>5, <2>1 DEF ResetInErase, TypeOK
<1>6. CASE UNCHANGED vars
  BY <1>6 DEF vars, TypeOK
<1>7. QED BY <1>1, <1>2, <1>3, <1>4, <1>5, <1>6 DEF Next

\* Every variable keeps its type, and less than a word is ever held back.
THEOREM TypeCorrect == Spec => []TypeOK
<1>1. Init => TypeOK
  BY SectorFacts DEF Init, WriteInitStatus, TypeOK, Blank, Other
<1>2. QED BY <1>1, TypeStep, PTL DEF Spec

-----------------------------------------------------------------------------
\* What a call that succeeds does to flash: nothing before the next word is
\* touched, the whole words of the buffer follow, and blank flash follows them.
LEMMA WriteWell ==
  ASSUME TypeOK, Position, BlankAhead,
         NEW bytes \in Seq(Blank..Total), Write(bytes, TRUE)
  PROVE  /\ Position' /\ BlankAhead'
         /\ start_addr' = start_addr + Length(bytes)
         /\ \A a \in Addresses : Start <= a /\ a < start_addr => flash'[a] = flash[a]
         /\ \A i \in 1..Length(bytes) :
              start_addr + i - 1 \in Addresses => flash'[start_addr + i - 1] = Buffer(bytes)[i]
<1> DEFINE buffer == Buffer(bytes)
           len == Length(bytes)
           last == LastOf(bytes)
           erased == ErasedBy(bytes)
<1>1. /\ last_sector_erased' = Later(last_sector_erased, last)
      /\ flash' = Programmed(start_addr, len, buffer, erased)
      /\ start_addr' = start_addr + len
  BY WriteIs
<1>2. /\ start_addr \in Nat /\ last_sector_erased \in Int
      /\ Start \in Nat /\ Addresses \subseteq Nat
      /\ start_addr >= Start /\ start_addr % 4 = 0
  BY StreamInAddresses DEF TypeOK, Position
<1>3. len \in Nat /\ len % 4 = 0
  <2>1. Len(buffer) \in Nat
    BY DEF TypeOK, Buffer
  <2>2. QED BY <2>1, WordFacts DEF Length
<1>4. /\ last = Sector(start_addr + len - 1) /\ last \in Int
      /\ erased = (last_sector_erased + 1)..last
  <2>1. start_addr + len - 1 \in Int
    BY <1>2, <1>3
  <2>2. Sector(start_addr + len - 1) \in Int
    BY ONLY <2>1, SectorFacts
  <2>3. QED BY <2>2 DEF LastOf, LastSector, ErasedBy
<1>5. /\ last <= Sector(start_addr + len) /\ Sector(start_addr + len) <= last + 1
      /\ Sector(start_addr) <= Sector(start_addr + len)
      /\ Sector(Start) \in Int /\ Sector(start_addr) \in Int /\ Sector(start_addr + len) \in Int
  <2>1. start_addr + len \in Int /\ start_addr \in Int /\ Start \in Int
    BY <1>2, <1>3
  <2>2. /\ start_addr + len - 1 \in Int /\ start_addr + len - 1 <= start_addr + len
        /\ start_addr <= start_addr + len
    BY <1>2, <1>3
  <2>3. /\ Sector(Start) \in Int /\ Sector(start_addr) \in Int /\ Sector(start_addr + len) \in Int
        /\ Sector(start_addr + len - 1) <= Sector(start_addr + len)
        /\ Sector(start_addr) <= Sector(start_addr + len)
    BY ONLY <2>1, <2>2, SectorFacts
  <2>4. Sector(start_addr + len) <= Sector(start_addr + len - 1) + 1
    <3>1. \A b, c \in Int : c = b - 1 => Sector(b) <= Sector(c) + 1
      BY ONLY SectorFacts
    <3>2. start_addr + len - 1 = (start_addr + len) - 1
      BY ONLY <1>2, <1>3
    <3>3. QED BY ONLY <2>1, <2>2, <3>1, <3>2
  <2>5. QED BY ONLY <1>4, <2>3, <2>4
<1>6. /\ last_sector_erased \in (Sector(start_addr) - 1)..Sector(start_addr)
      /\ last_sector_erased >= Sector(Start) - 1
      /\ start_addr # Start => last_sector_erased >= Sector(start_addr - 1)
  BY DEF Position
<1>7. /\ last_sector_erased' >= last_sector_erased /\ last_sector_erased' >= last
      /\ last_sector_erased' \in {last_sector_erased, last}
  BY ONLY <1>1, <1>2, <1>4 DEF Later
<1>8. \A a \in Addresses :
        flash'[a] = LET before == IF Sector(a) \in erased THEN Blank ELSE flash[a]
                    IN  IF a \in start_addr..(start_addr + len - 1)
                        THEN IF before = Blank THEN buffer[a - start_addr + 1] ELSE Other
                        ELSE before
  BY <1>1 DEF Programmed
<1>9. \A a \in Addresses : a >= start_addr => Sector(a) \in erased \/ flash[a] = Blank \/ Sector(a) > last
  <2>1. \A a \in Addresses : Sector(a) \in Int
    BY ONLY <1>2, SectorFacts
  <2>2. QED BY ONLY <1>2, <1>4, <2>1, BlankAhead DEF BlankAhead
<1>10. \A a \in Addresses : a <= start_addr + len - 1 => Sector(a) <= last
  <2>1. ASSUME NEW a \in Addresses, a <= start_addr + len - 1
        PROVE  Sector(a) <= Sector(start_addr + len - 1)
    <3>1. a \in Int /\ start_addr + len - 1 \in Int
      BY ONLY <1>2, <1>3
    <3>2. QED BY ONLY <2>1, <3>1, SectorFacts
  <2>2. QED BY ONLY <1>4, <2>1
<1> HIDE DEF buffer, len, last, erased
<1>11. Position'
  <2>1. (start_addr + len) % 4 = 0 /\ start_addr + len >= Start
    BY ONLY <1>2, <1>3
  <2>2. /\ last_sector_erased' >= Sector(start_addr + len) - 1
        /\ last_sector_erased' <= Sector(start_addr + len)
        /\ last_sector_erased' >= Sector(Start) - 1
        /\ last_sector_erased' \in Int
    BY ONLY <1>2, <1>4, <1>5, <1>6, <1>7
  <2>3. last_sector_erased' >= Sector(start_addr + len - 1)
    BY ONLY <1>4, <1>7
  <2>4. /\ last_sector_erased' \in (Sector(start_addr + len) - 1)..Sector(start_addr + len)
    BY ONLY <1>5, <2>2
  <2>5. start_addr' = start_addr + len
    BY ONLY <1>1
  <2>6. /\ last_sector_erased' \in (Sector(start_addr') - 1)..Sector(start_addr')
        /\ last_sector_erased' >= Sector(start_addr' - 1)
    BY ONLY <1>2, <1>3, <2>3, <2>4, <2>5
  <2>7. start_addr' >= Start /\ start_addr' % 4 = 0
    BY ONLY <2>1, <2>5
  <2>8. QED BY ONLY <2>2, <2>6, <2>7 DEF Position
<1>12. BlankAhead'
  <2>1. ASSUME NEW a \in Addresses, a >= start_addr', Sector(a) <= last_sector_erased'
        PROVE  flash'[a] = Blank
    <3>1. a >= start_addr /\ a \notin start_addr..(start_addr + len - 1)
      BY ONLY <1>1, <1>2, <1>3, <2>1
    <3>2. Sector(a) \in Int
      BY ONLY <1>2, SectorFacts
    <3>3. Sector(a) \in erased \/ Sector(a) <= last_sector_erased
      BY ONLY <1>2, <1>4, <1>7, <2>1, <3>2
    <3>4. QED BY ONLY <1>8, <3>1, <3>3, BlankAhead DEF BlankAhead
  <2>2. QED BY <2>1 DEF BlankAhead
<1>13. ASSUME NEW a \in Addresses, Start <= a, a < start_addr
       PROVE  flash'[a] = flash[a]
  <2>1. Sector(a) <= Sector(start_addr - 1) /\ Sector(a) \in Int /\ Sector(start_addr - 1) \in Int
    <3>1. a \in Int /\ start_addr - 1 \in Int /\ a <= start_addr - 1
      BY ONLY <1>2, <1>13
    <3>2. QED BY ONLY <3>1, SectorFacts
  <2>2. Sector(a) \notin erased
    BY ONLY <1>2, <1>4, <1>6, <1>13, <2>1
  <2>3. a \notin start_addr..(start_addr + len - 1)
    BY ONLY <1>2, <1>13
  <2>4. QED BY ONLY <1>8, <2>2, <2>3
<1>14. ASSUME NEW i \in 1..len, start_addr + i - 1 \in Addresses
       PROVE  flash'[start_addr + i - 1] = buffer[i]
  <2> DEFINE a == start_addr + i - 1
  <2>1. /\ a \in start_addr..(start_addr + len - 1) /\ a - start_addr + 1 = i
        /\ a >= start_addr /\ a <= start_addr + len - 1 /\ a \in Int
    BY ONLY <1>2, <1>3, <1>14
  <2>2. Sector(a) \in Int
    BY ONLY <2>1, SectorFacts
  <2>3. Sector(a) \in erased \/ flash[a] = Blank
    BY ONLY <1>4, <1>9, <1>10, <1>14, <2>1, <2>2
  <2>4. QED BY ONLY <1>8, <1>14, <2>1, <2>3
<1>15. QED BY <1>1, <1>11, <1>12, <1>13, <1>14 DEF buffer, len

\* Where such a call changes flash.
LEMMA WriteChanges ==
  ASSUME TypeOK, Position, NEW bytes \in Seq(Blank..Total), Write(bytes, TRUE),
         NEW a \in Addresses, flash'[a] # flash[a]
  PROVE  Sector(Start) <= Sector(a) /\ Sector(a) <= LastOf(bytes)
<1> DEFINE len == Length(bytes)
<1>1. /\ start_addr \in Nat /\ last_sector_erased \in Int
      /\ Start \in Int /\ a \in Int /\ start_addr >= Start
      /\ last_sector_erased >= Sector(Start) - 1
  BY StreamInAddresses DEF TypeOK, Position
<1>2. len \in Nat
  <2>1. Len(Buffer(bytes)) \in Nat
    BY DEF TypeOK, Buffer
  <2>2. QED BY <2>1, WordFacts DEF Length
<1>3. flash' = Programmed(start_addr, len, Buffer(bytes), ErasedBy(bytes))
  BY WriteIs
<1>4. Sector(a) \in ErasedBy(bytes) \/ a \in start_addr..(start_addr + len - 1)
  BY <1>3 DEF Programmed
<1>5. Sector(a) \in Int /\ Sector(Start) \in Int
  BY ONLY <1>1, SectorFacts
<1> HIDE DEF len
<1>6. LastOf(bytes) = Sector(start_addr + len - 1)
  BY DEF LastOf, LastSector, len
<1>7. CASE Sector(a) \in ErasedBy(bytes)
  BY ONLY <1>1, <1>5, <1>7 DEF ErasedBy
<1>8. CASE a \in start_addr..(start_addr + len - 1)
  <2>1. a <= start_addr + len - 1 /\ start_addr + len - 1 \in Int /\ Start <= a
    BY ONLY <1>1, <1>2, <1>8
  <2>2. Sector(a) <= Sector(start_addr + len - 1) /\ Sector(Start) <= Sector(a)
    BY ONLY <1>1, <2>1, SectorFacts
  <2>3. QED BY ONLY <1>6, <2>2
<1>9. QED BY <1>4, <1>7, <1>8

\* When the first m bytes of the buffer go on with the stream, so does flash.
LEMMA WriteExtends ==
  ASSUME TypeOK, Position, BlankAhead,
         NEW bytes \in Seq(Blank..Total), Write(bytes, TRUE),
         NEW m \in 0..Length(bytes), start_addr - Start + m <= Total,
         \A k \in 1..(start_addr - Start) : flash[Start + k - 1] = k,
         \A i \in 1..m : Buffer(bytes)[i] = start_addr - Start + i
  PROVE  \A k \in 1..(start_addr - Start + m) : flash'[Start + k - 1] = k
<1>1. start_addr \in Nat /\ Start \in Nat /\ start_addr >= Start /\ Length(bytes) \in Nat
  <2>1. Len(Buffer(bytes)) \in Nat
    BY DEF TypeOK, Buffer
  <2>2. Length(bytes) \in Nat
    BY <2>1, WordFacts DEF Length
  <2>3. QED BY <2>2 DEF TypeOK, Position
<1>2. m \in Nat /\ m <= Length(bytes)
  BY <1>1
<1>3. /\ \A a \in Addresses : Start <= a /\ a < start_addr => flash'[a] = flash[a]
      /\ \A i \in 1..Length(bytes) :
           start_addr + i - 1 \in Addresses => flash'[start_addr + i - 1] = Buffer(bytes)[i]
  BY WriteWell
<1>4. SUFFICES ASSUME NEW k \in 1..(start_addr - Start + m) PROVE flash'[Start + k - 1] = k
  OBVIOUS
<1>5. Start + k - 1 \in Addresses /\ k \in Nat
  <2>1. k \in 1..Total
    BY ONLY <1>1, <1>2, <1>4, start_addr - Start + m <= Total, Total \in Nat, BoundsAssumption
  <2>2. QED BY ONLY <2>1, StreamInAddresses
<1>6. CASE k <= start_addr - Start
  <2>1. Start <= Start + k - 1 /\ Start + k - 1 < start_addr /\ k \in 1..(start_addr - Start)
    BY ONLY <1>1, <1>2, <1>4, <1>5, <1>6
  <2>2. QED BY <1>3, <1>5, <2>1
<1>7. CASE k > start_addr - Start
  <2>1. PICK i \in 1..m : k = start_addr - Start + i
    <3>1. k - (start_addr - Start) \in 1..m
      BY ONLY <1>1, <1>2, <1>4, <1>5, <1>7
    <3>2. k = start_addr - Start + (k - (start_addr - Start))
      BY ONLY <1>1, <1>5
    <3>3. QED BY ONLY <3>1, <3>2
  <2>2. start_addr + i - 1 = Start + k - 1 /\ i \in 1..Length(bytes)
    BY ONLY <1>1, <1>2, <2>1
  <2>3. QED BY <1>3, <1>5, <2>1, <2>2
<1>8. QED BY ONLY <1>1, <1>5, <1>6, <1>7

\* The buffer of a chunk goes on with the stream.
LEMMA ChunkBuffer ==
  ASSUME TypeOK, StreamKept, phase = "open", NEW n \in Nat, given + n <= Total
  PROVE  /\ Chunk(n) \in Seq(Blank..Total)
         /\ Buffer(Chunk(n)) \in Seq(Blank..Total)
         /\ Len(Buffer(Chunk(n))) = Len(extra) + n
         /\ \A i \in 1..(Len(extra) + n) : Buffer(Chunk(n))[i] = start_addr - Start + i
<1>1. /\ given \in Nat /\ start_addr \in Nat /\ Start \in Nat
      /\ extra \in Seq(Blank..Total) /\ Len(extra) \in Nat
  BY DEF TypeOK
<1>2. /\ given = start_addr - Start + Len(extra)
      /\ \A j \in 1..Len(extra) : extra[j] = start_addr - Start + j
  BY DEF StreamKept
<1>3. /\ Chunk(n) \in Seq(Blank..Total) /\ Len(Chunk(n)) = n
      /\ \A i \in 1..n : Chunk(n)[i] = given + i
  BY ONLY <1>1, given + n <= Total, ChunkType
<1> DEFINE chunk == Chunk(n)
<1> HIDE DEF chunk
<1>4. /\ chunk \in Seq(Blank..Total) /\ Len(chunk) = n
      /\ \A i \in 1..n : chunk[i] = given + i
  BY ONLY <1>3 DEF chunk
<1>5. /\ extra \o chunk \in Seq(Blank..Total) /\ Len(extra \o chunk) = Len(extra) + n
      /\ \A i \in 1..(Len(extra) + n) :
           (extra \o chunk)[i] = IF i <= Len(extra) THEN extra[i] ELSE chunk[i - Len(extra)]
  BY ONLY <1>1, <1>4
<1>6. \A i \in 1..(Len(extra) + n) : (extra \o chunk)[i] = start_addr - Start + i
  <2>1. SUFFICES ASSUME NEW i \in 1..(Len(extra) + n)
                 PROVE  (extra \o chunk)[i] = start_addr - Start + i
    OBVIOUS
  <2>2. CASE i <= Len(extra)
    BY ONLY <1>1, <1>2, <1>5, <2>1, <2>2
  <2>3. CASE i > Len(extra)
    <3>1. i - Len(extra) \in 1..n
      BY ONLY <1>1, <2>1, <2>3
    <3>2. (extra \o chunk)[i] = chunk[i - Len(extra)]
      BY ONLY <1>1, <1>5, <2>1, <2>3
    <3>3. QED BY ONLY <1>1, <1>2, <1>4, <2>1, <3>1, <3>2
  <2>4. i <= Len(extra) \/ i > Len(extra)
    BY ONLY <1>1, <2>1, n \in Nat
  <2>5. QED BY ONLY <2>2, <2>3, <2>4, Zenon
<1>7. QED BY ONLY <1>4, <1>5, <1>6, Zenon DEF Buffer, chunk

\* The buffer rboot_write_end programs: its first word begins with the bytes left over.
LEMMA EndBuffer ==
  ASSUME TypeOK, extra # <<>>
  PROVE  /\ extra \o Pad \in Seq(Blank..Total)
         /\ Length(extra \o Pad) = 4
         /\ 0 < Len(extra)
         /\ \A i \in 1..Len(extra) : Buffer(extra \o Pad)[i] = extra[i]
<1>1. extra \in Seq(Blank..Total) /\ Len(extra) \in Nat /\ Len(extra) < 4 /\ 0 < Len(extra)
  BY DEF TypeOK
<1> DEFINE padded == extra \o Pad
<1>2. padded \in Seq(Blank..Total) /\ Len(padded) = 4
  BY PadType
<1> HIDE DEF padded
<1>3. /\ Len(extra \o padded) = Len(extra) + 4
      /\ \A i \in 1..Len(extra) : (extra \o padded)[i] = extra[i]
  <2>1. /\ Len(extra \o padded) = Len(extra) + Len(padded)
        /\ \A i \in 1..(Len(extra) + Len(padded)) :
             (extra \o padded)[i] = IF i <= Len(extra) THEN extra[i] ELSE padded[i - Len(extra)]
    <3>1. extra \in Seq(Blank..Total) /\ padded \in Seq(Blank..Total)
      BY ONLY <1>1, <1>2
    <3>2. QED BY ONLY <3>1, Joined, Zenon
  <2>2. QED BY ONLY <1>1, <1>2, <2>1
<1>4. Words(Len(extra \o padded)) = 4
  BY ONLY <1>1, <1>3 DEF Words
<1>5. QED BY ONLY <1>1, <1>2, <1>3, <1>4 DEF padded, Buffer, Length

-----------------------------------------------------------------------------
LEMMA ChunkStep ==
  ASSUME TypeOK, WriterInv, NEW n \in 1..MaxChunk, WriteFlash(n)
  PROVE  WriterInv'
<1>1. phase = "open" /\ given + n <= Total /\ Write(Chunk(n), TRUE) /\ given' = given + n /\ phase' = phase
  BY Zenon DEF WriteFlash
<1>2. StreamKept /\ Position /\ BlankAhead /\ n \in Nat
  BY <1>1 DEF WriterInv
<1> DEFINE chunk == Chunk(n)
           buffer == Buffer(Chunk(n))
           len == Length(Chunk(n))
<1>3. /\ chunk \in Seq(Blank..Total) /\ buffer \in Seq(Blank..Total)
      /\ Len(buffer) = Len(extra) + n
      /\ \A i \in 1..(Len(extra) + n) : buffer[i] = start_addr - Start + i
  BY ONLY TypeOK, <1>1, <1>2, ChunkBuffer
<1>4. /\ start_addr \in Nat /\ Start \in Nat /\ Len(extra) \in Nat
      /\ start_addr >= Start /\ given = start_addr - Start + Len(extra)
  BY <1>1, <1>2 DEF TypeOK, Position, StreamKept
<1>5. len \in Nat /\ len <= Len(extra) + n
  BY ONLY <1>2, <1>3, <1>4, WordFacts DEF Length
<1>6. /\ Position' /\ BlankAhead' /\ start_addr' = start_addr + len
  BY <1>1, <1>2, <1>3, WriteWell
<1>7. extra' = SubSeq(buffer, len + 1, Len(buffer))
  BY <1>1, WriteIs
<1>8. start_addr - Start + len <= Total
  BY ONLY <1>1, <1>2, <1>4, <1>5, BoundsAssumption
<1>9. \A k \in 1..(start_addr - Start + len) : flash'[Start + k - 1] = k
  <2>1. \A k \in 1..(start_addr - Start) : flash[Start + k - 1] = k
    BY <1>1, <1>2 DEF StreamKept
  <2>2. \A i \in 1..len : buffer[i] = start_addr - Start + i
    BY ONLY <1>2, <1>3, <1>4, <1>5
  <2>3. len \in 0..Length(Chunk(n))
    BY ONLY <1>5
  <2>4. QED BY ONLY TypeOK, <1>1, <1>2, <1>3, <1>8, <2>1, <2>2, <2>3, WriteExtends
<1> HIDE DEF chunk, buffer, len
<1>10. /\ Len(extra') = Len(extra) + n - len
       /\ \A j \in 1..Len(extra') : extra'[j] = start_addr - Start + len + j
  <2>1. len \in 0..Len(buffer)
    BY ONLY <1>2, <1>3, <1>4, <1>5
  <2>2. /\ Len(extra') = Len(buffer) - len
        /\ \A j \in 1..(Len(buffer) - len) : extra'[j] = buffer[len + j]
    BY ONLY <1>3, <1>7, <2>1, Pieces
  <2>3. \A j \in 1..Len(extra') : len + j \in 1..(Len(extra) + n)
    BY ONLY <1>2, <1>3, <1>4, <1>5, <2>2
  <2>4. QED BY ONLY <1>2, <1>3, <1>4, <1>5, <2>2, <2>3
<1>11. StreamKept'
  <2>1. given' = start_addr' - Start + Len(extra')
    BY ONLY <1>1, <1>2, <1>4, <1>5, <1>6, <1>10
  <2>2. start_addr' - Start = start_addr - Start + len
    BY ONLY <1>4, <1>5, <1>6
  <2>3. QED BY ONLY <1>9, <1>10, <2>1, <2>2 DEF StreamKept
<1>12. QED BY <1>1, <1>6, <1>11 DEF WriterInv, StreamComplete

LEMMA EndStep ==
  ASSUME TypeOK, WriterInv, WriteEnd
  PROVE  WriterInv'
<1>1. phase = "open" /\ phase' = "ended" /\ given' = given
  BY DEF WriteEnd
<1>2. /\ Position /\ BlankAhead
      /\ given = start_addr - Start + Len(extra) /\ given \in 0..Total
      /\ \A k \in 1..(start_addr - Start) : flash[Start + k - 1] = k
      /\ \A j \in 1..Len(extra) : extra[j] = start_addr - Start + j
  BY <1>1 DEF WriterInv, StreamKept, TypeOK
<1>3. start_addr \in Nat /\ Start \in Nat /\ Len(extra) \in Nat
  BY DEF TypeOK
<1>4. \A k \in 1..given : flash'[Start + k - 1] = k
  <2>1. CASE extra = <<>>
    <3>1. flash' = flash /\ given = start_addr - Start
      BY <1>2, <1>3, <2>1 DEF WriteEnd
    <3>2. QED BY <1>2, <3>1
  <2>2. CASE extra # <<>>
    <3>1. Write(extra \o Pad, TRUE)
      BY <2>2, Zenon DEF WriteEnd
    <3>2. /\ extra \o Pad \in Seq(Blank..Total)
          /\ Length(extra \o Pad) = 4
          /\ \A i \in 1..Len(extra) : Buffer(extra \o Pad)[i] = extra[i]
      BY <2>2, EndBuffer
    <3>3. Len(extra) \in 0..Length(extra \o Pad)
      <4>1. \A n \in Nat : n < 4 => n \in 0..4
        OBVIOUS
      <4>2. Len(extra) \in 0..4
        BY ONLY TypeOK, <1>3, <4>1, Zenon DEF TypeOK
      <4>3. 4 = Length(extra \o Pad)
        BY ONLY <3>2, Zenon
      <4>4. QED BY ONLY <4>2, <4>3, Zenon
    <3>4. start_addr - Start + Len(extra) <= Total
      BY ONLY <1>2, BoundsAssumption
    <3>5. \A i \in 1..Len(extra) : Buffer(extra \o Pad)[i] = start_addr - Start + i
      BY ONLY <1>2, <3>2
    <3>6. \A k \in 1..(start_addr - Start + Len(extra)) : flash'[Start + k - 1] = k
      BY ONLY TypeOK, <1>2, <3>1, <3>2, <3>3, <3>4, <3>5, WriteExtends
    <3>7. QED BY ONLY <1>2, <3>6
  <2>3. QED BY <2>1, <2>2
<1>5. QED BY <1>1, <1>4 DEF WriterInv, StreamKept, StreamComplete

LEMMA WriterStep ==
  ASSUME TypeOK, WriterInv, [Next]_vars
  PROVE  WriterInv'
<1>0. Start \in Nat /\ Start \in Int /\ Sector(Start) \in Int
  <2>1. Start \in Nat /\ Start \in Int
    OBVIOUS
  <2>2. QED BY ONLY <2>1, SectorFacts
<1>1. CASE WriteInit
  <2>1. /\ start_addr' = Start /\ last_sector_erased' = Sector(Start) - 1
        /\ extra' = <<>> /\ given' = 0 /\ phase' = "open"
    BY <1>1 DEF WriteInit
  <2>2. Position'
    BY <1>0, <2>1 DEF Position
  <2>3. BlankAhead'
    <3>1. ASSUME NEW a \in Addresses, a >= Start, Sector(a) <= Sector(Start) - 1 PROVE FALSE
      <4>1. a \in Int
        BY StreamInAddresses
      <4>2. Sector(Start) <= Sector(a) /\ Sector(a) \in Int
        BY ONLY <1>0, <3>1, <4>1, SectorFacts
      <4>3. QED BY ONLY <1>0, <3>1, <4>2
    <3>2. QED BY <2>1, <3>1 DEF BlankAhead
  <2>4. StreamKept'
    BY <1>0, <2>1 DEF StreamKept
  <2>5. QED BY <2>1, <2>2, <2>3, <2>4 DEF WriterInv, StreamComplete
<1>2. ASSUME NEW n \in 1..MaxChunk, WriteFlash(n) PROVE WriterInv'
  BY <1>2, ChunkStep
<1>3. CASE WriteEnd
  BY <1>3, EndStep
<1>4. CASE WriteFails
  BY <1>4 DEF WriteFails, WriterInv, StreamKept, StreamComplete
<1>5. CASE ResetInErase
  BY <1>5 DEF ResetInErase, WriterInv, StreamKept, StreamComplete
<1>6. CASE UNCHANGED vars
  BY <1>6 DEF vars, WriterInv, StreamKept, StreamComplete, Position, BlankAhead
<1>7. QED BY <1>1, <1>2, <1>3, <1>4, <1>5, <1>6 DEF Next

LEMMA WriterInit == Init => WriterInv
<1>1. SUFFICES ASSUME Init PROVE WriterInv
  OBVIOUS
<1>2. /\ start_addr = Start /\ last_sector_erased = Sector(Start) - 1
      /\ extra = <<>> /\ given = 0 /\ phase = "open"
  BY <1>1 DEF Init, WriteInitStatus
<1>3. Start \in Int /\ Sector(Start) \in Int
  <2>1. Start \in Int
    OBVIOUS
  <2>2. QED BY ONLY <2>1, SectorFacts
<1>4. Position /\ StreamKept /\ StreamComplete
  BY <1>2, <1>3 DEF Position, StreamKept, StreamComplete
<1>5. BlankAhead
  <2>1. ASSUME NEW a \in Addresses, a >= Start, Sector(a) <= Sector(Start) - 1 PROVE FALSE
    <3>1. a \in Int
      BY StreamInAddresses
    <3>2. Sector(Start) <= Sector(a) /\ Sector(a) \in Int
      BY ONLY <1>3, <2>1, <3>1, SectorFacts
    <3>3. QED BY ONLY <1>3, <2>1, <3>2
  <2>2. QED BY <1>2, <2>1 DEF BlankAhead
<1>6. QED BY <1>4, <1>5 DEF WriterInv

\* The inductive invariant holds of every run of the writer.
THEOREM WriterInvariant == Spec => [](TypeOK /\ WriterInv)
<1>1. Init => TypeOK /\ WriterInv
  BY SectorFacts, WriterInit DEF Init, WriteInitStatus, TypeOK, Blank, Other
<1>2. TypeOK /\ WriterInv /\ [Next]_vars => (TypeOK /\ WriterInv)'
  BY TypeStep, WriterStep
<1>3. QED BY <1>1, <1>2, PTL DEF Spec

\* Whatever the start address, the sectors and the cut into chunks, what was given
\* so far is in flash in order, but for less than a word that is held back.
THEOREM StreamIsKept == Spec => []StreamKept
<1>1. TypeOK /\ WriterInv => StreamKept
  BY DEF WriterInv
<1>2. QED BY <1>1, WriterInvariant, PTL

\* After rboot_write_end every byte given is in flash: the buffer that holds the
\* left-over bytes twice still begins with them.
THEOREM StreamIsComplete == Spec => []StreamComplete
<1>1. TypeOK /\ WriterInv => StreamComplete
  BY DEF WriterInv
<1>2. QED BY <1>1, WriterInvariant, PTL

\* No call that succeeds changes flash behind the last sector that the stream reaches.
THEOREM OthersUntouched == Spec => StaysInSectors
<1> DEFINE Stays == \A a \in Addresses :
                      flash'[a] # flash[a] /\ phase' # "failed" =>
                        Sector(a) \in Sector(Start)..Sector(Start + given' - 1)
<1>1. ASSUME TypeOK, WriterInv, [Next]_vars PROVE Stays \/ UNCHANGED vars
  <2>1. SUFFICES ASSUME NEW a \in Addresses, flash'[a] # flash[a], phase' # "failed"
                 PROVE  Sector(a) \in Sector(Start)..Sector(Start + given' - 1)
    OBVIOUS
  <2>2. a \in Int /\ Start \in Int /\ start_addr \in Nat /\ Len(extra) \in Nat
    BY <1>1, StreamInAddresses DEF TypeOK
  <2>3. Sector(a) \in Int /\ Sector(Start) \in Int
    BY ONLY <2>2, SectorFacts
  <2>4. ASSUME NEW n \in 1..MaxChunk, WriteFlash(n)
        PROVE  Sector(a) \in Sector(Start)..Sector(Start + given' - 1)
    <3>1. phase = "open" /\ given + n <= Total /\ Write(Chunk(n), TRUE) /\ given' = given + n
      BY <2>4, Zenon DEF WriteFlash
    <3>2. StreamKept /\ Position /\ n \in Nat /\ given = start_addr - Start + Len(extra)
      BY <1>1, <3>1 DEF WriterInv, StreamKept
    <3>3. Chunk(n) \in Seq(Blank..Total) /\ Len(Buffer(Chunk(n))) = Len(extra) + n
      BY ONLY <1>1, <3>1, <3>2, ChunkBuffer
    <3>4. Sector(Start) <= Sector(a) /\ Sector(a) <= LastOf(Chunk(n))
      BY ONLY <1>1, <2>1, <3>1, <3>2, <3>3, WriteChanges
    <3>5. Length(Chunk(n)) \in Nat /\ Length(Chunk(n)) <= Len(extra) + n
      BY ONLY <2>2, <3>2, <3>3, WordFacts DEF Length
    <3>6. /\ start_addr + Length(Chunk(n)) - 1 \in Int /\ Start + given' - 1 \in Int
          /\ start_addr + Length(Chunk(n)) - 1 <= Start + given' - 1
      BY ONLY <2>2, <3>1, <3>2, <3>5
    <3>7. /\ Sector(start_addr + Length(Chunk(n)) - 1) <= Sector(Start + given' - 1)
          /\ Sector(start_addr + Length(Chunk(n)) - 1) \in Int /\ Sector(Start + given' - 1) \in Int
      BY ONLY <3>6, SectorFacts
    <3>8. QED BY ONLY <2>3, <3>4, <3>7 DEF LastOf, LastSector
  <2>5. CASE WriteEnd
    <3>1. extra # <<>> /\ Write(extra \o Pad, TRUE) /\ phase = "open" /\ given' = given
      BY <2>1, <2>5, Zenon DEF WriteEnd
    <3>2. StreamKept /\ Position /\ given = start_addr - Start + Len(extra) /\ start_addr % 4 = 0
      BY <1>1, <3>1 DEF WriterInv, StreamKept, Position
    <3>3. extra \o Pad \in Seq(Blank..Total) /\ Length(extra \o Pad) = 4 /\ 0 < Len(extra)
      BY ONLY <1>1, <3>1, EndBuffer
    <3>4. Sector(Start) <= Sector(a) /\ Sector(a) <= LastOf(extra \o Pad)
      BY ONLY <1>1, <2>1, <3>1, <3>2, <3>3, WriteChanges
    <3>5. start_addr + Length(extra \o Pad) - 1 = start_addr + 3
      BY ONLY <2>2, <3>3
    <3>6. /\ start_addr \in Int /\ Start + given' - 1 \in Int
          /\ start_addr <= Start + given' - 1
      BY ONLY <2>2, <3>1, <3>2, <3>3
    <3>7. Sector(start_addr + 3) = Sector(start_addr)
      BY ONLY <2>2, <3>2, SectorFacts
    <3>8. /\ Sector(start_addr) <= Sector(Start + given' - 1)
          /\ Sector(start_addr) \in Int /\ Sector(Start + given' - 1) \in Int
      BY ONLY <3>6, SectorFacts
    <3>9. QED BY ONLY <2>3, <3>4, <3>5, <3>7, <3>8 DEF LastOf, LastSector
  <2>6. CASE WriteInit \/ WriteFails \/ ResetInErase \/ UNCHANGED vars
    BY <2>1, <2>6 DEF WriteInit, WriteFails, ResetInErase, vars
  <2>7. QED BY <1>1, <2>4, <2>5, <2>6 DEF Next
<1>2. TypeOK /\ WriterInv /\ [Next]_vars => [Stays]_vars
  BY <1>1
<1>3. QED BY <1>2, WriterInvariant, PTL DEF Spec, StaysInSectors
=============================================================================
