--------------------------- MODULE InfraredShare ---------------------------
(***************************************************************************)
(* Sharing a channel between two badges (default-rom.ino, loop): one sends   *)
(* "host CR url CR fingerprint NL" over and over, four characters to an NEC  *)
(* code, each pass followed by a code with the sum of its characters; the    *)
(* other collects codes until one holds a newline, compares the next one     *)
(* with its own sum, and offers the channel to its user.                     *)
(*                                                                         *)
(* A character is a number, and the sum is one modulo Modulus.  On the badge *)
(* that is 256, where texts of different characters may have the same sum;  *)
(* an instance may give the characters weights that keep the sums apart.    *)
(***************************************************************************)
EXTENDS Integers, Sequences, FiniteSets, SequencesExt

CONSTANTS
  Channels,   \* channels the sender's user may share: [host, url, fingerprint]
  NL, CR,     \* the characters that end a string and a field
  Marker,     \* buf[0] of the code with the checksum
  Modulus,    \* the values of the sum
  Foreign,    \* codes that come from elsewhere
  MaxFaults   \* bound: codes missed, noise, sharing cancelled

Char      == 0..(Modulus - 1)
Character == 1..(Modulus - 1)

ASSUME ModulusAssumption   == Modulus \in Nat \ {0}
ASSUME CharacterAssumption == {NL, CR, Marker} \subseteq Character /\ NL # CR
ASSUME FaultsAssumption    == MaxFaults \in Nat
ASSUME ForeignAssumption   == Foreign \subseteq [1..4 -> Char]

Text == {s \in Seq(Character) : {NL, CR} \cap Range(s) = {}}

ASSUME ChannelsAssumption ==
  Channels \subseteq [host : Text, url : Text, fingerprint : Text]

NoCode   == <<>>
Overflow == <<-1>>   \* a signal longer than the receiver's buffer

VARIABLES
  \* the sender
  shareString,     \* <<>>: not sharing
  outbox,          \* the codes left of this pass
  \* the receiver
  pc,              \* "loop", "receive", or "input" after a code was taken
  receiveShare,
  captured,        \* what the infrared library holds until resume()
  received, checksumRec, stringCompleted, dataCompleted, dataVerified,
  offered,         \* history: the channels offered to the user
  faults

sender   == <<shareString, outbox>>
frame    == <<received, checksumRec, stringCompleted, dataCompleted, dataVerified>>
receiver == <<pc, receiveShare, frame, offered>>
vars     == <<sender, receiver, captured, faults>>

Init ==
  /\ shareString = <<>> /\ outbox = <<>>
  /\ pc = "loop" /\ receiveShare = FALSE /\ captured = NoCode
  /\ received = <<>> /\ checksumRec = 0
  /\ stringCompleted = FALSE /\ dataCompleted = FALSE /\ dataVerified = FALSE
  /\ offered = {}
  /\ faults = 0

-----------------------------------------------------------------------------
(* The sender. *)

ShareString(c) == c.host \o <<CR>> \o c.url \o <<CR>> \o c.fingerprint \o <<NL>>

CharSum(s) ==
  LET Sum[k \in 0..Len(s)] == IF k = 0 THEN 0 ELSE (Sum[k - 1] + s[k]) % Modulus
  IN  Sum[Len(s)]

Code(chars) == [i \in 1..4 |-> IF i <= Len(chars) THEN chars[i] ELSE 0]

Chars(s, k) == SubSeq(s, 4 * k - 3, IF 4 * k < Len(s) THEN 4 * k ELSE Len(s))

ChecksumCode(s) == <<Marker, CharSum(s), 0, 0>>

Codes(s) == [k \in 1..((Len(s) + 3) \div 4) |-> Code(Chars(s, k))]

\* The share menu; a channel that came over infrared can be shared on.
Share ==
  /\ shareString = <<>> /\ outbox = <<>>
  /\ \E c \in Channels \cup offered : shareString' = ShareString(c)
  /\ UNCHANGED <<outbox, receiver, captured, faults>>

\* A pass of loop() starts.
StartPass ==
  /\ shareString # <<>> /\ outbox = <<>>
  /\ outbox' = Append(Codes(shareString), ChecksumCode(shareString))
  /\ UNCHANGED <<shareString, receiver, captured, faults>>

\* The codes of this pass that are out.
Sent == Len(Codes(shareString)) + 1 - Len(outbox)

\* The share screen is closed: between two passes, or by dispatchInput before a
\* character, when j characters of the next code are ready.  These are sent, and
\* the sum of what was sent.
CancelSharing ==
  /\ shareString # <<>> /\ faults < MaxFaults
  /\ \/ outbox = <<>> /\ UNCHANGED outbox
     \/ /\ Len(outbox) > 1
        /\ \E j \in 0..(Len(Chars(shareString, Sent + 1)) - 1) :
             LET begun == SubSeq(shareString, 1, 4 * Sent + j)
             IN  outbox' = (IF j = 0 THEN <<>> ELSE <<Code(SubSeq(begun, 4 * Sent + 1, 4 * Sent + j))>>)
                             \o <<ChecksumCode(begun)>>
  /\ shareString' = <<>>
  /\ faults' = faults + 1
  /\ UNCHANGED <<receiver, captured>>

\* A reset of the sender, or its battery: no checksum follows.
ResetSender ==
  /\ shareString # <<>> /\ faults < MaxFaults
  /\ shareString' = <<>> /\ outbox' = <<>>
  /\ faults' = faults + 1
  /\ UNCHANGED <<receiver, captured>>

\* The receiver is powered (IR_EN) and the library waits for a code.
Listening == pc \in {"receive", "input"} /\ captured = NoCode

\* sendNEC: captured by who listens.  A receiver that is busy misses the code,
\* which is a fault; one that is off, or stuck, does not count.
SendNEC ==
  /\ outbox # <<>>
  /\ outbox' = Tail(outbox)
  /\ \/ Listening /\ captured' = Head(outbox) /\ UNCHANGED faults
     \/ ~Listening /\ (~receiveShare \/ captured = Overflow) /\ UNCHANGED <<captured, faults>>
     \/ /\ receiveShare /\ captured # Overflow /\ faults < MaxFaults
        /\ faults' = faults + 1
        /\ UNCHANGED captured
  /\ UNCHANGED <<shareString, receiver>>

-----------------------------------------------------------------------------
(* The receiver. *)

\* "Receive Channel" is chosen.
StartReceiving ==
  /\ pc = "loop" /\ ~receiveShare
  /\ receiveShare' = TRUE
  /\ UNCHANGED <<pc, frame, offered, captured, sender, faults>>

\* The receive screen is closed from loop().
CancelOutside ==
  /\ pc = "loop" /\ receiveShare
  /\ receiveShare' = FALSE
  /\ UNCHANGED <<pc, frame, offered, captured, sender, faults>>

\* The locals of the receiving part, as they are declared.
FreshFrame ==
  /\ received' = <<>> /\ checksumRec' = 0
  /\ stringCompleted' = FALSE /\ dataCompleted' = FALSE /\ dataVerified' = FALSE

\* loop() reaches the receiving part.
EnterReceive ==
  /\ pc = "loop" /\ receiveShare
  /\ pc' = "receive"
  /\ UNCHANGED <<frame, receiveShare, offered, captured, sender, faults>>

\* A code of somebody else, or a signal that does not fit the library's buffer.
Noise ==
  /\ Listening /\ faults < MaxFaults
  /\ captured' \in Foreign \cup {Overflow}
  /\ faults' = faults + 1
  /\ UNCHANGED <<receiver, sender>>

\* It ends loop() at once: nothing is resumed.
DecodeOverflow ==
  /\ pc = "receive" /\ captured = Overflow
  /\ pc' = "loop"
  /\ FreshFrame
  /\ UNCHANGED <<receiveShare, offered, captured, sender, faults>>

HasNewline(code) == NL \in {code[i] : i \in 1..4}

\* The characters of a code as a String: String(0) is empty, a zero behind it counts.
\* (What follows a zero is not copied, and is never read.)
Taken(code) == IF code[1] = 0 THEN Tail(code) ELSE code

\* A code, before the newline.
DecodeText_SumsLate ==
  /\ pc = "receive" /\ captured \notin {NoCode, Overflow} /\ ~stringCompleted
  /\ received' = received \o Taken(captured)
  /\ checksumRec' = IF HasNewline(captured) THEN checksumRec
                    ELSE (checksumRec + CharSum(captured)) % Modulus
  /\ stringCompleted' = HasNewline(captured)
  /\ captured' = NoCode
  /\ pc' = "input"
  /\ UNCHANGED <<dataCompleted, dataVerified, receiveShare, offered, sender, faults>>
DecodeText ==
  /\ pc = "receive" /\ captured \notin {NoCode, Overflow} /\ ~stringCompleted
  /\ received' = received \o Taken(captured)
  /\ checksumRec' = (checksumRec + CharSum(captured)) % Modulus
  /\ stringCompleted' = HasNewline(captured)
  /\ captured' = NoCode
  /\ pc' = "input"
  /\ UNCHANGED <<dataCompleted, dataVerified, receiveShare, offered, sender, faults>>

Verified_Always(code) == TRUE
Verified(code) == code[2] = checksumRec

\* The code after it.
DecodeChecksum ==
  /\ pc = "receive" /\ captured \notin {NoCode, Overflow} /\ stringCompleted
  /\ dataCompleted' = TRUE
  /\ dataVerified' = Verified(captured)
  /\ captured' = NoCode
  /\ pc' = "input"
  /\ UNCHANGED <<received, checksumRec, stringCompleted, receiveShare, offered, sender, faults>>

\* What indexOf and substring see of a text: all before the first zero.
CString(s) == SubSeq(s, 1, (CHOOSE i \in 1..(Len(s) + 1) :
                              /\ i = Len(s) + 1 \/ s[i] = 0
                              /\ \A j \in 1..(i - 1) : s[j] # 0) - 1)

\* The first char from an index on; indices begin at 0, and none is -1.
IndexOf(s, char, from) ==
  LET at == {i \in from..(Len(CString(s)) - 1) : s[i + 1] = char}
  IN  IF at = {} THEN -1 ELSE CHOOSE i \in at : \A j \in at : i <= j

\* Its ends come in either order, and as a size_t -1 is behind every text.
Substring(s, left, right) ==
  LET end == IF right = -1 THEN Len(s) ELSE right
  IN  CString(IF left <= end THEN SubSeq(s, left + 1, end) ELSE SubSeq(s, end + 1, left))

\* The fields end at the first two CR; the last character of the text is cut off,
\* which is the newline only if the text filled its last code.
Split(s) ==
  LET firstCR  == IndexOf(s, CR, 0)
      secondCR == IndexOf(s, CR, firstCR + 1)
  IN  [host        |-> Substring(s, 0, firstCR),
       url         |-> Substring(s, firstCR + 1, secondCR),
       fingerprint |-> Substring(s, secondCR + 1, Len(s) - 1)]

\* dispatchInput, where the user may cancel, then the end of the loop's turn.
DispatchInput_Stays(cancel) ==
  /\ pc = "input" \/ (pc = "receive" /\ cancel)
  /\ receiveShare' = (receiveShare /\ ~cancel /\ ~dataVerified)
  /\ offered' = IF dataVerified THEN offered \cup {Split(received)} ELSE offered
  /\ IF cancel THEN pc' = "loop" /\ FreshFrame ELSE pc' = "receive" /\ UNCHANGED frame
  /\ UNCHANGED <<captured, sender, faults>>
DispatchInput(cancel) ==
  /\ pc = "input" \/ (pc = "receive" /\ cancel)
  /\ receiveShare' = (receiveShare /\ ~cancel /\ ~dataVerified)
  /\ offered' = IF dataVerified THEN offered \cup {Split(received)} ELSE offered
  /\ IF cancel \/ dataCompleted
     THEN pc' = "loop" /\ FreshFrame
     ELSE pc' = "receive" /\ UNCHANGED frame
  /\ UNCHANGED <<captured, sender, faults>>

\* Only a reset gets the library going again after an overflow.
ResetReceiver ==
  /\ pc' = "loop" /\ receiveShare' = FALSE /\ captured' = NoCode
  /\ FreshFrame
  /\ UNCHANGED <<offered, sender, faults>>

SenderNext == StartPass \/ SendNEC
ReceiverNext ==
  \/ EnterReceive \/ DecodeOverflow \/ DecodeText \/ DecodeChecksum
  \/ DispatchInput(FALSE)
UserNext ==
  \/ Share \/ CancelSharing \/ ResetSender
  \/ StartReceiving \/ CancelOutside \/ DispatchInput(TRUE)
  \/ ResetReceiver

Next == SenderNext \/ ReceiverNext \/ UserNext \/ Noise

Spec == Init /\ [][Next]_vars

\* Both badges run their loop(); their users are free.
FairSpec == Spec /\ WF_vars(SenderNext) /\ WF_vars(ReceiverNext)
-----------------------------------------------------------------------------
(* Properties. *)

\* The types, and: a code holds four characters or is an overflow, the sum is that
\* of the text received, and no field of a channel offered has a zero in it.
TypeOK ==
  /\ pc \in {"loop", "receive", "input"}
  /\ {receiveShare, stringCompleted, dataCompleted, dataVerified} \subseteq BOOLEAN
  /\ captured \in {NoCode, Overflow} \cup [1..4 -> Char]
  /\ outbox \in Seq([1..4 -> Char])
  /\ received \in Seq(Char)
  /\ checksumRec = CharSum(received)
  /\ shareString \in Seq(Character)
  /\ offered \subseteq [host : Seq(Character), url : Seq(Character), fingerprint : Seq(Character)]
  /\ faults \in 0..MaxFaults

WithNewlines(c, n) == [c EXCEPT !.fingerprint = @ \o [i \in 1..n |-> NL]]

\* How often a character occurs in the text of a channel.
Occurrences(c, char) ==
  Cardinality({i \in DOMAIN ShareString(c) : ShareString(c)[i] = char})

SameCharacters(c, d) ==
  \A char \in Range(ShareString(c)) \cup Range(ShareString(d)) :
    Occurrences(c, char) = Occurrences(d, char)

\* What is offered to the user is a channel somebody shared, but for a newline more
\* at the end of its fingerprint, if no code was missed while the receiver listened,
\* wherever it started and whatever was left over from an earlier attempt.  After
\* a fault the sum still vouches for the characters, but not for their order.
\* (As far as the sum tells the characters of two texts apart.)
AcceptedWasSent ==
  [][\A c \in offered' \ offered : \E d \in Channels \cup offered, n \in 0..1 :
       /\ faults = 0 => c = WithNewlines(d, n)
       /\ SameCharacters(c, WithNewlines(d, n))]_vars

\* The first n codes of a text, put together again: its characters, and zeros behind them.
Padded(s, n) == [i \in 1..(4 * n) |-> IF i <= Len(s) THEN s[i] ELSE 0]

\* A receiver that has listened to its sender since before the pass began: it holds what
\* n codes bring, waits for the next code or has it, or it has the sum as well.
InStep(c) ==
  LET s       == ShareString(c)
      all     == Len(Codes(s))
      pass    == Append(Codes(s), ChecksumCode(s))
      Rest(n) == SubSeq(pass, n + 1, all + 1)
  IN  /\ shareString = s /\ receiveShare
      /\ \/ /\ pc \in {"receive", "input"} /\ ~dataCompleted /\ ~dataVerified
            /\ \E n \in 0..all :
                 /\ received = Padded(s, n) /\ stringCompleted = (n = all)
                 /\ \/ captured = NoCode /\ (outbox = Rest(n) \/ (n = 0 /\ outbox = <<>>))
                    \/ captured = pass[n + 1] /\ (outbox = Rest(n + 1) \/ n = all)
         \/ /\ pc = "input" /\ dataCompleted /\ dataVerified /\ stringCompleted
            /\ received = Padded(s, all)

\* Such a receiver stays in step, whatever is in the texts, and at the end of the pass
\* it offers the channel, and nothing else: exact but for the last newline, that stays
\* at the fingerprint unless it filled its code.  Only its user stops it, or a fault.
InStepIsExact ==
  [][\A c \in Channels : InStep(c) /\ faults' = faults /\ ~ResetReceiver =>
       \/ InStep(c)' /\ UNCHANGED offered
       \/ /\ pc' = "loop"
          /\ offered' = IF ~dataCompleted THEN offered
                        ELSE offered \cup {WithNewlines(c, IF Len(ShareString(c)) % 4 = 0 THEN 0 ELSE 1)}]_vars

\* A receiver that starts anywhere in a pass gets a channel in the end, or its
\* user gives up, if from some time on a badge goes on sharing, no code is missed
\* (the faults are bounded) and the library was not stopped by an overflow.
EventuallyOffered ==
  <>[](shareString # <<>> /\ captured # Overflow) => (receiveShare ~> ~receiveShare)
=============================================================================
