------------------------------ MODULE Checksum ------------------------------
(***************************************************************************)
(* Checksum (checksum.hpp): one function that computes the checksum of a   *)
(* message when the header's field holds 0, and verifies it when the field *)
(* holds one: it always replaces the field by the complement of the one's  *)
(* complement sum of the field and of the other bytes.                     *)
(*                                                                         *)
(* The behaviour is the life of a message: the sender computes, bytes are  *)
(* damaged on the way or not, the receiver reads as many bytes as the      *)
(* header it has got says and verifies those.  Bytes, words and the field  *)
(* have the widths of the code, words the order of a little-endian host;   *)
(* buffers are 1-based here, and as large as a message: what happens to    *)
(* the 1024 bytes of buf_ when MsgLen says more is not modelled.           *)
(***************************************************************************)
EXTENDS Naturals, Sequences, FiniteSets

CONSTANTS Messages,    \* bound: the messages sent, their fields zero
          Behind,      \* bound: what the connection holds after a message
          Noise,       \* bound: what a damaged byte may become
          MaxDamage    \* bound: damaged bytes per message

Byte == 0..255
W == 65536

EncodedLength == 13              \* MsgHeader::EncodedLength
ChecksumAt == 12                 \* ChecksumEncodingOffset, 1-based
MaxLength == 65535               \* MsgLen is a uint16_t

\* MsgHeader::MsgLen(): a little-endian uint16_t after the type.
MsgLen(b) == b[2] + 256 * b[3]

ASSUME ChecksumAssumption ==
  /\ \A m \in Messages :
       /\ m \in Seq(Byte) /\ Len(m) \in EncodedLength..MaxLength
       /\ m[ChecksumAt] = 0 /\ m[ChecksumAt + 1] = 0
       /\ MsgLen(m) = Len(m)
  /\ Behind \subseteq Seq(Byte)
  /\ Noise \subseteq Byte
  /\ MaxDamage \in Nat

VARIABLES buf,         \* the message in the buffer of whoever has it
          stage,       \* what has been done with it
          sent,        \* history: the message as it was sent
          received     \* history: the bytes the receiver took for it

vars == <<buf, stage, sent, received>>

-----------------------------------------------------------------------------
(***************************************************************************)
(* The function                                                            *)
(***************************************************************************)

\* MsgHeader::Checksum(), both of them: a little-endian uint16_t.
Field(b) == b[ChecksumAt] + 256 * b[ChecksumAt + 1]

SetField(b, val) ==
  [b EXCEPT ![ChecksumAt] = val % 256, ![ChecksumAt + 1] = val \div 256]

\* sum += s[n], one after the other.
Sum(s) ==
  LET sum[n \in 0..Len(s)] == IF n = 0 THEN 0 ELSE sum[n - 1] + s[n]
  IN  sum[Len(s)]

\* What the loop adds, and the last byte of a message of odd length; the
\* cast to uint16_t* makes the words those of the host, little-endian here.
Words(b) ==
  [n \in 1..((Len(b) + 1) \div 2) |->
     IF 2 * n <= Len(b) THEN b[2 * n - 1] + 256 * b[2 * n] ELSE b[2 * n - 1]]

WordSum(b) == Sum(Words(b))

\* (sum >> 16) + (sum & 0xFFFF)
Fold(sum) == (sum \div W) + (sum % W)

\* Mutant: the complement has more bits than the field.
ComplementWide(sum) == (16 * W - 1) - sum

\* uint16_t(~sum)
Complement(sum) == (W - 1) - (sum % W)

Folded(sum) == Complement(Fold(Fold(sum)))

\* Mutants: one fold; the field summed twice; no last byte.
ChecksumFoldedOnce(b) ==
  SetField(b, Complement(Fold(Field(b) + WordSum(SetField(b, 0)))))

ChecksumFieldLeft(b) == SetField(b, Folded(Field(b) + WordSum(b)))

ChecksumNoLastByte(b) ==
  SetField(b, Folded(Field(b) + WordSum(SetField(SubSeq(b, 1, Len(b) - 1) \o
    (IF Len(b) % 2 = 1 THEN <<0>> ELSE <<b[Len(b)]>>), 0))))

Checksum(b) == SetField(b, Folded(Field(b) + WordSum(SetField(b, 0))))

-----------------------------------------------------------------------------
(***************************************************************************)
(* The life of a message                                                   *)
(***************************************************************************)
Init ==
  /\ buf \in Messages
  /\ stage = "composed"
  /\ sent = <<>> /\ received = <<>>

\* WriteExact follows in the code.
Compute ==
  /\ stage = "composed"
  /\ buf' = Checksum(buf)
  /\ sent' = buf'
  /\ stage' = "travelling"
  /\ UNCHANGED received

Damaged == {i \in DOMAIN sent : buf[i] # sent[i]}

Damage ==
  /\ stage = "travelling"
  /\ Cardinality(Damaged) < MaxDamage
  /\ \E i \in DOMAIN buf \ Damaged, v \in Noise :
       /\ v # buf[i]
       /\ buf' = [buf EXCEPT ![i] = v]
  /\ UNCHANGED <<stage, sent, received>>

\* ReadExact of the header, then of as many bytes as it says are missing,
\* whoever has sent them; only these are summed.
Verify ==
  /\ stage = "travelling"
  /\ \E rest \in Behind :
       /\ MsgLen(buf) \in EncodedLength..Len(buf \o rest)
       /\ received' = SubSeq(buf \o rest, 1, MsgLen(buf))
  /\ buf' = Checksum(received')
  /\ stage' = "verified"
  /\ UNCHANGED sent

\* "msg length smaller than header length", or the second ReadExact waits
\* in vain and throws.
Throw ==
  /\ stage = "travelling"
  /\ \E rest \in Behind : MsgLen(buf) \notin EncodedLength..Len(buf \o rest)
  /\ stage' = "thrown"
  /\ UNCHANGED <<buf, sent, received>>

Next == Compute \/ Damage \/ Verify \/ Throw

Spec == Init /\ [][Next]_vars

-----------------------------------------------------------------------------
(***************************************************************************)
(* Properties                                                              *)
(***************************************************************************)

\* Type invariant: what the function stores is a byte, at either position.
TypeOK ==
  /\ \A i \in DOMAIN buf : buf[i] \in Byte
  /\ Len(buf) >= EncodedLength
  /\ stage \in {"composed", "travelling", "verified", "thrown"}

Accepted == stage = "verified" /\ Field(buf) = 0

\* "If the checksum is valid and the verification succeeds, the header will
\* contain 0 in its checksum field": what has been sent is accepted when it
\* arrives as it is, whatever it holds and however long it is.
ComputedVerifies ==
  (stage = "verified" /\ received = sent) => Accepted

\* A message whose length has arrived as it was sent is never accepted with
\* one damaged byte, in the type, the timestamp, the body or the field
\* itself.  Damage to the length is another matter: it changes how many
\* bytes are read and summed, and the sum says nothing of bytes it leaves
\* out or of those of the next message it takes in.
OneByteCaught ==
  (/\ stage = "verified"
   /\ MsgLen(received) = MsgLen(sent)
   /\ Cardinality({i \in DOMAIN sent : received[i] # sent[i]}) = 1)
    => ~Accepted

\* The reference: each byte counts exactly once, with the weight of its
\* place in a word (in the field, of its place in the field), and a message
\* is accepted if and only if the total is a positive multiple of 0xFFFF.
Weight(i) == IF i < ChecksumAt \/ i > ChecksumAt + 1
               THEN IF i % 2 = 1 THEN 1 ELSE 256
               ELSE IF i = ChecksumAt THEN 1 ELSE 256

Total(b) == Sum([i \in 1..Len(b) |-> Weight(i) * b[i]])

AcceptedIffTotalIsFull ==
  stage = "verified" =>
    (Accepted <=> Total(received) > 0 /\ Total(received) % (W - 1) = 0)

\* Verifying loses nothing: the function computes, over a message it has
\* accepted, the checksum the message came with, except that 0xFFFF, which
\* no other sum than that of zeroes gives, may come back as 0.
AcceptedIsRestored ==
  Accepted =>
    \/ Checksum(buf) = received
    \/ Field(received) = W - 1 /\ Field(Checksum(buf)) = 0
=============================================================================
