---------------------------- MODULE MCChecksum -----------------------------
(***************************************************************************)
(* Messages for the run of Checksum.                                       *)
(***************************************************************************)
EXTENDS Checksum

\* Every length parity, and sums that are 0, small, or just around one and
\* two multiples of 0xFFFF: two values alternate, a third stands somewhere
\* but in the length and the field.
Patterned(n, odd, even, one, at) ==
  [i \in 1..n |->
     CASE i = 2 -> n % 256
       [] i = 3 -> n \div 256
       [] i \in {ChecksumAt, ChecksumAt + 1} -> 0
       [] i = at -> one
       [] OTHER -> IF i % 2 = 1 THEN odd ELSE even]

\* The words add up to 0x1FFFE or 0x1FFFF, the length included: the first
\* fold of the latter carries.
Carrying(n, first) ==
  [Patterned(n, 0, 0, first, 1) EXCEPT ![4] = 255, ![6] = 256 - n]

PatternedMessages ==
  {Patterned(n, odd, even, one, at) :
     n \in {13, 14, 17}, odd \in {0, 255}, even \in {0, 255},
     one \in {0, 1, 254, 255}, at \in {1, 10, 14, 17}}
  \cup {Carrying(n, first) : n \in {13, 14, 17}, first \in {254, 255}}

\* Nothing, or bytes that follow on the connection: the first two of them
\* make up for a length of 13 that has become 15.
FollowingBytes == {<<>>, <<253, 255, 0>>}
=============================================================================
