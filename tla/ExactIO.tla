------------------------------- MODULE ExactIO -------------------------------
(***************************************************************************)
(* What ReadExact and WriteExact of TcpStream promise their callers, with  *)
(* no pieces: bytes are offered in order, and a read hands over exactly    *)
(* the next n of them, or fails once and for all.  ProtoClient reads its   *)
(* frames in this way, in one step.                                        *)
(***************************************************************************)
EXTENDS Naturals

CONSTANT Lengths     \* what a caller may ask for

VARIABLES offered,   \* bytes that have been written
          got,       \* bytes that reads have handed over
          failed     \* a read has thrown

vars == <<offered, got, failed>>

Init == offered = 0 /\ got = 0 /\ failed = FALSE

Write ==
  /\ offered' \in Nat /\ offered' > offered
  /\ UNCHANGED <<got, failed>>

Read ==
  /\ ~failed
  /\ \E n \in Lengths : got' = got + n
  /\ got' <= offered
  /\ UNCHANGED <<offered, failed>>

Fail ==
  /\ failed' = TRUE
  /\ UNCHANGED <<offered, got>>

Next == Write \/ Read \/ Fail

Spec == Init /\ [][Next]_vars
=============================================================================
