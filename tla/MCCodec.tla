------------------------------ MODULE MCCodec ------------------------------
(***************************************************************************)
(* Codec with texts around the two field lengths, 32 and 64, and buffers   *)
(* that each some message fits in exactly, or by one byte does not.        *)
(***************************************************************************)
EXTENDS Codec

CONSTANTS Sizes        \* bound: the sizes of the texts

\* Neighbouring characters differ, and none is a NUL.
MCTexts == {[i \in 1..n |-> 97 + (i % 26)] : n \in Sizes}

\* One integer for each width, no two bytes of it the same.
MCInts == {<<89>>, <<205, 1>>, <<1, 2, 3, 4, 5, 6, 7, 8>>}
=============================================================================
