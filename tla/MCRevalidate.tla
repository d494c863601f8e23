--------------------------- MODULE MCRevalidate ----------------------------
(* Two contents of one length and one of another: the ETag must tell all   *)
(* three apart as far as the version does.                                 *)
EXTENDS Revalidate, TLC

CONSTANTS A, B, C

MCSizeOf == [c \in Contents |-> IF c = C THEN 2 ELSE 1]

(* The two contents of one length are as good as each other.               *)
Symmetry == Permutations(Requests) \cup Permutations({A, B})
=============================================================================
