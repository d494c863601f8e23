--------------------------- MODULE MCDecodePool ----------------------------
(* Finite instances of DecodePool for TLC.                                 *)
EXTENDS DecodePool

(* The slots are interchangeable: nothing in DecodePool names one.         *)
SlotSymmetry == Permutations(Requests)
=============================================================================
