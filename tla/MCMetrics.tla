----------------------------- MODULE MCMetrics -----------------------------
(* A quick info.json and a shed, slow image; one bound between the two, two *)
(* units to a second.                                                       *)
EXTENDS Metrics, TLC

MCBounds == [le |-> 1]

MCOutcomes == {[family |-> "info", status |-> 200, elapsed |-> 1],
               [family |-> "image", status |-> 503, elapsed |-> 2]}

SlotSymmetry == Permutations(Requests)
=============================================================================
