------------------------------- MODULE MCEval ------------------------------
(* Small images, limits below and above them, and every form of region and *)
(* size over a few numbers.                                                *)
EXTENDS Eval

MCImages == [w : {1, 3, 10}, h : {1, 4, 10}]

MCLimits == {[w |-> 20, h |-> 20, area |-> 400],   \* above every image
             [w |-> 7, h |-> 4, area |-> 100],     \* the sides bind
             [w |-> 20, h |-> 20, area |-> 9],     \* the area binds
             [w |-> 20, h |-> 20, area |-> 2]}     \* thinner images overflow it

MCRegions ==
  {[kind |-> "full"], [kind |-> "square"]}
    \cup [kind : {"pixels"}, x : {0, 2}, y : {0, 3}, w : {1, 5}, h : {3, 20}]
    \cup [kind : {"percent"}, x : {0, 2500}, y : {0, 5000, 9500}, w : {500, 6000}, h : {1250, 10000}]

MCSizes ==
  [kind : {"max"}, up : BOOLEAN]
    \cup [kind : {"width"}, up : BOOLEAN, w : {1, 2, 4, 12}]
    \cup [kind : {"height"}, up : BOOLEAN, h : {1, 3, 5}]
    \cup [kind : {"percent"}, up : {FALSE}, pct : {1000, 5000, 7500, 10000}]
    \cup [kind : {"percent"}, up : {TRUE}, pct : {3000, 15000}]
    \cup [kind : {"exact", "confined"}, up : BOOLEAN, w : {1, 3, 6}, h : {2, 5}]

MCSlips == SUBSET {"w", "h"}

MCNoSlip == {{}}
=============================================================================
