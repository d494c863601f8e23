----------------------------- MODULE MCRaster ------------------------------
(* Every size up to 3 by 3, each sample of a value of its own, and one      *)
(* row of black, white and the two greys about the bitonal threshold.       *)
EXTENDS Raster

Numbered(layout, w, h, channels) ==
  [layout |-> layout, width |-> w, height |-> h,
   data |-> [i \in Buffer(w * h * channels) |-> 250 - 9 * i]]

MCResized ==
  {Numbered("gray", w, h, 1) : w \in 1..3, h \in 1..3}
    \cup {Numbered("rgb", w, h, 3) : w \in 1..3, h \in 1..3}
    \cup {[layout |-> "gray", width |-> 2, height |-> 2, data |-> d] :
            d \in [0..3 -> {0, 127, 128, 255}]}

(* The angle of 3, 4 and 5 in each quadrant, and a small one.               *)
MCTilts == {[cos |-> 4, sin |-> 3, hyp |-> 5], [cos |-> -3, sin |-> 4, hyp |-> 5],
            [cos |-> -4, sin |-> -3, hyp |-> 5], [cos |-> 5, sin |-> -12, hyp |-> 13]}
=============================================================================
