----------------------------- MODULE MCPyramid -----------------------------
(* Pyramids halved with the odd pixel dropped or kept, or reduced by 3 and  *)
(* 4, one with two levels of one factor, tiles that do not divide the       *)
(* image, a wavelet ladder, a resident image, and the masters that are      *)
(* refused.                                                                 *)
EXTENDS Pyramid

Ifd(w, h, tw, th) == [w |-> w, h |-> h, tw |-> tw, th |-> th, tiled |-> TRUE]

Dropped == [kind |-> "tiff", ifds |-> <<Ifd(7, 5, 2, 2), Ifd(3, 2, 2, 2), Ifd(1, 1, 2, 2)>>]
Kept == [kind |-> "tiff", ifds |-> <<Ifd(5, 7, 2, 3), Ifd(3, 4, 2, 3), Ifd(2, 2, 2, 3)>>]
Even == [kind |-> "tiff", ifds |-> <<Ifd(8, 4, 2, 2), Ifd(4, 2, 2, 2), Ifd(2, 1, 2, 2)>>]
Wavelet == [kind |-> "jp2", ifds |-> <<Ifd(7, 5, 4, 4), Ifd(4, 3, 4, 4), Ifd(2, 2, 4, 4)>>]

Thirds == [kind |-> "tiff", ifds |-> <<Ifd(9, 6, 2, 2), Ifd(3, 2, 2, 2)>>]
Fourths == [kind |-> "tiff", ifds |-> <<Ifd(8, 8, 2, 2), Ifd(2, 2, 2, 2)>>]

Close == [kind |-> "tiff", ifds |-> <<Ifd(8, 6, 2, 2), Ifd(5, 4, 2, 2), Ifd(4, 3, 2, 2)>>]

Photo == [kind |-> "simple", ifds |-> <<Ifd(4, 3, 1, 1)>>]
Huge == [kind |-> "simple", ifds |-> <<Ifd(7, 7, 1, 1)>>]

Pages == [kind |-> "tiff", ifds |-> <<Ifd(4, 4, 2, 2), Ifd(4, 4, 2, 2)>>]
Strips == [kind |-> "tiff", ifds |-> <<[Ifd(4, 4, 4, 1) EXCEPT !.tiled = FALSE]>>]

MCMasters == {Dropped, Kept, Even, Close, Thirds, Fourths, Wavelet, Photo, Huge, Pages, Strips}

(* A tall, narrow master as vips halves it.                                *)
Tall == [kind |-> "tiff", ifds |-> <<Ifd(5, 9, 4, 4), Ifd(2, 4, 4, 4)>>]

MCThinMasters == {Tall}
=============================================================================
