------------------------------- MODULE Raster ------------------------------
(***************************************************************************)
(* What pipeline.rs does to a decoded crop - quality, mirror, rotation,    *)
(* flattening for the encoder - on the flat sample buffers of image.rs.    *)
(*                                                                         *)
(* The resampler and the encoders are external: a behaviour starts with a  *)
(* raster of the output size and ends with the one an encoder is given.    *)
(* Angles are turns by rational sines and cosines and arithmetic is exact: *)
(* what f64 loses is left out.                                             *)
(***************************************************************************)
EXTENDS Integers, FiniteSetsExt

CONSTANTS Resized,   (* rasters the resampler may return, gray or rgb       *)
          Tilts,     (* angles that are no quarter turns: [cos, sin, hyp]   *)
          Qualities, (* among "default", "gray" and "bitonal"               *)
          Formats,   (* among "jpg", "png", "tif", "gif", "webp", "jp2", "pdf" *)
          MaxSide    (* the longest side of a jpg or a gif, u16::MAX        *)

ASSUME RasterAssumption ==
  /\ \A r \in Resized :
       /\ r = [layout |-> r.layout, width |-> r.width, height |-> r.height, data |-> r.data]
       /\ r.layout \in {"gray", "rgb"} /\ r.width \in Nat \ {0} /\ r.height \in Nat \ {0}
       /\ LET samples == IF r.layout = "gray" THEN 1 ELSE 3
          IN  r.data \in [0..(r.width * r.height * samples - 1) -> 0..255]
  /\ \A a \in Tilts : /\ a.cos * a.cos + a.sin * a.sin = a.hyp * a.hyp
                      /\ a.cos \in Int \ {0} /\ a.sin \in Int \ {0} /\ a.hyp \in Nat \ {0}
  /\ MaxSide \in Nat \ {0}

VARIABLES
  stage,     (* how far execute() has come                                  *)
  plan,      (* quality, mirror, rotation and format                        *)
  resized,   (* the raster as the resampler returned it                     *)
  upright,   (* the raster before it is turned                              *)
  turned,    (* the raster before it is encoded                             *)
  image      (* the raster at hand                                          *)

vars == <<stage, plan, resized, upright, turned, image>>

Quarters == [quarters : 0..4]

Plans == [quality : Qualities, mirror : BOOLEAN, rotation : Quarters \cup Tilts,
          format : Formats]

Init == /\ stage = "resized"
        /\ plan \in Plans
        /\ resized \in Resized
        /\ upright = resized
        /\ turned = resized
        /\ image = resized

----------------------------------------------------------------------------
Channels(r) == [gray |-> 1, graya |-> 2, rgb |-> 3, rgba |-> 4][r.layout]

Buffer(size) == 0..(size - 1)

Sample(r, x, y, c) == r.data[(y * r.width + x) * Channels(r) + c]

(* The nearest integer to n / d, halves up.                                *)
Nearest(n, d) == (2 * n + d) \div (2 * d)

LumaOf(red, green, blue) == Nearest(299 * red + 587 * green + 114 * blue, 1000)

(* Only opaque rasters reach it: alpha comes from rotation, later.         *)
IntoGray(r) ==
  IF r.layout = "gray" THEN r
  ELSE [r EXCEPT !.layout = "gray",
                 !.data = [i \in Buffer(r.width * r.height) |->
                             LumaOf(r.data[3 * i], r.data[3 * i + 1], r.data[3 * i + 2])]]

IntoBitonal(r) ==
  LET gray == IntoGray(r)
  IN  [gray EXCEPT !.data = [i \in DOMAIN gray.data |-> IF gray.data[i] >= 128 THEN 255 ELSE 0]]

Recoloured(r, quality) == CASE quality = "gray"    -> IntoGray(r)
                            [] quality = "bitonal" -> IntoBitonal(r)
                            [] OTHER               -> r

----------------------------------------------------------------------------
(* Pixels of a row change places, their samples keep their order.          *)
Mirrored(r) ==
  LET bpp == Channels(r)
  IN  [r EXCEPT !.data = [i \in DOMAIN r.data |->
         LET row == i \div (r.width * bpp)
             x   == (i \div bpp) % r.width
         IN  r.data[(row * r.width + (r.width - 1 - x)) * bpp + (i % bpp)]]]

(* Pixel (x, y) goes to (height - 1 - y, x).                               *)
Rotated90(r) ==
  LET bpp == Channels(r)
  IN  [r EXCEPT !.width = r.height, !.height = r.width,
                !.data = [to \in DOMAIN r.data |->
                  LET x == (to \div bpp) \div r.height
                      y == r.height - 1 - ((to \div bpp) % r.height)
                  IN  r.data[(y * r.width + x) * bpp + (to % bpp)]]]

Rotated180(r) ==
  LET bpp    == Channels(r)
      pixels == Cardinality(DOMAIN r.data) \div bpp
  IN  [r EXCEPT !.data = [i \in DOMAIN r.data |->
         r.data[(pixels - 1 - (i \div bpp)) * bpp + (i % bpp)]]]

(* A bug: three quarters are made of three and one more.                   *)
RotateQuartersOnce(r, quarters) ==
  CASE quarters % 4 = 1 -> Rotated90(r)
    [] quarters % 4 = 2 -> Rotated180(r)
    [] quarters % 4 = 3 -> Rotated90(r)
    [] OTHER            -> r

RotateQuarters(r, quarters) ==
  CASE quarters % 4 = 1 -> Rotated90(r)
    [] quarters % 4 = 2 -> Rotated180(r)
    [] quarters % 4 = 3 -> Rotated180(Rotated90(r))
    [] OTHER            -> r

----------------------------------------------------------------------------
(* Rotation by any angle.  Source coordinates are counted in 1 / (2 hyp).  *)
CeilDiv(n, d) == -((-n) \div d)

Abs(n) == IF n < 0 THEN -n ELSE n

(* A bug: sine and cosine change places in the bounds.                     *)
CanvasSwapped(r, a) ==
  [width  |-> CeilDiv(r.height * Abs(a.cos) + r.width * Abs(a.sin), a.hyp),
   height |-> CeilDiv(r.height * Abs(a.sin) + r.width * Abs(a.cos), a.hyp)]

(* The canvas that holds the rotated bounds.                               *)
Canvas(r, a) ==
  [width  |-> CeilDiv(r.height * Abs(a.sin) + r.width * Abs(a.cos), a.hyp),
   height |-> CeilDiv(r.height * Abs(a.cos) + r.width * Abs(a.sin), a.hyp)]

(* A bug: the source is addressed by pixel corners, the canvas by centres. *)
SourceXCorner(r, a, canvas, ox, oy) ==
  (2 * ox + 1 - canvas.width) * a.cos + (2 * oy + 1 - canvas.height) * a.sin
    + r.width * a.hyp

(* The source point whose colour an output pixel gets.                     *)
SourceX(r, a, canvas, ox, oy) ==
  (2 * ox + 1 - canvas.width) * a.cos + (2 * oy + 1 - canvas.height) * a.sin
    + (r.width - 1) * a.hyp
SourceY(r, a, canvas, ox, oy) ==
  (2 * oy + 1 - canvas.height) * a.cos - (2 * ox + 1 - canvas.width) * a.sin
    + (r.height - 1) * a.hyp

Inside(s, size, a) == -a.hyp <= s /\ s <= (2 * size - 1) * a.hyp

Floor(s, a) == LET f == s \div (2 * a.hyp) IN IF f < 0 THEN 0 ELSE f

(* A bug: the weight is not clamped.                                       *)
FractionFree(s, a) == s - Floor(s, a) * 2 * a.hyp

(* How far a point is between two samples.                                 *)
Fraction(s, a) ==
  LET f == s - Floor(s, a) * 2 * a.hyp
  IN  IF f < 0 THEN 0 ELSE IF f > 2 * a.hyp THEN 2 * a.hyp ELSE f

Least(a, b) == IF a < b THEN a ELSE b

Clamp8(v) == IF v < 0 THEN 0 ELSE Least(v, 255)

Bilinear(r, a, sx, sy, c) ==
  LET one == 2 * a.hyp
      fx  == Fraction(sx, a)
      fy  == Fraction(sy, a)
      x0  == Least(Floor(sx, a), r.width - 1)
      y0  == Least(Floor(sy, a), r.height - 1)
      x1  == Least(x0 + 1, r.width - 1)
      y1  == Least(y0 + 1, r.height - 1)
  IN  Clamp8(Nearest(Sample(r, x1, y1, c) * fx * fy
                       + Sample(r, x0, y1, c) * (one - fx) * fy
                       + Sample(r, x1, y0, c) * fx * (one - fy)
                       + Sample(r, x0, y0, c) * (one - fx) * (one - fy), one * one))

RotateArbitrary(r, a) ==
  LET canvas == Canvas(r, a)
      bpp    == IF r.layout = "gray" THEN 2 ELSE 4
      Channel(ox, oy, c) ==
        LET sx == SourceX(r, a, canvas, ox, oy)
            sy == SourceY(r, a, canvas, ox, oy)
        IN  IF ~Inside(sx, r.width, a) \/ ~Inside(sy, r.height, a) THEN 0
            ELSE IF c = bpp - 1 THEN 255
            ELSE Bilinear(r, a, sx, sy, c)
  IN  [layout |-> IF bpp = 2 THEN "graya" ELSE "rgba",
       width  |-> canvas.width,
       height |-> canvas.height,
       data   |-> [i \in Buffer(canvas.width * canvas.height * bpp) |->
                     Channel((i \div bpp) % canvas.width, (i \div bpp) \div canvas.width, i % bpp)]]

Turned(r, rotation) == IF rotation \in Quarters THEN RotateQuarters(r, rotation.quarters)
                       ELSE RotateArbitrary(r, rotation)

----------------------------------------------------------------------------
(* A bug: the numerator is kept in too few bits.                           *)
CompositeNarrow(value, alpha) == ((value * alpha + 255 * (255 - alpha) + 127) % 2^8) \div 255

(* One channel over white, in u16.                                         *)
Composite(value, alpha) == ((value * alpha + 255 * (255 - alpha) + 127) % 2^16) \div 255

FlattenOverWhite(r) ==
  LET bpp  == Channels(r)
      kept == bpp - 1
  IN  IF r.layout \in {"gray", "rgb"} THEN r
      ELSE [r EXCEPT !.layout = IF bpp = 2 THEN "gray" ELSE "rgb",
                     !.data = [i \in Buffer(r.width * r.height * kept) |->
                        Composite(r.data[(i \div kept) * bpp + (i % kept)],
                                  r.data[(i \div kept) * bpp + kept])]]

KeepAlpha == {"png", "webp"}

(* A bug: tif keeps the alpha its writer cannot take.                      *)
EncodableAll(r, format) == IF format = "jpg" THEN FlattenOverWhite(r) ELSE r

(* PNG and WebP carry alpha, the other encoders flatten it.                *)
Encodable(r, format) == IF format \in KeepAlpha THEN r ELSE FlattenOverWhite(r)

(* A pdf wraps a jpg.                                                      *)
FitsFormat(r, format) ==
  format \in {"jpg", "gif", "pdf"} => r.width <= MaxSide /\ r.height <= MaxSide

----------------------------------------------------------------------------
Recolour == /\ stage = "resized"
            /\ stage' = "recoloured"
            /\ image' = Recoloured(image, plan.quality)
            /\ UNCHANGED <<plan, resized, upright, turned>>

Mirror == /\ stage = "recoloured"
          /\ stage' = "mirrored"
          /\ image' = IF plan.mirror THEN Mirrored(image) ELSE image
          /\ upright' = image'
          /\ UNCHANGED <<plan, resized, turned>>

Rotate == /\ stage = "mirrored"
          /\ stage' = "turned"
          /\ image' = Turned(image, plan.rotation)
          /\ turned' = image'
          /\ UNCHANGED <<plan, resized, upright>>

Encode == /\ stage = "turned"
          /\ FitsFormat(image, plan.format)
          /\ stage' = "encoded"
          /\ image' = Encodable(image, plan.format)
          /\ UNCHANGED <<plan, resized, upright, turned>>

(* The format cannot represent the canvas.                                 *)
Refuse == /\ stage = "turned"
          /\ ~FitsFormat(image, plan.format)
          /\ stage' = "refused"
          /\ UNCHANGED <<plan, resized, upright, turned, image>>

Next == Recolour \/ Mirror \/ Rotate \/ Encode \/ Refuse

Spec == Init /\ [][Next]_vars

----------------------------------------------------------------------------
Pixels(r) == (0..(r.width - 1)) \X (0..(r.height - 1))

Pixel(r, p) == [c \in 0..(Channels(r) - 1) |-> Sample(r, p[1], p[2], c)]

Tilted == plan.rotation \notin Quarters

(* Buffers hold exactly their pixels, and what an encoder of an opaque     *)
(* format is given has no alpha.                                           *)
TypeOK ==
  /\ stage \in {"resized", "recoloured", "mirrored", "turned", "encoded", "refused"}
  /\ plan \in Plans
  /\ image.data \in [Buffer(image.width * image.height * Channels(image)) -> 0..255]
  /\ stage = "encoded" /\ plan.format \notin KeepAlpha => image.layout \in {"gray", "rgb"}

(* Where a clockwise quarter turn of an image h high moves a pixel.        *)
QuarterTurn(h, p) == <<h - 1 - p[2], p[1]>>

(* Mirroring and quarter turns move every pixel, samples together, where   *)
(* the geometry says, whatever the flat buffers went through: mirrored     *)
(* first, then turned clockwise about the new dimensions each time.        *)
QuarterTurnsExact ==
  stage = "turned" /\ ~Tilted =>
    LET before == Recoloured(resized, plan.quality)
        w      == before.width
        h      == before.height
        m(p)   == IF plan.mirror THEN <<w - 1 - p[1], p[2]>> ELSE p
        to(p)  == CASE plan.rotation.quarters = 1 -> QuarterTurn(h, p)
                    [] plan.rotation.quarters = 2 -> QuarterTurn(w, QuarterTurn(h, p))
                    [] plan.rotation.quarters = 3 -> QuarterTurn(h, QuarterTurn(w, QuarterTurn(h, p)))
                    [] OTHER                      -> p
    IN  \A p \in Pixels(before) : /\ to(m(p)) \in Pixels(image)
                                  /\ Pixel(image, to(m(p))) = Pixel(before, p)

(* The canvas of a tilted image is the smallest that holds the four        *)
(* rotated corners of the image.                                           *)
CanvasHoldsTheImage ==
  stage = "turned" /\ Tilted =>
    LET a       == plan.rotation
        corners == {0, upright.width} \X {0, upright.height}
        xs      == {p[1] * a.cos - p[2] * a.sin : p \in corners}
        ys      == {p[1] * a.sin + p[2] * a.cos : p \in corners}
        Holds(size, extent) == (size - 1) * a.hyp < extent /\ extent <= size * a.hyp
    IN  /\ Holds(image.width, Max(xs) - Min(xs))
        /\ Holds(image.height, Max(ys) - Min(ys))

(* Upside down before tilting is upside down after it: the sampling does   *)
(* not prefer one edge of the image, or one side of a pixel, to the other. *)
UpsideDownAgrees ==
  stage = "turned" /\ Tilted =>
    Rotated180(image) = RotateArbitrary(Rotated180(upright), plan.rotation)

(* A tilted image invents no colour: every sample that is not transparent  *)
(* lies between the least and the greatest of its channel.                 *)
NoColourInvented ==
  stage = "turned" /\ Tilted =>
    \A p \in Pixels(image) : \A c \in 0..(Channels(upright) - 1) :
      LET samples == {Sample(upright, q[1], q[2], c) : q \in Pixels(upright)}
      IN  Sample(image, p[1], p[2], Channels(image) - 1) = 255
            => Sample(image, p[1], p[2], c) \in Min(samples)..Max(samples)

(* Flattening for an encoder leaves opaque pixels as they are and makes    *)
(* transparent ones white.                                                 *)
CornersAreWhite ==
  stage = "encoded" /\ Tilted /\ plan.format \notin KeepAlpha =>
    \A p \in Pixels(turned) : \A c \in 0..(Channels(image) - 1) :
      Sample(image, p[1], p[2], c) =
        IF Sample(turned, p[1], p[2], Channels(image)) = 255 THEN Sample(turned, p[1], p[2], c)
        ELSE 255
=============================================================================
