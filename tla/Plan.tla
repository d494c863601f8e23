-------------------------------- MODULE Plan -------------------------------
(***************************************************************************)
(* What a parsed image request means for one image: crates/core/src/eval.rs *)
(* and the canonical spelling of v2.rs.  evaluate() turns region and size  *)
(* into a crop and output dimensions or an error; canonical_path() spells  *)
(* the plan again.  Rotation, quality and format pass through untouched    *)
(* and are added where requests are answered.                              *)
(*                                                                         *)
(* Quotients are exact naturals here.  The code computes them in f64, so a *)
(* tie may round down and a whole number may floor to one less (15.0/22.0  *)
(* times 22.0 floors to 14): s is the set of dimensions in which that      *)
(* happens.  Percentages are in hundredths of a percent.                   *)
(***************************************************************************)
EXTENDS Integers, FiniteSetsExt

(* round_u32 and floor_u32 of n/d.                                         *)
Round(n, d, slips) ==
  LET nearest == (2 * n + d) \div (2 * d)
  IN  IF slips /\ (2 * n) % (2 * d) = d THEN nearest - 1 ELSE nearest

ISqrt(n) == CHOOSE k \in 0..n : k * k <= n /\ n < (k + 1) * (k + 1)

Error(e) == [ok |-> FALSE, error |-> e]

Crop(x, y, w, h) == [ok |-> TRUE, x |-> x, y |-> y, w |-> w, h |-> h]

(* A bug: a pixel region is not clipped at the right and bottom edges.     *)
UnclippedPixels(r, img) ==
  IF r.x >= img.w \/ r.y >= img.h
  THEN Error("RegionOutOfBounds")
  ELSE Crop(r.x, r.y, r.w, r.h)

ResolvePixels(r, img) ==
  IF r.x >= img.w \/ r.y >= img.h
  THEN Error("RegionOutOfBounds")
  ELSE Crop(r.x, r.y, Min({r.w, img.w - r.x}), Min({r.h, img.h - r.y}))

ResolvePercent(r, img, s) ==
  LET px == Round(r.x * img.w, 10000, "w" \in s)
      py == Round(r.y * img.h, 10000, "h" \in s)
      pw == Round(r.w * img.w, 10000, "w" \in s)
      ph == Round(r.h * img.h, 10000, "h" \in s)
  IN  IF px >= img.w \/ py >= img.h \/ pw = 0 \/ ph = 0
      THEN Error("RegionOutOfBounds")
      ELSE Crop(px, py, Min({pw, img.w - px}), Min({ph, img.h - py}))

ResolveRegion(r, img, s) ==
  CASE r.kind = "full"    -> Crop(0, 0, img.w, img.h)
    [] r.kind = "square"  -> LET side == Min({img.w, img.h})
                             IN  Crop((img.w - side) \div 2, (img.h - side) \div 2, side, side)
    [] r.kind = "pixels"  -> ResolvePixels(r, img)
    [] r.kind = "percent" -> ResolvePercent(r, img, s)

----------------------------------------------------------------------------
(* Bugs: the area limit is forgotten, or read as a square box.             *)
FitSideNoArea(own, other, cap, otherCap, area, slips) ==
  Max({1, Min({cap, (otherCap * own) \div other})})

FitSideSquare(own, other, cap, otherCap, area, slips) ==
  Max({1, Min({cap, (otherCap * own) \div other,
               (ISqrt(area) * own) \div Max({own, other})})})

(* limit_fit_scale: own * scale is the least of the cap of this dimension, *)
(* what the other one's cap leaves, and sqrt(area * own / other); floored, *)
(* and one pixel at least.                                                 *)
FitSide(own, other, cap, otherCap, area, slips) ==
  LET whole == Min({cap, (otherCap * own) \div other, ISqrt((area * own) \div other)})
      exact == \/ whole = cap
               \/ whole * other = otherCap * own
               \/ whole * whole * other = area * own
  IN  Max({1, IF slips /\ exact THEN whole - 1 ELSE whole})

MaxSize(up, rw, rh, lim, s) ==
  LET fits == rw <= lim.w /\ rh <= lim.h /\ rw * rh <= lim.area
      tight == rw = lim.w \/ rh = lim.h \/ rw * rh = lim.area
  IN  IF fits /\ (~up \/ tight)
      THEN [w |-> rw, h |-> rh]              \* scale is exactly 1.0
      ELSE [w |-> FitSide(rw, rh, lim.w, lim.h, lim.area, "w" \in s),
            h |-> FitSide(rh, rw, lim.h, lim.w, lim.area, "h" \in s)]

ConfinedSize(sz, rw, rh, s) ==
  IF sz.w * rh <= sz.h * rw
  THEN [w |-> sz.w, h |-> Round(rh * sz.w, rw, "h" \in s)]
  ELSE [w |-> Round(rw * sz.h, rh, "w" \in s), h |-> sz.h]

(* What the size form asks for, before limits.                             *)
Wanted(sz, rw, rh, lim, s) ==
  CASE sz.kind = "max"      -> MaxSize(sz.up, rw, rh, lim, s)
    [] sz.kind = "width"    -> [w |-> sz.w, h |-> Round(rh * sz.w, rw, "h" \in s)]
    [] sz.kind = "height"   -> [w |-> Round(rw * sz.h, rh, "w" \in s), h |-> sz.h]
    [] sz.kind = "percent"  -> [w |-> Round(rw * sz.pct, 10000, "w" \in s),
                                h |-> Round(rh * sz.pct, 10000, "h" \in s)]
    [] sz.kind = "exact"    -> [w |-> sz.w, h |-> sz.h]
    [] sz.kind = "confined" -> ConfinedSize(sz, rw, rh, s)

(* A bug: `w,h` counts as larger only when both dimensions are.            *)
AsksUpscaleBoth(sz, rw, rh) ==
  CASE sz.kind = "width"  -> sz.w > rw
    [] sz.kind = "height" -> sz.h > rh
    [] sz.kind \in {"exact", "confined"} -> sz.w > rw /\ sz.h > rh
    [] OTHER              -> FALSE

(* Asking for more than the region without `^`.                            *)
AsksUpscale(sz, rw, rh) ==
  CASE sz.kind = "width"    -> sz.w > rw
    [] sz.kind = "height"   -> sz.h > rh
    [] sz.kind = "exact"    -> sz.w > rw \/ sz.h > rh
    [] sz.kind = "confined" -> sz.w > rw /\ sz.h > rh
    [] OTHER                -> FALSE

ResolveSize(sz, rw, rh, lim, s) ==
  LET out == Wanted(sz, rw, rh, lim, s)
      grows == out.w > rw \/ out.h > rh
  IN  IF ~sz.up /\ AsksUpscale(sz, rw, rh)
      THEN Error("UpscaleWithoutFlag")
      ELSE IF grows /\ ~sz.up
           THEN [ok |-> TRUE, w |-> Min({out.w, rw}), h |-> Min({out.h, rh}), upscales |-> FALSE]
           ELSE [ok |-> TRUE, w |-> out.w, h |-> out.h, upscales |-> grows]

(* evaluate(): the plan, or the error that becomes a 400.                  *)
Evaluate(r, sz, img, lim, s) ==
  LET crop == ResolveRegion(r, img, s)
      out == ResolveSize(sz, crop.w, crop.h, lim, s)
  IN  IF ~crop.ok THEN crop
      ELSE IF ~out.ok THEN out
      ELSE IF out.w = 0 \/ out.h = 0 THEN Error("BelowOnePixel")
      ELSE IF out.w > lim.w \/ out.h > lim.h \/ out.w * out.h > lim.area
           THEN Error("ExceedsLimits")
      ELSE [ok |-> TRUE, crop |-> crop, w |-> out.w, h |-> out.h,
            upscales |-> out.upscales, wasMax |-> sz.kind = "max"]

----------------------------------------------------------------------------
IsFullRegion(plan, img) == plan.crop = Crop(0, 0, img.w, img.h)

CanonicalRegion(plan, img) ==
  IF IsFullRegion(plan, img)
  THEN [kind |-> "full"]
  ELSE [kind |-> "pixels", x |-> plan.crop.x, y |-> plan.crop.y,
        w |-> plan.crop.w, h |-> plan.crop.h]

(* A bug: an upscaling plan is spelled without its `^`.                    *)
CanonicalSizeNoFlag(plan) ==
  IF plan.wasMax
  THEN [kind |-> "max", up |-> plan.upscales]
  ELSE [kind |-> "exact", up |-> FALSE, w |-> plan.w, h |-> plan.h]

(* Plan::canonical_path.                                                   *)
CanonicalSize(plan) ==
  IF plan.wasMax
  THEN [kind |-> "max", up |-> plan.upscales]
  ELSE [kind |-> "exact", up |-> plan.upscales, w |-> plan.w, h |-> plan.h]

(* v2::canonical_path, of the plan for size sz.                            *)
CanonicalV2Size(plan, img, sz) ==
  IF plan.wasMax /\ IsFullRegion(plan, img) /\ ~plan.upscales
  THEN [kind |-> "max", up |-> FALSE]
  ELSE IF sz.kind # "exact"
       THEN [kind |-> "width", up |-> TRUE, w |-> plan.w]
       ELSE [kind |-> "exact", up |-> TRUE, w |-> plan.w, h |-> plan.h]
=============================================================================
