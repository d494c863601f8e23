-------------------------------- MODULE Eval -------------------------------
(***************************************************************************)
(* Every parsed request against every image: the questions asked of Plan.  *)
(* A behaviour picks an image, limits, a region and a size, with the f64   *)
(* slips it assumes, and evaluates them once.                              *)
(***************************************************************************)
EXTENDS Plan

CONSTANTS Images,     (* full dimensions, records [w, h]                   *)
          LimitSets,  (* deployment limits, records [w, h, area]           *)
          Regions,    (* parsed regions                                    *)
          Sizes,      (* parsed v3 sizes                                   *)
          Slips       (* the dimensions in which f64 may slip, sets of them *)

ASSUME EvalAssumption ==
  /\ \A i \in Images : i.w \in Nat \ {0} /\ i.h \in Nat \ {0}
  /\ \A l \in LimitSets : {l.w, l.h, l.area} \subseteq Nat \ {0}
  /\ Slips \subseteq SUBSET {"w", "h"}

VARIABLES image, limits, version, region, size, slip, outcome

evalVars == <<image, limits, version, region, size, slip, outcome>>

----------------------------------------------------------------------------
(* v2::parse_size: every numeric form may upscale, full and max may not.   *)
ReadV2(sz) == [sz EXCEPT !.up = (sz.kind # "max")]

----------------------------------------------------------------------------
NotYet == [ok |-> FALSE, error |-> "not evaluated"]

EvalInit ==
  /\ image \in Images
  /\ limits \in LimitSets
  /\ version \in {"v2", "v3"}
  /\ region \in Regions
  /\ size \in IF version = "v3" THEN Sizes ELSE {ReadV2(z) : z \in Sizes}
  /\ slip \in Slips
  /\ outcome = NotYet

Answer == /\ outcome = NotYet
          /\ outcome' = Evaluate(region, size, image, limits, slip)
          /\ UNCHANGED <<image, limits, version, region, size, slip>>

EvalSpec == EvalInit /\ [][Answer]_evalVars

Planned == outcome.ok

----------------------------------------------------------------------------
(* A plan's crop is never empty and never leaves the image, wherever the   *)
(* rounding of percent regions puts its edges.                             *)
CropInsideImage ==
  Planned => /\ outcome.crop.w \in 1..(image.w - outcome.crop.x)
             /\ outcome.crop.h \in 1..(image.h - outcome.crop.y)
             /\ outcome.crop.x >= 0 /\ outcome.crop.y >= 0

(* A size is refused or done as asked: without the upscale flag the output *)
(* stays within the crop, and not by cutting a dimension the request names *)
(* - resolve_size's final clamp never alters what was asked for.  `!w,h`   *)
(* touches its box and stays inside it, although the other dimension is    *)
(* rounded to the nearest pixel.                                           *)
AskedSizeOrRefused ==
  Planned => /\ ~size.up => outcome.w <= outcome.crop.w /\ outcome.h <= outcome.crop.h
             /\ size.kind \in {"width", "exact"} => outcome.w = size.w
             /\ size.kind \in {"height", "exact"} => outcome.h = size.h
             /\ size.kind = "confined" =>
                  /\ outcome.w <= size.w /\ outcome.h <= size.h
                  /\ outcome.w = size.w \/ outcome.h = size.h

(* Asking for max is refused in one situation only: the area limit is so   *)
(* small for so thin a region that keeping the last pixel of the short     *)
(* side leaves the long side too many.                                     *)
MaxRefusedOnlyWhenThin ==
  size.kind = "max" /\ outcome = Error("ExceedsLimits") =>
    LET crop == ResolveRegion(region, image, slip)
    IN  limits.area * Min({crop.w, crop.h}) < Max({crop.w, crop.h})

(* max is as large as the limits and the region let it be, up to the pixel *)
(* f64 may lose: no larger scale of the crop fits them.                    *)
MaxIsLargest ==
  Planned /\ size.kind = "max" =>
    LET rw == outcome.crop.w
        rh == outcome.crop.h
        wider == outcome.w + IF "w" \in slip THEN 2 ELSE 1
    IN  \/ ~size.up /\ wider > rw
        \/ wider > limits.w
        \/ wider * rh > limits.h * rw
        \/ wider * wider * rh > limits.area * rw

(* The canonical link of a v3 answer leads to the same image: evaluating   *)
(* the canonical spelling gives the same crop, size and spelling again.    *)
CanonicalIsFixpoint ==
  Planned /\ version = "v3" =>
    Evaluate(CanonicalRegion(outcome, image), CanonicalSize(outcome), image, limits, slip)
      = outcome

(* deployment.md: "Derivatives are immutable per canonical URL" and the    *)
(* ETag of an image is made from that URL.  So in v2 too, the canonical    *)
(* spelling must stand for the image it was made from.                     *)
CanonicalV2IsFixpoint ==
  Planned /\ version = "v2" =>
    LET again == Evaluate(CanonicalRegion(outcome, image), CanonicalV2Size(outcome, image, size),
                          image, limits, slip)
    IN  again.ok /\ again.w = outcome.w /\ again.h = outcome.h
=============================================================================
