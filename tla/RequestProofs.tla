----------------------------- MODULE RequestProofs --------------------------
(***************************************************************************)
(* What is proved about requests.                                          *)
(*                                                                         *)
(* Of Eval, for images and requests of any size: the crop of a plan lies   *)
(* in the image, a size is done as it was asked for or refused, `max` is   *)
(* as large as the limits allow, and the canonical path leads back to the  *)
(* plan.                                                                   *)
(*                                                                         *)
(* Of Respond, for any masters, limits and conversation: a redirect leads  *)
(* to the document it promises, the canonical link of a v3 image to that   *)
(* image, a 304 stands for the 200 it saves, and what an info.json lists   *)
(* is served.  The argument has four layers: what the grammar writes it    *)
(* reads back (RegionBack, SizeBack, RotationBack, FileBack, EncodedIsRead); *)
(* a canonical path determines its plan (SamePath); the handlers answer in *)
(* a few ways (HandleCases), and always so with nothing gone wrong         *)
(* (GetInfo, GetImage); the history records answers to requests for places *)
(* (RespondIInv), so that the properties of two exchanges follow from      *)
(* those of each.                                                          *)
(***************************************************************************)
EXTENDS Eval, Respond, Extrema, SequenceTheorems, TLAPS

(* What the grammar can yield, see Grammar.                                *)
RegionForms ==
  [kind : {"full", "square"}]
    \cup [kind : {"pixels"}, x : Nat, y : Nat, w : Nat \ {0}, h : Nat \ {0}]
    \cup [kind : {"percent"}, x : Nat, y : Nat, w : Nat, h : Nat]

(* The same of sizes.                                                      *)
SizeForms ==
  [kind : {"max"}, up : BOOLEAN]
    \cup [kind : {"percent"}, up : BOOLEAN, pct : Nat]
    \cup [kind : {"width"}, up : BOOLEAN, w : Nat \ {0}]
    \cup [kind : {"height"}, up : BOOLEAN, h : Nat \ {0}]
    \cup [kind : {"exact", "confined"}, up : BOOLEAN, w : Nat \ {0}, h : Nat \ {0}]

(* An image has pixels.                                                    *)
Sided(img) == img.w \in Nat \ {0} /\ img.h \in Nat \ {0}

(* What Evaluate is given.                                                 *)
Asked == /\ Sided(image) /\ region \in RegionForms /\ size \in SizeForms
         /\ limits.w \in Nat \ {0} /\ limits.h \in Nat \ {0} /\ limits.area \in Nat \ {0}

(* The runs draw from what the grammar can yield.                          *)
Parsed == Regions \subseteq RegionForms /\ Sizes \subseteq SizeForms

(* The inductive invariant of Eval.                                        *)
EvalIInv == /\ Asked
        /\ outcome \in {NotYet, Evaluate(region, size, image, limits, slip)}

----------------------------------------------------------------------------
(* Rounding gives a natural, also when a tie is lost.                      *)
LEMMA RoundedPercent ==
  ASSUME NEW n \in Nat, NEW slips
  PROVE  Round(n, 10000, slips) \in Nat
BY DEF Round

(* A crop inside an image.                                                 *)
Inside(crop, img) ==
  /\ crop.x \in Nat /\ crop.y \in Nat
  /\ crop.w \in 1..(img.w - crop.x) /\ crop.h \in 1..(img.h - crop.y)

(* A region in pixels, cut at the edges of the image it starts in.         *)
LEMMA PixelsInside ==
  ASSUME NEW img, Sided(img), NEW x \in Nat, NEW y \in Nat, NEW w \in Nat \ {0}, NEW h \in Nat \ {0},
         x < img.w, y < img.h
  PROVE  Inside(Crop(x, y, Min({w, img.w - x}), Min({h, img.h - y})), img)
<1>1. /\ Min({w, img.w - x}) = IF w <= img.w - x THEN w ELSE img.w - x
      /\ Min({h, img.h - y}) = IF h <= img.h - y THEN h ELSE img.h - y
  BY MinOfTwo DEF Sided
<1>. QED
  BY <1>1 DEF Inside, Crop, Sided

(* Whatever form the region has, its crop lies in the image.               *)
LEMMA RegionInside ==
  ASSUME NEW r \in RegionForms, NEW img, Sided(img), NEW s, ResolveRegion(r, img, s).ok
  PROVE  Inside(ResolveRegion(r, img, s), img)
<1>1. CASE r.kind = "full"
  BY <1>1 DEF ResolveRegion, Inside, Crop, Sided
<1>2. CASE r.kind = "square"
  <2>1. Min({img.w, img.h}) = IF img.w <= img.h THEN img.w ELSE img.h
    BY MinOfTwo DEF Sided
  <2>. DEFINE side == Min({img.w, img.h})
  <2>2. side \in 1..img.w /\ side \in 1..img.h /\ img.w \in Nat /\ img.h \in Nat
    BY <2>1 DEF Sided
  <2>3. ResolveRegion(r, img, s) = Crop((img.w - side) \div 2, (img.h - side) \div 2, side, side)
    BY <1>2 DEF ResolveRegion
  <2>. HIDE DEF side
  <2>4. /\ (img.w - side) \div 2 \in 0..(img.w - side)
        /\ (img.h - side) \div 2 \in 0..(img.h - side)
    BY <2>2
  <2>. QED
    BY <2>2, <2>3, <2>4 DEF Inside, Crop
<1>3. CASE r.kind = "pixels"
  <2>1. r.x \in Nat /\ r.y \in Nat /\ r.w \in Nat \ {0} /\ r.h \in Nat \ {0}
    BY <1>3 DEF RegionForms
  <2>2. r.x < img.w /\ r.y < img.h
    BY <1>3, <2>1 DEF ResolveRegion, ResolvePixels, Error, Sided
  <2>. QED
    BY <1>3, <2>1, <2>2, PixelsInside DEF ResolveRegion, ResolvePixels, Sided
<1>4. CASE r.kind = "percent"
  <2>. DEFINE px == Round(r.x * img.w, 10000, "w" \in s)
              py == Round(r.y * img.h, 10000, "h" \in s)
              pw == Round(r.w * img.w, 10000, "w" \in s)
              ph == Round(r.h * img.h, 10000, "h" \in s)
  <2>1. /\ r.x \in Nat /\ r.y \in Nat /\ r.w \in Nat /\ r.h \in Nat
        /\ img.w \in Nat /\ img.h \in Nat
    BY <1>4 DEF RegionForms, Sided
  <2>2. px \in Nat /\ py \in Nat /\ pw \in Nat /\ ph \in Nat
    <3>1. /\ r.x * img.w \in Nat /\ r.y * img.h \in Nat
          /\ r.w * img.w \in Nat /\ r.h * img.h \in Nat
      BY <2>1, Product
    <3>. QED
      BY <3>1, RoundedPercent
  <2>3. ResolveRegion(r, img, s) =
          IF px >= img.w \/ py >= img.h \/ pw = 0 \/ ph = 0
          THEN Error("RegionOutOfBounds")
          ELSE Crop(px, py, Min({pw, img.w - px}), Min({ph, img.h - py}))
    BY <1>4 DEF ResolveRegion, ResolvePercent
  <2>. HIDE DEF px, py, pw, ph
  <2>4. px < img.w /\ py < img.h /\ pw # 0 /\ ph # 0
    BY <2>1, <2>2, <2>3 DEF Error
  <2>. QED
    BY <2>2, <2>3, <2>4, PixelsInside DEF Sided
<1>. QED
  BY <1>1, <1>2, <1>3, <1>4 DEF RegionForms

----------------------------------------------------------------------------
(* Every natural has an integer root: the least k with n < (k + 1)^2,      *)
(* found as the least of the sets 0..k.                                    *)
LEMMA RootExists ==
  ASSUME NEW n \in Nat
  PROVE  /\ ISqrt(n) \in Nat
         /\ ISqrt(n) * ISqrt(n) <= n /\ n < (ISqrt(n) + 1) * (ISqrt(n) + 1)
<1>. DEFINE Above == {k \in Nat : n < (k + 1) * (k + 1)}
            Below == {0..k : k \in Above}
<1>1. n \in Above
  OBVIOUS
<1>2. Below \subseteq FiniteSubsetsOf(Nat) /\ Below # {}
  <2>1. \A k \in Above : 0..k \in SUBSET Nat /\ IsFiniteSet(0..k)
    BY FS_Interval
  <2>. QED
    BY <1>1, <2>1 DEF FiniteSubsetsOf
<1>3. PICK least \in Below : \A b \in Below : ~(<<b, least>> \in StrictSubsetOrdering(Nat))
  <2>. HIDE DEF Below
  <2>. QED
    BY <1>2, FS_StrictSubsetOrderingWellFounded, WFMin
<1>4. PICK k \in Above : least = 0..k
  OBVIOUS
<1>5. k * k <= n
  <2>. SUFFICES ASSUME n < k * k
                PROVE  FALSE
    OBVIOUS
  <2>1. k # 0 /\ k - 1 \in Nat /\ (k - 1) + 1 = k
    OBVIOUS
  <2>2. k - 1 \in Above
    BY <2>1
  <2>3. 0..(k - 1) \in Below
    BY <2>2
  <2>4. 0..(k - 1) \subseteq 0..k /\ k \in 0..k /\ k \notin 0..(k - 1) /\ 0..k \subseteq Nat
    OBVIOUS
  <2>5. <<0..(k - 1), 0..k>> \in StrictSubsetOrdering(Nat)
    BY <2>4 DEF StrictSubsetOrdering
  <2>. QED
    BY <1>3, <1>4, <2>3, <2>5
<1>6. k \in 0..n /\ n < (k + 1) * (k + 1)
  BY <1>5
<1>7. \E j \in 0..n : j * j <= n /\ n < (j + 1) * (j + 1)
  BY <1>5, <1>6
<1>8. /\ ISqrt(n) \in 0..n
      /\ ISqrt(n) * ISqrt(n) <= n /\ n < (ISqrt(n) + 1) * (ISqrt(n) + 1)
  BY <1>7, Zenon DEF ISqrt
<1>. QED
  BY <1>8

----------------------------------------------------------------------------
(* Rounding to the nearest stays below a bound the exact quotient keeps.   *)
LEMMA Rounded ==
  ASSUME NEW n \in Nat, NEW d \in Nat \ {0}, NEW slips
  PROVE  /\ Round(n, d, slips) \in Int
         /\ \A k \in Nat : n <= k * d => Round(n, d, slips) <= k
<1>. DEFINE q == (2 * n + d) \div (2 * d)
<1>1. 2 * d \in Nat \ {0} /\ 2 * n + d \in Nat
  OBVIOUS
<1>2. q \in Int /\ q * (2 * d) <= 2 * n + d
  BY <1>1
<1>3. Round(n, d, slips) \in {q, q - 1}
  BY DEF Round
<1>. HIDE DEF q
<1>4. ASSUME NEW k \in Nat, n <= k * d
      PROVE  q <= k
  <2>. SUFFICES ASSUME q >= k + 1
                PROVE  FALSE
    BY <1>2
  <2>1. q * (2 * d) >= (k + 1) * (2 * d)
    BY <1>1, <1>2
  <2>2. (k + 1) * (2 * d) = 2 * (k * d) + 2 * d
    OBVIOUS
  <2>. QED
    BY <1>2, <1>4, <2>1, <2>2
<1>. QED
  BY <1>2, <1>3, <1>4

(* Min picks the least of its three.                                       *)
LEMMA LeastOfThree ==
  ASSUME NEW a \in Int, NEW b \in Int, NEW c \in Int
  PROVE  /\ Min({a, b, c}) \in {a, b, c}
         /\ Min({a, b, c}) <= a /\ Min({a, b, c}) <= b /\ Min({a, b, c}) <= c
<1>1. \E x \in {a, b, c} : \A y \in {a, b, c} : x <= y
  OBVIOUS
<1>2. Min({a, b, c}) \in {a, b, c} /\ \A y \in {a, b, c} : Min({a, b, c}) <= y
  BY <1>1, Zenon DEF Min
<1>. QED
  BY <1>2

(* Products keep the order.                                                *)
LEMMA Times ==
  ASSUME NEW a \in Nat, NEW b \in Nat, NEW k \in Nat
  PROVE  /\ a <= b => a * k <= b * k /\ a * a * k <= b * b * k
         /\ a * k \in Nat /\ a * a * k \in Nat
<1>1. a * k \in Nat /\ a * a \in Nat /\ a * a * k \in Nat
  OBVIOUS
<1>2. ASSUME a <= b PROVE a * k <= b * k /\ a * a <= b * b
  <2>1. a * k <= b * k /\ a * a <= b * a /\ b * a <= b * b
    BY <1>2
  <2>. QED
    BY <2>1
<1>3. ASSUME a <= b PROVE a * a * k <= b * b * k
  BY <1>2, <1>3
<1>. QED
  BY <1>1, <1>2, <1>3

(* A side of k pixels, the other in proportion, fits the limits.           *)
Fits(k, own, other, cap, otherCap, area) ==
  /\ k <= cap
  /\ k * other <= otherCap * own
  /\ k * k * other <= area * own

(* It touches one of them.                                                 *)
Touches(k, own, other, cap, otherCap, area) ==
  \/ k = cap
  \/ k * other = otherCap * own
  \/ k * k * other = area * own

(* The side is k pixels and k is the greatest that fits; or one less where *)
(* f64 slips and k touches a limit; and one pixel at least.                *)
Fitted(side, k, own, other, cap, otherCap, area, slips) ==
  /\ Fits(k, own, other, cap, otherCap, area)
  /\ ~Fits(k + 1, own, other, cap, otherCap, area)
  /\ \/ side = IF k = 0 THEN 1 ELSE k
     \/ /\ slips /\ Touches(k, own, other, cap, otherCap, area)
        /\ side = IF k <= 1 THEN 1 ELSE k - 1

(* limit_fit_scale: that is the side fitted to the limits.                 *)
LEMMA FitSideIs ==
  ASSUME NEW own \in Nat \ {0}, NEW other \in Nat \ {0},
         NEW cap \in Nat, NEW otherCap \in Nat, NEW area \in Nat, NEW slips
  PROVE  \E k \in Nat : Fitted(FitSide(own, other, cap, otherCap, area, slips), k,
                               own, other, cap, otherCap, area, slips)
<1>. DEFINE b == (otherCap * own) \div other
            q == (area * own) \div other
            c == ISqrt(q)
            whole == Min({cap, b, c})
            exact == Touches(whole, own, other, cap, otherCap, area)
            side == FitSide(own, other, cap, otherCap, area, slips)
<1>1. otherCap * own \in Nat /\ area * own \in Nat
  BY Product
<1>2. /\ b \in Nat /\ b * other <= otherCap * own /\ otherCap * own < b * other + other
      /\ q \in Nat /\ q * other <= area * own /\ area * own < q * other + other
  BY <1>1, Quotient
<1>3. side = Max({1, IF slips /\ exact THEN whole - 1 ELSE whole})
  BY DEF FitSide, Touches
<1>. HIDE DEF b, q, side
<1>4. c \in Nat /\ c * c <= q /\ q < (c + 1) * (c + 1)
  BY <1>2, RootExists
<1>. HIDE DEF c
<1>5. whole \in {cap, b, c} /\ whole <= cap /\ whole <= b /\ whole <= c
  <2>1. cap \in Int /\ b \in Int /\ c \in Int
    BY <1>2, <1>4
  <2>. QED
    BY <2>1, LeastOfThree, Zenon
<1>. HIDE DEF whole
<1>6. whole \in Nat
  BY <1>2, <1>4, <1>5
<1>7. /\ whole * other <= b * other /\ whole * whole * other <= c * c * other
      /\ c * c * other <= q * other
      /\ whole * other \in Nat /\ whole * whole * other \in Nat
      /\ b * other \in Nat /\ q * other \in Nat /\ c * c * other \in Nat
  <2>1. c * c \in Nat
    BY <1>4
  <2>. QED
    BY <1>2, <1>4, <1>5, <1>6, <2>1, Times
<1>8. Fits(whole, own, other, cap, otherCap, area)
  BY <1>1, <1>2, <1>5, <1>7 DEF Fits
<1>9. ~Fits(whole + 1, own, other, cap, otherCap, area)
  <2>1. CASE whole = cap
    BY <2>1 DEF Fits
  <2>2. CASE whole = b
    <3>1. (whole + 1) * other = b * other + other
      BY <1>2, <2>2
    <3>. QED
      BY <1>1, <1>2, <1>7, <3>1 DEF Fits
  <2>3. CASE whole = c
    <3>1. (c + 1) * (c + 1) \in Nat /\ q + 1 <= (c + 1) * (c + 1)
      BY <1>2, <1>4
    <3>2. (q + 1) * other <= (c + 1) * (c + 1) * other
      BY <1>2, <3>1, Times
    <3>3. (q + 1) * other = q * other + other
      BY <1>2
    <3>4. (c + 1) * (c + 1) * other \in Nat
      BY <3>1, Product
    <3>. QED
      BY <1>1, <1>2, <1>7, <2>3, <3>2, <3>3, <3>4 DEF Fits
  <2>. QED
    BY <1>5, <2>1, <2>2, <2>3
<1>10. \/ side = IF whole = 0 THEN 1 ELSE whole
       \/ slips /\ exact /\ side = IF whole <= 1 THEN 1 ELSE whole - 1
  <2>. HIDE DEF exact
  <2>1. CASE slips /\ exact
    <3>1. side = IF 1 >= whole - 1 THEN 1 ELSE whole - 1
      BY <1>3, <1>6, <2>1, MaxOfTwo
    <3>. QED
      BY <1>6, <2>1, <3>1
  <2>2. CASE ~(slips /\ exact)
    <3>1. side = IF 1 >= whole THEN 1 ELSE whole
      BY <1>3, <1>6, <2>2, MaxOfTwo
    <3>. QED
      BY <1>6, <3>1
  <2>. QED
    BY <2>1, <2>2
<1>. QED
  BY <1>6, <1>8, <1>9, <1>10 DEF side, Fitted

(* So it is one pixel or fits, and is less than the greatest by one only   *)
(* where f64 slips.                                                        *)
LEMMA FitSideBounds ==
  ASSUME NEW own \in Nat \ {0}, NEW other \in Nat \ {0},
         NEW cap \in Nat, NEW otherCap \in Nat, NEW area \in Nat, NEW slips
  PROVE  LET side == FitSide(own, other, cap, otherCap, area, slips)
         IN  /\ side \in Nat \ {0}
             /\ side = 1 \/ Fits(side, own, other, cap, otherCap, area)
             /\ ~Fits(side + (IF slips THEN 2 ELSE 1), own, other, cap, otherCap, area)
             /\ own < cap /\ other < otherCap /\ own * other < area => own <= side
<1>. DEFINE side == FitSide(own, other, cap, otherCap, area, slips)
            F(k) == Fits(k, own, other, cap, otherCap, area)
<1>1. PICK whole \in Nat : Fitted(side, whole, own, other, cap, otherCap, area, slips)
  BY FitSideIs
<1>. HIDE DEF side
<1>2. /\ F(whole) /\ ~F(whole + 1)
      /\ \/ side = IF whole = 0 THEN 1 ELSE whole
         \/ /\ slips /\ Touches(whole, own, other, cap, otherCap, area)
            /\ side = IF whole <= 1 THEN 1 ELSE whole - 1
  BY <1>1 DEF Fitted
<1>3. side \in Nat \ {0} /\ (side = 1 \/ side <= whole) /\ whole + 1 <= side + IF slips THEN 2 ELSE 1
  BY <1>2
<1>4. ASSUME NEW j \in Nat, NEW k \in Nat, j <= k, F(k)
      PROVE  F(j)
  <2>1. /\ j * other <= k * other /\ j * j * other <= k * k * other
        /\ j * other \in Nat /\ k * other \in Nat
        /\ j * j * other \in Nat /\ k * k * other \in Nat
        /\ otherCap * own \in Nat /\ area * own \in Nat
    BY <1>4, Times, Product
  <2>. QED
    BY <1>4, <2>1 DEF Fits
<1>5. side = 1 \/ F(side)
  BY <1>2, <1>3, <1>4
<1>6. ~F(side + IF slips THEN 2 ELSE 1)
  <2>. DEFINE k == side + IF slips THEN 2 ELSE 1
  <2>1. k \in Nat /\ whole + 1 \in Nat /\ whole + 1 <= k
    BY <1>3
  <2>. HIDE DEF k, F
  <2>2. ~F(k)
    BY <1>2, <1>4, <2>1
  <2>. QED
    BY <2>2 DEF k
<1>7. ASSUME own < cap, other < otherCap, own * other < area
      PROVE  own <= side
  <2>1. (other + 1) * own <= otherCap * own /\ (own * other + 1) * own <= area * own
    <3>1. own * other \in Nat /\ own * other + 1 <= area /\ other + 1 <= otherCap
      BY <1>7
    <3>. QED
      BY <3>1, Times
  <2>2. /\ own * other < otherCap * own /\ own * own * other < area * own
        /\ own * other \in Nat /\ own * own * other \in Nat
        /\ otherCap * own \in Nat /\ area * own \in Nat
    <3>1. /\ (other + 1) * own = own * other + own
          /\ (own * other + 1) * own = own * own * other + own
      OBVIOUS
    <3>2. own * other \in Nat /\ own * own * other \in Nat /\ otherCap * own \in Nat /\ area * own \in Nat
      BY Times, Product
    <3>. QED
      BY <2>1, <3>1, <3>2
  <2>3. F(own)
    BY <1>7, <2>2 DEF Fits
  <2>4. own <= whole
    <3>. SUFFICES ASSUME whole + 1 <= own PROVE FALSE
      OBVIOUS
    <3>. QED
      BY <1>2, <1>4, <2>3
  <2>5. Touches(whole, own, other, cap, otherCap, area) => own # whole
    BY <1>7, <2>2 DEF Touches
  <2>. QED
    BY <1>2, <2>4, <2>5
<1>. QED
  BY <1>3, <1>5, <1>6, <1>7 DEF side

----------------------------------------------------------------------------
(* What `!w,h` comes to touches its box and lies in it.                    *)
LEMMA ConfinedInBox ==
  ASSUME NEW sz, sz.w \in Nat \ {0}, sz.h \in Nat \ {0},
         NEW rw \in Nat \ {0}, NEW rh \in Nat \ {0}, NEW s
  PROVE  LET out == ConfinedSize(sz, rw, rh, s)
         IN  /\ out.w \in Int /\ out.h \in Int
             /\ out.w <= sz.w /\ out.h <= sz.h
             /\ out.w = sz.w \/ out.h = sz.h
             /\ ~(sz.w > rw /\ sz.h > rh) => out.w <= rw /\ out.h <= rh
<1>. DEFINE across == Round(rh * sz.w, rw, "h" \in s)
            down == Round(rw * sz.h, rh, "w" \in s)
<1>1. rh * sz.w \in Nat /\ rw * sz.h \in Nat
  BY Product
<1>2. CASE sz.w * rh <= sz.h * rw
  <2>1. rh * sz.w <= sz.h * rw
    BY <1>2
  <2>2. across \in Int /\ across <= sz.h
    BY <1>1, <2>1, Rounded
  <2>3. sz.w <= rw => across <= rh
    <3>1. sz.w <= rw => rh * sz.w <= rh * rw
      OBVIOUS
    <3>. QED
      BY <1>1, <3>1, Rounded
  <2>4. sz.h <= rh => sz.w <= rw
    <3>. SUFFICES ASSUME sz.h <= rh, sz.w > rw
                  PROVE  FALSE
      OBVIOUS
    <3>1. sz.h * rw <= rh * rw /\ rw * rh < sz.w * rh
      OBVIOUS
    <3>. QED
      BY <1>2, <3>1
  <2>5. ConfinedSize(sz, rw, rh, s) = [w |-> sz.w, h |-> across]
    BY <1>2 DEF ConfinedSize
  <2>. HIDE DEF across
  <2>. QED
    BY <2>2, <2>3, <2>4, <2>5
<1>3. CASE ~(sz.w * rh <= sz.h * rw)
  <2>1. rw * sz.h <= sz.w * rh
    BY <1>3, Product
  <2>2. down \in Int /\ down <= sz.w
    BY <1>1, <2>1, Rounded
  <2>3. sz.h <= rh => down <= rw
    <3>1. sz.h <= rh => rw * sz.h <= rw * rh
      OBVIOUS
    <3>. QED
      BY <1>1, <3>1, Rounded
  <2>4. sz.w <= rw => sz.h <= rh
    <3>. SUFFICES ASSUME sz.w <= rw, sz.h > rh
                  PROVE  FALSE
      OBVIOUS
    <3>1. sz.w * rh <= rw * rh /\ rw * rh < sz.h * rw
      OBVIOUS
    <3>. QED
      BY <1>3, <3>1
  <2>5. ConfinedSize(sz, rw, rh, s) = [w |-> down, h |-> sz.h]
    BY <1>3 DEF ConfinedSize
  <2>. HIDE DEF down
  <2>. QED
    BY <2>2, <2>3, <2>4, <2>5
<1>. QED
  BY <1>2, <1>3

(* What the request names is what it gets.                                 *)
Named(sz, out) ==
  /\ sz.kind \in {"width", "exact"} => out.w = sz.w
  /\ sz.kind \in {"height", "exact"} => out.h = sz.h
  /\ sz.kind = "confined" => /\ out.w <= sz.w /\ out.h <= sz.h
                             /\ out.w = sz.w \/ out.h = sz.h

(* What is wanted, and without the flag not refused, names its dimensions  *)
(* and keeps them in the crop, so that the clamp has nothing to cut.       *)
LEMMA WantedNamed ==
  ASSUME NEW sz \in SizeForms, NEW rw \in Nat \ {0}, NEW rh \in Nat \ {0},
         NEW lim, lim.w \in Nat, lim.h \in Nat, lim.area \in Nat, NEW s,
         sz.up \/ ~AsksUpscale(sz, rw, rh)
  PROVE  LET out == Wanted(sz, rw, rh, lim, s)
         IN  /\ out.w \in Int /\ out.h \in Int /\ Named(sz, out)
             /\ ~sz.up /\ sz.kind \in {"width", "height", "exact", "confined"}
                  => out.w <= rw /\ out.h <= rh
<1>1. CASE sz.kind = "max"
  <2>1. /\ FitSide(rw, rh, lim.w, lim.h, lim.area, "w" \in s) \in Int
        /\ FitSide(rh, rw, lim.h, lim.w, lim.area, "h" \in s) \in Int
    BY FitSideBounds
  <2>2. MaxSize(sz.up, rw, rh, lim, s).w \in Int /\ MaxSize(sz.up, rw, rh, lim, s).h \in Int
    BY <2>1 DEF MaxSize
  <2>3. Wanted(sz, rw, rh, lim, s) = MaxSize(sz.up, rw, rh, lim, s)
    BY <1>1 DEF Wanted
  <2>. QED
    BY <1>1, <2>2, <2>3 DEF Named
<1>2. CASE sz.kind = "percent"
  <2>1. rw * sz.pct \in Nat /\ rh * sz.pct \in Nat
    BY <1>2, Product DEF SizeForms
  <2>2. Round(rw * sz.pct, 10000, "w" \in s) \in Int /\ Round(rh * sz.pct, 10000, "h" \in s) \in Int
    BY <2>1, RoundedPercent
  <2>3. Wanted(sz, rw, rh, lim, s) = [w |-> Round(rw * sz.pct, 10000, "w" \in s),
                                       h |-> Round(rh * sz.pct, 10000, "h" \in s)]
    BY <1>2 DEF Wanted
  <2>. QED
    BY <1>2, <2>2, <2>3 DEF Named
<1>3. CASE sz.kind = "width"
  <2>1. sz.w \in Nat /\ rh * sz.w \in Nat /\ (sz.w <= rw => rh * sz.w <= rh * rw)
    BY <1>3 DEF SizeForms
  <2>2. /\ Round(rh * sz.w, rw, "h" \in s) \in Int
        /\ sz.w <= rw => Round(rh * sz.w, rw, "h" \in s) <= rh
    BY <2>1, Rounded
  <2>3. Wanted(sz, rw, rh, lim, s) = [w |-> sz.w, h |-> Round(rh * sz.w, rw, "h" \in s)]
    BY <1>3 DEF Wanted
  <2>. QED
    BY <1>3, <2>1, <2>2, <2>3 DEF Named, AsksUpscale
<1>4. CASE sz.kind = "height"
  <2>1. sz.h \in Nat /\ rw * sz.h \in Nat /\ (sz.h <= rh => rw * sz.h <= rw * rh)
    BY <1>4 DEF SizeForms
  <2>2. /\ Round(rw * sz.h, rh, "w" \in s) \in Int
        /\ sz.h <= rh => Round(rw * sz.h, rh, "w" \in s) <= rw
    BY <2>1, Rounded
  <2>3. Wanted(sz, rw, rh, lim, s) = [w |-> Round(rw * sz.h, rh, "w" \in s), h |-> sz.h]
    BY <1>4 DEF Wanted
  <2>. QED
    BY <1>4, <2>1, <2>2, <2>3 DEF Named, AsksUpscale
<1>5. CASE sz.kind = "exact"
  BY <1>5 DEF Wanted, Named, AsksUpscale, SizeForms
<1>6. CASE sz.kind = "confined"
  <2>1. sz.w \in Nat \ {0} /\ sz.h \in Nat \ {0}
    BY <1>6 DEF SizeForms
  <2>2. Wanted(sz, rw, rh, lim, s) = ConfinedSize(sz, rw, rh, s)
    BY <1>6 DEF Wanted
  <2>3. ~sz.up => ~(sz.w > rw /\ sz.h > rh)
    BY <1>6 DEF AsksUpscale
  <2>. QED
    BY <1>6, <2>1, <2>2, <2>3, ConfinedInBox DEF Named
<1>. QED
  BY <1>1, <1>2, <1>3, <1>4, <1>5, <1>6 DEF SizeForms

(* A size that is not refused is what was named, and grows only with the   *)
(* flag; it is marked as larger when it is.                                *)
LEMMA SizeKept ==
  ASSUME NEW sz \in SizeForms, NEW rw \in Nat \ {0}, NEW rh \in Nat \ {0},
         NEW lim, lim.w \in Nat, lim.h \in Nat, lim.area \in Nat, NEW s,
         ResolveSize(sz, rw, rh, lim, s).ok
  PROVE  LET res == ResolveSize(sz, rw, rh, lim, s)
         IN  /\ Named(sz, res) /\ (~sz.up => res.w <= rw /\ res.h <= rh)
             /\ res.upscales = (res.w > rw \/ res.h > rh)
             /\ res = [ok |-> TRUE, w |-> res.w, h |-> res.h, upscales |-> res.upscales]
<1>. DEFINE out == Wanted(sz, rw, rh, lim, s)
            grows == out.w > rw \/ out.h > rh
            res == ResolveSize(sz, rw, rh, lim, s)
<1>1. sz.up \/ ~AsksUpscale(sz, rw, rh)
  BY DEF ResolveSize, Error
<1>2. /\ out.w \in Int /\ out.h \in Int /\ Named(sz, out)
      /\ ~sz.up /\ sz.kind \in {"width", "height", "exact", "confined"} => ~grows
  BY <1>1, WantedNamed
<1>3. res = IF grows /\ ~sz.up
            THEN [ok |-> TRUE, w |-> Min({out.w, rw}), h |-> Min({out.h, rh}), upscales |-> FALSE]
            ELSE [ok |-> TRUE, w |-> out.w, h |-> out.h, upscales |-> grows]
  BY <1>1 DEF ResolveSize
<1>4. /\ Min({out.w, rw}) = IF out.w <= rw THEN out.w ELSE rw
      /\ Min({out.h, rh}) = IF out.h <= rh THEN out.h ELSE rh
  BY <1>2, MinOfTwo
<1>. HIDE DEF out, res
<1>5. CASE grows /\ ~sz.up
  <2>1. res = [ok |-> TRUE, w |-> IF out.w <= rw THEN out.w ELSE rw,
               h |-> IF out.h <= rh THEN out.h ELSE rh, upscales |-> FALSE]
    BY <1>3, <1>4, <1>5
  <2>2. /\ res.w = (IF out.w <= rw THEN out.w ELSE rw)
        /\ res.h = (IF out.h <= rh THEN out.h ELSE rh) /\ res.upscales = FALSE
        /\ res = [ok |-> TRUE, w |-> res.w, h |-> res.h, upscales |-> res.upscales]
    BY <2>1
  <2>3. res.upscales = (res.w > rw \/ res.h > rh)
    <3>1. ~(res.w > rw) /\ ~(res.h > rh)
      BY <1>2, <2>2
    <3>. QED
      BY <2>2, <3>1
  <2>. QED
    BY <1>2, <1>5, <2>2, <2>3 DEF Named, res
<1>6. CASE ~(grows /\ ~sz.up)
  <2>1. res = [ok |-> TRUE, w |-> out.w, h |-> out.h, upscales |-> grows]
    BY <1>3, <1>6
  <2>2. /\ res.w = out.w /\ res.h = out.h /\ res.upscales = (res.w > rw \/ res.h > rh)
        /\ res = [ok |-> TRUE, w |-> res.w, h |-> res.h, upscales |-> res.upscales]
    BY <2>1
  <2>. QED
    BY <1>2, <1>6, <2>2 DEF Named, res
<1>. QED
  BY <1>5, <1>6

----------------------------------------------------------------------------
(* A v2 size read as v3 is one of the v3 forms.                            *)
LEMMA ReadV2Form == ASSUME NEW z \in SizeForms PROVE ReadV2(z) \in SizeForms
<1>1. CASE z \in [kind : {"max"}, up : BOOLEAN]
  BY <1>1 DEF ReadV2, SizeForms
<1>2. CASE z \in [kind : {"percent"}, up : BOOLEAN, pct : Nat]
  BY <1>2 DEF ReadV2, SizeForms
<1>3. CASE z \in [kind : {"width"}, up : BOOLEAN, w : Nat \ {0}]
  BY <1>3 DEF ReadV2, SizeForms
<1>4. CASE z \in [kind : {"height"}, up : BOOLEAN, h : Nat \ {0}]
  BY <1>4 DEF ReadV2, SizeForms
<1>5. CASE z \in [kind : {"exact", "confined"}, up : BOOLEAN, w : Nat \ {0}, h : Nat \ {0}]
  BY <1>5 DEF ReadV2, SizeForms
<1>. QED
  BY <1>1, <1>2, <1>3, <1>4, <1>5 DEF SizeForms

(* The invariant holds of every request as it arrives ...                  *)
LEMMA EvalInitIInv == ASSUME Parsed PROVE EvalInit => EvalIInv
<1>. SUFFICES ASSUME EvalInit PROVE EvalIInv
  OBVIOUS
<1>1. Sided(image) /\ region \in RegionForms
  BY EvalAssumption DEF EvalInit, Parsed, Sided
<1>2. size \in SizeForms
  <2>1. CASE version = "v3"
    BY <2>1 DEF EvalInit, Parsed
  <2>2. CASE version = "v2"
    <3>1. PICK z \in Sizes : size = ReadV2(z)
      BY <2>2 DEF EvalInit
    <3>. QED
      BY <3>1, ReadV2Form DEF Parsed
  <2>. QED
    BY <2>1, <2>2 DEF EvalInit
<1>3. limits.w \in Nat \ {0} /\ limits.h \in Nat \ {0} /\ limits.area \in Nat \ {0}
  BY EvalAssumption DEF EvalInit
<1>. QED
  BY <1>1, <1>2, <1>3 DEF EvalInit, EvalIInv, Asked

(* ... and of its answer.                                                  *)
LEMMA EvalStepIInv == EvalIInv /\ [Answer]_evalVars => EvalIInv'
BY DEF EvalIInv, Asked, Answer, evalVars

(* A plan is made of the crop and the size that were resolved, and is      *)
(* within the limits.                                                      *)
LEMMA Evaluated ==
  ASSUME NEW r, NEW sz, NEW img, NEW lim, NEW s, NEW p, p = Evaluate(r, sz, img, lim, s), p.ok
  PROVE  LET crop == ResolveRegion(r, img, s)
             res == ResolveSize(sz, crop.w, crop.h, lim, s)
         IN  /\ crop.ok /\ res.ok
             /\ p = [ok |-> TRUE, crop |-> crop, w |-> res.w, h |-> res.h,
                     upscales |-> res.upscales, wasMax |-> sz.kind = "max"]
             /\ ~(res.w = 0 \/ res.h = 0)
             /\ ~(res.w > lim.w \/ res.h > lim.h \/ res.w * res.h > lim.area)
<1>. DEFINE crop == ResolveRegion(r, img, s)
            res == ResolveSize(sz, crop.w, crop.h, lim, s)
            plan == [ok |-> TRUE, crop |-> crop, w |-> res.w, h |-> res.h,
                     upscales |-> res.upscales, wasMax |-> sz.kind = "max"]
            none == res.w = 0 \/ res.h = 0
            over == res.w > lim.w \/ res.h > lim.h \/ res.w * res.h > lim.area
<1>1. \A e : ~Error(e).ok
  BY DEF Error
<1>. HIDE DEF crop, res, none, over
<1>2. \/ p = crop /\ ~crop.ok
      \/ p = res /\ ~res.ok
      \/ p = Error("BelowOnePixel")
      \/ p = Error("ExceedsLimits")
      \/ p = plan /\ crop.ok /\ res.ok /\ ~none /\ ~over
  BY DEF Evaluate, crop, res, none, over
<1>3. p = plan /\ crop.ok /\ res.ok /\ ~none /\ ~over
  BY <1>1, <1>2
<1>. QED
  BY <1>3 DEF crop, res, none, over

(* An evaluation that is planned is over.                                  *)
LEMMA PlanIsEvaluated ==
  ASSUME EvalIInv, Planned
  PROVE  outcome = Evaluate(region, size, image, limits, slip)
<1>1. ~NotYet.ok
  BY DEF NotYet
<1>. HIDE DEF NotYet
<1>. QED
  BY <1>1 DEF EvalIInv, Planned

(* So much for the plan of the state.                                      *)
LEMMA PlanParts ==
  ASSUME EvalIInv, Planned
  PROVE  LET crop == ResolveRegion(region, image, slip)
             res == ResolveSize(size, crop.w, crop.h, limits, slip)
         IN  /\ crop.ok /\ res.ok
             /\ outcome = [ok |-> TRUE, crop |-> crop, w |-> res.w, h |-> res.h,
                           upscales |-> res.upscales, wasMax |-> size.kind = "max"]
             /\ ~(res.w = 0 \/ res.h = 0)
             /\ ~(res.w > limits.w \/ res.h > limits.h \/ res.w * res.h > limits.area)
BY PlanIsEvaluated, Evaluated DEF Planned

(* The crop of a plan is that of RegionInside.                             *)
LEMMA PlanCrop == ASSUME EvalIInv, Planned PROVE Inside(outcome.crop, image)
<1>1. outcome.crop = ResolveRegion(region, image, slip) /\ outcome.crop.ok
  BY PlanParts
<1>. QED
  BY <1>1, RegionInside DEF EvalIInv, Asked

(* The crop of every plan lies in its image and is never empty, whatever   *)
(* the region asked for and however f64 rounded it.                        *)
THEOREM CropsInside == ASSUME Parsed PROVE EvalSpec => []CropInsideImage
<1>1. EvalIInv => CropInsideImage
  BY PlanCrop DEF CropInsideImage, Inside
<1>. QED
  BY <1>1, EvalInitIInv, EvalStepIInv, PTL DEF EvalSpec

(* A size is answered as asked or refused: without the flag no plan grows, *)
(* the dimensions a request names are kept, and `!w,h` touches its box.    *)
THEOREM SizesKept == ASSUME Parsed PROVE EvalSpec => []AskedSizeOrRefused
<1>1. ASSUME EvalIInv, Planned
      PROVE  /\ ~size.up => outcome.w <= outcome.crop.w /\ outcome.h <= outcome.crop.h
             /\ Named(size, outcome)
  <2>. DEFINE rw == outcome.crop.w
              rh == outcome.crop.h
              res == ResolveSize(size, rw, rh, limits, slip)
  <2>1. res.ok /\ outcome.w = res.w /\ outcome.h = res.h
    BY <1>1, PlanParts
  <2>2. rw \in Nat \ {0} /\ rh \in Nat \ {0}
    <3>1. Inside(outcome.crop, image) /\ Sided(image)
      BY <1>1, PlanCrop DEF EvalIInv, Asked
    <3>. QED
      BY <3>1 DEF Inside, Sided
  <2>3. Named(size, res) /\ (~size.up => res.w <= rw /\ res.h <= rh)
    BY <1>1, <2>1, <2>2, SizeKept DEF EvalIInv, Asked
  <2>. HIDE DEF res
  <2>. QED
    BY <2>1, <2>3 DEF Named
<1>2. EvalIInv => AskedSizeOrRefused
  BY <1>1 DEF AskedSizeOrRefused, Named
<1>. QED
  BY <1>2, EvalInitIInv, EvalStepIInv, PTL DEF EvalSpec

----------------------------------------------------------------------------
(* What max comes to: the region as it is, or fitted to the limits, and    *)
(* cut to the region without the flag.                                     *)
LEMMA MaxResolved ==
  ASSUME NEW sz \in SizeForms, sz.kind = "max", NEW rw \in Nat \ {0}, NEW rh \in Nat \ {0},
         NEW lim, lim.w \in Nat, lim.h \in Nat, lim.area \in Nat, NEW s
  PROVE  LET res == ResolveSize(sz, rw, rh, lim, s)
             fits == rw <= lim.w /\ rh <= lim.h /\ rw * rh <= lim.area
             tight == rw = lim.w \/ rh = lim.h \/ rw * rh = lim.area
             fw == FitSide(rw, rh, lim.w, lim.h, lim.area, "w" \in s)
             fh == FitSide(rh, rw, lim.h, lim.w, lim.area, "h" \in s)
         IN  /\ res.ok
             /\ res = [ok |-> TRUE, w |-> res.w, h |-> res.h, upscales |-> res.upscales]
             /\ res.upscales <=> res.w > rw \/ res.h > rh
             /\ \/ fits /\ (~sz.up \/ tight) /\ res.w = rw /\ res.h = rh
                \/ /\ ~(fits /\ (~sz.up \/ tight))
                   /\ res.w = (IF ~sz.up /\ fw > rw THEN rw ELSE fw)
                   /\ res.h = (IF ~sz.up /\ fh > rh THEN rh ELSE fh)
<1>. DEFINE res == ResolveSize(sz, rw, rh, lim, s)
            fits == rw <= lim.w /\ rh <= lim.h /\ rw * rh <= lim.area
            tight == rw = lim.w \/ rh = lim.h \/ rw * rh = lim.area
            fw == FitSide(rw, rh, lim.w, lim.h, lim.area, "w" \in s)
            fh == FitSide(rh, rw, lim.h, lim.w, lim.area, "h" \in s)
            out == IF fits /\ (~sz.up \/ tight) THEN [w |-> rw, h |-> rh] ELSE [w |-> fw, h |-> fh]
            grows == out.w > rw \/ out.h > rh
<1>1. fw \in Nat /\ fh \in Nat
  BY FitSideBounds
<1>2. ~AsksUpscale(sz, rw, rh) /\ sz.up \in BOOLEAN
  BY DEF AsksUpscale, SizeForms
<1>3. Wanted(sz, rw, rh, lim, s) = out
  BY DEF Wanted, MaxSize
<1>. HIDE DEF out
<1>4. res = IF grows /\ ~sz.up
            THEN [ok |-> TRUE, w |-> Min({out.w, rw}), h |-> Min({out.h, rh}), upscales |-> FALSE]
            ELSE [ok |-> TRUE, w |-> out.w, h |-> out.h, upscales |-> grows]
  BY <1>2, <1>3 DEF ResolveSize
<1>. HIDE DEF fw, fh, res
<1>5. /\ out.w \in Nat /\ out.h \in Nat
      /\ \/ fits /\ (~sz.up \/ tight) /\ out.w = rw /\ out.h = rh
         \/ ~(fits /\ (~sz.up \/ tight)) /\ out.w = fw /\ out.h = fh
  <2>1. CASE fits /\ (~sz.up \/ tight)
    BY <2>1 DEF out
  <2>2. CASE ~(fits /\ (~sz.up \/ tight))
    BY <1>1, <2>2 DEF out
  <2>. QED
    BY <2>1, <2>2
<1>. HIDE DEF fits, tight
<1>6. /\ Min({out.w, rw}) = IF out.w <= rw THEN out.w ELSE rw
      /\ Min({out.h, rh}) = IF out.h <= rh THEN out.h ELSE rh
  BY <1>5, MinOfTwo
<1>7. CASE grows /\ ~sz.up
  <2>1. res = [ok |-> TRUE, w |-> IF out.w <= rw THEN out.w ELSE rw,
               h |-> IF out.h <= rh THEN out.h ELSE rh, upscales |-> FALSE]
    BY <1>4, <1>6, <1>7
  <2>2. /\ res.ok /\ res.w = (IF out.w <= rw THEN out.w ELSE rw)
        /\ res.h = (IF out.h <= rh THEN out.h ELSE rh) /\ res.upscales = FALSE
        /\ res = [ok |-> TRUE, w |-> res.w, h |-> res.h, upscales |-> res.upscales]
    BY <2>1
  <2>. QED
    BY <1>5, <1>7, <2>2 DEF res, fits, tight, fw, fh
<1>8. CASE ~(grows /\ ~sz.up)
  <2>1. res = [ok |-> TRUE, w |-> out.w, h |-> out.h, upscales |-> grows]
    BY <1>4, <1>8
  <2>2. /\ res.ok /\ res.w = out.w /\ res.h = out.h /\ res.upscales = grows
        /\ res = [ok |-> TRUE, w |-> res.w, h |-> res.h, upscales |-> res.upscales]
    BY <2>1
  <2>. QED
    BY <1>5, <1>8, <2>2 DEF res, fits, tight, fw, fh
<1>. QED
  BY <1>7, <1>8

(* What is one pixel wider no longer fits.                                 *)
LEMMA MaxWidth ==
  ASSUME NEW sz \in SizeForms, sz.kind = "max", NEW rw \in Nat \ {0}, NEW rh \in Nat \ {0},
         NEW lim, lim.w \in Nat, lim.h \in Nat, lim.area \in Nat, NEW s
  PROVE  LET wider == ResolveSize(sz, rw, rh, lim, s).w + IF "w" \in s THEN 2 ELSE 1
         IN  (~sz.up /\ wider > rw) \/ ~Fits(wider, rw, rh, lim.w, lim.h, lim.area)
<1>. DEFINE w == ResolveSize(sz, rw, rh, lim, s).w
            more == IF "w" \in s THEN 2 ELSE 1
            fits == rw <= lim.w /\ rh <= lim.h /\ rw * rh <= lim.area
            tight == rw = lim.w \/ rh = lim.h \/ rw * rh = lim.area
            fw == FitSide(rw, rh, lim.w, lim.h, lim.area, "w" \in s)
<1>1. \/ (~sz.up \/ tight) /\ w = rw
      \/ w = (IF ~sz.up /\ fw > rw THEN rw ELSE fw)
  BY MaxResolved
<1>2. fw \in Nat \ {0} /\ ~Fits(fw + more, rw, rh, lim.w, lim.h, lim.area) /\ more \in {1, 2}
  BY FitSideBounds
<1>. HIDE DEF w, fw, more
<1>3. CASE ~sz.up /\ w = rw
  BY <1>2, <1>3 DEF w, more
<1>4. CASE w = fw
  BY <1>2, <1>4 DEF w, more
<1>5. CASE tight /\ w = rw
  <2>1. w + more \in Nat /\ rw + 1 <= w + more
    BY <1>2, <1>5
  <2>2. (rw + 1) * rh <= (w + more) * rh /\ (rw + 1) * (rw + 1) * rh <= (w + more) * (w + more) * rh
    BY <2>1, Times
  <2>3. rw * rh < (rw + 1) * rh /\ rw * rw * rh < (rw + 1) * (rw + 1) * rh
    <3>1. (rw + 1) * rh = rw * rh + rh /\ (rw + 1) * (rw + 1) * rh = rw * rw * rh + 2 * (rw * rh) + rh
      OBVIOUS
    <3>2. rw * rh \in Nat /\ rw * rw * rh \in Nat
      BY Times
    <3>. QED
      BY <3>1, <3>2
  <2>4. /\ rw * rh \in Nat /\ rw * rw * rh \in Nat
        /\ (rw + 1) * rh \in Nat /\ (rw + 1) * (rw + 1) * rh \in Nat
        /\ (w + more) * rh \in Nat /\ (w + more) * (w + more) * rh \in Nat
    BY <2>1, Times
  <2>5. rw * rh < (w + more) * rh /\ rw * rw * rh < (w + more) * (w + more) * rh
    BY <2>2, <2>3, <2>4
  <2>6. rw * rh = lim.area => rw * rw * rh = lim.area * rw
    <3>1. rw * rw * rh = (rw * rh) * rw
      OBVIOUS
    <3>. QED
      BY <3>1
  <2>7. rh = lim.h => rw * rh = lim.h * rw
    OBVIOUS
  <2>8. ~Fits(w + more, rw, rh, lim.w, lim.h, lim.area)
    <3>1. CASE rw = lim.w
      BY <2>1, <3>1 DEF Fits
    <3>2. CASE rh = lim.h
      BY <2>4, <2>5, <2>7, <3>2 DEF Fits
    <3>3. CASE rw * rh = lim.area
      BY <2>4, <2>5, <2>6, <3>3 DEF Fits
    <3>. QED
      BY <1>5, <3>1, <3>2, <3>3
  <2>. QED
    BY <2>8 DEF w, more
<1>. QED
  BY <1>1, <1>3, <1>4, <1>5

(* resolve_size, max and ^max: the plan is the region in its proportions   *)
(* as large as the limits, and without the flag the region, let it be - up *)
(* to the one pixel f64 may lose.                                          *)
THEOREM MaxAsLargeAsAllowed == ASSUME Parsed PROVE EvalSpec => []MaxIsLargest
<1>1. ASSUME EvalIInv, Planned, size.kind = "max"
      PROVE  LET rw == outcome.crop.w
                 rh == outcome.crop.h
                 wider == outcome.w + IF "w" \in slip THEN 2 ELSE 1
             IN  \/ ~size.up /\ wider > rw
                 \/ wider > limits.w
                 \/ wider * rh > limits.h * rw
                 \/ wider * wider * rh > limits.area * rw
  <2>. DEFINE crop == ResolveRegion(region, image, slip)
              rw == crop.w
              rh == crop.h
              w == ResolveSize(size, rw, rh, limits, slip).w
              wider == w + IF "w" \in slip THEN 2 ELSE 1
  <2>1. outcome.crop = crop /\ outcome.w = w
    BY <1>1, PlanParts
  <2>2. Inside(crop, image)
    BY <1>1, <2>1, PlanCrop
  <2>. HIDE DEF crop
  <2>3. rw \in Nat \ {0} /\ rh \in Nat \ {0}
    BY <1>1, <2>2 DEF Inside, EvalIInv, Asked, Sided
  <2>4. size \in SizeForms /\ limits.w \in Nat /\ limits.h \in Nat /\ limits.area \in Nat
    BY <1>1 DEF EvalIInv, Asked
  <2>5. (~size.up /\ wider > rw) \/ ~Fits(wider, rw, rh, limits.w, limits.h, limits.area)
    BY <1>1, <2>3, <2>4, MaxWidth
  <2>6. wider \in Nat
    <3>1. FitSide(rw, rh, limits.w, limits.h, limits.area, "w" \in slip) \in Nat
      BY <2>3, <2>4, FitSideBounds
    <3>2. w \in Nat
      BY <1>1, <2>3, <2>4, <3>1, MaxResolved
    <3>. QED
      BY <3>2
  <2>. HIDE DEF w
  <2>7. /\ wider * rh \in Nat /\ wider * wider * rh \in Nat
        /\ limits.h * rw \in Nat /\ limits.area * rw \in Nat
    BY <2>3, <2>4, <2>6, Times
  <2>8. \/ ~size.up /\ wider > rw
        \/ wider > limits.w
        \/ wider * rh > limits.h * rw
        \/ wider * wider * rh > limits.area * rw
    <3>. HIDE DEF wider
    <3>. QED
      BY <2>4, <2>5, <2>6, <2>7 DEF Fits
  <2>. QED
    BY <2>1, <2>8
<1>2. EvalIInv => MaxIsLargest
  BY <1>1 DEF MaxIsLargest
<1>. QED
  BY <1>2, EvalInitIInv, EvalStepIInv, PTL DEF EvalSpec

(* Sides that are each within sqrt(area) in the region's proportions are   *)
(* within the area together.                                               *)
LEMMA SidesWithinArea ==
  ASSUME NEW w \in Nat, NEW h \in Nat, NEW rw \in Nat \ {0}, NEW rh \in Nat \ {0}, NEW area \in Nat,
         w * w * rh <= area * rw, h * h * rw <= area * rh
  PROVE  w * h <= area
<1>. DEFINE p == w * w * rh
            q == area * rw
            t == h * h * rw
            u == area * rh
            m == w * h
            k == rw * rh
<1>1. p \in Nat /\ q \in Nat /\ t \in Nat /\ u \in Nat /\ m \in Nat /\ k \in Nat \ {0}
  BY Times
<1>2. p * t = m * m * k /\ q * u = area * area * k
  OBVIOUS
<1>3. p <= q /\ t <= u
  OBVIOUS
<1>. HIDE DEF p, q, t, u, m, k
<1>4. p * t <= q * t /\ t * q <= u * q
  BY <1>1, <1>3, Times
<1>5. p * t <= q * u
  <2>1. q * t = t * q /\ u * q = q * u
    BY <1>1
  <2>2. p * t \in Nat /\ q * t \in Nat /\ q * u \in Nat
    BY <1>1, Product
  <2>. QED
    BY <1>4, <2>1, <2>2
<1>6. m <= area
  <2>. SUFFICES ASSUME area + 1 <= m PROVE FALSE
    BY <1>1
  <2>1. (area + 1) * (area + 1) * k <= m * m * k
    BY <1>1, Times
  <2>2. (area + 1) * (area + 1) * k = area * area * k + 2 * (area * k) + k
    BY <1>1
  <2>3. area * area * k \in Nat /\ area * k \in Nat
    BY <1>1, Times
  <2>. QED
    BY <1>1, <1>2, <1>5, <2>1, <2>2, <2>3
<1>. QED
  BY <1>6 DEF m

(* A side of more than the whole area, the other of one pixel, is that of  *)
(* a region thinner than the area.                                         *)
LEMMA ThinRegion ==
  ASSUME NEW h \in Nat, NEW rw \in Nat \ {0}, NEW rh \in Nat \ {0}, NEW area \in Nat \ {0},
         h > area, h * h * rw <= area * rh
  PROVE  area * rw < rh
<1>1. (area + 1) * (area + 1) * rw <= h * h * rw
  BY Times
<1>2. (area + 1) * (area + 1) * rw = area * (area * rw) + 2 * (area * rw) + rw
  OBVIOUS
<1>3. area * rw \in Nat /\ area * (area * rw) \in Nat /\ area * rh \in Nat /\ h * h * rw \in Nat
  BY Times, Product
<1>4. area * (area * rw) < area * rh
  BY <1>1, <1>2, <1>3
<1>. SUFFICES ASSUME rh <= area * rw PROVE FALSE
  BY <1>3
<1>5. rh * area <= (area * rw) * area
  BY <1>3, Times
<1>6. rh * area = area * rh /\ (area * rw) * area = area * (area * rw)
  BY <1>3
<1>. QED
  BY <1>3, <1>4, <1>5, <1>6

(* max leaves the limits only in such a region.                            *)
LEMMA MaxOverOnlyWhenThin ==
  ASSUME NEW sz \in SizeForms, sz.kind = "max", NEW rw \in Nat \ {0}, NEW rh \in Nat \ {0},
         NEW lim, lim.w \in Nat \ {0}, lim.h \in Nat \ {0}, lim.area \in Nat \ {0}, NEW s,
         LET res == ResolveSize(sz, rw, rh, lim, s)
         IN  res.w > lim.w \/ res.h > lim.h \/ res.w * res.h > lim.area
  PROVE  lim.area * rw < rh \/ lim.area * rh < rw
<1>. DEFINE w == ResolveSize(sz, rw, rh, lim, s).w
            h == ResolveSize(sz, rw, rh, lim, s).h
            fw == FitSide(rw, rh, lim.w, lim.h, lim.area, "w" \in s)
            fh == FitSide(rh, rw, lim.h, lim.w, lim.area, "h" \in s)
<1>1. /\ fw \in Nat \ {0} /\ (fw = 1 \/ Fits(fw, rw, rh, lim.w, lim.h, lim.area))
      /\ fh \in Nat \ {0} /\ (fh = 1 \/ Fits(fh, rh, rw, lim.h, lim.w, lim.area))
  BY FitSideBounds
<1>2. \/ rw <= lim.w /\ rh <= lim.h /\ rw * rh <= lim.area /\ w = rw /\ h = rh
      \/ w = (IF ~sz.up /\ fw > rw THEN rw ELSE fw) /\ h = (IF ~sz.up /\ fh > rh THEN rh ELSE fh)
  BY MaxResolved
<1>. HIDE DEF fw, fh
<1>3. w > lim.w \/ h > lim.h \/ w * h > lim.area
  OBVIOUS
<1>. HIDE DEF w, h
<1>4. w \in Nat /\ h \in Nat /\ w <= fw /\ h <= fh
  <2>1. CASE rw <= lim.w /\ rh <= lim.h /\ rw * rh <= lim.area /\ w = rw /\ h = rh
    BY <1>3, <2>1
  <2>2. CASE w = (IF ~sz.up /\ fw > rw THEN rw ELSE fw) /\ h = (IF ~sz.up /\ fh > rh THEN rh ELSE fh)
    BY <1>1, <2>2
  <2>. QED
    BY <1>2, <2>1, <2>2
<1>5. fw <= lim.w /\ fh <= lim.h
  BY <1>1 DEF Fits
<1>6. fw * fh > lim.area
  <2>1. w * h > lim.area
    BY <1>1, <1>3, <1>4, <1>5
  <2>2. w * h <= fw * h /\ h * fw <= fh * fw /\ h * fw = fw * h /\ fh * fw = fw * fh
    BY <1>1, <1>4, Times
  <2>3. w * h \in Nat /\ fw * h \in Nat /\ fw * fh \in Nat
    BY <1>1, <1>4, Product
  <2>. QED
    BY <2>1, <2>2, <2>3
<1>7. CASE fw = 1
  <2>1. fh > lim.area
    BY <1>1, <1>6, <1>7
  <2>2. fh * fh * rw <= lim.area * rh
    BY <1>1, <2>1 DEF Fits
  <2>. QED
    BY <1>1, <2>1, <2>2, ThinRegion
<1>8. CASE fh = 1
  <2>1. fw > lim.area
    BY <1>1, <1>6, <1>8
  <2>2. fw * fw * rh <= lim.area * rw
    BY <1>1, <2>1 DEF Fits
  <2>. QED
    BY <1>1, <2>1, <2>2, ThinRegion
<1>9. CASE fw # 1 /\ fh # 1
  <2>1. fw * fw * rh <= lim.area * rw /\ fh * fh * rw <= lim.area * rh
    BY <1>1, <1>9 DEF Fits
  <2>2. fw * fh <= lim.area
    BY <1>1, <2>1, SidesWithinArea
  <2>. QED
    BY <1>1, <1>6, <2>2, Product
<1>. QED
  BY <1>7, <1>8, <1>9

(* A region is resolved to a crop, or is out of bounds.                    *)
LEMMA RegionShape ==
  ASSUME NEW r \in RegionForms, NEW img, NEW s
  PROVE  LET crop == ResolveRegion(r, img, s)
         IN  \/ crop = Error("RegionOutOfBounds")
             \/ crop.ok /\ crop = Crop(crop.x, crop.y, crop.w, crop.h)
<1>1. CASE r.kind = "full"
  BY <1>1 DEF ResolveRegion, Crop
<1>2. CASE r.kind = "square"
  BY <1>2 DEF ResolveRegion, Crop
<1>3. CASE r.kind = "pixels"
  BY <1>3 DEF ResolveRegion, ResolvePixels, Crop
<1>4. CASE r.kind = "percent"
  <2>. DEFINE crop == ResolveRegion(r, img, s)
              px == Round(r.x * img.w, 10000, "w" \in s)
              py == Round(r.y * img.h, 10000, "h" \in s)
              pw == Round(r.w * img.w, 10000, "w" \in s)
              ph == Round(r.h * img.h, 10000, "h" \in s)
              cut == Crop(px, py, Min({pw, img.w - px}), Min({ph, img.h - py}))
  <2>1. crop = IF px >= img.w \/ py >= img.h \/ pw = 0 \/ ph = 0
               THEN Error("RegionOutOfBounds") ELSE cut
    BY <1>4 DEF ResolveRegion, ResolvePercent
  <2>. HIDE DEF crop, px, py, pw, ph
  <2>2. crop = Error("RegionOutOfBounds") \/ crop = cut
    BY <2>1
  <2>3. crop = Error("RegionOutOfBounds") \/ (crop.ok /\ crop = Crop(crop.x, crop.y, crop.w, crop.h))
    BY <2>2 DEF Crop
  <2>. QED
    BY <2>3 DEF crop
<1>. QED
  BY <1>1, <1>2, <1>3, <1>4 DEF RegionForms

(* The only request that leaves the limits.                                *)
LEMMA Refusal ==
  ASSUME EvalIInv, size.kind = "max", outcome = Error("ExceedsLimits")
  PROVE  LET crop == ResolveRegion(region, image, slip)
             res == ResolveSize(size, crop.w, crop.h, limits, slip)
         IN  /\ crop.ok
             /\ res.w > limits.w \/ res.h > limits.h \/ res.w * res.h > limits.area
<1>. DEFINE crop == ResolveRegion(region, image, slip)
            res == ResolveSize(size, crop.w, crop.h, limits, slip)
            plan == [ok |-> TRUE, crop |-> crop, w |-> res.w, h |-> res.h,
                     upscales |-> res.upscales, wasMax |-> size.kind = "max"]
            over == res.w > limits.w \/ res.h > limits.h \/ res.w * res.h > limits.area
<1>1. /\ NotYet # Error("ExceedsLimits") /\ Error("RegionOutOfBounds") # Error("ExceedsLimits")
      /\ Error("BelowOnePixel") # Error("ExceedsLimits") /\ ~Error("ExceedsLimits").ok
  <2>1. /\ NotYet.error = "not evaluated" /\ Error("RegionOutOfBounds").error = "RegionOutOfBounds"
        /\ Error("BelowOnePixel").error = "BelowOnePixel" /\ Error("ExceedsLimits").error = "ExceedsLimits"
        /\ ~Error("ExceedsLimits").ok
    BY DEF NotYet, Error
  <2>. HIDE DEF NotYet
  <2>. QED
    BY <2>1
<1>2. outcome = Evaluate(region, size, image, limits, slip)
  BY <1>1 DEF EvalIInv
<1>3. crop = Error("RegionOutOfBounds") \/ crop.ok
  BY RegionShape DEF EvalIInv, Asked
<1>4. plan.ok
  OBVIOUS
<1>5. crop.ok => res.ok
  <2>1. crop.ok => crop.w \in Nat \ {0} /\ crop.h \in Nat \ {0}
    <3>1. crop.ok => Inside(crop, image)
      BY RegionInside DEF EvalIInv, Asked
    <3>. QED
      BY <3>1 DEF Inside, EvalIInv, Asked, Sided
  <2>. HIDE DEF crop
  <2>. QED
    BY <2>1, MaxResolved DEF EvalIInv, Asked
<1>. HIDE DEF crop, res, over
<1>6. \/ outcome = crop /\ ~crop.ok
      \/ outcome = res /\ crop.ok /\ ~res.ok
      \/ outcome = Error("BelowOnePixel")
      \/ crop.ok /\ over
      \/ outcome = plan
  BY <1>2 DEF Evaluate, crop, res, over
<1>. HIDE DEF plan
<1>7. crop.ok /\ over
  BY <1>1, <1>3, <1>4, <1>5, <1>6
<1>. QED
  BY <1>7 DEF crop, res, over

(* resolve_size, max and ^max: it is refused only for a region so thin     *)
(* that its long side exceeds the area limit times its short one.          *)
THEOREM MaxRefusedOnlyIfThin == ASSUME Parsed PROVE EvalSpec => []MaxRefusedOnlyWhenThin
<1>1. ASSUME EvalIInv, size.kind = "max", outcome = Error("ExceedsLimits")
      PROVE  LET crop == ResolveRegion(region, image, slip)
             IN  limits.area * Min({crop.w, crop.h}) < Max({crop.w, crop.h})
  <2>. DEFINE crop == ResolveRegion(region, image, slip)
              rw == crop.w
              rh == crop.h
              res == ResolveSize(size, rw, rh, limits, slip)
  <2>1. crop.ok /\ (res.w > limits.w \/ res.h > limits.h \/ res.w * res.h > limits.area)
    BY <1>1, Refusal
  <2>2. Inside(crop, image)
    BY <1>1, <2>1, RegionInside DEF EvalIInv, Asked
  <2>. HIDE DEF crop
  <2>3. rw \in Nat \ {0} /\ rh \in Nat \ {0}
    BY <1>1, <2>2 DEF Inside, EvalIInv, Asked, Sided
  <2>. HIDE DEF rw, rh
  <2>4. /\ size \in SizeForms
        /\ limits.w \in Nat \ {0} /\ limits.h \in Nat \ {0} /\ limits.area \in Nat \ {0}
    BY <1>1 DEF EvalIInv, Asked
  <2>5. limits.area * rw < rh \/ limits.area * rh < rw
    BY <1>1, <2>1, <2>3, <2>4, MaxOverOnlyWhenThin
  <2>6. /\ Min({rw, rh}) = IF rw <= rh THEN rw ELSE rh
        /\ Max({rw, rh}) = IF rw >= rh THEN rw ELSE rh
    BY <2>3, MinOfTwo, MaxOfTwo
  <2>7. rw <= limits.area * rw /\ rh <= limits.area * rh
        /\ limits.area * rw \in Nat /\ limits.area * rh \in Nat
    BY <2>3, <2>4
  <2>. QED
    BY <2>3, <2>4, <2>5, <2>6, <2>7 DEF rw, rh, crop
<1>2. EvalIInv => MaxRefusedOnlyWhenThin
  BY <1>1 DEF MaxRefusedOnlyWhenThin
<1>. QED
  BY <1>2, EvalInitIInv, EvalStepIInv, PTL DEF EvalSpec

----------------------------------------------------------------------------
(* The canonical region of a crop inside the image is resolved to it.      *)
LEMMA CanonicalCrop ==
  ASSUME NEW plan, NEW img, Sided(img), NEW s, Inside(plan.crop, img),
         plan.crop = Crop(plan.crop.x, plan.crop.y, plan.crop.w, plan.crop.h)
  PROVE  ResolveRegion(CanonicalRegion(plan, img), img, s) = plan.crop
<1>1. CASE IsFullRegion(plan, img)
  BY <1>1 DEF IsFullRegion, CanonicalRegion, ResolveRegion
<1>2. CASE ~IsFullRegion(plan, img)
  <2>. DEFINE c == plan.crop
              r == [kind |-> "pixels", x |-> c.x, y |-> c.y, w |-> c.w, h |-> c.h]
  <2>1. /\ c.x \in Nat /\ c.y \in Nat /\ c.w \in Nat /\ c.h \in Nat
        /\ img.w \in Nat /\ img.h \in Nat
        /\ c.x < img.w /\ c.w <= img.w - c.x /\ c.y < img.h /\ c.h <= img.h - c.y
    BY DEF Inside, Sided
  <2>2. Min({c.w, img.w - c.x}) = c.w /\ Min({c.h, img.h - c.y}) = c.h
    BY <2>1, MinOfTwo
  <2>3. ResolveRegion(r, img, s) = Crop(c.x, c.y, c.w, c.h)
    BY <2>1, <2>2 DEF ResolveRegion, ResolvePixels
  <2>. QED
    BY <1>2, <2>3 DEF CanonicalRegion
<1>. QED
  BY <1>1, <1>2

(* A size spelled `w,h` or `^w,h` as it came out comes out the same.       *)
LEMMA CanonicalExact ==
  ASSUME NEW rw \in Nat \ {0}, NEW rh \in Nat \ {0}, NEW lim, NEW s, NEW w, NEW h, NEW grown,
         grown = (w > rw \/ h > rh)
  PROVE  ResolveSize([kind |-> "exact", up |-> grown, w |-> w, h |-> h], rw, rh, lim, s)
           = [ok |-> TRUE, w |-> w, h |-> h, upscales |-> grown]
<1>. DEFINE sz == [kind |-> "exact", up |-> grown, w |-> w, h |-> h]
            out == Wanted(sz, rw, rh, lim, s)
            grows == out.w > rw \/ out.h > rh
            asks == AsksUpscale(sz, rw, rh)
<1>1. sz.kind = "exact" /\ sz.up = grown /\ sz.w = w /\ sz.h = h
  OBVIOUS
<1>. HIDE DEF sz
<1>2. out = [w |-> w, h |-> h]
  BY <1>1 DEF Wanted
<1>3. asks = (w > rw \/ h > rh)
  BY <1>1 DEF AsksUpscale
<1>4. out.w = w /\ out.h = h
  BY <1>2
<1>5. ResolveSize(sz, rw, rh, lim, s) =
        IF ~sz.up /\ asks
        THEN Error("UpscaleWithoutFlag")
        ELSE IF grows /\ ~sz.up
             THEN [ok |-> TRUE, w |-> Min({out.w, rw}), h |-> Min({out.h, rh}), upscales |-> FALSE]
             ELSE [ok |-> TRUE, w |-> out.w, h |-> out.h, upscales |-> grows]
  BY DEF ResolveSize
<1>6. grows = grown /\ asks = grown /\ grown \in BOOLEAN
  BY <1>3, <1>4
<1>. HIDE DEF out, grows, asks
<1>7. ResolveSize(sz, rw, rh, lim, s) = [ok |-> TRUE, w |-> w, h |-> h, upscales |-> grown]
  BY <1>1, <1>4, <1>5, <1>6
<1>. QED
  BY <1>7 DEF sz

(* max that stayed within the region comes out the same without the flag.  *)
LEMMA CanonicalMax ==
  ASSUME NEW sz \in SizeForms, sz.kind = "max", NEW rw \in Nat \ {0}, NEW rh \in Nat \ {0},
         NEW lim, lim.w \in Nat, lim.h \in Nat, lim.area \in Nat, NEW s
  PROVE  LET res == ResolveSize(sz, rw, rh, lim, s)
         IN  ResolveSize([kind |-> "max", up |-> res.upscales], rw, rh, lim, s) = res
<1>. DEFINE res == ResolveSize(sz, rw, rh, lim, s)
            fits == rw <= lim.w /\ rh <= lim.h /\ rw * rh <= lim.area
            tight == rw = lim.w \/ rh = lim.h \/ rw * rh = lim.area
            fw == FitSide(rw, rh, lim.w, lim.h, lim.area, "w" \in s)
            fh == FitSide(rh, rw, lim.h, lim.w, lim.area, "h" \in s)
            flagless == [kind |-> "max", up |-> FALSE]
            again == ResolveSize(flagless, rw, rh, lim, s)
<1>1. /\ fw \in Nat \ {0} /\ fh \in Nat \ {0}
      /\ rw < lim.w /\ rh < lim.h /\ rw * rh < lim.area => rw <= fw /\ rh <= fh
  <2>1. rw * rh = rh * rw
    OBVIOUS
  <2>. QED
    BY <2>1, FitSideBounds
<1>2. flagless \in SizeForms /\ flagless.kind = "max" /\ ~flagless.up
  BY DEF SizeForms
<1>3. /\ res = [ok |-> TRUE, w |-> res.w, h |-> res.h, upscales |-> res.upscales]
      /\ res.upscales = (res.w > rw \/ res.h > rh)
      /\ ~sz.up => res.w <= rw /\ res.h <= rh
      /\ again = [ok |-> TRUE, w |-> again.w, h |-> again.h, upscales |-> again.upscales]
      /\ again.upscales = (again.w > rw \/ again.h > rh)
  <2>1. res.ok /\ again.ok
    BY <1>2, MaxResolved
  <2>. HIDE DEF flagless
  <2>. QED
    BY <1>2, <2>1, SizeKept
<1>4. \/ fits /\ (~sz.up \/ tight) /\ res.w = rw /\ res.h = rh
      \/ /\ ~(fits /\ (~sz.up \/ tight))
         /\ res.w = (IF ~sz.up /\ fw > rw THEN rw ELSE fw)
         /\ res.h = (IF ~sz.up /\ fh > rh THEN rh ELSE fh)
  BY MaxResolved
<1>5. \/ fits /\ again.w = rw /\ again.h = rh
      \/ /\ ~fits
         /\ again.w = (IF fw > rw THEN rw ELSE fw) /\ again.h = (IF fh > rh THEN rh ELSE fh)
  <2>. HIDE DEF flagless, fw, fh
  <2>1. \/ fits /\ (~flagless.up \/ tight) /\ again.w = rw /\ again.h = rh
        \/ /\ ~(fits /\ (~flagless.up \/ tight))
           /\ again.w = (IF ~flagless.up /\ fw > rw THEN rw ELSE fw)
           /\ again.h = (IF ~flagless.up /\ fh > rh THEN rh ELSE fh)
    BY <1>2, MaxResolved DEF fw, fh
  <2>. HIDE DEF fits, tight, again
  <2>. QED
    BY <1>2, <2>1
<1>6. rw * rh \in Nat
  BY Product
<1>7. sz.up \in BOOLEAN /\ sz = [kind |-> "max", up |-> sz.up]
  BY DEF SizeForms
<1>. HIDE DEF res, again, fw, fh, flagless
<1>8. CASE res.upscales = sz.up
  BY <1>7, <1>8 DEF res
<1>9. CASE res.upscales # sz.up
  <2>1. sz.up /\ res.upscales = FALSE /\ res.w <= rw /\ res.h <= rh
    <3>1. res.w \in Nat /\ res.h \in Nat
      BY <1>1, <1>4
    <3>2. sz.up
      BY <1>3, <1>7, <1>9, <3>1
    <3>3. ~res.upscales /\ res.upscales \in BOOLEAN
      BY <1>3, <1>7, <1>9, <3>2
    <3>4. ~(res.w > rw) /\ ~(res.h > rh)
      BY <1>3, <3>3
    <3>5. res.upscales = FALSE
      BY <3>3
    <3>. QED
      BY <3>1, <3>2, <3>4, <3>5
  <2>2. again.w = res.w /\ again.h = res.h
    <3>1. CASE ~fits
      BY <1>1, <1>4, <1>5, <2>1, <3>1
    <3>2. CASE fits /\ tight
      BY <1>4, <1>5, <3>2
    <3>3. CASE fits /\ ~tight
      <4>1. res.w = fw /\ res.h = fh /\ again.w = rw /\ again.h = rh
        BY <1>4, <1>5, <2>1, <3>3
      <4>2. rw < lim.w /\ rh < lim.h /\ rw * rh < lim.area
        BY <1>6, <3>3
      <4>. QED
        BY <1>1, <2>1, <4>1, <4>2
    <3>. QED
      BY <3>1, <3>2, <3>3
  <2>3. again = res
    BY <1>3, <2>1, <2>2
  <2>. QED
    BY <2>1, <2>3 DEF res, again, flagless
<1>. QED
  BY <1>8, <1>9 DEF res

(* The canonical spelling of a v3 plan is evaluated to the same plan.      *)
LEMMA CanonicalBack ==
  ASSUME NEW r \in RegionForms, NEW z \in SizeForms, NEW img, Sided(img),
         NEW lim, lim.w \in Nat, lim.h \in Nat, lim.area \in Nat, NEW s,
         NEW p, p = Evaluate(r, z, img, lim, s), p.ok
  PROVE  Evaluate(CanonicalRegion(p, img), CanonicalSize(p), img, lim, s) = p
<1>. DEFINE crop == ResolveRegion(r, img, s)
            rw == crop.w
            rh == crop.h
            res == ResolveSize(z, rw, rh, lim, s)
            sz == CanonicalSize(p)
            again == ResolveSize(sz, rw, rh, lim, s)
            none == res.w = 0 \/ res.h = 0
            over == res.w > lim.w \/ res.h > lim.h \/ res.w * res.h > lim.area
<1>1. /\ crop.ok /\ res.ok /\ ~none /\ ~over
      /\ p = [ok |-> TRUE, crop |-> crop, w |-> res.w, h |-> res.h,
              upscales |-> res.upscales, wasMax |-> z.kind = "max"]
  BY Evaluated
<1>2. /\ Sided(img) /\ r \in RegionForms /\ z \in SizeForms
      /\ lim.w \in Nat /\ lim.h \in Nat /\ lim.area \in Nat
  OBVIOUS
<1>3. Inside(crop, img) /\ crop = Crop(crop.x, crop.y, crop.w, crop.h)
  <2>1. ~Error("RegionOutOfBounds").ok
    BY DEF Error
  <2>2. crop.ok
    BY <1>1
  <2>. QED
    BY <1>2, <2>1, <2>2, RegionInside, RegionShape
<1>. HIDE DEF crop
<1>4. rw \in Nat \ {0} /\ rh \in Nat \ {0}
  BY <1>2, <1>3 DEF Inside, Sided
<1>5. p.crop = crop
  BY <1>1
<1>6. ResolveRegion(CanonicalRegion(p, img), img, s) = crop
  BY <1>2, <1>3, <1>5, CanonicalCrop
<1>. HIDE DEF rw, rh
<1>7. /\ res = [ok |-> TRUE, w |-> res.w, h |-> res.h, upscales |-> res.upscales]
      /\ res.upscales = (res.w > rw \/ res.h > rh)
  BY <1>1, <1>2, <1>4, SizeKept
<1>. HIDE DEF res, none, over
<1>8. again = res /\ (sz.kind = "max") = (z.kind = "max")
  <2>. p.wasMax = (z.kind = "max") /\ p.upscales = res.upscales /\ p.w = res.w /\ p.h = res.h
    BY <1>1
  <2>1. CASE z.kind = "max"
    <3>1. sz = [kind |-> "max", up |-> res.upscales]
      BY <2>1 DEF CanonicalSize
    <3>2. ResolveSize([kind |-> "max", up |-> res.upscales], rw, rh, lim, s) = res
      BY <1>2, <1>4, <2>1, CanonicalMax DEF res
    <3>. QED
      BY <2>1, <3>1, <3>2
  <2>2. CASE z.kind # "max"
    <3>1. sz = [kind |-> "exact", up |-> res.upscales, w |-> res.w, h |-> res.h]
      BY <2>2 DEF CanonicalSize
    <3>2. again = [ok |-> TRUE, w |-> res.w, h |-> res.h, upscales |-> res.upscales]
      <4>1. ResolveSize([kind |-> "exact", up |-> res.upscales, w |-> res.w, h |-> res.h], rw, rh, lim, s)
              = [ok |-> TRUE, w |-> res.w, h |-> res.h, upscales |-> res.upscales]
        <5>1. res.upscales = (res.w > rw \/ res.h > rh)
          BY <1>7
        <5>. QED
          BY <1>4, <5>1, CanonicalExact
      <4>. QED
        BY <3>1, <4>1, Zenon
    <3>3. again = res
      BY <1>7, <3>2
    <3>. QED
      BY <2>2, <3>1, <3>3
  <2>. QED
    BY <2>1, <2>2
<1>. HIDE DEF sz
<1>9. Evaluate(CanonicalRegion(p, img), sz, img, lim, s) =
        [ok |-> TRUE, crop |-> crop, w |-> res.w, h |-> res.h,
         upscales |-> res.upscales, wasMax |-> sz.kind = "max"]
  BY <1>1, <1>6, <1>8, Zenon DEF Evaluate, rw, rh, none, over
<1>. QED
  BY <1>1, <1>8, <1>9, Zenon DEF sz

(* Plan::canonical_path: the canonical spelling of a v3 plan is evaluated  *)
(* to the same plan, so the link a client is sent to leads to what it got. *)
THEOREM CanonicalLeadsBack == ASSUME Parsed PROVE EvalSpec => []CanonicalIsFixpoint
<1>1. EvalIInv => CanonicalIsFixpoint
  BY PlanIsEvaluated, CanonicalBack DEF CanonicalIsFixpoint, Planned, EvalIInv, Asked
<1>. QED
  BY <1>1, EvalInitIInv, EvalStepIInv, PTL DEF EvalSpec

----------------------------------------------------------------------------
(* What the v2 spelling of a plan keeps of its size: everything, or all    *)
(* that the width tells when the height goes with it.                      *)
SpelledWhole(p, img, sz) ==
  sz.kind = "exact" \/ (p.wasMax /\ IsFullRegion(p, img) /\ ~p.upscales)

HeightGoesWithWidth(p, s) == p.h = Round(p.crop.h * p.w, p.crop.w, "h" \in s)

(* `w,` and `w,h` with the flag are done to the letter.                    *)
LEMMA FlagObeyed ==
  ASSUME NEW y, y.up, NEW rw, NEW rh, NEW lim, NEW s, NEW w, NEW h,
         Wanted(y, rw, rh, lim, s) = [w |-> w, h |-> h]
  PROVE  LET res == ResolveSize(y, rw, rh, lim, s) IN res.ok /\ res.w = w /\ res.h = h
<1>. DEFINE out == Wanted(y, rw, rh, lim, s)
            res == ResolveSize(y, rw, rh, lim, s)
<1>1. res = [ok |-> TRUE, w |-> out.w, h |-> out.h, upscales |-> (out.w > rw \/ out.h > rh)]
  BY DEF ResolveSize
<1>2. out.w = w /\ out.h = h
  OBVIOUS
<1>. HIDE DEF out, res
<1>. QED
  BY <1>1, <1>2 DEF res

(* So the height of `w,` goes with its width ...                          *)
LEMMA FlaggedWidth ==
  ASSUME NEW y, NEW w, y = [kind |-> "width", up |-> TRUE, w |-> w],
         NEW rw, NEW rh, NEW lim, NEW s
  PROVE  LET res == ResolveSize(y, rw, rh, lim, s)
         IN  res.ok /\ res.w = w /\ res.h = Round(rh * w, rw, "h" \in s)
<1>1. Wanted(y, rw, rh, lim, s) = [w |-> w, h |-> Round(rh * w, rw, "h" \in s)] /\ y.up
  BY DEF Wanted
<1>. QED
  BY <1>1, FlagObeyed

(* ... and `w,h` is what it says.                                          *)
LEMMA FlaggedExact ==
  ASSUME NEW y, NEW w, NEW h, y = [kind |-> "exact", up |-> TRUE, w |-> w, h |-> h],
         NEW rw, NEW rh, NEW lim, NEW s
  PROVE  LET res == ResolveSize(y, rw, rh, lim, s) IN res.ok /\ res.w = w /\ res.h = h
<1>1. Wanted(y, rw, rh, lim, s) = [w |-> w, h |-> h] /\ y.up
  BY DEF Wanted
<1>. QED
  BY <1>1, FlagObeyed

(* What a size resolves to is the size of the plan, if it is one.          *)
LEMMA SameSizeAgain ==
  ASSUME NEW r, NEW z, NEW q, NEW y, NEW img, NEW lim, NEW s,
         NEW p, p = Evaluate(r, z, img, lim, s), p.ok,
         ResolveRegion(q, img, s) = ResolveRegion(r, img, s),
         ResolveSize(y, p.crop.w, p.crop.h, lim, s).ok
  PROVE  LET res == ResolveSize(y, p.crop.w, p.crop.h, lim, s)
             again == Evaluate(q, y, img, lim, s)
         IN  again.ok /\ again.w = p.w /\ again.h = p.h <=> res.w = p.w /\ res.h = p.h
<1>. DEFINE crop == ResolveRegion(r, img, s)
            first == ResolveSize(z, crop.w, crop.h, lim, s)
            res == ResolveSize(y, p.crop.w, p.crop.h, lim, s)
            again == Evaluate(q, y, img, lim, s)
<1>1. /\ crop.ok
      /\ p = [ok |-> TRUE, crop |-> crop, w |-> first.w, h |-> first.h,
              upscales |-> first.upscales, wasMax |-> z.kind = "max"]
      /\ ~(first.w = 0 \/ first.h = 0)
      /\ ~(first.w > lim.w \/ first.h > lim.h \/ first.w * first.h > lim.area)
  BY Evaluated
<1>. HIDE DEF crop, first
<1>2. p.crop = crop /\ p.w = first.w /\ p.h = first.h
  BY <1>1
<1>3. ResolveRegion(q, img, s) = crop /\ res = ResolveSize(y, crop.w, crop.h, lim, s) /\ res.ok
  BY <1>2 DEF crop
<1>. HIDE DEF res
<1>4. ASSUME res.w = p.w, res.h = p.h
      PROVE  again.ok /\ again.w = p.w /\ again.h = p.h
  <2>1. /\ ~(res.w = 0 \/ res.h = 0)
        /\ ~(res.w > lim.w \/ res.h > lim.h \/ res.w * res.h > lim.area)
    BY <1>1, <1>2, <1>4
  <2>2. again = [ok |-> TRUE, crop |-> crop, w |-> res.w, h |-> res.h,
                 upscales |-> res.upscales, wasMax |-> y.kind = "max"]
    BY <1>1, <1>3, <2>1, Zenon DEF Evaluate
  <2>. HIDE DEF again
  <2>. QED
    BY <1>4, <2>2
<1>5. ASSUME again.ok, again.w = p.w, again.h = p.h
      PROVE  res.w = p.w /\ res.h = p.h
  <2>1. again = [ok |-> TRUE, crop |-> crop, w |-> res.w, h |-> res.h,
                 upscales |-> res.upscales, wasMax |-> y.kind = "max"]
    BY <1>3, <1>5, Evaluated
  <2>. HIDE DEF again
  <2>. QED
    BY <1>5, <2>1
<1>. QED
  BY <1>4, <1>5 DEF res

(* Which v2 plans their canonical spelling leads back to.                  *)
LEMMA CanonicalV2Back ==
  ASSUME NEW r \in RegionForms, NEW z \in SizeForms, NEW img, Sided(img),
         NEW lim, lim.w \in Nat, lim.h \in Nat, lim.area \in Nat, NEW s,
         NEW p, p = Evaluate(r, z, img, lim, s), p.ok
  PROVE  LET again == Evaluate(CanonicalRegion(p, img), CanonicalV2Size(p, img, z), img, lim, s)
         IN  again.ok /\ again.w = p.w /\ again.h = p.h
               <=> SpelledWhole(p, img, z) \/ HeightGoesWithWidth(p, s)
<1>. DEFINE crop == ResolveRegion(r, img, s)
            rw == crop.w
            rh == crop.h
            first == ResolveSize(z, rw, rh, lim, s)
            y == CanonicalV2Size(p, img, z)
            res == ResolveSize(y, rw, rh, lim, s)
            again == Evaluate(CanonicalRegion(p, img), y, img, lim, s)
<1>1. /\ crop.ok /\ first.ok
      /\ p = [ok |-> TRUE, crop |-> crop, w |-> first.w, h |-> first.h,
              upscales |-> first.upscales, wasMax |-> z.kind = "max"]
  BY Evaluated
<1>2. /\ Sided(img) /\ r \in RegionForms /\ z \in SizeForms
      /\ lim.w \in Nat /\ lim.h \in Nat /\ lim.area \in Nat
  OBVIOUS
<1>3. Inside(crop, img) /\ crop = Crop(crop.x, crop.y, crop.w, crop.h)
  <2>1. ~Error("RegionOutOfBounds").ok
    BY DEF Error
  <2>. QED
    BY <1>1, <1>2, <2>1, RegionInside, RegionShape
<1>4. p.crop = crop /\ p.w = first.w /\ p.h = first.h /\ p.upscales = first.upscales
      /\ p.wasMax = (z.kind = "max")
  <2>. HIDE DEF crop, first
  <2>. QED
    BY <1>1
<1>5. ResolveRegion(CanonicalRegion(p, img), img, s) = crop
  <2>. HIDE DEF crop
  <2>. QED
    BY <1>2, <1>3, <1>4, CanonicalCrop
<1>6. res.ok => (again.ok /\ again.w = p.w /\ again.h = p.h <=> res.w = p.w /\ res.h = p.h)
  BY <1>4, <1>5, SameSizeAgain
<1>7. CASE z.kind = "max" /\ IsFullRegion(p, img) /\ ~p.upscales
  <2>1. y = [kind |-> "max", up |-> FALSE]
    BY <1>4, <1>7 DEF CanonicalV2Size
  <2>2. rw \in Nat \ {0} /\ rh \in Nat \ {0}
    <3>. HIDE DEF crop
    <3>. QED
      BY <1>2, <1>3 DEF Inside, Sided
  <2>3. first.upscales = FALSE
    <3>1. first.upscales = (first.w > rw \/ first.h > rh)
      <4>. HIDE DEF rw, rh
      <4>. QED
        BY <1>1, <1>2, <2>2, SizeKept
    <3>. QED
      BY <1>4, <1>7, <3>1
  <2>4. ResolveSize([kind |-> "max", up |-> first.upscales], rw, rh, lim, s) = first
    <3>. HIDE DEF rw, rh
    <3>. QED
      BY <1>2, <1>7, <2>2, CanonicalMax
  <2>5. res = first
    BY <2>1, <2>3, <2>4
  <2>. HIDE DEF res, first, again
  <2>. QED
    BY <1>1, <1>4, <1>6, <1>7, <2>5 DEF SpelledWhole, again
<1>8. CASE ~(z.kind = "max" /\ IsFullRegion(p, img) /\ ~p.upscales) /\ z.kind = "exact"
  <2>1. y = [kind |-> "exact", up |-> TRUE, w |-> p.w, h |-> p.h]
    BY <1>4, <1>8 DEF CanonicalV2Size
  <2>2. res.ok /\ res.w = p.w /\ res.h = p.h
    <3>. HIDE DEF rw, rh, y
    <3>. QED
      BY <2>1, FlaggedExact
  <2>. HIDE DEF res, again
  <2>. QED
    BY <1>6, <1>8, <2>2 DEF SpelledWhole, again
<1>9. CASE ~(z.kind = "max" /\ IsFullRegion(p, img) /\ ~p.upscales) /\ z.kind # "exact"
  <2>1. y = [kind |-> "width", up |-> TRUE, w |-> p.w]
    BY <1>4, <1>9 DEF CanonicalV2Size
  <2>2. res.ok /\ res.w = p.w /\ res.h = Round(rh * p.w, rw, "h" \in s)
    <3>. HIDE DEF rw, rh, y
    <3>. QED
      BY <2>1, FlaggedWidth
  <2>3. ~SpelledWhole(p, img, z)
    BY <1>4, <1>9 DEF SpelledWhole
  <2>4. HeightGoesWithWidth(p, s) <=> res.h = p.h
    BY <1>4, <2>2 DEF HeightGoesWithWidth
  <2>. HIDE DEF res, again
  <2>. QED
    BY <1>6, <2>2, <2>3, <2>4 DEF again
<1>. QED
  BY <1>7, <1>8, <1>9

(* The sizes that name their width outright.                               *)
WidthNamed(z) == z.kind \in {"width", "exact"}

(* v2::canonical_path of such a size leads back.                           *)
LEMMA WidthLeadsBack ==
  ASSUME NEW r, NEW z, z.up, WidthNamed(z), NEW img, NEW lim, NEW s,
         NEW p, p = Evaluate(r, z, img, lim, s), p.ok
  PROVE  SpelledWhole(p, img, z) \/ HeightGoesWithWidth(p, s)
<1>1. CASE z.kind = "exact"
  BY <1>1 DEF SpelledWhole
<1>2. CASE z.kind = "width"
  <2>. DEFINE crop == ResolveRegion(r, img, s)
              out == Wanted(z, crop.w, crop.h, lim, s)
              res == ResolveSize(z, crop.w, crop.h, lim, s)
  <2>1. p = [ok |-> TRUE, crop |-> crop, w |-> res.w, h |-> res.h,
             upscales |-> res.upscales, wasMax |-> z.kind = "max"]
    BY Evaluated
  <2>. HIDE DEF crop
  <2>2. res = [ok |-> TRUE, w |-> out.w, h |-> out.h, upscales |-> (out.w > crop.w \/ out.h > crop.h)]
    BY DEF ResolveSize
  <2>3. out = [w |-> z.w, h |-> Round(crop.h * z.w, crop.w, "h" \in s)]
    BY <1>2 DEF Wanted
  <2>. HIDE DEF res, out
  <2>4. p.crop = crop /\ p.w = z.w /\ p.h = Round(crop.h * z.w, crop.w, "h" \in s)
    BY <2>1, <2>2, <2>3
  <2>. QED
    BY <2>4 DEF HeightGoesWithWidth
<1>. QED
  BY <1>1, <1>2 DEF WidthNamed

(* Every number of a v2 size may upscale.                                  *)
Flagged == version = "v2" => size.up = (size.kind # "max")

(* What is true of v2 in the place of CanonicalV2IsFixpoint: the canonical *)
(* URL is that of the same image for every size that names a width and for *)
(* the whole image as max; for `,h`, `pct:`, `!w,h` and max of a region it *)
(* is so exactly where the height is the one that goes with the width.     *)
CanonicalV2Exactly ==
  Planned /\ version = "v2" =>
    LET again == Evaluate(CanonicalRegion(outcome, image), CanonicalV2Size(outcome, image, size),
                          image, limits, slip)
    IN  /\ again.ok /\ again.w = outcome.w /\ again.h = outcome.h
             <=> SpelledWhole(outcome, image, size) \/ HeightGoesWithWidth(outcome, slip)
        /\ WidthNamed(size) => again.ok /\ again.w = outcome.w /\ again.h = outcome.h

(* v2::canonical_path, for images, limits and v2 requests of any size.     *)
THEOREM CanonicalV2LeadsBackExactly == ASSUME Parsed PROVE EvalSpec => []CanonicalV2Exactly
<1>1. EvalInit => EvalIInv /\ Flagged
  <2>. SUFFICES ASSUME EvalInit, version = "v2"
                PROVE  size.up = (size.kind # "max")
    BY EvalInitIInv DEF Flagged
  <2>1. PICK z \in Sizes : size = [z EXCEPT !.up = (z.kind # "max")]
    BY DEF EvalInit, ReadV2
  <2>2. z \in SizeForms
    BY <2>1 DEF Parsed
  <2>. QED
    BY <2>1, <2>2 DEF SizeForms
<1>2. EvalIInv /\ Flagged /\ [Answer]_evalVars => (EvalIInv /\ Flagged)'
  BY EvalStepIInv DEF Flagged, Answer, evalVars
<1>3. EvalIInv /\ Flagged => CanonicalV2Exactly
  <2>. SUFFICES ASSUME EvalIInv, Flagged, Planned, version = "v2"
                PROVE  CanonicalV2Exactly
    BY DEF CanonicalV2Exactly
  <2>1. outcome = Evaluate(region, size, image, limits, slip) /\ outcome.ok
    BY PlanIsEvaluated DEF Planned
  <2>2. /\ region \in RegionForms /\ size \in SizeForms /\ Sided(image)
        /\ limits.w \in Nat /\ limits.h \in Nat /\ limits.area \in Nat
    BY DEF EvalIInv, Asked
  <2>3. WidthNamed(size) => size.up
    BY DEF Flagged, WidthNamed
  <2>4. WidthNamed(size) => SpelledWhole(outcome, image, size) \/ HeightGoesWithWidth(outcome, slip)
    BY <2>1, <2>3, WidthLeadsBack
  <2>. QED
    BY <2>1, <2>2, <2>4, CanonicalV2Back DEF CanonicalV2Exactly
<1>. QED
  BY <1>1, <1>2, <1>3, PTL DEF EvalSpec

----------------------------------------------------------------------------

(* The table that Decode reads its result from.                            *)
IsReader(g, raw) ==
  g = [n \in 0..Len(raw) |->
         IF n = 0 THEN <<>>
         ELSE IF raw[n] = "%" THEN g[n - 1]
         ELSE Append(g[n - 1], IF n > 1 /\ raw[n - 1] = "%" THEN Unescaped[raw[n]] ELSE raw[n])]

(* There is one for every segment: by its prefixes.                        *)
LEMMA ReaderExists ==
  ASSUME NEW raw, Len(raw) \in Nat
  PROVE  \E g : IsReader(g, raw)
<1>. DEFINE body(g, n) ==
              IF n = 0 THEN <<>>
              ELSE IF raw[n] = "%" THEN g[n - 1]
              ELSE Append(g[n - 1], IF n > 1 /\ raw[n - 1] = "%" THEN Unescaped[raw[n]] ELSE raw[n])
            Good == {k \in Nat : \E g : g = [n \in 0..k |-> body(g, n)]}
<1>1. 0 \in Good
  <2>. DEFINE g == [n \in 0..0 |-> <<>>]
  <2>1. g = [n \in 0..0 |-> body(g, n)]
    OBVIOUS
  <2>. QED
    BY <2>1
<1>2. ASSUME NEW k \in Nat, k \in Good
      PROVE  k + 1 \in Good
  <2>1. PICK g : g = [n \in 0..k |-> body(g, n)]
    BY <1>2
  <2>. DEFINE h == [n \in 0..(k + 1) |-> body(g, n)]
  <2>2. \A n \in 0..k : h[n] = g[n]
    <3>. TAKE n \in 0..k
    <3>. HIDE DEF body
    <3>1. n \in 0..(k + 1) /\ g[n] = body(g, n)
      BY <2>1
    <3>. QED
      BY <3>1
  <2>. HIDE DEF h
  <2>3. \A n \in 0..(k + 1) : body(g, n) = body(h, n)
    BY <2>2
  <2>4. h = [n \in 0..(k + 1) |-> body(h, n)]
    <3>. HIDE DEF body
    <3>. QED
      BY <2>3 DEF h
  <2>. HIDE DEF body
  <2>. QED
    BY <2>4
<1>3. \A k \in Nat : k \in Good
  <2>. HIDE DEF Good
  <2>. QED
    BY <1>1, <1>2, CountingUp
<1>. QED
  BY <1>3 DEF IsReader

(* ... and no two.                                                         *)
LEMMA ReaderUnique ==
  ASSUME NEW raw, Len(raw) \in Nat, NEW g, IsReader(g, raw), NEW h, IsReader(h, raw)
  PROVE  g = h
<1>. DEFINE body(f, n) ==
              IF n = 0 THEN <<>>
              ELSE IF raw[n] = "%" THEN f[n - 1]
              ELSE Append(f[n - 1], IF n > 1 /\ raw[n - 1] = "%" THEN Unescaped[raw[n]] ELSE raw[n])
            Same == {n \in Nat : n \in 0..Len(raw) => g[n] = h[n]}
<1>1. 0 \in Same
  BY DEF IsReader
<1>2. ASSUME NEW n \in Nat, n \in Same
      PROVE  n + 1 \in Same
  <2>. SUFFICES ASSUME n + 1 \in 0..Len(raw)
                PROVE  g[n + 1] = h[n + 1]
    OBVIOUS
  <2>1. g[n] = h[n] /\ n + 1 # 0 /\ (n + 1) - 1 = n
    BY <1>2
  <2>2. /\ g[n + 1] = body(g, n + 1)
        /\ h[n + 1] = body(h, n + 1)
    <3>. HIDE DEF body
    <3>1. g = [m \in 0..Len(raw) |-> body(g, m)] /\ h = [m \in 0..Len(raw) |-> body(h, m)]
      BY DEF IsReader, body
    <3>. QED
      BY <3>1
  <2>. QED
    BY <2>1, <2>2
<1>3. \A n \in Nat : n \in Same
  <2>. HIDE DEF Same
  <2>. QED
    BY <1>1, <1>2, CountingUp
<1>4. /\ DOMAIN g = 0..Len(raw) /\ g = [n \in DOMAIN g |-> g[n]]
      /\ DOMAIN h = 0..Len(raw) /\ h = [n \in DOMAIN h |-> h[n]]
  BY DEF IsReader
<1>. QED
  BY <1>3, <1>4

(* So any such table tells what Decode yields.                             *)
LEMMA DecodeReads ==
  ASSUME NEW raw, Len(raw) \in Nat, NEW g, IsReader(g, raw)
  PROVE  LET id == g[Len(raw)]
         IN  Decode(raw) = IF raw = <<>> \/ BadEscape(raw) \/ ToSet(id) \cap Refused # {} \/ Traverses(id)
                           THEN {} ELSE {id}
<1>. DEFINE read == CHOOSE f : IsReader(f, raw)
<1>1. read = g
  BY ReaderUnique
<1>2. Decode(raw) = LET id == read[Len(raw)] IN
        IF raw = <<>> \/ BadEscape(raw) \/ ToSet(id) \cap Refused # {} \/ Traverses(id)
        THEN {} ELSE {id}
  BY SMT DEF Decode, IsReader
<1>. QED
  BY <1>1, <1>2

(* What texts are made of: strings, all of them, but no prover knows that  *)
(* "/" is in STRING.                                                       *)
Lexeme == STRING \cup Marks \cup Qualities \cup Formats \cup Refused
            \cup {"/", "%", " ", ".", "2F", "25", "20", "0", "360", "info.json", "v2", "v3", "none"}

(* The characters an escape stands for.                                    *)
LEMMA UnescapedType == \A pair \in DOMAIN Unescaped : Unescaped[pair] \in Lexeme
<1>. SUFFICES ASSUME NEW pair \in DOMAIN Unescaped
              PROVE  Unescaped[pair] \in Lexeme
  OBVIOUS
<1>1. pair \in {"2F", "2f", "25", "20", "2E", "5C", "00", "FF"}
  BY DEF Unescaped
<1>2. Unescaped[pair] \in {"/", "%", " ", ".", "\\", "NUL", "not UTF-8"}
  BY <1>1 DEF Unescaped
<1>. QED
  BY <1>2 DEF Lexeme, Refused

(* What Decode yields is an identifier: characters, none of them refused,  *)
(* and no way out of the root.                                             *)
LEMMA Decoded ==
  ASSUME NEW raw \in Seq(Lexeme), Decode(raw) # {}
  PROVE  \E id \in Seq(Lexeme) :
           /\ Decode(raw) = {id} /\ id # <<>>
           /\ ToSet(id) \cap Refused = {} /\ ~Traverses(id)
<1>1. PICK g : IsReader(g, raw)
  BY ReaderExists
<1>2. /\ Decode(raw) = {g[Len(raw)]} /\ raw # <<>> /\ ~BadEscape(raw)
      /\ ToSet(g[Len(raw)]) \cap Refused = {} /\ ~Traverses(g[Len(raw)])
  BY <1>1, DecodeReads
<1>. DEFINE Typed == {n \in Nat : n \in 0..Len(raw) => g[n] \in Seq(Lexeme)}
            char(n) == IF n > 1 /\ raw[n - 1] = "%" THEN Unescaped[raw[n]] ELSE raw[n]
<1>3. /\ g[0] = <<>>
      /\ \A n \in 1..Len(raw) : g[n] = IF raw[n] = "%" THEN g[n - 1] ELSE Append(g[n - 1], char(n))
  <2>. DEFINE body(n) == IF n = 0 THEN <<>>
                         ELSE IF raw[n] = "%" THEN g[n - 1] ELSE Append(g[n - 1], char(n))
  <2>1. g = [n \in 0..Len(raw) |-> body(n)]
    BY <1>1 DEF IsReader
  <2>2. \A n \in 0..Len(raw) : g[n] = body(n)
    <3>. HIDE DEF body
    <3>. QED
      BY <2>1
  <2>3. 0 \in 0..Len(raw) /\ Len(raw) \in Nat
    OBVIOUS
  <2>4. ASSUME NEW n \in 1..Len(raw)
        PROVE  g[n] = IF raw[n] = "%" THEN g[n - 1] ELSE Append(g[n - 1], char(n))
    <3>1. n \in 0..Len(raw) /\ n # 0
      BY <2>3
    <3>. HIDE DEF char
    <3>. QED
      BY <2>2, <3>1
  <2>. HIDE DEF char
  <2>. QED
    BY <2>2, <2>3, <2>4
<1>4. ASSUME NEW n \in 1..Len(raw)
      PROVE  char(n) \in Lexeme
  <2>1. raw[n] \in Lexeme
    OBVIOUS
  <2>2. CASE n > 1 /\ raw[n - 1] = "%"
    <3>1. n - 1 \in DOMAIN raw /\ n - 1 # Len(raw) /\ (n - 1) + 1 = n
      BY <2>2
    <3>2. raw[n] \in DOMAIN Unescaped
      BY <1>2, <2>2, <3>1 DEF BadEscape
    <3>. QED
      BY <2>2, <3>2, UnescapedType
  <2>. QED
    BY <2>1, <2>2
<1>. HIDE DEF char
<1>5. 0 \in Typed
  <2>1. g[0] \in Seq(Lexeme)
    BY <1>3, EmptySeq
  <2>. QED
    BY <2>1
<1>6. ASSUME NEW n \in Nat, n \in Typed
      PROVE  n + 1 \in Typed
  <2>. SUFFICES ASSUME n + 1 \in 0..Len(raw)
                PROVE  g[n + 1] \in Seq(Lexeme)
    OBVIOUS
  <2>1. n + 1 \in 1..Len(raw) /\ (n + 1) - 1 = n /\ g[n] \in Seq(Lexeme)
    BY <1>6
  <2>2. char(n + 1) \in Lexeme
    BY <1>4, <2>1
  <2>3. g[n + 1] = IF raw[n + 1] = "%" THEN g[n] ELSE Append(g[n], char(n + 1))
    BY <1>3, <2>1
  <2>4. Append(g[n], char(n + 1)) \in Seq(Lexeme)
    <3>. HIDE DEF Typed
    <3>. QED
      BY <2>1, <2>2, AppendProperties
  <2>. QED
    BY <2>1, <2>3, <2>4
<1>7. \A n \in Nat : n \in Typed
  <2>. HIDE DEF Typed
  <2>. QED
    BY <1>5, <1>6, CountingUp
<1>8. Len(raw) \in Nat \ {0} /\ raw[Len(raw)] # "%"
  <2>1. Len(raw) \in Nat \ {0} /\ Len(raw) \in DOMAIN raw
    BY <1>2, EmptySeq
  <2>. QED
    BY <1>2, <2>1 DEF BadEscape
<1>9. g[Len(raw)] # <<>> /\ g[Len(raw)] \in Seq(Lexeme)
  <2>1. Len(raw) \in 1..Len(raw) /\ Len(raw) - 1 \in Nat
    BY <1>8
  <2>2. g[Len(raw)] = Append(g[Len(raw) - 1], char(Len(raw)))
    BY <1>3, <1>8, <2>1
  <2>3. g[Len(raw) - 1] \in Seq(Lexeme) /\ char(Len(raw)) \in Lexeme
    BY <1>4, <1>7, <2>1
  <2>. QED
    BY <1>7, <2>2, <2>3
<1>. QED
  BY <1>2, <1>9

----------------------------------------------------------------------------
(* The table that FlattenSeq reads its result from.                        *)
IsFlattener(f, s) == f = [i \in 1..Len(s) |-> IF i = 1 THEN s[i] ELSE f[i - 1] \o s[i]]

(* There is one, and FlattenSeq uses one.                                  *)
LEMMA FlattenedFrom ==
  ASSUME NEW s, Len(s) \in Nat \ {0}
  PROVE  \E f : IsFlattener(f, s) /\ FlattenSeq(s) = f[Len(s)]
<1>. DEFINE body(f, i) == IF i = 1 THEN s[i] ELSE f[i - 1] \o s[i]
            Good == {k \in Nat : \E f : f = [i \in 1..k |-> body(f, i)]}
<1>1. 0 \in Good
  <2>. DEFINE f == [i \in 1..0 |-> <<>>]
  <2>1. f = [i \in 1..0 |-> body(f, i)]
    OBVIOUS
  <2>. QED
    BY <2>1
<1>2. ASSUME NEW k \in Nat, k \in Good
      PROVE  k + 1 \in Good
  <2>1. PICK f : f = [i \in 1..k |-> body(f, i)]
    BY <1>2
  <2>. DEFINE h == [i \in 1..(k + 1) |-> body(f, i)]
  <2>2. \A i \in 1..k : h[i] = f[i]
    <3>. TAKE i \in 1..k
    <3>. HIDE DEF body
    <3>1. i \in 1..(k + 1) /\ f[i] = body(f, i)
      BY <2>1
    <3>. QED
      BY <3>1
  <2>. HIDE DEF h
  <2>3. \A i \in 1..(k + 1) : body(f, i) = body(h, i)
    BY <2>2
  <2>4. h = [i \in 1..(k + 1) |-> body(h, i)]
    <3>. HIDE DEF body
    <3>. QED
      BY <2>3 DEF h
  <2>5. k + 1 \in Nat /\ \E f2 : f2 = [i \in 1..(k + 1) |-> body(f2, i)]
    <3>. HIDE DEF body
    <3>. QED
      BY <2>4
  <2>. QED
    BY <2>5, Zenon
<1>3. \A k \in Nat : k \in Good
  <2>. HIDE DEF Good
  <2>. QED
    BY <1>1, <1>2, CountingUp
<1>4. \E f : IsFlattener(f, s)
  BY <1>3 DEF IsFlattener
<1>5. FlattenSeq(s) = (CHOOSE f : IsFlattener(f, s))[Len(s)]
  BY DEF FlattenSeq, IsFlattener
<1>. QED
  BY <1>4, <1>5

(* An escaped character is text.                                           *)
LEMMA EscapeType == ASSUME NEW c \in Lexeme PROVE Escape(c) \in Seq(Lexeme)
<1>1. CASE c \in DOMAIN Escaped
  <2>1. Escaped[c] \in Lexeme /\ "%" \in Lexeme
    BY <1>1 DEF Escaped, Lexeme
  <2>. QED
    BY <1>1, <2>1 DEF Escape
<1>2. CASE c \notin DOMAIN Escaped
  BY <1>2 DEF Escape
<1>. QED
  BY <1>1, <1>2

(* A segment that was read to id as far as it goes, with no escape left    *)
(* open at its end.                                                        *)
Complete(raw, id) ==
  /\ raw \in Seq(Lexeme) /\ ~BadEscape(raw)
  /\ raw = <<>> \/ raw[Len(raw)] # "%"
  /\ \E g : IsReader(g, raw) /\ g[Len(raw)] = id

(* The rest of a table: what a reader has after n lexemes.                 *)
LEMMA ReaderAt ==
  ASSUME NEW raw, Len(raw) \in Nat, NEW g,
         g = [n \in 0..Len(raw) |-> g[n]],
         g[0] = <<>>,
         \A n \in 1..Len(raw) :
           g[n] = IF raw[n] = "%" THEN g[n - 1]
                  ELSE Append(g[n - 1], IF n > 1 /\ raw[n - 1] = "%" THEN Unescaped[raw[n]] ELSE raw[n])
  PROVE  IsReader(g, raw)
<1>. DEFINE body(n) ==
              IF n = 0 THEN <<>>
              ELSE IF raw[n] = "%" THEN g[n - 1]
              ELSE Append(g[n - 1], IF n > 1 /\ raw[n - 1] = "%" THEN Unescaped[raw[n]] ELSE raw[n])
<1>1. \A n \in 0..Len(raw) : g[n] = body(n)
  <2>. TAKE n \in 0..Len(raw)
  <2>1. CASE n = 0
    BY <2>1
  <2>2. CASE n # 0
    <3>1. n \in 1..Len(raw)
      BY <2>2
    <3>. QED
      BY <2>2, <3>1
  <2>. QED
    BY <2>1, <2>2
<1>2. g = [n \in 0..Len(raw) |-> body(n)]
  <2>. HIDE DEF body
  <2>. QED
    BY <1>1
<1>. QED
  BY <1>2 DEF IsReader

(* What a table of a reader has, step by step.                             *)
LEMMA ReaderHas ==
  ASSUME NEW raw, Len(raw) \in Nat, NEW g, IsReader(g, raw)
  PROVE  /\ g[0] = <<>>
         /\ \A n \in 1..Len(raw) :
              g[n] = IF raw[n] = "%" THEN g[n - 1]
                     ELSE Append(g[n - 1], IF n > 1 /\ raw[n - 1] = "%" THEN Unescaped[raw[n]] ELSE raw[n])
<1>. DEFINE body(n) ==
              IF n = 0 THEN <<>>
              ELSE IF raw[n] = "%" THEN g[n - 1]
              ELSE Append(g[n - 1], IF n > 1 /\ raw[n - 1] = "%" THEN Unescaped[raw[n]] ELSE raw[n])
<1>1. \A n \in 0..Len(raw) : g[n] = body(n)
  <2>1. g = [n \in 0..Len(raw) |-> body(n)]
    BY DEF IsReader
  <2>. HIDE DEF body
  <2>. QED
    BY <2>1
<1>2. g[0] = body(0)
  <2>. HIDE DEF body
  <2>. QED
    BY <1>1
<1>3. ASSUME NEW n \in 1..Len(raw)
      PROVE  g[n] = IF raw[n] = "%" THEN g[n - 1]
                    ELSE Append(g[n - 1], IF n > 1 /\ raw[n - 1] = "%" THEN Unescaped[raw[n]] ELSE raw[n])
  <2>1. n \in 0..Len(raw) /\ n # 0
    OBVIOUS
  <2>2. g[n] = body(n)
    <3>. HIDE DEF body
    <3>. QED
      BY <1>1, <2>1
  <2>. QED
    BY <2>1, <2>2
<1>. QED
  BY <1>2, <1>3

(* A character more, escaped or not, adds itself to what is read.          *)
LEMMA EscapedIsRead ==
  ASSUME NEW raw, NEW id \in Seq(Lexeme), Complete(raw, id), NEW c \in Lexeme
  PROVE  Complete(raw \o Escape(c), Append(id, c))
<1>. DEFINE L == Len(raw)
            w == raw \o Escape(c)
<1>1. raw \in Seq(Lexeme) /\ ~BadEscape(raw) /\ (raw = <<>> \/ raw[L] # "%") /\ L \in Nat
  BY DEF Complete
<1>2. PICK g : IsReader(g, raw) /\ g[L] = id
  BY DEF Complete
<1>3. /\ g[0] = <<>>
      /\ \A n \in 1..L :
           g[n] = IF raw[n] = "%" THEN g[n - 1]
                  ELSE Append(g[n - 1], IF n > 1 /\ raw[n - 1] = "%" THEN Unescaped[raw[n]] ELSE raw[n])
  BY <1>1, <1>2, ReaderHas
<1>4. CASE c \in DOMAIN Escaped
  <2>1. /\ Escaped[c] \in {"2F", "25", "20"} /\ Escaped[c] \in DOMAIN Unescaped
        /\ Unescaped[Escaped[c]] = c
    BY <1>4 DEF Escaped, Unescaped
  <2>2. Escape(c) = <<"%", Escaped[c]>> /\ Escaped[c] \in Lexeme /\ "%" \in Lexeme
    BY <1>4, <2>1 DEF Escape, Lexeme
  <2>. DEFINE e == Escaped[c]
  <2>3. e # "%"
    BY <2>1
  <2>. HIDE DEF e
  <2>4. /\ w \in Seq(Lexeme) /\ Len(w) = L + 2
        /\ \A n \in 1..L : w[n] = raw[n]
        /\ w[L + 1] = "%" /\ w[L + 2] = e
    BY <1>1, <2>2 DEF e
  <2>. HIDE DEF w
  <2>5. ~BadEscape(w)
    <3>. SUFFICES ASSUME NEW i \in DOMAIN w, w[i] = "%", i = Len(w) \/ w[i + 1] \notin DOMAIN Unescaped
                  PROVE  FALSE
      BY DEF BadEscape
    <3>1. i \in 1..(L + 2)
      BY <2>4
    <3>2. i # L + 1 /\ i # L + 2
      BY <2>1, <2>3, <2>4 DEF e
    <3>3. i \in 1..L /\ raw[i] = "%"
      BY <2>4, <3>1, <3>2
    <3>4. i # L
      BY <1>1, <3>3
    <3>5. i + 1 \in 1..L /\ w[i + 1] = raw[i + 1] /\ i # Len(w)
      BY <2>4, <3>3, <3>4
    <3>. QED
      BY <1>1, <3>3, <3>4, <3>5 DEF BadEscape
  <2>. DEFINE h == [n \in 0..(L + 2) |-> IF n <= L THEN g[n] ELSE IF n = L + 1 THEN id ELSE Append(id, c)]
  <2>6. h[0] = <<>> /\ h[L + 2] = Append(id, c) /\ h[L + 1] = id /\ \A n \in 0..L : h[n] = g[n]
    BY <1>1, <1>3
  <2>. HIDE DEF h
  <2>7. ASSUME NEW n \in 1..Len(w)
        PROVE  h[n] = IF w[n] = "%" THEN h[n - 1]
                      ELSE Append(h[n - 1], IF n > 1 /\ w[n - 1] = "%" THEN Unescaped[w[n]] ELSE w[n])
    <3>1. CASE n \in 1..L
      <4>1. n - 1 \in 0..L /\ n \in 0..L /\ (n > 1 => n - 1 \in 1..L)
        BY <1>1, <3>1
      <4>2. h[n] = g[n] /\ h[n - 1] = g[n - 1] /\ w[n] = raw[n] /\ (n > 1 => w[n - 1] = raw[n - 1])
        BY <2>4, <2>6, <3>1, <4>1
      <4>. QED
        BY <1>3, <3>1, <4>2
    <3>2. CASE n = L + 1
      <4>1. (L + 1) - 1 = L /\ L \in 0..L
        BY <1>1
      <4>. QED
        BY <1>2, <2>4, <2>6, <3>2, <4>1
    <3>3. CASE n = L + 2
      <4>1. (L + 2) - 1 = L + 1 /\ L + 2 > 1
        BY <1>1
      <4>. QED
        BY <2>1, <2>3, <2>4, <2>6, <3>3, <4>1 DEF e
    <3>. QED
      BY <1>1, <2>4, <3>1, <3>2, <3>3
  <2>8. IsReader(h, w)
    <3>1. h = [n \in 0..Len(w) |-> h[n]]
      BY <1>1, <2>4 DEF h
    <3>2. Len(w) \in Nat /\ h[0] = <<>>
      BY <1>1, <2>4, <2>6
    <3>. QED
      BY <2>7, <3>1, <3>2, ReaderAt, Zenon
  <2>9. w[Len(w)] # "%" /\ h[Len(w)] = Append(id, c)
    BY <2>3, <2>4, <2>6
  <2>10. Complete(w, Append(id, c))
    BY <2>4, <2>5, <2>8, <2>9 DEF Complete
  <2>. QED
    BY <2>10 DEF w
<1>5. CASE c \notin DOMAIN Escaped
  <2>1. Escape(c) = <<c>> /\ c # "%"
    BY <1>5 DEF Escape, Escaped
  <2>4. /\ w \in Seq(Lexeme) /\ Len(w) = L + 1
        /\ \A n \in 1..L : w[n] = raw[n]
        /\ w[L + 1] = c
    BY <1>1, <2>1
  <2>. HIDE DEF w
  <2>5. ~BadEscape(w)
    <3>. SUFFICES ASSUME NEW i \in DOMAIN w, w[i] = "%", i = Len(w) \/ w[i + 1] \notin DOMAIN Unescaped
                  PROVE  FALSE
      BY DEF BadEscape
    <3>1. i \in 1..(L + 1) /\ i # L + 1
      BY <2>1, <2>4
    <3>3. i \in 1..L /\ raw[i] = "%"
      BY <2>4, <3>1
    <3>4. i # L
      BY <1>1, <3>3
    <3>5. i + 1 \in 1..L /\ w[i + 1] = raw[i + 1] /\ i # Len(w)
      BY <2>4, <3>3, <3>4
    <3>. QED
      BY <1>1, <3>3, <3>4, <3>5 DEF BadEscape
  <2>. DEFINE h == [n \in 0..(L + 1) |-> IF n <= L THEN g[n] ELSE Append(id, c)]
  <2>6. h[0] = <<>> /\ h[L + 1] = Append(id, c) /\ \A n \in 0..L : h[n] = g[n]
    BY <1>1, <1>3
  <2>. HIDE DEF h
  <2>7. ASSUME NEW n \in 1..Len(w)
        PROVE  h[n] = IF w[n] = "%" THEN h[n - 1]
                      ELSE Append(h[n - 1], IF n > 1 /\ w[n - 1] = "%" THEN Unescaped[w[n]] ELSE w[n])
    <3>1. CASE n \in 1..L
      <4>1. n - 1 \in 0..L /\ n \in 0..L /\ (n > 1 => n - 1 \in 1..L)
        BY <1>1, <3>1
      <4>2. h[n] = g[n] /\ h[n - 1] = g[n - 1] /\ w[n] = raw[n] /\ (n > 1 => w[n - 1] = raw[n - 1])
        BY <2>4, <2>6, <3>1, <4>1
      <4>. QED
        BY <1>3, <3>1, <4>2
    <3>2. CASE n = L + 1
      <4>1. (L + 1) - 1 = L /\ L \in 0..L
        BY <1>1
      <4>2. ~(L + 1 > 1 /\ w[L] = "%")
        <5>. SUFFICES ASSUME L \in 1..L
                      PROVE  w[L] # "%"
          BY <1>1
        <5>1. raw # <<>>
          BY <1>1
        <5>. QED
          BY <1>1, <2>4, <5>1
      <4>. QED
        BY <1>2, <2>1, <2>4, <2>6, <3>2, <4>1, <4>2
    <3>. QED
      BY <1>1, <2>4, <3>1, <3>2
  <2>8. IsReader(h, w)
    <3>1. h = [n \in 0..Len(w) |-> h[n]]
      BY <1>1, <2>4 DEF h
    <3>2. Len(w) \in Nat /\ h[0] = <<>>
      BY <1>1, <2>4, <2>6
    <3>. QED
      BY <2>7, <3>1, <3>2, ReaderAt, Zenon
  <2>9. w[Len(w)] # "%" /\ h[Len(w)] = Append(id, c)
    BY <2>1, <2>4, <2>6
  <2>10. Complete(w, Append(id, c))
    BY <2>4, <2>5, <2>8, <2>9 DEF Complete
  <2>. QED
    BY <2>10 DEF w
<1>. QED
  BY <1>4, <1>5

(* Identifier::encoded and Identifier::decode: what was escaped is read    *)
(* back, character by character.                                           *)
LEMMA EncodedIsRead ==
  ASSUME NEW id \in Seq(Lexeme), id # <<>>, ToSet(id) \cap Refused = {}, ~Traverses(id)
  PROVE  Encode(id) \in Seq(Lexeme) /\ Decode(Encode(id)) = {id}
<1>. DEFINE s == [i \in DOMAIN id |-> Escape(id[i])]
            n == Len(id)
<1>1. n \in Nat \ {0} /\ DOMAIN id = 1..n /\ \A i \in 1..n : id[i] \in Lexeme
  BY EmptySeq
<1>2. Len(s) = n /\ \A i \in 1..n : s[i] = Escape(id[i])
  <2>1. DOMAIN s = 1..n /\ s = [i \in 1..n |-> Escape(id[i])]
    BY <1>1
  <2>. QED
    BY <1>1, <2>1
<1>3. Encode(id) = FlattenSeq(s)
  BY DEF Encode
<1>. HIDE DEF s
<1>4. PICK f : IsFlattener(f, s) /\ FlattenSeq(s) = f[n]
  BY <1>1, <1>2, FlattenedFrom
<1>5. \A i \in 1..n : f[i] = IF i = 1 THEN Escape(id[i]) ELSE f[i - 1] \o Escape(id[i])
  <2>. DEFINE body(i) == IF i = 1 THEN s[i] ELSE f[i - 1] \o s[i]
  <2>1. f = [i \in 1..n |-> body(i)]
    BY <1>2, <1>4 DEF IsFlattener
  <2>2. \A i \in 1..n : f[i] = body(i)
    <3>. HIDE DEF body
    <3>. QED
      BY <2>1
  <2>. QED
    BY <1>2, <2>2
<1>. DEFINE Done == {i \in Nat : i + 1 \in 1..n => Complete(f[i + 1], SubSeq(id, 1, i + 1))}
<1>6. Complete(<<>>, <<>>)
  <2>. DEFINE g == [m \in 0..0 |-> <<>>]
  <2>1. Len(<<>>) = 0 /\ g[0] = <<>> /\ g = [m \in 0..0 |-> g[m]] /\ <<>> \in Seq(Lexeme) /\ 1..0 = {}
    OBVIOUS
  <2>2. IsReader(g, <<>>)
    <3>. HIDE DEF g
    <3>. QED
      BY <2>1, ReaderAt
  <2>3. ~BadEscape(<<>>)
    BY DEF BadEscape
  <2>. HIDE DEF g
  <2>. QED
    BY <2>1, <2>2, <2>3 DEF Complete
<1>7. 0 \in Done
  <2>1. 1 \in 1..n /\ f[1] = Escape(id[1]) /\ id[1] \in Lexeme
    BY <1>1, <1>5
  <2>2. Complete(<<>> \o Escape(id[1]), Append(<<>>, id[1]))
    BY <1>6, <2>1, EscapedIsRead, EmptySeq
  <2>3. <<>> \o Escape(id[1]) = Escape(id[1]) /\ Append(<<>>, id[1]) = SubSeq(id, 1, 1)
    <3>1. Escape(id[1]) \in Seq(Lexeme)
      BY <2>1, EscapeType
    <3>. QED
      BY <1>1, <2>1, <3>1
  <2>4. Complete(f[1], SubSeq(id, 1, 1))
    BY <2>1, <2>2, <2>3
  <2>5. 0 + 1 = 1
    OBVIOUS
  <2>. QED
    BY <2>4, <2>5
<1>8. ASSUME NEW i \in Nat, i \in Done
      PROVE  i + 1 \in Done
  <2>. SUFFICES ASSUME (i + 1) + 1 \in 1..n
                PROVE  Complete(f[(i + 1) + 1], SubSeq(id, 1, (i + 1) + 1))
    OBVIOUS
  <2>. DEFINE j == i + 1
  <2>1. j \in 1..n /\ j \in Nat /\ j + 1 \in 1..n /\ j + 1 # 1 /\ (j + 1) - 1 = j
    BY <1>1
  <2>2. Complete(f[j], SubSeq(id, 1, j))
    BY <1>8, <2>1
  <2>. HIDE DEF j
  <2>3. f[j + 1] = f[j] \o Escape(id[j + 1]) /\ id[j + 1] \in Lexeme
    BY <1>1, <1>5, <2>1
  <2>4. SubSeq(id, 1, j) \in Seq(Lexeme) /\ Append(SubSeq(id, 1, j), id[j + 1]) = SubSeq(id, 1, j + 1)
    BY <1>1, <2>1
  <2>5. Complete(f[j] \o Escape(id[j + 1]), Append(SubSeq(id, 1, j), id[j + 1]))
    BY <2>2, <2>3, <2>4, EscapedIsRead
  <2>. QED
    BY <2>3, <2>4, <2>5 DEF j
<1>9. \A i \in Nat : i \in Done
  <2>. HIDE DEF Done
  <2>. QED
    BY <1>7, <1>8, CountingUp
<1>10. Complete(Encode(id), id)
  <2>1. n - 1 \in Nat /\ (n - 1) + 1 = n /\ n \in 1..n
    BY <1>1
  <2>2. SubSeq(id, 1, n) = id
    BY <1>1
  <2>. QED
    BY <1>3, <1>4, <1>9, <2>1, <2>2
<1>11. Encode(id) # <<>>
  <2>1. PICK g : IsReader(g, Encode(id)) /\ g[Len(Encode(id))] = id
    BY <1>10 DEF Complete
  <2>2. g[0] = <<>> /\ Encode(id) \in Seq(Lexeme)
    BY <1>10, <2>1, ReaderHas DEF Complete
  <2>. QED
    BY <2>1, <2>2
<1>. QED
  BY <1>10, <1>11, DecodeReads DEF Complete

(* Rounding gives a natural, whatever the quotient.                        *)
LEMMA RoundedNatural ==
  ASSUME NEW n \in Nat, NEW d \in Nat \ {0}, NEW slips
  PROVE  Round(n, d, slips) \in Nat
<1>. DEFINE q == (2 * n + d) \div (2 * d)
            r == (2 * n) % (2 * d)
<1>1. 2 * d \in Nat \ {0} /\ 2 * n + d \in Nat /\ 2 * n \in Nat
  OBVIOUS
<1>2. q \in Nat
  BY <1>1
<1>3. ASSUME q = 0 PROVE r # d
  <2>1. 2 * n + d < 2 * d
    BY <1>1, <1>3, Quotient
  <2>2. r = 2 * n
    BY <2>1
  <2>. QED
    BY <2>1, <2>2
<1>4. Round(n, d, slips) = IF slips /\ r = d THEN q - 1 ELSE q
  BY DEF Round
<1>. HIDE DEF q, r
<1>. QED
  BY <1>2, <1>3, <1>4

(* So the sides of a size that was resolved are naturals.                  *)
LEMMA WantedNatural ==
  ASSUME NEW sz \in SizeForms, NEW rw \in Nat \ {0}, NEW rh \in Nat \ {0},
         NEW lim, lim.w \in Nat, lim.h \in Nat, lim.area \in Nat, NEW s
  PROVE  LET out == Wanted(sz, rw, rh, lim, s) IN out.w \in Nat /\ out.h \in Nat
<1>1. CASE sz.kind = "max"
  <2>1. /\ FitSide(rw, rh, lim.w, lim.h, lim.area, "w" \in s) \in Nat
        /\ FitSide(rh, rw, lim.h, lim.w, lim.area, "h" \in s) \in Nat
    BY FitSideBounds
  <2>2. MaxSize(sz.up, rw, rh, lim, s).w \in Nat /\ MaxSize(sz.up, rw, rh, lim, s).h \in Nat
    BY <2>1 DEF MaxSize
  <2>. QED
    BY <1>1, <2>2 DEF Wanted
<1>2. CASE sz.kind = "width"
  <2>1. sz.w \in Nat /\ rh * sz.w \in Nat
    BY <1>2, Product DEF SizeForms
  <2>2. Round(rh * sz.w, rw, "h" \in s) \in Nat
    BY <2>1, RoundedNatural
  <2>. QED
    BY <1>2, <2>1, <2>2 DEF Wanted
<1>3. CASE sz.kind = "height"
  <2>1. sz.h \in Nat /\ rw * sz.h \in Nat
    BY <1>3, Product DEF SizeForms
  <2>2. Round(rw * sz.h, rh, "w" \in s) \in Nat
    BY <2>1, RoundedNatural
  <2>. QED
    BY <1>3, <2>1, <2>2 DEF Wanted
<1>4. CASE sz.kind = "percent"
  <2>1. sz.pct \in Nat /\ rw * sz.pct \in Nat /\ rh * sz.pct \in Nat
    BY <1>4, Product DEF SizeForms
  <2>2. Round(rw * sz.pct, 10000, "w" \in s) \in Nat /\ Round(rh * sz.pct, 10000, "h" \in s) \in Nat
    BY <2>1, RoundedNatural
  <2>. QED
    BY <1>4, <2>2 DEF Wanted
<1>5. CASE sz.kind = "exact"
  BY <1>5 DEF Wanted, SizeForms
<1>6. CASE sz.kind = "confined"
  <2>1. sz.w \in Nat /\ sz.h \in Nat /\ rh * sz.w \in Nat /\ rw * sz.h \in Nat
    BY <1>6, Product DEF SizeForms
  <2>2. Round(rh * sz.w, rw, "h" \in s) \in Nat /\ Round(rw * sz.h, rh, "w" \in s) \in Nat
    BY <2>1, RoundedNatural
  <2>. QED
    BY <1>6, <2>1, <2>2 DEF Wanted, ConfinedSize
<1>. QED
  BY <1>1, <1>2, <1>3, <1>4, <1>5, <1>6 DEF SizeForms

(* The parts of a plan for the whole of which the limits allow.            *)
LEMMA PlanTyped ==
  ASSUME NEW r \in RegionForms, NEW z \in SizeForms, NEW img, Sided(img),
         NEW lim, lim.w \in Nat, lim.h \in Nat, lim.area \in Nat, NEW s,
         NEW p, p = Evaluate(r, z, img, lim, s), p.ok
  PROVE  /\ p.w \in 1..lim.w /\ p.h \in 1..lim.h
         /\ p.upscales = (p.w > p.crop.w \/ p.h > p.crop.h)
         /\ p.wasMax = (z.kind = "max")
         /\ Inside(p.crop, img)
         /\ p.crop = Crop(p.crop.x, p.crop.y, p.crop.w, p.crop.h)
         /\ p = [ok |-> TRUE, crop |-> p.crop, w |-> p.w, h |-> p.h,
                 upscales |-> p.upscales, wasMax |-> p.wasMax]
<1>. DEFINE crop == ResolveRegion(r, img, s)
            res == ResolveSize(z, crop.w, crop.h, lim, s)
            out == Wanted(z, crop.w, crop.h, lim, s)
            grows == out.w > crop.w \/ out.h > crop.h
            none == res.w = 0 \/ res.h = 0
            over == res.w > lim.w \/ res.h > lim.h \/ res.w * res.h > lim.area
<1>1. /\ crop.ok /\ res.ok /\ ~none /\ ~over
      /\ p = [ok |-> TRUE, crop |-> crop, w |-> res.w, h |-> res.h,
              upscales |-> res.upscales, wasMax |-> z.kind = "max"]
  BY Evaluated
<1>2. Inside(crop, img) /\ crop = Crop(crop.x, crop.y, crop.w, crop.h)
  <2>1. ~Error("RegionOutOfBounds").ok
    BY DEF Error
  <2>2. crop.ok
    BY <1>1
  <2>. QED
    BY <2>1, <2>2, RegionInside, RegionShape
<1>. HIDE DEF crop
<1>3. crop.w \in Nat \ {0} /\ crop.h \in Nat \ {0}
  BY <1>2 DEF Inside, Sided
<1>4. res.ok /\ res.upscales = (res.w > crop.w \/ res.h > crop.h)
  BY <1>1, <1>3, SizeKept
<1>5. out.w \in Nat /\ out.h \in Nat
  BY <1>3, WantedNatural
<1>6. /\ Min({out.w, crop.w}) = IF out.w <= crop.w THEN out.w ELSE crop.w
      /\ Min({out.h, crop.h}) = IF out.h <= crop.h THEN out.h ELSE crop.h
  BY <1>3, <1>5, MinOfTwo
<1>7. \/ res = Error("UpscaleWithoutFlag")
      \/ res = [ok |-> TRUE, w |-> Min({out.w, crop.w}), h |-> Min({out.h, crop.h}), upscales |-> FALSE]
      \/ res = [ok |-> TRUE, w |-> out.w, h |-> out.h, upscales |-> grows]
  BY DEF ResolveSize
<1>. HIDE DEF res, out, grows
<1>8. res.w \in Nat /\ res.h \in Nat
  <2>1. ~Error("UpscaleWithoutFlag").ok
    BY DEF Error
  <2>. QED
    BY <1>3, <1>4, <1>5, <1>6, <1>7, <2>1
<1>9. res.w \in 1..lim.w /\ res.h \in 1..lim.h
  BY <1>1, <1>8
<1>. HIDE DEF none, over
<1>10. p.w = res.w /\ p.h = res.h /\ p.crop = crop /\ p.upscales = res.upscales /\ p.wasMax = (z.kind = "max")
  BY <1>1
<1>. QED
  BY <1>1, <1>2, <1>4, <1>9, <1>10

----------------------------------------------------------------------------
(* The tables of numerals hold naturals.                                   *)
LEMMA Tables ==
  IntegerOf \in [DOMAIN IntegerOf -> Nat] /\ DecimalOf \in [DOMAIN DecimalOf -> Nat]
BY NumeralAssumption

(* One, two or four numbers, read as integers or as decimals.              *)
LEMMA CountsRead ==
  ASSUME NEW table \in {IntegerOf, DecimalOf}, NEW n \in {1, 2, 4}, NEW s, NEW f \in Numbers(table, n, s)
  PROVE  (\A i \in 1..n : f[i] \in Nat) /\ Numbers(table, n, s) = {f}
<1>1. n \in Nat \ {0} /\ table \in [DOMAIN table -> Nat]
  BY Tables
<1>2. /\ \A i \in 1..n : s[2 * i - 1] \in DOMAIN table /\ f[i] = table[s[2 * i - 1]]
      /\ Numbers(table, n, s) = {f}
  BY <1>1 DEF Numbers
<1>. QED
  BY <1>1, <1>2

(* What is parsed as a region is one.                                      *)
LEMMA RegionParsed ==
  ASSUME NEW s, NEW r \in ParseRegion(s)
  PROVE  r \in RegionForms /\ ParseRegion(s) = {r}
<1>1. CASE s = <<"full">>
  BY <1>1 DEF ParseRegion, RegionForms
<1>2. CASE s # <<"full">> /\ s = <<"square">>
  BY <1>2 DEF ParseRegion, RegionForms
<1>3. CASE s # <<"full">> /\ s # <<"square">> /\ Begins("pct:", s)
  <2>. DEFINE N == Numbers(DecimalOf, 4, Tail(s))
              ok(g) == g[3] > 0 /\ g[4] > 0 /\ g[1] < 10000 /\ g[2] < 10000
              form(f) == [kind |-> "percent", x |-> f[1], y |-> f[2], w |-> f[3], h |-> f[4]]
  <2>1. ParseRegion(s) = {form(f) : f \in {g \in N : ok(g)}}
    BY <1>3 DEF ParseRegion
  <2>2. PICK f \in N : r = form(f)
    BY <2>1
  <2>3. /\ N = {f} /\ \A i \in 1..4 : f[i] \in Nat
    BY CountsRead
  <2>4. ParseRegion(s) = {r}
    <3>. HIDE DEF N, ok, form
    <3>. QED
      BY <2>1, <2>2, <2>3
  <2>. QED
    BY <2>2, <2>3, <2>4 DEF RegionForms
<1>4. CASE s # <<"full">> /\ s # <<"square">> /\ ~Begins("pct:", s)
  <2>. DEFINE N == Numbers(IntegerOf, 4, s)
              ok(g) == g[3] # 0 /\ g[4] # 0
              form(f) == [kind |-> "pixels", x |-> f[1], y |-> f[2], w |-> f[3], h |-> f[4]]
  <2>1. ParseRegion(s) = {form(f) : f \in {g \in N : ok(g)}}
    BY <1>4 DEF ParseRegion
  <2>2. PICK f \in N : ok(f) /\ r = form(f)
    BY <2>1
  <2>3. /\ N = {f} /\ \A i \in 1..4 : f[i] \in Nat
    BY CountsRead
  <2>4. ParseRegion(s) = {r}
    <3>. HIDE DEF N, ok, form
    <3>. QED
      BY <2>1, <2>2, <2>3
  <2>. QED
    BY <2>2, <2>3, <2>4 DEF RegionForms
<1>. QED
  BY <1>1, <1>2, <1>3, <1>4

(* What is parsed as a size is one, and has the flag it was parsed with.   *)
LEMMA SizeKindsParsed ==
  ASSUME NEW up \in BOOLEAN, NEW s, NEW z \in SizeKinds(up, s)
  PROVE  z \in SizeForms /\ z.up = up
<1>. DEFINE D == Numbers(DecimalOf, 1, Tail(s))
            C == Positive(2, Tail(s))
            X == Positive(2, s)
            W == Beside(1, s)
            H == Beside(2, s)
<1>1. \A f \in D : f[1] \in Nat
  BY CountsRead
<1>2. /\ \A f \in C : f[1] \in Nat \ {0} /\ f[2] \in Nat \ {0}
      /\ \A f \in X : f[1] \in Nat \ {0} /\ f[2] \in Nat \ {0}
  BY CountsRead DEF Positive
<1>3. /\ \A f \in W : f[1] \in Nat \ {0}
      /\ \A f \in H : f[1] \in Nat \ {0}
  <2>1. W \subseteq Positive(1, <<s[1]>>) /\ H \subseteq Positive(1, <<s[2]>>)
    BY Zenon DEF Beside
  <2>2. ASSUME NEW x, NEW f \in Positive(1, x) PROVE f[1] \in Nat \ {0}
    BY CountsRead DEF Positive
  <2>. HIDE DEF W, H
  <2>. QED
    BY <2>1, <2>2
<1>4. \/ z = [kind |-> "max", up |-> up]
      \/ \E f \in D : z = [kind |-> "percent", up |-> up, pct |-> f[1]]
      \/ \E f \in C : z = [kind |-> "confined", up |-> up, w |-> f[1], h |-> f[2]]
      \/ \E f \in X : z = [kind |-> "exact", up |-> up, w |-> f[1], h |-> f[2]]
      \/ \E f \in W : z = [kind |-> "width", up |-> up, w |-> f[1]]
      \/ \E f \in H : z = [kind |-> "height", up |-> up, h |-> f[1]]
  BY DEF SizeKinds
<1>. HIDE DEF D, C, X, W, H
<1>. QED
  BY <1>1, <1>2, <1>3, <1>4 DEF SizeForms

(* A v3 size, and a v2 size: that one has the flag unless it is max.       *)
LEMMA SizeParsed ==
  ASSUME NEW s, NEW z
  PROVE  /\ z \in ParseSize(s) => z \in SizeForms
         /\ z \in ParseSizeV2(s) => z \in SizeForms /\ (z.kind = "max" => ~z.up)
<1>1. ASSUME z \in ParseSize(s) PROVE z \in SizeForms
  BY <1>1, SizeKindsParsed DEF ParseSize, Begins
<1>2. ASSUME z \in ParseSizeV2(s) PROVE z \in SizeForms /\ (z.kind = "max" => ~z.up)
  <2>1. CASE s \in {<<"full">>, <<"max">>}
    <3>1. ParseSizeV2(s) \subseteq {[kind |-> "max", up |-> FALSE]}
      BY <2>1, Zenon DEF ParseSizeV2
    <3>2. z = [kind |-> "max", up |-> FALSE]
      BY <1>2, <3>1, Zenon
    <3>3. z.kind = "max" /\ z.up = FALSE /\ z \in [kind : {"max"}, up : BOOLEAN]
      BY <3>2
    <3>. QED
      BY <3>3 DEF SizeForms
  <2>2. CASE s \notin {<<"full">>, <<"max">>}
    <3>1. PICK y \in SizeKinds(Begins("pct:", s), s) : z = [y EXCEPT !.up = TRUE]
      BY <1>2, <2>2 DEF ParseSizeV2
    <3>2. y \in SizeForms
      BY SizeKindsParsed DEF Begins
    <3>3. y.kind # "max"
      <4>. DEFINE D == Numbers(DecimalOf, 1, Tail(s))
      <4>1. \/ \E pct : y = [kind |-> "percent", up |-> Begins("pct:", s), pct |-> pct]
            \/ \E w, h : y = [kind |-> "confined", up |-> Begins("pct:", s), w |-> w, h |-> h]
            \/ \E w, h : y = [kind |-> "exact", up |-> Begins("pct:", s), w |-> w, h |-> h]
            \/ \E w : y = [kind |-> "width", up |-> Begins("pct:", s), w |-> w]
            \/ \E h : y = [kind |-> "height", up |-> Begins("pct:", s), h |-> h]
        BY <2>2 DEF SizeKinds
      <4>. QED
        BY <4>1
    <3>4. z \in SizeForms /\ z.kind = y.kind
      BY <3>1, <3>2 DEF SizeForms
    <3>. QED
      BY <3>3, <3>4
  <2>. QED
    BY <2>1, <2>2
<1>. QED
  BY <1>1, <1>2

(* A rotation that was parsed, without its full turns, can be written.     *)
LEMMA RotationParsed ==
  ASSUME NEW s, NEW o \in ParseRotation(s)
  PROVE  o.mirror \in BOOLEAN /\ o.degrees \in Nat /\ Upright(o.degrees) \in DOMAIN Written
<1>. DEFINE N == Numbers(DecimalOf, 1, Without("!", s))
<1>1. PICK f \in N : o = [mirror |-> Begins("!", s), degrees |-> f[1]]
  BY DEF ParseRotation
<1>2. f[1] \in Nat
  BY CountsRead
<1>. DEFINE x == Without("!", s)
<1>4. \E t \in DOMAIN DecimalOf : f[1] = DecimalOf[t]
  <2>1. f \in Numbers(DecimalOf, 1, x)
    OBVIOUS
  <2>. HIDE DEF x
  <2>2. x[2 * 1 - 1] \in DOMAIN DecimalOf /\ f[1] = DecimalOf[x[2 * 1 - 1]]
    BY <2>1 DEF Numbers
  <2>. QED
    BY <2>2
<1>. HIDE DEF N
<1>3. o.mirror \in BOOLEAN
  BY <1>1 DEF Begins
<1>. QED
  BY <1>1, <1>2, <1>3, <1>4, NumeralAssumption DEF Upright

(* The reading of a request.                                               *)
LEMMA RequestParsed ==
  ASSUME NEW api, NEW segments, ParseRequest(api, segments) # {},
         NEW q, q = The(ParseRequest(api, segments))
  PROVE  /\ q.region \in RegionForms /\ q.size \in SizeForms
         /\ api # "v3" /\ q.size.kind = "max" => ~q.size.up
         /\ q.rotation.mirror \in BOOLEAN /\ q.rotation.degrees \in Nat
         /\ Upright(q.rotation.degrees) \in DOMAIN Written
         /\ q.quality \in Qualities /\ q.format \in Formats
<1>1. q \in ParseRequest(api, segments)
  BY DEF The
<1>2. /\ q.region \in ParseRegion(segments[1])
      /\ q.size \in IF api = "v3" THEN ParseSize(segments[2]) ELSE ParseSizeV2(segments[2])
      /\ q.rotation \in ParseRotation(segments[3])
      /\ q.quality \in Qualities /\ q.format \in Formats
  BY <1>1 DEF ParseRequest, Words
<1>. QED
  BY <1>2, RegionParsed, SizeParsed, RotationParsed

(* A sequence with one element put in front.                               *)
LEMMA Headed ==
  ASSUME NEW S, NEW t \in Seq(S), NEW c \in S
  PROVE  /\ <<c>> \o t \in Seq(S) /\ (<<c>> \o t)[1] = c /\ <<c>> \o t # <<>>
         /\ Tail(<<c>> \o t) = t
<1>. DEFINE s == <<c>>
<1>0. s \in Seq(S)
  OBVIOUS
<1>1. s \in Seq(S) /\ Len(s) = 1 /\ s[1] = c
  OBVIOUS
<1>. HIDE DEF s
<1>2. s \o t \in Seq(S) /\ (s \o t)[1] = c /\ s \o t # <<>>
  BY <1>1
<1>3. Tail(s \o t) = t
  <2>0. Len(t) \in Nat /\ Len(s \o t) = Len(s) + Len(t)
    <3>1. Len(t) \in Nat
      OBVIOUS
    <3>2. Len(s \o t) = Len(s) + Len(t)
      BY <1>0
    <3>. QED
      BY <3>1, <3>2
  <2>1. s \o t \in Seq(S) /\ Len(s \o t) = Len(t) + 1 /\ Len(t) \in Nat
    BY <1>1, <1>2, <2>0
  <2>2. Tail(s \o t) \in Seq(S) /\ Len(Tail(s \o t)) = Len(t)
    BY <2>1, <1>2, HeadTailProperties
  <2>3. \A i \in 1..Len(t) : Tail(s \o t)[i] = (s \o t)[i+1]
    BY <2>1, <1>2
  <2>4. \A i \in 1..Len(t) : (s \o t)[i+1] = t[i]
    BY <2>1, <1>1
  <2>. QED
    BY <2>2, <2>3, <2>4, <1>1, SeqEqual
<1>. QED
  BY <1>2, <1>3 DEF s

(* Tuples are sequences over what their elements are from.                 *)
LEMMA Tuples ==
  ASSUME NEW S, NEW a \in S, NEW b \in S, NEW c \in S, NEW d \in S, NEW e \in S, NEW f \in S, NEW g \in S
  PROVE  /\ <<a, b, c, d, e, f, g>> \in Seq(S) /\ Len(<<a, b, c, d, e, f, g>>) = 7
         /\ <<a, b, c, d>> \in Seq(S) /\ Len(<<a, b, c, d>>) = 4
         /\ <<a, b, c>> \in Seq(S) /\ Len(<<a, b, c>>) = 3
OBVIOUS

(* A readable number is read back; its numeral is no word and no mark.     *)
LEMMA ReadBack ==
  ASSUME NEW n \in Nat, Readable(n)
  PROVE  LET t == Written[100 * n]
         IN  /\ t \in DOMAIN IntegerOf /\ IntegerOf[t] = n
             /\ t \in Lexeme /\ t \notin Marks
<1>1. 100 * n \in DOMAIN Written /\ Written[100 * n] \in DOMAIN IntegerOf
  BY DEF Readable
<1>. DEFINE t == Written[100 * n]
<1>2. t \in DOMAIN DecimalOf /\ DecimalOf[t] = 100 * n /\ DecimalOf[t] = 100 * IntegerOf[t]
  BY <1>1, NumeralAssumption
<1>3. t \in STRING /\ t \notin Marks
  BY <1>2, NumeralAssumption
<1>4. IntegerOf[t] \in Nat
  BY <1>1, Tables
<1>. HIDE DEF t
<1>5. IntegerOf[t] = n
  BY <1>2, <1>4
<1>. QED
  BY <1>1, <1>3, <1>5 DEF t, Lexeme

(* Four numerals with commas in between are read as integers.              *)
Quad(a, b, c, d) == <<a, ",", b, ",", c, ",", d>>

(* Four numbers written as pixels are read back.                           *)
LEMMA QuadRead ==
  ASSUME NEW a1 \in Lexeme, NEW b1 \in Lexeme, NEW c1 \in Lexeme, NEW d1 \in Lexeme,
         a1 \in DOMAIN IntegerOf, b1 \in DOMAIN IntegerOf, c1 \in DOMAIN IntegerOf,
         d1 \in DOMAIN IntegerOf, a1 \notin Marks
  PROVE  /\ Quad(a1, b1, c1, d1) \in Seq(Lexeme)
         /\ Quad(a1, b1, c1, d1)[1] \notin Marks
         /\ Len(Quad(a1, b1, c1, d1)) = 7
         /\ \E f : /\ Numbers(IntegerOf, 4, Quad(a1, b1, c1, d1)) = {f}
                   /\ f[1] = IntegerOf[a1] /\ f[2] = IntegerOf[b1]
                   /\ f[3] = IntegerOf[c1] /\ f[4] = IntegerOf[d1]
<1>. DEFINE u == <<a1, ",", b1, ",", c1, ",", d1>>
<1>0. Len(u) = 7 /\ Len(u) = 2 * 4 - 1
  OBVIOUS
<1>1. u[1] = a1 /\ u[3] = b1 /\ u[5] = c1 /\ u[7] = d1
  OBVIOUS
<1>8. u[2] = "," /\ u[4] = "," /\ u[6] = ","
  OBVIOUS
<1>2. "," \in Lexeme
  BY DEF Lexeme, Marks
<1>3. u \in Seq(Lexeme)
  BY <1>2, Tuples
<1>9. Quad(a1, b1, c1, d1) = u
  BY DEF Quad
<1>. HIDE DEF u
<1>. DEFINE f == [i \in 1..4 |-> IntegerOf[u[2 * i - 1]]]
<1>4. f[1] = IntegerOf[a1] /\ f[2] = IntegerOf[b1] /\ f[3] = IntegerOf[c1] /\ f[4] = IntegerOf[d1]
  <2>1. f[1] = IntegerOf[u[1]] /\ f[2] = IntegerOf[u[3]] /\ f[3] = IntegerOf[u[5]] /\ f[4] = IntegerOf[u[7]]
    OBVIOUS
  <2>. QED
    BY <1>1, <2>1
<1>5. \A i \in 1..3 : u[2 * i] = ","
  <2>. TAKE i \in 1..3
  <2>1. 2 * i \in {2, 4, 6}
    OBVIOUS
  <2>. QED
    BY <1>8, <2>1
<1>6. \A i \in 1..4 : u[2 * i - 1] \in DOMAIN IntegerOf
  <2>. TAKE i \in 1..4
  <2>1. 2 * i - 1 \in {1, 3, 5, 7}
    OBVIOUS
  <2>2. u[2 * i - 1] \in {a1, b1, c1, d1}
    BY <1>1, <2>1
  <2>. QED
    BY <2>2
<1>7. Numbers(IntegerOf, 4, u) = {f}
  <2>1. Len(u) = 2 * 4 - 1 /\ 4 - 1 = 3
    BY <1>0
  <2>. HIDE DEF f
  <2>. QED
    BY <1>5, <1>6, <2>1 DEF Numbers, f
<1>. HIDE DEF f
<1>. QED
  BY <1>0, <1>1, <1>3, <1>4, <1>7, <1>9

(* The whole image is written with one lexeme.                             *)
LEMMA FullIsLexeme == "full" \in Lexeme
BY DEF Lexeme, Marks

(* A region in canonical form is read back from its text.                  *)
LEMMA RegionBack ==
  ASSUME NEW r,
         \/ r = [kind |-> "full"]
         \/ \E x \in Nat, y \in Nat, w \in Nat \ {0}, h \in Nat \ {0} :
              /\ Readable(x) /\ Readable(y) /\ Readable(w) /\ Readable(h)
              /\ r = [kind |-> "pixels", x |-> x, y |-> y, w |-> w, h |-> h]
  PROVE  RegionText(r) \in Seq(Lexeme) /\ ParseRegion(RegionText(r)) = {r}
<1>1. CASE r = [kind |-> "full"]
  <2>1. RegionText(r) = <<"full">>
    BY <1>1 DEF RegionText
  <2>2. "full" \in Lexeme
    BY FullIsLexeme
  <2>3. ParseRegion(<<"full">>) = {[kind |-> "full"]}
    BY Zenon DEF ParseRegion
  <2>4. <<"full">> \in Seq(Lexeme)
    BY <2>2
  <2>. QED
    BY <1>1, <2>1, <2>3, <2>4, Zenon
<1>2. ASSUME NEW x \in Nat, NEW y \in Nat, NEW w \in Nat \ {0}, NEW h \in Nat \ {0},
             Readable(x), Readable(y), Readable(w), Readable(h),
             r = [kind |-> "pixels", x |-> x, y |-> y, w |-> w, h |-> h]
      PROVE  RegionText(r) \in Seq(Lexeme) /\ ParseRegion(RegionText(r)) = {r}
  <2>. DEFINE A == Written[100 * x]
              B == Written[100 * y]
              C == Written[100 * w]
              D == Written[100 * h]
              s == Quad(A, B, C, D)
              form(f) == [kind |-> "pixels", x |-> f[1], y |-> f[2], w |-> f[3], h |-> f[4]]
  <2>1. RegionText(r) = s
    <3>1. r.kind = "pixels" /\ r.x = x /\ r.y = y /\ r.w = w /\ r.h = h
      BY <1>2
    <3>. QED
      BY <3>1 DEF RegionText, Quad
  <2>2. /\ A \in DOMAIN IntegerOf /\ IntegerOf[A] = x /\ A \in Lexeme /\ A \notin Marks
        /\ B \in DOMAIN IntegerOf /\ IntegerOf[B] = y /\ B \in Lexeme
        /\ C \in DOMAIN IntegerOf /\ IntegerOf[C] = w /\ C \in Lexeme
        /\ D \in DOMAIN IntegerOf /\ IntegerOf[D] = h /\ D \in Lexeme
    BY <1>2, ReadBack
  <2>. HIDE DEF A, B, C, D
  <2>11. /\ s \in Seq(Lexeme) /\ s[1] \notin Marks /\ Len(s) = 7
         /\ \E f : /\ Numbers(IntegerOf, 4, s) = {f}
                   /\ f[1] = IntegerOf[A] /\ f[2] = IntegerOf[B]
                   /\ f[3] = IntegerOf[C] /\ f[4] = IntegerOf[D]
    <3>1. A \in DOMAIN IntegerOf /\ B \in DOMAIN IntegerOf /\ C \in DOMAIN IntegerOf /\ D \in DOMAIN IntegerOf
      BY <2>2
    <3>2. A \in Lexeme /\ B \in Lexeme /\ C \in Lexeme /\ D \in Lexeme /\ A \notin Marks
      BY <2>2
    <3>. QED
      <4>1. s \in Seq(Lexeme)
        BY <3>1, <3>2, QuadRead
      <4>2. s[1] \notin Marks
        BY <3>1, <3>2, QuadRead
      <4>3. Len(s) = 7
        BY <3>1, <3>2, QuadRead
      <4>4. \E f : /\ Numbers(IntegerOf, 4, s) = {f}
                   /\ f[1] = IntegerOf[A] /\ f[2] = IntegerOf[B]
                   /\ f[3] = IntegerOf[C] /\ f[4] = IntegerOf[D]
        BY <3>1, <3>2, QuadRead
      <4>. QED BY <4>1, <4>2, <4>3, <4>4
  <2>3. /\ s \in Seq(Lexeme) /\ s[1] \notin Marks /\ Len(s) = 7
        /\ \E f : /\ Numbers(IntegerOf, 4, s) = {f}
                  /\ f[1] = x /\ f[2] = y /\ f[3] = w /\ f[4] = h
    BY <2>2, <2>11
  <2>. HIDE DEF s
  <2>4. s # <<"full">> /\ s # <<"square">>
    <3>1. s[1] \notin Marks /\ <<"full">>[1] \in Marks /\ <<"square">>[1] \in Marks
      BY <2>3 DEF Marks
    <3>. QED
      BY <3>1
  <2>5. ~Begins("pct:", s)
    BY <2>3 DEF Begins, Marks
  <2>6. PICK f : /\ Numbers(IntegerOf, 4, s) = {f}
                 /\ f[1] = x /\ f[2] = y /\ f[3] = w /\ f[4] = h
    BY <2>3
  <2>7. ParseRegion(s) = {form(g) : g \in {e \in Numbers(IntegerOf, 4, s) : e[3] # 0 /\ e[4] # 0}}
    BY <2>4, <2>5 DEF ParseRegion
  <2>8. {e \in Numbers(IntegerOf, 4, s) : e[3] # 0 /\ e[4] # 0} = {f}
    BY <1>2, <2>6
  <2>9. ParseRegion(s) = {form(f)}
    <3>. HIDE DEF form
    <3>. QED
      BY <2>7, <2>8
  <2>10. form(f) = r
    BY <1>2, <2>6
  <2>. QED
    BY <2>1, <2>3, <2>9, <2>10
<1>. QED
  BY <1>1, <1>2

(* Two numerals with a comma in between are read as integers.              *)
LEMMA PairRead ==
  ASSUME NEW w \in Nat \ {0}, NEW h \in Nat \ {0}, Readable(w), Readable(h)
  PROVE  /\ Written2(w, h) \in Seq(Lexeme)
         /\ Written2(w, h)[1] \notin Marks
         /\ Len(Written2(w, h)) = 3
         /\ \E f : Positive(2, Written2(w, h)) = {f} /\ f[1] = w /\ f[2] = h
<1>. DEFINE A == Written[100 * w]
            B == Written[100 * h]
<1>1. /\ A \in DOMAIN IntegerOf /\ IntegerOf[A] = w /\ A \in Lexeme /\ A \notin Marks
      /\ B \in DOMAIN IntegerOf /\ IntegerOf[B] = h /\ B \in Lexeme
  BY ReadBack
<1>. HIDE DEF A, B
<1>. DEFINE s == <<A, ",", B>>
<1>2. Len(s) = 3 /\ Len(s) = 2 * 2 - 1
  OBVIOUS
<1>3. s[1] = A /\ s[2] = "," /\ s[3] = B
  OBVIOUS
<1>4. "," \in Lexeme
  BY DEF Lexeme, Marks
<1>5. s \in Seq(Lexeme)
  BY <1>1, <1>4, Tuples
<1>6. Written2(w, h) = s
  BY DEF Written2, A, B
<1>. HIDE DEF s
<1>. DEFINE f == [i \in 1..2 |-> IntegerOf[s[2 * i - 1]]]
<1>7. f[1] = w /\ f[2] = h
  <2>1. f[1] = IntegerOf[s[1]] /\ f[2] = IntegerOf[s[3]]
    OBVIOUS
  <2>. QED
    BY <1>1, <1>3, <2>1
<1>8. \A i \in 1..1 : s[2 * i] = ","
  <2>. TAKE i \in 1..1
  <2>1. 2 * i = 2
    OBVIOUS
  <2>. QED
    BY <1>3, <2>1
<1>9. \A i \in 1..2 : s[2 * i - 1] \in DOMAIN IntegerOf
  <2>. TAKE i \in 1..2
  <2>1. 2 * i - 1 \in {1, 3}
    OBVIOUS
  <2>. QED
    BY <1>1, <1>3, <2>1
<1>10. Numbers(IntegerOf, 2, s) = {f}
  <2>1. Len(s) = 2 * 2 - 1 /\ 2 - 1 = 1
    BY <1>2
  <2>. HIDE DEF f
  <2>. QED
    BY <1>8, <1>9, <2>1 DEF Numbers, f
<1>. HIDE DEF f
<1>11. Positive(2, s) = {f}
  <2>1. \A i \in 1..2 : f[i] # 0
    BY <1>7
  <2>. QED
    BY <1>10, <2>1 DEF Positive
<1>12. s[1] \notin Marks
  BY <1>1, <1>3
<1>. QED
  BY <1>2, <1>5, <1>6, <1>7, <1>11, <1>12

(* ... so the size `w,h` is read back from its text, with either flag.     *)
LEMMA PairBack ==
  ASSUME NEW w \in Nat \ {0}, NEW h \in Nat \ {0}, Readable(w), Readable(h), NEW up
  PROVE  /\ Written2(w, h) \in Seq(Lexeme) /\ Written2(w, h) # <<>>
         /\ ~Begins("^", Written2(w, h)) /\ ~Begins("pct:", Written2(w, h))
         /\ Written2(w, h) # <<"full">> /\ Written2(w, h) # <<"max">>
         /\ SizeKinds(up, Written2(w, h)) = {[kind |-> "exact", up |-> up, w |-> w, h |-> h]}
<1>. DEFINE s == Written2(w, h)
<1>1. s \in Seq(Lexeme) /\ s[1] \notin Marks /\ Len(s) = 3
  BY PairRead
<1>2. PICK f : Positive(2, s) = {f} /\ f[1] = w /\ f[2] = h
  BY PairRead
<1>. HIDE DEF s
<1>3. ~Begins("^", s) /\ ~Begins("pct:", s) /\ ~Begins("!", s)
  BY <1>1 DEF Begins, Marks
<1>4. s # <<"full">> /\ s # <<"max">>
  <2>1. <<"full">>[1] \in Marks /\ <<"max">>[1] \in Marks
    BY DEF Marks
  <2>. QED
    BY <1>1, <2>1
<1>5. Beside(1, s) = {} /\ Beside(2, s) = {}
  <2>1. Len(s) # 2
    BY <1>1
  <2>. QED
    BY <2>1 DEF Beside
<1>6. SizeKinds(up, s) = {[kind |-> "exact", up |-> up, w |-> g[1], h |-> g[2]] : g \in Positive(2, s)}
  <2>. DEFINE exact(g) == [kind |-> "exact", up |-> up, w |-> g[1], h |-> g[2]]
              wide(g) == [kind |-> "width", up |-> up, w |-> g[1]]
              high(g) == [kind |-> "height", up |-> up, h |-> g[1]]
  <2>1. SizeKinds(up, s) = {exact(g) : g \in Positive(2, s)}
                             \cup {wide(g) : g \in Beside(1, s)} \cup {high(g) : g \in Beside(2, s)}
    BY <1>3, <1>4, Zenon DEF SizeKinds
  <2>. HIDE DEF exact, wide, high
  <2>2. SizeKinds(up, s) = {exact(g) : g \in Positive(2, s)}
    BY <1>5, <2>1
  <2>. QED
    BY <2>2 DEF exact
<1>7. SizeKinds(up, s) = {[kind |-> "exact", up |-> up, w |-> w, h |-> h]}
  BY <1>2, <1>6
<1>8. s # <<>>
  BY <1>1, EmptySeq
<1>. QED
  BY <1>1, <1>3, <1>4, <1>7, <1>8, Zenon DEF s

(* Nothing in front changes nothing.                                       *)
LEMMA Unheaded ==
  ASSUME NEW S, NEW t \in Seq(S)
  PROVE  <<>> \o t = t
OBVIOUS

(* The `^` in front of a size is read as the flag.                         *)
LEMMA FlagBack ==
  ASSUME NEW t \in Seq(Lexeme), t # <<>>, ~Begins("^", t), NEW up \in BOOLEAN
  PROVE  /\ (IF up THEN <<"^">> ELSE <<>>) \o t \in Seq(Lexeme)
         /\ ParseSize((IF up THEN <<"^">> ELSE <<>>) \o t) = SizeKinds(up, t)
<1>1. CASE up
  <2>1. "^" \in Lexeme
    BY DEF Lexeme, Marks
  <2>. DEFINE s == <<"^">> \o t
  <2>2. s \in Seq(Lexeme) /\ s[1] = "^" /\ s # <<>> /\ Tail(s) = t
    BY <2>1, Headed
  <2>3. (IF up THEN <<"^">> ELSE <<>>) \o t = s
    BY <1>1
  <2>. HIDE DEF s
  <2>4. Begins("^", s) = TRUE /\ Without("^", s) = t
    BY <2>2 DEF Begins, Without
  <2>5. up = TRUE
    BY <1>1
  <2>6. ParseSize(s) = SizeKinds(TRUE, t)
    BY <2>4 DEF ParseSize
  <2>. QED
    BY <2>2, <2>3, <2>5, <2>6
<1>2. CASE ~up
  <2>1. (IF up THEN <<"^">> ELSE <<>>) \o t = t
    BY <1>2, Unheaded
  <2>2. Begins("^", t) = FALSE /\ Without("^", t) = t
    BY DEF Begins, Without
  <2>3. ParseSize(t) = SizeKinds(FALSE, t)
    BY <2>2 DEF ParseSize
  <2>4. up = FALSE
    BY <1>2
  <2>. QED
    BY <2>1, <2>3, <2>4
<1>. QED
  BY <1>1, <1>2

(* A canonical v3 size is read back from its text.                         *)
LEMMA SizeBack ==
  ASSUME NEW z, NEW up \in BOOLEAN,
         \/ z = [kind |-> "max", up |-> up]
         \/ \E w \in Nat \ {0}, h \in Nat \ {0} :
              Readable(w) /\ Readable(h) /\ z = [kind |-> "exact", up |-> up, w |-> w, h |-> h]
  PROVE  SizeText(z) \in Seq(Lexeme) /\ ParseSize(SizeText(z)) = {z}
<1>1. CASE z = [kind |-> "max", up |-> up]
  <2>. DEFINE t == <<"max">>
  <2>1. "max" \in Lexeme
    BY DEF Lexeme, Marks
  <2>2. t \in Seq(Lexeme) /\ t # <<>> /\ t[1] = "max"
    BY <2>1
  <2>3. SizeKinds(up, t) = {[kind |-> "max", up |-> up]}
    BY Zenon DEF SizeKinds
  <2>4. z.kind = "max" /\ z.up = up
    BY <1>1
  <2>5. SizeText(z) = (IF up THEN <<"^">> ELSE <<>>) \o t
    BY <2>4 DEF SizeText
  <2>6. ~Begins("^", t)
    BY <2>2 DEF Begins
  <2>. HIDE DEF t
  <2>7. SizeText(z) \in Seq(Lexeme) /\ ParseSize(SizeText(z)) = SizeKinds(up, t)
    BY <2>2, <2>5, <2>6, FlagBack
  <2>. QED
    BY <1>1, <2>3, <2>7
<1>2. ASSUME NEW w \in Nat \ {0}, NEW h \in Nat \ {0}, Readable(w), Readable(h),
             z = [kind |-> "exact", up |-> up, w |-> w, h |-> h]
      PROVE  SizeText(z) \in Seq(Lexeme) /\ ParseSize(SizeText(z)) = {z}
  <2>. DEFINE t == Written2(w, h)
  <2>1. z.kind = "exact" /\ z.up = up /\ z.w = w /\ z.h = h
    BY <1>2
  <2>2. SizeText(z) = (IF up THEN <<"^">> ELSE <<>>) \o t
    BY <2>1 DEF SizeText
  <2>3. t \in Seq(Lexeme) /\ t # <<>> /\ ~Begins("^", t)
        /\ SizeKinds(up, t) = {[kind |-> "exact", up |-> up, w |-> w, h |-> h]}
    BY <1>2, PairBack
  <2>. HIDE DEF t
  <2>4. SizeText(z) \in Seq(Lexeme) /\ ParseSize(SizeText(z)) = SizeKinds(up, t)
    BY <2>2, <2>3, FlagBack
  <2>. QED
    BY <1>2, <2>3, <2>4
<1>. QED
  BY <1>1, <1>2

(* A size `w,h` as v2 and v3 read it: in v2 it may upscale.                *)
LEMMA PairSize ==
  ASSUME NEW w \in Nat \ {0}, NEW h \in Nat \ {0}, Readable(w), Readable(h)
  PROVE  /\ ParseSize(Written2(w, h)) = {[kind |-> "exact", up |-> FALSE, w |-> w, h |-> h]}
         /\ ParseSizeV2(Written2(w, h)) = {[kind |-> "exact", up |-> TRUE, w |-> w, h |-> h]}
<1>. DEFINE t == Written2(w, h)
            z == [kind |-> "exact", up |-> FALSE, w |-> w, h |-> h]
<1>1. /\ t # <<>> /\ ~Begins("^", t) /\ ~Begins("pct:", t) /\ t # <<"full">> /\ t # <<"max">>
      /\ SizeKinds(FALSE, t) = {z}
  BY PairBack
<1>. HIDE DEF t
<1>2. Begins("^", t) = FALSE /\ Without("^", t) = t /\ Begins("pct:", t) = FALSE
  BY <1>1 DEF Begins, Without
<1>3. ParseSize(t) = {z}
  BY <1>1, <1>2 DEF ParseSize
<1>4. ParseSizeV2(t) = {[y EXCEPT !.up = TRUE] : y \in SizeKinds(FALSE, t)}
  BY <1>1, <1>2 DEF ParseSizeV2
<1>5. [z EXCEPT !.up = TRUE] = [kind |-> "exact", up |-> TRUE, w |-> w, h |-> h]
  <2>. DEFINE y == [z EXCEPT !.up = TRUE]
  <2>1. z \in [kind : {"exact"}, up : BOOLEAN, w : Nat, h : Nat] /\ z.w = w /\ z.h = h
    OBVIOUS
  <2>. HIDE DEF z
  <2>2. y \in [kind : {"exact"}, up : BOOLEAN, w : Nat, h : Nat] /\ y.up = TRUE /\ y.w = w /\ y.h = h
    BY <2>1
  <2>. HIDE DEF y
  <2>3. y = [kind |-> "exact", up |-> TRUE, w |-> w, h |-> h]
    BY <2>2
  <2>. QED
    BY <2>3 DEF y
<1>. HIDE DEF z
<1>6. ParseSizeV2(t) = {[z EXCEPT !.up = TRUE]}
  BY <1>1, <1>4
<1>. QED
  BY <1>3, <1>5, <1>6 DEF t, z

(* v3 knows no `full`.                                                     *)
LEMMA FullIsNoSize == ParseSize(<<"full">>) = {} /\ <<"full">> \in Seq(Lexeme)
<1>. DEFINE s == <<"full">>
<1>1. Len(s) = 1 /\ s[1] = "full" /\ s # <<"max">>
  OBVIOUS
<1>2. "full" \in Lexeme
  BY DEF Lexeme, Marks
<1>3. s \in Seq(Lexeme)
  BY <1>2
<1>. HIDE DEF s
<1>4. Begins("^", s) = FALSE /\ Without("^", s) = s /\ ~Begins("pct:", s) /\ ~Begins("!", s)
  BY <1>1 DEF Begins, Without
<1>5. Beside(1, s) = {} /\ Beside(2, s) = {}
  <2>1. Len(s) # 2
    BY <1>1
  <2>. QED
    BY <2>1 DEF Beside
<1>6. Positive(2, s) = {}
  <2>1. Len(s) # 2 * 2 - 1
    BY <1>1
  <2>2. Numbers(IntegerOf, 2, s) = {}
    BY <2>1 DEF Numbers
  <2>. QED
    BY <2>2 DEF Positive
<1>7. SizeKinds(FALSE, s) = {}
  BY <1>1, <1>4, <1>5, <1>6 DEF SizeKinds
<1>. QED
  BY <1>3, <1>4, <1>7 DEF ParseSize, s

(* A numeral that was written is read back as a decimal.                   *)
LEMMA DecimalBack ==
  ASSUME NEW n \in DOMAIN Written
  PROVE  LET t == Written[n]
         IN  /\ t \in DOMAIN DecimalOf /\ DecimalOf[t] = n /\ t \in Lexeme /\ t \notin Marks
             /\ <<t>> \in Seq(Lexeme)
             /\ \E f : Numbers(DecimalOf, 1, <<t>>) = {f} /\ f[1] = n
<1>. DEFINE t == Written[n]
<1>1. t \in DOMAIN DecimalOf /\ DecimalOf[t] = n
  BY NumeralAssumption
<1>2. t \in Lexeme /\ t \notin Marks
  <2>1. t \in STRING /\ t \notin Marks
    BY <1>1, NumeralAssumption
  <2>. QED
    BY <2>1 DEF Lexeme
<1>. HIDE DEF t
<1>. DEFINE s == <<t>>
            f == [i \in 1..1 |-> DecimalOf[s[2 * i - 1]]]
<1>3. s \in Seq(Lexeme) /\ s[1] = t
  BY <1>2
<1>4. Len(s) = 2 * 1 - 1
  OBVIOUS
<1>. HIDE DEF s
<1>5. f[1] = n
  BY <1>1, <1>3
<1>6. \A i \in 1..1 : s[2 * i - 1] \in DOMAIN DecimalOf
  <2>. TAKE i \in 1..1
  <2>1. 2 * i - 1 = 1
    OBVIOUS
  <2>. QED
    BY <1>1, <1>3, <2>1
<1>7. Numbers(DecimalOf, 1, s) = {f}
  <2>1. Len(s) = 2 * 1 - 1 /\ \A i \in 1..(1 - 1) : s[2 * i] = ","
    BY <1>4
  <2>. HIDE DEF f
  <2>. QED
    BY <1>6, <2>1 DEF Numbers, f
<1>. HIDE DEF f
<1>. QED
  BY <1>1, <1>2, <1>3, <1>5, <1>7 DEF s, t

(* A mark in front, and none.                                              *)
LEMMA MarkFound ==
  ASSUME NEW c \in Lexeme, NEW t \in Seq(Lexeme)
  PROVE  <<c>> \o t \in Seq(Lexeme) /\ Begins(c, <<c>> \o t) = TRUE /\ Without(c, <<c>> \o t) = t
<1>. DEFINE u == <<c>> \o t
<1>1. u \in Seq(Lexeme) /\ u[1] = c /\ u # <<>> /\ Tail(u) = t
  BY Headed
<1>. HIDE DEF u
<1>2. Begins(c, u) = TRUE /\ Without(c, u) = t
  BY <1>1 DEF Begins, Without
<1>. QED
  BY <1>1, <1>2 DEF u

(* A numeral is none of the marks the grammar looks for.                   *)
LEMMA NoMark ==
  ASSUME NEW c \in Marks, NEW t, t[1] \notin Marks
  PROVE  Begins(c, t) = FALSE /\ Without(c, t) = t
BY DEF Begins, Without

(* A full turn, in hundredths of a degree; left folded because provers     *)
(* count to it.                                                            *)
FullTurn == 36000

(* A rotation is read back from its text, mirrored or not.                 *)
LEMMA TurnBack ==
  ASSUME NEW m \in BOOLEAN, NEW n \in DOMAIN Written, n \in Nat, n <= FullTurn
  PROVE  LET s == (IF m THEN <<"!">> ELSE <<>>) \o <<Written[n]>>
         IN  s \in Seq(Lexeme) /\ ParseRotation(s) = {[mirror |-> m, degrees |-> n]}
<1>. DEFINE t == <<Written[n]>>
            s == (IF m THEN <<"!">> ELSE <<>>) \o t
            form(b, g) == [mirror |-> b, degrees |-> g[1]]
<1>0. Written[n] \in Lexeme /\ Written[n] \notin Marks /\ t \in Seq(Lexeme)
      /\ \E f : Numbers(DecimalOf, 1, t) = {f} /\ f[1] = n
  BY DecimalBack
<1>1. t \in Seq(Lexeme) /\ t[1] \notin Marks
  BY <1>0
<1>. HIDE DEF t
<1>2. PICK f : Numbers(DecimalOf, 1, t) = {f} /\ f[1] = n
  BY <1>0
<1>3. s \in Seq(Lexeme) /\ Begins("!", s) = m /\ Without("!", s) = t
  <2>1. "!" \in Lexeme /\ "!" \in Marks
    BY DEF Lexeme, Marks
  <2>2. CASE m
    <3>1. m = TRUE /\ s = <<"!">> \o t
      BY <2>2
    <3>. QED
      BY <1>1, <2>1, <3>1, MarkFound
  <2>3. CASE ~m
    <3>1. m = FALSE /\ s = t
      BY <1>1, <2>3, Unheaded
    <3>. QED
      BY <1>1, <2>1, <3>1, NoMark
  <2>. QED
    BY <2>2, <2>3
<1>. HIDE DEF s
<1>4. ParseRotation(s) = {form(m, g) : g \in {e \in {f} : e[1] <= FullTurn}}
  BY <1>2, <1>3 DEF ParseRotation, FullTurn
<1>5. {e \in {f} : e[1] <= FullTurn} = {f}
  BY <1>2
<1>6. ParseRotation(s) = {form(m, f)}
  <2>. HIDE DEF form
  <2>. QED
    BY <1>4, <1>5
<1>. QED
  BY <1>2, <1>3, <1>6 DEF s, t

(* Rotation::canonical is read back as the rotation.                       *)
LEMMA RotationBack ==
  ASSUME NEW o, o.mirror \in BOOLEAN, o.degrees \in DOMAIN Written,
         o.degrees \in Nat, o.degrees <= FullTurn
  PROVE  /\ RotationText(o) \in Seq(Lexeme)
         /\ ParseRotation(RotationText(o)) = {[mirror |-> o.mirror, degrees |-> o.degrees]}
<1>. DEFINE m == o.mirror
            n == o.degrees
<1>1. RotationText(o) = (IF m THEN <<"!">> ELSE <<>>) \o <<Written[n]>>
  BY DEF RotationText
<1>2. m \in BOOLEAN /\ n \in DOMAIN Written /\ n \in Nat /\ n <= FullTurn
  OBVIOUS
<1>. HIDE DEF m, n
<1>3. /\ RotationText(o) \in Seq(Lexeme)
      /\ ParseRotation(RotationText(o)) = {[mirror |-> m, degrees |-> n]}
  BY <1>1, <1>2, TurnBack
<1>. QED
  BY <1>3 DEF m, n

(* Degrees are printed without their full turns.                           *)
LEMMA UprightTwice ==
  ASSUME NEW n \in Nat
  PROVE  /\ Upright(n) \in Nat /\ Upright(n) <= FullTurn
         /\ Upright(Upright(n)) = Upright(n)
BY DEF Upright, FullTurn

(* A sequence of one element.                                              *)
LEMMA Single ==
  ASSUME NEW S, NEW s \in Seq(S), Len(s) = 1
  PROVE  s = <<s[1]>>
OBVIOUS

(* `quality.format` is cut at its dot.                                     *)
LEMMA FileBack ==
  ASSUME NEW quality \in Qualities, NEW format \in Formats
  PROVE  LET file == FileText(quality, format)
             dot == SelectLastInSeq(file, LAMBDA lexeme : lexeme = ".")
         IN  /\ file \in Seq(Lexeme)
             /\ Contains(file, ".")
             /\ Words(Qualities, SubSeq(file, 1, dot - 1)) = {quality}
             /\ Words(Formats, SubSeq(file, dot + 1, Len(file))) = {format}
<1>. DEFINE file == FileText(quality, format)
            dot == SelectLastInSeq(file, LAMBDA lexeme : lexeme = ".")
            I == {i \in 1..Len(file) : file[i] = "."}
<1>1. quality \in Lexeme /\ format \in Lexeme /\ "." \in Lexeme
  BY DEF Lexeme
<1>2. quality # "." /\ format # "."
  BY DEF Qualities, Formats
<1>3. file = <<quality, ".", format>>
  BY DEF FileText
<1>4. file \in Seq(Lexeme) /\ Len(file) = 3
  BY <1>1, <1>3, Tuples
<1>5. file[1] = quality /\ file[2] = "." /\ file[3] = format
  BY <1>3
<1>6. SubSeq(file, 1, 1) = <<quality>> /\ SubSeq(file, 3, 3) = <<format>>
  <2>. HIDE DEF file
  <2>1. /\ SubSeq(file, 1, 1) \in Seq(Lexeme) /\ Len(SubSeq(file, 1, 1)) = 1
        /\ SubSeq(file, 1, 1)[1] = file[1]
    BY <1>4, SubSeqProperties
  <2>2. /\ SubSeq(file, 3, 3) \in Seq(Lexeme) /\ Len(SubSeq(file, 3, 3)) = 1
        /\ SubSeq(file, 3, 3)[1] = file[3]
    <3>1. /\ SubSeq(file, 3, 3) \in Seq(Lexeme)
          /\ Len(SubSeq(file, 3, 3)) = IF 3 <= 3 THEN 3 - 3 + 1 ELSE 0
          /\ \A i \in 1..(3 - 3 + 1) : SubSeq(file, 3, 3)[i] = file[3 + i - 1]
      <4>1. \A i \in 3..3 : file[i] \in Lexeme
        <5>1. file[3] \in Lexeme
          BY <1>1, <1>5
        <5>. QED
          BY <5>1
      <4>. HIDE DEF I, dot
      <4>. QED
        BY <1>4, <4>1, SubSeqProperties
    <3>. HIDE DEF I
    <3>2. 1 \in 1..(3 - 3 + 1) /\ 3 + 1 - 1 = 3
      OBVIOUS
    <3>3. SubSeq(file, 3, 3)[1] = file[3]
      BY <3>1, <3>2
    <3>. QED
      BY <3>1, <3>3
  <2>. QED
    BY <1>5, <2>1, <2>2, Single
<1>7. dot = IF I # {} THEN Max(I) ELSE 0
  BY DEF SelectLastInSeq
<1>. HIDE DEF file, dot
<1>8. I = {2}
  <2>1. \A i \in 1..3 : i = 1 \/ i = 2 \/ i = 3
    OBVIOUS
  <2>. QED
    BY <1>2, <1>4, <1>5, <2>1
<1>9. Max({2}) = 2
  BY DEF Max
<1>10. dot = 2
  BY <1>7, <1>8, <1>9
<1>11. Contains(file, ".")
  BY <1>4, <1>5 DEF Contains
<1>12. Words(Qualities, <<quality>>) = {quality} /\ Words(Formats, <<format>>) = {format}
  BY DEF Words
<1>13. dot - 1 = 1 /\ dot + 1 = 3
  BY <1>10
<1>. QED
  BY <1>4, <1>6, <1>11, <1>12, <1>13 DEF file, dot

(* A request is read part by part.                                         *)
LEMMA PartsRead ==
  ASSUME NEW api, NEW R, NEW Z, NEW O, NEW quality \in Qualities, NEW format \in Formats,
         NEW r, NEW z, NEW o, ParseRegion(R) = {r}, ParseRotation(O) = {o},
         (IF api = "v3" THEN ParseSize(Z) ELSE ParseSizeV2(Z)) = {z},
         NEW segments, Len(segments) = 4, segments[1] = R, segments[2] = Z, segments[3] = O,
         segments[4] = FileText(quality, format)
  PROVE  ParseRequest(api, segments)
           = {[region |-> r, size |-> z, rotation |-> o, quality |-> quality, format |-> format]}
<1>. DEFINE file == FileText(quality, format)
            dot == SelectLastInSeq(file, LAMBDA lexeme : lexeme = ".")
<1>1. /\ Contains(file, ".")
      /\ Words(Qualities, SubSeq(file, 1, dot - 1)) = {quality}
      /\ Words(Formats, SubSeq(file, dot + 1, Len(file))) = {format}
  BY FileBack
<1>2. ParseRequest(api, segments) =
        [region : ParseRegion(R), size : IF api = "v3" THEN ParseSize(Z) ELSE ParseSizeV2(Z),
         rotation : ParseRotation(O), quality : Words(Qualities, SubSeq(file, 1, dot - 1)),
         format : Words(Formats, SubSeq(file, dot + 1, Len(file)))]
  <2>1. segments[4] = file
    OBVIOUS
  <2>. HIDE DEF file
  <2>. QED
    BY <1>1, <2>1 DEF ParseRequest
<1>. HIDE DEF file, dot
<1>3. ParseRequest(api, segments) =
        [region : {r}, size : {z}, rotation : {o}, quality : {quality}, format : {format}]
  BY <1>1, <1>2
<1>. DEFINE q == [region |-> r, size |-> z, rotation |-> o, quality |-> quality, format |-> format]
<1>4. ASSUME NEW p \in ParseRequest(api, segments)
      PROVE  p = q
  BY <1>3
<1>5. q \in ParseRequest(api, segments)
  BY <1>3
<1>. HIDE DEF q
<1>6. ParseRequest(api, segments) = {q}
  BY <1>4, <1>5
<1>. QED
  BY <1>6 DEF q

(* Numbers up to a side can be written and read.                           *)
LEMMA SideReadable ==
  ASSUME NEW n \in Side
  PROVE  n \in Nat \ {0} /\ \A k \in 0..n : Readable(k)
BY DEF Side

(* What is known of a master.                                              *)
LEMMA MasterHas ==
  ASSUME NEW m \in Master
  PROVE  /\ m.w \in Side /\ m.h \in Side /\ Sided(m)
         /\ m.version \in Nat \ {0}
         /\ m.tile \in [w : Nat, h : Nat] /\ (m.tile.w = 0 <=> m.tile.h = 0)
         /\ m.levels \in Seq(Level)
         /\ \A i \in DOMAIN m.levels : m.levels[i].w <= m.w /\ m.levels[i].h <= m.h
<1>1. /\ m \in [opens : {"yes", "unsupported", "corrupt", "limit"}, version : Nat \ {0},
                w : Side, h : Side, tile : [w : Nat, h : Nat], levels : Seq(Level)]
      /\ \A i \in DOMAIN m.levels : m.levels[i].w <= m.w /\ m.levels[i].h <= m.h
      /\ m.tile.w = 0 <=> m.tile.h = 0
  BY Zenon DEF Master
<1>2. m.w \in Side /\ m.h \in Side
  BY <1>1
<1>3. Sided(m)
  BY <1>2, SideReadable DEF Sided
<1>4. m.version \in Nat \ {0} /\ m.tile \in [w : Nat, h : Nat] /\ m.levels \in Seq(Level)
  BY <1>1
<1>. QED
  BY <1>1, <1>2, <1>3, <1>4

(* The limits.                                                             *)
LEMMA LimitsHave == Limits.w \in Side /\ Limits.h \in Side /\ Limits.area \in Nat \ {0}
BY RespondAssumption

(* What ParseRequest reads, see RequestParsed.                             *)
Typed(q) ==
  /\ q.region \in RegionForms /\ q.size \in SizeForms
  /\ q.rotation.mirror \in BOOLEAN /\ q.rotation.degrees \in Nat
  /\ Upright(q.rotation.degrees) \in DOMAIN Written
  /\ q.quality \in Qualities /\ q.format \in Formats

(* A plan with all its parts.                                              *)
WholePlan(p) ==
  [ok |-> TRUE, crop |-> p.crop, w |-> p.w, h |-> p.h, upscales |-> p.upscales, wasMax |-> p.wasMax,
   mirror |-> p.mirror, degrees |-> p.degrees, quality |-> p.quality, format |-> p.format]

(* The one member of a set of one.                                         *)
LEMMA TheOne == ASSUME NEW x PROVE The({x}) = x
BY DEF The

(* The plan of a request, from what Evaluate yields.                       *)
LEMMA PlanFrom ==
  ASSUME NEW q, NEW master, NEW e, e = Evaluate(q.region, q.size, master, Limits, {})
  PROVE  PlanFor(q, master) =
           IF ~e.ok THEN e
           ELSE [ok |-> TRUE, crop |-> e.crop, w |-> e.w, h |-> e.h,
                 upscales |-> e.upscales, wasMax |-> e.wasMax,
                 mirror |-> q.rotation.mirror, degrees |-> Upright(q.rotation.degrees),
                 quality |-> q.quality, format |-> q.format]
<1>. DEFINE made(x) == IF ~x.ok THEN x
                       ELSE [ok |-> TRUE, crop |-> x.crop, w |-> x.w, h |-> x.h,
                             upscales |-> x.upscales, wasMax |-> x.wasMax,
                             mirror |-> q.rotation.mirror,
                             degrees |-> Upright(q.rotation.degrees),
                             quality |-> q.quality, format |-> q.format]
<1>1. PlanFor(q, master) = The({made(plan) : plan \in {e}})
  BY Zenon DEF PlanFor
<1>2. {made(plan) : plan \in {e}} = {made(e)}
  <2>. HIDE DEF made
  <2>. QED
    OBVIOUS
<1>3. The({made(e)}) = made(e)
  BY TheOne
<1>. QED
  BY <1>1, <1>2, <1>3, Zenon

(* A plan is that of Evaluate, with rotation, quality and format passed    *)
(* through.                                                                *)
LEMMA PlanMade ==
  ASSUME NEW q, NEW master, NEW p, p = PlanFor(q, master), p.ok,
         NEW e, e = Evaluate(q.region, q.size, master, Limits, {})
  PROVE  /\ e.ok /\ p = WholePlan(p)
         /\ p.crop = e.crop /\ p.w = e.w /\ p.h = e.h
         /\ p.upscales = e.upscales /\ p.wasMax = e.wasMax
         /\ p.mirror = q.rotation.mirror /\ p.degrees = Upright(q.rotation.degrees)
         /\ p.quality = q.quality /\ p.format = q.format
<1>1. p = IF ~e.ok THEN e
          ELSE [ok |-> TRUE, crop |-> e.crop, w |-> e.w, h |-> e.h,
                upscales |-> e.upscales, wasMax |-> e.wasMax,
                mirror |-> q.rotation.mirror, degrees |-> Upright(q.rotation.degrees),
                quality |-> q.quality, format |-> q.format]
  BY PlanFrom
<1>2. e.ok
  BY <1>1
<1>3. p = [ok |-> TRUE, crop |-> e.crop, w |-> e.w, h |-> e.h,
           upscales |-> e.upscales, wasMax |-> e.wasMax,
           mirror |-> q.rotation.mirror, degrees |-> Upright(q.rotation.degrees),
           quality |-> q.quality, format |-> q.format]
  BY <1>1, <1>2
<1>. QED
  BY <1>2, <1>3 DEF WholePlan

(* A plan for a request that was read.                                     *)
IsPlan(p, q, master) ==
  master \in Master /\ Typed(q) /\ p = PlanFor(q, master) /\ p.ok

(* Its numbers can all be written.                                         *)
LEMMA PlanNumbers ==
  ASSUME NEW q, NEW master, NEW p, IsPlan(p, q, master)
  PROVE  /\ p.w \in Nat \ {0} /\ Readable(p.w)
         /\ p.h \in Nat \ {0} /\ Readable(p.h)
         /\ p.w <= Limits.w /\ p.h <= Limits.h
         /\ p.crop = Crop(p.crop.x, p.crop.y, p.crop.w, p.crop.h)
         /\ p.crop.x \in Nat /\ Readable(p.crop.x) /\ p.crop.y \in Nat /\ Readable(p.crop.y)
         /\ p.crop.w \in Nat \ {0} /\ Readable(p.crop.w)
         /\ p.crop.h \in Nat \ {0} /\ Readable(p.crop.h)
         /\ p.upscales = (p.w > p.crop.w \/ p.h > p.crop.h)
         /\ p.wasMax = (q.size.kind = "max")
         /\ p.mirror \in BOOLEAN /\ p.degrees \in DOMAIN Written
         /\ p.degrees \in Nat /\ p.degrees <= FullTurn /\ Upright(p.degrees) = p.degrees
         /\ p.quality \in Qualities /\ p.format \in Formats
<1>. USE DEF IsPlan
<1>. DEFINE e == Evaluate(q.region, q.size, master, Limits, {})
<1>1. /\ e.ok /\ p.crop = e.crop /\ p.w = e.w /\ p.h = e.h
      /\ p.upscales = e.upscales /\ p.wasMax = e.wasMax
      /\ p.mirror = q.rotation.mirror /\ p.degrees = Upright(q.rotation.degrees)
      /\ p.quality = q.quality /\ p.format = q.format
  BY PlanMade
<1>2. Limits.w \in Side /\ Limits.h \in Side /\ Limits.area \in Nat
  BY LimitsHave
<1>3. /\ Limits.w \in Nat \ {0} /\ Limits.h \in Nat \ {0}
      /\ (\A k \in 0..Limits.w : Readable(k)) /\ (\A k \in 0..Limits.h : Readable(k))
  BY <1>2, SideReadable
<1>4. /\ master.w \in Nat \ {0} /\ master.h \in Nat \ {0} /\ Sided(master)
      /\ (\A k \in 0..master.w : Readable(k)) /\ (\A k \in 0..master.h : Readable(k))
  BY MasterHas, SideReadable
<1>5. q.region \in RegionForms /\ q.size \in SizeForms
  BY DEF Typed
<1>6. /\ e.w \in 1..Limits.w /\ e.h \in 1..Limits.h
      /\ e.upscales = (e.w > e.crop.w \/ e.h > e.crop.h)
      /\ e.wasMax = (q.size.kind = "max")
      /\ Inside(e.crop, master)
      /\ e.crop = Crop(e.crop.x, e.crop.y, e.crop.w, e.crop.h)
  BY <1>1, <1>2, <1>3, <1>4, <1>5, PlanTyped
<1>. HIDE DEF e
<1>7. /\ p.w \in Nat \ {0} /\ Readable(p.w) /\ p.h \in Nat \ {0} /\ Readable(p.h)
      /\ p.w <= Limits.w /\ p.h <= Limits.h
  BY <1>1, <1>3, <1>6
<1>8. /\ p.crop.x \in Nat /\ p.crop.y \in Nat /\ p.crop.w \in Nat \ {0} /\ p.crop.h \in Nat \ {0}
      /\ p.crop.x \in 0..master.w /\ p.crop.w \in 0..master.w
      /\ p.crop.y \in 0..master.h /\ p.crop.h \in 0..master.h
  BY <1>1, <1>4, <1>6 DEF Inside
<1>9. Readable(p.crop.x) /\ Readable(p.crop.y) /\ Readable(p.crop.w) /\ Readable(p.crop.h)
  BY <1>4, <1>8
<1>10. /\ p.mirror \in BOOLEAN /\ p.degrees \in DOMAIN Written
       /\ p.quality \in Qualities /\ p.format \in Formats /\ q.rotation.degrees \in Nat
  BY <1>1 DEF Typed
<1>11. p.degrees \in Nat /\ p.degrees <= FullTurn /\ Upright(p.degrees) = p.degrees
  BY <1>1, <1>10, UprightTwice
<1>12. /\ p.upscales = (p.w > p.crop.w \/ p.h > p.crop.h)
       /\ p.wasMax = (q.size.kind = "max")
       /\ p.crop = Crop(p.crop.x, p.crop.y, p.crop.w, p.crop.h)
  BY <1>1, <1>6
<1>. QED
  BY <1>7, <1>8, <1>9, <1>10, <1>11, <1>12

(* The region of a canonical path is read back.                            *)
LEMMA PlanRegionBack ==
  ASSUME NEW q, NEW master, NEW p, IsPlan(p, q, master)
  PROVE  /\ RegionText(CanonicalRegion(p, master)) \in Seq(Lexeme)
         /\ ParseRegion(RegionText(CanonicalRegion(p, master))) = {CanonicalRegion(p, master)}
<1>. DEFINE x == p.crop.x
            y == p.crop.y
            w == p.crop.w
            h == p.crop.h
<1>1. /\ x \in Nat /\ Readable(x) /\ y \in Nat /\ Readable(y)
      /\ w \in Nat \ {0} /\ Readable(w) /\ h \in Nat \ {0} /\ Readable(h)
  BY PlanNumbers
<1>2. \/ CanonicalRegion(p, master) = [kind |-> "full"]
      \/ CanonicalRegion(p, master) = [kind |-> "pixels", x |-> x, y |-> y, w |-> w, h |-> h]
  BY Zenon DEF CanonicalRegion
<1>. HIDE DEF x, y, w, h
<1>3. \/ CanonicalRegion(p, master) = [kind |-> "full"]
      \/ \E i \in Nat, j \in Nat, k \in Nat \ {0}, l \in Nat \ {0} :
           /\ Readable(i) /\ Readable(j) /\ Readable(k) /\ Readable(l)
           /\ CanonicalRegion(p, master) = [kind |-> "pixels", x |-> i, y |-> j, w |-> k, h |-> l]
  BY <1>1, <1>2, Zenon
<1>. QED
  BY <1>3, RegionBack

(* So is its v3 size ...                                                   *)
LEMMA PlanSizeBack ==
  ASSUME NEW q, NEW master, NEW p, IsPlan(p, q, master)
  PROVE  /\ SizeText(CanonicalSize(p)) \in Seq(Lexeme)
         /\ ParseSize(SizeText(CanonicalSize(p))) = {CanonicalSize(p)}
<1>. DEFINE up == p.upscales
            w == p.w
            h == p.h
<1>1. /\ w \in Nat \ {0} /\ Readable(w) /\ h \in Nat \ {0} /\ Readable(h)
      /\ p.upscales = (p.w > p.crop.w \/ p.h > p.crop.h)
  BY PlanNumbers
<1>2. up \in BOOLEAN
  BY <1>1
<1>3. \/ CanonicalSize(p) = [kind |-> "max", up |-> up]
      \/ CanonicalSize(p) = [kind |-> "exact", up |-> up, w |-> w, h |-> h]
  BY Zenon DEF CanonicalSize
<1>. HIDE DEF up, w, h
<1>4. \/ CanonicalSize(p) = [kind |-> "max", up |-> up]
      \/ \E i \in Nat \ {0}, j \in Nat \ {0} :
           Readable(i) /\ Readable(j)
           /\ CanonicalSize(p) = [kind |-> "exact", up |-> up, w |-> i, h |-> j]
  BY <1>1, <1>3, Zenon
<1>. QED
  BY <1>2, <1>4, SizeBack

(* Two lexemes.                                                            *)
LEMMA Couple ==
  ASSUME NEW S, NEW a \in S, NEW b \in S
  PROVE  <<a, b>> \in Seq(S) /\ Len(<<a, b>>) = 2 /\ <<a, b>>[1] = a /\ <<a, b>>[2] = b
OBVIOUS

(* ... and the v2 size is one of three.                                    *)
LEMMA PlanSizeV2 ==
  ASSUME NEW q, NEW master, NEW p, IsPlan(p, q, master)
  PROVE  LET text == SizeTextV2(CanonicalV2Size(p, master, q.size))
         IN  /\ text \in Seq(Lexeme)
             /\ \/ text = <<"full">> /\ p.wasMax /\ IsFullRegion(p, master) /\ ~p.upscales
                \/ Last(text) = ","
                \/ text = Written2(p.w, p.h) /\ ~p.wasMax
<1>. DEFINE z == CanonicalV2Size(p, master, q.size)
            full == p.wasMax /\ IsFullRegion(p, master) /\ ~p.upscales
            text == SizeTextV2(z)
<1>1. /\ p.w \in Nat \ {0} /\ Readable(p.w) /\ p.h \in Nat \ {0} /\ Readable(p.h)
      /\ p.wasMax = (q.size.kind = "max")
  BY PlanNumbers
<1>2. CASE full
  <2>1. z = [kind |-> "max", up |-> FALSE]
    BY <1>2, Zenon DEF CanonicalV2Size
  <2>. HIDE DEF z
  <2>2. z.kind = "max"
    BY <2>1
  <2>3. text = <<"full">>
    BY <2>2 DEF SizeTextV2
  <2>. QED
    BY <1>2, <2>3, FullIsNoSize DEF z
<1>3. CASE ~full /\ q.size.kind # "exact"
  <2>1. z = [kind |-> "width", up |-> TRUE, w |-> p.w]
    BY <1>3, Zenon DEF CanonicalV2Size
  <2>. DEFINE t == Written[100 * p.w]
  <2>2. t \in Lexeme
    BY <1>1, ReadBack
  <2>3. z.kind = "width" /\ z.w = p.w
    BY <2>1
  <2>. HIDE DEF z
  <2>4. text = <<t, ",">>
    BY <2>3 DEF SizeTextV2
  <2>5. "," \in Lexeme
    BY DEF Lexeme, Marks
  <2>. HIDE DEF t
  <2>. DEFINE s == <<t, ",">>
  <2>6. s \in Seq(Lexeme) /\ Len(s) = 2 /\ s[2] = ","
    BY <2>2, <2>5, Couple
  <2>. HIDE DEF s
  <2>7. Last(s) = ","
    BY <2>6 DEF Last
  <2>8. text = s
    BY <2>4 DEF s
  <2>. HIDE DEF text
  <2>9. text \in Seq(Lexeme) /\ Last(text) = ","
    BY <2>6, <2>7, <2>8
  <2>. QED
    BY <2>9 DEF text, z
<1>4. CASE ~full /\ q.size.kind = "exact"
  <2>1. z = [kind |-> "exact", up |-> TRUE, w |-> p.w, h |-> p.h]
    BY <1>4, Zenon DEF CanonicalV2Size
  <2>2. z.kind = "exact" /\ z.w = p.w /\ z.h = p.h
    BY <2>1
  <2>. HIDE DEF z
  <2>3. text = Written2(p.w, p.h)
    BY <2>2 DEF SizeTextV2
  <2>4. ~p.wasMax
    BY <1>1, <1>4
  <2>5. Written2(p.w, p.h) \in Seq(Lexeme)
    BY <1>1, PairRead
  <2>. HIDE DEF text
  <2>6. text \in Seq(Lexeme) /\ text = Written2(p.w, p.h) /\ ~p.wasMax
    BY <2>3, <2>4, <2>5
  <2>. QED
    BY <2>6 DEF text, z
<1>. QED
  BY <1>2, <1>3, <1>4

(* Its rotation.                                                           *)
LEMMA PlanRotationBack ==
  ASSUME NEW q, NEW master, NEW p, IsPlan(p, q, master)
  PROVE  /\ RotationText(p) \in Seq(Lexeme)
         /\ ParseRotation(RotationText(p)) = {[mirror |-> p.mirror, degrees |-> p.degrees]}
<1>1. p.mirror \in BOOLEAN /\ p.degrees \in DOMAIN Written /\ p.degrees \in Nat /\ p.degrees <= FullTurn
  BY PlanNumbers
<1>. QED
  BY <1>1, RotationBack

(* Four segments.                                                          *)
LEMMA FourSegments ==
  ASSUME NEW a \in Seq(Lexeme), NEW b \in Seq(Lexeme), NEW c \in Seq(Lexeme), NEW d \in Seq(Lexeme)
  PROVE  /\ <<a, b, c, d>> \in Seq(Seq(Lexeme)) /\ Len(<<a, b, c, d>>) = 4
         /\ <<a, b, c, d>>[1] = a /\ <<a, b, c, d>>[2] = b
         /\ <<a, b, c, d>>[3] = c /\ <<a, b, c, d>>[4] = d
<1>1. <<a, b, c, d>> \in Seq(Seq(Lexeme)) /\ Len(<<a, b, c, d>>) = 4
  BY Tuples
<1>2. <<a, b, c, d>>[1] = a /\ <<a, b, c, d>>[2] = b /\ <<a, b, c, d>>[3] = c /\ <<a, b, c, d>>[4] = d
  OBVIOUS
<1>. QED
  BY <1>1, <1>2

(* The segments of a canonical path.                                       *)
LEMMA CanonicalSegments ==
  ASSUME NEW q, NEW master, NEW p, IsPlan(p, q, master), NEW api
  PROVE  LET path == CanonicalPath(api, p, q, master)
         IN  /\ path \in Seq(Seq(Lexeme)) /\ Len(path) = 4
             /\ path[1] = RegionText(CanonicalRegion(p, master))
             /\ path[2] = IF api = "v3" THEN SizeText(CanonicalSize(p))
                                            ELSE SizeTextV2(CanonicalV2Size(p, master, q.size))
             /\ path[3] = RotationText(p)
             /\ path[4] = FileText(p.quality, p.format)
<1>. DEFINE a == RegionText(CanonicalRegion(p, master))
            b == IF api = "v3" THEN SizeText(CanonicalSize(p))
                                   ELSE SizeTextV2(CanonicalV2Size(p, master, q.size))
            c == RotationText(p)
            d == FileText(p.quality, p.format)
<1>1. a \in Seq(Lexeme)
  BY PlanRegionBack
<1>2. b \in Seq(Lexeme)
  BY PlanSizeBack, PlanSizeV2
<1>3. c \in Seq(Lexeme)
  BY PlanRotationBack
<1>4. d \in Seq(Lexeme)
  <2>1. p.quality \in Qualities /\ p.format \in Formats
    BY PlanNumbers
  <2>. QED
    BY <2>1, FileBack
<1>5. CanonicalPath(api, p, q, master) = <<a, b, c, d>>
  BY DEF CanonicalPath
<1>. HIDE DEF a, b, c, d
<1>6. /\ <<a, b, c, d>> \in Seq(Seq(Lexeme)) /\ Len(<<a, b, c, d>>) = 4
      /\ <<a, b, c, d>>[1] = a /\ <<a, b, c, d>>[2] = b
      /\ <<a, b, c, d>>[3] = c /\ <<a, b, c, d>>[4] = d
  BY <1>1, <1>2, <1>3, <1>4, FourSegments
<1>7. LET path == CanonicalPath(api, p, q, master)
      IN  /\ path \in Seq(Seq(Lexeme)) /\ Len(path) = 4
          /\ path[1] = a /\ path[2] = b /\ path[3] = c /\ path[4] = d
  BY <1>5, <1>6, Zenon
<1>. QED
  BY <1>7, Zenon DEF a, b, c, d

(* The v3 canonical path leads to the same plan.                           *)
LEMMA CanonicalAgain ==
  ASSUME NEW q, NEW master, NEW p, IsPlan(p, q, master)
  PROVE  LET path == CanonicalPath("v3", p, q, master)
         IN  \E again : /\ ParseRequest("v3", path) = {again}
                        /\ PlanFor(again, master) = p
                        /\ CanonicalPath("v3", p, again, master) = path
<1>. USE DEF IsPlan
<1>. DEFINE e == Evaluate(q.region, q.size, master, Limits, {})
            path == CanonicalPath("v3", p, q, master)
            r == CanonicalRegion(p, master)
            z == CanonicalSize(p)
            o == [mirror |-> p.mirror, degrees |-> p.degrees]
            again == [region |-> r, size |-> z, rotation |-> o, quality |-> p.quality, format |-> p.format]
<1>1. ParseRequest("v3", path) = {again}
  <2>1. /\ Len(path) = 4 /\ path[1] = RegionText(r) /\ path[2] = SizeText(z)
        /\ path[3] = RotationText(p) /\ path[4] = FileText(p.quality, p.format)
    BY CanonicalSegments
  <2>2. ParseRegion(RegionText(r)) = {r}
    BY PlanRegionBack
  <2>3. ParseSize(SizeText(z)) = {z}
    BY PlanSizeBack
  <2>4. ParseRotation(RotationText(p)) = {o}
    BY PlanRotationBack
  <2>5. p.quality \in Qualities /\ p.format \in Formats
    BY PlanNumbers
  <2>6. (IF "v3" = "v3" THEN ParseSize(SizeText(z)) ELSE ParseSizeV2(SizeText(z))) = {z}
    BY <2>3
  <2>. HIDE DEF path, r, z, o
  <2>. QED
    BY ONLY <2>1, <2>2, <2>4, <2>5, <2>6, PartsRead DEF again
<1>2. /\ e.ok /\ p = WholePlan(p)
      /\ p.crop = e.crop /\ p.w = e.w /\ p.h = e.h
      /\ p.upscales = e.upscales /\ p.wasMax = e.wasMax
  BY PlanMade
<1>3. r = CanonicalRegion(e, master) /\ z = CanonicalSize(e)
  <2>. HIDE DEF e
  <2>1. IsFullRegion(p, master) <=> IsFullRegion(e, master)
    BY <1>2 DEF IsFullRegion
  <2>2. r = CanonicalRegion(e, master)
    BY <1>2, <2>1 DEF CanonicalRegion
  <2>. QED
    BY <1>2, <2>2 DEF CanonicalSize
<1>4. Evaluate(r, z, master, Limits, {}) = e
  <2>1. Limits.w \in Nat /\ Limits.h \in Nat /\ Limits.area \in Nat
    BY LimitsHave, SideReadable
  <2>2. Sided(master) /\ q.region \in RegionForms /\ q.size \in SizeForms
    BY MasterHas DEF Typed
  <2>3. Evaluate(CanonicalRegion(e, master), CanonicalSize(e), master, Limits, {}) = e
    BY <1>2, <2>1, <2>2, CanonicalBack
  <2>. HIDE DEF e, r, z
  <2>. QED
    BY <1>3, <2>3
<1>5. Upright(p.degrees) = p.degrees
  BY PlanNumbers
<1>. HIDE DEF e, r, z
<1>6. PlanFor(again, master) = WholePlan(p)
  <2>1. again.region = r /\ again.size = z /\ again.rotation = o
        /\ again.quality = p.quality /\ again.format = p.format
    OBVIOUS
  <2>2. o.mirror = p.mirror /\ o.degrees = p.degrees
    OBVIOUS
  <2>. HIDE DEF again, o
  <2>3. PlanFor(again, master) =
          [ok |-> TRUE, crop |-> e.crop, w |-> e.w, h |-> e.h,
           upscales |-> e.upscales, wasMax |-> e.wasMax,
           mirror |-> p.mirror, degrees |-> p.degrees, quality |-> p.quality, format |-> p.format]
    <3>1. e = Evaluate(again.region, again.size, master, Limits, {}) /\ e.ok
      BY <1>2, <1>4, <2>1
    <3>. QED
      BY <3>1, <1>5, <2>1, <2>2, PlanFrom
  <2>. QED
    BY <1>2, <2>3 DEF WholePlan
<1>7. CanonicalPath("v3", p, again, master) = path
  <2>. HIDE DEF again
  <2>. QED
    BY DEF CanonicalPath
<1>. QED
  BY <1>1, <1>2, <1>6, <1>7

(* The crop is known from the region's text.                               *)
LEMMA SameCrop ==
  ASSUME NEW master,
         NEW q, NEW p, IsPlan(p, q, master), NEW u, NEW v, IsPlan(v, u, master),
         RegionText(CanonicalRegion(p, master)) = RegionText(CanonicalRegion(v, master))
  PROVE  CanonicalRegion(p, master) = CanonicalRegion(v, master) /\ p.crop = v.crop
<1>1. /\ ParseRegion(RegionText(CanonicalRegion(p, master))) = {CanonicalRegion(p, master)}
      /\ ParseRegion(RegionText(CanonicalRegion(v, master))) = {CanonicalRegion(v, master)}
  BY PlanRegionBack
<1>2. CanonicalRegion(p, master) = CanonicalRegion(v, master)
  BY <1>1
<1>3. /\ p.crop = Crop(p.crop.x, p.crop.y, p.crop.w, p.crop.h)
      /\ v.crop = Crop(v.crop.x, v.crop.y, v.crop.w, v.crop.h)
  BY PlanNumbers
<1>4. CASE IsFullRegion(p, master) /\ IsFullRegion(v, master)
  BY <1>2, <1>4 DEF IsFullRegion
<1>5. CASE ~IsFullRegion(p, master) /\ ~IsFullRegion(v, master)
  <2>1. [kind |-> "pixels", x |-> p.crop.x, y |-> p.crop.y, w |-> p.crop.w, h |-> p.crop.h]
          = [kind |-> "pixels", x |-> v.crop.x, y |-> v.crop.y, w |-> v.crop.w, h |-> v.crop.h]
    BY <1>2, <1>5, Zenon DEF CanonicalRegion
  <2>2. p.crop.x = v.crop.x /\ p.crop.y = v.crop.y /\ p.crop.w = v.crop.w /\ p.crop.h = v.crop.h
    BY <2>1
  <2>. QED
    BY <1>2, <1>3, <2>2
<1>6. ASSUME NEW a, NEW b, IsFullRegion(a, master), ~IsFullRegion(b, master)
      PROVE  CanonicalRegion(a, master) # CanonicalRegion(b, master)
  <2>1. CanonicalRegion(a, master).kind = "full" /\ CanonicalRegion(b, master).kind = "pixels"
    BY <1>6 DEF CanonicalRegion
  <2>. QED
    BY <2>1
<1>. QED
  BY <1>2, <1>4, <1>5, <1>6

(* In v2, max never upscales.                                              *)
PlainMax(api, q) == api # "v3" /\ q.size.kind = "max" => ~q.size.up

(* What a size's text tells, read as a v3 size.                            *)
Told(text, p, q) ==
  \/ ParseSize(text) = {CanonicalSize(p)}
  \/ ParseSize(text) = {} /\ q.size = [kind |-> "max", up |-> FALSE]
  \/ /\ ParseSize(text) = {[kind |-> "exact", up |-> FALSE, w |-> p.w, h |-> p.h]}
     /\ ~p.wasMax

(* What is read off a canonical path.                                      *)
IsPath(path, api, p, q, master) ==
  /\ path \in Seq(Seq(Lexeme)) /\ Len(path) = 4
  /\ path[1] = RegionText(CanonicalRegion(p, master))
  /\ path[2] = IF api = "v3" THEN SizeText(CanonicalSize(p))
                                 ELSE SizeTextV2(CanonicalV2Size(p, master, q.size))
  /\ path[3] = RotationText(p)
  /\ path[4] = FileText(p.quality, p.format)

(* Plan::canonical_path consists of these parts.                           *)
LEMMA PathIs ==
  ASSUME NEW q, NEW master, NEW p, IsPlan(p, q, master), NEW api
  PROVE  IsPath(CanonicalPath(api, p, q, master), api, p, q, master)
<1>. DEFINE path == CanonicalPath(api, p, q, master)
<1>1. /\ path \in Seq(Seq(Lexeme)) /\ Len(path) = 4
      /\ path[1] = RegionText(CanonicalRegion(p, master))
      /\ path[2] = IF api = "v3" THEN SizeText(CanonicalSize(p))
                                     ELSE SizeTextV2(CanonicalV2Size(p, master, q.size))
      /\ path[3] = RotationText(p)
      /\ path[4] = FileText(p.quality, p.format)
  BY CanonicalSegments
<1>. HIDE DEF path
<1>2. IsPath(path, api, p, q, master)
  BY <1>1, Zenon DEF IsPath
<1>. QED
  BY <1>2 DEF path

(* The text of a canonical size tells the size, but for `w,`.              *)
LEMMA SizeTold ==
  ASSUME NEW master, NEW q, NEW p, IsPlan(p, q, master),
         NEW api, PlainMax(api, q),
         NEW text, Last(text) # ",",
         text = IF api = "v3" THEN SizeText(CanonicalSize(p))
                                  ELSE SizeTextV2(CanonicalV2Size(p, master, q.size))
  PROVE  Told(text, p, q)
<1>1. text = IF api = "v3" THEN SizeText(CanonicalSize(p))
                               ELSE SizeTextV2(CanonicalV2Size(p, master, q.size))
  OBVIOUS
<1>2. CASE api = "v3"
  BY <1>1, <1>2, PlanSizeBack DEF Told
<1>3. CASE api # "v3"
  <2>1. \/ text = <<"full">> /\ p.wasMax
        \/ text = Written2(p.w, p.h) /\ ~p.wasMax
    BY <1>1, <1>3, PlanSizeV2
  <2>2. CASE text = <<"full">> /\ p.wasMax
    <3>1. q.size.kind = "max" /\ q.size \in SizeForms
      BY <2>2, PlanNumbers DEF Typed, IsPlan
    <3>2. q.size \in [kind : {"max"}, up : BOOLEAN] /\ ~q.size.up
      BY <1>3, <3>1 DEF SizeForms, PlainMax
    <3>3. q.size = [kind |-> "max", up |-> FALSE]
      BY <3>2
    <3>. QED
      BY <2>2, <3>3, FullIsNoSize DEF Told
  <2>3. CASE text = Written2(p.w, p.h) /\ ~p.wasMax
    <3>1. p.w \in Nat \ {0} /\ p.h \in Nat \ {0} /\ Readable(p.w) /\ Readable(p.h)
      BY PlanNumbers
    <3>. DEFINE w == p.w
                h == p.h
    <3>2. ParseSize(Written2(w, h)) = {[kind |-> "exact", up |-> FALSE, w |-> w, h |-> h]}
      <4>. HIDE DEF w, h
      <4>. QED
        BY <3>1, PairSize DEF w, h
    <3>. QED
      BY <2>3, <3>2, Zenon DEF Told
  <2>. QED
    BY <2>1, <2>2, <2>3
<1>. QED
  BY <1>2, <1>3

(* Two plans with one crop and one canonical v3 size are of one size.      *)
LEMMA SameSizeV3 ==
  ASSUME NEW master,
         NEW q, NEW p, IsPlan(p, q, master), NEW u, NEW v, IsPlan(v, u, master),
         CanonicalRegion(p, master) = CanonicalRegion(v, master),
         CanonicalSize(p) = CanonicalSize(v)
  PROVE  p.w = v.w /\ p.h = v.h /\ p.wasMax = v.wasMax
<1>. USE DEF IsPlan
<1>. DEFINE e == Evaluate(q.region, q.size, master, Limits, {})
            f == Evaluate(u.region, u.size, master, Limits, {})
<1>2. /\ e.ok /\ p.crop = e.crop /\ p.w = e.w /\ p.h = e.h
      /\ p.upscales = e.upscales /\ p.wasMax = e.wasMax
      /\ f.ok /\ v.crop = f.crop /\ v.w = f.w /\ v.h = f.h
      /\ v.upscales = f.upscales /\ v.wasMax = f.wasMax
  BY PlanMade
<1>3. /\ Evaluate(CanonicalRegion(e, master), CanonicalSize(e), master, Limits, {}) = e
      /\ Evaluate(CanonicalRegion(f, master), CanonicalSize(f), master, Limits, {}) = f
  <2>1. Limits.w \in Nat /\ Limits.h \in Nat /\ Limits.area \in Nat
    BY LimitsHave, SideReadable
  <2>2. /\ Sided(master) /\ q.region \in RegionForms /\ q.size \in SizeForms
        /\ u.region \in RegionForms /\ u.size \in SizeForms
    BY MasterHas DEF Typed
  <2>. QED
    BY <1>2, <2>1, <2>2, CanonicalBack
<1>. HIDE DEF e, f
<1>4. /\ CanonicalRegion(p, master) = CanonicalRegion(e, master)
      /\ CanonicalRegion(v, master) = CanonicalRegion(f, master)
  BY <1>2 DEF CanonicalRegion, IsFullRegion
<1>5. CanonicalSize(p) = CanonicalSize(e) /\ CanonicalSize(v) = CanonicalSize(f)
  BY <1>2 DEF CanonicalSize
<1>6. e = f
  BY <1>3, <1>4, <1>5
<1>. QED
  BY <1>2, <1>6

(* The parts of an evaluated plan.                                         *)
LEMMA EvaluatedParts ==
  ASSUME NEW r, NEW sz, NEW img, NEW lim, NEW s, NEW p, p = Evaluate(r, sz, img, lim, s), p.ok
  PROVE  /\ p.crop = ResolveRegion(r, img, s) /\ p.crop.ok
         /\ p.w = ResolveSize(sz, p.crop.w, p.crop.h, lim, s).w
         /\ p.h = ResolveSize(sz, p.crop.w, p.crop.h, lim, s).h
<1>. DEFINE crop == ResolveRegion(r, img, s)
            res == ResolveSize(sz, crop.w, crop.h, lim, s)
<1>1. /\ crop.ok
      /\ p = [ok |-> TRUE, crop |-> crop, w |-> res.w, h |-> res.h,
              upscales |-> res.upscales, wasMax |-> sz.kind = "max"]
  BY Evaluated
<1>. HIDE DEF crop
<1>2. p.crop = crop /\ p.w = res.w /\ p.h = res.h
  BY <1>1
<1>. QED
  BY <1>1, <1>2 DEF crop

(* The crop and the size of a plan are those resolved.                     *)
LEMMA PlanResolved ==
  ASSUME NEW master, NEW q, NEW p, IsPlan(p, q, master)
  PROVE  /\ p.crop = ResolveRegion(q.region, master, {})
         /\ p.w = ResolveSize(q.size, p.crop.w, p.crop.h, Limits, {}).w
         /\ p.h = ResolveSize(q.size, p.crop.w, p.crop.h, Limits, {}).h
<1>. DEFINE e == Evaluate(q.region, q.size, master, Limits, {})
<1>1. e.ok /\ p.crop = e.crop /\ p.w = e.w /\ p.h = e.h
  BY PlanMade DEF IsPlan
<1>2. ASSUME NEW x, x = e, x.ok
      PROVE  /\ x.crop = ResolveRegion(q.region, master, {})
             /\ x.w = ResolveSize(q.size, x.crop.w, x.crop.h, Limits, {}).w
             /\ x.h = ResolveSize(q.size, x.crop.w, x.crop.h, Limits, {}).h
  BY <1>2, EvaluatedParts
<1>. HIDE DEF e
<1>. QED
  BY <1>1, <1>2

(* Equal sizes asked of equal crops come out equal.                        *)
LEMMA SameSizeAsked ==
  ASSUME NEW master, NEW q, NEW p, IsPlan(p, q, master),
         NEW u, NEW v, IsPlan(v, u, master), p.crop = v.crop, q.size = u.size
  PROVE  p.w = v.w /\ p.h = v.h /\ p.wasMax = v.wasMax
<1>1. /\ p.w = ResolveSize(q.size, p.crop.w, p.crop.h, Limits, {}).w
      /\ p.h = ResolveSize(q.size, p.crop.w, p.crop.h, Limits, {}).h
      /\ p.wasMax = (q.size.kind = "max")
  BY PlanResolved, PlanNumbers
<1>2. /\ v.w = ResolveSize(u.size, v.crop.w, v.crop.h, Limits, {}).w
      /\ v.h = ResolveSize(u.size, v.crop.w, v.crop.h, Limits, {}).h
      /\ v.wasMax = (u.size.kind = "max")
  BY PlanResolved, PlanNumbers
<1>. QED
  BY <1>1, <1>2

(* One text tells one size.                                                *)
LEMMA SameTold ==
  ASSUME NEW text, NEW p, NEW v, p.wasMax \in BOOLEAN, v.wasMax \in BOOLEAN,
         NEW q, NEW u, Told(text, p, q), Told(text, v, u)
  PROVE  \/ CanonicalSize(p) = CanonicalSize(v)
         \/ q.size = u.size
         \/ p.w = v.w /\ p.h = v.h /\ p.wasMax = v.wasMax
<1>. DEFINE exact(x) == [kind |-> "exact", up |-> FALSE, w |-> x.w, h |-> x.h]
<1>1. ASSUME NEW x, NEW y, x.wasMax \in BOOLEAN, CanonicalSize(x) = exact(y)
      PROVE  x.w = y.w /\ x.h = y.h /\ ~x.wasMax
  <2>1. exact(y).kind = "exact" /\ exact(y).w = y.w /\ exact(y).h = y.h
    OBVIOUS
  <2>. HIDE DEF exact
  <2>2. CanonicalSize(x).kind = "exact" /\ CanonicalSize(x).w = y.w /\ CanonicalSize(x).h = y.h
    BY <1>1, <2>1
  <2>3. ~x.wasMax
    BY <2>2 DEF CanonicalSize
  <2>. QED
    BY <2>2, <2>3 DEF CanonicalSize
<1>2. ASSUME NEW x, NEW y, exact(x) = exact(y)
      PROVE  x.w = y.w /\ x.h = y.h
  BY <1>2
<1>3. /\ \/ ParseSize(text) = {CanonicalSize(p)}
         \/ ParseSize(text) = {} /\ q.size = [kind |-> "max", up |-> FALSE]
         \/ ParseSize(text) = {exact(p)} /\ ~p.wasMax
      /\ \/ ParseSize(text) = {CanonicalSize(v)}
         \/ ParseSize(text) = {} /\ u.size = [kind |-> "max", up |-> FALSE]
         \/ ParseSize(text) = {exact(v)} /\ ~v.wasMax
  BY DEF Told
<1>. HIDE DEF exact
<1>. QED
  BY <1>1, <1>2, <1>3

(* Two plans of one crop, told by one text.                                *)
LEMMA SameSize ==
  ASSUME NEW master,
         NEW q, NEW p, IsPlan(p, q, master), NEW u, NEW v, IsPlan(v, u, master),
         NEW text, Told(text, p, q), Told(text, v, u),
         CanonicalRegion(p, master) = CanonicalRegion(v, master), p.crop = v.crop
  PROVE  p.w = v.w /\ p.h = v.h /\ p.wasMax = v.wasMax /\ p.upscales = v.upscales
<1>1. /\ p.wasMax \in BOOLEAN /\ p.upscales = (p.w > p.crop.w \/ p.h > p.crop.h)
  BY PlanNumbers
<1>2. v.wasMax \in BOOLEAN /\ v.upscales = (v.w > v.crop.w \/ v.h > v.crop.h)
  BY PlanNumbers
<1>3. \/ CanonicalSize(p) = CanonicalSize(v)
      \/ q.size = u.size
      \/ p.w = v.w /\ p.h = v.h /\ p.wasMax = v.wasMax
  BY <1>1, <1>2, SameTold
<1>4. p.w = v.w /\ p.h = v.h /\ p.wasMax = v.wasMax
  <2>1. CASE CanonicalSize(p) = CanonicalSize(v)
    BY <2>1, SameSizeV3
  <2>2. CASE q.size = u.size
    BY <2>2, SameSizeAsked
  <2>. QED
    BY <1>3, <2>1, <2>2
<1>. QED
  BY <1>1, <1>2, <1>4

(* Rotations and files told by one text.                                   *)
LEMMA SameEnds ==
  ASSUME NEW master,
         NEW q, NEW p, IsPlan(p, q, master), NEW u, NEW v, IsPlan(v, u, master),
         RotationText(p) = RotationText(v),
         FileText(p.quality, p.format) = FileText(v.quality, v.format)
  PROVE  /\ p.mirror = v.mirror /\ p.degrees = v.degrees
         /\ p.quality = v.quality /\ p.format = v.format
<1>1. p.mirror = v.mirror /\ p.degrees = v.degrees
  <2>1. ParseRotation(RotationText(p)) = {[mirror |-> p.mirror, degrees |-> p.degrees]}
    BY PlanRotationBack
  <2>2. ParseRotation(RotationText(v)) = {[mirror |-> v.mirror, degrees |-> v.degrees]}
    BY PlanRotationBack
  <2>3. [mirror |-> p.mirror, degrees |-> p.degrees] = [mirror |-> v.mirror, degrees |-> v.degrees]
    BY <2>1, <2>2
  <2>. QED
    BY <2>3
<1>2. p.quality = v.quality /\ p.format = v.format
  <2>1. <<p.quality, ".", p.format>> = <<v.quality, ".", v.format>>
    BY Zenon DEF FileText
  <2>. QED
    BY <2>1
<1>. QED
  BY <1>1, <1>2

(* Two plans of one master with the same texts are one.                    *)
LEMMA SameTexts ==
  ASSUME NEW master,
         NEW q, NEW p, IsPlan(p, q, master), NEW u, NEW v, IsPlan(v, u, master),
         RegionText(CanonicalRegion(p, master)) = RegionText(CanonicalRegion(v, master)),
         RotationText(p) = RotationText(v),
         FileText(p.quality, p.format) = FileText(v.quality, v.format),
         NEW text, Told(text, p, q), Told(text, v, u)
  PROVE  p = v
<1>1. CanonicalRegion(p, master) = CanonicalRegion(v, master) /\ p.crop = v.crop
  BY SameCrop
<1>2. /\ p.mirror = v.mirror /\ p.degrees = v.degrees
      /\ p.quality = v.quality /\ p.format = v.format
  BY SameEnds
<1>3. p.w = v.w /\ p.h = v.h /\ p.wasMax = v.wasMax /\ p.upscales = v.upscales
  BY <1>1, SameSize
<1>4. p = WholePlan(p) /\ v = WholePlan(v)
  BY PlanMade DEF IsPlan
<1>5. WholePlan(p) = WholePlan(v)
  BY <1>1, <1>2, <1>3 DEF WholePlan
<1>. QED
  BY <1>4, <1>5, Zenon

(* A canonical path stands for one plan, in either version, unless its     *)
(* size is `w,`.                                                           *)
LEMMA SamePath ==
  ASSUME NEW master,
         NEW q, NEW p, IsPlan(p, q, master), NEW u, NEW v, IsPlan(v, u, master),
         NEW i, PlainMax(i, q), NEW j, PlainMax(j, u),
         NEW path, IsPath(path, i, p, q, master), IsPath(path, j, v, u, master),
         Last(path[2]) # ","
  PROVE  p = v
<1>. DEFINE text == path[2]
<1>1. RegionText(CanonicalRegion(p, master)) = RegionText(CanonicalRegion(v, master))
  BY Zenon DEF IsPath
<1>2. RotationText(p) = RotationText(v)
  BY Zenon DEF IsPath
<1>3. FileText(p.quality, p.format) = FileText(v.quality, v.format)
  BY Zenon DEF IsPath
<1>4. text = IF i = "v3" THEN SizeText(CanonicalSize(p))
                         ELSE SizeTextV2(CanonicalV2Size(p, master, q.size))
  BY Zenon DEF IsPath
<1>5. text = IF j = "v3" THEN SizeText(CanonicalSize(v))
                         ELSE SizeTextV2(CanonicalV2Size(v, master, u.size))
  BY Zenon DEF IsPath
<1>6. Last(text) # ","
  OBVIOUS
<1>. HIDE DEF text
<1>7. Told(text, p, q)
  BY <1>4, <1>6, SizeTold
<1>8. Told(text, v, u)
  BY <1>5, <1>6, SizeTold
<1>. QED
  BY <1>1, <1>2, <1>3, <1>7, <1>8, SameTexts

----------------------------------------------------------------------------

(* An answer has all its parts.                                            *)
Whole(a) ==
  DOMAIN a = {"status", "body", "cors", "allow", "retryAfter", "vary", "location", "canonical", "tag"}

(* handle_inner finishes an answer: what it leaves as it was.              *)
Finished(a, method) ==
  [a EXCEPT !.cors = TRUE, !.body = IF method = "HEAD" THEN NoBody ELSE @]

(* What finishing keeps and what it does not.                              *)
LEMMA FinishedHas ==
  ASSUME NEW a, Whole(a), NEW method
  PROVE  LET b == Finished(a, method)
         IN  /\ Whole(b) /\ b.status = a.status /\ b.location = a.location
             /\ b.canonical = a.canonical /\ b.tag = a.tag
             /\ b.body = IF method = "HEAD" THEN NoBody ELSE a.body
<1>. DEFINE body == IF method = "HEAD" THEN NoBody ELSE a.body
            b == [a EXCEPT !.cors = TRUE, !.body = body]
<1>1. Finished(a, method) = b
  BY DEF Finished, Whole
<1>. HIDE DEF body
<1>2. /\ Whole(b) /\ b.status = a.status /\ b.location = a.location
      /\ b.canonical = a.canonical /\ b.tag = a.tag /\ b.body = body
  BY DEF Whole
<1>. HIDE DEF b
<1>. QED
  BY <1>1, <1>2 DEF body

(* An answer that leads nowhere and holds nothing.                         *)
Plain(a) ==
  /\ Whole(a) /\ a.canonical = Nowhere /\ a.body.kind \notin {"image", "info"}
  /\ a.status # 303 /\ a.status # 304

(* Answers with no headers of their own, and answers made of them.         *)
LEMMA BareHas ==
  ASSUME NEW s
  PROVE  LET a == Bare(s)
         IN  /\ Whole(a) /\ a.status = s /\ a.canonical = Nowhere /\ a.body = Message
             /\ a.location = Nowhere /\ a.tag = NoTag
BY DEF Bare, Whole

(* An error leads nowhere.                                                 *)
LEMMA BareIsPlain ==
  ASSUME NEW s \in {200, 400, 403, 404, 405, 500}
  PROVE  Plain(Bare(s))
BY BareHas DEF Plain, Message

(* The 503 of a full admission leads nowhere.                              *)
LEMMA FullIsPlain == Plain([Bare(503) EXCEPT !.retryAfter = TRUE])
<1>. DEFINE a == Bare(503)
<1>1. Whole(a) /\ a.status = 503 /\ a.canonical = Nowhere /\ a.body.kind = "message"
  BY BareHas DEF Message
<1>. HIDE DEF a
<1>. DEFINE b == [a EXCEPT !.retryAfter = TRUE]
<1>2. Whole(b) /\ b.status = 503 /\ b.canonical = Nowhere /\ b.body.kind = "message"
  BY <1>1 DEF Whole
<1>. HIDE DEF b
<1>3. Plain(b)
  BY <1>2 DEF Plain
<1>. QED
  BY <1>3 DEF b, a

(* The answer to a preflight.                                              *)
LEMMA PreflightIsPlain ==
  Plain([Bare(204) EXCEPT !.cors = TRUE, !.allow = TRUE, !.body = NoBody])
<1>. DEFINE a == Bare(204)
<1>1. Whole(a) /\ a.status = 204 /\ a.canonical = Nowhere
  BY BareHas
<1>. HIDE DEF a
<1>. DEFINE b == [a EXCEPT !.cors = TRUE, !.allow = TRUE, !.body = NoBody]
<1>2. Whole(b) /\ b.status = 204 /\ b.canonical = Nowhere /\ b.body = NoBody
  BY <1>1 DEF Whole
<1>. HIDE DEF b
<1>3. Plain(b)
  BY <1>2 DEF Plain, NoBody
<1>. QED
  BY <1>3 DEF b, a

(* A 304 with a tag.                                                       *)
LEMMA NotModifiedHas ==
  ASSUME NEW tag
  PROVE  LET a == NotModified(tag)
         IN  /\ Whole(a) /\ a.status = 304 /\ a.tag = tag /\ a.canonical = Nowhere /\ a.body = NoBody
<1>. DEFINE a == Bare(304)
<1>1. Whole(a) /\ a.status = 304 /\ a.canonical = Nowhere
  BY BareHas
<1>. HIDE DEF a
<1>. DEFINE b == [a EXCEPT !.tag = tag, !.body = NoBody]
<1>2. Whole(b) /\ b.status = 304 /\ b.tag = tag /\ b.canonical = Nowhere /\ b.body = NoBody
  BY <1>1 DEF Whole
<1>. HIDE DEF b
<1>. QED
  BY <1>2 DEF b, a, NotModified

(* A 200 with an image, its canonical link and its tag.                    *)
Shown(body, canonical, tag) ==
  [Bare(200) EXCEPT !.body = body, !.canonical = canonical, !.tag = tag]

(* Its parts.                                                              *)
LEMMA ShownHas ==
  ASSUME NEW body, NEW canonical, NEW tag
  PROVE  LET a == Shown(body, canonical, tag)
         IN  /\ Whole(a) /\ a.status = 200 /\ a.tag = tag
             /\ a.canonical = canonical /\ a.body = body
<1>. DEFINE a == Bare(200)
<1>1. Whole(a) /\ a.status = 200
  BY BareHas
<1>. HIDE DEF a
<1>. DEFINE b == [a EXCEPT !.body = body, !.canonical = canonical, !.tag = tag]
<1>2. Whole(b) /\ b.status = 200 /\ b.tag = tag /\ b.canonical = canonical /\ b.body = body
  BY <1>1 DEF Whole
<1>. HIDE DEF b
<1>. QED
  BY <1>2 DEF b, a, Shown

(* A 200 with an info.json and its tag.                                    *)
Informing(body, tag) == [Bare(200) EXCEPT !.body = body, !.vary = TRUE, !.tag = tag]

(* Its parts.                                                              *)
LEMMA InformingHas ==
  ASSUME NEW body, NEW tag
  PROVE  LET a == Informing(body, tag)
         IN  /\ Whole(a) /\ a.status = 200 /\ a.tag = tag
             /\ a.canonical = Nowhere /\ a.body = body
<1>. DEFINE a == Bare(200)
<1>1. Whole(a) /\ a.status = 200 /\ a.canonical = Nowhere
  BY BareHas
<1>. HIDE DEF a
<1>. DEFINE b == [a EXCEPT !.body = body, !.vary = TRUE, !.tag = tag]
<1>2. Whole(b) /\ b.status = 200 /\ b.tag = tag /\ b.canonical = Nowhere /\ b.body = body
  BY <1>1 DEF Whole
<1>. HIDE DEF b
<1>. QED
  BY <1>2 DEF b, a, Informing

(* A 303.                                                                  *)
Sent(at) == [Bare(303) EXCEPT !.location = at, !.body = NoBody]

(* Its parts.                                                              *)
LEMMA SentHas ==
  ASSUME NEW at
  PROVE  LET a == Sent(at)
         IN  /\ Whole(a) /\ a.status = 303 /\ a.location = at
             /\ a.canonical = Nowhere /\ a.body = NoBody
<1>. DEFINE a == Bare(303)
<1>1. Whole(a) /\ a.status = 303 /\ a.canonical = Nowhere
  BY BareHas
<1>. HIDE DEF a
<1>. DEFINE b == [a EXCEPT !.location = at, !.body = NoBody]
<1>2. Whole(b) /\ b.status = 303 /\ b.location = at /\ b.canonical = Nowhere /\ b.body = NoBody
  BY <1>1 DEF Whole
<1>. HIDE DEF b
<1>. QED
  BY <1>2 DEF b, a, Sent

(* Identifiers as Decode yields them.                                      *)
Identified(raw, id) ==
  /\ id \in Seq(Lexeme) /\ Decode(raw) = {id} /\ id # <<>>
  /\ ToSet(id) \cap Refused = {} /\ ~Traverses(id)

(* What decode() yields is one identifier, and not a refused one.          *)
LEMMA IdentifierRead ==
  ASSUME NEW raw \in Seq(Lexeme), Decode(raw) # {}
  PROVE  Identified(raw, The(Decode(raw)))
<1>1. PICK id \in Seq(Lexeme) : Decode(raw) = {id} /\ id # <<>>
                                /\ ToSet(id) \cap Refused = {} /\ ~Traverses(id)
  BY Decoded
<1>2. The(Decode(raw)) = id
  BY <1>1, TheOne
<1>. QED
  BY <1>1, <1>2 DEF Identified

----------------------------------------------------------------------------

(* A root holds masters.                                                   *)
Rooted(root) == root \in [DOMAIN root -> Master]

(* The tag of an info.json, and what App::info_json answers of a master    *)
(* that is there.                                                          *)
InfoTag(root, api, id) == ETag(root, id, <<<<api>>, <<"info.json">>>>)

(* A 304 or a 200 of App::info_json.                                       *)
InfoAnswer(a, root, api, id, request) ==
  /\ Whole(a) /\ a.tag = InfoTag(root, api, id) /\ a.canonical = Nowhere
  /\ \/ a.status = 304 /\ Hits(request, a.tag) /\ a.body = NoBody
     \/ /\ a.status = 200 /\ ~Hits(request, a.tag)
        /\ root[id].opens = "yes" /\ a.body = Document(root, api, id)

(* A hit is such an answer.                                                *)
LEMMA ConfirmedInfo ==
  ASSUME NEW root, NEW api, NEW id, NEW request, Hits(request, InfoTag(root, api, id))
  PROVE  InfoAnswer(NotModified(InfoTag(root, api, id)), root, api, id, request)
<1>. DEFINE tag == InfoTag(root, api, id)
            a == NotModified(tag)
<1>1. Hits(request, tag)
  OBVIOUS
<1>. HIDE DEF tag
<1>2. Whole(a) /\ a.status = 304 /\ a.tag = tag /\ a.canonical = Nowhere /\ a.body = NoBody
  BY NotModifiedHas
<1>. HIDE DEF a
<1>3. a.tag = InfoTag(root, api, id)
  BY <1>2 DEF tag
<1>4. Hits(request, a.tag)
  BY <1>1, <1>2
<1>. QED
  BY <1>2, <1>3, <1>4 DEF InfoAnswer, a, tag

(* And so is a document.                                                   *)
LEMMA InformedOf ==
  ASSUME NEW root, NEW api, NEW id, NEW request, ~Hits(request, InfoTag(root, api, id)),
         root[id].opens = "yes"
  PROVE  InfoAnswer(Informing(Document(root, api, id), InfoTag(root, api, id)), root, api, id, request)
<1>. DEFINE tag == InfoTag(root, api, id)
            body == Document(root, api, id)
            a == Informing(body, tag)
<1>1. ~Hits(request, tag)
  OBVIOUS
<1>. HIDE DEF tag, body
<1>2. Whole(a) /\ a.status = 200 /\ a.tag = tag /\ a.canonical = Nowhere /\ a.body = body
  BY InformingHas
<1>. HIDE DEF a
<1>3. a.tag = InfoTag(root, api, id) /\ a.body = Document(root, api, id)
  BY <1>2 DEF tag, body
<1>4. ~Hits(request, a.tag)
  BY <1>1, <1>2
<1>. QED
  BY <1>2, <1>3, <1>4 DEF InfoAnswer, a, tag, body

(* A master that cannot be opened leads nowhere.                           *)
LEMMA CodecErrorIsPlain == ASSUME NEW m PROVE Plain(CodecError(m))
<1>1. CodecError(m) = Bare(403) \/ CodecError(m) = Bare(500)
  BY DEF CodecError
<1>. QED
  BY <1>1, BareIsPlain

(* App::info_json answers so or leads nowhere.                             *)
LEMMA InfoCases ==
  ASSUME NEW root, NEW api, NEW raw \in Seq(Lexeme), NEW request, NEW fault,
         NEW a, a = InfoJson(root, api, raw, request, fault)
  PROVE  \/ Plain(a)
         \/ \E id : /\ Identified(raw, id) /\ id \in DOMAIN root
                    /\ InfoAnswer(a, root, api, id, request)
<1>1. CASE Decode(raw) = {}
  <2>1. a = Bare(404)
    BY <1>1 DEF InfoJson
  <2>. QED
    BY <2>1, BareIsPlain
<1>2. CASE Decode(raw) # {}
  <2>. DEFINE id == The(Decode(raw))
              tag == InfoTag(root, api, id)
  <2>1. Identified(raw, id)
    BY <1>2, IdentifierRead
  <2>. HIDE DEF id
  <2>2. \/ a \in {Bare(404), Bare(500), CodecError(root[id])}
        \/ /\ id \in DOMAIN root
           /\ \/ Hits(request, tag) /\ a = NotModified(tag)
              \/ /\ ~Hits(request, tag) /\ root[id].opens = "yes"
                 /\ a = Informing(Document(root, api, id), tag)
    BY <1>2 DEF InfoJson, InfoTag, Informing, id
  <2>3. CASE a \in {Bare(404), Bare(500), CodecError(root[id])}
    BY <2>3, BareIsPlain, CodecErrorIsPlain
  <2>4. CASE id \in DOMAIN root /\ Hits(request, tag) /\ a = NotModified(tag)
    BY <2>1, <2>4, ConfirmedInfo
  <2>5. CASE /\ id \in DOMAIN root /\ ~Hits(request, tag) /\ root[id].opens = "yes"
             /\ a = Informing(Document(root, api, id), tag)
    BY <2>1, <2>5, InformedOf
  <2>. QED
    BY <2>2, <2>3, <2>4, <2>5
<1>. QED
  BY <1>1, <1>2

(* With nothing gone wrong it answers of every master that opens.          *)
LEMMA InfoServed ==
  ASSUME NEW root, NEW api, NEW raw, NEW id, Identified(raw, id), id \in DOMAIN root,
         root[id].opens = "yes", NEW request
  PROVE  InfoAnswer(InfoJson(root, api, raw, request, "none"), root, api, id, request)
<1>. DEFINE tag == InfoTag(root, api, id)
<1>1. Decode(raw) # {} /\ The(Decode(raw)) = id
  BY TheOne DEF Identified
<1>2. InfoJson(root, api, raw, request, "none") =
        IF Hits(request, tag) THEN NotModified(tag) ELSE Informing(Document(root, api, id), tag)
  BY <1>1 DEF InfoJson, Informing, InfoTag
<1>3. CASE Hits(request, tag)
  BY <1>2, <1>3, ConfirmedInfo
<1>4. CASE ~Hits(request, tag)
  BY <1>2, <1>4, InformedOf
<1>. QED
  BY <1>3, <1>4

(* A redirect.                                                             *)
LEMMA RedirectCases ==
  ASSUME NEW api, NEW raw \in Seq(Lexeme), NEW a, a = Redirect(api, raw)
  PROVE  \/ Plain(a)
         \/ \E id : /\ Identified(raw, id)
                    /\ Whole(a) /\ a.status = 303 /\ a.canonical = Nowhere /\ a.body = NoBody
                    /\ a.location = [prefix |-> api, path |-> <<Encode(id), <<"info.json">>>>]
<1>1. CASE Decode(raw) = {}
  <2>1. a = Bare(404)
    BY <1>1 DEF Redirect
  <2>. QED
    BY <2>1, BareIsPlain
<1>2. CASE Decode(raw) # {}
  <2>. DEFINE id == The(Decode(raw))
              at == [prefix |-> api, path |-> <<Encode(id), <<"info.json">>>>]
  <2>1. Identified(raw, id)
    BY <1>2, IdentifierRead
  <2>2. a = Sent(at)
    BY <1>2 DEF Redirect, Sent
  <2>. HIDE DEF at
  <2>3. Whole(a) /\ a.status = 303 /\ a.canonical = Nowhere /\ a.body = NoBody /\ a.location = at
    BY <2>2, SentHas
  <2>. HIDE DEF id
  <2>. QED
    BY <2>1, <2>3 DEF at
<1>. QED
  BY <1>1, <1>2

(* The tag of an image, its canonical link, and what App::image answers of *)
(* a plan that was made.                                                   *)
ImageTag(root, api, id, q, p) == ETag(root, id, CanonicalPath(api, p, q, root[id]))

(* The Link header of an image.                                            *)
ImageLink(root, api, id, q, p) ==
  [prefix |-> api, path |-> <<Encode(id)>> \o CanonicalPath(api, p, q, root[id])]

(* The body of an image.                                                   *)
ImageBody(root, id, p) == [kind |-> "image", id |-> id, of |-> root[id].version, plan |-> p]

(* A 304 or a 200 of App::image.                                           *)
ImageAnswer(a, root, api, id, q, p, request) ==
  /\ Whole(a) /\ a.tag = ImageTag(root, api, id, q, p)
  /\ \/ a.status = 304 /\ Hits(request, a.tag) /\ a.canonical = Nowhere /\ a.body = NoBody
     \/ /\ a.status = 200 /\ ~Hits(request, a.tag) /\ ~BeyondFormat(p)
        /\ a.canonical = ImageLink(root, api, id, q, p) /\ a.body = ImageBody(root, id, p)

(* A hit is such an answer.                                                *)
LEMMA ConfirmedImage ==
  ASSUME NEW root, NEW api, NEW id, NEW q, NEW p, NEW request, Hits(request, ImageTag(root, api, id, q, p))
  PROVE  ImageAnswer(NotModified(ImageTag(root, api, id, q, p)), root, api, id, q, p, request)
<1>. DEFINE tag == ImageTag(root, api, id, q, p)
            a == NotModified(tag)
<1>1. Hits(request, tag)
  OBVIOUS
<1>. HIDE DEF tag
<1>2. Whole(a) /\ a.status = 304 /\ a.tag = tag /\ a.canonical = Nowhere /\ a.body = NoBody
  BY NotModifiedHas
<1>. HIDE DEF a
<1>3. a.tag = ImageTag(root, api, id, q, p)
  BY <1>2 DEF tag
<1>4. Hits(request, a.tag)
  BY <1>1, <1>2
<1>. QED
  BY <1>2, <1>3, <1>4 DEF ImageAnswer, a, tag

(* And so is an image.                                                     *)
LEMMA ShownImage ==
  ASSUME NEW root, NEW api, NEW id, NEW q, NEW p, NEW request,
         ~Hits(request, ImageTag(root, api, id, q, p)), ~BeyondFormat(p)
  PROVE  ImageAnswer(Shown(ImageBody(root, id, p), ImageLink(root, api, id, q, p), ImageTag(root, api, id, q, p)),
                     root, api, id, q, p, request)
<1>. DEFINE tag == ImageTag(root, api, id, q, p)
            body == ImageBody(root, id, p)
            link == ImageLink(root, api, id, q, p)
            a == Shown(body, link, tag)
<1>1. ~Hits(request, tag)
  OBVIOUS
<1>. HIDE DEF tag, body, link
<1>2. Whole(a) /\ a.status = 200 /\ a.tag = tag /\ a.canonical = link /\ a.body = body
  BY ShownHas
<1>. HIDE DEF a
<1>3. a.tag = ImageTag(root, api, id, q, p) /\ a.body = ImageBody(root, id, p)
      /\ a.canonical = ImageLink(root, api, id, q, p)
  BY <1>2 DEF tag, body, link
<1>4. ~Hits(request, a.tag)
  BY <1>1, <1>2
<1>. QED
  BY <1>2, <1>3, <1>4 DEF ImageAnswer, a, tag, body, link

(* What a request was read as.                                             *)
Reads(api, segments, q) ==
  ParseRequest(api, segments) # {} /\ q = The(ParseRequest(api, segments))

(* An image that is there, and the plan of a request for it.               *)
Imaged(root, api, raw, segments, id, q, p) ==
  /\ Identified(raw, id) /\ id \in DOMAIN root /\ root[id].opens = "yes"
  /\ Reads(api, segments, q) /\ PlainMax(api, q) /\ IsPlan(p, q, root[id])

(* A request that was read is of the forms the grammar yields.             *)
LEMMA ReadsTyped ==
  ASSUME NEW api, NEW segments, NEW q, Reads(api, segments, q)
  PROVE  Typed(q) /\ PlainMax(api, q)
BY RequestParsed DEF Reads, Typed, PlainMax

(* The answers of the blocking task, named.                                *)
LEMMA RenderedIs ==
  ASSUME NEW root, NEW api, NEW id, NEW q, NEW p, NEW request, NEW fault
  PROVE  Rendered(root, api, id, q, p, request, fault) =
           IF ~p.ok THEN Bare(400)
           ELSE IF Hits(request, ImageTag(root, api, id, q, p)) THEN NotModified(ImageTag(root, api, id, q, p))
           ELSE IF fault = "pipeline" THEN Bare(500)
           ELSE IF BeyondFormat(p) THEN Bare(400)
           ELSE Shown(ImageBody(root, id, p), ImageLink(root, api, id, q, p), ImageTag(root, api, id, q, p))
BY DEF Rendered, ImageTag, ImageLink, ImageBody, Shown

(* App::image answers so or leads nowhere.                                 *)
LEMMA ImageCases ==
  ASSUME NEW root, Rooted(root), NEW api, NEW raw \in Seq(Lexeme), NEW segments, NEW request, NEW fault,
         NEW a, a = Image(root, api, raw, segments, request, fault)
  PROVE  \/ Plain(a)
         \/ \E id, q, p : /\ Imaged(root, api, raw, segments, id, q, p)
                          /\ ImageAnswer(a, root, api, id, q, p, request)
<1>. DEFINE full == [Bare(503) EXCEPT !.retryAfter = TRUE]
            id == The(Decode(raw))
            q == The(ParseRequest(api, segments))
            p == PlanFor(q, root[id])
            tag == ImageTag(root, api, id, q, p)
<1>1. \/ a \in {Bare(404), Bare(400), Bare(500), full}
      \/ /\ Decode(raw) # {} /\ ParseRequest(api, segments) # {} /\ id \in DOMAIN root
         /\ a = Derive(root, api, id, q, request, fault)
  <2>. HIDE DEF full, id, q
  <2>. QED
    BY DEF Image, full, id, q
<1>2. CASE a \in {Bare(404), Bare(400), Bare(500), full}
  <2>1. Plain(full)
    BY FullIsPlain
  <2>. HIDE DEF full, id, q, p, tag
  <2>2. Plain(a)
    BY <1>2, <2>1, BareIsPlain
  <2>. QED
    BY <2>2
<1>3. CASE /\ Decode(raw) # {} /\ ParseRequest(api, segments) # {} /\ id \in DOMAIN root
           /\ a = Derive(root, api, id, q, request, fault)
  <2>1. Identified(raw, id)
    BY <1>3, IdentifierRead
  <2>2. Reads(api, segments, q)
    BY <1>3 DEF Reads
  <2>. HIDE DEF id, q
  <2>3. Typed(q) /\ PlainMax(api, q)
    BY <2>2, ReadsTyped
  <2>4. root[id] \in Master
    BY <1>3 DEF Rooted
  <2>5. \/ a = CodecError(root[id])
        \/ root[id].opens = "yes" /\ a = Rendered(root, api, id, q, p, request, fault)
    BY <1>3 DEF Derive
  <2>6. p.ok => IsPlan(p, q, root[id])
    BY <2>3, <2>4 DEF IsPlan
  <2>. HIDE DEF p
  <2>7. CASE a = CodecError(root[id])
    BY <2>7, CodecErrorIsPlain
  <2>8. CASE root[id].opens = "yes" /\ a = Rendered(root, api, id, q, p, request, fault)
    <3>1. \/ a \in {Bare(400), Bare(500)}
          \/ p.ok /\ Hits(request, tag) /\ a = NotModified(tag)
          \/ /\ p.ok /\ ~Hits(request, tag) /\ ~BeyondFormat(p)
             /\ a = Shown(ImageBody(root, id, p), ImageLink(root, api, id, q, p), tag)
      BY <2>8, RenderedIs
    <3>2. CASE a \in {Bare(400), Bare(500)}
      BY <3>2, BareIsPlain
    <3>3. ASSUME p.ok, ImageAnswer(a, root, api, id, q, p, request)
          PROVE  \E id2, q2, p2 : /\ Imaged(root, api, raw, segments, id2, q2, p2)
                                  /\ ImageAnswer(a, root, api, id2, q2, p2, request)
      <4>1. Imaged(root, api, raw, segments, id, q, p)
        BY <1>3, <2>1, <2>2, <2>3, <2>6, <2>8, <3>3 DEF Imaged
      <4>. QED
        BY <3>3, <4>1
    <3>4. CASE p.ok /\ Hits(request, tag) /\ a = NotModified(tag)
      BY <3>3, <3>4, ConfirmedImage
    <3>5. CASE /\ p.ok /\ ~Hits(request, tag) /\ ~BeyondFormat(p)
               /\ a = Shown(ImageBody(root, id, p), ImageLink(root, api, id, q, p), tag)
      BY <3>3, <3>5, ShownImage
    <3>. QED
      BY <3>1, <3>2, <3>3, <3>4, <3>5
  <2>. QED
    BY <2>5, <2>7, <2>8
<1>. QED
  BY <1>1, <1>2, <1>3

(* With nothing gone wrong, and within what the format can hold, it is     *)
(* answered.                                                               *)
LEMMA ImageServed ==
  ASSUME NEW root, NEW api, NEW raw, NEW segments, NEW id, NEW q, NEW p,
         Imaged(root, api, raw, segments, id, q, p), ~BeyondFormat(p), NEW request
  PROVE  ImageAnswer(Image(root, api, raw, segments, request, "none"), root, api, id, q, p, request)
<1>. DEFINE tag == ImageTag(root, api, id, q, p)
<1>1. Decode(raw) # {} /\ The(Decode(raw)) = id
  BY TheOne DEF Identified, Imaged
<1>2. ParseRequest(api, segments) # {} /\ q = The(ParseRequest(api, segments))
  BY DEF Imaged, Reads
<1>3. id \in DOMAIN root /\ root[id].opens = "yes" /\ p = PlanFor(q, root[id]) /\ p.ok
  BY DEF Imaged, IsPlan
<1>4. Image(root, api, raw, segments, request, "none") = Rendered(root, api, id, q, p, request, "none")
  BY <1>1, <1>2, <1>3 DEF Image, Derive
<1>5. Rendered(root, api, id, q, p, request, "none") =
        IF Hits(request, tag) THEN NotModified(tag)
        ELSE Shown(ImageBody(root, id, p), ImageLink(root, api, id, q, p), tag)
  BY <1>3, RenderedIs
<1>6. CASE Hits(request, tag)
  BY <1>4, <1>5, <1>6, ConfirmedImage
<1>7. CASE ~Hits(request, tag)
  BY <1>4, <1>5, <1>7, ShownImage
<1>. QED
  BY <1>6, <1>7

(* Where a request can be addressed to.                                    *)
Place == [prefix : Lexeme, path : Seq(Seq(Lexeme))]

(* The answers that lead somewhere or hold something.                      *)
Redirects(a, at) ==
  \E id : /\ at.prefix \in {"v2", "v3"} /\ Identified(at.path[1], id)
          /\ Whole(a) /\ a.status = 303 /\ a.canonical = Nowhere /\ a.body = NoBody
          /\ a.location = [prefix |-> at.prefix, path |-> <<Encode(id), <<"info.json">>>>]

(* A place is that of the info.json of an identifier.                      *)
InfoAt(at, id) ==
  /\ at.prefix \in {"v2", "v3"} /\ Len(at.path) = 2 /\ at.path[2] = <<"info.json">>
  /\ Identified(at.path[1], id)

(* An answer of App::info_json.                                            *)
Informs(a, root, request) ==
  \E id : /\ InfoAt(request.at, id) /\ id \in DOMAIN root
          /\ InfoAnswer(a, root, request.at.prefix, id, request)

(* A place is that of an image, and of what request and plan.              *)
ImageAt(root, at, id, q, p) ==
  /\ at.prefix \in {"v2", "v3"} /\ Len(at.path) = 5
  /\ Imaged(root, at.prefix, at.path[1], Tail(at.path), id, q, p)

(* An answer of App::image.                                                *)
Pictures(a, root, request) ==
  \E id, q, p : /\ ImageAt(root, request.at, id, q, p)
                /\ ImageAnswer(a, root, request.at.prefix, id, q, p, request)

(* Where Route::of can lead.                                               *)
LEMMA RouteCases ==
  ASSUME NEW prefix, NEW path
  PROVE  LET route == Route(prefix, path)
         IN  \/ route = "redirect" /\ prefix \in {"v2", "v3"} /\ Len(path) = 1
             \/ route = "info" /\ prefix \in {"v2", "v3"} /\ Len(path) = 2 /\ path[2] = <<"info.json">>
             \/ route = "image" /\ prefix \in {"v2", "v3"} /\ Len(path) = 5
             \/ route \in {"health", "metrics", "none"}
<1>. DEFINE goes == path[1] # <<>>
            last == path[2] = <<"info.json">>
            n == Len(path)
            root == path = <<>>
<1>1. Route(prefix, path) =
        CASE prefix = "healthz" /\ root -> "health"
          [] prefix = "metrics" /\ root -> "metrics"
          [] prefix \in {"v2", "v3"} /\ n = 1 /\ goes -> "redirect"
          [] prefix \in {"v2", "v3"} /\ n = 2 /\ last -> "info"
          [] prefix \in {"v2", "v3"} /\ n = 5 -> "image"
          [] OTHER -> "none"
  BY DEF Route
<1>. HIDE DEF goes, last, n, root
<1>. QED
  BY <1>1 DEF last, n

(* What the handlers can answer.                                           *)
LEMMA RoutedCases ==
  ASSUME NEW root, Rooted(root), NEW request, request.at \in Place, NEW fault,
         NEW a, a = Routed(root, request, fault)
  PROVE  Plain(a) \/ Redirects(a, request.at) \/ Informs(a, root, request) \/ Pictures(a, root, request)
<1>. DEFINE prefix == request.at.prefix
            path == request.at.path
            route == Route(prefix, path)
<1>0. path \in Seq(Seq(Lexeme))
  BY DEF Place
<1>1. \/ route = "redirect" /\ prefix \in {"v2", "v3"} /\ Len(path) = 1
      \/ route = "info" /\ prefix \in {"v2", "v3"} /\ Len(path) = 2 /\ path[2] = <<"info.json">>
      \/ route = "image" /\ prefix \in {"v2", "v3"} /\ Len(path) = 5
      \/ route \in {"health", "metrics", "none"}
  BY RouteCases
<1>2. a = CASE route = "redirect" -> Redirect(prefix, path[1])
            [] route = "info"     -> InfoJson(root, prefix, path[1], request, fault)
            [] route = "image"    -> Image(root, prefix, path[1], Tail(path), request, fault)
            [] route \in {"health", "metrics"} -> Bare(200)
            [] route = "none"     -> Bare(404)
  BY DEF Routed
<1>. HIDE DEF route
<1>3. CASE route \in {"health", "metrics", "none"}
  <2>1. a \in {Bare(200), Bare(404)}
    BY <1>2, <1>3
  <2>. QED
    BY <2>1, BareIsPlain
<1>4. CASE route = "redirect" /\ prefix \in {"v2", "v3"} /\ Len(path) = 1
  <2>1. path[1] \in Seq(Lexeme)
    BY <1>0, <1>4
  <2>2. a = Redirect(prefix, path[1])
    BY <1>2, <1>4
  <2>3. Plain(a) \/ Redirects(a, request.at)
    BY <1>4, <2>1, <2>2, RedirectCases DEF Redirects
  <2>. QED
    BY <2>3
<1>5. CASE route = "info" /\ prefix \in {"v2", "v3"} /\ Len(path) = 2 /\ path[2] = <<"info.json">>
  <2>1. path[1] \in Seq(Lexeme)
    BY <1>0, <1>5
  <2>2. a = InfoJson(root, prefix, path[1], request, fault)
    BY <1>2, <1>5
  <2>3. Plain(a) \/ Informs(a, root, request)
    BY <1>5, <2>1, <2>2, InfoCases DEF Informs, InfoAt
  <2>. QED
    BY <2>3
<1>6. CASE route = "image" /\ prefix \in {"v2", "v3"} /\ Len(path) = 5
  <2>1. path[1] \in Seq(Lexeme)
    BY <1>0, <1>6
  <2>2. a = Image(root, prefix, path[1], Tail(path), request, fault)
    BY <1>2, <1>6
  <2>3. Plain(a) \/ Pictures(a, root, request)
    BY <1>6, <2>1, <2>2, ImageCases DEF Pictures, ImageAt
  <2>. QED
    BY <2>3
<1>. QED
  BY <1>1, <1>3, <1>4, <1>5, <1>6

(* What GET says, and what any method says at most.                        *)
LEMMA HandleCases ==
  ASSUME NEW root, Rooted(root), NEW request, request.at \in Place, NEW fault,
         NEW a, a = Handle(root, request, fault)
  PROVE  /\ Plain(a) \/ Redirects(a, request.at) \/ Informs(a, root, request) \/ Pictures(a, root, request)
            \/ (request.method # "GET" /\ a.body.kind \notin {"image", "info"} /\ a.status # 303)
<1>. DEFINE r == Routed(root, request, fault)
            pre == [Bare(204) EXCEPT !.cors = TRUE, !.allow = TRUE, !.body = NoBody]
<1>1. \/ a = pre
      \/ a = Bare(405)
      \/ request.method \in {"GET", "HEAD"} /\ a = Finished(r, request.method)
  BY DEF Handle, Finished
<1>2. CASE a = pre
  BY <1>2, PreflightIsPlain, Zenon
<1>3. CASE a = Bare(405)
  BY <1>3, BareIsPlain
<1>4. CASE request.method \in {"GET", "HEAD"} /\ a = Finished(r, request.method)
  <2>1. Plain(r) \/ Redirects(r, request.at) \/ Informs(r, root, request) \/ Pictures(r, root, request)
    BY RoutedCases
  <2>. HIDE DEF r
  <2>2. Whole(r)
    BY <2>1 DEF Plain, Redirects, Informs, InfoAnswer, Pictures, ImageAnswer
  <2>3. /\ Whole(a) /\ a.status = r.status /\ a.location = r.location
        /\ a.canonical = r.canonical /\ a.tag = r.tag
        /\ a.body = IF request.method = "HEAD" THEN NoBody ELSE r.body
    BY <1>4, <2>2, FinishedHas
  <2>4. CASE Redirects(r, request.at)
    <3>1. a.body = NoBody
      BY <2>3, <2>4 DEF Redirects
    <3>. QED
      BY <2>3, <2>4, <3>1 DEF Redirects
  <2>5. CASE request.method = "GET"
    <3>1. a.body = r.body
      BY <2>3, <2>5
    <3>2. Plain(r) => Plain(a)
      BY <2>3, <3>1 DEF Plain
    <3>3. Informs(r, root, request) => Informs(a, root, request)
      BY <2>3, <3>1 DEF Informs, InfoAnswer
    <3>4. Pictures(r, root, request) => Pictures(a, root, request)
      BY <2>3, <3>1 DEF Pictures, ImageAnswer
    <3>. QED
      BY <2>1, <2>4, <3>2, <3>3, <3>4
  <2>6. CASE request.method = "HEAD" /\ ~Redirects(r, request.at)
    <3>1. a.body.kind \notin {"image", "info"}
      BY <2>3, <2>6 DEF NoBody
    <3>2. r.status # 303
      BY <2>1, <2>6 DEF Plain, Informs, InfoAnswer, Pictures, ImageAnswer
    <3>. QED
      BY <2>3, <2>6, <3>1, <3>2
  <2>. QED
    BY <1>4, <2>4, <2>5, <2>6
<1>. QED
  BY <1>1, <1>2, <1>3, <1>4

(* What a GET with nothing gone wrong says.                                *)
LEMMA GetInfo ==
  ASSUME NEW root, NEW request, request.method = "GET",
         NEW id, InfoAt(request.at, id), id \in DOMAIN root, root[id].opens = "yes"
  PROVE  InfoAnswer(Handle(root, request, "none"), root, request.at.prefix, id, request)
<1>. DEFINE prefix == request.at.prefix
            path == request.at.path
            r == Routed(root, request, "none")
            a == Handle(root, request, "none")
<1>1. Route(prefix, path) = "info"
  BY DEF InfoAt, Route
<1>2. r = InfoJson(root, prefix, path[1], request, "none")
  BY <1>1 DEF Routed
<1>3. InfoAnswer(r, root, prefix, id, request)
  BY <1>2, InfoServed DEF InfoAt
<1>4. a = Finished(r, "GET")
  BY DEF Handle, Finished
<1>. HIDE DEF r, a, prefix
<1>5. /\ Whole(a) /\ a.status = r.status /\ a.canonical = r.canonical /\ a.tag = r.tag /\ a.body = r.body
  BY <1>3, <1>4, FinishedHas DEF InfoAnswer
<1>6. InfoAnswer(a, root, prefix, id, request)
  BY <1>3, <1>5 DEF InfoAnswer
<1>. QED
  BY <1>6 DEF a, prefix

(* The same of an image.                                                   *)
LEMMA GetImage ==
  ASSUME NEW root, NEW request, request.method = "GET",
         NEW id, NEW q, NEW p, ImageAt(root, request.at, id, q, p), ~BeyondFormat(p)
  PROVE  ImageAnswer(Handle(root, request, "none"), root, request.at.prefix, id, q, p, request)
<1>. DEFINE prefix == request.at.prefix
            path == request.at.path
            r == Routed(root, request, "none")
            a == Handle(root, request, "none")
<1>1. Route(prefix, path) = "image"
  BY DEF ImageAt, Route
<1>2. r = Image(root, prefix, path[1], Tail(path), request, "none")
  BY <1>1 DEF Routed
<1>3. ImageAnswer(r, root, prefix, id, q, p, request)
  BY <1>2, ImageServed DEF ImageAt
<1>4. a = Finished(r, "GET")
  BY DEF Handle, Finished
<1>. HIDE DEF r, a, prefix
<1>5. /\ Whole(a) /\ a.status = r.status /\ a.canonical = r.canonical /\ a.tag = r.tag /\ a.body = r.body
  BY <1>3, <1>4, FinishedHas DEF ImageAnswer
<1>6. ImageAnswer(a, root, prefix, id, q, p, request)
  BY <1>3, <1>5 DEF ImageAnswer
<1>. QED
  BY <1>6 DEF a, prefix

----------------------------------------------------------------------------

(* A quotient rounded up.                                                  *)
LEMMA RoundedUp ==
  ASSUME NEW n \in Nat \ {0}, NEW d \in Nat \ {0}
  PROVE  CeilDiv(n, d) \in 1..n
<1>. DEFINE k == (n + d - 1) \div d
<1>1. n + d - 1 \in Nat
  OBVIOUS
<1>2. k \in Nat /\ k * d <= n + d - 1 /\ n + d - 1 < k * d + d
  BY <1>1, Quotient
<1>. HIDE DEF k
<1>3. k # 0
  BY <1>2
<1>4. k <= n
  <2>. SUFFICES ASSUME k >= n + 1 PROVE FALSE
    BY <1>2
  <2>1. k * d >= (n + 1) * d
    BY <1>2
  <2>2. (n + 1) * d = n * d + d /\ n * d >= n
    OBVIOUS
  <2>. QED
    BY <1>2, <2>1, <2>2
<1>. QED
  BY <1>2, <1>3, <1>4 DEF CeilDiv, k

(* Regions in canonical form.                                              *)
Spelled(r) ==
  \/ r = [kind |-> "full"]
  \/ \E x \in Nat, y \in Nat, w \in Nat \ {0}, h \in Nat \ {0} :
       /\ Readable(x) /\ Readable(y) /\ Readable(w) /\ Readable(h)
       /\ r = [kind |-> "pixels", x |-> x, y |-> y, w |-> w, h |-> h]

(* A region and a size that a document offers.                             *)
Offered(m, r, w, h) ==
  /\ Spelled(r) /\ r \in RegionForms
  /\ w \in Nat \ {0} /\ Readable(w) /\ h \in Nat \ {0} /\ Readable(h)
  /\ LET crop == ResolveRegion(r, m, {})
     IN  /\ crop.ok /\ crop.w \in Nat \ {0} /\ crop.h \in Nat \ {0}
         /\ w <= crop.w /\ h <= crop.h

(* A size that is listed is one of the whole image.                        *)
LEMMA SizeOffered ==
  ASSUME NEW m \in Master, NEW z \in LevelSizes(m)
  PROVE  Offered(m, [kind |-> "full"], z.w, z.h)
<1>. DEFINE r == [kind |-> "full"]
<1>1. PICK i \in DOMAIN m.levels : z = [w |-> m.levels[i].w, h |-> m.levels[i].h]
  BY DEF LevelSizes, ToSet
<1>2. m.levels[i] \in Level /\ m.levels[i].w <= m.w /\ m.levels[i].h <= m.h
  BY MasterHas
<1>3. z.w \in Side /\ z.h \in Side /\ z.w <= m.w /\ z.h <= m.h
  BY <1>1, <1>2 DEF Level
<1>4. /\ z.w \in Nat \ {0} /\ Readable(z.w) /\ z.h \in Nat \ {0} /\ Readable(z.h)
  BY <1>3, SideReadable
<1>5. m.w \in Nat \ {0} /\ m.h \in Nat \ {0}
  BY MasterHas, SideReadable
<1>6. ResolveRegion(r, m, {}) = Crop(0, 0, m.w, m.h)
  BY DEF ResolveRegion
<1>7. LET crop == ResolveRegion(r, m, {})
      IN  crop.ok /\ crop.w = m.w /\ crop.h = m.h
  BY <1>6 DEF Crop
<1>8. r \in RegionForms /\ Spelled(r)
  BY DEF RegionForms, Spelled
<1>. HIDE DEF r
<1>9. Offered(m, r, z.w, z.h)
  BY <1>3, <1>4, <1>5, <1>7, <1>8 DEF Offered
<1>. QED
  BY <1>9 DEF r

(* One side of a tile.                                                     *)
LEMMA SideOffered ==
  ASSUME NEW side \in Side, NEW t \in Nat \ {0}, NEW f \in Nat \ {0}, NEW x \in Starts(side, t * f)
  PROVE  LET w == Min({t * f, side - x})
         IN  /\ x \in Nat /\ x < side /\ Readable(x)
             /\ w \in Nat \ {0} /\ Readable(w) /\ w <= side - x
             /\ CeilDiv(w, f) \in 1..w /\ Readable(CeilDiv(w, f))
<1>1. side \in Nat \ {0} /\ \A k \in 0..side : Readable(k)
  BY SideReadable
<1>2. x \in Nat /\ x < side /\ x \in 0..side
  BY <1>1 DEF Starts
<1>3. t * f \in Nat \ {0}
  OBVIOUS
<1>. DEFINE n == t * f
            w == Min({n, side - x})
            c == CeilDiv(w, f)
<1>. HIDE DEF n
<1>4. w \in 1..side /\ w <= side - x
  <2>1. w = IF n <= side - x THEN n ELSE side - x
    BY <1>1, <1>2, <1>3, MinOfTwo DEF n
  <2>. QED
    BY <1>1, <1>2, <1>3, <2>1 DEF n
<1>. HIDE DEF w
<1>5. c \in 1..w
  BY <1>1, <1>4, RoundedUp
<1>6. w \in 0..side /\ c \in 0..side
  BY <1>1, <1>4, <1>5
<1>7. Readable(w) /\ Readable(c) /\ Readable(x)
  BY <1>1, <1>2, <1>6
<1>. QED
  BY <1>1, <1>2, <1>4, <1>5, <1>7 DEF w, n

(* A tile lies in the image.                                               *)
LEMMA CropOffered ==
  ASSUME NEW m, m.w \in Nat \ {0}, m.h \in Nat \ {0}, NEW x \in Nat, NEW y \in Nat,
         NEW w \in Nat \ {0}, NEW h \in Nat \ {0}, x < m.w, y < m.h, w <= m.w - x, h <= m.h - y
  PROVE  LET crop == ResolveRegion([kind |-> "pixels", x |-> x, y |-> y, w |-> w, h |-> h], m, {})
         IN  crop.ok /\ crop.w = w /\ crop.h = h
<1>. DEFINE r == [kind |-> "pixels", x |-> x, y |-> y, w |-> w, h |-> h]
<1>1. r.kind = "pixels" /\ r.x = x /\ r.y = y /\ r.w = w /\ r.h = h
  OBVIOUS
<1>. HIDE DEF r
<1>2. Min({w, m.w - x}) = w /\ Min({h, m.h - y}) = h
  BY MinOfTwo
<1>3. ResolveRegion(r, m, {}) = Crop(x, y, w, h)
  BY <1>1, <1>2 DEF ResolveRegion, ResolvePixels
<1>. QED
  BY <1>3 DEF Crop, r

(* A tile at a scale factor is a region and a size of it.                  *)
LEMMA TileOffered ==
  ASSUME NEW m \in Master, NEW f \in ScaleFactors(m), m.tile # NoTile,
         NEW x \in Starts(m.w, m.tile.w * f), NEW y \in Starts(m.h, m.tile.h * f),
         NEW w, w = Min({m.tile.w * f, m.w - x}), NEW h, h = Min({m.tile.h * f, m.h - y})
  PROVE  Offered(m, [kind |-> "pixels", x |-> x, y |-> y, w |-> w, h |-> h], CeilDiv(w, f), CeilDiv(h, f))
<1>1. m.w \in Side /\ m.h \in Side /\ m.tile \in [w : Nat, h : Nat] /\ (m.tile.w = 0 <=> m.tile.h = 0)
      /\ m.levels \in Seq(Level)
  BY MasterHas
<1>2. m.tile.w \in Nat \ {0} /\ m.tile.h \in Nat \ {0}
  BY <1>1 DEF NoTile
<1>3. f \in Nat \ {0}
  <2>1. PICK i \in DOMAIN m.levels : f = m.levels[i].factor
    BY DEF ScaleFactors, ToSet
  <2>2. m.levels[i] \in Level
    BY <1>1
  <2>. QED
    BY <2>1, <2>2 DEF Level
<1>4. /\ x \in Nat /\ x < m.w /\ Readable(x)
      /\ w \in Nat \ {0} /\ Readable(w) /\ w <= m.w - x
      /\ CeilDiv(w, f) \in 1..w /\ Readable(CeilDiv(w, f))
  BY <1>1, <1>2, <1>3, SideOffered
<1>5. /\ y \in Nat /\ y < m.h /\ Readable(y)
      /\ h \in Nat \ {0} /\ Readable(h) /\ h <= m.h - y
      /\ CeilDiv(h, f) \in 1..h /\ Readable(CeilDiv(h, f))
  BY <1>1, <1>2, <1>3, SideOffered
<1>6. m.w \in Nat \ {0} /\ m.h \in Nat \ {0}
  BY <1>1, SideReadable
<1>. DEFINE r == [kind |-> "pixels", x |-> x, y |-> y, w |-> w, h |-> h]
            a == CeilDiv(w, f)
            b == CeilDiv(h, f)
<1>7. LET crop == ResolveRegion(r, m, {})
      IN  crop.ok /\ crop.w = w /\ crop.h = h
  BY <1>4, <1>5, <1>6, CropOffered
<1>8. r \in RegionForms
  BY <1>4, <1>5 DEF RegionForms
<1>9. Spelled(r)
  BY <1>4, <1>5 DEF Spelled
<1>10. a \in 1..w /\ b \in 1..h /\ Readable(a) /\ Readable(b)
  BY <1>4, <1>5
<1>. HIDE DEF r, a, b
<1>11. Offered(m, r, a, b)
  BY <1>4, <1>5, <1>7, <1>8, <1>9, <1>10 DEF Offered
<1>. QED
  BY <1>11 DEF r, a, b

(* Five segments, put together and taken apart.                            *)
LEMMA FiveSegments ==
  ASSUME NEW S, NEW a \in S, NEW b \in S, NEW c \in S, NEW d \in S, NEW e \in S
  PROVE  LET s == <<a>> \o <<b, c>> \o <<d, e>>
         IN  /\ s \in Seq(S) /\ Len(s) = 5
             /\ s[1] = a /\ s[2] = b /\ s[3] = c /\ s[4] = d /\ s[5] = e
<1>1. <<a>> \in Seq(S) /\ <<b, c>> \in Seq(S) /\ <<d, e>> \in Seq(S)
  OBVIOUS
<1>2. <<a>> \o <<b, c>> \in Seq(S)
  BY <1>1
<1>3. <<a>> \o <<b, c>> \o <<d, e>> \in Seq(S)
  BY <1>1, <1>2
<1>. DEFINE s == <<a>> \o <<b, c>> \o <<d, e>>
<1>4. /\ Len(s) = 5
      /\ s[1] = a /\ s[2] = b /\ s[3] = c /\ s[4] = d /\ s[5] = e
  OBVIOUS
<1>. QED
  BY <1>3, <1>4

(* What follows the identifier.                                            *)
LEMMA AfterFirst ==
  ASSUME NEW S, NEW s \in Seq(S), Len(s) = 5
  PROVE  LET t == Tail(s)
         IN  /\ t \in Seq(S) /\ Len(t) = 4
             /\ t[1] = s[2] /\ t[2] = s[3] /\ t[3] = s[4] /\ t[4] = s[5]
OBVIOUS

(* Where a document's sizes and tiles are found.                           *)
OfferedAt(at, api, id, r, w, h) ==
  /\ at \in Place /\ at.prefix = api /\ Len(at.path) = 5
  /\ at.path[1] = Encode(id) /\ at.path[2] = RegionText(r) /\ at.path[3] = Written2(w, h)
  /\ at.path[4] = <<"0">> /\ at.path[5] = FileText("default", "png")

(* The end of what a viewer asks for is read by the grammar.               *)
LEMMA EndingRead ==
  <<"0">> \in Seq(Lexeme) /\ FileText("default", "png") \in Seq(Lexeme)
<1>1. "0" \in Lexeme /\ "default" \in Qualities /\ "png" \in Formats
  BY DEF Lexeme, Qualities, Formats
<1>2. FileText("default", "png") \in Seq(Lexeme)
  BY <1>1, FileBack
<1>. QED
  BY <1>1, <1>2

(* A path put together from what a document lists is a place.              *)
LEMMA PlacedAt ==
  ASSUME NEW api \in {"v2", "v3"}, NEW id, Encode(id) \in Seq(Lexeme),
         NEW m, NEW r, NEW w, NEW h, Offered(m, r, w, h), NEW at,
         at.prefix = api, at = [prefix |-> at.prefix, path |-> at.path],
         at.path = <<Encode(id)>> \o <<RegionText(r), Written2(w, h)>>
                     \o <<<<"0">>, FileText("default", "png")>>
  PROVE  OfferedAt(at, api, id, r, w, h)
<1>. DEFINE a == Encode(id)
            b == RegionText(r)
            c == Written2(w, h)
            d == <<"0">>
            e == FileText("default", "png")
<1>1. a \in Seq(Lexeme) /\ d \in Seq(Lexeme) /\ e \in Seq(Lexeme)
  BY EndingRead
<1>2. b \in Seq(Lexeme)
  BY RegionBack DEF Offered, Spelled
<1>3. c \in Seq(Lexeme)
  BY PairRead DEF Offered
<1>4. at.path = <<a>> \o <<b, c>> \o <<d, e>>
  OBVIOUS
<1>. HIDE DEF a, b, c, d, e
<1>. DEFINE t == <<a>> \o <<b, c>> \o <<d, e>>
            s == at.path
<1>8. /\ t \in Seq(Seq(Lexeme)) /\ Len(t) = 5
      /\ t[1] = a /\ t[2] = b /\ t[3] = c /\ t[4] = d /\ t[5] = e
  BY <1>1, <1>2, <1>3, FiveSegments
<1>9. s = t
  BY <1>4
<1>. HIDE DEF t, s
<1>5. /\ s \in Seq(Seq(Lexeme)) /\ Len(s) = 5
      /\ s[1] = a /\ s[2] = b /\ s[3] = c /\ s[4] = d /\ s[5] = e
  BY <1>8, <1>9
<1>6. api \in Lexeme
  BY DEF Lexeme
<1>7. at \in Place
  BY <1>5, <1>6 DEF Place, s
<1>. QED
  BY <1>5, <1>7 DEF OfferedAt, a, b, c, d, e, s

(* Whatever a document lists is offered, and found there.                  *)
LEMMA AdvertisedIs ==
  ASSUME NEW root, NEW api \in {"v2", "v3"}, NEW id, Encode(id) \in Seq(Lexeme), root[id] \in Master,
         NEW doc, doc = Document(root, api, id), NEW at \in Advertised(doc)
  PROVE  \E r, w, h : Offered(root[id], r, w, h) /\ OfferedAt(at, api, id, r, w, h)
<1>. DEFINE m == root[id]
            ending == <<<<"0">>, FileText("default", "png")>>
            place == [prefix |-> api, path |-> <<Encode(id)>>]
<1>1. /\ doc.at = place /\ doc.w = m.w /\ doc.h = m.h
      /\ doc.sizes = LevelSizes(m) /\ doc.tile = m.tile /\ doc.factors = ScaleFactors(m)
  BY DEF Document
<1>2. PICK wanted \in SizeRequests(doc) \cup IF doc.tile = NoTile THEN {} ELSE TileRequests(doc) :
        at = [doc.at EXCEPT !.path = @ \o wanted \o ending]
  BY Zenon DEF Advertised
<1>3. at = [prefix |-> api, path |-> <<Encode(id)>> \o wanted \o ending]
  <2>1. doc.at = place
    BY <1>1
  <2>. HIDE DEF ending, place
  <2>2. at = [place EXCEPT !.path = @ \o wanted \o ending]
    BY <1>2, <2>1
  <2>. QED
    BY <2>2 DEF place
<1>4. \E r, w, h : Offered(m, r, w, h) /\ wanted = <<RegionText(r), Written2(w, h)>>
  <2>1. CASE wanted \in SizeRequests(doc)
    <3>1. PICK z \in LevelSizes(m) : wanted = <<<<"full">>, Written2(z.w, z.h)>>
      BY <1>1, <2>1 DEF SizeRequests
    <3>. DEFINE r == [kind |-> "full"]
    <3>2. RegionText(r) = <<"full">>
      BY DEF RegionText
    <3>3. Offered(m, r, z.w, z.h)
      BY SizeOffered
    <3>. HIDE DEF r
    <3>. QED
      BY <3>1, <3>2, <3>3
  <2>2. CASE m.tile # NoTile /\ wanted \in TileRequests(doc)
    <3>0. PICK f \in ScaleFactors(m) :
            wanted \in {TileAt(doc, f, x, y) : x \in Starts(m.w, m.tile.w * f), y \in Starts(m.h, m.tile.h * f)}
      BY <1>1, <2>2 DEF TileRequests
    <3>1. PICK x \in Starts(m.w, m.tile.w * f), y \in Starts(m.h, m.tile.h * f) : wanted = TileAt(doc, f, x, y)
      BY <3>0
    <3>. DEFINE w == Min({m.tile.w * f, m.w - x})
                h == Min({m.tile.h * f, m.h - y})
                r == [kind |-> "pixels", x |-> x, y |-> y, w |-> w, h |-> h]
    <3>2. wanted = <<RegionText(r), Written2(CeilDiv(w, f), CeilDiv(h, f))>>
      BY <1>1, <3>1 DEF TileAt
    <3>3. Offered(m, r, CeilDiv(w, f), CeilDiv(h, f))
      BY <2>2, TileOffered
    <3>. HIDE DEF r, w, h
    <3>. QED
      BY <3>2, <3>3
  <2>. QED
    BY <1>1, <1>2, <2>1, <2>2
<1>5. PICK r, w, h : Offered(m, r, w, h) /\ wanted = <<RegionText(r), Written2(w, h)>>
  BY <1>4
<1>6. /\ at.prefix = api /\ at = [prefix |-> at.prefix, path |-> at.path]
      /\ at.path = <<Encode(id)>> \o <<RegionText(r), Written2(w, h)>> \o ending
  <2>. HIDE DEF ending
  <2>. QED
    BY <1>3, <1>5
<1>. HIDE DEF m
<1>7. OfferedAt(at, api, id, r, w, h)
  BY <1>5, <1>6, PlacedAt
<1>. QED
  BY <1>5, <1>7 DEF m

(* An identifier that was read is read again from its encoded form.        *)
LEMMA EncodedIdentifies ==
  ASSUME NEW raw, NEW id, Identified(raw, id)
  PROVE  Identified(Encode(id), id) /\ Encode(id) \in Seq(Lexeme)
<1>1. id \in Seq(Lexeme) /\ id # <<>> /\ ToSet(id) \cap Refused = {} /\ ~Traverses(id)
  BY DEF Identified
<1>2. Encode(id) \in Seq(Lexeme) /\ Decode(Encode(id)) = {id}
  BY <1>1, EncodedIsRead
<1>. QED
  BY <1>1, <1>2 DEF Identified

(* What is offered, read in either version.                                *)
OfferedRequest(api, r, w, h) ==
  [region |-> r, size |-> [kind |-> "exact", up |-> api # "v3", w |-> w, h |-> h],
   rotation |-> [mirror |-> FALSE, degrees |-> 0], quality |-> "default", format |-> "png"]

(* The grammar reads it as the request it was written from.                *)
LEMMA OfferedParses ==
  ASSUME NEW api, NEW m, NEW r, NEW w, NEW h, Offered(m, r, w, h),
         NEW segments, Len(segments) = 4, segments[1] = RegionText(r), segments[2] = Written2(w, h),
         segments[3] = <<"0">>, segments[4] = FileText("default", "png")
  PROVE  ParseRequest(api, segments) = {OfferedRequest(api, r, w, h)}
<1>. DEFINE R == RegionText(r)
            Z == Written2(w, h)
            O == <<"0">>
            z == [kind |-> "exact", up |-> api # "v3", w |-> w, h |-> h]
            o == [mirror |-> FALSE, degrees |-> 0]
<1>1. ParseRegion(R) = {r}
  BY RegionBack DEF Offered, Spelled
<1>2. w \in Nat \ {0} /\ Readable(w) /\ h \in Nat \ {0} /\ Readable(h)
  BY DEF Offered
<1>3. (IF api = "v3" THEN ParseSize(Z) ELSE ParseSizeV2(Z)) = {z}
  <2>1. /\ ParseSize(Z) = {[kind |-> "exact", up |-> FALSE, w |-> w, h |-> h]}
        /\ ParseSizeV2(Z) = {[kind |-> "exact", up |-> TRUE, w |-> w, h |-> h]}
    BY <1>2, PairSize
  <2>2. CASE api = "v3"
    <3>1. (api # "v3") = FALSE
      BY <2>2
    <3>. HIDE DEF Z
    <3>. QED
      BY <2>1, <2>2, <3>1
  <2>3. CASE api # "v3"
    <3>1. (api # "v3") = TRUE
      BY <2>3
    <3>. HIDE DEF Z
    <3>. QED
      BY <2>1, <2>3, <3>1
  <2>. QED
    BY <2>2, <2>3
<1>4. ParseRotation(O) = {o}
  <2>1. 0 \in DOMAIN Written /\ Written[0] = "0"
    BY NumeralAssumption
  <2>2. 0 <= FullTurn
    BY DEF FullTurn
  <2>. DEFINE s == (IF FALSE THEN <<"!">> ELSE <<>>) \o <<Written[0]>>
  <2>3. ParseRotation(s) = {o}
    BY <2>1, <2>2, TurnBack
  <2>4. s = O
    BY <2>1
  <2>. QED
    BY <2>3, <2>4, Zenon
<1>5. "default" \in Qualities /\ "png" \in Formats
  BY DEF Qualities, Formats
<1>. HIDE DEF R, Z, O, z, o
<1>6. /\ Len(segments) = 4 /\ segments[1] = R /\ segments[2] = Z /\ segments[3] = O
      /\ segments[4] = FileText("default", "png")
  BY DEF R, Z, O
<1>7. ParseRequest(api, segments)
        = {[region |-> r, size |-> z, rotation |-> o, quality |-> "default", format |-> "png"]}
  BY <1>1, <1>3, <1>4, <1>5, <1>6, PartsRead
<1>. QED
  BY <1>7, Zenon DEF OfferedRequest, z, o

(* A size no larger than its crop is done as asked.                        *)
LEMMA SizeDone ==
  ASSUME NEW rw \in Nat \ {0}, NEW rh \in Nat \ {0}, NEW lim, NEW w \in Nat \ {0}, NEW h \in Nat \ {0},
         w <= rw, h <= rh, NEW sz, sz.kind = "exact", sz.w = w, sz.h = h
  PROVE  ResolveSize(sz, rw, rh, lim, {}) = [ok |-> TRUE, w |-> w, h |-> h, upscales |-> FALSE]
<1>. DEFINE out == Wanted(sz, rw, rh, lim, {})
            grows == out.w > rw \/ out.h > rh
            asks == AsksUpscale(sz, rw, rh)
<1>1. out = [w |-> w, h |-> h]
  BY DEF Wanted
<1>2. asks = FALSE
  BY DEF AsksUpscale
<1>3. out.w = w /\ out.h = h
  BY <1>1
<1>4. grows = FALSE
  BY <1>3
<1>5. ResolveSize(sz, rw, rh, lim, {}) =
        IF ~sz.up /\ asks
        THEN Error("UpscaleWithoutFlag")
        ELSE IF grows /\ ~sz.up
             THEN [ok |-> TRUE, w |-> Min({out.w, rw}), h |-> Min({out.h, rh}), upscales |-> FALSE]
             ELSE [ok |-> TRUE, w |-> out.w, h |-> out.h, upscales |-> grows]
  BY DEF ResolveSize
<1>. HIDE DEF out, grows, asks
<1>. QED
  BY <1>2, <1>3, <1>4, <1>5

(* Within the limits, what is offered is planned at that size.             *)
LEMMA OfferedPlanned ==
  ASSUME NEW api, NEW m \in Master, NEW r, NEW w, NEW h, Offered(m, r, w, h),
         w <= Limits.w, h <= Limits.h, w * h <= Limits.area
  PROVE  LET q == OfferedRequest(api, r, w, h)
             p == PlanFor(q, m)
         IN  IsPlan(p, q, m) /\ PlainMax(api, q) /\ p.w = w /\ p.h = h /\ ~BeyondFormat(p)
<1>. DEFINE q == OfferedRequest(api, r, w, h)
            p == PlanFor(q, m)
            z == [kind |-> "exact", up |-> api # "v3", w |-> w, h |-> h]
            crop == ResolveRegion(r, m, {})
            e == Evaluate(r, z, m, Limits, {})
<1>1. /\ r \in RegionForms /\ w \in Nat \ {0} /\ h \in Nat \ {0}
      /\ crop.ok /\ crop.w \in Nat \ {0} /\ crop.h \in Nat \ {0} /\ w <= crop.w /\ h <= crop.h
  BY DEF Offered
<1>2. z.kind = "exact" /\ z.w = w /\ z.h = h /\ z \in SizeForms
  BY <1>1 DEF SizeForms
<1>3. /\ q.region = r /\ q.size = z /\ q.rotation = [mirror |-> FALSE, degrees |-> 0]
      /\ q.quality = "default" /\ q.format = "png"
  BY DEF OfferedRequest
<1>4. q.rotation.mirror = FALSE /\ q.rotation.degrees = 0
  BY <1>3
<1>. HIDE DEF q, z, crop
<1>5. ResolveSize(z, crop.w, crop.h, Limits, {}) = [ok |-> TRUE, w |-> w, h |-> h, upscales |-> FALSE]
  <2>. DEFINE rw == crop.w
              rh == crop.h
  <2>1. rw \in Nat \ {0} /\ rh \in Nat \ {0} /\ w \in Nat \ {0} /\ h \in Nat \ {0} /\ w <= rw /\ h <= rh
    BY <1>1
  <2>2. z.kind = "exact" /\ z.w = w /\ z.h = h
    BY <1>2
  <2>. HIDE DEF rw, rh, p, e
  <2>3. ResolveSize(z, rw, rh, Limits, {}) = [ok |-> TRUE, w |-> w, h |-> h, upscales |-> FALSE]
    BY ONLY <2>1, <2>2, SizeDone
  <2>. QED
    BY <2>3 DEF rw, rh
<1>6. Limits.w \in Nat /\ Limits.h \in Nat /\ Limits.area \in Nat
  BY LimitsHave, SideReadable
<1>7. e = [ok |-> TRUE, crop |-> crop, w |-> w, h |-> h, upscales |-> FALSE, wasMax |-> FALSE]
  <2>. DEFINE out == ResolveSize(z, crop.w, crop.h, Limits, {})
              over == out.w > Limits.w \/ out.h > Limits.h \/ out.w * out.h > Limits.area
              none == out.w = 0 \/ out.h = 0
              max == z.kind = "max"
  <2>1. e = IF ~crop.ok THEN crop
            ELSE IF ~out.ok THEN out
            ELSE IF none THEN Error("BelowOnePixel")
            ELSE IF over THEN Error("ExceedsLimits")
            ELSE [ok |-> TRUE, crop |-> crop, w |-> out.w, h |-> out.h,
                  upscales |-> out.upscales, wasMax |-> max]
    BY DEF Evaluate, crop
  <2>. HIDE DEF e
  <2>2. out.ok /\ out.w = w /\ out.h = h /\ out.upscales = FALSE
    BY <1>5
  <2>3. max = FALSE
    BY <1>2
  <2>4. ~over /\ ~none
    <3>. HIDE DEF out
    <3>. QED
      BY <1>1, <1>6, <2>2
  <2>. HIDE DEF out, over, none, max
  <2>. QED
    BY <1>1, <2>1, <2>2, <2>3, <2>4
<1>. HIDE DEF e
<1>8. p = [ok |-> TRUE, crop |-> crop, w |-> w, h |-> h, upscales |-> FALSE, wasMax |-> FALSE,
           mirror |-> q.rotation.mirror, degrees |-> Upright(q.rotation.degrees),
           quality |-> q.quality, format |-> q.format]
  <2>1. Evaluate(q.region, q.size, m, Limits, {}) = e
    BY <1>3 DEF e
  <2>2. /\ e.ok /\ e.crop = crop /\ e.w = w /\ e.h = h
        /\ e.upscales = FALSE /\ e.wasMax = FALSE
    BY <1>7
  <2>3. p = [ok |-> TRUE, crop |-> e.crop, w |-> e.w, h |-> e.h,
             upscales |-> e.upscales, wasMax |-> e.wasMax,
             mirror |-> q.rotation.mirror, degrees |-> Upright(q.rotation.degrees),
             quality |-> q.quality, format |-> q.format]
    BY <2>1, <2>2, PlanFrom, Zenon
  <2>. HIDE DEF p
  <2>. QED
    BY <2>2, <2>3
<1>9. p.ok /\ p.w = w /\ p.h = h /\ p.format = "png"
  BY <1>3, <1>8
<1>10. ~BeyondFormat(p)
  BY <1>9 DEF BeyondFormat
<1>11. Typed(q)
  <2>1. "default" \in Qualities /\ "png" \in Formats
    BY DEF Qualities, Formats
  <2>2. Upright(0) = 0
    BY DEF Upright
  <2>3. 0 \in DOMAIN Written
    BY NumeralAssumption
  <2>. QED
    BY <1>1, <1>2, <1>3, <1>4, <2>1, <2>2, <2>3 DEF Typed
<1>12. PlainMax(api, q)
  BY <1>2, <1>3 DEF PlainMax
<1>13. IsPlan(p, q, m)
  BY <1>9, <1>11 DEF IsPlan
<1>. HIDE DEF p
<1>. QED
  BY <1>9, <1>10, <1>12, <1>13 DEF p, q

(* A set of one is read as that one.                                       *)
LEMMA ReadsOne ==
  ASSUME NEW api, NEW segments, NEW q, ParseRequest(api, segments) = {q}
  PROVE  Reads(api, segments, q)
<1>1. The(ParseRequest(api, segments)) = q
  BY TheOne
<1>. QED
  BY <1>1 DEF Reads

(* What a document offers within the limits is an image of that size.      *)
LEMMA OfferedImage ==
  ASSUME NEW root, NEW api \in {"v2", "v3"}, NEW raw, NEW id, Identified(raw, id),
         id \in DOMAIN root, root[id] \in Master, root[id].opens = "yes",
         NEW r, NEW w, NEW h, Offered(root[id], r, w, h), NEW at, OfferedAt(at, api, id, r, w, h),
         w <= Limits.w, h <= Limits.h, w * h <= Limits.area
  PROVE  \E q, p : /\ ImageAt(root, at, id, q, p) /\ p.w = w /\ p.h = h /\ ~BeyondFormat(p)
<1>. DEFINE q == OfferedRequest(api, r, w, h)
            m == root[id]
            p == PlanFor(q, m)
            segments == Tail(at.path)
<1>1. IsPlan(p, q, m) /\ PlainMax(api, q) /\ p.w = w /\ p.h = h /\ ~BeyondFormat(p)
  <2>. HIDE DEF m
  <2>1. m \in Master /\ Offered(m, r, w, h)
    BY DEF m
  <2>. QED
    BY <2>1, OfferedPlanned
<1>2. /\ at.path \in Seq(Seq(Lexeme)) /\ at.prefix = api /\ Len(at.path) = 5
      /\ at.path[1] = Encode(id) /\ at.path[2] = RegionText(r) /\ at.path[3] = Written2(w, h)
      /\ at.path[4] = <<"0">> /\ at.path[5] = FileText("default", "png")
  BY DEF OfferedAt, Place
<1>3. /\ Len(segments) = 4 /\ segments[1] = RegionText(r) /\ segments[2] = Written2(w, h)
      /\ segments[3] = <<"0">> /\ segments[4] = FileText("default", "png")
  BY <1>2, AfterFirst
<1>4. ParseRequest(api, segments) = {q}
  <2>. HIDE DEF segments, q
  <2>. QED
    BY <1>3, OfferedParses DEF q
<1>5. Identified(Encode(id), id)
  BY EncodedIdentifies
<1>. HIDE DEF p, q, segments
<1>6. Reads(api, segments, q)
  BY <1>4, ReadsOne
<1>7. ImageAt(root, at, id, q, p)
  BY <1>1, <1>2, <1>5, <1>6 DEF ImageAt, Imaged, segments
<1>. QED
  BY <1>1, <1>7

(* The canonical link of an image, as an address.                          *)
LEMMA LinkSegments ==
  ASSUME NEW S, NEW a \in S, NEW s \in Seq(S), Len(s) = 4
  PROVE  LET t == <<a>> \o s
         IN  t \in Seq(S) /\ Len(t) = 5 /\ t[1] = a /\ Tail(t) = s
<1>. DEFINE u == <<a>>
            t == u \o s
<1>1. u \in Seq(S) /\ Len(u) = 1 /\ u[1] = a
  OBVIOUS
<1>. HIDE DEF u
<1>2. t \in Seq(S)
  BY <1>1, ConcatProperties
<1>3. Len(t) = Len(u) + Len(s)
  BY <1>1, ConcatProperties
<1>4. \A i \in 1..Len(u) + Len(s) : t[i] = IF i <= Len(u) THEN u[i] ELSE s[i - Len(u)]
  BY <1>1, ConcatProperties
<1>. HIDE DEF t
<1>5. /\ Len(t) = 5 /\ t[1] = u[1]
      /\ \A i \in 1..4 : t[i + 1] = s[i]
  <2>1. Len(t) = 5
    BY <1>1, <1>3
  <2>2. \A i \in 1..5 : t[i] = IF i <= 1 THEN u[i] ELSE s[i - 1]
    BY <1>1, <1>4
  <2>3. ASSUME NEW i \in 1..4 PROVE t[i + 1] = s[i]
    <3>1. i + 1 \in 1..5 /\ ~(i + 1 <= 1) /\ (i + 1) - 1 = i
      OBVIOUS
    <3>. QED
      BY <2>2, <3>1
  <2>. QED
    BY <2>1, <2>2, <2>3
<1>6. t[1] = a
  BY <1>1, <1>5
<1>7. t # <<>>
  BY <1>2, <1>5, EmptySeq
<1>. DEFINE v == Tail(t)
<1>8. v \in Seq(S)
  BY <1>2, <1>7, HeadTailProperties
<1>9. Len(v) = Len(t) - 1
  BY <1>2, <1>7, HeadTailProperties
<1>10. \A i \in 1..Len(v) : v[i] = t[i + 1]
  BY <1>2, <1>7, HeadTailProperties
<1>. HIDE DEF v
<1>11. \A i \in 1..4 : v[i] = s[i]
  <2>. TAKE i \in 1..4
  <2>1. i \in 1..Len(v)
    BY <1>5, <1>9
  <2>2. v[i] = t[i + 1]
    BY <1>10, <2>1, Zenon
  <2>. QED
    BY <1>5, <2>2, Zenon
<1>12. v = s
  <2>1. Len(v) = 4 /\ Len(v) = Len(s)
    BY <1>5, <1>9
  <2>2. \A i \in 1..Len(v) : v[i] = s[i]
    BY <1>11, <2>1
  <2>. QED
    BY <1>8, <2>1, <2>2, SeqEqual
<1>. QED
  BY <1>2, <1>5, <1>6, <1>12 DEF t, u, v

(* A canonical link is a place of five segments.                           *)
LEMMA LinkPlaced ==
  ASSUME NEW root, NEW api \in {"v2", "v3"}, NEW id, Encode(id) \in Seq(Lexeme),
         NEW q, NEW p, IsPlan(p, q, root[id])
  PROVE  LET at == ImageLink(root, api, id, q, p)
             path == CanonicalPath(api, p, q, root[id])
         IN  /\ at \in Place /\ at.prefix = api /\ Len(at.path) = 5
             /\ at.path[1] = Encode(id) /\ Tail(at.path) = path
<1>. DEFINE path == CanonicalPath(api, p, q, root[id])
            t == <<Encode(id)>> \o path
            at == ImageLink(root, api, id, q, p)
<1>1. path \in Seq(Seq(Lexeme)) /\ Len(path) = 4
  <2>1. IsPath(path, api, p, q, root[id])
    BY PathIs
  <2>. QED
    BY <2>1, Zenon DEF IsPath
<1>2. at = [prefix |-> api, path |-> t]
  BY DEF ImageLink
<1>. HIDE DEF at, path
<1>3. t \in Seq(Seq(Lexeme)) /\ Len(t) = 5 /\ t[1] = Encode(id) /\ Tail(t) = path
  BY <1>1, LinkSegments
<1>4. api \in Lexeme
  BY DEF Lexeme
<1>. HIDE DEF t
<1>5. at.prefix = api /\ at.path = t /\ at \in Place
  BY <1>2, <1>3, <1>4 DEF Place
<1>. QED
  BY <1>3, <1>5 DEF at, path

(* It leads to the same plan, under the same path.                         *)
LEMMA LinkImaged ==
  ASSUME NEW root, NEW raw, NEW segments, NEW id, NEW q, NEW p,
         Imaged(root, "v3", raw, segments, id, q, p)
  PROVE  \E again : /\ ImageAt(root, ImageLink(root, "v3", id, q, p), id, again, p)
                    /\ ImageTag(root, "v3", id, again, p) = ImageTag(root, "v3", id, q, p)
                    /\ ImageLink(root, "v3", id, again, p) = ImageLink(root, "v3", id, q, p)
<1>. DEFINE m == root[id]
            path == CanonicalPath("v3", p, q, m)
            at == ImageLink(root, "v3", id, q, p)
<1>1. IsPlan(p, q, m) /\ id \in DOMAIN root /\ root[id].opens = "yes" /\ Identified(raw, id)
  BY DEF Imaged
<1>2. Identified(Encode(id), id) /\ Encode(id) \in Seq(Lexeme)
  BY <1>1, EncodedIdentifies
<1>3. /\ at \in Place /\ at.prefix = "v3" /\ Len(at.path) = 5
      /\ at.path[1] = Encode(id) /\ Tail(at.path) = path
  <2>1. "v3" \in {"v2", "v3"} /\ IsPlan(p, q, root[id]) /\ Encode(id) \in Seq(Lexeme)
    BY <1>1, <1>2
  <2>2. ASSUME NEW api \in {"v2", "v3"}
        PROVE  LET link == ImageLink(root, api, id, q, p)
               IN  /\ link \in Place /\ link.prefix = api /\ Len(link.path) = 5
                   /\ link.path[1] = Encode(id) /\ Tail(link.path) = CanonicalPath(api, p, q, root[id])
    <3>. HIDE DEF path, at
    <3>. QED
      BY <2>1, LinkPlaced
  <2>. QED
    BY <2>1, <2>2
<1>4. PICK again : /\ ParseRequest("v3", path) = {again}
                   /\ PlanFor(again, m) = p
                   /\ CanonicalPath("v3", p, again, m) = path
  <2>. HIDE DEF m
  <2>. QED
    BY <1>1, CanonicalAgain
<1>. HIDE DEF path, at
<1>5. Reads("v3", path, again)
  BY <1>4, ReadsOne
<1>6. Typed(again) /\ PlainMax("v3", again)
  BY <1>5, ReadsTyped
<1>7. IsPlan(p, again, m)
  BY <1>1, <1>4, <1>6 DEF IsPlan
<1>8. Imaged(root, "v3", Encode(id), path, id, again, p)
  BY <1>1, <1>2, <1>5, <1>6, <1>7 DEF Imaged
<1>9. ImageAt(root, at, id, again, p)
  BY <1>3, <1>8 DEF ImageAt
<1>10. /\ ImageTag(root, "v3", id, again, p) = ImageTag(root, "v3", id, q, p)
       /\ ImageLink(root, "v3", id, again, p) = ImageLink(root, "v3", id, q, p)
  BY <1>4 DEF ImageTag, ImageLink, path
<1>. QED
  BY <1>9, <1>10 DEF at

----------------------------------------------------------------------------

(* No link at all counts as a place.                                       *)
LEMMA NowhereIsPlace == Nowhere \in Place
<1>1. <<>> \in Seq(Seq(Lexeme)) /\ "none" \in Lexeme
  BY DEF Lexeme
<1>. QED
  BY <1>1 DEF Nowhere, Place

(* The location of a redirect is a place.                                  *)
LEMMA InfoPlaced ==
  ASSUME NEW api \in {"v2", "v3"}, NEW raw \in Seq(Lexeme)
  PROVE  [prefix |-> api, path |-> <<raw, <<"info.json">>>>] \in Place
<1>1. <<"info.json">> \in Seq(Lexeme) /\ api \in Lexeme
  <2>1. "info.json" \in Lexeme /\ api \in Lexeme
    BY DEF Lexeme
  <2>. QED
    BY <2>1
<1>2. <<raw, <<"info.json">>>> \in Seq(Seq(Lexeme))
  <2>. DEFINE b == <<"info.json">>
  <2>. HIDE DEF b
  <2>1. b \in Seq(Lexeme)
    BY <1>1 DEF b
  <2>2. <<raw, b>> \in Seq(Seq(Lexeme))
    BY <2>1
  <2>. QED
    BY <2>2 DEF b
<1>. QED
  BY <1>1, <1>2 DEF Place

(* Answers lead to places.                                                 *)
Leads(a) == a.canonical \in Place /\ (a.status = 303 => a.location \in Place)

(* The link of an image leads to a place.                                  *)
LEMMA PicturesLead ==
  ASSUME NEW root, NEW request, NEW a, Pictures(a, root, request)
  PROVE  a.canonical \in Place /\ a.status # 303
<1>1. PICK id, q, p : /\ ImageAt(root, request.at, id, q, p)
                      /\ ImageAnswer(a, root, request.at.prefix, id, q, p, request)
  BY Zenon DEF Pictures
<1>. DEFINE api == request.at.prefix
<1>2. api \in {"v2", "v3"} /\ Identified(request.at.path[1], id) /\ IsPlan(p, q, root[id])
  BY <1>1 DEF ImageAt, Imaged
<1>3. Encode(id) \in Seq(Lexeme)
  BY <1>2, EncodedIdentifies
<1>. HIDE DEF api
<1>4. ImageLink(root, api, id, q, p) \in Place
  BY <1>2, <1>3, LinkPlaced
<1>. QED
  BY <1>1, <1>4, NowhereIsPlace DEF ImageAnswer, api

(* The location of a 303 leads to a place.                                 *)
LEMMA RedirectsLead ==
  ASSUME NEW at, NEW a, Redirects(a, at)
  PROVE  Leads(a)
<1>1. PICK id : /\ at.prefix \in {"v2", "v3"} /\ Identified(at.path[1], id)
                /\ a.canonical = Nowhere
                /\ a.location = [prefix |-> at.prefix, path |-> <<Encode(id), <<"info.json">>>>]
  BY Zenon DEF Redirects
<1>2. Encode(id) \in Seq(Lexeme)
  BY <1>1, EncodedIdentifies
<1>3. a.location \in Place
  BY <1>1, <1>2, InfoPlaced
<1>. QED
  BY <1>1, <1>3, NowhereIsPlace DEF Leads

(* Whatever an answer names is a place.                                    *)
LEMMA HandleLeads ==
  ASSUME NEW root, Rooted(root), NEW request, request.at \in Place, NEW fault
  PROVE  Leads(Handle(root, request, fault))
<1>. DEFINE a == Handle(root, request, fault)
            r == Routed(root, request, fault)
            pre == [Bare(204) EXCEPT !.cors = TRUE, !.allow = TRUE, !.body = NoBody]
<1>1. \/ a = pre
      \/ a = Bare(405)
      \/ a = Finished(r, request.method)
  BY DEF Handle, Finished
<1>2. ASSUME NEW b, Plain(b) PROVE Leads(b)
  BY <1>2, NowhereIsPlace DEF Leads, Plain
<1>3. Leads(pre) /\ Leads(Bare(405))
  <2>1. Plain(pre)
    BY PreflightIsPlain, Zenon
  <2>2. Plain(Bare(405))
    BY BareIsPlain
  <2>. HIDE DEF pre
  <2>. QED
    BY <1>2, <2>1, <2>2
<1>4. Plain(r) \/ Redirects(r, request.at) \/ Informs(r, root, request) \/ Pictures(r, root, request)
  BY RoutedCases
<1>. HIDE DEF r, a, pre
<1>5. Whole(r)
  BY <1>4 DEF Plain, Redirects, Informs, InfoAnswer, Pictures, ImageAnswer
<1>6. Leads(r)
  <2>1. CASE Plain(r)
    BY <1>2, <2>1
  <2>2. CASE Redirects(r, request.at)
    BY <2>2, RedirectsLead
  <2>3. CASE Informs(r, root, request)
    BY <2>3, NowhereIsPlace DEF Informs, InfoAnswer, Leads
  <2>4. CASE Pictures(r, root, request)
    BY <2>4, PicturesLead DEF Leads
  <2>. QED
    BY <1>4, <2>1, <2>2, <2>3, <2>4
<1>7. CASE a = Finished(r, request.method)
  <2>1. a.status = r.status /\ a.location = r.location /\ a.canonical = r.canonical
    BY <1>5, <1>7, FinishedHas
  <2>. QED
    BY <1>6, <2>1 DEF Leads, a
<1>. QED
  BY <1>1, <1>3, <1>7 DEF a

(* Other spellings of a place are places.                                  *)
LEMMA SegmentPut ==
  ASSUME NEW at \in Place, NEW k \in 1..Len(at.path), NEW s \in Seq(Lexeme)
  PROVE  [at EXCEPT !.path[k] = s] \in Place
<1>1. at.path \in Seq(Seq(Lexeme))
  BY DEF Place
<1>2. [at.path EXCEPT ![k] = s] \in Seq(Seq(Lexeme))
  BY <1>1, ExceptSeq
<1>. DEFINE path == [at.path EXCEPT ![k] = s]
<1>3. [at EXCEPT !.path[k] = s] = [at EXCEPT !.path = path]
  BY DEF Place
<1>. HIDE DEF path
<1>4. [at EXCEPT !.path = path] \in Place
  BY <1>2 DEF Place, path
<1>. QED
  BY <1>3, <1>4

(* Another spelling of a place is a place.                                 *)
LEMMA RespelledPlaced ==
  ASSUME NEW at \in Place, Len(at.path) = 5, NEW new \in Respelled(at)
  PROVE  new \in Place
<1>1. at.path \in Seq(Seq(Lexeme)) /\ at.prefix \in Lexeme
  BY DEF Place
<1>2. ASSUME NEW spelling \in Spellings,
             new = [at EXCEPT !.path = <<@[1]>> \o spelling \o <<@[4], @[5]>>]
      PROVE  new \in Place
  <2>. DEFINE a == at.path[1]
              b == spelling[1]
              c == spelling[2]
              d == at.path[4]
              e == at.path[5]
              path == <<a>> \o <<b, c>> \o <<d, e>>
  <2>1. spelling = <<b, c>> /\ b \in Seq(STRING) /\ c \in Seq(STRING)
    BY <1>2, RespondAssumption
  <2>2. b \in Seq(Lexeme) /\ c \in Seq(Lexeme)
    <3>1. STRING \subseteq Lexeme
      BY DEF Lexeme
    <3>. QED
      BY <2>1, <3>1, SeqMonotonic
  <2>3. a \in Seq(Lexeme) /\ d \in Seq(Lexeme) /\ e \in Seq(Lexeme)
    BY <1>1
  <2>4. new = [at EXCEPT !.path = path]
    <3>1. new = [at EXCEPT !.path = <<a>> \o spelling \o <<d, e>>]
      BY <1>2 DEF Place
    <3>. QED
      BY <2>1, <3>1, Zenon
  <2>. HIDE DEF a, b, c, d, e
  <2>5. path \in Seq(Seq(Lexeme))
    BY <2>2, <2>3, FiveSegments
  <2>. HIDE DEF path
  <2>. QED
    BY <2>4, <2>5 DEF Place
<1>3. ASSUME NEW turned \in {<<"0">>, <<"360">>, <<"!", "0">>}, new = [at EXCEPT !.path[4] = turned]
      PROVE  new \in Place
  <2>1. turned \in Seq(Lexeme)
    <3>1. "0" \in Lexeme /\ "360" \in Lexeme /\ "!" \in Lexeme
      BY DEF Lexeme, Marks
    <3>2. <<"0">> \in Seq(Lexeme)
      BY <3>1
    <3>3. <<"360">> \in Seq(Lexeme)
      BY <3>1
    <3>4. <<"!", "0">> \in Seq(Lexeme)
      BY <3>1
    <3>. QED
      BY <1>3, <3>2, <3>3, <3>4, Zenon
  <2>2. 4 \in 1..Len(at.path)
    OBVIOUS
  <2>. QED
    BY <1>3, <2>1, <2>2, SegmentPut
<1>4. ASSUME new = [at EXCEPT !.path[5] = FileText("color", "png")]
      PROVE  new \in Place
  <2>1. FileText("color", "png") \in Seq(Lexeme)
    <3>1. "color" \in Qualities /\ "png" \in Formats
      BY DEF Qualities, Formats
    <3>. QED
      BY <3>1, FileBack
  <2>2. 5 \in 1..Len(at.path)
    OBVIOUS
  <2>. QED
    BY <1>4, <2>1, <2>2, SegmentPut
<1>5. ASSUME new = [at EXCEPT !.prefix = IF @ = "v2" THEN "v3" ELSE "v2"]
      PROVE  new \in Place
  <2>. DEFINE prefix == IF at.prefix = "v2" THEN "v3" ELSE "v2"
  <2>1. prefix \in Lexeme
    BY DEF Lexeme
  <2>2. new = [at EXCEPT !.prefix = prefix]
    BY <1>5 DEF Place
  <2>. HIDE DEF prefix
  <2>. QED
    BY <2>1, <2>2 DEF Place
<1>6. \/ \E spelling \in Spellings : new = [at EXCEPT !.path = <<@[1]>> \o spelling \o <<@[4], @[5]>>]
      \/ \E turned \in {<<"0">>, <<"360">>, <<"!", "0">>} : new = [at EXCEPT !.path[4] = turned]
      \/ new = [at EXCEPT !.path[5] = FileText("color", "png")]
      \/ new = [at EXCEPT !.prefix = IF @ = "v2" THEN "v3" ELSE "v2"]
  <2>. DEFINE A == {[at EXCEPT !.path = <<@[1]>> \o spelling \o <<@[4], @[5]>>] : spelling \in Spellings}
              B == {[at EXCEPT !.path[4] = turned] : turned \in {<<"0">>, <<"360">>, <<"!", "0">>}}
              c == [at EXCEPT !.path[5] = FileText("color", "png")]
              d == [at EXCEPT !.prefix = IF @ = "v2" THEN "v3" ELSE "v2"]
  <2>1. new \in A \cup B \cup {c, d}
    BY Zenon DEF Respelled
  <2>2. new \in A => \E spelling \in Spellings : new = [at EXCEPT !.path = <<@[1]>> \o spelling \o <<@[4], @[5]>>]
    OBVIOUS
  <2>3. new \in B => \E turned \in {<<"0">>, <<"360">>, <<"!", "0">>} : new = [at EXCEPT !.path[4] = turned]
    BY Zenon
  <2>. HIDE DEF A, B, c, d
  <2>4. new \in A \/ new \in B \/ new = c \/ new = d
    BY <2>1
  <2>. QED
    BY <2>2, <2>3, <2>4, Zenon DEF c, d
<1>. QED
  BY <1>2, <1>3, <1>4, <1>5, <1>6

(* A request has all its parts.                                            *)
Addressed(request) ==
  DOMAIN request = {"method", "at", "noneMatch"} /\ request.at \in Place

(* An exchange as it took place.                                           *)
Exchanged(x) ==
  /\ Rooted(x.seen) /\ Addressed(x.request)
  /\ x.answer = Handle(x.seen, x.request, x.fault)

(* The inductive invariant: the root holds masters, what is asked for is a *)
(* place, and every exchange took place as recorded.                       *)
RespondIInv == /\ Rooted(masters)
        /\ Addressed(asked)
        /\ \E S : history \in Seq(S)
        /\ \A i \in DOMAIN history : Exchanged(history[i])

(* What a body is, its kind tells.                                         *)
LEMMA InformsOf ==
  ASSUME NEW a, NEW root, NEW request, Informs(a, root, request)
  PROVE  a.body = NoBody \/ a.body.kind = "info"
<1>1. PICK id : InfoAnswer(a, root, request.at.prefix, id, request)
  BY Zenon DEF Informs
<1>2. a.body = NoBody \/ a.body = Document(root, request.at.prefix, id)
  BY <1>1 DEF InfoAnswer
<1>3. Document(root, request.at.prefix, id).kind = "info"
  BY DEF Document
<1>. QED
  BY <1>2, <1>3

(* The same of images.                                                     *)
LEMMA PicturesOf ==
  ASSUME NEW a, NEW root, NEW request, Pictures(a, root, request)
  PROVE  a.body = NoBody \/ a.body.kind = "image"
<1>1. PICK id, q, p : ImageAnswer(a, root, request.at.prefix, id, q, p, request)
  BY Zenon DEF Pictures
<1>2. a.body = NoBody \/ a.body = ImageBody(root, id, p)
  BY <1>1 DEF ImageAnswer
<1>3. ImageBody(root, id, p).kind = "image"
  BY DEF ImageBody
<1>. QED
  BY <1>2, <1>3

(* An answer that holds a document, and one that holds an image.           *)
LEMMA HoldsDocument ==
  ASSUME NEW x, Exchanged(x), x.answer.body.kind = "info"
  PROVE  \E id : /\ InfoAt(x.request.at, id) /\ id \in DOMAIN x.seen /\ x.seen[id].opens = "yes"
                 /\ x.answer.tag = InfoTag(x.seen, x.request.at.prefix, id)
                 /\ x.answer.canonical = Nowhere
                 /\ x.answer.body = Document(x.seen, x.request.at.prefix, id)
<1>. DEFINE a == x.answer
<1>1. \/ Plain(a) \/ Redirects(a, x.request.at) \/ Informs(a, x.seen, x.request)
      \/ Pictures(a, x.seen, x.request)
      \/ (x.request.method # "GET" /\ a.body.kind \notin {"image", "info"} /\ a.status # 303)
  BY HandleCases DEF Exchanged, Addressed
<1>2. a.body # NoBody
  BY DEF NoBody
<1>. HIDE DEF a
<1>3. a.body.kind = "info"
  BY DEF a
<1>4. ~Pictures(a, x.seen, x.request)
  BY <1>2, <1>3, PicturesOf
<1>5. Informs(a, x.seen, x.request)
  BY <1>1, <1>2, <1>3, <1>4 DEF Plain, Redirects
<1>6. PICK id : /\ InfoAt(x.request.at, id) /\ id \in DOMAIN x.seen
                /\ InfoAnswer(a, x.seen, x.request.at.prefix, id, x.request)
  BY <1>5, Zenon DEF Informs
<1>7. /\ a.tag = InfoTag(x.seen, x.request.at.prefix, id) /\ a.canonical = Nowhere
      /\ x.seen[id].opens = "yes" /\ a.body = Document(x.seen, x.request.at.prefix, id)
  BY <1>2, <1>6 DEF InfoAnswer
<1>. QED
  BY <1>6, <1>7 DEF a

(* The same of an image.                                                   *)
LEMMA HoldsImage ==
  ASSUME NEW x, Exchanged(x), x.answer.body.kind = "image"
  PROVE  \E id, q, p : /\ ImageAt(x.seen, x.request.at, id, q, p) /\ ~BeyondFormat(p)
                       /\ x.answer.tag = ImageTag(x.seen, x.request.at.prefix, id, q, p)
                       /\ x.answer.canonical = ImageLink(x.seen, x.request.at.prefix, id, q, p)
                       /\ x.answer.body = ImageBody(x.seen, id, p)
<1>. DEFINE a == x.answer
<1>1. \/ Plain(a) \/ Redirects(a, x.request.at) \/ Informs(a, x.seen, x.request)
      \/ Pictures(a, x.seen, x.request)
      \/ (x.request.method # "GET" /\ a.body.kind \notin {"image", "info"} /\ a.status # 303)
  BY HandleCases DEF Exchanged, Addressed
<1>2. a.body # NoBody
  BY DEF NoBody
<1>. HIDE DEF a
<1>3. a.body.kind = "image"
  BY DEF a
<1>4. ~Informs(a, x.seen, x.request)
  BY <1>2, <1>3, InformsOf
<1>5. Pictures(a, x.seen, x.request)
  BY <1>1, <1>2, <1>3, <1>4 DEF Plain, Redirects
<1>6. PICK id, q, p : /\ ImageAt(x.seen, x.request.at, id, q, p)
                      /\ ImageAnswer(a, x.seen, x.request.at.prefix, id, q, p, x.request)
  BY <1>5, Zenon DEF Pictures
<1>7. /\ a.tag = ImageTag(x.seen, x.request.at.prefix, id, q, p) /\ ~BeyondFormat(p)
      /\ a.canonical = ImageLink(x.seen, x.request.at.prefix, id, q, p)
      /\ a.body = ImageBody(x.seen, id, p)
  BY <1>2, <1>6 DEF ImageAnswer
<1>. QED
  BY <1>6, <1>7 DEF a

(* The last exchange.                                                      *)
LEMMA LatestIs ==
  ASSUME RespondIInv, history # <<>>
  PROVE  Exchanged(Latest)
<1>1. PICK S : history \in Seq(S)
  BY DEF RespondIInv
<1>2. Len(history) \in DOMAIN history
  BY <1>1
<1>. QED
  BY <1>2 DEF RespondIInv, Latest, Last

(* Each of the requests a client makes is for some place.                  *)
LEMMA AskedPlace ==
  ASSUME RespondIInv, NEW request, Addressed(request), Ask(request)
  PROVE  RespondIInv'
<1>1. masters' = masters /\ history' = history /\ asked' = request
  BY DEF Ask
<1>. QED
  BY <1>1 DEF RespondIInv, Rooted, Exchanged, Addressed

(* A GET of a place.                                                       *)
LEMMA GetAt == ASSUME NEW at \in Place, NEW tags PROVE Addressed(Get(at, tags))
BY DEF Get, Addressed

(* A master replaced by another is a master.                               *)
LEMMA Republished ==
  ASSUME NEW m \in Master, NEW v \in Nat \ {0}
  PROVE  [m EXCEPT !.version = v] \in Master
<1>. DEFINE T == [opens : {"yes", "unsupported", "corrupt", "limit"}, version : Nat \ {0},
                  w : Side, h : Side, tile : [w : Nat, h : Nat], levels : Seq(Level)]
            n == [m EXCEPT !.version = v]
<1>1. /\ m \in T /\ (\A i \in DOMAIN m.levels : m.levels[i].w <= m.w /\ m.levels[i].h <= m.h)
      /\ (m.tile.w = 0 <=> m.tile.h = 0)
  BY Zenon DEF Master
<1>2. n \in T /\ n.levels = m.levels /\ n.w = m.w /\ n.h = m.h /\ n.tile = m.tile
  BY <1>1
<1>. HIDE DEF n
<1>3. /\ \A i \in DOMAIN n.levels : n.levels[i].w <= n.w /\ n.levels[i].h <= n.h
      /\ n.tile.w = 0 <=> n.tile.h = 0
  BY <1>1, <1>2
<1>4. n \in Master
  BY <1>2, <1>3, Zenon DEF Master
<1>. QED
  BY <1>4 DEF n

(* The invariant holds at first.                                           *)
LEMMA RespondInit == Init => RespondIInv
<1>. SUFFICES ASSUME Init PROVE RespondIInv
  OBVIOUS
<1>1. masters = Masters /\ asked = Nothing /\ history = <<>>
  BY DEF Init
<1>2. Rooted(masters)
  BY <1>1, RespondAssumption DEF Rooted
<1>3. Addressed(asked)
  BY <1>1, NowhereIsPlace DEF Nothing, Addressed
<1>4. history \in Seq({}) /\ DOMAIN history = {}
  BY <1>1
<1>. QED
  BY <1>2, <1>3, <1>4 DEF RespondIInv

(* A request that opens a conversation.                                    *)
LEMMA FirstPlaced ==
  ASSUME NEW request \in FirstRequests
  PROVE  Addressed(request)
<1>1. /\ request.at \in [prefix : STRING, path : Seq(Seq(STRING))]
      /\ DOMAIN request = {"method", "at", "noneMatch"}
  BY RespondAssumption DEF Address, Request
<1>2. STRING \subseteq Lexeme
  BY DEF Lexeme
<1>. DEFINE path == request.at.path
<1>3. path \in Seq(Seq(STRING)) /\ request.at.prefix \in Lexeme
  BY <1>1, <1>2
<1>4. Seq(STRING) \subseteq Seq(Lexeme)
  BY <1>2, SeqMonotonic
<1>5. path \in Seq(Seq(Lexeme))
  <2>. DEFINE A == Seq(STRING)
              B == Seq(Lexeme)
  <2>1. path \in Seq(A) /\ A \subseteq B
    BY <1>3, <1>4
  <2>. HIDE DEF A, B, path
  <2>2. path \in Seq(B)
    BY <2>1, SeqMonotonic
  <2>. QED
    BY <2>2 DEF B
<1>6. request.at = [prefix |-> request.at.prefix, path |-> path]
  BY <1>1
<1>. HIDE DEF path
<1>7. [prefix |-> request.at.prefix, path |-> path] \in Place
  BY <1>3, <1>5 DEF Place
<1>. QED
  BY <1>1, <1>6, <1>7 DEF Addressed

(* Steps in which the client asks.                                         *)
LEMMA AskKeeps ==
  ASSUME RespondIInv, Begin \/ Retry \/ FollowRedirect \/ FollowCanonical \/ Respell \/ View
  PROVE  RespondIInv'
<1>1. CASE Begin
  <2>1. PICK request \in FirstRequests : Ask(request)
    BY <1>1 DEF Begin
  <2>. QED
    BY <2>1, FirstPlaced, AskedPlace
<1>2. CASE Retry
  <2>1. history # <<>> /\ Ask(Latest.request)
    BY <1>2 DEF Retry
  <2>2. Addressed(Latest.request)
    BY <2>1, LatestIs DEF Exchanged
  <2>. QED
    BY <2>1, <2>2, AskedPlace
<1>3. CASE FollowRedirect
  <2>1. history # <<>> /\ Latest.answer.status = 303 /\ Ask(Get(Latest.answer.location, {}))
    BY <1>3 DEF FollowRedirect
  <2>2. Exchanged(Latest)
    BY <2>1, LatestIs
  <2>3. Latest.answer.location \in Place
    BY <2>1, <2>2, HandleLeads DEF Exchanged, Addressed, Leads
  <2>. QED
    BY <2>1, <2>3, GetAt, AskedPlace
<1>4. CASE FollowCanonical
  <2>1. PICK tags : history # <<>> /\ Ask(Get(Latest.answer.canonical, tags))
    BY <1>4 DEF FollowCanonical
  <2>2. Exchanged(Latest)
    BY <2>1, LatestIs
  <2>3. Latest.answer.canonical \in Place
    BY <2>2, HandleLeads DEF Exchanged, Addressed, Leads
  <2>. QED
    BY <2>1, <2>3, GetAt, AskedPlace
<1>5. CASE Respell
  <2>1. history # <<>> /\ Latest.answer.body.kind = "image"
    BY <1>5 DEF Respell
  <2>2. PICK at \in Respelled(Latest.request.at) : Ask(Get(at, {Latest.answer.tag}))
    BY <1>5 DEF Respell
  <2>3. Exchanged(Latest)
    BY <2>1, LatestIs
  <2>4. PICK id, q, p : ImageAt(Latest.seen, Latest.request.at, id, q, p)
    BY <2>1, <2>3, HoldsImage
  <2>5. Latest.request.at \in Place /\ Len(Latest.request.at.path) = 5
    BY <2>3, <2>4 DEF Exchanged, Addressed, ImageAt
  <2>6. at \in Place
    BY <2>2, <2>5, RespelledPlaced
  <2>. QED
    BY <2>2, <2>6, GetAt, AskedPlace
<1>6. CASE View
  <2>1. history # <<>> /\ Latest.answer.body.kind = "info"
    BY <1>6 DEF View
  <2>2. PICK at \in Advertised(Latest.answer.body) : Ask(Get(at, {}))
    BY <1>6 DEF View
  <2>. DEFINE x == Latest
              root == x.seen
              api == x.request.at.prefix
              doc == x.answer.body
  <2>3. Exchanged(x)
    BY <2>1, LatestIs
  <2>. HIDE DEF x
  <2>4. PICK id : InfoAt(x.request.at, id) /\ id \in DOMAIN root /\ doc = Document(root, api, id)
    BY <2>1, <2>3, HoldsDocument DEF x
  <2>5. api \in {"v2", "v3"} /\ Identified(x.request.at.path[1], id)
    BY <2>4 DEF InfoAt
  <2>6. Encode(id) \in Seq(Lexeme) /\ root[id] \in Master
    BY <2>3, <2>4, <2>5, EncodedIdentifies DEF Exchanged, Rooted, Addressed
  <2>7. at \in Advertised(doc)
    BY <2>2 DEF x
  <2>. HIDE DEF root, api, doc
  <2>8. PICK r, w, h : OfferedAt(at, api, id, r, w, h)
    BY <2>4, <2>5, <2>6, <2>7, AdvertisedIs
  <2>9. at \in Place
    BY <2>8 DEF OfferedAt
  <2>. QED
    BY <2>2, <2>9, GetAt, AskedPlace
<1>. QED
  BY <1>1, <1>2, <1>3, <1>4, <1>5, <1>6

(* The step in which the request is answered.                              *)
LEMMA ExchangeKeeps == RespondIInv /\ Exchange => RespondIInv'
<1>. SUFFICES ASSUME RespondIInv, Exchange PROVE RespondIInv'
  OBVIOUS
<1>1. PICK fault \in Faults :
        history' = Append(history, [request |-> asked, fault |-> fault, seen |-> masters,
                                    answer |-> Handle(masters, asked, fault)])
  BY DEF Exchange
<1>2. asked' = Nothing /\ masters' = masters
  BY DEF Exchange
<1>. DEFINE x == [request |-> asked, fault |-> fault, seen |-> masters,
                  answer |-> Handle(masters, asked, fault)]
<1>3. Exchanged(x)
  BY DEF Exchanged, RespondIInv
<1>. HIDE DEF x
<1>4. history' = Append(history, x)
  BY <1>1 DEF x
<1>5. PICK S : history \in Seq(S)
  BY DEF RespondIInv
<1>6. \E T : history' \in Seq(T)
  <2>. DEFINE T == S \cup {x}
  <2>1. history \in Seq(T) /\ x \in T
    <3>1. S \subseteq T
      OBVIOUS
    <3>. QED
      BY <1>5, <3>1, SeqMonotonic
  <2>. HIDE DEF T
  <2>2. history' \in Seq(T)
    BY <1>4, <2>1
  <2>. QED
    BY <2>2
<1>7. \A i \in DOMAIN history' : Exchanged(history'[i])
  <2>1. \A i \in DOMAIN history' : history'[i] = x \/ (i \in DOMAIN history /\ history'[i] = history[i])
    BY <1>4, <1>5
  <2>. QED
    BY <1>3, <2>1 DEF RespondIInv
<1>8. (\A i \in DOMAIN history : Exchanged(history[i]))'
  BY <1>7 DEF Exchanged, Rooted, Addressed
<1>9. Addressed(asked')
  BY <1>2, NowhereIsPlace DEF Nothing, Addressed
<1>10. Rooted(masters)'
  BY <1>2 DEF RespondIInv, Rooted
<1>. QED
  BY <1>6, <1>8, <1>9, <1>10 DEF RespondIInv, Addressed

(* The step in which a master is replaced: the exchanges keep the root     *)
(* they saw.                                                               *)
LEMMA ReplaceKeeps == RespondIInv /\ Replace => RespondIInv'
<1>. SUFFICES ASSUME RespondIInv, Replace PROVE RespondIInv'
  OBVIOUS
<1>1. PICK id \in DOMAIN masters, master \in Replacements :
        masters' = [masters EXCEPT ![id] = [master EXCEPT !.version = masters[id].version + 1]]
  BY DEF Replace
<1>2. asked' = asked /\ history' = history
  BY DEF Replace
<1>. DEFINE new == [master EXCEPT !.version = masters[id].version + 1]
<1>3. new \in Master
  <2>1. masters[id].version + 1 \in Nat \ {0}
    <3>1. masters[id] \in Master
      BY <1>1 DEF RespondIInv, Rooted
    <3>2. masters[id].version \in Nat
      BY <3>1, MasterHas
    <3>. QED
      BY <3>2
  <2>2. master \in Master
    BY <1>1, RespondAssumption
  <2>. QED
    BY <2>1, <2>2, Republished
<1>. HIDE DEF new
<1>4. masters' = [masters EXCEPT ![id] = new]
  BY <1>1 DEF new
<1>5. Rooted(masters')
  BY <1>3, <1>4 DEF RespondIInv, Rooted
<1>. QED
  BY <1>2, <1>5 DEF RespondIInv, Rooted, Exchanged, Addressed

(* Every step keeps the invariant.                                         *)
LEMMA RespondStep == RespondIInv /\ [Next]_vars => RespondIInv'
<1>. SUFFICES ASSUME RespondIInv, [Next]_vars PROVE RespondIInv'
  OBVIOUS
<1>1. CASE Begin \/ Retry \/ FollowRedirect \/ FollowCanonical \/ Respell \/ View
  BY <1>1, AskKeeps
<1>2. CASE Exchange
  BY <1>2, ExchangeKeeps
<1>3. CASE Replace
  BY <1>3, ReplaceKeeps
<1>4. CASE UNCHANGED vars
  BY <1>4 DEF vars, RespondIInv, Rooted, Exchanged, Addressed
<1>. QED
  BY <1>1, <1>2, <1>3, <1>4 DEF Next

----------------------------------------------------------------------------

(* An answer that redirects.                                               *)
LEMMA HoldsRedirect ==
  ASSUME NEW x, Exchanged(x), x.answer.status = 303
  PROVE  Redirects(x.answer, x.request.at)
<1>. DEFINE a == x.answer
<1>1. \/ Plain(a) \/ Redirects(a, x.request.at) \/ Informs(a, x.seen, x.request)
      \/ Pictures(a, x.seen, x.request)
      \/ (x.request.method # "GET" /\ a.body.kind \notin {"image", "info"} /\ a.status # 303)
  BY HandleCases DEF Exchanged, Addressed
<1>. HIDE DEF a
<1>2. a.status = 303
  BY DEF a
<1>3. ~Plain(a)
  BY <1>2 DEF Plain
<1>4. ~Informs(a, x.seen, x.request)
  BY <1>2 DEF Informs, InfoAnswer
<1>5. ~Pictures(a, x.seen, x.request)
  BY <1>2 DEF Pictures, ImageAnswer
<1>. QED
  BY <1>1, <1>2, <1>3, <1>4, <1>5 DEF a

(* A 303 names the identifier it was asked for, encoded.                   *)
LEMMA RedirectsWell == RespondIInv => RedirectReachesInfo
<1>. SUFFICES ASSUME RespondIInv, NEW i \in DOMAIN history, NEW j \in DOMAIN history,
                     history[i].answer.status = 303,
                     history[j].request.at = history[i].answer.location
              PROVE  LET from == history[i].request.at
                         to == history[j].request.at
                     IN  /\ Route(to.prefix, to.path) = "info"
                         /\ to.prefix = from.prefix
                         /\ Decode(to.path[1]) = Decode(from.path[1])
  BY DEF RedirectReachesInfo
<1>. DEFINE from == history[i].request.at
            to == history[j].request.at
<1>1. Redirects(history[i].answer, from)
  BY HoldsRedirect DEF RespondIInv
<1>2. PICK id : /\ from.prefix \in {"v2", "v3"} /\ Identified(from.path[1], id)
                /\ to = [prefix |-> from.prefix, path |-> <<Encode(id), <<"info.json">>>>]
  BY <1>1 DEF Redirects
<1>. HIDE DEF from, to
<1>3. Decode(Encode(id)) = {id} /\ Decode(from.path[1]) = {id}
  BY <1>2, EncodedIdentifies DEF Identified
<1>4. /\ to.prefix = from.prefix /\ Len(to.path) = 2
      /\ to.path[1] = Encode(id) /\ to.path[2] = <<"info.json">>
  BY <1>2
<1>5. Route(to.prefix, to.path) = "info"
  BY <1>2, <1>4 DEF Route
<1>. QED
  BY <1>3, <1>4, <1>5 DEF from, to

(* Route::BaseRedirect: a 303 leads to the info.json of the very           *)
(* identifier that was asked for, in the same version of the API, however  *)
(* it was escaped: what Identifier::encoded writes, decode reads back.     *)
THEOREM RedirectIsRight == Spec => []RedirectReachesInfo
<1>. QED
  BY RespondInit, RespondStep, RedirectsWell, PTL DEF Spec

(* Either copy of an image comes with one link, read back as one plan.     *)
LEMMA LinksWell == RespondIInv => CanonicalLinkIsSame
<1>. SUFFICES ASSUME RespondIInv, NEW i \in DOMAIN history, NEW j \in DOMAIN history, Later(i, j),
                     history[i].answer.canonical.prefix = "v3",
                     history[i].answer.body.kind = "image",
                     history[j].request.method = "GET",
                     history[j].request.at = history[i].answer.canonical
              PROVE  LET first == history[i].answer
                         again == history[j].answer
                         wanted == history[j].request
                     IN  /\ again.tag = first.tag
                         /\ IF Hits(wanted, first.tag)
                            THEN again.status = 304
                            ELSE /\ again.status = 200
                                 /\ again.body = first.body
                                 /\ again.canonical = first.canonical
  BY DEF CanonicalLinkIsSame
<1>. DEFINE first == history[i].answer
            again == history[j].answer
            wanted == history[j].request
            root == history[i].seen
            at == history[i].request.at
<1>1. Exchanged(history[i]) /\ Exchanged(history[j])
  BY DEF RespondIInv
<1>2. root = history[j].seen /\ again = Handle(root, wanted, "none")
  BY <1>1 DEF Later, Exchanged
<1>3. PICK id, q, p : /\ ImageAt(root, at, id, q, p) /\ ~BeyondFormat(p)
                      /\ first.tag = ImageTag(root, at.prefix, id, q, p)
                      /\ first.canonical = ImageLink(root, at.prefix, id, q, p)
                      /\ first.body = ImageBody(root, id, p)
  BY <1>1, HoldsImage
<1>. HIDE DEF root
<1>4. wanted.method = "GET" /\ wanted.at = first.canonical /\ first.canonical.prefix = "v3"
  OBVIOUS
<1>. HIDE DEF first, again, wanted, at
<1>5. at.prefix = "v3"
  BY <1>3, <1>4 DEF ImageLink
<1>6. Imaged(root, "v3", at.path[1], Tail(at.path), id, q, p)
  BY <1>3, <1>5 DEF ImageAt
<1>7. PICK u : /\ ImageAt(root, ImageLink(root, "v3", id, q, p), id, u, p)
               /\ ImageTag(root, "v3", id, u, p) = ImageTag(root, "v3", id, q, p)
               /\ ImageLink(root, "v3", id, u, p) = ImageLink(root, "v3", id, q, p)
  BY <1>6, LinkImaged
<1>8. ImageAt(root, wanted.at, id, u, p) /\ wanted.at.prefix = "v3"
  BY <1>3, <1>4, <1>5, <1>7
<1>9. ImageAnswer(again, root, "v3", id, u, p, wanted)
  BY <1>2, <1>3, <1>4, <1>8, GetImage
<1>10. again.tag = first.tag
  BY <1>3, <1>5, <1>7, <1>9 DEF ImageAnswer
<1>11. \/ again.status = 304 /\ Hits(wanted, again.tag)
       \/ /\ again.status = 200 /\ ~Hits(wanted, again.tag)
          /\ again.canonical = first.canonical /\ again.body = first.body
  BY <1>3, <1>5, <1>7, <1>9 DEF ImageAnswer
<1>. QED
  BY <1>10, <1>11 DEF first, again, wanted

(* App::image and Plan::canonical_path: the canonical link of any v3 image *)
(* leads to the same image, under the same tag and with itself as the      *)
(* link; a client that sends the tag along is answered 304.                *)
THEOREM CanonicalLinkIsRight == Spec => []CanonicalLinkIsSame
<1>. QED
  BY RespondInit, RespondStep, LinksWell, PTL DEF Spec

(* What a tag tells: the kind, and of a document where it is.              *)
LEMMA InfoTagTells ==
  ASSUME NEW root, NEW api, NEW id, NEW other, NEW key, InfoTag(root, api, id) = InfoTag(root, other, key)
  PROVE  api = other /\ id = key
<1>. DEFINE t == InfoTag(root, api, id)
            u == InfoTag(root, other, key)
<1>1. t.id = id /\ t.path[1] = <<api>> /\ u.id = key /\ u.path[1] = <<other>>
  BY DEF InfoTag, ETag
<1>2. t = u
  OBVIOUS
<1>. HIDE DEF t, u
<1>3. id = key /\ <<api>> = <<other>>
  BY <1>1, <1>2
<1>. QED
  BY <1>3

(* The parts of the tag of an image.                                       *)
LEMMA ImageTagHas ==
  ASSUME NEW root, NEW api, NEW id, NEW q, NEW p, IsPlan(p, q, root[id])
  PROVE  /\ ImageTag(root, api, id, q, p).id = id
         /\ ImageTag(root, api, id, q, p).version = root[id].version
         /\ IsPath(ImageTag(root, api, id, q, p).path, api, p, q, root[id])
<1>. DEFINE path == CanonicalPath(api, p, q, root[id])
<1>1. IsPath(path, api, p, q, root[id])
  BY PathIs
<1>. HIDE DEF path
<1>2. ImageTag(root, api, id, q, p) = [id |-> id, version |-> root[id].version, path |-> path]
  BY DEF ImageTag, ETag, path
<1>. QED
  BY <1>1, <1>2

(* An image has no tag of a document.                                      *)
LEMMA KindsOfTag ==
  ASSUME NEW root, NEW api, NEW id, NEW q, NEW p, IsPlan(p, q, root[id]), NEW other, NEW key
  PROVE  ImageTag(root, api, id, q, p) # InfoTag(root, other, key)
<1>1. Len(ImageTag(root, api, id, q, p).path) = 4
  BY ImageTagHas DEF IsPath
<1>2. Len(InfoTag(root, other, key).path) = 2
  BY DEF InfoTag, ETag
<1>. QED
  BY <1>1, <1>2

(* The same request without its condition.                                 *)
LEMMA Afresh ==
  ASSUME NEW request, Addressed(request)
  PROVE  LET fresh == [request EXCEPT !.noneMatch = {}]
         IN  /\ fresh.method = request.method /\ fresh.at = request.at
             /\ \A tag : ~Hits(fresh, tag)
<1>. DEFINE fresh == [request EXCEPT !.noneMatch = {}]
<1>1. fresh.method = request.method /\ fresh.at = request.at /\ fresh.noneMatch = {}
  BY DEF Addressed
<1>. HIDE DEF fresh
<1>2. \A tag : ~Hits(fresh, tag)
  BY <1>1 DEF Hits
<1>. QED
  BY <1>1, <1>2 DEF fresh

(* Where a request is addressed to, by the tag it was answered with.       *)
InfoOf(root, at, tag) ==
  \E id : InfoAt(at, id) /\ id \in DOMAIN root /\ tag = InfoTag(root, at.prefix, id)

(* The same of an image.                                                   *)
ImageOf(root, at, tag) ==
  \E id, q, p : ImageAt(root, at, id, q, p) /\ tag = ImageTag(root, at.prefix, id, q, p)

(* A 304 to a GET confirms a document or an image.                         *)
LEMMA Confirms ==
  ASSUME NEW x, Exchanged(x), x.request.method = "GET", x.answer.status = 304
  PROVE  /\ Hits(x.request, x.answer.tag)
         /\ \/ InfoOf(x.seen, x.request.at, x.answer.tag)
            \/ ImageOf(x.seen, x.request.at, x.answer.tag)
<1>. DEFINE a == x.answer
<1>1. \/ Plain(a) \/ Redirects(a, x.request.at) \/ Informs(a, x.seen, x.request)
      \/ Pictures(a, x.seen, x.request)
      \/ (x.request.method # "GET" /\ a.body.kind \notin {"image", "info"} /\ a.status # 303)
  BY HandleCases DEF Exchanged, Addressed
<1>. HIDE DEF a
<1>2. a.status = 304 /\ x.request.method = "GET"
  BY DEF a
<1>3. ~Plain(a) /\ ~Redirects(a, x.request.at)
  BY <1>2 DEF Plain, Redirects
<1>4. CASE Informs(a, x.seen, x.request)
  <2>1. PICK id : /\ InfoAt(x.request.at, id) /\ id \in DOMAIN x.seen
                  /\ InfoAnswer(a, x.seen, x.request.at.prefix, id, x.request)
    BY <1>4, Zenon DEF Informs
  <2>2. a.tag = InfoTag(x.seen, x.request.at.prefix, id) /\ Hits(x.request, a.tag)
    BY <1>2, <2>1 DEF InfoAnswer
  <2>3. InfoOf(x.seen, x.request.at, a.tag)
    BY <2>1, <2>2, Zenon DEF InfoOf
  <2>. QED
    BY <2>2, <2>3 DEF a
<1>5. CASE Pictures(a, x.seen, x.request)
  <2>1. PICK id, q, p : /\ ImageAt(x.seen, x.request.at, id, q, p)
                        /\ ImageAnswer(a, x.seen, x.request.at.prefix, id, q, p, x.request)
    BY <1>5, Zenon DEF Pictures
  <2>2. a.tag = ImageTag(x.seen, x.request.at.prefix, id, q, p) /\ Hits(x.request, a.tag)
    BY <1>2, <2>1 DEF ImageAnswer
  <2>3. ImageOf(x.seen, x.request.at, a.tag)
    <3>. DEFINE root == x.seen
                at == x.request.at
                tag == a.tag
    <3>1. ImageAt(root, at, id, q, p) /\ tag = ImageTag(root, at.prefix, id, q, p)
      BY <2>1, <2>2
    <3>. HIDE DEF root, at, tag
    <3>2. ImageOf(root, at, tag)
      BY <3>1 DEF ImageOf
    <3>. QED
      BY <3>2 DEF root, at, tag
  <2>. QED
    BY <2>2, <2>3 DEF a
<1>. QED
  BY <1>1, <1>2, <1>3, <1>4, <1>5

(* A tag of a master is not the one for any.                               *)
LEMMA OnlyHit ==
  ASSUME NEW request, NEW tag, request.noneMatch = {tag}, tag.version # 0, NEW other, Hits(request, other)
  PROVE  other = tag
<1>1. AnyTag.version = 0
  BY DEF AnyTag, NoTag
<1>. HIDE DEF AnyTag
<1>2. {tag} # {AnyTag}
  BY <1>1
<1>. QED
  BY <1>2 DEF Hits

(* The tag of a v2 image of a size `w,`.                                   *)
ByWidth(tag) == Last(tag.path[2]) = ","

(* Requests answered with one tag are for one document, or for one image.  *)
LEMMA DocumentAgain ==
  ASSUME NEW root, NEW api, NEW id, NEW tag, tag = InfoTag(root, api, id), NEW at,
         InfoOf(root, at, tag) \/ ImageOf(root, at, tag)
  PROVE  InfoAt(at, id) /\ at.prefix = api
<1>1. CASE InfoOf(root, at, tag)
  <2>1. PICK k : InfoAt(at, k) /\ tag = InfoTag(root, at.prefix, k)
    BY <1>1 DEF InfoOf
  <2>2. InfoTag(root, at.prefix, k) = InfoTag(root, api, id)
    BY <2>1
  <2>3. at.prefix = api /\ k = id
    BY <2>2, InfoTagTells
  <2>. QED
    BY <2>1, <2>3
<1>2. CASE ImageOf(root, at, tag)
  <2>1. PICK k, u, v : ImageAt(root, at, k, u, v) /\ tag = ImageTag(root, at.prefix, k, u, v)
    BY <1>2 DEF ImageOf
  <2>2. IsPlan(v, u, root[k])
    BY <2>1 DEF ImageAt, Imaged
  <2>3. ImageTag(root, at.prefix, k, u, v) # InfoTag(root, api, id)
    BY <2>2, KindsOfTag
  <2>. QED
    BY <2>1, <2>3
<1>. QED
  BY <1>1, <1>2

(* Only the `w,` of v2 stands for more than one plan.                      *)
LEMMA ImageAgain ==
  ASSUME NEW root, NEW api, NEW id, NEW q, NEW p, IsPlan(p, q, root[id]), PlainMax(api, q),
         NEW tag, tag = ImageTag(root, api, id, q, p), ~ByWidth(tag), NEW at,
         InfoOf(root, at, tag) \/ ImageOf(root, at, tag)
  PROVE  \E u : ImageAt(root, at, id, u, p)
<1>1. CASE InfoOf(root, at, tag)
  <2>1. PICK k : tag = InfoTag(root, at.prefix, k)
    BY <1>1 DEF InfoOf
  <2>2. ImageTag(root, api, id, q, p) # InfoTag(root, at.prefix, k)
    BY KindsOfTag
  <2>. QED
    BY <2>1, <2>2
<1>2. CASE ImageOf(root, at, tag)
  <2>1. PICK k, u, v : ImageAt(root, at, k, u, v) /\ tag = ImageTag(root, at.prefix, k, u, v)
    BY <1>2 DEF ImageOf
  <2>. DEFINE other == at.prefix
              path == tag.path
              m == root[id]
  <2>2. IsPlan(v, u, root[k]) /\ PlainMax(other, u)
    BY <2>1 DEF ImageAt, Imaged
  <2>3. tag.id = k /\ IsPath(path, other, v, u, root[k])
    <3>. DEFINE t == ImageTag(root, other, k, u, v)
    <3>1. t.id = k /\ IsPath(t.path, other, v, u, root[k])
      BY <2>2, ImageTagHas
    <3>. HIDE DEF t
    <3>. QED
      BY <2>1, <3>1 DEF t
  <2>4. tag.id = id /\ IsPath(path, api, p, q, m)
    <3>. DEFINE t == ImageTag(root, api, id, q, p)
    <3>1. t.id = id /\ IsPath(t.path, api, p, q, root[id])
      BY ImageTagHas
    <3>. HIDE DEF t
    <3>. QED
      BY <3>1 DEF t
  <2>5. IsPlan(p, q, m) /\ IsPlan(v, u, m) /\ IsPath(path, other, v, u, m)
    BY <2>2, <2>3, <2>4
  <2>6. Last(path[2]) # ","
    BY DEF ByWidth
  <2>. HIDE DEF path, m, other
  <2>7. p = v
    BY <2>2, <2>4, <2>5, <2>6, SamePath
  <2>. QED
    BY <2>1, <2>3, <2>4, <2>7
<1>. QED
  BY <1>1, <1>2

(* A confirmed copy of a document is what asking afresh would bring.       *)
LEMMA DocumentStands ==
  ASSUME NEW x, Exchanged(x), NEW y, Exchanged(y), y.seen = x.seen,
         x.answer.body.kind = "info",
         y.request.method = "GET", y.request.noneMatch = {x.answer.tag}, y.answer.status = 304
  PROVE  SameCopy(x.answer, Handle(y.seen, [y.request EXCEPT !.noneMatch = {}], "none"))
<1>. DEFINE root == x.seen
            i == x.request.at.prefix
            j == y.request.at.prefix
            fresh == [y.request EXCEPT !.noneMatch = {}]
            again == Handle(root, fresh, "none")
<1>1. PICK id : /\ id \in DOMAIN root /\ root[id].opens = "yes" /\ x.answer.tag = InfoTag(root, i, id)
                /\ x.answer.body = Document(root, i, id)
  BY HoldsDocument
<1>2. x.answer.tag.version # 0
  <2>1. root[id] \in Master
    BY <1>1 DEF Exchanged, Rooted
  <2>2. root[id].version # 0
    BY <2>1, MasterHas
  <2>3. x.answer.tag.version = root[id].version
    BY <1>1 DEF InfoTag, ETag
  <2>. QED
    BY <2>2, <2>3
<1>3. y.answer.tag = x.answer.tag
  BY <1>2, Confirms, OnlyHit
<1>4. InfoAt(y.request.at, id) /\ j = i
  <2>1. InfoOf(root, y.request.at, x.answer.tag) \/ ImageOf(root, y.request.at, x.answer.tag)
    BY <1>3, Confirms
  <2>2. x.answer.tag = InfoTag(root, i, id)
    BY <1>1
  <2>. QED
    BY <2>1, <2>2, DocumentAgain
<1>5. fresh.method = "GET" /\ fresh.at = y.request.at /\ \A tag : ~Hits(fresh, tag)
  BY Afresh DEF Exchanged
<1>. HIDE DEF fresh
<1>6. InfoAnswer(again, root, fresh.at.prefix, id, fresh)
  BY <1>1, <1>4, <1>5, GetInfo
<1>7. again.status = 200 /\ again.body = Document(root, i, id)
  BY <1>4, <1>5, <1>6 DEF InfoAnswer
<1>8. SameCopy(x.answer, again)
  BY <1>1, <1>7 DEF SameCopy
<1>. QED
  BY <1>8 DEF fresh

(* And so is one of an image.                                              *)
LEMMA ImageStands ==
  ASSUME NEW x, Exchanged(x), NEW y, Exchanged(y), y.seen = x.seen,
         x.answer.body.kind = "image", ~ByWidth(x.answer.tag),
         y.request.method = "GET", y.request.noneMatch = {x.answer.tag}, y.answer.status = 304
  PROVE  SameCopy(x.answer, Handle(y.seen, [y.request EXCEPT !.noneMatch = {}], "none"))
<1>. DEFINE root == x.seen
            first == x.answer
            tag == first.tag
<1>0. /\ root = y.seen /\ first = x.answer /\ tag = first.tag /\ ~ByWidth(tag)
      /\ y.request.noneMatch = {tag}
  OBVIOUS
<1>1. PICK id, q, p : /\ ImageAt(root, x.request.at, id, q, p) /\ ~BeyondFormat(p)
                      /\ tag = ImageTag(root, x.request.at.prefix, id, q, p)
                      /\ first.body = ImageBody(root, id, p)
  <2>1. \E id, q, p : /\ ImageAt(x.seen, x.request.at, id, q, p) /\ ~BeyondFormat(p)
                      /\ x.answer.tag = ImageTag(x.seen, x.request.at.prefix, id, q, p)
                      /\ x.answer.canonical = ImageLink(x.seen, x.request.at.prefix, id, q, p)
                      /\ x.answer.body = ImageBody(x.seen, id, p)
    BY HoldsImage
  <2>. QED
    BY <2>1
<1>00. Exchanged(x) /\ x.seen = root
  OBVIOUS
<1>. HIDE DEF root, first, tag
<1>. DEFINE i == x.request.at.prefix
<1>. HIDE DEF i
<1>2. id \in DOMAIN root /\ IsPlan(p, q, root[id]) /\ PlainMax(i, q) /\ tag = ImageTag(root, i, id, q, p)
  BY <1>1 DEF ImageAt, Imaged, i
<1>3. tag.version = root[id].version
  <2>1. ImageTag(root, i, id, q, p).version = root[id].version
    BY <1>2, ImageTagHas
  <2>. QED
    BY <1>2, <2>1
<1>4. tag.version # 0
  <2>1. root[id] \in Master
    BY <1>00, <1>2 DEF Exchanged, Rooted
  <2>2. root[id].version # 0
    BY <2>1, MasterHas
  <2>. QED
    BY <1>3, <2>2
<1>5. y.answer.tag = tag
  <2>. DEFINE other == y.answer.tag
              request == y.request
  <2>1. Hits(request, other) /\ request.noneMatch = {tag}
    BY <1>0, Confirms
  <2>. HIDE DEF other, request
  <2>2. other = tag
    BY ONLY <1>4, <2>1, OnlyHit
  <2>. QED
    BY <2>2 DEF other
<1>6. PICK u : ImageAt(root, y.request.at, id, u, p)
  <2>1. InfoOf(root, y.request.at, tag) \/ ImageOf(root, y.request.at, tag)
    <3>1. InfoOf(y.seen, y.request.at, y.answer.tag) \/ ImageOf(y.seen, y.request.at, y.answer.tag)
      BY Confirms
    <3>. QED
      BY <1>0, <1>5, <3>1
  <2>2. tag = ImageTag(root, i, id, q, p) /\ ~ByWidth(tag)
    BY <1>0, <1>2
  <2>. QED
    BY ONLY <1>2, <2>1, <2>2, ImageAgain
<1>. DEFINE fresh == [y.request EXCEPT !.noneMatch = {}]
            again == Handle(root, fresh, "none")
<1>7. fresh.method = "GET" /\ fresh.at = y.request.at /\ \A t : ~Hits(fresh, t)
  BY Afresh DEF Exchanged
<1>. HIDE DEF fresh
<1>8. ImageAnswer(again, root, fresh.at.prefix, id, u, p, fresh)
  BY <1>1, <1>6, <1>7, GetImage
<1>9. again.status = 200 /\ again.body = ImageBody(root, id, p)
  BY <1>7, <1>8 DEF ImageAnswer
<1>10. SameCopy(first, again)
  BY <1>1, <1>9 DEF SameCopy
<1>. QED
  BY <1>0, <1>10 DEF fresh

(* A tag that was hit names the document or the plan it came with.         *)
LEMMA CopiesStand == RespondIInv => NotModifiedStandsForOk
<1>. SUFFICES ASSUME RespondIInv, NEW i \in DOMAIN history, NEW j \in DOMAIN history, Later(i, j),
                     history[i].answer.body.kind \in {"image", "info"},
                     history[j].request.noneMatch = {history[i].answer.tag},
                     history[j].request.method = "GET", history[j].answer.status = 304,
                     ~(history[i].answer.body.kind = "image" /\ ByWidth(history[i].answer.tag))
              PROVE  SameCopy(history[i].answer,
                              Handle(history[j].seen, [history[j].request EXCEPT !.noneMatch = {}], "none"))
  BY ZenonT(40) DEF NotModifiedStandsForOk, ByWidth
<1>1. Exchanged(history[i]) /\ Exchanged(history[j]) /\ history[j].seen = history[i].seen
  BY DEF RespondIInv, Later
<1>2. CASE history[i].answer.body.kind = "info"
  BY <1>1, <1>2, DocumentStands
<1>3. CASE history[i].answer.body.kind = "image"
  BY <1>1, <1>3, ImageStands
<1>. QED
  BY <1>2, <1>3

(* App::info_json and App::image, if_none_match_hits: with the root as it  *)
(* was, a 304 stands for the 200 that asking afresh would bring, whatever  *)
(* spelling and version of the API it is asked for in.                     *)
THEOREM NotModifiedIsRight == Spec => []NotModifiedStandsForOk
<1>. QED
  BY RespondInit, RespondStep, CopiesStand, PTL DEF Spec

(* What is listed is read back as offered, planned and served.             *)
LEMMA AdvertisedWell == RespondIInv => AdvertisedIsServed
<1>. SUFFICES ASSUME RespondIInv, NEW i \in DOMAIN history, NEW j \in DOMAIN history, Later(i, j),
                     history[i].answer.body.kind = "info",
                     history[j].request.method = "GET", history[j].request.noneMatch = {},
                     history[j].request.at \in Advertised(history[i].answer.body),
                     NEW a, a = IntegerOf[history[j].request.at.path[3][1]],
                     NEW b, b = IntegerOf[history[j].request.at.path[3][3]],
                     a <= history[i].answer.body.limits.w, b <= history[i].answer.body.limits.h,
                     a * b <= history[i].answer.body.limits.area
              PROVE  /\ history[j].answer.status = 200
                     /\ history[j].answer.body.plan.w = a
                     /\ history[j].answer.body.plan.h = b
  BY SMTT(30) DEF AdvertisedIsServed
<1>. DEFINE doc == history[i].answer.body
            wanted == history[j].request
            answer == history[j].answer
            root == history[i].seen
            api == history[i].request.at.prefix
            at == wanted.at
<1>1. Exchanged(history[i]) /\ Exchanged(history[j])
  BY DEF RespondIInv
<1>2. Rooted(root) /\ answer = Handle(root, wanted, "none")
  BY <1>1 DEF Later, Exchanged
<1>3. PICK id : InfoAt(history[i].request.at, id) /\ id \in DOMAIN root /\ root[id].opens = "yes"
                /\ doc = Document(root, api, id)
  BY <1>1, HoldsDocument
<1>4. api \in {"v2", "v3"} /\ Identified(history[i].request.at.path[1], id)
  BY <1>3 DEF InfoAt
<1>5. at \in Advertised(doc) /\ a = IntegerOf[at.path[3][1]] /\ b = IntegerOf[at.path[3][3]]
      /\ a <= doc.limits.w /\ b <= doc.limits.h /\ a * b <= doc.limits.area
      /\ wanted.method = "GET" /\ wanted.noneMatch = {}
  OBVIOUS
<1>. DEFINE raw == history[i].request.at.path[1]
<1>. HIDE DEF doc, wanted, answer, root, api, raw
<1>6. Encode(id) \in Seq(Lexeme) /\ root[id] \in Master
  BY <1>2, <1>3, <1>4, EncodedIdentifies DEF Rooted, raw
<1>7. PICK r, w, h : Offered(root[id], r, w, h) /\ OfferedAt(at, api, id, r, w, h)
  BY <1>3, <1>4, <1>5, <1>6, AdvertisedIs
<1>8. a = w /\ b = h
  <2>1. at.path[3] = Written2(w, h)
    BY <1>7 DEF OfferedAt
  <2>2. w \in Nat /\ Readable(w) /\ h \in Nat /\ Readable(h)
    BY <1>7 DEF Offered
  <2>3. Written2(w, h)[1] = Written[100 * w] /\ Written2(w, h)[3] = Written[100 * h]
    BY DEF Written2
  <2>4. IntegerOf[Written[100 * w]] = w /\ IntegerOf[Written[100 * h]] = h
    BY <2>2, ReadBack
  <2>. QED
    BY <1>5, <2>1, <2>3, <2>4
<1>9. w <= Limits.w /\ h <= Limits.h /\ w * h <= Limits.area
  <2>1. doc.limits = Limits
    BY <1>3 DEF Document
  <2>. QED
    BY <1>5, <1>8, <2>1
<1>10. Identified(raw, id)
  BY <1>4 DEF raw
<1>. HIDE DEF at
<1>11. PICK q, p : ImageAt(root, at, id, q, p) /\ p.w = w /\ p.h = h /\ ~BeyondFormat(p)
  BY <1>3, <1>4, <1>6, <1>7, <1>9, <1>10, OfferedImage
<1>12. ImageAnswer(answer, root, at.prefix, id, q, p, wanted)
  BY <1>2, <1>5, <1>11, GetImage DEF at
<1>13. \A tag : ~Hits(wanted, tag)
  BY <1>5 DEF Hits
<1>14. answer.status = 200 /\ answer.body = ImageBody(root, id, p)
  BY <1>12, <1>13 DEF ImageAnswer
<1>15. answer.body.plan = p
  BY <1>14 DEF ImageBody
<1>. QED
  BY <1>8, <1>11, <1>14, <1>15 DEF answer

(* describe() and App::image: within the limits it publishes, each size    *)
(* and each tile that an info.json lists is answered by an image of just   *)
(* that size.                                                              *)
THEOREM AdvertisedIsRight == Spec => []AdvertisedIsServed
<1>. QED
  BY RespondInit, RespondStep, AdvertisedWell, PTL DEF Spec
=============================================================================
