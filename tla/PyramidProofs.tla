---------------------------- MODULE PyramidProofs --------------------------
(***************************************************************************)
(* For masters of any size, tiling and number of levels: a crop maps into  *)
(* the level it is read from, and the tiles put together are that region.  *)
(* For pyramids made as pyramids are, the level chosen also has the detail *)
(* the output asks for, an advertised tile is one tile of it, and the      *)
(* whole image is the whole level unless a level is thin.                  *)
(***************************************************************************)
EXTENDS Pyramid, Extrema, TLAPS

(* Arithmetic the provers do not have: what `^` is.                        *)
PowersOfTwo == /\ 2 ^ 0 = 1
               /\ \A k \in Nat : 2 ^ (k + 1) = 2 * 2 ^ k

Phases == {"closed", "refused", "open", "copying", "decoded"}

(* A rectangle r of level l.                                               *)
Placed(r, l) ==
  /\ r.x \in 0..(l.w - 1) /\ r.w \in 1..(l.w - r.x)
  /\ r.y \in 0..(l.h - 1) /\ r.h \in 1..(l.h - r.y)

(* The tile of level l that holds pixel p of region r, and the tiles done  *)
(* before t, row by row.                                                   *)
Column(p, r, l) == (r.x + p[1]) \div l.tw
Row(p, r, l) == (r.y + p[2]) \div l.th

Done(p, t, r, l) == \/ Row(p, r, l) < t.row
                    \/ Row(p, r, l) = t.row /\ Column(p, r, l) < t.col

(* The decoder stands at level l.                                          *)
StandsAt(l) == l = master.ifds[at]

(* The decoder stands where the program thinks, and while tiles are copied *)
(* it stands at the chosen level.                                          *)
Standing == /\ master \in Masters
            /\ phase \in Phases
            /\ {current, level} \subseteq DOMAIN master.ifds
            /\ at = current
            /\ phase = "copying" => at = level

Mapped == Decoding => crop \in Crops /\ Placed(region, master.ifds[level])

(* The pixels of the tiles done so far are in place.                       *)
Copied ==
  phase = "copying" =>
    LET l == master.ifds[level]
    IN  /\ tile.col \in Columns(region, l) /\ tile.row \in Rows(region, l)
        /\ out = [p \in Pixels(region.w, region.h) |-> out[p]]
        /\ \A p \in Pixels(region.w, region.h) :
             Done(p, tile, region, l) => out[p] = <<level, region.x + p[1], region.y + p[2]>>

IInv == /\ Standing
        /\ Mapped
        /\ Copied
        /\ phase = "decoded" => out = LevelPixels(level, region)

----------------------------------------------------------------------------
(* What the assumption on masters says of one of them.                     *)
LEMMA MasterShape ==
  ASSUME NEW m \in Masters
  PROVE  /\ m.kind \in {"tiff", "jp2", "simple"}
         /\ Len(m.ifds) \in Nat \ {0} /\ DOMAIN m.ifds = 1..Len(m.ifds)
         /\ \A i \in DOMAIN m.ifds : m.ifds[i] \in Level
         /\ m.kind = "simple" => Len(m.ifds) = 1
<1>1. m.ifds \in Seq(Level) /\ m.ifds # <<>>
  BY PyramidAssumption
<1>. QED
  BY <1>1, PyramidAssumption

(* The covering interval lies in the level, whatever the factor.           *)
LEMMA CoverInside ==
  ASSUME NEW first \in Nat, NEW count \in Nat, NEW f \in Nat \ {0}, NEW size \in Nat \ {0}
  PROVE  LET c == Cover(first, count, f, size)
         IN  c.from \in 0..(size - 1) /\ Max({1, c.to - c.from}) \in 1..(size - c.from)
<1>. DEFINE from == first \div f
            to == CeilDiv(first + count, f)
            c == Cover(first, count, f, size)
<1>1. from \in Nat
  BY Quotient
<1>2. to \in Nat
  <2>1. first + count + f - 1 \in Nat
    OBVIOUS
  <2>. QED
    BY <2>1, Quotient DEF CeilDiv
<1>. HIDE DEF from, to
<1>3. /\ Min({from, size - 1}) = IF from <= size - 1 THEN from ELSE size - 1
      /\ Min({to, size}) = IF to <= size THEN to ELSE size
  BY <1>1, <1>2, MinOfTwo
<1>4. c.from = Min({from, size - 1}) /\ c.to = Min({to, size})
  BY DEF Cover, from, to
<1>. HIDE DEF c
<1>5. c.from \in 0..(size - 1) /\ c.to \in Int /\ c.to <= size
  BY <1>1, <1>2, <1>3, <1>4
<1>6. Max({1, c.to - c.from}) = IF 1 >= c.to - c.from THEN 1 ELSE c.to - c.from
  BY <1>5, MaxOfTwo
<1>7. Max({1, c.to - c.from}) \in 1..(size - c.from)
  BY <1>5, <1>6
<1>. QED
  BY <1>5, <1>7 DEF c

(* The covering interval of a wavelet decode: a ladder rounds up.          *)
LEMMA LadderInside ==
  ASSUME NEW first \in Nat, NEW count \in Nat \ {0}, NEW d \in Nat \ {0}, NEW size \in Nat,
         first + count <= size
  PROVE  /\ first \div d \in 0..(CeilDiv(size, d) - 1)
         /\ CeilDiv(first + count, d) - first \div d \in 1..(CeilDiv(size, d) - first \div d)
<1>. DEFINE a == first \div d
            b == (first + count + d - 1) \div d
            c == (size + d - 1) \div d
<1>1. a \in Nat /\ a * d <= first /\ first < a * d + d
  BY Quotient
<1>2. first + count + d - 1 \in Nat /\ size + d - 1 \in Nat /\ first + count + d - 1 <= size + d - 1
  OBVIOUS
<1>3. b \in Nat /\ b * d <= first + count + d - 1 /\ first + count + d - 1 < b * d + d
  BY <1>2, Quotient
<1>4. c \in Nat /\ b <= c
  BY <1>2, Quotient, QuotientGrows
<1>. HIDE DEF a, b, c
<1>5. a < b
  <2>. SUFFICES ASSUME b <= a PROVE FALSE
    BY <1>1, <1>3
  <2>1. b * d <= a * d
    BY <1>1, <1>3
  <2>. QED
    BY <1>1, <1>3, <2>1
<1>. QED
  BY <1>1, <1>3, <1>4, <1>5 DEF CeilDiv, a, b, c

(* Powers of two are positive and grow, counting up.                       *)
LEMMA PowersGrow ==
  ASSUME PowersOfTwo
  PROVE  /\ \A k \in Nat : 2 ^ k \in Nat \ {0}
         /\ \A j, k \in Nat : j <= k => 2 ^ j <= 2 ^ k
<1>. DEFINE positive == {k \in Nat : 2 ^ k \in Nat \ {0}}
            above == {k \in Nat : \A j \in 0..k : 2 ^ j <= 2 ^ k}
<1>1. 0 \in positive /\ \A k \in Nat : k \in positive => k + 1 \in positive
  BY DEF PowersOfTwo
<1>2. \A k \in Nat : 2 ^ k \in Nat \ {0}
  <2>1. \A k \in Nat : k \in positive
    <3>. HIDE DEF positive
    <3>. QED
      BY <1>1, CountingUp
  <2>. QED
    BY <2>1
<1>3. 0 \in above /\ \A k \in Nat : k \in above => k + 1 \in above
  <2>1. 0 \in above
    <3>1. 2 ^ 0 = 1 /\ \A j \in 0..0 : j = 0
      BY DEF PowersOfTwo
    <3>2. \A j \in 0..0 : 2 ^ j <= 2 ^ 0
      BY <3>1
    <3>. QED
      BY <3>2
  <2>2. ASSUME NEW k \in Nat, k \in above
        PROVE  k + 1 \in above
    <3>1. 2 ^ (k + 1) = 2 * 2 ^ k /\ 2 ^ k \in Nat /\ 2 ^ (k + 1) \in Nat
      BY <1>2 DEF PowersOfTwo
    <3>2. \A j \in 0..(k + 1) : j = k + 1 \/ (j \in 0..k /\ 2 ^ j \in Nat)
      BY <1>2
    <3>3. \A j \in 0..k : 2 ^ j <= 2 ^ k
      BY <2>2
    <3>4. \A j \in 0..(k + 1) : 2 ^ j <= 2 ^ (k + 1)
      BY <3>1, <3>2, <3>3
    <3>. QED
      BY <3>4
  <2>. QED
    BY <2>1, <2>2
<1>4. \A k \in Nat : k \in above
  <2>. HIDE DEF above
  <2>. QED
    BY <1>3, CountingUp
<1>. QED
  BY <1>2, <1>4

(* No level has the factor 0, so that dividing by it is safe.              *)
LEMMA ScaleFactorPositive ==
  ASSUME PowersOfTwo, master \in Masters, NEW i \in DOMAIN master.ifds
  PROVE  ScaleFactor(i) \in Nat \ {0}
<1>1. CASE master.kind = "jp2"
  <2>1. i - 1 \in Nat
    BY MasterShape
  <2>. QED
    BY <1>1, <2>1, PowersGrow DEF ScaleFactor
<1>2. CASE master.kind # "jp2"
  <2>1. Full.w \in Nat \ {0} /\ master.ifds[i].w \in Nat \ {0}
    BY MasterShape DEF Full, Level
  <2>2. 2 * Full.w + master.ifds[i].w \in Nat /\ 2 * master.ifds[i].w \in Nat \ {0}
    BY <2>1
  <2>3. Round(Full.w, master.ifds[i].w) \in Nat
    BY <2>2, Quotient DEF Round
  <2>4. Max({1, Round(Full.w, master.ifds[i].w)}) \in Nat \ {0}
    BY <2>3, MaxOfTwo
  <2>. QED
    BY <1>2, <2>4 DEF ScaleFactor
<1>. QED
  BY <1>1, <1>2

(* Of the levels with one property there is a coarsest one.                *)
LEMMA CoarsestExists ==
  ASSUME PowersOfTwo, master \in Masters, NEW S, S \subseteq DOMAIN master.ifds, S # {},
         NEW n \in Nat, \A i \in S : ScaleFactor(i) <= n
  PROVE  LET k == Max({i \in S : \A j \in S : ScaleFactor(j) <= ScaleFactor(i)})
         IN  k \in S /\ \A j \in S : ScaleFactor(j) <= ScaleFactor(k)
<1>. DEFINE factors == {ScaleFactor(i) : i \in S}
            coarsest == {i \in S : \A j \in S : ScaleFactor(j) <= ScaleFactor(i)}
<1>1. \A i \in S : ScaleFactor(i) \in Nat
  BY ScaleFactorPositive
<1>2. factors \subseteq 0..n /\ factors # {}
  BY <1>1
<1>3. Max(factors) \in factors /\ \A f \in factors : f <= Max(factors)
  <2>. HIDE DEF factors
  <2>. QED
    BY <1>2, GreatestElement
<1>4. PICK i \in S : ScaleFactor(i) = Max(factors)
  BY <1>3
<1>5. coarsest # {}
  BY <1>3, <1>4
<1>6. coarsest \subseteq 0..Len(master.ifds) /\ Len(master.ifds) \in Nat
  BY MasterShape
<1>7. Max(coarsest) \in coarsest
  <2>. HIDE DEF coarsest
  <2>. QED
    BY <1>5, <1>6, GreatestElement
<1>. QED
  BY <1>7

(* The width ratio never exceeds the full width.                           *)
LEMMA RoundAtMost ==
  ASSUME NEW n \in Nat \ {0}, NEW d \in Nat \ {0}
  PROVE  Round(n, d) <= n
<1>. DEFINE q == Round(n, d)
<1>1. 2 * n + d \in Nat /\ 2 * d \in Nat \ {0}
  OBVIOUS
<1>2. q \in Nat /\ q * (2 * d) <= 2 * n + d
  BY <1>1, Quotient DEF Round
<1>. HIDE DEF q
<1>3. SUFFICES ASSUME q >= n + 1 PROVE FALSE
  BY <1>2 DEF q
<1>4. (n + 1) * (2 * d) <= q * (2 * d)
  BY <1>1, <1>2, <1>3
<1>5. (n + 1) * (2 * d) = 2 * (n * d) + 2 * d /\ n * d >= n /\ n * d \in Nat
  OBVIOUS
<1>. QED
  BY <1>2, <1>4, <1>5

(* level_for_scale picks one of the coarsest levels that have the detail.  *)
LEMMA LevelChosen ==
  ASSUME PowersOfTwo, master \in Masters, master.kind = "tiff", NEW c, NEW ow
  PROVE  LET k == LevelForScale(c, ow)
         IN  /\ k \in DOMAIN master.ifds /\ (ScaleFactor(k) = 1 \/ ScaleFactor(k) * ow <= c.w)
             /\ \A i \in DOMAIN master.ifds : ScaleFactor(i) = 1 \/ ScaleFactor(i) * ow <= c.w
                                             => ScaleFactor(i) <= ScaleFactor(k)
<1>. DEFINE enough == {i \in DOMAIN master.ifds : ScaleFactor(i) = 1 \/ ScaleFactor(i) * ow <= c.w}
<1>1. Full.w \in Nat \ {0}
  BY MasterShape DEF Full, Level
<1>2. ASSUME NEW i \in DOMAIN master.ifds PROVE ScaleFactor(i) <= Full.w
  <2>1. master.ifds[i].w \in Nat \ {0}
    BY MasterShape DEF Level
  <2>2. 2 * Full.w + master.ifds[i].w \in Nat /\ 2 * master.ifds[i].w \in Nat \ {0}
    BY <1>1, <2>1
  <2>3. Round(Full.w, master.ifds[i].w) \in Nat
    BY <2>2, Quotient DEF Round
  <2>4. Round(Full.w, master.ifds[i].w) <= Full.w
    BY <1>1, <2>1, RoundAtMost
  <2>. QED
    BY <1>1, <2>3, <2>4, MaxOfTwo DEF ScaleFactor
<1>3. 1 \in enough
  <2>1. 1 \in DOMAIN master.ifds
    BY MasterShape
  <2>2. ScaleFactor(1) = 1
    <3>1. (2 * Full.w + Full.w) \div (2 * Full.w) = 1
      <4>1. 2 * Full.w + Full.w \in Nat /\ 2 * Full.w \in Nat \ {0}
        BY <1>1
      <4>. QED
        BY <1>1, <4>1, QuotientIs
    <3>. QED
      BY <3>1, MaxOfTwo DEF ScaleFactor, Round, Full
  <2>. QED
    BY <2>1, <2>2
<1>4. enough \subseteq DOMAIN master.ifds /\ enough # {} /\ \A i \in enough : ScaleFactor(i) <= Full.w
  BY <1>2, <1>3
<1>5. LevelForScale(c, ow) = Max({i \in enough : \A j \in enough : ScaleFactor(j) <= ScaleFactor(i)})
  BY DEF LevelForScale
<1>. HIDE DEF enough
<1>6. LevelForScale(c, ow) \in enough
      /\ \A j \in enough : ScaleFactor(j) <= ScaleFactor(LevelForScale(c, ow))
  BY <1>1, <1>4, <1>5, CoarsestExists
<1>. QED
  BY <1>6 DEF enough

(* The rung of the wavelet ladder that is picked exists.                   *)
LEMMA LadderChosen ==
  ASSUME master \in Masters, NEW c, NEW ow
  PROVE  LevelsFor(c, ow) \in DOMAIN master.ifds
<1>. DEFINE S == {1} \cup {i \in DOMAIN master.ifds : ScaleFactor(i) * ow <= c.w}
<1>1. S \subseteq 0..Len(master.ifds) /\ S # {} /\ S \subseteq DOMAIN master.ifds
  BY MasterShape
<1>2. Len(master.ifds) \in Nat
  BY MasterShape
<1>3. LevelsFor(c, ow) = Max(S)
  BY DEF LevelsFor
<1>. HIDE DEF S
<1>. QED
  BY <1>1, <1>2, <1>3, GreatestElement

(* Where a decode puts its region.                                         *)
LEMMA CropIsInside ==
  ASSUME master \in Masters, NEW c \in Crops
  PROVE  /\ c.x \in Nat /\ c.y \in Nat /\ c.w \in Nat \ {0} /\ c.h \in Nat \ {0}
         /\ Full.w \in Nat /\ Full.h \in Nat
         /\ c.x + c.w <= Full.w /\ c.y + c.h <= Full.h
<1>1. Full.w \in Nat \ {0} /\ Full.h \in Nat \ {0}
  BY MasterShape DEF Full, Level
<1>. QED
  BY <1>1 DEF Crops

(* A crop mapped to a TIFF level lies in it.                               *)
LEMMA MapCropPlaced ==
  ASSUME PowersOfTwo, master \in Masters, NEW c \in Crops, NEW i \in DOMAIN master.ifds
  PROVE  Placed(MapCrop(c, i), master.ifds[i])
<1>. DEFINE l == master.ifds[i]
            xs == Cover(c.x, c.w, ScaleFactor(i), l.w)
            ys == Cover(c.y, c.h, ScaleFactor(i), l.h)
<1>1. l.w \in Nat \ {0} /\ l.h \in Nat \ {0} /\ ScaleFactor(i) \in Nat \ {0}
  BY MasterShape, ScaleFactorPositive DEF Level
<1>2. /\ xs.from \in 0..(l.w - 1) /\ Max({1, xs.to - xs.from}) \in 1..(l.w - xs.from)
      /\ ys.from \in 0..(l.h - 1) /\ Max({1, ys.to - ys.from}) \in 1..(l.h - ys.from)
  BY <1>1, CropIsInside, CoverInside
<1>3. MapCrop(c, i) = [x |-> xs.from, y |-> ys.from, w |-> Max({1, xs.to - xs.from}),
                       h |-> Max({1, ys.to - ys.from})]
  BY DEF MapCrop
<1>. HIDE DEF xs, ys, l
<1>4. Placed(MapCrop(c, i), l)
  BY <1>2, <1>3 DEF Placed
<1>. QED
  BY <1>4 DEF l

(* A crop mapped to a wavelet level lies in it.                            *)
LEMMA WaveletPlaced ==
  ASSUME PowersOfTwo, master \in Masters, master.kind = "jp2",
         NEW c \in Crops, NEW i \in DOMAIN master.ifds
  PROVE  Placed(ScaledCoveringPow2(c, ScaleFactor(i)), master.ifds[i])
<1>. DEFINE d == ScaleFactor(i)
<1>1. d \in Nat \ {0}
  BY ScaleFactorPositive
<1>2. master.ifds[i].w = CeilDiv(Full.w, d) /\ master.ifds[i].h = CeilDiv(Full.h, d)
  BY PyramidAssumption DEF ScaleFactor, Full
<1>. HIDE DEF d
<1>3. /\ c.x \div d \in 0..(CeilDiv(Full.w, d) - 1)
      /\ CeilDiv(c.x + c.w, d) - c.x \div d \in 1..(CeilDiv(Full.w, d) - c.x \div d)
      /\ c.y \div d \in 0..(CeilDiv(Full.h, d) - 1)
      /\ CeilDiv(c.y + c.h, d) - c.y \div d \in 1..(CeilDiv(Full.h, d) - c.y \div d)
  BY <1>1, CropIsInside, LadderInside
<1>4. Placed(ScaledCoveringPow2(c, d), master.ifds[i])
  BY <1>2, <1>3 DEF Placed, ScaledCoveringPow2
<1>. QED
  BY <1>4 DEF d

----------------------------------------------------------------------------
(* One axis of a tile's copy: the k-th tile begins at from, and meets the  *)
(* region [first, first + count) from near up to far.                      *)
Meets(first, count, size, step, k, from, near, far) ==
  /\ first \in Nat /\ count \in Nat \ {0} /\ size \in Nat /\ first + count <= size
  /\ step \in Nat \ {0} /\ k \in Nat
  /\ from = k * step
  /\ near = Max({first, from})
  /\ far = Min({first + count, from + Min({step, size - from})})

(* The pixels in between are those of the tile.                            *)
LEMMA OverlapIsTile ==
  ASSUME NEW first, NEW count, NEW size, NEW step, NEW k, NEW from, NEW near, NEW far,
         Meets(first, count, size, step, k, from, near, far), NEW q \in 0..(count - 1)
  PROVE  /\ q \in (near - first)..(far - first - 1) <=> (first + q) \div step = k
         /\ from + (near - from) + (q - (near - first)) = first + q
<1>. DEFINE length == Min({step, size - from})
<1>0. /\ first \in Nat /\ count \in Nat \ {0} /\ size \in Nat /\ first + count <= size
      /\ step \in Nat \ {0} /\ k \in Nat
      /\ from = k * step
      /\ near = Max({first, from})
      /\ far = Min({first + count, from + length})
  BY DEF Meets
<1>1. from \in Nat
  BY <1>0
<1>2. (first + q) \div step = k <=> from <= first + q /\ first + q < from + step
  <2>1. first + q \in Nat
    BY <1>0
  <2>2. (first + q) \div step = k <=> k * step <= first + q /\ first + q < k * step + step
    BY <1>0, <2>1, QuotientIs
  <2>. QED
    BY <1>0, <2>2
<1>3. length = IF step <= size - from THEN step ELSE size - from
  BY <1>0, <1>1, MinOfTwo
<1>. HIDE DEF length
<1>4. near = IF first >= from THEN first ELSE from
  BY <1>0, <1>1, MaxOfTwo
<1>5. far = IF first + count <= from + length THEN first + count ELSE from + length
  BY <1>0, <1>1, <1>3, MinOfTwo
<1>6. q \in (near - first)..(far - first - 1) <=> (first + q) \div step = k
  BY <1>0, <1>1, <1>2, <1>3, <1>4, <1>5
<1>7. from + (near - from) + (q - (near - first)) = first + q
  BY <1>0, <1>1, <1>4
<1>. QED
  BY <1>6, <1>7

(* Row and column come back out of the index of a tile.                    *)
LEMMA IndexTaken ==
  ASSUME NEW row \in Nat, NEW across \in Nat \ {0}, NEW col \in 0..(across - 1)
  PROVE  /\ (row * across + col) \div across = row
         /\ (row * across + col) % across = col
<1>. DEFINE n == row * across + col
<1>1. row * across \in Nat
  BY Product
<1>2. n \in Nat
  BY <1>1
<1>3. row * across <= n /\ n < row * across + across
  BY <1>1
<1>. HIDE DEF n
<1>4. n \div across = row
  BY <1>2, <1>3, QuotientIs
<1>5. n % across = n - across * (n \div across)
  BY <1>2
<1>6. across * row = row * across
  OBVIOUS
<1>7. n % across = n - row * across
  BY <1>4, <1>5, <1>6
<1>8. n % across = col
  BY <1>1, <1>7 DEF n
<1>. QED
  BY <1>4, <1>8 DEF n

(* The tiles that begin inside a level are those of its columns.           *)
LEMMA ColumnBelowAcross ==
  ASSUME NEW l \in Level, NEW x \in 0..(l.w - 1)
  PROVE  x \div l.tw \in 0..(TilesAcross(l) - 1) /\ TilesAcross(l) \in Nat \ {0}
<1>1. l.w \in Nat \ {0} /\ l.tw \in Nat \ {0}
  BY DEF Level
<1>2. x \in Nat /\ x + l.tw \in Nat /\ l.w + l.tw - 1 \in Nat /\ x + l.tw <= l.w + l.tw - 1
  BY <1>1
<1>3. (x + l.tw) \div l.tw <= (l.w + l.tw - 1) \div l.tw
  BY <1>1, <1>2, QuotientGrows
<1>4. x \div l.tw \in Nat
  BY <1>1, <1>2, Quotient
<1>5. /\ (x \div l.tw) * l.tw <= x /\ x < (x \div l.tw) * l.tw + l.tw
      /\ (x \div l.tw) * l.tw \in Nat
  BY <1>1, <1>2, <1>4, QuotientIs, Product
<1>6. (x \div l.tw + 1) * l.tw = (x \div l.tw) * l.tw + l.tw
  BY <1>1, <1>4
<1>7. (x + l.tw) \div l.tw = x \div l.tw + 1
  <2>1. x \div l.tw + 1 \in Nat
    BY <1>4
  <2>2. /\ (x \div l.tw + 1) * l.tw <= x + l.tw
        /\ x + l.tw < (x \div l.tw + 1) * l.tw + l.tw
    BY <1>1, <1>2, <1>5, <1>6
  <2>. QED
    BY <1>1, <1>2, <2>1, <2>2, QuotientIs
<1>8. TilesAcross(l) \in Nat /\ x \div l.tw + 1 <= TilesAcross(l)
  <2>1. (l.w + l.tw - 1) \div l.tw \in Nat
    BY <1>1, <1>2, Quotient
  <2>. QED
    BY <1>3, <1>7, <2>1 DEF TilesAcross, CeilDiv
<1>. QED
  BY <1>4, <1>8

(* Where the decoder stands at the level, the index of a tile reads that   *)
(* tile.                                                                   *)
LEMMA ChunkIsTile ==
  ASSUME NEW l \in Level, StandsAt(l), NEW t, t.row \in Nat,
         t.col \in 0..(TilesAcross(l) - 1), TilesAcross(l) \in Nat \ {0}
  PROVE  Chunk(TileIndex(t, l), at) =
           [x |-> t.col * l.tw, y |-> t.row * l.th,
            w |-> Min({l.tw, l.w - t.col * l.tw}), h |-> Min({l.th, l.h - t.row * l.th})]
<1>1. /\ (t.row * TilesAcross(l) + t.col) \div TilesAcross(l) = t.row
      /\ (t.row * TilesAcross(l) + t.col) % TilesAcross(l) = t.col
  BY IndexTaken
<1>2. /\ TileIndex(t, l) \div CeilDiv(master.ifds[at].w, master.ifds[at].tw) = t.row
      /\ TileIndex(t, l) % CeilDiv(master.ifds[at].w, master.ifds[at].tw) = t.col
  BY <1>1 DEF TileIndex, TilesAcross, StandsAt
<1>. QED
  BY <1>2 DEF Chunk, StandsAt

(* A blit writes the pixels of its tile, each where it belongs, and leaves *)
(* the others alone.                                                       *)
LEMMA BlitWritesTile ==
  ASSUME NEW r, NEW l \in Level, StandsAt(l), Placed(r, l),
         NEW t, t.col \in Columns(r, l), t.row \in Nat,
         out = [p \in Pixels(r.w, r.h) |-> out[p]]
  PROVE  Blit(t, l, r) =
           [p \in Pixels(r.w, r.h) |->
              IF Column(p, r, l) = t.col /\ Row(p, r, l) = t.row
              THEN <<at, r.x + p[1], r.y + p[2]>> ELSE out[p]]
<1>. DEFINE data == Chunk(TileIndex(t, l), at)
            tileLeft == t.col * l.tw
            tileTop == t.row * l.th
            left == Max({r.x, tileLeft})
            top == Max({r.y, tileTop})
            right == Min({r.x + r.w, tileLeft + data.w})
            bottom == Min({r.y + r.h, tileTop + data.h})
<1>1. /\ l.w \in Nat \ {0} /\ l.h \in Nat \ {0} /\ l.tw \in Nat \ {0} /\ l.th \in Nat \ {0}
  BY DEF Level
<1>2. /\ r.x \in Nat /\ r.w \in Nat \ {0} /\ r.x + r.w <= l.w
      /\ r.y \in Nat /\ r.h \in Nat \ {0} /\ r.y + r.h <= l.h
  BY <1>1 DEF Placed
<1>3. t.col \in Nat /\ t.col \in 0..(TilesAcross(l) - 1) /\ TilesAcross(l) \in Nat \ {0}
  <2>1. r.x \in 0..(l.w - 1) /\ r.x + r.w - 1 \in 0..(l.w - 1)
    BY <1>1, <1>2
  <2>2. /\ r.x \div l.tw \in 0..(TilesAcross(l) - 1)
        /\ (r.x + r.w - 1) \div l.tw \in 0..(TilesAcross(l) - 1)
        /\ TilesAcross(l) \in Nat \ {0}
    BY <2>1, ColumnBelowAcross
  <2>. QED
    BY <2>2 DEF Columns
<1>4. /\ data.x = tileLeft /\ data.w = Min({l.tw, l.w - tileLeft})
      /\ data.y = tileTop /\ data.h = Min({l.th, l.h - tileTop})
  <2>1. data = [x |-> tileLeft, y |-> tileTop,
                w |-> Min({l.tw, l.w - tileLeft}), h |-> Min({l.th, l.h - tileTop})]
    BY <1>3, ChunkIsTile
  <2>. HIDE DEF data, tileLeft, tileTop
  <2>. QED
    BY <2>1
<1>5. Blit(t, l, r) =
        [p \in DOMAIN out |->
           IF p[1] \in (left - r.x)..(right - r.x - 1) /\ p[2] \in (top - r.y)..(bottom - r.y - 1)
           THEN <<at, data.x + (left - tileLeft) + (p[1] - (left - r.x)),
                      data.y + (top - tileTop) + (p[2] - (top - r.y))>>
           ELSE out[p]]
  BY DEF Blit
<1>6. /\ tileLeft = t.col * l.tw /\ tileTop = t.row * l.th
      /\ left = Max({r.x, tileLeft}) /\ right = Min({r.x + r.w, tileLeft + data.w})
      /\ top = Max({r.y, tileTop}) /\ bottom = Min({r.y + r.h, tileTop + data.h})
  OBVIOUS
<1>. HIDE DEF left, top, right, bottom, tileLeft, tileTop, data
<1>7. ASSUME NEW p \in Pixels(r.w, r.h)
      PROVE  /\ p[1] \in (left - r.x)..(right - r.x - 1) <=> Column(p, r, l) = t.col
             /\ data.x + (left - tileLeft) + (p[1] - (left - r.x)) = r.x + p[1]
             /\ p[2] \in (top - r.y)..(bottom - r.y - 1) <=> Row(p, r, l) = t.row
             /\ data.y + (top - tileTop) + (p[2] - (top - r.y)) = r.y + p[2]
  <2>1. p[1] \in 0..(r.w - 1) /\ p[2] \in 0..(r.h - 1)
    BY DEF Pixels
  <2>2. Meets(r.x, r.w, l.w, l.tw, t.col, tileLeft, left, right)
    <3>1. t.col \in Nat
      BY <1>3
    <3>. QED
      BY <1>1, <1>2, <1>4, <1>6, <3>1 DEF Meets
  <2>3. Meets(r.y, r.h, l.h, l.th, t.row, tileTop, top, bottom)
    BY <1>1, <1>2, <1>4, <1>6 DEF Meets
  <2>4. /\ p[1] \in (left - r.x)..(right - r.x - 1) <=> (r.x + p[1]) \div l.tw = t.col
        /\ tileLeft + (left - tileLeft) + (p[1] - (left - r.x)) = r.x + p[1]
    BY <2>1, <2>2, OverlapIsTile
  <2>5. /\ p[2] \in (top - r.y)..(bottom - r.y - 1) <=> (r.y + p[2]) \div l.th = t.row
        /\ tileTop + (top - tileTop) + (p[2] - (top - r.y)) = r.y + p[2]
    BY <2>1, <2>3, OverlapIsTile
  <2>. QED
    BY <1>4, <2>4, <2>5 DEF Column, Row
<1>8. DOMAIN out = Pixels(r.w, r.h)
  OBVIOUS
<1>. QED
  BY <1>5, <1>7, <1>8

(* Tiles of a region that lies in its level: their numbers and ends.       *)
LEMMA TileRange ==
  ASSUME NEW r, NEW l \in Level, Placed(r, l)
  PROVE  /\ r.x \div l.tw \in Nat /\ (r.x + r.w - 1) \div l.tw \in Nat
         /\ Min(Columns(r, l)) = r.x \div l.tw /\ Max(Columns(r, l)) = (r.x + r.w - 1) \div l.tw
         /\ r.y \div l.th \in Nat /\ (r.y + r.h - 1) \div l.th \in Nat
         /\ Min(Rows(r, l)) = r.y \div l.th /\ Max(Rows(r, l)) = (r.y + r.h - 1) \div l.th
         /\ Min(Columns(r, l)) \in Columns(r, l) /\ Min(Rows(r, l)) \in Rows(r, l)
         /\ \A p \in Pixels(r.w, r.h) : Column(p, r, l) \in Columns(r, l) /\ Row(p, r, l) \in Rows(r, l)
<1>1. /\ l.w \in Nat \ {0} /\ l.h \in Nat \ {0} /\ l.tw \in Nat \ {0} /\ l.th \in Nat \ {0}
  BY DEF Level
<1>2. /\ r.x \in Nat /\ r.x + r.w - 1 \in Nat /\ r.x <= r.x + r.w - 1
      /\ r.y \in Nat /\ r.y + r.h - 1 \in Nat /\ r.y <= r.y + r.h - 1
  BY <1>1 DEF Placed
<1>3. /\ r.x \div l.tw \in Nat /\ (r.x + r.w - 1) \div l.tw \in Nat
      /\ r.y \div l.th \in Nat /\ (r.y + r.h - 1) \div l.th \in Nat
  BY <1>1, <1>2, Quotient
<1>4. /\ r.x \div l.tw <= (r.x + r.w - 1) \div l.tw
      /\ r.y \div l.th <= (r.y + r.h - 1) \div l.th
  BY <1>1, <1>2, QuotientGrows
<1>5. /\ Min(Columns(r, l)) = r.x \div l.tw /\ Max(Columns(r, l)) = (r.x + r.w - 1) \div l.tw
      /\ Min(Rows(r, l)) = r.y \div l.th /\ Max(Rows(r, l)) = (r.y + r.h - 1) \div l.th
  BY <1>3, <1>4, EndsOfInterval DEF Columns, Rows
<1>6. Min(Columns(r, l)) \in Columns(r, l) /\ Min(Rows(r, l)) \in Rows(r, l)
  BY <1>3, <1>4, <1>5 DEF Columns, Rows
<1>7. ASSUME NEW p \in Pixels(r.w, r.h)
      PROVE  Column(p, r, l) \in Columns(r, l) /\ Row(p, r, l) \in Rows(r, l)
  <2>1. p[1] \in 0..(r.w - 1) /\ p[2] \in 0..(r.h - 1)
    BY DEF Pixels
  <2>2. /\ r.x + p[1] \in Nat /\ r.x <= r.x + p[1] /\ r.x + p[1] <= r.x + r.w - 1
        /\ r.y + p[2] \in Nat /\ r.y <= r.y + p[2] /\ r.y + p[2] <= r.y + r.h - 1
    BY <1>1, <2>1 DEF Placed
  <2>3. /\ r.x \div l.tw <= (r.x + p[1]) \div l.tw
        /\ (r.x + p[1]) \div l.tw <= (r.x + r.w - 1) \div l.tw
        /\ r.y \div l.th <= (r.y + p[2]) \div l.th
        /\ (r.y + p[2]) \div l.th <= (r.y + r.h - 1) \div l.th
    BY <1>1, <1>2, <2>2, QuotientGrows
  <2>4. (r.x + p[1]) \div l.tw \in Nat /\ (r.y + p[2]) \div l.th \in Nat
    BY <1>1, <2>2, Quotient
  <2>. QED
    BY <1>3, <2>3, <2>4 DEF Column, Row, Columns, Rows
<1>. QED
  BY <1>3, <1>5, <1>6, <1>7

----------------------------------------------------------------------------
(* No master is open: nothing to place.                                    *)
LEMMA InitIInv == Init => IInv
<1>. SUFFICES ASSUME Init PROVE IInv
  OBVIOUS
<1>1. 1 \in DOMAIN master.ifds
  BY MasterShape DEF Init
<1>. QED
  BY <1>1 DEF Init, IInv, Standing, Mapped, Copied, Decoding, Phases

(* A survey leaves the decoder at an IFD the master has.                   *)
LEMMA OpenIInv == IInv /\ Open => IInv'
<1>. SUFFICES ASSUME IInv, Open PROVE IInv'
  OBVIOUS
<1>1. Len(master.ifds) \in DOMAIN master.ifds
  BY MasterShape DEF IInv, Standing
<1>. QED
  BY <1>1 DEF Open, IInv, Standing, Mapped, Copied, Decoding, Phases

(* A refused master starts no decode.                                       *)
LEMMA RefuseIInv == IInv /\ Refuse => IInv'
BY DEF Refuse, IInv, Standing, Mapped, Copied, Decoding, Phases

(* A decode that ends, well or not, drops its raster.                      *)
LEMMA ForgetIInv == IInv /\ Forget => IInv'
<1>. SUFFICES ASSUME IInv, Forget PROVE IInv'
  OBVIOUS
<1>1. 1 \in DOMAIN master.ifds
  BY MasterShape DEF IInv, Standing
<1>. QED
  BY <1>1 DEF Forget, IInv, Standing, Mapped, Copied, Decoding, Phases

(* The first tile of a decode: no tile comes before it.                    *)
LEMMA DecodeTilesIInv ==
  ASSUME PowersOfTwo, IInv, NEW c \in Crops, NEW ow, DecodeTiles(c, ow)
  PROVE  IInv'
<1>. DEFINE i == LevelForScale(c, ow)
            r == MapCrop(c, i)
            l == master.ifds[i]
<1>1. master \in Masters /\ master.kind = "tiff" /\ master' = master
  BY DEF DecodeTiles, Asked, IInv, Standing
<1>2. i \in DOMAIN master.ifds
  BY <1>1, LevelChosen
<1>3. Placed(r, l)
  BY <1>1, <1>2, MapCropPlaced
<1>4. l \in Level
  BY <1>1, <1>2, MasterShape
<1>5. /\ level' = i /\ region' = r /\ crop' = c /\ phase' = "copying"
      /\ tile' = [col |-> Min(Columns(r, l)), row |-> Min(Rows(r, l))]
      /\ out' = Blank(r) /\ current' = i /\ at' = IF current # i THEN i ELSE at
  BY <1>1 DEF DecodeTiles, Asked, Seek
<1>. HIDE DEF i, r, l
<1>6. at' = i
  BY <1>5 DEF IInv, Standing
<1>7. c \in Crops'
  BY <1>1 DEF Crops, Full
<1>8. l = master'.ifds[level']
  BY <1>1, <1>5 DEF l
<1>9. Standing' /\ Mapped'
  BY <1>1, <1>2, <1>3, <1>5, <1>6, <1>7, <1>8 DEF Standing, Mapped, Decoding, Phases
<1>10. /\ Min(Columns(r, l)) \in Columns(r, l) /\ Min(Rows(r, l)) \in Rows(r, l)
       /\ \A p \in Pixels(r.w, r.h) : ~Done(p, tile', r, l)
  <2>1. /\ Min(Columns(r, l)) = r.x \div l.tw /\ Min(Rows(r, l)) = r.y \div l.th
        /\ r.x \div l.tw \in Nat /\ r.y \div l.th \in Nat
        /\ (r.x + r.w - 1) \div l.tw \in Nat /\ (r.y + r.h - 1) \div l.th \in Nat
        /\ Min(Columns(r, l)) \in Columns(r, l) /\ Min(Rows(r, l)) \in Rows(r, l)
    BY <1>3, <1>4, TileRange
  <2>2. ASSUME NEW p \in Pixels(r.w, r.h)
        PROVE  Column(p, r, l) \in Nat /\ Column(p, r, l) >= r.x \div l.tw
               /\ Row(p, r, l) \in Nat /\ Row(p, r, l) >= r.y \div l.th
    <3>1. Column(p, r, l) \in Columns(r, l) /\ Row(p, r, l) \in Rows(r, l)
      BY <1>3, <1>4, TileRange
    <3>. QED
      BY <2>1, <3>1 DEF Columns, Rows
  <2>. QED
    BY <1>5, <2>1, <2>2 DEF Done
<1>11. out' = [p \in Pixels(r.w, r.h) |-> out'[p]]
  BY <1>5 DEF Blank
<1>12. Copied'
  BY <1>5, <1>8, <1>10, <1>11 DEF Copied
<1>. QED
  BY <1>5, <1>9, <1>12 DEF IInv

(* The wavelet decoder returns the whole region at once.                   *)
LEMMA DecodeWaveletIInv ==
  ASSUME PowersOfTwo, IInv, phase = "open", NEW c \in Crops, NEW ow, DecodeWavelet(c, ow)
  PROVE  IInv'
<1>1. master \in Masters /\ master.kind = "jp2" /\ master' = master
  BY DEF DecodeWavelet, Asked, IInv, Standing
<1>2. LevelsFor(c, ow) \in DOMAIN master.ifds
  BY <1>1, LadderChosen
<1>3. Placed(ScaledCoveringPow2(c, ScaleFactor(LevelsFor(c, ow))), master.ifds[LevelsFor(c, ow)])
  BY <1>1, <1>2, WaveletPlaced
<1>4. /\ level' = LevelsFor(c, ow) /\ crop' = c /\ phase' = "decoded"
      /\ region' = ScaledCoveringPow2(c, ScaleFactor(LevelsFor(c, ow)))
      /\ out' = LevelPixels(level', region') /\ current' = current /\ at' = at
  <2>1. ScaleFactor(level') = ScaleFactor(level')
    OBVIOUS
  <2>. QED
    BY <1>1 DEF DecodeWavelet, Asked
<1>5. c \in Crops'
  BY <1>1 DEF Crops, Full
<1>. QED
  BY <1>1, <1>2, <1>3, <1>4, <1>5
     DEF IInv, Standing, Mapped, Copied, Decoding, Phases

(* So does a master held whole.                                            *)
LEMMA CopyResidentIInv ==
  ASSUME IInv, phase = "open", NEW c \in Crops, NEW ow, CopyResident(c, ow)
  PROVE  IInv'
<1>1. master \in Masters /\ master' = master
  BY DEF CopyResident, Asked, IInv, Standing
<1>2. 1 \in DOMAIN master.ifds
  BY <1>1, MasterShape
<1>3. Placed(c, master.ifds[1])
  BY <1>1, CropIsInside DEF Placed, Full
<1>4. /\ level' = 1 /\ region' = c /\ crop' = c /\ phase' = "decoded"
      /\ out' = LevelPixels(1, c) /\ current' = current /\ at' = at
  BY DEF CopyResident, Asked
<1>5. c \in Crops'
  BY <1>1 DEF Crops, Full
<1>6. LevelPixels(level', region') = LevelPixels(1, c)
  BY <1>4
<1>. QED
  BY <1>1, <1>2, <1>3, <1>4, <1>5, <1>6
     DEF IInv, Standing, Mapped, Copied, Decoding, Phases

(* One tile more: its pixels are in place now, and those of the tiles      *)
(* before it stay.                                                         *)
LEMMA CopyTileIInv == ASSUME IInv, CopyTile PROVE IInv'
<1>. DEFINE l == master.ifds[level]
            w == region.w
            h == region.h
            Home(p) == <<level, region.x + p[1], region.y + p[2]>>
            lastCol == Max(Columns(region, l))
            lastRow == Max(Rows(region, l))
<1>1. /\ master \in Masters /\ level \in DOMAIN master.ifds /\ phase = "copying" /\ at = level
      /\ Placed(region, l)
      /\ tile.col \in Columns(region, l) /\ tile.row \in Rows(region, l)
      /\ out = [p \in Pixels(w, h) |-> out[p]]
      /\ \A p \in Pixels(w, h) : Done(p, tile, region, l) => out[p] = Home(p)
  BY DEF CopyTile, IInv, Standing, Mapped, Copied, Decoding
<1>2. l \in Level
  BY <1>1, MasterShape
<1>3. /\ out' = Blit(tile, l, region)
      /\ UNCHANGED <<master, current, at, crop, want, level, region>>
      /\ \/ /\ tile.col < lastCol /\ tile' = [tile EXCEPT !.col = @ + 1] /\ phase' = phase
         \/ /\ tile.col = lastCol /\ tile.row < lastRow /\ phase' = phase
            /\ tile' = [col |-> Min(Columns(region, l)), row |-> tile.row + 1]
         \/ /\ ~(tile.col < lastCol) /\ ~(tile.col = lastCol /\ tile.row < lastRow)
            /\ phase' = "decoded" /\ tile' = tile
  BY DEF CopyTile
<1>4. /\ Min(Columns(region, l)) \in Columns(region, l)
      /\ \A p \in Pixels(w, h) : Column(p, region, l) \in Columns(region, l)
                                 /\ Row(p, region, l) \in Rows(region, l)
  BY <1>1, <1>2, TileRange
<1>5. /\ \A k \in Columns(region, l) : k \in Nat /\ Min(Columns(region, l)) <= k /\ k <= lastCol
      /\ \A k \in Rows(region, l) : k \in Nat /\ k <= lastRow
      /\ lastCol \in Nat /\ lastRow \in Nat
      /\ \A k \in Nat : Min(Columns(region, l)) <= k /\ k <= lastCol => k \in Columns(region, l)
      /\ \A k \in Nat, j \in Rows(region, l) : j <= k /\ k <= lastRow => k \in Rows(region, l)
  <2>1. /\ region.x \div l.tw \in Nat /\ (region.x + region.w - 1) \div l.tw \in Nat
        /\ Min(Columns(region, l)) = region.x \div l.tw
        /\ lastCol = (region.x + region.w - 1) \div l.tw
        /\ region.y \div l.th \in Nat /\ (region.y + region.h - 1) \div l.th \in Nat
        /\ lastRow = (region.y + region.h - 1) \div l.th
    BY <1>1, <1>2, TileRange
  <2>. HIDE DEF lastCol, lastRow
  <2>. QED
    BY <2>1 DEF Columns, Rows
<1>6. out' = [p \in Pixels(w, h) |->
                IF Column(p, region, l) = tile.col /\ Row(p, region, l) = tile.row
                THEN <<at, region.x + p[1], region.y + p[2]>> ELSE out[p]]
  <2>1. /\ l \in Level /\ Placed(region, l)
        /\ tile.col \in Columns(region, l) /\ tile.row \in Nat
        /\ out = [p \in Pixels(region.w, region.h) |-> out[p]]
    BY <1>1, <1>2, <1>5
  <2>2. StandsAt(l)
    BY <1>1 DEF StandsAt
  <2>. HIDE DEF l
  <2>3. \A r, t :
          /\ Placed(r, l) /\ t.col \in Columns(r, l) /\ t.row \in Nat
          /\ out = [p \in Pixels(r.w, r.h) |-> out[p]]
          => Blit(t, l, r) =
               [p \in Pixels(r.w, r.h) |->
                  IF Column(p, r, l) = t.col /\ Row(p, r, l) = t.row
                  THEN <<at, r.x + p[1], r.y + p[2]>> ELSE out[p]]
    BY <2>1, <2>2, BlitWritesTile
  <2>4. Blit(tile, l, region) =
          [p \in Pixels(region.w, region.h) |->
             IF Column(p, region, l) = tile.col /\ Row(p, region, l) = tile.row
             THEN <<at, region.x + p[1], region.y + p[2]>> ELSE out[p]]
    BY <2>1, <2>3
  <2>. QED
    BY <1>3, <2>4
<1>7. out' = [p \in Pixels(w, h) |-> out'[p]]
  BY <1>6
<1>8. ASSUME NEW p \in Pixels(w, h),
             \/ Done(p, tile, region, l)
             \/ Column(p, region, l) = tile.col /\ Row(p, region, l) = tile.row
      PROVE  out'[p] = Home(p)
  BY <1>1, <1>6, <1>8
<1>. HIDE DEF l, w, h, lastCol, lastRow, Home
<1>9. Standing' /\ Mapped'
  <2>1. phase' \in {"copying", "decoded"}
    BY <1>1, <1>3
  <2>2. Crops' = Crops
    BY <1>3 DEF Crops, Full
  <2>. QED
    BY <1>1, <1>3, <2>1, <2>2 DEF IInv, Standing, Mapped, Decoding, Phases, l
<1>10. CASE phase' = "copying"
  <2>1. /\ tile'.col \in Columns(region, l) /\ tile'.row \in Rows(region, l)
        /\ \A p \in Pixels(w, h) :
             Done(p, tile', region, l) =>
               \/ Done(p, tile, region, l)
               \/ Column(p, region, l) = tile.col /\ Row(p, region, l) = tile.row
    <3>1. CASE tile.col < lastCol /\ tile' = [tile EXCEPT !.col = @ + 1]
      <4>1. tile'.col = tile.col + 1 /\ tile'.row = tile.row
        BY <3>1
      <4>. QED
        BY <1>1, <1>4, <1>5, <3>1, <4>1 DEF Done
    <3>2. CASE /\ tile.col = lastCol /\ tile.row < lastRow
               /\ tile' = [col |-> Min(Columns(region, l)), row |-> tile.row + 1]
      <4>1. tile'.col = Min(Columns(region, l)) /\ tile'.row = tile.row + 1
        BY <3>2
      <4>. QED
        BY <1>1, <1>4, <1>5, <3>2, <4>1 DEF Done
    <3>. QED
      BY <1>3, <1>10, <3>1, <3>2
  <2>2. \A p \in Pixels(w, h) : Done(p, tile', region, l) => out'[p] = Home(p)
    BY <1>8, <2>1
  <2>3. Copied'
    BY <1>3, <1>7, <2>1, <2>2 DEF Copied, Home, l, w, h
  <2>. QED
    BY <1>9, <1>10, <2>3 DEF IInv
<1>11. CASE phase' = "decoded"
  <2>1. tile.col = lastCol /\ tile.row = lastRow
    BY <1>1, <1>3, <1>5, <1>11
  <2>2. ASSUME NEW p \in Pixels(w, h) PROVE out'[p] = Home(p)
    BY <1>4, <1>5, <1>8, <2>1 DEF Done
  <2>3. out' = [p \in Pixels(w, h) |-> Home(p)]
    BY <1>7, <2>2
  <2>4. out' = LevelPixels(level', region')
    BY <1>3, <2>3 DEF LevelPixels, Home, w, h
  <2>. QED
    BY <1>9, <1>11, <2>4 DEF IInv, Copied
<1>. QED
  BY <1>1, <1>3, <1>10, <1>11

(* Every step keeps the invariant.                                         *)
LEMMA StepIInv == ASSUME PowersOfTwo PROVE IInv /\ [Next]_vars => IInv'
<1>. SUFFICES ASSUME IInv, [Next]_vars PROVE IInv'
  OBVIOUS
<1>1. CASE Open
  BY <1>1, OpenIInv
<1>2. CASE Refuse
  BY <1>2, RefuseIInv
<1>3. CASE Take \/ Fail
  BY <1>3, ForgetIInv DEF Take, Fail
<1>4. ASSUME phase = "open", NEW c \in Crops, NEW ow \in 1..(Full.w + 1),
             DecodeTiles(c, ow) \/ DecodeWavelet(c, ow) \/ CopyResident(c, ow)
      PROVE  IInv'
  BY <1>4, DecodeTilesIInv, DecodeWaveletIInv, CopyResidentIInv
<1>5. CASE CopyTile
  BY <1>5, CopyTileIInv
<1>6. CASE UNCHANGED vars
  <2>1. Crops' = Crops
    BY <1>6 DEF vars, Crops, Full
  <2>2. LevelPixels(level', region') = LevelPixels(level, region)
    BY <1>6 DEF vars
  <2>. QED
    BY <1>6, <2>1, <2>2 DEF vars, IInv, Standing, Mapped, Copied, Decoding
<1>. QED
  BY <1>1, <1>2, <1>3, <1>4, <1>5, <1>6 DEF Next

(* The decoder, the levels and the tiles are always the master's own.      *)
THEOREM TypeCorrect == ASSUME PowersOfTwo PROVE Spec => []TypeOK
<1>1. IInv => TypeOK
  BY DEF IInv, Standing, Mapped, Copied, TypeOK, Phases
<1>. QED
  BY <1>1, InitIInv, StepIInv, PTL DEF Spec

(* A crop never maps outside the level it is read from.                    *)
THEOREM RegionsInside == ASSUME PowersOfTwo PROVE Spec => []RegionInsideLevel
<1>1. IInv => RegionInsideLevel
  BY DEF IInv, Mapped, Placed, RegionInsideLevel
<1>. QED
  BY <1>1, InitIInv, StepIInv, PTL DEF Spec

(* Tile by tile, a decode yields the region of the chosen level: nothing   *)
(* of another level, no seam, gap or shift.                                *)
THEOREM TilesFit == ASSUME PowersOfTwo PROVE Spec => []StitchedExactly
<1>1. IInv => StitchedExactly
  BY DEF IInv, StitchedExactly
<1>. QED
  BY <1>1, InitIInv, StepIInv, PTL DEF Spec

----------------------------------------------------------------------------
(* What a decode under way was asked for and chose.                        *)
Chosen ==
  Decoding =>
    /\ want \in Nat \ {0}
    /\ CASE master.kind = "tiff"   -> level = LevelForScale(crop, want) /\ region = MapCrop(crop, level)
         [] master.kind = "jp2"    -> /\ level = LevelsFor(crop, want)
                                      /\ region = ScaledCoveringPow2(crop, ScaleFactor(level))
         [] master.kind = "simple" -> level = 1 /\ region = crop

(* It stays what it is until the decode ends.                              *)
LEMMA StepChosen == IInv /\ Chosen /\ [Next]_vars => Chosen'
<1>. SUFFICES ASSUME IInv, Chosen, [Next]_vars PROVE Chosen'
  OBVIOUS
<1>1. master' = master
  BY DEF Next, vars, Open, Refuse, Take, Fail, Forget, DecodeTiles, DecodeWavelet, CopyResident,
         Asked, CopyTile
<1>2. master \in Masters /\ master.kind \in {"tiff", "jp2", "simple"} /\ Full.w \in Nat
  BY MasterShape DEF IInv, Standing, Full, Level
<1>3. CASE Open \/ Refuse \/ Take \/ Fail
  BY <1>3 DEF Open, Refuse, Take, Fail, Forget, Chosen, Decoding
<1>4. CASE CopyTile \/ UNCHANGED vars
  <2>1. /\ crop' = crop /\ want' = want /\ level' = level /\ region' = region
        /\ Decoding' => Decoding
    BY <1>4 DEF CopyTile, vars, Decoding
  <2>. SUFFICES ASSUME Decoding
                PROVE  /\ want \in Nat \ {0}
                       /\ CASE master.kind = "tiff"   -> /\ level = LevelForScale(crop, want)'
                                                         /\ region = MapCrop(crop, level)'
                            [] master.kind = "jp2"    -> /\ level = LevelsFor(crop, want)'
                                                         /\ region = ScaledCoveringPow2(crop, ScaleFactor(level)')
                            [] master.kind = "simple" -> level = 1 /\ region = crop
    BY <1>1, <2>1 DEF Chosen
  <2>2. /\ LevelForScale(crop, want)' = LevelForScale(crop, want)
        /\ LevelsFor(crop, want)' = LevelsFor(crop, want)
        /\ MapCrop(crop, level)' = MapCrop(crop, level)
        /\ ScaleFactor(level)' = ScaleFactor(level)
    <3>1. \A i : ScaleFactor(i)' = ScaleFactor(i)
      BY <1>1 DEF ScaleFactor, Full
    <3>. QED
      BY <1>1, <2>1, <3>1 DEF LevelForScale, LevelsFor, MapCrop
  <2>. QED
    BY <1>1, <2>2 DEF Chosen
<1>5. ASSUME NEW c \in Crops, NEW ow \in 1..(Full.w + 1), phase = "open",
             DecodeTiles(c, ow) \/ DecodeWavelet(c, ow) \/ CopyResident(c, ow)
      PROVE  Chosen'
  <2>1. crop' = c /\ want' = ow /\ ow \in Nat \ {0}
    BY <1>2, <1>5 DEF DecodeTiles, DecodeWavelet, CopyResident, Asked
  <2>2. CASE DecodeTiles(c, ow)
    BY <1>1, <2>1, <2>2, Zenon DEF DecodeTiles, Chosen, LevelForScale, ScaleFactor, MapCrop, Full
  <2>3. CASE DecodeWavelet(c, ow)
    BY <1>1, <2>1, <2>3 DEF DecodeWavelet, Chosen, LevelsFor, ScaleFactor, Full
  <2>4. CASE CopyResident(c, ow)
    BY <1>1, <2>1, <2>4 DEF CopyResident, Chosen
  <2>. QED
    BY <1>5, <2>2, <2>3, <2>4
<1>. QED
  BY <1>3, <1>4, <1>5 DEF Next

(* And so it is always.                                                    *)
LEMMA AlwaysChosen == ASSUME PowersOfTwo PROVE Spec => [](IInv /\ Chosen)
<1>1. Init => IInv /\ Chosen
  BY InitIInv DEF Init, Chosen, Decoding
<1>2. IInv /\ Chosen /\ [Next]_vars => (IInv /\ Chosen)'
  BY StepIInv, StepChosen
<1>. QED
  BY <1>1, <1>2, PTL DEF Spec

(* The rung of a wavelet decode is the last that has the detail.           *)
LEMMA RungIsLast ==
  ASSUME master \in Masters, NEW c, NEW ow
  PROVE  LET k == LevelsFor(c, ow)
         IN  /\ k = 1 \/ (k \in DOMAIN master.ifds /\ ScaleFactor(k) * ow <= c.w)
             /\ \A i \in DOMAIN master.ifds : ScaleFactor(i) * ow <= c.w => i <= k
<1>. DEFINE S == {1} \cup {i \in DOMAIN master.ifds : ScaleFactor(i) * ow <= c.w}
            k == LevelsFor(c, ow)
<1>1. S \subseteq 0..Len(master.ifds) /\ S # {} /\ Len(master.ifds) \in Nat
  BY MasterShape
<1>2. k = Max(S)
  BY DEF LevelsFor
<1>. HIDE DEF S, k
<1>3. k \in S /\ \A j \in S : j <= k
  BY <1>1, <1>2, GreatestElement
<1>. QED
  BY <1>3 DEF S, k

(* No level coarser than the chosen one has the detail.                    *)
LEMMA CoarserIsTooCoarse ==
  ASSUME PowersOfTwo, IInv, Chosen, Decoding,
         NEW i \in DOMAIN master.ifds, ScaleFactor(i) > ScaleFactor(level)
  PROVE  ScaleFactor(i) * want > crop.w
<1>1. /\ master \in Masters /\ level \in DOMAIN master.ifds /\ crop \in Crops /\ want \in Nat
      /\ master.kind \in {"tiff", "jp2", "simple"}
  BY MasterShape DEF IInv, Standing, Mapped, Chosen
<1>2. ScaleFactor(i) \in Nat \ {0} /\ ScaleFactor(level) \in Nat \ {0} /\ crop.w \in Nat
      /\ ScaleFactor(i) * want \in Nat
  BY <1>1, ScaleFactorPositive, CropIsInside
<1>3. CASE master.kind = "tiff"
  <2>1. level = LevelForScale(crop, want)
    BY <1>3 DEF Chosen
  <2>2. \A j \in DOMAIN master.ifds : ScaleFactor(j) * want <= crop.w => ScaleFactor(j) <= ScaleFactor(level)
    BY <1>1, <1>3, <2>1, LevelChosen
  <2>. QED
    BY <1>2, <2>2
<1>4. CASE master.kind = "jp2"
  <2>. SUFFICES ASSUME ScaleFactor(i) * want <= crop.w PROVE FALSE
    BY <1>2
  <2>1. level = LevelsFor(crop, want)
    BY <1>4 DEF Chosen
  <2>2. i <= level
    BY <1>1, <2>1, RungIsLast
  <2>3. i - 1 \in Nat /\ level - 1 \in Nat /\ i - 1 <= level - 1
    BY <1>1, <2>2, MasterShape
  <2>4. 2 ^ (i - 1) <= 2 ^ (level - 1)
    BY <2>3, PowersGrow
  <2>5. ScaleFactor(i) <= ScaleFactor(level)
    BY <1>4, <2>4 DEF ScaleFactor
  <2>. QED
    BY <1>2, <2>5
<1>5. CASE master.kind = "simple"
  <2>1. i = 1 /\ level = 1
    BY <1>1, <1>5, MasterShape
  <2>. QED
    BY <1>2, <2>1
<1>. QED
  BY <1>1, <1>3, <1>4, <1>5

(* f pixels of the crop to each pixel of its covering interval.            *)
LEMMA CoverKeepsDetail ==
  ASSUME NEW first \in Nat, NEW count \in Nat, NEW f \in Nat \ {0}, NEW n \in Nat, f * n <= count
  PROVE  /\ first \div f \in Nat /\ CeilDiv(first + count, f) \in Nat
         /\ CeilDiv(first + count, f) - first \div f >= n
<1>. DEFINE a == first \div f
            b == CeilDiv(first + count, f)
<1>1. a \in Nat /\ a * f <= first
  BY Quotient
<1>2. b \in Nat /\ first + count <= b * f
  <2>1. first + count + f - 1 \in Nat
    OBVIOUS
  <2>2. b \in Nat /\ first + count + f - 1 < b * f + f
    BY <2>1, Quotient DEF CeilDiv
  <2>. HIDE DEF b
  <2>. QED
    BY <2>2
<1>. HIDE DEF a, b
<1>3. b >= a + n
  <2>. SUFFICES ASSUME b + 1 <= a + n PROVE FALSE
    BY <1>1, <1>2
  <2>1. (b + 1) * f <= (a + n) * f
    BY <1>1, <1>2
  <2>2. (b + 1) * f = b * f + f /\ (a + n) * f = a * f + f * n
    BY <1>1, <1>2
  <2>. QED
    BY <1>1, <1>2, <2>1, <2>2
<1>. QED
  BY <1>1, <1>2, <1>3 DEF a, b

(* Within a level that holds the image at that scale but for a part of a   *)
(* pixel, keeping the interval inside loses none of it.                    *)
LEMMA ClampKeepsDetail ==
  ASSUME NEW first \in Nat, NEW count \in Nat, NEW f \in Nat \ {0}, NEW n \in Nat, f * n <= count,
         NEW size \in Nat \ {0}, first + count < (size + 1) * f
  PROVE  LET c == Cover(first, count, f, size)
         IN  c.to - c.from >= n
<1>. DEFINE a == first \div f
            b == CeilDiv(first + count, f)
            c == Cover(first, count, f, size)
<1>1. a \in Nat /\ a * f <= first
  BY Quotient
<1>2. b \in Nat /\ b - a >= n
  BY CoverKeepsDetail
<1>3. c.from = Min({a, size - 1}) /\ c.to = Min({b, size})
  BY DEF Cover
<1>. HIDE DEF a, b, c
<1>4. /\ c.from = IF a <= size - 1 THEN a ELSE size - 1
      /\ c.to = IF b <= size THEN b ELSE size
  BY <1>1, <1>2, <1>3, MinOfTwo
<1>5. size - a >= n
  <2>. SUFFICES ASSUME size + 1 <= a + n PROVE FALSE
    BY <1>1
  <2>1. (size + 1) * f <= (a + n) * f
    BY <1>1
  <2>2. (a + n) * f = a * f + f * n
    BY <1>1
  <2>. QED
    BY <1>1, <2>1, <2>2
<1>6. c.to - c.from >= n
  BY <1>1, <1>2, <1>4, <1>5
<1>. QED
  BY <1>6 DEF c

(* How pyramids are made: a level is the image reduced by a factor, and    *)
(* what rounding its width or that factor loses is less than a pixel.      *)
WidthsKept ==
  \A m \in Masters : m.kind = "tiff" =>
    \A i \in DOMAIN m.ifds :
      m.ifds[1].w < (m.ifds[i].w + 1) * Max({1, Round(m.ifds[1].w, m.ifds[i].w)})

(* A region is as wide as the output, when the crop is.                    *)
LEMMA RegionHasDetail ==
  ASSUME PowersOfTwo, WidthsKept, IInv, Chosen, Decoding, want <= crop.w
  PROVE  region.w >= want
<1>. DEFINE l == master.ifds[level]
            f == ScaleFactor(level)
<1>1. /\ master \in Masters /\ level \in DOMAIN master.ifds /\ crop \in Crops /\ want \in Nat \ {0}
      /\ master.kind \in {"tiff", "jp2", "simple"}
  BY MasterShape DEF IInv, Standing, Mapped, Chosen
<1>2. /\ crop.x \in Nat /\ crop.w \in Nat /\ crop.x + crop.w <= Full.w /\ Full.w \in Nat
      /\ f \in Nat \ {0} /\ l.w \in Nat \ {0}
  BY <1>1, CropIsInside, ScaleFactorPositive, MasterShape DEF Level
<1>3. CASE master.kind = "tiff"
  <2>1. region = MapCrop(crop, level) /\ f * want <= crop.w
    <3>1. level = LevelForScale(crop, want) /\ region = MapCrop(crop, level)
      BY <1>3 DEF Chosen
    <3>2. f = 1 \/ f * want <= crop.w
      BY <1>1, <1>3, <3>1, LevelChosen
    <3>. QED
      BY <1>1, <3>1, <3>2
  <2>2. Full.w < (l.w + 1) * f
    BY <1>1, <1>3 DEF WidthsKept, ScaleFactor, Full
  <2>3. (l.w + 1) * f \in Nat
    BY <1>2
  <2>. DEFINE xs == Cover(crop.x, crop.w, f, l.w)
  <2>4. region.w = Max({1, xs.to - xs.from})
    BY <2>1 DEF MapCrop
  <2>. HIDE DEF f, l
  <2>5. xs.to - xs.from >= want
    <3>1. want \in Nat /\ crop.x + crop.w < (l.w + 1) * f
      BY <1>1, <1>2, <2>2, <2>3
    <3>. QED
      BY <1>2, <2>1, <3>1, ClampKeepsDetail, Zenon
  <2>6. xs.to \in Int /\ xs.from \in Int
    <3>1. crop.x \div f \in Nat /\ CeilDiv(crop.x + crop.w, f) \in Nat
      BY <1>1, <1>2, <2>1, CoverKeepsDetail
    <3>2. /\ xs.from = Min({crop.x \div f, l.w - 1})
          /\ xs.to = Min({CeilDiv(crop.x + crop.w, f), l.w})
      BY DEF Cover
    <3>. HIDE DEF xs
    <3>. QED
      BY <1>2, <3>1, <3>2, MinOfTwo
  <2>. HIDE DEF xs
  <2>7. Max({1, xs.to - xs.from}) >= xs.to - xs.from /\ Max({1, xs.to - xs.from}) \in Int
    BY <2>6, MaxOfTwo
  <2>. QED
    BY <1>1, <2>4, <2>5, <2>6, <2>7
<1>4. CASE master.kind = "jp2"
  <2>1. level = LevelsFor(crop, want) /\ region = ScaledCoveringPow2(crop, f)
    BY <1>4 DEF Chosen
  <2>2. level = 1 => f = 1
    BY <1>4 DEF ScaleFactor, PowersOfTwo
  <2>3. f * want <= crop.w
    BY <1>1, <1>2, <2>1, <2>2, RungIsLast
  <2>4. region.w = CeilDiv(crop.x + crop.w, f) - crop.x \div f
    BY <2>1 DEF ScaledCoveringPow2
  <2>. HIDE DEF f
  <2>. QED
    BY <1>1, <1>2, <2>3, <2>4, CoverKeepsDetail
<1>5. CASE master.kind = "simple"
  BY <1>5 DEF Chosen
<1>. QED
  BY <1>1, <1>3, <1>4, <1>5

(* level_for_scale and levels_for: of a pyramid so made no output is wider *)
(* than the pixels it is made from, unless the request enlarges, and no    *)
(* coarser level would do.                                                 *)
THEOREM DetailForTheWidth ==
  ASSUME PowersOfTwo, WidthsKept
  PROVE  Spec => []WidthHasDetail
<1>1. IInv /\ Chosen => WidthHasDetail
  BY RegionHasDetail, CoarserIsTooCoarse DEF WidthHasDetail
<1>. QED
  BY <1>1, AlwaysChosen, PTL

----------------------------------------------------------------------------
(* A pyramid is tiled alike on every level.                                *)
TiledAlike ==
  \A m \in Masters : m.kind = "tiff" =>
    \A i \in DOMAIN m.ifds : m.ifds[i].tw = m.ifds[1].tw /\ m.ifds[i].th = m.ifds[1].th

(* The k-th tile of t pixels begins at pixel a.                            *)
TileAt(a, k, t) == \A n \in Nat : a <= n /\ n < a + t => n \div t = k

(* What is read of a level between two pixels touches one tile.            *)
InOneTile(from, to, t) ==
  Cardinality((from \div t) .. ((from + Max({1, to - from}) - 1) \div t)) = 1

(* The k-th tile's place and end at factor f, in its level's pixels.       *)
LEMMA TileEnds ==
  ASSUME NEW k \in Nat, NEW f \in Nat \ {0}, NEW t \in Nat \ {0}
  PROVE  \E a \in Nat : /\ TileAt(a, k, t)
                        /\ (k * (f * t)) \div f = a
                        /\ CeilDiv(k * (f * t) + f * t, f) = a + t
<1>. DEFINE a == k * t
<1>1. a \in Nat /\ k * (f * t) = a * f /\ k * (f * t) + f * t = (a + t) * f
  OBVIOUS
<1>2. TileAt(a, k, t)
  <2>. SUFFICES ASSUME NEW n \in Nat, a <= n /\ n < a + t PROVE n \div t = k
    BY DEF TileAt
  <2>. QED
    BY QuotientIs
<1>. HIDE DEF a
<1>3. a * f \in Nat /\ (a + t) * f \in Nat
  BY <1>1
<1>4. (a * f) \div f = a
  BY <1>1, <1>3, QuotientIs
<1>5. ((a + t) * f + f - 1) \div f = a + t
  <2>. DEFINE b == a + t
  <2>1. b \in Nat /\ b * f \in Nat /\ b * f + f - 1 \in Nat
    BY <1>1, <1>3
  <2>. HIDE DEF b
  <2>2. (b * f + f - 1) \div f = b
    BY <2>1, QuotientIs
  <2>. QED
    BY <2>2 DEF b
<1>6. (k * (f * t)) \div f = a /\ CeilDiv(k * (f * t) + f * t, f) = a + t
  BY <1>1, <1>4, <1>5, Zenon DEF CeilDiv
<1>. QED
  BY <1>1, <1>2, <1>6

(* An interval that begins a tile and stays in it, or holds one pixel,     *)
(* touches one tile.                                                       *)
LEMMA OneTile ==
  ASSUME NEW a \in Nat, NEW k \in Nat, NEW t \in Nat \ {0}, TileAt(a, k, t),
         NEW from \in Nat, NEW to \in Nat, from < to,
         (from = a /\ to <= a + t) \/ to = from + 1
  PROVE  InOneTile(from, to, t)
<1>1. Max({1, to - from}) = to - from
  <2>. DEFINE n == to - from
  <2>1. n \in Int /\ n >= 1
    OBVIOUS
  <2>. HIDE DEF n
  <2>2. Max({1, n}) = n
    BY <2>1, MaxOfTwo
  <2>. QED
    BY <2>2 DEF n
<1>2. \E q \in Nat : from \div t = q /\ (to - 1) \div t = q
  <2>1. CASE from = a /\ to <= a + t
    <3>1. from = a /\ a <= to - 1 /\ to - 1 < a + t /\ to - 1 \in Nat /\ a < a + t
      BY <2>1
    <3>2. a \div t = k /\ (to - 1) \div t = k
      BY <3>1 DEF TileAt
    <3>. QED
      BY <3>1, <3>2
  <2>2. CASE to = from + 1
    <3>1. from = to - 1
      BY <2>2
    <3>2. from \div t \in Nat
      BY Quotient
    <3>. QED
      BY <3>1, <3>2
  <2>. QED
    BY <2>1, <2>2
<1>3. PICK q \in Nat : from \div t = q /\ (to - 1) \div t = q
  BY <1>2
<1>4. from + Max({1, to - from}) - 1 = to - 1
  BY <1>1
<1>5. q .. q = {q}
  OBVIOUS
<1>6. (from \div t) .. ((from + Max({1, to - from}) - 1) \div t) = {q}
  BY <1>3, <1>4, <1>5
<1>. QED
  BY <1>6, FS_Singleton DEF InOneTile

(* A multiple of the tile is some tile's place.                            *)
LEMMA PlaceOfTile ==
  ASSUME NEW n \in Nat, NEW d \in Nat \ {0}, n % d = 0
  PROVE  \E k \in Nat : n = k * d
<1>1. n = (n \div d) * d /\ n \div d \in Nat
  OBVIOUS
<1>. QED
  BY <1>1

(* One axis of a request for an advertised tile: what is read of the level *)
(* lies in one tile, also when the level ends in or before it.             *)
LEMMA AdvertisedOnAxis ==
  ASSUME NEW first \in Nat, NEW f \in Nat \ {0}, NEW t \in Nat \ {0},
         NEW size \in Nat \ {0}, first % (f * t) = 0
  PROVE  LET c == Cover(first, f * t, f, size)
         IN  InOneTile(c.from, c.to, t)
<1>. DEFINE c == Cover(first, f * t, f, size)
<1>1. PICK k \in Nat : first = k * (f * t)
  <2>1. f * t \in Nat \ {0}
    OBVIOUS
  <2>. QED
    BY <2>1, PlaceOfTile
<1>2. PICK a \in Nat : /\ TileAt(a, k, t)
                       /\ first \div f = a /\ CeilDiv(first + f * t, f) = a + t
  <2>1. PICK a \in Nat : /\ TileAt(a, k, t)
                         /\ (k * (f * t)) \div f = a
                         /\ CeilDiv(k * (f * t) + f * t, f) = a + t
    BY TileEnds, Zenon
  <2>. QED
    BY <1>1, <2>1, ZenonT(40)
<1>3. c.from = Min({a, size - 1}) /\ c.to = Min({a + t, size})
  BY <1>2 DEF Cover
<1>. HIDE DEF c
<1>4. /\ c.from = IF a <= size - 1 THEN a ELSE size - 1
      /\ c.to = IF a + t <= size THEN a + t ELSE size
  BY <1>3, MinOfTwo
<1>5. /\ c.from \in Nat /\ c.to \in Nat /\ c.from < c.to
      /\ (c.from = a /\ c.to <= a + t) \/ c.to = c.from + 1
  BY <1>4
<1>6. InOneTile(c.from, c.to, t)
  BY <1>2, <1>5, OneTile, Zenon
<1>. QED
  BY <1>6 DEF c

(* Asked for t pixels of a crop t pixels of level i wide, level_for_scale  *)
(* picks the last level as coarse as i.                                    *)
LEMMA LevelWithFactor ==
  ASSUME PowersOfTwo, master \in Masters, master.kind = "tiff", NEW i \in DOMAIN master.ifds,
         NEW t \in Nat \ {0}, NEW c, c.w = ScaleFactor(i) * t
  PROVE  /\ LevelForScale(c, t) \in DOMAIN master.ifds
         /\ LevelForScale(c, t) = Max({j \in DOMAIN master.ifds : ScaleFactor(j) = ScaleFactor(i)})
         /\ ScaleFactor(LevelForScale(c, t)) = ScaleFactor(i)
<1>. DEFINE enough == {j \in DOMAIN master.ifds : ScaleFactor(j) = 1 \/ ScaleFactor(j) * t <= c.w}
            k == LevelForScale(c, t)
<1>1. \A j \in DOMAIN master.ifds : ScaleFactor(j) \in Nat \ {0}
  BY ScaleFactorPositive
<1>2. ASSUME NEW g \in Nat \ {0}, NEW f \in Nat \ {0}
      PROVE  g = 1 \/ g * t <= f * t <=> g <= f
  <2>1. ASSUME g <= f PROVE g * t <= f * t
    BY <2>1
  <2>2. ASSUME g >= f + 1 PROVE g * t > f * t
    <3>1. g * t >= (f + 1) * t /\ (f + 1) * t = f * t + t /\ f * t \in Nat /\ g * t \in Nat
      BY <2>2
    <3>. QED
      BY <3>1
  <2>. QED
    BY <2>1, <2>2
<1>3. enough = {j \in DOMAIN master.ifds : ScaleFactor(j) <= ScaleFactor(i)}
  BY <1>1, <1>2
<1>4. {x \in enough : \A j \in enough : ScaleFactor(j) <= ScaleFactor(x)}
        = {j \in DOMAIN master.ifds : ScaleFactor(j) = ScaleFactor(i)}
  BY <1>1, <1>3
<1>5. k = Max({j \in DOMAIN master.ifds : ScaleFactor(j) = ScaleFactor(i)})
  BY <1>4 DEF LevelForScale
<1>6. /\ k \in enough /\ \A j \in enough : ScaleFactor(j) <= ScaleFactor(k)
  BY LevelChosen
<1>. HIDE DEF k, enough
<1>7. ScaleFactor(k) = ScaleFactor(i) /\ k \in DOMAIN master.ifds
  BY <1>1, <1>3, <1>6
<1>. QED
  BY <1>5, <1>7 DEF k

(* describe and decode_crop: a tile info.json advertises is decoded from   *)
(* one tile of the last level with its factor, in every pyramid.           *)
THEOREM TilesAreNative ==
  ASSUME PowersOfTwo, TiledAlike
  PROVE  Spec => []AdvertisedTileIsNative
<1>1. ASSUME IInv, Chosen PROVE AdvertisedTileIsNative
  <2>. SUFFICES ASSUME NEW i \in DOMAIN master.ifds, Decoding, master.kind = "tiff",
                       AdvertisedTile(crop, want, i)
                PROVE  /\ level = Max({j \in DOMAIN master.ifds : ScaleFactor(j) = ScaleFactor(i)})
                       /\ Cardinality(Columns(region, master.ifds[level])) = 1
                       /\ Cardinality(Rows(region, master.ifds[level])) = 1
    BY DEF AdvertisedTileIsNative
  <2>. DEFINE f == ScaleFactor(i)
              l == master.ifds[level]
  <2>1. master \in Masters /\ crop \in Crops
    BY <1>1 DEF IInv, Standing, Mapped
  <2>2. level = LevelForScale(crop, want) /\ region = MapCrop(crop, level)
    BY <1>1 DEF Chosen
  <2>3. /\ Full.tw \in Nat \ {0} /\ Full.th \in Nat \ {0}
        /\ crop.x \in Nat /\ crop.y \in Nat /\ f \in Nat \ {0}
    BY <2>1, CropIsInside, ScaleFactorPositive, MasterShape DEF Full, Level
  <2>4. /\ crop.x % (f * Full.tw) = 0 /\ crop.w = f * Full.tw
        /\ crop.y % (f * Full.th) = 0 /\ crop.h = f * Full.th
        /\ want = Full.tw
    BY DEF AdvertisedTile
  <2>5. /\ level \in DOMAIN master.ifds /\ ScaleFactor(level) = f
        /\ level = Max({j \in DOMAIN master.ifds : ScaleFactor(j) = ScaleFactor(i)})
    BY <2>1, <2>2, <2>3, <2>4, LevelWithFactor
  <2>6. l.tw = Full.tw /\ l.th = Full.th /\ l.w \in Nat \ {0} /\ l.h \in Nat \ {0}
    BY <2>1, <2>5, MasterShape DEF TiledAlike, Full, Level
  <2>. DEFINE xs == Cover(crop.x, f * Full.tw, f, l.w)
              ys == Cover(crop.y, f * Full.th, f, l.h)
  <2>7. /\ region.x = xs.from /\ region.w = Max({1, xs.to - xs.from})
        /\ region.y = ys.from /\ region.h = Max({1, ys.to - ys.from})
    BY <2>2, <2>4, <2>5 DEF MapCrop
  <2>. HIDE DEF f, l
  <2>8. InOneTile(xs.from, xs.to, Full.tw)
    BY <2>3, <2>4, <2>6, AdvertisedOnAxis, Zenon
  <2>9. InOneTile(ys.from, ys.to, Full.th)
    BY <2>3, <2>4, <2>6, AdvertisedOnAxis, Zenon
  <2>. HIDE DEF xs, ys
  <2>10. Cardinality(Columns(region, l)) = 1
    BY <2>6, <2>7, <2>8 DEF Columns, InOneTile
  <2>11. Cardinality(Rows(region, l)) = 1
    BY <2>6, <2>7, <2>9 DEF Rows, InOneTile
  <2>. QED
    BY <2>5, <2>10, <2>11 DEF l
<1>. QED
  BY <1>1, AlwaysChosen, PTL
----------------------------------------------------------------------------
(* What a length reduced by d comes to: the odd pixels dropped or kept.    *)
Reductions(n, d) == {n \div d, CeilDiv(n, d)}

(* How pyramids are made, and how far: every level is the image reduced by *)
(* one factor on both axes, and no narrower than about twice that factor.  *)
ReducedNotThin ==
  \A m \in Masters : m.kind = "tiff" =>
    \A i \in DOMAIN m.ifds : \E d \in Nat \ {0} :
      /\ m.ifds[i].w \in Reductions(m.ifds[1].w, d)
      /\ m.ifds[i].h \in Reductions(m.ifds[1].h, d)
      /\ m.ifds[i].w >= 2 * d - 1

(* The quotients rounded down and up, by their products.                   *)
LEMMA ReductionBounds ==
  ASSUME NEW n \in Nat \ {0}, NEW d \in Nat \ {0}, NEW q \in Nat \ {0}, q \in Reductions(n, d)
  PROVE  /\ q * d \in Nat /\ q * d <= n + d - 1 /\ n <= q * d + d - 1
         /\ CeilDiv(n, d) \in Nat /\ q <= CeilDiv(n, d)
<1>. DEFINE floor == n \div d
            ceil == (n + d - 1) \div d
<1>1. floor \in Nat /\ floor * d <= n /\ n < floor * d + d
  BY Quotient
<1>2. n + d - 1 \in Nat /\ n <= n + d - 1
  OBVIOUS
<1>3. ceil \in Nat /\ ceil * d <= n + d - 1 /\ n + d - 1 < ceil * d + d
  BY <1>2, Quotient
<1>4. floor <= ceil
  BY <1>2, QuotientGrows
<1>5. q \in {floor, ceil} /\ CeilDiv(n, d) = ceil
  BY DEF Reductions, CeilDiv
<1>6. floor * d \in Nat /\ ceil * d \in Nat
  BY <1>1, <1>3, Product
<1>. HIDE DEF floor, ceil
<1>7. CASE q = floor
  BY <1>1, <1>3, <1>4, <1>5, <1>6, <1>7
<1>8. CASE q = ceil
  BY <1>3, <1>5, <1>6, <1>8
<1>. QED
  BY <1>5, <1>7, <1>8

(* The ratio of the widths, rounded, is the factor of the reduction.       *)
LEMMA FactorFound ==
  ASSUME NEW n \in Nat \ {0}, NEW d \in Nat \ {0}, NEW q \in Nat \ {0}, q \in Reductions(n, d),
         q >= 2 * d - 1
  PROVE  Max({1, Round(n, q)}) = d
<1>1. q * d \in Nat /\ q * d <= n + d - 1 /\ n <= q * d + d - 1
  BY ReductionBounds
<1>2. 2 * n + q \in Nat /\ 2 * q \in Nat \ {0} /\ d * (2 * q) = 2 * (q * d)
  OBVIOUS
<1>3. d * (2 * q) <= 2 * n + q /\ 2 * n + q < d * (2 * q) + 2 * q
  BY <1>1, <1>2
<1>4. Round(n, q) = d
  BY <1>2, <1>3, QuotientIs DEF Round
<1>. QED
  BY <1>4, MaxOfTwo

(* The whole of a length covers the whole of its reduction.                *)
LEMMA WholeIsCovered ==
  ASSUME NEW n \in Nat \ {0}, NEW d \in Nat \ {0}, NEW q \in Nat \ {0}, q \in Reductions(n, d)
  PROVE  LET c == Cover(0, n, d, q)
         IN  Max({1, c.to - c.from}) = q
<1>. DEFINE ceil == CeilDiv(n, d)
            c == Cover(0, n, d, q)
<1>1. 0 \div d = 0
  BY QuotientIs
<1>2. ceil \in Nat /\ q <= ceil
  BY ReductionBounds
<1>3. c = [from |-> Min({0, q - 1}), to |-> Min({ceil, q})]
  BY <1>1 DEF Cover
<1>. HIDE DEF ceil
<1>4. Min({0, q - 1}) = 0 /\ Min({ceil, q}) = q
  BY <1>2, MinOfTwo
<1>5. c.to - c.from = q
  BY <1>3, <1>4
<1>. HIDE DEF c
<1>. QED
  BY <1>5, MaxOfTwo DEF c

(* The whole of a wavelet master covers the whole of each rung.            *)
LEMMA WholeLadder ==
  ASSUME NEW n \in Nat \ {0}, NEW d \in Nat \ {0}
  PROVE  CeilDiv(0 + n, d) - 0 \div d = CeilDiv(n, d)
<1>1. 0 \div d = 0
  BY QuotientIs
<1>2. 0 + n = n /\ n + d - 1 \in Nat
  OBVIOUS
<1>3. (n + d - 1) \div d \in Nat
  BY <1>2, Quotient
<1>. QED
  BY <1>1, <1>2, <1>3 DEF CeilDiv

(* decode_crop of a master so made: the whole image is made from a whole   *)
(* level, whatever size is asked for.  The rows pyramid_thin loses are     *)
(* lost only by levels whose width says too little of their factor.        *)
THEOREM WholeUnlessThin ==
  ASSUME PowersOfTwo, ReducedNotThin
  PROVE  Spec => []WholeImageIsWholeLevel
<1>1. ASSUME IInv, Chosen, Decoding, crop = [x |-> 0, y |-> 0, w |-> Full.w, h |-> Full.h]
      PROVE  region.w = master.ifds[level].w /\ region.h = master.ifds[level].h
  <2>. DEFINE l == master.ifds[level]
              f == ScaleFactor(level)
  <2>1. /\ master \in Masters /\ level \in DOMAIN master.ifds /\ 1 \in DOMAIN master.ifds
        /\ master.kind \in {"tiff", "jp2", "simple"}
    BY <1>1, MasterShape DEF IInv, Standing
  <2>2. /\ Full.w \in Nat \ {0} /\ Full.h \in Nat \ {0} /\ l.w \in Nat \ {0} /\ l.h \in Nat \ {0}
        /\ f \in Nat \ {0}
    BY <2>1, MasterShape, ScaleFactorPositive DEF Full, Level
  <2>3. crop.x = 0 /\ crop.y = 0 /\ crop.w = Full.w /\ crop.h = Full.h
    BY <1>1
  <2>4. CASE master.kind = "tiff"
    <3>1. PICK d \in Nat \ {0} : /\ l.w \in Reductions(Full.w, d)
                                 /\ l.h \in Reductions(Full.h, d)
                                 /\ l.w >= 2 * d - 1
      BY <2>1, <2>4 DEF ReducedNotThin, Full
    <3>2. f = Max({1, Round(Full.w, l.w)})
      BY <2>4 DEF ScaleFactor
    <3>3. region = MapCrop(crop, level)
      BY <1>1, <2>4 DEF Chosen
    <3>. DEFINE xs == Cover(crop.x, crop.w, f, l.w)
                ys == Cover(crop.y, crop.h, f, l.h)
    <3>4. region.w = Max({1, xs.to - xs.from}) /\ region.h = Max({1, ys.to - ys.from})
      BY <3>3 DEF MapCrop
    <3>. HIDE DEF f, l
    <3>5. f = d
      BY <2>2, <3>1, <3>2, FactorFound
    <3>6. Max({1, xs.to - xs.from}) = l.w /\ Max({1, ys.to - ys.from}) = l.h
      BY <2>2, <2>3, <3>1, <3>5, WholeIsCovered
    <3>. QED
      BY <3>4, <3>6 DEF l
  <2>5. CASE master.kind = "jp2"
    <3>1. region = ScaledCoveringPow2(crop, f)
      BY <1>1, <2>5 DEF Chosen
    <3>2. l.w = CeilDiv(Full.w, f) /\ l.h = CeilDiv(Full.h, f)
      BY <2>1, <2>5, PyramidAssumption DEF ScaleFactor, Full
    <3>. HIDE DEF f, l
    <3>3. region.w = CeilDiv(0 + Full.w, f) - 0 \div f /\ region.h = CeilDiv(0 + Full.h, f) - 0 \div f
      BY <2>3, <3>1 DEF ScaledCoveringPow2
    <3>. QED
      BY <2>2, <3>2, <3>3, WholeLadder DEF l
  <2>6. CASE master.kind = "simple"
    BY <1>1, <2>6 DEF Chosen, Full
  <2>. QED
    BY <2>1, <2>4, <2>5, <2>6
<1>2. IInv /\ Chosen => WholeImageIsWholeLevel
  BY <1>1 DEF WholeImageIsWholeLevel
<1>. QED
  BY <1>2, AlwaysChosen, PTL

(* Nor do pyramids so made lose a column to the rounding of their factors: *)
(* DetailForTheWidth is about them too.                                    *)
LEMMA ReducedKeepsWidths == ASSUME ReducedNotThin PROVE WidthsKept
<1>. SUFFICES ASSUME NEW m \in Masters, m.kind = "tiff", NEW i \in DOMAIN m.ifds
              PROVE  m.ifds[1].w < (m.ifds[i].w + 1) * Max({1, Round(m.ifds[1].w, m.ifds[i].w)})
  BY DEF WidthsKept
<1>. DEFINE n == m.ifds[1].w
            q == m.ifds[i].w
<1>1. n \in Nat \ {0} /\ q \in Nat \ {0}
  BY MasterShape DEF Level
<1>2. PICK d \in Nat \ {0} : q \in Reductions(n, d) /\ q >= 2 * d - 1
  BY DEF ReducedNotThin
<1>. HIDE DEF n, q
<1>3. q * d \in Nat /\ n <= q * d + d - 1 /\ (q + 1) * d = q * d + d
  BY <1>1, <1>2, ReductionBounds
<1>4. n < (q + 1) * d
  BY <1>1, <1>3
<1>5. Max({1, Round(n, q)}) = d
  BY <1>1, <1>2, FactorFound
<1>. QED
  BY <1>4, <1>5 DEF n, q
=============================================================================
