---------------------------- MODULE RasterProofs ---------------------------
(***************************************************************************)
(* For rasters of any size and any samples: mirroring and quarter turns    *)
(* put every pixel in its place, buffers keep their length, and nothing    *)
(* but opaque pixels and white reaches an encoder of an opaque format.     *)
(* Tilting by any rational angle neither cuts a corner nor invents colour  *)
(* nor favours an edge.                                                    *)
(***************************************************************************)
EXTENDS Raster, Extrema, TLAPS

Layouts == {"gray", "graya", "rgb", "rgba"}

(* A raster whose buffer holds exactly its pixels.                         *)
WellFormed(r) ==
  /\ r = [layout |-> r.layout, width |-> r.width, height |-> r.height, data |-> r.data]
  /\ r.layout \in Layouts /\ r.width \in Nat \ {0} /\ r.height \in Nat \ {0}
  /\ r.data \in [Buffer(r.width * r.height * Channels(r)) -> 0..255]

(* The index of sample c of pixel (x, y), in rows of w pixels of n samples. *)
Place(w, n, x, y, c) == (y * w + x) * n + c

Opaque(r) == WellFormed(r) /\ r.layout \in {"gray", "rgb"}

(* The rasters at hand are what the stages before made of the resized one. *)
Straight == IF plan.mirror THEN Mirrored(Recoloured(resized, plan.quality))
            ELSE Recoloured(resized, plan.quality)

IInv == /\ stage \in {"resized", "recoloured", "mirrored", "turned", "encoded", "refused"}
        /\ plan \in Plans
        /\ Opaque(resized)
        /\ stage = "resized" => image = resized
        /\ stage = "recoloured" => image = Recoloured(resized, plan.quality)
        /\ stage \in {"mirrored", "turned", "encoded", "refused"} => upright = Straight
        /\ stage = "mirrored" => image = upright
        /\ stage \in {"turned", "encoded", "refused"} => turned = Turned(upright, plan.rotation)
        /\ stage \in {"turned", "refused"} => image = turned
        /\ stage = "encoded" => image = Encodable(turned, plan.format)

----------------------------------------------------------------------------
(* The samples of a pixel, by layout.                                      *)
LEMMA ChannelsOf ==
  ASSUME NEW r, r.layout \in Layouts
  PROVE  /\ Channels(r) \in 1..4
         /\ r.layout = "gray" => Channels(r) = 1
         /\ r.layout = "graya" => Channels(r) = 2
         /\ r.layout = "rgb" => Channels(r) = 3
         /\ r.layout = "rgba" => Channels(r) = 4
BY DEF Channels, Layouts

(* Dividend, quotient and remainder.                                       *)
LEMMA Remainder ==
  ASSUME NEW n \in Nat, NEW d \in Nat \ {0}
  PROVE  n % d \in 0..(d - 1) /\ n = (n \div d) * d + (n % d)
OBVIOUS

(* Multiplication keeps the order ...                                      *)
LEMMA TimesLeq ==
  ASSUME NEW a \in Nat, NEW b \in Nat, a <= b, NEW c \in Nat
  PROVE  a * c <= b * c
OBVIOUS

(* ... and positive numbers positive.                                      *)
LEMMA TimesPositive ==
  ASSUME NEW a \in Nat \ {0}, NEW b \in Nat \ {0}
  PROVE  a * b \in Nat \ {0}
OBVIOUS

(* A quotient below k when the dividend is below k times the divisor.      *)
LEMMA QuotientBelow ==
  ASSUME NEW n \in Nat, NEW d \in Nat \ {0}, NEW k \in Nat, n < k * d
  PROVE  n \div d \in 0..(k - 1)
<1>1. n \div d \in Nat /\ (n \div d) * d <= n
  BY Quotient
<1>2. CASE n \div d >= k
  <2>1. k * d <= (n \div d) * d
    BY <1>1, <1>2, TimesLeq
  <2>. QED
    BY <1>1, <2>1
<1>. QED
  BY <1>1, <1>2

(* Place x of row y in rows of w.                                          *)
LEMMA PlaceInRows ==
  ASSUME NEW w \in Nat \ {0}, NEW x \in 0..(w - 1), NEW y \in Nat
  PROVE  /\ y * w + x \in Nat
         /\ (y * w + x) \div w = y
         /\ (y * w + x) % w = x
         /\ \A h \in Nat : y < h => y * w + x < h * w
<1>1. y * w \in Nat
  OBVIOUS
<1>2. (y * w + x) \div w = y
  BY <1>1, QuotientIs
<1>3. y * w + x = ((y * w + x) \div w) * w + ((y * w + x) % w)
  <2>1. y * w + x \in Nat
    BY <1>1
  <2>. QED
    BY <2>1, Remainder
<1>4. (y * w + x) % w = x
  BY <1>1, <1>2, <1>3
<1>5. ASSUME NEW h \in Nat, y < h PROVE y * w + x < h * w
  <2>1. (y + 1) * w <= h * w
    BY <1>5, TimesLeq
  <2>2. (y + 1) * w = y * w + w
    OBVIOUS
  <2>. QED
    BY <1>1, <2>1, <2>2
<1>. QED
  BY <1>1, <1>2, <1>4, <1>5

(* Where a sample is in the buffer, and back.                              *)
LEMMA SamplePlace ==
  ASSUME NEW w \in Nat \ {0}, NEW h \in Nat \ {0}, NEW n \in Nat \ {0},
         NEW x \in 0..(w - 1), NEW y \in 0..(h - 1), NEW c \in 0..(n - 1)
  PROVE  /\ Place(w, n, x, y, c) \in Buffer(w * h * n)
         /\ Place(w, n, x, y, c) \div n = y * w + x /\ Place(w, n, x, y, c) % n = c
         /\ (Place(w, n, x, y, c) \div n) \div w = y /\ (Place(w, n, x, y, c) \div n) % w = x
         /\ Place(w, n, x, y, c) \div (w * n) = y
<1>. DEFINE i == (y * w + x) * n + c
<1>. SUFFICES /\ i \in Buffer(w * h * n)
              /\ i \div n = y * w + x /\ i % n = c
              /\ (i \div n) \div w = y /\ (i \div n) % w = x
              /\ i \div (w * n) = y
  BY DEF Place
<1>1. /\ y * w + x \in Nat /\ (y * w + x) \div w = y /\ (y * w + x) % w = x
      /\ y * w + x < h * w
  BY PlaceInRows
<1>2. /\ i \in Nat /\ i \div n = y * w + x /\ i % n = c /\ i < (h * w) * n
  <2>1. h * w \in Nat
    OBVIOUS
  <2>. QED
    BY <1>1, <2>1, PlaceInRows
<1>3. (h * w) * n = w * h * n
  OBVIOUS
<1>4. i \in Buffer(w * h * n)
  BY <1>2, <1>3 DEF Buffer
<1>5. i \div (w * n) = y
  <2>1. w * n \in Nat \ {0}
    BY TimesPositive
  <2>2. x * n + c \in 0..(w * n - 1)
    <3>1. x * n + c < w * n /\ x * n + c \in Nat
      BY PlaceInRows
    <3>. QED
      BY <2>1, <3>1
  <2>3. i = y * (w * n) + (x * n + c)
    OBVIOUS
  <2>. QED
    BY <2>1, <2>2, <2>3, PlaceInRows
<1>. QED
  BY <1>1, <1>2, <1>4, <1>5

(* The same as one fact about an index i, for leaves that would otherwise  *)
(* meet its arithmetic.                                                    *)
IsPlaceOf(i, w, h, n, x, y, c) ==
  /\ i \in Buffer(w * h * n)
  /\ i \div n = y * w + x /\ i % n = c
  /\ (i \div n) \div w = y /\ (i \div n) % w = x
  /\ i \div (w * n) = y

(* A sample's place is a place of the buffer that leads back to it.        *)
LEMMA PlaceLeadsBack ==
  ASSUME NEW w \in Nat \ {0}, NEW h \in Nat \ {0}, NEW n \in Nat \ {0},
         NEW x \in 0..(w - 1), NEW y \in 0..(h - 1), NEW c \in 0..(n - 1)
  PROVE  IsPlaceOf(Place(w, n, x, y, c), w, h, n, x, y, c)
BY SamplePlace DEF IsPlaceOf

(* The coordinates of a place, also past the last row.                     *)
LEMMA PartsOfPlace ==
  ASSUME NEW w \in Nat \ {0}, NEW n \in Nat \ {0},
         NEW x \in 0..(w - 1), NEW y \in Nat, NEW c \in 0..(n - 1)
  PROVE  /\ Place(w, n, x, y, c) \div n = y * w + x
         /\ (Place(w, n, x, y, c) \div n) % w = x
         /\ (Place(w, n, x, y, c) \div n) \div w = y
         /\ Place(w, n, x, y, c) % n = c
<1>. DEFINE row == y * w + x
<1>1. row \in Nat /\ row \div w = y /\ row % w = x
  BY PlaceInRows
<1>. HIDE DEF row
<1>2. (row * n + c) \div n = row /\ (row * n + c) % n = c
  BY <1>1, PlaceInRows
<1>3. Place(w, n, x, y, c) = row * n + c
  BY DEF Place, row
<1>. QED
  BY <1>1, <1>2, <1>3 DEF row

(* Every index of the buffer is that of a sample.                          *)
LEMMA PlaceOfSample ==
  ASSUME NEW w \in Nat \ {0}, NEW h \in Nat \ {0}, NEW n \in Nat \ {0},
         NEW i \in Buffer(w * h * n)
  PROVE  /\ i \div n \in Nat /\ i \div n < w * h
         /\ i % n \in 0..(n - 1)
         /\ (i \div n) % w \in 0..(w - 1) /\ (i \div n) \div w \in 0..(h - 1)
         /\ i \div (w * n) \in 0..(h - 1)
<1>1. w * h \in Nat \ {0} /\ w * n \in Nat \ {0}
  BY TimesPositive
<1>2. i \in Nat /\ i < (w * h) * n /\ i < h * (w * n)
  <2>1. (w * h) * n = w * h * n /\ h * (w * n) = w * h * n /\ w * h * n \in Nat
    BY <1>1
  <2>. QED
    BY <2>1 DEF Buffer
<1>3. i \div n \in 0..(w * h - 1)
  BY <1>1, <1>2, QuotientBelow
<1>4. i \div n \in Nat /\ i \div n < h * w
  <2>1. w * h = h * w
    OBVIOUS
  <2>. QED
    BY <1>1, <1>3, <2>1
<1>5. (i \div n) \div w \in 0..(h - 1) /\ i \div (w * n) \in 0..(h - 1)
  BY <1>1, <1>2, <1>4, QuotientBelow
<1>6. (i \div n) % w \in 0..(w - 1) /\ i % n \in 0..(n - 1)
  BY <1>2, <1>4, Remainder
<1>. QED
  BY <1>1, <1>3, <1>4, <1>5, <1>6

----------------------------------------------------------------------------
(* Channels, sizes and buffer of a raster, as facts of arithmetic.         *)
LEMMA Shape ==
  ASSUME NEW r, WellFormed(r)
  PROVE  /\ r.width \in Nat \ {0} /\ r.height \in Nat \ {0} /\ Channels(r) \in 1..4
         /\ DOMAIN r.data = Buffer(r.width * r.height * Channels(r))
         /\ \A i \in Buffer(r.width * r.height * Channels(r)) : r.data[i] \in 0..255
BY ChannelsOf DEF WellFormed

(* A raster whose every sample is that of some sample of r, and of whose   *)
(* size nothing but the order of the sides differs.                        *)
LEMMA Gathered ==
  ASSUME NEW r, WellFormed(r), NEW q,
         q.layout = r.layout,
         q = [layout |-> q.layout, width |-> q.width, height |-> q.height, data |-> q.data],
         \/ q.width = r.width /\ q.height = r.height
         \/ q.width = r.height /\ q.height = r.width,
         q.data = [i \in DOMAIN r.data |-> q.data[i]],
         \A i \in DOMAIN r.data : \E j \in DOMAIN r.data : q.data[i] = r.data[j]
  PROVE  WellFormed(q) /\ Channels(q) = Channels(r)
<1>1. Channels(q) = Channels(r)
  BY DEF Channels
<1>2. q.width * q.height * Channels(q) = r.width * r.height * Channels(r)
  <2>1. q.width * q.height = r.width * r.height
    BY Shape
  <2>. QED
    BY <1>1, <2>1
<1>3. q.data \in [Buffer(q.width * q.height * Channels(q)) -> 0..255]
  BY <1>2, Shape
<1>. QED
  BY <1>1, <1>3 DEF WellFormed

(* Raster::mirror swaps left and right and nothing else.                   *)
LEMMA MirrorMoves ==
  ASSUME NEW r, WellFormed(r)
  PROVE  LET m == Mirrored(r)
         IN  /\ WellFormed(m) /\ Channels(m) = Channels(r)
             /\ m.layout = r.layout /\ m.width = r.width /\ m.height = r.height
             /\ \A x \in 0..(r.width - 1), y \in 0..(r.height - 1), c \in 0..(Channels(r) - 1) :
                  Sample(m, r.width - 1 - x, y, c) = Sample(r, x, y, c)
<1>. DEFINE m == Mirrored(r)
            w == r.width
            h == r.height
            n == Channels(r)
            From(i) == Place(w, n, w - 1 - ((i \div n) % w), i \div (w * n), i % n)
<1>1. /\ w \in Nat \ {0} /\ h \in Nat \ {0} /\ n \in Nat \ {0}
      /\ DOMAIN r.data = Buffer(w * h * n)
  BY Shape
<1>2. /\ m.layout = r.layout /\ m.width = w /\ m.height = h
      /\ m.data = [i \in DOMAIN r.data |-> r.data[From(i)]]
      /\ m = [layout |-> m.layout, width |-> m.width, height |-> m.height, data |-> m.data]
  BY DEF Mirrored, WellFormed, Place
<1>. HIDE DEF m, w, h, n
<1>3. ASSUME NEW i \in Buffer(w * h * n) PROVE From(i) \in Buffer(w * h * n)
  <2>1. /\ i \div (w * n) \in 0..(h - 1) /\ w - 1 - ((i \div n) % w) \in 0..(w - 1)
        /\ i % n \in 0..(n - 1)
    <3>1. /\ i \div (w * n) \in 0..(h - 1) /\ (i \div n) % w \in 0..(w - 1)
          /\ i % n \in 0..(n - 1)
      BY <1>1, PlaceOfSample
    <3>. QED
      BY <1>1, <3>1
  <2>. DEFINE x == w - 1 - ((i \div n) % w)
              y == i \div (w * n)
              c == i % n
  <2>2. x \in 0..(w - 1) /\ y \in 0..(h - 1) /\ c \in 0..(n - 1)
    BY <2>1
  <2>. HIDE DEF x, y, c
  <2>3. IsPlaceOf(Place(w, n, x, y, c), w, h, n, x, y, c)
    BY <1>1, <2>2, PlaceLeadsBack
  <2>. QED
    BY <2>3 DEF IsPlaceOf, x, y, c
<1>4. WellFormed(m) /\ Channels(m) = n
  BY <1>1, <1>2, <1>3, Gathered DEF w, h, n
<1>5. ASSUME NEW x \in 0..(w - 1), NEW y \in 0..(h - 1), NEW c \in 0..(n - 1)
      PROVE  Sample(m, w - 1 - x, y, c) = Sample(r, x, y, c)
  <2>. DEFINE u == w - 1 - x
              i == Place(w, n, u, y, c)
  <2>1. u \in 0..(w - 1) /\ w - 1 - u = x
    BY <1>1
  <2>. HIDE DEF u
  <2>2. /\ i \in Buffer(w * h * n) /\ i % n = c /\ (i \div n) % w = u
        /\ i \div (w * n) = y
    <3>1. IsPlaceOf(i, w, h, n, u, y, c)
      BY <1>1, <2>1, PlaceLeadsBack
    <3>. HIDE DEF i
    <3>. QED
      BY <3>1 DEF IsPlaceOf
  <2>3. m.data[i] = r.data[Place(w, n, x, y, c)]
    BY <1>1, <1>2, <2>1, <2>2
  <2>. QED
    BY <1>2, <1>4, <2>3 DEF Sample, Place, u, w, n
<1>. QED
  BY <1>2, <1>4, <1>5 DEF m, w, h, n

(* Raster::rotated_90 takes the top row to the right column.               *)
LEMMA QuarterMoves ==
  ASSUME NEW r, WellFormed(r)
  PROVE  LET m == Rotated90(r)
         IN  /\ WellFormed(m) /\ Channels(m) = Channels(r)
             /\ m.layout = r.layout /\ m.width = r.height /\ m.height = r.width
             /\ \A x \in 0..(r.width - 1), y \in 0..(r.height - 1), c \in 0..(Channels(r) - 1) :
                  Sample(m, r.height - 1 - y, x, c) = Sample(r, x, y, c)
<1>. DEFINE m == Rotated90(r)
            w == r.width
            h == r.height
            n == Channels(r)
            From(i) == Place(w, n, (i \div n) \div h, h - 1 - ((i \div n) % h), i % n)
<1>1. /\ w \in Nat \ {0} /\ h \in Nat \ {0} /\ n \in Nat \ {0}
      /\ DOMAIN r.data = Buffer(w * h * n)
  BY Shape
<1>2. /\ m.layout = r.layout /\ m.width = h /\ m.height = w
      /\ m.data = [i \in DOMAIN r.data |-> r.data[From(i)]]
      /\ m = [layout |-> m.layout, width |-> m.width, height |-> m.height, data |-> m.data]
  <2>. DEFINE data == [i \in DOMAIN r.data |-> r.data[From(i)]]
  <2>1. m = [r EXCEPT !.width = h, !.height = w, !.data = data]
    BY DEF Rotated90, Place
  <2>2. r = [layout |-> r.layout, width |-> r.width, height |-> r.height, data |-> r.data]
    BY DEF WellFormed
  <2>. HIDE DEF m, w, h, data
  <2>3. m = [layout |-> r.layout, width |-> h, height |-> w, data |-> data]
    BY <2>1, <2>2
  <2>. QED
    BY <2>3 DEF data
<1>. HIDE DEF m, w, h, n
<1>3. Buffer(w * h * n) = Buffer(h * w * n)
  BY <1>1
<1>4. ASSUME NEW i \in Buffer(w * h * n) PROVE From(i) \in Buffer(w * h * n)
  <2>1. /\ (i \div n) \div h \in 0..(w - 1) /\ (i \div n) % h \in 0..(h - 1)
        /\ i % n \in 0..(n - 1)
    BY <1>1, <1>3, PlaceOfSample
  <2>. DEFINE x == (i \div n) \div h
              y == h - 1 - ((i \div n) % h)
              c == i % n
  <2>2. x \in 0..(w - 1) /\ y \in 0..(h - 1) /\ c \in 0..(n - 1)
    BY <1>1, <2>1
  <2>. HIDE DEF x, y, c
  <2>3. Place(w, n, x, y, c) \in Buffer(w * h * n)
    BY <1>1, <2>2, SamplePlace
  <2>. QED
    BY <2>3 DEF x, y, c
<1>5. WellFormed(m) /\ Channels(m) = n
  BY <1>1, <1>2, <1>4, Gathered DEF w, h, n
<1>6. ASSUME NEW x \in 0..(w - 1), NEW y \in 0..(h - 1), NEW c \in 0..(n - 1)
      PROVE  Sample(m, h - 1 - y, x, c) = Sample(r, x, y, c)
  <2>. DEFINE u == h - 1 - y
              i == Place(h, n, u, x, c)
  <2>1. u \in 0..(h - 1) /\ h - 1 - u = y
    BY <1>1
  <2>. HIDE DEF u
  <2>2. /\ i \in Buffer(h * w * n) /\ i % n = c /\ (i \div n) % h = u
        /\ (i \div n) \div h = x
    <3>1. IsPlaceOf(i, h, w, n, u, x, c)
      BY <1>1, <2>1, PlaceLeadsBack
    <3>. HIDE DEF i
    <3>. QED
      BY <3>1 DEF IsPlaceOf
  <2>3. m.data[i] = r.data[Place(w, n, x, y, c)]
    BY <1>1, <1>2, <1>3, <2>1, <2>2
  <2>. QED
    BY <1>2, <1>5, <2>3 DEF Sample, Place, u, w, n
<1>. QED
  BY <1>2, <1>5, <1>6 DEF m, w, h, n

(* Raster::rotate_180 reverses both axes.                                  *)
LEMMA HalfMoves ==
  ASSUME NEW r, WellFormed(r)
  PROVE  LET m == Rotated180(r)
         IN  /\ WellFormed(m) /\ Channels(m) = Channels(r)
             /\ m.layout = r.layout /\ m.width = r.width /\ m.height = r.height
             /\ \A x \in 0..(r.width - 1), y \in 0..(r.height - 1), c \in 0..(Channels(r) - 1) :
                  Sample(m, r.width - 1 - x, r.height - 1 - y, c) = Sample(r, x, y, c)
<1>. DEFINE m == Rotated180(r)
            w == r.width
            h == r.height
            n == Channels(r)
            From(i) == (w * h - 1 - (i \div n)) * n + (i % n)
<1>1. /\ w \in Nat \ {0} /\ h \in Nat \ {0} /\ n \in Nat \ {0}
      /\ DOMAIN r.data = Buffer(w * h * n)
  BY Shape
<1>2. Cardinality(DOMAIN r.data) \div n = w * h
  <2>. HIDE DEF w, h, n
  <2>1. w * h \in Nat \ {0} /\ w * h * n \in Nat \ {0}
    <3>1. w * h \in Nat \ {0}
      BY <1>1, TimesPositive
    <3>. QED
      BY <1>1, <3>1, TimesPositive
  <2>2. Cardinality(Buffer(w * h * n)) = w * h * n
    <3>. DEFINE size == w * h * n
    <3>1. size \in Nat \ {0}
      BY <2>1
    <3>. HIDE DEF size
    <3>2. Cardinality(0..(size - 1)) = size
      BY <3>1, FS_Interval
    <3>. QED
      BY <3>2 DEF Buffer, size
  <2>3. (w * h * n) \div n = w * h
    BY <1>1, <2>1, QuotientIs
  <2>. QED
    BY <1>1, <2>2, <2>3
<1>3. /\ m.layout = r.layout /\ m.width = w /\ m.height = h
      /\ m.data = [i \in DOMAIN r.data |-> r.data[From(i)]]
      /\ m = [layout |-> m.layout, width |-> m.width, height |-> m.height, data |-> m.data]
  BY <1>2 DEF Rotated180, WellFormed
<1>. HIDE DEF m, w, h, n
<1>4. ASSUME NEW i \in Buffer(w * h * n) PROVE From(i) \in Buffer(w * h * n)
  <2>1. i \div n \in Nat /\ i \div n < w * h /\ i % n \in 0..(n - 1)
    BY <1>1, PlaceOfSample
  <2>2. w * h \in Nat
    BY <1>1
  <2>3. w * h - 1 - (i \div n) \in Nat /\ w * h - 1 - (i \div n) < w * h
    BY <2>1, <2>2
  <2>. HIDE DEF From
  <2>4. From(i) \in Nat /\ From(i) < (w * h) * n
    BY <1>1, <2>1, <2>2, <2>3, PlaceInRows DEF From
  <2>. QED
    BY <1>1, <2>2, <2>4 DEF Buffer
<1>5. WellFormed(m) /\ Channels(m) = n
  BY <1>1, <1>3, <1>4, Gathered DEF w, h, n
<1>6. ASSUME NEW x \in 0..(w - 1), NEW y \in 0..(h - 1), NEW c \in 0..(n - 1)
      PROVE  Sample(m, w - 1 - x, h - 1 - y, c) = Sample(r, x, y, c)
  <2>. DEFINE u == w - 1 - x
              v == h - 1 - y
              i == Place(w, n, u, v, c)
  <2>1. u \in 0..(w - 1) /\ v \in 0..(h - 1)
    BY <1>1
  <2>2. w * h - 1 - (v * w + u) = y * w + x
    BY <1>1
  <2>. HIDE DEF u, v
  <2>3. i \in Buffer(w * h * n) /\ i % n = c /\ i \div n = v * w + u
    <3>1. IsPlaceOf(i, w, h, n, u, v, c)
      BY <1>1, <2>1, PlaceLeadsBack
    <3>. HIDE DEF i
    <3>. QED
      BY <3>1 DEF IsPlaceOf
  <2>4. From(i) = Place(w, n, x, y, c)
    BY <2>2, <2>3 DEF Place
  <2>. HIDE DEF From
  <2>5. m.data[i] = r.data[Place(w, n, x, y, c)]
    BY <1>1, <1>3, <2>3, <2>4
  <2>. QED
    BY <1>3, <1>5, <2>5 DEF Sample, Place, u, v, w, n
<1>. QED
  BY <1>3, <1>5, <1>6 DEF m, w, h, n

(* Where quarters clockwise quarter turns move pixel (x, y) of r.          *)
TurnX(r, quarters, x, y) == CASE quarters = 1 -> r.height - 1 - y
                              [] quarters = 2 -> r.width - 1 - x
                              [] quarters = 3 -> y
                              [] OTHER        -> x
TurnY(r, quarters, x, y) == CASE quarters = 1 -> x
                              [] quarters = 2 -> r.height - 1 - y
                              [] quarters = 3 -> r.width - 1 - x
                              [] OTHER        -> y

(* Quarter turns compose: pixel (x, y) goes where TurnX and TurnY say.     *)
LEMMA TurnsMove ==
  ASSUME NEW r, WellFormed(r), NEW q \in 0..4
  PROVE  LET m == RotateQuarters(r, q)
         IN  /\ WellFormed(m) /\ Channels(m) = Channels(r) /\ m.layout = r.layout
             /\ \A x \in 0..(r.width - 1), y \in 0..(r.height - 1) :
                  /\ TurnX(r, q, x, y) \in 0..(m.width - 1)
                  /\ TurnY(r, q, x, y) \in 0..(m.height - 1)
                  /\ \A c \in 0..(Channels(r) - 1) :
                       Sample(m, TurnX(r, q, x, y), TurnY(r, q, x, y), c) = Sample(r, x, y, c)
<1>. DEFINE m == RotateQuarters(r, q)
            w == r.width
            h == r.height
<1>. SUFFICES /\ WellFormed(m) /\ Channels(m) = Channels(r) /\ m.layout = r.layout
              /\ \A x \in 0..(w - 1), y \in 0..(h - 1) :
                   /\ TurnX(r, q, x, y) \in 0..(m.width - 1)
                   /\ TurnY(r, q, x, y) \in 0..(m.height - 1)
                   /\ \A c \in 0..(Channels(r) - 1) :
                        Sample(m, TurnX(r, q, x, y), TurnY(r, q, x, y), c) = Sample(r, x, y, c)
  OBVIOUS
<1>1. w \in Nat \ {0} /\ h \in Nat \ {0} /\ Channels(r) \in 1..4
  BY Shape
<1>2. \A x \in 0..(w - 1), y \in 0..(h - 1) : /\ w - 1 - x \in 0..(w - 1)
                                             /\ h - 1 - y \in 0..(h - 1)
                                             /\ h - 1 - (h - 1 - y) = y
  BY <1>1
<1>3. CASE q = 1
  <2>1. m = Rotated90(r)
    BY <1>3 DEF RotateQuarters
  <2>2. \A x, y : TurnX(r, q, x, y) = h - 1 - y /\ TurnY(r, q, x, y) = x
    BY <1>3 DEF TurnX, TurnY
  <2>3. /\ WellFormed(m) /\ Channels(m) = Channels(r)
        /\ m.layout = r.layout /\ m.width = h /\ m.height = w
        /\ \A x \in 0..(w - 1), y \in 0..(h - 1), c \in 0..(Channels(r) - 1) :
             Sample(m, h - 1 - y, x, c) = Sample(r, x, y, c)
    BY <2>1, QuarterMoves
  <2>. HIDE DEF m, w, h
  <2>. QED
    BY <1>2, <2>2, <2>3
<1>4. CASE q = 2
  <2>1. m = Rotated180(r)
    BY <1>4 DEF RotateQuarters
  <2>2. \A x, y : TurnX(r, q, x, y) = w - 1 - x /\ TurnY(r, q, x, y) = h - 1 - y
    BY <1>4 DEF TurnX, TurnY
  <2>3. /\ WellFormed(m) /\ Channels(m) = Channels(r)
        /\ m.layout = r.layout /\ m.width = w /\ m.height = h
        /\ \A x \in 0..(w - 1), y \in 0..(h - 1), c \in 0..(Channels(r) - 1) :
             Sample(m, w - 1 - x, h - 1 - y, c) = Sample(r, x, y, c)
    BY <2>1, HalfMoves
  <2>. HIDE DEF m, w, h
  <2>. QED
    BY <1>2, <2>2, <2>3
<1>5. CASE q = 3
  <2>. DEFINE once == Rotated90(r)
  <2>1. m = Rotated180(once)
    BY <1>5 DEF RotateQuarters
  <2>2. /\ WellFormed(once) /\ Channels(once) = Channels(r)
        /\ once.layout = r.layout /\ once.width = h /\ once.height = w
        /\ \A x \in 0..(w - 1), y \in 0..(h - 1), c \in 0..(Channels(r) - 1) :
             Sample(once, h - 1 - y, x, c) = Sample(r, x, y, c)
    BY QuarterMoves
  <2>. HIDE DEF once, m
  <2>3. /\ WellFormed(m) /\ Channels(m) = Channels(r)
        /\ m.layout = r.layout /\ m.width = h /\ m.height = w
        /\ \A x \in 0..(h - 1), y \in 0..(w - 1), c \in 0..(Channels(r) - 1) :
             Sample(m, h - 1 - x, w - 1 - y, c) = Sample(once, x, y, c)
    BY <2>1, <2>2, HalfMoves
  <2>4. ASSUME NEW x \in 0..(w - 1), NEW y \in 0..(h - 1), NEW c \in 0..(Channels(r) - 1)
        PROVE  Sample(m, y, w - 1 - x, c) = Sample(r, x, y, c)
    <3>. DEFINE v == h - 1 - y
    <3>1. v \in 0..(h - 1) /\ h - 1 - v = y
      BY <1>2
    <3>2. Sample(once, v, x, c) = Sample(r, x, y, c)
      BY <2>2
    <3>. HIDE DEF v
    <3>3. Sample(m, h - 1 - v, w - 1 - x, c) = Sample(once, v, x, c)
      BY <2>3, <3>1
    <3>. QED
      BY <3>1, <3>2, <3>3
  <2>5. \A x, y : TurnX(r, q, x, y) = y /\ TurnY(r, q, x, y) = w - 1 - x
    BY <1>5 DEF TurnX, TurnY
  <2>. HIDE DEF w, h
  <2>. QED
    BY <1>2, <2>3, <2>4, <2>5
<1>6. CASE q \in {0, 4}
  <2>1. m = r
    BY <1>6 DEF RotateQuarters
  <2>2. \A x, y : TurnX(r, q, x, y) = x /\ TurnY(r, q, x, y) = y
    BY <1>6 DEF TurnX, TurnY
  <2>. HIDE DEF m
  <2>. QED
    BY <2>1, <2>2
<1>. QED
  BY <1>3, <1>4, <1>5, <1>6

----------------------------------------------------------------------------
(* The luma of three samples is a sample: its weights sum to one.          *)
LEMMA LumaRange ==
  ASSUME NEW red \in 0..255, NEW green \in 0..255, NEW blue \in 0..255
  PROVE  LumaOf(red, green, blue) \in 0..255
BY DEF LumaOf, Nearest

(* Gray keeps the size and needs no alpha.                                 *)
LEMMA GrayOpaque ==
  ASSUME NEW r, Opaque(r)
  PROVE  LET g == IntoGray(r)
         IN  Opaque(g) /\ g.layout = "gray" /\ g.width = r.width /\ g.height = r.height
<1>1. CASE r.layout = "gray"
  BY <1>1 DEF IntoGray
<1>2. CASE r.layout = "rgb"
  <2>. DEFINE size == r.width * r.height
              data == [i \in Buffer(size) |->
                         LumaOf(r.data[3 * i], r.data[3 * i + 1], r.data[3 * i + 2])]
              g == IntoGray(r)
  <2>1. size \in Nat \ {0}
    BY TimesPositive DEF Opaque, WellFormed
  <2>2. r = [layout |-> r.layout, width |-> r.width, height |-> r.height, data |-> r.data]
    BY DEF Opaque, WellFormed
  <2>3. r.data \in [Buffer(size * 3) -> 0..255]
    BY <1>2 DEF Opaque, WellFormed, Channels
  <2>4. g = [r EXCEPT !.layout = "gray", !.data = data]
    BY <1>2 DEF IntoGray
  <2>. HIDE DEF size, g
  <2>5. data \in [Buffer(size) -> 0..255]
    <3>. SUFFICES ASSUME NEW i \in Buffer(size)
                  PROVE  LumaOf(r.data[3 * i], r.data[3 * i + 1], r.data[3 * i + 2]) \in 0..255
      OBVIOUS
    <3>1. /\ 3 * i \in Buffer(size * 3) /\ 3 * i + 1 \in Buffer(size * 3)
          /\ 3 * i + 2 \in Buffer(size * 3)
      BY <2>1 DEF Buffer
    <3>. QED
      BY <2>3, <3>1, LumaRange, Zenon
  <2>. HIDE DEF data
  <2>6. g = [layout |-> "gray", width |-> r.width, height |-> r.height, data |-> data]
    BY <2>2, <2>4
  <2>7. g.width * g.height * Channels(g) = size
    BY <2>1, <2>6 DEF Channels, size
  <2>. QED
    BY <2>5, <2>6, <2>7 DEF Opaque, WellFormed, Layouts, g
<1>. QED
  BY <1>1, <1>2 DEF Opaque

(* No quality adds alpha.                                                  *)
LEMMA RecolouredOpaque ==
  ASSUME NEW r, Opaque(r), NEW quality
  PROVE  Opaque(Recoloured(r, quality))
<1>. DEFINE g == IntoGray(r)
            b == IntoBitonal(r)
            data == [i \in DOMAIN g.data |-> IF g.data[i] >= 128 THEN 255 ELSE 0]
<1>1. Opaque(g) /\ g.layout = "gray"
  BY GrayOpaque
<1>2. b = [g EXCEPT !.data = data]
  BY DEF IntoBitonal
<1>. HIDE DEF g, b
<1>3. data \in [DOMAIN g.data -> 0..255] /\ DOMAIN g.data = Buffer(g.width * g.height * Channels(g))
  BY <1>1 DEF Opaque, WellFormed
<1>4. g = [layout |-> g.layout, width |-> g.width, height |-> g.height, data |-> g.data]
  BY <1>1 DEF Opaque, WellFormed
<1>. HIDE DEF data
<1>5. b = [layout |-> g.layout, width |-> g.width, height |-> g.height, data |-> data]
  BY <1>2, <1>4
<1>6. Channels(b) = Channels(g)
  BY <1>5 DEF Channels
<1>7. Opaque(b)
  BY <1>1, <1>3, <1>5, <1>6 DEF Opaque, WellFormed
<1>. QED
  BY <1>1, <1>7 DEF Recoloured, g, b

----------------------------------------------------------------------------
(* The resampler returns opaque rasters.                                   *)
LEMMA InitIInv == Init => IInv
<1>. SUFFICES ASSUME Init PROVE IInv
  OBVIOUS
<1>1. resized \in Resized
  BY DEF Init
<1>2. Channels(resized) = IF resized.layout = "gray" THEN 1 ELSE 3
  BY <1>1, RasterAssumption DEF Channels
<1>3. Opaque(resized)
  BY <1>1, <1>2, RasterAssumption DEF Opaque, WellFormed, Layouts, Buffer
<1>. QED
  BY <1>3 DEF Init, IInv

(* Each stage makes its raster of the one before.                          *)
LEMMA StepIInv == IInv /\ [Next]_vars => IInv'
<1>. SUFFICES ASSUME IInv, [Next]_vars PROVE IInv'
  OBVIOUS
<1>1. CASE Recolour
  BY <1>1 DEF Recolour, IInv, Plans, Opaque, WellFormed, Channels
<1>2. CASE Mirror
  BY <1>2 DEF Mirror, IInv, Straight, Opaque, WellFormed, Channels
<1>3. CASE Rotate
  BY <1>3 DEF Rotate, IInv, Straight, Opaque, WellFormed, Channels
<1>4. CASE Encode
  BY <1>4 DEF Encode, IInv, Straight, Opaque, WellFormed, Channels
<1>5. CASE Refuse
  BY <1>5 DEF Refuse, IInv, Straight, Opaque, WellFormed, Channels
<1>6. CASE UNCHANGED vars
  BY <1>6 DEF vars, IInv, Straight, Opaque, WellFormed, Channels
<1>. QED
  BY <1>1, <1>2, <1>3, <1>4, <1>5, <1>6 DEF Next

(* Up to the rotation every raster is opaque and well formed.              *)
LEMMA UprightOpaque ==
  ASSUME IInv
  PROVE  Opaque(Recoloured(resized, plan.quality)) /\ Opaque(Straight)
<1>. DEFINE before == Recoloured(resized, plan.quality)
<1>1. Opaque(before)
  BY RecolouredOpaque DEF IInv
<1>. HIDE DEF before
<1>2. Opaque(Mirrored(before))
  BY <1>1, MirrorMoves DEF Opaque
<1>. QED
  BY <1>1, <1>2 DEF Straight, before

(* Mirroring and quarter turns move every pixel where the geometry says,   *)
(* for rasters of any size and layout.                                     *)
THEOREM QuartersExact == Spec => []QuarterTurnsExact
<1>1. ASSUME IInv PROVE QuarterTurnsExact
  <2>. SUFFICES ASSUME stage = "turned", ~Tilted PROVE QuarterTurnsExact
    BY DEF QuarterTurnsExact
  <2>. DEFINE before == Recoloured(resized, plan.quality)
              w == before.width
              h == before.height
              q == plan.rotation.quarters
              m(p) == IF plan.mirror THEN <<w - 1 - p[1], p[2]>> ELSE p
              to(p) == CASE q = 1 -> QuarterTurn(h, p)
                         [] q = 2 -> QuarterTurn(w, QuarterTurn(h, p))
                         [] q = 3 -> QuarterTurn(h, QuarterTurn(w, QuarterTurn(h, p)))
                         [] OTHER -> p
  <2>1. q \in 0..4 /\ image = RotateQuarters(upright, q) /\ upright = Straight
    BY <1>1 DEF IInv, Tilted, Plans, Quarters, Turned
  <2>2. Opaque(before) /\ Opaque(Straight)
    BY <1>1, UprightOpaque
  <2>3. /\ w \in Nat \ {0} /\ h \in Nat \ {0} /\ Channels(before) \in 1..4
    BY <2>2, Shape DEF Opaque
  <2>. SUFFICES ASSUME NEW p \in Pixels(before)
                PROVE  to(m(p)) \in Pixels(image) /\ Pixel(image, to(m(p))) = Pixel(before, p)
    BY DEF QuarterTurnsExact
  <2>. HIDE DEF before
  <2>4. /\ upright.width = w /\ upright.height = h /\ Channels(upright) = Channels(before)
        /\ WellFormed(upright)
        /\ m(p)[1] \in 0..(w - 1) /\ m(p)[2] \in 0..(h - 1) /\ m(p) = <<m(p)[1], m(p)[2]>>
        /\ \A c \in 0..(Channels(before) - 1) :
             Sample(upright, m(p)[1], m(p)[2], c) = Sample(before, p[1], p[2], c)
    <3>1. p[1] \in 0..(w - 1) /\ p[2] \in 0..(h - 1) /\ p = <<p[1], p[2]>>
      BY DEF Pixels
    <3>2. CASE plan.mirror
      <4>1. upright = Mirrored(before) /\ m(p) = <<w - 1 - p[1], p[2]>>
        BY <2>1, <3>2 DEF Straight, before
      <4>. HIDE DEF m
      <4>. QED
        BY <2>2, <2>3, <3>1, <4>1, MirrorMoves DEF Opaque
    <3>3. CASE ~plan.mirror
      <4>1. upright = before /\ m(p) = p
        BY <2>1, <3>3 DEF Straight, before
      <4>. HIDE DEF m
      <4>. QED
        BY <2>2, <3>1, <4>1 DEF Opaque
    <3>. QED
      BY <3>2, <3>3
  <2>. DEFINE at == m(p)
  <2>5. at = <<at[1], at[2]>> /\ at[1] \in 0..(w - 1) /\ at[2] \in 0..(h - 1)
    BY <2>4
  <2>6. to(at) = <<TurnX(upright, q, at[1], at[2]), TurnY(upright, q, at[1], at[2])>>
    <3>. HIDE DEF at, w, h, q
    <3>1. /\ QuarterTurn(h, at) = <<h - 1 - at[2], at[1]>>
          /\ QuarterTurn(w, QuarterTurn(h, at)) = <<w - 1 - at[1], h - 1 - at[2]>>
          /\ QuarterTurn(h, QuarterTurn(w, QuarterTurn(h, at))) = <<at[2], w - 1 - at[1]>>
      BY <2>3, <2>5 DEF QuarterTurn
    <3>2. upright.width = w /\ upright.height = h
      BY <2>4
    <3>. QED
      BY <2>1, <2>5, <3>1, <3>2 DEF TurnX, TurnY
  <2>. HIDE DEF to, at, q
  <2>7. /\ to(at)[1] \in 0..(image.width - 1) /\ to(at)[2] \in 0..(image.height - 1)
        /\ Channels(image) = Channels(before)
        /\ \A c \in 0..(Channels(before) - 1) :
             Sample(image, to(at)[1], to(at)[2], c) = Sample(upright, at[1], at[2], c)
    <3>1. /\ WellFormed(upright) /\ upright.width = w /\ upright.height = h
          /\ Channels(upright) = Channels(before)
      BY <2>4
    <3>. DEFINE x == at[1]
                y == at[2]
    <3>2. x \in 0..(upright.width - 1) /\ y \in 0..(upright.height - 1)
      BY <2>5, <3>1
    <3>3. to(at)[1] = TurnX(upright, q, x, y) /\ to(at)[2] = TurnY(upright, q, x, y)
      BY <2>6
    <3>. HIDE DEF x, y
    <3>4. /\ Channels(image) = Channels(upright)
          /\ TurnX(upright, q, x, y) \in 0..(image.width - 1)
          /\ TurnY(upright, q, x, y) \in 0..(image.height - 1)
          /\ \A c \in 0..(Channels(upright) - 1) :
               Sample(image, TurnX(upright, q, x, y), TurnY(upright, q, x, y), c)
                 = Sample(upright, x, y, c)
      BY <2>1, <3>1, <3>2, TurnsMove
    <3>. QED
      BY <3>1, <3>3, <3>4 DEF x, y
  <2>8. to(at) \in Pixels(image)
    BY <2>6, <2>7 DEF Pixels
  <2>9. Pixel(image, to(at)) = Pixel(before, p)
    <3>1. \A c \in 0..(Channels(before) - 1) :
            Sample(image, to(at)[1], to(at)[2], c) = Sample(before, p[1], p[2], c)
      BY <2>4, <2>7 DEF at
    <3>. QED
      BY <2>7, <3>1 DEF Pixel
  <2>. QED
    BY <2>8, <2>9 DEF at
<1>. QED
  BY <1>1, InitIInv, StepIInv, PTL DEF Spec

----------------------------------------------------------------------------
(* Tilting.                                                                *)
LEMMA CeilDivIs ==
  ASSUME NEW n \in Nat \ {0}, NEW d \in Nat \ {0}
  PROVE  /\ CeilDiv(n, d) \in Nat \ {0}
         /\ (CeilDiv(n, d) - 1) * d < n /\ n <= CeilDiv(n, d) * d
<1>. DEFINE k == (-n) \div d
<1>1. k \in Int /\ k * d <= -n /\ -n < k * d + d
  OBVIOUS
<1>2. CeilDiv(n, d) = -k
  BY DEF CeilDiv
<1>. HIDE DEF k
<1>3. k < 0
  <2>1. CASE k >= 0
    <3>1. k * d >= 0
      BY <1>1, <2>1
    <3>. QED
      BY <1>1, <3>1
  <2>. QED
    BY <1>1, <2>1
<1>4. (-k - 1) * d = -(k * d) - d /\ (-k) * d = -(k * d)
  BY <1>1
<1>. QED
  BY <1>1, <1>2, <1>3, <1>4

(* The size of a number that is not 0.                                     *)
LEMMA AbsPositive ==
  ASSUME NEW n \in Int \ {0}
  PROVE  Abs(n) \in Nat \ {0}
BY DEF Abs

(* The canvas is the least whole number of pixels as long as the tilted    *)
(* raster.                                                                 *)
LEMMA CanvasSides ==
  ASSUME NEW r, WellFormed(r), NEW a \in Tilts
  PROVE  LET across == r.height * Abs(a.sin) + r.width * Abs(a.cos)
             down   == r.height * Abs(a.cos) + r.width * Abs(a.sin)
             canvas == Canvas(r, a)
         IN  /\ across \in Nat \ {0} /\ down \in Nat \ {0}
             /\ canvas.width \in Nat \ {0} /\ canvas.height \in Nat \ {0}
             /\ (canvas.width - 1) * a.hyp < across /\ across <= canvas.width * a.hyp
             /\ (canvas.height - 1) * a.hyp < down /\ down <= canvas.height * a.hyp
<1>. DEFINE across == r.height * Abs(a.sin) + r.width * Abs(a.cos)
            down   == r.height * Abs(a.cos) + r.width * Abs(a.sin)
            canvas == Canvas(r, a)
<1>1. /\ Abs(a.sin) \in Nat \ {0} /\ Abs(a.cos) \in Nat \ {0} /\ a.hyp \in Nat \ {0}
      /\ r.width \in Nat \ {0} /\ r.height \in Nat \ {0}
  BY AbsPositive, RasterAssumption DEF WellFormed
<1>2. across \in Nat \ {0} /\ down \in Nat \ {0}
  <2>1. /\ r.height * Abs(a.sin) \in Nat \ {0} /\ r.width * Abs(a.cos) \in Nat \ {0}
        /\ r.height * Abs(a.cos) \in Nat \ {0} /\ r.width * Abs(a.sin) \in Nat \ {0}
    BY <1>1, TimesPositive
  <2>. QED
    BY <2>1
<1>3. canvas.width = CeilDiv(across, a.hyp) /\ canvas.height = CeilDiv(down, a.hyp)
  BY DEF Canvas
<1>. HIDE DEF across, down, canvas
<1>4. /\ canvas.width \in Nat \ {0} /\ canvas.height \in Nat \ {0}
      /\ (canvas.width - 1) * a.hyp < across /\ across <= canvas.width * a.hyp
      /\ (canvas.height - 1) * a.hyp < down /\ down <= canvas.height * a.hyp
  BY <1>1, <1>2, <1>3, CeilDivIs
<1>. QED
  BY <1>2, <1>4 DEF across, down, canvas

(* Wherever a source point lies, its weight is within 0 and 1.             *)
LEMMA WeightRange ==
  ASSUME NEW s \in Int, NEW a \in Tilts
  PROVE  /\ Floor(s, a) \in Nat
         /\ 2 * a.hyp \in Nat \ {0} /\ Fraction(s, a) \in 0..(2 * a.hyp)
<1>1. a.hyp \in Nat \ {0}
  BY RasterAssumption
<1>2. s \div (2 * a.hyp) \in Int /\ 2 * a.hyp \in Nat \ {0}
  BY <1>1
<1>3. Floor(s, a) \in Nat
  BY <1>2 DEF Floor
<1>. DEFINE one == 2 * a.hyp
            f == s - Floor(s, a) * 2 * a.hyp
<1>4. f \in Int
  BY <1>1, <1>3
<1>5. Fraction(s, a) = IF f < 0 THEN 0 ELSE IF f > one THEN one ELSE f
  BY DEF Fraction
<1>. HIDE DEF f
<1>6. Fraction(s, a) \in 0..one
  BY <1>2, <1>4, <1>5
<1>. QED
  BY <1>2, <1>3, <1>6

(* A clamped value is a sample.                                            *)
LEMMA ClampRange == ASSUME NEW v \in Int PROVE Clamp8(v) \in 0..255
BY DEF Clamp8, Least

Within(v, lo, hi) == v \in lo..hi

(* What Bilinear computes of four samples and two weights.                 *)
Blend(one, fx, fy, s11, s01, s10, s00) ==
  Nearest(s11 * fx * fy + s01 * (one - fx) * fy + s10 * fx * (one - fy)
            + s00 * (one - fx) * (one - fy), one * one)

(* A weighted mean lies between the least and the greatest.                *)
LEMMA Mean ==
  ASSUME NEW lo \in Nat, NEW hi \in Nat, NEW one \in Nat \ {0},
         NEW fx \in 0..one, NEW fy \in 0..one,
         NEW s11, NEW s01, NEW s10, NEW s00,
         Within(s11, lo, hi), Within(s01, lo, hi), Within(s10, lo, hi), Within(s00, lo, hi)
  PROVE  Within(Blend(one, fx, fy, s11, s01, s10, s00), lo, hi)
<1>. DEFINE A == fx * fy
            B == (one - fx) * fy
            C == fx * (one - fy)
            D == (one - fx) * (one - fy)
            all == one * one
            sum == s11 * A + s01 * B + s10 * C + s00 * D
<1>1. /\ one - fx \in Nat /\ one - fy \in Nat /\ fx \in Nat /\ fy \in Nat
      /\ s11 \in lo..hi /\ s01 \in lo..hi /\ s10 \in lo..hi /\ s00 \in lo..hi
  BY DEF Within
<1>2. A \in Nat /\ B \in Nat /\ C \in Nat /\ D \in Nat /\ all \in Nat \ {0}
  BY <1>1, TimesPositive
<1>3. A + B + C + D = all
  BY <1>1
<1>4. s11 * fx * fy + s01 * (one - fx) * fy + s10 * fx * (one - fy) + s00 * (one - fx) * (one - fy) = sum
  BY <1>1
<1>. HIDE DEF A, B, C, D, all
<1>5. /\ lo * A <= s11 * A /\ s11 * A <= hi * A /\ lo * B <= s01 * B /\ s01 * B <= hi * B
      /\ lo * C <= s10 * C /\ s10 * C <= hi * C /\ lo * D <= s00 * D /\ s00 * D <= hi * D
  BY <1>1, <1>2, TimesLeq
<1>6. lo * all = lo * A + lo * B + lo * C + lo * D /\ hi * all = hi * A + hi * B + hi * C + hi * D
  BY <1>2, <1>3
<1>7. sum \in Nat /\ lo * all <= sum /\ sum <= hi * all
  BY <1>1, <1>2, <1>5, <1>6
<1>. HIDE DEF sum
<1>. DEFINE n == 2 * sum + all
            k == n \div (2 * all)
<1>8. n \in Nat /\ 2 * all \in Nat \ {0}
  BY <1>2, <1>7
<1>9. lo * (2 * all) <= n /\ n < (hi + 1) * (2 * all)
  <2>1. lo * (2 * all) = 2 * (lo * all) /\ (hi + 1) * (2 * all) = 2 * (hi * all) + 2 * all
    BY <1>2
  <2>. QED
    BY <1>2, <1>7, <2>1
<1>. HIDE DEF n
<1>10. k \in 0..hi
  BY <1>8, <1>9, QuotientBelow
<1>11. lo <= k
  <2>1. k \in Nat /\ n < k * (2 * all) + 2 * all
    BY <1>8, Quotient
  <2>2. CASE k + 1 <= lo
    <3>1. (k + 1) * (2 * all) <= lo * (2 * all)
      BY <1>8, <2>1, <2>2, TimesLeq
    <3>2. (k + 1) * (2 * all) = k * (2 * all) + 2 * all
      BY <1>2, <2>1
    <3>. QED
      BY <1>8, <1>9, <2>1, <3>1, <3>2
  <2>. QED
    BY <2>1, <2>2
<1>. QED
  BY <1>4, <1>10, <1>11 DEF Within, Blend, Nearest, n, all

(* The samples inside a raster are samples.                                *)
LEMMA SampleRange ==
  ASSUME NEW r, WellFormed(r), NEW x \in 0..(r.width - 1), NEW y \in 0..(r.height - 1),
         NEW c \in 0..(Channels(r) - 1)
  PROVE  Sample(r, x, y, c) \in 0..255
<1>1. r.width \in Nat \ {0} /\ r.height \in Nat \ {0} /\ Channels(r) \in Nat \ {0}
  BY Shape
<1>2. Place(r.width, Channels(r), x, y, c) \in Buffer(r.width * r.height * Channels(r))
  BY <1>1, SamplePlace
<1>3. Sample(r, x, y, c) = r.data[Place(r.width, Channels(r), x, y, c)]
  BY DEF Sample, Place
<1>. QED
  BY <1>2, <1>3, Shape

(* Channel c of r stays within lo and hi.                                  *)
Between(r, c, lo, hi) ==
  \A x \in 0..(r.width - 1), y \in 0..(r.height - 1) : Within(Sample(r, x, y, c), lo, hi)

(* A weighted mean of four samples lies between any bounds all samples     *)
(* keep.                                                                   *)
LEMMA BilinearBetween ==
  ASSUME NEW r, WellFormed(r), NEW a \in Tilts, NEW sx \in Int, NEW sy \in Int,
         NEW c \in 0..(Channels(r) - 1), NEW lo \in 0..255, NEW hi \in 0..255,
         Between(r, c, lo, hi)
  PROVE  Within(Bilinear(r, a, sx, sy, c), lo, hi)
<1>. DEFINE one == 2 * a.hyp
            fx == Fraction(sx, a)
            fy == Fraction(sy, a)
            x0 == Least(Floor(sx, a), r.width - 1)
            y0 == Least(Floor(sy, a), r.height - 1)
            x1 == Least(x0 + 1, r.width - 1)
            y1 == Least(y0 + 1, r.height - 1)
            s11 == Sample(r, x1, y1, c)
            s01 == Sample(r, x0, y1, c)
            s10 == Sample(r, x1, y0, c)
            s00 == Sample(r, x0, y0, c)
            mean == Blend(one, fx, fy, s11, s01, s10, s00)
<1>1. r.width \in Nat \ {0} /\ r.height \in Nat \ {0}
  BY Shape
<1>2. /\ one \in Nat \ {0} /\ fx \in 0..one /\ fy \in 0..one
      /\ Floor(sx, a) \in Nat /\ Floor(sy, a) \in Nat
  BY WeightRange
<1>3. x0 \in 0..(r.width - 1) /\ y0 \in 0..(r.height - 1)
  BY <1>1, <1>2 DEF Least
<1>. HIDE DEF x0, y0
<1>4. x1 \in 0..(r.width - 1) /\ y1 \in 0..(r.height - 1)
  BY <1>1, <1>3 DEF Least
<1>. HIDE DEF x1, y1
<1>5. Within(s11, lo, hi) /\ Within(s01, lo, hi) /\ Within(s10, lo, hi) /\ Within(s00, lo, hi)
  BY <1>3, <1>4 DEF Between
<1>6. Bilinear(r, a, sx, sy, c) = Clamp8(mean)
  BY DEF Bilinear, Blend, x0, x1, y0, y1
<1>. HIDE DEF one, fx, fy, s11, s01, s10, s00
<1>7. Within(mean, lo, hi)
  <2>1. lo \in Nat /\ hi \in Nat
    OBVIOUS
  <2>. QED
    BY <1>2, <1>5, <2>1, Mean, Zenon
<1>. HIDE DEF mean
<1>8. Clamp8(mean) = mean
  BY <1>7 DEF Clamp8, Least, Within
<1>. QED
  BY <1>6, <1>7, <1>8

(* Whether a pixel of the canvas misses the raster, and its sample c of n. *)
Misses(r, a, x, y) == \/ ~Inside(SourceX(r, a, Canvas(r, a), x, y), r.width, a)
                      \/ ~Inside(SourceY(r, a, Canvas(r, a), x, y), r.height, a)

Shown(r, a, x, y, c) ==
  Bilinear(r, a, SourceX(r, a, Canvas(r, a), x, y), SourceY(r, a, Canvas(r, a), x, y), c)

TiltSample(r, a, n, x, y, c) == IF Misses(r, a, x, y) THEN 0
                                ELSE IF c = n - 1 THEN 255
                                ELSE Shown(r, a, x, y, c)

(* What a canvas pixel shows lies between the bounds of the raster.        *)
LEMMA ShownBetween ==
  ASSUME NEW r, WellFormed(r), NEW a \in Tilts, NEW x \in Int, NEW y \in Int,
         NEW c \in 0..(Channels(r) - 1), NEW lo \in 0..255, NEW hi \in 0..255,
         Between(r, c, lo, hi)
  PROVE  Within(Shown(r, a, x, y, c), lo, hi)
<1>. DEFINE sx == SourceX(r, a, Canvas(r, a), x, y)
            sy == SourceY(r, a, Canvas(r, a), x, y)
<1>1. /\ Canvas(r, a).width \in Nat /\ Canvas(r, a).height \in Nat
      /\ r.width \in Nat /\ r.height \in Nat
      /\ a.cos \in Int /\ a.sin \in Int /\ a.hyp \in Nat
  BY CanvasSides, RasterAssumption DEF WellFormed
<1>2. sx \in Int /\ sy \in Int
  BY <1>1 DEF SourceX, SourceY
<1>. HIDE DEF sx, sy
<1>3. Within(Bilinear(r, a, sx, sy, c), lo, hi)
  BY <1>2, BilinearBetween, Zenon
<1>. QED
  BY <1>3, Zenon DEF Shown, sx, sy

(* A canvas pixel off the raster is all 0; another has alpha 255 and shows *)
(* the raster.                                                             *)
LEMMA TiltSampleIs ==
  ASSUME NEW r, Opaque(r), NEW a \in Tilts, NEW n, n = Channels(r) + 1,
         NEW x \in Int, NEW y \in Int, NEW c \in 0..(n - 1)
  PROVE  /\ TiltSample(r, a, n, x, y, c) \in 0..255
         /\ c = n - 1 => TiltSample(r, a, n, x, y, c) = IF Misses(r, a, x, y) THEN 0 ELSE 255
         /\ c # n - 1 /\ ~Misses(r, a, x, y) =>
              TiltSample(r, a, n, x, y, c) = Shown(r, a, x, y, c)
<1>1. Channels(r) \in 1..4 /\ WellFormed(r)
  BY Shape DEF Opaque
<1>2. c # n - 1 => Shown(r, a, x, y, c) \in 0..255
  <2>. SUFFICES ASSUME c # n - 1 PROVE Shown(r, a, x, y, c) \in 0..255
    OBVIOUS
  <2>1. c \in 0..(Channels(r) - 1)
    BY <1>1
  <2>2. Between(r, c, 0, 255)
    BY <1>1, <2>1, SampleRange DEF Between, Within
  <2>3. 0 \in 0..255 /\ 255 \in 0..255
    OBVIOUS
  <2>4. Within(Shown(r, a, x, y, c), 0, 255)
    <3>1. WellFormed(r)
      BY <1>1
    <3>. QED
      BY <2>1, <2>2, <2>3, <3>1, ShownBetween, ZenonT(40)
  <2>. QED
    BY <2>4 DEF Within
<1>3. CASE Misses(r, a, x, y)
  <2>1. TiltSample(r, a, n, x, y, c) = 0
    BY <1>3 DEF TiltSample
  <2>. QED
    BY <1>3, <2>1
<1>4. CASE ~Misses(r, a, x, y) /\ c = n - 1
  <2>1. TiltSample(r, a, n, x, y, c) = 255
    BY <1>4, Zenon DEF TiltSample
  <2>. QED
    BY <1>4, <2>1
<1>5. CASE ~Misses(r, a, x, y) /\ c # n - 1
  <2>1. TiltSample(r, a, n, x, y, c) = Shown(r, a, x, y, c)
    BY <1>5, Zenon DEF TiltSample
  <2>. QED
    BY <1>2, <1>5, <2>1
<1>. QED
  BY <1>3, <1>4, <1>5

(* rotate_arbitrary, sample by sample.                                     *)
LEMMA TiltIs ==
  ASSUME NEW r, Opaque(r), NEW a \in Tilts
  PROVE  LET n == Channels(r) + 1
             w == Canvas(r, a).width
             h == Canvas(r, a).height
         IN  RotateArbitrary(r, a) =
               [layout |-> IF n = 2 THEN "graya" ELSE "rgba", width |-> w, height |-> h,
                data |-> [i \in Buffer(w * h * n) |->
                            TiltSample(r, a, n, (i \div n) % w, (i \div n) \div w, i % n)]]
<1>. DEFINE n == IF r.layout = "gray" THEN 2 ELSE 4
            w == Canvas(r, a).width
            h == Canvas(r, a).height
<1>1. n = Channels(r) + 1
  BY DEF Opaque, Channels
<1>2. RotateArbitrary(r, a) =
        [layout |-> IF n = 2 THEN "graya" ELSE "rgba", width |-> w, height |-> h,
         data |-> [i \in Buffer(w * h * n) |->
                     TiltSample(r, a, n, (i \div n) % w, (i \div n) \div w, i % n)]]
  BY Zenon DEF RotateArbitrary, TiltSample, Misses, Shown
<1>. HIDE DEF n
<1>. QED
  BY <1>1, <1>2

(* A tilted raster has one channel more, either 0 or 255, and where it is  *)
(* 255 the others keep the bounds of the samples they are made of.         *)
LEMMA TiltShape ==
  ASSUME NEW r, Opaque(r), NEW a \in Tilts, NEW m, m = RotateArbitrary(r, a)
  PROVE  LET n == Channels(r) + 1
         IN  /\ WellFormed(m) /\ m.layout \in {"graya", "rgba"} /\ Channels(m) = n
             /\ m.width = Canvas(r, a).width /\ m.height = Canvas(r, a).height
             /\ \A x \in 0..(m.width - 1), y \in 0..(m.height - 1), c \in 0..(n - 1) :
                  Sample(m, x, y, c) = TiltSample(r, a, n, x, y, c)
<1>. DEFINE n == Channels(r) + 1
            w == Canvas(r, a).width
            h == Canvas(r, a).height
            data == [i \in Buffer(w * h * n) |->
                       TiltSample(r, a, n, (i \div n) % w, (i \div n) \div w, i % n)]
<1>1. m = [layout |-> IF n = 2 THEN "graya" ELSE "rgba", width |-> w, height |-> h, data |-> data]
  BY TiltIs
<1>2. n \in {2, 4} /\ n = Channels(r) + 1
  BY DEF Opaque, Channels
<1>3. n \in Nat \ {0} /\ w \in Nat \ {0} /\ h \in Nat \ {0}
  BY <1>2, CanvasSides DEF Opaque
<1>. HIDE DEF n, w, h
<1>4. data \in [Buffer(w * h * n) -> 0..255]
  <2>. SUFFICES ASSUME NEW i \in Buffer(w * h * n)
                PROVE  TiltSample(r, a, n, (i \div n) % w, (i \div n) \div w, i % n) \in 0..255
    OBVIOUS
  <2>. DEFINE x == (i \div n) % w
              y == (i \div n) \div w
              c == i % n
  <2>1. x \in 0..(w - 1) /\ y \in 0..(h - 1) /\ c \in 0..(n - 1)
    BY <1>3, PlaceOfSample
  <2>2. x \in Int /\ y \in Int
    BY <2>1
  <2>. HIDE DEF x, y, c
  <2>3. TiltSample(r, a, n, x, y, c) \in 0..255
    BY <1>2, <2>1, <2>2, TiltSampleIs
  <2>. QED
    BY <2>3 DEF x, y, c
<1>5. Channels(m) = n
  BY <1>1, <1>2 DEF Channels
<1>6. ASSUME NEW x \in 0..(w - 1), NEW y \in 0..(h - 1), NEW c \in 0..(n - 1)
      PROVE  Sample(m, x, y, c) = TiltSample(r, a, n, x, y, c)
  <2>. DEFINE i == Place(w, n, x, y, c)
  <2>1. /\ i \in Buffer(w * h * n) /\ (i \div n) % w = x /\ (i \div n) \div w = y
        /\ i % n = c
    <3>. HIDE DEF data
    <3>1. w \in Nat \ {0} /\ h \in Nat \ {0} /\ n \in Nat \ {0}
      BY <1>3
    <3>2. x \in 0..(w - 1) /\ y \in 0..(h - 1) /\ c \in 0..(n - 1)
      OBVIOUS
    <3>3. i \in Buffer(w * h * n)
      BY <3>1, <3>2, SamplePlace, Zenon
    <3>4. y \in Nat
      BY <3>1, <3>2
    <3>5. (i \div n) % w = x /\ (i \div n) \div w = y /\ i % n = c
      BY <3>1, <3>2, <3>4, PartsOfPlace
    <3>. QED
      BY <3>3, <3>5
  <2>2. Sample(m, x, y, c) = data[i]
    BY <1>1, <1>5 DEF Sample, Place
  <2>. HIDE DEF i
  <2>. QED
    BY <2>1, <2>2
<1>. HIDE DEF data
<1>7. WellFormed(m)
  BY <1>1, <1>2, <1>3, <1>4, <1>5 DEF WellFormed, Layouts
<1>8. m.layout \in {"graya", "rgba"} /\ m.width = w /\ m.height = h
  BY <1>1
<1>. QED
  BY <1>5, <1>6, <1>7, <1>8 DEF n, w, h

----------------------------------------------------------------------------
(* The composite fits a byte, keeps an opaque value, and turns a clear one *)
(* white.                                                                  *)
LEMMA CompositeIs ==
  ASSUME NEW v \in 0..255, NEW alpha \in 0..255
  PROVE  /\ Composite(v, alpha) \in 0..255
         /\ alpha = 255 => Composite(v, alpha) = v
         /\ alpha = 0 => Composite(v, alpha) = 255
<1>. DEFINE sum == v * alpha + 255 * (255 - alpha) + 127
<1>1. v * alpha \in Nat /\ v * alpha <= 255 * alpha
  BY TimesLeq
<1>2. sum \in Nat /\ sum <= 65152
  <2>. DEFINE prod == v * alpha
  <2>1. prod \in Nat /\ prod <= 255 * alpha
    BY <1>1
  <2>. HIDE DEF prod
  <2>2. /\ prod + 255 * (255 - alpha) + 127 \in Nat
        /\ prod + 255 * (255 - alpha) + 127 <= 65152
    BY <2>1
  <2>. QED
    BY <2>2 DEF prod
<1>3. Composite(v, alpha) = (sum % 65536) \div 255
  <2>1. 2^16 = 65536
    OBVIOUS
  <2>. QED
    BY <2>1 DEF Composite
<1>4. alpha = 255 => sum = v * 255 + 127
  OBVIOUS
<1>5. alpha = 0 => sum = 65152
  OBVIOUS
<1>. HIDE DEF sum
<1>6. Composite(v, alpha) = sum \div 255
  <2>1. sum % 65536 = sum
    BY <1>2
  <2>. QED
    BY <1>3, <2>1
<1>7. sum \div 255 \in 0..255
  BY <1>2
<1>8. alpha = 255 => sum \div 255 = v
  BY <1>4
<1>9. alpha = 0 => sum \div 255 = 255
  BY <1>5
<1>. QED
  BY <1>6, <1>7, <1>8, <1>9

(* flatten_over_white drops the alpha and composites the rest.             *)
LEMMA FlattenShape ==
  ASSUME NEW r, WellFormed(r), r.layout \in {"graya", "rgba"}, NEW f, f = FlattenOverWhite(r)
  PROVE  LET n == Channels(r) - 1
         IN  /\ Opaque(f) /\ Channels(f) = n /\ f.width = r.width /\ f.height = r.height
             /\ \A x \in 0..(r.width - 1), y \in 0..(r.height - 1), c \in 0..(n - 1) :
                  Sample(f, x, y, c) = Composite(Sample(r, x, y, c), Sample(r, x, y, n))
<1>. DEFINE n == Channels(r) - 1
            w == r.width
            h == r.height
            data == [i \in Buffer(w * h * n) |->
                       Composite(r.data[(i \div n) * (n + 1) + (i % n)],
                                 r.data[(i \div n) * (n + 1) + n])]
<1>1. n \in {1, 3} /\ Channels(r) = n + 1 /\ (n = 1 <=> r.layout = "graya")
  BY DEF Channels
<1>2. /\ n \in Nat \ {0} /\ n + 1 \in Nat \ {0} /\ w \in Nat \ {0} /\ h \in Nat \ {0}
      /\ n \in 0..(n + 1 - 1)
  BY <1>1, Shape
<1>3. f = [r EXCEPT !.layout = IF n + 1 = 2 THEN "gray" ELSE "rgb", !.data = data]
  <2>1. Channels(r) - 1 = n
    BY <1>1
  <2>. QED
    BY <1>1, <2>1 DEF FlattenOverWhite
<1>4. r = [layout |-> r.layout, width |-> r.width, height |-> r.height, data |-> r.data]
  BY DEF WellFormed
<1>. HIDE DEF n, w, h
<1>5. \A i \in Buffer(w * h * (n + 1)) : r.data[i] \in 0..255
  BY <1>1, Shape DEF w, h
<1>. DEFINE layout == IF n + 1 = 2 THEN "gray" ELSE "rgb"
<1>. HIDE DEF data, layout
<1>6. f = [layout |-> layout, width |-> w, height |-> h, data |-> data]
  <2>1. f = [r EXCEPT !.layout = layout, !.data = data]
    BY <1>3 DEF layout
  <2>2. f = [layout |-> layout, width |-> r.width, height |-> r.height, data |-> data]
    BY <1>4, <2>1
  <2>. QED
    BY <2>2 DEF w, h
<1>7. Channels(f) = n /\ layout \in {"gray", "rgb"}
  BY <1>1, <1>6 DEF Channels, layout
<1>8. ASSUME NEW x \in 0..(w - 1), NEW y \in 0..(h - 1), NEW c \in 0..n
      PROVE  /\ Sample(r, x, y, c) = r.data[Place(w, n + 1, x, y, c)]
             /\ Sample(r, x, y, c) \in 0..255
  <2>1. Sample(r, x, y, c) = r.data[Place(w, n + 1, x, y, c)]
    BY <1>1 DEF Sample, Place, w
  <2>2. c \in 0..(Channels(r) - 1)
    BY <1>1
  <2>3. Sample(r, x, y, c) \in 0..255
    BY <2>2, SampleRange DEF w, h
  <2>. QED
    BY <2>1, <2>3
<1>9. ASSUME NEW x \in 0..(w - 1), NEW y \in 0..(h - 1), NEW c \in 0..(n - 1)
      PROVE  Composite(Sample(r, x, y, c), Sample(r, x, y, n)) \in 0..255
  <2>1. c \in 0..n /\ n \in 0..n
    BY <1>2
  <2>. DEFINE v == Sample(r, x, y, c)
              alpha == Sample(r, x, y, n)
  <2>2. v \in 0..255 /\ alpha \in 0..255
    BY <1>8, <2>1, Zenon
  <2>. HIDE DEF v, alpha
  <2>3. Composite(v, alpha) \in 0..255
    BY <2>2, CompositeIs, Zenon
  <2>. QED
    BY <2>3 DEF v, alpha
<1>10. ASSUME NEW x \in 0..(w - 1), NEW y \in 0..(h - 1), NEW c \in 0..(n - 1),
              NEW i \in Buffer(w * h * n), i \div n = y * w + x, i % n = c
       PROVE  data[i] = Composite(Sample(r, x, y, c), Sample(r, x, y, n))
  <2>1. c \in 0..n /\ n \in 0..n
    BY <1>2
  <2>2. data[i] = Composite(r.data[(y * w + x) * (n + 1) + c], r.data[(y * w + x) * (n + 1) + n])
    BY <1>10 DEF data
  <2>. QED
    BY <1>8, <2>1, <2>2 DEF Place
<1>11. data \in [Buffer(w * h * n) -> 0..255]
  <2>1. ASSUME NEW i \in Buffer(w * h * n) PROVE data[i] \in 0..255
    <3>. DEFINE x == (i \div n) % w
                y == (i \div n) \div w
                c == i % n
    <3>1. x \in 0..(w - 1) /\ y \in 0..(h - 1) /\ c \in 0..(n - 1) /\ i \div n \in Nat
      BY <1>2, PlaceOfSample
    <3>2. i \div n = y * w + x
      BY <1>2, <3>1, Remainder
    <3>3. i % n = c
      OBVIOUS
    <3>. HIDE DEF x, y, c
    <3>. QED
      BY <1>9, <1>10, <3>1, <3>2, <3>3
  <2>2. data = [i \in Buffer(w * h * n) |-> data[i]]
    BY DEF data
  <2>. QED
    BY <2>1, <2>2
<1>12. ASSUME NEW x \in 0..(w - 1), NEW y \in 0..(h - 1), NEW c \in 0..(n - 1)
       PROVE  Sample(f, x, y, c) = Composite(Sample(r, x, y, c), Sample(r, x, y, n))
  <2>. DEFINE i == Place(w, n, x, y, c)
  <2>1. i \in Buffer(w * h * n) /\ i \div n = y * w + x /\ i % n = c
    <3>1. i \in Buffer(w * h * n)
      BY <1>2, SamplePlace, Zenon
    <3>2. y \in Nat /\ y * w + x \in Nat
      BY <1>2, PlaceInRows
    <3>3. i \div n = y * w + x /\ i % n = c
      BY <1>2, <3>2, PartsOfPlace
    <3>. QED
      BY <3>1, <3>3
  <2>2. Sample(f, x, y, c) = data[i]
    BY <1>6, <1>7 DEF Sample, Place
  <2>. HIDE DEF i
  <2>. QED
    BY <1>10, <2>1, <2>2
<1>13. Opaque(f)
  BY <1>2, <1>6, <1>7, <1>11 DEF Opaque, WellFormed, Layouts
<1>. QED
  BY <1>6, <1>7, <1>12, <1>13 DEF n, w, h

----------------------------------------------------------------------------
(* A tilted plan's raster is rotate_arbitrary of the upright one.          *)
LEMMA TiltedPlan ==
  ASSUME IInv, Tilted, stage \in {"turned", "encoded", "refused"}
  PROVE  /\ Opaque(upright) /\ plan.rotation \in Tilts
         /\ turned = RotateArbitrary(upright, plan.rotation)
<1>1. upright = Straight /\ turned = Turned(upright, plan.rotation)
  BY DEF IInv
<1>2. plan.rotation \in Tilts
  BY DEF IInv, Tilted, Plans
<1>. QED
  BY <1>1, <1>2, UprightOpaque DEF Turned, Tilted

(* The turned raster is well formed.                                       *)
LEMMA TurnedShape ==
  ASSUME IInv, stage \in {"turned", "encoded", "refused"}
  PROVE  WellFormed(turned)
<1>1. CASE Tilted
  <2>1. /\ Opaque(upright) /\ plan.rotation \in Tilts
        /\ turned = RotateArbitrary(upright, plan.rotation)
    BY <1>1, TiltedPlan
  <2>. QED
    BY <2>1, TiltShape
<1>2. CASE ~Tilted
  <2>1. WellFormed(upright) /\ plan.rotation.quarters \in 0..4
    BY <1>2, UprightOpaque DEF IInv, Opaque, Tilted, Quarters
  <2>2. turned = RotateQuarters(upright, plan.rotation.quarters)
    BY <1>2 DEF IInv, Tilted, Turned
  <2>. QED
    BY <2>1, <2>2, TurnsMove
<1>. QED
  BY <1>1, <1>2

(* An encoder gets a well formed raster, opaque unless its format has      *)
(* alpha.                                                                  *)
LEMMA EncodedShape ==
  ASSUME IInv, stage = "encoded"
  PROVE  WellFormed(image) /\ (plan.format \notin KeepAlpha => Opaque(image))
<1>1. WellFormed(turned) /\ image = Encodable(turned, plan.format)
  BY TurnedShape DEF IInv
<1>2. CASE plan.format \in KeepAlpha
  <2>1. image = turned
    BY <1>1, <1>2, Zenon DEF Encodable
  <2>. QED
    BY <1>1, <1>2, <2>1, Zenon
<1>3. CASE plan.format \notin KeepAlpha
  <2>1. image = FlattenOverWhite(turned)
    BY <1>1, <1>3 DEF Encodable
  <2>2. CASE turned.layout \in {"gray", "rgb"}
    BY <1>1, <2>1, <2>2 DEF FlattenOverWhite, Opaque
  <2>3. CASE turned.layout \in {"graya", "rgba"}
    BY <1>1, <2>1, <2>3, FlattenShape DEF Opaque
  <2>. QED
    BY <1>1, <2>2, <2>3 DEF Opaque, WellFormed, Layouts
<1>. QED
  BY <1>2, <1>3

(* Buffers always hold exactly their pixels, and an encoder of an opaque   *)
(* format never gets alpha.                                                *)
THEOREM TypeCorrect == Spec => []TypeOK
<1>1. ASSUME IInv PROVE TypeOK
  <2>1. WellFormed(image)
    <3>1. CASE stage \in {"turned", "refused"}
      BY <1>1, <3>1, TurnedShape DEF IInv
    <3>2. CASE stage = "encoded"
      BY <1>1, <3>2, EncodedShape
    <3>3. CASE stage \in {"resized", "recoloured", "mirrored"}
      BY <1>1, <3>3, UprightOpaque DEF IInv, Opaque
    <3>. QED
      BY <1>1, <3>1, <3>2, <3>3 DEF IInv
  <2>2. stage = "encoded" /\ plan.format \notin KeepAlpha => image.layout \in {"gray", "rgb"}
    BY <1>1, EncodedShape DEF Opaque
  <2>. QED
    BY <1>1, <2>1, <2>2 DEF IInv, TypeOK, WellFormed
<1>. QED
  BY <1>1, InitIInv, StepIInv, PTL DEF Spec

(* For any angle the canvas is the smallest that holds the corners.        *)
THEOREM CanvasHolds == Spec => []CanvasHoldsTheImage
<1>1. ASSUME IInv PROVE CanvasHoldsTheImage
  <2>. SUFFICES ASSUME stage = "turned", Tilted PROVE CanvasHoldsTheImage
    BY DEF CanvasHoldsTheImage
  <2>. DEFINE a == plan.rotation
              w == upright.width
              h == upright.height
              corners == {0, w} \X {0, h}
              xs == {p[1] * a.cos - p[2] * a.sin : p \in corners}
              ys == {p[1] * a.sin + p[2] * a.cos : p \in corners}
  <2>1. /\ Opaque(upright) /\ a \in Tilts /\ image = RotateArbitrary(upright, a)
        /\ WellFormed(upright)
    BY <1>1, TiltedPlan DEF IInv, Opaque
  <2>2. image.width = Canvas(upright, a).width /\ image.height = Canvas(upright, a).height
    BY <2>1, TiltShape
  <2>3. w \in Nat \ {0} /\ h \in Nat \ {0} /\ a.cos \in Int /\ a.sin \in Int
    BY <2>1, RasterAssumption DEF WellFormed
  <2>4. xs = {0, w * a.cos, -(h * a.sin), w * a.cos + -(h * a.sin)}
    <3>1. corners = {<<0, 0>>, <<w, 0>>, <<0, h>>, <<w, h>>}
      OBVIOUS
    <3>. HIDE DEF corners, a, w, h
    <3>2. xs = {0 * a.cos - 0 * a.sin, w * a.cos - 0 * a.sin, 0 * a.cos - h * a.sin,
                w * a.cos - h * a.sin}
      BY <3>1
    <3>3. /\ 0 * a.cos - 0 * a.sin = 0 /\ w * a.cos - 0 * a.sin = w * a.cos
          /\ 0 * a.cos - h * a.sin = -(h * a.sin)
          /\ w * a.cos - h * a.sin = w * a.cos + -(h * a.sin)
      BY <2>3
    <3>. HIDE DEF xs
    <3>. QED
      BY <3>2, <3>3, Zenon
  <2>5. ys = {0, w * a.sin, h * a.cos, w * a.sin + h * a.cos}
    <3>1. corners = {<<0, 0>>, <<w, 0>>, <<0, h>>, <<w, h>>}
      OBVIOUS
    <3>. HIDE DEF corners, a, w, h
    <3>2. ys = {0 * a.sin + 0 * a.cos, w * a.sin + 0 * a.cos, 0 * a.sin + h * a.cos,
                w * a.sin + h * a.cos}
      BY <3>1
    <3>3. /\ 0 * a.sin + 0 * a.cos = 0 /\ w * a.sin + 0 * a.cos = w * a.sin
          /\ 0 * a.sin + h * a.cos = h * a.cos
      BY <2>3
    <3>. HIDE DEF ys
    <3>. QED
      BY <3>2, <3>3, Zenon
  <2>. HIDE DEF a, w, h, xs, ys
  <2>6. \A k \in Nat, v \in Int : /\ k * v \in Int
                                  /\ (IF k * v < 0 THEN -(k * v) ELSE k * v) = k * Abs(v)
                                  /\ (IF -(k * v) < 0 THEN -(-(k * v)) ELSE -(k * v)) = k * Abs(v)
    <3>. SUFFICES ASSUME NEW k \in Nat, NEW v \in Int
                  PROVE  /\ k * v \in Int
                         /\ (IF k * v < 0 THEN -(k * v) ELSE k * v) = k * Abs(v)
                         /\ (IF -(k * v) < 0 THEN -(-(k * v)) ELSE -(k * v)) = k * Abs(v)
      OBVIOUS
    <3>1. CASE v < 0
      <4>1. k * (-v) = -(k * v) /\ k * (-v) \in Nat /\ k * v \in Int
        BY <3>1
      <4>. QED
        BY <3>1, <4>1 DEF Abs
    <3>2. CASE v >= 0
      <4>1. k * v \in Nat
        BY <3>2
      <4>. QED
        BY <3>2, <4>1 DEF Abs
    <3>. QED
      BY <3>1, <3>2
  <2>7. Max(xs) - Min(xs) = h * Abs(a.sin) + w * Abs(a.cos)
    <3>. DEFINE A == w * a.cos
                B == -(h * a.sin)
    <3>1. /\ A \in Int /\ B \in Int
          /\ (IF A < 0 THEN -A ELSE A) = w * Abs(a.cos)
          /\ (IF B < 0 THEN -B ELSE B) = h * Abs(a.sin)
          /\ w * Abs(a.cos) \in Int /\ h * Abs(a.sin) \in Int
      BY <2>3, <2>6 DEF Abs
    <3>2. xs = {0, A, B, A + B}
      BY <2>4
    <3>. HIDE DEF A, B
    <3>3. Max(xs) - Min(xs) = (IF A < 0 THEN -A ELSE A) + (IF B < 0 THEN -B ELSE B)
      BY <3>1, <3>2, SpanOfCorners
    <3>. QED
      BY <3>1, <3>3
  <2>8. Max(ys) - Min(ys) = h * Abs(a.cos) + w * Abs(a.sin)
    <3>. DEFINE A == w * a.sin
                B == h * a.cos
    <3>1. /\ A \in Int /\ B \in Int
          /\ (IF A < 0 THEN -A ELSE A) = w * Abs(a.sin)
          /\ (IF B < 0 THEN -B ELSE B) = h * Abs(a.cos)
          /\ w * Abs(a.sin) \in Int /\ h * Abs(a.cos) \in Int
      BY <2>3, <2>6 DEF Abs
    <3>2. ys = {0, A, B, A + B}
      BY <2>5
    <3>. HIDE DEF A, B
    <3>3. Max(ys) - Min(ys) = (IF A < 0 THEN -A ELSE A) + (IF B < 0 THEN -B ELSE B)
      BY <3>1, <3>2, SpanOfCorners
    <3>. QED
      BY <3>1, <3>3
  <2>9. /\ (image.width - 1) * a.hyp < Max(xs) - Min(xs)
        /\ Max(xs) - Min(xs) <= image.width * a.hyp
        /\ (image.height - 1) * a.hyp < Max(ys) - Min(ys)
        /\ Max(ys) - Min(ys) <= image.height * a.hyp
    BY <2>1, <2>2, <2>7, <2>8, CanvasSides DEF w, h
  <2>. QED
    BY <2>9 DEF CanvasHoldsTheImage, a, w, h, xs, ys
<1>. QED
  BY <1>1, InitIInv, StepIInv, PTL DEF Spec

(* No sample of an opaque pixel of a tilted raster leaves the range of its *)
(* channel.                                                                *)
THEOREM NoColourFromNothing == Spec => []NoColourInvented
<1>1. ASSUME IInv PROVE NoColourInvented
  <2>. SUFFICES ASSUME stage = "turned", Tilted,
                       NEW p \in Pixels(image), NEW c \in 0..(Channels(upright) - 1),
                       Sample(image, p[1], p[2], Channels(image) - 1) = 255
                PROVE  LET samples == {Sample(upright, q[1], q[2], c) : q \in Pixels(upright)}
                       IN  Sample(image, p[1], p[2], c) \in Min(samples)..Max(samples)
    BY DEF NoColourInvented
  <2>. DEFINE a == plan.rotation
              samples == {Sample(upright, q[1], q[2], c) : q \in Pixels(upright)}
              n == Channels(upright) + 1
              x == p[1]
              y == p[2]
  <2>1. /\ Opaque(upright) /\ a \in Tilts /\ image = RotateArbitrary(upright, a)
        /\ WellFormed(upright)
    BY <1>1, TiltedPlan DEF IInv, Opaque
  <2>2. upright.width \in Nat \ {0} /\ upright.height \in Nat \ {0} /\ Channels(upright) \in 1..4
    BY <2>1, Shape
  <2>3. /\ samples \subseteq 0..255 /\ samples # {}
        /\ \A u \in 0..(upright.width - 1), v \in 0..(upright.height - 1) :
             Sample(upright, u, v, c) \in samples
    <3>1. \A u \in 0..(upright.width - 1), v \in 0..(upright.height - 1) :
            <<u, v>> \in Pixels(upright) /\ <<u, v>>[1] = u /\ <<u, v>>[2] = v
      BY DEF Pixels
    <3>2. \A q \in Pixels(upright) : Sample(upright, q[1], q[2], c) \in 0..255
      BY <2>1, SampleRange DEF Pixels
    <3>3. 0 \in 0..(upright.width - 1) /\ 0 \in 0..(upright.height - 1)
      BY <2>2
    <3>4. \A u \in 0..(upright.width - 1), v \in 0..(upright.height - 1) :
            Sample(upright, u, v, c) \in samples
      <4>. SUFFICES ASSUME NEW u \in 0..(upright.width - 1), NEW v \in 0..(upright.height - 1)
                    PROVE  \E q \in Pixels(upright) : Sample(upright, u, v, c) = Sample(upright, q[1], q[2], c)
        OBVIOUS
      <4>1. /\ <<u, v>> \in Pixels(upright)
            /\ Sample(upright, u, v, c) = Sample(upright, <<u, v>>[1], <<u, v>>[2], c)
        BY <3>1
      <4>. QED
        BY <4>1
    <3>. QED
      BY <3>2, <3>3, <3>4
  <2>. HIDE DEF samples
  <2>4. /\ Min(samples) \in 0..255 /\ Max(samples) \in 0..255
        /\ \A j \in samples : Min(samples) <= j /\ j <= Max(samples)
    <3>1. samples \subseteq 0..255 /\ samples # {} /\ 255 \in Nat
      BY <2>3
    <3>2. Min(samples) \in samples /\ \A j \in samples : Min(samples) <= j
      BY <3>1, LeastOfBounded
    <3>3. Max(samples) \in samples /\ \A j \in samples : j <= Max(samples)
      BY <3>1, GreatestElement
    <3>. QED
      BY <3>1, <3>2, <3>3
  <2>5. Between(upright, c, Min(samples), Max(samples))
    <3>. SUFFICES ASSUME NEW u \in 0..(upright.width - 1), NEW v \in 0..(upright.height - 1)
                  PROVE  Sample(upright, u, v, c) \in Min(samples)..Max(samples)
      BY DEF Between, Within
    <3>1. Sample(upright, u, v, c) \in samples
      BY <2>3
    <3>2. Sample(upright, u, v, c) \in 0..255
      BY <2>3, <3>1
    <3>. QED
      BY <2>4, <3>1, <3>2
  <2>6. /\ Channels(image) = n /\ Channels(image) - 1 = n - 1
        /\ x \in 0..(image.width - 1) /\ y \in 0..(image.height - 1) /\ x \in Int /\ y \in Int
        /\ n - 1 \in 0..(n - 1) /\ c \in 0..(n - 1) /\ c # n - 1
    <3>1. Channels(image) = n /\ WellFormed(image)
      BY <2>1, TiltShape
    <3>2. image.width \in Nat \ {0} /\ image.height \in Nat \ {0}
      BY <3>1, Shape
    <3>3. x \in 0..(image.width - 1) /\ y \in 0..(image.height - 1)
      BY DEF Pixels
    <3>4. Channels(upright) \in 1..4 /\ n = Channels(upright) + 1
      BY <2>2
    <3>5. n - 1 \in 0..(n - 1) /\ c \in 0..(n - 1) /\ c # n - 1
      BY <3>4
    <3>. HIDE DEF n, x, y
    <3>. QED
      BY <3>1, <3>2, <3>3, <3>5
  <2>. HIDE DEF x, y, a
  <2>7. \A k \in 0..(n - 1) : Sample(image, x, y, k) = TiltSample(upright, a, n, x, y, k)
    BY <2>1, <2>6, TiltShape
  <2>8. n = Channels(upright) + 1
    OBVIOUS
  <2>. HIDE DEF n
  <2>9. ~Misses(upright, a, x, y)
    <3>1. TiltSample(upright, a, n, x, y, n - 1) = IF Misses(upright, a, x, y) THEN 0 ELSE 255
      BY Zenon DEF TiltSample
    <3>2. TiltSample(upright, a, n, x, y, n - 1) = 255
      BY <2>6, <2>7 DEF x, y
    <3>. QED
      BY <3>1, <3>2
  <2>10. Sample(image, x, y, c) = Shown(upright, a, x, y, c)
    BY <2>1, <2>6, <2>7, <2>8, <2>9, TiltSampleIs
  <2>11. Within(Shown(upright, a, x, y, c), Min(samples), Max(samples))
    BY <2>1, <2>4, <2>5, <2>6, ShownBetween, Zenon
  <2>. QED
    BY <2>10, <2>11 DEF Within, x, y, samples
<1>. QED
  BY <1>1, InitIInv, StepIInv, PTL DEF Spec

(* What an encoder of an opaque format is given of a tilted raster: its    *)
(* opaque pixels as they were, and white.                                  *)
THEOREM CornersWhite == Spec => []CornersAreWhite
<1>1. ASSUME IInv PROVE CornersAreWhite
  <2>. SUFFICES ASSUME stage = "encoded", Tilted, plan.format \notin KeepAlpha,
                       NEW p \in Pixels(turned), NEW c \in 0..(Channels(image) - 1)
                PROVE  Sample(image, p[1], p[2], c) =
                         IF Sample(turned, p[1], p[2], Channels(image)) = 255
                         THEN Sample(turned, p[1], p[2], c) ELSE 255
    BY DEF CornersAreWhite
  <2>. DEFINE a == plan.rotation
              n == Channels(upright) + 1
              x == p[1]
              y == p[2]
              v == Sample(turned, x, y, c)
              alpha == Sample(turned, x, y, n - 1)
  <2>1. Opaque(upright) /\ a \in Tilts /\ turned = RotateArbitrary(upright, a)
    BY <1>1, TiltedPlan
  <2>2. Channels(upright) \in 1..4
    BY <2>1, Shape DEF Opaque
  <2>3. /\ WellFormed(turned) /\ turned.layout \in {"graya", "rgba"} /\ Channels(turned) = n
        /\ \A u \in 0..(turned.width - 1), w \in 0..(turned.height - 1), k \in 0..(n - 1) :
             Sample(turned, u, w, k) = TiltSample(upright, a, n, u, w, k)
    BY <2>1, TiltShape
  <2>4. image = FlattenOverWhite(turned)
    BY <1>1 DEF IInv, Encodable
  <2>5. /\ Channels(image) = Channels(turned) - 1
        /\ \A u \in 0..(turned.width - 1), w \in 0..(turned.height - 1), k \in 0..(Channels(turned) - 2) :
             Sample(image, u, w, k) = Composite(Sample(turned, u, w, k),
                                                Sample(turned, u, w, Channels(turned) - 1))
    <3>1. \A k : k \in 0..(Channels(turned) - 2) <=> k \in 0..(Channels(turned) - 1 - 1)
      BY <2>2, <2>3
    <3>. QED
      BY <2>3, <2>4, <3>1, FlattenShape
  <2>6. /\ x \in 0..(turned.width - 1) /\ y \in 0..(turned.height - 1) /\ x \in Int /\ y \in Int
        /\ n - 1 \in 0..(n - 1) /\ c \in 0..(n - 1) /\ c \in 0..(Channels(turned) - 2)
        /\ Channels(image) = n - 1 /\ Channels(turned) - 1 = n - 1
    <3>1. turned.width \in Nat \ {0} /\ turned.height \in Nat \ {0}
      BY <2>3, Shape
    <3>2. x \in 0..(turned.width - 1) /\ y \in 0..(turned.height - 1)
      BY DEF Pixels
    <3>3. n \in 2..5 /\ Channels(turned) = n /\ Channels(image) = n - 1
      BY <2>2, <2>3, <2>5
    <3>4. c \in 0..(n - 1 - 1)
      BY <3>3
    <3>. HIDE DEF n, x, y
    <3>. QED
      BY <3>1, <3>2, <3>3, <3>4
  <2>7. n = Channels(upright) + 1
    OBVIOUS
  <2>. HIDE DEF x, y, a, n
  <2>8. v \in 0..255 /\ alpha \in {0, 255}
    <3>1. TiltSample(upright, a, n, x, y, c) \in 0..255
      BY <2>1, <2>6, <2>7, TiltSampleIs
    <3>2. TiltSample(upright, a, n, x, y, n - 1) \in {0, 255}
      <4>1. TiltSample(upright, a, n, x, y, n - 1) = IF Misses(upright, a, x, y) THEN 0 ELSE 255
        BY Zenon DEF TiltSample
      <4>. QED
        BY <4>1, Zenon
    <3>. QED
      BY <2>3, <2>6, <3>1, <3>2
  <2>9. Sample(image, x, y, c) = Composite(v, alpha)
    BY <2>5, <2>6
  <2>. HIDE DEF v, alpha
  <2>10. Composite(v, alpha) = IF alpha = 255 THEN v ELSE 255
    <3>1. v \in 0..255 /\ alpha \in 0..255 /\ (alpha = 255 \/ alpha = 0)
      BY <2>8
    <3>2. /\ alpha = 255 => Composite(v, alpha) = v
          /\ alpha = 0 => Composite(v, alpha) = 255
      BY <3>1, CompositeIs, Zenon
    <3>. QED
      BY <3>1, <3>2
  <2>11. Channels(image) = n - 1
    BY <2>6
  <2>. QED
    BY <2>9, <2>10, <2>11 DEF x, y, v, alpha
<1>. QED
  BY <1>1, InitIInv, StepIInv, PTL DEF Spec
----------------------------------------------------------------------------
(* Rasters of one size with the same samples are the same.                 *)
LEMMA SameRaster ==
  ASSUME NEW p, WellFormed(p), NEW q, WellFormed(q),
         p.layout = q.layout, p.width = q.width, p.height = q.height,
         \A x \in 0..(p.width - 1), y \in 0..(p.height - 1), c \in 0..(Channels(p) - 1) :
           Sample(p, x, y, c) = Sample(q, x, y, c)
  PROVE  p = q
<1>. DEFINE w == p.width
            h == p.height
            n == Channels(p)
<1>1. /\ w \in Nat \ {0} /\ h \in Nat \ {0} /\ n \in Nat \ {0}
      /\ n = Channels(q) /\ w = q.width
  BY Shape DEF Channels
<1>2. p.data \in [Buffer(w * h * n) -> 0..255] /\ q.data \in [Buffer(w * h * n) -> 0..255]
  BY <1>1 DEF WellFormed
<1>3. \A x \in 0..(w - 1), y \in 0..(h - 1), c \in 0..(n - 1) :
        p.data[Place(w, n, x, y, c)] = q.data[Place(w, n, x, y, c)]
  BY <1>1 DEF Sample, Place
<1>. HIDE DEF w, h, n
<1>4. ASSUME NEW i \in Buffer(w * h * n) PROVE p.data[i] = q.data[i]
  <2>. DEFINE j == i \div n
              x == j % w
              y == j \div w
              c == i % n
  <2>1. x \in 0..(w - 1) /\ y \in 0..(h - 1) /\ c \in 0..(n - 1) /\ j \in Nat
    BY <1>1, PlaceOfSample
  <2>2. i \in Nat
    BY <1>4 DEF Buffer
  <2>3. j = y * w + x
    <3>. HIDE DEF j
    <3>. QED
      BY <1>1, <2>1, Remainder
  <2>4. i = j * n + c
    BY <1>1, <2>2, Remainder
  <2>. HIDE DEF j, x, y, c
  <2>5. i = Place(w, n, x, y, c)
    BY <2>3, <2>4 DEF Place
  <2>. QED
    BY <1>3, <2>1, <2>5, Zenon
<1>5. p.data = q.data
  BY <1>2, <1>4
<1>. QED
  BY <1>5 DEF WellFormed

(* The two samples next to a source point, and their weighted sum.         *)
Near(s, size, a) == Least(Floor(s, a), size - 1)
Far(s, size, a) == Least(Near(s, size, a) + 1, size - 1)
Lerp(p, s, size, a) ==
  p[Far(s, size, a)] * Fraction(s, a) + p[Near(s, size, a)] * (2 * a.hyp - Fraction(s, a))

(* The same point, counted from the other end.                             *)
Across(s, size, a) == (size - 1) * (2 * a.hyp) - s

(* A point in or past the last sample, or before the first.                *)
LEMMA PointAt ==
  ASSUME NEW a \in Tilts, NEW size \in Nat \ {0}, NEW s \in Int
  PROVE  /\ s < 0 => Near(s, size, a) = 0 /\ Fraction(s, a) = 0
         /\ s >= (size - 1) * (2 * a.hyp) => Near(s, size, a) = size - 1 /\ Far(s, size, a) = size - 1
         /\ \A k \in 0..(size - 1), f \in 0..(2 * a.hyp - 1) :
              s = k * (2 * a.hyp) + f =>
                 Near(s, size, a) = k /\ Fraction(s, a) = f /\ Far(s, size, a) = Least(k + 1, size - 1)
<1>. DEFINE one == 2 * a.hyp
<1>1. a.hyp \in Nat \ {0} /\ one \in Nat \ {0}
  BY RasterAssumption
<1>2. Floor(s, a) = IF s \div one < 0 THEN 0 ELSE s \div one
  BY DEF Floor
<1>3. Fraction(s, a) = LET f == s - Floor(s, a) * one
                       IN  IF f < 0 THEN 0 ELSE IF f > one THEN one ELSE f
  <2>1. Floor(s, a) \in Nat
    BY WeightRange
  <2>2. Floor(s, a) * 2 * a.hyp = Floor(s, a) * one
    BY <1>1, <2>1
  <2>. QED
    BY <2>2 DEF Fraction
<1>. HIDE DEF one
<1>4. ASSUME s < 0 PROVE Near(s, size, a) = 0 /\ Fraction(s, a) = 0
  <2>1. s \div one < 0
    BY <1>1, <1>4
  <2>2. Floor(s, a) = 0
    BY <1>2, <2>1
  <2>3. Floor(s, a) * one = 0
    BY <1>1, <2>2
  <2>. QED
    BY <1>1, <1>3, <1>4, <2>2, <2>3 DEF Near, Least
<1>5. ASSUME s >= (size - 1) * one PROVE Near(s, size, a) = size - 1 /\ Far(s, size, a) = size - 1
  <2>1. s \in Nat
    <3>1. (size - 1) * one \in Nat
      BY <1>1
    <3>. QED
      BY <1>5, <3>1
  <2>2. s \div one \in Nat /\ s < (s \div one) * one + one
    BY <1>1, <2>1, Quotient
  <2>3. s \div one >= size - 1
    <3>. DEFINE k == s \div one
    <3>. HIDE DEF k
    <3>1. CASE k + 1 <= size - 1
      <4>1. (k + 1) * one <= (size - 1) * one
        BY <1>1, <2>2, <3>1, TimesLeq DEF k
      <4>2. (k + 1) * one = k * one + one
        BY <1>1, <2>2 DEF k
      <4>. QED
        BY <1>1, <1>5, <2>1, <2>2, <4>1, <4>2 DEF k
    <3>. QED
      BY <2>2, <3>1 DEF k
  <2>4. Floor(s, a) \in Nat /\ Floor(s, a) >= size - 1
    BY <1>2, <2>2, <2>3
  <2>. QED
    BY <2>4 DEF Near, Far, Least
<1>6. ASSUME NEW k \in 0..(size - 1), NEW f \in 0..(one - 1), s = k * one + f
      PROVE  Near(s, size, a) = k /\ Fraction(s, a) = f /\ Far(s, size, a) = Least(k + 1, size - 1)
  <2>1. k \in Nat /\ f \in Nat /\ s \in Nat /\ k * one \in Nat
    BY <1>1, <1>6
  <2>2. s \div one = k
    BY <1>1, <1>6, <2>1, QuotientIs
  <2>3. Floor(s, a) = k
    BY <1>2, <2>1, <2>2
  <2>4. s - Floor(s, a) * one = f
    BY <1>6, <2>1, <2>3
  <2>5. Fraction(s, a) = f
    BY <1>1, <1>3, <2>1, <2>4
  <2>. QED
    BY <2>1, <2>3, <2>5 DEF Near, Far, Least
<1>. QED
  BY <1>4, <1>5, <1>6, Zenon DEF one

(* One dimension: samples in reverse order, weighted at the point counted  *)
(* from the other end, give the same.                                      *)
LEMMA LerpAcross ==
  ASSUME NEW a \in Tilts, NEW size \in Nat \ {0}, NEW s \in Int,
         NEW p, \A i \in 0..(size - 1) : p[i] \in Int,
         NEW q, \A i \in 0..(size - 1) : q[i] = p[size - 1 - i]
  PROVE  Lerp(q, Across(s, size, a), size, a) = Lerp(p, s, size, a)
<1>. DEFINE one == 2 * a.hyp
            t == Across(s, size, a)
<1>1. one \in Nat \ {0} /\ size - 1 \in Nat
  BY RasterAssumption
<1>2. (size - 1) * one \in Nat
  BY <1>1
<1>3. t \in Int /\ t = (size - 1) * one - s
  BY <1>2 DEF Across
<1>4. /\ Fraction(s, a) \in Int /\ Fraction(t, a) \in Int
  <2>. HIDE DEF t
  <2>. QED
    BY <1>3, WeightRange
<1>5. /\ Lerp(p, s, size, a) = p[Far(s, size, a)] * Fraction(s, a) + p[Near(s, size, a)] * (one - Fraction(s, a))
      /\ Lerp(q, t, size, a) = q[Far(t, size, a)] * Fraction(t, a) + q[Near(t, size, a)] * (one - Fraction(t, a))
  BY DEF Lerp
<1>. HIDE DEF one, t
<1>6. ASSUME NEW v \in Int, NEW f \in Int PROVE v * f + v * (one - f) = v * one
  BY <1>1
<1>7. CASE s < 0
  <2>1. t >= (size - 1) * one
    BY <1>2, <1>3, <1>7
  <2>2. Near(s, size, a) = 0 /\ Fraction(s, a) = 0
    BY <1>7, PointAt
  <2>3. Near(t, size, a) = size - 1 /\ Far(t, size, a) = size - 1
    BY <1>3, <2>1, PointAt DEF one
  <2>4. q[size - 1] = p[0] /\ p[0] \in Int
    BY <1>1
  <2>5. Far(s, size, a) \in 0..(size - 1)
    BY <1>1, <2>2 DEF Far, Least
  <2>6. p[Far(s, size, a)] \in Int
    BY <2>5
  <2>7. Lerp(p, s, size, a) = p[0] * one
    BY <1>1, <1>5, <2>2, <2>4, <2>6
  <2>8. Lerp(q, t, size, a) = p[0] * one
    BY <1>4, <1>5, <1>6, <2>3, <2>4
  <2>. QED
    BY <2>7, <2>8 DEF t
<1>8. CASE s > (size - 1) * one
  <2>1. t < 0
    BY <1>2, <1>3, <1>8
  <2>2. Near(t, size, a) = 0 /\ Fraction(t, a) = 0
    BY <1>3, <2>1, PointAt
  <2>3. Near(s, size, a) = size - 1 /\ Far(s, size, a) = size - 1
    BY <1>2, <1>8, PointAt DEF one
  <2>4. q[0] = p[size - 1] /\ p[size - 1] \in Int
    BY <1>1
  <2>5. Far(t, size, a) \in 0..(size - 1)
    BY <1>1, <2>2 DEF Far, Least
  <2>6. q[Far(t, size, a)] \in Int
    BY <1>1, <2>5
  <2>7. Lerp(p, s, size, a) = p[size - 1] * one
    BY <1>4, <1>5, <1>6, <2>3, <2>4
  <2>8. Lerp(q, t, size, a) = p[size - 1] * one
    BY <1>1, <1>5, <2>2, <2>4, <2>6
  <2>. QED
    BY <2>7, <2>8 DEF t
<1>9. CASE 0 <= s /\ s <= (size - 1) * one
  <2>. DEFINE k == s \div one
              f == s - k * one
  <2>1. s \in Nat
    BY <1>9
  <2>2. k \in Nat /\ k * one <= s /\ s < k * one + one /\ k * one \in Nat
    BY <1>1, <2>1, Quotient
  <2>. HIDE DEF k
  <2>3. f \in 0..(one - 1) /\ s = k * one + f
    BY <1>1, <2>1, <2>2
  <2>. HIDE DEF f
  <2>4. k <= size - 1
    <3>1. CASE size <= k
      <4>1. size * one <= k * one /\ size * one = (size - 1) * one + one
        BY <1>1, <2>2, <3>1, TimesLeq
      <4>. QED
        BY <1>1, <1>2, <1>9, <2>2, <4>1
    <3>. QED
      BY <2>2, <3>1
  <2>5. k \in 0..(size - 1)
    BY <2>2, <2>4
  <2>6. Near(s, size, a) = k /\ Fraction(s, a) = f /\ Far(s, size, a) = Least(k + 1, size - 1)
    BY <1>3, <2>3, <2>5, PointAt DEF one
  <2>7. CASE f = 0
    <3>1. t = (size - 1 - k) * one + 0
      BY <1>1, <1>2, <1>3, <2>2, <2>3, <2>7
    <3>2. size - 1 - k \in 0..(size - 1) /\ 0 \in 0..(one - 1)
      BY <1>1, <2>5
    <3>3. Near(t, size, a) = size - 1 - k /\ Fraction(t, a) = 0 /\ Far(t, size, a) = Least(size - 1 - k + 1, size - 1)
      BY <1>3, <3>1, <3>2, PointAt DEF one
    <3>4. q[size - 1 - k] = p[k] /\ p[k] \in Int
      <4>1. size - 1 - (size - 1 - k) = k
        BY <1>1, <2>2
      <4>. QED
        BY <2>5, <3>2, <4>1
    <3>5. Far(t, size, a) \in 0..(size - 1) /\ Far(s, size, a) \in 0..(size - 1)
      BY <1>1, <2>5, <2>6, <3>2, <3>3 DEF Least
    <3>6. q[Far(t, size, a)] \in Int /\ p[Far(s, size, a)] \in Int
      BY <1>1, <3>5
    <3>7. Lerp(p, s, size, a) = p[k] * one /\ Lerp(q, t, size, a) = p[k] * one
      BY <1>1, <1>5, <2>6, <2>7, <3>3, <3>4, <3>6
    <3>. QED
      BY <3>7 DEF t
  <2>8. CASE f # 0
    <3>1. k <= size - 2
      BY <1>1, <1>2, <1>9, <2>2, <2>3, <2>4, <2>8
    <3>2. t = (size - 2 - k) * one + (one - f)
      BY <1>1, <1>2, <1>3, <2>2, <2>3
    <3>3. size - 2 - k \in 0..(size - 1) /\ one - f \in 0..(one - 1)
      BY <1>1, <2>2, <2>3, <2>8, <3>1
    <3>4. /\ Near(t, size, a) = size - 2 - k /\ Fraction(t, a) = one - f
          /\ Far(t, size, a) = Least(size - 2 - k + 1, size - 1)
      BY <1>3, <3>2, <3>3, PointAt DEF one
    <3>5. Far(s, size, a) = k + 1 /\ Far(t, size, a) = size - 1 - k
      BY <1>1, <2>2, <2>6, <3>1, <3>4 DEF Least
    <3>6. q[size - 2 - k] = p[k + 1] /\ q[size - 1 - k] = p[k] /\ p[k] \in Int /\ p[k + 1] \in Int
      <4>1. size - 1 - (size - 2 - k) = k + 1 /\ size - 1 - (size - 1 - k) = k
        BY <1>1, <2>2
      <4>2. size - 2 - k \in 0..(size - 1) /\ size - 1 - k \in 0..(size - 1) /\ k + 1 \in 0..(size - 1)
        BY <1>1, <2>2, <3>1
      <4>. QED
        BY <2>5, <4>1, <4>2
    <3>7. Lerp(p, s, size, a) = p[k + 1] * f + p[k] * (one - f)
      BY <1>5, <2>6, <3>5
    <3>8. Lerp(q, t, size, a) = p[k] * (one - f) + p[k + 1] * (one - (one - f))
      BY <1>5, <3>4, <3>5, <3>6
    <3>9. one - (one - f) = f
      BY <1>1, <2>3
    <3>. QED
      BY <1>1, <2>3, <3>6, <3>7, <3>8, <3>9 DEF t
  <2>. QED
    BY <2>7, <2>8
<1>. QED
  BY <1>2, <1>7, <1>8, <1>9
(* Row y of channel c, and what Bilinear makes of every row.               *)
RowOf(r, y, c) == [x \in 0..(r.width - 1) |-> Sample(r, x, y, c)]
Rows(r, a, sx, c) == [y \in 0..(r.height - 1) |-> Lerp(RowOf(r, y, c), sx, r.width, a)]

(* A point's neighbours are samples, and its sum of integers is one.       *)
LEMMA LerpInt ==
  ASSUME NEW a \in Tilts, NEW size \in Nat \ {0}, NEW s \in Int,
         NEW p, \A i \in 0..(size - 1) : p[i] \in Int
  PROVE  /\ Near(s, size, a) \in 0..(size - 1) /\ Far(s, size, a) \in 0..(size - 1)
         /\ Fraction(s, a) \in Int /\ 2 * a.hyp \in Int
         /\ Lerp(p, s, size, a) \in Int
<1>1. Floor(s, a) \in Nat /\ Fraction(s, a) \in Int /\ 2 * a.hyp \in Int
  BY WeightRange
<1>2. Near(s, size, a) \in 0..(size - 1)
  BY <1>1 DEF Near, Least
<1>3. Far(s, size, a) \in 0..(size - 1)
  BY <1>2 DEF Far, Least
<1>4. p[Near(s, size, a)] \in Int /\ p[Far(s, size, a)] \in Int
  BY <1>2, <1>3
<1>5. \A u, v, f, d \in Int : u * f + v * (d - f) \in Int
  OBVIOUS
<1>6. Lerp(p, s, size, a) \in Int
  BY <1>1, <1>4, <1>5 DEF Lerp
<1>. QED
  BY <1>1, <1>2, <1>3, <1>6

(* Bilinear goes along the rows, then across them.                         *)
LEMMA BilinearIs ==
  ASSUME NEW r, WellFormed(r), NEW a \in Tilts, NEW sx \in Int, NEW sy \in Int,
         NEW c \in 0..(Channels(r) - 1)
  PROVE  /\ \A x \in 0..(r.width - 1), y \in 0..(r.height - 1) : RowOf(r, y, c)[x] \in Int
         /\ \A y \in 0..(r.height - 1) : Rows(r, a, sx, c)[y] \in Int
         /\ Bilinear(r, a, sx, sy, c) =
              Clamp8(Nearest(Lerp(Rows(r, a, sx, c), sy, r.height, a), (2 * a.hyp) * (2 * a.hyp)))
<1>. DEFINE one == 2 * a.hyp
            fx == Fraction(sx, a)
            fy == Fraction(sy, a)
            x0 == Near(sx, r.width, a)
            y0 == Near(sy, r.height, a)
            x1 == Far(sx, r.width, a)
            y1 == Far(sy, r.height, a)
            s11 == Sample(r, x1, y1, c)
            s01 == Sample(r, x0, y1, c)
            s10 == Sample(r, x1, y0, c)
            s00 == Sample(r, x0, y0, c)
<1>1. r.width \in Nat \ {0} /\ r.height \in Nat \ {0}
  BY Shape
<1>2. \A x \in 0..(r.width - 1), y \in 0..(r.height - 1) :
        Sample(r, x, y, c) \in Int /\ RowOf(r, y, c)[x] = Sample(r, x, y, c)
  <2>. SUFFICES ASSUME NEW x \in 0..(r.width - 1), NEW y \in 0..(r.height - 1)
                PROVE  Sample(r, x, y, c) \in Int /\ RowOf(r, y, c)[x] = Sample(r, x, y, c)
    OBVIOUS
  <2>1. Sample(r, x, y, c) \in 0..255
    BY SampleRange, Zenon
  <2>2. RowOf(r, y, c)[x] = Sample(r, x, y, c)
    BY DEF RowOf
  <2>. QED
    BY <2>1, <2>2
<1>3. ASSUME NEW y \in 0..(r.height - 1)
      PROVE  /\ Rows(r, a, sx, c)[y] = Lerp(RowOf(r, y, c), sx, r.width, a)
             /\ Rows(r, a, sx, c)[y] \in Int
  <2>1. \A x \in 0..(r.width - 1) : RowOf(r, y, c)[x] \in Int
    BY <1>2
  <2>2. Lerp(RowOf(r, y, c), sx, r.width, a) \in Int
    BY <1>1, <2>1, LerpInt, Zenon
  <2>. QED
    BY <2>2 DEF Rows
<1>4. /\ x0 \in 0..(r.width - 1) /\ x1 \in 0..(r.width - 1) /\ fx \in Int /\ one \in Int
      /\ y0 \in 0..(r.height - 1) /\ y1 \in 0..(r.height - 1) /\ fy \in Int
  <2>1. \A i \in 0..(r.width - 1) : [j \in 0..(r.width - 1) |-> 0][i] \in Int
    OBVIOUS
  <2>2. \A i \in 0..(r.height - 1) : [j \in 0..(r.height - 1) |-> 0][i] \in Int
    OBVIOUS
  <2>3. x0 \in 0..(r.width - 1) /\ x1 \in 0..(r.width - 1) /\ fx \in Int /\ one \in Int
    BY <1>1, <2>1, LerpInt, Zenon
  <2>4. y0 \in 0..(r.height - 1) /\ y1 \in 0..(r.height - 1) /\ fy \in Int
    BY <1>1, <2>2, LerpInt, Zenon
  <2>. QED
    BY <2>3, <2>4
<1>5. Bilinear(r, a, sx, sy, c) =
        Clamp8(Nearest(s11 * fx * fy + s01 * (one - fx) * fy + s10 * fx * (one - fy)
                         + s00 * (one - fx) * (one - fy), one * one))
  BY Zenon DEF Bilinear, Near, Far
<1>6. Lerp(Rows(r, a, sx, c), sy, r.height, a) =
        (s11 * fx + s01 * (one - fx)) * fy + (s10 * fx + s00 * (one - fx)) * (one - fy)
  <2>1. Lerp(Rows(r, a, sx, c), sy, r.height, a) =
          Rows(r, a, sx, c)[y1] * fy + Rows(r, a, sx, c)[y0] * (one - fy)
    BY DEF Lerp
  <2>2. Rows(r, a, sx, c)[y1] = s11 * fx + s01 * (one - fx)
    <3>1. Rows(r, a, sx, c)[y1] = RowOf(r, y1, c)[x1] * fx + RowOf(r, y1, c)[x0] * (one - fx)
      BY <1>3, <1>4 DEF Lerp
    <3>. HIDE DEF x0, x1, y0, y1, fx, one
    <3>. QED
      BY <1>2, <1>4, <3>1
  <2>3. Rows(r, a, sx, c)[y0] = s10 * fx + s00 * (one - fx)
    <3>1. Rows(r, a, sx, c)[y0] = RowOf(r, y0, c)[x1] * fx + RowOf(r, y0, c)[x0] * (one - fx)
      BY <1>3, <1>4 DEF Lerp
    <3>. HIDE DEF x0, x1, y0, y1, fx, one
    <3>. QED
      BY <1>2, <1>4, <3>1
  <2>. QED
    BY <2>1, <2>2, <2>3
<1>7. s11 \in Int /\ s01 \in Int /\ s10 \in Int /\ s00 \in Int
  BY <1>2, <1>4
<1>. HIDE DEF one, fx, fy, s11, s01, s10, s00
<1>8. s11 * fx * fy + s01 * (one - fx) * fy + s10 * fx * (one - fy) + s00 * (one - fx) * (one - fy)
        = (s11 * fx + s01 * (one - fx)) * fy + (s10 * fx + s00 * (one - fx)) * (one - fy)
  BY <1>4, <1>7
<1>9. Bilinear(r, a, sx, sy, c) = Clamp8(Nearest(Lerp(Rows(r, a, sx, c), sy, r.height, a), one * one))
  BY <1>5, <1>6, <1>8
<1>. QED
  BY <1>2, <1>3, <1>9 DEF one

(* Two dimensions: the raster upside down, sampled at the point counted    *)
(* from the opposite corner.                                               *)
LEMMA BilinearAcross ==
  ASSUME NEW r, WellFormed(r), NEW a \in Tilts, NEW sx \in Int, NEW sy \in Int,
         NEW c \in 0..(Channels(r) - 1), NEW q, q = Rotated180(r)
  PROVE  Bilinear(q, a, Across(sx, r.width, a), Across(sy, r.height, a), c)
           = Bilinear(r, a, sx, sy, c)
<1>. DEFINE w == r.width
            h == r.height
            tx == Across(sx, w, a)
            ty == Across(sy, h, a)
<1>1. /\ WellFormed(q) /\ Channels(q) = Channels(r) /\ q.width = w /\ q.height = h
      /\ \A x \in 0..(w - 1), y \in 0..(h - 1) :
           Sample(q, w - 1 - x, h - 1 - y, c) = Sample(r, x, y, c)
  BY HalfMoves
<1>2. w \in Nat \ {0} /\ h \in Nat \ {0} /\ tx \in Int /\ ty \in Int
  <2>1. w \in Nat \ {0} /\ h \in Nat \ {0}
    BY Shape
  <2>2. 2 * a.hyp \in Int
    BY RasterAssumption
  <2>. QED
    BY <2>1, <2>2 DEF Across
<1>. HIDE DEF w, h, tx, ty
<1>3. /\ \A x \in 0..(w - 1), y \in 0..(h - 1) : RowOf(r, y, c)[x] \in Int
      /\ \A y \in 0..(h - 1) : Rows(r, a, sx, c)[y] \in Int
      /\ Bilinear(r, a, sx, sy, c) =
           Clamp8(Nearest(Lerp(Rows(r, a, sx, c), sy, h, a), (2 * a.hyp) * (2 * a.hyp)))
  BY BilinearIs DEF w, h
<1>4. Bilinear(q, a, tx, ty, c) =
        Clamp8(Nearest(Lerp(Rows(q, a, tx, c), ty, h, a), (2 * a.hyp) * (2 * a.hyp)))
  <2>1. c \in 0..(Channels(q) - 1)
    BY <1>1
  <2>. QED
    BY <1>1, <1>2, <2>1, BilinearIs, ZenonT(40)
<1>5. ASSUME NEW y \in 0..(h - 1)
      PROVE  Rows(q, a, tx, c)[y] = Rows(r, a, sx, c)[h - 1 - y]
  <2>. DEFINE v == h - 1 - y
  <2>1. v \in 0..(h - 1) /\ h - 1 - v = y
    BY <1>2
  <2>. HIDE DEF v
  <2>2. \A x \in 0..(w - 1) : RowOf(q, y, c)[x] = RowOf(r, v, c)[w - 1 - x]
    <3>. SUFFICES ASSUME NEW x \in 0..(w - 1) PROVE RowOf(q, y, c)[x] = RowOf(r, v, c)[w - 1 - x]
      OBVIOUS
    <3>1. w - 1 - x \in 0..(w - 1) /\ w - 1 - (w - 1 - x) = x
      BY <1>2
    <3>2. Sample(q, x, y, c) = Sample(r, w - 1 - x, v, c)
      BY <1>1, <2>1, <3>1
    <3>. QED
      BY <1>1, <3>1, <3>2 DEF RowOf, w
  <2>3. Lerp(RowOf(q, y, c), tx, w, a) = Lerp(RowOf(r, v, c), sx, w, a)
    <3>1. \A x \in 0..(w - 1) : RowOf(r, v, c)[x] \in Int
      BY <1>3, <2>1
    <3>. QED
      BY <1>2, <2>2, <3>1, LerpAcross DEF tx
  <2>4. /\ Rows(q, a, tx, c)[y] = Lerp(RowOf(q, y, c), tx, w, a)
        /\ Rows(r, a, sx, c)[v] = Lerp(RowOf(r, v, c), sx, w, a)
    BY <1>1, <2>1 DEF Rows, w, h
  <2>. QED
    BY <2>3, <2>4 DEF v
<1>6. Lerp(Rows(q, a, tx, c), ty, h, a) = Lerp(Rows(r, a, sx, c), sy, h, a)
  BY <1>2, <1>3, <1>5, LerpAcross DEF ty
<1>. QED
  BY <1>3, <1>4, <1>6 DEF tx, ty, w, h

(* The source point i to the right of the middle and j below it.           *)
PointX(i, j, size, a) == i * a.cos + j * a.sin + (size - 1) * a.hyp
PointY(i, j, size, a) == j * a.cos - i * a.sin + (size - 1) * a.hyp

(* Opposite points of the canvas have opposite source points.              *)
LEMMA OppositePoint ==
  ASSUME NEW a \in Tilts, NEW i \in Int, NEW j \in Int, NEW size \in Nat \ {0}
  PROVE  /\ PointX(i, j, size, a) \in Int /\ PointY(i, j, size, a) \in Int
         /\ PointX(i, j, size, a) = Across(PointX(-i, -j, size, a), size, a)
         /\ PointY(i, j, size, a) = Across(PointY(-i, -j, size, a), size, a)
<1>1. a.cos \in Int /\ a.sin \in Int /\ a.hyp \in Int /\ size \in Int
  BY RasterAssumption
<1>2. /\ (-i) * a.cos = -(i * a.cos) /\ (-j) * a.sin = -(j * a.sin)
      /\ (-j) * a.cos = -(j * a.cos) /\ (-i) * a.sin = -(i * a.sin)
      /\ (size - 1) * (2 * a.hyp) = 2 * ((size - 1) * a.hyp)
  BY <1>1
<1>3. /\ i * a.cos \in Int /\ j * a.sin \in Int /\ j * a.cos \in Int /\ i * a.sin \in Int
      /\ (size - 1) * a.hyp \in Int
  BY <1>1
<1>. QED
  BY <1>2, <1>3 DEF PointX, PointY, Across

(* A canvas pixel of the raster upside down is the opposite one of the     *)
(* raster's.                                                               *)
LEMMA TiltAcross ==
  ASSUME NEW r, Opaque(r), NEW a \in Tilts, NEW q, q = Rotated180(r),
         NEW n, n = Channels(r) + 1, NEW x \in Int, NEW y \in Int, NEW c \in 0..(n - 1)
  PROVE  /\ Canvas(q, a) = Canvas(r, a)
         /\ TiltSample(q, a, n, x, y, c) =
              TiltSample(r, a, n, Canvas(r, a).width - 1 - x, Canvas(r, a).height - 1 - y, c)
<1>. DEFINE w == Canvas(r, a).width
            h == Canvas(r, a).height
            u == w - 1 - x
            v == h - 1 - y
            sx == SourceX(r, a, Canvas(r, a), u, v)
            sy == SourceY(r, a, Canvas(r, a), u, v)
            tx == SourceX(q, a, Canvas(q, a), x, y)
            ty == SourceY(q, a, Canvas(q, a), x, y)
            i == 2 * x + 1 - w
            j == 2 * y + 1 - h
<1>1. /\ WellFormed(r) /\ Channels(r) \in 1..4 /\ r.width \in Nat \ {0} /\ r.height \in Nat \ {0}
      /\ q.width = r.width /\ q.height = r.height
  BY HalfMoves, Shape DEF Opaque
<1>2. Canvas(q, a) = Canvas(r, a)
  BY <1>1 DEF Canvas
<1>3. /\ w \in Nat \ {0} /\ h \in Nat \ {0}
      /\ a.cos \in Int /\ a.sin \in Int /\ a.hyp \in Nat \ {0}
  BY <1>1, CanvasSides, RasterAssumption
<1>. HIDE DEF w, h
<1>4. u \in Int /\ v \in Int
  BY <1>3
<1>5. /\ 2 * u + 1 - w = -i /\ 2 * v + 1 - h = -j
      /\ i \in Int /\ j \in Int /\ -i \in Int /\ -j \in Int
  BY <1>3
<1>6. /\ sx = PointX(-i, -j, r.width, a) /\ sy = PointY(-i, -j, r.height, a)
      /\ tx = PointX(i, j, r.width, a) /\ ty = PointY(i, j, r.height, a)
  <2>1. /\ sx = PointX(2 * u + 1 - w, 2 * v + 1 - h, r.width, a)
        /\ sy = PointY(2 * u + 1 - w, 2 * v + 1 - h, r.height, a)
    BY DEF SourceX, SourceY, PointX, PointY, w, h
  <2>2. tx = PointX(i, j, r.width, a) /\ ty = PointY(i, j, r.height, a)
    BY <1>1, <1>2 DEF SourceX, SourceY, PointX, PointY, w, h
  <2>. HIDE DEF sx, sy, tx, ty, u, v, i, j
  <2>. QED
    BY <1>5, <2>1, <2>2
<1>. HIDE DEF sx, sy, tx, ty, u, v, i, j
<1>7. /\ sx \in Int /\ sy \in Int /\ tx \in Int /\ ty \in Int
      /\ tx = Across(sx, r.width, a) /\ ty = Across(sy, r.height, a)
  BY <1>1, <1>5, <1>6, OppositePoint, Zenon
<1>8. ASSUME NEW s \in Int, NEW size \in Nat \ {0}
      PROVE  Inside(Across(s, size, a), size, a) <=> Inside(s, size, a)
  <2>1. /\ (size - 1) * (2 * a.hyp) = 2 * (size * a.hyp) - 2 * a.hyp /\ size * a.hyp \in Nat
        /\ (2 * size - 1) * a.hyp = 2 * (size * a.hyp) - a.hyp
    BY <1>3
  <2>. DEFINE k == size * a.hyp
  <2>. HIDE DEF k
  <2>2. /\ Across(s, size, a) = 2 * k - 2 * a.hyp - s /\ k \in Nat
        /\ (2 * size - 1) * a.hyp = 2 * k - a.hyp
    BY <2>1 DEF Across, k
  <2>. QED
    BY <1>3, <2>2 DEF Inside
<1>9. Misses(q, a, x, y) <=> Misses(r, a, u, v)
  <2>1. Misses(q, a, x, y) <=> ~Inside(tx, r.width, a) \/ ~Inside(ty, r.height, a)
    BY <1>1 DEF Misses, tx, ty
  <2>2. Misses(r, a, u, v) <=> ~Inside(sx, r.width, a) \/ ~Inside(sy, r.height, a)
    BY DEF Misses, sx, sy
  <2>. QED
    BY <1>1, <1>7, <1>8, <2>1, <2>2
<1>10. c # n - 1 => Shown(q, a, x, y, c) = Shown(r, a, u, v, c)
  <2>. SUFFICES ASSUME c # n - 1 PROVE Shown(q, a, x, y, c) = Shown(r, a, u, v, c)
    OBVIOUS
  <2>1. c \in 0..(Channels(r) - 1)
    BY <1>1
  <2>2. Bilinear(q, a, tx, ty, c) = Bilinear(r, a, sx, sy, c)
    BY <1>1, <1>7, <2>1, BilinearAcross
  <2>. QED
    BY <2>2 DEF Shown, sx, sy, tx, ty
<1>11. TiltSample(q, a, n, x, y, c) = TiltSample(r, a, n, u, v, c)
  BY <1>9, <1>10, Zenon DEF TiltSample
<1>. QED
  BY <1>2, <1>11 DEF u, v, w, h

(* rotate_arbitrary favours no edge of the image and no side of a pixel:   *)
(* upside down before tilting is upside down after it, for every raster    *)
(* and angle.                                                              *)
THEOREM UpsideDown == Spec => []UpsideDownAgrees
<1>1. ASSUME NEW r, Opaque(r), NEW a \in Tilts
      PROVE  Rotated180(RotateArbitrary(r, a)) = RotateArbitrary(Rotated180(r), a)
  <2>. DEFINE q == Rotated180(r)
              m == RotateArbitrary(r, a)
              t == Rotated180(m)
              k == RotateArbitrary(q, a)
              n == Channels(r) + 1
              w == Canvas(r, a).width
              h == Canvas(r, a).height
  <2>1. Opaque(q) /\ Channels(q) = Channels(r) /\ q.layout = r.layout
    BY <1>1, HalfMoves DEF Opaque
  <2>2. 0 \in Int /\ n \in Nat \ {0} /\ 0 \in 0..(n - 1) /\ w \in Nat \ {0} /\ h \in Nat \ {0}
    BY <1>1, Shape, CanvasSides DEF Opaque
  <2>3. Canvas(q, a) = Canvas(r, a)
    <3>. HIDE DEF n
    <3>1. n = Channels(r) + 1
      BY DEF n
    <3>. QED
      BY <1>1, <2>2, <3>1, TiltAcross
  <2>4. /\ WellFormed(m) /\ Channels(m) = n /\ m.width = w /\ m.height = h
        /\ \A x \in 0..(w - 1), y \in 0..(h - 1), c \in 0..(n - 1) :
             Sample(m, x, y, c) = TiltSample(r, a, n, x, y, c)
    BY <1>1, TiltShape
  <2>5. /\ WellFormed(k) /\ Channels(k) = n /\ k.width = w /\ k.height = h
        /\ \A x \in 0..(w - 1), y \in 0..(h - 1), c \in 0..(n - 1) :
             Sample(k, x, y, c) = TiltSample(q, a, n, x, y, c)
    BY <1>1, <2>1, <2>3, TiltShape
  <2>6. k.layout = m.layout
    <3>1. /\ m.layout = IF Channels(r) + 1 = 2 THEN "graya" ELSE "rgba"
          /\ k.layout = IF Channels(q) + 1 = 2 THEN "graya" ELSE "rgba"
      BY <1>1, <2>1, TiltIs
    <3>. QED
      BY <2>1, <3>1
  <2>. HIDE DEF m, k, n, w, h
  <2>7. /\ WellFormed(t) /\ Channels(t) = n /\ t.layout = m.layout /\ t.width = w /\ t.height = h
        /\ \A x \in 0..(w - 1), y \in 0..(h - 1), c \in 0..(n - 1) :
             Sample(t, w - 1 - x, h - 1 - y, c) = Sample(m, x, y, c)
    BY <2>4, HalfMoves
  <2>. HIDE DEF q, t
  <2>8. ASSUME NEW x \in 0..(w - 1), NEW y \in 0..(h - 1), NEW c \in 0..(n - 1)
        PROVE  Sample(t, x, y, c) = Sample(k, x, y, c)
    <3>. DEFINE u == w - 1 - x
                v == h - 1 - y
    <3>1. /\ u \in 0..(w - 1) /\ v \in 0..(h - 1) /\ w - 1 - u = x /\ h - 1 - v = y
          /\ x \in Int /\ y \in Int
      BY <2>2
    <3>2. TiltSample(q, a, n, x, y, c) = TiltSample(r, a, n, u, v, c)
      <4>1. n = Channels(r) + 1 /\ q = Rotated180(r)
        BY DEF n, q
      <4>. QED
        BY <1>1, <3>1, <4>1, TiltAcross DEF w, h
    <3>. HIDE DEF u, v
    <3>3. Sample(t, x, y, c) = Sample(m, u, v, c)
      BY <2>7, <3>1
    <3>4. Sample(m, u, v, c) = TiltSample(r, a, n, u, v, c) /\ Sample(k, x, y, c) = TiltSample(q, a, n, x, y, c)
      BY <2>4, <2>5, <3>1
    <3>. QED
      BY <3>2, <3>3, <3>4
  <2>9. t = k
    BY <2>5, <2>6, <2>7, <2>8, SameRaster
  <2>. QED
    BY <2>9 DEF t, k, m, q
<1>2. IInv => UpsideDownAgrees
  <2>. SUFFICES ASSUME IInv, stage = "turned", Tilted
                PROVE  Rotated180(image) = RotateArbitrary(Rotated180(upright), plan.rotation)
    BY DEF UpsideDownAgrees
  <2>1. Opaque(upright) /\ plan.rotation \in Tilts /\ image = RotateArbitrary(upright, plan.rotation)
    BY TiltedPlan DEF IInv
  <2>. QED
    BY <1>1, <2>1
<1>. QED
  BY <1>2, InitIInv, StepIInv, PTL DEF Spec
=============================================================================
