---------------------------- MODULE MetricsProofs ---------------------------
(***************************************************************************)
(* The counters of any number of handlers, families and latency buckets:   *)
(* every answer is counted once whoever leaves, and what a scrape shows    *)
(* balances up to the requests it overlapped and never goes back.          *)
(***************************************************************************)
EXTENDS Metrics, Extrema, SequenceTheorems

Owing(g) == {r \in Requests : \E i \in DOMAIN todo[r] : todo[r][i] \in g}

(* A request owes each counter of a group once, the class before the       *)
(* overload.                                                               *)
Orderly(s) ==
  /\ \A g \in Groups, i, j \in DOMAIN s : s[i] \in g /\ s[j] \in g => i = j
  /\ \A i, j \in DOMAIN s : s[i] = "overload" /\ s[j] = "5xx" => j < i

Unclassed == {r \in Owing({"overload"}) : r \notin Owing({"5xx"})}

Typed == /\ handler \in [Requests -> Handler]
         /\ todo \in [Requests -> Seq(Counters)]
         /\ latency \in [Requests -> Nat]
         /\ counters \in [Counters -> Nat] /\ start \in [Counters -> Nat]
         /\ seconds \in Nat /\ rest \in Nat /\ overlap \in Nat /\ answers \in Nat
         /\ \A r \in Requests : handler[r] = "recording" <=> todo[r] # << >>

OneScrape == \A r, q \in Loading : r = q

(* Every answer is counted already, or owed by the request that made it.   *)
Accounted ==
  /\ \A r \in Requests : Orderly(todo[r])
  /\ \A g \in Breakdowns : Total(counters, g) + Cardinality(Owing(g)) = answers
  /\ counters["overload"] + Cardinality(Unclassed) <= counters["5xx"]

(* What a scrape under way, and what the last one, has to do with the      *)
(* counters as they are.                                                   *)
ScrapeUnderWay ==
  Scraping => /\ \A g \in Breakdowns : answers <= Total(start, g) + overlap
              /\ \A g \in Groups : shown.most[g] <= Total(start, g)

Halfway ==
  \A r \in Requests : handler[r] = "halfway" => /\ seconds * Unit <= counters["sum"]
                                                /\ shown.sum < seconds * Unit + Unit

Summed ==
  \A r \in Requests : handler[r] = "summed" => /\ (seconds * Unit) + rest <= counters["sum"]
                                               /\ shown.sum < (seconds * Unit) + rest + Unit

LastScrape ==
  /\ shown.least \in [Groups -> Nat] /\ shown.most \in [Groups -> Nat]
  /\ shown.sum \in Nat /\ shown.overlap \in Nat
  /\ \A g, h \in Breakdowns : shown.most[g] <= shown.least[h] + shown.overlap
  /\ \A g \in Groups : shown.most[g] <= Total(counters, g)
  /\ shown.sum <= counters["sum"]

IInv == Typed /\ OneScrape /\ Accounted /\ ScrapeUnderWay /\ Halfway /\ Summed /\ LastScrape

----------------------------------------------------------------------------
(* The groups are finite sets of counters, and no counter is in two.       *)
LEMMA GroupsApart ==
  /\ \A g \in Groups : g \subseteq Counters /\ IsFiniteSet(g)
  /\ \A g, h \in Groups : g # h => g \cap h = {}
<1>1. IsFiniteSet(Families)
  BY MetricsAssumption
<1>2. IsFiniteSet(Classes) /\ IsFiniteSet({"count"}) /\ IsFiniteSet({"overload"})
  <2>1. IsFiniteSet({}) /\ IsFiniteSet({"count"}) /\ IsFiniteSet({"overload"}) /\ IsFiniteSet({"2xx"})
    BY FS_EmptySet, FS_Singleton
  <2>2. IsFiniteSet({"2xx"} \cup {"3xx"})
    BY <2>1, FS_AddElement
  <2>3. IsFiniteSet(({"2xx"} \cup {"3xx"}) \cup {"4xx"})
    BY <2>2, FS_AddElement
  <2>4. IsFiniteSet((({"2xx"} \cup {"3xx"}) \cup {"4xx"}) \cup {"5xx"})
    BY <2>3, FS_AddElement
  <2>5. Classes = (({"2xx"} \cup {"3xx"}) \cup {"4xx"}) \cup {"5xx"}
    BY DEF Classes
  <2>. QED
    BY <2>1, <2>4, <2>5
<1>3. IsFiniteSet(Buckets)
  BY MetricsAssumption, FS_AddElement DEF Buckets
<1>4. \A g \in Groups : g \subseteq Counters /\ IsFiniteSet(g)
  BY <1>1, <1>2, <1>3 DEF Groups, Breakdowns, Counters
<1>5. \A g, h \in Groups : g # h => g \cap h = {}
  BY MetricsAssumption DEF Groups, Breakdowns, Classes, Buckets
<1>. QED
  BY <1>4, <1>5

(* Totals are naturals, and grow by what is added to a counter of theirs.  *)
LEMMA TotalAfterAdd ==
  ASSUME NEW v \in [Counters -> Nat], NEW w, NEW c \in Counters, NEW k \in Nat, NEW g \in Groups,
         \A x \in Counters : w[x] = IF x = c THEN v[x] + k ELSE v[x]
  PROVE  /\ Total(v, g) \in Nat
         /\ Total(w, g) = Total(v, g) + IF c \in g THEN k ELSE 0
<1>1. g \subseteq Counters /\ IsFiniteSet(g)
  BY GroupsApart
<1>2. \A x \in g : v[x] \in Nat /\ w[x] = v[x] + IF x = c THEN k ELSE 0
  BY <1>1
<1>3. /\ SumFunctionOnSet(v, g) \in Nat
      /\ SumFunctionOnSet(w, g) = SumFunctionOnSet(v, g) + IF c \in g THEN k ELSE 0
  BY <1>1, <1>2, SumAfterAdd
<1>. QED
  BY <1>3 DEF Total

(* At first they are zero.                                                 *)
LEMMA TotalOfZero == ASSUME NEW g \in Groups PROVE Total(Zero, g) = 0
<1>1. g \subseteq Counters /\ IsFiniteSet(g) /\ \A x \in g : Zero[x] = 0
  BY GroupsApart DEF Zero
<1>. QED
  BY <1>1, SumOfZeros DEF Total

(* What a request owes counts one request more or less.                    *)
LEMMA OneMore ==
  ASSUME NEW S \in SUBSET Requests, NEW r \in Requests, r \notin S
  PROVE  Cardinality(S) \in Nat /\ Cardinality(S \cup {r}) = Cardinality(S) + 1
BY MetricsAssumption, FS_Subset, FS_AddElement, FS_CardinalityType

(* ... and one fewer when it is paid.                                      *)
LEMMA OneLess ==
  ASSUME NEW S \in SUBSET Requests, NEW r \in S
  PROVE  Cardinality(S \ {r}) \in Nat /\ Cardinality(S) = Cardinality(S \ {r}) + 1
<1>1. r \in Requests /\ S \ {r} \in SUBSET Requests /\ r \notin S \ {r} /\ (S \ {r}) \cup {r} = S
  OBVIOUS
<1>. QED
  BY <1>1, OneMore, ZenonT(30)

----------------------------------------------------------------------------
(* The bucket of a latency is one of the buckets: a latency that some      *)
(* bounds hold has a least bound.                                          *)
LEMMA BucketIsOne == ASSUME NEW e \in Nat PROVE Bucket(e) \in Buckets
<1>1. CASE Holding(e) = {}
  BY <1>1 DEF Bucket, Buckets
<1>2. CASE Holding(e) # {}
  <2>. DEFINE S == {Bounds[b] : b \in Holding(e)}
  <2>1. S \subseteq Nat /\ S # {}
    BY <1>2, MetricsAssumption DEF Holding
  <2>2. PICK k \in S : \A j \in S : k <= j
    <3>. HIDE DEF S
    <3>. QED
      BY <2>1, LeastElement
  <2>3. \E b \in Holding(e) : \A c \in Holding(e) : Bounds[b] <= Bounds[c]
    BY <2>2
  <2>4. Bucket(e) \in Holding(e)
    BY <1>2, <2>3 DEF Bucket
  <2>. QED
    BY <2>4 DEF Holding, Buckets
<1>. QED
  BY <1>1, <1>2

(* Two sequences put together, element by element.                         *)
LEMMA Joined ==
  ASSUME NEW S, NEW s \in Seq(S), NEW t \in Seq(S), NEW u \in Seq(S),
         Len(u) = Len(s) + Len(t),
         \A i \in 1..Len(s) : u[i] = s[i],
         \A i \in 1..Len(t) : u[Len(s) + i] = t[i]
  PROVE  s \o t = u
<1>1. \A i \in 1..Len(u) : (s \o t)[i] = u[i]
  <2>. TAKE i \in 1..Len(u)
  <2>1. (s \o t)[i] = IF i <= Len(s) THEN s[i] ELSE t[i - Len(s)]
    BY ConcatProperties
  <2>2. CASE i <= Len(s)
    BY <2>1, <2>2
  <2>3. CASE ~(i <= Len(s))
    <3>1. i - Len(s) \in 1..Len(t) /\ Len(s) + (i - Len(s)) = i
      BY <2>3
    <3>. QED
      BY <2>1, <2>3, <3>1
  <2>. QED
    BY <2>2, <2>3
<1>. QED
  BY <1>1, ConcatProperties, SeqEqual

(* Tuples put together.                                                    *)
LEMMA JoinedTuples ==
  ASSUME NEW S, NEW a \in S, NEW b \in S, NEW c \in S, NEW d \in S, NEW e \in S, NEW f \in S
  PROVE  /\ <<a, b>> \o <<c>> = <<a, b, c>>
         /\ <<a, b>> \o << >> = <<a, b>>
         /\ <<a, b, c>> \o <<d, e, f>> = <<a, b, c, d, e, f>>
         /\ <<a, b>> \o <<d, e, f>> = <<a, b, d, e, f>>
<1>1. <<a, b>> \o <<c>> = <<a, b, c>>
  <2>. DEFINE s == <<a, b>>
              t == <<c>>
              u == <<a, b, c>>
  <2>1. /\ s \in Seq(S) /\ t \in Seq(S) /\ u \in Seq(S) /\ Len(u) = Len(s) + Len(t)
        /\ \A i \in 1..Len(s) : u[i] = s[i]
        /\ \A i \in 1..Len(t) : u[Len(s) + i] = t[i]
    OBVIOUS
  <2>. HIDE DEF s, t, u
  <2>2. s \o t = u
    BY <2>1, Joined
  <2>. QED
    BY <2>2 DEF s, t, u
<1>2. <<a, b>> \o << >> = <<a, b>>
  BY ConcatEmptySeq
<1>3. <<a, b, c>> \o <<d, e, f>> = <<a, b, c, d, e, f>>
  <2>. DEFINE s == <<a, b, c>>
              t == <<d, e, f>>
              u == <<a, b, c, d, e, f>>
  <2>1. /\ s \in Seq(S) /\ t \in Seq(S) /\ u \in Seq(S) /\ Len(u) = Len(s) + Len(t)
        /\ \A i \in 1..Len(s) : u[i] = s[i]
        /\ \A i \in 1..Len(t) : u[Len(s) + i] = t[i]
    OBVIOUS
  <2>. HIDE DEF s, t, u
  <2>2. s \o t = u
    BY <2>1, Joined
  <2>. QED
    BY <2>2 DEF s, t, u
<1>4. <<a, b>> \o <<d, e, f>> = <<a, b, d, e, f>>
  <2>. DEFINE s == <<a, b>>
              t == <<d, e, f>>
              u == <<a, b, d, e, f>>
  <2>1. /\ s \in Seq(S) /\ t \in Seq(S) /\ u \in Seq(S) /\ Len(u) = Len(s) + Len(t)
        /\ \A i \in 1..Len(s) : u[i] = s[i]
        /\ \A i \in 1..Len(t) : u[Len(s) + i] = t[i]
    OBVIOUS
  <2>. HIDE DEF s, t, u
  <2>2. s \o t = u
    BY <2>1, Joined
  <2>. QED
    BY <2>2 DEF s, t, u
<1>. QED
  BY <1>1, <1>2, <1>3, <1>4

Outcome == [family : Families, status : 200..599, elapsed : Nat]

(* What observe() adds to: one counter of each breakdown.                  *)
LEMMA ObservedOrderly ==
  ASSUME NEW o \in Outcome
  PROVE  /\ Observed(o) \in Seq(Counters) /\ Observed(o) # << >>
         /\ Orderly(Observed(o))
         /\ \A g \in Breakdowns : \E i \in DOMAIN Observed(o) : Observed(o)[i] \in g
         /\ \A i \in DOMAIN Observed(o) : Observed(o)[i] = "overload" =>
              \E j \in DOMAIN Observed(o) : Observed(o)[j] = "5xx"
<1>. DEFINE c == Class(o.status)
            b == Bucket(o.elapsed)
            f == o.family
<1>1. f \in Families /\ c \in Classes /\ b \in Buckets
  BY BucketIsOne DEF Class, Classes, Outcome
<1>2. o.status = 503 => c = "5xx"
  BY DEF Class
<1>3. /\ {f, c, b, "overload", "sum", "count"} \subseteq Counters
      /\ f \notin Classes \cup Buckets \cup {"overload", "sum", "count"}
      /\ c \notin Families \cup Buckets \cup {"overload", "sum", "count"}
      /\ b \notin Families \cup Classes \cup {"overload", "sum", "count"}
      /\ {"overload", "sum", "count"} \cap (Families \cup Classes \cup Buckets) = {}
  BY <1>1, MetricsAssumption DEF Counters, Classes, Buckets
<1>4. Observed(o) = IF o.status = 503 THEN <<f, c, "overload", b, "sum", "count">>
                                      ELSE <<f, c, b, "sum", "count">>
  <2>1. /\ <<f, c>> \o <<"overload">> = <<f, c, "overload">>
        /\ <<f, c>> \o << >> = <<f, c>>
        /\ <<f, c, "overload">> \o <<b, "sum", "count">> = <<f, c, "overload", b, "sum", "count">>
        /\ <<f, c>> \o <<b, "sum", "count">> = <<f, c, b, "sum", "count">>
    <3>. HIDE DEF c, b, f
    <3>. QED
      BY <1>3, JoinedTuples
  <2>. QED
    BY <2>1, Zenon DEF Observed
<1>. HIDE DEF c, b, f
<1>5. CASE o.status = 503
  <2>1. Observed(o) = <<f, "5xx", "overload", b, "sum", "count">>
    BY <1>2, <1>4, <1>5
  <2>. QED
    BY <1>1, <1>2, <1>3, <1>5, <2>1 DEF Orderly, Groups, Breakdowns
<1>6. CASE o.status # 503
  <2>1. Observed(o) = <<f, c, b, "sum", "count">>
    BY <1>4, <1>6
  <2>. QED
    BY <1>1, <1>3, <2>1 DEF Orderly, Groups, Breakdowns
<1>. QED
  BY <1>5, <1>6
----------------------------------------------------------------------------
(* What is owed when the first counter of a list has been added to.        *)
LEMMA TailOwes ==
  ASSUME NEW s \in Seq(Counters), s # << >>, Orderly(s)
  PROVE  /\ Head(s) \in Counters /\ Tail(s) \in Seq(Counters) /\ Orderly(Tail(s))
         /\ Len(s) = 1 <=> Tail(s) = << >>
         /\ \A g : (\E i \in DOMAIN s : s[i] \in g)
                     <=> Head(s) \in g \/ \E i \in DOMAIN Tail(s) : Tail(s)[i] \in g
         /\ \A g \in Groups : Head(s) \in g => ~\E i \in DOMAIN Tail(s) : Tail(s)[i] \in g
         /\ Head(s) = "overload" => ~\E i \in DOMAIN Tail(s) : Tail(s)[i] = "5xx"
<1>. DEFINE t == Tail(s)
<1>1. /\ Head(s) = s[1] /\ Head(s) \in Counters /\ t \in Seq(Counters)
      /\ Len(s) \in Nat \ {0} /\ Len(t) = Len(s) - 1
      /\ DOMAIN s = 1..Len(s) /\ DOMAIN t = 1..Len(t)
      /\ \A i \in DOMAIN t : t[i] = s[i + 1] /\ i + 1 \in DOMAIN s
  BY HeadTailProperties
<1>2. Len(t) = 0 <=> t = << >>
  BY <1>1, EmptySeq
<1>3. \A i \in DOMAIN s : i = 1 \/ (i - 1 \in DOMAIN t /\ s[i] = t[i - 1])
  BY <1>1
<1>. HIDE DEF t
<1>4. \A g : (\E i \in DOMAIN s : s[i] \in g) <=> s[1] \in g \/ \E i \in DOMAIN t : t[i] \in g
  BY <1>1, <1>3
<1>5. Orderly(t)
  <2>1. \A g \in Groups, i, j \in DOMAIN t : t[i] \in g /\ t[j] \in g => i = j
    <3>. SUFFICES ASSUME NEW g \in Groups, NEW i \in DOMAIN t, NEW j \in DOMAIN t, t[i] \in g, t[j] \in g
                  PROVE  i = j
      OBVIOUS
    <3>1. i + 1 = j + 1
      BY <1>1 DEF Orderly
    <3>. QED
      BY <1>1, <3>1
  <2>2. \A i, j \in DOMAIN t : t[i] = "overload" /\ t[j] = "5xx" => j < i
    <3>. SUFFICES ASSUME NEW i \in DOMAIN t, NEW j \in DOMAIN t, t[i] = "overload", t[j] = "5xx"
                  PROVE  j < i
      OBVIOUS
    <3>1. j + 1 < i + 1
      BY <1>1 DEF Orderly
    <3>. QED
      BY <1>1, <3>1
  <2>. QED
    BY <2>1, <2>2 DEF Orderly
<1>6. ASSUME NEW g \in Groups, s[1] \in g, NEW i \in DOMAIN t, t[i] \in g
      PROVE  FALSE
  <2>1. 1 = i + 1
    BY <1>1, <1>6 DEF Orderly
  <2>. QED
    BY <1>1, <2>1
<1>7. ASSUME s[1] = "overload", NEW i \in DOMAIN t, t[i] = "5xx"
      PROVE  FALSE
  <2>1. i + 1 < 1
    BY <1>1, <1>7 DEF Orderly
  <2>. QED
    BY <1>1, <2>1
<1>8. Len(s) = 1 <=> t = << >>
  BY <1>1, <1>2
<1>. QED
  BY <1>1, <1>4, <1>5, <1>6, <1>7, <1>8 DEF t

(* A request that begins to record owes one counter of each breakdown.     *)
LEMMA ObserveOwes ==
  ASSUME IInv, NEW r \in Requests, NEW o \in Outcome, todo[r] = << >>,
         todo' = [todo EXCEPT ![r] = Observed(o)]
  PROVE  /\ todo' \in [Requests -> Seq(Counters)] /\ todo'[r] # << >>
         /\ \A q \in Requests : Orderly(todo'[q])
         /\ \A g \in Breakdowns : Cardinality(Owing(g)') = Cardinality(Owing(g)) + 1
         /\ Unclassed' = Unclassed
<1>1. todo \in [Requests -> Seq(Counters)] /\ \A q \in Requests : Orderly(todo[q])
  BY DEF IInv, Typed, Accounted
<1>2. todo'[r] = Observed(o) /\ \A q \in Requests : q # r => todo'[q] = todo[q]
  BY <1>1
<1>3. /\ todo' \in [Requests -> Seq(Counters)] /\ todo'[r] # << >>
      /\ \A q \in Requests : Orderly(todo'[q])
  BY <1>1, <1>2, ObservedOrderly
<1>4. ASSUME NEW g
      PROVE  /\ r \notin Owing(g)
             /\ Owing(g)' = IF \E i \in DOMAIN Observed(o) : Observed(o)[i] \in g
                             THEN Owing(g) \cup {r} ELSE Owing(g)
  BY <1>2 DEF Owing
<1>5. ASSUME NEW g \in Breakdowns
      PROVE  Cardinality(Owing(g)') = Cardinality(Owing(g)) + 1
  <2>1. Owing(g)' = Owing(g) \cup {r} /\ r \notin Owing(g)
    BY <1>4, ObservedOrderly
  <2>2. Owing(g) \in SUBSET Requests
    BY DEF Owing
  <2>. QED
    BY <2>1, <2>2, OneMore
<1>6. Unclassed' = Unclassed
  <2>1. r \in Owing({"overload"})' => r \in Owing({"5xx"})'
    BY <1>2, ObservedOrderly DEF Owing
  <2>. QED
    BY <1>4, <2>1 DEF Unclassed
<1>. QED
  BY <1>3, <1>5, <1>6

(* A request that has added to a counter owes the groups without it.       *)
LEMMA AddOwes ==
  ASSUME IInv, NEW r \in Requests, todo[r] # << >>,
         todo' = [todo EXCEPT ![r] = Tail(@)]
  PROVE  LET c == Head(todo[r])
         IN  /\ c \in Counters /\ todo' \in [Requests -> Seq(Counters)]
             /\ Len(todo[r]) = 1 <=> todo'[r] = << >>
             /\ \A q \in Requests : Orderly(todo'[q])
             /\ \A g \in Groups : Cardinality(Owing(g)) =
                                      Cardinality(Owing(g)') + IF c \in g THEN 1 ELSE 0
             /\ Cardinality(Unclassed') + (IF c = "overload" THEN 1 ELSE 0)
                   <= Cardinality(Unclassed) + IF c = "5xx" THEN 1 ELSE 0
<1>. DEFINE s == todo[r]
            c == Head(s)
<1>1. todo \in [Requests -> Seq(Counters)] /\ \A q \in Requests : Orderly(todo[q])
  BY DEF IInv, Typed, Accounted
<1>2. todo'[r] = Tail(s) /\ \A q \in Requests : q # r => todo'[q] = todo[q]
  BY <1>1
<1>3. /\ c \in Counters /\ todo' \in [Requests -> Seq(Counters)]
      /\ Len(s) = 1 <=> todo'[r] = << >>
      /\ \A q \in Requests : Orderly(todo'[q])
  BY <1>1, <1>2, TailOwes
<1>4. ASSUME NEW g
      PROVE  /\ c \notin g => Owing(g)' = Owing(g)
             /\ c \in g => r \in Owing(g) /\ Owing(g) \ {r} \subseteq Owing(g)' /\ Owing(g)' \subseteq Owing(g)
             /\ c \in g /\ g \in Groups => Owing(g)' = Owing(g) \ {r}
  <2>1. r \in Owing(g) <=> c \in g \/ r \in Owing(g)'
    BY <1>1, <1>2, TailOwes DEF Owing
  <2>2. \A q \in Requests : q # r => (q \in Owing(g) <=> q \in Owing(g)')
    BY <1>2 DEF Owing
  <2>3. c \in g /\ g \in Groups => r \notin Owing(g)'
    BY <1>1, <1>2, TailOwes DEF Owing
  <2>4. Owing(g) \subseteq Requests /\ Owing(g)' \subseteq Requests
    BY DEF Owing
  <2>. HIDE DEF c
  <2>5. c \notin g => \A q \in Requests : q \in Owing(g) <=> q \in Owing(g)'
    BY <2>1, <2>2
  <2>6. c \notin g => Owing(g)' = Owing(g)
    BY <2>4, <2>5
  <2>7. Owing(g) \ {r} \subseteq Owing(g)' /\ (c \in g => Owing(g)' \subseteq Owing(g))
    BY <2>1, <2>2, <2>4
  <2>. QED
    BY <2>1, <2>3, <2>6, <2>7
<1>. HIDE DEF c
<1>5. ASSUME NEW g \in Groups
      PROVE  Cardinality(Owing(g)) = Cardinality(Owing(g)') + IF c \in g THEN 1 ELSE 0
  <2>1. Owing(g) \in SUBSET Requests /\ Cardinality(Owing(g)) \in Nat
    BY MetricsAssumption, FS_Subset, FS_CardinalityType DEF Owing
  <2>2. CASE c \in g
    BY <1>4, <2>1, <2>2, OneLess
  <2>3. CASE c \notin g
    BY <1>4, <2>1, <2>3
  <2>. QED
    BY <2>2, <2>3
<1>6. /\ Unclassed \in SUBSET Requests /\ Unclassed' \in SUBSET Requests
      /\ Cardinality(Unclassed) \in Nat /\ Cardinality(Unclassed') \in Nat
  <2>1. Unclassed \in SUBSET Requests /\ Unclassed' \in SUBSET Requests
    BY DEF Unclassed, Owing
  <2>. QED
    BY <2>1, MetricsAssumption, FS_Subset, FS_CardinalityType
<1>7. Cardinality(Unclassed') + (IF c = "overload" THEN 1 ELSE 0)
        <= Cardinality(Unclassed) + IF c = "5xx" THEN 1 ELSE 0
  <2>1. CASE c = "overload"
    <3>1. Owing({"overload"})' = Owing({"overload"}) \ {r} /\ r \in Owing({"overload"})
      BY <1>4, <2>1 DEF Groups
    <3>2. Owing({"5xx"})' = Owing({"5xx"})
      BY <1>4, <2>1
    <3>3. r \notin Owing({"5xx"})'
      BY <1>1, <1>2, <2>1, TailOwes DEF Owing, c
    <3>4. Unclassed' = Unclassed \ {r} /\ r \in Unclassed
      BY <3>1, <3>2, <3>3 DEF Unclassed
    <3>5. Cardinality(Unclassed) = Cardinality(Unclassed \ {r}) + 1
      BY <1>6, <3>4, OneLess
    <3>. QED
      BY <1>6, <2>1, <3>4, <3>5
  <2>2. CASE c = "5xx"
    <3>1. Owing({"overload"})' = Owing({"overload"})
      BY <1>4, <2>2
    <3>2. Owing({"5xx"}) \ {r} \subseteq Owing({"5xx"})' /\ Owing({"5xx"})' \subseteq Owing({"5xx"})
          /\ r \in Owing({"5xx"})
      BY <1>4, <2>2
    <3>3. r \notin Unclassed /\ (Unclassed' = Unclassed \/ Unclassed' = Unclassed \cup {r})
      BY <3>1, <3>2 DEF Unclassed
    <3>4. Cardinality(Unclassed \cup {r}) = Cardinality(Unclassed) + 1
      BY <1>6, <3>3, OneMore
    <3>5. Cardinality(Unclassed') <= Cardinality(Unclassed) + 1
      <4>1. CASE Unclassed' = Unclassed
        BY <1>6, <4>1
      <4>2. CASE Unclassed' = Unclassed \cup {r}
        BY <1>6, <3>4, <4>2
      <4>. QED
        BY <3>3, <4>1, <4>2
    <3>. QED
      BY <1>6, <2>2, <3>5
  <2>3. CASE c # "overload" /\ c # "5xx"
    <3>1. Owing({"overload"})' = Owing({"overload"}) /\ Owing({"5xx"})' = Owing({"5xx"})
      BY <1>4, <2>3
    <3>2. Unclassed' = Unclassed
      BY <3>1 DEF Unclassed
    <3>. QED
      BY <1>6, <2>3, <3>2
  <2>. QED
    BY <2>1, <2>2, <2>3
<1>. QED
  BY <1>3, <1>5, <1>7 DEF c
----------------------------------------------------------------------------
(* Totals and what is owed are naturals.                                   *)
LEMMA TotalsNat ==
  ASSUME Typed
  PROVE  \A g \in Groups : /\ Total(counters, g) \in Nat /\ Total(start, g) \in Nat
                            /\ Cardinality(Owing(g)) \in Nat
<1>. TAKE g \in Groups
<1>1. counters \in [Counters -> Nat] /\ start \in [Counters -> Nat] /\ "sum" \in Counters
  BY DEF Typed, Counters
<1>2. Total(counters, g) \in Nat /\ Total(start, g) \in Nat
  <2>. DEFINE Same(v) == \A x \in Counters : v[x] = IF x = "sum" THEN v[x] + 0 ELSE v[x]
  <2>1. Same(counters) /\ Same(start)
    BY <1>1
  <2>. QED
    BY <1>1, <2>1, TotalAfterAdd
<1>3. Owing(g) \in SUBSET Requests
  BY DEF Owing
<1>. QED
  BY <1>2, <1>3, MetricsAssumption, FS_Subset, FS_CardinalityType

(* At first nothing has been counted, and nothing is owed.                 *)
LEMMA InitIInv == Init => IInv
<1>. SUFFICES ASSUME Init
              PROVE  IInv
  OBVIOUS
<1>1. Typed /\ OneScrape
  BY DEF Init, Typed, OneScrape, Loading, Handler, Zero
<1>2. \A g : Owing(g) = {}
  BY DEF Init, Owing
<1>3. Cardinality({}) = 0
  BY FS_EmptySet
<1>4. \A g \in Groups : Total(Zero, g) = 0
  BY TotalOfZero
<1>5. Accounted
  <2>1. \A r \in Requests : Orderly(todo[r])
    BY DEF Init, Orderly
  <2>2. Unclassed = {}
    BY <1>2 DEF Unclassed
  <2>3. counters["overload"] = 0 /\ counters["5xx"] = 0
    BY DEF Init, Zero, Counters, Classes
  <2>4. \A g \in Breakdowns : Total(counters, g) + Cardinality(Owing(g)) = answers
    <3>1. counters = Zero /\ answers = 0
      BY DEF Init
    <3>. TAKE g \in Breakdowns
    <3>2. Total(Zero, g) = 0
      BY <1>4 DEF Groups
    <3>. QED
      BY <1>2, <1>3, <3>1, <3>2
  <2>. QED
    BY <1>3, <2>1, <2>2, <2>3, <2>4 DEF Accounted
<1>6. ScrapeUnderWay /\ Halfway /\ Summed
  BY DEF Init, ScrapeUnderWay, Halfway, Summed, Scraping, Loading
<1>7. LastScrape
  <2>1. counters["sum"] = 0
    BY DEF Init, Zero, Counters
  <2>. QED
    BY <1>4, <2>1 DEF Init, LastScrape, Groups
<1>. QED
  BY <1>1, <1>5, <1>6, <1>7 DEF IInv

(* A handler that starts, or is dropped while it runs.                     *)
LEMMA QuietSteps ==
  ASSUME IInv, NEW r \in Requests, Start(r) \/ Drop(r)
  PROVE  IInv'
<1>1. /\ todo' = todo /\ latency' = latency /\ counters' = counters /\ start' = start
      /\ seconds' = seconds /\ rest' = rest /\ overlap' = overlap /\ shown' = shown /\ answers' = answers
  BY DEF Start, Drop
<1>2. /\ handler' = [handler EXCEPT ![r] = handler'[r]]
      /\ handler[r] \in {"idle", "running"} /\ handler'[r] \in {"idle", "running"}
      /\ handler \in [Requests -> Handler]
  BY DEF Start, Drop, IInv, Typed
<1>3. Typed' /\ OneScrape'
  BY <1>1, <1>2 DEF IInv, Typed, OneScrape, Loading, Handler
<1>4. Scraping' => Scraping
  BY <1>2 DEF Scraping, Loading
<1>5. Accounted'
  BY <1>1 DEF IInv, Accounted, Unclassed, Owing
<1>6. ScrapeUnderWay' /\ Halfway' /\ Summed' /\ LastScrape'
  BY <1>1, <1>2, <1>4 DEF IInv, ScrapeUnderWay, Halfway, Summed, LastScrape
<1>. QED
  BY <1>3, <1>5, <1>6 DEF IInv

(* An answer is counted among the answers and owed to every breakdown.     *)
LEMMA FinishStep == ASSUME IInv, NEW r \in Requests, Finish(r) PROVE IInv'
<1>1. PICK o \in Outcomes : Observe(r, o)
  BY DEF Finish
<1>2. o \in Outcome /\ o.elapsed \in Nat
  BY MetricsAssumption DEF Outcome
<1>3. /\ handler[r] = "running" /\ handler' = [handler EXCEPT ![r] = "recording"]
      /\ todo' = [todo EXCEPT ![r] = Observed(o)] /\ latency' = [latency EXCEPT ![r] = o.elapsed]
      /\ answers' = answers + 1 /\ overlap' = (IF Scraping THEN overlap + 1 ELSE overlap)
      /\ counters' = counters /\ start' = start /\ seconds' = seconds /\ rest' = rest /\ shown' = shown
  BY <1>1 DEF Finish, Observe
<1>4. Typed /\ todo[r] = << >>
  BY <1>3 DEF IInv, Typed
<1>5. /\ todo' \in [Requests -> Seq(Counters)] /\ todo'[r] # << >>
      /\ \A q \in Requests : Orderly(todo'[q])
      /\ \A g \in Breakdowns : Cardinality(Owing(g)') = Cardinality(Owing(g)) + 1
      /\ Unclassed' = Unclassed
  BY <1>2, <1>3, <1>4, ObserveOwes, Zenon
<1>6. Typed'
  <2>1. \A q \in Requests : handler'[q] = "recording" <=> todo'[q] # << >>
    BY <1>3, <1>4, <1>5 DEF Typed
  <2>2. handler' \in [Requests -> Handler] /\ latency' \in [Requests -> Nat]
    BY <1>2, <1>3, <1>4 DEF Typed, Handler
  <2>3. counters' \in [Counters -> Nat] /\ start' \in [Counters -> Nat]
        /\ seconds' \in Nat /\ rest' \in Nat /\ overlap' \in Nat /\ answers' \in Nat
    BY <1>3, <1>4 DEF Typed
  <2>. QED
    BY <1>5, <2>1, <2>2, <2>3 DEF Typed
<1>7. OneScrape' /\ (Scraping' <=> Scraping) /\ Halfway' /\ Summed'
  BY <1>3, <1>4 DEF IInv, Typed, OneScrape, Scraping, Loading, Halfway, Summed
<1>8. \A g \in Breakdowns : /\ Total(counters, g) \in Nat /\ Total(start, g) \in Nat
                            /\ Cardinality(Owing(g)) \in Nat
  BY <1>4, TotalsNat DEF Groups
<1>9. Accounted'
  <2>1. \A g \in Breakdowns : Total(counters, g) + Cardinality(Owing(g)') = answers + 1
    BY <1>5, <1>8 DEF IInv, Accounted
  <2>. QED
    BY <1>3, <1>5, <2>1 DEF IInv, Accounted
<1>10. ScrapeUnderWay'
  <2>. SUFFICES ASSUME Scraping
                PROVE  ScrapeUnderWay'
    BY <1>7 DEF ScrapeUnderWay
  <2>1. \A g \in Breakdowns : answers <= Total(start, g) + overlap
    BY DEF IInv, ScrapeUnderWay
  <2>2. \A g \in Breakdowns : answers' <= Total(start, g) + overlap'
    BY <1>3, <1>4, <1>8, <2>1 DEF Typed
  <2>. QED
    BY <1>3, <2>2 DEF IInv, ScrapeUnderWay
<1>11. LastScrape'
  BY <1>3 DEF IInv, LastScrape
<1>. QED
  BY <1>6, <1>7, <1>9, <1>10, <1>11 DEF IInv

(* One fetch_add: what was owed is counted.                                *)
LEMMA AddStep == ASSUME IInv, NEW r \in Requests, Add(r) PROVE IInv'
<1>. DEFINE c == Head(todo[r])
            k == IF c = "sum" THEN latency[r] ELSE 1
<1>1. /\ handler[r] = "recording"
      /\ counters' = [counters EXCEPT ![c] = @ + k]
      /\ todo' = [todo EXCEPT ![r] = Tail(@)]
      /\ handler' = [handler EXCEPT ![r] = IF Len(todo[r]) = 1 THEN "idle" ELSE @]
      /\ latency' = [latency EXCEPT ![r] = IF Len(todo[r]) = 1 THEN 0 ELSE @]
      /\ start' = start /\ seconds' = seconds /\ rest' = rest /\ overlap' = overlap
      /\ shown' = shown /\ answers' = answers
  BY DEF Add
<1>2. Typed /\ todo[r] # << >>
  BY <1>1 DEF IInv, Typed
<1>3. /\ c \in Counters /\ todo' \in [Requests -> Seq(Counters)]
      /\ Len(todo[r]) = 1 <=> todo'[r] = << >>
      /\ \A q \in Requests : Orderly(todo'[q])
      /\ \A g \in Groups : Cardinality(Owing(g)) =
                               Cardinality(Owing(g)') + IF c \in g THEN 1 ELSE 0
      /\ Cardinality(Unclassed') + (IF c = "overload" THEN 1 ELSE 0)
            <= Cardinality(Unclassed) + IF c = "5xx" THEN 1 ELSE 0
  BY <1>1, <1>2, AddOwes
<1>. HIDE DEF c
<1>4. k \in Nat /\ (c # "sum" => k = 1)
  BY <1>2 DEF Typed
<1>. HIDE DEF k
<1>5. counters' = [counters EXCEPT ![c] = @ + k]
  BY <1>1
<1>6. \A g \in Groups : "sum" \notin g
  BY MetricsAssumption DEF Groups, Breakdowns, Classes, Buckets
<1>7. ASSUME NEW g \in Groups
      PROVE  /\ Total(counters, g) \in Nat /\ Cardinality(Owing(g)') \in Nat
             /\ Total(counters', g) = Total(counters, g) + IF c \in g THEN 1 ELSE 0
  <2>1. counters \in [Counters -> Nat]
    BY <1>2 DEF Typed
  <2>2. /\ Total(counters, g) \in Nat
        /\ Total(counters', g) = Total(counters, g) + IF c \in g THEN k ELSE 0
    <3>1. \A x \in Counters : counters'[x] = IF x = c THEN counters[x] + k ELSE counters[x]
      BY <1>5, <2>1
    <3>2. c \in Counters /\ k \in Nat
      BY <1>3, <1>4
    <3>. QED
      BY <2>1, <3>1, <3>2, TotalAfterAdd
  <2>3. Owing(g)' \in SUBSET Requests
    BY DEF Owing
  <2>4. Cardinality(Owing(g)') \in Nat
    BY <2>3, MetricsAssumption, FS_Subset, FS_CardinalityType
  <2>5. c \in g => k = 1
    BY <1>4, <1>6
  <2>. QED
    BY <2>2, <2>4, <2>5
<1>8. Typed'
  <2>1. counters' \in [Counters -> Nat]
    BY <1>5, <1>2, <1>3, <1>4 DEF Typed
  <2>. QED
    BY <1>1, <1>2, <1>3, <2>1 DEF Typed, Handler
<1>9. OneScrape' /\ (Scraping' <=> Scraping)
      /\ \A q \in Requests : /\ handler'[q] = "halfway" => handler[q] = "halfway"
                             /\ handler'[q] = "summed" => handler[q] = "summed"
  BY <1>1, <1>2 DEF IInv, Typed, OneScrape, Scraping, Loading
<1>10. \A g \in Groups : Total(counters, g) <= Total(counters', g)
  BY <1>7
<1>11. counters["sum"] <= counters'["sum"]
  BY <1>5, <1>2, <1>3, <1>4 DEF Typed, Counters
<1>12. Accounted'
  <2>1. \A g \in Breakdowns : Total(counters', g) + Cardinality(Owing(g)') = answers
    BY <1>3, <1>7 DEF IInv, Accounted, Groups
  <2>2. /\ counters["overload"] \in Nat /\ counters["5xx"] \in Nat
        /\ counters'["overload"] = counters["overload"] + IF c = "overload" THEN 1 ELSE 0
        /\ counters'["5xx"] = counters["5xx"] + IF c = "5xx" THEN 1 ELSE 0
    BY <1>5, <1>2, <1>3, <1>4 DEF Typed, Counters, Classes
  <2>3. Cardinality(Unclassed) \in Nat /\ Cardinality(Unclassed') \in Nat
    <3>1. Unclassed \in SUBSET Requests /\ Unclassed' \in SUBSET Requests
      BY DEF Unclassed, Owing
    <3>. QED
      BY <3>1, MetricsAssumption, FS_Subset, FS_CardinalityType
  <2>4. counters'["overload"] + Cardinality(Unclassed') <= counters'["5xx"]
    BY <1>3, <2>2, <2>3 DEF IInv, Accounted
  <2>. QED
    BY <1>1, <1>3, <2>1, <2>4 DEF Accounted
<1>13. ScrapeUnderWay'
  BY <1>1, <1>9 DEF IInv, ScrapeUnderWay
<1>14. Halfway' /\ Summed'
  <2>1. counters["sum"] \in Nat /\ counters'["sum"] \in Nat
    BY <1>2, <1>8 DEF Typed, Counters
  <2>2. seconds * Unit \in Nat /\ (seconds * Unit) + rest \in Nat
    <3>1. seconds \in Nat /\ rest \in Nat /\ Unit \in Nat
      BY <1>2, MetricsAssumption DEF Typed
    <3>. QED
      BY <3>1, Product
  <2>3. ASSUME NEW q \in Requests, handler'[q] = "halfway"
        PROVE  seconds * Unit <= counters'["sum"] /\ shown.sum < seconds * Unit + Unit
    <3>1. handler[q] = "halfway"
      BY <1>9, <2>3
    <3>2. seconds * Unit <= counters["sum"] /\ shown.sum < seconds * Unit + Unit
      BY <3>1, Zenon DEF IInv, Halfway
    <3>. QED
      BY <1>11, <2>1, <2>2, <3>2
  <2>4. ASSUME NEW q \in Requests, handler'[q] = "summed"
        PROVE  /\ (seconds * Unit) + rest <= counters'["sum"]
               /\ shown.sum < (seconds * Unit) + rest + Unit
    <3>1. /\ (seconds * Unit) + rest <= counters["sum"]
          /\ shown.sum < (seconds * Unit) + rest + Unit
      BY <1>9, <2>4, Zenon DEF IInv, Summed
    <3>. QED
      BY <1>11, <2>1, <2>2, <3>1
  <2>. QED
    BY <1>1, <2>3, <2>4 DEF Halfway, Summed
<1>15. LastScrape'
  <2>1. counters["sum"] \in Nat /\ counters'["sum"] \in Nat
    BY <1>2, <1>8 DEF Typed, Counters
  <2>2. shown.sum <= counters'["sum"]
    BY <1>11, <2>1 DEF IInv, LastScrape
  <2>3. \A g \in Groups : shown.most[g] <= Total(counters', g)
    <3>. TAKE g \in Groups
    <3>1. shown.most[g] \in Nat /\ shown.most[g] <= Total(counters, g)
      BY DEF IInv, LastScrape
    <3>. QED
      BY <1>7, <1>10, <3>1
  <2>. QED
    BY <1>1, <2>2, <2>3 DEF IInv, LastScrape
<1>. QED
  BY <1>8, <1>9, <1>12, <1>13, <1>14, <1>15 DEF IInv

(* A scrape begins.  What is in the breakdowns already is at least the     *)
(* answers less the requests that are recording.                           *)
LEMMA ScrapeStep == ASSUME IInv, NEW r \in Requests, Scrape(r) PROVE IInv'
<1>1. /\ handler[r] = "running" /\ ~Scraping
      /\ handler' = [handler EXCEPT ![r] = "scraping"]
      /\ start' = counters /\ overlap' = Cardinality(Recording)
      /\ todo' = todo /\ latency' = latency /\ counters' = counters
      /\ seconds' = seconds /\ rest' = rest /\ shown' = shown /\ answers' = answers
  BY DEF Scrape
<1>2. Typed
  BY DEF IInv
<1>3. IsFiniteSet(Recording) /\ Cardinality(Recording) \in Nat
  <2>1. Recording \in SUBSET Requests
    BY DEF Recording
  <2>. QED
    BY <2>1, MetricsAssumption, FS_Subset, FS_CardinalityType
<1>4. Typed'
  BY <1>1, <1>2, <1>3 DEF Typed, Handler
<1>5. OneScrape' /\ Halfway' /\ Summed'
  BY <1>1, <1>2 DEF Typed, OneScrape, Halfway, Summed, Scraping, Loading
<1>6. Accounted'
  BY <1>1 DEF IInv, Accounted, Unclassed, Owing
<1>7. ScrapeUnderWay'
  <2>1. ASSUME NEW g \in Breakdowns
        PROVE  answers <= Total(counters, g) + Cardinality(Recording)
    <3>1. \A q \in Requests : q \in Owing(g) => todo[q] # << >>
      BY <1>2 DEF Owing, Typed
    <3>2. Owing(g) \subseteq Recording
      BY <1>2, <3>1 DEF Typed, Recording, Owing
    <3>3. Cardinality(Owing(g)) <= Cardinality(Recording)
      BY <1>3, <3>2, FS_Subset
    <3>4. Total(counters, g) \in Nat /\ Cardinality(Owing(g)) \in Nat
      BY <1>2, TotalsNat DEF Groups
    <3>. QED
      BY <1>3, <3>3, <3>4 DEF IInv, Accounted
  <2>. QED
    BY <1>1, <2>1 DEF IInv, ScrapeUnderWay, LastScrape
<1>8. LastScrape'
  BY <1>1 DEF IInv, LastScrape
<1>. QED
  BY <1>4, <1>5, <1>6, <1>7, <1>8 DEF IInv

(* The first load of the sum: its whole seconds.                           *)
LEMMA LoadSecondsStep == ASSUME IInv, NEW r \in Requests, LoadSeconds(r) PROVE IInv'
<1>1. /\ handler[r] = "scraping" /\ handler' = [handler EXCEPT ![r] = "halfway"]
      /\ seconds' = counters["sum"] \div Unit /\ rest' = rest
      /\ todo' = todo /\ latency' = latency /\ counters' = counters /\ start' = start
      /\ overlap' = overlap /\ shown' = shown /\ answers' = answers
  BY DEF LoadSeconds
<1>2. Typed
  BY DEF IInv
<1>3. /\ counters["sum"] \in Nat /\ seconds' \in Nat
      /\ seconds' * Unit <= counters["sum"] /\ counters["sum"] < seconds' * Unit + Unit
  <2>1. counters["sum"] \in Nat
    BY <1>2 DEF Typed, Counters
  <2>. QED
    BY <1>1, <2>1, Quotient, MetricsAssumption
<1>4. Typed'
  BY <1>1, <1>2, <1>3 DEF Typed, Handler
<1>5. OneScrape' /\ (Scraping' <=> Scraping)
  BY <1>1, <1>2 DEF IInv, Typed, OneScrape, Scraping, Loading
<1>6. Accounted' /\ ScrapeUnderWay' /\ LastScrape'
  BY <1>1, <1>5 DEF IInv, Accounted, ScrapeUnderWay, LastScrape, Unclassed, Owing
<1>7. Halfway'
  <2>1. shown.sum \in Nat /\ shown.sum <= counters["sum"] /\ seconds' * Unit \in Nat
    BY <1>3, MetricsAssumption DEF IInv, LastScrape
  <2>2. shown.sum < seconds' * Unit + Unit
    BY <1>3, <2>1, MetricsAssumption
  <2>. QED
    BY <1>1, <1>3, <2>2 DEF Halfway
<1>8. Summed'
  <2>1. ASSUME NEW q \in Requests, handler'[q] = "summed"
        PROVE  FALSE
    <3>1. q # r /\ handler[q] = "summed"
      BY <1>1, <1>2, <2>1 DEF Typed
    <3>2. q \in Loading /\ r \in Loading
      BY <1>1, <3>1 DEF Loading
    <3>. QED
      BY <3>1, <3>2 DEF IInv, OneScrape
  <2>. QED
    BY <2>1 DEF Summed
<1>. QED
  BY <1>4, <1>5, <1>6, <1>7, <1>8 DEF IInv

(* Whole units below a number, and its rest, are not above it.             *)
LEMMA SecondsAndRest ==
  ASSUME NEW n \in Nat, NEW u \in Nat \ {0}, NEW s \in Nat, s * u <= n
  PROVE  (s * u) + (n % u) \in Nat /\ s * u <= (s * u) + (n % u) /\ (s * u) + (n % u) <= n
<1>. DEFINE q == n \div u
            above == n % u
<1>1. q \in Nat /\ above \in Nat /\ n = q * u + above /\ above < u
  OBVIOUS
<1>. HIDE DEF q, above
<1>2. q * u \in Nat /\ s * u \in Nat /\ q * u + u = (q + 1) * u
  BY <1>1
<1>3. s <= q
  <2>. SUFFICES ASSUME q + 1 <= s PROVE FALSE
    BY <1>1
  <2>1. (q + 1) * u <= s * u
    BY <1>1
  <2>. QED
    BY <1>1, <1>2, <2>1
<1>4. s * u <= q * u
  BY <1>1, <1>3
<1>5. (s * u) + above \in Nat /\ s * u <= (s * u) + above /\ (s * u) + above <= n
  BY <1>1, <1>2, <1>4
<1>. QED
  BY <1>5 DEF above

(* The second load, for the rest: the sum has only grown meanwhile.        *)
LEMMA LoadRestStep == ASSUME IInv, NEW r \in Requests, LoadRest(r) PROVE IInv'
<1>1. /\ handler[r] = "halfway" /\ handler' = [handler EXCEPT ![r] = "summed"]
      /\ rest' = counters["sum"] % Unit /\ seconds' = seconds
      /\ todo' = todo /\ latency' = latency /\ counters' = counters /\ start' = start
      /\ overlap' = overlap /\ shown' = shown /\ answers' = answers
  BY DEF LoadRest
<1>2. Typed
  BY DEF IInv
<1>3. counters["sum"] \in Nat /\ seconds \in Nat /\ shown.sum \in Nat
  BY <1>2 DEF Typed, Counters, IInv, LastScrape
<1>4. seconds * Unit <= counters["sum"] /\ shown.sum < seconds * Unit + Unit
  BY <1>1 DEF IInv, Halfway
<1>5. /\ rest' \in Nat /\ seconds * Unit \in Nat
      /\ (seconds * Unit) + rest' \in Nat /\ (seconds * Unit) + rest' <= counters["sum"]
  BY <1>1, <1>3, <1>4, SecondsAndRest, MetricsAssumption
<1>6. Typed'
  BY <1>1, <1>2, <1>5 DEF Typed, Handler
<1>7. OneScrape' /\ (Scraping' <=> Scraping)
  BY <1>1, <1>2 DEF IInv, Typed, OneScrape, Scraping, Loading
<1>8. Accounted' /\ ScrapeUnderWay' /\ LastScrape'
  BY <1>1, <1>7 DEF IInv, Accounted, ScrapeUnderWay, LastScrape, Unclassed, Owing
<1>9. Halfway'
  <2>1. \A q \in Requests : handler'[q] = "halfway" => handler[q] = "halfway"
    BY <1>1, <1>2 DEF Typed
  <2>. QED
    BY <1>1, <2>1 DEF IInv, Halfway
<1>10. Summed'
  <2>1. shown.sum < (seconds * Unit) + rest' + Unit
    BY <1>3, <1>4, <1>5, MetricsAssumption
  <2>. QED
    BY <1>1, <1>5, <2>1 DEF Summed
<1>. QED
  BY <1>6, <1>7, <1>8, <1>9, <1>10 DEF IInv

(* What a finished scrape shows.                                           *)
LEMMA RenderShows ==
  ASSUME IInv, NEW r \in Requests, Render(r)
  PROVE  /\ shown'.least \in [Groups -> Nat] /\ shown'.most \in [Groups -> Nat]
         /\ shown'.sum \in Nat /\ shown'.overlap \in Nat
         /\ \A g, h \in Breakdowns : shown'.most[g] <= shown'.least[h] + shown'.overlap
         /\ \A g \in Groups : shown'.most[g] = Total(counters, g) /\ shown.most[g] <= shown'.least[g]
         /\ shown'.sum <= counters["sum"] /\ shown.sum < shown'.sum + Unit
<1>1. handler[r] = "summed" /\ Scraping
  BY DEF Render, Scraping, Loading
<1>2. /\ shown'.least = [g \in Groups |-> Total(start, g)]
      /\ shown'.most = [g \in Groups |-> Total(counters, g)]
      /\ shown'.sum = (seconds * Unit) + rest
      /\ shown'.overlap = overlap
  BY DEF Render, Loaded
<1>3. \A g \in Groups : Total(counters, g) \in Nat /\ Total(start, g) \in Nat
  BY TotalsNat DEF IInv
<1>4. overlap \in Nat /\ counters["sum"] \in Nat /\ seconds \in Nat /\ rest \in Nat
  BY DEF IInv, Typed, Counters
<1>5. ASSUME NEW g \in Breakdowns, NEW h \in Breakdowns
      PROVE  Total(counters, g) <= Total(start, h) + overlap
  <2>1. Total(counters, g) + Cardinality(Owing(g)) = answers /\ Cardinality(Owing(g)) \in Nat
    BY TotalsNat DEF IInv, Accounted, Groups
  <2>2. answers <= Total(start, h) + overlap
    BY <1>1 DEF IInv, ScrapeUnderWay
  <2>3. Total(counters, g) \in Nat /\ Total(start, h) \in Nat
    BY <1>3 DEF Groups
  <2>. QED
    BY <1>4, <2>1, <2>2, <2>3
<1>6. /\ (seconds * Unit) + rest <= counters["sum"]
      /\ shown.sum < (seconds * Unit) + rest + Unit
  BY <1>1 DEF IInv, Summed
<1>7. shown'.sum \in Nat /\ shown'.sum <= counters["sum"]
  BY <1>2, <1>4, <1>6, MetricsAssumption
<1>8. shown.sum < shown'.sum + Unit
  BY <1>2, <1>6
<1>9. \A g \in Groups : shown.most[g] <= Total(start, g)
  BY <1>1 DEF IInv, ScrapeUnderWay
<1>10. Breakdowns \subseteq Groups
  BY DEF Groups
<1>11. \A g, h \in Breakdowns : shown'.most[g] <= shown'.least[h] + shown'.overlap
  BY <1>2, <1>5, <1>10
<1>12. shown'.least \in [Groups -> Nat] /\ shown'.most \in [Groups -> Nat]
  BY <1>2, <1>3
<1>13. \A g \in Groups : shown'.most[g] = Total(counters, g) /\ shown.most[g] <= shown'.least[g]
  BY <1>2, <1>9
<1>. QED
  BY <1>2, <1>4, <1>7, <1>8, <1>11, <1>12, <1>13

(* The scrape ends and is itself an answer to record.                      *)
LEMMA RenderStep == ASSUME IInv, NEW r \in Requests, Render(r) PROVE IInv'
<1>. DEFINE o == [family |-> "other", status |-> 200, elapsed |-> ScrapeTakes]
<1>1. o \in Outcome /\ o.elapsed \in Nat
  BY MetricsAssumption DEF Outcome
<1>2. /\ handler[r] = "summed" /\ handler' = [handler EXCEPT ![r] = "recording"]
      /\ todo' = [todo EXCEPT ![r] = Observed(o)] /\ latency' = [latency EXCEPT ![r] = o.elapsed]
      /\ answers' = answers + 1 /\ overlap' = 0 /\ start' = Zero /\ seconds' = 0 /\ rest' = 0
      /\ counters' = counters
  BY DEF Render, Observe
<1>. HIDE DEF o
<1>3. Typed /\ todo[r] = << >>
  BY <1>2 DEF IInv, Typed
<1>4. /\ todo' \in [Requests -> Seq(Counters)] /\ todo'[r] # << >>
      /\ \A q \in Requests : Orderly(todo'[q])
      /\ \A g \in Breakdowns : Cardinality(Owing(g)') = Cardinality(Owing(g)) + 1
      /\ Unclassed' = Unclassed
  BY <1>1, <1>2, <1>3, ObserveOwes, Zenon
<1>5. Typed'
  <2>1. \A q \in Requests : handler'[q] = "recording" <=> todo'[q] # << >>
    BY <1>2, <1>3, <1>4 DEF Typed
  <2>2. handler' \in [Requests -> Handler] /\ latency' \in [Requests -> Nat]
    BY <1>1, <1>2, <1>3 DEF Typed, Handler
  <2>3. counters' \in [Counters -> Nat] /\ start' \in [Counters -> Nat]
        /\ seconds' \in Nat /\ rest' \in Nat /\ overlap' \in Nat /\ answers' \in Nat
    BY <1>2, <1>3 DEF Typed, Zero
  <2>. QED
    BY <1>4, <2>1, <2>2, <2>3 DEF Typed
<1>6. ~Scraping' /\ OneScrape' /\ Halfway' /\ Summed'
  BY <1>2, <1>3 DEF IInv, Typed, OneScrape, Scraping, Loading, Halfway, Summed
<1>7. Accounted'
  <2>1. ASSUME NEW g \in Breakdowns
        PROVE  Total(counters, g) + Cardinality(Owing(g)') = answers + 1
    <3>1. Total(counters, g) \in Nat /\ Cardinality(Owing(g)) \in Nat
      BY <1>3, TotalsNat DEF Groups
    <3>. QED
      BY <1>4, <3>1 DEF IInv, Accounted
  <2>. QED
    BY <1>2, <1>4, <2>1 DEF IInv, Accounted
<1>8. LastScrape'
  <2>1. \A g \in Groups : Total(counters, g) \in Nat
    BY <1>3, TotalsNat
  <2>. QED
    BY <1>2, <2>1, RenderShows DEF LastScrape
<1>. QED
  BY <1>5, <1>6, <1>7, <1>8 DEF IInv, ScrapeUnderWay

(* Every step keeps the invariant.                                         *)
LEMMA StepIInv == IInv /\ [Next]_vars => IInv'
<1>. SUFFICES ASSUME IInv, [Next]_vars
              PROVE  IInv'
  OBVIOUS
<1>1. ASSUME NEW r \in Requests, Start(r) PROVE IInv'
  BY <1>1, QuietSteps
<1>2. ASSUME NEW r \in Requests, Drop(r) PROVE IInv'
  BY <1>2, QuietSteps
<1>3. ASSUME NEW r \in Requests, Finish(r) PROVE IInv'
  BY <1>3, FinishStep
<1>4. ASSUME NEW r \in Requests, Add(r) PROVE IInv'
  BY <1>4, AddStep
<1>5. ASSUME NEW r \in Requests, Scrape(r) PROVE IInv'
  BY <1>5, ScrapeStep
<1>6. ASSUME NEW r \in Requests, LoadSeconds(r) PROVE IInv'
  BY <1>6, LoadSecondsStep
<1>7. ASSUME NEW r \in Requests, LoadRest(r) PROVE IInv'
  BY <1>7, LoadRestStep
<1>8. ASSUME NEW r \in Requests, Render(r) PROVE IInv'
  BY <1>8, RenderStep
<1>9. CASE UNCHANGED vars
  <2>1. /\ handler' = handler /\ todo' = todo /\ latency' = latency /\ counters' = counters
        /\ start' = start /\ seconds' = seconds /\ rest' = rest /\ overlap' = overlap /\ shown' = shown
        /\ answers' = answers
    BY <1>9 DEF vars
  <2>2. Typed' /\ OneScrape' /\ Accounted'
    BY <2>1 DEF IInv, Typed, OneScrape, Loading, Accounted, Unclassed, Owing
  <2>3. ScrapeUnderWay' /\ Halfway' /\ Summed' /\ LastScrape'
    BY <2>1 DEF IInv, ScrapeUnderWay, Scraping, Loading, Halfway, Summed, LastScrape
  <2>. QED
    BY <2>2, <2>3 DEF IInv
<1>. QED
  BY <1>1, <1>2, <1>3, <1>4, <1>5, <1>6, <1>7, <1>8, <1>9 DEF Next

(* The invariant holds throughout.                                         *)
LEMMA AlwaysIInv == Spec => []IInv
BY InitIInv, StepIInv, PTL DEF Spec

----------------------------------------------------------------------------
(* Types: a handler is recording while it has counters left, and whoever   *)
(* scrapes scrapes alone.                                                  *)
THEOREM TypeCorrect == Spec => []TypeOK
<1>1. IInv => TypeOK
  <2>. SUFFICES ASSUME IInv
                PROVE  TypeOK
    OBVIOUS
  <2>. DEFINE S == Loading
  <2>1. Cardinality(S) <= 1
    <3>1. CASE S = {}
      BY <3>1, FS_EmptySet
    <3>2. CASE S # {}
      <4>1. PICK r \in S : TRUE
        BY <3>2
      <4>2. S = {r}
        BY <4>1 DEF IInv, OneScrape, Loading
      <4>3. Cardinality({r}) = 1
        BY FS_Singleton
      <4>. QED
        BY <4>2, <4>3
    <3>. QED
      BY <3>1, <3>2
  <2>2. /\ handler \in [Requests -> Handler] /\ counters \in [Counters -> Nat]
        /\ \A r \in Requests : /\ todo[r] \in Seq(Counters)
                               /\ handler[r] = "recording" <=> todo[r] # << >>
    BY DEF IInv, Typed
  <2>. QED
    BY <2>1, <2>2 DEF TypeOK
<1>. QED
  BY <1>1, AlwaysIInv, PTL

(* App::handle: however the requests overlap and whoever disconnects, when *)
(* nobody is recording every answer has been counted once by family, once  *)
(* by class and once by bucket, and the shed ones among the 5xx.           *)
THEOREM AnswersCounted == Spec => []EachAnswerCountedOnce
<1>1. IInv => EachAnswerCountedOnce
  <2>. SUFFICES ASSUME IInv, Recording = {}
                PROVE  /\ \A g \in Breakdowns : Total(counters, g) = answers
                       /\ counters["overload"] <= counters["5xx"]
    BY DEF EachAnswerCountedOnce
  <2>1. \A r \in Requests : todo[r] = << >>
    BY DEF IInv, Typed, Recording
  <2>2. \A g : Owing(g) = {}
    BY <2>1 DEF Owing
  <2>3. Unclassed = {} /\ Cardinality({}) = 0
    BY <2>2, FS_EmptySet DEF Unclassed
  <2>4. ASSUME NEW g \in Breakdowns
        PROVE  Total(counters, g) = answers
    <3>1. Total(counters, g) \in Nat
      BY TotalsNat DEF IInv, Groups
    <3>2. Total(counters, g) + Cardinality(Owing(g)) = answers
      BY DEF IInv, Accounted
    <3>. QED
      BY <2>2, <2>3, <3>1, <3>2
  <2>5. counters["overload"] \in Nat /\ counters["5xx"] \in Nat
    BY DEF IInv, Typed, Counters, Classes
  <2>. QED
    BY <2>3, <2>4, <2>5 DEF IInv, Accounted
<1>. QED
  BY <1>1, AlwaysIInv, PTL

(* render(): what a scrape shows of two breakdowns differs by no more than *)
(* the requests that recorded something while it loaded them.              *)
THEOREM ScrapesAlwaysBalance == Spec => []ScrapesBalance
<1>1. IInv => ScrapesBalance
  <2>. SUFFICES ASSUME IInv, NEW g \in Breakdowns, NEW h \in Breakdowns
                PROVE  shown.most[g] - shown.least[h] <= shown.overlap
    BY DEF ScrapesBalance
  <2>1. shown.most[g] \in Nat /\ shown.least[h] \in Nat /\ shown.overlap \in Nat
    BY DEF IInv, LastScrape, Groups
  <2>. QED
    BY <2>1 DEF IInv, LastScrape
<1>. QED
  BY <1>1, AlwaysIInv, PTL

(* render(): no counter is shown lower than the scrape before showed it,   *)
(* and the latency sum lower by less than a second.                        *)
THEOREM ScrapesGoForward == Spec => ScrapesNeverGoBack
<1>1. IInv /\ [Next]_vars =>
        [shown # shown' => /\ \A g \in Groups : shown.most[g] <= shown'.least[g]
                           /\ shown.sum < shown'.sum + Unit]_vars
  <2>. SUFFICES ASSUME IInv, Next, shown # shown'
                PROVE  /\ \A g \in Groups : shown.most[g] <= shown'.least[g]
                       /\ shown.sum < shown'.sum + Unit
    OBVIOUS
  <2>1. PICK r \in Requests : Render(r)
    BY DEF Next, Start, Drop, Finish, Add, Scrape, LoadSeconds, LoadRest
  <2>. QED
    BY <2>1, RenderShows
<1>. QED
  BY <1>1, AlwaysIInv, PTL DEF Spec, ScrapesNeverGoBack
=============================================================================
