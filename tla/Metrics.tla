------------------------------ MODULE Metrics -------------------------------
(***************************************************************************)
(* The counters of crates/server/src/metrics.rs: App::handle records every *)
(* finished request with one relaxed fetch_add per counter, and /metrics   *)
(* loads the counters one by one while others go on recording.             *)
(*                                                                         *)
(* A request adds to its counters in the order of the code.  A scrape may  *)
(* load each of them at any time between its begin and its end: it sees    *)
(* some value the counter has had since, so what it loads of one says      *)
(* nothing of another, which is all that relaxed loads promise.  Only the  *)
(* two loads of the latency sum, which are of one atomic, are steps of     *)
(* their own; others of the scrape may come before and after them.         *)
(***************************************************************************)
EXTENDS Integers, Sequences, FiniteSetsExt, Functions

CONSTANTS Requests,      (* handler slots                                   *)
          Families,      (* labels of iiif_requests_total, with "other"     *)
          Outcomes,      (* requests, as records of family, status, elapsed *)
          ScrapeTakes,   (* how long a scrape takes                         *)
          Bounds,        (* the latency buckets' upper bounds, by name      *)
          Unit,          (* latency units in a second                       *)
          MaxAnswers     (* bound: requests ever answered                   *)

Classes == {"2xx", "3xx", "4xx", "5xx"}
Buckets == DOMAIN Bounds \cup {"+Inf"}
Counters == Families \cup Classes \cup Buckets \cup {"overload", "sum", "count"}

(* Every atomic has a name of its own.                                     *)
ASSUME MetricsAssumption ==
  /\ IsFiniteSet(Requests) /\ IsFiniteSet(Families) /\ IsFiniteSet(DOMAIN Bounds)
  /\ "other" \in Families
  /\ Families \cap DOMAIN Bounds = {}
  /\ (Families \cup DOMAIN Bounds) \cap (Classes \cup {"+Inf", "overload", "sum", "count"}) = {}
  /\ Bounds \in [DOMAIN Bounds -> Nat]
  /\ Outcomes \subseteq [family : Families, status : 200..599, elapsed : Nat]
  /\ ScrapeTakes \in Nat
  /\ Unit \in Nat \ {0} /\ MaxAnswers \in Nat

VARIABLES
  handler,   (* what the handler of each slot does                          *)
  todo,      (* the counters its request has still to add to ...            *)
  latency,   (* ... and what it adds to the sum, 0 when it records nothing  *)
  counters,  (* the atomics                                                 *)
  start,     (* the counters as a scrape under way began, 0 without one     *)
  seconds,   (* the sum's whole seconds as its first load saw it, likewise, *)
  rest,      (* ... and what its second load saw above whole seconds        *)
  overlap,   (* requests that recorded something during that scrape         *)
  shown,     (* what the last finished scrape loaded, and its overlap       *)
  answers    (* requests answered so far                                    *)

vars == <<handler, todo, latency, counters, start, seconds, rest, overlap, shown, answers>>

(* What a scrape is compared by: the breakdowns, whose totals are the      *)
(* requests, the count and the overload.                                   *)
Breakdowns == {Families, Classes, Buckets, {"count"}}
Groups == Breakdowns \cup {{"overload"}}

Zero == [c \in Counters |-> 0]

Handler == {"idle", "running", "scraping", "halfway", "summed", "recording"}

Init == /\ handler = [r \in Requests |-> "idle"]
        /\ todo = [r \in Requests |-> << >>]
        /\ latency = [r \in Requests |-> 0]
        /\ counters = Zero
        /\ start = Zero
        /\ seconds = 0 /\ rest = 0
        /\ overlap = 0
        /\ shown = [least |-> [g \in Groups |-> 0], most |-> [g \in Groups |-> 0],
                    sum |-> 0, overlap |-> 0]
        /\ answers = 0

----------------------------------------------------------------------------
Loading == {r \in Requests : handler[r] \in {"scraping", "halfway", "summed"}}

Scraping == Loading # {}

Recording == {r \in Requests : handler[r] = "recording"}

Class(status) == CASE status \div 100 = 2 -> "2xx"
                   [] status \div 100 = 3 -> "3xx"
                   [] status \div 100 = 4 -> "4xx"
                   [] OTHER               -> "5xx"

Holding(elapsed) == {b \in DOMAIN Bounds : elapsed <= Bounds[b]}

(* A bug: a latency above every bound is counted past the last bucket.     *)
BucketPastEnd(elapsed) ==
  IF Holding(elapsed) = {} THEN "past the end"
  ELSE CHOOSE b \in Holding(elapsed) : \A c \in Holding(elapsed) : Bounds[b] <= Bounds[c]

(* The first bucket that holds a latency, or the +Inf one.                 *)
Bucket(elapsed) ==
  IF Holding(elapsed) = {} THEN "+Inf"
  ELSE CHOOSE b \in Holding(elapsed) : \A c \in Holding(elapsed) : Bounds[b] <= Bounds[c]

(* A bug: a shed request is counted as overload and in no class.           *)
ObservedShedApart(o) ==
  <<o.family>> \o (IF o.status = 503 THEN <<"overload">> ELSE <<Class(o.status)>>)
    \o <<Bucket(o.elapsed), "sum", "count">>

(* The counters observe() adds to, in its order.                           *)
Observed(o) ==
  <<o.family, Class(o.status)>> \o (IF o.status = 503 THEN <<"overload">> ELSE << >>)
    \o <<Bucket(o.elapsed), "sum", "count">>

----------------------------------------------------------------------------
Start(r) == /\ handler[r] = "idle"
            /\ handler' = [handler EXCEPT ![r] = "running"]
            /\ UNCHANGED <<todo, latency, counters, start, seconds, rest, overlap, shown, answers>>

(* A bug: the client's leaving also stops the recording.                   *)
DropRecording(r) == /\ handler[r] \in {"running", "recording"}
                    /\ handler' = [handler EXCEPT ![r] = "idle"]
                    /\ todo' = [todo EXCEPT ![r] = << >>]
                    /\ latency' = [latency EXCEPT ![r] = 0]
                    /\ UNCHANGED <<counters, start, seconds, rest, overlap, shown, answers>>

(* The client leaves before the answer: handle() is dropped at its await   *)
(* and observes nothing.                                                   *)
Drop(r) == /\ handler[r] = "running"
           /\ handler' = [handler EXCEPT ![r] = "idle"]
           /\ UNCHANGED <<todo, latency, counters, start, seconds, rest, overlap, shown, answers>>

(* The answer is there and observe() begins.                               *)
Observe(r, o) ==
  /\ answers < MaxAnswers
  /\ answers' = answers + 1
  /\ handler' = [handler EXCEPT ![r] = "recording"]
  /\ todo' = [todo EXCEPT ![r] = Observed(o)]
  /\ latency' = [latency EXCEPT ![r] = o.elapsed]
  /\ UNCHANGED counters

Finish(r) == /\ handler[r] = "running"
             /\ \E o \in Outcomes : Observe(r, o)
             /\ overlap' = IF Scraping THEN overlap + 1 ELSE overlap
             /\ UNCHANGED <<start, seconds, rest, shown>>

(* One fetch_add.                                                          *)
Add(r) ==
  LET last == Len(todo[r]) = 1
      c    == Head(todo[r])
  IN  /\ handler[r] = "recording"
      /\ counters' = [counters EXCEPT ![c] = @ + IF c = "sum" THEN latency[r] ELSE 1]
      /\ todo' = [todo EXCEPT ![r] = Tail(@)]
      /\ handler' = [handler EXCEPT ![r] = IF last THEN "idle" ELSE @]
      /\ latency' = [latency EXCEPT ![r] = IF last THEN 0 ELSE @]
      /\ UNCHANGED <<start, seconds, rest, overlap, shown, answers>>

----------------------------------------------------------------------------
(* /metrics: render() begins to load.  One scraper at a time.              *)
Scrape(r) == /\ handler[r] = "running"
             /\ ~Scraping
             /\ handler' = [handler EXCEPT ![r] = "scraping"]
             /\ start' = counters
             /\ overlap' = Cardinality(Recording)
             /\ UNCHANGED <<todo, latency, counters, seconds, rest, shown, answers>>

(* The first load of the sum, for the whole seconds ...                    *)
LoadSeconds(r) == /\ handler[r] = "scraping"
                  /\ handler' = [handler EXCEPT ![r] = "halfway"]
                  /\ seconds' = counters["sum"] \div Unit
                  /\ UNCHANGED <<todo, latency, counters, start, rest, overlap, shown, answers>>

(* ... and the second, for the rest.  The count is loaded after it.        *)
LoadRest(r) == /\ handler[r] = "halfway"
               /\ handler' = [handler EXCEPT ![r] = "summed"]
               /\ rest' = counters["sum"] % Unit
               /\ UNCHANGED <<todo, latency, counters, start, seconds, overlap, shown, answers>>

Total(values, group) == SumFunctionOnSet(values, group)

(* A bug: a scrape shows what has been added since it began.               *)
LoadedAfresh(from, to) ==
  [least |-> [g \in Groups |-> 0], most |-> [g \in Groups |-> Total(to, g) - Total(from, g)]]

(* The loads of a group can have seen, added up, anything between.         *)
Loaded(from, to) ==
  [least |-> [g \in Groups |-> Total(from, g)], most |-> [g \in Groups |-> Total(to, g)]]

(* All is loaded: the document is rendered, and the scrape is itself       *)
(* observed.  Only the totals of the groups are kept: the +Inf bucket it   *)
(* shows is the total of the buckets.                                      *)
Render(r) ==
  /\ handler[r] = "summed"
  /\ LET totals == Loaded(start, counters)
     IN  shown' = [least |-> totals.least, most |-> totals.most,
                   sum |-> (seconds * Unit) + rest, overlap |-> overlap]
  /\ start' = Zero
  /\ seconds' = 0 /\ rest' = 0
  /\ overlap' = 0
  /\ Observe(r, [family |-> "other", status |-> 200, elapsed |-> ScrapeTakes])

Next == \E r \in Requests : \/ Start(r)
                            \/ Drop(r)
                            \/ Finish(r)
                            \/ Add(r)
                            \/ Scrape(r)
                            \/ LoadSeconds(r)
                            \/ LoadRest(r)
                            \/ Render(r)

Spec == Init /\ [][Next]_vars

----------------------------------------------------------------------------
(* Types; a handler is recording while it has counters to add to, and one  *)
(* scrape at most is under way.                                            *)
TypeOK == /\ handler \in [Requests -> Handler]
          /\ counters \in [Counters -> Nat]
          /\ \A r \in Requests : /\ todo[r] \in Seq(Counters)
                                 /\ handler[r] = "recording" <=> todo[r] # << >>
          /\ Cardinality(Loading) <= 1

(* Every answer is counted once in each breakdown - by family, by class,   *)
(* by bucket - whoever disconnects: when nobody is recording the totals    *)
(* are all the number of answers, and what was shed is among the 5xx.      *)
EachAnswerCountedOnce ==
  Recording = {} =>
    /\ \A g \in Breakdowns : Total(counters, g) = answers
    /\ counters["overload"] <= counters["5xx"]

(* Although it loads the counters one by one while requests go on          *)
(* recording, a scrape's totals differ by no more than the requests that   *)
(* recorded something meanwhile; a quiet scrape balances exactly.          *)
ScrapesBalance ==
  \A g, h \in Breakdowns : shown.most[g] - shown.least[h] <= shown.overlap

(* A counter never goes back from one scrape to the next, and the latency  *)
(* sum, whose seconds and rest are two loads, by less than a second.       *)
ScrapesNeverGoBack ==
  [][shown # shown' => /\ \A g \in Groups : shown.most[g] <= shown'.least[g]
                       /\ shown.sum < shown'.sum + Unit]_vars
=============================================================================
