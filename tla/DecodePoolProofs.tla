------------------------- MODULE DecodePoolProofs --------------------------
(***************************************************************************)
(* For every set of slots, every number of workers and every queue depth:  *)
(* the permits of DecodePool are conserved, none is idle beside a waiter,  *)
(* nobody waits for nobody, and the semaphores implement BoundedPool.      *)
(***************************************************************************)
EXTENDS DecodePool, FiniteSetTheorems, SequenceTheorems, TLAPS

(* A task is only ever found beside an idle slot (its handler is gone) or  *)
(* a handler that joins it, and only such a handler keeps its result.      *)
TaskShape == \A r \in Requests :
               /\ task[r] # "none" => pc[r] \in {"idle", "join"}
               /\ pc[r] = "join" => task[r] # "none"
               /\ task[r] = "ended" => pc[r] = "join"

(* The types without the bounds on the two counters, which follow from     *)
(* conservation.                                                           *)
Typed == /\ pc \in [Requests -> PC]
         /\ task \in [Requests -> Task]
         /\ status \in [Requests -> Status]
         /\ admission \in Nat
         /\ decode \in Nat
         /\ waiters \in Seq(Requests)
         /\ granted \in SUBSET Requests
         /\ parallel \in [Requests -> BOOLEAN]

IInv == Typed /\ NoGhostWaiters /\ TaskShape /\ PermitsConserved

----------------------------------------------------------------------------
(* Counting one owner more or less.                                        *)
LEMMA OneMore ==
  ASSUME NEW S \in SUBSET Requests, NEW r \in Requests, r \notin S
  PROVE  Cardinality(S \cup {r}) = Cardinality(S) + 1
BY PoolAssumption, FS_Subset, FS_AddElement

(* ... and one fewer when r is taken out.                                  *)
LEMMA OneLess ==
  ASSUME NEW S \in SUBSET Requests, NEW r \in S
  PROVE  /\ Cardinality(S \ {r}) \in Nat
         /\ Cardinality(S) = Cardinality(S \ {r}) + 1
<1>1. IsFiniteSet(S)
  BY PoolAssumption, FS_Subset
<1>2. Cardinality(S) \in Nat
  BY <1>1, FS_CardinalityType
<1>3. Cardinality(S \ {r}) = Cardinality(S) - 1
  BY <1>1, FS_RemoveElement
<1>4. Cardinality(S \ {r}) \in Nat
  BY PoolAssumption, FS_Subset, FS_CardinalityType
<1>. QED
  BY <1>2, <1>3, <1>4

(* The owners of each semaphore are finitely many.                         *)
LEMMA OwnersCounted ==
  /\ Cardinality(AdmissionOwners) \in Nat
  /\ Typed => Cardinality(DecodeOwners) \in Nat
<1>1. AdmissionOwners \in SUBSET Requests
  BY DEF AdmissionOwners, Queueing, Executing
<1>2. Typed => DecodeOwners \in SUBSET Requests
  BY DEF DecodeOwners, Executing, Freeing, Typed
<1>. QED
  BY <1>1, <1>2, PoolAssumption, FS_Subset, FS_CardinalityType

(* What is left of a sequence without its element i.                       *)
LEMMA RemoveAtFacts ==
  ASSUME NEW S, NEW s \in Seq(S), NEW i \in DOMAIN s
  PROVE  /\ RemoveAt(s, i) \in Seq(S)
         /\ Len(RemoveAt(s, i)) = Len(s) - 1
         /\ \A k \in DOMAIN RemoveAt(s, i) :
               RemoveAt(s, i)[k] = IF k < i THEN s[k] ELSE s[k + 1]
<1>. DEFINE a == SubSeq(s, 1, i - 1)
            b == SubSeq(s, i + 1, Len(s))
<1>1. /\ i \in 1..Len(s) /\ Len(s) \in Nat /\ \A k \in 1..Len(s) : s[k] \in S
  OBVIOUS
<1>2. a \in Seq(S) /\ Len(a) = i - 1 /\ \A k \in 1..(i - 1) : a[k] = s[k]
  BY <1>1, SubSeqProperties
<1>3. b \in Seq(S) /\ Len(b) = Len(s) - i /\ \A k \in 1..(Len(s) - i) : b[k] = s[k + i]
  BY <1>1, SubSeqProperties
<1>4. RemoveAt(s, i) = a \o b
  BY DEF RemoveAt
<1>. HIDE DEF a, b
<1>5. /\ a \o b \in Seq(S)
      /\ Len(a \o b) = Len(a) + Len(b)
      /\ \A k \in 1..(Len(a) + Len(b)) :
           (a \o b)[k] = IF k <= Len(a) THEN a[k] ELSE b[k - Len(a)]
  BY <1>2, <1>3, ConcatProperties
<1>6. Len(a) + Len(b) = Len(s) - 1
  BY <1>1, <1>2, <1>3
<1>7. ASSUME NEW k \in 1..(Len(s) - 1)
      PROVE  (a \o b)[k] = IF k < i THEN s[k] ELSE s[k + 1]
  <2>1. CASE k < i
    <3>1. k \in 1..(i - 1) /\ k <= Len(a)
      BY <1>1, <1>2, <2>1
    <3>. QED
      BY <1>2, <1>5, <1>6, <2>1, <3>1
  <2>2. CASE ~(k < i)
    <3>1. /\ ~(k <= Len(a)) /\ k - Len(a) \in 1..(Len(s) - i)
          /\ (k - Len(a)) + i = k + 1
      BY <1>1, <1>2, <2>2
    <3>2. (a \o b)[k] = b[k - Len(a)]
      BY <1>5, <1>6, <3>1
    <3>3. b[k - Len(a)] = s[(k - Len(a)) + i]
      BY <1>3, <3>1
    <3>. QED
      BY <2>2, <3>1, <3>2, <3>3
  <2>. QED
    BY <2>1, <2>2
<1>8. DOMAIN (a \o b) = 1..(Len(s) - 1)
  BY <1>5, <1>6
<1>. QED
  BY <1>4, <1>5, <1>6, <1>7, <1>8

(* With every permit in its semaphore and no handler, the invariant holds. *)
THEOREM InitIInv == Init => IInv
<1>. SUFFICES ASSUME Init
              PROVE  IInv
  OBVIOUS
<1>. USE DEF Init
<1>1. Typed
  BY PoolAssumption DEF Typed, PC, Task, Status
<1>2. NoGhostWaiters /\ TaskShape
  BY DEF NoGhostWaiters, TaskShape
<1>3. AdmissionOwners = {} /\ DecodeOwners = {}
  BY DEF AdmissionOwners, DecodeOwners, Queueing, Executing, Freeing
<1>4. PermitsConserved
  BY <1>3, FS_EmptySet, PoolAssumption DEF PermitsConserved
<1>. QED
  BY <1>1, <1>2, <1>4 DEF IInv

----------------------------------------------------------------------------
(* How a step changes what it does not count.  Each lemma below is one     *)
(* action, or a group of actions that move the same permits.               *)

(* A returned permit raises the semaphore by one, or moves the oldest      *)
(* waiter from the queue to the handlers granted one.                      *)
LEMMA GiveBackFacts ==
  ASSUME Typed, NoGhostWaiters, NEW from \in SUBSET granted, GiveBack(from)
  PROVE  /\ decode' \in Nat /\ waiters' \in Seq(Requests) /\ granted' \in SUBSET Requests
         /\ \A i \in DOMAIN waiters' : \E j \in DOMAIN waiters :
               waiters'[i] = waiters[j] /\ waiters[j] \notin granted'
         /\ \A i, j \in DOMAIN waiters' : waiters'[i] = waiters'[j] => i = j
         /\ \/ granted' = from /\ decode' = decode + 1
            \/ /\ decode' = decode
               /\ \E i \in DOMAIN waiters : granted' = from \cup {waiters[i]}
<1>. USE DEF Typed, NoGhostWaiters, GiveBack
<1>1. CASE waiters = <<>>
  BY <1>1
<1>2. CASE waiters # <<>>
  <2>1. Head(waiters) = waiters[1] /\ 1 \in DOMAIN waiters
    BY <1>2
  <2>2. /\ waiters' = Tail(waiters)
        /\ granted' = from \cup {waiters[1]}
        /\ decode' = decode
    BY <1>2, <2>1
  <2>3. \A i \in DOMAIN waiters' : i + 1 \in DOMAIN waiters /\ waiters'[i] = waiters[i + 1]
    BY <1>2, <2>2
  <2>4. \A i \in DOMAIN waiters' : waiters[i + 1] \notin granted'
    BY <2>1, <2>2, <2>3
  <2>5. \A i \in DOMAIN waiters' : \E j \in DOMAIN waiters :
           waiters'[i] = waiters[j] /\ waiters[j] \notin granted'
    BY <2>3, <2>4
  <2>6. \A i, j \in DOMAIN waiters' : waiters'[i] = waiters'[j] => i = j
    BY <1>2, <2>2, <2>3
  <2>7. waiters' \in Seq(Requests) /\ granted' \in SUBSET Requests /\ decode' \in Nat
    BY <1>2, <2>1, <2>2
  <2>. QED
    BY <2>1, <2>2, <2>5, <2>6, <2>7
<1>. QED
  BY <1>1, <1>2

(* Steps that move no permit and leave the semaphore alone.                *)
LEMMA UncountedSteps ==
  ASSUME IInv, NEW r \in Requests,
         \/ Arrive(r) \/ AnswerUnopened(r) \/ Shed(r) \/ OpenInfo(r) \/ Spawn(r)
         \/ FinishOpen(r) \/ Reply(r) \/ DropResolving(r) \/ DropJoining(r)
  PROVE  IInv'
<1>. USE DEF IInv, Typed, PC, Task, Status, Goto, Answer, EndedTask
<1>1. Typed'
  <2>1. CASE Arrive(r)
    BY <2>1 DEF Arrive
  <2>2. CASE AnswerUnopened(r) \/ Shed(r)
    BY <2>2 DEF AnswerUnopened, Shed
  <2>3. CASE OpenInfo(r)
    BY <2>3 DEF OpenInfo
  <2>4. CASE Spawn(r)
    BY <2>4 DEF Spawn
  <2>5. CASE FinishOpen(r) \/ Reply(r)
    BY <2>5 DEF FinishOpen, Reply
  <2>6. CASE DropResolving(r) \/ DropJoining(r)
    BY <2>6 DEF DropResolving, DropJoining
  <2>. QED
    BY <2>1, <2>2, <2>3, <2>4, <2>5, <2>6
<1>2. TaskShape'
  BY DEF TaskShape, Arrive, AnswerUnopened, Shed, OpenInfo, Spawn, FinishOpen, Reply,
         DropResolving, DropJoining
<1>3. /\ pc[r] # "waiting" /\ pc'[r] # "waiting"
      /\ \A q \in Requests \ {r} : pc'[q] = pc[q] /\ task'[q] = task[q]
      /\ waiters' = waiters /\ granted' = granted
      /\ decode' = decode /\ admission' = admission
  BY DEF TaskShape, Arrive, AnswerUnopened, Shed, OpenInfo, Spawn, FinishOpen, Reply,
         DropResolving, DropJoining
<1>4. NoGhostWaiters'
  BY <1>3 DEF NoGhostWaiters
<1>5. /\ r \in Queueing' <=> r \in Queueing
      /\ r \in Executing' <=> r \in Executing
      /\ r \in Freeing' <=> r \in Freeing
  BY DEF TaskShape, Queueing, Executing, Freeing, Arrive, AnswerUnopened, Shed, OpenInfo,
         Spawn, FinishOpen, Reply, DropResolving, DropJoining
<1>6. Queueing' = Queueing /\ Executing' = Executing /\ Freeing' = Freeing
  BY <1>3, <1>5 DEF Queueing, Executing, Freeing
<1>7. PermitsConserved'
  BY <1>3, <1>6 DEF PermitsConserved, AdmissionOwners, DecodeOwners
<1>. QED
  BY <1>1, <1>2, <1>4, <1>7

(* An admission permit is taken; the decode permits stay where they are.   *)
LEMMA AdmitStep ==
  ASSUME IInv, NEW r \in Requests, Admit(r)
  PROVE  IInv'
<1>. USE DEF IInv, Typed, PC, Task, Status, Goto, Admit
<1>1. Typed' /\ TaskShape' /\ NoGhostWaiters'
  BY DEF TaskShape, NoGhostWaiters
<1>2. r \notin AdmissionOwners /\ AdmissionOwners' = AdmissionOwners \cup {r}
  BY DEF AdmissionOwners, Queueing, Executing, TaskShape
<1>3. DecodeOwners' = DecodeOwners
  BY DEF DecodeOwners, Executing, Freeing
<1>4. AdmissionOwners \in SUBSET Requests
  BY DEF AdmissionOwners, Queueing, Executing
<1>5. Cardinality(AdmissionOwners') = Cardinality(AdmissionOwners) + 1
  BY <1>2, <1>4, OneMore
<1>6. PermitsConserved'
  BY <1>3, <1>5, OwnersCounted, PoolAssumption DEF PermitsConserved
<1>. QED
  BY <1>1, <1>6

(* An admission permit comes back: the task's, or a dropped handler's.     *)
LEMMA AdmissionBackSteps ==
  ASSUME IInv, NEW r \in Requests, FinishWork(r) \/ Leave(r)
  PROVE  IInv'
<1>. USE DEF IInv, Typed, PC, Task, Status, Goto, FinishWork, Leave
<1>1. Typed' /\ TaskShape' /\ NoGhostWaiters'
  BY DEF TaskShape, NoGhostWaiters
<1>2. r \in AdmissionOwners /\ AdmissionOwners' = AdmissionOwners \ {r}
  BY DEF AdmissionOwners, Queueing, Executing, TaskShape
<1>3. DecodeOwners' = DecodeOwners
  BY DEF DecodeOwners, Executing, Freeing, TaskShape
<1>4. AdmissionOwners \in SUBSET Requests
  BY DEF AdmissionOwners, Queueing, Executing
<1>5. /\ Cardinality(AdmissionOwners') \in Nat
      /\ Cardinality(AdmissionOwners) = Cardinality(AdmissionOwners') + 1
  BY <1>2, <1>4, OneLess
<1>6. PermitsConserved'
  BY <1>3, <1>5, PoolAssumption DEF PermitsConserved
<1>. QED
  BY <1>1, <1>6

(* A decode permit is taken from the semaphore.                            *)
LEMMA AcquireNowStep ==
  ASSUME IInv, NEW r \in Requests, AcquireNow(r)
  PROVE  IInv'
<1>. USE DEF IInv, Typed, PC, Task, Status, Goto, AcquireNow
<1>1. Typed' /\ TaskShape' /\ NoGhostWaiters'
  BY DEF TaskShape, NoGhostWaiters
<1>2. AdmissionOwners' = AdmissionOwners
  BY DEF AdmissionOwners, Queueing, Executing
<1>3. r \notin DecodeOwners /\ DecodeOwners' = DecodeOwners \cup {r}
  BY DEF DecodeOwners, Executing, Freeing, TaskShape, NoGhostWaiters
<1>4. DecodeOwners \in SUBSET Requests
  BY DEF DecodeOwners, Executing, Freeing
<1>5. Cardinality(DecodeOwners') = Cardinality(DecodeOwners) + 1
  BY <1>3, <1>4, OneMore
<1>6. PermitsConserved'
  BY <1>2, <1>5, OwnersCounted, PoolAssumption DEF PermitsConserved
<1>. QED
  BY <1>1, <1>6

(* A handler joins the queue, or takes up the permit assigned to it.       *)
LEMMA QueueSteps ==
  ASSUME IInv, NEW r \in Requests, Enqueue(r) \/ Claim(r)
  PROVE  IInv'
<1>. USE DEF IInv, Typed, PC, Task, Status, Goto
<1>1. Typed'
  <2>1. CASE Enqueue(r)
    BY <2>1 DEF Enqueue
  <2>2. CASE Claim(r)
    BY <2>2 DEF Claim
  <2>. QED
    BY <2>1, <2>2
<1>2. TaskShape'
  BY DEF TaskShape, Enqueue, Claim
<1>3. NoGhostWaiters'
  <2>1. CASE Enqueue(r)
    <3>1. \A i \in DOMAIN waiters : waiters[i] # r
      BY <2>1 DEF NoGhostWaiters, Enqueue
    <3>2. /\ waiters' = Append(waiters, r)
          /\ r \notin granted /\ granted' = granted
          /\ pc' = [pc EXCEPT ![r] = "waiting"]
      BY <2>1 DEF NoGhostWaiters, Enqueue
    <3>. QED
      BY <3>1, <3>2 DEF NoGhostWaiters
  <2>2. CASE Claim(r)
    BY <2>2 DEF NoGhostWaiters, Claim
  <2>. QED
    BY <2>1, <2>2
<1>4. AdmissionOwners' = AdmissionOwners
  BY DEF AdmissionOwners, Queueing, Executing, Enqueue, Claim
<1>5. DecodeOwners' = DecodeOwners
  BY DEF DecodeOwners, Executing, Freeing, Enqueue, Claim
<1>6. PermitsConserved'
  BY <1>4, <1>5 DEF PermitsConserved, Enqueue, Claim
<1>. QED
  BY <1>1, <1>2, <1>3, <1>6

(* The permit of one owner goes to the oldest waiter, or to the semaphore. *)
LEMMA GiveBackConserves ==
  ASSUME IInv, NEW r \in DecodeOwners, NEW from \in SUBSET granted, GiveBack(from),
         r \notin from,
         DecodeOwners' = (DecodeOwners \ {r}) \cup granted',
         from \subseteq DecodeOwners \ {r},
         \A q \in Requests : pc[q] = "waiting" /\ q \notin granted => q \notin DecodeOwners
  PROVE  decode' + Cardinality(DecodeOwners') = Workers
<1>. USE DEF IInv
<1>1. DecodeOwners \in SUBSET Requests
  BY DEF Typed, DecodeOwners, Executing, Freeing
<1>2. /\ Cardinality(DecodeOwners \ {r}) \in Nat
      /\ Cardinality(DecodeOwners) = Cardinality(DecodeOwners \ {r}) + 1
  BY <1>1, OneLess
<1>3. CASE granted' = from /\ decode' = decode + 1
  <2>1. DecodeOwners' = DecodeOwners \ {r}
    BY <1>3
  <2>2. Cardinality(DecodeOwners') = Cardinality(DecodeOwners \ {r})
    BY <2>1
  <2>3. decode + Cardinality(DecodeOwners) = Workers /\ decode \in Nat
    BY DEF PermitsConserved, Typed
  <2>. QED
    BY <1>2, <1>3, <2>2, <2>3, PoolAssumption
<1>4. ASSUME NEW i \in DOMAIN waiters,
             decode' = decode, granted' = from \cup {waiters[i]}
      PROVE  decode' + Cardinality(DecodeOwners') = Workers
  <2>1. waiters[i] \in Requests /\ waiters[i] \notin DecodeOwners
    BY DEF Typed, NoGhostWaiters
  <2>2. DecodeOwners' = (DecodeOwners \ {r}) \cup {waiters[i]}
    BY <1>4
  <2>3. Cardinality(DecodeOwners') = Cardinality(DecodeOwners \ {r}) + 1
    BY <1>1, <2>1, <2>2, OneMore
  <2>. QED
    BY <1>2, <1>4, <2>3, PoolAssumption DEF PermitsConserved, Typed
<1>. QED
  BY <1>3, <1>4, GiveBackFacts

(* A task's decode permit comes back.                                      *)
LEMMA FreePermitStep ==
  ASSUME IInv, NEW r \in Requests, FreePermit(r)
  PROVE  IInv'
<1>. USE DEF IInv, Typed, PC, Task, Status, EndedTask
<1>1. GiveBack(granted) /\ pc' = pc /\ status' = status /\ admission' = admission
  BY DEF FreePermit
<1>2. task[r] = "freeing" /\ task' = [task EXCEPT ![r] = EndedTask(r)]
  BY DEF FreePermit
<1>3. Typed'
  BY <1>1, <1>2, GiveBackFacts DEF FreePermit
<1>4. TaskShape'
  BY <1>1, <1>2 DEF TaskShape
<1>5. NoGhostWaiters'
  BY <1>1, GiveBackFacts DEF NoGhostWaiters
<1>6. AdmissionOwners' = AdmissionOwners
  BY <1>1, <1>2 DEF AdmissionOwners, Queueing, Executing
<1>7. r \in DecodeOwners /\ r \notin granted
  BY <1>2 DEF DecodeOwners, Freeing, NoGhostWaiters, TaskShape
<1>8. granted \subseteq granted'
  BY <1>1 DEF GiveBack
<1>9. DecodeOwners' = (DecodeOwners \ {r}) \cup granted'
  BY <1>1, <1>2, <1>7, <1>8 DEF DecodeOwners, Executing, Freeing, TaskShape
<1>10. \A q \in Requests : pc[q] = "waiting" /\ q \notin granted => q \notin DecodeOwners
  BY DEF DecodeOwners, Executing, Freeing, TaskShape
<1>11. granted \subseteq DecodeOwners \ {r}
  BY <1>7 DEF DecodeOwners
<1>12. decode' + Cardinality(DecodeOwners') = Workers
  BY <1>1, <1>7, <1>9, <1>10, <1>11, GiveBackConserves
<1>. QED
  BY <1>1, <1>3, <1>4, <1>5, <1>6, <1>12 DEF PermitsConserved

(* A dropped Acquire: unlinked while queued, or returning its permit.      *)
LEMMA DropQueuedStep ==
  ASSUME IInv, NEW r \in Requests, DropQueued(r)
  PROVE  IInv'
<1>. USE DEF IInv, Typed, PC, Task, Status, Goto
<1>1. PICK i \in DOMAIN waiters : waiters[i] = r /\ waiters' = RemoveAt(waiters, i)
  BY DEF DropQueued
<1>2. /\ pc[r] = "waiting" /\ pc' = [pc EXCEPT ![r] = "leave"]
      /\ UNCHANGED <<task, status, admission, decode, granted, parallel>>
  BY DEF DropQueued
<1>3. /\ waiters' \in Seq(Requests)
      /\ Len(waiters') = Len(waiters) - 1
      /\ \A k \in DOMAIN waiters' : waiters'[k] = IF k < i THEN waiters[k] ELSE waiters[k + 1]
  BY <1>1, RemoveAtFacts
<1>4. \A k \in DOMAIN waiters' : k \in 1..(Len(waiters) - 1)
  BY <1>3
<1>5. Typed' /\ TaskShape'
  BY <1>2, <1>3 DEF TaskShape
<1>6. r \notin granted
  BY <1>1 DEF NoGhostWaiters
<1>7. NoGhostWaiters'
  <2>1. \A k \in DOMAIN waiters' : \E j \in DOMAIN waiters : j # i /\ waiters'[k] = waiters[j]
    BY <1>3, <1>4
  <2>2. \A k \in DOMAIN waiters' : pc'[waiters'[k]] = "waiting" /\ waiters'[k] \notin granted'
    BY <1>1, <1>2, <2>1 DEF NoGhostWaiters
  <2>3. \A k, m \in DOMAIN waiters' : waiters'[k] = waiters'[m] => k = m
    BY <1>1, <1>3, <1>4 DEF NoGhostWaiters
  <2>. QED
    BY <1>2, <1>6, <2>2, <2>3 DEF NoGhostWaiters
<1>8. AdmissionOwners' = AdmissionOwners /\ DecodeOwners' = DecodeOwners
  BY <1>2 DEF AdmissionOwners, DecodeOwners, Queueing, Executing, Freeing
<1>9. PermitsConserved'
  BY <1>2, <1>8 DEF PermitsConserved
<1>. QED
  BY <1>5, <1>7, <1>9

(* A handler dropped between the grant and its poll hands the permit on.   *)
LEMMA DropGrantedStep ==
  ASSUME IInv, NEW r \in Requests, DropGranted(r)
  PROVE  IInv'
<1>. USE DEF IInv, Typed, PC, Task, Status, Goto
<1>1. GiveBack(granted \ {r}) /\ r \in granted /\ pc[r] = "waiting"
  BY DEF DropGranted
<1>2. /\ pc' = [pc EXCEPT ![r] = "leave"]
      /\ task' = task /\ status' = status /\ admission' = admission /\ parallel' = parallel
  BY DEF DropGranted
<1>3. Typed'
  BY <1>1, <1>2, GiveBackFacts
<1>4. TaskShape'
  BY <1>1, <1>2 DEF TaskShape
<1>5. r \notin granted' /\ granted \ {r} \subseteq granted'
  <2>1. \A i \in DOMAIN waiters : waiters[i] # r
    BY <1>1 DEF NoGhostWaiters
  <2>. QED
    BY <1>1, <2>1, GiveBackFacts
<1>6. NoGhostWaiters'
  <2>1. \A i \in DOMAIN waiters : pc'[waiters[i]] = "waiting"
    BY <1>1, <1>2 DEF NoGhostWaiters
  <2>2. \A q \in granted' : pc'[q] = "waiting"
    BY <1>1, <1>2, <2>1, GiveBackFacts DEF NoGhostWaiters
  <2>. QED
    BY <1>1, <2>1, <2>2, GiveBackFacts DEF NoGhostWaiters
<1>7. AdmissionOwners' = AdmissionOwners
  BY <1>1, <1>2 DEF AdmissionOwners, Queueing, Executing
<1>8. r \in DecodeOwners /\ r \notin Executing /\ r \notin Freeing
  BY <1>1 DEF DecodeOwners, Executing, Freeing, TaskShape
<1>9. DecodeOwners' = (DecodeOwners \ {r}) \cup granted'
  <2>1. Executing' = Executing /\ Freeing' = Freeing
    BY <1>1, <1>2 DEF Executing, Freeing
  <2>. QED
    BY <1>5, <1>8, <2>1 DEF DecodeOwners
<1>10. \A q \in Requests : pc[q] = "waiting" /\ q \notin granted => q \notin DecodeOwners
  BY DEF DecodeOwners, Executing, Freeing, TaskShape
<1>11. granted \ {r} \subseteq DecodeOwners \ {r}
  BY DEF DecodeOwners
<1>12. decode' + Cardinality(DecodeOwners') = Workers
  BY <1>1, <1>8, <1>9, <1>10, <1>11, GiveBackConserves
<1>. QED
  BY <1>2, <1>3, <1>4, <1>6, <1>7, <1>12 DEF PermitsConserved

----------------------------------------------------------------------------
(* Every step of a handler, a task or a disconnecting client keeps the     *)
(* invariant: permits, queue and tasks stay consistent with one another.   *)
THEOREM StepIInv == IInv /\ [Next]_vars => IInv'
<1>. SUFFICES ASSUME IInv, [Next]_vars
              PROVE  IInv'
  OBVIOUS
<1>1. CASE Next
  <2>1. PICK r \in Requests : \/ Arrive(r)
                              \/ HandlerStep(r)
                              \/ PoolStep(r)
                              \/ TaskStep(r)
                              \/ Disconnect(r)
    BY <1>1 DEF Next
  <2>. QED
    BY <2>1, UncountedSteps, AdmitStep, AdmissionBackSteps, AcquireNowStep, QueueSteps,
       FreePermitStep, DropQueuedStep, DropGrantedStep
       DEF HandlerStep, PoolStep, TaskStep, Disconnect
<1>2. CASE UNCHANGED vars
  BY <1>2 DEF vars, IInv, Typed, NoGhostWaiters, TaskShape, PermitsConserved,
              AdmissionOwners, DecodeOwners, Queueing, Executing, Freeing
<1>. QED
  BY <1>1, <1>2

(* Every permit of both semaphores is always accounted for: replies,       *)
(* panics and clients leaving at any await neither lose nor make one.      *)
THEOREM PermitsAlwaysConserved == Spec => []PermitsConserved
<1>1. IInv => PermitsConserved
  BY DEF IInv
<1>. QED
  BY InitIInv, StepIInv, <1>1, PTL DEF Spec

(* A permit is never queued for, or assigned to, a handler that has gone.  *)
THEOREM NeverGhostWaiters == Spec => []NoGhostWaiters
<1>1. IInv => NoGhostWaiters
  BY DEF IInv
<1>. QED
  BY InitIInv, StepIInv, <1>1, PTL DEF Spec

(* The types, with both semaphores within the permits they started with.   *)
THEOREM TypeCorrect == Spec => []TypeOK
<1>1. IInv => TypeOK
  <2>. SUFFICES ASSUME IInv
                PROVE  TypeOK
    OBVIOUS
  <2>1. /\ admission \in Nat /\ admission <= Workers + QueueDepth
        /\ decode \in Nat /\ decode <= Workers
    BY OwnersCounted, PoolAssumption DEF IInv, Typed, PermitsConserved
  <2>. QED
    BY <2>1, PoolAssumption DEF IInv, Typed, TypeOK
<1>. QED
  BY InitIInv, StepIInv, <1>1, PTL DEF Spec

----------------------------------------------------------------------------
(* The queue of the decode semaphore is empty whenever it has a permit     *)
(* left.                                                                   *)
LEMMA StepConserving == IInv /\ Conserving /\ [Next]_vars => Conserving'
<1>. SUFFICES ASSUME IInv, Conserving, [Next]_vars
              PROVE  Conserving'
  OBVIOUS
<1>. USE DEF Conserving
<1>1. waiters \in Seq(Requests) /\ decode \in Nat
  BY DEF IInv, Typed
<1>2. CASE UNCHANGED vars
  BY <1>2 DEF vars
<1>3. CASE Next
  <2>1. PICK r \in Requests : \/ Arrive(r)
                              \/ HandlerStep(r)
                              \/ PoolStep(r)
                              \/ TaskStep(r)
                              \/ Disconnect(r)
    BY <1>3 DEF Next
  <2>2. CASE UNCHANGED <<waiters, decode>>
    BY <2>2
  <2>3. CASE AcquireNow(r)
    BY <1>1, <2>3 DEF AcquireNow
  <2>4. CASE Enqueue(r)
    BY <2>4 DEF Enqueue
  <2>5. CASE FreePermit(r) \/ DropGranted(r)
    BY <1>1, <2>5 DEF FreePermit, DropGranted, GiveBack
  <2>6. CASE DropQueued(r)
    BY <1>1, <2>6 DEF DropQueued
  <2>. QED
    BY <2>1, <2>2, <2>3, <2>4, <2>5, <2>6
       DEF Arrive, HandlerStep, Admit, Shed, AnswerUnopened, OpenInfo, PoolStep, Claim,
           Spawn, Reply, Leave, TaskStep, FinishWork, FinishOpen, Disconnect,
           DropResolving, DropJoining
<1>. QED
  BY <1>2, <1>3

Suspended(q) == q \in granted \/ \E i \in DOMAIN waiters : waiters[i] = q

(* A returned permit takes a waiter from the queue only to assign it one.  *)
LEMMA GiveBackRemembers ==
  ASSUME IInv, NEW from \in SUBSET granted, GiveBack(from),
         NEW q, q \in from \/ \E i \in DOMAIN waiters : waiters[i] = q
  PROVE  Suspended(q)'
<1>1. waiters \in Seq(Requests)
  BY DEF IInv, Typed
<1>2. CASE waiters = <<>>
  BY <1>2 DEF GiveBack, Suspended
<1>3. CASE waiters # <<>>
  <2>1. /\ granted' = from \cup {waiters[1]} /\ waiters' = Tail(waiters)
        /\ \A i \in DOMAIN waiters : i = 1 \/ (i - 1 \in DOMAIN waiters' /\ waiters'[i - 1] = waiters[i])
    BY <1>1, <1>3 DEF GiveBack
  <2>. QED
    BY <2>1 DEF Suspended
<1>. QED
  BY <1>2, <1>3

(* Nobody who stays suspended is dropped from both queue and grants.       *)
LEMMA StepRemembered == IInv /\ Remembered /\ [Next]_vars => Remembered'
<1>. SUFFICES ASSUME IInv, Remembered, [Next]_vars, NEW q \in Requests, pc'[q] = "waiting"
              PROVE  Suspended(q)'
  BY DEF Remembered, Suspended
<1>1. pc[q] = "waiting" => Suspended(q)
  BY DEF Remembered, Suspended
<1>2. pc \in [Requests -> PC] /\ waiters \in Seq(Requests)
  BY DEF IInv, Typed
<1>3. CASE UNCHANGED vars
  BY <1>1, <1>3 DEF vars, Suspended
<1>4. CASE Next
  <2>1. PICK r \in Requests : \/ Arrive(r)
                              \/ HandlerStep(r)
                              \/ PoolStep(r)
                              \/ TaskStep(r)
                              \/ Disconnect(r)
    BY <1>4 DEF Next
  <2>2. CASE /\ UNCHANGED <<waiters, granted>>
             /\ \/ pc' = pc
                \/ \E to \in PC \ {"waiting"} : pc' = [pc EXCEPT ![r] = to]
    BY <1>1, <1>2, <2>2 DEF Suspended
  <2>3. CASE Enqueue(r)
    <3>1. /\ pc' = [pc EXCEPT ![r] = "waiting"] /\ granted' = granted
          /\ Len(waiters) + 1 \in DOMAIN waiters' /\ waiters'[Len(waiters) + 1] = r
          /\ \A i \in DOMAIN waiters : i \in DOMAIN waiters' /\ waiters'[i] = waiters[i]
      BY <1>2, <2>3 DEF Enqueue, Goto
    <3>. QED
      BY <1>1, <1>2, <3>1 DEF Suspended
  <2>4. CASE Claim(r)
    BY <1>1, <1>2, <2>4 DEF Claim, Goto, Suspended
  <2>5. CASE DropQueued(r)
    <3>1. PICK k \in DOMAIN waiters : waiters[k] = r /\ waiters' = RemoveAt(waiters, k)
      BY <2>5 DEF DropQueued
    <3>2. q # r /\ pc[q] = "waiting" /\ granted' = granted
      BY <1>2, <2>5 DEF DropQueued, Goto
    <3>3. ASSUME NEW i \in DOMAIN waiters, waiters[i] = q
          PROVE  \E j \in DOMAIN waiters' : waiters'[j] = q
      <4>1. i # k /\ i \in 1..Len(waiters) /\ k \in 1..Len(waiters) /\ Len(waiters) \in Nat
        BY <1>2, <3>1, <3>2, <3>3
      <4>2. /\ waiters' \in Seq(Requests) /\ Len(waiters') = Len(waiters) - 1
            /\ \A j \in DOMAIN waiters' : waiters'[j] = IF j < k THEN waiters[j] ELSE waiters[j + 1]
        BY <1>2, <3>1, RemoveAtFacts
      <4>3. DOMAIN waiters' = 1..(Len(waiters) - 1)
        BY <4>2
      <4>4. CASE i < k
        BY <3>3, <4>1, <4>2, <4>3, <4>4
      <4>5. CASE i > k
        <5>1. i - 1 \in DOMAIN waiters' /\ ~(i - 1 < k) /\ (i - 1) + 1 = i
          BY <4>1, <4>3, <4>5
        <5>. QED
          BY <3>3, <4>2, <5>1
      <4>. QED
        BY <4>1, <4>4, <4>5
    <3>. QED
      BY <1>1, <3>2, <3>3 DEF Suspended
  <2>6. CASE DropGranted(r)
    <3>1. q # r /\ pc[q] = "waiting" /\ GiveBack(granted \ {r})
      BY <1>2, <2>6 DEF DropGranted, Goto
    <3>. QED
      BY <1>1, <3>1, GiveBackRemembers DEF Suspended
  <2>7. CASE FreePermit(r)
    <3>1. pc[q] = "waiting" /\ GiveBack(granted)
      BY <2>7 DEF FreePermit
    <3>. QED
      BY <1>1, <3>1, GiveBackRemembers DEF Suspended
  <2>8. CASE \/ Arrive(r) \/ HandlerStep(r) \/ AcquireNow(r) \/ Spawn(r) \/ Reply(r) \/ Leave(r)
             \/ FinishWork(r) \/ FinishOpen(r) \/ DropResolving(r) \/ DropJoining(r)
    BY <1>2, <2>2, <2>8
       DEF Arrive, HandlerStep, Admit, Shed, AnswerUnopened, OpenInfo, AcquireNow, Spawn, Reply,
           Leave, FinishWork, FinishOpen, DropResolving, DropJoining, Goto, Answer, PC
  <2>. QED
    BY <2>1, <2>3, <2>4, <2>5, <2>6, <2>7, <2>8 DEF PoolStep, TaskStep, Disconnect
<1>. QED
  BY <1>3, <1>4

(* No image request waits beside an idle worker, and none that waits is    *)
(* forgotten by the semaphore.                                             *)
THEOREM WorkConserving == Spec => []NoIdleWorkerBesideWaiters
<1>1. Init => NoIdleWorkerBesideWaiters
  BY DEF Init, NoIdleWorkerBesideWaiters, Conserving, Remembered
<1>2. IInv /\ NoIdleWorkerBesideWaiters /\ [Next]_vars => NoIdleWorkerBesideWaiters'
  BY StepConserving, StepRemembered DEF NoIdleWorkerBesideWaiters
<1>. QED
  BY InitIInv, StepIInv, <1>1, <1>2, PTL DEF Spec

(* Whom a suspended handler waits for.                                     *)
HasOwner(r) ==
  /\ pc[r] = "waiting" => \E q \in Requests : \/ q \in granted
                                               \/ pc[q] = "holding"
                                               \/ task[q] \in {"decoding", "freeing"}
  /\ pc[r] = "join" => task[r] # "none"

(* Nobody waits for nobody.  A handler suspended at the decode semaphore   *)
(* has somebody who owns a permit and whose own step is next, and one that *)
(* joins a task has the task: the handlers never all wait on each other.   *)
(* Fairness makes of it AdmittedMoveOn, which the pool run checks.         *)
THEOREM NobodyWaitsForNobody == Spec => [](\A r \in Requests : HasOwner(r))
<1>1. IInv /\ NoIdleWorkerBesideWaiters => \A r \in Requests : HasOwner(r)
  <2>. SUFFICES ASSUME IInv, NoIdleWorkerBesideWaiters, NEW r \in Requests
                PROVE  HasOwner(r)
    OBVIOUS
  <2>1. CASE pc[r] = "waiting"
    <3>1. CASE r \in granted
      BY <2>1, <3>1 DEF HasOwner
    <3>2. CASE r \notin granted
      <4>1. waiters # <<>>
        BY <2>1, <3>2 DEF NoIdleWorkerBesideWaiters, Remembered
      <4>2. decode = 0
        BY <4>1 DEF NoIdleWorkerBesideWaiters, Conserving
      <4>3. Cardinality(DecodeOwners) = Workers /\ Workers # 0
        BY <4>2, OwnersCounted, PoolAssumption DEF IInv, PermitsConserved
      <4>4. DecodeOwners # {}
        BY <4>3, FS_EmptySet
      <4>5. PICK q \in DecodeOwners : TRUE
        BY <4>4
      <4>6. q \in Requests /\ (q \in granted \/ pc[q] = "holding" \/ task[q] \in {"decoding", "freeing"})
        BY <4>5 DEF DecodeOwners, Executing, Freeing, IInv, Typed
      <4>. QED
        BY <2>1, <4>6 DEF HasOwner
    <3>. QED
      BY <3>1, <3>2
  <2>2. CASE pc[r] = "join"
    BY <2>2 DEF HasOwner, IInv, TaskShape
  <2>. QED
    BY <2>1, <2>2 DEF HasOwner
<1>. QED
  BY InitIInv, StepIInv, WorkConserving, <1>1, PTL DEF Spec

(* What --workers does bound: the tasks that decode an image or have yet   *)
(* to free their permit.  Only opening for info.json goes beyond it, as    *)
(* the pool_info_decodes run shows.                                        *)
ImageDecodes == {r \in Requests : task[r] \in {"decoding", "freeing"}}

(* Never more image decodes than workers, and no opening beside them leaves *)
(* DecodesBoundedByWorkers true.                                           *)
THEOREM ImageDecodesBounded ==
  Spec => [](/\ Cardinality(ImageDecodes) <= Workers
             /\ (\A r \in Requests : task[r] # "opening") => DecodesBoundedByWorkers)
<1>1. IInv => /\ Cardinality(ImageDecodes) <= Workers
              /\ (\A r \in Requests : task[r] # "opening") => DecodesBoundedByWorkers
  <2>. SUFFICES ASSUME IInv
                PROVE  /\ Cardinality(ImageDecodes) <= Workers
                       /\ (\A r \in Requests : task[r] # "opening") => DecodesBoundedByWorkers
    OBVIOUS
  <2>1. IsFiniteSet(DecodeOwners) /\ Cardinality(DecodeOwners) <= Workers
    <3>1. DecodeOwners \in SUBSET Requests
      BY DEF DecodeOwners, Executing, Freeing, IInv, Typed
    <3>2. IsFiniteSet(DecodeOwners)
      BY <3>1, PoolAssumption, FS_Subset
    <3>3. decode \in Nat /\ decode + Cardinality(DecodeOwners) = Workers
      BY DEF IInv, Typed, PermitsConserved
    <3>. QED
      BY <3>2, <3>3, PoolAssumption, FS_CardinalityType
  <2>2. ASSUME NEW S \in SUBSET ImageDecodes
        PROVE  Cardinality(S) <= Workers
    <3>1. S \subseteq DecodeOwners
      BY <2>2 DEF ImageDecodes, DecodeOwners, Executing, Freeing
    <3>2. IsFiniteSet(S) /\ Cardinality(S) <= Cardinality(DecodeOwners)
      BY <2>1, <3>1, FS_Subset
    <3>. QED
      BY <2>1, <3>2, PoolAssumption, FS_CardinalityType
  <2>3. ASSUME \A r \in Requests : task[r] # "opening"
        PROVE  DecodesBoundedByWorkers
    <3>1. {r \in Requests : task[r] \in {"decoding", "opening"}} \in SUBSET ImageDecodes
      BY <2>3 DEF ImageDecodes
    <3>. QED
      BY <2>2, <3>1 DEF DecodesBoundedByWorkers
  <2>. QED
    BY <2>2, <2>3
<1>. QED
  BY InitIInv, StepIInv, <1>1, PTL DEF Spec

(* With every decode permit inside a running task, one of the tasks has    *)
(* the codec's own threads switched off.                                   *)
THEOREM NeverAllParallel == Spec => []SomeDecodeIsSerial
<1>1. Init => SomeDecodeIsSerial
  BY PoolAssumption DEF Init, SomeDecodeIsSerial
<1>2. IInv /\ SomeDecodeIsSerial /\ [Next]_vars => SomeDecodeIsSerial'
  <2>. SUFFICES ASSUME IInv, SomeDecodeIsSerial, [Next]_vars,
                       decode' = 0, granted' = {}, \A q \in Requests : pc'[q] # "holding"
                PROVE  \E q \in Requests : /\ task'[q] \in {"decoding", "freeing"}
                                           /\ ~parallel'[q]
    BY DEF SomeDecodeIsSerial
  <2>. USE DEF IInv, Typed, PC, Task
  <2>1. CASE UNCHANGED vars
    BY <2>1 DEF vars, SomeDecodeIsSerial
  <2>2. CASE Next
    <3>1. PICK r \in Requests : \/ Arrive(r)
                                \/ HandlerStep(r)
                                \/ PoolStep(r)
                                \/ TaskStep(r)
                                \/ Disconnect(r)
      BY <2>2 DEF Next
    <3>2. CASE FreePermit(r) \/ DropGranted(r)
      \* the permit went to a waiter or to the semaphore
      <4>1. decode' = decode + 1 \/ granted' # {}
        BY <3>2 DEF FreePermit, DropGranted, GiveBack
      <4>. QED
        BY <4>1
    <3>3. CASE AcquireNow(r) \/ Claim(r)
      BY <3>3 DEF AcquireNow, Claim, Goto
    <3>4. CASE Spawn(r)
      <4>1. decode = 0 /\ (decode > 0) = FALSE
        BY <3>4 DEF Spawn
      <4>2. task'[r] = "decoding" /\ parallel' = [parallel EXCEPT ![r] = FALSE]
        BY <3>4, <4>1 DEF Spawn
      <4>3. ~parallel'[r]
        BY <4>2
      <4>. QED
        BY <4>2, <4>3
    <3>5. ASSUME decode = 0, granted = {}, \A q \in Requests : pc[q] # "holding",
                 parallel' = parallel,
                 \A q \in Requests : task[q] \in {"decoding", "freeing"}
                                        => task'[q] \in {"decoding", "freeing"}
          PROVE  \E q \in Requests : /\ task'[q] \in {"decoding", "freeing"}
                                     /\ ~parallel'[q]
      BY <3>5 DEF SomeDecodeIsSerial
    <3>6. CASE \/ Arrive(r) \/ HandlerStep(r) \/ Enqueue(r) \/ Reply(r) \/ Leave(r)
               \/ FinishWork(r) \/ FinishOpen(r)
               \/ DropResolving(r) \/ DropQueued(r) \/ DropJoining(r)
      <4>1. decode = 0 /\ granted = {} /\ parallel' = parallel
        BY <3>6 DEF Arrive, HandlerStep, Admit, Shed, AnswerUnopened, OpenInfo, Enqueue,
                    Reply, Leave, FinishWork, FinishOpen, DropResolving, DropQueued,
                    DropJoining
      <4>2. \A q \in Requests : pc[q] # "holding"
        BY <3>6 DEF Goto, Answer, Arrive, HandlerStep, Admit, Shed, AnswerUnopened, OpenInfo,
                    Enqueue, Reply, Leave, FinishWork, FinishOpen, DropResolving, DropQueued,
                    DropJoining
      <4>3. \A q \in Requests : task[q] \in {"decoding", "freeing"}
                                  => task'[q] \in {"decoding", "freeing"}
        BY <3>6 DEF Goto, Answer, Arrive, HandlerStep, Admit, Shed, AnswerUnopened, OpenInfo,
                    Enqueue, Reply, Leave, FinishWork, FinishOpen, DropResolving, DropQueued,
                    DropJoining, TaskShape
      <4>. QED
        BY <3>5, <4>1, <4>2, <4>3
    <3>. QED
      BY <3>1, <3>2, <3>3, <3>4, <3>6 DEF PoolStep, TaskStep, Disconnect
  <2>. QED
    BY <2>1, <2>2
<1>. QED
  BY InitIInv, StepIInv, <1>1, <1>2, PTL DEF Spec

----------------------------------------------------------------------------
(* The order of the queue.                                                 *)

(* What a step may not do to `a`, queued before and after it, and `b`.     *)
Overtakes(a, b) == \/ b \in ToSet(waiters') /\ ~Before(a, b, waiters')
                   \/ HasPermit(b)'

(* `b` is behind `a`: queued later, or not yet.                            *)
Behind(a, b) == /\ a \in ToSet(waiters) \cap ToSet(waiters')
                /\ b \in ToSet(waiters) => Before(a, b, waiters)
                /\ ~HasPermit(b)

(* Steps that leave the queue alone.                                       *)
LEMMA OrderQuietSteps ==
  ASSUME IInv, NoIdleWorkerBesideWaiters, NEW r \in Requests,
         NEW a \in Requests, NEW b \in Requests, Behind(a, b),
         \/ Arrive(r) \/ HandlerStep(r) \/ AcquireNow(r) \/ Claim(r) \/ Spawn(r) \/ Reply(r)
         \/ Leave(r) \/ FinishWork(r) \/ FinishOpen(r) \/ DropResolving(r) \/ DropJoining(r)
  PROVE  ~Overtakes(a, b)
<1>. USE DEF IInv, Typed, Goto, Answer
<1>1. CASE AcquireNow(r)
  BY <1>1 DEF AcquireNow, NoIdleWorkerBesideWaiters, Conserving, Behind, ToSet
<1>2. CASE Claim(r)
  BY <1>2 DEF Claim, Behind, Overtakes, HasPermit, Before
<1>3. CASE ~AcquireNow(r) /\ ~Claim(r)
  <2>1. /\ waiters' = waiters /\ granted' = granted
        /\ \A q \in Requests : pc'[q] = "holding" => pc[q] = "holding"
    BY <1>3 DEF Arrive, HandlerStep, Admit, Shed, AnswerUnopened, OpenInfo, Spawn, Reply,
                Leave, FinishWork, FinishOpen, DropResolving, DropJoining
  <2>. QED
    BY <2>1 DEF Behind, Overtakes, HasPermit, Before
<1>. QED
  BY <1>1, <1>2, <1>3

(* A request that queues does so behind the others.                        *)
LEMMA OrderEnqueue ==
  ASSUME IInv, NEW r \in Requests, Enqueue(r),
         NEW a \in Requests, NEW b \in Requests, Behind(a, b)
  PROVE  ~Overtakes(a, b)
<1>. USE DEF IInv, Typed, Goto
<1>1. /\ waiters' = Append(waiters, r) /\ granted' = granted
      /\ pc' = [pc EXCEPT ![r] = "waiting"]
  BY DEF Enqueue
<1>2. ~HasPermit(b)'
  BY <1>1 DEF Behind, HasPermit
<1>3. /\ Len(waiters') = Len(waiters) + 1 /\ waiters'[Len(waiters) + 1] = r
      /\ \A i \in DOMAIN waiters : i \in DOMAIN waiters' /\ waiters'[i] = waiters[i]
      /\ Len(waiters) + 1 \in DOMAIN waiters'
  BY <1>1
<1>4. ASSUME b \in ToSet(waiters')
      PROVE  Before(a, b, waiters')
  <2>1. CASE b \in ToSet(waiters)
    BY <1>3, <2>1 DEF Behind, Before
  <2>2. CASE b \notin ToSet(waiters)
    <3>1. PICK i \in DOMAIN waiters : waiters[i] = a
      BY DEF Behind, ToSet
    <3>2. PICK j \in DOMAIN waiters' : waiters'[j] = b
      BY <1>4 DEF ToSet
    <3>3. i < j
      BY <1>3, <2>2, <3>1, <3>2 DEF ToSet
    <3>. QED
      BY <1>3, <3>1, <3>2, <3>3 DEF Before
  <2>. QED
    BY <2>1, <2>2
<1>. QED
  BY <1>2, <1>4 DEF Overtakes

(* A request that leaves the queue closes its ranks.                       *)
LEMMA OrderDropQueued ==
  ASSUME IInv, NEW r \in Requests, DropQueued(r),
         NEW a \in Requests, NEW b \in Requests, Behind(a, b)
  PROVE  ~Overtakes(a, b)
<1>. USE DEF IInv, Typed, Goto
<1>1. PICK k \in DOMAIN waiters : waiters[k] = r /\ waiters' = RemoveAt(waiters, k)
  BY DEF DropQueued
<1>2. ~HasPermit(b)'
  BY DEF DropQueued, Behind, HasPermit
<1>3. /\ Len(waiters') = Len(waiters) - 1 /\ waiters' \in Seq(Requests)
      /\ \A i \in DOMAIN waiters' : waiters'[i] = IF i < k THEN waiters[i] ELSE waiters[i + 1]
  BY <1>1, RemoveAtFacts
<1>4. ASSUME NEW q \in Requests, q \in ToSet(waiters'), NEW i \in DOMAIN waiters, waiters[i] = q
      PROVE  LET to == IF i < k THEN i ELSE i - 1
             IN  i # k /\ to \in DOMAIN waiters' /\ waiters'[to] = q
  <2>1. PICK m \in DOMAIN waiters' : waiters'[m] = q
    BY <1>4 DEF ToSet
  <2>2. /\ m < k => m \in DOMAIN waiters /\ waiters[m] = q
        /\ ~(m < k) => m + 1 \in DOMAIN waiters /\ waiters[m + 1] = q
    BY <1>3, <2>1
  <2>3. i = IF m < k THEN m ELSE m + 1
    BY <1>4, <2>2 DEF NoGhostWaiters
  <2>. QED
    BY <1>3, <2>1, <2>3
<1>5. ASSUME b \in ToSet(waiters')
      PROVE  Before(a, b, waiters')
  <2>1. b \in ToSet(waiters)
    BY <1>3, <1>5 DEF ToSet
  <2>2. PICK i \in DOMAIN waiters, j \in DOMAIN waiters : i < j /\ waiters[i] = a /\ waiters[j] = b
    BY <2>1 DEF Behind, Before
  <2>3. /\ i # k /\ j # k
        /\ (IF i < k THEN i ELSE i - 1) \in DOMAIN waiters'
        /\ (IF j < k THEN j ELSE j - 1) \in DOMAIN waiters'
        /\ waiters'[IF i < k THEN i ELSE i - 1] = a
        /\ waiters'[IF j < k THEN j ELSE j - 1] = b
    BY <1>4, <1>5, <2>2 DEF Behind
  <2>4. (IF i < k THEN i ELSE i - 1) < (IF j < k THEN j ELSE j - 1)
    BY <1>1, <2>2, <2>3
  <2>. QED
    BY <2>3, <2>4 DEF Before
<1>. QED
  BY <1>2, <1>5 DEF Overtakes

(* A returned permit goes to the head of the queue.                        *)
LEMMA OrderGiveBack ==
  ASSUME IInv, NEW from \in SUBSET granted, GiveBack(from),
         \A q \in Requests : pc'[q] = "holding" => pc[q] = "holding",
         NEW a \in Requests, NEW b \in Requests, Behind(a, b)
  PROVE  ~Overtakes(a, b)
<1>. USE DEF IInv, Typed
<1>1. waiters # <<>>
  BY DEF Behind, ToSet
<1>2. /\ waiters' = Tail(waiters) /\ granted' = from \cup {Head(waiters)}
      /\ Head(waiters) = waiters[1] /\ 1 \in DOMAIN waiters
  BY <1>1 DEF GiveBack
<1>3. /\ Len(waiters') = Len(waiters) - 1
      /\ \A i \in DOMAIN waiters' : i + 1 \in DOMAIN waiters /\ waiters'[i] = waiters[i + 1]
      /\ \A i \in DOMAIN waiters : i # 1 => i - 1 \in DOMAIN waiters' /\ waiters'[i - 1] = waiters[i]
  BY <1>1, <1>2
<1>4. b # waiters[1]
  <2>. SUFFICES ASSUME b = waiters[1]
                PROVE  FALSE
    OBVIOUS
  <2>1. PICK i \in DOMAIN waiters, j \in DOMAIN waiters : i < j /\ waiters[j] = b
    BY <1>2 DEF Behind, Before, ToSet
  <2>2. j = 1
    BY <1>2, <2>1 DEF NoGhostWaiters
  <2>. QED
    BY <2>1, <2>2
<1>5. ~HasPermit(b)'
  BY <1>2, <1>4 DEF Behind, HasPermit
<1>6. ASSUME b \in ToSet(waiters')
      PROVE  Before(a, b, waiters')
  <2>1. b \in ToSet(waiters)
    BY <1>3, <1>6 DEF ToSet
  <2>2. PICK i \in DOMAIN waiters, j \in DOMAIN waiters : i < j /\ waiters[i] = a /\ waiters[j] = b
    BY <2>1 DEF Behind, Before
  <2>3. PICK m \in DOMAIN waiters' : waiters'[m] = a
    BY DEF Behind, ToSet
  <2>4. i # 1
    BY <1>3, <2>2, <2>3 DEF NoGhostWaiters
  <2>5. /\ i - 1 \in DOMAIN waiters' /\ waiters'[i - 1] = a
        /\ j - 1 \in DOMAIN waiters' /\ waiters'[j - 1] = b
        /\ i - 1 < j - 1
    <3>1. j # 1 /\ i \in Int /\ j \in Int
      BY <2>2, <2>4
    <3>. QED
      BY <1>3, <2>2, <2>4, <3>1
  <2>. QED
    BY <2>5, Zenon DEF Before
<1>. QED
  BY <1>5, <1>6 DEF Overtakes

(* Nobody overtakes in the queue for decode permits, whoever leaves it.    *)
THEOREM NobodyOvertakes == Spec => NoOvertaking
<1>. DEFINE Order == \A a, b \in Requests : Behind(a, b) => ~Overtakes(a, b)
<1>1. IInv /\ NoIdleWorkerBesideWaiters /\ [Next]_vars => Order \/ UNCHANGED vars
  <2>. SUFFICES ASSUME IInv, NoIdleWorkerBesideWaiters, Next
                PROVE  Order
    OBVIOUS
  <2>1. PICK r \in Requests : \/ Arrive(r)
                              \/ HandlerStep(r)
                              \/ PoolStep(r)
                              \/ TaskStep(r)
                              \/ Disconnect(r)
    BY DEF Next
  <2>2. CASE FreePermit(r)
    BY <2>2, OrderGiveBack DEF FreePermit
  <2>3. CASE DropGranted(r)
    <3>1. /\ GiveBack(granted \ {r}) /\ granted \ {r} \in SUBSET granted
          /\ \A q \in Requests : pc'[q] = "holding" => pc[q] = "holding"
      BY <2>3 DEF DropGranted, Goto, IInv, Typed
    <3>. QED
      BY <3>1, OrderGiveBack
  <2>. QED
    BY <2>1, <2>2, <2>3, OrderQuietSteps, OrderEnqueue, OrderDropQueued
       DEF PoolStep, TaskStep, Disconnect
<1>2. Order \/ UNCHANGED vars =>
        [\A a, b \in Requests :
            /\ a \in ToSet(waiters) \cap ToSet(waiters')
            /\ b \in ToSet(waiters) => Before(a, b, waiters)
            /\ ~HasPermit(b)
            => /\ b \in ToSet(waiters') => Before(a, b, waiters')
               /\ ~HasPermit(b)']_vars
  BY DEF Behind, Overtakes
<1>. QED
  BY InitIInv, StepIInv, WorkConserving, <1>1, <1>2, PTL DEF Spec, NoOvertaking

----------------------------------------------------------------------------
(* The gauges of /metrics.                                                 *)

(* Sets with no element in common are counted apart.                       *)
LEMMA DisjointUnion ==
  ASSUME NEW S, NEW T, IsFiniteSet(S), IsFiniteSet(T), S \cap T = {}
  PROVE  Cardinality(S \cup T) = Cardinality(S) + Cardinality(T)
<1>1. Cardinality(S) \in Nat /\ Cardinality(T) \in Nat
  BY FS_CardinalityType
<1>2. Cardinality(S \cup T) = Cardinality(S) + Cardinality(T) - Cardinality(S \cap T)
  BY FS_Union
<1>3. Cardinality(S \cap T) = 0
  BY FS_EmptySet
<1>. QED
  BY <1>1, <1>2, <1>3

(* Each kind of owner counted on its own.                                  *)
LEMMA OwnersApart ==
  ASSUME IInv
  PROVE  /\ Cardinality(Queueing) \in Nat /\ Cardinality(Executing) \in Nat /\ Passing \in Nat
         /\ Cardinality(AdmissionOwners) = Cardinality(Queueing) + Cardinality(Executing)
         /\ Cardinality(DecodeOwners) = Cardinality(Executing) + Passing
<1>. USE DEF IInv, Typed
<1>1. /\ Queueing \in SUBSET Requests /\ Executing \in SUBSET Requests
      /\ granted \cup Freeing \in SUBSET Requests
  BY DEF Queueing, Executing, Freeing
<1>2. /\ IsFiniteSet(Queueing) /\ IsFiniteSet(Executing) /\ IsFiniteSet(granted \cup Freeing)
      /\ Cardinality(Queueing) \in Nat /\ Cardinality(Executing) \in Nat /\ Passing \in Nat
  BY <1>1, PoolAssumption, FS_Subset, FS_CardinalityType DEF Passing
<1>3. Queueing \cap Executing = {}
  BY DEF Queueing, Executing, TaskShape
<1>4. Executing \cap (granted \cup Freeing) = {}
  BY DEF Executing, Freeing, TaskShape, NoGhostWaiters
<1>5. DecodeOwners = Executing \cup (granted \cup Freeing)
  BY DEF DecodeOwners
<1>6. Cardinality(AdmissionOwners) = Cardinality(Queueing) + Cardinality(Executing)
  BY <1>2, <1>3, DisjointUnion DEF AdmissionOwners
<1>7. Cardinality(DecodeOwners) = Cardinality(Executing) + Passing
  BY <1>2, <1>4, <1>5, DisjointUnion DEF Passing
<1>. QED
  BY <1>2, <1>6, <1>7

(* Every permit is left, or with its owner.                                *)
PermitsCounted ==
  /\ Cardinality(Queueing) \in Nat /\ Cardinality(Executing) \in Nat /\ Passing \in Nat
  /\ admission \in Nat /\ decode \in Nat
  /\ admission + Cardinality(Queueing) + Cardinality(Executing) = Workers + QueueDepth
  /\ decode + Cardinality(Executing) + Passing = Workers

(* The invariant's two sums, with the owners counted kind by kind.         *)
LEMMA CountPermits == IInv => PermitsCounted
<1>. SUFFICES ASSUME IInv
              PROVE  PermitsCounted
  OBVIOUS
<1>. DEFINE q == Cardinality(Queueing)
            e == Cardinality(Executing)
            admitted == Cardinality(AdmissionOwners)
            owned == Cardinality(DecodeOwners)
<1>1. q \in Nat /\ e \in Nat /\ Passing \in Nat /\ admitted = q + e /\ owned = e + Passing
  BY OwnersApart
<1>2. /\ admission \in Nat /\ decode \in Nat
      /\ admission + admitted = Workers + QueueDepth /\ decode + owned = Workers
  BY DEF IInv, Typed, PermitsConserved
<1>. HIDE DEF q, e, admitted, owned
<1>3. admission + q + e = Workers + QueueDepth /\ decode + e + Passing = Workers
  BY <1>1, <1>2, PoolAssumption
<1>. QED
  BY <1>1, <1>2, <1>3 DEF PermitsCounted, q, e

(* The gauges made of two loads, whatever was left of the decode permits   *)
(* at the first.                                                           *)
LEMMA GaugeBounds ==
  ASSUME NEW q \in Nat, NEW e \in Nat, NEW p \in Nat, NEW m \in Nat,
         NEW a \in Nat, NEW d \in Nat, NEW then \in Nat,
         a + q + e = Workers + QueueDepth, d + e + p = Workers,
         then <= Workers, then <= d + m, d <= then + m
  PROVE  /\ InFlight(then) = Workers - then
         /\ QueuedIsWithin(Queued(then, a), q, p, m)
<1>1. InFlight(then) = Workers - then
  BY PoolAssumption DEF InFlight, SaturatingSub
<1>2. SaturatingSub(Workers + QueueDepth, a) = q + e
  BY PoolAssumption DEF SaturatingSub
<1>3. Queued(then, a) = IF q + e > Workers - then THEN (q + e) - (Workers - then) ELSE 0
  BY <1>1, <1>2 DEF Queued, SaturatingSub
<1>. QED
  BY <1>1, <1>3, PoolAssumption DEF QueuedIsWithin

(* One step moves at most one decode permit.                               *)
LEMMA OnePermitAStep ==
  ASSUME IInv, [Next]_vars
  PROVE  decode <= decode' + 1 /\ decode' <= decode + 1
<1>. USE DEF IInv, Typed
<1>1. CASE UNCHANGED vars
  BY <1>1 DEF vars
<1>2. CASE Next
  <2>1. PICK r \in Requests : \/ Arrive(r)
                              \/ HandlerStep(r)
                              \/ PoolStep(r)
                              \/ TaskStep(r)
                              \/ Disconnect(r)
    BY <1>2 DEF Next
  <2>2. CASE FreePermit(r) \/ DropGranted(r)
    BY <2>2 DEF FreePermit, DropGranted, GiveBack
  <2>3. CASE ~(FreePermit(r) \/ DropGranted(r))
    BY <2>1, <2>3 DEF Arrive, HandlerStep, Admit, Shed, AnswerUnopened, OpenInfo, PoolStep,
         AcquireNow, Enqueue, Claim, Spawn, Reply, Leave, TaskStep, FinishWork, FinishOpen,
         Disconnect, DropResolving, DropQueued, DropJoining
  <2>. QED
    BY <2>2, <2>3
<1>. QED
  BY <1>1, <1>2

(* The gauges never wrap round and are off by no more than what moved      *)
(* between their two loads.                                                *)
THEOREM GaugesAlwaysTell == Spec => GaugesTell
<1>1. IInv => GaugesTogether
  <2>. SUFFICES ASSUME IInv
                PROVE  GaugesTogether
    OBVIOUS
  <2>. DEFINE q == Cardinality(Queueing)
              e == Cardinality(Executing)
  <2>1. /\ q \in Nat /\ e \in Nat /\ Passing \in Nat /\ admission \in Nat /\ decode \in Nat
        /\ admission + q + e = Workers + QueueDepth /\ decode + e + Passing = Workers
    BY CountPermits DEF PermitsCounted
  <2>. HIDE DEF q, e
  <2>2. decode <= Workers /\ decode <= decode + 0
    BY <2>1, PoolAssumption
  <2>3. InFlight(decode) = Workers - decode /\ QueuedIsWithin(Queued(decode, admission), q, Passing, 0)
    BY <2>1, <2>2, GaugeBounds
  <2>4. e <= InFlight(decode) /\ InFlight(decode) <= Workers
    BY <2>1, <2>3, PoolAssumption
  <2>. QED
    BY <2>3, <2>4 DEF GaugesTogether, q, e
<1>2. IInv /\ IInv' /\ [Next]_vars => GaugesApart
  <2>. SUFFICES ASSUME IInv, IInv', [Next]_vars
                PROVE  GaugesApart
    OBVIOUS
  <2>. DEFINE q == Cardinality(Queueing')
              e == Cardinality(Executing')
              p == Passing'
  <2>1. PermitsCounted'
    BY CountPermits, PTL
  <2>2. /\ q \in Nat /\ e \in Nat /\ p \in Nat /\ admission' \in Nat /\ decode' \in Nat
        /\ admission' + q + e = Workers + QueueDepth /\ decode' + e + p = Workers
    BY <2>1 DEF PermitsCounted
  <2>. HIDE DEF q, e, p
  <2>3. decode \in Nat /\ decode <= Workers
    BY CountPermits, PoolAssumption DEF PermitsCounted
  <2>4. decode <= decode' + 1 /\ decode' <= decode + 1
    BY OnePermitAStep
  <2>5. QueuedIsWithin(Queued(decode, admission'), q, p, 1)
    BY <2>2, <2>3, <2>4, GaugeBounds
  <2>. QED
    BY <2>5 DEF GaugesApart, q, e, p
<1>3. IInv' => GaugesTogether'
  BY <1>1, PTL
<1>4. IInv /\ IInv' /\ [Next]_vars => [GaugesTogether' /\ GaugesApart]_vars
  BY <1>2, <1>3
<1>. QED
  BY InitIInv, StepIInv, <1>4, PTL DEF Spec, GaugesTell

----------------------------------------------------------------------------
(* The bounded pool behind the semaphores.                                 *)
LEMMA PoolCounts ==
  ASSUME NEW S
  PROVE  Pool!Cardinality(S) = Cardinality(S)
BY DEF Pool!Cardinality, Cardinality

(* What the abstract pool sees of the semaphores and their owners.         *)
LEMMA PoolPlaces ==
  ASSUME IInv
  PROVE  /\ Pool!Full <=> admission = 0
         /\ decode > 0 => Cardinality(Executing) < Workers
         /\ \A r \in granted : Cardinality(Executing) < Workers
<1>. USE DEF IInv, Typed
<1>1. Pool!Full <=> admission = 0
  BY OwnersCounted, PoolAssumption, PoolCounts DEF Pool!Full, Pool!Admitted, AdmissionOwners,
                                       PermitsConserved
<1>2. DecodeOwners \in SUBSET Requests /\ Executing \subseteq DecodeOwners
  BY DEF DecodeOwners, Executing, Freeing
<1>3. IsFiniteSet(DecodeOwners) /\ Cardinality(DecodeOwners) \in Nat
  BY <1>2, PoolAssumption, FS_Subset, FS_CardinalityType
<1>4. decode > 0 => Cardinality(Executing) < Workers
  <2>1. Cardinality(Executing) \in Nat /\ Cardinality(Executing) <= Cardinality(DecodeOwners)
    BY <1>2, <1>3, FS_Subset, FS_CardinalityType
  <2>. QED
    BY <1>3, <2>1, PoolAssumption DEF PermitsConserved
<1>5. ASSUME NEW r \in granted
      PROVE  Cardinality(Executing) < Workers
  <2>1. r \in DecodeOwners /\ Executing \subseteq DecodeOwners \ {r}
    BY <1>2 DEF DecodeOwners, Executing, NoGhostWaiters, TaskShape
  <2>2. /\ Cardinality(DecodeOwners \ {r}) \in Nat
        /\ Cardinality(DecodeOwners) = Cardinality(DecodeOwners \ {r}) + 1
    BY <1>2, <2>1, OneLess
  <2>3. IsFiniteSet(DecodeOwners \ {r})
    BY <1>3, FS_Subset
  <2>4. /\ Cardinality(Executing) \in Nat
        /\ Cardinality(Executing) <= Cardinality(DecodeOwners \ {r})
    BY <2>1, <2>3, FS_Subset, FS_CardinalityType
  <2>. QED
    BY <2>2, <2>4, PoolAssumption DEF PermitsConserved
<1>. QED
  BY <1>1, <1>4, <1>5

(* Turned away, in the abstract pool's terms.                              *)
Overloaded == {r \in Requests : status[r] = "overloaded"}

(* Each step of the two semaphores is a step of the pool or a stutter.     *)
LEMMA PoolStepSimulated ==
  ASSUME IInv, [Next]_vars
  PROVE  [Pool!Next]_(Pool!vars)
<1>. USE DEF IInv, Typed, PC, Task, Status, Goto, Answer
<1>1. CASE UNCHANGED vars
  BY <1>1 DEF vars, Pool!vars, Queueing, Executing
<1>2. CASE Next
  <2>1. PICK r \in Requests : \/ Arrive(r)
                              \/ HandlerStep(r)
                              \/ PoolStep(r)
                              \/ TaskStep(r)
                              \/ Disconnect(r)
    BY <1>2 DEF Next
  <2>2. CASE \/ Arrive(r) \/ AnswerUnopened(r) \/ Reply(r)
    \* the slot's last 503, if it was one, is forgotten
    <3>1. Queueing' = Queueing /\ Executing' = Executing
      BY <2>2 DEF Queueing, Executing, TaskShape, Arrive, AnswerUnopened, Reply
    <3>2. Overloaded' = Overloaded \ {r}
      BY <2>2 DEF Overloaded, Arrive, AnswerUnopened, Reply
    <3>. QED
      BY <3>1, <3>2 DEF Overloaded, Pool!Next, Pool!Retry, Pool!vars
  <2>3. CASE \/ OpenInfo(r) \/ Enqueue(r) \/ Spawn(r) \/ FreePermit(r) \/ FinishOpen(r)
             \/ DropResolving(r) \/ DropQueued(r) \/ DropGranted(r) \/ DropJoining(r)
    <3>1. status' = status
      BY <2>3 DEF OpenInfo, Enqueue, Spawn, FreePermit, FinishOpen, DropResolving,
                  DropQueued, DropGranted, DropJoining
    <3>2. Queueing' = Queueing /\ Executing' = Executing
      BY <2>3 DEF Queueing, Executing, TaskShape, OpenInfo, Enqueue, Spawn, FreePermit,
                  FinishOpen, EndedTask, DropResolving, DropQueued, DropGranted, DropJoining
    <3>. QED
      BY <3>1, <3>2 DEF Pool!vars
  <2>4. CASE Admit(r)
    <3>1. /\ r \notin Queueing \cup Executing
          /\ Queueing' = Queueing \cup {r} /\ Executing' = Executing
          /\ status' = status
      BY <2>4 DEF Admit, Queueing, Executing, TaskShape
    <3>2. ~Pool!Full
      BY <2>4, PoolPlaces DEF Admit
    <3>. QED
      BY <3>1, <3>2 DEF Pool!Next, Pool!Admit, Pool!Admitted
  <2>5. CASE Shed(r)
    <3>1. /\ r \notin Queueing \cup Executing
          /\ Queueing' = Queueing /\ Executing' = Executing
      BY <2>5 DEF Shed, Queueing, Executing, TaskShape
    <3>2. Overloaded' = Overloaded \cup {r}
      BY <2>5 DEF Shed, Overloaded
    <3>3. Pool!Full
      BY <2>5, PoolPlaces DEF Shed
    <3>. QED
      BY <3>1, <3>2, <3>3 DEF Overloaded, Pool!Next, Pool!Reject, Pool!Admitted
  <2>6. CASE AcquireNow(r) \/ Claim(r)
    <3>1. /\ r \in Queueing /\ Queueing' = Queueing \ {r}
          /\ Executing' = Executing \cup {r} /\ status' = status
      BY <2>6 DEF AcquireNow, Claim, Queueing, Executing
    <3>2. Cardinality(Executing) < Workers
      BY <2>6, PoolPlaces DEF AcquireNow, Claim
    <3>. QED
      BY <3>1, <3>2, PoolCounts DEF Pool!Next, Pool!Begin
  <2>7. CASE FinishWork(r)
    <3>1. /\ r \in Executing /\ Executing' = Executing \ {r}
          /\ Queueing' = Queueing /\ status' = status
      BY <2>7 DEF FinishWork, Queueing, Executing, TaskShape
    <3>. QED
      BY <3>1 DEF Pool!Next, Pool!End
  <2>8. CASE Leave(r)
    <3>1. /\ r \in Queueing /\ Queueing' = Queueing \ {r}
          /\ Executing' = Executing /\ status' = status
      BY <2>8 DEF Leave, Queueing, Executing
    <3>. QED
      BY <3>1 DEF Pool!Next, Pool!Withdraw
  <2>. QED
    BY <2>1, <2>2, <2>3, <2>4, <2>5, <2>6, <2>7, <2>8
       DEF HandlerStep, PoolStep, TaskStep, Disconnect
<1>. QED
  BY <1>1, <1>2

(* The semaphores of app.rs implement the bounded pool: never more than    *)
(* Workers executing nor Workers + QueueDepth admitted, and a 503 only     *)
(* when every place is taken.                                              *)
THEOREM ImplementsBoundedPool == Spec => PoolSpec
<1>1. Init => Pool!Init
  BY DEF Init, Pool!Init, Queueing, Executing
<1>2. IInv /\ [Next]_vars => [Pool!Next]_(Pool!vars)
  BY PoolStepSimulated
<1>. QED
  BY InitIInv, StepIInv, <1>1, <1>2, PTL DEF Spec, PoolSpec, Pool!Spec
=============================================================================
