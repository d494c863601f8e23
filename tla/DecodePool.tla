---------------------------- MODULE DecodePool -----------------------------
(***************************************************************************)
(* The request path of crates/server/src/app.rs through its two tokio      *)
(* semaphores.  An image handler takes an admission permit without waiting *)
(* (none left: 503), queues for a decode permit, and moves both permits    *)
(* into a blocking task that decodes, transforms and encodes.  The task is *)
(* not tied to the handler: a client that goes away drops the handler at   *)
(* its current await, and a task already spawned runs to its end.          *)
(* info.json opens its master in a blocking task that takes no permit.     *)
(*                                                                         *)
(* The semaphore, the blocking pool and hyper's dropping of a handler are  *)
(* external code, modelled from the way app.rs uses them.                  *)
(***************************************************************************)
EXTENDS Naturals, FiniteSets, Sequences, SequencesExt

CONSTANTS Requests,    (* request slots: bounds the handlers and tasks alive *)
          Workers,     (* --workers                                          *)
          QueueDepth   (* --queue-depth                                      *)

ASSUME PoolAssumption == /\ IsFiniteSet(Requests)
                         /\ Workers \in Nat \ {0}   \* parse_args refuses 0
                         /\ QueueDepth \in Nat

VARIABLES
  pc,         (* where the handler of each slot is                           *)
  task,       (* the blocking task each slot spawned                         *)
  status,     (* how the slot's last request was answered                    *)
  admission,  (* permits left in App::admission                              *)
  decode,     (* permits left in App::decode_permits                         *)
  waiters,    (* Acquire futures queued on decode_permits, oldest first      *)
  granted,    (* queued handlers handed a permit they have not yet seen      *)
  parallel    (* set_internal_parallelism(pool_idle) of each decoding task   *)

vars == <<pc, task, status, admission, decode, waiters, granted, parallel>>

PC == {"idle",       \* no request
       "image",      \* image(): resolving the source
       "info",       \* info_json(): resolving the source
       "acquire",    \* admitted, about to ask for a decode permit
       "waiting",    \* suspended in acquire_owned().await
       "holding",    \* has both permits, about to spawn
       "join",       \* suspended in spawn_blocking(..).await
       "leave"}      \* dropped while waiting: the admission permit still to drop

Task == {"none",
         "decoding", \* the image closure, both permits in it
         "freeing",  \* its work is over and _admission has dropped
         "opening",  \* the info.json closure
         "ended"}    \* its result waits for the handler

Status == {"none", "answered", "overloaded"}

Init == /\ pc = [r \in Requests |-> "idle"]
        /\ task = [r \in Requests |-> "none"]
        /\ status = [r \in Requests |-> "none"]
        /\ admission = Workers + QueueDepth
        /\ decode = Workers
        /\ waiters = <<>>
        /\ granted = {}
        /\ parallel = [r \in Requests |-> FALSE]

----------------------------------------------------------------------------
(* Every way a handler gives its answer and ends.                          *)
Answer(r, s) == /\ pc' = [pc EXCEPT ![r] = "idle"]
                /\ status' = [status EXCEPT ![r] = s]

Goto(r, from, to) == /\ pc[r] = from
                     /\ pc' = [pc EXCEPT ![r] = to]

(* A bug: the permit is handed to the oldest waiter and counted as well.   *)
GiveBackTwice(from) ==
  IF waiters = <<>>
  THEN decode' = decode + 1 /\ granted' = from /\ UNCHANGED waiters
  ELSE /\ granted' = from \cup {Head(waiters)}
       /\ waiters' = Tail(waiters)
       /\ decode' = decode + 1

(* A bug: the permit is left for whoever asks next, waiters or not.        *)
GiveBackBarging(from) ==
  decode' = decode + 1 /\ granted' = from /\ UNCHANGED waiters

(* Semaphore::add_permits for one permit: it goes to the oldest waiter and *)
(* is counted only when there is none.  `from` is the set of grants that   *)
(* remain.                                                                 *)
GiveBack(from) ==
  IF waiters = <<>>
  THEN decode' = decode + 1 /\ granted' = from /\ UNCHANGED waiters
  ELSE /\ granted' = from \cup {Head(waiters)}
       /\ waiters' = Tail(waiters)
       /\ UNCHANGED decode

----------------------------------------------------------------------------
(* A request arrives in a free slot: image() or info_json() runs up to     *)
(* SourceRoot::resolve.  Requests refused before that touch no pool state. *)
Arrive(r) == /\ pc[r] = "idle"
             /\ task[r] = "none"
             /\ \E route \in {"image", "info"} : pc' = [pc EXCEPT ![r] = route]
             /\ status' = [status EXCEPT ![r] = "none"]
             /\ UNCHANGED <<task, admission, decode, waiters, granted, parallel>>

(* The source is missing or unreadable, or an info.json revalidation hits. *)
AnswerUnopened(r) == /\ pc[r] \in {"image", "info"}
                     /\ Answer(r, "answered")
                     /\ UNCHANGED <<task, admission, decode, waiters, granted, parallel>>

(* try_acquire_owned on the admission semaphore.                           *)
Admit(r) == /\ Goto(r, "image", "acquire")
            /\ admission > 0
            /\ admission' = admission - 1
            /\ UNCHANGED <<task, status, decode, waiters, granted, parallel>>

(* A bug: every worker being busy is taken for the queue being full.       *)
ShedWhenBusy(r) == /\ pc[r] = "image"
                   /\ decode = 0
                   /\ Answer(r, "overloaded")
                   /\ UNCHANGED <<task, admission, decode, waiters, granted, parallel>>

(* It has no permit left: 503 with Retry-After.                            *)
Shed(r) == /\ pc[r] = "image"
           /\ admission = 0
           /\ Answer(r, "overloaded")
           /\ UNCHANGED <<task, admission, decode, waiters, granted, parallel>>

(* acquire_owned finds a permit ...                                        *)
AcquireNow(r) == /\ Goto(r, "acquire", "holding")
                 /\ decode > 0
                 /\ decode' = decode - 1
                 /\ UNCHANGED <<task, status, admission, waiters, granted, parallel>>

(* A bug: the newest waiter is served first.                               *)
EnqueueFirst(r) == /\ Goto(r, "acquire", "waiting")
                   /\ decode = 0
                   /\ waiters' = <<r>> \o waiters
                   /\ UNCHANGED <<task, status, admission, decode, granted, parallel>>

(* ... or queues behind the waiters that are there.                        *)
Enqueue(r) == /\ Goto(r, "acquire", "waiting")
              /\ decode = 0
              /\ waiters' = Append(waiters, r)
              /\ UNCHANGED <<task, status, admission, decode, granted, parallel>>

(* The handler is polled with a permit assigned to it.                     *)
Claim(r) == /\ Goto(r, "waiting", "holding")
            /\ r \in granted
            /\ granted' = granted \ {r}
            /\ UNCHANGED <<task, status, admission, decode, waiters, parallel>>

(* A bug: pool_idle still counts the permit this handler holds.            *)
SpawnIdleBeforeAcquire(r) == /\ Goto(r, "holding", "join")
                             /\ parallel' = [parallel EXCEPT ![r] = decode + 1 > 0]
                             /\ task' = [task EXCEPT ![r] = "decoding"]
                             /\ UNCHANGED <<status, admission, decode, waiters, granted>>

(* pool_idle is read, then both permits move into the blocking closure.    *)
Spawn(r) == /\ Goto(r, "holding", "join")
            /\ parallel' = [parallel EXCEPT ![r] = decode > 0]
            /\ task' = [task EXCEPT ![r] = "decoding"]
            /\ UNCHANGED <<status, admission, decode, waiters, granted>>

(* info_json() opens the master: no admission, no decode permit.           *)
OpenInfo(r) == /\ Goto(r, "info", "join")
               /\ task' = [task EXCEPT ![r] = "opening"]
               /\ UNCHANGED <<status, admission, decode, waiters, granted, parallel>>

----------------------------------------------------------------------------
(* The closure returns, fails with `?` or panics: its locals drop in       *)
(* reverse order, _admission before _permit.                               *)
FinishWork(r) == /\ task[r] = "decoding"
                 /\ task' = [task EXCEPT ![r] = "freeing"]
                 /\ admission' = admission + 1
                 /\ UNCHANGED <<pc, status, decode, waiters, granted, parallel>>

(* A bug: the result of a task nobody waits for is kept.                   *)
EndedAlwaysKept(r) == "ended"

(* A task's result waits for its handler, or is dropped with the task.     *)
EndedTask(r) == IF pc[r] = "join" THEN "ended" ELSE "none"

FreePermit(r) == /\ task[r] = "freeing"
                 /\ GiveBack(granted)
                 /\ task' = [task EXCEPT ![r] = EndedTask(r)]
                 /\ parallel' = [parallel EXCEPT ![r] = FALSE]
                 /\ UNCHANGED <<pc, status, admission>>

FinishOpen(r) == /\ task[r] = "opening"
                 /\ task' = [task EXCEPT ![r] = EndedTask(r)]
                 /\ UNCHANGED <<pc, status, admission, decode, waiters, granted, parallel>>

(* The join handle resolves; every outcome of the closure is an answer.    *)
Reply(r) == /\ pc[r] = "join"
            /\ task[r] = "ended"
            /\ task' = [task EXCEPT ![r] = "none"]
            /\ Answer(r, "answered")
            /\ UNCHANGED <<admission, decode, waiters, granted, parallel>>

----------------------------------------------------------------------------
(* The client goes away and hyper drops the handler where it is suspended. *)
DropResolving(r) == /\ pc[r] \in {"image", "info"}
                    /\ pc' = [pc EXCEPT ![r] = "idle"]
                    /\ UNCHANGED <<task, status, admission, decode, waiters, granted, parallel>>

(* A bug: a dropped Acquire stays in the queue.                            *)
DropQueuedGhost(r) == /\ Goto(r, "waiting", "leave")
                      /\ r \in ToSet(waiters)
                      /\ UNCHANGED <<task, status, admission, decode, waiters, granted, parallel>>

(* The Acquire future unlinks itself from the semaphore's queue.           *)
DropQueued(r) == /\ Goto(r, "waiting", "leave")
                 /\ \E i \in DOMAIN waiters : /\ waiters[i] = r
                                              /\ waiters' = RemoveAt(waiters, i)
                 /\ UNCHANGED <<task, status, admission, decode, granted, parallel>>

(* A bug: a permit granted to a dropped Acquire is lost.                   *)
DropGrantedLeak(r) == /\ Goto(r, "waiting", "leave")
                      /\ r \in granted
                      /\ granted' = granted \ {r}
                      /\ UNCHANGED <<task, status, admission, decode, waiters, parallel>>

(* Dropped between the grant and the poll: the permit goes back.           *)
DropGranted(r) == /\ Goto(r, "waiting", "leave")
                  /\ r \in granted
                  /\ GiveBack(granted \ {r})
                  /\ UNCHANGED <<task, status, admission, parallel>>

(* ... and the admission permit the handler still owned.                   *)
Leave(r) == /\ Goto(r, "leave", "idle")
            /\ admission' = admission + 1
            /\ UNCHANGED <<task, status, decode, waiters, granted, parallel>>

(* Dropping a JoinHandle detaches the task: it keeps both permits.         *)
DropJoining(r) == /\ Goto(r, "join", "idle")
                  /\ task' = [task EXCEPT ![r] = IF @ = "ended" THEN "none" ELSE @]
                  /\ UNCHANGED <<status, admission, decode, waiters, granted, parallel>>

----------------------------------------------------------------------------
(* /metrics loads what is left of decode_permits, then of admission.       *)
SaturatingSub(a, b) == IF a > b THEN a - b ELSE 0

InFlight(decodeLeft) == SaturatingSub(Workers, decodeLeft)

(* A bug: the last subtraction wraps.                                      *)
QueuedWrapping(decodeLeft, admissionLeft) ==
  (SaturatingSub(Workers + QueueDepth, admissionLeft) + 2^16 - InFlight(decodeLeft)) % 2^16

Queued(decodeLeft, admissionLeft) ==
  SaturatingSub(SaturatingSub(Workers + QueueDepth, admissionLeft), InFlight(decodeLeft))

----------------------------------------------------------------------------
HandlerStep(r) == \/ Admit(r)
                  \/ Shed(r)
                  \/ AnswerUnopened(r)
                  \/ OpenInfo(r)

PoolStep(r) == \/ AcquireNow(r)
               \/ Enqueue(r)
               \/ Claim(r)
               \/ Spawn(r)
               \/ Reply(r)
               \/ Leave(r)

TaskStep(r) == \/ FinishWork(r)
               \/ FreePermit(r)
               \/ FinishOpen(r)

Disconnect(r) == \/ DropResolving(r)
                 \/ DropQueued(r)
                 \/ DropGranted(r)
                 \/ DropJoining(r)

Next == \E r \in Requests : \/ Arrive(r)
                            \/ HandlerStep(r)
                            \/ PoolStep(r)
                            \/ TaskStep(r)
                            \/ Disconnect(r)

Spec == Init /\ [][Next]_vars

(* The runtime polls every handler that is ready, and a blocking task,     *)
(* once started, ends.  Nothing makes a source answer or a client come.    *)
Fairness == \A r \in Requests : WF_vars(PoolStep(r)) /\ WF_vars(TaskStep(r))

FairSpec == Spec /\ Fairness

----------------------------------------------------------------------------
(* Who owns a permit of each semaphore.                                    *)
Queueing == {r \in Requests : pc[r] \in {"acquire", "waiting", "leave"}}
Executing == {r \in Requests : pc[r] = "holding" \/ task[r] = "decoding"}
Freeing == {r \in Requests : task[r] = "freeing"}

AdmissionOwners == Queueing \cup Executing
DecodeOwners == granted \cup Executing \cup Freeing

(* The type of every variable; permits never exceed what the semaphores    *)
(* were created with, so no permit is returned twice.                      *)
TypeOK == /\ pc \in [Requests -> PC]
          /\ task \in [Requests -> Task]
          /\ status \in [Requests -> Status]
          /\ admission \in 0..(Workers + QueueDepth)
          /\ decode \in 0..Workers
          /\ waiters \in Seq(Requests)
          /\ granted \in SUBSET Requests
          /\ parallel \in [Requests -> BOOLEAN]

(* No permit is lost or made: whatever mix of replies, panics and clients  *)
(* leaving mid-await, the permits outside the two semaphores are exactly   *)
(* those of the live handlers and tasks that should have one.              *)
PermitsConserved ==
  /\ admission + Cardinality(AdmissionOwners) = Workers + QueueDepth
  /\ decode + Cardinality(DecodeOwners) = Workers

(* The semaphore's queue holds handlers, never their ghosts: each queued    *)
(* Acquire belongs to one handler still suspended there without a permit,   *)
(* and a permit is only ever assigned to a handler that is still there.     *)
NoGhostWaiters ==
  /\ \A i \in DOMAIN waiters : /\ pc[waiters[i]] = "waiting"
                              /\ waiters[i] \notin granted
  /\ \A i, j \in DOMAIN waiters : waiters[i] = waiters[j] => i = j
  /\ \A r \in granted : pc[r] = "waiting"

Conserving == waiters # <<>> => decode = 0

Remembered == \A r \in Requests :
                pc[r] = "waiting" => r \in granted \/ \E i \in DOMAIN waiters : waiters[i] = r

(* The pool is work-conserving and forgets nobody: a request suspended at  *)
(* the decode semaphore is in its queue or has its permit assigned, and it *)
(* queues only while every permit is owned or assigned to someone.         *)
NoIdleWorkerBesideWaiters == Conserving /\ Remembered

(* pool_idle is read once and goes stale, yet when every decode permit is  *)
(* in a running task, at least one of those tasks was told not to use the  *)
(* codec's own threads: a full pool never decodes all-parallel.            *)
SomeDecodeIsSerial ==
  (decode = 0 /\ granted = {} /\ \A r \in Requests : pc[r] # "holding")
    => \E r \in Requests : task[r] \in {"decoding", "freeing"} /\ ~parallel[r]

(* How far a gauge `queued`, made of two loads, may be from the requests   *)
(* that queue at the second when `moved` steps of the pool come between: a *)
(* permit already assigned or not yet freed counts as a decode in flight.  *)
QueuedIsWithin(gauge, queueing, passing, moved) ==
  /\ gauge <= queueing + moved
  /\ queueing <= gauge + passing + moved

Passing == Cardinality(granted \cup Freeing)

GaugesTogether ==
  /\ Cardinality(Executing) <= InFlight(decode)
  /\ InFlight(decode) <= Workers
  /\ QueuedIsWithin(Queued(decode, admission), Cardinality(Queueing), Passing, 0)

GaugesApart == QueuedIsWithin(Queued(decode, admission'), Cardinality(Queueing'), Passing', 1)

(* What /metrics shows of the pool: `in_flight` counts every decode that   *)
(* runs and never more than the workers, `queued` the requests waiting for *)
(* a worker, but for those whose permit is on its way; a step between the  *)
(* two loads puts it off by one, never wraps it round.                     *)
GaugesTell == [][GaugesTogether' /\ GaugesApart]_vars

Before(a, b, queue) == \E i, j \in DOMAIN queue : i < j /\ queue[i] = a /\ queue[j] = b

HasPermit(r) == r \in granted \/ pc[r] = "holding"

(* acquire_owned serves in the order of asking: while a request stays      *)
(* queued, no other that queued behind it, or that has yet to ask, gets    *)
(* ahead of it in the queue or to a permit.                                *)
NoOvertaking ==
  [][\A a, b \in Requests :
        /\ a \in ToSet(waiters) \cap ToSet(waiters')
        /\ b \in ToSet(waiters) => Before(a, b, waiters)
        /\ ~HasPermit(b)
        => /\ b \in ToSet(waiters') => Before(a, b, waiters')
           /\ ~HasPermit(b)']_vars

(* The two semaphores implement the bounded pool: at most Workers image    *)
(* tasks work, at most Workers + QueueDepth are admitted, and a request is *)
(* answered 503 only when all those places are really taken.               *)
Pool == INSTANCE BoundedPool WITH
          waiting <- Queueing,
          executing <- Executing,
          rejected <- {r \in Requests : status[r] = "overloaded"}

PoolSpec == Pool!Spec

(* A request that got past admission leaves the queue, and one that        *)
(* executes finishes, however many others keep arriving and leaving.       *)
AdmittedMoveOn == Pool!EveryoneMovesOn

(* Every blocking task is reaped, also when its client has gone: a slot is *)
(* not held for ever by work nobody waits for.                             *)
TasksReaped == \A r \in Requests : task[r] # "none" ~> task[r] = "none"

(* main.rs documents --workers as the concurrent decode bound and          *)
(* deployment.md says the same: masters being opened or decoded by         *)
(* blocking tasks never outnumber the workers.                             *)
DecodesBoundedByWorkers ==
  Cardinality({r \in Requests : task[r] \in {"decoding", "opening"}}) <= Workers
=============================================================================
