---------------------------- MODULE BoundedPool ----------------------------
(***************************************************************************)
(* What the image pipeline's backpressure promises, without saying how:    *)
(* at most Workers requests execute, at most QueueDepth more wait, and a   *)
(* request is turned away only when all of those places are taken.         *)
(* DecodePool shows that the two semaphores of app.rs implement this.      *)
(***************************************************************************)
EXTENDS Naturals, FiniteSets

CONSTANTS Requests,    (* request slots                                    *)
          Workers,     (* places for executing requests                    *)
          QueueDepth   (* places for waiting requests beyond the workers   *)

VARIABLES waiting,     (* admitted, not yet executing                      *)
          executing,   (* doing image work                                 *)
          rejected     (* turned away with 503                             *)

vars == <<waiting, executing, rejected>>

Admitted == waiting \cup executing

Full == Cardinality(Admitted) = Workers + QueueDepth

Init == /\ waiting = {}
        /\ executing = {}
        /\ rejected = {}

Admit(r) == /\ r \notin Admitted
            /\ ~Full
            /\ waiting' = waiting \cup {r}
            /\ UNCHANGED <<executing, rejected>>

Reject(r) == /\ r \notin Admitted
             /\ Full
             /\ rejected' = rejected \cup {r}
             /\ UNCHANGED <<waiting, executing>>

Begin(r) == /\ r \in waiting
            /\ Cardinality(executing) < Workers
            /\ waiting' = waiting \ {r}
            /\ executing' = executing \cup {r}
            /\ UNCHANGED rejected

Withdraw(r) == /\ r \in waiting
               /\ waiting' = waiting \ {r}
               /\ UNCHANGED <<executing, rejected>>

End(r) == /\ r \in executing
          /\ executing' = executing \ {r}
          /\ UNCHANGED <<waiting, rejected>>

Retry(r) == /\ r \in rejected
            /\ rejected' = rejected \ {r}
            /\ UNCHANGED <<waiting, executing>>

Next == \E r \in Requests : \/ Admit(r)
                            \/ Reject(r)
                            \/ Begin(r)
                            \/ Withdraw(r)
                            \/ End(r)
                            \/ Retry(r)

Spec == Init /\ [][Next]_vars

(* Nobody waits for ever and nobody executes for ever.                     *)
EveryoneMovesOn == \A r \in Requests : /\ r \in waiting ~> r \notin waiting
                                       /\ r \in executing ~> r \notin executing
=============================================================================
