---------------------------- MODULE ServeProofs -----------------------------
(***************************************************************************)
(* For any number of connections: what a slot of Serve can hold, that a    *)
(* drain which reports success cut no request off, that after the stop     *)
(* nothing begins that exit waits for, and that exit leaves nothing behind. *)
(***************************************************************************)
EXTENDS Serve, TLAPS

(* Nothing is cut before the runtime is dropped, and then only after a     *)
(* drain that ran into its timeout.                                        *)
CutOnlyByTimeout == /\ RuntimeUp => cut = {}
                    /\ cut # {} => drained = "timed_out"

(* The connections go with the runtime.                                    *)
ConnsGone == ~RuntimeUp => \A c \in Conns : conn[c] = "none"

IInv == TypeOK /\ CutOnlyByTimeout /\ ConnsGone

(* Nobody is connected and nothing is cut.                                 *)
THEOREM InitIInv == Init => IInv
BY DEF Init, IInv, TypeOK, CutOnlyByTimeout, ConnsGone, RuntimeUp, Server, Conn, Req, Work

----------------------------------------------------------------------------
(* A step of one connection or of its work.                                *)
LEMMA ConnStep ==
  ASSUME IInv, NEW c \in Conns,
         \/ Accept(c) \/ Notice(c) \/ SendPart(c) \/ SendRest(c) \/ Hangup(c)
         \/ SpawnWork(c) \/ StartWork(c) \/ EndWork(c) \/ Respond(c)
  PROVE  IInv'
<1>. USE DEF IInv, TypeOK, ConnsGone, RuntimeUp, Server, Conn, Req, Work
<1>1. server' = server /\ cut' = cut /\ drained' = drained /\ signalled' = signalled
  BY DEF Accept, Notice, SendPart, SendRest, Hangup, SpawnWork, StartWork, EndWork, Respond
<1>2. CutOnlyByTimeout'
  BY <1>1 DEF CutOnlyByTimeout
<1>3. CASE Accept(c) \/ Notice(c)
  BY <1>1, <1>2, <1>3 DEF Accept, Notice
<1>4. CASE SendPart(c) \/ SendRest(c)
  BY <1>1, <1>2, <1>4 DEF SendPart, SendRest
<1>5. CASE Hangup(c) \/ Respond(c)
  BY <1>1, <1>2, <1>5 DEF Hangup, Respond, Detach
<1>6. CASE SpawnWork(c)
  BY <1>1, <1>2, <1>6 DEF SpawnWork
<1>7. CASE StartWork(c)
  BY <1>1, <1>2, <1>7 DEF StartWork
<1>8. CASE EndWork(c)
  <2>1. work' = [work EXCEPT ![c] = IF req[c] = "inflight" THEN "done" ELSE "none"]
    BY <1>8 DEF EndWork
  <2>2. req' = req /\ conn' = conn
    BY <1>8 DEF EndWork
  <2>3. ~RuntimeUp => work[c] \in {"none", "running"} /\ req[c] = "idle"
    BY DEF ConnsGone
  <2>. QED
    BY <1>1, <1>2, <2>1, <2>2, <2>3
<1>. QED
  BY <1>3, <1>4, <1>5, <1>6, <1>7, <1>8

(* The end of the drain: a connection without its task has no request.     *)
LEMMA DrainStep ==
  ASSUME IInv, DrainClean \/ DrainTimesOut
  PROVE  IInv'
<1>. USE DEF IInv, TypeOK, ConnsGone, RuntimeUp, Server, Conn, Req, Work
<1>1. TypeOK' /\ ConnsGone'
  BY DEF DrainClean, DrainTimesOut, DropRuntime
<1>2. CASE DrainTimesOut
  BY <1>1, <1>2 DEF DrainTimesOut, DropRuntime, CutOnlyByTimeout
<1>3. CASE DrainClean
  <2>1. \A c \in Conns : req[c] = "idle"
    BY <1>3 DEF DrainClean, SendersGone
  <2>2. cut' = {} /\ server' = "dropping"
    BY <1>3, <2>1 DEF DrainClean, DropRuntime
  <2>. QED
    BY <1>1, <2>2 DEF CutOnlyByTimeout
<1>. QED
  BY <1>2, <1>3

(* Every step keeps the invariant.                                         *)
THEOREM StepIInv == IInv /\ [Next]_vars => IInv'
<1>. SUFFICES ASSUME IInv, [Next]_vars
              PROVE  IInv'
  OBVIOUS
<1>1. CASE UNCHANGED vars
  BY <1>1 DEF vars, IInv, TypeOK, CutOnlyByTimeout, ConnsGone, RuntimeUp
<1>2. CASE Signal \/ Stop \/ Exit
  BY <1>2 DEF Signal, Stop, Exit, IInv, TypeOK, CutOnlyByTimeout, ConnsGone,
              RuntimeUp, Server, Work
<1>. QED
  BY <1>1, <1>2, ConnStep, DrainStep DEF Next

----------------------------------------------------------------------------
(* A slot never holds a request without its connection, nor a result       *)
(* nobody waits for, and after the drain only running work is left.        *)
THEOREM SlotsConsistent == Spec => []TypeOK
<1>1. IInv => TypeOK
  BY DEF IInv
<1>. QED
  BY InitIInv, StepIInv, <1>1, PTL DEF Spec

(* Only a drain that timed out has dropped a request in flight.            *)
THEOREM CleanDrains == Spec => []CleanDrainCutsNobody
<1>1. IInv => CleanDrainCutsNobody
  BY DEF IInv, CutOnlyByTimeout, CleanDrainCutsNobody
<1>. QED
  BY InitIInv, StepIInv, <1>1, PTL DEF Spec

----------------------------------------------------------------------------
(* How far each way to the end: the loop is left only when told to, and a  *)
(* process that has exited waited for all that ran.                        *)
ExitsClean ==
  /\ server # "accepting" => signalled
  /\ drained = "no" <=> RuntimeUp
  /\ server = "exited" => \A c \in Conns : conn[c] = "none" /\ req[c] = "idle" /\ work[c] = "none"

(* main() returns only after a signal and a drain, and leaves nothing      *)
(* behind: no connection, no request, and no blocking work, also work      *)
(* whose client has long gone.                                             *)
THEOREM ExitLeavesNothing == Spec => []ExitsClean
<1>1. Init => ExitsClean
  BY DEF Init, ExitsClean, RuntimeUp
<1>2. IInv /\ ExitsClean /\ [Next]_vars => ExitsClean'
  <2>. SUFFICES ASSUME IInv, ExitsClean, [Next]_vars
                PROVE  ExitsClean'
    OBVIOUS
  <2>. USE DEF ExitsClean, RuntimeUp
  <2>1. CASE UNCHANGED vars
    BY <2>1 DEF vars
  <2>2. CASE Signal \/ Stop
    BY <2>2 DEF Signal, Stop
  <2>3. CASE DrainClean \/ DrainTimesOut
    BY <2>3 DEF DrainClean, DrainTimesOut, DropRuntime
  <2>4. CASE Exit
    <3>1. /\ server = "dropping" /\ server' = "exited"
          /\ \A c \in Conns : work[c] # "running"
          /\ signalled' = signalled /\ drained' = drained /\ conn' = conn /\ req' = req /\ work' = work
      BY <2>4 DEF Exit
    <3>2. \A c \in Conns : conn[c] = "none" /\ req[c] = "idle" /\ work[c] = "none"
      BY <3>1 DEF IInv, TypeOK, ConnsGone
    <3>. QED
      BY <3>1, <3>2
  <2>5. ASSUME NEW c \in Conns,
               \/ Accept(c) \/ Notice(c) \/ SendPart(c) \/ SendRest(c) \/ Hangup(c)
               \/ SpawnWork(c) \/ StartWork(c) \/ EndWork(c) \/ Respond(c)
        PROVE  ExitsClean'
    <3>1. server' = server /\ drained' = drained /\ signalled' = signalled
      BY <2>5 DEF Accept, Notice, SendPart, SendRest, Hangup, SpawnWork, StartWork, EndWork, Respond
    <3>2. server # "exited"
      BY <2>5 DEF Accept, Notice, SendPart, SendRest, Hangup, SpawnWork, StartWork, EndWork, Respond
    <3>. QED
      BY <3>1, <3>2
  <2>. QED
    BY <2>1, <2>2, <2>3, <2>4, <2>5 DEF Next
<1>. QED
  BY InitIInv, StepIInv, <1>1, <1>2, PTL DEF Spec

(* What is left to wait for on a connection.                               *)
Shrinks(c) ==
  /\ conn[c] = "none" => conn'[c] = "none"
  /\ conn[c] = "closing" => conn'[c] # "open"
  /\ conn[c] = "closing" /\ req[c] = "idle" => req'[c] = "idle"
  /\ conn[c] = "none" /\ work[c] = "none" => work'[c] = "none"

OnlyShrinks == server # "accepting" => server' # "accepting" /\ \A c \in Conns : Shrinks(c)

(* After the stop nothing begins that the exit would have to wait for: no  *)
(* connection is accepted or opened again, one that closes takes no new    *)
(* request, and no work appears without a connection.  With fairness that  *)
(* is ShutdownCompletes, which the serve_shutdown run checks.              *)
THEOREM ShutdownOnlyShrinks == Spec => [][OnlyShrinks]_vars
<1>1. IInv /\ [Next]_vars => OnlyShrinks \/ UNCHANGED vars
  <2>. SUFFICES ASSUME IInv, Next, server # "accepting"
                PROVE  server' # "accepting" /\ \A c \in Conns : Shrinks(c)
    BY DEF OnlyShrinks
  <2>1. CASE Signal \/ Stop \/ Exit
    BY <2>1 DEF Signal, Stop, Exit, Shrinks
  <2>2. CASE DrainClean \/ DrainTimesOut
    BY <2>2 DEF DrainClean, DrainTimesOut, DropRuntime, Shrinks
  <2>3. ASSUME NEW c \in Conns,
               \/ Accept(c) \/ Notice(c) \/ SendPart(c) \/ SendRest(c) \/ Hangup(c)
               \/ SpawnWork(c) \/ StartWork(c) \/ EndWork(c) \/ Respond(c)
        PROVE  server' # "accepting" /\ \A d \in Conns : Shrinks(d)
    <3>1. /\ conn \in [Conns -> Conn] /\ req \in [Conns -> Req] /\ work \in [Conns -> Work]
          /\ req[c] # "idle" => conn[c] # "none"
      BY DEF IInv, TypeOK
    <3>2. server' = server
      BY <2>3 DEF Accept, Notice, SendPart, SendRest, Hangup, SpawnWork, StartWork, EndWork, Respond
    <3>3. \A d \in Conns \ {c} : conn'[d] = conn[d] /\ req'[d] = req[d] /\ work'[d] = work[d]
      BY <2>3, <3>1 DEF Accept, Notice, SendPart, SendRest, Hangup, SpawnWork, StartWork, EndWork, Respond
    <3>4. Shrinks(c)
      <4>1. CASE Accept(c) \/ Notice(c) \/ SendPart(c) \/ SendRest(c)
        BY <3>1, <4>1 DEF Accept, Notice, SendPart, SendRest, Shrinks
      <4>2. CASE Hangup(c) \/ Respond(c)
        BY <3>1, <4>2 DEF Hangup, Respond, Detach, Shrinks
      <4>3. CASE SpawnWork(c) \/ StartWork(c) \/ EndWork(c)
        BY <3>1, <4>3 DEF SpawnWork, StartWork, EndWork, Shrinks
      <4>. QED
        BY <2>3, <4>1, <4>2, <4>3
    <3>. QED
      BY <3>2, <3>3, <3>4 DEF Shrinks
  <2>. QED
    BY <2>1, <2>2, <2>3 DEF Next
<1>. QED
  BY InitIInv, StepIInv, <1>1, PTL DEF Spec
=============================================================================
