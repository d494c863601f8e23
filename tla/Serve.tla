------------------------------- MODULE Serve -------------------------------
(***************************************************************************)
(* serve() and the end of main() in crates/server/src/main.rs: the accept  *)
(* loop, the task of each connection, the stop signal, the bounded drain,  *)
(* and the drop of the runtime on the way out of main.                     *)
(*                                                                         *)
(* The blocking work of a request is what DecodePool models; here it only  *)
(* has a life of its own, because neither the drain nor the connection     *)
(* owns it.  hyper's graceful shutdown and tokio's runtime drop are        *)
(* external code, modelled from the way main.rs uses them.                 *)
(***************************************************************************)
EXTENDS Naturals, FiniteSets

CONSTANT Conns    (* connection slots: bounds the connections alive at once *)

ASSUME ServeAssumption == IsFiniteSet(Conns)

VARIABLES
  server,     (* how far serve() and main() have come                       *)
  signalled,  (* SIGTERM or SIGINT has arrived                              *)
  conn,       (* the task of each connection                                *)
  req,        (* the request on each connection                             *)
  work,       (* the spawn_blocking task of that request                    *)
  drained,    (* how the drain ended                                        *)
  cut         (* connections whose request the server itself dropped        *)

vars == <<server, signalled, conn, req, work, drained, cut>>

Server == {"accepting", "draining", "dropping", "exited"}
Conn == {"none", "open", "closing"}
Req == {"idle",       \* between requests (or before the first)
        "reading",    \* the client has sent part of a request
        "inflight"}   \* App::handle is running
Work == {"none", "queued", "running", "done"}

Init == /\ server = "accepting"
        /\ signalled = FALSE
        /\ conn = [c \in Conns |-> "none"]
        /\ req = [c \in Conns |-> "idle"]
        /\ work = [c \in Conns |-> "none"]
        /\ drained = "no"
        /\ cut = {}

(* The connection tasks live until the runtime is dropped.                 *)
RuntimeUp == server \in {"accepting", "draining"}

----------------------------------------------------------------------------
Signal == /\ ~signalled
          /\ RuntimeUp
          /\ signalled' = TRUE
          /\ UNCHANGED <<server, conn, req, work, drained, cut>>

(* One turn of the accept loop; an accept error changes nothing.           *)
Accept(c) == /\ server = "accepting"
             /\ conn[c] = "none"
             /\ work[c] = "none"
             /\ conn' = [conn EXCEPT ![c] = "open"]
             /\ UNCHANGED <<server, signalled, req, work, drained, cut>>

(* The loop is left: the listener and main's own drain sender drop, and    *)
(* the watch channel tells every connection, also one not yet polled.      *)
Stop == /\ server = "accepting"
        /\ signalled
        /\ server' = "draining"
        /\ UNCHANGED <<signalled, conn, req, work, drained, cut>>

(* connection_shutdown.changed(): the connection closes when it is between *)
(* requests, and after the one it has begun otherwise.                     *)
Notice(c) == /\ server = "draining"
             /\ conn[c] = "open"
             /\ conn' = [conn EXCEPT ![c] = IF req[c] = "idle" THEN "none" ELSE "closing"]
             /\ UNCHANGED <<server, signalled, req, work, drained, cut>>

----------------------------------------------------------------------------
(* The client starts a request, completes it, or goes away.                *)
SendPart(c) == /\ RuntimeUp
               /\ conn[c] = "open"
               /\ req[c] = "idle"
               /\ req' = [req EXCEPT ![c] = "reading"]
               /\ UNCHANGED <<server, signalled, conn, work, drained, cut>>

SendRest(c) == /\ RuntimeUp
               /\ conn[c] # "none"
               /\ req[c] = "reading"
               /\ req' = [req EXCEPT ![c] = "inflight"]
               /\ UNCHANGED <<server, signalled, conn, work, drained, cut>>

(* A result nobody joins is dropped; running work is not stopped.          *)
Detach(w) == IF w = "done" THEN "none" ELSE w

Hangup(c) == /\ RuntimeUp
             /\ conn[c] # "none"
             /\ conn' = [conn EXCEPT ![c] = "none"]
             /\ req' = [req EXCEPT ![c] = "idle"]
             /\ work' = [work EXCEPT ![c] = Detach(@)]
             /\ UNCHANGED <<server, signalled, drained, cut>>

(* The handler spawns its blocking work (info.json and image requests).    *)
SpawnWork(c) == /\ RuntimeUp
                /\ req[c] = "inflight"
                /\ work[c] = "none"
                /\ work' = [work EXCEPT ![c] = "queued"]
                /\ UNCHANGED <<server, signalled, conn, req, drained, cut>>

StartWork(c) == /\ RuntimeUp
                /\ work[c] = "queued"
                /\ work' = [work EXCEPT ![c] = "running"]
                /\ UNCHANGED <<server, signalled, conn, req, drained, cut>>

EndWork(c) == /\ work[c] = "running"
              /\ work' = [work EXCEPT ![c] = IF req[c] = "inflight" THEN "done" ELSE "none"]
              /\ UNCHANGED <<server, signalled, conn, req, drained, cut>>

(* The answer is written, with or without blocking work behind it; a       *)
(* closing connection ends with it and drops its drain sender.             *)
Respond(c) == /\ RuntimeUp
              /\ req[c] = "inflight"
              /\ work[c] \in {"none", "done"}
              /\ req' = [req EXCEPT ![c] = "idle"]
              /\ work' = [work EXCEPT ![c] = "none"]
              /\ conn' = [conn EXCEPT ![c] = IF @ = "closing" THEN "none" ELSE @]
              /\ UNCHANGED <<server, signalled, drained, cut>>

----------------------------------------------------------------------------
(* A bug: a connection gives up its drain sender when it is told to stop.  *)
SendersGoneEarly == \A c \in Conns : conn[c] # "open"

(* drain_rx.recv() resolves when the last connection's sender has dropped. *)
SendersGone == \A c \in Conns : conn[c] = "none"

(* A bug: queued blocking work is started on the way out.                  *)
DropRuntimeKeepsQueue ==
               /\ server' = "dropping"
               /\ cut' = {c \in Conns : req[c] = "inflight"}
               /\ conn' = [c \in Conns |-> "none"]
               /\ req' = [c \in Conns |-> "idle"]
               /\ work' = [c \in Conns |-> IF work[c] = "done" THEN "none" ELSE work[c]]
               /\ UNCHANGED signalled

(* serve() returns and main drops the runtime: connection tasks stop where *)
(* they are, queued blocking work is discarded, running work is waited for. *)
DropRuntime == /\ server' = "dropping"
               /\ cut' = {c \in Conns : req[c] = "inflight"}
               /\ conn' = [c \in Conns |-> "none"]
               /\ req' = [c \in Conns |-> "idle"]
               /\ work' = [c \in Conns |-> IF work[c] = "running" THEN "running" ELSE "none"]
               /\ UNCHANGED signalled

DrainClean == /\ server = "draining"
              /\ SendersGone
              /\ drained' = "clean"
              /\ DropRuntime

(* A bug: the drain has no ceiling.                                        *)
DrainUnbounded == DrainClean

(* DRAIN_TIMEOUT expires first.                                            *)
DrainTimesOut == /\ server = "draining"
                 /\ drained' = "timed_out"
                 /\ DropRuntime

Exit == /\ server = "dropping"
        /\ \A c \in Conns : work[c] # "running"
        /\ server' = "exited"
        /\ UNCHANGED <<signalled, conn, req, work, drained, cut>>

Next == \/ Signal
        \/ Stop
        \/ DrainClean
        \/ DrainTimesOut
        \/ Exit
        \/ \E c \in Conns : \/ Accept(c)
                            \/ Notice(c)
                            \/ SendPart(c)
                            \/ SendRest(c)
                            \/ Hangup(c)
                            \/ SpawnWork(c)
                            \/ StartWork(c)
                            \/ EndWork(c)
                            \/ Respond(c)

Spec == Init /\ [][Next]_vars

(* The select! of the accept loop polls its branches in random order, the  *)
(* timer fires, connection tasks are polled, blocking work ends.  Clients  *)
(* and signals owe nothing.                                                *)
Fairness == /\ WF_vars(Stop)
            /\ WF_vars(DrainTimesOut)
            /\ WF_vars(Exit)
            /\ \A c \in Conns : /\ WF_vars(Notice(c))
                                /\ WF_vars(StartWork(c))
                                /\ WF_vars(EndWork(c))
                                /\ WF_vars(Respond(c))

FairSpec == Spec /\ Fairness

----------------------------------------------------------------------------
(* Types, and what a slot's three parts can be together: a request needs   *)
(* its connection, finished work a handler to read it, and once the drain  *)
(* is over only running work is left.                                      *)
TypeOK == /\ server \in Server
          /\ signalled \in BOOLEAN
          /\ conn \in [Conns -> Conn]
          /\ req \in [Conns -> Req]
          /\ work \in [Conns -> Work]
          /\ drained \in {"no", "clean", "timed_out"}
          /\ cut \in SUBSET Conns
          /\ \A c \in Conns : /\ req[c] # "idle" => conn[c] # "none"
                              /\ work[c] = "done" => req[c] = "inflight"
                              /\ ~RuntimeUp => work[c] \in {"none", "running"}

(* A drain that reports success cut nobody off: only a drain that ran into *)
(* DRAIN_TIMEOUT may have dropped a request the server was answering, also *)
(* when the connection was accepted just before the signal or had not yet  *)
(* been told about it.                                                     *)
CleanDrainCutsNobody == cut # {} => drained = "timed_out"

(* Once told to stop the process exits, whatever its clients do: a half    *)
(* sent request or an idle keep-alive connection cannot hold it, and work  *)
(* whose client has gone does end.                                         *)
ShutdownCompletes == signalled ~> server = "exited"
=============================================================================
