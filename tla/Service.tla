------------------------------- MODULE Service -------------------------------
(***************************************************************************)
(* The service as it is composed: the calls of AccountCreation are served  *)
(* by the gRPC server of the process of Lifecycle, which starts, shuts     *)
(* down, is killed and is started again, while the database stays.         *)
(***************************************************************************)
EXTENDS AccountCreation

CONSTANTS Pages, MaxRestarts

VARIABLES main, exit, prom, pool, tracer, server, serve, signalled, expired, page, restarts

process == <<main, exit, prom, pool, tracer, server, serve, signalled, expired, page, restarts>>

\* What the server knows of a call.
Seen(state) == CASE state = "idle" -> "idle"
                 [] state \in {"find", "save"} -> "running"
                 [] state = "returned" -> "answered"
                 [] state = "lost" -> "lost"

rpc == [r \in Calls |-> Seen(pc[r])]

Process == INSTANCE Lifecycle

ServiceInit == Init /\ Process!Init

\* Handle runs for a call that the server accepted, while the process runs ...
Handle(r) ==
  \/ exit = "running" /\ BuildAccount(r) /\ UNCHANGED process
  \/ Return(r) /\ Process!Answer(r)

\* ... and it starts when the server accepts the call.
Call(r) == Arrive(r) /\ Process!Accept(r)

\* A step of the process leaves the calls alone unless it ends the process.
ProcessStep(A) == (UNCHANGED vars \/ LoseCalls) /\ A

Over == exit # "running" /\ restarts = MaxRestarts /\ UNCHANGED <<vars, process>>

ServiceNext ==
  \/ \E r \in Calls : Call(r) \/ Handle(r)
  \/ ProcessStep(Process!Main \/ Process!Serving \/ Process!World)
  \/ Database /\ UNCHANGED process
  \/ Over

ServiceSpec == ServiceInit /\ [][ServiceNext]_<<vars, process>>

----------------------------------------------------------------------------
\* main goes on while it can, and the timer of the shutdown runs.  No call, request,
\* signal or restart is assumed to come, and none that has come to end: a statement
\* may hang, and the client of /metrics or /health may never read the answer.
Fairness == WF_<<vars, process>>(ProcessStep(Process!Main \/ Process!Timeout))

FairServiceSpec == ServiceSpec /\ Fairness

----------------------------------------------------------------------------

\* main.go:35-46, uow.go, repository/account.go: no statement of a call meets a
\* pool that is closed or not yet made.
PoolOutlivesCalls == Process!PoolOutlivesCalls

\* main.go:28-56: os.Exit(0) comes when everything is answered and closed.
CleanExit == Process!CleanExit

\* grpc_server.go:53-70, http_server.go:50-64: stopping a server that serves is no failure.
ServersStopQuietly == Process!ServersStopQuietly

\* main.go:45: the infrastructure is closed only after the servers have stopped.
InfraClosesLast == Process!InfraClosesLast

\* GracefulStop waits for calls of which one hangs.
Hangs == main = "DrainGRPC" /\ Process!Running(rpc) # {}

\* main.go:28-56: a signal that the process takes ends it, whatever the requests to
\* /health and /metrics do, and however often the client of a call retries.  Only a
\* call that never ends keeps the process alive, and no later signal helps: whenever
\* the process has been signalled and GracefulStop does not wait, it ends or comes to
\* that wait, and it comes there once.
SignalEndsProcess == signalled ~> exit # "running" \/ Hangs

============================================================================
