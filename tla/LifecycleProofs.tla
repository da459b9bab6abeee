--------------------------- MODULE LifecycleProofs ---------------------------
(***************************************************************************)
(* What Lifecycle guarantees of the start-up and the shutdown, for any     *)
(* calls, requests and number of restarts.                                 *)
(***************************************************************************)
EXTENDS Lifecycle, TLAPS

\* Where main stands tells what is open.
PoolFollowsMain ==
  /\ main \in {"LoadConfig", "NewPrometheus", "NewPostgres"} <=> pool = "none"
  /\ main \in {"CloseProm", "CloseTracer", "Exit"} <=> pool = "closed"

DepsFollowMain ==
  /\ main \in {"CloseTracer", "Exit"} => prom = "closed"
  /\ main = "Exit" => tracer \in {"closed", "lost"}

\* The gRPC server serves from its start to GracefulStop, which waits for the calls.
CallsFollowMain ==
  /\ server["grpc"] = "open" =>
       main \in {"NewHTTPServer", "StartServers", "Notify", "Wait", "StopGRPC"}
  /\ serve["grpc"] # "none" => main \notin StartUp \ {"Notify"}
  /\ Running(rpc) # {} => main \in {"Notify", "Wait", "StopGRPC", "DrainGRPC"}

\* A signal that does not end the process is taken once main waits for it.
SignalFollowsMain ==
  /\ signalled => exit = "running" /\ main \notin StartUp
  /\ main \in ShutDown => signalled

\* The inductive invariant.
IndInv ==
  /\ TypeOK
  /\ PoolFollowsMain
  /\ DepsFollowMain
  /\ CallsFollowMain
  /\ SignalFollowsMain

----------------------------------------------------------------------------

\* The process has not begun.
LEMMA Initially == Init => IndInv
<1> SUFFICES ASSUME Init PROVE IndInv
  OBVIOUS
<1>1. Running(rpc) = {}
  BY DEF Init, Running
<1> QED
  BY <1>1 DEF Init, Nothing, IndInv, TypeOK, PoolFollowsMain, DepsFollowMain, CallsFollowMain,
              SignalFollowsMain, StartUp, ShutDown, Servers

\* A process that ends leaves nothing open, running or signalled.
LEMMA EndStep ==
  ASSUME IndInv, NEW how \in {"done", "failed", "killed"}, End(how)
  PROVE  IndInv'
<1>1. TypeOK'
  BY DEF End, Nothing, IndInv, TypeOK, StartUp, Servers
<1>2. Running(rpc)' = {}
  BY DEF End, Running
<1> QED
  BY <1>1, <1>2 DEF End, Nothing, IndInv, PoolFollowsMain, DepsFollowMain, CallsFollowMain,
                    SignalFollowsMain, StartUp, ShutDown, Servers

\* What main does until it waits for the signal.
StartUpStep ==
  \/ LoadConfig \/ NewPrometheus \/ NewPostgres \/ InitOtelTracer
  \/ GRPCServer \/ NewHTTPServer \/ StartServers \/ Notify

\* Each dependency is made when main has passed it.
LEMMA StartUpKeeps ==
  ASSUME IndInv, StartUpStep
  PROVE  IndInv'
<1>1. CASE Fail
  BY <1>1, EndStep DEF Fail
<1>2. CASE ~ Fail
  <2>1. UNCHANGED <<exit, signalled, expired, rpc, page, restarts>>
    BY <1>2 DEF StartUpStep, LoadConfig, NewPrometheus, NewPostgres, InitOtelTracer, GRPCServer,
                NewHTTPServer, StartServers, Notify, Proceed, requests
  <2>2. Running(rpc)' = Running(rpc)
    BY <2>1 DEF Running
  <2>3. CASE LoadConfig \/ NewPrometheus \/ NewPostgres \/ InitOtelTracer
    BY <1>2, <2>1, <2>2, <2>3
       DEF LoadConfig, NewPrometheus, NewPostgres, InitOtelTracer, At, Proceed, deps, servers,
           IndInv, TypeOK, PoolFollowsMain, DepsFollowMain, CallsFollowMain, SignalFollowsMain,
           StartUp, ShutDown
  <2>4. CASE GRPCServer \/ NewHTTPServer
    BY <2>1, <2>2, <2>4
       DEF GRPCServer, NewHTTPServer, NewGRPCServer, At, Proceed, deps, servers,
           IndInv, TypeOK, PoolFollowsMain, DepsFollowMain, CallsFollowMain, SignalFollowsMain,
           StartUp, ShutDown, Servers
  <2>5. CASE StartServers \/ Notify
    BY <2>1, <2>2, <2>5
       DEF StartServers, Notify, At, Proceed, deps, servers,
           IndInv, TypeOK, PoolFollowsMain, DepsFollowMain, CallsFollowMain, SignalFollowsMain,
           StartUp, ShutDown, Servers
  <2> QED
    BY <2>3, <2>4, <2>5 DEF StartUpStep
<1> QED
  BY <1>1, <1>2

\* What main does from the signal on.
ShutDownStep ==
  \/ Wait \/ StopGRPC \/ DrainGRPC \/ StopHTTP \/ DrainHTTP
  \/ ClosePool \/ CloseProm \/ CloseTracer

\* Nothing is closed before GracefulStop has returned.
LEMMA ShutDownKeeps ==
  ASSUME IndInv, ShutDownStep
  PROVE  IndInv'
<1>1. UNCHANGED <<exit, signalled, expired, rpc, page, restarts>>
  BY DEF ShutDownStep, Wait, StopGRPC, DrainGRPC, StopHTTP, DrainHTTP, ClosePool, CloseProm,
         CloseTracer, Proceed, requests
<1>2. Running(rpc)' = Running(rpc)
  BY <1>1 DEF Running
<1>3. CASE Wait \/ DrainGRPC \/ DrainHTTP
  BY <1>1, <1>2, <1>3
     DEF Wait, DrainGRPC, DrainHTTP, At, Proceed, deps, servers,
         IndInv, TypeOK, PoolFollowsMain, DepsFollowMain, CallsFollowMain, SignalFollowsMain,
         StartUp, ShutDown
<1>4. CASE StopGRPC \/ StopHTTP
  BY <1>1, <1>2, <1>4
     DEF StopGRPC, StopHTTP, At, Proceed, deps, servers,
         IndInv, TypeOK, PoolFollowsMain, DepsFollowMain, CallsFollowMain, SignalFollowsMain,
         StartUp, ShutDown, Servers
<1>5. CASE ClosePool \/ CloseProm \/ CloseTracer
  BY <1>1, <1>2, <1>5
     DEF ClosePool, CloseProm, CloseTracer, At, Proceed, deps, servers,
         IndInv, TypeOK, PoolFollowsMain, DepsFollowMain, CallsFollowMain, SignalFollowsMain,
         StartUp, ShutDown
<1> QED
  BY <1>3, <1>4, <1>5 DEF ShutDownStep

\* The goroutines of the servers.
LEMMA ServingKeeps ==
  ASSUME IndInv, Serving
  PROVE  IndInv'
<1>1. CASE Fail
  BY <1>1, EndStep DEF Fail
<1>2. CASE ~ Fail
  <2>1. PICK s \in Servers, from \in {"listen", "accept", "serving"},
             to \in {"accept", "serving", "done"} : Goroutine(s, from, to)
    BY <1>2 DEF Serving, GRPCListen, GRPCServe, GRPCServed, HTTPListen, HTTPServed, ServingFails,
                Servers
  <2>2. Running(rpc)' = Running(rpc)
    BY <2>1 DEF Goroutine, requests, Running
  <2> QED
    BY <2>1, <2>2
       DEF Goroutine, deps, requests, IndInv, TypeOK, PoolFollowsMain, DepsFollowMain,
           CallsFollowMain, SignalFollowsMain, Servers
<1> QED
  BY <1>1, <1>2

\* A call is accepted only while the server is open and serves.
LEMMA CallKeeps ==
  ASSUME IndInv, NEW r \in Calls, Accept(r) \/ Answer(r)
  PROVE  IndInv'
<1>1. UNCHANGED <<main, exit, prom, pool, tracer, server, serve, signalled, expired, page, restarts>>
  BY DEF Accept, Answer, deps, servers
<1>2. Running(rpc)' # {} => main \in {"Notify", "Wait", "StopGRPC", "DrainGRPC"}
  <2>1. CASE Accept(r)
    BY <2>1 DEF Accept, IndInv, CallsFollowMain, StartUp
  <2>2. CASE Answer(r)
    <3>1. Running(rpc)' \subseteq Running(rpc)
      BY <2>2 DEF Answer, Running, IndInv, TypeOK
    <3> QED
      BY <3>1 DEF IndInv, CallsFollowMain
  <2> QED
    BY <2>1, <2>2
<1>3. TypeOK'
  BY <1>1 DEF Accept, Answer, IndInv, TypeOK
<1> QED
  BY <1>1, <1>2, <1>3
     DEF IndInv, PoolFollowsMain, DepsFollowMain, CallsFollowMain, SignalFollowsMain

\* The requests to the HTTP server, the timer, signals and restarts.
LEMMA WorldKeeps ==
  ASSUME IndInv, World
  PROVE  IndInv'
<1>1. CASE End("killed")
  BY <1>1, EndStep
<1>2. CASE ~ End("killed")
  <2>1. /\ UNCHANGED <<main, prom, pool, tracer, server, serve, rpc>>
        /\ signalled => signalled' /\ exit' = exit
        /\ signalled' => signalled \/ (exit = "running" /\ exit' = exit /\ main \notin StartUp)
        /\ expired => expired'
    BY <1>2 DEF World, AcceptPage, AnswerPage, Timeout, Signal, Kill, Restart, deps, servers,
                requests, IndInv, SignalFollowsMain
  <2>2. TypeOK'
    <3>1. CASE \E p \in Pages : AcceptPage(p) \/ AnswerPage(p)
      BY <3>1 DEF AcceptPage, AnswerPage, deps, servers, IndInv, TypeOK
    <3>2. CASE Timeout \/ Signal
      BY <1>2, <3>2 DEF Timeout, Signal, deps, servers, requests, IndInv, TypeOK
    <3>3. CASE Restart
      BY <3>3 DEF Restart, deps, servers, requests, IndInv, TypeOK
    <3> QED
      BY <1>2, <3>1, <3>2, <3>3 DEF World, Kill
  <2>3. Running(rpc)' = Running(rpc)
    BY <2>1 DEF Running
  <2> QED
    BY <2>1, <2>2, <2>3
       DEF IndInv, PoolFollowsMain, DepsFollowMain, CallsFollowMain, SignalFollowsMain
<1> QED
  BY <1>1, <1>2

----------------------------------------------------------------------------
\* The theorems.

\* Every state satisfies the invariant.
THEOREM Invariance == Spec => []IndInv
<1>1. IndInv /\ [Next]_vars => IndInv'
  <2> SUFFICES ASSUME IndInv, [Next]_vars PROVE IndInv'
    OBVIOUS
  <2>1. CASE StartUpStep
    BY <2>1, StartUpKeeps
  <2>2. CASE ShutDownStep
    BY <2>2, ShutDownKeeps
  <2>3. CASE Exit
    BY <2>3, EndStep DEF Exit
  <2>4. CASE Serving
    BY <2>4, ServingKeeps
  <2>5. CASE World
    BY <2>5, WorldKeeps
  <2>6. CASE \E r \in Calls : Accept(r) \/ Answer(r)
    BY <2>6, CallKeeps
  <2>7. CASE UNCHANGED vars
    BY <2>7 DEF vars, deps, servers, requests, IndInv, TypeOK, PoolFollowsMain, DepsFollowMain,
                CallsFollowMain, SignalFollowsMain, Running
  <2> QED
    BY <2>1, <2>2, <2>3, <2>4, <2>5, <2>6, <2>7 DEF Next, Main, StartUpStep, ShutDownStep
<1> QED
  BY <1>1, Initially, PTL DEF Spec

\* No gRPC call meets a pool that is closed or not yet made (main.go:35-46).
THEOREM PoolIsThere == Spec => []PoolOutlivesCalls
<1>1. IndInv => PoolOutlivesCalls
  BY DEF IndInv, TypeOK, PoolFollowsMain, CallsFollowMain, PoolOutlivesCalls
<1> QED
  BY <1>1, Invariance, PTL

\* os.Exit(0) comes after a signal, the last answer and the closing of everything
\* (main.go:28-56).
THEOREM ExitsClean == Spec => CleanExit
<1> DEFINE Clean == exit # "done" /\ exit' = "done" =>
                      /\ signalled
                      /\ Running(rpc) = {}
                      /\ prom = "closed" /\ pool = "closed"
                      /\ tracer # "open"
<1>1. IndInv /\ [Next]_vars => [Clean]_vars
  <2> SUFFICES ASSUME IndInv, Next, exit # "done", exit' = "done" PROVE Clean
    BY DEF vars
  <2>1. Exit
    BY DEF Next, Main, LoadConfig, NewPrometheus, NewPostgres, InitOtelTracer, GRPCServer,
           NewHTTPServer, StartServers, Notify, Wait, StopGRPC, DrainGRPC, StopHTTP, DrainHTTP,
           ClosePool, CloseProm, CloseTracer, Fail, End, Proceed,
           Serving, GRPCListen, GRPCServe, GRPCServed, HTTPListen, HTTPServed, ServingFails,
           Goroutine,
           World, AcceptPage, AnswerPage, Timeout, Signal, Kill, Restart, Accept, Answer
  <2>2. main = "Exit"
    BY <2>1 DEF Exit, At
  <2> QED
    BY <2>2 DEF IndInv, PoolFollowsMain, DepsFollowMain, CallsFollowMain, SignalFollowsMain, ShutDown
<1> QED
  BY <1>1, Invariance, PTL DEF Spec, CleanExit

\* After a signal os.Exit(1) comes only from a server that failed before it was told to
\* stop or that had not begun to serve (grpc_server.go:53-70, http_server.go:50-64).
THEOREM StopsQuietly == Spec => ServersStopQuietly
<1> DEFINE Quiet == signalled /\ exit' = "failed" => \E s \in Servers : MayFail(s)
<1>1. IndInv /\ [Next]_vars => [Quiet]_vars
  <2> SUFFICES ASSUME IndInv, Next, signalled, exit' = "failed"
               PROVE  \E s \in Servers : MayFail(s)
    BY DEF vars
  <2>1. exit = "running" /\ main \notin StartUp
    BY DEF IndInv, SignalFollowsMain
  <2>2. Serving
    BY <2>1
       DEF Next, Main, LoadConfig, NewPrometheus, NewPostgres, InitOtelTracer, GRPCServer,
           NewHTTPServer, StartServers, Notify, Wait, StopGRPC, DrainGRPC, StopHTTP, DrainHTTP,
           ClosePool, CloseProm, CloseTracer, Exit, Fail, End, Proceed, At, StartUp,
           World, AcceptPage, AnswerPage, Timeout, Signal, Kill, Restart, Accept, Answer
  <2> QED
    BY <2>1, <2>2 DEF Serving, GRPCListen, GRPCServe, GRPCServed, HTTPListen, HTTPServed,
                      ServingFails, Goroutine, Fail, End, MayFail, Servers
<1> QED
  BY <1>1, Invariance, PTL DEF Spec, ServersStopQuietly

============================================================================
