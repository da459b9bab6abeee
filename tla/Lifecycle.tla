------------------------------ MODULE Lifecycle ------------------------------
(***************************************************************************)
(* The process: main builds what the service needs, starts the two servers *)
(* in goroutines of their own, waits for a signal and shuts down, while    *)
(* gRPC calls and HTTP requests come and go.  Every step that can call     *)
(* os.Exit has that branch, and the process may be killed at any point.    *)
(* What a call does is left to module Service.                             *)
(***************************************************************************)
EXTENDS Naturals

CONSTANTS
  Calls,       \* gRPC calls; a retry is a call of its own
  Pages,       \* requests to the HTTP server (/health and /metrics)
  MaxRestarts  \* how often the process is started again

VARIABLES
  main,               \* the statement that main stands before
  exit,               \* "running", or how the process ended
  prom, pool, tracer, \* the dependencies: "none", "open", "closed"; the tracer
                      \* is "lost" when its last spans could not be sent
  server,             \* the gRPC and the HTTP server object
  serve,              \* where the goroutine of its Start stands
  signalled,          \* a signal was put into the channel quit
  expired,            \* the 10 seconds that main gives to the shutdown are over
  rpc, page,          \* every gRPC call and HTTP request
  restarts

deps == <<prom, pool, tracer>>
servers == <<server, serve>>
requests == <<rpc, page>>
vars == <<main, exit, deps, servers, signalled, expired, requests, restarts>>

Servers == {"grpc", "http"}

StartUp == {"LoadConfig", "NewPrometheus", "NewPostgres", "InitOtelTracer",
            "GRPCServer", "NewHTTPServer", "StartServers", "Notify"}
ShutDown == {"StopGRPC", "DrainGRPC", "StopHTTP", "DrainHTTP", "ClosePool",
             "CloseProm", "CloseTracer", "Exit"}

Running(requestsOf) == {r \in DOMAIN requestsOf : requestsOf[r] = "running"}

Nothing == [s \in Servers |-> "none"]

Init ==
  /\ main = "LoadConfig" /\ exit = "running"
  /\ prom = "none" /\ pool = "none" /\ tracer = "none"
  /\ server = Nothing /\ serve = Nothing
  /\ signalled = FALSE /\ expired = FALSE
  /\ rpc = [r \in Calls |-> "idle"]
  /\ page = [p \in Pages |-> "idle"]
  /\ restarts = 0

\* The process ends, and with it its memory and whatever it was doing.
End(how) ==
  /\ exit' = how
  /\ main' = "LoadConfig"
  /\ prom' = "none" /\ pool' = "none" /\ tracer' = "none"
  /\ server' = Nothing /\ serve' = Nothing
  /\ signalled' = FALSE /\ expired' = FALSE
  /\ rpc' = [r \in Calls |-> IF rpc[r] = "running" THEN "lost" ELSE rpc[r]]
  /\ page' = [p \in Pages |-> IF page[p] = "running" THEN "lost" ELSE page[p]]
  /\ UNCHANGED restarts

\* os.Exit(1)
Fail == End("failed")

At(step) == exit = "running" /\ main = step

Proceed(next) ==
  /\ main' = next
  /\ UNCHANGED <<exit, signalled, expired, requests, restarts>>

----------------------------------------------------------------------------
\* Start-up: every step returns an error, after which BuildBaseDeps ends the
\* process, or what it made.

LoadConfig ==
  /\ At("LoadConfig")
  /\ \/ Fail
     \/ Proceed("NewPrometheus") /\ UNCHANGED <<deps, servers>>

NewPrometheus ==
  /\ At("NewPrometheus")
  /\ \/ Fail
     \/ prom' = "open" /\ Proceed("NewPostgres") /\ UNCHANGED <<pool, tracer, servers>>

\* The pool is made and pinged; the database may not answer.
NewPostgres ==
  /\ At("NewPostgres")
  /\ \/ Fail
     \/ pool' = "open" /\ Proceed("InitOtelTracer") /\ UNCHANGED <<prom, tracer, servers>>

InitOtelTracer ==
  /\ At("InitOtelTracer")
  /\ \/ Fail
     \/ tracer' = "open" /\ Proceed("GRPCServer") /\ UNCHANGED <<prom, pool, servers>>

NewGRPCServer == server' = [server EXCEPT !["grpc"] = "open"]

\* composer.GRPCServer: repository, use case, handler and the server around them.
GRPCServer ==
  /\ At("GRPCServer")
  /\ NewGRPCServer
  /\ Proceed("NewHTTPServer")
  /\ UNCHANGED <<deps, serve>>

NewHTTPServer ==
  /\ At("NewHTTPServer")
  /\ server' = [server EXCEPT !["http"] = "open"]
  /\ Proceed("StartServers")
  /\ UNCHANGED <<deps, serve>>

\* go httpSrv.Start(), go grpcSrv.Start()
StartServers ==
  /\ At("StartServers")
  /\ serve' = [s \in Servers |-> "listen"]
  /\ Proceed("Notify")
  /\ UNCHANGED <<deps, server>>

\* From here on a signal goes into the channel.
Notify ==
  /\ At("Notify")
  /\ Proceed("Wait")
  /\ UNCHANGED <<deps, servers>>

----------------------------------------------------------------------------
\* The goroutines of GRPCServer.Start and HTTPServer.Start.

Goroutine(s, from, to) ==
  /\ exit = "running" /\ serve[s] = from
  /\ serve' = [serve EXCEPT ![s] = to]
  /\ UNCHANGED <<main, exit, deps, server, signalled, expired, requests, restarts>>

GRPCListen ==
  \/ exit = "running" /\ serve["grpc"] = "listen" /\ Fail
  \/ Goroutine("grpc", "listen", "accept")

\* Serve after GracefulStop returns ErrServerStopped, which Start takes for a
\* failure and ends the process in the middle of its shutdown.
GRPCServe ==
  /\ \/ server["grpc"] = "open" /\ Goroutine("grpc", "accept", "serving")
     \/ /\ exit = "running" /\ serve["grpc"] = "accept" /\ server["grpc"] # "open"
        /\ Fail

\* The listener of a server that serves fails, which ends the process at any time.
ServingFails(s) ==
  /\ exit = "running" /\ serve[s] = "serving" /\ server[s] = "open"
  /\ Fail

\* Serve returns nil once GracefulStop was called.
GRPCServed ==
  \/ ServingFails("grpc")
  \/ server["grpc"] # "open" /\ Goroutine("grpc", "serving", "done")

\* ListenAndServe after Shutdown returns ErrServerClosed, which is no failure.
HTTPListen ==
  \/ exit = "running" /\ serve["http"] = "listen" /\ server["http"] = "open" /\ Fail
  \/ server["http"] = "open" /\ Goroutine("http", "listen", "serving")
  \/ server["http"] # "open" /\ Goroutine("http", "listen", "done")

\* Faulty variant: Start does not tell ErrServerClosed from a failure.
HTTPServedIsAFailure == exit = "running" /\ serve["http"] = "serving" /\ Fail

\* ... and any other error is one.
HTTPServed ==
  \/ ServingFails("http")
  \/ server["http"] # "open" /\ Goroutine("http", "serving", "done")

----------------------------------------------------------------------------
\* gracefulShutdown.

\* <-quit.  The channel may fill again; nobody reads it a second time.
Wait ==
  /\ At("Wait") /\ signalled
  /\ Proceed("StopGRPC")
  /\ UNCHANGED <<deps, servers>>

\* GracefulStop: no more calls, and wait for those that are running ...
StopGRPC ==
  /\ At("StopGRPC")
  /\ server' = [server EXCEPT !["grpc"] = "stopped"]
  /\ Proceed("DrainGRPC")
  /\ UNCHANGED <<deps, serve>>

\* Faulty variant: Stop instead of GracefulStop.
DoNotDrainGRPC ==
  /\ At("DrainGRPC")
  /\ Proceed("StopHTTP")
  /\ UNCHANGED <<deps, servers>>

\* ... however long they take.
DrainGRPC ==
  /\ At("DrainGRPC")
  /\ Running(rpc) = {}
  /\ Proceed("StopHTTP")
  /\ UNCHANGED <<deps, servers>>

StopHTTP ==
  /\ At("StopHTTP")
  /\ server' = [server EXCEPT !["http"] = "stopped"]
  /\ Proceed("DrainHTTP")
  /\ UNCHANGED <<deps, serve>>

\* Faulty variant: Shutdown without a timeout.
DrainHTTPForEver ==
  /\ At("DrainHTTP")
  /\ Running(page) = {}
  /\ Proceed("ClosePool")
  /\ UNCHANGED <<deps, servers>>

\* Shutdown returns when no request is running or with the context's error,
\* which is logged.
DrainHTTP ==
  /\ At("DrainHTTP")
  /\ Running(page) = {} \/ expired
  /\ Proceed("ClosePool")
  /\ UNCHANGED <<deps, servers>>

\* The context of the shutdown expires.
Timeout ==
  /\ exit = "running" /\ main \in {"DrainHTTP", "ClosePool", "CloseProm", "CloseTracer"}
  /\ ~ expired
  /\ expired' = TRUE
  /\ UNCHANGED <<main, exit, deps, servers, signalled, requests, restarts>>

ClosePool ==
  /\ At("ClosePool")
  /\ pool' = "closed"
  /\ Proceed("CloseProm")
  /\ UNCHANGED <<prom, tracer, servers>>

CloseProm ==
  /\ At("CloseProm")
  /\ prom' = "closed"
  /\ Proceed("CloseTracer")
  /\ UNCHANGED <<pool, tracer, servers>>

\* TracerShutdown returns an error when the spans it still has cannot be exported,
\* or not in what is left of the same context; main does not look at it.
CloseTracer ==
  /\ At("CloseTracer")
  /\ tracer' \in {"closed", "lost"}
  /\ Proceed("Exit")
  /\ UNCHANGED <<prom, pool, servers>>

\* os.Exit(0)
Exit == At("Exit") /\ End("done")

----------------------------------------------------------------------------
\* Calls, and the world around the process.

Accept(r) ==
  /\ exit = "running" /\ rpc[r] = "idle"
  /\ server["grpc"] = "open" /\ serve["grpc"] = "serving"
  /\ rpc' = [rpc EXCEPT ![r] = "running"]
  /\ UNCHANGED <<main, exit, deps, servers, signalled, expired, page, restarts>>

Answer(r) ==
  /\ exit = "running" /\ rpc[r] = "running"
  /\ rpc' = [rpc EXCEPT ![r] = "answered"]
  /\ UNCHANGED <<main, exit, deps, servers, signalled, expired, page, restarts>>

AcceptPage(p) ==
  /\ exit = "running" /\ page[p] = "idle"
  /\ server["http"] = "open" /\ serve["http"] = "serving"
  /\ page' = [page EXCEPT ![p] = "running"]
  /\ UNCHANGED <<main, exit, deps, servers, signalled, expired, rpc, restarts>>

\* The response is written as fast as the client reads it.
AnswerPage(p) ==
  /\ exit = "running" /\ page[p] = "running"
  /\ page' = [page EXCEPT ![p] = "answered"]
  /\ UNCHANGED <<main, exit, deps, servers, signalled, expired, rpc, restarts>>

\* SIGINT, SIGTERM or SIGQUIT, whose default is to end the process.
Signal ==
  /\ exit = "running"
  /\ IF main \in StartUp THEN End("killed")
     ELSE /\ signalled' = TRUE
          /\ UNCHANGED <<main, exit, deps, servers, expired, requests, restarts>>

Kill == exit = "running" /\ End("killed")

Restart ==
  /\ exit # "running" /\ restarts < MaxRestarts
  /\ exit' = "running"
  /\ restarts' = restarts + 1
  /\ UNCHANGED <<main, deps, servers, signalled, expired, requests>>

----------------------------------------------------------------------------

Main ==
  \/ LoadConfig \/ NewPrometheus \/ NewPostgres \/ InitOtelTracer
  \/ GRPCServer \/ NewHTTPServer \/ StartServers \/ Notify \/ Wait
  \/ StopGRPC \/ DrainGRPC \/ StopHTTP \/ DrainHTTP
  \/ ClosePool \/ CloseProm \/ CloseTracer \/ Exit

Serving == GRPCListen \/ GRPCServe \/ GRPCServed \/ HTTPListen \/ HTTPServed

World ==
  \/ \E p \in Pages : AcceptPage(p) \/ AnswerPage(p)
  \/ Timeout \/ Signal \/ Kill \/ Restart

Next ==
  \/ Main \/ Serving \/ World
  \/ \E r \in Calls : Accept(r) \/ Answer(r)

Spec == Init /\ [][Next]_vars

----------------------------------------------------------------------------

TypeOK ==
  /\ main \in StartUp \cup {"Wait"} \cup ShutDown
  /\ exit \in {"running", "done", "failed", "killed"}
  /\ prom \in {"none", "open", "closed"}
  /\ pool \in {"none", "open", "closed"}
  /\ tracer \in {"none", "open", "closed", "lost"}
  /\ server \in [Servers -> {"none", "open", "stopped"}]
  /\ serve \in [Servers -> {"none", "listen", "accept", "serving", "done"}]
  /\ signalled \in BOOLEAN /\ expired \in BOOLEAN
  /\ rpc \in [Calls -> {"idle", "running", "answered", "lost"}]
  /\ page \in [Pages -> {"idle", "running", "answered", "lost"}]
  /\ restarts \in Nat

\* main.go:35-46: a handler of a gRPC call never finds the pool closed, or not
\* yet made: GracefulStop has waited for the last of them.
PoolOutlivesCalls == exit = "running" => (Running(rpc) # {} => pool = "open")

\* main.go:28-56: a process that ends with os.Exit(0) was asked to, leaves no call
\* that it accepted without an answer, and has closed what it opened.  Of the spans it
\* says nothing: the code is 0 whether the tracer could send them or not.
CleanExit ==
  [][exit # "done" /\ exit' = "done" =>
       /\ signalled
       /\ Running(rpc) = {}
       /\ prom = "closed" /\ pool = "closed"
       /\ tracer # "open"]_vars

\* A server that nobody has told to stop, or that had not begun to serve.
MayFail(s) ==
  \/ serve[s] = "serving" /\ server[s] = "open"
  \/ serve[s] \in {"listen", "accept"}

\* grpc_server.go:53-70, http_server.go:50-64: to stop a server that serves is no
\* failure.  When os.Exit(1) cuts a shutdown short, a server failed before it was told
\* to stop, or had not begun to serve: one that is told to stop so early does fail, if
\* it is the gRPC server.
ServersStopQuietly == [][signalled /\ exit' = "failed" => \E s \in Servers : MayFail(s)]_vars

\* main.go:45: the infrastructure is closed after the servers have stopped.
InfraClosesLast ==
  exit = "running" /\ pool = "closed" => Running(rpc) = {} /\ Running(page) = {}

============================================================================
