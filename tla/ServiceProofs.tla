---------------------------- MODULE ServiceProofs ----------------------------
(***************************************************************************)
(* The service as it is composed implements both of its parts, so that     *)
(* what AccountProofs and LifecycleProofs show of them holds of it: of the *)
(* calls, however the process starts and ends, and of the process,         *)
(* whatever the calls do.                                                  *)
(***************************************************************************)
EXTENDS Service, AccountProofs

Shown == INSTANCE LifecycleProofs

----------------------------------------------------------------------------

\* The composed service, with its starts, shutdowns and kills, implements
\* AccountCreation: the end of the process is at most LoseCalls.
THEOREM ServiceRefinement == ServiceSpec => Spec
<1>1. ServiceInit => Init
  BY DEF ServiceInit
<1>2. [ServiceNext]_<<vars, process>> => [Next]_vars
  BY DEF ServiceNext, Call, Handle, ProcessStep, Over, Next
<1> QED
  BY <1>1, <1>2, PTL DEF ServiceSpec, Spec

\* Hence what AccountCreation guarantees holds however the process starts and ends.
THEOREM ServiceKeepsAccounts ==
  ServiceSpec => [](TypeOK /\ OneAccountPerExternalID /\ ReplyTellsAccount)
BY ServiceRefinement, TypeCorrect, Uniqueness, RepliesAreTruthful, PTL

\* So does the registry: a start, a shutdown or a kill of the process takes back no
\* account and no answer.
THEOREM ServiceKeepsRegistry == ServiceSpec => ImplementsRegistry
BY ServiceRefinement, RegistryRefinement, PTL

----------------------------------------------------------------------------

\* The calls that the process sees stay as they are when pc does.
LEMMA CallsStay ==
  ASSUME UNCHANGED pc
  PROVE  UNCHANGED rpc
BY DEF rpc

\* A step within a call is none that the server sees.
LEMMA BuildIsHidden ==
  ASSUME IndInv, NEW r \in Calls, BuildAccount(r)
  PROVE  UNCHANGED rpc
<1>1. pc[r] = "find" /\ pc' = [pc EXCEPT ![r] = "save"]
  BY DEF BuildAccount
<1>2. \A q \in Calls : pc'[q] = IF q = r THEN "save" ELSE pc[q]
  BY <1>1 DEF IndInv, ControlType
<1>3. Seen("find") = "running" /\ Seen("save") = "running"
  BY DEF Seen
<1>4. \A q \in Calls : Seen(pc'[q]) = Seen(pc[q])
  BY <1>1, <1>2, <1>3
<1> QED
  BY <1>4 DEF rpc

\* Every behaviour of the service is one of Lifecycle.
THEOREM ProcessRefinement == ServiceSpec => Shown!Spec
<1>1. ServiceInit => Shown!Init
  <2> SUFFICES ASSUME ServiceInit PROVE Shown!Init
    OBVIOUS
  <2>1. rpc = [r \in Calls |-> "idle"]
    BY DEF ServiceInit, Init, rpc, Seen
  <2> QED
    BY <2>1 DEF ServiceInit, Process!Init, Shown!Init, Process!Nothing, Shown!Nothing,
                Process!Servers, Shown!Servers
<1>2. IndInv /\ [ServiceNext]_<<vars, process>> => [Shown!Next]_Shown!vars
  <2> SUFFICES ASSUME IndInv, [ServiceNext]_<<vars, process>> PROVE [Shown!Next]_Shown!vars
    OBVIOUS
  <2>1. CASE UNCHANGED <<pc, process>>
    BY <2>1, CallsStay DEF process, Shown!vars, Shown!deps, Shown!servers, Shown!requests
  <2>2. CASE \E r \in Calls : BuildAccount(r) /\ UNCHANGED process
    BY <2>2, BuildIsHidden DEF process, Shown!vars, Shown!deps, Shown!servers, Shown!requests
  <2>3. CASE \E r \in Calls : Process!Accept(r) \/ Process!Answer(r)
    BY <2>3 DEF Process!Accept, Process!Answer, Shown!Accept, Shown!Answer, Shown!Next,
      Process!deps, Shown!deps, Process!servers, Shown!servers
  <2>4. CASE Process!Main \/ Process!Serving \/ Process!World
    <3>1. Process!Main => Shown!Main
      BY DEF Process!Main, Shown!Main, Process!LoadConfig, Shown!LoadConfig,
             Process!NewPrometheus, Shown!NewPrometheus, Process!NewPostgres,
             Shown!NewPostgres, Process!InitOtelTracer, Shown!InitOtelTracer,
             Process!GRPCServer, Shown!GRPCServer, Process!NewHTTPServer,
             Shown!NewHTTPServer, Process!StartServers, Shown!StartServers, Process!Notify,
             Shown!Notify, Process!Wait, Shown!Wait, Process!StopGRPC, Shown!StopGRPC,
             Process!DrainGRPC, Shown!DrainGRPC, Process!StopHTTP, Shown!StopHTTP,
             Process!DrainHTTP, Shown!DrainHTTP, Process!ClosePool, Shown!ClosePool,
             Process!CloseProm, Shown!CloseProm, Process!CloseTracer, Shown!CloseTracer,
             Process!Exit, Shown!Exit, Process!NewGRPCServer, Shown!NewGRPCServer,
             Process!At, Shown!At, Process!Proceed, Shown!Proceed, Process!Fail, Shown!Fail,
             Process!End, Shown!End, Process!Nothing, Shown!Nothing, Process!Running,
             Shown!Running, Process!Servers, Shown!Servers, Process!deps, Shown!deps,
             Process!servers, Shown!servers, Process!requests, Shown!requests
    <3>2. Process!Serving => Shown!Serving
      BY DEF Process!Serving, Shown!Serving, Process!GRPCListen, Shown!GRPCListen,
             Process!GRPCServe, Shown!GRPCServe, Process!GRPCServed, Shown!GRPCServed,
             Process!HTTPListen, Shown!HTTPListen, Process!HTTPServed, Shown!HTTPServed,
             Process!ServingFails, Shown!ServingFails,
             Process!Goroutine, Shown!Goroutine, Process!Fail, Shown!Fail, Process!End,
             Shown!End, Process!Nothing, Shown!Nothing, Process!Servers, Shown!Servers,
             Process!deps, Shown!deps, Process!servers, Shown!servers, Process!requests,
             Shown!requests
    <3>3. Process!World => Shown!World
      BY DEF Process!World, Shown!World, Process!AcceptPage, Shown!AcceptPage,
             Process!AnswerPage, Shown!AnswerPage, Process!Timeout, Shown!Timeout,
             Process!Signal, Shown!Signal, Process!Kill, Shown!Kill, Process!Restart,
             Shown!Restart, Process!End, Shown!End, Process!Nothing, Shown!Nothing,
             Process!Servers, Shown!Servers, Process!StartUp, Shown!StartUp, Process!deps,
             Shown!deps, Process!servers, Shown!servers, Process!requests, Shown!requests
    <3> QED
      BY <2>4, <3>1, <3>2, <3>3 DEF Shown!Next
  <2>5. CASE Database /\ UNCHANGED process
    BY <2>1, <2>5 DEF Database, ServerInserts, ServerDrops, BalanceMoves, call
  <2> QED
    BY <2>1, <2>2, <2>3, <2>4, <2>5
       DEF ServiceNext, Call, Handle, ProcessStep, Over, vars, call
<1> QED
  BY <1>1, <1>2, ServiceRefinement, Invariance, PTL DEF ServiceSpec, Shown!Spec

\* No call meets a pool that is closed or not yet made (main.go:35-46).
THEOREM PoolIsThere == ServiceSpec => []PoolOutlivesCalls
<1>1. Shown!PoolOutlivesCalls => PoolOutlivesCalls
  BY DEF PoolOutlivesCalls, Shown!PoolOutlivesCalls, Process!PoolOutlivesCalls,
         Shown!Running, Process!Running
<1> QED
  BY <1>1, ProcessRefinement, Shown!PoolIsThere, PTL

\* os.Exit(0) comes when everything is answered and closed (main.go:28-56).
THEOREM ExitsClean == ServiceSpec => CleanExit
<1>1. Shown!CleanExit => CleanExit
  BY DEF CleanExit, Shown!CleanExit, Process!CleanExit, Shown!Running, Process!Running,
         Shown!vars, Process!vars, Shown!deps, Process!deps, Shown!servers, Process!servers,
         Shown!requests, Process!requests
<1> QED
  BY <1>1, ProcessRefinement, Shown!ExitsClean, PTL

\* After a signal os.Exit(1) comes only from a server that failed before it was told to
\* stop or that had not begun to serve (grpc_server.go:53-70, http_server.go:50-64).
THEOREM StopsQuietly == ServiceSpec => ServersStopQuietly
<1>1. Shown!ServersStopQuietly => ServersStopQuietly
  BY DEF ServersStopQuietly, Shown!ServersStopQuietly, Process!ServersStopQuietly,
         Shown!MayFail, Process!MayFail, Shown!Servers, Process!Servers,
         Shown!vars, Process!vars, Shown!deps, Process!deps, Shown!servers, Process!servers,
         Shown!requests, Process!requests
<1> QED
  BY <1>1, ProcessRefinement, Shown!StopsQuietly, PTL

============================================================================
