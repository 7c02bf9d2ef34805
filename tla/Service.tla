------------------------------ MODULE Service ------------------------------
(***************************************************************************)
(* One life of the process: main (main.rs), which runs start_service       *)
(* (service.rs), waits for a signal, stops the server and waits for the    *)
(* job; and the syncing job, as SyncJob describes it.                      *)
(*                                                                         *)
(* main and the job share the two flags and the channel whose senders say  *)
(* who is still at work.  A step of main is what it does between two       *)
(* awaits; every step that the code follows by `?` may fail.               *)
(***************************************************************************)
EXTENDS SyncJob, Naturals

CONSTANTS
  Frequency,  (* the values that the configuration may have for frequency   *)
  MaxFaults   (* bound: rounds that fail although the node could serve them *)

ASSUME ServiceAssumption ==
  /\ Frequency \subseteq Nat
  /\ MaxFaults \in Nat

FULL_NODE_BLOCK_GEN_INTERVAL_SEC == 12

\* What is merged into the server's module.
MethodGroup == {"indexer", "relay", "rpc_methods"}

VARIABLES
  main,       (* where main is                                              *)
  frequency,  (* of the configuration                                       *)
  senders,    (* who holds a sender of the graceful shutdown channel        *)
  module,     (* the groups of methods in the server's module               *)
  RPC_METHODS,(* OnceStatic: << >> until it is set, then <<what it holds>>  *)
  serving,    (* whether the server accepts connections                     *)
  nodeUp,     (* whether the full node can be reached                       *)
  hasMethod,  (* whether it has the method that the job will call           *)
  faults      (* rounds that have failed without a reason in the node       *)

node == <<nodeUp, hasMethod>>
methods == <<module, RPC_METHODS>>
vars == <<job, initFinished, shutdown, main, frequency, senders, module,
          RPC_METHODS, serving, nodeUp, hasMethod, faults>>

\* The process is over, one way or the other.
Over == main \in {"exited", "failed"}

Init ==
  /\ JobInit
  /\ main = "config"
  /\ frequency \in Frequency
  /\ senders = {"main"}
  /\ module = {}
  /\ RPC_METHODS = << >>
  /\ serving = FALSE
  /\ nodeUp = TRUE
  /\ hasMethod \in BOOLEAN
  /\ faults = 0

-----------------------------------------------------------------------------
(***************************************************************************)
(* start_service.                                                          *)
(***************************************************************************)
\* The configuration and the database are opened, the methods of the indexer
\* are merged, the frequency is checked.
Configure ==
  /\ main = "config"
  /\ frequency < FULL_NODE_BLOCK_GEN_INTERVAL_SEC
  /\ main' = "relay_client"
  /\ module' = module \cup {"indexer"}
  /\ UNCHANGED <<jobVars, frequency, senders, RPC_METHODS, serving, node, faults>>

\* OnceStatic::init, of which a second call is a panic.
OnceInit(value) ==
  /\ RPC_METHODS = << >>
  /\ RPC_METHODS' = <<value>>

\* Mutant: the names are collected before the relayed methods are merged.
ConnectRelayListFirst ==
  /\ main = "relay_client"
  /\ nodeUp
  /\ main' = "sync_client"
  /\ OnceInit(module)
  /\ module' = module \cup {"relay", "rpc_methods"}
  /\ UNCHANGED <<jobVars, frequency, senders, serving, node, faults>>

\* MantaRpcRelayServer::new, which is the only await here.  Its methods are merged; the names of all methods
\* so far become RPC_METHODS, which the method "rpc_methods" will return.
ConnectRelay ==
  /\ main = "relay_client"
  /\ nodeUp
  /\ main' = "sync_client"
  /\ OnceInit(module \cup {"relay"})
  /\ module' = module \cup {"relay", "rpc_methods"}
  /\ UNCHANGED <<jobVars, frequency, senders, serving, node, faults>>

ConnectSync ==
  /\ main = "sync_client"
  /\ nodeUp
  /\ main' = "check_method"
  /\ UNCHANGED <<jobVars, frequency, senders, methods, serving, node, faults>>

\* Mutant: the job is not given a sender.
SpawnJobUnregistered ==
  /\ main = "check_method"
  /\ nodeUp
  /\ JobStart
  /\ main' = "wait"
  /\ UNCHANGED <<initFinished, shutdown, frequency, senders, methods, serving, node, faults>>

\* is_the_rpc_methods_existed answers; only an error stops the start, the
\* answer itself is dropped.  Then the job is spawned with its own sender.
SpawnJob ==
  /\ main = "check_method"
  /\ nodeUp
  /\ JobStart
  /\ main' = "wait"
  /\ senders' = senders \cup {"job"}
  /\ UNCHANGED <<initFinished, shutdown, frequency, methods, serving, node, faults>>

\* Mutant: the service starts at once.
StopWaitingAtOnce ==
  /\ main = "wait"
  /\ main' = "monitor"
  /\ UNCHANGED <<jobVars, frequency, senders, methods, serving, node, faults>>

\* Mutant: only the first round is waited for.
StopWaitingSynced ==
  /\ main = "wait"
  /\ initFinished
  /\ main' = "monitor"
  /\ UNCHANGED <<jobVars, frequency, senders, methods, serving, node, faults>>

\* Mutant: `||` for `&&`.
StopWaitingBoth ==
  /\ main = "wait"
  /\ initFinished
  /\ shutdown
  /\ main' = "monitor"
  /\ UNCHANGED <<jobVars, frequency, senders, methods, serving, node, faults>>

\* The loop that polls both flags every 5 seconds is left.
StopWaiting ==
  /\ main = "wait"
  /\ initFinished \/ shutdown
  /\ main' = "monitor"
  /\ UNCHANGED <<jobVars, frequency, senders, methods, serving, node, faults>>

StartMonitor ==
  /\ main = "monitor"
  /\ main' = "server"
  /\ UNCHANGED <<jobVars, frequency, senders, methods, serving, node, faults>>

\* The server is built and started; start_service returns and drops the
\* sender that main gave it.
StartServer ==
  /\ main = "server"
  /\ main' = "running"
  /\ serving' = TRUE
  /\ senders' = senders \ {"main"}
  /\ UNCHANGED <<jobVars, frequency, methods, node, faults>>

\* A `?` of start_service: main returns the error, the runtime goes down and
\* takes the job with it wherever it is.
StartFails ==
  /\ \/ main = "config"
     \/ main \in {"relay_client", "sync_client", "check_method"}
     \/ main \in {"monitor", "server"}
  /\ main' = "failed"
  /\ senders' = {}
  /\ job' = "ended"
  /\ UNCHANGED <<initFinished, shutdown, frequency, methods, serving, node, faults>>

(***************************************************************************)
(* main, once the service has started.                                     *)
(***************************************************************************)
\* The flag is found set: handler.stop() tells the server to stop.
StopServer ==
  /\ main = "running"
  /\ shutdown
  /\ main' = "stopping"
  /\ serving' = FALSE
  /\ UNCHANGED <<jobVars, frequency, senders, methods, node, faults>>

\* The `?` of handler.stop(), which finds the server gone already: main
\* returns the error at once and waits for nobody.
StopFails ==
  /\ main = "running"
  /\ shutdown
  /\ main' = "failed"
  /\ serving' = FALSE
  /\ senders' = {}
  /\ job' = "ended"
  /\ UNCHANGED <<initFinished, shutdown, frequency, methods, node, faults>>

\* The await of handler.stop() is over: the connections are closed.
ServerStopped ==
  /\ main = "stopping"
  /\ main' = "recv"
  /\ UNCHANGED <<jobVars, frequency, senders, methods, serving, node, faults>>

\* Mutant: main does not wait for the channel.
ExitAtOnce ==
  /\ main = "recv"
  /\ main' = "exited"
  /\ UNCHANGED <<jobVars, frequency, senders, methods, serving, node, faults>>

\* r.recv() returns None when the last sender is dropped.
Exit ==
  /\ main = "recv"
  /\ senders = {}
  /\ main' = "exited"
  /\ UNCHANGED <<jobVars, frequency, senders, methods, serving, node, faults>>

-----------------------------------------------------------------------------
(***************************************************************************)
(* The job.  It drops its sender when it ends.                             *)
(***************************************************************************)
DropSender == senders' = IF job' = "ended" THEN senders \ {"job"} ELSE senders

JobRoundOk ==
  /\ nodeUp
  /\ hasMethod
  /\ RoundOk
  /\ UNCHANGED <<main, frequency, senders, methods, serving, node, faults>>

JobRoundErr ==
  /\ RoundErr
  /\ \/ ~(nodeUp /\ hasMethod) /\ UNCHANGED faults
     \/ faults < MaxFaults /\ faults' = faults + 1
  /\ DropSender
  /\ UNCHANGED <<main, frequency, methods, serving, node>>

JobWakes ==
  /\ JobWake
  /\ DropSender
  /\ UNCHANGED <<main, frequency, methods, serving, node, faults>>

(***************************************************************************)
(* The world around the process.                                           *)
(***************************************************************************)
Interrupt ==
  /\ ~Over
  /\ Signal
  /\ UNCHANGED <<main, frequency, senders, methods, serving, node, faults>>

NodeDies ==
  /\ ~Over
  /\ nodeUp
  /\ nodeUp' = FALSE
  /\ UNCHANGED <<jobVars, main, frequency, senders, methods, serving, hasMethod, faults>>

-----------------------------------------------------------------------------
Main ==
  \/ Configure
  \/ ConnectRelay
  \/ ConnectSync
  \/ SpawnJob
  \/ StopWaiting
  \/ StartMonitor
  \/ StartServer
  \/ StartFails
  \/ StopServer
  \/ StopFails
  \/ ServerStopped
  \/ Exit

JobSteps ==
  \/ JobRoundOk
  \/ JobRoundErr
  \/ JobWakes

Next ==
  \/ Main
  \/ JobSteps
  \/ Interrupt
  \/ NodeDies

Spec == Init /\ [][Next]_vars

\* main and the job run on a runtime of 8 threads; a round of the job ends
\* (Sync: ShutdownStops, InitCompletes).
FairSpec == Spec /\ WF_vars(Main) /\ WF_vars(JobSteps)

-----------------------------------------------------------------------------
(***************************************************************************)
(* Properties.                                                             *)
(***************************************************************************)
\* Who is still at work: start_service, and the job.
AtWork ==
  {w \in {"main", "job"} :
     \/ w = "main" /\ main \notin {"running", "stopping", "recv", "exited", "failed"}
     \/ w = "job" /\ job # "ended"}

\* Every variable has its type; a sender is held by each of those, and only
\* those, that are still at work.
TypeOK ==
  /\ JobTypeOK
  /\ main \in {"config", "relay_client", "sync_client", "check_method", "wait",
               "monitor", "server", "running", "stopping", "recv", "exited", "failed"}
  /\ frequency \in Frequency
  /\ senders = AtWork
  /\ module \subseteq MethodGroup
  /\ RPC_METHODS = << >> \/ \E listed \in SUBSET MethodGroup : RPC_METHODS = <<listed>>
  /\ serving \in BOOLEAN
  /\ nodeUp \in BOOLEAN
  /\ hasMethod \in BOOLEAN
  /\ faults \in 0..MaxFaults

\* The server answers from tables that were read from the node to the end at
\* least once, or the process is about to stop.
ServesSynced == serving => initFinished \/ shutdown

\* A Dapp that asks a running server for rpc_methods gets every method that
\* the server has beside that one, the indexer's own and the relayed ones, and
\* never the panic of an OnceStatic that is not set.
MethodsListed == serving => RPC_METHODS = <<module \ {"rpc_methods"}>>

\* A process that ends without an error leaves no round half done and no
\* connection accepted: "receiver will return a error means all sender are
\* dropped, which means all async task exit successfully".
GracefulExit == main = "exited" => job = "ended" /\ ~serving /\ shutdown

\* A signal ends the process, whatever it is doing and whether or not the
\* node can be reached.
StopsOnSignal == shutdown ~> Over

\* With a node that has the method and stays up, the service starts to serve,
\* unless a step of it fails or a signal comes first.
ComesUp ==
  main = "wait" ~> serving \/ Over \/ shutdown \/ ~nodeUp \/ ~hasMethod

\* "ensure the full node has this rpc method".
JobHasMethod == job # "ended" => hasMethod
=============================================================================
