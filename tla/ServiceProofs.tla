--------------------------- MODULE ServiceProofs ---------------------------
(***************************************************************************)
(* The safety properties of Service, for every configuration.              *)
(***************************************************************************)
EXTENDS Service, TLAPS

(***************************************************************************)
(* How far main has come says what is true of the flags, of the server and *)
(* of the job: the wait is only left when a flag is set, the server runs   *)
(* only between StartServer and StopServer, the job has not been started   *)
(* before SpawnJob, and the methods are listed when the relayed ones have  *)
(* been merged.                                                            *)
(***************************************************************************)
Progress ==
  /\ main \in {"monitor", "server", "running"} => initFinished \/ shutdown
  /\ main \in {"stopping", "recv", "exited"} => shutdown
  /\ serving <=> main = "running"
  /\ main \in {"exited", "failed"} => job = "ended"
  /\ main \in {"config", "relay_client", "sync_client", "check_method"} =>
       job = "ended"

\* ... and which methods are merged and listed.
Listing ==
  /\ main = "config" => module = {}
  /\ main = "relay_client" => module = {"indexer"}
  /\ main \notin {"config", "relay_client", "failed"} =>
       module = MethodGroup /\ RPC_METHODS = <<module \ {"rpc_methods"}>>

IInv == TypeOK /\ Progress /\ Listing

\* The process starts in the invariant.
LEMMA InitIInv == Init => IInv
<1> SUFFICES ASSUME Init PROVE IInv
  OBVIOUS
<1>1. JobTypeOK
  BY Zenon DEF Init, JobInit, JobTypeOK
<1>2. senders = AtWork
  BY DEF Init, JobInit, AtWork
<1>3. serving \in BOOLEAN /\ nodeUp \in BOOLEAN /\ hasMethod \in BOOLEAN
  BY Zenon DEF Init
<1>4. faults \in 0..MaxFaults /\ module \subseteq MethodGroup
  BY ServiceAssumption DEF Init
<1>5. TypeOK
  BY <1>1, <1>2, <1>3, <1>4 DEF Init, TypeOK
<1>6. Progress
  BY DEF Init, JobInit, Progress
<1>7. Listing
  BY DEF Init, Listing
<1>8. QED
  BY <1>5, <1>6, <1>7 DEF IInv

\* Every step keeps the variables in their types and the senders with those
\* who are still at work.
LEMMA NextTypeOK ==
  ASSUME IInv, [Next]_vars
  PROVE  TypeOK'
<1> USE ServiceAssumption DEF IInv, TypeOK, JobTypeOK, AtWork, Progress, jobVars, node,
           methods
<1>1. CASE Configure
  <2>1. module' \subseteq MethodGroup
    BY <1>1 DEF Configure, MethodGroup
  <2>2. QED
    BY <1>1, <2>1 DEF Configure
<1>2. CASE ConnectRelay
  <2>1. module = {"indexer"}
    BY <1>2 DEF ConnectRelay, Listing
  <2>2. /\ module' \subseteq MethodGroup
        /\ module \cup {"relay"} \in SUBSET MethodGroup
    BY <1>2, <2>1 DEF ConnectRelay, MethodGroup
  <2>3. RPC_METHODS' = <<module \cup {"relay"}>>
    BY <1>2 DEF ConnectRelay, OnceInit
  <2>4. \E listed \in SUBSET MethodGroup : RPC_METHODS' = <<listed>>
    BY <2>2, <2>3, Zenon
  <2>5. QED
    BY <1>2, <2>2, <2>4 DEF ConnectRelay
<1>3. CASE ConnectSync
  BY <1>3 DEF ConnectSync
<1>4. CASE SpawnJob
  BY <1>4 DEF SpawnJob, JobStart
<1>5. CASE StopWaiting
  BY <1>5 DEF StopWaiting
<1>6. CASE StartMonitor
  BY <1>6 DEF StartMonitor
<1>7. CASE StartServer
  BY <1>7 DEF StartServer
<1>8. CASE StartFails
  BY <1>8 DEF StartFails
<1>9. CASE StopServer
  BY <1>9 DEF StopServer
<1>10. CASE StopFails
  BY <1>10 DEF StopFails
<1>11. CASE ServerStopped
  BY <1>11 DEF ServerStopped
<1>12. CASE Exit
  BY <1>12 DEF Exit
<1>13. CASE JobRoundOk
  BY <1>13 DEF JobRoundOk, RoundOk
<1>14. CASE JobRoundErr
  BY <1>14 DEF JobRoundErr, RoundErr, NextRound, DropSender
<1>15. CASE JobWakes
  BY <1>15 DEF JobWakes, JobWake, NextRound, DropSender
<1>16. CASE Interrupt
  BY <1>16 DEF Interrupt, Signal
<1>17. CASE NodeDies
  BY <1>17 DEF NodeDies
<1>18. CASE UNCHANGED vars
  BY <1>18 DEF vars
<1>19. QED
  BY <1>1, <1>2, <1>3, <1>4, <1>5, <1>6, <1>7, <1>8, <1>9, <1>10, <1>11, <1>12,
     <1>13, <1>14, <1>15, <1>16, <1>17, <1>18 DEF Next, Main, JobSteps

\* Every step keeps what main's progress says.  For Exit this is where the
\* senders are needed: no sender means that the job has ended.
LEMMA NextProgress ==
  ASSUME IInv, [Next]_vars
  PROVE  Progress'
<1> USE DEF IInv, TypeOK, JobTypeOK, AtWork, Progress, jobVars, node,
           methods
<1>1. CASE Main
  BY <1>1 DEF Main, Configure, ConnectRelay, OnceInit, ConnectSync, SpawnJob, JobStart,
       StopWaiting, StartMonitor, StartServer, StartFails, StopServer, StopFails,
       ServerStopped, Exit
<1>2. CASE JobSteps
  BY <1>2 DEF JobSteps, JobRoundOk, RoundOk, JobRoundErr, RoundErr, JobWakes,
       JobWake, NextRound
<1>3. CASE Interrupt \/ NodeDies
  BY <1>3 DEF Interrupt, Signal, NodeDies
<1>4. CASE UNCHANGED vars
  BY <1>4 DEF vars
<1>5. QED
  BY <1>1, <1>2, <1>3, <1>4 DEF Next

\* Every step keeps what is merged and listed.
LEMMA NextListing ==
  ASSUME IInv, [Next]_vars
  PROVE  Listing'
<1> USE DEF IInv, Listing, methods
<1>1. CASE Configure
  BY <1>1 DEF Configure
<1>2. CASE ConnectRelay
  <2>1. module = {"indexer"} /\ module' = module \cup {"relay", "rpc_methods"}
    BY <1>2 DEF ConnectRelay
  <2>2. module' = MethodGroup /\ module \cup {"relay"} = module' \ {"rpc_methods"}
    BY <2>1 DEF MethodGroup
  <2>3. main' = "sync_client" /\ RPC_METHODS' = <<module \cup {"relay"}>>
    BY <1>2 DEF ConnectRelay, OnceInit
  <2>4. QED
    BY <2>2, <2>3
<1>3. CASE main \notin {"config", "relay_client"} /\ Main
  BY <1>3 DEF Main, Configure, ConnectRelay, ConnectSync, SpawnJob, StopWaiting,
       StartMonitor, StartServer, StartFails, StopServer, StopFails,
       ServerStopped, Exit
<1>4. CASE StartFails
  BY <1>4 DEF StartFails
<1>5. CASE JobSteps \/ Interrupt \/ NodeDies
  BY <1>5 DEF JobSteps, JobRoundOk, JobRoundErr, JobWakes, Interrupt, NodeDies
<1>6. CASE UNCHANGED vars
  BY <1>6 DEF vars
<1>7. CASE Main /\ main \in {"config", "relay_client"}
  BY <1>1, <1>2, <1>4, <1>7 DEF Main, ConnectSync, SpawnJob, StopWaiting,
       StartMonitor, StartServer, StopServer, StopFails,
       ServerStopped, Exit
<1>8. QED
  BY <1>3, <1>5, <1>6, <1>7 DEF Next

\* The inductive invariant holds throughout.
THEOREM Invariance == Spec => []IInv
<1>1. IInv /\ [Next]_vars => IInv'
  BY NextTypeOK, NextProgress, NextListing DEF IInv
<1>2. QED
  BY InitIInv, <1>1, PTL DEF Spec

\* Types, and that a sender is held by exactly those who are still at work.
THEOREM TypeCorrect == Spec => []TypeOK
  BY Invariance, PTL DEF IInv

\* The server only runs after a complete round, or when the process is about
\* to stop.
THEOREM ServesSyncedCorrect == Spec => []ServesSynced
<1>1. IInv => ServesSynced
  BY DEF IInv, Progress, ServesSynced
<1>2. QED
  BY Invariance, <1>1, PTL

\* A server that runs has listed every method that it has but rpc_methods.
THEOREM MethodsListedCorrect == Spec => []MethodsListed
<1>1. IInv => MethodsListed
  BY DEF IInv, Progress, Listing, MethodsListed
<1>2. QED
  BY Invariance, <1>1, PTL

\* main only exits when the job has ended and the server is stopped.
THEOREM GracefulExitCorrect == Spec => []GracefulExit
<1>1. IInv => GracefulExit
  BY DEF IInv, Progress, GracefulExit
<1>2. QED
  BY Invariance, <1>1, PTL
=============================================================================
