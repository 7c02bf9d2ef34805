------------------------------- MODULE SyncJob -------------------------------
(***************************************************************************)
(* What the rest of the process sees of the syncing job (indexer/sync.rs,  *)
(* start_sync_ledger_job): whether it is in a round, sleeps after one or   *)
(* has ended, and the two flags it shares with the process.                *)
(*                                                                         *)
(* Module Sync implements this specification; module Service relies on it. *)
(***************************************************************************)
VARIABLES
  job,           (* "round", "sleep", or "ended": not yet started or over   *)
  initFinished,  (* INIT_SYNCING_FINISHED                                   *)
  shutdown       (* SHUTDOWN_FLAG                                           *)

jobVars == <<job, initFinished, shutdown>>

JobTypeOK ==
  /\ job \in {"round", "sleep", "ended"}
  /\ initFinished \in BOOLEAN
  /\ shutdown \in BOOLEAN

JobInit ==
  /\ job = "ended"
  /\ initFinished = FALSE
  /\ shutdown = FALSE

\* The flag is only looked at after a round, and after the sleep that
\* follows one without error.
NextRound == IF shutdown THEN "ended" ELSE "round"

JobStart ==
  /\ job = "ended"
  /\ job' = "round"

\* The Ok arm: the ledger was read to its end.
RoundOk ==
  /\ job = "round"
  /\ job' = "sleep"
  /\ initFinished' = TRUE
  /\ UNCHANGED shutdown

\* The Err arm.
RoundErr ==
  /\ job = "round"
  /\ job' = NextRound
  /\ UNCHANGED <<initFinished, shutdown>>

JobWake ==
  /\ job = "sleep"
  /\ job' = NextRound
  /\ UNCHANGED <<initFinished, shutdown>>

\* A signal sets the flag; nothing resets it.
Signal ==
  /\ ~shutdown
  /\ shutdown' = TRUE
  /\ UNCHANGED <<job, initFinished>>

\* The process is gone, and the job with it.
JobDies ==
  /\ job # "ended"
  /\ job' = "ended"
  /\ UNCHANGED <<initFinished, shutdown>>

\* A new process: its flags are not set.
JobRestart ==
  /\ JobStart
  /\ initFinished' = FALSE
  /\ shutdown' = FALSE

JobNext ==
  \/ JobRestart
  \/ RoundOk
  \/ RoundErr
  \/ JobWake
  \/ Signal
  \/ JobDies

JobSpec == JobInit /\ [][JobNext]_jobVars
==============================================================================
