---------------------------- MODULE MCWorkerBatch ----------------------------
(***************************************************************************)
(* Model values for WorkerBatch: none but the number of workers.           *)
(***************************************************************************)
EXTENDS WorkerBatch
=============================================================================
