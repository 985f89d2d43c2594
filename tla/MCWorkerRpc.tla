---------------------------- MODULE MCWorkerRpc ----------------------------
(* WorkerRpc for TLC.                                                       *)
EXTENDS WorkerRpc, TLC
=============================================================================
