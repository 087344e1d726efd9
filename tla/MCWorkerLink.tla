---------------------------- MODULE MCWorkerLink ----------------------------
(* The instance of WorkerLink for TLC.                                     *)
EXTENDS WorkerLink
=============================================================================
