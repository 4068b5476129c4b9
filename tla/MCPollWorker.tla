---------------------------- MODULE MCPollWorker ----------------------------
(***************************************************************************)
(* The instance of PollWorker that TLC checks.                             *)
(* Its cfg checks liveness too, so no symmetry is declared.                *)
(***************************************************************************)
EXTENDS PollWorker
=============================================================================
