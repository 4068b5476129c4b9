----------------------------- MODULE MCIpcDemos -----------------------------
(***************************************************************************)
(* The instance of IpcDemos that TLC checks.                               *)
(* Its cfg checks liveness too, so no symmetry is declared.                *)
(***************************************************************************)
EXTENDS IpcDemos
=============================================================================
