----------------------------- MODULE MCIoServer ------------------------------
(***************************************************************************)
(* The instance of IoServer that TLC checks.                               *)
(* Its cfg checks liveness too, so no symmetry is declared.                *)
(***************************************************************************)
EXTENDS IoServer
=============================================================================
