--------------------------- MODULE MCProcessDemos ---------------------------
(***************************************************************************)
(* The instance of ProcessDemos that TLC checks.                           *)
(* Its cfg checks liveness too, so no symmetry is declared.                *)
(***************************************************************************)
EXTENDS ProcessDemos
=============================================================================
