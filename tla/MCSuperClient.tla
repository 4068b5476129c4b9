--------------------------- MODULE MCSuperClient ----------------------------
(***************************************************************************)
(* The instance of SuperClient that TLC checks.                            *)
(* Its cfg checks liveness too, so no symmetry is declared.                *)
(***************************************************************************)
EXTENDS SuperClient
=============================================================================
