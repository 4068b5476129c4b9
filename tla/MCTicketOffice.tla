--------------------------- MODULE MCTicketOffice ---------------------------
(***************************************************************************)
(* The instance of TicketOffice that TLC checks.                           *)
(* Its cfg checks liveness too, so no symmetry is declared.                *)
(***************************************************************************)
EXTENDS TicketOffice
=============================================================================
