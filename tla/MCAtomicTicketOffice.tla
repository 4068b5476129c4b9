------------------------ MODULE MCAtomicTicketOffice ------------------------
(***************************************************************************)
(* Instances of AtomicTicketOffice for TLC.  Windows are interchangeable   *)
(* in the safety properties.                                               *)
(***************************************************************************)
EXTENDS AtomicTicketOffice, TLC

Symmetry == Permutations(Windows)
=============================================================================
