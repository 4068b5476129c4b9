---------------------------- MODULE MCEpollSvr ----------------------------
(***************************************************************************)
(* Instances of EpollSvr for TLC.  Connections and workers are             *)
(* interchangeable in the safety properties.                               *)
(***************************************************************************)
EXTENDS EpollSvr, TLC

Symmetry == Permutations(Conns) \union Permutations(Workers)
=============================================================================
