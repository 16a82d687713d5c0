---------------------------- MODULE MCOcppServer -----------------------------
(***************************************************************************)
(* Small instances of OcppServer for TLC.                                  *)
(***************************************************************************)
EXTENDS OcppServerProps, TLC

CONSTANTS s1, k1, k2, k3, l1, l2

MCSymmetry == Permutations(Loops) \cup Permutations(Sockets)
==============================================================================
