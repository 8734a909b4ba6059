--------------------------- MODULE MCStoreRelations ---------------------------
(***************************************************************************)
(* Instances of StoreRelations for TLC.  The objects of one end are told   *)
(* apart by nothing but identity.                                          *)
(***************************************************************************)
EXTENDS StoreRelations

AllFailures == FailureKinds
NoFailures  == {}


ObjectSymmetry == Permutations(Left) \cup Permutations(Right)
===============================================================================
