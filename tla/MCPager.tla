------------------------------- MODULE MCPager -------------------------------
(***************************************************************************)
(* The module TLC runs for Pager.  The two keys are interchangeable: no    *)
(* definition of Pager tells one from the other.                           *)
(***************************************************************************)
EXTENDS Pager, TLC

KeySymmetry == Permutations(Keys)
==============================================================================
