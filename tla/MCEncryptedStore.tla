--------------------------- MODULE MCEncryptedStore ---------------------------
(***************************************************************************)
(* Instances of EncryptedStore for TLC.  Values a and b are two contents   *)
(* of a column, told apart by nothing but identity.                        *)
(***************************************************************************)
EXTENDS EncryptedStore, TLC

AllFailures     == FailureKinds
Recoverable     == {"busy", "statement", "commit"}
AutoRollbacks   == {"busy", "statement", "autorollback", "commit", "read"}
\* No action tells two column contents apart.
ValueSymmetry == Permutations(Values)
==============================================================================
