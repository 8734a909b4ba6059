-------------------------- MODULE MCStoreMigration --------------------------
(***************************************************************************)
(* The instance of StoreMigration that TLC checks: persons become members  *)
(* of clubs under a new name, the entity of badges goes, that of games     *)
(* comes and that of towns stays as it is, and the table of links between  *)
(* persons and clubs is renamed.                                           *)
(***************************************************************************)
EXTENDS StoreMigration, TLC

CONSTANTS p1, p2, c1, t1

MCEntityMappings == <<
  [type |-> "transform", source |-> "Person", destination |-> "Member"],
  [type |-> "add", destination |-> "Game"],
  [type |-> "transform", source |-> "Club", destination |-> "Club"],
  [type |-> "copy", source |-> "Town", destination |-> "Town"],
  [type |-> "remove", source |-> "Badge"]>>

MCRefers == "Person" :> "Club"

MCObjects == "Person" :> {p1, p2} @@ "Club" :> {c1} @@ "Badge" :> {} @@ "Town" :> {t1}
=============================================================================
