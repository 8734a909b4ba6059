---------------------------- MODULE MCStoreFetch ----------------------------
(***************************************************************************)
(* The instance of StoreFetch that TLC checks: books and novels are items, *)
(* written by persons, some of them authors.  The requests: every          *)
(* comparison and its negation, and for two entities every comparison      *)
(* across the relationship joined with another one by AND and by OR.       *)
(***************************************************************************)
EXTENDS StoreFetch, TLC, FiniteSetsExt

MCParent ==
  "Item" :> NoEntity @@ "Book" :> "Item" @@ "Novel" :> "Book"
    @@ "Person" :> NoEntity @@ "Author" :> "Person"

CONSTANTS v1, i1, i2

ASSUME HierarchyHere == HierarchyIsComputed

ItemSymmetry == Permutations({i1, i2})

ComparisonsOn(path) ==
  CASE path = "owner" -> {Compare(path, "=", 1), Compare(path, "=", Null)}
    [] path = "items.@count" -> {Compare(path, "=", 1)}
    [] path = "items.a" -> {Compare(path, "=", v1), Compare(path, "=", Null),
                            Compare(path, "!=", Null)}
    [] OTHER -> {Compare(path, "=", v1), Compare(path, "!=", v1), Compare(path, "=", Null)}

Simple(e) == UNION {ComparisonsOn(path) : path \in PathsOf(e)}

Negations(e) == {Not(p) : p \in Simple(e)}

Joined(e) ==
  LET across == {c \in Simple(e) : c.path \notin {"a", "items.@count"}}
  IN  {And(p, q) : p \in across, q \in Simple(e)}
        \cup {Or(p, q) : p \in across, q \in Simple(e)}

NotBoth == Not(Or(Compare("a", "=", Null), Compare("a", "=", v1)))

SortKeys == {"a", "owner.a", "items.a"}

Request(e, subs, p, sort) ==
  [entity |-> e, includesSubentities |-> subs, predicate |-> p, sort |-> sort]

FetchRequests ==
  UNION {
    {Request(e, TRUE, p, NoSort) : p \in {Everything} \cup Simple(e)}
    \cup {Request(e, TRUE, p, sort) :
             p \in {Everything, NotBoth}, sort \in PathsOf(e) \cap SortKeys} :
    e \in Entities}
  \cup UNION {
    {Request(e, TRUE, p, NoSort) : p \in Negations(e)}
    \cup {Request(e, FALSE, p, NoSort) : p \in {Everything} \cup Simple(e)} :
    e \in {"Item", "Book", "Person"}}
  \cup {Request("Book", TRUE, p, NoSort) : p \in Joined("Book")}
  \cup {Request("Person", TRUE, p, NoSort) : p \in Joined("Person")}

RECURSIVE PartsOf(_)
PartsOf(p) == {p} \cup UNION {PartsOf(q) : q \in Parts(p)}

FetchPredicates == UNION {PartsOf(req.predicate) : req \in FetchRequests}

RECURSIVE HeightOf(_)
HeightOf(p) == IF Parts(p) = {} THEN 0 ELSE 1 + Max({HeightOf(q) : q \in Parts(p)})

PredicateHeights == [p \in FetchPredicates |-> HeightOf(p)]
=============================================================================
