----------------------------- MODULE StoreFetch -----------------------------
(***************************************************************************)
(* Fetch requests of EncryptedStore (T2Crypto/EncryptedStore.m             *)
(* executeRequest:withContext:error:): what their predicates select.       *)
(*                                                                         *)
(* The store translates a predicate to the text of a WHERE clause.  Text   *)
(* has no structure but what its operators and parentheses give it: a      *)
(* clause is the terms that the text separates by AND, and NOT in front of *)
(* a text negates its first term.  The model has the truths of the terms   *)
(* for one joined row.  ORDER BY and LIMIT come after the clause and are   *)
(* left out, except for the join of a sort key.                            *)
(***************************************************************************)
EXTENDS StoreEntities, Sequences

CONSTANTS
  Requests,    \* the fetch requests of the contexts
  Predicates,  \* their predicates, with those that these are put together of
  Height       \* how deep each is

(***************************************************************************)
(* A comparison is a record [path, op, value].  Its path is an attribute   *)
(* or relationship of the fetched entity, or an attribute across one       *)
(* relationship ("items.a" is ANY items.a), or the count of items.         *)
(* Compound predicates are trees over comparisons; a request without a     *)
(* predicate fetches Everything, which is never part of a compound.        *)
(***************************************************************************)
Everything   == [compound |-> "everything"]
Compare(path, op, value) ==
  [compound |-> "no", path |-> path, op |-> op, value |-> value]
Not(p)       == [compound |-> "not", of |-> p]
And(p, q)    == [compound |-> "and", left |-> p, right |-> q]
Or(p, q)     == [compound |-> "or", left |-> p, right |-> q]

Parts(p) ==
  CASE p.compound = "not" -> {p.of}
    [] p.compound \in {"and", "or"} -> {p.left, p.right}
    [] OTHER -> {}

IsPredicate(p) ==
  \/ p = Everything
  \/ p.compound = "no" /\ p = Compare(p.path, p.op, p.value) /\ p.op \in {"=", "!="}
  \/ p.compound = "not" /\ p = Not(p.of)
  \/ p.compound = "and" /\ p = And(p.left, p.right)
  \/ p.compound = "or" /\ p = Or(p.left, p.right)

Subpredicates[p \in Predicates] ==
  {p} \cup UNION {Subpredicates[q] : q \in Parts(p)}

Comparisons(p) == {c \in Subpredicates[p] : c.compound = "no"}

\* The hierarchy as the code finds it: up to the base entity, and down through
\* the subentities.
RootForEntity[e \in Entities] ==
  IF Parent[e] = NoEntity THEN e ELSE RootForEntity[Parent[e]]

EntityIdsForEntity[e \in Entities] ==
  {e} \cup UNION {EntityIdsForEntity[s] : s \in SubentitiesOf(e)}

NoSort == "none"

\* A predicate is put together of others, each less deep.
ASSUME FetchAssumption ==
  /\ Null \notin Nat
  /\ Height \in [Predicates -> Nat]
  /\ \A p \in Predicates :
       /\ IsPredicate(p)
       /\ Parts(p) \subseteq Predicates \ {Everything}
       /\ \A q \in Parts(p) : Height[q] < Height[p]
  /\ \A r \in Requests :
       /\ r.entity \in Fetchable
       /\ r.predicate \in Predicates
       /\ r.includesSubentities \in BOOLEAN
       /\ {c.path : c \in Comparisons(r.predicate)} \subseteq PathsOf(r.entity)
       /\ r.sort \in PathsOf(r.entity) \cup {NoSort}

\* The paths of a request: its joins.
PathsIn ==
  [req \in Requests |->
     {c.path : c \in Comparisons(req.predicate)} \cup ({req.sort} \ {NoSort})]

\* What the predicate of a request is put together of.
PredicatesIn == [req \in Requests |-> Subpredicates[req.predicate]]

HasNot(req) == \E p \in PredicatesIn[req] : p.compound = "not"

Comparing(req, path) ==
  {c \in PredicatesIn[req] : c.compound = "no" /\ c.path = path}
-----------------------------------------------------------------------------
(***************************************************************************)
(* The operands.  A column of an outer row that is missing is NULL.  NULL  *)
(* as a constant is compared with IS, everything else with the operator,   *)
(* which makes NULL of a column that is NULL.                              *)
(***************************************************************************)
ColumnOf(t, i) == IF i = Null THEN Null ELSE rows[t][i].a

CountedItems(o) ==
  {i \in ItemRowsOf(o) :
     Parent[Source] # NoEntity => rows[ItemTree][i].type = Source}

Operand(req, path, env) ==
  CASE path = "a" -> rows[Root[req.entity]][env.self].a
    [] path = "owner" -> rows[ItemTree][env.self].owner
    [] path = "owner.a" -> ColumnOf(OwnerTree, env.owner)
    [] path = "items.a" -> ColumnOf(ItemTree, env.item)
    [] path = "items.@count" -> Cardinality(CountedItems(env.self))

Truth(b) == IF b THEN "true" ELSE "false"

CompareColumn(op, column, value) ==
  IF column = Null /\ value # Null THEN "null"
  ELSE Truth(IF op = "=" THEN column = value ELSE column # value)

\* SQL's three-valued connectives.
AllOf(truths) ==
  IF "false" \in truths THEN "false" ELSE IF "null" \in truths THEN "null" ELSE "true"
AnyOf(truths) ==
  IF "true" \in truths THEN "true" ELSE IF "null" \in truths THEN "null" ELSE "false"
NotOf(truth) ==
  CASE truth = "true" -> "false" [] truth = "false" -> "true" [] OTHER -> "null"

(***************************************************************************)
(* The WHERE clause: the truths of the terms its text joins by AND.  The   *)
(* restriction to the entity comes in front of the text of every predicate *)
(* and subpredicate; compound texts are put in parentheses afterwards.     *)
(***************************************************************************)
\* Mutant: no text is restricted.
EntityWhereForgotten(req, env) == <<>>

EntityWhere(req, env) ==
  IF Parent[req.entity] = NoEntity THEN <<>>
  ELSE <<Truth(IsOfType(req.entity, req.includesSubentities, env.self))>>

Conjunction(terms) == AllOf({terms[k] : k \in DOMAIN terms})

\* "NOT t1 AND t2" is "(NOT t1) AND t2".
NotInFrontOf(terms) == <<NotOf(Head(terms))>> \o Tail(terms)

\* The term of a predicate, from the clauses of its parts.
Terms(req, env, p, clause) ==
  CASE p.compound = "everything" -> <<>>
    [] p.compound = "no" ->
         <<CompareColumn(p.op, Operand(req, p.path, env), p.value)>>
    [] p.compound = "not" -> <<Conjunction(NotInFrontOf(clause[p.of]))>>
    [] p.compound = "and" -> <<Conjunction(clause[p.left] \o clause[p.right])>>
    [] p.compound = "or" ->
         <<AnyOf({Conjunction(clause[p.left]), Conjunction(clause[p.right])})>>

WhereClause(req, env) ==
  LET clause[p \in PredicatesIn[req]] ==
        EntityWhere(req, env) \o Terms(req, env, p, clause)
  IN  clause

Where(req, env) == Conjunction(WhereClause(req, env)[req.predicate])

Selected(req) ==
  {env \in JoinedRows(req.entity, PathsIn[req]) : Where(req, env) = "true"}

FetchedIds(req) == Found(Selected(req))
-----------------------------------------------------------------------------
(***************************************************************************)
(* What a predicate says of an object, by the objects alone: nil is a      *)
(* value like any other, and ANY ranges over the related objects.          *)
(***************************************************************************)
ValuesAt(t, i, path) ==
  CASE path = "a" -> {objects[t][i].a}
    [] path = "owner" -> {objects[t][i].owner}
    [] path = "owner.a" ->
         {IF objects[t][i].owner = Null THEN Null
          ELSE objects[OwnerTree][objects[t][i].owner].a}
    [] path = "items.a" -> {objects[ItemTree][k].a : k \in ItemsOf(i)}
    [] path = "items.@count" -> {Cardinality(ItemsOf(i))}

IsTrueOf(req, i, p, holds) ==
  CASE p.compound = "everything" -> TRUE
    [] p.compound = "no" ->
         \E v \in ValuesAt(Root[req.entity], i, p.path) : (v = p.value) = (p.op = "=")
    [] p.compound = "not" -> ~holds[p.of]
    [] p.compound = "and" -> holds[p.left] /\ holds[p.right]
    [] p.compound = "or"  -> holds[p.left] \/ holds[p.right]

Holds(req, i) ==
  LET holds[p \in PredicatesIn[req]] == IsTrueOf(req, i, p, holds)
  IN  holds

EntitiesFetched(req) ==
  IF req.includesSubentities THEN EntityIds[req.entity] ELSE {req.entity}

Matches(req) ==
  LET t == Root[req.entity]
  IN  {i \in ObjectIds(t) : /\ objects[t][i].entity \in EntitiesFetched(req)
                            /\ Holds(req, i)[req.predicate]}

\* Items of a subentity of Source are not counted where Source has a type.
CountsEveryItem(req) ==
  \/ Comparing(req, "items.@count") = {}
  \/ Parent[Source] = NoEntity
  \/ \A i \in ObjectIds(ItemTree) :
       objects[ItemTree][i].owner # Null => objects[ItemTree][i].entity = Source

(***************************************************************************)
(* Requests whose answers hold nothing but matches.  The others: a root    *)
(* entity is never restricted, not even to itself; ANY under NOT is        *)
(* evaluated for each related object, and an object without items has one  *)
(* joined row, in which every column of items is NULL.                     *)
(***************************************************************************)
IsExact(req) ==
  /\ req.includesSubentities \/ Parent[req.entity] # NoEntity
  /\ HasNot(req) => Comparing(req, "items.a") = {}
  /\ \A c \in Comparing(req, "items.a") : ~(c.op = "=" /\ c.value = Null)
  /\ CountsEveryItem(req)

(***************************************************************************)
(* Requests whose answers hold every match.  The others: != and NOT do not *)
(* find NULL; NOT in front of the text of an entity with a superentity     *)
(* negates the entity instead of the predicate, and finds nothing; two ANY *)
(* comparisons joined by AND must be true of the same related object.      *)
(***************************************************************************)
IsExhaustive(req) ==
  LET compared == {c \in PredicatesIn[req] : c.compound = "no"}
      decided(c) == c.value = Null \/ c.path = "items.@count"
  IN  /\ \A c \in compared : c.op = "!=" => decided(c)
      /\ HasNot(req) =>
           /\ Parent[req.entity] = NoEntity
           /\ \A c \in compared : decided(c) /\ c.path # "items.a"
      /\ \A c, d \in Comparing(req, "items.a") : c = d
      /\ CountsEveryItem(req)
-----------------------------------------------------------------------------
\* Going up the superentities ends at the base entity, going down collects all
\* that is below an entity (rootForEntity:, entityIdsForEntity:).
HierarchyIsComputed ==
  \A e \in Entities :
    Root[e] = RootForEntity[e] /\ EntityIds[e] = EntityIdsForEntity[e]

\* However its predicate is put together, a request selects nothing but rows of
\* its entity: what StoreEntities says of every selection is true of it.
SelectionsAreRestricted ==
  \A req \in Requests :
    Selected(req) \subseteq
      Selectable(req.entity, req.includesSubentities, PathsIn[req])

\* A fetch returns no object that its predicate is false of or that is not of
\* its entity (whereClauseWithFetchRequest: and the joins).
FetchesOnlyMatches ==
  \A req \in Requests : IsExact(req) => FetchedIds(req) \subseteq Matches(req)

\* A fetch returns every object its predicate is true of, those whose
\* relationship is NULL included (the comment at EncryptedStore.m:2380).
FetchesAllMatches ==
  \A req \in Requests : IsExhaustive(req) => Matches(req) \subseteq FetchedIds(req)
=============================================================================
