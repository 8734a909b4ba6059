------------------------ MODULE StoreRelations_proofs ------------------------
(***************************************************************************)
(* Proofs about StoreRelations, for any finite sets of objects at the two  *)
(* ends, any bound on the positions and any kinds of failures.             *)
(***************************************************************************)
EXTENDS StoreRelations, SequenceTheorems, FiniteSetTheorems, TLAPS

(***************************************************************************)
(* Lists: what a step does to a sequence without repetition.               *)
(***************************************************************************)

\* A set of one number has it for its minimum.
LEMMA MinOfOne == ASSUME NEW k \in Int PROVE Min({k}) = k
BY DEF Min

\* Position finds where an object is in a list without repetition.
LEMMA PositionOf ==
  ASSUME NEW S, NEW list \in Seq(S), IsInjective(list), NEW k \in DOMAIN list
  PROVE  Position(list, list[k]) = k
<1>1. {i \in 1 .. Len(list) : list[i] = list[k]} = {k}
  BY DEF IsInjective
<1> QED BY <1>1, MinOfOne DEF Position, SelectInSeq

\* And every member of the list has a position in it.
LEMMA PositionType ==
  ASSUME NEW S, NEW list \in Seq(S), IsInjective(list), NEW p \in ToSet(list)
  PROVE  /\ Position(list, p) \in DOMAIN list
         /\ Position(list, p) \in Nat \ {0}
         /\ list[Position(list, p)] = p
<1>1. PICK k \in DOMAIN list : list[k] = p
  BY DEF ToSet
<1> QED BY <1>1, PositionOf

\* Appending a new object keeps a list without repetition.
LEMMA AppendToList ==
  ASSUME NEW S, NEW list \in Seq(S), IsInjective(list),
         NEW p \in S, p \notin ToSet(list)
  PROVE  /\ Append(list, p) \in Seq(S)
         /\ IsInjective(Append(list, p))
         /\ ToSet(Append(list, p)) = ToSet(list) \cup {p}
<1> DEFINE new == Append(list, p)
<1>1. /\ new \in Seq(S)
      /\ Len(new) = Len(list) + 1
      /\ \A i \in 1 .. Len(list) : new[i] = list[i]
      /\ new[Len(list) + 1] = p
  BY AppendProperties
<1>2. DOMAIN list = 1 .. Len(list) /\ DOMAIN new = 1 .. Len(list) + 1
  BY <1>1
<1>3. IsInjective(new)
  BY <1>1, <1>2 DEF IsInjective, ToSet
<1>4. ToSet(new) = ToSet(list) \cup {p}
  BY <1>1, <1>2 DEF ToSet
<1> QED BY <1>1, <1>3, <1>4

\* Taking an object out leaves the others, without repetition.
LEMMA RemoveFromList ==
  ASSUME NEW S, NEW list \in Seq(S), IsInjective(list), NEW p
  PROVE  /\ RemoveFirst(list, p) \in Seq(S)
         /\ IsInjective(RemoveFirst(list, p))
         /\ ToSet(RemoveFirst(list, p)) = ToSet(list) \ {p}
<1>1. CASE p \notin ToSet(list)
  <2>1. RemoveFirst(list, p) = list
    BY <1>1 DEF RemoveFirst, ToSet
  <2> QED BY <1>1, <2>1
<1>2. CASE p \in ToSet(list)
  <2> DEFINE k == Position(list, p)
             head == SubSeq(list, 1, k - 1)
             tail == SubSeq(list, k + 1, Len(list))
             new == head \o tail
  <2>1. k \in 1 .. Len(list) /\ list[k] = p
    BY <1>2, PositionType
  <2>2. RemoveFirst(list, p) = new
    BY <2>1 DEF RemoveFirst, RemoveAt, Position
  <2> HIDE DEF k
  <2>3. /\ head \in Seq(S) /\ Len(head) = k - 1
        /\ \A i \in 1 .. k - 1 : head[i] = list[i]
    BY <2>1, SubSeqProperties, ElementOfSeq
  <2>4. /\ tail \in Seq(S) /\ Len(tail) = Len(list) - k
        /\ \A i \in 1 .. Len(list) - k : tail[i] = list[k + i]
    BY <2>1, SubSeqProperties, ElementOfSeq
  <2> HIDE DEF head, tail
  <2>5. /\ new \in Seq(S) /\ Len(new) = Len(list) - 1
        /\ \A i \in 1 .. k - 1 : new[i] = list[i]
        /\ \A i \in k .. Len(list) - 1 : new[i] = list[i + 1]
    <3>1. /\ new \in Seq(S) /\ Len(new) = Len(head) + Len(tail)
          /\ \A i \in 1 .. Len(head) + Len(tail) :
               new[i] = IF i <= Len(head) THEN head[i]
                                          ELSE tail[i - Len(head)]
      BY <2>3, <2>4, ConcatProperties
    <3>2. ASSUME NEW i \in 1 .. k - 1 PROVE new[i] = list[i]
      BY <2>1, <2>3, <2>4, <3>1
    <3>3. ASSUME NEW i \in k .. Len(list) - 1 PROVE new[i] = list[i + 1]
      <4>1. i \in 1 .. Len(head) + Len(tail) /\ ~(i <= Len(head))
        BY <2>1, <2>3, <2>4
      <4>2. i - Len(head) \in 1 .. Len(list) - k
        BY <2>1, <2>3
      <4>3. new[i] = tail[i - Len(head)] /\ k + (i - Len(head)) = i + 1
        BY <2>1, <2>3, <3>1, <4>1
      <4> QED BY <2>4, <4>2, <4>3
    <3>4. Len(new) = Len(list) - 1
      BY <2>1, <2>3, <2>4, <3>1
    <3> HIDE DEF new
    <3> QED BY <3>1, <3>2, <3>3, <3>4
  <2> HIDE DEF new
  <2>6. DOMAIN new = 1 .. Len(list) - 1 /\ DOMAIN list = 1 .. Len(list)
    BY <2>5
  <2>7. IsInjective(new)
    <3> DEFINE at(i) == IF i < k THEN i ELSE i + 1
    <3>1. \A i \in DOMAIN new : at(i) \in DOMAIN list /\ new[i] = list[at(i)]
      BY <2>1, <2>5, <2>6
    <3>2. \A i, j \in DOMAIN new : at(i) = at(j) => i = j
      BY <2>1, <2>6
    <3> HIDE DEF at
    <3> QED BY <3>1, <3>2 DEF IsInjective
  <2>8. ToSet(new) \subseteq ToSet(list) \ {p}
    BY <2>1, <2>5, <2>6 DEF IsInjective, ToSet
  <2>9. ASSUME NEW q \in ToSet(list) \ {p} PROVE q \in ToSet(new)
    <3>1. PICK j \in 1 .. Len(list) : list[j] = q /\ j # k
      BY <2>1, <2>6 DEF ToSet
    <3>2. CASE j < k
      <4>1. j \in 1 .. Len(list) - 1 /\ new[j] = q
        BY <2>1, <2>5, <3>1, <3>2
      <4> QED BY <2>6, <4>1 DEF ToSet
    <3>3. CASE j > k
      <4>1. j - 1 \in 1 .. Len(list) - 1 /\ new[j - 1] = q
        BY <2>1, <2>5, <3>1, <3>3
      <4> QED BY <2>6, <4>1 DEF ToSet
    <3> QED BY <2>1, <3>1, <3>2, <3>3
  <2> QED BY <2>2, <2>5, <2>7, <2>8, <2>9
<1> QED BY <1>1, <1>2

\* Moving the first object of a list to its end keeps the objects.
LEMMA RotateList ==
  ASSUME NEW S, NEW list \in Seq(S), IsInjective(list), Len(list) > 1
  PROVE  LET new == Append(Tail(list), Head(list))
         IN  /\ new \in Seq(S)
             /\ IsInjective(new)
             /\ ToSet(new) = ToSet(list)
<1> DEFINE new == Append(Tail(list), Head(list))
<1>1. /\ Tail(list) \in Seq(S) /\ Len(Tail(list)) = Len(list) - 1
      /\ \A i \in 1 .. Len(list) - 1 : Tail(list)[i] = list[i + 1]
      /\ Head(list) = list[1] /\ list[1] \in S
  BY HeadTailProperties
<1>2. /\ new \in Seq(S) /\ Len(new) = Len(list)
      /\ new[Len(list)] = list[1]
      /\ \A i \in 1 .. Len(list) - 1 : new[i] = list[i + 1]
  BY <1>1, AppendProperties
<1>3. DOMAIN new = 1 .. Len(list) /\ DOMAIN list = 1 .. Len(list)
  BY <1>2
<1> HIDE DEF new
<1>4. IsInjective(new)
  <2> DEFINE at(i) == IF i = Len(list) THEN 1 ELSE i + 1
  <2>1. \A i \in DOMAIN new : at(i) \in DOMAIN list /\ new[i] = list[at(i)]
    BY <1>2, <1>3
  <2>2. \A i, j \in DOMAIN new : at(i) = at(j) => i = j
    BY <1>3
  <2> HIDE DEF at
  <2> QED BY <2>1, <2>2 DEF IsInjective
<1>5. ToSet(new) \subseteq ToSet(list)
  BY <1>2, <1>3 DEF ToSet
<1>6. ASSUME NEW q \in ToSet(list) PROVE q \in ToSet(new)
  <2>1. PICK j \in 1 .. Len(list) : list[j] = q
    BY <1>3 DEF ToSet
  <2>2. CASE j = 1
    <3>1. Len(list) \in DOMAIN new /\ new[Len(list)] = q
      BY <1>2, <1>3, <2>1, <2>2
    <3> QED BY <3>1 DEF ToSet
  <2>3. CASE j > 1
    <3>1. j - 1 \in DOMAIN new /\ new[j - 1] = q
      BY <1>2, <1>3, <2>1, <2>3
    <3> QED BY <3>1 DEF ToSet
  <2> QED BY <2>1, <2>2, <2>3
<1> QED BY <1>2, <1>4, <1>5, <1>6 DEF new

\* The first objects of a list.
LEMMA PrefixOfList ==
  ASSUME NEW S, NEW list \in Seq(S), IsInjective(list), NEW n \in 0 .. Len(list)
  PROVE  LET new == SubSeq(list, 1, n)
         IN  /\ new \in Seq(S)
             /\ IsInjective(new)
             /\ ToSet(new) \subseteq ToSet(list)
<1> DEFINE new == SubSeq(list, 1, n)
<1>1. /\ new \in Seq(S) /\ Len(new) = n
      /\ \A i \in 1 .. n : new[i] = list[i]
  BY SubSeqProperties, ElementOfSeq
<1>2. DOMAIN new = 1 .. n
  BY <1>1
<1> HIDE DEF new
<1>3. IsInjective(new) /\ ToSet(new) \subseteq ToSet(list)
  BY <1>1, <1>2 DEF IsInjective, ToSet
<1> QED BY <1>1, <1>3 DEF new

\* An empty list holds nothing, and a list that holds nothing is empty.
LEMMA EmptyList ==
  ASSUME NEW S
  PROVE  /\ <<>> \in Seq(S) /\ IsInjective(<<>>) /\ ToSet(<<>>) = {}
         /\ \A list \in Seq(S) : ToSet(list) = {} => list = <<>>
<1>1. ASSUME NEW list \in Seq(S), list # <<>> PROVE ToSet(list) # {}
  <2>1. 1 \in DOMAIN list
    BY <1>1, EmptySeq
  <2> QED BY <2>1 DEF ToSet
<1> QED BY <1>1 DEF IsInjective, ToSet

\* The sequences of a finite set hold all of it once.
LEMMA ListOfSet ==
  ASSUME NEW S, IsFiniteSet(S), NEW list \in SetToSeqs(S)
  PROVE  /\ list \in Seq(S)
         /\ IsInjective(list)
         /\ ToSet(list) = S
<1> DEFINE D == 1 .. Cardinality(S)
<1>1. Cardinality(S) \in Nat
  BY FS_CardinalityType
<1>2. list \in [D -> S] /\ \A i, j \in D : i # j => list[i] # list[j]
  BY DEF SetToSeqs
<1>3. list \in Seq(S) /\ IsInjective(list)
  BY <1>1, <1>2 DEF IsInjective
<1>4. Cardinality(D) = Cardinality(S)
  BY <1>1, FS_Interval
<1>5. list \in Surjection(D, S)
  BY <1>2, <1>3, <1>4, FS_Injection DEF Injection
<1>6. ToSet(list) = S
  BY <1>2, <1>5 DEF Surjection, ToSet
<1> QED BY <1>3, <1>6

\* A set of natural numbers has a least element.
LEMMA Least ==
  ASSUME NEW T \in SUBSET Nat, T # {}
  PROVE  \E x \in T : \A y \in T : x <= y
<1>1. PICK x \in T : \A y \in T : ~ (<<y, x>> \in OpToRel(<, Nat))
  BY NatLessThanWellFounded, WFMin
<1>2. \A y \in T : ~ (y < x)
  BY <1>1 DEF OpToRel
<1> QED BY <1>2

\* The first n numbers of g are bounded.
Bounded(n, g) == \E b \in Nat : \A i \in 1 .. n : g[i] <= b

\* One more number has a bound when those before it have.
LEMMA BoundedByOneMore ==
  ASSUME NEW n \in Nat \ {0}, NEW g \in [1 .. n -> Nat],
         \A h \in [1 .. n - 1 -> Nat] : Bounded(n - 1, h)
  PROVE  Bounded(n, g)
<1> DEFINE h == [i \in 1 .. n - 1 |-> g[i]]
<1>1. h \in [1 .. n - 1 -> Nat]
  OBVIOUS
<1>2. PICK b \in Nat : \A i \in 1 .. n - 1 : h[i] <= b
  BY <1>1 DEF Bounded
<1>3. n \in 1 .. n /\ g[n] \in Nat
  OBVIOUS
<1>4. \A i \in 1 .. n - 1 : g[i] <= b + g[n]
  BY <1>2, <1>3
<1>5. \A i \in 1 .. n : g[i] <= b + g[n]
  BY <1>2, <1>3, <1>4
<1>6. b + g[n] \in Nat
  BY <1>3
<1> QED BY <1>5, <1>6 DEF Bounded

\* Any number of numbers has: the least one that has not is not zero, and has
\* one more than the number before it.
LEMMA AllBounded ==
  ASSUME NEW n \in Nat, NEW g \in [1 .. n -> Nat]
  PROVE  Bounded(n, g)
<1> DEFINE T == {m \in Nat : \E h \in [1 .. m -> Nat] : ~Bounded(m, h)}
<1> SUFFICES ASSUME T # {} PROVE FALSE
  OBVIOUS
<1>1. T \in SUBSET Nat
  OBVIOUS
<1>2. PICK m \in T : \A l \in T : m <= l
  BY <1>1, Least
<1>3. PICK h \in [1 .. m -> Nat] : ~Bounded(m, h)
  OBVIOUS
<1>4. m \in Nat /\ m # 0
  <2>1. Bounded(0, h)
    <3>1. 0 \in Nat /\ \A i \in 1 .. 0 : FALSE
      OBVIOUS
    <3> QED BY <3>1 DEF Bounded
  <2> QED BY <1>3, <2>1
<1>5. m - 1 \in Nat /\ ~(m <= m - 1)
  BY <1>4
<1>6. m - 1 \notin T
  BY <1>2, <1>5
<1> QED BY <1>3, <1>4, <1>5, <1>6, BoundedByOneMore

\* So the values of a function on a finite set have a bound.
LEMMA FiniteBound ==
  ASSUME NEW X, IsFiniteSet(X), NEW f \in [X -> Nat]
  PROVE  \E b \in Nat : \A x \in X : f[x] <= b
<1>1. PICK n \in Nat : ExistsBijection(1 .. n, X)
  BY FS_NatBijection
<1>2. PICK h \in [1 .. n -> X] : \A x \in X : \E i \in 1 .. n : h[i] = x
  BY <1>1 DEF ExistsBijection, Bijection, Surjection
<1> DEFINE g == [i \in 1 .. n |-> f[h[i]]]
<1>3. g \in [1 .. n -> Nat]
  BY <1>2
<1>4. PICK b \in Nat : \A i \in 1 .. n : g[i] <= b
  BY <1>3, AllBounded DEF Bounded
<1> QED BY <1>2, <1>4

\* The largest of the positions in a row.
LEMMA MaxOfRow ==
  ASSUME NEW X, IsFiniteSet(X), X # {}, NEW f \in [X -> Nat]
  PROVE  Max({f[x] : x \in X}) \in Nat
<1> DEFINE S == {f[x] : x \in X}
           B == {b \in Nat : \A x \in X : f[x] <= b}
<1>1. PICK b \in B : \A c \in B : b <= c
  <2>1. B # {}
    BY FiniteBound
  <2> QED BY <2>1, Least
<1>2. b \in S
  <2> SUFFICES ASSUME b \notin S PROVE FALSE
    OBVIOUS
  <2>1. \A x \in X : f[x] <= b - 1
    BY <1>1
  <2>2. b - 1 \in Nat
    BY <2>1, <1>1
  <2> QED BY <1>1, <2>1, <2>2
<1>3. \A y \in S : b >= y
  BY <1>1
<1> HIDE DEF S
<1>4. Max(S) \in S
  BY <1>2, <1>3 DEF Max
<1> QED BY <1>4 DEF S
-----------------------------------------------------------------------------
(***************************************************************************)
(* The inductive invariant.                                                *)
(***************************************************************************)

\* The lists of the context, or those saved, are sequences of partners, and
\* the two ends of the relationship agree.
ListsOf(l, existing) ==
  /\ l \in [Objects -> Seq(Objects)]
  /\ \A o \in Objects : IsList(l[o], o)
  /\ \A o, p \in Objects : p \in ToSet(l[o]) => o \in ToSet(l[p])
  /\ \A o \in Objects : l[o] # <<>> => o \in existing

\* A table of links has rows between partners only, each with both positions.
TableOf(table) ==
  /\ table \in Tables
  /\ \A o, p \in Objects : table[o][p] # 0 => p \in Partners(o)
  /\ \A o, p \in Objects : table[o][p] # 0 => table[p][o] # 0

\* The links of o are the objects of the list, in its order.
InStep(table, o, list) == Linked(table, o) = ToSet(list)

InOrder(table, o, list) ==
  \A m, n \in DOMAIN list : m < n => table[o][list[m]] < table[o][list[n]]

\* No two links of o have the same position.
Distinct(table, o) ==
  \A p, q \in Linked(table, o) : table[o][p] = table[o][q] => p = q

Shape ==
  /\ ListsOf(lists, objects)
  /\ ListsOf(saved, stored)
  /\ TableOf(disk)
  /\ TableOf(links)
  /\ objects \in SUBSET Objects
  /\ stored \in SUBSET Objects
  /\ stage \in {"idle", "block"}
  /\ pending \in SUBSET Objects
  /\ failed \in BOOLEAN
  /\ diskMisread \in SUBSET Objects
  /\ misread \in SUBSET Objects

\* Between two saves the connection sees what is committed.
Idle ==
  stage = "idle" => links = disk /\ misread = diskMisread

\* What is committed.
Committed ==
  \A o \in Objects :
    /\ saved[o] # <<>> => InStep(disk, o, saved[o])
    /\ Linked(disk, o) # {} => o \in stored
    /\ o \notin diskMisread =>
         /\ saved[o] # <<>> => InOrder(disk, o, saved[o])
         /\ Distinct(disk, o)

\* What the save in progress has made of the objects it is done with.
Handling ==
  stage = "block" /\ ~failed =>
    \A o \in Objects :
      /\ Linked(links, o) # {} => o \in objects \cup (pending \cap Deleted)
      /\ o \in objects \ pending /\ lists[o] # <<>> =>
           /\ InStep(links, o, lists[o])
           /\ o \notin misread => InOrder(links, o, lists[o])
      /\ o \notin misread /\ (o \notin pending \/ lists[o] = <<>>) =>
           Distinct(links, o)

IInv == Shape /\ Idle /\ Committed /\ Handling
-----------------------------------------------------------------------------
(***************************************************************************)
(* The table of links: what the statements for one object do to it.        *)
(***************************************************************************)

\* Partner is a relation between the two ends, and goes both ways.
LEMMA PartnersFacts ==
  ASSUME NEW o \in Objects
  PROVE  /\ Partners(o) \subseteq Objects
         /\ o \notin Partners(o)
         /\ \A p \in Objects : p \in Partners(o) <=> o \in Partners(p)
BY RelationAssumption DEF Objects, Partners

LEMMA FiniteObjects == IsFiniteSet(Objects)
BY RelationAssumption, FS_Union DEF Objects

\* The position after the last one is never the 0 that stands for no link.
LEMMA NextOrderType ==
  ASSUME NEW table \in Tables, NEW o \in Objects, NEW unread
  PROVE  NextOrder(table, o, unread) \in Nat \ {0}
<1>1. table[o] \in [Objects -> Nat]
  BY DEF Tables
<1>2. Max({table[o][p] : p \in Objects}) \in Nat
  BY <1>1, FiniteObjects, MaxOfRow
<1> QED BY <1>2 DEF NextOrder

\* The loop over a list links its object to each member, at the position of
\* the member if the row was counted, and touches no other link.
LEMMA WriteListEffect ==
  ASSUME NEW table, TableOf(table), NEW o \in Objects,
         NEW list \in Seq(Objects), IsList(list, o), NEW uncounted, NEW unread
  PROVE  LET new == WriteList(table, o, list, uncounted, unread)
         IN  /\ TableOf(new)
             /\ Linked(new, o) = Linked(table, o) \cup ToSet(list)
             /\ \A x \in Objects \ {o} :
                  Linked(new, x) = Linked(table, x)
                    \cup {p \in {o} : x \in ToSet(list)}
             /\ \A x \in Objects \ {o} : \A y \in Linked(table, x) :
                  new[x][y] = table[x][y]
             /\ \A y \in ToSet(list) :
                  y \notin uncounted \cap Linked(table, o) =>
                    new[o][y] = Position(list, y)
<1> DEFINE new == WriteList(table, o, list, uncounted, unread)
<1>1. /\ table \in Tables
      /\ \A x, y \in Objects : table[x][y] \in Nat
      /\ \A x, y \in Objects : table[x][y] # 0 => y \in Partners(x)
      /\ \A x, y \in Objects : table[x][y] # 0 => table[y][x] # 0
  BY DEF TableOf, Tables
<1>2. /\ ToSet(list) \subseteq Partners(o) /\ o \notin ToSet(list)
      /\ ToSet(list) \subseteq Objects
      /\ \A p \in ToSet(list) : Position(list, p) \in Nat \ {0}
  BY PartnersFacts, PositionType DEF IsList
<1>3. \A x \in Objects : NextOrder(table, x, unread) \in Nat \ {0}
  BY <1>1, NextOrderType
<1>4. \A x, y \in Objects :
        new[x][y] = IF x = o /\ y \in ToSet(list) /\ (y \in uncounted => table[x][y] = 0)
                      THEN Position(list, y)
                    ELSE IF y = o /\ x \in ToSet(list) /\ table[x][y] = 0
                      THEN NextOrder(table, x, unread)
                      ELSE table[x][y]
  BY DEF WriteList
<1>5. new \in Tables
  <2>1. \A x, y \in Objects : new[x][y] \in Nat
    BY <1>1, <1>2, <1>3, <1>4
  <2>2. new = [x \in Objects |-> [y \in Objects |-> new[x][y]]]
    BY DEF WriteList
  <2> HIDE DEF new
  <2> QED BY <2>1, <2>2 DEF Tables
<1> HIDE DEF new
<1>6. \A x, y \in Objects :
        new[x][y] # 0 <=> \/ table[x][y] # 0
                          \/ x = o /\ y \in ToSet(list)
                          \/ y = o /\ x \in ToSet(list)
  BY <1>1, <1>2, <1>3, <1>4
<1>7. TableOf(new)
  BY <1>1, <1>2, <1>5, <1>6, PartnersFacts DEF TableOf
<1>8. \A x \in Objects : Linked(new, x) =
        Linked(table, x) \cup {y \in Objects : \/ x = o /\ y \in ToSet(list)
                                               \/ y = o /\ x \in ToSet(list)}
  BY <1>2, <1>6, PartnersFacts DEF Linked
<1>9. Linked(new, o) = Linked(table, o) \cup ToSet(list)
  BY <1>2, <1>8
<1>10. ASSUME NEW x \in Objects \ {o}
       PROVE  Linked(new, x) = Linked(table, x) \cup {p \in {o} : x \in ToSet(list)}
  BY <1>8
<1>11. ASSUME NEW x \in Objects \ {o}, NEW y \in Linked(table, x)
       PROVE  new[x][y] = table[x][y]
  <2>1. y \in Objects /\ table[x][y] # 0
    BY PartnersFacts DEF Linked
  <2> QED BY <1>4, <2>1
<1>12. ASSUME NEW y \in ToSet(list), y \notin uncounted \cap Linked(table, o)
       PROVE  new[o][y] = Position(list, y)
  <2>1. y \in Objects /\ (y \in uncounted => table[o][y] = 0)
    BY <1>2, <1>12 DEF Linked
  <2> QED BY <1>4, <2>1
<1> QED BY <1>7, <1>9, <1>10, <1>11, <1>12 DEF new

\* The DELETE takes away links of its object, and changes no position.
LEMMA PruneEffect ==
  ASSUME NEW table, TableOf(table), NEW o \in Objects, NEW S
  PROVE  LET new == Prune(table, o, S)
         IN  /\ TableOf(new)
             /\ Linked(new, o) = Linked(table, o) \cap S
             /\ \A x \in Objects \ {o} :
                  Linked(new, x) = Linked(table, x) \ {p \in {o} : x \notin S}
             /\ \A x \in Objects : \A y \in Linked(new, x) :
                  new[x][y] = table[x][y]
<1> DEFINE new == Prune(table, o, S)
<1>1. /\ table \in Tables
      /\ \A x, y \in Objects : table[x][y] \in Nat
      /\ \A x, y \in Objects : table[x][y] # 0 => y \in Partners(x)
      /\ \A x, y \in Objects : table[x][y] # 0 => table[y][x] # 0
  BY DEF TableOf, Tables
<1>2. \A x, y \in Objects :
        new[x][y] = IF (x = o /\ y \notin S) \/ (y = o /\ x \notin S)
                    THEN 0 ELSE table[x][y]
  BY DEF Prune
<1>3. new \in Tables
  <2>1. \A x, y \in Objects : new[x][y] \in Nat
    BY <1>1, <1>2
  <2>2. new = [x \in Objects |-> [y \in Objects |-> new[x][y]]]
    BY DEF Prune
  <2> HIDE DEF new
  <2> QED BY <2>1, <2>2 DEF Tables
<1> HIDE DEF new
<1>4. \A x, y \in Objects :
        new[x][y] # 0 <=> /\ table[x][y] # 0
                          /\ ~(x = o /\ y \notin S)
                          /\ ~(y = o /\ x \notin S)
  BY <1>1, <1>2
<1>5. TableOf(new)
  BY <1>1, <1>3, <1>4 DEF TableOf
<1>6. Linked(new, o) = Linked(table, o) \cap S
  BY <1>4, PartnersFacts DEF Linked
<1>7. ASSUME NEW x \in Objects \ {o}
      PROVE  Linked(new, x) = Linked(table, x) \ {p \in {o} : x \notin S}
  BY <1>4, PartnersFacts DEF Linked
<1>8. ASSUME NEW x \in Objects, NEW y \in Linked(new, x)
      PROVE  new[x][y] = table[x][y]
  <2>1. y \in Objects /\ new[x][y] # 0
    BY PartnersFacts DEF Linked
  <2> QED BY <1>2, <2>1
<1> QED BY <1>5, <1>6, <1>7, <1>8 DEF new
-----------------------------------------------------------------------------
(***************************************************************************)
(* The shape of the state.                                                 *)
(***************************************************************************)

\* Nothing is linked in an empty table, and nothing is listed in an empty list.
LEMMA EmptyShape ==
  ASSUME NEW existing
  PROVE  /\ TableOf(NoLinks)
         /\ ListsOf(NoLists, existing)
         /\ \A o \in Objects : Linked(NoLinks, o) = {}
<1>1. TableOf(NoLinks)
  BY DEF TableOf, Tables, NoLinks
<1>2. \A o \in Objects : NoLists[o] = <<>>
  BY DEF NoLists
<1>3. ListsOf(NoLists, existing)
  BY <1>2, EmptyList DEF ListsOf, NoLists, IsList
<1>4. ASSUME NEW o \in Objects PROVE Linked(NoLinks, o) = {}
  BY PartnersFacts DEF Linked, NoLinks
<1> QED BY <1>1, <1>3, <1>4

\* What the lists of an object tell about the objects in it.
LEMMA ListFacts ==
  ASSUME NEW l, NEW existing, ListsOf(l, existing), NEW o \in Objects
  PROVE  /\ l[o] \in Seq(Objects)
         /\ IsList(l[o], o)
         /\ IsInjective(l[o])
         /\ ToSet(l[o]) \subseteq Objects /\ o \notin ToSet(l[o])
         /\ \A p \in ToSet(l[o]) : o \in ToSet(l[p]) /\ l[p] # <<>>
                                   /\ p \in existing
         /\ l[o] = <<>> <=> ToSet(l[o]) = {}
<1>1. /\ l[o] \in Seq(Objects) /\ IsList(l[o], o) /\ IsInjective(l[o])
      /\ ToSet(l[o]) \subseteq Objects /\ o \notin ToSet(l[o])
  BY PartnersFacts DEF ListsOf, IsList
<1>2. l[o] = <<>> <=> ToSet(l[o]) = {}
  BY <1>1, EmptyList
<1>3. ASSUME NEW p \in ToSet(l[o])
      PROVE  o \in ToSet(l[p]) /\ l[p] # <<>> /\ p \in existing
  <2>1. p \in Objects /\ o \in ToSet(l[p])
    BY <1>1 DEF ListsOf
  <2>2. l[p] # <<>>
    BY <2>1, EmptyList
  <2> QED BY <2>1, <2>2 DEF ListsOf
<1> QED BY <1>1, <1>2, <1>3

\* Lists are known by the sets of their members.
LEMMA ListsBySets ==
  ASSUME NEW l \in [Objects -> Seq(Objects)], NEW existing,
         \A x \in Objects : IsInjective(l[x]) /\ ToSet(l[x]) \subseteq Partners(x),
         \A x, y \in Objects : y \in ToSet(l[x]) => x \in ToSet(l[y]),
         \A x \in Objects : ToSet(l[x]) # {} => x \in existing
  PROVE  ListsOf(l, existing)
<1>1. \A x \in Objects : l[x] # <<>> => ToSet(l[x]) # {}
  BY EmptyList
<1> QED BY <1>1 DEF ListsOf, IsList

\* Relating two objects puts each into the list of the other.
LEMMA RelateShape ==
  ASSUME Shape, NEW o \in Left, NEW p \in Right, Relate(o, p)
  PROVE  ListsOf(lists', objects')
<1>1. /\ o \in Objects /\ p \in Objects /\ o # p
      /\ p \in Partners(o) /\ o \in Partners(p)
      /\ o \in objects /\ p \in objects
  BY RelationAssumption DEF Objects, Partners, Relate
<1>2. p \notin ToSet(lists[o]) /\ o \notin ToSet(lists[p])
  BY <1>1, ListFacts DEF Relate, Shape
<1>3. lists' \in [Objects -> Seq(Objects)]
      /\ \A x \in Objects : lists'[x] = IF x = o THEN Append(lists[o], p)
                                        ELSE IF x = p THEN Append(lists[p], o)
                                        ELSE lists[x]
  BY <1>1, AppendProperties DEF Relate, Shape, ListsOf
<1>4. /\ IsInjective(lists'[o]) /\ ToSet(lists'[o]) = ToSet(lists[o]) \cup {p}
      /\ IsInjective(lists'[p]) /\ ToSet(lists'[p]) = ToSet(lists[p]) \cup {o}
  <2>1. /\ lists[o] \in Seq(Objects) /\ IsInjective(lists[o])
        /\ lists[p] \in Seq(Objects) /\ IsInjective(lists[p])
    BY <1>1, ListFacts DEF Shape
  <2>2. /\ IsInjective(Append(lists[o], p))
        /\ ToSet(Append(lists[o], p)) = ToSet(lists[o]) \cup {p}
    BY <1>1, <1>2, <2>1, AppendToList
  <2>3. /\ IsInjective(Append(lists[p], o))
        /\ ToSet(Append(lists[p], o)) = ToSet(lists[p]) \cup {o}
    BY <1>1, <1>2, <2>1, AppendToList
  <2> QED BY <1>1, <1>3, <2>2, <2>3
<1>5. \A x \in Objects \ {o, p} :
        IsInjective(lists'[x]) /\ ToSet(lists'[x]) = ToSet(lists[x])
  BY <1>3, ListFacts DEF Shape
<1>6. \A x \in Objects : ToSet(lists[x]) \subseteq Partners(x)
  BY ListFacts DEF IsList, Shape
<1>7. \A x \in Objects : IsInjective(lists'[x]) /\ ToSet(lists'[x]) \subseteq Partners(x)
  BY <1>1, <1>4, <1>5, <1>6
<1>8. \A x, y \in Objects : y \in ToSet(lists'[x]) => x \in ToSet(lists'[y])
  <2>1. \A x, y \in Objects : y \in ToSet(lists[x]) => x \in ToSet(lists[y])
    BY DEF Shape, ListsOf
  <2> QED BY <1>1, <1>4, <1>5, <2>1
<1>9. \A x \in Objects : ToSet(lists'[x]) # {} => x \in objects'
  <2>1. \A x \in Objects : ToSet(lists[x]) # {} => x \in objects
    BY ListFacts DEF Shape, ListsOf
  <2> QED BY <1>1, <1>5, <2>1 DEF Relate
<1> QED BY <1>3, <1>7, <1>8, <1>9, ListsBySets

\* Unrelating takes each out of the list of the other.
LEMMA UnrelateShape ==
  ASSUME Shape, NEW o \in Left, NEW p \in Right, Unrelate(o, p)
  PROVE  ListsOf(lists', objects')
<1>1. o \in Objects /\ p \in Objects /\ o # p
  BY RelationAssumption DEF Objects
<1>2. lists' \in [Objects -> Seq(Objects)]
      /\ \A x \in Objects : lists'[x] = IF x = o THEN RemoveFirst(lists[o], p)
                                        ELSE IF x = p THEN RemoveFirst(lists[p], o)
                                        ELSE lists[x]
  BY <1>1, ListFacts, RemoveFromList DEF Unrelate, Shape, ListsOf
<1>3. /\ IsInjective(lists'[o]) /\ ToSet(lists'[o]) = ToSet(lists[o]) \ {p}
      /\ IsInjective(lists'[p]) /\ ToSet(lists'[p]) = ToSet(lists[p]) \ {o}
  <2>1. /\ lists[o] \in Seq(Objects) /\ IsInjective(lists[o])
        /\ lists[p] \in Seq(Objects) /\ IsInjective(lists[p])
    BY <1>1, ListFacts DEF Shape
  <2> QED BY <1>1, <1>2, <2>1, RemoveFromList
<1>4. \A x \in Objects \ {o, p} :
        IsInjective(lists'[x]) /\ ToSet(lists'[x]) = ToSet(lists[x])
  BY <1>2, ListFacts DEF Shape
<1>5. \A x \in Objects : ToSet(lists[x]) \subseteq Partners(x)
  BY ListFacts DEF IsList, Shape
<1>6. \A x \in Objects : IsInjective(lists'[x]) /\ ToSet(lists'[x]) \subseteq Partners(x)
  BY <1>1, <1>3, <1>4, <1>5
<1>7. \A x, y \in Objects : y \in ToSet(lists'[x]) => x \in ToSet(lists'[y])
  <2>1. \A x, y \in Objects : y \in ToSet(lists[x]) => x \in ToSet(lists[y])
    BY DEF Shape, ListsOf
  <2> QED BY <1>1, <1>3, <1>4, <2>1
<1>8. \A x \in Objects : ToSet(lists'[x]) # {} => x \in objects'
  <2>1. \A x \in Objects : ToSet(lists[x]) # {} => x \in objects
    BY ListFacts DEF Shape, ListsOf
  <2>2. \A x \in Objects : ToSet(lists'[x]) # {} => ToSet(lists[x]) # {}
    BY <1>3, <1>4
  <2> QED BY <2>1, <2>2 DEF Unrelate
<1> QED BY <1>2, <1>6, <1>7, <1>8, ListsBySets

\* Reordering keeps what is in the list.
LEMMA ReorderShape ==
  ASSUME Shape, NEW o \in Objects, Reorder(o)
  PROVE  ListsOf(lists', objects')
<1>1. /\ lists[o] \in Seq(Objects) /\ IsInjective(lists[o]) /\ Len(lists[o]) > 1
      /\ lists[o] # <<>>
  BY ListFacts DEF Reorder, Shape
<1> DEFINE new == Append(Tail(lists[o]), Head(lists[o]))
<1>2. new \in Seq(Objects) /\ IsInjective(new) /\ ToSet(new) = ToSet(lists[o])
  BY <1>1, RotateList
<1> HIDE DEF new
<1>3. lists' \in [Objects -> Seq(Objects)]
      /\ \A x \in Objects : lists'[x] = IF x = o THEN new ELSE lists[x]
  BY <1>2 DEF Reorder, Shape, ListsOf, new
<1>4. \A x \in Objects : IsInjective(lists'[x]) /\ ToSet(lists'[x]) = ToSet(lists[x])
  BY <1>2, <1>3, ListFacts DEF Shape
<1>5. \A x \in Objects : IsList(lists'[x], x)
  BY <1>4, ListFacts DEF IsList, Shape
<1>6. \A x, y \in Objects : y \in ToSet(lists'[x]) => x \in ToSet(lists'[y])
  BY <1>4 DEF Shape, ListsOf
<1>7. \A x \in Objects : lists'[x] # <<>> => x \in objects'
  BY <1>1, <1>3 DEF Reorder, Shape, ListsOf
<1> QED BY <1>3, <1>5, <1>6, <1>7 DEF ListsOf

\* Deleting an object takes it out of every list.
LEMMA DeleteShape ==
  ASSUME Shape, NEW o \in Objects, Delete(o)
  PROVE  ListsOf(lists', objects')
<1>1. lists' \in [Objects -> Seq(Objects)]
      /\ \A x \in Objects :
           lists'[x] = IF x = o THEN <<>> ELSE RemoveFirst(lists[x], o)
  BY ListFacts, RemoveFromList, EmptyList DEF Delete, Shape
<1>2. ASSUME NEW x \in Objects
      PROVE  /\ IsInjective(lists'[x])
             /\ ToSet(lists'[x]) = IF x = o THEN {} ELSE ToSet(lists[x]) \ {o}
  BY <1>1, ListFacts, RemoveFromList, EmptyList DEF Shape
<1>3. \A x \in Objects : ToSet(lists[x]) \subseteq Partners(x)
  BY ListFacts DEF IsList, Shape
<1>4. \A x \in Objects : IsInjective(lists'[x]) /\ ToSet(lists'[x]) \subseteq Partners(x)
  BY <1>2, <1>3
<1>5. \A x, y \in Objects : y \in ToSet(lists'[x]) => x \in ToSet(lists'[y])
  <2>1. \A x, y \in Objects : y \in ToSet(lists[x]) => x \in ToSet(lists[y])
    BY DEF Shape, ListsOf
  <2> QED BY <1>2, <2>1
<1>6. \A x \in Objects : ToSet(lists'[x]) # {} => x \in objects'
  <2>1. \A x \in Objects : ToSet(lists[x]) # {} => x \in objects
    BY ListFacts DEF Shape, ListsOf
  <2>2. \A x \in Objects : ToSet(lists'[x]) # {} => ToSet(lists[x]) # {} /\ x # o
    BY <1>2
  <2> QED BY <2>1, <2>2 DEF Delete
<1> QED BY <1>1, <1>4, <1>5, <1>6, ListsBySets

\* Whatever LinkAll does to the table with a list of o, or with its beginning,
\* leaves a table.
LEMMA LinkAllShape ==
  ASSUME NEW table, TableOf(table), NEW o \in Objects,
         NEW list \in Seq(Objects), IsList(list, o), NEW uncounted, NEW unread
  PROVE  TableOf(LinkAll(table, o, list, uncounted, unread))
BY WriteListEffect DEF LinkAll

LEMMA HandleListShape ==
  ASSUME Shape, NEW o \in Objects, NEW S, HandleList(o, S)
  PROVE  Shape'
<1>1. TableOf(links') /\ misread' \in SUBSET Objects /\ failed' \in BOOLEAN
  <2> USE ListFacts DEF Shape
  <2>1. CASE SaveList(o) /\ UNCHANGED failed
    <3>1. CASE lists[o] = <<>>
      BY <2>1, <3>1 DEF SaveList, view
    <3>2. CASE lists[o] # <<>>
      <4>1. PICK uncounted, unread \in SUBSET ToSet(lists[o]) :
              links' = Prune(LinkAll(links, o, lists[o], uncounted, unread),
                             o, ToSet(lists[o]))
        BY <2>1, <3>2 DEF SaveList
      <4>2. TableOf(links')
        BY <4>1, LinkAllShape, PruneEffect
      <4>3. misread' \in SUBSET Objects
        BY <2>1, <3>2 DEF SaveList
      <4> QED BY <2>1, <4>2, <4>3
    <3> QED BY <3>1, <3>2
  <2>2. CASE SaveListFails(o) /\ failed' = TRUE
    <3>1. PICK n \in 0 .. Len(lists[o]) :
            links' = LinkAll(links, o, SubSeq(lists[o], 1, n), {}, {})
      BY <2>2 DEF SaveListFails
    <3> DEFINE list == SubSeq(lists[o], 1, n)
    <3>2. list \in Seq(Objects) /\ IsInjective(list)
          /\ ToSet(list) \subseteq ToSet(lists[o])
      BY PrefixOfList
    <3> HIDE DEF list
    <3>3. IsList(list, o)
      BY <3>2 DEF IsList
    <3>4. TableOf(links')
      BY <3>1, <3>2, <3>3, LinkAllShape DEF list
    <3> QED BY <2>2, <3>4 DEF SaveListFails
  <2> QED BY <2>1, <2>2 DEF HandleList
<1>2. pending' \in SUBSET Objects /\ UNCHANGED <<stage, context, snapshot, database>>
  BY DEF HandleList, Handled, Shape
<1> QED BY <1>1, <1>2 DEF Shape, context, snapshot, database

\* Reading a table back gives lists that agree at both ends.
LEMMA ReadListsShape ==
  ASSUME TableOf(disk), NEW l \in [Objects -> UNION {ReadLists(o) : o \in Objects}],
         \A o \in Objects : l[o] \in ReadLists(o)
  PROVE  /\ \A o \in Objects : /\ ToSet(l[o]) = Linked(disk, o)
                               /\ l[o] # <<>> => Linked(disk, o) # {}
         /\ ListsOf(l, {o \in Objects : Linked(disk, o) # {}})
<1>1. ASSUME NEW o \in Objects
      PROVE  /\ l[o] \in Seq(Objects) /\ IsList(l[o], o)
             /\ ToSet(l[o]) = Linked(disk, o)
             /\ l[o] # <<>> => Linked(disk, o) # {}
  <2>1. Linked(disk, o) \subseteq Objects /\ Linked(disk, o) \subseteq Partners(o)
    BY PartnersFacts DEF Linked
  <2>2. IsFiniteSet(Linked(disk, o))
    BY <2>1, FiniteObjects, FS_Subset
  <2>3. l[o] \in SetToSeqs(Linked(disk, o))
    BY DEF ReadLists
  <2>4. /\ l[o] \in Seq(Linked(disk, o)) /\ IsInjective(l[o])
        /\ ToSet(l[o]) = Linked(disk, o)
    BY <2>2, <2>3, ListOfSet
  <2>5. l[o] \in Seq(Objects)
    BY <2>1, <2>4, SeqMonotonic
  <2> QED BY <2>1, <2>4, <2>5, EmptyList DEF IsList
<1>2. l \in [Objects -> Seq(Objects)]
  <2>1. l = [o \in Objects |-> l[o]]
    OBVIOUS
  <2> QED BY <1>1, <2>1
<1>3. \A o, p \in Objects : p \in ToSet(l[o]) => o \in ToSet(l[p])
  BY <1>1, PartnersFacts DEF Linked, TableOf
<1> QED BY <1>1, <1>2, <1>3 DEF ListsOf

\* Initially there is nothing.
LEMMA InitShape == Init => Shape
<1> SUFFICES ASSUME Init PROVE Shape
  OBVIOUS
<1>1. ListsOf(lists, objects) /\ ListsOf(saved, stored)
  BY EmptyShape DEF Init
<1>2. TableOf(disk) /\ TableOf(links)
  BY EmptyShape DEF Init
<1> QED BY <1>1, <1>2 DEF Init, Shape

\* Every step keeps the shape, with one root entity or two.  That a linked object
\* has a row to be fetched is what a new context needs.
LEMMA NextShape ==
  ASSUME Shape, [Next]_vars,
         \A o \in Objects : Linked(disk, o) # {} => o \in stored
  PROVE  Shape'
<1>1. CASE UNCHANGED vars
  BY <1>1 DEF Shape, vars, context, snapshot, database, view, save
<1>2. CASE \E o \in Objects : Create(o)
  <2>1. PICK o \in Objects : Create(o)
    BY <1>2
  <2>2. ListsOf(lists', objects')
    BY <2>1 DEF Create, Shape, ListsOf
  <2> QED BY <2>1, <2>2 DEF Shape, Create, snapshot, database, view, save
<1>3. CASE \E o \in Objects : Reorder(o)
  <2>1. PICK o \in Objects : Reorder(o)
    BY <1>3
  <2>2. ListsOf(lists', objects')
    BY <2>1, ReorderShape
  <2> QED BY <2>1, <2>2 DEF Shape, Reorder, snapshot, database, view, save
<1>4. CASE \E o \in Objects : Delete(o)
  <2>1. PICK o \in Objects : Delete(o)
    BY <1>4
  <2>2. ListsOf(lists', objects')
    BY <2>1, DeleteShape
  <2> QED BY <2>1, <2>2 DEF Shape, Delete, snapshot, database, view, save
<1>5. CASE \E o \in Objects : HandleInserted(o) \/ HandleUpdated(o)
  BY <1>5, HandleListShape DEF HandleInserted, HandleUpdated
<1>6. CASE \E o \in Objects : HandleDeleted(o)
  <2>1. PICK o \in Objects : HandleDeleted(o)
    BY <1>6
  <2>2. TableOf(links')
    BY <2>1, PruneEffect DEF HandleDeleted, Shape
  <2> QED BY <2>1, <2>2
          DEF Shape, HandleDeleted, Handled, context, snapshot, database
<1>7. CASE \E o \in Objects : HandleDeletedFails(o)
  BY <1>7 DEF Shape, HandleDeletedFails, context, snapshot, database, view
<1>8. CASE \E o \in Left, p \in Right : Relate(o, p)
  <2>1. PICK o \in Left, p \in Right : Relate(o, p)
    BY <1>8
  <2>2. ListsOf(lists', objects')
    BY <2>1, RelateShape
  <2> QED BY <2>1, <2>2 DEF Shape, Relate, snapshot, database, view, save
<1>9. CASE \E o \in Left, p \in Right : Unrelate(o, p)
  <2>1. PICK o \in Left, p \in Right : Unrelate(o, p)
    BY <1>9
  <2>2. ListsOf(lists', objects')
    BY <2>1, UnrelateShape
  <2> QED BY <2>1, <2>2 DEF Shape, Unrelate, snapshot, database, view, save
<1>10. CASE ExecuteSaveRequest
  BY <1>10 DEF Shape, ExecuteSaveRequest, Inserted, Updated, Deleted,
               context, snapshot, database, view
<1>11. CASE Commit
  BY <1>11 DEF Shape, Commit, context, view
<1>12. CASE Rollback
  BY <1>12 DEF Shape, Rollback, context, snapshot, database
<1>13. CASE Reopen
  <2>1. ListsOf(lists', {o \in Objects : Linked(disk, o) # {}})
    BY <1>13, ReadListsShape DEF Reopen, Shape
  <2>2. ListsOf(lists', stored)
    BY <2>1 DEF ListsOf
  <2> QED BY <1>13, <2>2 DEF Shape, Reopen, database
<1> QED BY <1>1, <1>2, <1>3, <1>4, <1>5, <1>6, <1>7, <1>8, <1>9, <1>10,
           <1>11, <1>12, <1>13 DEF Next
-----------------------------------------------------------------------------
(***************************************************************************)
(* What a save makes of the links.                                         *)
(***************************************************************************)

\* Nothing is linked and nothing listed at first.
LEMMA InitRest == Init => Idle /\ Committed /\ Handling
<1> SUFFICES ASSUME Init PROVE Idle /\ Committed /\ Handling
  OBVIOUS
<1>1. \A o \in Objects : saved[o] = <<>> /\ Linked(disk, o) = {}
  BY EmptyShape DEF Init, NoLists
<1>2. Committed
  BY <1>1 DEF Committed, Distinct
<1> QED BY <1>2 DEF Init, Idle, Handling

\* Objects with the same links at the same positions are in the same step, in
\* the same order, and as distinct.
LEMMA SameRow ==
  ASSUME NEW table, NEW new, NEW x \in Objects,
         Linked(new, x) \subseteq Linked(table, x),
         \A y \in Linked(new, x) : new[x][y] = table[x][y]
  PROVE  /\ Distinct(table, x) => Distinct(new, x)
         /\ \A list : InStep(new, x, list) /\ InOrder(table, x, list)
                        => InOrder(new, x, list)
<1>1. Distinct(table, x) => Distinct(new, x)
  BY DEF Distinct
<1>2. ASSUME NEW list, InStep(new, x, list), InOrder(table, x, list)
      PROVE  InOrder(new, x, list)
  <2>1. \A m \in DOMAIN list : new[x][list[m]] = table[x][list[m]]
    BY <1>2 DEF InStep, ToSet
  <2> QED BY <1>2, <2>1 DEF InOrder
<1> QED BY <1>1, <1>2

\* The statements for an object with a list: its links are the list, at the
\* positions of the list unless a row was not counted; every other object
\* gains or loses the link to this one, as the list says.
LEMMA SaveListEffect ==
  ASSUME Shape, ~SameRoot, NEW o \in Objects, SaveList(o), lists[o] # <<>>
  PROVE  /\ InStep(links', o, lists[o])
         /\ o \notin misread' =>
              \A k \in DOMAIN lists[o] : links'[o][lists[o][k]] = k
         /\ \A x \in Objects \ {o} :
              /\ Linked(links', x) = IF x \in ToSet(lists[o])
                                     THEN Linked(links, x) \cup {o}
                                     ELSE Linked(links, x) \ {o}
              /\ \A y \in Linked(links, x) \cap Linked(links', x) :
                   links'[x][y] = links[x][y]
         /\ misread' \cup {o} = misread \cup {o}
<1>1. PICK uncounted, unread \in SUBSET ToSet(lists[o]) :
        /\ links' = Prune(WriteList(links, o, lists[o], uncounted, unread),
                          o, ToSet(lists[o]))
        /\ misread' = IF uncounted \cap Linked(links, o) # {}
                      THEN misread \cup {o} ELSE misread \ {o}
  BY DEF SaveList, LinkAll
<1> DEFINE list == lists[o]
           mid == WriteList(links, o, list, uncounted, unread)
<1>2. /\ list \in Seq(Objects) /\ IsList(list, o) /\ IsInjective(list)
      /\ ToSet(list) \subseteq Objects /\ o \notin ToSet(list)
      /\ TableOf(links)
  BY ListFacts DEF Shape
<1>3. /\ TableOf(mid)
      /\ Linked(mid, o) = Linked(links, o) \cup ToSet(list)
      /\ \A x \in Objects \ {o} :
           Linked(mid, x) = Linked(links, x) \cup {p \in {o} : x \in ToSet(list)}
      /\ \A x \in Objects \ {o} : \A y \in Linked(links, x) :
           mid[x][y] = links[x][y]
      /\ \A y \in ToSet(list) :
           y \notin uncounted \cap Linked(links, o) => mid[o][y] = Position(list, y)
  BY <1>2, WriteListEffect
<1>4. links' = Prune(mid, o, ToSet(list))
  BY <1>1
<1> HIDE DEF mid
<1>5. /\ Linked(links', o) = Linked(mid, o) \cap ToSet(list)
      /\ \A x \in Objects \ {o} :
           Linked(links', x) = Linked(mid, x) \ {p \in {o} : x \notin ToSet(list)}
      /\ \A x \in Objects : \A y \in Linked(links', x) :
           links'[x][y] = mid[x][y]
  BY <1>3, <1>4, PruneEffect
<1>6. Linked(links', o) = ToSet(list)
  BY <1>3, <1>5
<1>7. ASSUME o \notin misread', NEW k \in DOMAIN list
      PROVE  links'[o][list[k]] = k
  <2>1. list[k] \in ToSet(list)
    BY DEF ToSet
  <2>2. list[k] \notin uncounted \cap Linked(links, o)
    BY <1>1, <1>7
  <2>3. links'[o][list[k]] = Position(list, list[k])
    BY <1>3, <1>5, <1>6, <2>1, <2>2
  <2> QED BY <1>2, <2>3, PositionOf
<1>8. ASSUME NEW x \in Objects \ {o}
      PROVE  /\ Linked(links', x) = IF x \in ToSet(list)
                                    THEN Linked(links, x) \cup {o}
                                    ELSE Linked(links, x) \ {o}
             /\ \A y \in Linked(links, x) \cap Linked(links', x) :
                  links'[x][y] = links[x][y]
  <2>1. /\ Linked(mid, x) = Linked(links, x) \cup {p \in {o} : x \in ToSet(list)}
        /\ Linked(links', x) = Linked(mid, x) \ {p \in {o} : x \notin ToSet(list)}
    BY <1>3, <1>5
  <2>2. Linked(links', x) = IF x \in ToSet(list) THEN Linked(links, x) \cup {o}
                                                  ELSE Linked(links, x) \ {o}
    BY <2>1
  <2>3. ASSUME NEW y \in Linked(links, x) \cap Linked(links', x)
        PROVE  links'[x][y] = links[x][y]
    BY <1>3, <1>5
  <2> QED BY <2>2, <2>3
<1>9. misread' \cup {o} = misread \cup {o}
  BY <1>1
<1> QED BY <1>6, <1>7, <1>8, <1>9 DEF InStep

\* Handling an object that is inserted or updated keeps what the save has made
\* of the others, and makes it of this one.
LEMMA HandleListKeeps ==
  ASSUME Shape, Handling, ~SameRoot, NEW o \in objects, NEW S, HandleList(o, S),
         Shape'
  PROVE  Handling'
<1> SUFFICES ASSUME ~failed', stage' = "block" PROVE Handling'
  BY DEF Handling
<1>1. /\ SaveList(o) /\ ~failed /\ stage = "block"
      /\ pending' = pending \ {o}
      /\ UNCHANGED <<objects, lists, stored, saved>>
      /\ Deleted' = Deleted
  BY DEF HandleList, SaveListFails, Handled, context, snapshot, Deleted, Shape
<1>2. o \in Objects /\ o \notin Deleted
  BY DEF Shape, Deleted
<1> DEFINE list == lists[o]
<1>3. CASE list = <<>>
  <2>1. links' = links /\ misread' = misread
    BY <1>1, <1>3 DEF SaveList, view
  <2> QED BY <1>1, <1>2, <1>3, <2>1 DEF Handling
<1>4. CASE list # <<>>
  <2>1. /\ InStep(links', o, list)
        /\ o \notin misread' => \A k \in DOMAIN list : links'[o][list[k]] = k
        /\ \A x \in Objects \ {o} :
             /\ Linked(links', x) = IF x \in ToSet(list)
                                    THEN Linked(links, x) \cup {o}
                                    ELSE Linked(links, x) \ {o}
             /\ \A y \in Linked(links, x) \cap Linked(links', x) :
                  links'[x][y] = links[x][y]
        /\ misread' \cup {o} = misread \cup {o}
    BY <1>1, <1>2, <1>4, SaveListEffect
  <2>2. /\ list \in Seq(Objects) /\ DOMAIN list \subseteq Nat
        /\ \A p \in ToSet(list) : o \in ToSet(lists[p]) /\ p \in objects
    BY <1>2, ListFacts DEF Shape
  <2>3. o \notin misread' => InOrder(links', o, list)
    BY <2>1, <2>2 DEF InOrder
  <2>4. o \notin misread' => Distinct(links', o)
    BY <2>1, <2>2 DEF Distinct, InStep, ToSet
  <2>5. ASSUME NEW x \in Objects \ {o}
        PROVE  /\ Linked(links', x) # {} =>
                    x \in objects \cup (pending' \cap Deleted)
               /\ x \in objects \ pending' /\ lists[x] # <<>> =>
                    /\ InStep(links', x, lists[x])
                    /\ x \notin misread' => InOrder(links', x, lists[x])
               /\ x \notin misread' /\ (x \notin pending' \/ lists[x] = <<>>) =>
                    Distinct(links', x)
    <3>1. /\ Linked(links, x) # {} => x \in objects \cup (pending \cap Deleted)
          /\ x \in objects \ pending /\ lists[x] # <<>> =>
               /\ InStep(links, x, lists[x])
               /\ x \notin misread => InOrder(links, x, lists[x])
          /\ x \notin misread /\ (x \notin pending \/ lists[x] = <<>>) =>
               Distinct(links, x)
      BY <1>1 DEF Handling
    <3>2. /\ x \in pending' <=> x \in pending
          /\ x \in misread' <=> x \in misread
      BY <1>1, <2>1
    <3>3. x \in ToSet(list) <=> o \in ToSet(lists[x])
      BY <1>2 DEF Shape, ListsOf
    <3>4. Linked(links', x) # {} => x \in objects \cup (pending' \cap Deleted)
      BY <2>1, <2>2, <3>1, <3>2
    <3>5. lists[x] = <<>> => Linked(links', x) \subseteq Linked(links, x)
      <4>1. lists[x] = <<>> => o \notin ToSet(lists[x])
        BY EmptyList
      <4> QED BY <2>1, <3>3, <4>1
    <3>6. InStep(links, x, lists[x]) =>
            InStep(links', x, lists[x]) /\ Linked(links', x) = Linked(links, x)
      BY <2>1, <3>3 DEF InStep
    <3>7. \A y \in Linked(links, x) \cap Linked(links', x) :
            links'[x][y] = links[x][y]
      BY <2>1
    <3>8. CASE x \in objects \ pending /\ lists[x] # <<>>
      <4>1. InStep(links', x, lists[x]) /\ Linked(links', x) = Linked(links, x)
        BY <3>1, <3>6, <3>8
      <4> QED BY <3>1, <3>2, <3>4, <3>7, <3>8, <4>1, SameRow
    <3>9. CASE lists[x] = <<>>
      BY <3>1, <3>2, <3>4, <3>5, <3>7, <3>9, SameRow
    <3>10. CASE x \in pending /\ lists[x] # <<>>
      BY <3>2, <3>4, <3>10
    <3>11. lists[x] # <<>> => x \in objects
      BY DEF Shape, ListsOf
    <3> QED BY <3>8, <3>9, <3>10, <3>11
  <2> QED BY <1>1, <1>2, <2>1, <2>3, <2>4, <2>5 DEF Handling
<1> QED BY <1>3, <1>4

\* Handling a deleted object takes its links away.
LEMMA HandleDeletedKeeps ==
  ASSUME Shape, Handling, NEW o \in Objects, HandleDeleted(o)
  PROVE  Handling'
<1> SUFFICES ASSUME ~failed', stage' = "block" PROVE Handling'
  BY DEF Handling
<1>1. /\ ~failed /\ stage = "block" /\ pending' = pending \ {o}
      /\ UNCHANGED <<objects, lists, stored, saved>>
      /\ Deleted' = Deleted
      /\ links' = Prune(links, o, {}) /\ misread' = misread \ {o}
      /\ o \notin objects
  BY DEF HandleDeleted, Handled, context, snapshot, Deleted
<1>2. /\ Linked(links', o) = {}
      /\ \A x \in Objects \ {o} : Linked(links', x) = Linked(links, x) \ {o}
      /\ \A x \in Objects : \A y \in Linked(links', x) : links'[x][y] = links[x][y]
  <2>1. /\ Linked(links', o) = Linked(links, o) \cap {}
        /\ \A x \in Objects \ {o} :
             Linked(links', x) = Linked(links, x) \ {p \in {o} : x \notin {}}
        /\ \A x \in Objects : \A y \in Linked(links', x) :
             links'[x][y] = links[x][y]
    BY <1>1, PruneEffect DEF Shape
  <2> QED BY <2>1
<1>3. lists[o] = <<>>
  BY <1>1 DEF Shape, ListsOf
<1>4. Distinct(links', o)
  BY <1>2 DEF Distinct
<1>5. ASSUME NEW x \in Objects \ {o}
      PROVE  /\ Linked(links', x) # {} => x \in objects \cup (pending' \cap Deleted)
             /\ x \in objects \ pending' /\ lists[x] # <<>> =>
                  /\ InStep(links', x, lists[x])
                  /\ x \notin misread' => InOrder(links', x, lists[x])
             /\ x \notin misread' /\ (x \notin pending' \/ lists[x] = <<>>) =>
                  Distinct(links', x)
  <2>1. /\ Linked(links, x) # {} => x \in objects \cup (pending \cap Deleted)
        /\ x \in objects \ pending /\ lists[x] # <<>> =>
             /\ InStep(links, x, lists[x])
             /\ x \notin misread => InOrder(links, x, lists[x])
        /\ x \notin misread /\ (x \notin pending \/ lists[x] = <<>>) =>
             Distinct(links, x)
    BY <1>1 DEF Handling
  <2>2. o \notin ToSet(lists[x])
    BY <1>1, <1>3, EmptyList DEF Shape, ListsOf
  <2>3. InStep(links, x, lists[x]) => InStep(links', x, lists[x])
    BY <1>2, <2>2 DEF InStep
  <2>4. /\ Linked(links', x) \subseteq Linked(links, x)
        /\ \A y \in Linked(links', x) : links'[x][y] = links[x][y]
    BY <1>2
  <2>5. /\ Distinct(links, x) => Distinct(links', x)
        /\ InStep(links', x, lists[x]) /\ InOrder(links, x, lists[x])
             => InOrder(links', x, lists[x])
    BY <2>4, SameRow
  <2>6. (x \in pending' <=> x \in pending) /\ (x \in misread' <=> x \in misread)
    BY <1>1
  <2> QED BY <1>2, <2>1, <2>3, <2>5, <2>6
<1> QED BY <1>1, <1>2, <1>3, <1>4, <1>5 DEF Handling

\* A save begins with the committed links: an object it need not handle is in
\* step because it has not changed since it was saved.
LEMMA SaveBegins ==
  ASSUME Shape, Idle, Committed, ExecuteSaveRequest
  PROVE  Handling'
<1>1. /\ links' = disk /\ misread' = diskMisread
      /\ UNCHANGED <<objects, lists, stored, saved>> /\ Deleted' = Deleted
      /\ pending' = Inserted \cup Updated \cup Deleted
  BY DEF ExecuteSaveRequest, Idle, context, snapshot, database, view, Deleted
<1>2. ASSUME NEW o \in Objects
      PROVE  /\ Linked(disk, o) # {} => o \in objects \cup (pending' \cap Deleted)
             /\ o \in objects \ pending' => o \in stored /\ lists[o] = saved[o]
             /\ o \notin diskMisread => Distinct(disk, o)
  BY <1>1 DEF Committed, Inserted, Updated, Deleted
<1> QED BY <1>1, <1>2 DEF Handling, Committed

\* A commit makes the links of the transaction the committed ones.
LEMMA CommitKeeps ==
  ASSUME Shape, Handling, Commit
  PROVE  Committed'
<1>1. /\ stage = "block" /\ ~failed /\ pending = {}
      /\ disk' = links /\ diskMisread' = misread /\ stored' = objects
      /\ saved' = lists
  BY DEF Commit
<1>2. ASSUME NEW o \in Objects
      PROVE  /\ lists[o] # <<>> => o \in objects
             /\ Linked(links, o) # {} => o \in objects
  BY <1>1 DEF Shape, ListsOf, Handling
<1> QED BY <1>1, <1>2 DEF Committed, Handling

\* A new context reads lists that are in step, and in the order of positions
\* that are distinct.
LEMMA ReopenKeeps ==
  ASSUME Shape, Committed, Reopen
  PROVE  Committed'
<1>1. /\ saved' \in [Objects -> UNION {ReadLists(o) : o \in Objects}]
      /\ \A o \in Objects : saved'[o] \in ReadLists(o)
      /\ UNCHANGED <<disk, diskMisread, stored>>
  BY DEF Reopen, database
<1>2. \A o \in Objects : ToSet(saved'[o]) = Linked(disk, o)
  BY <1>1, ReadListsShape DEF Shape
<1>3. ListsOf(saved', {o \in Objects : Linked(disk, o) # {}})
  BY <1>1, ReadListsShape DEF Shape
<1>4. ASSUME NEW o \in Objects, Distinct(disk, o)
      PROVE  InOrder(disk, o, saved'[o])
  <2> DEFINE list == saved'[o]
  <2>1. /\ \A m, n \in DOMAIN list : m < n => disk[o][list[m]] <= disk[o][list[n]]
        /\ IsInjective(list) /\ list \in Seq(Objects)
    BY <1>1, <1>3, ListFacts DEF ReadLists
  <2>2. \A m \in DOMAIN list : m \in Nat /\ list[m] \in Linked(disk, o)
    BY <1>2, <2>1 DEF ToSet
  <2>3. \A p \in Linked(disk, o) : disk[o][p] \in Nat
    BY PartnersFacts DEF Linked, Shape, TableOf, Tables
  <2> SUFFICES ASSUME NEW m \in DOMAIN list, NEW n \in DOMAIN list, m < n
               PROVE  disk[o][list[m]] < disk[o][list[n]]
    BY DEF InOrder
  <2>4. list[m] # list[n]
    BY <2>1, <2>2 DEF IsInjective
  <2>5. disk[o][list[m]] # disk[o][list[n]]
    BY <1>4, <2>2, <2>4 DEF Distinct
  <2> QED BY <2>1, <2>2, <2>3, <2>5
<1> QED BY <1>1, <1>2, <1>4 DEF Committed, InStep

\* Every step keeps the invariant.
LEMMA NextIInv ==
  ASSUME IInv, [Next]_vars, ~SameRoot
  PROVE  IInv'
<1>1. Shape'
  BY NextShape DEF IInv, Committed
<1>2. ASSUME UNCHANGED <<stage, snapshot, database, view>>, stage = "idle"
      PROVE  Idle' /\ Committed' /\ Handling'
  BY <1>2 DEF IInv, Idle, Committed, Handling, snapshot, database, view
<1>3. ASSUME UNCHANGED <<snapshot, database>>, stage = "block", stage' = "block"
      PROVE  Idle' /\ Committed'
  BY <1>3 DEF IInv, Idle, Committed, snapshot, database
<1>4. CASE UNCHANGED vars
  BY <1>1, <1>4 DEF IInv, Idle, Committed, Handling, Deleted, vars, context,
                    snapshot, database, view, save
<1>5. CASE \/ \E o \in Objects : Create(o) \/ Reorder(o) \/ Delete(o)
           \/ \E o \in Left, p \in Right : Relate(o, p) \/ Unrelate(o, p)
  <2>1. UNCHANGED <<stage, snapshot, database, view>> /\ stage = "idle"
    BY <1>5 DEF Create, Reorder, Delete, Relate, Unrelate, save
  <2> QED BY <1>1, <1>2, <2>1 DEF IInv
<1>6. CASE \E o \in Objects : HandleInserted(o) \/ HandleUpdated(o)
  <2>1. PICK o \in Objects, S \in {Inserted, Updated} : HandleList(o, S)
    BY <1>6 DEF HandleInserted, HandleUpdated
  <2>2. o \in objects
    BY <2>1 DEF HandleList, Inserted, Updated
  <2>3. Handling'
    BY <1>1, <2>1, <2>2, HandleListKeeps DEF IInv
  <2>4. UNCHANGED <<stage, snapshot, database>> /\ stage = "block"
    BY <2>1 DEF HandleList, Handled, InHandler
  <2> QED BY <1>1, <1>3, <2>3, <2>4 DEF IInv
<1>7. CASE \E o \in Objects : HandleDeleted(o)
  <2>1. PICK o \in Objects : HandleDeleted(o)
    BY <1>7
  <2>2. Handling'
    BY <2>1, HandleDeletedKeeps DEF IInv
  <2>3. UNCHANGED <<stage, snapshot, database>> /\ stage = "block"
    BY <2>1 DEF HandleDeleted, Handled, InHandler
  <2> QED BY <1>1, <1>3, <2>2, <2>3 DEF IInv
<1>8. CASE \E o \in Objects : HandleDeletedFails(o)
  <2>1. UNCHANGED <<stage, snapshot, database>> /\ stage = "block" /\ failed'
    BY <1>8 DEF HandleDeletedFails, InHandler
  <2> QED BY <1>1, <1>3, <2>1 DEF IInv, Handling
<1>9. CASE ExecuteSaveRequest
  <2>1. Handling'
    BY <1>9, SaveBegins DEF IInv
  <2>2. stage' = "block" /\ UNCHANGED <<snapshot, database>>
    BY <1>9 DEF ExecuteSaveRequest
  <2>3. Idle' /\ Committed'
    BY <2>2 DEF IInv, Idle, Committed, snapshot, database
  <2> QED BY <1>1, <2>1, <2>3 DEF IInv
<1>10. CASE Commit
  <2>1. Committed'
    BY <1>10, CommitKeeps DEF IInv
  <2>2. Idle' /\ Handling'
    BY <1>10 DEF Commit, Idle, Handling, view
  <2> QED BY <1>1, <2>1, <2>2 DEF IInv
<1>11. CASE Rollback
  BY <1>1, <1>11 DEF IInv, Rollback, Idle, Committed, Handling, snapshot, database
<1>12. CASE Reopen
  <2>1. Committed'
    BY <1>12, ReopenKeeps DEF IInv
  <2>2. Idle' /\ Handling'
    BY <1>12 DEF Reopen, Idle, Handling, database
  <2> QED BY <1>1, <2>1, <2>2 DEF IInv
<1> QED BY <1>4, <1>5, <1>6, <1>7, <1>8, <1>9, <1>10, <1>11, <1>12 DEF Next

-----------------------------------------------------------------------------
(***************************************************************************)
(* One root entity at both ends: no statement links anything.              *)
(***************************************************************************)
Unlinked ==
  \A o \in Objects : Linked(disk, o) = {} /\ Linked(links, o) = {}

LEMMA NextUnlinked ==
  ASSUME Shape, Unlinked, [Next]_vars, SameRoot
  PROVE  Unlinked'
<1>1. ASSUME NEW o \in Objects, NEW S, HandleList(o, S)
      PROVE  Unlinked'
  <2>1. UNCHANGED disk
    BY <1>1 DEF HandleList, Handled, database
  <2>2. CASE links' = links
    BY <2>1, <2>2 DEF Unlinked
  <2>3. CASE \E T : links' = Prune(links, o, T)
    <3>1. PICK T : links' = Prune(links, o, T)
      BY <2>3
    <3>2. \A x \in Objects : Linked(links', x) \subseteq Linked(links, x)
      BY <3>1, PruneEffect DEF Shape
    <3> QED BY <2>1, <3>2 DEF Unlinked
  <2> QED BY <1>1, <2>2, <2>3 DEF HandleList, SaveList, SaveListFails, LinkAll, view
<1>2. CASE \E o \in Objects : HandleInserted(o) \/ HandleUpdated(o)
  BY <1>1, <1>2 DEF HandleInserted, HandleUpdated
<1>3. CASE \E o \in Objects : HandleDeleted(o)
  BY <1>3 DEF HandleDeleted
<1>4. CASE disk' \in {disk, links} /\ links' \in {disk, links}
  BY <1>4 DEF Unlinked
<1>5. CASE \/ UNCHANGED vars
           \/ \E o \in Objects : \/ Create(o) \/ Reorder(o) \/ Delete(o)
                                 \/ HandleDeletedFails(o)
           \/ \E o \in Left, p \in Right : Relate(o, p) \/ Unrelate(o, p)
           \/ ExecuteSaveRequest \/ Commit \/ Rollback \/ Reopen
  BY <1>4, <1>5 DEF Create, Reorder, Delete, HandleDeletedFails, Relate, Unrelate,
                    ExecuteSaveRequest, Commit, Rollback, Reopen, vars,
                    database, view
<1> QED BY <1>2, <1>3, <1>5 DEF Next

\* The invariant of every state the store can be in: with one root entity
\* nothing is linked, with two the links are what IInv says.
Inv == Shape /\ (IF SameRoot THEN Unlinked ELSE IInv)

LEMMA NextInv == Inv /\ [Next]_vars => Inv'
<1> SUFFICES ASSUME Inv, [Next]_vars PROVE Inv'
  OBVIOUS
<1>1. CASE SameRoot
  <2>1. Shape /\ Unlinked
    BY <1>1 DEF Inv
  <2>2. Shape'
    BY <2>1, NextShape DEF Unlinked
  <2> QED BY <1>1, <2>1, <2>2, NextUnlinked DEF Inv
<1>2. CASE ~SameRoot
  <2>1. IInv'
    BY <1>2, NextIInv DEF Inv
  <2> QED BY <1>2, <2>1 DEF Inv, IInv
<1> QED BY <1>1, <1>2

LEMMA InitInv == Init => Inv
<1>1. Init => Unlinked
  BY EmptyShape DEF Init, Unlinked
<1> QED BY <1>1, InitShape, InitRest DEF Inv, IInv

\* The invariant holds throughout, for any objects and any failures.
THEOREM Invariant == Spec => []Inv
BY InitInv, NextInv, PTL DEF Spec
-----------------------------------------------------------------------------
(***************************************************************************)
(* The properties.                                                         *)
(***************************************************************************)

\* Every variable keeps its type: in particular no position is ever undefined,
\* the two rows of a link always come and go together, and no list of the
\* context repeats an object or holds one of the wrong entity.
THEOREM TypeCorrect == Spec => []TypeOK
<1>1. Inv => TypeOK
  <2> SUFFICES ASSUME Shape PROVE TypeOK
    BY DEF Inv
  <2>1. \A o, p \in Objects : links[o][p] # 0 <=> links[p][o] # 0
    BY DEF Shape, TableOf
  <2>2. \A o \in Objects : IsList(lists[o], o) /\ IsList(saved[o], o)
    BY DEF Shape, ListsOf
  <2> QED BY <2>1, <2>2 DEF Shape, TableOf, TypeOK
<1> QED BY <1>1, Invariant, PTL

\* No committed link leads to an object without a row, for one root entity or
\* two: handleDeletedRelationInSaveRequest: leaves none, whatever fails.
THEOREM LinksLeadToRows == Spec => []NoDanglingLinks
<1>1. Inv => NoDanglingLinks
  BY DEF Inv, IInv, Unlinked, Committed, NoDanglingLinks
<1> QED BY <1>1, Invariant, PTL

\* Between two root entities every list that was saved with something in it is
\* what a new context fetches, for any number of objects and any failures of
\* statements, reads and commits; with one root entity the code stores nothing
\* (run self_relation).
THEOREM ListsReadBack ==
  ASSUME ~SameRoot
  PROVE  Spec => []RelatedObjectsReadBack
<1>1. Inv => RelatedObjectsReadBack
  BY DEF Inv, IInv, Shape, Committed, InStep, RelatedObjectsReadBack, ReadsBack
<1> QED BY <1>1, Invariant, PTL

\* And in its order, unless a row of it could not be counted when it was saved:
\* the positions that other saves insert never come between.
THEOREM OrderIsKept ==
  ASSUME ~SameRoot
  PROVE  Spec => []OrderReadsBack
<1>1. Inv => OrderReadsBack
  BY DEF Inv, IInv, Shape, Committed, InOrder, OrderReadsBack
<1> QED BY <1>1, Invariant, PTL
==============================================================================
