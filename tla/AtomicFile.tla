----------------------------- MODULE AtomicFile ------------------------------
(***************************************************************************)
(* What a pager promises to the layer above it: a file of pages that       *)
(* changes only by whole transactions.  A committed transaction may be     *)
(* taken back, as a whole, by a crash that comes before the next time the  *)
(* journal is synced; nothing else is ever lost, mixed or half done.       *)
(***************************************************************************)
CONSTANTS
  Pages,    \* page numbers
  Contents  \* what a page of the file can hold

VARIABLES
  content,  \* the pages a reader would be given
  older,    \* the pages a crash may return to
  working   \* the pages as the transaction in progress sees them

vars == <<content, older, working>>

File == [Pages -> Contents]

TypeOK ==
  /\ content \in File
  /\ older \in File
  /\ working \in File

Init ==
  /\ content \in File
  /\ older = content
  /\ working = content

Write(p, c) ==
  /\ working' = [working EXCEPT ![p] = c]
  /\ UNCHANGED <<content, older>>

Commit ==
  /\ content' = working
  /\ older' = content
  /\ UNCHANGED working

Rollback ==
  /\ working' = content
  /\ UNCHANGED <<content, older>>

\* From here on a crash can no longer take the last commit back.
Settle ==
  /\ older' = content
  /\ UNCHANGED <<content, working>>

Crash ==
  /\ content' \in {content, older}
  /\ older' = content'
  /\ working' = content'

Next ==
  \/ \E p \in Pages, c \in Contents : Write(p, c)
  \/ Commit
  \/ Rollback
  \/ Settle
  \/ Crash

Spec == Init /\ [][Next]_vars
==============================================================================
