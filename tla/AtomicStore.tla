----------------------------- MODULE AtomicStore -----------------------------
(***************************************************************************)
(* What a persistent store promises its contexts: a save request takes     *)
(* effect as a whole when it is answered "saved", it has no effect when it *)
(* is answered "failed" or when the process dies before the answer, and an *)
(* inserted object never overwrites another one.                           *)
(***************************************************************************)
EXTENDS StoreData

VARIABLES
  store,    \* the durable rows
  request,  \* the request waiting for its answer
  reply     \* "none", "pending", "saved" or "failed"

vars == <<store, request, reply>>

TypeOK ==
  /\ store \in Table
  /\ request \in Requests
  /\ reply \in {"none", "pending", "saved", "failed"}

Init ==
  /\ store = EmptyTable
  /\ request = NoRequest
  /\ reply = "none"

Submit(req) ==
  /\ reply # "pending"
  /\ request' = req
  /\ reply' = "pending"
  /\ UNCHANGED store

Succeed ==
  /\ reply = "pending"
  /\ InsertsFit(request, store)
  /\ store' = Apply(request, store)
  /\ reply' = "saved"
  /\ request' = NoRequest

Fail ==
  /\ reply = "pending"
  /\ reply' = "failed"
  /\ request' = NoRequest
  /\ UNCHANGED store

\* The process dies: an unanswered request is forgotten, the rows stay.
Restart ==
  /\ reply' = "none"
  /\ request' = NoRequest
  /\ UNCHANGED store

Next ==
  \/ \E req \in Requests : Submit(req)
  \/ Succeed
  \/ Fail
  \/ Restart

Spec == Init /\ [][Next]_vars
==============================================================================
