----------------------------- MODULE OrderRecord -----------------------------
(***************************************************************************)
(* What the order lifecycle promises of the recorded orders: whatever the   *)
(* broker reports, and in whatever order, a record only makes legal moves   *)
(* (backend/src/engine/orderLifecycle.js:4-7).  LiveOrders is compared with *)
(* this specification.                                                      *)
(***************************************************************************)
EXTENDS OrderLifecycle

CONSTANT Orders

VARIABLE record     \* the canonical state of each recorded order

Init == record = [o \in Orders |-> "NEW"]

\* Updates arrive, stale and out-of-order ones included: each is applied when
\* it is a legal move and leaves the record alone otherwise.
Update(incoming) ==
  record' = [o \in Orders |-> Transition(record[o], incoming[o])]

Next == \E incoming \in [Orders -> States] : Update(incoming)

Spec == Init /\ [][Next]_record
=============================================================================
