--------------------------- MODULE OrderLifecycle ---------------------------
(***************************************************************************)
(* The canonical order states and the legal moves between them              *)
(* (backend/src/engine/orderLifecycle.js).  Everything here is constant:    *)
(* OrderRecord gives it a state, LiveOrders uses it on the rows of          *)
(* live_orders.                                                             *)
(*                                                                          *)
(* A status string is abstracted to the set of key words it contains: that  *)
(* is all normalize() looks at, since it tests substrings one after the     *)
(* other.  "cancel pending" is {"cancel", "pending"}, "" is {}.             *)
(***************************************************************************)

States == {"NEW", "PENDING", "PARTIAL", "COMPLETED", "REJECTED", "CANCELLED"}

Terminal == {"COMPLETED", "REJECTED", "CANCELLED"}

Open == {"NEW", "PENDING", "PARTIAL"}

\* Words that say an order is live at the exchange and not filled.  "placed"
\* stands for the two longer acknowledgement texts too.
LiveWords == {"open", "trigger", "pending", "placed", "validation", "modify"}

\* "other" is any text of a status that holds none of the known words.
Words == LiveWords \cup
         {"reject", "cancel", "complete", "filled", "executed", "partial", "new", "other"}

\* The states an order may be moved to from each state.
Transitions == [s \in States |->
                  IF s \in Terminal THEN {}
                  ELSE Terminal \cup {"PARTIAL"} \cup
                       (IF s = "NEW" THEN {"PENDING"} ELSE {})]

\* Mutant: takes the "filled" of "partially filled" for a complete fill.
NormalizeFilledFirst(status) ==
  IF "filled" \in status THEN "COMPLETED"
  ELSE IF "cancel" \in status THEN "CANCELLED"
  ELSE IF "reject" \in status THEN "REJECTED"
  ELSE "PENDING"

\* Any broker or database status to its canonical state.  The first test that
\* hits decides: "cancel pending" is CANCELLED.
Normalize(status) ==
  IF status = {} THEN "NEW"
  ELSE IF "reject" \in status THEN "REJECTED"
  ELSE IF "cancel" \in status THEN "CANCELLED"
  ELSE IF "complete" \in status \/ status \in {{"filled"}, {"executed"}} THEN "COMPLETED"
  ELSE IF "partial" \in status THEN "PARTIAL"
  ELSE IF status \cap LiveWords /= {} THEN "PENDING"
  ELSE IF status = {"new"} THEN "NEW"
  ELSE "PENDING"

\* An incoming state is applied only when it is a legal move to another state;
\* an illegal one is flagged and the current state is kept.
Changed(current, incoming) ==
  current /= incoming /\ incoming \in Transitions[current]

Illegal(current, incoming) ==
  current /= incoming /\ incoming \notin Transitions[current]

\* Mutant: keeps the broker's own text for a partial fill.
TransitionVerbatim(current, incoming) ==
  IF ~Changed(current, incoming) THEN current
  ELSE IF incoming = "PARTIAL" THEN "partially filled" ELSE incoming

Transition(current, incoming) ==
  IF Changed(current, incoming) THEN incoming ELSE current

=============================================================================
