--------------------------- MODULE LiveOrdersProofs ---------------------------
(***************************************************************************)
(* Proofs about LiveOrders, for any number of calls, orders and rows.       *)
(***************************************************************************)
EXTENDS LiveOrders, TLAPS

(***************************************************************************)
(* The inductive invariant: the type of the state, and what the snapshots   *)
(* of a reconcile pass still say about the present.                         *)
(***************************************************************************)

\* The exchange never moves an order out of a final status.
BookInv == \A b \in BrokerIds : book[b].before \notin Final

\* A call about to save holds the id of an order the broker has.
CallInv ==
  \A c \in Callers : call[c].pc = "save" =>
    call[c].bid \in BrokerIds /\ book[call[c].bid].status /= NoOrder

\* A row with a broker id names an order the broker has.
RowInv ==
  \A r \in RowIds : rows[r].bid /= None => book[rows[r].bid].status /= NoOrder

\* The rows of a pass were open when it read them and only a cancel has
\* changed them since; a final status it has seen is still the order's.
TickInv ==
  /\ tick.pc = "idle" => tick.todo = {}
  /\ \A r \in tick.todo :
       /\ rows[r].bid /= None
       /\ tick.was[r] \notin Terminal
       /\ rows[r].status \in {tick.was[r], "CANCELLED"}
       /\ tick.pc = "apply" /\ tick.seen[rows[r].bid] \in Final =>
            book[rows[r].bid].status = tick.seen[rows[r].bid]

IInv == TypeOK /\ BookInv /\ CallInv /\ RowInv /\ TickInv /\ TruthfulRows

------------------------------------------------------------------------------
(* The lifecycle operators *)

\* normalize() always answers with a canonical state.
LEMMA NormalizeType == \A status : Normalize(status) \in States
BY DEF Normalize, States

\* Only a completed order reads as COMPLETED, only a refused one as REJECTED.
LEMMA NormalizeFinal ==
  \A status \in BookStatuses :
    /\ Normalize(status) = "COMPLETED" => status = Complete
    /\ Normalize(status) = "REJECTED" => status = Refused
<1> SUFFICES ASSUME NEW status \in BookStatuses
             PROVE  /\ Normalize(status) = "COMPLETED" => status = Complete
                    /\ Normalize(status) = "REJECTED" => status = Refused
  OBVIOUS
<1> QED
  BY DEF BookStatuses, NoOrder, Working, PartFilled, Complete, Refused,
         CancelPending, Cancelled, Normalize, LiveWords

\* A status column has a canonical state.
LEMMA CanonicalType == \A status \in DbStatuses : Canonical(status) \in States
BY DEF Canonical, DbStatuses, States

\* A transition ends in a canonical state, and moves only where it may.
LEMMA TransitionType ==
  \A from, to \in States :
    /\ Transition(from, to) \in States
    /\ Transition(from, to) /= from => Transition(from, to) = to
    /\ from \in Terminal => Transition(from, to) = from
BY DEF Transition, Changed, Transitions

\* What reconcile writes is canonical; a change is what the broker reports.
LEMMA AppliedType ==
  \A from \in States : \A seen :
    /\ Applied(from, seen) \in States
    /\ Applied(from, seen) /= from => Applied(from, seen) = Normalize(seen)
BY NormalizeType, TransitionType DEF Applied

------------------------------------------------------------------------------
(* Type correctness and the invariant *)

LEMMA InitInv == Init => IInv
<1> SUFFICES ASSUME Init PROVE IInv
  OBVIOUS
<1> USE DEF Init, FreeRow, IdleCall, IdleCancel, IdleTick
<1>1. NoOrder \in BookStatuses /\ NoOrder \notin Final
  BY DEF BookStatuses, NoOrder, Final, Complete, Refused, Cancelled
<1>2. "NEW" \in DbStatuses
  BY DEF DbStatuses, States
<1>3. TypeOK
  BY <1>1, <1>2 DEF TypeOK, Row
<1>4. BookInv /\ CallInv /\ RowInv /\ TickInv /\ TruthfulRows
  BY <1>1 DEF BookInv, CallInv, RowInv, TickInv, TruthfulRows
<1> QED
  BY <1>3, <1>4 DEF IInv

CallType == [pc: {"idle", "switch", "duplicate", "limits", "submit", "save", "reject"},
             key: Keys \cup {None}, bid: BrokerIds \cup {None}]

CancelType == [pc: {"idle", "mark", "all"}, bid: BrokerIds \cup {None},
               todo: SUBSET BrokerIds]

TickType == [pc: {"idle", "book", "apply"}, todo: SUBSET RowIds,
             was: [RowIds -> DbStatuses], seen: [BrokerIds -> BookStatuses]]

\* A call that only moves its program counter, or ends, disturbs nothing.
LEMMA CallStep ==
  ASSUME IInv, NEW c \in Callers,
         NEW to \in CallType, to.pc /= "save",
         call' = [call EXCEPT ![c] = to],
         UNCHANGED <<book, rows, cancel, tick, fresh, young, lost>>,
         enabled' \in BOOLEAN,
         halted' \subseteq halted \cup {c}
  PROVE  IInv'
<1> USE DEF IInv
<1>1. call' \in [Callers -> CallType]
  BY DEF TypeOK, CallType
<1>2. TypeOK'
  BY <1>1 DEF TypeOK, CallType
<1>3. CallInv'
  BY DEF TypeOK, CallInv, CallType
<1>4. BookInv' /\ RowInv' /\ TickInv' /\ TruthfulRows'
  BY DEF BookInv, RowInv, TickInv, TruthfulRows
<1> QED
  BY <1>2, <1>3, <1>4

\* The broker moves an order that is not final.
LEMMA BookStep ==
  ASSUME IInv, NEW b \in BrokerIds, NEW status \in BookStatuses \ {NoOrder},
         book[b].status \notin Final, BookMoves(b, status),
         UNCHANGED <<rows, tick, enabled, fresh, young, lost, call, halted>>,
         cancel' \in [Cancellers -> CancelType]
  PROVE  IInv'
<1> USE DEF IInv
<1>1. NoOrder \in BookStatuses /\ NoOrder \notin Final
  BY DEF BookStatuses, NoOrder, Final, Complete, Refused, Cancelled
<1>2. /\ \A a \in BrokerIds : book'[a].status = IF a = b THEN status ELSE book[a].status
      /\ \A a \in BrokerIds : book'[a].before \in {book[a].before, book[a].status, NoOrder}
      /\ \A a \in BrokerIds : a /= b => book'[a] = book[a]
      /\ book'[b].before \in {book[b].status, NoOrder}
  BY DEF BookMoves, TypeOK
<1>3. TypeOK'
  <2>1. book' \in [BrokerIds -> [key: Keys \cup {None}, status: BookStatuses,
                                 before: BookStatuses]]
    BY <1>1 DEF BookMoves, TypeOK
  <2> QED
    BY <1>1, <2>1 DEF TypeOK, CancelType
<1>4. BookInv'
  BY <1>1, <1>2 DEF BookInv
<1>5. CallInv' /\ RowInv'
  BY <1>1, <1>2 DEF CallInv, RowInv, TypeOK, Row
<1>6. TickInv'
  BY <1>2 DEF TickInv, TypeOK, Row
<1>7. TruthfulRows'
  <2>1. Complete \in Final /\ Refused \in Final
    BY DEF Final
  <2> QED
    BY <1>2, <2>1 DEF TruthfulRows, TypeOK, Row
<1> QED
  BY <1>3, <1>4, <1>5, <1>6, <1>7

\* The new rows of an INSERT: either they are not named by the broker, or they
\* say PLACED of an order the broker has.
LEMMA InsertStep ==
  ASSUME IInv, NEW c \in Callers, NEW row \in Row, NEW new \in SUBSET FreeRows,
         Insert(c, row, new),
         row.bid /= None => row.status = "PLACED" /\ book[row.bid].status /= NoOrder,
         lost' \subseteq BrokerIds
  PROVE  IInv'
<1> USE DEF IInv
<1>1. /\ new \subseteq RowIds
      /\ \A r \in RowIds : rows'[r] = IF r \in new THEN row ELSE rows[r]
      /\ \A r \in new : rows[r].bid = None
  BY DEF Insert, FreeRows, FreeRow
<1>2. /\ rows' \in [RowIds -> Row]
      /\ \A d \in Callers : call'[d].pc = "save" => call'[d] = call[d]
      /\ UNCHANGED <<book, tick>>
  BY DEF Insert, TypeOK, IdleCall
<1>3. TypeOK'
  BY <1>1, <1>2 DEF TypeOK, Insert, IdleCall
<1>4. BookInv' /\ CallInv'
  BY <1>2 DEF BookInv, CallInv
<1>5. RowInv'
  BY <1>1, <1>2 DEF RowInv
<1>6. TickInv'
  <2>1. tick.todo \cap new = {}
    BY <1>1 DEF TickInv
  <2>2. \A r \in tick.todo : r \in RowIds /\ rows'[r] = rows[r]
    BY <1>1, <2>1 DEF TypeOK
  <2> QED
    BY <1>2, <2>2 DEF TickInv
<1>7. TruthfulRows'
  BY <1>1, <1>2 DEF TruthfulRows
<1> QED
  BY <1>3, <1>4, <1>5, <1>6, <1>7

\* cancelOrder marks rows CANCELLED: a status no invariant speaks of.
LEMMA CancelMarkStep ==
  ASSUME IInv, NEW x \in Cancellers, CancelMark(x)
  PROVE  IInv'
<1> USE DEF IInv
<1>1. /\ \A r \in RowIds : /\ rows'[r].bid = rows[r].bid
                           /\ rows'[r].status \in {rows[r].status, "CANCELLED"}
      /\ rows' \in [RowIds -> Row]
  BY DEF CancelMark, MarkCancelled, TypeOK, Row, DbStatuses, States
<1>2. cancel' \in [Cancellers -> CancelType]
  BY DEF CancelMark, TypeOK, IdleCancel, CancelType
<1>3. UNCHANGED <<enabled, book, fresh, call, tick, young, halted, lost>>
  BY DEF CancelMark
<1>4. TypeOK'
  BY <1>1, <1>2, <1>3 DEF TypeOK, CancelType
<1>5. BookInv' /\ CallInv'
  BY <1>3 DEF BookInv, CallInv
<1>6. RowInv' /\ TruthfulRows'
  BY <1>1, <1>3 DEF RowInv, TruthfulRows
<1>7. TickInv'
  BY <1>1, <1>3 DEF TickInv, TypeOK
<1> QED
  BY <1>4, <1>5, <1>6, <1>7

\* Starting a pass: its rows are open and have just been read.
LEMMA TickReadStep ==
  ASSUME IInv, TickRead
  PROVE  IInv'
<1> USE DEF IInv
<1>1. /\ tick'.pc = "book" /\ tick'.todo = OpenRows
      /\ \A r \in OpenRows : tick'.was[r] = rows[r].status
      /\ UNCHANGED <<enabled, book, rows, fresh, call, cancel, young, halted, lost>>
  BY DEF TickRead, TypeOK, OpenRows
<1>2. tick' \in TickType
  BY DEF TickRead, TypeOK, TickType, OpenRows, Row, DbStatuses, States
<1>3. TypeOK'
  BY <1>1, <1>2 DEF TypeOK, TickType
<1>4. BookInv' /\ CallInv' /\ RowInv' /\ TruthfulRows'
  BY <1>1 DEF BookInv, CallInv, RowInv, TruthfulRows
<1>5. TickInv'
  BY <1>1 DEF TickInv, OpenRows
<1> QED
  BY <1>3, <1>4, <1>5

\* A reported status that is final is the order's: a report that lags by one
\* move shows only a status that was left.
LEMMA TickBookStep ==
  ASSUME IInv, TickBook
  PROVE  IInv'
<1> USE DEF IInv
<1>0. NoOrder \in BookStatuses /\ NoOrder \notin Final
  BY DEF BookStatuses, NoOrder, Final, Complete, Refused, Cancelled
<1>1. UNCHANGED <<enabled, book, rows, fresh, call, cancel, young, halted, lost>>
  BY DEF TickBook
<1>2. BookInv' /\ CallInv' /\ RowInv' /\ TruthfulRows'
  BY <1>1 DEF BookInv, CallInv, RowInv, TruthfulRows
<1>3. CASE tick' = IdleTick
  <2>1. IdleTick \in TickType /\ IdleTick.todo = {}
    BY <1>0 DEF IdleTick, TickType, DbStatuses, States
  <2>2. TypeOK' /\ TickInv'
    BY <1>1, <1>3, <2>1 DEF TypeOK, TickInv, TickType
  <2> QED
    BY <1>2, <2>2
<1>4. CASE \E report \in Reports : tick' = [tick EXCEPT !.pc = "apply", !.seen = report]
  <2>1. PICK report \in Reports : tick' = [tick EXCEPT !.pc = "apply", !.seen = report]
    BY <1>4
  <2> DEFINE asked == {rows[r].bid : r \in tick.todo}
  <2>a. \/ report = [b \in BrokerIds |-> IF b \in asked THEN book[b].status ELSE NoOrder]
        \/ report = [b \in BrokerIds |-> IF b \in asked THEN book[b].before ELSE NoOrder]
    BY <2>1 DEF Reports
  <2> HIDE DEF asked
  <2>2. report \in [BrokerIds -> BookStatuses]
    BY <1>0, <2>a DEF TypeOK
  <2>3. \A b \in BrokerIds : report[b] \in Final => book[b].status = report[b]
    BY <1>0, <2>a DEF BookInv
  <2>4. /\ tick' \in TickType /\ tick'.todo = tick.todo /\ tick'.was = tick.was
        /\ tick'.seen = report /\ tick'.pc = "apply"
    BY <2>1, <2>2 DEF TypeOK, TickType
  <2>5. TypeOK'
    BY <1>1, <2>4 DEF TypeOK, TickType
  <2>6. TickInv'
    BY <1>1, <2>3, <2>4 DEF TickInv, TypeOK, Row
  <2> QED
    BY <1>2, <2>5, <2>6
<1> QED
  BY <1>3, <1>4 DEF TickBook

\* Writing one row of the pass: a terminal status is written only when it has
\* been seen, and then it is still the order's.
LEMMA TickApplyStep ==
  ASSUME IInv, NEW r \in RowIds, TickApply(r)
  PROVE  IInv'
<1> USE DEF IInv
<1> DEFINE from == Canonical(tick.was[r])
           to == Applied(from, tick.seen[rows[r].bid])
<1>1. /\ tick.pc = "apply" /\ r \in tick.todo
      /\ UNCHANGED <<enabled, book, fresh, call, cancel, young, halted, lost>>
      /\ \/ to /= from /\ rows' = [rows EXCEPT ![r].status = to]
         \/ UNCHANGED rows
      /\ \/ tick' = IdleTick
         \/ tick' = [tick EXCEPT !.todo = @ \ {r}]
  BY DEF TickApply
<1>2. from \in States /\ to \in States
  BY CanonicalType, AppliedType DEF TypeOK
<1>3. NoOrder \in BookStatuses /\ IdleTick \in TickType /\ IdleTick.todo = {}
  BY DEF BookStatuses, IdleTick, TickType, DbStatuses, States
<1>4. /\ tick' \in TickType /\ tick'.todo \subseteq tick.todo \ {r}
      /\ tick'.todo /= {} => tick'.was = tick.was /\ tick'.seen = tick.seen /\ tick'.pc = "apply"
      /\ tick'.pc = "idle" => tick'.todo = {}
  BY <1>1, <1>3 DEF TypeOK, TickType
<1>5. /\ rows' \in [RowIds -> Row]
      /\ \A q \in RowIds : rows'[q].bid = rows[q].bid
      /\ \A q \in RowIds : q /= r => rows'[q] = rows[q]
      /\ rows'[r].status /= rows[r].status => to /= from /\ rows'[r].status = to
  <2> HIDE DEF from, to
  <2>1. rows \in [RowIds -> Row]
    BY DEF TypeOK
  <2>2. CASE UNCHANGED rows
    BY <2>1, <2>2
  <2>3. CASE to /= from /\ rows' = [rows EXCEPT ![r].status = to]
    BY <1>2, <2>1, <2>3 DEF Row, DbStatuses
  <2> QED
    BY <1>1, <2>2, <2>3
<1>6. TypeOK'
  BY <1>1, <1>4, <1>5 DEF TypeOK, TickType
<1>7. BookInv' /\ CallInv' /\ RowInv'
  BY <1>1, <1>5 DEF BookInv, CallInv, RowInv
<1>8. TickInv'
  BY <1>1, <1>4, <1>5 DEF TickInv, TypeOK, TickType
<1>9. TruthfulRows'
  <2>1. rows[r].bid \in BrokerIds
    BY <1>1 DEF TickInv, TypeOK, Row
  <2>2. to /= from => to = Normalize(tick.seen[rows[r].bid])
    BY <1>2, AppliedType
  <2>3. /\ to /= from /\ to = "COMPLETED" => book[rows[r].bid].status = Complete
        /\ to /= from /\ to = "REJECTED" => book[rows[r].bid].status = Refused
    <3>1. tick.seen[rows[r].bid] \in BookStatuses
      BY <2>1 DEF TypeOK
    <3>2. Complete \in Final /\ Refused \in Final
      BY DEF Final
    <3> QED
      BY <1>1, <2>2, <3>1, <3>2, NormalizeFinal DEF TickInv
  <2> QED
    BY <1>1, <1>5, <2>3 DEF TruthfulRows
<1> QED
  BY <1>6, <1>7, <1>8, <1>9

\* Accepting an order makes an unused id of the book a working order.
LEMMA AcceptStep ==
  ASSUME IInv, NEW c \in Callers, Accept(c)
  PROVE  IInv'
<1> USE DEF IInv
<1>1. PICK b \in FreeIds :
        /\ book' = [book EXCEPT ![b] =
                       [key |-> call[c].key, status |-> Working, before |-> NoOrder]]
        /\ young' = young \cup {b}
        /\ \/ call' = [call EXCEPT ![c] = [pc |-> "save", key |-> call[c].key, bid |-> b]] /\ UNCHANGED lost
           \/ Goto(c, "reject") /\ lost' = lost \cup {b}
        /\ UNCHANGED <<enabled, rows, fresh, cancel, tick, halted>>
  BY DEF Accept
<1>2. b \in BrokerIds /\ book[b].status = NoOrder
  BY DEF FreeIds
<1>3. /\ NoOrder \in BookStatuses /\ NoOrder \notin Final
      /\ Working \in BookStatuses /\ Working /= NoOrder
  BY DEF BookStatuses, NoOrder, Working, Final, Complete, Refused, Cancelled
<1>4. /\ book' \in [BrokerIds -> [key: Keys \cup {None}, status: BookStatuses,
                                 before: BookStatuses]]
      /\ book'[b].status = Working /\ book'[b].before = NoOrder
      /\ \A a \in BrokerIds : a /= b => book'[a] = book[a]
  BY <1>1, <1>2, <1>3 DEF TypeOK
<1>5. /\ call' \in [Callers -> CallType]
      /\ \A d \in Callers : call'[d].pc = "save" => call'[d] = call[d] \/ call'[d].bid = b
  <2>1. CASE call' = [call EXCEPT ![c] = [pc |-> "save", key |-> call[c].key, bid |-> b]]
    BY <1>2, <2>1 DEF TypeOK, CallType
  <2>2. CASE Goto(c, "reject")
    <3>1. call \in [Callers -> CallType] /\ [call[c] EXCEPT !.pc = "reject"] \in CallType
      BY DEF TypeOK, CallType
    <3>2. /\ call' = [call EXCEPT ![c] = [call[c] EXCEPT !.pc = "reject"]]
          /\ [call[c] EXCEPT !.pc = "reject"].pc = "reject"
      BY <2>2, <3>1 DEF Goto, CallType
    <3> QED
      BY <3>1, <3>2
  <2> QED
    BY <1>1, <2>1, <2>2
<1>6. TypeOK'
  BY <1>1, <1>2, <1>4, <1>5 DEF TypeOK, CallType
<1>7. BookInv' /\ CallInv'
  BY <1>2, <1>3, <1>4, <1>5 DEF BookInv, CallInv
<1>8. RowInv' /\ TruthfulRows' /\ TickInv'
  <2>1. \A r \in RowIds : rows[r].bid /= None => book'[rows[r].bid] = book[rows[r].bid]
    BY <1>2, <1>4 DEF RowInv, TypeOK, Row
  <2>2. RowInv' /\ TruthfulRows'
    BY <1>1, <2>1 DEF RowInv, TruthfulRows
  <2>3. TickInv'
    BY <1>1, <2>1 DEF TickInv, TypeOK
  <2> QED
    BY <2>2, <2>3
<1> QED
  BY <1>6, <1>7, <1>8

\* A crash forgets what was in flight.
LEMMA CrashStep ==
  ASSUME IInv, Crash
  PROVE  IInv'
<1> USE DEF IInv
<1>1. /\ IdleCall \in CallType /\ IdleCall.pc /= "save"
      /\ IdleCancel \in CancelType
      /\ IdleTick \in TickType /\ IdleTick.todo = {}
  BY DEF IdleCall, CallType, IdleCancel, CancelType, IdleTick, TickType, BookStatuses,
         DbStatuses, States
<1>2. /\ call' = [c \in Callers |-> IdleCall] /\ cancel' = [x \in Cancellers |-> IdleCancel]
      /\ tick' = IdleTick /\ halted' = {}
      /\ UNCHANGED <<enabled, book, rows, fresh, young>>
  BY DEF Crash
<1>3. lost' \subseteq BrokerIds
  BY DEF Crash, CallInv, TypeOK
<1>4. TypeOK'
  BY <1>1, <1>2, <1>3 DEF TypeOK, CallType, CancelType, TickType
<1>5. BookInv' /\ CallInv' /\ RowInv' /\ TickInv' /\ TruthfulRows'
  BY <1>1, <1>2 DEF BookInv, CallInv, RowInv, TickInv, TruthfulRows
<1> QED
  BY <1>4, <1>5

\* Steps that touch nothing but the flag, the clock or a cancel call.
LEMMA QuietStep ==
  ASSUME IInv,
         UNCHANGED <<book, rows, call, tick, lost>>,
         enabled' \in BOOLEAN, fresh' \subseteq RowIds, young' \subseteq BrokerIds,
         halted' \subseteq Callers, cancel' \in [Cancellers -> CancelType]
  PROVE  IInv'
<1> USE DEF IInv
<1>1. TypeOK'
  BY DEF TypeOK, CancelType
<1>2. BookInv' /\ CallInv' /\ RowInv' /\ TickInv' /\ TruthfulRows'
  BY DEF BookInv, CallInv, RowInv, TickInv, TruthfulRows
<1> QED
  BY <1>1, <1>2

\* Every step of a placeOrder call.
LEMMA PlaceOrderStep ==
  ASSUME IInv, NEW c \in Callers, PlaceOrder(c)
  PROVE  IInv'
<1>1. /\ IdleCall \in CallType /\ IdleCall.pc = "idle"
      /\ call[c] \in CallType /\ halted \subseteq Callers /\ enabled \in BOOLEAN
      /\ lost \subseteq BrokerIds
  BY DEF IdleCall, CallType, IInv, TypeOK
<1>2. ASSUME NEW k \in Keys, Start(c, k) PROVE IInv'
  <2>1. [pc |-> "switch", key |-> k, bid |-> None] \in CallType
    BY DEF CallType
  <2> QED
    BY <1>1, <1>2, <2>1, CallStep DEF Start
<1>3. ASSUME NEW pc \in {"duplicate", "limits", "submit", "reject"}, Goto(c, pc),
             UNCHANGED <<enabled, book, rows, fresh, cancel, tick, young, lost, halted>>
      PROVE  IInv'
  <2>1. [call[c] EXCEPT !.pc = pc] \in CallType /\ [call[c] EXCEPT !.pc = pc].pc = pc
    BY <1>1, <1>3 DEF CallType
  <2>2. call' = [call EXCEPT ![c] = [call[c] EXCEPT !.pc = pc]]
    BY <1>3 DEF Goto
  <2> QED
    BY <1>1, <1>3, <2>1, <2>2, CallStep
<1>4. ASSUME Throw(c), UNCHANGED <<enabled, book, rows, fresh, cancel, tick, young, lost>>
      PROVE  IInv'
  BY <1>1, <1>4, CallStep DEF Throw
<1>5. CASE CheckSwitch(c)
  BY <1>3, <1>4, <1>5 DEF CheckSwitch
<1>6. CASE CheckDuplicate(c)
  BY <1>3, <1>4, <1>6 DEF CheckDuplicate
<1>7. CASE CheckLimits(c)
  BY <1>3, <1>4, <1>7 DEF CheckLimits
<1>8. CASE Refuse(c)
  BY <1>3, <1>8 DEF Refuse
<1>9. CASE Save(c)
  <2>1. call[c].bid \in BrokerIds /\ book[call[c].bid].status /= NoOrder
    BY <1>9 DEF Save, IInv, CallInv
  <2>2. PlacedRow(c) \in Row /\ PlacedRow(c).bid = call[c].bid /\ PlacedRow(c).status = "PLACED"
    BY <1>1, <2>1 DEF PlacedRow, Row, CallType, DbStatuses
  <2>3. PICK new \in SUBSET FreeRows :
          /\ Insert(c, PlacedRow(c), new)
          /\ lost' = IF new = {} THEN lost \cup {call[c].bid} ELSE lost
    BY <1>9 DEF Save
  <2>4. lost' \subseteq BrokerIds
    BY <1>1, <2>1, <2>3
  <2> QED
    BY <2>1, <2>2, <2>3, <2>4, InsertStep
<1>10. CASE SaveRejection(c)
  <2> DEFINE row == [bid |-> None, key |-> call[c].key, status |-> "REJECTED"]
  <2>1. row \in Row /\ row.bid = None
    BY <1>1 DEF Row, CallType, DbStatuses, States
  <2>2. PICK new \in SUBSET FreeRows : Insert(c, row, new)
    BY <1>10 DEF SaveRejection
  <2>3. lost' \subseteq BrokerIds
    BY <1>1, <1>10 DEF SaveRejection
  <2> HIDE DEF row
  <2> QED
    BY <2>1, <2>2, <2>3, InsertStep
<1> QED
  BY <1>2, <1>5, <1>6, <1>7, <1>8, <1>9, <1>10, AcceptStep DEF PlaceOrder

\* Every step of a cancel call.
LEMMA CancelStep ==
  ASSUME IInv, NEW x \in Cancellers, CancelOrder(x) \/ CancelAllOrders(x)
  PROVE  IInv'
<1>1. /\ NoOrder \in BookStatuses /\ CancelPending \in BookStatuses \ {NoOrder}
      /\ Working \notin Final /\ PartFilled \notin Final
  BY DEF BookStatuses, NoOrder, Working, PartFilled, CancelPending, Final, Complete,
         Refused, Cancelled
<1>2. /\ cancel \in [Cancellers -> CancelType] /\ IdleCancel \in CancelType
      /\ enabled \in BOOLEAN /\ fresh \subseteq RowIds /\ young \subseteq BrokerIds
      /\ halted \subseteq Callers
  BY DEF IInv, TypeOK, CancelType, IdleCancel
<1>3. ASSUME NEW b \in BrokerIds, BrokerTakesCancel(b), cancel' \in [Cancellers -> CancelType],
             UNCHANGED <<enabled, rows, fresh, call, tick, young, halted, lost>>
      PROVE  IInv'
  BY <1>1, <1>3, BookStep DEF BrokerTakesCancel
<1>4. ASSUME NEW b \in BrokerIds, CancelRequest(x, b) PROVE IInv'
  <2>1. [IdleCancel EXCEPT !.pc = "mark", !.bid = b] \in CancelType
    BY DEF IdleCancel, CancelType
  <2>2. cancel' \in [Cancellers -> CancelType]
    BY <1>2, <1>4, <2>1 DEF CancelRequest
  <2> QED
    BY <1>3, <1>4, <2>2 DEF CancelRequest
<1>5. CASE BulkRead(x)
  <2> DEFINE open == {b \in BrokerIds : LooksOpen(book[b].status)}
  <2>1. cancel' = [cancel EXCEPT ![x] = [IdleCancel EXCEPT !.pc = "all", !.todo = open]]
    BY <1>5 DEF BulkRead
  <2>2. [IdleCancel EXCEPT !.pc = "all", !.todo = open] \in CancelType
    BY DEF IdleCancel, CancelType
  <2>3. cancel' \in [Cancellers -> CancelType]
    BY <1>2, <2>1, <2>2
  <2> QED
    BY <1>2, <1>5, <2>3, QuietStep DEF BulkRead
<1>6. ASSUME NEW b \in BrokerIds, BulkCancel(x, b) PROVE IInv'
  <2>1. cancel' \in [Cancellers -> CancelType]
    BY <1>2, <1>6 DEF BulkCancel, CancelType
  <2>2. CASE BrokerTakesCancel(b)
    BY <1>3, <1>6, <2>1, <2>2 DEF BulkCancel
  <2>3. CASE UNCHANGED book
    BY <1>2, <1>6, <2>1, <2>3, QuietStep DEF BulkCancel
  <2> QED
    BY <1>6, <2>2, <2>3 DEF BulkCancel
<1> QED
  BY <1>4, <1>5, <1>6, CancelMarkStep DEF CancelOrder, CancelAllOrders

\* Every step of the system.
LEMMA StepInv == IInv /\ [Next]_vars => IInv'
<1> SUFFICES ASSUME IInv, [Next]_vars PROVE IInv'
  OBVIOUS
<1>1. /\ cancel \in [Cancellers -> CancelType]
      /\ enabled \in BOOLEAN /\ fresh \subseteq RowIds /\ young \subseteq BrokerIds
      /\ halted \subseteq Callers
  BY DEF IInv, TypeOK, CancelType
<1>2. CASE Reconcile
  BY <1>2, TickReadStep, TickBookStep, TickApplyStep DEF Reconcile
<1>3. ASSUME NEW on \in BOOLEAN, SetSwitch(on) PROVE IInv'
  BY <1>1, <1>3, QuietStep DEF SetSwitch
<1>4. ASSUME NEW b \in BrokerIds, ExchangeMoves(b) PROVE IInv'
  <2>1. PICK s \in Moves[book[b].status] : BookMoves(b, s)
    BY <1>4 DEF ExchangeMoves
  <2>2. book[b].status \in BookStatuses
    BY DEF IInv, TypeOK
  <2>3. /\ {Working, PartFilled, CancelPending} \cap Final = {}
        /\ NoOrder \notin Final /\ Final \subseteq BookStatuses
        /\ Final \cup {PartFilled} \subseteq BookStatuses \ {NoOrder}
    BY DEF BookStatuses, NoOrder, Working, PartFilled, Complete, Refused, CancelPending,
           Cancelled, Final
  <2>4. /\ book[b].status \in {Working, PartFilled, CancelPending}
        /\ s \in Final \cup {PartFilled}
    BY <2>1, <2>2 DEF Moves, Final
  <2>5. s \in BookStatuses \ {NoOrder} /\ book[b].status \notin Final
    BY <2>3, <2>4
  <2> QED
    BY <1>1, <1>4, <2>1, <2>5, BookStep DEF ExchangeMoves
<1>5. CASE Clock
  BY <1>1, <1>5, QuietStep DEF Clock, OrderAges, RowAges
<1>6. CASE UNCHANGED vars
  BY <1>1, <1>6, QuietStep DEF vars
<1> QED
  BY <1>2, <1>3, <1>4, <1>5, <1>6, PlaceOrderStep, CancelStep, CrashStep DEF Next

LEMMA Invariant == Spec => []IInv
<1>1. Init => IInv
  BY InitInv
<1>2. IInv /\ [Next]_vars => IInv'
  BY StepInv
<1> QED
  BY <1>1, <1>2, PTL DEF Spec

\* The variables keep their types whatever fails and however the calls
\* interleave.
THEOREM TypeCorrect == Spec => []TypeOK
BY Invariant, PTL DEF IInv

\* A row says COMPLETED or REJECTED only of an order of which the broker says
\* so, for any number of calls, cancels and rows, whatever fails.
THEOREM RowsAreTruthful == Spec => []TruthfulRows
BY Invariant, PTL DEF IInv

------------------------------------------------------------------------------
(* Terminal rows *)

\* A step changes a terminal row only as a cancel, or as a reconcile pass that
\* had read the row before cancelOrder wrote CANCELLED.
LEMMA TerminalStep ==
  ASSUME IInv, [Next]_vars, NEW r \in RowIds, rows[r].status \in Terminal,
         rows'[r].status /= rows[r].status
  PROVE  \/ rows'[r].status = "CANCELLED"
         \/ rows[r].status = "CANCELLED" /\ rows[r].bid /= None /\ r \in tick.todo
<1>1. rows[r].status /= "NEW" /\ rows \in [RowIds -> Row]
  BY DEF Terminal, IInv, TypeOK
<1>2. ASSUME NEW c \in Callers, NEW row, NEW new \in SUBSET FreeRows, Insert(c, row, new)
      PROVE  FALSE
  BY <1>1, <1>2 DEF Insert, FreeRows, FreeRow
<1>3. ASSUME NEW x \in Cancellers, CancelMark(x)
      PROVE  rows'[r].status = "CANCELLED"
  BY <1>1, <1>3 DEF CancelMark, MarkCancelled, Row
<1>4. ASSUME NEW q \in RowIds, TickApply(q)
      PROVE  rows[r].status = "CANCELLED" /\ rows[r].bid /= None /\ r \in tick.todo
  <2>1. q = r /\ r \in tick.todo
    BY <1>1, <1>4 DEF TickApply
  <2>2. tick.was[r] \notin Terminal /\ rows[r].status \in {tick.was[r], "CANCELLED"}
        /\ rows[r].bid /= None
    BY <2>1 DEF IInv, TickInv
  <2> QED
    BY <2>1, <2>2
<1>5. CASE \E c \in Callers : PlaceOrder(c)
  BY <1>2, <1>5 DEF PlaceOrder, Start, CheckSwitch, CheckDuplicate, CheckLimits, Accept,
                    Refuse, Save, SaveRejection
<1>6. CASE \E x \in Cancellers : CancelOrder(x) \/ CancelAllOrders(x)
  BY <1>3, <1>6 DEF CancelOrder, CancelAllOrders, CancelRequest, BulkRead, BulkCancel
<1>7. CASE Reconcile
  BY <1>4, <1>7 DEF Reconcile, TickRead, TickBook
<1> QED
  BY <1>5, <1>6, <1>7 DEF Next, vars, SetSwitch, ExchangeMoves, Clock, OrderAges, RowAges, Crash

\* The ways a recorded order can leave a terminal status, for any number of
\* concurrent cancels.
THEOREM TerminalRowsMove == Spec => TerminalMoves
<1> DEFINE Legal ==
      \A r \in RowIds :
        rows[r].status \in Terminal /\ rows'[r].status /= rows[r].status =>
          \/ rows'[r].status = "CANCELLED"
          \/ /\ rows[r].status = "CANCELLED"
             /\ rows[r].bid /= None
             /\ r \in tick.todo
<1>1. IInv /\ [Next]_vars => [Legal]_vars
  BY TerminalStep
<1> QED
  BY <1>1, Invariant, PTL DEF Spec, TerminalMoves

------------------------------------------------------------------------------
(* Every order is tracked *)

\* A step keeps every order tracked: an id leaves the call that holds it only
\* into a row or into the lost orders.
LEMMA TrackedStep ==
  ASSUME IInv, Tracked, [Next]_vars
  PROVE  Tracked'
<1>0. /\ TypeOK /\ None \notin BrokerIds
      /\ \A c \in Callers : call[c].pc = "save" => call[c].bid \in BrokerIds
  BY IdAssumption DEF IInv, CallInv
<1>4. /\ Working /= NoOrder /\ PartFilled /= NoOrder /\ CancelPending /= NoOrder
      /\ Moves[NoOrder] = {} /\ NoOrder \in BookStatuses
  BY DEF Working, PartFilled, CancelPending, NoOrder, Moves, BookStatuses
<1>5. ASSUME NEW a \in BrokerIds, NEW s, BookMoves(a, s), book[a].status /= NoOrder,
             UNCHANGED <<rows, call, lost>>
      PROVE  Tracked'
  BY <1>0, <1>5 DEF BookMoves, Tracked, TypeOK
<1>6. ASSUME NEW c \in Callers, PlaceOrder(c) PROVE Tracked'
  <2> USE <1>0
  <2>1. ASSUME NEW to, call' = [call EXCEPT ![c] = to], call[c].pc /= "save",
               UNCHANGED <<book, rows, lost>>
        PROVE  Tracked'
    BY <2>1 DEF Tracked, TypeOK
  <2>2. ASSUME NEW row, NEW new \in SUBSET FreeRows, Insert(c, row, new), lost \subseteq lost',
               call[c].pc = "save" => row.bid = call[c].bid,
               call[c].pc = "save" /\ new = {} => call[c].bid \in lost'
        PROVE  Tracked'
    <3>1. /\ \A r \in RowIds : rows[r].bid /= None => rows'[r] = rows[r]
          /\ \A r \in new : r \in RowIds /\ rows'[r] = row
          /\ \A d \in Callers : d /= c => call'[d] = call[d]
          /\ UNCHANGED book
      BY <2>2 DEF Insert, FreeRows, FreeRow, TypeOK
    <3> QED
      BY <2>2, <3>1 DEF Tracked
  <2>3. CASE Accept(c)
    <3>1. PICK a \in FreeIds :
            /\ book' = [book EXCEPT ![a] =
                           [key |-> call[c].key, status |-> Working, before |-> NoOrder]]
            /\ \/ call' = [call EXCEPT ![c] = [pc |-> "save", key |-> call[c].key, bid |-> a]]
                  /\ UNCHANGED lost
               \/ Goto(c, "reject") /\ lost' = lost \cup {a}
            /\ UNCHANGED rows
      BY <2>3 DEF Accept
    <3>2. \A d \in BrokerIds : d /= a => book'[d] = book[d]
      BY <3>1 DEF TypeOK
    <3>3. \A d \in Callers : call[d].pc = "save" => call'[d] = call[d]
      BY <2>3, <3>1 DEF Accept, Goto, TypeOK
    <3>4. a \in lost' \/ (call'[c].pc = "save" /\ call'[c].bid = a)
      BY <3>1 DEF TypeOK
    <3> QED
      BY <3>1, <3>2, <3>3, <3>4 DEF Tracked
  <2>4. CASE Save(c)
    BY <2>2, <2>4 DEF Save, PlacedRow
  <2>5. CASE SaveRejection(c)
    BY <2>2, <2>5 DEF SaveRejection
  <2>6. CASE \E k \in Keys : Start(c, k)
    BY <2>1, <2>6 DEF Start
  <2>7. CASE CheckSwitch(c) \/ CheckDuplicate(c) \/ CheckLimits(c) \/ Refuse(c)
    <3>1. \E to : call' = [call EXCEPT ![c] = to]
      BY <2>7 DEF CheckSwitch, CheckDuplicate, CheckLimits, Refuse, Goto, Throw
    <3> QED
      BY <2>1, <2>7, <3>1 DEF CheckSwitch, CheckDuplicate, CheckLimits, Refuse
  <2> QED
    BY <1>6, <2>3, <2>4, <2>5, <2>6, <2>7 DEF PlaceOrder
<1>7. ASSUME NEW x \in Cancellers, CancelOrder(x) \/ CancelAllOrders(x) PROVE Tracked'
  <2>1. CASE CancelMark(x)
    <3>1. \A r \in RowIds : rows'[r].bid = rows[r].bid
      BY <1>0, <2>1 DEF CancelMark, MarkCancelled, TypeOK, Row
    <3>2. UNCHANGED <<book, call, lost>>
      BY <2>1 DEF CancelMark
    <3> QED
      BY <3>1, <3>2 DEF Tracked
  <2>2. ASSUME NEW a \in BrokerIds, CancelRequest(x, a) \/ BulkCancel(x, a) PROVE Tracked'
    <3>1. CASE BrokerTakesCancel(a)
      BY <1>4, <1>5, <2>2, <3>1 DEF BrokerTakesCancel, CancelRequest, BulkCancel
    <3>2. CASE UNCHANGED book
      BY <2>2, <3>2 DEF CancelRequest, BulkCancel, Tracked
    <3> QED
      BY <2>2, <3>1, <3>2 DEF CancelRequest, BulkCancel
  <2>3. CASE BulkRead(x)
    BY <2>3 DEF BulkRead, Tracked
  <2> QED
    BY <1>7, <2>1, <2>2, <2>3 DEF CancelOrder, CancelAllOrders
<1>8. CASE Reconcile
  <2>1. ASSUME NEW r \in RowIds, TickApply(r) PROVE Tracked'
    <3>1. \A q \in RowIds : rows'[q].bid = rows[q].bid
      BY <1>0, <2>1 DEF TickApply, TypeOK, Row
    <3>2. UNCHANGED <<book, call, lost>>
      BY <2>1 DEF TickApply
    <3> QED
      BY <3>1, <3>2 DEF Tracked
  <2> QED
    BY <1>8, <2>1 DEF Reconcile, TickRead, TickBook, Tracked
<1>9. ASSUME NEW a \in BrokerIds, ExchangeMoves(a) PROVE Tracked'
  BY <1>0, <1>4, <1>5, <1>9 DEF ExchangeMoves
<1>10. CASE Crash
  BY <1>10 DEF Crash, Tracked
<1> QED
  BY <1>6, <1>7, <1>8, <1>9, <1>10
     DEF Next, vars, SetSwitch, Clock, OrderAges, RowAges, Tracked

\* Whatever fails, an order at the broker is missing from live_orders only if
\* its answer or its INSERT was lost.
THEOREM OrdersAreTracked == Spec => []Tracked
<1>1. Init => Tracked
  BY DEF Init, Tracked
<1>2. IInv /\ Tracked /\ [Next]_vars => Tracked'
  BY TrackedStep
<1> QED
  BY <1>1, <1>2, Invariant, PTL DEF Spec

------------------------------------------------------------------------------
(* The kill switch *)

\* Calls begun under a halt are still at the flag, and there are none once
\* trading is enabled again.
HardInv == HardStop /\ (enabled => halted = {})

\* Only a call that has seen the flag set goes past it.
LEMMA HardStep ==
  ASSUME ~MayFail, TypeOK, HardInv, [Next]_vars
  PROVE  HardInv'
<1> USE DEF HardInv, HardStop
<1>1. ASSUME NEW c \in Callers, c \notin halted,
             \A d \in Callers : d /= c => call'[d] = call[d],
             halted' \subseteq halted \ {c}, UNCHANGED enabled
      PROVE  HardInv'
  BY <1>1 DEF TypeOK
<1>2. ASSUME NEW c \in Callers, Throw(c), UNCHANGED enabled PROVE HardInv'
  BY <1>2 DEF Throw, TypeOK
<1>3. ASSUME NEW c \in Callers, PlaceOrder(c) PROVE HardInv'
  <2>1. CASE \E k \in Keys : Start(c, k)
    BY <2>1 DEF Start, TypeOK
  <2>2. CASE CheckSwitch(c)
    <3>1. CASE TradingAllowed /\ Goto(c, "duplicate") /\ UNCHANGED halted
      <4>1. halted = {}
        BY <3>1 DEF TradingAllowed
      <4> QED
        BY <2>2, <3>1, <4>1 DEF CheckSwitch
    <3> QED
      BY <1>2, <2>2, <3>1 DEF CheckSwitch
  <2>3. CASE CheckDuplicate(c) \/ CheckLimits(c) \/ Refuse(c)
    <3>1. c \notin halted
      BY <2>3 DEF CheckDuplicate, CheckLimits, Refuse
    <3>2. CASE Throw(c)
      BY <1>2, <2>3, <3>2 DEF CheckDuplicate, CheckLimits, Refuse
    <3>3. CASE UNCHANGED halted /\ \E pc \in {"limits", "submit", "reject"} : Goto(c, pc)
      BY <1>1, <2>3, <3>1, <3>3 DEF CheckDuplicate, CheckLimits, Refuse, Goto, TypeOK
    <3> QED
      BY <2>3, <3>2, <3>3 DEF CheckDuplicate, CheckLimits, Refuse
  <2>4. CASE Accept(c)
    <3>1. c \notin halted
      BY <2>4 DEF Accept
    <3>2. \A d \in Callers : d /= c => call'[d] = call[d]
      BY <2>4 DEF Accept, Goto, TypeOK
    <3> QED
      BY <1>1, <2>4, <3>1, <3>2 DEF Accept
  <2>5. ASSUME NEW row, NEW new, Insert(c, row, new), call[c].pc /= "switch" PROVE HardInv'
    BY <1>1, <2>5 DEF Insert, TypeOK
  <2> QED
    BY <1>3, <2>1, <2>2, <2>3, <2>4, <2>5 DEF PlaceOrder, Save, SaveRejection
<1>4. ASSUME NEW on \in BOOLEAN, SetSwitch(on) PROVE HardInv'
  BY <1>4 DEF SetSwitch
<1>5. CASE UNCHANGED <<enabled, call, halted>>
  BY <1>5
<1>6. CASE \E x \in Cancellers : CancelOrder(x) \/ CancelAllOrders(x)
  <2>1. UNCHANGED <<enabled, call, halted>>
    BY <1>6 DEF CancelOrder, CancelAllOrders, CancelMark, CancelRequest, BulkRead, BulkCancel
  <2> QED
    BY <1>5, <2>1
<1>7. CASE Reconcile
  <2>1. UNCHANGED <<enabled, call, halted>>
    BY <1>7 DEF Reconcile, TickRead, TickBook, TickApply
  <2> QED
    BY <1>5, <2>1
<1>8. CASE Crash
  BY <1>8 DEF Crash
<1> QED
  BY <1>3, <1>4, <1>5, <1>6, <1>7, <1>8 DEF Next, vars, ExchangeMoves, Clock, OrderAges, RowAges

\* While its reads of the flag succeed, the kill switch is a hard stop for any
\* number of concurrent calls.
THEOREM KillSwitchStops == ASSUME ~MayFail PROVE Spec => []HardStop
<1>1. Init => HardInv
  BY DEF Init, HardInv, HardStop
<1>2. TypeOK /\ HardInv /\ [Next]_vars => HardInv'
  BY HardStep
<1> QED
  BY <1>1, <1>2, TypeCorrect, PTL DEF Spec, HardInv

------------------------------------------------------------------------------
(* The rows implement the order lifecycle *)

\* Without cancelOrder only the pass itself changes the rows it has read.
PassInv == \A r \in tick.todo : rows[r].status = tick.was[r]

LEMMA PassStep ==
  ASSUME Cancellers = {}, IInv, PassInv, [Next]_vars
  PROVE  PassInv'
<1> USE DEF PassInv
<1>1. TypeOK /\ \A r \in tick.todo : r \in RowIds /\ rows[r].bid /= None
  BY DEF IInv, TypeOK, TickInv
<1>2. ASSUME NEW c \in Callers, NEW row, NEW new \in SUBSET FreeRows, Insert(c, row, new)
      PROVE  PassInv'
  <2>1. \A r \in tick.todo : r \notin new
    BY <1>1, <1>2 DEF FreeRows, FreeRow
  <2> QED
    BY <1>1, <1>2, <2>1 DEF Insert
<1>3. CASE \E c \in Callers : PlaceOrder(c)
  BY <1>2, <1>3 DEF PlaceOrder, Start, CheckSwitch, CheckDuplicate, CheckLimits, Accept,
                    Refuse, Save, SaveRejection
<1>4. CASE TickRead
  BY <1>1, <1>4 DEF TickRead, OpenRows, TypeOK
<1>5. CASE TickBook
  <2>1. tick \in TickType
    BY <1>1 DEF TypeOK, TickType
  <2>2. /\ UNCHANGED rows
        /\ \/ tick' = IdleTick
           \/ \E report : tick' = [tick EXCEPT !.pc = "apply", !.seen = report]
    BY <1>5 DEF TickBook
  <2>3. CASE tick' = IdleTick
    BY <2>3 DEF IdleTick
  <2>4. ASSUME NEW report, tick' = [tick EXCEPT !.pc = "apply", !.seen = report]
        PROVE  PassInv'
    <3>1. tick'.todo = tick.todo /\ tick'.was = tick.was
      BY <2>1, <2>4 DEF TickType
    <3> QED
      BY <2>2, <3>1
  <2> QED
    BY <2>2, <2>3, <2>4
<1>6. ASSUME NEW r \in RowIds, TickApply(r) PROVE PassInv'
  <2>1. /\ \A q \in RowIds : q /= r => rows'[q] = rows[q]
        /\ tick'.todo \subseteq tick.todo \ {r}
        /\ tick'.todo /= {} => tick'.was = tick.was
    BY <1>1, <1>6 DEF TickApply, TypeOK, IdleTick
  <2> QED
    BY <1>1, <2>1
<1>7. CASE Crash
  BY <1>7 DEF Crash, IdleTick
<1> QED
  BY <1>3, <1>4, <1>5, <1>6, <1>7
     DEF Next, vars, Reconcile, SetSwitch, ExchangeMoves, Clock, OrderAges, RowAges

recorded == [r \in RowIds |-> Canonical(rows[r].status)]

\* Every step that changes rows is one batch of lifecycle updates.
LEMMA RecordStep ==
  ASSUME Cancellers = {}, IInv, PassInv, [Next]_vars
  PROVE  [Record!Next]_recorded
<1>1. rows \in [RowIds -> Row] /\ recorded \in [RowIds -> States]
  BY CanonicalType DEF IInv, TypeOK, recorded, Row
<1>2. ASSUME NEW incoming \in [RowIds -> States],
             \A r \in RowIds : recorded'[r] = Transition(recorded[r], incoming[r])
      PROVE  Record!Next
  <2>1. recorded' = [r \in RowIds |-> recorded'[r]]
    BY DEF recorded
  <2> QED
    BY <1>2, <2>1 DEF Record!Next, Record!Update, Record!Transition, Record!Changed,
       Record!Transitions, Record!Terminal, Record!States, Transition, Changed, Transitions,
       Terminal, States, recorded
<1>3. CASE UNCHANGED rows
  BY <1>3 DEF recorded
<1>4. ASSUME NEW c \in Callers, NEW row \in Row, NEW new \in SUBSET FreeRows,
             Insert(c, row, new), row.status \in {"PLACED", "REJECTED"}
      PROVE  Record!Next
  <2> DEFINE incoming == [r \in RowIds |-> IF r \in new THEN Canonical(row.status)
                                          ELSE recorded[r]]
  <2>1. Canonical(row.status) \in {"PENDING", "REJECTED"}
    BY <1>4 DEF Canonical
  <2>2. incoming \in [RowIds -> States]
    BY <1>1, <2>1 DEF States
  <2>3. \A r \in new : recorded[r] = "NEW"
    BY <1>4 DEF recorded, Canonical, FreeRows, FreeRow
  <2>4. \A r \in RowIds : recorded'[r] = incoming[r]
    BY <1>4 DEF Insert, recorded
  <2>5. \A r \in RowIds : incoming[r] = Transition(recorded[r], incoming[r])
    BY <2>1, <2>3 DEF Transition, Changed, Transitions, States, Terminal
  <2> HIDE DEF incoming
  <2> QED
    BY <1>2, <2>2, <2>4, <2>5
<1>5. ASSUME NEW r \in RowIds, TickApply(r)
      PROVE  Record!Next \/ UNCHANGED rows
  <2> DEFINE from == Canonical(tick.was[r])
             seen == tick.seen[rows[r].bid]
             incoming == [recorded EXCEPT ![r] = Normalize(seen)]
  <2>1. CASE UNCHANGED rows
    BY <2>1
  <2>2. CASE Applied(from, seen) /= from /\ rows' = [rows EXCEPT ![r].status = Applied(from, seen)]
    <3>1. recorded[r] = from /\ from \in States
      BY <1>1, <1>5 DEF PassInv, TickApply, recorded
    <3>2. Applied(from, seen) = Transition(from, Normalize(seen))
      BY <2>2 DEF Applied
    <3>3. Applied(from, seen) \in States
      BY <3>1, AppliedType
    <3>4. rows'[r].status = Applied(from, seen) /\ \A q \in RowIds : q /= r => rows'[q] = rows[q]
      BY <1>1, <2>2 DEF Row
    <3>5. incoming \in [RowIds -> States] /\ incoming[r] = Normalize(seen)
          /\ \A q \in RowIds : q /= r => incoming[q] = recorded[q]
      BY <1>1, NormalizeType
    <3>6. \A q \in RowIds : recorded'[q] = Transition(recorded[q], incoming[q])
      <4> HIDE DEF from, seen, incoming
      <4>1. recorded'[r] = Applied(from, seen)
        BY <3>3, <3>4 DEF recorded, Canonical, States
      <4>2. \A q \in RowIds : q /= r => recorded'[q] = recorded[q]
        BY <3>4 DEF recorded
      <4>3. \A q \in RowIds : q /= r => Transition(recorded[q], incoming[q]) = recorded[q]
        BY <3>5 DEF Transition
      <4> QED
        BY <3>1, <3>2, <3>5, <4>1, <4>2, <4>3
    <3> HIDE DEF incoming
    <3> QED
      BY <1>2, <3>5, <3>6
  <2> QED
    BY <1>5, <2>1, <2>2 DEF TickApply
<1>6. ASSUME NEW c \in Callers, PlaceOrder(c)
      PROVE  Record!Next \/ UNCHANGED rows
  <2>1. CASE Save(c)
    <3>1. PlacedRow(c) \in Row /\ PlacedRow(c).status = "PLACED"
      BY <1>6 DEF PlacedRow, Row, DbStatuses, IInv, TypeOK
    <3> QED
      BY <1>4, <2>1, <3>1 DEF Save
  <2>2. CASE SaveRejection(c)
    <3>1. [bid |-> None, key |-> call[c].key, status |-> "REJECTED"] \in Row
      BY <1>6 DEF Row, DbStatuses, States, IInv, TypeOK
    <3> QED
      BY <1>4, <2>2, <3>1 DEF SaveRejection
  <2> QED
    BY <1>6, <2>1, <2>2 DEF PlaceOrder, Start, CheckSwitch, CheckDuplicate, CheckLimits,
                            Accept, Refuse
<1> QED
  BY <1>3, <1>5, <1>6 DEF Next, vars, Reconcile, TickRead, TickBook, SetSwitch, ExchangeMoves,
                          Clock, OrderAges, RowAges, Crash

\* Without cancelOrder the rows implement the abstract lifecycle, although the
\* order book lags, calls fail and rows are inserted twice.
THEOREM RowsFollowLifecycle ==
  ASSUME Cancellers = {} PROVE Spec => RecordsFollowLifecycle
<1>1. Init => PassInv /\ Record!Init
  BY DEF Init, PassInv, Record!Init, IdleTick, FreeRow, Canonical
<1>2. IInv /\ PassInv /\ [Next]_vars => PassInv'
  BY PassStep
<1>3. IInv /\ PassInv /\ [Next]_vars => [Record!Next]_recorded
  BY RecordStep
<1>4. Spec => []PassInv
  BY <1>1, <1>2, Invariant, PTL DEF Spec
<1> QED
  BY <1>1, <1>3, <1>4, Invariant, PTL DEF Spec, RecordsFollowLifecycle, Record!Spec, recorded

=============================================================================
