------------------------------ MODULE LiveOrders ------------------------------
(***************************************************************************)
(* The live order path: every placeOrder call between its first check and   *)
(* the row it saves, the broker's order book, cancelOrder, cancelAllOrders  *)
(* and the reconcile() pass of the live engine.                             *)
(*                                                                          *)
(* The backend is one JavaScript thread: what runs between two awaits is    *)
(* one action, and calls interleave only where the code awaits.  A call is  *)
(* therefore a program counter and the local values it keeps across awaits. *)
(* The model covers one user (the owner of the broker account) and one      *)
(* trading day.                                                             *)
(***************************************************************************)
EXTENDS OrderLifecycle, FiniteSets, Integers

CONSTANTS
  Callers,          \* placeOrder calls that may be in flight at the same time
  Cancellers,       \* cancelOrder and cancelAllOrders calls that may be in flight
  Keys,             \* (symbol, side) pairs: what the duplicate guard compares
  BrokerIds,        \* order ids the broker can hand out; bounds the orders
  RowIds,           \* ids of live_orders; bounds the rows
  MaxOrdersPerDay,  \* riskLimits.maxOrdersPerDay; 0 turns the check off
  MayFail,          \* database and broker calls may fail, the process may crash
  None              \* no value

ASSUME MayFailAssumption == MayFail \in BOOLEAN
ASSUME IdAssumption == None \notin BrokerIds /\ None \notin Keys

VARIABLES
  enabled,    \* system_flags.live_trading_enabled; FALSE is kill switch engaged
  book,       \* the broker's order book
  rows,       \* the table live_orders
  fresh,      \* rows younger than the 10 seconds of the duplicate guard
  call,       \* the placeOrder calls
  cancel,     \* the cancelOrder and cancelAllOrders calls
  tick,       \* the running reconcile pass
  young,      \* history: broker orders younger than 10 seconds
  halted,     \* history: calls begun while halted, the halt not lifted since
  lost        \* history: broker ids whose answer or row insert was lost

vars == <<enabled, book, rows, fresh, call, cancel, tick, young, halted, lost>>

------------------------------------------------------------------------------
(* Statuses *)

\* Statuses of the broker's book, as the words they contain (OrderLifecycle).
NoOrder       == {}
Working       == {"open"}
PartFilled    == {"partial", "filled"}
Complete      == {"complete"}
Refused       == {"reject"}
CancelPending == {"cancel", "pending"}
Cancelled     == {"cancel"}

BookStatuses == {NoOrder, Working, PartFilled, Complete, Refused, CancelPending, Cancelled}

\* The status column: a canonical state, or the PLACED of a fresh row.
DbStatuses == States \cup {"PLACED"}

\* Lifecycle state of a status column: normalize() of 'PLACED' is PENDING,
\* every canonical name is its own state.
Canonical(status) == IF status = "PLACED" THEN "PENDING" ELSE status

\* A final status at the broker.
Final == {Complete, Refused, Cancelled}

FreeRow   == [bid |-> None, key |-> None, status |-> "NEW"]
FreeRows  == {r \in RowIds : rows[r] = FreeRow}
FreeIds   == {b \in BrokerIds : book[b].status = NoOrder}
IdleCall  == [pc |-> "idle", key |-> None, bid |-> None]
IdleTick  == [pc |-> "idle", todo |-> {}, was |-> [r \in RowIds |-> "NEW"],
              seen |-> [b \in BrokerIds |-> NoOrder]]
IdleCancel == [pc |-> "idle", bid |-> None, todo |-> {}]

Row == [bid: BrokerIds \cup {None}, key: Keys \cup {None}, status: DbStatuses]

\* Bounds: a call starts only when a row and a broker id are left for it.
RoomForACall ==
  LET inFlight == {c \in Callers : call[c].pc /= "idle"}
  IN  /\ Cardinality(inFlight) < Cardinality(FreeRows)
      /\ Cardinality(inFlight) < Cardinality(FreeIds)

------------------------------------------------------------------------------
(* placeOrder *)

\* The synchronous validation accepts the request (a rejected one changes
\* nothing) and the call asks for the kill-switch flag.
Start(c, k) ==
  /\ call[c].pc = "idle"
  /\ RoomForACall
  /\ call' = [call EXCEPT ![c] = [pc |-> "switch", key |-> k, bid |-> None]]
  /\ halted' = IF enabled THEN halted ELSE halted \cup {c}
  /\ UNCHANGED <<enabled, book, rows, fresh, cancel, tick, young, lost>>

Goto(c, pc) == call' = [call EXCEPT ![c].pc = pc]

\* The call throws: it saves nothing and its caller is told why.
Throw(c) == call' = [call EXCEPT ![c] = IdleCall] /\ halted' = halted \ {c}

\* Mutant: the flag is not looked at.
TradingAlwaysAllowed == TRUE

\* What the read of the flag says: a failed read counts as enabled.
TradingAllowed == enabled \/ MayFail

\* The flag is read.  Market hours, quantity and order value are tested in the
\* same step and may refuse as well.
CheckSwitch(c) ==
  /\ call[c].pc = "switch"
  /\ \/ TradingAllowed /\ Goto(c, "duplicate") /\ UNCHANGED halted
     \/ Throw(c)
  /\ UNCHANGED <<enabled, book, rows, fresh, cancel, tick, young, lost>>

\* A row of the last 10 seconds for the same symbol and side that is neither
\* rejected nor cancelled.
IsDuplicate(k) ==
  \E r \in fresh : rows[r].key = k /\ rows[r].status \notin {"REJECTED", "CANCELLED"}

CheckDuplicate(c) ==
  /\ call[c].pc = "duplicate"
  /\ \/ ~IsDuplicate(call[c].key) /\ Goto(c, "limits") /\ UNCHANGED halted
     \/ (IsDuplicate(call[c].key) \/ MayFail) /\ Throw(c)
  /\ UNCHANGED <<enabled, book, rows, fresh, cancel, tick, young, lost>>

OrdersToday == {r \in RowIds : rows[r] /= FreeRow /\ rows[r].status /= "REJECTED"}

OverDailyLimit == MaxOrdersPerDay > 0 /\ Cardinality(OrdersToday) >= MaxOrdersPerDay

\* The configured limits: orders of the day (a failed count is zero), then
\* position size, daily loss and exposure, which are not modelled here and may
\* refuse any order.
CheckLimits(c) ==
  /\ call[c].pc = "limits"
  /\ \/ (~OverDailyLimit \/ MayFail) /\ Goto(c, "submit") /\ UNCHANGED halted
     \/ Throw(c)
  /\ UNCHANGED <<enabled, book, rows, fresh, cancel, tick, young, lost>>

\* The broker accepts the order: it is in the book before the row is.
Accept(c) ==
  /\ call[c].pc = "submit"
  /\ \E b \in FreeIds :
       /\ book' = [book EXCEPT ![b] =
                      [key |-> call[c].key, status |-> Working, before |-> NoOrder]]
       /\ young' = young \cup {b}
       /\ \/ /\ call' = [call EXCEPT ![c] = [pc |-> "save", key |-> call[c].key, bid |-> b]]
             /\ UNCHANGED lost
          \/ /\ MayFail          \* accepted, but the answer never arrives
             /\ Goto(c, "reject")
             /\ lost' = lost \cup {b}
  /\ UNCHANGED <<enabled, rows, fresh, cancel, tick, halted>>

\* The broker refuses, or cannot be reached.
Refuse(c) ==
  /\ call[c].pc = "submit"
  /\ Goto(c, "reject")
  /\ UNCHANGED <<enabled, book, rows, fresh, cancel, tick, young, halted, lost>>

\* INSERT of one row.  A query that lost its connection is sent again, so the
\* row may be inserted twice, and a failing one may insert nothing.
Insert(c, row, new) ==
  /\ new \subseteq FreeRows
  /\ MayFail \/ \E r \in FreeRows : new = {r}
  /\ rows'  = [r \in RowIds |-> IF r \in new THEN row ELSE rows[r]]
  /\ fresh' = fresh \cup new
  /\ call'  = [call EXCEPT ![c] = IdleCall]
  /\ halted' = halted \ {c}
  /\ UNCHANGED <<enabled, book, cancel, tick, young>>

\* Mutant: the broker's order id is not carried into the row.
PlacedRowWithoutId(c) == [bid |-> None, key |-> call[c].key, status |-> "PLACED"]

PlacedRow(c) == [bid |-> call[c].bid, key |-> call[c].key, status |-> "PLACED"]

Save(c) ==
  /\ call[c].pc = "save"
  /\ \E new \in SUBSET FreeRows :
       /\ Insert(c, PlacedRow(c), new)
       /\ lost' = IF new = {} THEN lost \cup {call[c].bid} ELSE lost

SaveRejection(c) ==
  /\ call[c].pc = "reject"
  /\ \E new \in SUBSET FreeRows :
       Insert(c, [bid |-> None, key |-> call[c].key, status |-> "REJECTED"], new)
  /\ UNCHANGED lost

------------------------------------------------------------------------------
(* Cancelling *)

\* The broker moves an order on; where calls may fail its order book may still
\* report the status the order had before.
BookMoves(b, status) ==
  LET before == IF MayFail THEN book[b].status ELSE NoOrder
  IN  book' = [book EXCEPT ![b] = [key |-> book[b].key, status |-> status, before |-> before]]

\* The broker takes a cancel request for an order that is still working; it
\* refuses any other (the await throws and nothing is written).
BrokerTakesCancel(b) ==
  /\ book[b].status \in {Working, PartFilled}
  /\ BookMoves(b, CancelPending)

CancelRequest(x, b) ==
  /\ cancel[x].pc = "idle"
  /\ BrokerTakesCancel(b)
  /\ \/ cancel' = [cancel EXCEPT ![x] = [IdleCancel EXCEPT !.pc = "mark", !.bid = b]]
     \/ MayFail /\ UNCHANGED cancel       \* taken, but the answer is lost
  /\ UNCHANGED <<enabled, rows, fresh, call, tick, young, halted, lost>>

\* Mutant: leaves it to reconcile to find the final status.
MarkAwaitingCancel(row) == [row EXCEPT !.status = "PENDING"]

MarkCancelled(row) == [row EXCEPT !.status = "CANCELLED"]

\* Every row of the order becomes CANCELLED, whatever its status is by now.
CancelMark(x) ==
  /\ cancel[x].pc = "mark"
  /\ \/ rows' = [r \in RowIds |-> IF rows[r].bid = cancel[x].bid
                                  THEN MarkCancelled(rows[r])
                                  ELSE rows[r]]
     \/ MayFail /\ UNCHANGED rows
  /\ cancel' = [cancel EXCEPT ![x] = IdleCancel]
  /\ UNCHANGED <<enabled, book, fresh, call, tick, young, halted, lost>>

\* What cancelAllOrders takes for an open order.
LooksOpen(status) == status \cap {"open", "trigger", "pending", "validation"} /= {}

BulkRead(x) ==
  /\ cancel[x].pc = "idle"
  /\ LET open == {b \in BrokerIds : LooksOpen(book[b].status)}
     IN  /\ open /= {}
         /\ cancel' = [cancel EXCEPT ![x] = [IdleCancel EXCEPT !.pc = "all", !.todo = open]]
  /\ UNCHANGED <<enabled, book, rows, fresh, call, tick, young, halted, lost>>

\* One cancel of the loop: a refused one is noted and the loop goes on.  The
\* rows are not touched: reconcile has to find out.
BulkCancel(x, b) ==
  /\ cancel[x].pc = "all"
  /\ b \in cancel[x].todo
  /\ \/ BrokerTakesCancel(b)
     \/ (MayFail \/ book[b].status \notin {Working, PartFilled}) /\ UNCHANGED book
  /\ cancel' = IF cancel[x].todo = {b} THEN [cancel EXCEPT ![x] = IdleCancel]
               ELSE [cancel EXCEPT ![x].todo = @ \ {b}]
  /\ UNCHANGED <<enabled, rows, fresh, call, tick, young, halted, lost>>

------------------------------------------------------------------------------
(* reconcile, as one pass of the live engine's tick *)

\* Mutant: takes a partially filled order for a finished one.
OpenRowsButPartial ==
  {r \in RowIds : rows[r].bid /= None /\ rows[r].status \notin Terminal \cup {"PARTIAL"}}

\* The rows reconcile looks at.
OpenRows == {r \in RowIds : rows[r].bid /= None /\ rows[r].status \notin Terminal}

\* The tick reads the flag first and does nothing while trading is halted.
\* Both reads are one step: only this one looks at the flag.
TickRead ==
  /\ tick.pc = "idle"
  /\ TradingAllowed
  /\ OpenRows /= {}
  /\ tick' = [tick EXCEPT !.pc = "book", !.todo = OpenRows,
                !.was = [r \in RowIds |-> IF r \in OpenRows THEN rows[r].status ELSE "NEW"]]
  /\ UNCHANGED <<enabled, book, rows, fresh, call, cancel, young, halted, lost>>

\* The order book as the broker reports it for the rows of the pass; where
\* calls may fail the report may lag by one move.
Reports ==
  LET asked == {rows[r].bid : r \in tick.todo}
      now   == [b \in BrokerIds |-> IF b \in asked THEN book[b].status ELSE NoOrder]
      lag   == [b \in BrokerIds |-> IF b \in asked THEN book[b].before ELSE NoOrder]
  IN  {now} \cup (IF MayFail THEN {lag} ELSE {})

TickBook ==
  /\ tick.pc = "book"
  /\ \/ \E report \in Reports : tick' = [tick EXCEPT !.pc = "apply", !.seen = report]
     \/ MayFail /\ tick' = IdleTick
  /\ UNCHANGED <<enabled, book, rows, fresh, call, cancel, young, halted, lost>>

\* Mutant: what the broker reports is written down as it is.
AppliedBlindly(from, seen) == Normalize(seen)

\* The state the UPDATE writes: an order missing from the report and an
\* illegal move change nothing.
Applied(from, seen) ==
  IF seen = NoOrder THEN from ELSE Transition(from, Normalize(seen))

\* One row of the pass: from the status the pass has read to the one it has
\* seen in the book.  The UPDATE names the row only, and is not sent when
\* nothing changes.
TickApply(r) ==
  LET from == Canonical(tick.was[r])
      to   == Applied(from, tick.seen[rows[r].bid])
  IN  /\ tick.pc = "apply"
      /\ r \in tick.todo
      /\ \/ to /= from /\ rows' = [rows EXCEPT ![r].status = to]
         \/ (to = from \/ MayFail) /\ UNCHANGED rows
      /\ tick' = IF tick.todo = {r} THEN IdleTick
                 ELSE [tick EXCEPT !.todo = @ \ {r}]
      /\ UNCHANGED <<enabled, book, fresh, call, cancel, young, halted, lost>>

------------------------------------------------------------------------------
(* The kill switch, the exchange, the clock and the process *)

\* setLiveTradingEnabled, from any of its callers.
SetSwitch(on) ==
  /\ enabled /= on
  /\ enabled' = on
  /\ halted' = IF on THEN {} ELSE halted
  /\ UNCHANGED <<book, rows, fresh, call, cancel, tick, young, lost>>

Moves == [s \in BookStatuses |->
            CASE s = Working       -> {PartFilled, Complete, Refused, Cancelled}
              [] s = PartFilled    -> {Complete, Cancelled}
              [] s = CancelPending -> {Complete, Cancelled}
              [] OTHER             -> {}]

\* The exchange fills, rejects or expires an order, or answers a cancel
\* request: the fill may still win.
ExchangeMoves(b) ==
  /\ \E s \in Moves[book[b].status] : BookMoves(b, s)
  /\ UNCHANGED <<enabled, rows, fresh, call, cancel, tick, young, halted, lost>>

\* Ten seconds pass for an order and for its row, which is the younger one.
OrderAges(b) ==
  /\ b \in young
  /\ young' = young \ {b}
  /\ UNCHANGED <<enabled, book, rows, fresh, call, cancel, tick, halted, lost>>

RowAges(r) ==
  /\ r \in fresh
  /\ rows[r].bid \notin young
  /\ fresh' = fresh \ {r}
  /\ UNCHANGED <<enabled, book, rows, call, cancel, tick, young, halted, lost>>

\* The process dies and starts again: what was in flight is gone, the database
\* and the broker keep what they have.
Crash ==
  /\ MayFail
  /\ call' = [c \in Callers |-> IdleCall]
  /\ cancel' = [x \in Cancellers |-> IdleCancel]
  /\ tick' = IdleTick
  /\ halted' = {}
  /\ lost' = lost \cup {call[c].bid : c \in {d \in Callers : call[d].pc = "save"}}
  /\ UNCHANGED <<enabled, book, rows, fresh, young>>

------------------------------------------------------------------------------

Init ==
  /\ enabled = TRUE
  /\ book = [b \in BrokerIds |-> [key |-> None, status |-> NoOrder, before |-> NoOrder]]
  /\ rows = [r \in RowIds |-> FreeRow]
  /\ fresh = {}
  /\ call = [c \in Callers |-> IdleCall]
  /\ cancel = [x \in Cancellers |-> IdleCancel]
  /\ tick = IdleTick
  /\ young = {}
  /\ halted = {}
  /\ lost = {}

PlaceOrder(c) ==
  \/ \E k \in Keys : Start(c, k)
  \/ CheckSwitch(c) \/ CheckDuplicate(c) \/ CheckLimits(c)
  \/ Accept(c) \/ Refuse(c) \/ Save(c) \/ SaveRejection(c)

CancelOrder(x) == CancelMark(x) \/ \E b \in BrokerIds : CancelRequest(x, b)

CancelAllOrders(x) == BulkRead(x) \/ \E b \in BrokerIds : BulkCancel(x, b)

Reconcile == TickRead \/ TickBook \/ \E r \in RowIds : TickApply(r)

Clock == (\E b \in BrokerIds : OrderAges(b)) \/ (\E r \in RowIds : RowAges(r))

Next ==
  \/ \E c \in Callers : PlaceOrder(c)
  \/ \E x \in Cancellers : CancelOrder(x) \/ CancelAllOrders(x)
  \/ Reconcile
  \/ \E on \in BOOLEAN : SetSwitch(on)
  \/ \E b \in BrokerIds : ExchangeMoves(b)
  \/ Clock
  \/ Crash

Spec == Init /\ [][Next]_vars

\* The scheduler runs the tick every 30 seconds and never two at once.
FairSpec == Spec /\ WF_vars(Reconcile)
------------------------------------------------------------------------------
(* Properties *)

TypeOK ==
  /\ enabled \in BOOLEAN
  /\ book \in [BrokerIds -> [key: Keys \cup {None}, status: BookStatuses, before: BookStatuses]]
  /\ rows \in [RowIds -> Row]
  /\ fresh \subseteq RowIds
  /\ call \in [Callers -> [pc: {"idle", "switch", "duplicate", "limits",
                                "submit", "save", "reject"},
                           key: Keys \cup {None}, bid: BrokerIds \cup {None}]]
  /\ cancel \in [Cancellers -> [pc: {"idle", "mark", "all"}, bid: BrokerIds \cup {None},
                                 todo: SUBSET BrokerIds]]
  /\ tick \in [pc: {"idle", "book", "apply"}, todo: SUBSET RowIds,
               was: [RowIds -> DbStatuses], seen: [BrokerIds -> BookStatuses]]
  /\ young \subseteq BrokerIds
  /\ halted \subseteq Callers
  /\ lost \subseteq BrokerIds

\* Every order the broker has accepted is named by a row of live_orders, or by
\* the call that is about to save that row; the exceptions are the orders whose
\* answer or INSERT was lost (liveTradingService.js:254-274).
Tracked ==
  \A b \in BrokerIds :
    book[b].status /= NoOrder =>
      \/ b \in lost
      \/ \E r \in RowIds : rows[r].bid = b
      \/ \E c \in Callers : call[c].pc = "save" /\ call[c].bid = b

\* A row says COMPLETED or REJECTED of a broker order only when the broker
\* does, whatever snapshots reconcile worked from (liveExecutionEngine.js:94-115).
TruthfulRows ==
  \A r \in RowIds : rows[r].bid /= None =>
    /\ rows[r].status = "COMPLETED" => book[rows[r].bid].status = Complete
    /\ rows[r].status = "REJECTED"  => book[rows[r].bid].status = Refused

\* The kill switch is a hard stop: a call that began while trading was halted
\* never gets as far as the broker while the halt lasts
\* (liveTradingService.js:161-164, and 216-217 "the kill switch is the hard stop").
HardStop == \A c \in halted : call[c].pc = "switch"

\* Within 10 seconds no two orders for one symbol and side are live at the
\* broker, an order recorded as CANCELLED apart
\* (liveTradingService.js:37-49 and 185-188).
StillLive(b) ==
  /\ book[b].status \notin {Refused, Cancelled, CancelPending}
  /\ \A r \in RowIds : rows[r].bid = b => rows[r].status /= "CANCELLED"

NoDoubleOrder ==
  \A a, b \in young :
    book[a].key = book[b].key /\ StillLive(a) /\ StillLive(b) => a = b

\* A terminal row changes in two ways only: cancelOrder overwrites it with
\* CANCELLED, or a reconcile pass that had read the row before cancelOrder
\* wrote CANCELLED writes what it has seen at the broker.
TerminalMoves ==
  [][\A r \in RowIds :
       rows[r].status \in Terminal /\ rows'[r].status /= rows[r].status =>
         \/ rows'[r].status = "CANCELLED"
         \/ /\ rows[r].status = "CANCELLED"
            /\ rows[r].bid /= None
            /\ r \in tick.todo]_vars

\* The rows implement the order lifecycle (orderLifecycle.js:4-7).
Record == INSTANCE OrderRecord
            WITH Orders <- RowIds,
                 record <- [r \in RowIds |-> Canonical(rows[r].status)]

RecordsFollowLifecycle == Record!Spec

\* A row whose order is final at the broker while the row is still open.
Stale(r) ==
  /\ rows[r].bid /= None
  /\ rows[r].status \notin Terminal
  /\ book[rows[r].bid].status \in Final

\* Unless trading is halted, which stops the tick as well, reconcile brings
\* every stale row to a final status (liveExecutionEngine.js:286-294).
Converges == \A r \in RowIds : Stale(r) ~> (~Stale(r) \/ ~enabled)
=============================================================================
