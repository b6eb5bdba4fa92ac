---------------------------- MODULE PaperPortfolio ----------------------------
(***************************************************************************)
(* The paper portfolio of one user: the tables portfolios and sim_trades,   *)
(* the cache portfolioState keeps in front of them, and the requests that   *)
(* read and trade through the cache.                                        *)
(*                                                                          *)
(* A call is a program counter with the values it keeps across awaits.  A   *)
(* query is two actions: the moment the database answers and the moment the *)
(* call resumes and assigns; between them other calls run.  A transaction   *)
(* that locks the portfolio's row is one action.                            *)
(***************************************************************************)
EXTENDS FiniteSetsExt, Integers

CONSTANTS
  Callers,         \* requests that may be in flight at the same time
  Kinds,           \* what they ask for
  Symbols,
  Qtys,            \* quantities of a manual trade
  Values,          \* what a trade may cost or bring
  InitialCapital,  \* the capital every portfolio starts with
  LastId,          \* bound: portfolios created
  MaxTurnover,     \* bound: what all trades cost and brought when a request begins
  MayFail,         \* database calls may fail, the process may restart
  Unread           \* no positions in the cache

ASSUME PortfolioAssumption ==
  /\ Symbols /= {} /\ Kinds \subseteq {"buy", "sell", "exit", "view", "reset", "start"}
  /\ Qtys \subseteq Nat \ {0} /\ Values \subseteq Nat \ {0}
  /\ InitialCapital \in Nat /\ LastId \in Nat /\ MaxTurnover \in Nat
  /\ MayFail \in BOOLEAN
  /\ Unread \notin [Symbols -> Nat]

VARIABLES
  portfolios,  \* the rows of portfolios by id, with the sums over their sim_trades
  cache,       \* the user's entry of _caches
  call,        \* the running requests
  torn,        \* history: portfolios whose reset overlapped a trade
  disturbed    \* history: two calls have overlapped, or a commit's answer was lost

vars == <<portfolios, cache, call, torn, disturbed>>

Ids == 1..LastId
None == 0

NoPositions == [s \in Symbols |-> 0]

\* A row and the ledger behind it: per symbol what was bought and sold, and
\* what all trades have cost and brought.
NoRow  == [status |-> "none", capital |-> 0, bought |-> NoPositions, sold |-> NoPositions,
           cost |-> 0, brought |-> 0]
NewRow == [NoRow EXCEPT !.status = "ACTIVE", !.capital = InitialCapital]

EmptyCache == [id |-> None, capital |-> 0, positions |-> Unread, fresh |-> FALSE]

Idle == [pc |-> "idle", kind |-> "view", sym |-> CHOOSE s \in Symbols : TRUE, qty |-> 0,
         value |-> 0, id |-> None, got |-> 0, seen |-> NoPositions, todo |-> NoPositions,
         gone |-> NoRow]

Initialized == cache.id /= None

\* Mutant: a symbol oversold keeps its negative quantity.
SignedPositions(row) == [s \in Symbols |-> row.bought[s] - row.sold[s]]

\* The positions a ledger adds up to; a symbol sold out or oversold is gone.
Positions(row) ==
  [s \in Symbols |-> IF row.bought[s] > row.sold[s] THEN row.bought[s] - row.sold[s] ELSE 0]

\* getActivePortfolio(): there is one at most, by a unique index.
ActiveIds == {i \in Ids : portfolios[i].status = "ACTIVE"}
Active == IF ActiveIds = {} THEN None ELSE CHOOSE i \in ActiveIds : TRUE

WithinBound ==
  MapThenSumSet(LAMBDA i : portfolios[i].cost + portfolios[i].brought, Ids) <= MaxTurnover

Become(x, c) == call' = [call EXCEPT ![x] = c]

\* A call goes on without the values it has no more use for.
Goto(x, pc) == Become(x, [call[x] EXCEPT !.pc = pc, !.got = 0, !.seen = NoPositions, !.gone = NoRow])

Return(x) == Become(x, Idle)

\* A transaction has committed; the call goes on, unless the answer is lost.
Answer(x, c) ==
  \/ Become(x, c) /\ UNCHANGED disturbed
  \/ MayFail /\ Return(x) /\ disturbed' = TRUE

history == <<torn, disturbed>>

------------------------------------------------------------------------------
(* A request arrives *)

\* Where a request begins: a manual trade with executeBuy or executeSell, the
\* others with the state.
Entry(kind) ==
  IF kind = "start" THEN "create" ELSE IF kind \in {"buy", "sell"} THEN "trade" ELSE "state"

Request(x) ==
  /\ call[x].pc = "idle"
  /\ WithinBound
  /\ \E kind \in Kinds, s \in Symbols, q \in Qtys, v \in Values :
       LET c == [Idle EXCEPT !.pc = Entry(kind), !.kind = kind, !.sym = s]
       IN  Become(x, IF kind \in {"buy", "sell"} THEN [c EXCEPT !.qty = q, !.value = v] ELSE c)
  /\ disturbed' = (disturbed \/ \E y \in Callers \ {x} : call[y].pc /= "idle")
  /\ UNCHANGED <<portfolios, cache, torn>>

------------------------------------------------------------------------------
(* _hydrate *)

Find(x) ==
  /\ call[x].pc = "find"
  /\ Become(x, [call[x] EXCEPT !.pc = "found", !.id = Active,
                               !.got = IF Active = None THEN 0 ELSE portfolios[Active].capital])
  /\ UNCHANGED <<portfolios, cache, history>>

\* Without a portfolio a trade throws, a view shows an empty state.
Found(x) ==
  /\ call[x].pc = "found"
  /\ \/ /\ call[x].id = None
        /\ cache' = EmptyCache
        /\ Return(x)
     \/ /\ call[x].id /= None
        /\ cache' = [cache EXCEPT !.id = call[x].id, !.capital = call[x].got]
        /\ Goto(x, "load")
  /\ UNCHANGED <<portfolios, history>>

Load(x) ==
  /\ call[x].pc = "load"
  /\ Become(x, [call[x] EXCEPT !.pc = "loaded", !.seen = Positions(portfolios[call[x].id])])
  /\ UNCHANGED <<portfolios, cache, history>>

\* A trade has a quantity until it is saved.
AfterHydrate(c) == IF c.qty > 0 THEN "trade" ELSE "state"

Loaded(x) ==
  /\ call[x].pc = "loaded"
  /\ cache' = [cache EXCEPT !.positions = call[x].seen, !.fresh = TRUE]
  /\ Become(x, [call[x] EXCEPT !.pc = AfterHydrate(call[x]), !.id = None, !.seen = NoPositions])
  /\ UNCHANGED <<portfolios, history>>

------------------------------------------------------------------------------
(* getState *)

\* Fresh positions are used as they are, others are read again.
State(x) ==
  /\ call[x].pc = "state"
  /\ \/ Initialized /\ cache.fresh /\ Goto(x, "shown")
     \/ /\ ~cache.fresh /\ Initialized
        /\ Become(x, [call[x] EXCEPT !.pc = "refresh", !.seen = Positions(portfolios[cache.id])])
     \/ ~Initialized /\ Goto(x, "find")
  /\ UNCHANGED <<portfolios, cache, history>>

Refreshed(c, seen) == [c EXCEPT !.positions = seen, !.fresh = TRUE]

Refresh(x) ==
  /\ call[x].pc = "refresh"
  /\ cache' = Refreshed(cache, call[x].seen)
  /\ Goto(x, "capital")
  /\ UNCHANGED <<portfolios, history>>

ReadCapital(x) ==
  /\ call[x].pc = "capital"
  /\ Become(x, [call[x] EXCEPT !.pc = "balance",
                               !.got = IF Active = None THEN cache.capital ELSE portfolios[Active].capital])
  /\ UNCHANGED <<portfolios, cache, history>>

Balance(x) ==
  /\ call[x].pc = "balance"
  /\ cache' = [cache EXCEPT !.capital = call[x].got]
  /\ Goto(x, "shown")
  /\ UNCHANGED <<portfolios, history>>

\* The state is there: an exit takes its positions, a reset begins, the others
\* answer.
Shown(x) ==
  /\ call[x].pc = "shown"
  /\ LET c == call[x]
         held == IF cache.positions = Unread THEN NoPositions ELSE cache.positions
     IN  \/ c.kind = "view" /\ Return(x)
         \/ /\ c.kind = "exit"
            /\ \/ \E set \in {Symbols, {c.sym}} :
                    /\ \E s \in set : held[s] > 0
                    /\ Become(x, [c EXCEPT !.pc = "exit",
                                           !.todo = [s \in Symbols |-> IF s \in set THEN held[s] ELSE 0]])
               \/ held[c.sym] = 0 /\ Return(x)
         \/ /\ c.kind = "reset" /\ Initialized
            /\ Become(x, [c EXCEPT !.pc = "delete", !.id = cache.id])
         \/ c.kind = "reset" /\ ~Initialized /\ Return(x)
  /\ UNCHANGED <<portfolios, cache, history>>

------------------------------------------------------------------------------
(* executeBuy, executeSell, exitOne and exitAll *)

\* What remains of a request once its trade is saved.
AfterTrade(c) ==
  IF c.kind = "exit" THEN [Idle EXCEPT !.pc = "exit", !.kind = "exit", !.todo = c.todo]
  ELSE [Idle EXCEPT !.pc = "state"]

\* A refused trade ends a manual request and exitOne; exitAll goes on.
Refused(x) ==
  \/ (call[x].kind /= "exit" \/ call[x].todo = NoPositions) /\ Return(x)
  \/ call[x].kind = "exit" /\ Become(x, AfterTrade(call[x]))

\* The next position of the exit, in the quantity the state showed.
ExitNext(x) ==
  /\ call[x].pc = "exit"
  /\ \/ \E s \in Symbols, v \in Values :
          /\ call[x].todo[s] > 0
          /\ Become(x, [call[x] EXCEPT !.pc = "trade", !.sym = s, !.value = v, !.qty = call[x].todo[s],
                                       !.todo = [@ EXCEPT ![s] = 0]])
     \/ call[x].todo = NoPositions /\ Become(x, [Idle EXCEPT !.pc = "state"])
  /\ UNCHANGED <<portfolios, cache, history>>

CachedQty(s) == IF cache.positions = Unread THEN 0 ELSE cache.positions[s]

\* A symbol that is not held has the quantity 0.
Covers(held, qty) == qty <= held

\* A sale is checked against the cached position, however old, or else against
\* the database.
Trade(x) ==
  /\ call[x].pc = "trade"
  /\ LET c == call[x]
     IN  \/ ~Initialized /\ Goto(x, "find")
         \/ /\ Initialized
            /\ c.kind = "buy" \/ (CachedQty(c.sym) > 0 /\ Covers(CachedQty(c.sym), c.qty))
            /\ Become(x, [c EXCEPT !.pc = "commit", !.id = cache.id])
         \/ /\ Initialized /\ c.kind /= "buy" /\ CachedQty(c.sym) = 0
            /\ Become(x, [c EXCEPT !.pc = "position", !.id = cache.id])
         \/ /\ Initialized /\ c.kind /= "buy" /\ CachedQty(c.sym) > 0 /\ ~Covers(CachedQty(c.sym), c.qty)
            /\ Refused(x)
  /\ UNCHANGED <<portfolios, cache, history>>

ReadPosition(x) ==
  /\ call[x].pc = "position"
  /\ Become(x, [call[x] EXCEPT !.pc = "check", !.seen = Positions(portfolios[call[x].id])])
  /\ UNCHANGED <<portfolios, cache, history>>

Check(x) ==
  /\ call[x].pc = "check"
  /\ LET c == call[x]
     IN  \/ /\ Covers(c.seen[c.sym], c.qty)
            /\ Become(x, [c EXCEPT !.pc = "commit", !.id = cache.id, !.seen = NoPositions])
         \/ ~Covers(c.seen[c.sym], c.qty) /\ Refused(x)
  /\ UNCHANGED <<portfolios, cache, history>>

\* Mutant: the capital of the cache, not the locked row's, is the balance.
AffordsCached(row, value) == cache.capital >= value

Affords(row, value) == row.capital >= value

Bought(row, c) == [row EXCEPT !.capital = row.capital - c.value, !.cost = row.cost + c.value,
                              !.bought = [row.bought EXCEPT ![c.sym] = @ + c.qty]]

\* Mutant: the proceeds are booked without the row's balance being touched.
SoldUncredited(row, c) == [row EXCEPT !.brought = @ + c.value, !.sold = [@ EXCEPT ![c.sym] = @ + c.qty]]

Sold(row, c) == [row EXCEPT !.capital = row.capital + c.value, !.brought = row.brought + c.value,
                            !.sold = [row.sold EXCEPT ![c.sym] = @ + c.qty]]

NoTrades(row) == row.cost = 0 /\ row.brought = 0

Restoring(y, i) == call[y].pc = "restore" /\ call[y].id = i

\* saveTrade locks the row and looks at nothing but its capital; that the
\* portfolio may be closed, or the quantity no longer held, it does not see.
\* Another call may have emptied the cache: then there is no portfolio.
Commit(x) ==
  /\ call[x].pc = "commit"
  /\ LET c == call[x]
         ok == c.id /= None /\ (c.kind = "buy" => Affords(portfolios[c.id], c.value))
         new == IF c.kind = "buy" THEN Bought(portfolios[c.id], c) ELSE Sold(portfolios[c.id], c)
     IN  \/ /\ ok
            /\ portfolios' = [portfolios EXCEPT ![c.id] = new]
            /\ torn' = IF \E y \in Callers : Restoring(y, c.id) THEN torn \cup {c.id} ELSE torn
            /\ Answer(x, [c EXCEPT !.pc = "saved", !.got = new.capital])
         \/ /\ ~ok
            /\ Refused(x)
            /\ UNCHANGED <<portfolios, history>>
  /\ UNCHANGED cache

\* Mutant: the cached positions survive the trade.
BookedOnly(c, capital) == [c EXCEPT !.capital = capital]

Booked(c, capital) == [c EXCEPT !.capital = capital, !.positions = Unread, !.fresh = FALSE]

Saved(x) ==
  /\ call[x].pc = "saved"
  /\ cache' = Booked(cache, call[x].got)
  /\ Become(x, AfterTrade(call[x]))
  /\ UNCHANGED <<portfolios, history>>

------------------------------------------------------------------------------
(* resetToInitial and initialize *)

\* The transaction deletes the trades it finds, waiting for those another reset
\* has deleted and not committed; its second statement sets the capital and is
\* the first to lock the portfolio's row.
Delete(x) ==
  /\ call[x].pc = "delete"
  /\ \A y \in Callers : Restoring(y, call[x].id) => NoTrades(call[y].gone)
  /\ Become(x, [call[x] EXCEPT !.pc = "restore", !.gone = portfolios[call[x].id]])
  /\ UNCHANGED <<portfolios, cache, history>>

\* A trade saved since the deletion stays in the ledger.
Without(row, gone) ==
  [row EXCEPT !.status = "ACTIVE", !.capital = InitialCapital,
              !.bought = [s \in Symbols |-> row.bought[s] - gone.bought[s]],
              !.sold = [s \in Symbols |-> row.sold[s] - gone.sold[s]],
              !.cost = row.cost - gone.cost, !.brought = row.brought - gone.brought]

\* A closed portfolio cannot become active beside another one.
Restore(x) ==
  /\ call[x].pc = "restore"
  /\ LET c == call[x]
     IN  \/ /\ ActiveIds \subseteq {c.id}
            /\ portfolios' = [portfolios EXCEPT ![c.id] = Without(@, c.gone)]
            /\ Answer(x, [c EXCEPT !.pc = "restored", !.gone = NoRow])
         \/ /\ ~(ActiveIds \subseteq {c.id})
            /\ Return(x)
            /\ UNCHANGED <<portfolios, disturbed>>
  /\ UNCHANGED <<cache, torn>>

Restored(x) ==
  /\ call[x].pc = "restored"
  /\ cache' = [cache EXCEPT !.capital = InitialCapital, !.positions = NoPositions, !.fresh = TRUE]
  /\ Become(x, [Idle EXCEPT !.pc = "state"])
  /\ UNCHANGED <<portfolios, history>>

\* createPortfolio closes what is active and inserts the new row.
Create(x) ==
  /\ call[x].pc = "create"
  /\ \E i \in Ids :
       /\ portfolios[i].status = "none" /\ \A j \in 1..(i - 1) : portfolios[j].status /= "none"
       /\ portfolios' = [j \in Ids |-> IF j = i THEN NewRow
                                       ELSE IF j \in ActiveIds
                                            THEN [portfolios[j] EXCEPT !.status = "CLOSED"]
                                            ELSE portfolios[j]]
       /\ Answer(x, [call[x] EXCEPT !.pc = "created", !.id = i])
  /\ UNCHANGED <<cache, torn>>

CreatedCache(i) ==
  [id |-> i, capital |-> InitialCapital, positions |-> NoPositions, fresh |-> TRUE]

Created(x) ==
  /\ call[x].pc = "created"
  /\ cache' = CreatedCache(call[x].id)
  /\ Become(x, [Idle EXCEPT !.pc = "state"])
  /\ UNCHANGED <<portfolios, history>>

------------------------------------------------------------------------------
(* The clock, failures and restarts *)

\* CACHE_TTL_MS have passed.
Expire ==
  /\ cache.fresh
  /\ cache' = [cache EXCEPT !.fresh = FALSE]
  /\ UNCHANGED <<portfolios, call, history>>

\* A query or transaction fails and changes nothing; a failed trade is refused,
\* what else fails ends the request.
QueryFails(x) ==
  /\ MayFail
  /\ \/ call[x].pc \in {"position", "commit"} /\ Refused(x)
     \/ call[x].pc \in {"find", "load", "refresh", "capital", "delete", "restore", "create"} /\ Return(x)
  /\ UNCHANGED <<portfolios, cache, history>>

Restart ==
  /\ cache' = EmptyCache
  /\ call' = [x \in Callers |-> Idle]
  /\ UNCHANGED <<portfolios, history>>

------------------------------------------------------------------------------

Init ==
  /\ portfolios = [i \in Ids |-> NoRow]
  /\ cache = EmptyCache
  /\ call = [x \in Callers |-> Idle]
  /\ torn = {}
  /\ disturbed = FALSE

Hydrate(x)  == Find(x) \/ Found(x) \/ Load(x) \/ Loaded(x)
GetState(x) == State(x) \/ Refresh(x) \/ ReadCapital(x) \/ Balance(x) \/ Shown(x)
Execute(x)  == ExitNext(x) \/ Trade(x) \/ ReadPosition(x) \/ Check(x) \/ Commit(x) \/ Saved(x)
ResetToInitial(x) == Delete(x) \/ Restore(x) \/ Restored(x)
Initialize(x) == Create(x) \/ Created(x)

Next ==
  \/ \E x \in Callers :
       \/ Request(x) \/ QueryFails(x)
       \/ Hydrate(x) \/ GetState(x) \/ Execute(x) \/ ResetToInitial(x) \/ Initialize(x)
  \/ Expire
  \/ Restart

Spec == Init /\ [][Next]_vars

------------------------------------------------------------------------------
(* Properties *)

Row == [status: {"none", "ACTIVE", "CLOSED"}, capital: Int, bought: [Symbols -> Int],
        sold: [Symbols -> Int], cost: Int, brought: Int]

CallType ==
  [pc: {"idle", "find", "found", "load", "loaded", "state", "refresh", "capital", "balance",
        "shown", "exit", "trade", "position", "check", "commit", "saved", "delete", "restore",
        "restored", "create", "created"},
   kind: {"buy", "sell", "exit", "view", "reset", "start"}, sym: Symbols, qty: Nat, value: Nat,
   id: Ids \cup {None}, got: Int, seen: [Symbols -> Nat], todo: [Symbols -> Nat], gone: Row]

TypeOK ==
  /\ portfolios \in [Ids -> Row]
  /\ cache \in [id: Ids \cup {None}, capital: Int, positions: [Symbols -> Nat] \cup {Unread},
                fresh: BOOLEAN]
  /\ call \in [Callers -> CallType]
  /\ torn \subseteq Ids /\ disturbed \in BOOLEAN

\* No interleaving of purchases, resets and restarts spends more than a
\* portfolio has (portfolioRepository.js:198-216).
NeverOverspent == \A i \in Ids : portfolios[i].capital >= 0

\* The capital is what the ledger makes of the initial capital; only a trade
\* saved while a reset is under way parts them (portfolioRepository.js:123-146).
LedgerBalances ==
  \A i \in Ids \ torn : portfolios[i].status /= "none" =>
    portfolios[i].capital = InitialCapital - portfolios[i].cost + portfolios[i].brought

\* No more of a symbol is sold than was bought: a sale checks the position and
\* reduces it (tradeController.js:137, portfolioState.js:133-136).
NeverOversold == \A i \in Ids, s \in Symbols : portfolios[i].bought[s] >= portfolios[i].sold[s]

\* One request at a time, whatever fails before its commit and wherever the
\* process restarts, nothing is oversold; and an idle cache names the active portfolio
\* with its capital, and the positions it holds are those of the ledger
\* (portfolioState.js:35-153).
OneByOneAgrees ==
  ~disturbed =>
    /\ NeverOversold
    /\ Initialized /\ (\A x \in Callers : call[x].pc = "idle") =>
         /\ cache.id = Active
         /\ cache.capital = portfolios[Active].capital
         /\ cache.positions \in {Unread, Positions(portfolios[Active])}
=============================================================================
