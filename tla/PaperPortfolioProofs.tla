------------------------- MODULE PaperPortfolioProofs -------------------------
(***************************************************************************)
(* Theorems about PaperPortfolio for every number of requests, symbols and  *)
(* portfolios.                                                              *)
(*                                                                          *)
(* The balance of the ledger is not inductive by itself: a reset takes out  *)
(* of the sums what its deletion has read, so what it has read must be all  *)
(* there is unless a trade was saved meanwhile (GoneMatches); and the row a *)
(* call works on must exist (Placed).                                       *)
(*                                                                          *)
(* That requests one at a time agree with the tables needs, at each await,  *)
(* what the request still keeps from before it (Knows): which portfolio it  *)
(* is in, the capital and the positions it has read there, what it has      *)
(* deleted; and that the cache may be behind only while the request has     *)
(* not yet assigned what it wrote (Ahead, CacheAgrees).                     *)
(***************************************************************************)
EXTENDS PaperPortfolio, TLAPS

CacheType == [id: Ids \cup {None}, capital: Int, positions: [Symbols -> Nat] \cup {Unread},
              fresh: BOOLEAN]

Exists(i) == i /= None => portfolios[i].status /= "none"

\* A call in the middle of a portfolio knows which.
Placed(c) ==
  /\ c \in CallType /\ Exists(c.id)
  /\ c.pc \in {"load", "position", "delete", "restore", "created"} => c.id /= None

\* What a reset has deleted is all there is; two resets at once delete nothing.
GoneMatches ==
  \A x \in Callers : \A i \in Ids \ torn : Restoring(x, i) =>
    /\ call[x].gone.cost = portfolios[i].cost /\ call[x].gone.brought = portfolios[i].brought
    /\ \A y \in Callers \ {x} : Restoring(y, i) => NoTrades(portfolios[i])

IInv ==
  /\ TypeOK
  /\ \A x \in Callers : Placed(call[x])
  /\ Exists(cache.id)
  /\ GoneMatches
  /\ NeverOverspent
  /\ LedgerBalances

------------------------------------------------------------------------------
(* Facts about the operators *)

LEMMA NoPositionsType == NoPositions \in [Symbols -> Nat]
BY DEF NoPositions

LEMMA RowTypes == NoRow \in Row /\ NewRow \in Row
<1>1. NoPositions \in [Symbols -> Int]
  BY DEF NoPositions
<1>2. NoRow \in Row
  BY <1>1 DEF NoRow, Row
<1>3. InitialCapital \in Int
  BY PortfolioAssumption
<1>4. NewRow \in Row
  BY <1>2, <1>3 DEF NewRow, Row
<1> QED
  BY <1>2, <1>4

\* A ledger adds up to quantities (getPositions drops what is not positive).
LEMMA PositionsType ==
  ASSUME NEW row \in Row
  PROVE  Positions(row) \in [Symbols -> Nat]
<1>1. ASSUME NEW s \in Symbols
      PROVE  (IF row.bought[s] > row.sold[s] THEN row.bought[s] - row.sold[s] ELSE 0) \in Nat
  <2>1. row.bought[s] \in Int /\ row.sold[s] \in Int
    BY <1>1 DEF Row
  <2> QED
    BY <2>1
<1> QED
  BY <1>1 DEF Positions

LEMMA IdleType == Idle \in CallType /\ Idle.id = None /\ Idle.pc = "idle"
<1>1. (CHOOSE s \in Symbols : TRUE) \in Symbols
  BY PortfolioAssumption
<1> QED
  BY <1>1, NoPositionsType, RowTypes DEF Idle, CallType, None

LEMMA IdlePlaced == Placed(Idle)
BY IdleType DEF Placed, Exists

\* getActivePortfolio finds a portfolio that exists.
LEMMA ActiveExists ==
  ASSUME TypeOK
  PROVE  Active \in Ids \cup {None} /\ Exists(Active)
<1>1. CASE ActiveIds = {}
  BY <1>1 DEF Active, Exists
<1>2. CASE ActiveIds /= {}
  <2>1. Active \in ActiveIds
    BY <1>2 DEF Active
  <2> QED
    BY <2>1 DEF ActiveIds, Exists
<1> QED
  BY <1>1, <1>2

LEMMA Becomes ==
  ASSUME call \in [Callers -> CallType], NEW x \in Callers, NEW c \in CallType, Become(x, c)
  PROVE  /\ call' \in [Callers -> CallType]
         /\ call'[x] = c
         /\ \A y \in Callers \ {x} : call'[y] = call[y]
BY DEF Become

\* A step that writes no table keeps the invariant when the call it moves knows
\* its portfolio and does not begin to restore one.
LEMMA QuietStep ==
  ASSUME IInv, NEW x \in Callers, NEW c, Become(x, c), Placed(c), c.pc /= "restore",
         UNCHANGED <<portfolios, torn>>, disturbed' \in BOOLEAN,
         cache' \in CacheType, Exists(cache'.id)
  PROVE  IInv'
<1>1. /\ call' \in [Callers -> CallType]
      /\ call'[x] = c
      /\ \A y \in Callers \ {x} : call'[y] = call[y]
  BY Becomes DEF IInv, TypeOK, Placed
<1>2. TypeOK'
  BY <1>1 DEF IInv, TypeOK, CacheType
<1>3. \A y \in Callers : Placed(call[y])'
  BY <1>1 DEF IInv, Placed, Exists
<1>4. Exists(cache.id)'
  BY DEF Exists
<1>5. \A y \in Callers, i \in Ids : Restoring(y, i)' => y /= x /\ Restoring(y, i) /\ call'[y] = call[y]
  BY <1>1 DEF Restoring
<1>6. GoneMatches'
  BY <1>5 DEF IInv, GoneMatches, NoTrades
<1>7. NeverOverspent' /\ LedgerBalances'
  BY DEF IInv, NeverOverspent, LedgerBalances
<1> QED
  BY <1>2, <1>3, <1>4, <1>6, <1>7 DEF IInv

LEMMA QuietCache ==
  ASSUME IInv
  PROVE  cache \in CacheType /\ Exists(cache.id) /\ disturbed \in BOOLEAN
BY DEF IInv, TypeOK, CacheType

Places ==
  {"idle", "find", "found", "load", "loaded", "state", "refresh", "capital", "balance", "shown",
   "exit", "trade", "position", "check", "commit", "saved", "delete", "restore", "restored",
   "create", "created"}

\* A call may have any of its fields set.
LEMMA CallFields ==
  \A c \in CallType :
    /\ \A p \in Places : [c EXCEPT !.pc = p] \in CallType
    /\ \A i \in Ids \cup {None} : [c EXCEPT !.id = i] \in CallType
    /\ \A n \in Int : [c EXCEPT !.got = n] \in CallType
    /\ \A f \in [Symbols -> Nat] : /\ [c EXCEPT !.seen = f] \in CallType
                                   /\ [c EXCEPT !.todo = f] \in CallType
    /\ \A row \in Row : [c EXCEPT !.gone = row] \in CallType
    /\ \A n \in Nat : [c EXCEPT !.qty = n] \in CallType /\ [c EXCEPT !.value = n] \in CallType
    /\ \A s \in Symbols : [c EXCEPT !.sym = s] \in CallType
    /\ \A k \in {"buy", "sell", "exit", "view", "reset", "start"} : [c EXCEPT !.kind = k] \in CallType
<1> SUFFICES ASSUME NEW c \in CallType
             PROVE  /\ \A p \in Places : [c EXCEPT !.pc = p] \in CallType
                    /\ \A i \in Ids \cup {None} : [c EXCEPT !.id = i] \in CallType
                    /\ \A n \in Int : [c EXCEPT !.got = n] \in CallType
                    /\ \A f \in [Symbols -> Nat] : /\ [c EXCEPT !.seen = f] \in CallType
                                                   /\ [c EXCEPT !.todo = f] \in CallType
                    /\ \A row \in Row : [c EXCEPT !.gone = row] \in CallType
                    /\ \A n \in Nat : [c EXCEPT !.qty = n] \in CallType /\ [c EXCEPT !.value = n] \in CallType
                    /\ \A s \in Symbols : [c EXCEPT !.sym = s] \in CallType
                    /\ \A k \in {"buy", "sell", "exit", "view", "reset", "start"} :
                         [c EXCEPT !.kind = k] \in CallType
  OBVIOUS
<1>1. \A p \in Places : [c EXCEPT !.pc = p] \in CallType
  BY DEF CallType, Places
<1>2. \A i \in Ids \cup {None} : [c EXCEPT !.id = i] \in CallType
  BY DEF CallType
<1>3. \A n \in Int : [c EXCEPT !.got = n] \in CallType
  BY DEF CallType
<1>4. \A f \in [Symbols -> Nat] : [c EXCEPT !.seen = f] \in CallType
  BY DEF CallType
<1>5. \A f \in [Symbols -> Nat] : [c EXCEPT !.todo = f] \in CallType
  BY DEF CallType
<1>6. \A row \in Row : [c EXCEPT !.gone = row] \in CallType
  BY DEF CallType
<1>7. \A n \in Nat : [c EXCEPT !.qty = n] \in CallType /\ [c EXCEPT !.value = n] \in CallType
  BY DEF CallType
<1>8. \A s \in Symbols : [c EXCEPT !.sym = s] \in CallType
  BY DEF CallType
<1>9. \A k \in {"buy", "sell", "exit", "view", "reset", "start"} : [c EXCEPT !.kind = k] \in CallType
  BY DEF CallType
<1> QED
  BY <1>1, <1>2, <1>3, <1>4, <1>5, <1>6, <1>7, <1>8, <1>9

\* The call's record with nothing but its place changed.
LEMMA GotoPlaced ==
  ASSUME NEW c, Placed(c), NEW p \in {"find", "load", "state", "capital", "shown"},
         c.id /= None \/ p /= "load", NEW d,
         d = [c EXCEPT !.pc = p, !.got = 0, !.seen = NoPositions, !.gone = NoRow]
  PROVE  Placed(d) /\ d.pc /= "restore"
<1>1. c \in CallType /\ p \in Places
  BY DEF Placed, Places
<1>2. d \in CallType
  <2> DEFINE e == [c EXCEPT !.pc = p]
  <2>1. [c EXCEPT !.pc = p, !.got = 0] \in CallType
    <3>1. e \in CallType
      BY <1>1, CallFields
    <3> HIDE DEF e
    <3>2. [e EXCEPT !.got = 0] \in CallType
      BY <3>1 DEF CallType
    <3> QED
      BY <3>2 DEF e
  <2>2. [c EXCEPT !.pc = p, !.got = 0, !.seen = NoPositions] \in CallType
    BY <2>1, CallFields, NoPositionsType
  <2> QED
    BY <2>2, CallFields, RowTypes
<1>3. d.pc = p /\ d.id = c.id
  BY <1>1 DEF CallType
<1> QED
  BY <1>2, <1>3 DEF Placed, Exists

\* Ending a call is quiet.
LEMMA ReturnStep ==
  ASSUME IInv, NEW x \in Callers, Return(x), UNCHANGED <<portfolios, torn>>, disturbed' \in BOOLEAN,
         cache' \in CacheType, Exists(cache'.id)
  PROVE  IInv'
BY IdlePlaced, IdleType, QuietStep DEF Return

LEMMA GotoStep ==
  ASSUME IInv, NEW x \in Callers, NEW p \in {"find", "load", "state", "capital", "shown"},
         call[x].id /= None \/ p /= "load", Goto(x, p),
         UNCHANGED <<portfolios, torn>>, disturbed' \in BOOLEAN,
         cache' \in CacheType, Exists(cache'.id)
  PROVE  IInv'
<1> DEFINE c == [call[x] EXCEPT !.pc = p, !.got = 0, !.seen = NoPositions, !.gone = NoRow]
<1>1. Placed(call[x])
  BY DEF IInv
<1>2. Become(x, c)
  BY DEF Goto
<1>3. Placed(c) /\ c.pc /= "restore"
  BY <1>1, GotoPlaced
<1> HIDE DEF c
<1> QED
  BY <1>2, <1>3, QuietStep

LEMMA AfterTradePlaced ==
  ASSUME NEW c \in CallType
  PROVE  Placed(AfterTrade(c)) /\ AfterTrade(c).pc /= "restore"
<1>1. CASE c.kind = "exit"
  <2>1. AfterTrade(c) = [Idle EXCEPT !.pc = "exit", !.kind = "exit", !.todo = c.todo]
    BY <1>1 DEF AfterTrade
  <2> QED
    BY <2>1, IdleType DEF Placed, CallType, Exists
<1>2. CASE c.kind /= "exit"
  <2>1. AfterTrade(c) = [Idle EXCEPT !.pc = "state"]
    BY <1>2 DEF AfterTrade
  <2> QED
    BY <2>1, IdleType DEF Placed, CallType, Exists
<1> QED
  BY <1>1, <1>2

LEMMA RefusedStep ==
  ASSUME IInv, NEW x \in Callers, Refused(x), UNCHANGED <<portfolios, cache, torn, disturbed>>
  PROVE  IInv'
<1>1. Placed(call[x]) /\ call[x] \in CallType
  BY DEF IInv, Placed
<1>2. cache' \in CacheType /\ Exists(cache'.id) /\ disturbed' \in BOOLEAN
  BY QuietCache
<1>3. CASE Return(x)
  BY <1>2, <1>3, ReturnStep
<1>4. CASE Become(x, AfterTrade(call[x]))
  BY <1>1, <1>2, <1>4, AfterTradePlaced, QuietStep
<1> QED
  BY <1>3, <1>4 DEF Refused

------------------------------------------------------------------------------
(* The steps that write no table *)

LEMMA RequestStep ==
  ASSUME IInv, NEW x \in Callers, Request(x)
  PROVE  IInv'
<1>1. PICK kind \in Kinds, s \in Symbols, q \in Qtys, v \in Values :
        LET c == [Idle EXCEPT !.pc = Entry(kind), !.kind = kind, !.sym = s]
        IN  Become(x, IF kind \in {"buy", "sell"} THEN [c EXCEPT !.qty = q, !.value = v] ELSE c)
  BY DEF Request
<1> DEFINE c == [Idle EXCEPT !.pc = Entry(kind), !.kind = kind, !.sym = s]
           d == IF kind \in {"buy", "sell"} THEN [c EXCEPT !.qty = q, !.value = v] ELSE c
<1>2. Entry(kind) \in {"create", "trade", "state"} /\ kind \in {"buy", "sell", "exit", "view", "reset", "start"}
  BY PortfolioAssumption DEF Entry
<1>3. c \in CallType
  BY <1>2, IdleType, CallFields DEF Places
<1>4. c.id = None /\ c.pc \in {"create", "trade", "state"}
  BY <1>2, IdleType DEF CallType
<1>5. Become(x, d)
  BY <1>1
<1>6. d \in CallType /\ d.id = None /\ d.pc \in {"create", "trade", "state"}
  <2> HIDE DEF c
  <2>1. q \in Nat /\ v \in Nat
    BY PortfolioAssumption
  <2>2. [c EXCEPT !.qty = q, !.value = v] \in CallType
    BY <1>3, <2>1, CallFields
  <2>3. [c EXCEPT !.qty = q, !.value = v].id = c.id /\ [c EXCEPT !.qty = q, !.value = v].pc = c.pc
    BY <1>3 DEF CallType
  <2> QED
    BY <1>3, <1>4, <2>2, <2>3
<1> HIDE DEF d
<1>7. Placed(d) /\ d.pc /= "restore"
  BY <1>6 DEF Placed, Exists
<1>8. UNCHANGED <<portfolios, torn>> /\ cache' = cache /\ disturbed' \in BOOLEAN
  BY QuietCache DEF Request
<1> QED
  BY <1>5, <1>7, <1>8, QuietCache, QuietStep

LEMMA FindStep ==
  ASSUME IInv, NEW x \in Callers, Find(x)
  PROVE  IInv'
<1> DEFINE got == IF Active = None THEN 0 ELSE portfolios[Active].capital
           c == [call[x] EXCEPT !.pc = "found", !.id = Active, !.got = got]
<1>1. call[x] \in CallType
  BY DEF IInv, Placed
<1>2. Active \in Ids \cup {None} /\ Exists(Active)
  BY ActiveExists DEF IInv
<1>3. got \in Int
  BY <1>2 DEF IInv, TypeOK, Row
<1>4. Become(x, c)
  BY DEF Find
<1> HIDE DEF got
<1>5. c \in CallType
  <2>1. [call[x] EXCEPT !.pc = "found", !.id = Active] \in CallType
    BY <1>1, <1>2, CallFields DEF Places
  <2> QED
    BY <2>1, <1>3, CallFields
<1>6. c.pc = "found" /\ c.id = Active
  BY <1>1 DEF CallType
<1> HIDE DEF c
<1>7. Placed(c)
  BY <1>2, <1>5, <1>6 DEF Placed
<1>8. cache' \in CacheType /\ Exists(cache'.id) /\ disturbed' \in BOOLEAN /\ UNCHANGED <<portfolios, torn>>
  BY QuietCache DEF Find, history
<1> QED
  BY <1>4, <1>6, <1>7, <1>8, QuietStep

LEMMA EmptyCacheType == EmptyCache \in CacheType /\ EmptyCache.id = None
BY DEF EmptyCache, CacheType

LEMMA FoundStep ==
  ASSUME IInv, NEW x \in Callers, Found(x)
  PROVE  IInv'
<1>1. Placed(call[x]) /\ call[x] \in CallType
  BY DEF IInv, Placed
<1>2. UNCHANGED <<portfolios, torn>> /\ disturbed' \in BOOLEAN
  BY QuietCache DEF Found, history
<1>3. CASE cache' = EmptyCache /\ Return(x)
  <2>1. cache' \in CacheType /\ Exists(cache'.id)
    BY <1>3, EmptyCacheType DEF Exists
  <2> QED
    BY <1>2, <1>3, <2>1, ReturnStep
<1>4. CASE /\ call[x].id /= None
           /\ cache' = [cache EXCEPT !.id = call[x].id, !.capital = call[x].got]
           /\ Goto(x, "load")
  <2>1. call[x].id \in Ids \cup {None} /\ call[x].got \in Int
    BY <1>1 DEF CallType
  <2>2. [cache EXCEPT !.id = call[x].id] \in CacheType
    BY <2>1, QuietCache DEF CacheType
  <2>3. cache' \in CacheType
    BY <1>4, <2>1, <2>2 DEF CacheType
  <2>4. cache'.id = call[x].id
    BY <1>4, QuietCache DEF CacheType
  <2>5. Exists(cache'.id)
    BY <1>1, <2>4 DEF Placed
  <2> QED
    BY <1>2, <1>4, <2>3, <2>5, GotoStep
<1> QED
  BY <1>3, <1>4 DEF Found

\* Reading positions into a call.
LEMMA ReadPositionsPlaced ==
  ASSUME IInv, NEW x \in Callers, NEW i \in Ids, NEW p \in {"loaded", "refresh", "check"},
         NEW c, c = [call[x] EXCEPT !.pc = p, !.seen = Positions(portfolios[i])]
  PROVE  Placed(c) /\ c.pc /= "restore"
<1>1. call[x] \in CallType /\ Exists(call[x].id)
  BY DEF IInv, Placed
<1>2. Positions(portfolios[i]) \in [Symbols -> Nat]
  BY PositionsType DEF IInv, TypeOK
<1>3. c \in CallType
  BY <1>1, <1>2, CallFields DEF Places
<1>4. c.pc = p /\ c.id = call[x].id
  BY <1>1 DEF CallType
<1> QED
  BY <1>1, <1>3, <1>4 DEF Placed

LEMMA LoadStep ==
  ASSUME IInv, NEW x \in Callers, Load(x)
  PROVE  IInv'
<1>1. call[x].id \in Ids
  BY DEF IInv, Placed, CallType, Load
<1>2. Placed([call[x] EXCEPT !.pc = "loaded", !.seen = Positions(portfolios[call[x].id])])
      /\ [call[x] EXCEPT !.pc = "loaded", !.seen = Positions(portfolios[call[x].id])].pc /= "restore"
  BY <1>1, ReadPositionsPlaced
<1>3. Become(x, [call[x] EXCEPT !.pc = "loaded", !.seen = Positions(portfolios[call[x].id])])
  BY DEF Load
<1>4. cache' \in CacheType /\ Exists(cache'.id) /\ disturbed' \in BOOLEAN /\ UNCHANGED <<portfolios, torn>>
  BY QuietCache DEF Load, history
<1> QED
  BY <1>2, <1>3, <1>4, QuietStep

LEMMA LoadedStep ==
  ASSUME IInv, NEW x \in Callers, Loaded(x)
  PROVE  IInv'
<1> DEFINE c == [call[x] EXCEPT !.pc = AfterHydrate(call[x]), !.id = None, !.seen = NoPositions]
<1>1. call[x] \in CallType
  BY DEF IInv, Placed
<1>2. AfterHydrate(call[x]) \in {"trade", "state"}
  BY DEF AfterHydrate
<1>3. [call[x] EXCEPT !.pc = AfterHydrate(call[x]), !.id = None] \in CallType
  BY <1>1, <1>2, CallFields DEF Places
<1>4. c \in CallType
  BY <1>3, NoPositionsType, CallFields
<1>5. c.pc \in {"trade", "state"} /\ c.id = None
  BY <1>1, <1>2 DEF CallType
<1>6. Become(x, c)
  BY DEF Loaded
<1> HIDE DEF c
<1>7. Placed(c) /\ c.pc /= "restore"
  BY <1>4, <1>5 DEF Placed, Exists
<1>8. call[x].seen \in [Symbols -> Nat]
  BY <1>1 DEF CallType
<1>9. [cache EXCEPT !.positions = call[x].seen] \in CacheType
  BY <1>8, QuietCache DEF CacheType
<1>10. cache' \in CacheType
  BY <1>9 DEF CacheType, Loaded
<1>11. cache'.id = cache.id
  BY QuietCache DEF CacheType, Loaded
<1>12. Exists(cache'.id) /\ disturbed' \in BOOLEAN /\ UNCHANGED <<portfolios, torn>>
  BY <1>11, QuietCache DEF Loaded, history
<1> QED
  BY <1>6, <1>7, <1>10, <1>12, QuietStep

LEMMA StateStep ==
  ASSUME IInv, NEW x \in Callers, State(x)
  PROVE  IInv'
<1>1. cache' \in CacheType /\ Exists(cache'.id) /\ disturbed' \in BOOLEAN /\ UNCHANGED <<portfolios, torn>>
  BY QuietCache DEF State, history
<1>2. CASE Goto(x, "shown")
  BY <1>1, <1>2, GotoStep
<1>3. CASE Goto(x, "find")
  BY <1>1, <1>3, GotoStep
<1>4. CASE Initialized /\ Become(x, [call[x] EXCEPT !.pc = "refresh", !.seen = Positions(portfolios[cache.id])])
  <2> DEFINE c == [call[x] EXCEPT !.pc = "refresh", !.seen = Positions(portfolios[cache.id])]
  <2>1. cache.id \in Ids
    BY <1>4, QuietCache DEF CacheType, Initialized
  <2>2. Placed(c) /\ c.pc /= "restore"
    BY <2>1, ReadPositionsPlaced
  <2> HIDE DEF c
  <2>3. Become(x, c)
    BY <1>4 DEF c
  <2> QED
    BY <1>1, <2>2, <2>3, QuietStep
<1> QED
  BY <1>2, <1>3, <1>4 DEF State

LEMMA RefreshStep ==
  ASSUME IInv, NEW x \in Callers, Refresh(x)
  PROVE  IInv'
<1>1. call[x].seen \in [Symbols -> Nat]
  BY DEF IInv, Placed, CallType
<1>2. [cache EXCEPT !.positions = call[x].seen] \in CacheType
  BY <1>1, QuietCache DEF CacheType
<1>3. cache' \in CacheType
  BY <1>2 DEF CacheType, Refresh, Refreshed
<1>4. cache'.id = cache.id
  BY QuietCache DEF CacheType, Refresh, Refreshed
<1>5. Exists(cache'.id) /\ disturbed' \in BOOLEAN /\ UNCHANGED <<portfolios, torn>>
  BY <1>4, QuietCache DEF Refresh, history
<1>6. Goto(x, "capital")
  BY DEF Refresh
<1> QED
  BY <1>3, <1>5, <1>6, GotoStep

LEMMA ReadCapitalStep ==
  ASSUME IInv, NEW x \in Callers, ReadCapital(x)
  PROVE  IInv'
<1> DEFINE got == IF Active = None THEN cache.capital ELSE portfolios[Active].capital
           c == [call[x] EXCEPT !.pc = "balance", !.got = got]
<1>1. Placed(call[x]) /\ call[x] \in CallType
  BY DEF IInv, Placed
<1>2. Active \in Ids \cup {None}
  BY ActiveExists DEF IInv
<1>3. got \in Int
  BY <1>2, QuietCache DEF IInv, TypeOK, Row, CacheType
<1>4. Become(x, c)
  BY DEF ReadCapital
<1> HIDE DEF got
<1>5. c \in CallType
  BY <1>1, <1>3, CallFields DEF Places
<1>6. c.pc = "balance" /\ c.id = call[x].id
  BY <1>1 DEF CallType
<1> HIDE DEF c
<1>7. Placed(c)
  BY <1>1, <1>5, <1>6 DEF Placed
<1>8. cache' \in CacheType /\ Exists(cache'.id) /\ disturbed' \in BOOLEAN /\ UNCHANGED <<portfolios, torn>>
  BY QuietCache DEF ReadCapital, history
<1> QED
  BY <1>4, <1>6, <1>7, <1>8, QuietStep

LEMMA BalanceStep ==
  ASSUME IInv, NEW x \in Callers, Balance(x)
  PROVE  IInv'
<1>1. call[x].got \in Int
  BY DEF IInv, Placed, CallType
<1>2. cache' \in CacheType /\ cache'.id = cache.id
  BY <1>1, QuietCache DEF CacheType, Balance
<1>3. Exists(cache'.id) /\ disturbed' \in BOOLEAN /\ UNCHANGED <<portfolios, torn>>
  BY <1>2, QuietCache DEF Balance, history
<1>4. Goto(x, "shown")
  BY DEF Balance
<1> QED
  BY <1>2, <1>3, <1>4, GotoStep

LEMMA ShownStep ==
  ASSUME IInv, NEW x \in Callers, Shown(x)
  PROVE  IInv'
<1> DEFINE held == IF cache.positions = Unread THEN NoPositions ELSE cache.positions
<1>1. Placed(call[x]) /\ call[x] \in CallType
  BY DEF IInv, Placed
<1>2. cache' \in CacheType /\ Exists(cache'.id) /\ disturbed' \in BOOLEAN /\ UNCHANGED <<portfolios, torn>>
  BY QuietCache DEF Shown, history
<1>3. held \in [Symbols -> Nat]
  BY QuietCache, NoPositionsType DEF CacheType
<1>4. CASE Return(x)
  BY <1>2, <1>4, ReturnStep
<1>5. ASSUME NEW set \in {Symbols, {call[x].sym}},
             Become(x, [call[x] EXCEPT !.pc = "exit",
                                       !.todo = [s \in Symbols |-> IF s \in set THEN held[s] ELSE 0]])
      PROVE  IInv'
  <2> DEFINE todo == [s \in Symbols |-> IF s \in set THEN held[s] ELSE 0]
             c == [call[x] EXCEPT !.pc = "exit", !.todo = todo]
  <2>1. todo \in [Symbols -> Nat]
    BY <1>3
  <2>2. Become(x, c)
    BY <1>5
  <2> HIDE DEF todo, held
  <2>3. c \in CallType
    BY <1>1, <2>1, CallFields DEF Places
  <2>4. c.pc = "exit" /\ c.id = call[x].id
    BY <1>1 DEF CallType
  <2> HIDE DEF c
  <2>5. Placed(c)
    BY <1>1, <2>3, <2>4 DEF Placed
  <2> QED
    BY <1>2, <2>2, <2>4, <2>5, QuietStep
<1>6. CASE Initialized /\ Become(x, [call[x] EXCEPT !.pc = "delete", !.id = cache.id])
  <2> DEFINE c == [call[x] EXCEPT !.pc = "delete", !.id = cache.id]
  <2>1. cache.id \in Ids \cup {None} /\ cache.id /= None /\ Exists(cache.id)
    BY <1>6, QuietCache DEF CacheType, Initialized
  <2>2. c \in CallType
    BY <1>1, <2>1, CallFields DEF Places
  <2>3. c.pc = "delete" /\ c.id = cache.id
    BY <1>1 DEF CallType
  <2>4. Become(x, c)
    BY <1>6
  <2> HIDE DEF c
  <2>5. Placed(c)
    BY <2>1, <2>2, <2>3 DEF Placed
  <2> QED
    BY <1>2, <2>3, <2>4, <2>5, QuietStep
<1> QED
  BY <1>4, <1>5, <1>6 DEF Shown

LEMMA ExitNextStep ==
  ASSUME IInv, NEW x \in Callers, ExitNext(x)
  PROVE  IInv'
<1>1. Placed(call[x]) /\ call[x] \in CallType
  BY DEF IInv, Placed
<1>2. cache' \in CacheType /\ Exists(cache'.id) /\ disturbed' \in BOOLEAN /\ UNCHANGED <<portfolios, torn>>
  BY QuietCache DEF ExitNext, history
<1>3. CASE Become(x, [Idle EXCEPT !.pc = "state"])
  <2>1. [Idle EXCEPT !.pc = "state"] \in CallType
    BY IdleType, CallFields DEF Places
  <2>2. [Idle EXCEPT !.pc = "state"].id = None /\ [Idle EXCEPT !.pc = "state"].pc = "state"
    BY IdleType DEF CallType
  <2>3. Placed([Idle EXCEPT !.pc = "state"])
    BY <2>1, <2>2 DEF Placed, Exists
  <2> QED
    BY <1>2, <1>3, <2>2, <2>3, QuietStep
<1>4. ASSUME NEW s \in Symbols, NEW v \in Values,
             Become(x, [call[x] EXCEPT !.pc = "trade", !.sym = s, !.value = v, !.qty = call[x].todo[s],
                                       !.todo = [@ EXCEPT ![s] = 0]])
      PROVE  IInv'
  <2> DEFINE todo == [call[x].todo EXCEPT ![s] = 0]
             a == [call[x] EXCEPT !.pc = "trade", !.sym = s]
             b == [a EXCEPT !.value = v, !.qty = call[x].todo[s]]
             c == [b EXCEPT !.todo = todo]
  <2>1. call[x].todo[s] \in Nat /\ todo \in [Symbols -> Nat] /\ v \in Nat
    BY <1>1, PortfolioAssumption DEF CallType
  <2>2. Become(x, c)
    BY <1>1, <1>4 DEF CallType
  <2> HIDE DEF todo
  <2>3. a \in CallType /\ a.pc = "trade" /\ a.id = call[x].id
    <3>1. a \in CallType
      BY <1>1, CallFields DEF Places
    <3> QED
      BY <1>1, <3>1 DEF CallType
  <2> HIDE DEF a
  <2>4. b \in CallType /\ b.pc = "trade" /\ b.id = call[x].id
    <3>1. b \in CallType
      BY <2>1, <2>3, CallFields
    <3> QED
      BY <2>3, <3>1 DEF CallType
  <2> HIDE DEF b
  <2>5. c \in CallType /\ c.pc = "trade" /\ c.id = call[x].id
    BY <2>1, <2>4 DEF CallType
  <2> HIDE DEF c
  <2>6. Placed(c)
    BY <1>1, <2>5 DEF Placed
  <2> QED
    BY <1>2, <2>2, <2>5, <2>6, QuietStep
<1> QED
  BY <1>3, <1>4 DEF ExitNext

\* A trade takes the portfolio the cache names.
LEMMA CacheIdPlaced ==
  ASSUME IInv, NEW x \in Callers, NEW p \in {"commit", "position"}, p = "position" => Initialized,
         NEW c, c = [call[x] EXCEPT !.pc = p, !.id = cache.id]
  PROVE  Placed(c) /\ c.pc /= "restore"
<1>1. call[x] \in CallType
  BY DEF IInv, Placed
<1>2. cache.id \in Ids \cup {None} /\ Exists(cache.id)
  BY QuietCache DEF CacheType
<1>3. c \in CallType
  BY <1>1, <1>2, CallFields DEF Places
<1>4. c.pc = p /\ c.id = cache.id
  BY <1>1 DEF CallType
<1> QED
  BY <1>2, <1>3, <1>4 DEF Placed, Initialized

LEMMA TradeStep ==
  ASSUME IInv, NEW x \in Callers, Trade(x)
  PROVE  IInv'
<1>1. cache' \in CacheType /\ Exists(cache'.id) /\ disturbed' \in BOOLEAN
      /\ UNCHANGED <<portfolios, cache, torn, disturbed>>
  BY QuietCache DEF Trade, history
<1>2. CASE Goto(x, "find")
  BY <1>1, <1>2, GotoStep
<1>3. CASE Become(x, [call[x] EXCEPT !.pc = "commit", !.id = cache.id])
  BY <1>1, <1>3, CacheIdPlaced, QuietStep
<1>4. CASE Initialized /\ Become(x, [call[x] EXCEPT !.pc = "position", !.id = cache.id])
  BY <1>1, <1>4, CacheIdPlaced, QuietStep
<1>5. CASE Refused(x)
  BY <1>1, <1>5, RefusedStep
<1> QED
  BY <1>2, <1>3, <1>4, <1>5 DEF Trade

LEMMA ReadPositionStep ==
  ASSUME IInv, NEW x \in Callers, ReadPosition(x)
  PROVE  IInv'
<1> DEFINE c == [call[x] EXCEPT !.pc = "check", !.seen = Positions(portfolios[call[x].id])]
<1>1. call[x].id \in Ids
  BY DEF IInv, Placed, CallType, ReadPosition
<1>2. Placed(c) /\ c.pc /= "restore"
  BY <1>1, ReadPositionsPlaced
<1>3. Become(x, c)
  BY DEF ReadPosition
<1>4. cache' \in CacheType /\ Exists(cache'.id) /\ disturbed' \in BOOLEAN /\ UNCHANGED <<portfolios, torn>>
  BY QuietCache DEF ReadPosition, history
<1> HIDE DEF c
<1> QED
  BY <1>2, <1>3, <1>4, QuietStep

LEMMA CheckStep ==
  ASSUME IInv, NEW x \in Callers, Check(x)
  PROVE  IInv'
<1>1. cache' \in CacheType /\ Exists(cache'.id) /\ disturbed' \in BOOLEAN
      /\ UNCHANGED <<portfolios, cache, torn, disturbed>>
  BY QuietCache DEF Check, history
<1>2. CASE Refused(x)
  BY <1>1, <1>2, RefusedStep
<1>3. CASE Become(x, [call[x] EXCEPT !.pc = "commit", !.id = cache.id, !.seen = NoPositions])
  <2> DEFINE b == [call[x] EXCEPT !.pc = "commit", !.id = cache.id]
             c == [b EXCEPT !.seen = NoPositions]
  <2>1. Placed(b) /\ b.pc = "commit"
    BY CacheIdPlaced DEF IInv, Placed, CallType
  <2>2. Become(x, c)
    BY <1>3
  <2> HIDE DEF b
  <2>3. c \in CallType /\ c.pc = "commit" /\ c.id = b.id
    BY <2>1, NoPositionsType DEF Placed, CallType
  <2> HIDE DEF c
  <2>4. Placed(c)
    BY <2>1, <2>3 DEF Placed
  <2> QED
    BY <1>1, <2>2, <2>3, <2>4, QuietStep
<1> QED
  BY <1>2, <1>3 DEF Check

LEMMA SavedStep ==
  ASSUME IInv, NEW x \in Callers, Saved(x)
  PROVE  IInv'
<1>1. call[x] \in CallType /\ call[x].got \in Int
  BY DEF IInv, Placed, CallType
<1>2. Placed(AfterTrade(call[x])) /\ AfterTrade(call[x]).pc /= "restore"
  BY <1>1, AfterTradePlaced
<1> DEFINE a == [cache EXCEPT !.capital = call[x].got]
           b == [a EXCEPT !.positions = Unread]
<1>3. a \in CacheType /\ a.id = cache.id
  BY <1>1, QuietCache DEF CacheType
<1>4. cache' = [b EXCEPT !.fresh = FALSE]
  BY DEF Saved, Booked
<1> HIDE DEF a
<1>5. b \in CacheType /\ b.id = cache.id
  BY <1>3 DEF CacheType
<1> HIDE DEF b
<1>6. cache' \in CacheType /\ cache'.id = cache.id
  BY <1>4, <1>5 DEF CacheType
<1>7. Exists(cache'.id) /\ disturbed' \in BOOLEAN /\ UNCHANGED <<portfolios, torn>>
  BY <1>6, QuietCache DEF Saved, history
<1>8. Become(x, AfterTrade(call[x]))
  BY DEF Saved
<1> QED
  BY <1>2, <1>6, <1>7, <1>8, QuietStep

LEMMA QueryFailsStep ==
  ASSUME IInv, NEW x \in Callers, QueryFails(x)
  PROVE  IInv'
<1>1. cache' \in CacheType /\ Exists(cache'.id) /\ disturbed' \in BOOLEAN
      /\ UNCHANGED <<portfolios, cache, torn, disturbed>>
  BY QuietCache DEF QueryFails, history
<1> QED
  BY <1>1, RefusedStep, ReturnStep DEF QueryFails

------------------------------------------------------------------------------
(* The steps that write the tables *)

\* What a trade makes of its row: it keeps the balance, and no purchase takes
\* more than there is (saveTrade).
LEMMA Booking ==
  ASSUME NEW row \in Row, NEW c \in CallType, row.capital >= 0,
         NEW new, new = IF c.kind = "buy" THEN Bought(row, c) ELSE Sold(row, c),
         c.kind = "buy" => Affords(row, c.value)
  PROVE  /\ new \in Row /\ new.status = row.status /\ new.capital >= 0
         /\ new.capital + new.cost - new.brought = row.capital + row.cost - row.brought
<1>1. /\ row.capital \in Int /\ row.cost \in Int /\ row.brought \in Int
      /\ row.bought \in [Symbols -> Int] /\ row.sold \in [Symbols -> Int]
      /\ c.value \in Nat /\ c.qty \in Nat /\ c.sym \in Symbols
  BY DEF Row, CallType
<1>2. CASE c.kind = "buy"
  <2> DEFINE bought == [row.bought EXCEPT ![c.sym] = @ + c.qty]
             a == [row EXCEPT !.capital = row.capital - c.value]
             b == [a EXCEPT !.cost = row.cost + c.value]
  <2>1. bought \in [Symbols -> Int]
    BY <1>1
  <2>2. new = [b EXCEPT !.bought = bought]
    BY <1>2 DEF Bought
  <2> HIDE DEF bought
  <2>3. a \in Row /\ a.capital = row.capital - c.value /\ a.status = row.status /\ a.brought = row.brought
    BY <1>1 DEF Row
  <2> HIDE DEF a
  <2>4. /\ b \in Row /\ b.capital = a.capital /\ b.status = row.status /\ b.brought = row.brought
        /\ b.cost = row.cost + c.value
    BY <1>1, <2>3 DEF Row
  <2> HIDE DEF b
  <2>5. /\ new \in Row /\ new.capital = b.capital /\ new.status = row.status /\ new.brought = row.brought
        /\ new.cost = b.cost
    BY <2>1, <2>2, <2>4 DEF Row
  <2> QED
    BY <1>1, <1>2, <2>3, <2>4, <2>5 DEF Affords
<1>3. CASE c.kind /= "buy"
  <2> DEFINE sold == [row.sold EXCEPT ![c.sym] = @ + c.qty]
             a == [row EXCEPT !.capital = row.capital + c.value]
             b == [a EXCEPT !.brought = row.brought + c.value]
  <2>1. sold \in [Symbols -> Int]
    BY <1>1
  <2>2. new = [b EXCEPT !.sold = sold]
    BY <1>3 DEF Sold
  <2> HIDE DEF sold
  <2>3. a \in Row /\ a.capital = row.capital + c.value /\ a.status = row.status /\ a.cost = row.cost
    BY <1>1 DEF Row
  <2> HIDE DEF a
  <2>4. /\ b \in Row /\ b.capital = a.capital /\ b.status = row.status /\ b.cost = row.cost
        /\ b.brought = row.brought + c.value
    BY <1>1, <2>3 DEF Row
  <2> HIDE DEF b
  <2>5. /\ new \in Row /\ new.capital = b.capital /\ new.status = row.status /\ new.brought = b.brought
        /\ new.cost = row.cost
    BY <2>1, <2>2, <2>4 DEF Row
  <2> QED
    BY <1>1, <1>3, <2>3, <2>4, <2>5
<1> QED
  BY <1>2, <1>3

\* A transaction's call goes on with c or is over.
LEMMA Answers ==
  ASSUME IInv, NEW x \in Callers, NEW c \in CallType, Answer(x, c), c.pc /= "restore",
         c.id /= None, portfolios'[c.id].status /= "none",
         \A i \in Ids : portfolios[i].status /= "none" => portfolios'[i].status /= "none"
  PROVE  /\ call' \in [Callers -> CallType] /\ disturbed' \in BOOLEAN
         /\ call'[x].pc /= "restore" /\ \A y \in Callers \ {x} : call'[y] = call[y]
         /\ \A y \in Callers : Placed(call[y])'
<1>1. call \in [Callers -> CallType] /\ disturbed \in BOOLEAN
  BY DEF IInv, TypeOK
<1>2. Idle \in CallType /\ Idle.id = None /\ Idle.pc = "idle"
  BY IdleType
<1>3. CASE Become(x, c) /\ UNCHANGED disturbed
  <2>1. /\ call' \in [Callers -> CallType]
        /\ call'[x] = c
        /\ \A y \in Callers \ {x} : call'[y] = call[y]
    BY <1>1, <1>3, Becomes
  <2>2. \A y \in Callers : Placed(call[y])'
    BY <2>1 DEF IInv, Placed, Exists, CallType
  <2> QED
    BY <1>1, <1>3, <2>1, <2>2
<1>4. CASE Return(x) /\ disturbed' = TRUE
  <2>1. /\ call' \in [Callers -> CallType]
        /\ call'[x] = Idle
        /\ \A y \in Callers \ {x} : call'[y] = call[y]
    BY <1>1, <1>2, <1>4, Becomes DEF Return
  <2>2. \A y \in Callers : Placed(call[y])'
    BY <1>2, <2>1 DEF IInv, Placed, Exists, CallType
  <2> QED
    BY <1>2, <1>4, <2>1, <2>2
<1> QED
  BY <1>3, <1>4 DEF Answer

LEMMA CommitStep ==
  ASSUME IInv, NEW x \in Callers, Commit(x)
  PROVE  IInv'
<1> DEFINE c == call[x]
           ok == c.id /= None /\ (c.kind = "buy" => Affords(portfolios[c.id], c.value))
           new == IF c.kind = "buy" THEN Bought(portfolios[c.id], c) ELSE Sold(portfolios[c.id], c)
<1>1. CASE ~ok
  BY <1>1, RefusedStep DEF Commit, history
<1>2. CASE ok
  <2>1. /\ portfolios' = [portfolios EXCEPT ![c.id] = new]
        /\ torn' = IF \E y \in Callers : Restoring(y, c.id) THEN torn \cup {c.id} ELSE torn
        /\ Answer(x, [c EXCEPT !.pc = "saved", !.got = new.capital])
        /\ UNCHANGED cache /\ c.pc = "commit"
    BY <1>2 DEF Commit
  <2>2. c \in CallType /\ Exists(c.id) /\ c.id \in Ids
    BY <1>2 DEF IInv, Placed, CallType
  <2> DEFINE i == c.id
             row == portfolios[i]
             d == [c EXCEPT !.pc = "saved", !.got = new.capital]
  <2>3. row \in Row /\ row.capital >= 0 /\ row.status /= "none" /\ i \in Ids /\ portfolios \in [Ids -> Row]
    BY <2>2 DEF IInv, TypeOK, NeverOverspent, Exists, Ids, None
  <2>4. /\ new \in Row /\ new.status = row.status /\ new.capital >= 0
        /\ new.capital + new.cost - new.brought = row.capital + row.cost - row.brought
    BY <1>2, <2>2, <2>3, Booking
  <2> HIDE DEF new
  <2>5. /\ portfolios' \in [Ids -> Row] /\ portfolios'[i] = new
        /\ \A j \in Ids \ {i} : portfolios'[j] = portfolios[j]
    BY <2>1, <2>3, <2>4
  <2>6. \A j \in Ids : portfolios'[j].status = portfolios[j].status
    BY <2>4, <2>5
  <2>7. d \in CallType /\ d.pc = "saved" /\ d.id = i
    <3>1. new.capital \in Int
      BY <2>4 DEF Row
    <3>2. d \in CallType
      BY <2>2, <3>1, CallFields DEF Places
    <3> QED
      BY <2>2, <3>2 DEF CallType
  <2>8. d.id /= None /\ portfolios'[d.id].status /= "none"
    BY <2>3, <2>6, <2>7 DEF Ids, None
  <2>9. /\ call' \in [Callers -> CallType] /\ disturbed' \in BOOLEAN
        /\ call'[x].pc /= "restore" /\ \A y \in Callers \ {x} : call'[y] = call[y]
        /\ \A y \in Callers : Placed(call[y])'
    <3> HIDE DEF d
    <3>1. Answer(x, d)
      BY <2>1 DEF d
    <3> QED
      BY <2>6, <2>7, <2>8, <3>1, Answers
  <2>10. torn' \subseteq Ids /\ torn \subseteq torn'
    BY <2>1, <2>3 DEF IInv, TypeOK
  <2> HIDE DEF c, d
  <2>11. TypeOK'
    BY <2>1, <2>5, <2>9, <2>10 DEF IInv, TypeOK
  <2>12. Exists(cache.id)'
    BY <2>1, <2>6, QuietCache DEF Exists, CacheType
  <2>13. ASSUME NEW y \in Callers, NEW j \in Ids \ torn', Restoring(y, j)'
         PROVE  y /= x /\ Restoring(y, j) /\ call'[y] = call[y] /\ j /= i /\ portfolios'[j] = portfolios[j]
    BY <2>1, <2>5, <2>9, <2>13 DEF Restoring
  <2>14. GoneMatches'
    BY <2>10, <2>13 DEF IInv, GoneMatches, NoTrades, Restoring
  <2>15. NeverOverspent'
    BY <2>4, <2>5 DEF IInv, NeverOverspent
  <2>16. LedgerBalances'
    <3> SUFFICES ASSUME NEW j \in Ids \ torn', portfolios'[j].status /= "none"
                 PROVE  portfolios'[j].capital = InitialCapital - portfolios'[j].cost + portfolios'[j].brought
      BY DEF LedgerBalances
    <3>1. portfolios[j].capital = InitialCapital - portfolios[j].cost + portfolios[j].brought
      BY <2>6, <2>10 DEF IInv, LedgerBalances
    <3>2. CASE j = i
      <4>1. /\ row.capital \in Int /\ row.cost \in Int /\ row.brought \in Int
            /\ new.capital \in Int /\ new.cost \in Int /\ new.brought \in Int /\ InitialCapital \in Int
        BY <2>3, <2>4, PortfolioAssumption DEF Row
      <4> QED
        BY <2>4, <2>5, <3>1, <3>2, <4>1
    <3>3. CASE j /= i
      BY <2>5, <3>1, <3>3
    <3> QED
      BY <3>2, <3>3
  <2> QED
    BY <2>9, <2>11, <2>12, <2>14, <2>15, <2>16 DEF IInv
<1> QED
  BY <1>1, <1>2

\* What a reset leaves of a row it has deleted all trades of.
LEMMA Restoration ==
  ASSUME NEW row \in Row, NEW gone \in Row, NEW new, new = Without(row, gone)
  PROVE  /\ new \in Row /\ new.status = "ACTIVE" /\ new.capital = InitialCapital
         /\ new.cost = row.cost - gone.cost /\ new.brought = row.brought - gone.brought
<1> DEFINE bought == [s \in Symbols |-> row.bought[s] - gone.bought[s]]
           sold == [s \in Symbols |-> row.sold[s] - gone.sold[s]]
           a == [row EXCEPT !.status = "ACTIVE"]
           b == [a EXCEPT !.capital = InitialCapital]
           c == [b EXCEPT !.bought = bought]
           d == [c EXCEPT !.sold = sold]
           e == [d EXCEPT !.cost = row.cost - gone.cost]
<1>1. /\ row.cost \in Int /\ row.brought \in Int /\ gone.cost \in Int /\ gone.brought \in Int
      /\ row.bought \in [Symbols -> Int] /\ row.sold \in [Symbols -> Int]
      /\ gone.bought \in [Symbols -> Int] /\ gone.sold \in [Symbols -> Int] /\ InitialCapital \in Int
  BY PortfolioAssumption DEF Row
<1>2. bought \in [Symbols -> Int] /\ sold \in [Symbols -> Int]
  BY <1>1
<1>3. new = [e EXCEPT !.brought = row.brought - gone.brought]
  BY DEF Without
<1> HIDE DEF bought, sold
<1>4. a \in Row /\ a.status = "ACTIVE"
  BY DEF Row
<1> HIDE DEF a
<1>5. b \in Row /\ b.status = "ACTIVE" /\ b.capital = InitialCapital
  BY <1>1, <1>4 DEF Row
<1> HIDE DEF b
<1>6. c \in Row /\ c.status = "ACTIVE" /\ c.capital = InitialCapital
  BY <1>2, <1>5 DEF Row
<1> HIDE DEF c
<1>7. d \in Row /\ d.status = "ACTIVE" /\ d.capital = InitialCapital
  BY <1>2, <1>6 DEF Row
<1> HIDE DEF d
<1>8. e \in Row /\ e.status = "ACTIVE" /\ e.capital = InitialCapital /\ e.cost = row.cost - gone.cost
  BY <1>1, <1>7 DEF Row
<1> HIDE DEF e
<1> QED
  BY <1>1, <1>3, <1>8 DEF Row

LEMMA DeleteStep ==
  ASSUME IInv, NEW x \in Callers, Delete(x)
  PROVE  IInv'
<1> DEFINE c == call[x]
           d == [c EXCEPT !.pc = "restore", !.gone = portfolios[c.id]]
<1>1. c \in CallType /\ Exists(c.id) /\ c.id \in Ids /\ c.id /= None
  BY DEF IInv, Placed, CallType, Delete
<1>2. portfolios[c.id] \in Row
  BY <1>1 DEF IInv, TypeOK
<1>3. d \in CallType
  BY <1>1, <1>2, CallFields DEF Places
<1>4. d.pc = "restore" /\ d.id = c.id /\ d.gone = portfolios[c.id]
  BY <1>1 DEF CallType
<1>5. Become(x, d) /\ UNCHANGED <<portfolios, cache, torn, disturbed>>
  BY DEF Delete, history
<1>6. \A y \in Callers : Restoring(y, c.id) => NoTrades(call[y].gone)
  BY DEF Delete
<1> HIDE DEF d
<1>7. /\ call' \in [Callers -> CallType]
      /\ call'[x] = d
      /\ \A y \in Callers \ {x} : call'[y] = call[y]
  BY <1>3, <1>5, Becomes DEF IInv, TypeOK
<1>8. \A y \in Callers : Placed(call[y])'
  BY <1>1, <1>3, <1>4, <1>5, <1>7 DEF IInv, Placed, Exists
<1>9. GoneMatches'
  <2> SUFFICES ASSUME NEW y \in Callers, NEW i \in Ids \ torn, Restoring(y, i)'
               PROVE  /\ call'[y].gone.cost = portfolios[i].cost /\ call'[y].gone.brought = portfolios[i].brought
                      /\ \A z \in Callers \ {y} : Restoring(z, i)' => NoTrades(portfolios[i])
    BY <1>5 DEF GoneMatches, NoTrades
  <2>1. ASSUME NEW z \in Callers \ {x}
        PROVE  call'[z] = call[z] /\ (Restoring(z, i)' => Restoring(z, i))
    BY <1>7 DEF Restoring
  <2>2. ASSUME Restoring(x, i)'
        PROVE  i = c.id /\ call'[x].gone = portfolios[i]
    BY <1>4, <1>7, <2>2 DEF Restoring
  <2>3. ASSUME Restoring(x, i)', NEW z \in Callers \ {x}, Restoring(z, i)
        PROVE  NoTrades(portfolios[i])
    <3>1. call[z].gone.cost = portfolios[i].cost /\ call[z].gone.brought = portfolios[i].brought
      BY <2>3 DEF IInv, GoneMatches
    <3>2. NoTrades(call[z].gone)
      BY <1>6, <2>2, <2>3
    <3> QED
      BY <3>1, <3>2 DEF NoTrades
  <2>4. CASE y = x
    BY <2>1, <2>2, <2>3, <2>4
  <2>5. CASE y /= x
    <3>1. Restoring(y, i) /\ call'[y] = call[y]
      BY <2>1, <2>5
    <3>2. /\ call[y].gone.cost = portfolios[i].cost /\ call[y].gone.brought = portfolios[i].brought
          /\ \A z \in Callers \ {y} : Restoring(z, i) => NoTrades(portfolios[i])
      BY <3>1 DEF IInv, GoneMatches
    <3>3. ASSUME NEW z \in Callers \ {y}, Restoring(z, i)'
          PROVE  NoTrades(portfolios[i])
      <4>1. CASE z = x
        BY <2>3, <2>5, <3>1, <3>3, <4>1
      <4>2. CASE z /= x
        BY <2>1, <3>2, <3>3, <4>2
      <4> QED
        BY <4>1, <4>2
    <3> QED
      BY <3>1, <3>2, <3>3
  <2> QED
    BY <2>4, <2>5
<1>10. TypeOK' /\ Exists(cache.id)' /\ NeverOverspent' /\ LedgerBalances'
  BY <1>5, <1>7 DEF IInv, TypeOK, Exists, NeverOverspent, LedgerBalances
<1> QED
  BY <1>8, <1>9, <1>10 DEF IInv

LEMMA RestoreStep ==
  ASSUME IInv, NEW x \in Callers, Restore(x)
  PROVE  IInv'
<1> DEFINE c == call[x]
           i == c.id
           d == [c EXCEPT !.pc = "restored", !.gone = NoRow]
<1>1. c \in CallType /\ i \in Ids /\ i /= None /\ c.gone \in Row /\ c.pc = "restore"
  BY DEF IInv, Placed, CallType, Restore
<1>2. CASE ~(ActiveIds \subseteq {i})
  <2>1. Return(x) /\ UNCHANGED <<portfolios, cache, torn, disturbed>>
    BY <1>2 DEF Restore
  <2> QED
    BY <2>1, QuietCache, ReturnStep
<1>3. CASE ActiveIds \subseteq {i}
  <2> DEFINE row == portfolios[i]
             new == Without(row, c.gone)
  <2>1. /\ portfolios' = [portfolios EXCEPT ![i] = new]
        /\ Answer(x, d) /\ UNCHANGED <<cache, torn>>
    BY <1>3 DEF Restore
  <2>2. row \in Row /\ portfolios \in [Ids -> Row] /\ torn \subseteq Ids
    BY <1>1 DEF IInv, TypeOK
  <2>3. /\ new \in Row /\ new.status = "ACTIVE" /\ new.capital = InitialCapital
        /\ new.cost = row.cost - c.gone.cost /\ new.brought = row.brought - c.gone.brought
    BY <1>1, <2>2, Restoration
  <2> HIDE DEF new
  <2>4. /\ portfolios' \in [Ids -> Row] /\ portfolios'[i] = new
        /\ \A j \in Ids \ {i} : portfolios'[j] = portfolios[j]
    BY <1>1, <2>1, <2>2, <2>3
  <2>5. \A j \in Ids : portfolios[j].status /= "none" => portfolios'[j].status /= "none"
    BY <2>3, <2>4
  <2>6. d \in CallType
    BY <1>1, RowTypes, CallFields DEF Places
  <2>7. d.pc = "restored" /\ d.id = i
    BY <1>1 DEF CallType
  <2>8. /\ call' \in [Callers -> CallType] /\ disturbed' \in BOOLEAN
        /\ call'[x].pc /= "restore" /\ \A y \in Callers \ {x} : call'[y] = call[y]
        /\ \A y \in Callers : Placed(call[y])'
    <3> HIDE DEF d
    <3>1. portfolios'[d.id].status /= "none" /\ d.id /= None /\ d.pc /= "restore"
      BY <1>1, <2>3, <2>4, <2>7
    <3>2. Answer(x, d)
      BY <2>1
    <3> QED
      BY <2>5, <2>6, <3>1, <3>2, Answers
  <2>9. Restoring(x, i)
    BY <1>1 DEF Restoring
  <2>10. ASSUME i \notin torn
         PROVE  c.gone.cost = row.cost /\ c.gone.brought = row.brought /\ NoTrades(new)
    <3>1. c.gone.cost = row.cost /\ c.gone.brought = row.brought
      BY <1>1, <2>9, <2>10 DEF IInv, GoneMatches
    <3> QED
      BY <2>2, <2>3, <3>1 DEF NoTrades, Row
  <2> HIDE DEF c, d
  <2>11. TypeOK'
    BY <2>1, <2>2, <2>4, <2>8 DEF IInv, TypeOK
  <2>12. Exists(cache.id)'
    BY <2>1, <2>5, QuietCache DEF Exists, CacheType
  <2>13. ASSUME NEW y \in Callers, NEW j \in Ids \ torn, Restoring(y, j)'
         PROVE  y /= x /\ Restoring(y, j) /\ call'[y] = call[y]
    BY <2>8, <2>13 DEF Restoring
  <2>14. GoneMatches'
    <3> SUFFICES ASSUME NEW y \in Callers, NEW j \in Ids \ torn, Restoring(y, j)'
                 PROVE  /\ call'[y].gone.cost = portfolios'[j].cost /\ call'[y].gone.brought = portfolios'[j].brought
                        /\ \A z \in Callers \ {y} : Restoring(z, j)' => NoTrades(portfolios'[j])
      BY <2>1 DEF GoneMatches, NoTrades
    <3>1. y /= x /\ Restoring(y, j) /\ call'[y] = call[y]
      BY <2>13
    <3>2. /\ call[y].gone.cost = portfolios[j].cost /\ call[y].gone.brought = portfolios[j].brought
          /\ \A z \in Callers \ {y} : Restoring(z, j) => NoTrades(portfolios[j])
      BY <3>1 DEF IInv, GoneMatches
    <3>3. CASE j = i
      <4>1. NoTrades(portfolios[j])
        BY <2>9, <3>1, <3>2, <3>3
      <4>2. NoTrades(new)
        BY <2>10, <3>3
      <4> QED
        BY <2>4, <3>1, <3>2, <3>3, <4>1, <4>2 DEF NoTrades
    <3>4. CASE j /= i
      <4>1. portfolios'[j] = portfolios[j]
        BY <2>4, <3>4
      <4> QED
        BY <2>13, <3>1, <3>2, <4>1
    <3> QED
      BY <3>3, <3>4
  <2>15. NeverOverspent'
    BY <2>3, <2>4, PortfolioAssumption DEF IInv, NeverOverspent
  <2>16. LedgerBalances'
    <3> SUFFICES ASSUME NEW j \in Ids \ torn, portfolios'[j].status /= "none"
                 PROVE  portfolios'[j].capital = InitialCapital - portfolios'[j].cost + portfolios'[j].brought
      BY <2>1 DEF LedgerBalances
    <3>1. CASE j = i
      BY <2>3, <2>4, <2>10, <3>1, PortfolioAssumption DEF NoTrades
    <3>2. CASE j /= i
      BY <2>4, <3>2 DEF IInv, LedgerBalances
    <3> QED
      BY <3>1, <3>2
  <2> QED
    BY <2>8, <2>11, <2>12, <2>14, <2>15, <2>16 DEF IInv
<1> QED
  BY <1>2, <1>3

LEMMA StatePlaced == Placed([Idle EXCEPT !.pc = "state"]) /\ [Idle EXCEPT !.pc = "state"].pc /= "restore"
<1>1. [Idle EXCEPT !.pc = "state"] \in CallType
  BY IdleType, CallFields DEF Places
<1>2. [Idle EXCEPT !.pc = "state"].id = None /\ [Idle EXCEPT !.pc = "state"].pc = "state"
  BY IdleType DEF CallType
<1> QED
  BY <1>1, <1>2 DEF Placed, Exists

LEMMA RestoredStep ==
  ASSUME IInv, NEW x \in Callers, Restored(x)
  PROVE  IInv'
<1> DEFINE a == [cache EXCEPT !.capital = InitialCapital]
           b == [a EXCEPT !.positions = NoPositions]
<1>1. a \in CacheType /\ a.id = cache.id
  BY QuietCache, PortfolioAssumption DEF CacheType
<1>2. cache' = [b EXCEPT !.fresh = TRUE]
  BY DEF Restored
<1> HIDE DEF a
<1>3. b \in CacheType /\ b.id = cache.id
  BY <1>1, NoPositionsType DEF CacheType
<1> HIDE DEF b
<1>4. cache' \in CacheType /\ cache'.id = cache.id
  BY <1>2, <1>3 DEF CacheType
<1>5. Exists(cache'.id) /\ disturbed' \in BOOLEAN /\ UNCHANGED <<portfolios, torn>>
  BY <1>4, QuietCache DEF Restored, history
<1>6. Become(x, [Idle EXCEPT !.pc = "state"])
  BY DEF Restored
<1> QED
  BY <1>4, <1>5, <1>6, StatePlaced, QuietStep

LEMMA CreatedStep ==
  ASSUME IInv, NEW x \in Callers, Created(x)
  PROVE  IInv'
<1>1. call[x].id \in Ids /\ Exists(call[x].id)
  BY DEF IInv, Placed, CallType, Created
<1>2. cache' = CreatedCache(call[x].id) /\ Become(x, [Idle EXCEPT !.pc = "state"])
  BY DEF Created
<1>3. cache' \in CacheType /\ cache'.id = call[x].id
  BY <1>1, <1>2, NoPositionsType, PortfolioAssumption DEF CreatedCache, CacheType
<1>4. Exists(cache'.id) /\ disturbed' \in BOOLEAN /\ UNCHANGED <<portfolios, torn>>
  BY <1>1, <1>3, QuietCache DEF Created, history
<1> QED
  BY <1>2, <1>3, <1>4, StatePlaced, QuietStep

LEMMA CreateStep ==
  ASSUME IInv, NEW x \in Callers, Create(x)
  PROVE  IInv'
<1>1. PICK i \in Ids :
        /\ portfolios[i].status = "none"
        /\ portfolios' = [j \in Ids |-> IF j = i THEN NewRow
                                        ELSE IF j \in ActiveIds
                                             THEN [portfolios[j] EXCEPT !.status = "CLOSED"]
                                             ELSE portfolios[j]]
        /\ Answer(x, [call[x] EXCEPT !.pc = "created", !.id = i])
  BY DEF Create
<1> DEFINE d == [call[x] EXCEPT !.pc = "created", !.id = i]
<1>2. call[x] \in CallType /\ portfolios \in [Ids -> Row] /\ UNCHANGED <<cache, torn>>
  BY DEF IInv, Placed, TypeOK, Create
<1>3. /\ NewRow.status = "ACTIVE" /\ NewRow.capital = InitialCapital
      /\ NewRow.cost = 0 /\ NewRow.brought = 0
  BY DEF NewRow, NoRow
<1>4. portfolios'[i] = NewRow
  BY <1>1
<1>5. ASSUME NEW j \in Ids \ {i}
      PROVE  /\ portfolios'[j] \in Row
             /\ portfolios'[j].capital = portfolios[j].capital
             /\ portfolios'[j].cost = portfolios[j].cost
             /\ portfolios'[j].brought = portfolios[j].brought
             /\ portfolios'[j].status = "none" <=> portfolios[j].status = "none"
  <2>1. CASE j \in ActiveIds
    <3>1. portfolios'[j] = [portfolios[j] EXCEPT !.status = "CLOSED"] /\ portfolios[j].status = "ACTIVE"
      BY <1>1, <2>1 DEF ActiveIds
    <3> QED
      BY <1>2, <3>1 DEF Row
  <2>2. CASE j \notin ActiveIds
    BY <1>1, <1>2, <2>2
  <2> QED
    BY <2>1, <2>2
<1>6. portfolios' \in [Ids -> Row]
  <2>1. \A j \in Ids : portfolios'[j] \in Row
    BY <1>4, <1>5, RowTypes
  <2>2. portfolios' = [j \in Ids |-> portfolios'[j]]
    BY <1>1
  <2> QED
    BY <2>1, <2>2
<1>7. \A j \in Ids : portfolios[j].status /= "none" => portfolios'[j].status /= "none"
  BY <1>3, <1>4, <1>5
<1>8. d \in CallType
  BY <1>2, CallFields DEF Places
<1>9. d.pc = "created" /\ d.id = i /\ i /= None
  BY <1>2 DEF CallType, Ids, None
<1>10. /\ call' \in [Callers -> CallType] /\ disturbed' \in BOOLEAN
       /\ call'[x].pc /= "restore" /\ \A y \in Callers \ {x} : call'[y] = call[y]
       /\ \A y \in Callers : Placed(call[y])'
  <2>1. Answer(x, d)
    BY <1>1
  <2> HIDE DEF d
  <2> QED
    BY <1>3, <1>4, <1>7, <1>8, <1>9, <2>1, Answers
<1> HIDE DEF d
<1>11. TypeOK'
  BY <1>2, <1>6, <1>10 DEF IInv, TypeOK
<1>12. Exists(cache.id)'
  BY <1>2, <1>7, QuietCache DEF Exists, CacheType
<1>13. ASSUME NEW y \in Callers, NEW j \in Ids \ torn, Restoring(y, j)'
       PROVE  y /= x /\ Restoring(y, j) /\ call'[y] = call[y] /\ j /= i
  <2>1. y /= x /\ Restoring(y, j) /\ call'[y] = call[y]
    BY <1>10, <1>13 DEF Restoring
  <2>2. portfolios[j].status /= "none"
    BY <2>1 DEF IInv, Placed, Exists, Restoring
  <2> QED
    BY <1>1, <2>1, <2>2
<1>14. GoneMatches'
  <2> SUFFICES ASSUME NEW y \in Callers, NEW j \in Ids \ torn, Restoring(y, j)'
               PROVE  /\ call'[y].gone.cost = portfolios'[j].cost /\ call'[y].gone.brought = portfolios'[j].brought
                      /\ \A z \in Callers \ {y} : Restoring(z, j)' => NoTrades(portfolios'[j])
    BY <1>2 DEF GoneMatches, NoTrades
  <2>1. Restoring(y, j) /\ call'[y] = call[y] /\ j /= i
    BY <1>13
  <2>2. /\ call[y].gone.cost = portfolios[j].cost /\ call[y].gone.brought = portfolios[j].brought
        /\ \A z \in Callers \ {y} : Restoring(z, j) => NoTrades(portfolios[j])
    BY <2>1 DEF IInv, GoneMatches
  <2> QED
    BY <1>5, <1>13, <2>1, <2>2 DEF NoTrades
<1>15. NeverOverspent'
  BY <1>3, <1>4, <1>5, PortfolioAssumption DEF IInv, NeverOverspent
<1>16. LedgerBalances'
  <2> SUFFICES ASSUME NEW j \in Ids \ torn, portfolios'[j].status /= "none"
               PROVE  portfolios'[j].capital = InitialCapital - portfolios'[j].cost + portfolios'[j].brought
    BY <1>2 DEF LedgerBalances
  <2>1. CASE j = i
    BY <1>3, <1>4, <2>1, PortfolioAssumption
  <2>2. CASE j /= i
    BY <1>5, <2>2 DEF IInv, LedgerBalances
  <2> QED
    BY <2>1, <2>2
<1> QED
  BY <1>10, <1>11, <1>12, <1>14, <1>15, <1>16 DEF IInv

------------------------------------------------------------------------------
(* The invariant *)

LEMMA ExpireStep ==
  ASSUME IInv, Expire
  PROVE  IInv'
<1>1. cache' \in CacheType /\ cache'.id = cache.id
  BY QuietCache DEF CacheType, Expire
<1>2. UNCHANGED <<portfolios, call, torn, disturbed>>
  BY DEF Expire, history
<1>3. TypeOK' /\ (\A x \in Callers : Placed(call[x])') /\ Exists(cache.id)'
  BY <1>1, <1>2 DEF IInv, TypeOK, CacheType, Placed, Exists
<1>4. GoneMatches' /\ NeverOverspent' /\ LedgerBalances'
  BY <1>2 DEF IInv, GoneMatches, Restoring, NoTrades, NeverOverspent, LedgerBalances
<1> QED
  BY <1>3, <1>4 DEF IInv

LEMMA RestartStep ==
  ASSUME IInv, Restart
  PROVE  IInv'
<1>1. /\ cache' = EmptyCache /\ call' = [x \in Callers |-> Idle]
      /\ UNCHANGED <<portfolios, torn, disturbed>>
  BY DEF Restart, history
<1>2. Idle \in CallType /\ Idle.id = None /\ Idle.pc = "idle"
  BY IdleType
<1>3. TypeOK'
  BY <1>1, <1>2, EmptyCacheType DEF IInv, TypeOK, CacheType
<1>4. \A x \in Callers : Placed(call[x])'
  BY <1>1, <1>2 DEF Placed, Exists
<1>5. Exists(cache.id)'
  BY <1>1, EmptyCacheType DEF Exists
<1>6. GoneMatches'
  BY <1>1, <1>2 DEF GoneMatches, Restoring
<1>7. NeverOverspent' /\ LedgerBalances'
  BY <1>1 DEF IInv, NeverOverspent, LedgerBalances
<1> QED
  BY <1>3, <1>4, <1>5, <1>6, <1>7 DEF IInv

LEMMA InitIInv == Init => IInv
<1> SUFFICES ASSUME Init
             PROVE  IInv
  OBVIOUS
<1>1. /\ portfolios = [i \in Ids |-> NoRow] /\ cache = EmptyCache
      /\ call = [x \in Callers |-> Idle] /\ torn = {} /\ disturbed = FALSE
  BY DEF Init
<1>2. Idle \in CallType /\ Idle.id = None /\ Idle.pc = "idle"
  BY IdleType
<1>3. NoRow.status = "none" /\ NoRow.capital = 0
  BY DEF NoRow
<1>4. TypeOK
  BY <1>1, <1>2, EmptyCacheType, RowTypes DEF TypeOK, CacheType
<1>5. (\A x \in Callers : Placed(call[x])) /\ Exists(cache.id)
  BY <1>1, <1>2, EmptyCacheType DEF Placed, Exists
<1>6. GoneMatches
  BY <1>1, <1>2 DEF GoneMatches, Restoring
<1>7. NeverOverspent /\ LedgerBalances
  BY <1>1, <1>3 DEF NeverOverspent, LedgerBalances
<1> QED
  BY <1>4, <1>5, <1>6, <1>7 DEF IInv

LEMMA StepIInv == IInv /\ [Next]_vars => IInv'
<1> SUFFICES ASSUME IInv, [Next]_vars
             PROVE  IInv'
  OBVIOUS
<1>1. ASSUME NEW x \in Callers, Request(x) \/ QueryFails(x)
      PROVE  IInv'
  BY <1>1, RequestStep, QueryFailsStep
<1>2. ASSUME NEW x \in Callers, Hydrate(x)
      PROVE  IInv'
  BY <1>2, FindStep, FoundStep, LoadStep, LoadedStep DEF Hydrate
<1>3. ASSUME NEW x \in Callers, GetState(x)
      PROVE  IInv'
  BY <1>3, StateStep, RefreshStep, ReadCapitalStep, BalanceStep, ShownStep DEF GetState
<1>4. ASSUME NEW x \in Callers, Execute(x)
      PROVE  IInv'
  BY <1>4, ExitNextStep, TradeStep, ReadPositionStep, CheckStep, CommitStep, SavedStep DEF Execute
<1>5. ASSUME NEW x \in Callers, ResetToInitial(x)
      PROVE  IInv'
  BY <1>5, DeleteStep, RestoreStep, RestoredStep DEF ResetToInitial
<1>6. ASSUME NEW x \in Callers, Initialize(x)
      PROVE  IInv'
  BY <1>6, CreateStep, CreatedStep DEF Initialize
<1>7. CASE Expire
  BY <1>7, ExpireStep
<1>8. CASE Restart
  BY <1>8, RestartStep
<1>9. CASE UNCHANGED vars
  <2>1. UNCHANGED <<portfolios, cache, call, torn, disturbed>>
    BY <1>9 DEF vars
  <2> QED
    BY <2>1 DEF IInv, TypeOK, Placed, Exists, GoneMatches, Restoring, NoTrades, NeverOverspent, LedgerBalances
<1> QED
  BY <1>1, <1>2, <1>3, <1>4, <1>5, <1>6, <1>7, <1>8, <1>9 DEF Next

LEMMA Invariance == Spec => []IInv
BY InitIInv, StepIInv, PTL DEF Spec

\* The tables, the cache and the calls keep their types.
THEOREM TypeCorrect == Spec => []TypeOK
<1>1. IInv => TypeOK
  BY DEF IInv
<1> QED
  BY <1>1, Invariance, PTL

\* However many requests interleave with resets, failures and restarts, no
\* portfolio is spent below zero: saveTrade compares with the locked row
\* (portfolioRepository.js:196-216).
THEOREM NothingOverspent == Spec => []NeverOverspent
<1>1. IInv => NeverOverspent
  BY DEF IInv
<1> QED
  BY <1>1, Invariance, PTL

\* A portfolio no reset of which overlapped a trade has the capital its ledger
\* adds up to (portfolioRepository.js:123-146 and 194-259).
THEOREM LedgerBalanced == Spec => []LedgerBalances
<1>1. IInv => LedgerBalances
  BY DEF IInv
<1> QED
  BY <1>1, Invariance, PTL

------------------------------------------------------------------------------
(* One request at a time *)

\* There is one active portfolio at most: a creation closes the others, a reset opens none
\* beside another.
OneActive == \A i, j \in ActiveIds : i = j

Busy(x) == call[x].pc /= "idle"

\* The tables are ahead of the cache until the call has assigned what it has written.
Ahead(c) == c.pc \in {"saved", "restored", "created"}

CacheAgrees ==
  /\ cache.id = None => cache.positions = Unread
  /\ cache.id /= None /\ (\A x \in Callers : call[x].pc /= "created") => cache.id = Active
  /\ cache.id /= None /\ (\A x \in Callers : ~Ahead(call[x])) =>
       /\ cache.capital = portfolios[Active].capital
       /\ cache.positions \in {Unread, Positions(portfolios[Active])}

\* What a call keeps across its awaits is what the tables hold.
Knows(c) ==
  /\ c.pc \in {"found", "load", "loaded", "created"} => c.id = Active
  /\ c.pc \in {"load", "loaded", "refresh", "position", "check", "commit", "saved", "delete", "restore",
               "restored"} => cache.id /= None
  /\ c.pc \in {"position", "check", "commit", "saved", "delete", "restore", "restored"} =>
       c.id = cache.id
  /\ c.pc = "found" /\ c.id /= None => c.got = portfolios[c.id].capital
  /\ c.pc = "balance" /\ Active /= None => c.got = portfolios[Active].capital
  /\ c.pc = "saved" => c.got = portfolios[c.id].capital
  /\ c.pc \in {"loaded", "refresh", "check"} => c.seen = Positions(portfolios[Active])
  /\ c.pc = "commit" /\ c.kind /= "buy" => c.qty <= Positions(portfolios[Active])[c.sym]
  /\ c.pc = "restore" => c.gone = portfolios[c.id]
  /\ c.pc \in {"restored", "created"} =>
       portfolios[Active].capital = InitialCapital /\ Positions(portfolios[Active]) = NoPositions

InStep ==
  /\ \A x, y \in Callers : Busy(x) /\ Busy(y) => x = y
  /\ NeverOversold
  /\ CacheAgrees
  /\ \A x \in Callers : Knows(call[x])

OneByOne == OneActive /\ (~disturbed => InStep)

\* Places of a call that keeps nothing of the tables.
Plain == {"idle", "find", "state", "capital", "shown", "exit", "trade", "create"}

LEMMA PlainKnows ==
  ASSUME NEW c, c.pc \in Plain
  PROVE  Knows(c) /\ ~Ahead(c)
BY DEF Plain, Knows, Ahead

LEMMA OnlyBusy ==
  ASSUME InStep, NEW x \in Callers, Busy(x)
  PROVE  \A y \in Callers \ {x} : call[y].pc = "idle"
BY DEF InStep, Busy

\* A step of the running call that writes neither the tables nor the cache.
LEMMA GoesOn ==
  ASSUME IInv, InStep, NEW x \in Callers, Busy(x), ~Ahead(call[x]), NEW c, Become(x, c),
         UNCHANGED <<portfolios, cache>>, Knows(c), ~Ahead(c)
  PROVE  InStep'
<1>1. call'[x] = c /\ \A y \in Callers \ {x} : call'[y] = call[y]
  BY DEF IInv, TypeOK, Become
<1>2. \A y \in Callers \ {x} : call[y].pc = "idle"
  BY OnlyBusy
<1>3. Active' = Active
  BY DEF Active, ActiveIds
<1>4. NeverOversold' /\ \A y \in Callers : Knows(call[y])'
  BY <1>1, <1>3 DEF InStep, NeverOversold, Knows
<1>5. (\A y \in Callers : ~Ahead(call[y])) /\ (\A y \in Callers : call[y].pc /= "created")
  BY <1>2 DEF Ahead
<1>6. CacheAgrees'
  BY <1>3, <1>5 DEF InStep, CacheAgrees
<1> QED
  BY <1>1, <1>2, <1>4, <1>6 DEF InStep, Busy

\* A step of the running call that writes the cache to what the tables hold.
LEMMA Assigns ==
  ASSUME IInv, InStep, NEW x \in Callers, Busy(x), NEW c, Become(x, c), UNCHANGED portfolios,
         c.pc \in Plain \/ (c.pc = "load" /\ c.id = Active /\ cache'.id /= None),
         cache'.id = None => cache'.positions = Unread,
         cache'.id /= None =>
           /\ cache'.id = Active /\ cache'.capital = portfolios[Active].capital
           /\ cache'.positions \in {Unread, Positions(portfolios[Active])}
  PROVE  InStep'
<1>1. call'[x] = c /\ \A y \in Callers \ {x} : call'[y] = call[y]
  BY DEF IInv, TypeOK, Become
<1>2. \A y \in Callers \ {x} : call[y].pc = "idle"
  BY OnlyBusy
<1>3. Active' = Active
  BY DEF Active, ActiveIds
<1>4. \A y \in Callers : Knows(call[y])'
  BY <1>1, <1>2, <1>3 DEF Knows, Plain
<1>5. CacheAgrees'
  BY <1>3 DEF CacheAgrees
<1> QED
  BY <1>1, <1>2, <1>4, <1>5 DEF InStep, Busy, NeverOversold

\* A step of the running call that writes the tables.
LEMMA Writes ==
  ASSUME IInv, InStep, NEW x \in Callers, Busy(x), NEW c, Become(x, c), UNCHANGED cache,
         Ahead(c), c.id = Active',
         c.pc = "created" \/ (cache.id /= None /\ c.id = cache.id),
         c.pc = "saved" => c.got = portfolios'[c.id].capital,
         c.pc /= "saved" =>
           portfolios'[c.id].capital = InitialCapital /\ Positions(portfolios'[c.id]) = NoPositions,
         NeverOversold'
  PROVE  InStep'
<1>1. call'[x] = c /\ \A y \in Callers \ {x} : call'[y] = call[y]
  BY DEF IInv, TypeOK, Become
<1>2. \A y \in Callers \ {x} : call[y].pc = "idle"
  BY OnlyBusy
<1>3. \A y \in Callers : Knows(call[y])'
  <2>1. Knows(call[x])'
    BY <1>1 DEF Knows, Ahead
  <2>2. \A y \in Callers \ {x} : Knows(call[y])'
    BY <1>1, <1>2 DEF Knows
  <2> QED
    BY <2>1, <2>2
<1>4. CacheAgrees'
  BY <1>1 DEF InStep, CacheAgrees, Ahead
<1> QED
  BY <1>1, <1>2, <1>3, <1>4 DEF InStep, Busy

\* A call that goes on with nothing it must know.
LEMMA GoesPlain ==
  ASSUME IInv, InStep, NEW x \in Callers, Busy(x), ~Ahead(call[x]), NEW c, Become(x, c), c.pc \in Plain,
         UNCHANGED <<portfolios, cache>>
  PROVE  InStep'
BY PlainKnows, GoesOn

LEMMA EndsPlain ==
  ASSUME NEW c \in CallType
  PROVE  Idle.pc \in Plain /\ AfterTrade(c).pc \in Plain /\ [Idle EXCEPT !.pc = "state"].pc \in Plain
BY IdleType DEF AfterTrade, Plain, CallType

LEMMA RefusedPlain ==
  ASSUME IInv, InStep, NEW x \in Callers, Busy(x), ~Ahead(call[x]), Refused(x),
         UNCHANGED <<portfolios, cache>>
  PROVE  InStep'
<1>1. call[x] \in CallType
  BY DEF IInv, Placed
<1> QED
  BY <1>1, EndsPlain, GoesPlain DEF Refused, Return

\* What a ledger adds up to while nothing is oversold.
LEMMA PositionsAre ==
  ASSUME NEW row \in Row, NEW s \in Symbols, row.bought[s] >= row.sold[s]
  PROVE  Positions(row)[s] = row.bought[s] - row.sold[s]
<1>1. row.bought[s] \in Int /\ row.sold[s] \in Int
  BY DEF Row
<1> QED
  BY <1>1 DEF Positions

\* The cache of a running call that is not ahead of it.
LEMMA CacheIs ==
  ASSUME IInv, InStep, NEW x \in Callers, Busy(x), ~Ahead(call[x])
  PROVE  /\ cache \in CacheType
         /\ cache.id = None => cache.positions = Unread
         /\ cache.id /= None => /\ cache.id = Active /\ cache.capital = portfolios[Active].capital
                                /\ cache.positions \in {Unread, Positions(portfolios[Active])}
<1>1. \A y \in Callers : ~Ahead(call[y])
  BY OnlyBusy DEF Ahead
<1>2. \A y \in Callers : call[y].pc /= "created"
  BY <1>1 DEF Ahead
<1> QED
  BY <1>1, <1>2, QuietCache DEF InStep, CacheAgrees

LEMMA RequestInStep ==
  ASSUME IInv, InStep, NEW x \in Callers, Request(x)
  PROVE  disturbed' \/ InStep'
<1>1. PICK kind \in Kinds, s \in Symbols, q \in Qtys, v \in Values :
        LET c == [Idle EXCEPT !.pc = Entry(kind), !.kind = kind, !.sym = s]
        IN  Become(x, IF kind \in {"buy", "sell"} THEN [c EXCEPT !.qty = q, !.value = v] ELSE c)
  BY DEF Request
<1> DEFINE c == [Idle EXCEPT !.pc = Entry(kind), !.kind = kind, !.sym = s]
           d == IF kind \in {"buy", "sell"} THEN [c EXCEPT !.qty = q, !.value = v] ELSE c
<1>2. Entry(kind) \in {"create", "trade", "state"}
  BY DEF Entry
<1>3. c.pc = Entry(kind) /\ [c EXCEPT !.qty = q, !.value = v].pc = c.pc
  BY DEF Idle
<1>4. Become(x, d) /\ d.pc \in {"create", "trade", "state"}
  BY <1>1, <1>2, <1>3
<1> HIDE DEF d
<1>5. call'[x] = d /\ \A y \in Callers \ {x} : call'[y] = call[y]
  BY <1>4 DEF IInv, TypeOK, Become
<1>6. call[x].pc = "idle" /\ UNCHANGED <<portfolios, cache>>
      /\ (disturbed' \/ \A y \in Callers \ {x} : call[y].pc = "idle")
  BY QuietCache DEF Request
<1>7. ASSUME \A y \in Callers \ {x} : call[y].pc = "idle"
      PROVE  InStep'
  <2>1. Active' = Active
    BY <1>6 DEF Active, ActiveIds
  <2>2. \A y \in Callers : Knows(call[y])'
    BY <1>4, <1>5, <1>7 DEF Knows
  <2>3. (\A y \in Callers : ~Ahead(call[y])) /\ (\A y \in Callers : call[y].pc /= "created")
    BY <1>6, <1>7 DEF Ahead
  <2>4. CacheAgrees'
    BY <1>6, <2>1, <2>3 DEF InStep, CacheAgrees
  <2>5. NeverOversold'
    BY <1>6 DEF InStep, NeverOversold
  <2> QED
    BY <1>5, <1>7, <2>2, <2>4, <2>5 DEF InStep, Busy
<1> QED
  BY <1>6, <1>7

LEMMA HydrateInStep ==
  ASSUME IInv, InStep, NEW x \in Callers, Hydrate(x)
  PROVE  InStep'
<1> DEFINE c == call[x]
<1>1. c \in CallType /\ Busy(x) /\ ~Ahead(c) /\ Knows(c) /\ c.pc \in {"find", "found", "load", "loaded"}
  BY DEF IInv, Placed, InStep, Hydrate, Find, Found, Load, Loaded, Busy, Ahead
<1>2. /\ cache \in CacheType
      /\ cache.id = None => cache.positions = Unread
      /\ cache.id /= None => /\ cache.id = Active /\ cache.capital = portfolios[Active].capital
                             /\ cache.positions \in {Unread, Positions(portfolios[Active])}
  BY <1>1, CacheIs
<1>3. CASE Find(x)
  <2> DEFINE got == IF Active = None THEN 0 ELSE portfolios[Active].capital
             d == [c EXCEPT !.pc = "found", !.id = Active, !.got = got]
  <2>1. Become(x, d) /\ UNCHANGED <<portfolios, cache>>
    BY <1>3 DEF Find
  <2>2. d.pc = "found" /\ d.id = Active /\ d.got = got
    BY <1>1 DEF CallType
  <2> HIDE DEF d
  <2>3. Knows(d) /\ ~Ahead(d)
    BY <2>2 DEF Knows, Ahead
  <2> HIDE DEF c
  <2> QED
    BY <1>1, <2>1, <2>3, GoesOn DEF c
<1>4. CASE Found(x)
  <2>1. CASE cache' = EmptyCache /\ Return(x)
    <3>1. cache'.id = None /\ cache'.positions = Unread
      BY <2>1 DEF EmptyCache
    <3>2. Become(x, Idle) /\ Idle.pc \in Plain /\ UNCHANGED portfolios
      BY <1>1, <1>4, <2>1, EndsPlain DEF Return, Found
    <3> QED
      BY <1>1, <3>1, <3>2, Assigns
  <2>2. CASE /\ c.id /= None
             /\ cache' = [cache EXCEPT !.id = c.id, !.capital = c.got]
             /\ Goto(x, "load")
    <3> DEFINE d == [c EXCEPT !.pc = "load", !.got = 0, !.seen = NoPositions, !.gone = NoRow]
    <3>1. c.id = Active /\ c.got = portfolios[Active].capital
      BY <1>1, <1>4, <2>2 DEF Found, Knows
    <3>2. cache'.id = c.id /\ cache'.capital = c.got /\ cache'.positions = cache.positions
      BY <1>2, <2>2 DEF CacheType
    <3>3. Become(x, d) /\ UNCHANGED portfolios
      BY <1>4, <2>2 DEF Goto, Found
    <3>4. d.pc = "load" /\ d.id = c.id
      BY <1>1 DEF CallType
    <3> HIDE DEF d
    <3> QED
      BY <1>1, <1>2, <2>2, <3>1, <3>2, <3>3, <3>4, Assigns
  <2> QED
    BY <1>4, <2>1, <2>2 DEF Found
<1>5. CASE Load(x)
  <2> DEFINE d == [c EXCEPT !.pc = "loaded", !.seen = Positions(portfolios[c.id])]
  <2>1. Become(x, d) /\ UNCHANGED <<portfolios, cache>>
    BY <1>5 DEF Load
  <2>2. d.pc = "loaded" /\ d.id = c.id /\ d.seen = Positions(portfolios[c.id])
    BY <1>1 DEF CallType
  <2>3. c.id = Active /\ cache.id /= None
    BY <1>1, <1>5 DEF Knows, Load
  <2> HIDE DEF d
  <2>4. Knows(d) /\ ~Ahead(d)
    BY <2>2, <2>3 DEF Knows, Ahead
  <2> QED
    BY <1>1, <2>1, <2>4, GoesOn
<1>6. CASE Loaded(x)
  <2> DEFINE d == [c EXCEPT !.pc = AfterHydrate(c), !.id = None, !.seen = NoPositions]
  <2>1. Become(x, d) /\ UNCHANGED portfolios
    BY <1>6 DEF Loaded
  <2>2. d.pc \in Plain
    BY <1>1 DEF CallType, AfterHydrate, Plain
  <2>3. cache.id /= None /\ c.seen = Positions(portfolios[Active])
    BY <1>1, <1>6 DEF Knows, Loaded
  <2>4. cache'.id = cache.id /\ cache'.capital = cache.capital /\ cache'.positions = c.seen
    BY <1>2, <1>6 DEF CacheType, Loaded
  <2> HIDE DEF d
  <2> QED
    BY <1>1, <1>2, <2>1, <2>2, <2>3, <2>4, Assigns
<1> QED
  BY <1>3, <1>4, <1>5, <1>6 DEF Hydrate

LEMMA GetStateInStep ==
  ASSUME IInv, InStep, NEW x \in Callers, GetState(x)
  PROVE  InStep'
<1> DEFINE c == call[x]
<1>1. c \in CallType /\ Busy(x) /\ ~Ahead(c) /\ Knows(c)
  BY DEF IInv, Placed, InStep, GetState, State, Refresh, ReadCapital, Balance, Shown, Busy, Ahead
<1>2. /\ cache \in CacheType
      /\ cache.id = None => cache.positions = Unread
      /\ cache.id /= None => /\ cache.id = Active /\ cache.capital = portfolios[Active].capital
                             /\ cache.positions \in {Unread, Positions(portfolios[Active])}
  BY <1>1, CacheIs
<1>3. ASSUME NEW p \in {"find", "capital", "shown"}, Goto(x, p)
      PROVE  \E d : Become(x, d) /\ d.pc \in Plain
  <2> DEFINE d == [c EXCEPT !.pc = p, !.got = 0, !.seen = NoPositions, !.gone = NoRow]
  <2>1. Become(x, d)
    BY <1>3 DEF Goto
  <2>2. d.pc \in Plain
    BY <1>1 DEF CallType, Plain
  <2> QED
    BY <2>1, <2>2
<1>4. CASE State(x)
  <2>1. UNCHANGED <<portfolios, cache>>
    BY <1>4 DEF State
  <2>2. CASE Goto(x, "shown") \/ Goto(x, "find")
    BY <1>1, <1>3, <2>1, <2>2, GoesPlain
  <2>3. CASE Initialized /\ Become(x, [c EXCEPT !.pc = "refresh", !.seen = Positions(portfolios[cache.id])])
    <3> DEFINE d == [c EXCEPT !.pc = "refresh", !.seen = Positions(portfolios[cache.id])]
    <3>1. d.pc = "refresh" /\ d.seen = Positions(portfolios[Active]) /\ cache.id /= None /\ Become(x, d)
      BY <1>1, <1>2, <2>3 DEF CallType, Initialized
    <3> HIDE DEF d
    <3>2. Knows(d) /\ ~Ahead(d)
      BY <3>1 DEF Knows, Ahead
    <3> QED
      BY <1>1, <2>1, <3>1, <3>2, GoesOn
  <2> QED
    BY <1>4, <2>2, <2>3 DEF State
<1>5. CASE Refresh(x)
  <2>1. cache.id /= None /\ c.seen = Positions(portfolios[Active])
    BY <1>1, <1>5 DEF Refresh, Knows
  <2>2. cache'.id = cache.id /\ cache'.capital = cache.capital /\ cache'.positions = c.seen
    BY <1>2, <1>5 DEF Refresh, Refreshed, CacheType
  <2>3. Goto(x, "capital") /\ UNCHANGED portfolios
    BY <1>5 DEF Refresh
  <2> QED
    BY <1>1, <1>2, <1>3, <2>1, <2>2, <2>3, Assigns
<1>6. CASE ReadCapital(x)
  <2> DEFINE got == IF Active = None THEN cache.capital ELSE portfolios[Active].capital
             d == [c EXCEPT !.pc = "balance", !.got = got]
  <2>1. Become(x, d) /\ UNCHANGED <<portfolios, cache>>
    BY <1>6 DEF ReadCapital
  <2>2. d.pc = "balance" /\ d.got = got
    BY <1>1 DEF CallType
  <2> HIDE DEF d
  <2>3. Knows(d) /\ ~Ahead(d)
    BY <2>2 DEF Knows, Ahead
  <2> QED
    BY <1>1, <2>1, <2>3, GoesOn
<1>7. CASE Balance(x)
  <2>1. Active /= None => c.got = portfolios[Active].capital
    BY <1>1, <1>7 DEF Balance, Knows
  <2>2. cache'.id = cache.id /\ cache'.capital = c.got /\ cache'.positions = cache.positions
    BY <1>2, <1>7 DEF Balance, CacheType
  <2>3. Goto(x, "shown") /\ UNCHANGED portfolios
    BY <1>7 DEF Balance
  <2> QED
    BY <1>1, <1>2, <1>3, <2>1, <2>2, <2>3, Assigns
<1>8. CASE Shown(x)
  <2> DEFINE held == IF cache.positions = Unread THEN NoPositions ELSE cache.positions
  <2>1. UNCHANGED <<portfolios, cache>>
    BY <1>8 DEF Shown
  <2>2. CASE Return(x)
    BY <1>1, <2>1, <2>2, EndsPlain, GoesPlain DEF Return
  <2>3. ASSUME NEW set, Become(x, [c EXCEPT !.pc = "exit",
                                            !.todo = [s \in Symbols |-> IF s \in set THEN held[s] ELSE 0]])
        PROVE  InStep'
    <3> DEFINE d == [c EXCEPT !.pc = "exit", !.todo = [s \in Symbols |-> IF s \in set THEN held[s] ELSE 0]]
    <3>1. d.pc \in Plain /\ Become(x, d)
      BY <1>1, <2>3 DEF CallType, Plain
    <3> HIDE DEF d
    <3> QED
      BY <1>1, <2>1, <3>1, GoesPlain
  <2>4. CASE Initialized /\ Become(x, [c EXCEPT !.pc = "delete", !.id = cache.id])
    <3> DEFINE d == [c EXCEPT !.pc = "delete", !.id = cache.id]
    <3>1. d.pc = "delete" /\ d.id = cache.id /\ cache.id /= None /\ Become(x, d)
      BY <1>1, <2>4 DEF CallType, Initialized
    <3> HIDE DEF d
    <3>2. Knows(d) /\ ~Ahead(d)
      BY <3>1 DEF Knows, Ahead
    <3> QED
      BY <1>1, <2>1, <3>1, <3>2, GoesOn
  <2> QED
    BY <1>8, <2>2, <2>3, <2>4 DEF Shown
<1> QED
  BY <1>4, <1>5, <1>6, <1>7, <1>8 DEF GetState

\* No trade sells more than there is (a sale is checked against what the ledger adds up to).
LEMMA LotsKept ==
  ASSUME NEW row \in Row, NEW c \in CallType, \A s \in Symbols : row.bought[s] >= row.sold[s],
         NEW new, new = IF c.kind = "buy" THEN Bought(row, c) ELSE Sold(row, c),
         c.kind /= "buy" => c.qty <= Positions(row)[c.sym]
  PROVE  \A s \in Symbols : new.bought[s] >= new.sold[s]
<1>1. /\ row.bought \in [Symbols -> Int] /\ row.sold \in [Symbols -> Int]
      /\ c.qty \in Nat /\ c.sym \in Symbols
  BY DEF Row, CallType
<1>2. CASE c.kind = "buy"
  <2>1. new.bought = [row.bought EXCEPT ![c.sym] = @ + c.qty] /\ new.sold = row.sold
    BY <1>2 DEF Bought, Row
  <2> QED
    BY <1>1, <2>1
<1>3. CASE c.kind /= "buy"
  <2>1. new.sold = [row.sold EXCEPT ![c.sym] = @ + c.qty] /\ new.bought = row.bought
    BY <1>3 DEF Sold, Row
  <2>2. c.qty <= row.bought[c.sym] - row.sold[c.sym]
    BY <1>1, <1>3, PositionsAre
  <2> QED
    BY <1>1, <2>1, <2>2
<1> QED
  BY <1>2, <1>3

LEMMA TradeInStep ==
  ASSUME IInv, InStep, NEW x \in Callers, ExitNext(x) \/ Trade(x) \/ ReadPosition(x) \/ Check(x)
  PROVE  InStep'
<1> DEFINE c == call[x]
<1>1. c \in CallType /\ Busy(x) /\ ~Ahead(c) /\ Knows(c) /\ UNCHANGED <<portfolios, cache>>
  BY DEF IInv, Placed, InStep, ExitNext, Trade, ReadPosition, Check, Busy, Ahead
<1>2. /\ cache \in CacheType
      /\ cache.id = None => cache.positions = Unread
      /\ cache.id /= None => /\ cache.id = Active /\ cache.capital = portfolios[Active].capital
                             /\ cache.positions \in {Unread, Positions(portfolios[Active])}
  BY <1>1, CacheIs
<1>3. CASE ExitNext(x)
  <2>1. CASE Become(x, [Idle EXCEPT !.pc = "state"])
    BY <1>1, <2>1, EndsPlain, GoesPlain
  <2>2. ASSUME NEW s, NEW v, Become(x, [c EXCEPT !.pc = "trade", !.sym = s, !.value = v, !.qty = c.todo[s],
                                                 !.todo = [@ EXCEPT ![s] = 0]])
        PROVE  InStep'
    <3> DEFINE d == [c EXCEPT !.pc = "trade", !.sym = s, !.value = v, !.qty = c.todo[s],
                              !.todo = [@ EXCEPT ![s] = 0]]
    <3>1. Become(x, d) /\ d.pc \in Plain
      BY <1>1, <2>2 DEF CallType, Plain
    <3> HIDE DEF d
    <3> QED
      BY <1>1, <3>1, GoesPlain
  <2> QED
    BY <1>3, <2>1, <2>2 DEF ExitNext
<1>4. CASE Trade(x)
  <2>1. CASE ~Initialized /\ Goto(x, "find")
    <3> DEFINE d == [c EXCEPT !.pc = "find", !.got = 0, !.seen = NoPositions, !.gone = NoRow]
    <3>1. Become(x, d) /\ d.pc \in Plain
      BY <1>1, <2>1 DEF Goto, CallType, Plain
    <3> HIDE DEF d
    <3> QED
      BY <1>1, <3>1, GoesPlain
  <2>2. CASE /\ Initialized
             /\ c.kind = "buy" \/ (CachedQty(c.sym) > 0 /\ Covers(CachedQty(c.sym), c.qty))
             /\ Become(x, [c EXCEPT !.pc = "commit", !.id = cache.id])
    <3> DEFINE d == [c EXCEPT !.pc = "commit", !.id = cache.id]
    <3>1. /\ d.pc = "commit" /\ d.id = cache.id /\ d.kind = c.kind /\ d.sym = c.sym /\ d.qty = c.qty
          /\ cache.id /= None /\ Become(x, d)
      BY <1>1, <2>2 DEF CallType, Initialized
    <3>2. c.kind /= "buy" => c.qty <= Positions(portfolios[Active])[c.sym]
      BY <1>2, <2>2, <3>1 DEF CachedQty, Covers
    <3> HIDE DEF d
    <3>3. Knows(d) /\ ~Ahead(d)
      BY <3>1, <3>2 DEF Knows, Ahead
    <3> QED
      BY <1>1, <3>1, <3>3, GoesOn
  <2>3. CASE Initialized /\ Become(x, [c EXCEPT !.pc = "position", !.id = cache.id])
    <3> DEFINE d == [c EXCEPT !.pc = "position", !.id = cache.id]
    <3>1. d.pc = "position" /\ d.id = cache.id /\ cache.id /= None /\ Become(x, d)
      BY <1>1, <2>3 DEF CallType, Initialized
    <3> HIDE DEF d
    <3>2. Knows(d) /\ ~Ahead(d)
      BY <3>1 DEF Knows, Ahead
    <3> QED
      BY <1>1, <3>1, <3>2, GoesOn
  <2>4. CASE Refused(x)
    BY <1>1, <2>4, RefusedPlain
  <2> QED
    BY <1>4, <2>1, <2>2, <2>3, <2>4 DEF Trade
<1>5. CASE ReadPosition(x)
  <2> DEFINE d == [c EXCEPT !.pc = "check", !.seen = Positions(portfolios[c.id])]
  <2>1. Become(x, d) /\ d.pc = "check" /\ d.id = c.id /\ d.seen = Positions(portfolios[c.id])
    BY <1>1, <1>5 DEF CallType, ReadPosition
  <2>2. c.id = cache.id /\ cache.id /= None
    BY <1>1, <1>5 DEF Knows, ReadPosition
  <2> HIDE DEF d
  <2>3. Knows(d) /\ ~Ahead(d)
    BY <1>2, <2>1, <2>2 DEF Knows, Ahead
  <2> QED
    BY <1>1, <2>1, <2>3, GoesOn
<1>6. CASE Check(x)
  <2>1. CASE Refused(x)
    BY <1>1, <2>1, RefusedPlain
  <2>2. CASE /\ Covers(c.seen[c.sym], c.qty)
             /\ Become(x, [c EXCEPT !.pc = "commit", !.id = cache.id, !.seen = NoPositions])
    <3> DEFINE d == [c EXCEPT !.pc = "commit", !.id = cache.id, !.seen = NoPositions]
    <3>1. /\ d.pc = "commit" /\ d.id = cache.id /\ d.kind = c.kind /\ d.sym = c.sym /\ d.qty = c.qty
          /\ Become(x, d)
      BY <1>1, <2>2 DEF CallType
    <3>2. cache.id /= None /\ c.qty <= Positions(portfolios[Active])[c.sym]
      BY <1>1, <1>6, <2>2 DEF Covers, Knows, Check
    <3> HIDE DEF d
    <3>3. Knows(d) /\ ~Ahead(d)
      BY <3>1, <3>2 DEF Knows, Ahead
    <3> QED
      BY <1>1, <3>1, <3>3, GoesOn
  <2> QED
    BY <1>6, <2>1, <2>2 DEF Check
<1> QED
  BY <1>3, <1>4, <1>5, <1>6

LEMMA CommitInStep ==
  ASSUME IInv, InStep, NEW x \in Callers, Commit(x)
  PROVE  disturbed' \/ InStep'
<1> DEFINE c == call[x]
           ok == c.id /= None /\ (c.kind = "buy" => Affords(portfolios[c.id], c.value))
           new == IF c.kind = "buy" THEN Bought(portfolios[c.id], c) ELSE Sold(portfolios[c.id], c)
           d == [c EXCEPT !.pc = "saved", !.got = new.capital]
<1>1. c \in CallType /\ Busy(x) /\ ~Ahead(c) /\ Knows(c) /\ c.pc = "commit" /\ UNCHANGED cache
  BY DEF IInv, Placed, InStep, Commit, Busy, Ahead
<1>2. c.id = cache.id /\ cache.id /= None /\ cache.id = Active /\ cache.id \in Ids
  BY <1>1, CacheIs DEF Knows, CacheType
<1>3. CASE ~ok
  <2>1. Refused(x) /\ UNCHANGED portfolios
    BY <1>3 DEF Commit
  <2> QED
    BY <1>1, <2>1, RefusedPlain
<1>4. CASE ok
  <2>1. portfolios' = [portfolios EXCEPT ![c.id] = new] /\ Answer(x, d)
    BY <1>4 DEF Commit
  <2>2. CASE disturbed'
    BY <2>2
  <2>3. CASE Become(x, d)
    <3> DEFINE row == portfolios[c.id]
    <3>1. row \in Row /\ portfolios \in [Ids -> Row] /\ row.capital >= 0
      BY <1>2 DEF IInv, TypeOK, NeverOverspent
    <3>2. new \in Row /\ new.status = row.status
      BY <1>1, <1>4, <3>1, Booking
    <3>3. \A s \in Symbols : new.bought[s] >= new.sold[s]
      <4>1. \A s \in Symbols : row.bought[s] >= row.sold[s]
        BY <1>2 DEF InStep, NeverOversold
      <4>2. c.kind /= "buy" => c.qty <= Positions(row)[c.sym]
        BY <1>1, <1>2 DEF Knows
      <4> QED
        BY <1>1, <3>1, <4>1, <4>2, LotsKept
    <3>4. d.pc = "saved" /\ d.id = c.id /\ d.got = new.capital
      BY <1>1 DEF CallType
    <3> HIDE DEF new
    <3>5. portfolios'[c.id] = new /\ \A j \in Ids \ {c.id} : portfolios'[j] = portfolios[j]
      BY <1>2, <2>1, <3>1
    <3>6. ActiveIds' = ActiveIds
      BY <1>2, <3>2, <3>5 DEF ActiveIds
    <3>7. Active' = Active
      BY <3>6 DEF Active
    <3>8. NeverOversold'
      BY <3>3, <3>5 DEF InStep, NeverOversold
    <3> HIDE DEF d
    <3>9. Ahead(d) /\ d.id = Active' /\ d.id = cache.id /\ d.got = portfolios'[d.id].capital
      BY <1>2, <3>4, <3>5, <3>7 DEF Ahead
    <3> QED
      BY <1>1, <1>2, <2>3, <3>4, <3>8, <3>9, Writes
  <2> QED
    BY <2>1, <2>2, <2>3 DEF Answer
<1> QED
  BY <1>3, <1>4

\* A call assigns what it has written.
LEMMA CatchesUp ==
  ASSUME IInv, InStep, NEW x \in Callers, Saved(x) \/ Restored(x) \/ Created(x)
  PROVE  InStep'
<1> DEFINE c == call[x]
<1>1. c \in CallType /\ Busy(x) /\ Knows(c) /\ UNCHANGED portfolios
  BY DEF IInv, Placed, InStep, Saved, Restored, Created, Busy
<1>2. cache \in CacheType
  BY QuietCache
<1>3. c.pc /= "created" => \A y \in Callers : call[y].pc /= "created"
  BY <1>1, OnlyBusy
<1>4. CASE Saved(x)
  <2>1. cache.id /= None /\ c.id = cache.id /\ cache.id = Active /\ c.got = portfolios[Active].capital
    BY <1>1, <1>3, <1>4 DEF Saved, Knows, InStep, CacheAgrees
  <2>2. cache'.id = cache.id /\ cache'.capital = c.got /\ cache'.positions = Unread
    BY <1>2, <1>4 DEF Saved, Booked, CacheType
  <2>3. Become(x, AfterTrade(c)) /\ AfterTrade(c).pc \in Plain
    BY <1>1, <1>4, EndsPlain DEF Saved
  <2> QED
    BY <1>1, <2>1, <2>2, <2>3, Assigns
<1>5. CASE Restored(x)
  <2>1. /\ cache.id /= None /\ cache.id = Active
        /\ portfolios[Active].capital = InitialCapital /\ Positions(portfolios[Active]) = NoPositions
    BY <1>1, <1>3, <1>5 DEF Restored, Knows, InStep, CacheAgrees
  <2>2. cache'.id = cache.id /\ cache'.capital = InitialCapital /\ cache'.positions = NoPositions
    BY <1>2, <1>5 DEF Restored, CacheType
  <2>3. Become(x, [Idle EXCEPT !.pc = "state"]) /\ [Idle EXCEPT !.pc = "state"].pc \in Plain
    BY <1>1, <1>5, EndsPlain DEF Restored
  <2> QED
    BY <1>1, <2>1, <2>2, <2>3, Assigns
<1>6. CASE Created(x)
  <2>1. /\ c.id = Active /\ c.id /= None
        /\ portfolios[Active].capital = InitialCapital /\ Positions(portfolios[Active]) = NoPositions
    BY <1>1, <1>6 DEF Created, Knows, IInv, Placed
  <2>2. cache'.id = c.id /\ cache'.capital = InitialCapital /\ cache'.positions = NoPositions
    BY <1>6 DEF Created, CreatedCache
  <2>3. Become(x, [Idle EXCEPT !.pc = "state"]) /\ [Idle EXCEPT !.pc = "state"].pc \in Plain
    BY <1>1, <1>6, EndsPlain DEF Created
  <2> QED
    BY <1>1, <2>1, <2>2, <2>3, Assigns
<1> QED
  BY <1>4, <1>5, <1>6

LEMMA DeleteInStep ==
  ASSUME IInv, InStep, NEW x \in Callers, Delete(x)
  PROVE  InStep'
<1> DEFINE c == call[x]
           d == [c EXCEPT !.pc = "restore", !.gone = portfolios[c.id]]
<1>1. c \in CallType /\ Busy(x) /\ ~Ahead(c) /\ Knows(c) /\ c.pc = "delete"
      /\ UNCHANGED <<portfolios, cache>> /\ Become(x, d)
  BY DEF IInv, Placed, InStep, Delete, Busy, Ahead
<1>2. d.pc = "restore" /\ d.id = c.id /\ d.gone = portfolios[d.id]
  BY <1>1 DEF CallType
<1>3. c.id = cache.id /\ cache.id /= None
  BY <1>1 DEF Knows
<1> HIDE DEF d
<1>4. Knows(d) /\ ~Ahead(d)
  BY <1>2, <1>3 DEF Knows, Ahead
<1> QED
  BY <1>1, <1>4, GoesOn

LEMMA RestoreInStep ==
  ASSUME IInv, InStep, NEW x \in Callers, Restore(x)
  PROVE  disturbed' \/ InStep'
<1> DEFINE c == call[x]
           i == c.id
           d == [c EXCEPT !.pc = "restored", !.gone = NoRow]
<1>1. c \in CallType /\ Busy(x) /\ ~Ahead(c) /\ Knows(c) /\ c.pc = "restore" /\ UNCHANGED cache
  BY DEF IInv, Placed, InStep, Restore, Busy, Ahead
<1>2. i = cache.id /\ cache.id /= None /\ i \in Ids /\ c.gone = portfolios[i]
  BY <1>1, QuietCache DEF Knows, CacheType
<1>3. CASE ~(ActiveIds \subseteq {i})
  <2>1. Return(x) /\ UNCHANGED portfolios
    BY <1>3 DEF Restore
  <2> QED
    BY <1>1, <2>1, EndsPlain, GoesPlain DEF Return
<1>4. CASE ActiveIds \subseteq {i}
  <2> DEFINE row == portfolios[i]
             new == Without(row, c.gone)
  <2>1. portfolios' = [portfolios EXCEPT ![i] = new] /\ Answer(x, d)
    BY <1>4 DEF Restore
  <2>2. CASE disturbed'
    BY <2>2
  <2>3. CASE Become(x, d)
    <3>1. row \in Row /\ portfolios \in [Ids -> Row] /\ c.gone = row
      BY <1>2 DEF IInv, TypeOK
    <3>2. new \in Row /\ new.status = "ACTIVE" /\ new.capital = InitialCapital
      BY <3>1, Restoration
    <3>3. \A s \in Symbols : new.bought[s] = 0 /\ new.sold[s] = 0
      <4>1. /\ new.bought = [s \in Symbols |-> row.bought[s] - row.bought[s]]
            /\ new.sold = [s \in Symbols |-> row.sold[s] - row.sold[s]]
        BY <3>1 DEF Without, Row
      <4>2. \A s \in Symbols : row.bought[s] \in Int /\ row.sold[s] \in Int
        BY <3>1 DEF Row
      <4> QED
        BY <4>1, <4>2
    <3>4. d.pc = "restored" /\ d.id = i
      BY <1>1 DEF CallType
    <3> HIDE DEF new
    <3>5. portfolios'[i] = new /\ \A j \in Ids \ {i} : portfolios'[j] = portfolios[j]
      BY <1>2, <2>1, <3>1
    <3>6. ActiveIds' = {i}
      BY <1>2, <1>4, <3>2, <3>5 DEF ActiveIds
    <3>7. Active' = i
      BY <3>6 DEF Active
    <3>8. NeverOversold'
      BY <3>3, <3>5 DEF InStep, NeverOversold
    <3>9. Positions(new) = NoPositions
      BY <3>3 DEF Positions, NoPositions
    <3> HIDE DEF d
    <3>10. /\ Ahead(d) /\ d.id = Active' /\ d.id = cache.id /\ d.pc = "restored"
           /\ portfolios'[d.id].capital = InitialCapital /\ Positions(portfolios'[d.id]) = NoPositions
      BY <1>2, <3>2, <3>4, <3>5, <3>7, <3>9 DEF Ahead
    <3> QED
      BY <1>1, <1>2, <2>3, <3>8, <3>10, Writes
  <2> QED
    BY <2>1, <2>2, <2>3 DEF Answer
<1> QED
  BY <1>3, <1>4

LEMMA CreateInStep ==
  ASSUME IInv, InStep, NEW x \in Callers, Create(x)
  PROVE  disturbed' \/ InStep'
<1>1. PICK i \in Ids :
        /\ portfolios' = [j \in Ids |-> IF j = i THEN NewRow
                                        ELSE IF j \in ActiveIds
                                             THEN [portfolios[j] EXCEPT !.status = "CLOSED"]
                                             ELSE portfolios[j]]
        /\ Answer(x, [call[x] EXCEPT !.pc = "created", !.id = i])
  BY DEF Create
<1> DEFINE d == [call[x] EXCEPT !.pc = "created", !.id = i]
<1>2. /\ call[x] \in CallType /\ portfolios \in [Ids -> Row] /\ UNCHANGED cache
      /\ Busy(x) /\ ~Ahead(call[x])
  BY DEF IInv, Placed, TypeOK, Create, Busy, Ahead
<1>3. /\ NewRow.status = "ACTIVE" /\ NewRow.capital = InitialCapital
      /\ NewRow.bought = NoPositions /\ NewRow.sold = NoPositions
  BY DEF NewRow, NoRow
<1>4. CASE disturbed'
  BY <1>4
<1>5. CASE Become(x, d)
  <2>1. portfolios'[i] = NewRow
    BY <1>1
  <2>2. ASSUME NEW j \in Ids \ {i}
        PROVE  /\ portfolios'[j].status /= "ACTIVE"
               /\ portfolios'[j].bought = portfolios[j].bought /\ portfolios'[j].sold = portfolios[j].sold
    <3>1. portfolios[j] \in Row
      BY <1>2
    <3>2. portfolios'[j] = IF j \in ActiveIds THEN [portfolios[j] EXCEPT !.status = "CLOSED"] ELSE portfolios[j]
      BY <1>1
    <3> QED
      BY <3>1, <3>2 DEF Row, ActiveIds
  <2>3. ActiveIds' = {i}
    BY <1>3, <2>1, <2>2 DEF ActiveIds
  <2>4. Active' = i
    BY <2>3 DEF Active
  <2>5. Positions(NewRow) = NoPositions /\ \A s \in Symbols : NewRow.bought[s] = 0 /\ NewRow.sold[s] = 0
    BY <1>3 DEF Positions, NoPositions
  <2>6. NeverOversold'
    BY <2>1, <2>2, <2>5 DEF InStep, NeverOversold
  <2>7. d.pc = "created" /\ d.id = i
    BY <1>2 DEF CallType
  <2> HIDE DEF d
  <2>8. Ahead(d)
    BY <2>7 DEF Ahead
  <2> QED
    BY <1>2, <1>3, <1>5, <2>1, <2>4, <2>5, <2>6, <2>7, <2>8, Writes
<1> QED
  BY <1>1, <1>4, <1>5 DEF Answer

LEMMA FailsInStep ==
  ASSUME IInv, InStep, NEW x \in Callers, QueryFails(x)
  PROVE  InStep'
<1>1. Busy(x) /\ ~Ahead(call[x]) /\ UNCHANGED <<portfolios, cache>> /\ call[x] \in CallType
  BY DEF QueryFails, Busy, Ahead, IInv, Placed
<1>2. CASE Refused(x)
  BY <1>1, <1>2, RefusedPlain
<1>3. CASE Return(x)
  BY <1>1, <1>3, EndsPlain, GoesPlain DEF Return
<1> QED
  BY <1>2, <1>3 DEF QueryFails

LEMMA ExpireInStep ==
  ASSUME IInv, InStep, Expire
  PROVE  InStep'
<1>1. cache'.id = cache.id /\ cache'.capital = cache.capital /\ cache'.positions = cache.positions
      /\ UNCHANGED <<portfolios, call>>
  BY QuietCache DEF Expire, CacheType
<1>2. Active' = Active
  BY <1>1 DEF Active, ActiveIds
<1>3. \A y \in Callers : Knows(call[y])'
  BY <1>1, <1>2 DEF InStep, Knows
<1> QED
  BY <1>1, <1>2, <1>3 DEF InStep, CacheAgrees, NeverOversold, Busy

\* Nothing is kept of what ran before.
LEMMA RestartInStep ==
  ASSUME NeverOversold', cache' = EmptyCache, call' = [x \in Callers |-> Idle]
  PROVE  InStep'
<1>1. \A x \in Callers : call'[x].pc = "idle"
  BY DEF Idle
<1>2. cache'.id = None /\ cache'.positions = Unread
  BY DEF EmptyCache
<1> QED
  BY <1>1, <1>2 DEF InStep, Busy, CacheAgrees, Knows

LEMMA OneActiveStep ==
  ASSUME IInv, OneActive, [Next]_vars
  PROVE  OneActive'
<1>1. CASE UNCHANGED portfolios
  BY <1>1 DEF OneActive, ActiveIds
<1>2. ASSUME NEW x \in Callers, Commit(x), portfolios' /= portfolios
      PROVE  OneActive'
  <2> DEFINE c == call[x]
             new == IF c.kind = "buy" THEN Bought(portfolios[c.id], c) ELSE Sold(portfolios[c.id], c)
  <2>1. c \in CallType /\ c.id /= None /\ (c.kind = "buy" => Affords(portfolios[c.id], c.value))
        /\ portfolios' = [portfolios EXCEPT ![c.id] = new]
    BY <1>2 DEF Commit, IInv, Placed
  <2>2. c.id \in Ids /\ portfolios \in [Ids -> Row] /\ portfolios[c.id] \in Row /\ portfolios[c.id].capital >= 0
    BY <2>1 DEF CallType, IInv, TypeOK, NeverOverspent
  <2>3. new.status = portfolios[c.id].status
    BY <2>1, <2>2, Booking
  <2> HIDE DEF new
  <2>4. ActiveIds' = ActiveIds
    BY <2>1, <2>2, <2>3 DEF ActiveIds
  <2> QED
    BY <2>4 DEF OneActive
<1>3. ASSUME NEW x \in Callers, Restore(x), portfolios' /= portfolios
      PROVE  OneActive'
  <2> DEFINE i == call[x].id
             new == Without(portfolios[i], call[x].gone)
  <2>1. ActiveIds \subseteq {i} /\ portfolios' = [portfolios EXCEPT ![i] = new] /\ portfolios \in [Ids -> Row]
    BY <1>3 DEF Restore, IInv, TypeOK
  <2> HIDE DEF new
  <2>2. ActiveIds' \subseteq {i}
    BY <2>1 DEF ActiveIds
  <2> QED
    BY <2>2 DEF OneActive
<1>4. ASSUME NEW x \in Callers, Create(x)
      PROVE  OneActive'
  <2>1. PICK i \in Ids :
          portfolios' = [j \in Ids |-> IF j = i THEN NewRow
                                       ELSE IF j \in ActiveIds
                                            THEN [portfolios[j] EXCEPT !.status = "CLOSED"]
                                            ELSE portfolios[j]]
    BY <1>4 DEF Create
  <2>2. ASSUME NEW j \in Ids \ {i}
        PROVE  portfolios'[j].status /= "ACTIVE"
    <3>1. portfolios[j] \in Row
      BY DEF IInv, TypeOK
    <3>2. portfolios'[j] = IF j \in ActiveIds THEN [portfolios[j] EXCEPT !.status = "CLOSED"] ELSE portfolios[j]
      BY <2>1
    <3> QED
      BY <3>1, <3>2 DEF Row, ActiveIds
  <2>3. ActiveIds' \subseteq {i}
    BY <2>2 DEF ActiveIds
  <2> QED
    BY <2>3 DEF OneActive
<1>5. \/ UNCHANGED portfolios
      \/ \E x \in Callers : Commit(x) \/ Restore(x) \/ Create(x)
  BY DEF Next, vars, Request, QueryFails, Hydrate, Find, Found, Load, Loaded, GetState, State, Refresh,
    ReadCapital, Balance, Shown, Execute, ExitNext, Trade, ReadPosition, Check, Saved, ResetToInitial,
    Delete, Restored, Initialize, Created, Expire, Restart, history
<1> QED
  BY <1>1, <1>2, <1>3, <1>4, <1>5

LEMMA InStepStep ==
  ASSUME IInv, InStep, [Next]_vars
  PROVE  disturbed' \/ InStep'
<1>1. ASSUME NEW x \in Callers, Request(x) \/ QueryFails(x)
      PROVE  disturbed' \/ InStep'
  BY <1>1, RequestInStep, FailsInStep
<1>2. ASSUME NEW x \in Callers, Hydrate(x) \/ GetState(x)
      PROVE  disturbed' \/ InStep'
  BY <1>2, HydrateInStep, GetStateInStep
<1>3. ASSUME NEW x \in Callers, Execute(x) \/ ResetToInitial(x) \/ Initialize(x)
      PROVE  disturbed' \/ InStep'
  BY <1>3, TradeInStep, CommitInStep, CatchesUp, DeleteInStep, RestoreInStep, CreateInStep
  DEF Execute, ResetToInitial, Initialize
<1>4. CASE Expire
  BY <1>4, ExpireInStep
<1>5. CASE Restart
  BY <1>5, RestartInStep DEF Restart, InStep, NeverOversold
<1>6. CASE UNCHANGED vars
  <2>1. UNCHANGED <<portfolios, cache, call>> /\ Active' = Active
    BY <1>6 DEF vars, Active, ActiveIds
  <2>2. \A y \in Callers : Knows(call[y])'
    BY <2>1 DEF InStep, Knows
  <2> QED
    BY <2>1, <2>2 DEF InStep, CacheAgrees, NeverOversold, Busy
<1> QED
  BY <1>1, <1>2, <1>3, <1>4, <1>5, <1>6 DEF Next

LEMMA DisturbedStays ==
  ASSUME IInv, [Next]_vars, disturbed
  PROVE  disturbed'
<1>1. disturbed \in BOOLEAN
  BY QuietCache
<1> QED
  BY <1>1 DEF Next, vars, Request, QueryFails, Hydrate, Find, Found, Load, Loaded, GetState, State, Refresh,
    ReadCapital, Balance, Shown, Execute, ExitNext, Trade, ReadPosition, Check, Commit, Answer, Saved,
    ResetToInitial, Delete, Restore, Restored, Initialize, Create, Created, Expire, Restart, history

\* Requests that do not overlap oversell nothing, whatever fails before their commit and
\* wherever the process restarts, and between them the cache names the active portfolio, its
\* capital and its positions (portfolioState.js:35-153).
THEOREM SequentialRequestsAgree == Spec => []OneByOneAgrees
<1>1. Init => OneByOne
  <2>1. ASSUME Init
        PROVE  OneActive /\ InStep
    <3>1. portfolios = [i \in Ids |-> NoRow] /\ cache = EmptyCache /\ call = [x \in Callers |-> Idle]
      BY <2>1 DEF Init
    <3>2. NoRow.status = "none" /\ NoRow.bought = NoPositions /\ NoRow.sold = NoPositions
      BY DEF NoRow
    <3>3. OneActive
      BY <3>1, <3>2 DEF OneActive, ActiveIds
    <3>4. NeverOversold
      BY <3>1, <3>2 DEF NeverOversold, NoPositions
    <3>5. \A x \in Callers : call[x].pc = "idle"
      BY <3>1 DEF Idle
    <3>6. cache.id = None /\ cache.positions = Unread
      BY <3>1 DEF EmptyCache
    <3> QED
      BY <3>3, <3>4, <3>5, <3>6 DEF InStep, Busy, CacheAgrees, Knows
  <2> QED
    BY <2>1 DEF OneByOne
<1>2. IInv /\ OneByOne /\ [Next]_vars => OneByOne'
  BY OneActiveStep, InStepStep, DisturbedStays DEF OneByOne
<1>3. OneByOne => OneByOneAgrees
  BY DEF OneByOne, OneByOneAgrees, InStep, CacheAgrees, Ahead, Initialized
<1> QED
  BY <1>1, <1>2, <1>3, Invariance, PTL DEF Spec

=============================================================================
