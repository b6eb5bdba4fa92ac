----------------------------- MODULE SimEngine -----------------------------
(***************************************************************************)
(* simulationEngine: ticks of a timer walk the watchlist, load the stored   *)
(* closes of a stock they have none of, fetch its price and trade it in     *)
(* every user's book in memory.  A tick takes longer than the timer's three *)
(* seconds when prices are slow, so ticks overlap; between two awaits a     *)
(* tick is one step.  Prices and signals are inputs.                        *)
(***************************************************************************)
EXTENDS Integers, Sequences, FiniteSets, FiniteSetsExt

CONSTANTS
  Symbols, Good,  \* stocks; those with enough stored closes, the others have too few
  Users, Ticks,   \* the books' owners; bound: ticks at once
  Prices, Capital,
  MaxBuys, MaxStarts,  \* bounds: purchases of a book; starts of the engine
  None

\* The unit of prices is so small that a twentieth of one is a unit.
SimEngineAssumption ==
  /\ IsFiniteSet(Symbols) /\ Good \subseteq Symbols
  /\ None \notin Symbols \cup Prices /\ None \notin [qty : Int, entry : Prices, fee : Int]
  /\ Prices \subseteq Nat \ 0..19 /\ Capital \in Nat /\ MaxBuys \in Nat /\ MaxStarts \in Nat

VARIABLES
  running, listeners,  \* _running; how often the feed listens to the emitter
  watch,               \* _watchlist
  tick,                \* tick[t]: the place it is at in the watchlist, and what it awaits
  history,             \* _priceHistory: the latest price
  loading,             \* _loading
  unavailable,         \* _unavailable
  signalled,           \* symbols in _signalCache
  book                 \* _portfolios

vars == <<running, listeners, watch, tick, history, loading, unavailable, signalled, book>>

Position == [qty : Nat \ {0}, entry : Prices, fee : Nat]
Book == [cash : Nat, pos : [Symbols -> Position \cup {None}], pnl : Int, buys : 0..MaxBuys]
Idle == [at |-> 0, await |-> "nothing", symbol |-> None]

TypeOK ==
  /\ running \in BOOLEAN /\ listeners \in 0..MaxStarts
  /\ watch \in UNION {[1..n -> Symbols] : n \in 0..Cardinality(Symbols)}
  /\ \A i, j \in DOMAIN watch : watch[i] = watch[j] => i = j
  /\ tick \in [Ticks -> [at : Nat, await : {"nothing", "history", "price"}, symbol : Symbols \cup {None}]]
  /\ history \in [Symbols -> Prices \cup {None}]
  /\ loading = {tick[t].symbol : t \in {u \in Ticks : tick[u].await = "history"}}
  /\ \A t, u \in Ticks : tick[t].await = "history" /\ tick[u] = tick[t] => t = u
  /\ unavailable \subseteq Symbols /\ signalled \subseteq Symbols
  /\ book \in [Users -> Book \cup {None}]

NewBook == [cash |-> Capital, pos |-> [s \in Symbols |-> None], pnl |-> 0, buys |-> 0]

Init ==
  /\ running = FALSE /\ listeners = 0
  /\ watch \in {w \in [1..Cardinality(Symbols) -> Symbols] : \A i, j \in DOMAIN w : w[i] = w[j] => i = j}
  /\ tick = [t \in Ticks |-> Idle] /\ history = [s \in Symbols |-> None]
  /\ loading = {} /\ unavailable = {} /\ signalled = {} /\ book = [u \in Users |-> None]

------------------------------------------------------------------------------
(* A book *)

Fee(value) == value \div 50
Stop(entry) == (entry * 975) \div 1000
Target(entry) == (entry * 105) \div 100

\* _placeBuy: a tenth of the cash.
Buy(b, s, price) ==
  LET qty == b.cash \div (10 * price)
      fee == Fee(qty * price)
  IN IF qty = 0 \/ qty * price + fee > b.cash \/ b.buys = MaxBuys THEN b
     ELSE [b EXCEPT !.cash = @ - qty * price - fee, !.buys = @ + 1,
                    !.pos[s] = [qty |-> qty, entry |-> price, fee |-> fee]]

\* _placeSell
Sell(b, s, price) ==
  LET p == b.pos[s]
      net == p.qty * price - Fee(p.qty * price)
  IN [b EXCEPT !.cash = @ + net, !.pnl = @ + net - p.qty * p.entry - p.fee, !.pos[s] = None]


CheckExits(b, s, price, sig) ==
  IF b.pos[s] /= None /\ (price <= Stop(b.pos[s].entry) \/ price >= Target(b.pos[s].entry))
    THEN Sell(b, s, price) ELSE b

\* Exits first, then the signal.
Trade(b, s, price, sig) ==
  LET c == CheckExits(b, s, price, sig)
  IN IF sig = "BUY" /\ c.pos[s] = None THEN Buy(c, s, price)
     ELSE IF sig = "SELL" /\ c.pos[s] /= None THEN Sell(c, s, price) ELSE c

Traders == Users

------------------------------------------------------------------------------
(* A tick *)

Fire(t) ==
  /\ running /\ tick[t] = Idle
  /\ tick' = [tick EXCEPT ![t] = [at |-> 1, await |-> "nothing", symbol |-> None]]
  /\ UNCHANGED <<running, listeners, watch, history, loading, unavailable, signalled, book>>

Here(t) == watch[tick[t].at]
Walking(t) == tick[t] /= Idle /\ tick[t].await = "nothing"

MayLoad(t) == Here(t) \notin unavailable /\ Here(t) \notin loading

Load(t) ==
  /\ Walking(t) /\ tick[t].at <= Len(watch) /\ history[Here(t)] = None /\ MayLoad(t)
  /\ loading' = loading \cup {Here(t)}
  /\ tick' = [tick EXCEPT ![t].await = "history", ![t].symbol = Here(t)]
  /\ UNCHANGED <<running, listeners, watch, history, unavailable, signalled, book>>

\* Every twentieth tick tries what was unavailable once more: it forgets it here.
RetryLoad(t) ==
  /\ Walking(t) /\ tick[t].at <= Len(watch) /\ Here(t) \in unavailable \ loading
  /\ unavailable' = unavailable \ {Here(t)}
  /\ UNCHANGED <<running, listeners, watch, tick, history, loading, signalled, book>>

\* No history and none to be had in this tick: the next stock.
Pass(t) ==
  /\ Walking(t) /\ tick[t].at <= Len(watch)
  /\ history[Here(t)] = None /\ Here(t) \in unavailable \cup loading
  /\ tick' = [tick EXCEPT ![t].at = @ + 1]
  /\ UNCHANGED <<running, listeners, watch, history, loading, unavailable, signalled, book>>

\* The load ends, with enough closes or not; it may fail for any stock.
Loaded(t) ==
  LET s == tick[t].symbol IN
  /\ tick[t].await = "history" /\ loading' = loading \ {s}
  /\ \/ /\ s \in Good /\ \E p \in Prices : history' = [history EXCEPT ![s] = p]
        /\ unavailable' = unavailable \ {s} /\ tick' = [tick EXCEPT ![t].await = "price"]
     \/ /\ unavailable' = unavailable \cup {s} /\ UNCHANGED history
        /\ tick' = [tick EXCEPT ![t] = [at |-> @.at + 1, await |-> "nothing", symbol |-> None]]
  /\ UNCHANGED <<running, listeners, watch, signalled, book>>

Ask(t) ==
  /\ Walking(t) /\ tick[t].at <= Len(watch) /\ history[Here(t)] /= None
  /\ tick' = [tick EXCEPT ![t].await = "price", ![t].symbol = Here(t)]
  /\ UNCHANGED <<running, listeners, watch, history, loading, unavailable, signalled, book>>

\* The price arrives, or none does and the latest one stays; every book trades at it.
Priced(t) ==
  LET s == tick[t].symbol IN
  /\ tick[t].await = "price"
  /\ \E p \in Prices \cup {history[s]}, sig \in {"BUY", "SELL", "HOLD"} :
       /\ history' = [history EXCEPT ![s] = p]
       /\ book' = [u \in Users |-> IF u \in Traders /\ book[u] /= None
                                     THEN Trade(book[u], s, p, sig) ELSE book[u]]
  /\ signalled' = signalled \cup {s}
  /\ tick' = [tick EXCEPT ![t] = [at |-> @.at + 1, await |-> "nothing", symbol |-> None]]
  /\ UNCHANGED <<running, listeners, watch, loading, unavailable>>

Finish(t) ==
  /\ Walking(t) /\ tick[t].at > Len(watch)
  /\ tick' = [tick EXCEPT ![t] = Idle]
  /\ UNCHANGED <<running, listeners, watch, history, loading, unavailable, signalled, book>>

------------------------------------------------------------------------------
(* Requests *)

\* start is a no-op while the engine runs; every start adds listeners, which stop leaves.
Start ==
  /\ ~running /\ listeners < MaxStarts /\ running' = TRUE /\ listeners' = listeners + 1
  /\ UNCHANGED <<watch, tick, history, loading, unavailable, signalled, book>>

\* What is in flight goes on.
StopEngine ==
  /\ running /\ running' = FALSE
  /\ UNCHANGED <<listeners, watch, tick, history, loading, unavailable, signalled, book>>

AddSymbol(s) ==
  /\ \A i \in DOMAIN watch : watch[i] /= s
  /\ watch' = Append(watch, s)
  /\ UNCHANGED <<running, listeners, tick, history, loading, unavailable, signalled, book>>

\* The stocks behind it move up, also under a tick that is walking.
RemoveSymbol(s) ==
  /\ \E i \in DOMAIN watch :
       /\ watch[i] = s
       /\ watch' = SubSeq(watch, 1, i - 1) \o SubSeq(watch, i + 1, Len(watch))
  /\ signalled' = signalled \ {s}
  /\ UNCHANGED <<running, listeners, tick, history, loading, unavailable, book>>

\* initUserPortfolio, resetUserPortfolio and, for a user with no book yet, any read.
NewBookOf(u) ==
  /\ book' = [book EXCEPT ![u] = NewBook]
  /\ UNCHANGED <<running, listeners, watch, tick, history, loading, unavailable, signalled>>

TickStep(t) == Load(t) \/ RetryLoad(t) \/ Pass(t) \/ Loaded(t) \/ Ask(t) \/ Priced(t) \/ Finish(t)

Next ==
  \/ \E t \in Ticks : Fire(t) \/ TickStep(t)
  \/ Start \/ StopEngine
  \/ \E s \in Symbols : AddSymbol(s) \/ RemoveSymbol(s)
  \/ \E u \in Users : NewBookOf(u)

Spec == Init /\ [][Next]_vars

------------------------------------------------------------------------------
\* Every book balances: cash and what its positions cost are its capital and the
\* profits it reports, whatever ticks, resets and removals overlapped.
BooksBalance == \A u \in Users : book[u] /= None =>
  LET held == {s \in Symbols : book[u].pos[s] /= None}
      paid(s) == book[u].pos[s].qty * book[u].pos[s].entry + book[u].pos[s].fee
  IN book[u].cash + FoldSet(LAMBDA s, n : paid(s) + n, 0, held) = Capital + book[u].pnl

\* No position is open beyond its stop or target at the latest price: the price
\* that passes either is the one its exits are looked at with, also when another
\* tick brought it.
InsideBracket == \A u \in Users : book[u] /= None => \A s \in Symbols :
  book[u].pos[s] /= None =>
    /\ history[s] > Stop(book[u].pos[s].entry) /\ history[s] < Target(book[u].pos[s].entry)

\* A tick treats the users alike: equal books are equal after it.
Alike ==
  \A u, v \in Users : book[u] = book[v] /\ (\E t \in Ticks : Priced(t)) => book'[u] = book'[v]
Evenhanded == [][Alike]_vars
=============================================================================
