------------------------------ MODULE Backtest ------------------------------
(***************************************************************************)
(* The three backtests that keep a book of cash and positions over daily    *)
(* bars: backtester.runBacktest ("single"), runSingleBacktest of the        *)
(* walk-forward optimiser ("walk") and runPortfolioBacktest ("portfolio",   *)
(* several stocks, one cash pool, sizes from positionSizing.computeQty).    *)
(* Signals are inputs; the backtester's exit signal is weighed without the  *)
(* regime that its entry signal is weighed with, so the two differ.         *)
(***************************************************************************)
EXTENDS Integers, FiniteSets, FiniteSetsExt, SequencesExt

CONSTANTS
  Order,             \* the stocks, in the order of their keys
  Closes, Spreads,   \* closes, and how far high and low lie from them
  Capital, Days,     \* initialCapital; bound: bars
  StopPct, TargetPct, RiskPct, SlipPct, CostPct,  \* in hundredths
  CostFlat,          \* the most a side costs: BROKERAGE_FLAT * 2
  MaxConcurrent, MaxValue,  \* maxConcurrent, maxPositionValue (0: none)
  None

BacktestAssumption ==
  /\ Order \in Seq(ToSet(Order)) /\ Order /= <<>>
  /\ Closes \subseteq Nat \ {0} /\ Spreads \subseteq Nat /\ Capital \in Nat /\ Days \in Nat
  /\ StopPct \in 1..99 /\ TargetPct \in Nat \ {0} /\ RiskPct \in 1..100 /\ SlipPct \in 0..99
  /\ CostPct \in 0..100 /\ CostFlat \in Nat /\ MaxConcurrent \in Nat /\ MaxValue \in Nat
  /\ None \notin Closes /\ None \notin [close : Closes, spread : Spreads]
  /\ None \notin [qty : Nat, entry : Nat, stop : Nat, target : Nat, cost : Nat, budget : Nat]

Stocks == ToSet(Order)

VARIABLES
  engine,    \* which of the three
  day,       \* bars behind
  cash,      \* capital, curCapital, cash
  pos,       \* position, positions
  close,     \* the latest close of every stock
  equity,    \* the last point of equityCurve
  earned,    \* sum of the pnl of the trades recorded
  paid,      \* history: entry costs of the trades recorded
  ended

vars == <<engine, day, cash, pos, close, equity, earned, paid, ended>>

Position == [qty : Nat \ {0}, entry : Nat, stop : Nat, target : Nat, cost : Nat, budget : Nat]
Held == {s \in Stocks : pos[s] /= None}
Traded == IF engine = "portfolio" THEN Stocks ELSE {Head(Order)}

TypeOK ==
  /\ engine \in {"single", "walk", "portfolio"} /\ day \in 0..Days /\ ended \in BOOLEAN
  /\ cash \in Nat /\ equity \in Int /\ earned \in Int /\ paid \in Nat
  /\ pos \in [Stocks -> Position \cup {None}] /\ close \in [Stocks -> Closes \cup {None}]
  /\ Held \subseteq Traded

Init ==
  /\ engine \in {"single", "walk", "portfolio"} /\ day = 0 /\ ended = FALSE
  /\ cash = Capital /\ equity = Capital /\ earned = 0 /\ paid = 0
  /\ pos = [s \in Stocks |-> None] /\ close = [s \in Stocks |-> None]

------------------------------------------------------------------------------
(* Costs and sizes *)

Least(a, b) == IF a <= b THEN a ELSE b

\* applySlippage
Filled(side, price) ==
  IF engine = "walk" THEN price
  ELSE (price * (IF side = "BUY" THEN 100 + SlipPct ELSE 100 - SlipPct)) \div 100

\* computeCosts with the single rate
Costs(value) == IF engine = "single" THEN Least((value * CostPct) \div 100, CostFlat) ELSE 0

\* computeQty by risk, and the sizes of the two others; `c` is the cash there is.
Qty(price, c) ==
  LET risk == (c * RiskPct) \div (price * StopPct)
  IN CASE engine = "single" -> Least(risk, (c * 95) \div (price * (100 + CostPct)))
       [] engine = "walk" -> risk
       [] OTHER -> Least(IF MaxValue > 0 THEN Least(risk, MaxValue \div price) ELSE risk, (c * 95) \div (price * 100))

StopOf(fill) == (fill * (100 - StopPct)) \div 100

------------------------------------------------------------------------------
(* The bars of one day: exits, entries, valuation *)

\* bar[s] is None for a stock without a bar that day; the others look back over
\* their one stock only.
Bars == [Stocks -> [close : Closes, spread : Spreads] \cup {None}]
Signals == [Stocks -> {"BUY", "SELL", "HOLD"}]

\* _checkExit, checkExit: 0 when the position is kept.
ExitPrice(p, bar, sig) ==
  IF bar.close - bar.spread <= p.stop THEN p.stop
  ELSE IF bar.close + bar.spread >= p.target THEN p.target
  ELSE IF sig = "SELL" /\ engine /= "walk" THEN bar.close ELSE 0

\* The book: cash, positions, pnl and entry costs recorded so far.
Book == [cash |-> cash, pos |-> pos, earned |-> earned, paid |-> paid]

Closed(b, s, price) ==
  LET p == b.pos[s]
      fill == Filled("SELL", price)
      proceeds == p.qty * fill - Costs(p.qty * fill)
  IN [cash |-> b.cash + proceeds, pos |-> [b.pos EXCEPT ![s] = None],
      earned |-> b.earned + proceeds - p.qty * p.entry, paid |-> b.paid + p.cost]

Exits(bar, sig) ==
  LET exit(b, s) ==
        IF b.pos[s] = None \/ bar[s] = None \/ ExitPrice(b.pos[s], bar[s], sig[s]) = 0 THEN b
        ELSE Closed(b, s, ExitPrice(b.pos[s], bar[s], sig[s]))
  IN FoldLeft(exit, Book, Order)

Count(b) == Cardinality({s \in Stocks : b.pos[s] /= None})

\* Mutant: the positions are counted as they were in the morning.
RoomAtDawn(b) == Cardinality(Held) < MaxConcurrent

Room(b) == Count(b) < MaxConcurrent

Affords(b, qty, price) ==
  LET fill == Filled("BUY", price) IN qty * fill + Costs(qty * fill) <= b.cash

\* An entry at the close; the backtester sizes by the fill, the portfolio by the price.
Entries(book, bar, sig) ==
  LET enter(b, s) ==
        LET price == bar[s].close
            fill == Filled("BUY", price)
            qty == Qty(IF engine = "single" THEN fill ELSE price, b.cash)
            cost == Costs(qty * fill)
        IN IF s \in Traded /\ b.pos[s] = None /\ bar[s] /= None /\ sig[s] = "BUY" /\ Room(b)
              /\ qty > 0 /\ Affords(b, qty, price)
             THEN [b EXCEPT !.cash = @ - qty * fill - cost,
                            !.pos[s] = [qty |-> qty, entry |-> fill,
                                        stop |-> StopOf(fill),
                                        target |-> (fill * (100 + TargetPct)) \div 100,
                                        cost |-> cost, budget |-> b.cash * RiskPct]]
             ELSE b
  IN FoldLeft(enter, book, Order)

\* Mark to market: the backtester adds the gain of its position to the cash left
\* after paying for it; the others its worth.
Marked(b, bar) ==
  LET basis(s) == IF engine = "single" THEN b.pos[s].entry ELSE 0
  IN b.cash + MapThenSumSet(LAMBDA s : b.pos[s].qty * (bar[s].close - basis(s)),
                            {s \in Stocks : b.pos[s] /= None /\ bar[s] /= None})

Assign(b) == cash' = b.cash /\ pos' = b.pos /\ earned' = b.earned /\ paid' = b.paid

Day ==
  /\ ~ended /\ day < Days /\ day' = day + 1
  /\ \E bar \in Bars, out, in \in Signals :
       /\ (engine /= "single" => out = in) /\ \E s \in Traded : bar[s] /= None
       /\ \A s \in Stocks \ Traded : bar[s] = None
       /\ LET book == Entries(Exits(bar, out), bar, in)
          IN Assign(book) /\ equity' = Marked(book, bar)
       /\ close' = [s \in Stocks |-> IF bar[s] = None THEN close[s] ELSE bar[s].close]
  /\ UNCHANGED <<engine, ended>>

\* What is open at the end is closed at the last close.
End ==
  /\ ~ended /\ day > 0 /\ ended' = TRUE
  /\ LET finish(b, s) == IF b.pos[s] = None THEN b ELSE Closed(b, s, close[s])
     IN Assign(FoldLeft(finish, Book, Order))
  /\ UNCHANGED <<engine, day, close, equity>>

Next == Day \/ End
Spec == Init /\ [][Next]_vars

------------------------------------------------------------------------------
Invested == MapThenSumSet(LAMBDA s : pos[s].qty * pos[s].entry + pos[s].cost, Held)

\* No money appears or gets lost: the cash and what was paid for the open positions
\* are the capital, the profits of the trades recorded and the entry costs those
\* profits leave out.
Balanced == cash + Invested = Capital + earned - paid

\* The pool is never overdrawn, however many entries one day makes out of it, and the
\* cap on concurrent positions holds after a day of exits and entries.
WithinMeans == cash >= 0 /\ Cardinality(Held) <= MaxConcurrent

\* Every position risks what it may: the loss at its stop is at most the risk budget
\* of the cash it was sized with, but for the slippage of the fill and its rounding
\* ("every trade risks the same rupee amount").
RiskBounded == \A s \in Held :
  pos[s].qty * (pos[s].entry - pos[s].stop) * 10000 <= pos[s].budget * (100 + SlipPct) + pos[s].qty * 10000

\* A trade that touches its stop is not recorded as a gain, whatever else the day
\* reached: over a day in which every open position touched its stop, the profits
\* recorded do not rise.
StopsLose == [][
  (\A s \in Held : close'[s] <= pos[s].stop) => earned' <= earned]_vars

\* The equity curve shows what the book is worth.  It does not (the single backtest adds
\* the gain of a position to the cash left after paying for it), so no run checks this.
EquityIsWorth == ~ended /\ day > 0 =>
  equity = cash + MapThenSumSet(LAMBDA s : pos[s].qty * close[s], Held)
=============================================================================
