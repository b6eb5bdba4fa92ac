------------------------- MODULE MCOrdersAndTraders -------------------------
(***************************************************************************)
(* One run for live orders with failing calls, and for what decides and     *)
(* makes other trades: strategies, their aggregate, the allocation of cash, *)
(* backtests, swing rules, the simulation engine and the automatic paper    *)
(* trader.  They share no state: `part` says which of them moves, and the   *)
(* others rest in one initial state.                                        *)
(***************************************************************************)
EXTENDS LiveOrders, TLC

CONSTANTS s1, s2, s3, u1, u2, t1, t2, p1

MCCandles ==
  LET candle(h, l, c, v) == [h |-> h, l |-> l, c |-> c, v |-> v]
  IN {candle(101, 99, 100, 1), candle(104, 99, 100, 1), candle(104, 103, 103, 5),
      candle(108, 101, 106, 20), candle(51, 49, 50, 1), candle(53, 51, 51, 5)}

VARIABLES
  part,
  running, listeners, watch, ticks, history, loading, unavailable, signalled, books,
  mine, brackets, pass, clock, life,
  prices,
  votes, regime,
  asset, held, topN, capital, free, method,
  engine, day, cash, pos, close, equity, earned, paid, ended,
  candles

\* Two users whose ticks follow each other, and one whose ticks overlap.
Sim == INSTANCE SimEngine WITH
  Symbols <- {s1, s2}, Good <- {s1}, Users <- {u1, u2}, Ticks <- {t1}, Prices <- {20, 21},
  Capital <- 1000, MaxBuys <- 1, MaxStarts <- 1, tick <- ticks, book <- books
SlowSim == INSTANCE SimEngine WITH
  Symbols <- {s1, s2}, Good <- {s1}, Users <- {u1}, Ticks <- {t1, t2}, Prices <- {20, 21},
  Capital <- 1000, MaxBuys <- 1, MaxStarts <- 1, tick <- ticks, book <- books
Auto == INSTANCE AutoPaper WITH
  Symbols <- {s1, s2}, Passes <- {p1}, Prices <- {100, 95}, Max <- 1, MinHold <- 1,
  MaxClock <- 1, MaxLives <- 2, held <- mine
Strat == INSTANCE Strategies WITH
  Closes <- {1, 2, 3, 5}, Fast <- 2, Slow <- 3, RsiLen <- 2, Look <- 2, ZLen <- 5, BandLen <- 5,
  TrendFast <- 2, TrendSlow <- 3, Momentum <- 2, MaxDays <- 6
Aggr == INSTANCE Aggregator WITH Steps <- 10, Confidences <- {0, 5, 10}
Alloc == INSTANCE Allocation WITH
  Order <- <<s1, s2, s3>>, Confidences <- {30, 90}, Vols <- {0, 30}, Momenta <- {5},
  Totals <- {10000}, Frees <- {4000, 10000}, TopNs <- {2}, MinConfidence <- 25, MinScore <- 300,
  MaxExposure <- 95, MaxSingle <- 40, total <- capital
Test == INSTANCE Backtest WITH
  Order <- <<s1, s2>>, Closes <- {9000, 12500}, Spreads <- {0, 4000}, Capital <- 40000,
  Days <- 3, StopPct <- 10, TargetPct <- 20, RiskPct <- 12, SlipPct <- 1, CostPct <- 1,
  CostFlat <- 150, MaxConcurrent <- 1, MaxValue <- 0
Rules == INSTANCE SwingRules WITH
  Bars <- MCCandles, Short <- 3, Long <- 4, Lag <- 1, Year <- 4, AtrLen <- 2, MinBars <- 5,
  LeastValue <- 300, MaxDays <- 6

ASSUME TradersAssumption ==
  /\ Sim!SimEngineAssumption /\ SlowSim!SimEngineAssumption /\ Auto!AutoPaperAssumption
  /\ Strat!StrategiesAssumption /\ Aggr!AggregatorAssumption
  /\ Alloc!AllocationAssumption /\ Test!BacktestAssumption /\ Rules!RulesAssumption

simVars == <<running, listeners, watch, ticks, history, loading, unavailable, signalled, books>>
autoVars == <<mine, brackets, pass, clock, life>>
allocVars == <<asset, held, topN, capital, free, method>>
testVars == <<engine, day, cash, pos, close, equity, earned, paid, ended>>
inputVars == <<prices, votes, regime, candles>>
all == <<part, vars, simVars, autoVars, allocVars, testVars, inputVars>>

Parts == {"orders", "simulation", "slow simulation", "auto", "strategies", "votes", "allocation", "backtest",
          "rules"}

AllInit ==
  /\ part \in Parts
  /\ Init /\ Auto!Init /\ Strat!Init /\ Rules!Init
  /\ IF part = "slow simulation" THEN SlowSim!Init ELSE Sim!Init
  /\ part \in {"simulation", "slow simulation"} \/ watch[1] = s1
  /\ part = "votes" \/ regime = [name |-> "TRENDING", conf |-> 0]
  /\ Aggr!Init
  /\ Test!Init /\ (part = "backtest" \/ engine = "single")
  /\ free = 10000
  /\ \/ part = "allocation"
     \/ /\ part /= "allocation" /\ method = "equal"
        /\ asset = [s \in {s1, s2, s3} |-> [signal |-> "BUY", confidence |-> 30, vol |-> 0, momentum |-> 5]]
  /\ Alloc!Init

AllNext ==
  /\ UNCHANGED part
  /\ \/ /\ part = "orders" /\ Next
        /\ UNCHANGED <<simVars, autoVars, allocVars, testVars, inputVars>>
     \/ /\ \/ part = "simulation" /\ Sim!Next
           \/ part = "slow simulation" /\ SlowSim!Next
        /\ UNCHANGED <<vars, autoVars, allocVars, testVars, inputVars>>
     \/ /\ part = "auto" /\ Auto!Next
        /\ UNCHANGED <<vars, simVars, allocVars, testVars, inputVars>>
     \/ /\ part = "strategies" /\ Strat!Next
        /\ UNCHANGED <<vars, simVars, autoVars, allocVars, testVars, votes, regime, candles>>
     \/ /\ part = "votes" /\ Aggr!Next
        /\ UNCHANGED <<vars, simVars, autoVars, allocVars, testVars, prices, candles>>
     \/ /\ part = "allocation" /\ Alloc!Next
        /\ UNCHANGED <<vars, simVars, autoVars, testVars, inputVars>>
     \/ /\ part = "backtest" /\ Test!Next
        /\ UNCHANGED <<vars, simVars, autoVars, allocVars, inputVars>>
     \/ /\ part = "rules" /\ Rules!Next
        /\ UNCHANGED <<vars, simVars, autoVars, allocVars, testVars, prices, votes, regime>>

\* Nothing orders the members of these sets.
Symmetry == Permutations(BrokerIds) \cup Permutations(RowIds)

AllSpec == AllInit /\ [][AllNext]_all


\* Strategies and Aggregator: signals do not depend on the scale of prices, treat both
\* directions alike, report a cross once, and agree with each other; of their votes, the
\* distrusted strategy alone decides nothing, agreement is not weakened, and more for
\* buying never gives less of a BUY.  SwingRules: the quotes cost no hit, a signal can be
\* scored, its close is a new high.  Allocation: the best stocks are taken, from free
\* cash, in the order of their scores.  Backtest: the books of the three backtests
\* balance, stay within their means and their risk, and a stop loses.
DecisionsRight ==
  /\ [](part = "strategies" => /\ Strat!ScaleFree /\ Strat!Evenhanded /\ Strat!CrossOnTurn
                               /\ Strat!RsiFollows /\ Strat!BandsWithinZ)
  /\ [](part = "votes" => Aggr!Evenhanded /\ Aggr!Distrusted /\ Aggr!Agreed)
  /\ Aggr!Monotone
  /\ [](part = "rules" => Rules!PrefilterKeeps /\ Rules!SignalsScorable /\ Rules!NewHigh)
  /\ [](part = "allocation" => Alloc!BestTaken /\ Alloc!FromFreeCash /\ Alloc!OrderKept)
  /\ [](part = "backtest" => Test!TypeOK /\ Test!Balanced /\ Test!WithinMeans /\ Test!RiskBounded)
  /\ Test!StopsLose
=============================================================================
