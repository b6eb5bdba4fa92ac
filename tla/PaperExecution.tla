---------------------------- MODULE PaperExecution ----------------------------
(***************************************************************************)
(* The simulated execution of one portfolio (executionEngine.js, with the   *)
(* checks of riskManager.js): every check of an order runs in one           *)
(* synchronous stretch, then the order waits for its simulated delay, then  *)
(* it fills against whatever the portfolio has become.                      *)
(*                                                                          *)
(* All state is in memory and keyed by user, so one portfolio stands for    *)
(* each; a restart is the initial state again.  A value is quantity times   *)
(* price, its commission included.                                          *)
(***************************************************************************)
EXTENDS FiniteSets, Integers

CONSTANTS
  Callers,         \* orders that may be on their way at the same time
  Symbols,
  Values,          \* what an order may be worth at the price it names
  FillValues,      \* what a fill may be worth: partial, drifted, or at a limit price
  Losses,          \* what a sale may lose
  InitialCapital,  \* DEFAULT_CAPITAL
  MinTradeValue,   \* MIN_TRADE_VALUE
  TradeShare,      \* 1 / MAX_TRADE_PCT
  LossShare,       \* 1 / MAX_DAILY_LOSS_PCT
  MaxOpen,         \* MAX_OPEN_POSITIONS
  MaxFills,        \* bound: purchases
  MaxDay           \* bound: days

ASSUME ExecutionAssumption ==
  /\ Symbols /= {} /\ IsFiniteSet(Symbols) /\ IsFiniteSet(Callers)
  /\ Values \subseteq Nat \ {0} /\ FillValues \subseteq Nat \ {0} /\ Losses \subseteq Nat
  /\ InitialCapital \in Nat /\ MinTradeValue \in Nat
  /\ TradeShare \in Nat \ {0} /\ LossShare \in Nat \ {0}
  /\ MaxOpen \in Nat \ {0} /\ MaxFills \in Nat /\ MaxDay \in Nat

VARIABLES
  capital,    \* cash
  positions,  \* openPositions, each with the number of its purchase
  dedup,      \* symbols whose BUY signal of today has been processed
  cooling,    \* symbols in cooldown
  loss,       \* today's realised loss
  call,       \* the orders on their way
  today,      \* the UTC day
  fills       \* purchases filled so far

vars == <<capital, positions, dedup, cooling, loss, call, today, fills>>

Position == [symbol : Symbols, value : FillValues, id : 1..MaxFills]

CallType == [phase : {"idle", "delay", "saving", "refused"}, side : {"BUY", "SELL"},
             symbol : Symbols, value : Nat, exit : 0..MaxFills]

Idle == [phase |-> "idle", side |-> "BUY", symbol |-> CHOOSE s \in Symbols : TRUE,
         value |-> 0, exit |-> 0]

\* exit names the position a stop or target check wants closed; 0 is an order
\* of the user or of the signal engine.
OnItsWay(side, s, v, exit) ==
  [phase |-> "delay", side |-> side, symbol |-> s, value |-> v, exit |-> exit]
Saving(o)  == [phase |-> "saving", side |-> o.side, symbol |-> o.symbol, value |-> o.value,
               exit |-> o.exit]
Refusal(o) == [phase |-> "refused", side |-> o.side, symbol |-> o.symbol, value |-> o.value,
               exit |-> o.exit]

IsOpen(s)   == \E p \in positions : p.symbol = s
InDelay(c, side) == call[c].phase = "delay" /\ call[c].side = side
Buying      == {c \in Callers : InDelay(c, "BUY")}
UnderWay(s) == {c \in Callers : call[c].phase \in {"delay", "saving"} /\ call[c].symbol = s}

TypeOK ==
  /\ capital \in Int /\ positions \subseteq Position
  /\ dedup \subseteq Symbols /\ cooling \subseteq Symbols
  /\ loss \in Nat /\ today \in 0..MaxDay /\ fills \in 0..MaxFills
  /\ call \in [Callers -> CallType]

Init ==
  /\ capital = InitialCapital /\ positions = {}
  /\ dedup = {} /\ cooling = {} /\ loss = 0 /\ today = 0 /\ fills = 0
  /\ call = [c \in Callers |-> Idle]

-----------------------------------------------------------------------------
(* The checks, all made before the delay.                                   *)

DailyLossReached == loss * LossShare >= capital

\* Mutant: one position too many.
RoomForPositionOffByOne == Cardinality(positions) <= MaxOpen

RoomForPosition == Cardinality(positions) < MaxOpen

ValidBuy(s, v) ==
  /\ v >= MinTradeValue
  /\ v <= capital /\ v * TradeShare <= capital
  /\ ~DailyLossReached /\ RoomForPosition /\ ~IsOpen(s)

ValidSell(v) == v >= MinTradeValue

\* riskManager's check, which never looks at the side.
RiskApproves(v) ==
  capital > 0 /\ v <= capital /\ RoomForPosition /\ ~DailyLossReached

\* The price has moved since the purchase.
Moved(v) == {v - 1, v + 1}

-----------------------------------------------------------------------------
(* placeOrder up to its first await.                                        *)

\* Mutant: the signal is not noted.
NotProcessed(s) == dedup

Processed(s) == dedup \cup {s}

\* A BUY that passes the validation uses up the day's signal, also when the
\* cooldown or the risk check then refuses it.
Buy(c, s, v) ==
  /\ call[c].phase = "idle"
  /\ ValidBuy(s, v) /\ s \notin dedup
  /\ Cardinality(Buying) + fills < MaxFills
  /\ dedup' = Processed(s)
  /\ call' = IF s \notin cooling /\ RiskApproves(v)
               THEN [call EXCEPT ![c] = OnItsWay("BUY", s, v, 0)]
               ELSE call
  /\ UNCHANGED <<capital, positions, cooling, loss, today, fills>>

Sell(c, s, v) ==
  /\ call[c].phase = "idle"
  /\ ValidSell(v) /\ s \notin cooling /\ RiskApproves(v)
  /\ call' = [call EXCEPT ![c] = OnItsWay("SELL", s, v, 0)]
  /\ UNCHANGED <<capital, positions, dedup, cooling, loss, today, fills>>

\* checkAndClosePosition finds a price beyond the stop or the target and
\* sells, past deduplication and cooldown.
CheckAndClose(c, p, v) ==
  /\ call[c].phase = "idle"
  /\ LET order == OnItsWay("SELL", p.symbol, v, p.id)
     IN call' = [call EXCEPT ![c] = IF ValidSell(v) /\ RiskApproves(v)
                                      THEN order ELSE Refusal(order)]
  /\ UNCHANGED <<capital, positions, dedup, cooling, loss, today, fills>>

-----------------------------------------------------------------------------
(* placeOrder after the delay.                                              *)

NoFill(c) ==
  /\ call[c].phase = "delay"
  /\ call' = [call EXCEPT ![c] = Idle]
  /\ UNCHANGED <<capital, positions, dedup, cooling, loss, today, fills>>

\* Mutant: the check before the delay is taken to be enough.
AffordsChecked(cost) == TRUE

\* Only the capital is looked at again; Map.set replaces what the symbol had.
Affords(cost) == cost <= capital

FillBuy(c, cost) ==
  /\ InDelay(c, "BUY")
  /\ \/ /\ ~Affords(cost)
        /\ call' = [call EXCEPT ![c] = Idle]
        /\ UNCHANGED <<capital, positions, fills>>
     \/ /\ Affords(cost)
        /\ capital' = capital - cost
        /\ fills' = fills + 1
        /\ positions' = {p \in positions : p.symbol /= call[c].symbol}
                          \cup {[symbol |-> call[c].symbol, value |-> cost, id |-> fills + 1]}
        /\ call' = [call EXCEPT ![c] = Saving(call[c])]
  /\ UNCHANGED <<dedup, cooling, loss, today>>

\* Mutant: no cooldown after a sale.
CloseUncooled(s) == positions' = {p \in positions : p.symbol /= s} /\ UNCHANGED cooling

\* The whole position goes, whatever part of it the fill has sold.
Close(s) == positions' = {p \in positions : p.symbol /= s} /\ cooling' = cooling \cup {s}

\* Mutant: the signed result is recorded.
RecordedSigned(lost) == loss - lost

Recorded(lost) == loss + lost

FillSell(c, proceeds, lost) ==
  /\ InDelay(c, "SELL")
  /\ \/ /\ ~IsOpen(call[c].symbol)
        /\ call' = [call EXCEPT ![c] = Refusal(call[c])]
        /\ UNCHANGED <<capital, positions, cooling, loss>>
     \/ /\ IsOpen(call[c].symbol)
        /\ capital' = capital + proceeds
        /\ loss' = Recorded(lost)
        /\ Close(call[c].symbol)
        /\ call' = [call EXCEPT ![c] = Saving(call[c])]
  /\ UNCHANGED <<dedup, today, fills>>

\* The row is stored or the last retry has failed; a stop or target check
\* then sets the cooldown again, with its own length.
Saved(c) ==
  /\ call[c].phase = "saving"
  /\ cooling' = IF call[c].exit /= 0 THEN cooling \cup {call[c].symbol} ELSE cooling
  /\ call' = [call EXCEPT ![c] = Idle]
  /\ UNCHANGED <<capital, positions, dedup, loss, today, fills>>

Answered(c) ==
  /\ call[c].phase = "refused"
  /\ call' = [call EXCEPT ![c] = Idle]
  /\ UNCHANGED <<capital, positions, dedup, cooling, loss, today, fills>>

-----------------------------------------------------------------------------
(* Time.  A cooldown takes half an hour at least, an order less than that;  *)
(* and no purchase is in its delay at midnight UTC, hours before the market *)
(* opens.                                                                   *)

Cooled(s) ==
  /\ s \in cooling /\ UnderWay(s) = {}
  /\ cooling' = cooling \ {s}
  /\ UNCHANGED <<capital, positions, dedup, loss, call, today, fills>>

NewDay ==
  /\ today < MaxDay /\ Buying = {}
  /\ today' = today + 1 /\ dedup' = {} /\ loss' = 0
  /\ UNCHANGED <<capital, positions, cooling, call, fills>>

-----------------------------------------------------------------------------
CallerStep(c) ==
  \/ \E s \in Symbols, v \in Values : Buy(c, s, v) \/ Sell(c, s, v)
  \/ \E p \in positions : \E v \in Moved(p.value) : CheckAndClose(c, p, v)
  \/ NoFill(c)
  \/ \E cost \in FillValues : FillBuy(c, cost)
  \/ \E proceeds \in FillValues, lost \in Losses : FillSell(c, proceeds, lost)
  \/ Saved(c)
  \/ Answered(c)

Next == (\E c \in Callers : CallerStep(c)) \/ (\E s \in Symbols : Cooled(s)) \/ NewDay

Spec == Init /\ [][Next]_vars

-----------------------------------------------------------------------------
\* However orders overlap during their delays, whatever the price does in
\* between, the simulated cash never goes below zero (executionEngine.js's
\* capital check after the delay).
NeverOverdrawn == capital >= 0

\* The position count is checked before the delay and not after it, so the cap
\* can be passed, by no more than the orders that overlapped the last one
\* allowed.
AtMostMaxOpen == Cardinality(positions) <= MaxOpen - 1 + Cardinality(Callers)

\* A purchase never fills onto an open position, which would lose its shares,
\* nor inside a cooldown, though both are checked only before the delay: the
\* day's one signal keeps a second purchase of the symbol out.
OneEntryAtATime ==
  [][\A p \in positions' \ positions : ~IsOpen(p.symbol) /\ p.symbol \notin cooling]_vars

\* An exit sells whatever is open in its symbol when its delay is over; that
\* is always the position whose price was beyond its stop or target, never one
\* entered while the exit was waiting.
ExitClosesItsPosition ==
  [][\A c \in Callers, p \in positions \ positions' :
       call[c] /= call'[c] /\ InDelay(c, "SELL") /\ call[c].exit /= 0 /\ call[c].symbol = p.symbol
         => call[c].exit = p.id]_vars

\* "SL/TP exits must always execute": a check that finds a position beyond its
\* stop or target is not refused while that position is open.
ExitsAlwaysExecute ==
  \A c \in Callers, p \in positions : call[c].phase = "refused" => call[c].exit /= p.id
=============================================================================
