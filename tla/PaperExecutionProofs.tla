------------------------- MODULE PaperExecutionProofs -------------------------
(***************************************************************************)
(* Theorems about PaperExecution for every number of orders, symbols,       *)
(* values, days and every cap; and about the books the simulation engine    *)
(* and the backtests keep of their own, as instances with variables of      *)
(* their own.                                                               *)
(*                                                                          *)
(* The checks of an order are old by the time it fills.  Settled says what  *)
(* of them is still true: nobody else may buy the symbol of a purchase in   *)
(* its delay, so it is still closed and out of its cooldown; and the        *)
(* position an exit waits to close is still open or its symbol is cooling,  *)
(* which keeps every purchase out.                                          *)
(***************************************************************************)
EXTENDS PaperExecution, FiniteSetTheorems, SequenceTheorems, WellFoundedInduction, TLAPS

CONSTANTS Good, Users, Ticks, Prices, Capital, MaxBuys, MaxStarts, None               \* SimEngine
VARIABLES running, listeners, watch, tick, history, loading, unavailable, signalled, book

Sim == INSTANCE SimEngine

CONSTANTS Order, Closes, Spreads, Days, StopPct, TargetPct, RiskPct, SlipPct, CostPct, \* Backtest
          CostFlat, MaxConcurrent, MaxValue
VARIABLES engine, bars, money, pos, close, equity, earned, paid, ended

Test == INSTANCE Backtest WITH day <- bars, cash <- money

\* The exit of call c may still find its position, or nothing.
Aimed(c) ==
  \/ \E p \in positions : p.symbol = call[c].symbol /\ p.id = call[c].exit
  \/ call[c].symbol \in cooling /\ ~IsOpen(call[c].symbol)

Settled ==
  /\ \A p, q \in positions : p.symbol = q.symbol => p = q
  /\ \A c \in Callers : InDelay(c, "BUY") =>
       /\ call[c].symbol \in dedup
       /\ call[c].symbol \notin cooling
       /\ ~IsOpen(call[c].symbol)
  /\ \A c, d \in Callers :
       InDelay(c, "BUY") /\ InDelay(d, "BUY") /\ call[c].symbol = call[d].symbol => c = d
  /\ \A c \in Callers : InDelay(c, "SELL") /\ call[c].exit /= 0 => Aimed(c)
  /\ \A c \in Callers : call[c].phase = "saving" /\ call[c].exit /= 0 =>
                          call[c].symbol \in cooling
  /\ \A c \in Callers : call[c].exit /= 0 => call[c].side = "SELL"

\* Purchases in their delay are accounted for in the caps.
Counted ==
  /\ IsFiniteSet(positions)
  /\ Cardinality(positions) + Cardinality(Buying) <= MaxOpen - 1 + Cardinality(Callers)
  /\ fills + Cardinality(Buying) <= MaxFills

IInv == TypeOK /\ NeverOverdrawn /\ Counted /\ Settled

------------------------------------------------------------------------------
(* Facts about the operators *)

LEMMA Sizes ==
  /\ IsFiniteSet(Buying) /\ Cardinality(Buying) \in Nat
  /\ Cardinality(Callers) \in Nat /\ Cardinality(Buying) <= Cardinality(Callers)
BY ExecutionAssumption, FS_Subset, FS_CardinalityType DEF Buying

LEMMA IdleType == Idle \in CallType /\ Idle.phase = "idle" /\ Idle.exit = 0
BY ExecutionAssumption DEF Idle, CallType

LEMMA OrderType ==
  ASSUME NEW side \in {"BUY", "SELL"}, NEW s \in Symbols, NEW v \in Nat, NEW e \in 0..MaxFills
  PROVE  LET o == OnItsWay(side, s, v, e)
         IN  /\ o \in CallType
             /\ o.phase = "delay" /\ o.side = side /\ o.symbol = s /\ o.exit = e
BY DEF OnItsWay, CallType

LEMMA LaterType ==
  ASSUME NEW o \in CallType
  PROVE  /\ Saving(o) \in CallType /\ Refusal(o) \in CallType
         /\ Saving(o).phase = "saving" /\ Refusal(o).phase = "refused"
         /\ Saving(o).symbol = o.symbol /\ Saving(o).exit = o.exit
         /\ Refusal(o).symbol = o.symbol /\ Refusal(o).exit = o.exit
         /\ Saving(o).side = o.side /\ Refusal(o).side = o.side
BY DEF Saving, Refusal, CallType

\* Changing one call changes Buying by that call at most.
LEMMA BuyingStep ==
  ASSUME TypeOK, NEW c \in Callers, NEW o \in CallType, call' = [call EXCEPT ![c] = o]
  PROVE  /\ o.phase = "delay" /\ o.side = "BUY" => Buying' = Buying \cup {c}
         /\ ~(o.phase = "delay" /\ o.side = "BUY") => Buying' = Buying \ {c}
BY DEF TypeOK, Buying, InDelay

------------------------------------------------------------------------------
(* Types and cash *)

LEMMA InitIInv == Init => IInv
<1> SUFFICES ASSUME Init PROVE IInv
  OBVIOUS
<1>1. TypeOK /\ NeverOverdrawn
  BY ExecutionAssumption, IdleType DEF Init, TypeOK, NeverOverdrawn
<1>2. Buying = {}
  BY IdleType DEF Init, Buying, InDelay
<1>3. Counted
  BY <1>2, ExecutionAssumption, FS_EmptySet, FS_CardinalityType DEF Init, Counted
<1>4. Settled
  BY IdleType DEF Init, Settled, InDelay
<1> QED  BY <1>1, <1>3, <1>4 DEF IInv

\* What a check asks to sell has a value.
LEMMA MovedType == ASSUME TypeOK, NEW p \in positions, NEW v \in Moved(p.value)
                   PROVE  v \in Nat /\ p.symbol \in Symbols /\ p.id \in 1..MaxFills /\ p.id /= 0
<1>1. p.symbol \in Symbols /\ p.id \in 1..MaxFills /\ p.value \in FillValues
  BY DEF TypeOK, Position
<1>2. p.value \in Nat \ {0}
  BY <1>1, ExecutionAssumption
<1>3. v = p.value - 1 \/ v = p.value + 1
  BY DEF Moved
<1> QED  BY <1>1, <1>2, <1>3, ExecutionAssumption

\* A purchase in its delay leaves room for one more number.
LEMMA RoomToFill ==
  ASSUME TypeOK, Counted, NEW c \in Callers, InDelay(c, "BUY")
  PROVE  fills + 1 \in 1..MaxFills /\ Cardinality(Buying \ {c}) = Cardinality(Buying) - 1
<1>1. c \in Buying /\ IsFiniteSet(Buying) /\ Cardinality(Buying) \in Nat
  BY Sizes DEF Buying
<1>2. Cardinality(Buying \ {c}) = Cardinality(Buying) - 1
  BY <1>1, FS_RemoveElement
<1>3. Cardinality(Buying) >= 1
  BY <1>1, FS_EmptySet
<1> QED  BY <1>1, <1>2, <1>3, ExecutionAssumption DEF Counted, TypeOK

LEMMA TypeStep == TypeOK /\ Counted /\ [Next]_vars => TypeOK'
<1> SUFFICES ASSUME TypeOK, Counted, [Next]_vars PROVE TypeOK'
  OBVIOUS
<1> USE ExecutionAssumption
<1>1. ASSUME NEW c \in Callers, NEW s \in Symbols, NEW v \in Values, Buy(c, s, v)
      PROVE  TypeOK'
  <2>1. OnItsWay("BUY", s, v, 0) \in CallType
    BY OrderType
  <2> QED  BY <1>1, <2>1 DEF Buy, Processed, TypeOK
<1>2. ASSUME NEW c \in Callers, NEW s \in Symbols, NEW v \in Values, Sell(c, s, v)
      PROVE  TypeOK'
  <2>1. OnItsWay("SELL", s, v, 0) \in CallType
    BY OrderType
  <2> QED  BY <1>2, <2>1 DEF Sell, TypeOK
<1>3. ASSUME NEW c \in Callers, NEW p \in positions, NEW v \in Moved(p.value),
             CheckAndClose(c, p, v)
      PROVE  TypeOK'
  <2>1. OnItsWay("SELL", p.symbol, v, p.id) \in CallType
    BY MovedType, OrderType
  <2>2. Refusal(OnItsWay("SELL", p.symbol, v, p.id)) \in CallType
    BY <2>1, LaterType
  <2> QED  BY <1>3, <2>1, <2>2 DEF CheckAndClose, TypeOK
<1>4. ASSUME NEW c \in Callers, NoFill(c) \/ Answered(c)
      PROVE  TypeOK'
  BY <1>4, IdleType DEF NoFill, Answered, TypeOK
<1>5. ASSUME NEW c \in Callers, NEW cost \in FillValues, FillBuy(c, cost)
      PROVE  TypeOK'
  <2>1. call[c] \in CallType /\ call[c].symbol \in Symbols
    BY DEF TypeOK, CallType
  <2>2. Idle \in CallType /\ Saving(call[c]) \in CallType
    BY <2>1, IdleType, LaterType
  <2>3. InDelay(c, "BUY") /\ fills + 1 \in 1..MaxFills
    BY <1>5, RoomToFill DEF FillBuy
  <2>4. [symbol |-> call[c].symbol, value |-> cost, id |-> fills + 1] \in Position
    BY <2>1, <2>3 DEF Position
  <2> QED  BY <1>5, <2>2, <2>3, <2>4 DEF FillBuy, TypeOK
<1>6. ASSUME NEW c \in Callers, NEW proceeds \in FillValues, NEW lost \in Losses,
             FillSell(c, proceeds, lost)
      PROVE  TypeOK'
  <2>1. call[c] \in CallType /\ call[c].symbol \in Symbols
    BY DEF TypeOK, CallType
  <2>2. Refusal(call[c]) \in CallType /\ Saving(call[c]) \in CallType
    BY <2>1, LaterType
  <2> QED  BY <1>6, <2>1, <2>2 DEF FillSell, Close, Recorded, TypeOK
<1>7. ASSUME NEW c \in Callers, Saved(c)
      PROVE  TypeOK'
  BY <1>7, IdleType DEF Saved, TypeOK, CallType
<1>8. ASSUME NEW s \in Symbols, Cooled(s)
      PROVE  TypeOK'
  BY <1>8 DEF Cooled, TypeOK
<1>9. CASE NewDay
  BY <1>9 DEF NewDay, TypeOK
<1>10. CASE UNCHANGED vars
  BY <1>10 DEF vars, TypeOK
<1> QED
  BY <1>1, <1>2, <1>3, <1>4, <1>5, <1>6, <1>7, <1>8, <1>9, <1>10 DEF Next, CallerStep

LEMMA CashStep == TypeOK /\ NeverOverdrawn /\ [Next]_vars => NeverOverdrawn'
<1> SUFFICES ASSUME TypeOK, NeverOverdrawn, [Next]_vars PROVE NeverOverdrawn'
  OBVIOUS
<1>1. ASSUME NEW c \in Callers, NEW cost \in FillValues, FillBuy(c, cost)
      PROVE  NeverOverdrawn'
  BY <1>1, ExecutionAssumption DEF FillBuy, Affords, TypeOK, NeverOverdrawn
<1>2. ASSUME NEW c \in Callers, NEW proceeds \in FillValues, NEW lost \in Losses,
             FillSell(c, proceeds, lost)
      PROVE  NeverOverdrawn'
  BY <1>2, ExecutionAssumption DEF FillSell, TypeOK, NeverOverdrawn
<1>3. CASE UNCHANGED capital
  BY <1>3 DEF NeverOverdrawn
<1> QED
  BY <1>1, <1>2, <1>3
     DEF Next, CallerStep, Buy, Sell, CheckAndClose, NoFill, Saved, Answered, Cooled, NewDay, vars

------------------------------------------------------------------------------
(* The caps *)

\* A step that adds neither a position nor a purchase keeps the accounts.
LEMMA ShrinkingCounts ==
  ASSUME TypeOK, Counted, positions' \subseteq positions, Buying' \subseteq Buying, fills' = fills
  PROVE  Counted'
<1>1. IsFiniteSet(positions') /\ Cardinality(positions') <= Cardinality(positions)
  BY FS_Subset DEF Counted
<1>2. IsFiniteSet(Buying') /\ Cardinality(Buying') <= Cardinality(Buying)
  BY Sizes, FS_Subset
<1>3. /\ Cardinality(positions') \in Nat /\ Cardinality(positions) \in Nat
      /\ Cardinality(Buying') \in Nat /\ Cardinality(Buying) \in Nat
      /\ Cardinality(Callers) \in Nat
  BY <1>1, <1>2, Sizes, FS_CardinalityType DEF Counted
<1> QED  BY <1>1, <1>2, <1>3, ExecutionAssumption DEF Counted, TypeOK

LEMMA CountStep == TypeOK /\ Counted /\ [Next]_vars => Counted'
<1> SUFFICES ASSUME TypeOK, Counted, [Next]_vars PROVE Counted'
  OBVIOUS
<1>0. \A c \in Callers : call[c] \in CallType /\ call[c].symbol \in Symbols
  BY DEF TypeOK, CallType
<1>1. ASSUME NEW c \in Callers, NEW s \in Symbols, NEW v \in Values, Buy(c, s, v)
      PROVE  Counted'
  <2>1. CASE call' = call
    <3>1. Buying' = Buying
      BY <2>1 DEF Buying, InDelay
    <3> QED  BY <1>1, <3>1, ShrinkingCounts DEF Buy
  <2>2. CASE call' = [call EXCEPT ![c] = OnItsWay("BUY", s, v, 0)]
    <3> DEFINE o == OnItsWay("BUY", s, v, 0)
    <3>0. o \in CallType /\ o.phase = "delay" /\ o.side = "BUY"
      BY OrderType, ExecutionAssumption
    <3> HIDE DEF o
    <3>1. Buying' = Buying \cup {c}
      BY <2>2, <3>0, BuyingStep DEF o
    <3>2. IsFiniteSet(Buying') /\ Cardinality(Buying') <= Cardinality(Buying) + 1
      <4>1. /\ IsFiniteSet(Buying \cup {c})
            /\ Cardinality(Buying \cup {c}) =
                 IF c \in Buying THEN Cardinality(Buying) ELSE Cardinality(Buying) + 1
        BY Sizes, FS_AddElement
      <4> QED  BY <3>1, <4>1, Sizes
    <3>3. Cardinality(Buying') <= Cardinality(Callers) /\ Cardinality(Buying') \in Nat
      BY <3>2, ExecutionAssumption, FS_Subset, FS_CardinalityType DEF Buying
    <3>4. Cardinality(positions) < MaxOpen /\ Cardinality(Buying) + fills < MaxFills
      BY <1>1 DEF Buy, ValidBuy, RoomForPosition
    <3>5. Cardinality(positions) \in Nat /\ positions' = positions /\ fills' = fills
      BY <1>1, FS_CardinalityType DEF Buy, Counted
    <3> QED
      BY <3>2, <3>3, <3>4, <3>5, Sizes, ExecutionAssumption DEF Counted, TypeOK
  <2> QED  BY <1>1, <2>1, <2>2 DEF Buy
<1>2. ASSUME NEW c \in Callers, NEW s \in Symbols, NEW v \in Values, Sell(c, s, v)
      PROVE  Counted'
  <2> DEFINE o == OnItsWay("SELL", s, v, 0)
  <2>0. o \in CallType /\ o.side = "SELL" /\ call' = [call EXCEPT ![c] = o]
    BY <1>2, OrderType, ExecutionAssumption DEF Sell
  <2> HIDE DEF o
  <2>1. Buying' = Buying \ {c}
    BY <2>0, BuyingStep
  <2> QED  BY <1>2, <2>1, ShrinkingCounts DEF Sell
<1>3. ASSUME NEW c \in Callers, NEW p \in positions, NEW v \in Moved(p.value),
             CheckAndClose(c, p, v)
      PROVE  Counted'
  <2>1. Buying' = Buying \ {c}
    <3> DEFINE o == OnItsWay("SELL", p.symbol, v, p.id)
    <3>1. o \in CallType /\ o.side = "SELL"
      BY MovedType, OrderType
    <3>2. Refusal(o) \in CallType /\ Refusal(o).side = "SELL"
      BY <3>1, LaterType
    <3>3. call' = [call EXCEPT ![c] = o] \/ call' = [call EXCEPT ![c] = Refusal(o)]
      BY <1>3 DEF CheckAndClose
    <3> HIDE DEF o
    <3> QED  BY <3>1, <3>2, <3>3, BuyingStep
  <2> QED  BY <1>3, <2>1, ShrinkingCounts DEF CheckAndClose
<1>4. ASSUME NEW c \in Callers, NoFill(c) \/ Answered(c) \/ Saved(c)
      PROVE  Counted'
  <2>1. Buying' = Buying \ {c}
    BY <1>4, IdleType, BuyingStep DEF NoFill, Answered, Saved
  <2> QED  BY <1>4, <2>1, ShrinkingCounts DEF NoFill, Answered, Saved
<1>5. ASSUME NEW c \in Callers, NEW cost \in FillValues, FillBuy(c, cost)
      PROVE  Counted'
  <2>1. Buying' = Buying \ {c}
    BY <1>0, <1>5, IdleType, LaterType, BuyingStep DEF FillBuy
  <2>2. CASE positions' = positions /\ fills' = fills
    BY <2>1, <2>2, ShrinkingCounts
  <2>3. ASSUME NEW new, fills' = fills + 1,
               positions' = {p \in positions : p.symbol /= call[c].symbol} \cup {new}
        PROVE  Counted'
    <3> DEFINE kept == {p \in positions : p.symbol /= call[c].symbol}
    <3>1. IsFiniteSet(kept) /\ Cardinality(kept) <= Cardinality(positions)
      BY FS_Subset DEF Counted
    <3>2. IsFiniteSet(positions') /\ Cardinality(positions') <= Cardinality(kept) + 1
      <4>1. positions' = kept \cup {new}
        BY <2>3
      <4>2. Cardinality(kept) \in Nat
        BY <3>1, FS_CardinalityType
      <4> HIDE DEF kept
      <4> QED  BY <3>1, <4>1, <4>2, FS_AddElement
    <3>3. Cardinality(Buying') = Cardinality(Buying) - 1
      BY <1>5, <2>1, RoomToFill DEF FillBuy
    <3>4. /\ Cardinality(positions') \in Nat /\ Cardinality(kept) \in Nat
          /\ Cardinality(positions) \in Nat
      BY <3>1, <3>2, FS_CardinalityType DEF Counted
    <3> HIDE DEF kept
    <3> QED
      BY <2>3, <3>1, <3>2, <3>3, <3>4, Sizes, ExecutionAssumption DEF Counted, TypeOK
  <2> QED  BY <1>5, <2>2, <2>3 DEF FillBuy
<1>6. ASSUME NEW c \in Callers, NEW proceeds \in FillValues, NEW lost \in Losses,
             FillSell(c, proceeds, lost)
      PROVE  Counted'
  <2>1. Buying' = Buying \ {c}
    <3>1. /\ Refusal(call[c]) \in CallType /\ Refusal(call[c]).side = "SELL"
          /\ Saving(call[c]) \in CallType /\ Saving(call[c]).side = "SELL"
      BY <1>0, <1>6, LaterType DEF FillSell, InDelay
    <3> QED  BY <1>6, <3>1, BuyingStep DEF FillSell
  <2>2. positions' \subseteq positions /\ fills' = fills
    BY <1>6 DEF FillSell, Close
  <2> QED  BY <2>1, <2>2, ShrinkingCounts
<1>7. CASE UNCHANGED <<positions, call, fills>>
  <2>1. Buying' = Buying
    BY <1>7 DEF Buying, InDelay
  <2> QED  BY <1>7, <2>1, ShrinkingCounts
<1> QED
  BY <1>1, <1>2, <1>3, <1>4, <1>5, <1>6, <1>7 DEF Next, CallerStep, Cooled, NewDay, vars

------------------------------------------------------------------------------
(* What the checks of an order still guarantee when it fills *)

LEMMA OneCall ==
  ASSUME TypeOK, NEW c \in Callers, NEW o, call' = [call EXCEPT ![c] = o]
  PROVE  call'[c] = o /\ \A d \in Callers : d /= c => call'[d] = call[d]
BY DEF TypeOK

\* A call that ends, or is refused, gives up what it held.
LEMMA GivingUp ==
  ASSUME TypeOK, Settled, NEW c \in Callers, NEW o, call' = [call EXCEPT ![c] = o],
         o.phase \in {"idle", "refused"}, o.exit /= 0 => o.side = "SELL",
         UNCHANGED <<positions, dedup, cooling>>
  PROVE  Settled'
<1>1. call'[c] = o /\ \A d \in Callers : d /= c => call'[d] = call[d]
  BY OneCall
<1> QED  BY <1>1 DEF Settled, InDelay, IsOpen, Aimed

LEMMA SettledStep == TypeOK /\ Settled /\ [Next]_vars => Settled'
<1> SUFFICES ASSUME TypeOK, Settled, [Next]_vars PROVE Settled'
  OBVIOUS
<1>0. \A c \in Callers : call[c] \in CallType /\ call[c].symbol \in Symbols
  BY DEF TypeOK, CallType
<1>1. ASSUME NEW c \in Callers, NEW s \in Symbols, NEW v \in Values, Buy(c, s, v)
      PROVE  Settled'
  <2>1. /\ s \notin dedup /\ ~IsOpen(s) /\ dedup' = dedup \cup {s}
        /\ positions' = positions /\ cooling' = cooling
    BY <1>1 DEF Buy, ValidBuy, Processed
  <2>2. CASE call' = call
    BY <2>1, <2>2 DEF Settled, InDelay, IsOpen, Aimed
  <2>3. CASE s \notin cooling /\ call' = [call EXCEPT ![c] = OnItsWay("BUY", s, v, 0)]
    <3> DEFINE o == OnItsWay("BUY", s, v, 0)
    <3>1. o.phase = "delay" /\ o.side = "BUY" /\ o.symbol = s /\ o.exit = 0
      BY DEF OnItsWay
    <3>2. call'[c] = o /\ \A d \in Callers : d /= c => call'[d] = call[d]
      BY <2>3, OneCall
    <3> HIDE DEF o
    <3> QED  BY <2>1, <2>3, <3>1, <3>2 DEF Settled, InDelay, IsOpen, Aimed
  <2> QED  BY <1>1, <2>2, <2>3 DEF Buy
<1>2. ASSUME NEW c \in Callers, NEW s \in Symbols, NEW v \in Values, Sell(c, s, v)
      PROVE  Settled'
  <2> DEFINE o == OnItsWay("SELL", s, v, 0)
  <2>1. o.phase = "delay" /\ o.side = "SELL" /\ o.exit = 0
    BY DEF OnItsWay
  <2>2. call'[c] = o /\ \A d \in Callers : d /= c => call'[d] = call[d]
    BY <1>2, OneCall DEF Sell
  <2>3. UNCHANGED <<positions, dedup, cooling>>
    BY <1>2 DEF Sell
  <2> HIDE DEF o
  <2> QED  BY <2>1, <2>2, <2>3 DEF Settled, InDelay, IsOpen, Aimed
<1>3. ASSUME NEW c \in Callers, NEW p \in positions, NEW v \in Moved(p.value),
             CheckAndClose(c, p, v)
      PROVE  Settled'
  <2> DEFINE o == OnItsWay("SELL", p.symbol, v, p.id)
  <2>1. o.phase = "delay" /\ o.side = "SELL" /\ o.symbol = p.symbol /\ o.exit = p.id
    BY DEF OnItsWay
  <2>2. /\ Refusal(o).phase = "refused" /\ Refusal(o).side = "SELL"
    BY <2>1 DEF Refusal
  <2>3. UNCHANGED <<positions, dedup, cooling>>
    BY <1>3 DEF CheckAndClose
  <2>4. CASE call' = [call EXCEPT ![c] = Refusal(o)]
    BY <2>2, <2>3, <2>4, GivingUp
  <2>5. CASE call' = [call EXCEPT ![c] = o]
    <3>1. call'[c] = o /\ \A d \in Callers : d /= c => call'[d] = call[d]
      BY <2>5, OneCall
    <3> HIDE DEF o
    <3> QED  BY <2>1, <2>3, <3>1 DEF Settled, InDelay, IsOpen, Aimed
  <2> QED  BY <1>3, <2>4, <2>5 DEF CheckAndClose
<1>4. ASSUME NEW c \in Callers, NoFill(c) \/ Answered(c)
      PROVE  Settled'
  BY <1>4, IdleType, GivingUp DEF NoFill, Answered
<1>5. ASSUME NEW c \in Callers, Saved(c)
      PROVE  Settled'
  <2>1. cooling' = cooling
    BY <1>5 DEF Saved, Settled
  <2> QED  BY <1>5, <2>1, IdleType, GivingUp DEF Saved
<1>6. ASSUME NEW c \in Callers, NEW cost \in FillValues, FillBuy(c, cost)
      PROVE  Settled'
  <2>1. InDelay(c, "BUY") /\ dedup' = dedup /\ cooling' = cooling
    BY <1>6 DEF FillBuy
  <2>2. CASE call' = [call EXCEPT ![c] = Idle] /\ positions' = positions
    BY <2>1, <2>2, IdleType, GivingUp
  <2>3. ASSUME NEW n, call' = [call EXCEPT ![c] = Saving(call[c])],
               positions' = {p \in positions : p.symbol /= call[c].symbol}
                              \cup {[symbol |-> call[c].symbol, value |-> cost, id |-> n]}
        PROVE  Settled'
    <3> DEFINE o == Saving(call[c])
               new == [symbol |-> call[c].symbol, value |-> cost, id |-> n]
    <3>1. /\ o.phase = "saving" /\ o.side = "BUY" /\ o.exit = call[c].exit
          /\ new.symbol = call[c].symbol
      BY <2>1 DEF Saving, InDelay
    <3>2. call'[c] = o /\ \A d \in Callers : d /= c => call'[d] = call[d]
      BY <2>3, OneCall
    <3>3. o.exit = 0
      BY <2>1, <3>1 DEF Settled, InDelay
    <3>4. ~IsOpen(call[c].symbol) /\ call[c].symbol \notin cooling
      BY <2>1 DEF Settled
    <3>5. positions' = positions \cup {new}
      BY <2>3, <3>4 DEF IsOpen
    <3> HIDE DEF o, new
    <3>6. \A p, q \in positions' : p.symbol = q.symbol => p = q
      BY <3>1, <3>4, <3>5 DEF Settled, IsOpen
    <3>7. \A d \in Callers : InDelay(d, "BUY")' =>
            (/\ call[d].symbol \in dedup /\ call[d].symbol \notin cooling
             /\ ~IsOpen(call[d].symbol))'
      BY <2>1, <3>1, <3>2, <3>5 DEF Settled, InDelay, IsOpen
    <3>8. \A d \in Callers : InDelay(d, "SELL")' /\ call'[d].exit /= 0 => Aimed(d)'
      <4> SUFFICES ASSUME NEW d \in Callers, InDelay(d, "SELL")', call'[d].exit /= 0
                   PROVE  Aimed(d)'
        OBVIOUS
      <4>1. d /= c /\ call'[d] = call[d]
        BY <3>1, <3>2 DEF InDelay
      <4>2. Aimed(d)
        BY <4>1 DEF Settled, InDelay
      <4>3. call[d].symbol = call[c].symbol =>
              \E p \in positions : p.symbol = call[d].symbol /\ p.id = call[d].exit
        BY <3>4, <4>2 DEF Aimed
      <4>4. call[d].symbol /= call[c].symbol
        BY <3>4, <4>3 DEF IsOpen
      <4> QED  BY <2>1, <3>1, <3>5, <4>1, <4>2, <4>4 DEF Aimed, IsOpen
    <3> QED  BY <2>1, <3>1, <3>2, <3>3, <3>6, <3>7, <3>8 DEF Settled, InDelay
  <2> QED  BY <1>6, <2>2, <2>3 DEF FillBuy
<1>7. ASSUME NEW c \in Callers, NEW proceeds \in FillValues, NEW lost \in Losses,
             FillSell(c, proceeds, lost)
      PROVE  Settled'
  <2>1. InDelay(c, "SELL") /\ dedup' = dedup
    BY <1>7 DEF FillSell
  <2>2. CASE call' = [call EXCEPT ![c] = Refusal(call[c])] /\ UNCHANGED <<positions, cooling>>
    <3>1. Refusal(call[c]).phase = "refused" /\ Refusal(call[c]).side = "SELL"
      BY <2>1 DEF Refusal, InDelay
    <3> QED  BY <2>1, <2>2, <3>1, GivingUp
  <2>3. CASE /\ IsOpen(call[c].symbol) /\ Close(call[c].symbol)
             /\ call' = [call EXCEPT ![c] = Saving(call[c])]
    <3> DEFINE o == Saving(call[c])
               s == call[c].symbol
    <3>1. o.phase = "saving" /\ o.side = "SELL" /\ o.symbol = s
      BY <2>1 DEF Saving, InDelay
    <3>2. call'[c] = o /\ \A d \in Callers : d /= c => call'[d] = call[d]
      BY <2>3, OneCall
    <3>3. IsOpen(s) /\ positions' = {p \in positions : p.symbol /= s} /\ cooling' = cooling \cup {s}
      BY <2>3 DEF Close
    <3> HIDE DEF o, s
    <3>4. \A d \in Callers : InDelay(d, "BUY") => call[d].symbol /= s
      BY <3>3 DEF Settled
    <3>5. \A d \in Callers : InDelay(d, "BUY")' =>
            (/\ call[d].symbol \in dedup /\ call[d].symbol \notin cooling
             /\ ~IsOpen(call[d].symbol))'
      BY <2>1, <3>1, <3>2, <3>3, <3>4 DEF Settled, InDelay, IsOpen
    <3>6. \A d \in Callers : InDelay(d, "SELL")' /\ call'[d].exit /= 0 => Aimed(d)'
      <4> SUFFICES ASSUME NEW d \in Callers, InDelay(d, "SELL")', call'[d].exit /= 0
                   PROVE  Aimed(d)'
        OBVIOUS
      <4>1. d /= c /\ call'[d] = call[d] /\ Aimed(d)
        BY <3>1, <3>2 DEF Settled, InDelay
      <4>2. CASE call[d].symbol = s
        BY <3>3, <4>1, <4>2 DEF Aimed, IsOpen
      <4>3. CASE call[d].symbol /= s
        BY <3>3, <4>1, <4>3 DEF Aimed, IsOpen
      <4> QED  BY <4>2, <4>3
    <3> QED  BY <2>1, <3>1, <3>2, <3>3, <3>5, <3>6 DEF Settled, InDelay
  <2> QED  BY <1>7, <2>2, <2>3 DEF FillSell
<1>8. ASSUME NEW s \in Symbols, Cooled(s)
      PROVE  Settled'
  <2>1. /\ cooling' = cooling \ {s} /\ UNCHANGED <<positions, dedup, call>>
        /\ \A d \in Callers : call[d].phase \in {"delay", "saving"} => call[d].symbol /= s
    BY <1>8 DEF Cooled, UnderWay
  <2> QED  BY <2>1 DEF Settled, InDelay, IsOpen, Aimed
<1>9. CASE NewDay
  <2>1. UNCHANGED <<positions, cooling, call>> /\ \A d \in Callers : ~InDelay(d, "BUY")
    BY <1>9 DEF NewDay, Buying
  <2> QED  BY <2>1 DEF Settled, InDelay, IsOpen, Aimed
<1>10. CASE UNCHANGED vars
  BY <1>10 DEF vars, Settled, InDelay, IsOpen, Aimed
<1> QED
  BY <1>1, <1>2, <1>3, <1>4, <1>5, <1>6, <1>7, <1>8, <1>9, <1>10 DEF Next, CallerStep

------------------------------------------------------------------------------
(* Theorems *)

\* The invariant that carries the others: what the checks made before the
\* delay still mean after it (executionEngine.js, placeOrder).
THEOREM Invariant == Spec => []IInv
<1>1. IInv /\ [Next]_vars => IInv'
  BY TypeStep, CashStep, CountStep, SettledStep DEF IInv
<1> QED  BY InitIInv, <1>1, PTL DEF Spec

\* Positions, cooldowns, signals and orders keep their types, whatever the caps
\* and however many orders overlap.
THEOREM TypeCorrect == Spec => []TypeOK
<1>1. IInv => TypeOK
  BY DEF IInv
<1> QED  BY Invariant, <1>1, PTL

\* Orders that overlap their delays never spend more than the cash there is:
\* the capital check after the delay is enough.
THEOREM NothingOverdrawn == Spec => []NeverOverdrawn
<1>1. IInv => NeverOverdrawn
  BY DEF IInv
<1> QED  BY Invariant, <1>1, PTL

\* The position cap, checked before the delay only, is passed by no more than
\* the number of orders that overlap.
THEOREM CapAlmostHolds == Spec => []AtMostMaxOpen
<1>1. IInv => AtMostMaxOpen
  <2> SUFFICES ASSUME IInv PROVE AtMostMaxOpen
    OBVIOUS
  <2>1. Cardinality(positions) \in Nat
    BY FS_CardinalityType DEF IInv, Counted
  <2> QED  BY <2>1, Sizes, ExecutionAssumption DEF IInv, Counted, AtMostMaxOpen
<1> QED  BY Invariant, <1>1, PTL

\* No purchase fills onto an open position or inside a cooldown.
THEOREM OneEntry == Spec => OneEntryAtATime
<1>1. IInv /\ [Next]_vars =>
        [\A p \in positions' \ positions : ~IsOpen(p.symbol) /\ p.symbol \notin cooling]_vars
  <2> SUFFICES ASSUME IInv, [Next]_vars, NEW p \in positions' \ positions
               PROVE  ~IsOpen(p.symbol) /\ p.symbol \notin cooling
    OBVIOUS
  <2>1. PICK c \in Callers, cost \in FillValues : FillBuy(c, cost)
    BY DEF Next, CallerStep, Buy, Sell, CheckAndClose, NoFill, FillSell, Close, Saved, Answered,
           Cooled, NewDay, vars
  <2>2. p.symbol = call[c].symbol /\ InDelay(c, "BUY")
    BY <2>1 DEF FillBuy
  <2> QED  BY <2>2 DEF IInv, Settled
<1> QED  BY Invariant, <1>1, PTL DEF Spec, OneEntryAtATime

\* An exit never sells a position other than the one whose stop or target was
\* passed.
THEOREM ExitsAreAimed == Spec => ExitClosesItsPosition
<1>1. IInv /\ [Next]_vars =>
        [\A c \in Callers, p \in positions \ positions' :
           call[c] /= call'[c] /\ InDelay(c, "SELL") /\ call[c].exit /= 0
             /\ call[c].symbol = p.symbol => call[c].exit = p.id]_vars
  <2> SUFFICES ASSUME IInv, NEW c \in Callers, NEW p \in positions,
                      InDelay(c, "SELL"), call[c].exit /= 0, call[c].symbol = p.symbol
               PROVE  call[c].exit = p.id
    OBVIOUS
  <2>1. Aimed(c) /\ IsOpen(call[c].symbol)
    BY DEF IInv, Settled, IsOpen
  <2>2. PICK q \in positions : q.symbol = call[c].symbol /\ q.id = call[c].exit
    BY <2>1 DEF Aimed
  <2> QED  BY <2>2 DEF IInv, Settled
<1> QED  BY Invariant, <1>1, PTL DEF Spec, ExitClosesItsPosition

-----------------------------------------------------------------------------
(* Sums over finite sets, and SimEngine                                    *)

LEMMA Least == ASSUME NEW T, T \subseteq Nat, T # {} PROVE \E m \in T : \A x \in T : m <= x
<1>1. PICK m \in T : \A x \in T : ~(<<x, m>> \in OpToRel(<, Nat))
  BY WFMin, NatLessThanWellFounded
<1>2. \A x \in T : ~(x < m)
  BY <1>1 DEF OpToRel
<1> QED
  BY <1>2

\* The fold that sums v over the subsets of T, element by element.
Folding(v, T, f) ==
  f = [S \in SUBSET T |-> IF S = {} THEN 0
                          ELSE v[CHOOSE x \in S : TRUE] + f[S \ {CHOOSE x \in S : TRUE}]]
Sum(v, T) == (CHOOSE f : Folding(v, T, f))[T]

Ints(v, T) == \A x \in T : v[x] \in Int

\* In whatever order the elements are taken.
Additive(v, T, f) ==
  /\ f \in [SUBSET T -> Int] /\ f[{}] = 0
  /\ \A S \in SUBSET T : \A x \in S : f[S] = v[x] + f[S \ {x}]

LEMMA AdditiveGrows ==
  ASSUME NEW T, NEW v, Ints(v, T), NEW a \in T, NEW g, Additive(v, T \ {a}, g)
  PROVE  \E f : Additive(v, T, f)
<1> DEFINE U == T \ {a}
           f == [S \in SUBSET T |-> IF a \in S THEN v[a] + g[S \ {a}] ELSE g[S]]
<1>1. v[a] \in Int /\ \A x \in T : v[x] \in Int
  BY DEF Ints
<1>2. \A S \in SUBSET U : g[S] \in Int
  BY DEF Additive
<1>3. \A S \in SUBSET T : S \ {a} \in SUBSET U /\ (a \notin S => S \in SUBSET U)
  OBVIOUS
<1> HIDE DEF U
<1>4. f \in [SUBSET T -> Int]
  BY <1>1, <1>2, <1>3
<1>5. f[{}] = 0
  BY DEF Additive
<1>6. ASSUME NEW S \in SUBSET T, NEW x, x \in S PROVE f[S] = v[x] + f[S \ {x}]
  <2>1. S \ {x} \in SUBSET T
    OBVIOUS
  <2>2. CASE a \notin S
    <3>1. g[S] = v[x] + g[S \ {x}]
      BY <1>3, <1>6, <2>2 DEF Additive, U
    <3> QED
      BY <2>1, <2>2, <3>1
  <2>3. CASE x = a
    <3>1. f[S] = v[a] + g[S \ {a}] /\ f[S \ {a}] = g[S \ {a}]
      BY <1>6, <2>1, <2>3
    <3> QED
      BY <2>3, <3>1
  <2>4. CASE a \in S /\ x # a
    <3>1. f[S] = v[a] + g[S \ {a}] /\ f[S \ {x}] = v[a] + g[(S \ {x}) \ {a}]
      BY <2>1, <2>4
    <3>2. (S \ {x}) \ {a} = (S \ {a}) \ {x} /\ x \in S \ {a} /\ S \ {a} \in SUBSET U /\ (S \ {a}) \ {x} \in SUBSET U
      BY <1>3, <1>6, <2>4
    <3>3. g[S \ {a}] = v[x] + g[(S \ {a}) \ {x}]
      BY <3>2 DEF Additive, U
    <3>4. v[x] \in Int /\ v[a] \in Int /\ g[(S \ {a}) \ {x}] \in Int
      BY <1>1, <1>2, <1>6, <3>2
    <3> DEFINE rest == g[(S \ {a}) \ {x}]
    <3>5. f[S] = v[a] + (v[x] + rest) /\ f[S \ {x}] = v[a] + rest
      BY <3>1, <3>2, <3>3, Zenon
    <3> HIDE DEF f, rest
    <3>6. rest \in Int /\ v[x] \in Int /\ v[a] \in Int
      BY <3>4 DEF rest
    <3>7. \A p, q, r \in Int : p + (q + r) = q + (p + r)
      OBVIOUS
    <3>8. v[a] + (v[x] + rest) = v[x] + (v[a] + rest)
      BY <3>6, <3>7, Zenon
    <3> QED
      BY <3>5, <3>8
  <2> QED
    BY <2>2, <2>3, <2>4
<1> HIDE DEF f
<1>7. Additive(v, T, f)
  BY <1>4, <1>5, <1>6 DEF Additive
<1> QED
  BY <1>7

LEMMA AdditiveExists ==
  ASSUME NEW T, IsFiniteSet(T), NEW v, Ints(v, T)
  PROVE  \E f : Additive(v, T, f)
<1> DEFINE Bad == {n \in Nat : \E S \in SUBSET T : Cardinality(S) = n /\ ~ \E f : Additive(v, S, f)}
<1>1. SUFFICES ASSUME Bad # {} PROVE FALSE
  <2>1. Cardinality(T) \in Nat
    BY FS_CardinalityType
  <2> QED
    BY <2>1
<1>2. PICK n \in Bad : \A m \in Bad : n <= m
  <2>1. Bad \subseteq Nat
    OBVIOUS
  <2> HIDE DEF Bad
  <2> QED
    BY <1>1, <2>1, Least
<1>3. PICK S \in SUBSET T : Cardinality(S) = n /\ ~ \E f : Additive(v, S, f)
  BY <1>2
<1>4. IsFiniteSet(S) /\ Ints(v, S) /\ n \in Nat
  BY <1>2, FS_Subset DEF Ints
<1>5. S # {}
  <2>1. SUFFICES ASSUME S = {} PROVE FALSE
    OBVIOUS
  <2>2. Additive(v, {}, [x \in {{}} |-> 0])
    BY DEF Additive
  <2> QED
    BY <1>3, <2>1, <2>2
<1>6. PICK a : a \in S
  BY <1>5
<1>7. Cardinality(S \ {a}) = n - 1 /\ S \ {a} \in SUBSET T /\ n - 1 \in Nat
  <2>1. Cardinality(S \ {a}) = Cardinality(S) - 1
    BY <1>4, <1>6, FS_RemoveElement
  <2>2. Cardinality(S \ {a}) \in Nat
    BY <1>4, FS_Subset, FS_CardinalityType
  <2> QED
    BY <1>3, <2>1, <2>2
<1>8. \E g : Additive(v, S \ {a}, g)
  <2>1. n - 1 \notin Bad
    <3> HIDE DEF Bad
    <3> QED
      BY <1>2, <1>4
  <2> QED
    BY <1>7, <2>1
<1> HIDE DEF Bad
<1> QED
  BY <1>3, <1>4, <1>6, <1>8, AdditiveGrows

LEMMA AdditiveFolds ==
  ASSUME NEW T, NEW v, NEW f, Additive(v, T, f)
  PROVE  Folding(v, T, f)
<1>1. ASSUME NEW S \in SUBSET T
      PROVE  f[S] = IF S = {} THEN 0 ELSE v[CHOOSE x \in S : TRUE] + f[S \ {CHOOSE x \in S : TRUE}]
  <2>1. S # {} => (CHOOSE x \in S : TRUE) \in S
    OBVIOUS
  <2> DEFINE c == CHOOSE x \in S : TRUE
  <2> HIDE DEF c
  <2>2. S # {} => f[S] = v[c] + f[S \ {c}]
    BY <2>1 DEF Additive, c
  <2> QED
    BY <2>2 DEF Additive, c
<1>2. f = [S \in SUBSET T |-> f[S]]
  BY DEF Additive
<1> QED
  BY <1>1, <1>2 DEF Folding

\* Two folds agree where their summands do.
LEMMA FoldsAgree ==
  ASSUME NEW T, IsFiniteSet(T), NEW S \in SUBSET T, NEW v, NEW u, \A x \in S : v[x] = u[x],
         NEW f, NEW g, Folding(v, T, f), Folding(u, S, g)
  PROVE  f[S] = g[S]
<1> DEFINE Bad == {n \in Nat : \E R \in SUBSET S : Cardinality(R) = n /\ f[R] # g[R]}
<1>1. SUFFICES ASSUME Bad # {} PROVE FALSE
  <2>1. Cardinality(S) \in Nat
    BY FS_Subset, FS_CardinalityType
  <2> QED
    BY <2>1
<1>2. PICK n \in Bad : \A m \in Bad : n <= m
  <2>1. Bad \subseteq Nat
    OBVIOUS
  <2> HIDE DEF Bad
  <2> QED
    BY <1>1, <2>1, Least
<1>3. PICK R \in SUBSET S : Cardinality(R) = n /\ f[R] # g[R]
  BY <1>2
<1> DEFINE c == CHOOSE x \in R : TRUE
<1>4. /\ f[R] = IF R = {} THEN 0 ELSE v[c] + f[R \ {c}]
      /\ g[R] = IF R = {} THEN 0 ELSE u[c] + g[R \ {c}]
  <2>1. R \in SUBSET T /\ R \in SUBSET S
    OBVIOUS
  <2> QED
    BY <2>1 DEF Folding
<1>5. R # {} /\ c \in R
  BY <1>3, <1>4
<1> HIDE DEF c
<1>6. IsFiniteSet(R)
  BY FS_Subset
<1>7. Cardinality(R \ {c}) = n - 1 /\ R \ {c} \in SUBSET S /\ n - 1 \in Nat /\ n \in Nat
  <2>1. Cardinality(R \ {c}) = Cardinality(R) - 1
    BY <1>5, <1>6, FS_RemoveElement
  <2>2. Cardinality(R \ {c}) \in Nat
    BY <1>6, FS_Subset, FS_CardinalityType
  <2> QED
    BY <1>2, <1>3, <2>1, <2>2
<1>8. f[R \ {c}] = g[R \ {c}]
  <2>1. n - 1 \notin Bad
    <3> HIDE DEF Bad
    <3> QED
      BY <1>2, <1>7
  <2> QED
    BY <1>7, <2>1
<1>9. v[c] = u[c]
  BY <1>5
<1> HIDE DEF Bad
<1> QED
  BY <1>3, <1>4, <1>5, <1>8, <1>9

\* A sum over a finite set is an integer, nothing for nothing, and may be taken element by element.
LEMMA SumIs ==
  ASSUME NEW T, IsFiniteSet(T), NEW v, Ints(v, T)
  PROVE  /\ Sum(v, T) \in Int
         /\ T = {} => Sum(v, T) = 0
         /\ \A x \in T : Sum(v, T) = v[x] + Sum(v, T \ {x})
<1>1. \A S \in SUBSET T : IsFiniteSet(S) /\ Ints(v, S)
  BY FS_Subset DEF Ints
<1>2. ASSUME NEW S \in SUBSET T
      PROVE  Folding(v, S, CHOOSE f : Folding(v, S, f))
  <2>1. \E f : Folding(v, S, f)
    BY <1>1, AdditiveExists, AdditiveFolds
  <2> QED
    BY <2>1
<1>3. PICK f : Additive(v, T, f)
  BY AdditiveExists
<1>4. Folding(v, T, f)
  BY <1>3, AdditiveFolds
<1>5. ASSUME NEW S \in SUBSET T PROVE f[S] = Sum(v, S)
  <2> DEFINE h == CHOOSE g : Folding(v, S, g)
  <2>1. Folding(v, S, h)
    BY <1>2
  <2> HIDE DEF h
  <2>2. f[S] = h[S]
    BY <1>4, <2>1, FoldsAgree
  <2> QED
    BY <2>2 DEF Sum, h
<1>6. T \in SUBSET T /\ \A x \in T : T \ {x} \in SUBSET T
  OBVIOUS
<1>7. f[T] \in Int /\ (T = {} => f[T] = 0) /\ \A x \in T : f[T] = v[x] + f[T \ {x}]
  BY <1>3, <1>6 DEF Additive
<1> QED
  BY <1>5, <1>6, <1>7

\* Whatever fold of the summands there is, it is the sum.
LEMMA FoldIsSum ==
  ASSUME NEW T, IsFiniteSet(T), NEW v, Ints(v, T), NEW f, Folding(v, T, f)
  PROVE  f[T] = Sum(v, T)
<1> DEFINE h == CHOOSE g : Folding(v, T, g)
<1>1. Folding(v, T, h)
  BY Zenon
<1> HIDE DEF h
<1>2. f[T] = h[T]
  BY <1>1, FoldsAgree
<1> QED
  BY <1>2 DEF Sum, h

LEMMA SumsAgree ==
  ASSUME NEW T, IsFiniteSet(T), NEW v, NEW u, Ints(v, T), \A x \in T : v[x] = u[x]
  PROVE  Sum(v, T) = Sum(u, T)
<1> DEFINE f == CHOOSE h : Folding(v, T, h)
           g == CHOOSE h : Folding(u, T, h)
<1>1. Ints(u, T)
  BY DEF Ints
<1>2. Folding(v, T, f) /\ Folding(u, T, g)
  <2>1. (\E h : Folding(v, T, h)) /\ (\E h : Folding(u, T, h))
    BY <1>1, AdditiveExists, AdditiveFolds
  <2> QED
    BY <2>1, Zenon
<1> HIDE DEF f, g
<1>3. f[T] = g[T]
  BY <1>2, FoldsAgree
<1> QED
  BY <1>3 DEF Sum, f, g

SimPosition == [qty : Int, entry : Prices, fee : Int]
SimBook == [cash : Int, pos : [Symbols -> SimPosition \cup {None}], pnl : Int, buys : Int]

HeldIn(b) == {s \in Symbols : b.pos[s] # None}
PaidFor(b) == [s \in Symbols |-> b.pos[s].qty * b.pos[s].entry + b.pos[s].fee]

\* Cash and what the positions cost are the capital and the profits.
BookBalances(b) == b.cash + Sum(PaidFor(b), HeldIn(b)) = Capital + b.pnl

LEMMA Paid ==
  ASSUME Sim!SimEngineAssumption, NEW b \in SimBook
  PROVE  IsFiniteSet(HeldIn(b)) /\ Ints(PaidFor(b), HeldIn(b))
<1>1. IsFiniteSet(Symbols)
  BY Zenon DEF Sim!SimEngineAssumption, Sim!IsFiniteSet, IsFiniteSet
<1>2. IsFiniteSet(HeldIn(b))
  BY <1>1, FS_Subset DEF HeldIn
<1>3. ASSUME NEW s \in HeldIn(b) PROVE PaidFor(b)[s] \in Int
  <2>1. s \in Symbols /\ b.pos[s] \in SimPosition
    BY <1>3 DEF HeldIn, SimBook
  <2>0. Prices \subseteq Int
    BY DEF Sim!SimEngineAssumption
  <2>2. b.pos[s].qty \in Int /\ b.pos[s].entry \in Int /\ b.pos[s].fee \in Int
    BY <2>0, <2>1 DEF SimPosition
  <2>3. b.pos[s].qty * b.pos[s].entry + b.pos[s].fee \in Int
    BY <2>2
  <2> QED
    BY <2>1, <2>3 DEF PaidFor
<1> QED
  BY <1>2, <1>3 DEF Ints

\* One stock bought: what it cost is added.
LEMMA SumGrows ==
  ASSUME Sim!SimEngineAssumption, NEW b \in SimBook, NEW c \in SimBook, NEW s \in Symbols,
         b.pos[s] = None, c.pos[s] # None, \A r \in Symbols : r # s => c.pos[r] = b.pos[r]
  PROVE  Sum(PaidFor(c), HeldIn(c)) = PaidFor(c)[s] + Sum(PaidFor(b), HeldIn(b))
<1>1. s \in HeldIn(c) /\ HeldIn(c) \ {s} = HeldIn(b)
  BY DEF HeldIn
<1>2. Sum(PaidFor(c), HeldIn(c)) = PaidFor(c)[s] + Sum(PaidFor(c), HeldIn(b))
  BY <1>1, Paid, SumIs
<1>3. \A r \in HeldIn(b) : PaidFor(b)[r] = PaidFor(c)[r]
  BY DEF HeldIn, PaidFor
<1>4. Sum(PaidFor(c), HeldIn(b)) = Sum(PaidFor(b), HeldIn(b))
  BY <1>3, Paid, SumsAgree
<1> QED
  BY <1>2, <1>4

LEMMA SimLevels ==
  ASSUME NEW p \in Nat \ 0..19
  PROVE  Sim!Stop(p) < p /\ p < Sim!Target(p)
<1>1. \A x \in Nat : (x * 975) \div 1000 < x \/ x = 0
  OBVIOUS
<1>2. \A x \in Nat : x >= 20 => x < (x * 105) \div 100
  OBVIOUS
<1> QED
  BY <1>1, <1>2 DEF Sim!Stop, Sim!Target

LEMMA SimBuys ==
  ASSUME Sim!SimEngineAssumption, NEW b \in SimBook, BookBalances(b),
         NEW s \in Symbols, NEW price \in Prices, b.pos[s] = None
  PROVE  LET c == Sim!Buy(b, s, price) IN
         /\ c \in SimBook /\ BookBalances(c) /\ \A r \in Symbols : r # s => c.pos[r] = b.pos[r]
         /\ c.pos[s] # None => c.pos[s].entry = price
<1> DEFINE qty == b.cash \div (10 * price)
           fee == Sim!Fee(qty * price)
           c == Sim!Buy(b, s, price)
           p == [qty |-> qty, entry |-> price, fee |-> fee]
<1>1. price \in Nat /\ price > 0 /\ b.cash \in Int /\ b.pnl \in Int /\ b.buys \in Int
      /\ b.pos \in [Symbols -> SimPosition \cup {None}]
  BY DEF SimBook, Sim!SimEngineAssumption
<1>2. qty \in Int /\ qty * price \in Int
  <2>1. 10 * price \in Nat /\ 10 * price > 0
    BY <1>1
  <2>2. qty \in Int
    <3> DEFINE ten == 10 * price
    <3>1. ten \in Nat /\ ten > 0
      BY <2>1
    <3> HIDE DEF ten
    <3>2. b.cash \div ten \in Int
      BY <1>1, <3>1
    <3> QED
      BY <3>2 DEF ten
  <2> HIDE DEF qty
  <2> QED
    BY <1>1, <2>2
<1>3. fee \in Int
  <2> DEFINE m == qty * price
  <2> HIDE DEF m
  <2>1. m \in Int
    BY <1>2 DEF m
  <2>2. Sim!Fee(m) \in Int
    BY <2>1 DEF Sim!Fee
  <2> QED
    BY <2>2 DEF m
<1>4. c = b \/ c = [b EXCEPT !.cash = b.cash - qty * price - fee, !.buys = b.buys + 1, !.pos[s] = p]
  BY DEF Sim!Buy
<1> HIDE DEF qty, fee, c
<1>5. CASE c = b
  BY <1>5 DEF c
<1>6. CASE c = [b EXCEPT !.cash = b.cash - qty * price - fee, !.buys = b.buys + 1, !.pos[s] = p]
  <2>1. p \in SimPosition /\ p.entry = price /\ p.qty = qty /\ p.fee = fee
    BY <1>2, <1>3 DEF SimPosition
  <2> HIDE DEF p
  <2> DEFINE spent == qty * price
  <2>2. spent \in Int
    BY <1>2
  <2>3. c = [b EXCEPT !.cash = b.cash - spent - fee, !.buys = b.buys + 1, !.pos[s] = p]
    BY <1>6
  <2> HIDE DEF spent
  <2>4. b.cash - spent - fee \in Int /\ b.buys + 1 \in Int
    BY <1>1, <1>3, <2>2
  <2>5. /\ c = [cash |-> b.cash - spent - fee, pos |-> [b.pos EXCEPT ![s] = p], pnl |-> b.pnl, buys |-> b.buys + 1]
    BY <2>3 DEF SimBook
  <2>6. [b.pos EXCEPT ![s] = p] \in [Symbols -> SimPosition \cup {None}]
    BY <1>1, <2>1
  <2>7. c \in SimBook /\ c.cash = b.cash - spent - fee /\ c.pnl = b.pnl /\ c.pos = [b.pos EXCEPT ![s] = p]
    BY <1>1, <2>4, <2>5, <2>6 DEF SimBook
  <2>8. c.pos[s] = p /\ \A r \in Symbols : r # s => c.pos[r] = b.pos[r]
    BY <1>1, <2>7
  <2>9. p # None
    BY <2>1 DEF SimPosition, Sim!SimEngineAssumption
  <2>10. BookBalances(c)
    <3>1. Sum(PaidFor(c), HeldIn(c)) = PaidFor(c)[s] + Sum(PaidFor(b), HeldIn(b))
      BY <2>7, <2>8, <2>9, SumGrows
    <3>2. PaidFor(c)[s] = spent + fee
      BY <2>1, <2>8 DEF PaidFor, spent
    <3>3. Sum(PaidFor(b), HeldIn(b)) \in Int
      BY Paid, SumIs
    <3> QED
      BY <1>1, <1>3, <2>2, <2>7, <3>1, <3>2, <3>3 DEF BookBalances, Sim!SimEngineAssumption
  <2> QED
    BY <2>1, <2>7, <2>8, <2>10 DEF c
<1> QED
  BY <1>4, <1>5, <1>6 DEF c

LEMMA SimSells ==
  ASSUME Sim!SimEngineAssumption, NEW b \in SimBook, BookBalances(b),
         NEW s \in Symbols, NEW price \in Prices, b.pos[s] # None
  PROVE  LET c == Sim!Sell(b, s, price) IN
         /\ c \in SimBook /\ BookBalances(c) /\ \A r \in Symbols : r # s => c.pos[r] = b.pos[r]
         /\ c.pos[s] = None
<1> DEFINE p == b.pos[s]
           net == p.qty * price - Sim!Fee(p.qty * price)
           cost == p.qty * p.entry
           c == Sim!Sell(b, s, price)
<1>1. price \in Nat /\ Prices \subseteq Nat /\ b.cash \in Int /\ b.pnl \in Int /\ b.buys \in Int
      /\ b.pos \in [Symbols -> SimPosition \cup {None}] /\ p \in SimPosition
  BY DEF SimBook, Sim!SimEngineAssumption
<1> HIDE DEF p
<1>2. p.qty \in Int /\ p.entry \in Int /\ p.fee \in Int
  <2>1. p \in SimPosition /\ Prices \subseteq Int
    BY <1>1
  <2> QED
    BY <2>1 DEF SimPosition
<1>3. p.qty * price \in Int /\ cost \in Int
  BY <1>1, <1>2
<1>4. net \in Int
  <2> DEFINE m == p.qty * price
  <2> HIDE DEF m
  <2>1. m \in Int
    BY <1>3 DEF m
  <2>2. m - Sim!Fee(m) \in Int
    BY <2>1 DEF Sim!Fee
  <2> QED
    BY <2>2 DEF m
<1>5. c = [b EXCEPT !.cash = b.cash + net, !.pnl = b.pnl + net - cost - p.fee, !.pos[s] = None]
  BY DEF Sim!Sell, p
<1> HIDE DEF net, cost, c
<1>6. b.cash + net \in Int /\ b.pnl + net - cost - p.fee \in Int
  BY <1>1, <1>2, <1>3, <1>4
<1>7. c = [cash |-> b.cash + net, pos |-> [b.pos EXCEPT ![s] = None], pnl |-> b.pnl + net - cost - p.fee, buys |-> b.buys]
  BY <1>5 DEF SimBook
<1>8. [b.pos EXCEPT ![s] = None] \in [Symbols -> SimPosition \cup {None}]
  BY <1>1
<1>9. /\ c \in SimBook /\ c.cash = b.cash + net /\ c.pnl = b.pnl + net - cost - p.fee
      /\ c.pos = [b.pos EXCEPT ![s] = None]
  BY <1>1, <1>6, <1>7, <1>8 DEF SimBook
<1>10. c.pos[s] = None /\ \A r \in Symbols : r # s => c.pos[r] = b.pos[r]
  BY <1>1, <1>9
<1>11. BookBalances(c)
  <2>1. Sum(PaidFor(b), HeldIn(b)) = PaidFor(b)[s] + Sum(PaidFor(c), HeldIn(c))
    BY <1>9, <1>10, SumGrows
  <2>2. PaidFor(b)[s] = cost + p.fee
    BY DEF PaidFor, cost, p
  <2>3. Sum(PaidFor(c), HeldIn(c)) \in Int
    BY <1>9, Paid, SumIs
  <2> QED
    BY <1>1, <1>2, <1>3, <1>4, <1>9, <2>1, <2>2, <2>3 DEF BookBalances, Sim!SimEngineAssumption
<1> QED
  BY <1>9, <1>10, <1>11 DEF c

\* Within the bracket of its entry.
Inside(p, price) == Sim!Stop(p.entry) < price /\ price < Sim!Target(p.entry)

\* After a price was traded at, the stock's position, if any, is inside its bracket at that price.
LEMMA SimTrades ==
  ASSUME Sim!SimEngineAssumption, NEW b \in SimBook, BookBalances(b),
         NEW s \in Symbols, NEW price \in Prices, NEW sig
  PROVE  LET c == Sim!Trade(b, s, price, sig) IN
         /\ c \in SimBook /\ BookBalances(c) /\ \A r \in Symbols : r # s => c.pos[r] = b.pos[r]
         /\ c.pos[s] # None => Inside(c.pos[s], price)
<1> DEFINE d == Sim!CheckExits(b, s, price, sig)
<1>1. /\ d \in SimBook /\ BookBalances(d) /\ \A r \in Symbols : r # s => d.pos[r] = b.pos[r]
      /\ d.pos[s] # None => Inside(d.pos[s], price)
  <2>1. CASE b.pos[s] # None /\ (price <= Sim!Stop(b.pos[s].entry) \/ price >= Sim!Target(b.pos[s].entry))
    <3>1. d = Sim!Sell(b, s, price)
      BY <2>1 DEF Sim!CheckExits
    <3> QED
      BY <2>1, <3>1, SimSells
  <2>2. CASE ~(b.pos[s] # None /\ (price <= Sim!Stop(b.pos[s].entry) \/ price >= Sim!Target(b.pos[s].entry)))
    <3>1. d = b
      BY <2>2 DEF Sim!CheckExits
    <3>2. ASSUME b.pos[s] # None PROVE Inside(b.pos[s], price)
      <4>1. b.pos[s] \in SimPosition /\ Prices \subseteq Nat
        BY <3>2 DEF SimBook, Sim!SimEngineAssumption
      <4>2. b.pos[s].entry \in Nat /\ price \in Nat
        BY <4>1 DEF SimPosition
      <4>3. Sim!Stop(b.pos[s].entry) \in Int /\ Sim!Target(b.pos[s].entry) \in Int
        BY <4>2 DEF Sim!Stop, Sim!Target
      <4> QED
        BY <2>2, <3>2, <4>2, <4>3 DEF Inside
    <3> QED
      BY <3>1, <3>2
  <2> QED
    BY <2>1, <2>2
<1> DEFINE c == Sim!Trade(b, s, price, sig)
<1>2. c = IF sig = "BUY" /\ d.pos[s] = None THEN Sim!Buy(d, s, price)
          ELSE IF sig = "SELL" /\ d.pos[s] # None THEN Sim!Sell(d, s, price) ELSE d
  BY DEF Sim!Trade
<1> HIDE DEF c, d
<1>3. CASE sig = "BUY" /\ d.pos[s] = None
  <2>1. c = Sim!Buy(d, s, price)
    BY <1>2, <1>3
  <2>2. /\ c \in SimBook /\ BookBalances(c) /\ \A r \in Symbols : r # s => c.pos[r] = d.pos[r]
        /\ c.pos[s] # None => c.pos[s].entry = price
    BY <1>1, <1>3, <2>1, SimBuys
  <2>3. c.pos[s] # None => Inside(c.pos[s], price)
    BY <2>2, SimLevels DEF Inside, Sim!SimEngineAssumption
  <2> QED
    BY <1>1, <2>2, <2>3 DEF c
<1>4. CASE sig = "SELL" /\ d.pos[s] # None
  <2>1. c = Sim!Sell(d, s, price)
    BY <1>2, <1>4
  <2>2. /\ c \in SimBook /\ BookBalances(c) /\ \A r \in Symbols : r # s => c.pos[r] = d.pos[r]
        /\ c.pos[s] = None
    BY <1>1, <1>4, <2>1, SimSells
  <2> QED
    BY <1>1, <2>2 DEF c
<1>5. CASE ~(sig = "BUY" /\ d.pos[s] = None) /\ ~(sig = "SELL" /\ d.pos[s] # None)
  <2>1. c = d
    BY <1>2, <1>5
  <2> QED
    BY <1>1, <2>1 DEF c
<1> QED
  BY <1>3, <1>4, <1>5

TickRecord == [at : Nat, await : {"nothing", "history", "price"}, symbol : Symbols \cup {None}]

\* A stock that is being loaded has no price yet, and is loaded by one tick; one whose price is
\* awaited has an earlier one.
Awaits(k, h, l) ==
  /\ k # Sim!Idle => k.at >= 1
  /\ k.await # "nothing" => k.symbol \in Symbols
  /\ k.await = "history" => h[k.symbol] = None /\ k.symbol \in l
  /\ k.await = "price" => h[k.symbol] # None

LoadedAlone(ticks) ==
  \A t, u \in Ticks :
    ticks[t].await = "history" /\ ticks[u].await = "history" /\ ticks[t].symbol = ticks[u].symbol => t = u

\* A book balances, and its positions are inside their brackets at the latest prices.
BookRight(b, h) ==
  /\ b \in SimBook /\ BookBalances(b)
  /\ \A s \in Symbols : b.pos[s] # None => h[s] # None /\ Inside(b.pos[s], h[s])

SimInv ==
  /\ watch \in Seq(Symbols) /\ tick \in [Ticks -> TickRecord]
  /\ history \in [Symbols -> Prices \cup {None}]
  /\ LoadedAlone(tick) /\ \A t \in Ticks : Awaits(tick[t], history, loading)
  /\ DOMAIN book = Users /\ \A u \in Users : book[u] # None => BookRight(book[u], history)

LEMMA SimInit == ASSUME Sim!SimEngineAssumption, Sim!Init PROVE SimInv
<1>1. watch \in Seq(Symbols)
  <2>1. IsFiniteSet(Symbols) /\ Sim!Cardinality(Symbols) = Cardinality(Symbols)
    BY Zenon DEF Sim!SimEngineAssumption, Sim!Cardinality, Cardinality, Sim!IsFiniteSet, IsFiniteSet
  <2>2. Sim!Cardinality(Symbols) \in Nat
    BY <2>1, FS_CardinalityType
  <2>3. watch \in [1..Sim!Cardinality(Symbols) -> Symbols]
    BY DEF Sim!Init
  <2> QED
    BY <2>2, <2>3
<1>2. tick = [t \in Ticks |-> [at |-> 0, await |-> "nothing", symbol |-> None]] /\ history = [s \in Symbols |-> None]
      /\ book = [u \in Users |-> None] /\ Sim!Idle = [at |-> 0, await |-> "nothing", symbol |-> None]
  BY DEF Sim!Init, Sim!Idle
<1> QED
  BY <1>1, <1>2 DEF SimInv, LoadedAlone, Awaits, TickRecord

\* One tick moves; prices and books stay.
LEMMA SimMoves ==
  ASSUME SimInv, NEW t \in Ticks, NEW k \in TickRecord, tick' = [tick EXCEPT ![t] = k],
         UNCHANGED <<watch, history, book>>, loading \subseteq loading', Awaits(k, history, loading'),
         k.await = "history" => k.symbol \notin loading
  PROVE  SimInv'
<1>1. tick' \in [Ticks -> TickRecord] /\ \A u \in Ticks : tick'[u] = IF u = t THEN k ELSE tick[u]
  BY DEF SimInv
<1>2. \A u \in Ticks : Awaits(tick'[u], history', loading')
  <2>1. \A u \in Ticks : Awaits(tick[u], history, loading')
    BY DEF SimInv, Awaits
  <2> QED
    BY <1>1, <2>1
<1>3. LoadedAlone(tick')
  BY <1>1 DEF SimInv, LoadedAlone, Awaits
<1> QED
  BY <1>1, <1>2, <1>3 DEF SimInv

LEMMA SimWalks ==
  ASSUME Sim!SimEngineAssumption, SimInv, NEW t \in Ticks,
         Sim!Fire(t) \/ Sim!Load(t) \/ Sim!RetryLoad(t) \/ Sim!Pass(t) \/ Sim!Ask(t) \/ Sim!Finish(t)
  PROVE  SimInv'
<1>1. UNCHANGED <<watch, history, book>> /\ tick[t] \in TickRecord /\ tick[t].at \in Nat
  BY DEF Sim!Fire, Sim!Load, Sim!RetryLoad, Sim!Pass, Sim!Ask, Sim!Finish, SimInv, TickRecord
<1>2. Sim!Idle \in TickRecord /\ Sim!Idle.await = "nothing" /\ Sim!Idle.at = 0
  BY DEF Sim!Idle, TickRecord
<1>3. tick[t] # Sim!Idle => tick[t].at >= 1
  BY DEF SimInv, Awaits
<1>4. tick[t] # Sim!Idle /\ tick[t].at <= Len(watch) => Sim!Here(t) \in Symbols
  BY <1>1, <1>3 DEF SimInv, Sim!Here
<1>5. CASE Sim!Fire(t)
  <2> DEFINE k == [at |-> 1, await |-> "nothing", symbol |-> None]
  <2>1. k \in TickRecord /\ Awaits(k, history, loading') /\ k.await = "nothing"
    BY DEF TickRecord, Awaits
  <2>2. tick' = [tick EXCEPT ![t] = k] /\ loading' = loading
    BY <1>5 DEF Sim!Fire
  <2> HIDE DEF k
  <2> QED
    BY <1>1, <2>1, <2>2, SimMoves
<1>6. CASE Sim!Load(t)
  <2> DEFINE k == [tick[t] EXCEPT !.await = "history", !.symbol = Sim!Here(t)]
  <2>1. /\ tick[t] # Sim!Idle /\ tick[t].at <= Len(watch) /\ history[Sim!Here(t)] = None
        /\ Sim!Here(t) \notin loading /\ loading' = loading \cup {Sim!Here(t)}
        /\ tick' = [tick EXCEPT ![t].await = "history", ![t].symbol = Sim!Here(t)]
    BY <1>6 DEF Sim!Load, Sim!Walking, Sim!MayLoad
  <2>2. /\ k \in TickRecord /\ k.at = tick[t].at /\ k.await = "history" /\ k.symbol = Sim!Here(t)
    BY <1>1, <1>4, <2>1 DEF TickRecord
  <2>3. tick' = [tick EXCEPT ![t] = k]
    BY <2>1 DEF SimInv
  <2> HIDE DEF k
  <2>4. Awaits(k, history, loading')
    BY <1>3, <1>4, <2>1, <2>2 DEF Awaits
  <2> QED
    BY <1>1, <2>1, <2>2, <2>3, <2>4, SimMoves
<1>7. CASE Sim!RetryLoad(t)
  BY <1>1, <1>7 DEF Sim!RetryLoad, SimInv
<1>8. CASE Sim!Pass(t)
  <2> DEFINE k == [tick[t] EXCEPT !.at = tick[t].at + 1]
  <2>1. tick[t].await = "nothing" /\ tick' = [tick EXCEPT ![t].at = tick[t].at + 1] /\ loading' = loading
    BY <1>8 DEF Sim!Pass, Sim!Walking
  <2>2. k \in TickRecord /\ k.at = tick[t].at + 1 /\ k.await = "nothing"
    BY <1>1, <2>1 DEF TickRecord
  <2>3. tick' = [tick EXCEPT ![t] = k]
    BY <2>1 DEF SimInv
  <2> HIDE DEF k
  <2>4. Awaits(k, history, loading')
    BY <1>1, <2>2 DEF Awaits
  <2> QED
    BY <1>1, <2>1, <2>2, <2>3, <2>4, SimMoves
<1>9. CASE Sim!Ask(t)
  <2> DEFINE k == [tick[t] EXCEPT !.await = "price", !.symbol = Sim!Here(t)]
  <2>1. /\ tick[t] # Sim!Idle /\ tick[t].at <= Len(watch) /\ history[Sim!Here(t)] # None /\ loading' = loading
        /\ tick' = [tick EXCEPT ![t].await = "price", ![t].symbol = Sim!Here(t)]
    BY <1>9 DEF Sim!Ask, Sim!Walking
  <2>2. /\ k \in TickRecord /\ k.at = tick[t].at /\ k.await = "price" /\ k.symbol = Sim!Here(t)
    BY <1>1, <1>4, <2>1 DEF TickRecord
  <2>3. tick' = [tick EXCEPT ![t] = k]
    BY <2>1 DEF SimInv
  <2> HIDE DEF k
  <2>4. Awaits(k, history, loading')
    BY <1>3, <1>4, <2>1, <2>2 DEF Awaits
  <2> QED
    BY <1>1, <2>1, <2>2, <2>3, <2>4, SimMoves
<1>10. CASE Sim!Finish(t)
  <2>1. tick' = [tick EXCEPT ![t] = Sim!Idle] /\ loading' = loading
    BY <1>10 DEF Sim!Finish
  <2>2. Awaits(Sim!Idle, history, loading')
    BY <1>2 DEF Awaits
  <2> QED
    BY <1>1, <1>2, <2>1, <2>2, SimMoves
<1> QED
  BY <1>5, <1>6, <1>7, <1>8, <1>9, <1>10

\* A load ends: the first price of a stock nobody has a position in.
LEMMA SimLoads ==
  ASSUME Sim!SimEngineAssumption, SimInv, NEW t \in Ticks, Sim!Loaded(t)
  PROVE  SimInv'
<1> DEFINE s == tick[t].symbol
<1>1. /\ tick[t] \in TickRecord /\ tick[t].at \in Nat /\ tick[t].await = "history" /\ s \in Symbols
      /\ history[s] = None /\ tick[t].at >= 1
  <2>1. tick[t] \in TickRecord /\ tick[t].await = "history" /\ Awaits(tick[t], history, loading)
    BY DEF Sim!Loaded, SimInv
  <2>2. tick[t] # Sim!Idle
    BY <2>1 DEF Sim!Idle
  <2> QED
    BY <2>1, <2>2 DEF TickRecord, Awaits
<1>2. UNCHANGED <<watch, book>> /\ loading' = loading \ {s}
  BY DEF Sim!Loaded
<1> HIDE DEF s
<1>3. PICK k \in TickRecord : /\ tick' = [tick EXCEPT ![t] = k] /\ k.await # "history" /\ k.at >= 1
         /\ \/ k.await = "nothing" /\ history' = history
            \/ k.await = "price" /\ k.symbol = s /\ \E p \in Prices : history' = [history EXCEPT ![s] = p]
  <2>1. CASE \E p \in Prices : history' = [history EXCEPT ![s] = p] /\ tick' = [tick EXCEPT ![t].await = "price"]
    <3> DEFINE k == [tick[t] EXCEPT !.await = "price"]
    <3>1. k \in TickRecord /\ k.at = tick[t].at /\ k.await = "price" /\ k.symbol = s
      BY <1>1 DEF TickRecord, s
    <3>2. tick' = [tick EXCEPT ![t] = k]
      BY <2>1 DEF SimInv
    <3> HIDE DEF k
    <3> QED
      BY <1>1, <2>1, <3>1, <3>2
  <2>2. CASE history' = history /\ tick' = [tick EXCEPT ![t] = [at |-> tick[t].at + 1, await |-> "nothing", symbol |-> None]]
    <3> DEFINE k == [at |-> tick[t].at + 1, await |-> "nothing", symbol |-> None]
    <3>1. k \in TickRecord /\ k.at = tick[t].at + 1 /\ k.await = "nothing"
      BY <1>1 DEF TickRecord
    <3>2. tick' = [tick EXCEPT ![t] = k]
      BY <2>2
    <3> HIDE DEF k
    <3>3. k.at >= 1 /\ k.await # "history"
      BY <1>1, <3>1
    <3> QED
      BY <2>2, <3>1, <3>2, <3>3
  <2> QED
    BY <2>1, <2>2 DEF Sim!Loaded, s
<1>4. tick' \in [Ticks -> TickRecord] /\ \A u \in Ticks : tick'[u] = IF u = t THEN k ELSE tick[u]
  BY <1>3 DEF SimInv
<1>5. history' \in [Symbols -> Prices \cup {None}] /\ (\A r \in Symbols : r # s => history'[r] = history[r])
      /\ (k.await = "price" => history'[s] # None)
  BY <1>1, <1>3 DEF SimInv, Sim!SimEngineAssumption
<1>6. ASSUME NEW u \in Ticks PROVE Awaits(tick'[u], history', loading')
  <2>1. CASE u = t
    BY <1>1, <1>3, <1>4, <1>5, <2>1 DEF Awaits
  <2>2. CASE u # t
    <3>1. Awaits(tick[u], history, loading) /\ (tick[u].await = "history" => tick[u].symbol # s)
      BY <1>1, <2>2 DEF SimInv, LoadedAlone, s
    <3>2. tick[u].await \in {"nothing", "history", "price"}
      BY DEF SimInv, TickRecord
    <3>3. tick[u].await = "price" => tick[u].symbol # s
      BY <1>1, <3>1 DEF Awaits
    <3> QED
      BY <1>2, <1>4, <1>5, <2>2, <3>1, <3>2, <3>3 DEF Awaits
  <2> QED
    BY <2>1, <2>2
<1>7. LoadedAlone(tick')
  BY <1>3, <1>4 DEF SimInv, LoadedAlone
<1>8. ASSUME NEW u \in Users, book[u] # None PROVE BookRight(book[u], history')
  <2>1. BookRight(book[u], history)
    BY <1>8 DEF SimInv
  <2>2. \A r \in Symbols : book[u].pos[r] # None => r # s
    BY <1>1, <2>1 DEF BookRight
  <2> QED
    BY <1>5, <2>1, <2>2 DEF BookRight
<1> QED
  BY <1>2, <1>4, <1>5, <1>6, <1>7, <1>8 DEF SimInv

\* Every book is traded at the price that arrives.
LEMMA SimPrices ==
  ASSUME Sim!SimEngineAssumption, SimInv, NEW t \in Ticks, Sim!Priced(t)
  PROVE  SimInv'
<1> DEFINE s == tick[t].symbol
           k == [at |-> tick[t].at + 1, await |-> "nothing", symbol |-> None]
<1>1. tick[t] \in TickRecord /\ tick[t].at \in Nat /\ s \in Symbols /\ history[s] \in Prices
  <2>1. tick[t] \in TickRecord /\ tick[t].await = "price" /\ Awaits(tick[t], history, loading)
    BY DEF Sim!Priced, SimInv
  <2>2. s \in Symbols /\ history[s] # None
    BY <2>1 DEF Awaits
  <2> QED
    BY <2>1, <2>2 DEF TickRecord, SimInv
<1>2. tick' = [tick EXCEPT ![t] = k] /\ UNCHANGED <<watch, loading>>
  BY DEF Sim!Priced
<1>3. PICK p \in Prices, sig \in {"BUY", "SELL", "HOLD"} :
        /\ history' = [history EXCEPT ![s] = p]
        /\ book' = [u \in Users |-> IF u \in Users /\ book[u] # None THEN Sim!Trade(book[u], s, p, sig) ELSE book[u]]
  <2>1. Prices \cup {history[s]} = Prices
    BY <1>1
  <2>2. \E p \in Prices \cup {history[s]}, sig \in {"BUY", "SELL", "HOLD"} :
          /\ history' = [history EXCEPT ![s] = p]
          /\ book' = [u \in Users |-> IF u \in Users /\ book[u] # None THEN Sim!Trade(book[u], s, p, sig) ELSE book[u]]
    BY Zenon DEF Sim!Priced, Sim!Traders
  <2> HIDE DEF s
  <2> QED
    BY <2>1, <2>2, Zenon
<1>4. k \in TickRecord /\ k.await = "nothing" /\ k.at >= 1
  BY <1>1 DEF TickRecord
<1> HIDE DEF s, k
<1>5. tick' \in [Ticks -> TickRecord] /\ \A u \in Ticks : tick'[u] = IF u = t THEN k ELSE tick[u]
  BY <1>2, <1>4 DEF SimInv
<1>6. /\ history' \in [Symbols -> Prices \cup {None}] /\ history'[s] = p /\ p # None
      /\ \A r \in Symbols : r # s => history'[r] = history[r]
  BY <1>1, <1>3 DEF SimInv, Sim!SimEngineAssumption
<1>7. ASSUME NEW u \in Ticks PROVE Awaits(tick'[u], history', loading')
  <2>1. CASE u = t
    BY <1>4, <1>5, <2>1 DEF Awaits
  <2>2. CASE u # t
    <3>1. Awaits(tick[u], history, loading) /\ tick[u].await \in {"nothing", "history", "price"}
      BY DEF SimInv, TickRecord
    <3>2. tick[u].await = "history" => tick[u].symbol # s
      BY <1>1, <3>1 DEF Awaits, Sim!SimEngineAssumption
    <3> QED
      BY <1>2, <1>5, <1>6, <2>2, <3>1, <3>2 DEF Awaits
  <2> QED
    BY <2>1, <2>2
<1>8. LoadedAlone(tick')
  BY <1>4, <1>5 DEF SimInv, LoadedAlone
<1>9. ASSUME NEW u \in Users, book'[u] # None PROVE BookRight(book'[u], history')
  <2>1. book[u] # None /\ book'[u] = Sim!Trade(book[u], s, p, sig)
    BY <1>3, <1>9
  <2>2. BookRight(book[u], history)
    BY <2>1 DEF SimInv
  <2>3. /\ book'[u] \in SimBook /\ BookBalances(book'[u])
        /\ \A r \in Symbols : r # s => book'[u].pos[r] = book[u].pos[r]
        /\ book'[u].pos[s] # None => Inside(book'[u].pos[s], p)
    BY <1>1, <2>1, <2>2, SimTrades DEF BookRight
  <2> QED
    BY <1>6, <2>2, <2>3 DEF BookRight
<1> QED
  BY <1>2, <1>3, <1>5, <1>6, <1>7, <1>8, <1>9 DEF SimInv

LEMMA NewBookRight == ASSUME Sim!SimEngineAssumption PROVE BookRight(Sim!NewBook, history)
<1> DEFINE b == Sim!NewBook
<1>1. b = [cash |-> Capital, pos |-> [s \in Symbols |-> None], pnl |-> 0, buys |-> 0]
  BY DEF Sim!NewBook
<1>2. b \in SimBook /\ b.cash = Capital /\ b.pnl = 0 /\ HeldIn(b) = {}
  BY <1>1 DEF SimBook, HeldIn, Sim!SimEngineAssumption
<1> HIDE DEF b
<1>3. Sum(PaidFor(b), HeldIn(b)) = 0
  BY <1>2, Paid, SumIs
<1>4. BookBalances(b)
  BY <1>2, <1>3 DEF BookBalances, Sim!SimEngineAssumption
<1>5. BookRight(b, history)
  BY <1>2, <1>4 DEF BookRight, HeldIn
<1> QED
  BY <1>5 DEF b

\* Requests.
LEMMA SimRequests ==
  ASSUME Sim!SimEngineAssumption, SimInv,
         \/ Sim!Start \/ Sim!StopEngine
         \/ \E s \in Symbols : Sim!AddSymbol(s) \/ Sim!RemoveSymbol(s)
         \/ \E u \in Users : Sim!NewBookOf(u)
  PROVE  SimInv'
<1>1. CASE Sim!Start \/ Sim!StopEngine
  BY <1>1 DEF Sim!Start, Sim!StopEngine, SimInv
<1>2. ASSUME watch' \in Seq(Symbols), UNCHANGED <<tick, history, loading, book>> PROVE SimInv'
  BY <1>2 DEF SimInv
<1>3. ASSUME NEW s \in Symbols, Sim!AddSymbol(s) PROVE SimInv'
  <2>1. watch' \in Seq(Symbols)
    BY <1>3 DEF Sim!AddSymbol, SimInv
  <2> QED
    BY <1>2, <1>3, <2>1 DEF Sim!AddSymbol
<1>4. ASSUME NEW s \in Symbols, Sim!RemoveSymbol(s) PROVE SimInv'
  <2>1. PICK i \in DOMAIN watch : watch' = SubSeq(watch, 1, i - 1) \o SubSeq(watch, i + 1, Len(watch))
    BY <1>4 DEF Sim!RemoveSymbol
  <2>2. watch \in Seq(Symbols) /\ i \in 1..Len(watch) /\ Len(watch) \in Nat
    BY DEF SimInv
  <2>3. SubSeq(watch, 1, i - 1) \in Seq(Symbols)
    <3>1. \A j \in 1..i - 1 : watch[j] \in Symbols
      BY <2>2
    <3> QED
      BY <2>2, <3>1, SubSeqProperties
  <2>4. SubSeq(watch, i + 1, Len(watch)) \in Seq(Symbols)
    <3>1. \A j \in i + 1 .. Len(watch) : watch[j] \in Symbols
      BY <2>2
    <3> QED
      BY <2>2, <3>1, SubSeqProperties
  <2>5. watch' \in Seq(Symbols)
    BY <2>1, <2>3, <2>4, ConcatProperties
  <2> QED
    BY <1>2, <1>4, <2>5 DEF Sim!RemoveSymbol
<1>5. ASSUME NEW u \in Users, Sim!NewBookOf(u) PROVE SimInv'
  <2>1. book' = [book EXCEPT ![u] = Sim!NewBook] /\ UNCHANGED <<watch, tick, history, loading>>
    BY <1>5 DEF Sim!NewBookOf
  <2>2. DOMAIN book' = Users /\ \A v \in Users : book'[v] = IF v = u THEN Sim!NewBook ELSE book[v]
    BY <2>1 DEF SimInv
  <2>3. \A v \in Users : book'[v] # None => BookRight(book'[v], history)
    BY <2>2, NewBookRight DEF SimInv
  <2> QED
    BY <2>1, <2>2, <2>3 DEF SimInv
<1> QED
  BY <1>1, <1>3, <1>4, <1>5

LEMMA SimHolds == ASSUME Sim!SimEngineAssumption PROVE Sim!Spec => []SimInv
<1>1. Sim!Init => SimInv
  BY SimInit
<1>2. SimInv /\ [Sim!Next]_(Sim!vars) => SimInv'
  <2> SUFFICES ASSUME SimInv, [Sim!Next]_(Sim!vars) PROVE SimInv'
    OBVIOUS
  <2>1. CASE UNCHANGED Sim!vars
    BY <2>1 DEF Sim!vars, SimInv
  <2> QED
    BY <2>1, SimWalks, SimLoads, SimPrices, SimRequests DEF Sim!Next, Sim!TickStep
<1> QED
  BY <1>1, <1>2, PTL DEF Sim!Spec

\* Cash, positions and reported profits of every book balance (simulationEngine.js).
THEOREM SimBooksBalance == ASSUME Sim!SimEngineAssumption PROVE Sim!Spec => []Sim!BooksBalance
<1>1. SimInv => Sim!BooksBalance
  <2> SUFFICES ASSUME SimInv, NEW u \in Users, book[u] # None
               PROVE  LET held == {s \in Symbols : book[u].pos[s] # None}
                          raw == CHOOSE f : f = [S \in SUBSET held |->
                                   IF S = {} THEN 0
                                   ELSE (book[u].pos[CHOOSE x \in S : TRUE].qty * book[u].pos[CHOOSE x \in S : TRUE].entry
                                           + book[u].pos[CHOOSE x \in S : TRUE].fee)
                                        + f[S \ {CHOOSE x \in S : TRUE}]]
                      IN book[u].cash + raw[held] = Capital + book[u].pnl
    BY DEF Sim!BooksBalance, Sim!FoldSet, Sim!MapThenFoldSet
  <2> DEFINE b == book[u]
             outlay(x) == b.pos[x].qty * b.pos[x].entry + b.pos[x].fee
             once(f) == [S \in SUBSET HeldIn(b) |-> IF S = {} THEN 0
                                                   ELSE outlay(CHOOSE x \in S : TRUE) + f[S \ {CHOOSE x \in S : TRUE}]]
             raw == CHOOSE f : f = once(f)
  <2>1. b \in SimBook /\ BookBalances(b)
    BY DEF SimInv, BookRight
  <2>2. IsFiniteSet(HeldIn(b)) /\ Ints(PaidFor(b), HeldIn(b))
    BY <2>1, Paid
  <2>3. ASSUME NEW f PROVE f = once(f) <=> Folding(PaidFor(b), HeldIn(b), f)
    <3>1. \A S \in SUBSET HeldIn(b) : S # {} => (CHOOSE x \in S : TRUE) \in Symbols
      BY DEF HeldIn
    <3>2. \A x \in Symbols : PaidFor(b)[x] = outlay(x)
      BY DEF PaidFor
    <3> DEFINE folded == [S \in SUBSET HeldIn(b) |-> IF S = {} THEN 0
                            ELSE PaidFor(b)[CHOOSE x \in S : TRUE] + f[S \ {CHOOSE x \in S : TRUE}]]
    <3>3. once(f) = folded
      <4> HIDE DEF b, outlay
      <4> QED
        BY <3>1, <3>2
    <3>4. Folding(PaidFor(b), HeldIn(b), f) <=> f = folded
      BY DEF Folding
    <3> HIDE DEF once, folded
    <3> QED
      BY <3>3, <3>4
  <2>4. Folding(PaidFor(b), HeldIn(b), raw)
    <3>1. PICK g : Folding(PaidFor(b), HeldIn(b), g)
      BY <2>2, AdditiveExists, AdditiveFolds
    <3>2. g = once(g)
      BY <2>3, <3>1
    <3> HIDE DEF once
    <3>3. raw = once(raw)
      BY <3>2, Zenon
    <3> HIDE DEF raw
    <3> QED
      BY <2>3, <3>3
  <2>5. raw[HeldIn(b)] = Sum(PaidFor(b), HeldIn(b))
    <3> HIDE DEF raw, b
    <3> QED
      BY <2>2, <2>4, FoldIsSum
  <2>6. b.cash + raw[HeldIn(b)] = Capital + b.pnl
    <3> HIDE DEF raw, b
    <3> QED
      BY <2>1, <2>5 DEF BookBalances
  <2> QED
    BY <2>6, Zenon DEF HeldIn
<1> QED
  BY <1>1, SimHolds, PTL

\* A tick treats equal books alike (simulationEngine.js).
THEOREM SimEvenhanded == Sim!Spec => Sim!Evenhanded
<1>1. [Sim!Next]_(Sim!vars) => (Sim!Alike \/ UNCHANGED Sim!vars)
  <2> SUFFICES ASSUME NEW u \in Users, NEW v \in Users, book[u] = book[v], NEW t \in Ticks, Sim!Priced(t)
               PROVE  book'[u] = book'[v]
    BY DEF Sim!Alike
  <2>1. PICK p \in Prices \cup {history[tick[t].symbol]}, sig \in {"BUY", "SELL", "HOLD"} :
          book' = [x \in Users |-> IF x \in Users /\ book[x] # None
                                   THEN Sim!Trade(book[x], tick[t].symbol, p, sig) ELSE book[x]]
    BY Zenon DEF Sim!Priced, Sim!Traders
  <2> QED
    BY <2>1, Zenon
<1> QED
  BY <1>1, PTL DEF Sim!Spec, Sim!Evenhanded

\* No position stays open beyond its stop or target at the latest price (simulationEngine.js).
THEOREM SimInsideBracket == ASSUME Sim!SimEngineAssumption PROVE Sim!Spec => []Sim!InsideBracket
<1>1. ASSUME Sim!SimEngineAssumption, SimInv PROVE Sim!InsideBracket
  <2> SUFFICES ASSUME NEW u \in Users, book[u] # None, NEW s \in Symbols, book[u].pos[s] # None
               PROVE  /\ history[s] > Sim!Stop(book[u].pos[s].entry)
                      /\ history[s] < Sim!Target(book[u].pos[s].entry)
    BY DEF Sim!InsideBracket
  <2>1. book[u] \in SimBook /\ Inside(book[u].pos[s], history[s]) /\ history[s] # None
    BY <1>1 DEF SimInv, BookRight
  <2>2. book[u].pos[s] \in SimPosition /\ history[s] \in Prices /\ Prices \subseteq Nat
    BY <1>1, <2>1 DEF SimBook, SimInv, Sim!SimEngineAssumption
  <2>3. book[u].pos[s].entry \in Nat /\ history[s] \in Nat
    <3>1. book[u].pos[s].entry \in Prices
      BY <2>2 DEF SimPosition
    <3> QED
      BY <2>2, <3>1, Zenon
  <2>4. Sim!Stop(book[u].pos[s].entry) \in Int
    BY <2>3 DEF Sim!Stop
  <2> QED
    BY <2>1, <2>3, <2>4 DEF Inside
<1> QED
  BY <1>1, SimHolds, PTL

TestPosition == [qty : Nat \ {0}, entry : Nat, stop : Nat, target : Nat, cost : Nat, budget : Nat]
TestBook == [cash : Nat, pos : [Test!Stocks -> TestPosition \cup {None}], earned : Int, paid : Nat]

TestBars == [Test!Stocks -> [close : Closes, spread : Spreads] \cup {None}]
Engines == {"single", "walk", "portfolio"}

-----------------------------------------------------------------------------
(* Costs and sizes *)

LEMMA Whole ==
  ASSUME NEW a \in Nat, NEW b \in Nat, b > 0
  PROVE  a \div b \in Nat /\ (a \div b) * b <= a
  OBVIOUS

LEMMA CostsAre ==
  ASSUME Test!BacktestAssumption, NEW v \in Nat
  PROVE  Test!Costs(v) \in Nat /\ Test!Costs(v) <= v
<1>1. CostPct \in 0..100 /\ CostFlat \in Nat
  BY DEF Test!BacktestAssumption
<1>2. v * CostPct \in Nat /\ v * CostPct <= 100 * v
  BY <1>1
<1>3. (v * CostPct) \div 100 \in Nat /\ (v * CostPct) \div 100 <= v
  <2> DEFINE w == v * CostPct
  <2>1. w \in Nat /\ w <= 100 * v
    BY <1>2
  <2> HIDE DEF w
  <2>2. w \div 100 \in Nat /\ w \div 100 <= v
    BY <2>1
  <2> QED
    BY <2>2 DEF w
<1> QED
  BY <1>1, <1>3 DEF Test!Costs, Test!Least

LEMMA FilledIs ==
  ASSUME Test!BacktestAssumption, NEW price \in Nat
  PROVE  /\ Test!Filled("SELL", price) \in Nat /\ Test!Filled("SELL", price) <= price
         /\ Test!Filled("BUY", price) \in Nat /\ price <= Test!Filled("BUY", price)
         /\ 100 * Test!Filled("BUY", price) <= price * (100 + SlipPct)
<1>1. SlipPct \in 0..99
  BY DEF Test!BacktestAssumption
<1> DEFINE less == price * (100 - SlipPct)
           more == price * (100 + SlipPct)
<1>2. less \in Nat /\ more \in Nat /\ less <= 100 * price /\ 100 * price <= more
  BY <1>1
<1> HIDE DEF less, more
<1>3. /\ less \div 100 \in Nat /\ less \div 100 <= price
      /\ more \div 100 \in Nat /\ price <= more \div 100 /\ 100 * (more \div 100) <= more
  BY <1>2
<1>4. /\ Test!Filled("SELL", price) = IF engine = "walk" THEN price ELSE less \div 100
      /\ Test!Filled("BUY", price) = IF engine = "walk" THEN price ELSE more \div 100
  BY DEF Test!Filled, less, more
<1> QED
  BY <1>2, <1>3, <1>4 DEF more

LEMMA StopIs ==
  ASSUME Test!BacktestAssumption, NEW fill \in Nat
  PROVE  /\ Test!StopOf(fill) \in Nat /\ Test!StopOf(fill) <= fill
         /\ 100 * (fill - Test!StopOf(fill)) <= fill * StopPct + 100
<1>1. StopPct \in 1..99
  BY DEF Test!BacktestAssumption
<1> DEFINE less == fill * (100 - StopPct)
           part == fill * StopPct
<1>2. less \in Nat /\ part \in Nat /\ less + part = 100 * fill
  BY <1>1
<1> HIDE DEF less, part
<1>3. less \div 100 \in Nat /\ less \div 100 <= fill /\ 100 * (fill - (less \div 100)) <= part + 100
  BY <1>2
<1> QED
  BY <1>3 DEF Test!StopOf, less, part

\* A size never risks more at its stop than its share of the cash.
LEMMA QtyIs ==
  ASSUME Test!BacktestAssumption, engine \in Engines, NEW price \in Nat \ {0}, NEW c \in Nat
  PROVE  /\ Test!Qty(price, c) \in Nat
         /\ Test!Qty(price, c) * (price * StopPct) <= c * RiskPct
<1>1. /\ StopPct \in 1..99 /\ RiskPct \in 1..100 /\ CostPct \in 0..100 /\ MaxValue \in Nat
  BY DEF Test!BacktestAssumption
<1> DEFINE base == price * StopPct
           risk == (c * RiskPct) \div base
           most == (c * 95) \div (price * (100 + CostPct))
           some == (c * 95) \div (price * 100)
           large == MaxValue \div price
<1>2. base \in Nat /\ base > 0 /\ c * RiskPct \in Nat
  BY <1>1
<1>3. risk \in Nat /\ risk * base <= c * RiskPct
  BY <1>2, Whole
<1>4. most \in Nat
  <2>1. price * (100 + CostPct) \in Nat /\ price * (100 + CostPct) > 0 /\ c * 95 \in Nat
    BY <1>1
  <2> QED
    BY <2>1, Whole
<1>5. some \in Nat
  <2>1. price * 100 \in Nat /\ price * 100 > 0 /\ c * 95 \in Nat
    OBVIOUS
  <2> QED
    BY <2>1, Whole
<1>6. large \in Nat
  BY <1>1, Whole
<1>7. Test!Qty(price, c) \in Nat /\ Test!Qty(price, c) <= risk
  <2>1. Test!Qty(price, c) =
          CASE engine = "single" -> Test!Least(risk, most)
            [] engine = "walk" -> risk
            [] OTHER -> Test!Least(IF MaxValue > 0 THEN Test!Least(risk, large) ELSE risk, some)
    BY DEF Test!Qty
  <2> HIDE DEF risk, most, some, large
  <2> QED
    BY <1>3, <1>4, <1>5, <1>6, <2>1 DEF Test!Least, Engines
<1> DEFINE q == Test!Qty(price, c)
<1>8. q \in Nat /\ q <= risk
  BY <1>7
<1> HIDE DEF risk, base, q
<1>9. q * base <= risk * base
  BY <1>2, <1>3, <1>8
<1>10. q * base \in Nat /\ risk * base \in Nat
  BY <1>2, <1>3, <1>8
<1>11. q * base <= c * RiskPct
  BY <1>2, <1>3, <1>9, <1>10
<1> QED
  BY <1>8, <1>11 DEF q, base

-----------------------------------------------------------------------------
(* One stock's exit, entry or last sale; the fold over the stocks *)

ExitOne(b, s, bar, sig) ==
  IF b.pos[s] = None \/ bar[s] = None \/ Test!ExitPrice(b.pos[s], bar[s], sig[s]) = 0 THEN b
  ELSE Test!Closed(b, s, Test!ExitPrice(b.pos[s], bar[s], sig[s]))

EnterOne(b, s, bar, sig) ==
  LET price == bar[s].close
      fill == Test!Filled("BUY", price)
      qty == Test!Qty(IF engine = "single" THEN fill ELSE price, b.cash)
      cost == Test!Costs(qty * fill)
  IN IF s \in Test!Traded /\ b.pos[s] = None /\ bar[s] /= None /\ sig[s] = "BUY" /\ Test!Room(b)
        /\ qty > 0 /\ Test!Affords(b, qty, price)
       THEN [b EXCEPT !.cash = @ - qty * fill - cost,
                      !.pos[s] = [qty |-> qty, entry |-> fill,
                                  stop |-> Test!StopOf(fill),
                                  target |-> (fill * (100 + TargetPct)) \div 100,
                                  cost |-> cost, budget |-> b.cash * RiskPct]]
       ELSE b

SellOne(b, s) == IF b.pos[s] = None THEN b ELSE Test!Closed(b, s, close[s])

StepOf(m, bar, sig, b, s) ==
  CASE m = "exit" -> ExitOne(b, s, bar, sig)
    [] m = "enter" -> EnterOne(b, s, bar, sig)
    [] OTHER -> SellOne(b, s)

Body(m, bar, sig, base, f) ==
  [S \in SUBSET DOMAIN Order |->
     IF S = {} THEN base ELSE StepOf(m, bar, sig, f[S \ {Test!Max(S)}], Order[Test!Max(S)])]

Run(m, bar, sig, base) == (CHOOSE f : f = Body(m, bar, sig, base, f))[DOMAIN Order]

LEMMA RunsAre ==
  ASSUME NEW bar, NEW sig, NEW base
  PROVE  /\ Test!Exits(bar, sig) = Run("exit", bar, sig, Test!Book)
         /\ Test!Entries(base, bar, sig) = Run("enter", bar, sig, base)
<1>1. Test!Exits(bar, sig) = Run("exit", bar, sig, Test!Book)
  BY DEF Test!Exits, Run, Body, StepOf, ExitOne, Test!FoldLeft, Test!MapThenFoldSet
<1>2. Test!Entries(base, bar, sig) = Run("enter", bar, sig, base)
  BY DEF Test!Entries, Run, Body, StepOf, EnterOne, Test!FoldLeft, Test!MapThenFoldSet
<1> QED
  BY <1>1, <1>2

LEMMA Top == ASSUME NEW k \in Nat \ {0} PROVE Test!Max(1..k) = k /\ (1..k) \ {k} = 1..(k - 1)
<1>1. k \in 1..k /\ \A y \in 1..k : k >= y
  OBVIOUS
<1>2. \A x \in 1..k : (\A y \in 1..k : x >= y) => x = k
  OBVIOUS
<1>3. Test!Max(1..k) = k
  BY <1>1, <1>2 DEF Test!Max
<1> QED
  BY <1>3

LEMMA TopOf ==
  ASSUME NEW k \in Nat, NEW S \in SUBSET (1..(k + 1)), k + 1 \in S
  PROVE  Test!Max(S) = k + 1 /\ S \ {k + 1} \in SUBSET (1..k)
<1>1. \A y \in S : k + 1 >= y
  OBVIOUS
<1>2. \A x \in S : (\A y \in S : x >= y) => x = k + 1
  OBVIOUS
<1>3. Test!Max(S) = k + 1
  BY <1>1, <1>2 DEF Test!Max
<1> QED
  BY <1>3

LEMMA TopIn ==
  ASSUME NEW n \in Nat, NEW S \in SUBSET (1..n), S # {}
  PROVE  Test!Max(S) \in S
<1> DEFINE U == {n - x : x \in S}
<1>1. U \subseteq Nat /\ U # {}
  <2>1. \A x \in S : n - x \in Nat
    OBVIOUS
  <2>2. PICK a \in S : TRUE
    OBVIOUS
  <2>3. n - a \in U
    BY <2>2
  <2>4. U \subseteq Nat
    BY <2>1
  <2> QED
    BY <2>3, <2>4
<1> HIDE DEF U
<1>2. PICK m \in U : \A x \in U : m <= x
  BY <1>1, Least
<1>3. PICK t \in S : m = n - t
  BY DEF U
<1>4. \A y \in S : t >= y
  <2>1. SUFFICES ASSUME NEW y \in S PROVE t >= y
    OBVIOUS
  <2>2. n - y \in U
    BY DEF U
  <2> QED
    BY <1>2, <1>3, <2>2
<1> QED
  BY <1>4 DEF Test!Max

\* What every step keeps, the whole fold keeps.
LEMMA FoldKeeps ==
  ASSUME NEW n \in Nat, NEW f, NEW G, f[{}] \in G, \A k \in 1..n : f[1..(k - 1)] \in G => f[1..k] \in G
  PROVE  f[1..n] \in G
<1> DEFINE Bad == {k \in 0..n : f[1..k] \notin G}
<1>1. SUFFICES ASSUME Bad # {} PROVE FALSE
  OBVIOUS
<1>2. PICK k \in Bad : \A m \in Bad : k <= m
  <2>1. Bad \subseteq Nat
    OBVIOUS
  <2> HIDE DEF Bad
  <2> QED
    BY <1>1, <2>1, Least
<1>3. k \in 0..n /\ f[1..k] \notin G
  OBVIOUS
<1>4. k # 0
  <2>1. 1..0 = {}
    OBVIOUS
  <2> QED
    BY <1>3, <2>1
<1>5. k - 1 \in 0..n /\ k - 1 \notin Bad
  <2>1. k - 1 \in 0..n /\ ~(k <= k - 1)
    BY <1>3, <1>4
  <2> HIDE DEF Bad
  <2> QED
    BY <1>2, <2>1
<1> QED
  BY <1>3, <1>4, <1>5

\* f folds F over the numbers up to n, and stays in B.
Grown(n, B, base, F, f) ==
  /\ f \in [SUBSET (1..n) -> B]
  /\ \A S \in SUBSET (1..n) : f[S] = IF S = {} THEN base ELSE F[<<f[S \ {Test!Max(S)}], Test!Max(S)>>]

\* There is such a fold of every function from what has been reached and the next element.
LEMMA FoldExists ==
  ASSUME NEW n \in Nat, NEW B, NEW base \in B, NEW F \in [B \X (1..n) -> B]
  PROVE  \E f : Grown(n, B, base, F, f)
<1> DEFINE Fold(k, f) == Grown(k, B, base, F, f)
           Bad == {k \in 0..n : ~ \E f : Fold(k, f)}
<1>1. SUFFICES ASSUME Bad # {} PROVE FALSE
  <2>1. n \in 0..n
    OBVIOUS
  <2>2. n \notin Bad => \E f : Fold(n, f)
    BY <2>1, Zenon
  <2> HIDE DEF Bad
  <2> QED
    BY <2>2
<1>2. PICK j \in Bad : \A m \in Bad : j <= m
  <2>1. Bad \subseteq Nat
    OBVIOUS
  <2> HIDE DEF Bad
  <2> QED
    BY <1>1, <2>1, Least
<1>3. j \in 0..n /\ ~ \E f : Fold(j, f)
  OBVIOUS
<1>4. j # 0
  <2> DEFINE f == [S \in {{}} |-> base]
  <2>1. SUBSET (1..0) = {{}}
    OBVIOUS
  <2>2. Fold(0, f)
    BY <2>1 DEF Grown
  <2> HIDE DEF Fold, f
  <2> QED
    BY <1>3, <2>2
<1> DEFINE k == j - 1
<1>5. k \in 0..n /\ k \notin Bad /\ k + 1 = j /\ k + 1 \in 1..n /\ k \in Nat
  <2>1. j - 1 \in 0..n /\ ~(j <= j - 1) /\ (j - 1) + 1 = j /\ j \in 1..n /\ j - 1 \in Nat
    BY <1>3, <1>4
  <2> HIDE DEF Bad
  <2> QED
    BY <1>2, <2>1
<1>6. PICK f : Fold(k, f)
  BY <1>5
<1> HIDE DEF Bad, k
<1> DEFINE g == [S \in SUBSET (1..(k + 1)) |-> IF k + 1 \in S THEN F[<<f[S \ {k + 1}], k + 1>>] ELSE f[S]]
<1>7. \A S \in SUBSET (1..(k + 1)) : k + 1 \notin S => S \in SUBSET (1..k)
  BY <1>5
<1>8. \A S \in SUBSET (1..k) : f[S] \in B
  BY <1>6 DEF Grown
<1>9. ASSUME NEW S \in SUBSET (1..(k + 1))
      PROVE  /\ g[S] \in B
             /\ g[S] = IF S = {} THEN base ELSE F[<<g[S \ {Test!Max(S)}], Test!Max(S)>>]
  <2>1. CASE k + 1 \in S
    <3>1. Test!Max(S) = k + 1 /\ S \ {k + 1} \in SUBSET (1..k)
      BY <1>5, <2>1, TopOf
    <3>2. S \ {k + 1} \in SUBSET (1..(k + 1)) /\ k + 1 \notin S \ {k + 1}
      OBVIOUS
    <3>3. g[S \ {k + 1}] = f[S \ {k + 1}]
      BY <3>2
    <3>4. g[S] = F[<<f[S \ {k + 1}], k + 1>>]
      BY <2>1
    <3>5. f[S \ {k + 1}] \in B
      BY <1>8, <3>1
    <3> HIDE DEF g
    <3>6. F[<<f[S \ {k + 1}], k + 1>>] \in B
      BY <1>5, <3>5
    <3> QED
      BY <2>1, <3>1, <3>3, <3>4, <3>6
  <2>2. CASE k + 1 \notin S
    <3>1. S \in SUBSET (1..k)
      BY <1>7, <2>2
    <3>2. S \ {Test!Max(S)} \in SUBSET (1..(k + 1)) /\ k + 1 \notin S \ {Test!Max(S)}
      BY <2>2
    <3>3. g[S] = f[S] /\ g[S \ {Test!Max(S)}] = f[S \ {Test!Max(S)}]
      BY <2>2, <3>2
    <3> HIDE DEF g
    <3> QED
      BY <1>6, <1>8, <3>1, <3>3 DEF Grown
  <2> QED
    BY <2>1, <2>2
<1>10. g \in [SUBSET (1..(k + 1)) -> B]
  <2>1. g = [S \in SUBSET (1..(k + 1)) |-> g[S]]
    OBVIOUS
  <2> HIDE DEF g
  <2> QED
    BY <1>9, <2>1
<1> HIDE DEF g
<1>11. Fold(k + 1, g)
  BY <1>9, <1>10 DEF Grown
<1> HIDE DEF Fold
<1> QED
  BY <1>3, <1>5, <1>11

-----------------------------------------------------------------------------
(* What one step does *)

RiskKept(p) == p.qty * (p.entry - p.stop) * 10000 <= p.budget * (100 + SlipPct) + p.qty * 10000

LEMMA ClosedIs ==
  ASSUME Test!BacktestAssumption, engine \in Engines, NEW b \in TestBook, NEW s \in Test!Stocks,
         b.pos[s] # None, NEW price \in Nat
  PROVE  LET c == Test!Closed(b, s, price) IN
         /\ c \in TestBook /\ b.pos[s] \in TestPosition
         /\ c.pos = [b.pos EXCEPT ![s] = None] /\ c.paid = b.paid + b.pos[s].cost
         /\ \E proceeds \in Nat : /\ proceeds <= b.pos[s].qty * price
                                  /\ c.cash = b.cash + proceeds
                                  /\ c.earned = b.earned + proceeds - b.pos[s].qty * b.pos[s].entry
<1> DEFINE p == b.pos[s]
           fill == Test!Filled("SELL", price)
           worth == p.qty * fill
           proceeds == worth - Test!Costs(worth)
           spent == p.qty * p.entry
           c == Test!Closed(b, s, price)
<1>1. p \in TestPosition /\ b.cash \in Nat /\ b.earned \in Int /\ b.paid \in Nat
      /\ b.pos \in [Test!Stocks -> TestPosition \cup {None}]
  BY DEF TestBook
<1>2. p.qty \in Nat /\ p.entry \in Nat /\ p.cost \in Nat
  BY <1>1 DEF TestPosition
<1>3. fill \in Nat /\ fill <= price
  BY FilledIs
<1> HIDE DEF fill, p
<1>4. worth \in Nat /\ worth <= p.qty * price /\ p.qty * price \in Nat /\ spent \in Nat
  BY <1>2, <1>3
<1> HIDE DEF spent, worth
<1>5. proceeds \in Nat /\ proceeds <= worth
  <2>1. Test!Costs(worth) \in Nat /\ Test!Costs(worth) <= worth
    BY <1>4, CostsAre
  <2> QED
    BY <1>4, <2>1
<1>6. c = [cash |-> b.cash + proceeds, pos |-> [b.pos EXCEPT ![s] = None],
           earned |-> b.earned + proceeds - spent, paid |-> b.paid + p.cost]
  BY DEF Test!Closed, p, fill, worth, spent
<1> HIDE DEF c, proceeds
<1>7. /\ b.cash + proceeds \in Nat /\ b.earned + proceeds - spent \in Int /\ b.paid + p.cost \in Nat
      /\ [b.pos EXCEPT ![s] = None] \in [Test!Stocks -> TestPosition \cup {None}]
  BY <1>1, <1>2, <1>4, <1>5
<1>8. c \in TestBook
  BY <1>6, <1>7 DEF TestBook
<1>9. /\ c.cash = b.cash + proceeds /\ c.earned = b.earned + proceeds - spent
      /\ c.pos = [b.pos EXCEPT ![s] = None] /\ c.paid = b.paid + p.cost
  BY <1>6
<1>10. proceeds <= p.qty * price
  BY <1>4, <1>5
<1> QED
  BY <1>1, <1>5, <1>8, <1>9, <1>10 DEF c, p, spent

LEMMA EnterIs ==
  ASSUME Test!BacktestAssumption, engine \in Engines, NEW b \in TestBook, NEW s \in Test!Stocks,
         NEW bar \in TestBars, NEW sig, EnterOne(b, s, bar, sig) # b
  PROVE  LET c == EnterOne(b, s, bar, sig) IN
         /\ s \in Test!Traded /\ b.pos[s] = None /\ bar[s] # None /\ Test!Room(b)
         /\ c \in TestBook /\ c.earned = b.earned /\ c.paid = b.paid
         /\ \E p \in TestPosition : /\ c.pos = [b.pos EXCEPT ![s] = p] /\ RiskKept(p) /\ p.stop <= p.entry
                                    /\ c.cash = b.cash - p.qty * p.entry - p.cost
<1> DEFINE price == bar[s].close
           fill == Test!Filled("BUY", price)
           qty == Test!Qty(IF engine = "single" THEN fill ELSE price, b.cash)
           value == qty * fill
           cost == Test!Costs(value)
           p == [qty |-> qty, entry |-> fill, stop |-> Test!StopOf(fill),
                 target |-> (fill * (100 + TargetPct)) \div 100, cost |-> cost, budget |-> b.cash * RiskPct]
           c == EnterOne(b, s, bar, sig)
<1>1. /\ s \in Test!Traded /\ b.pos[s] = None /\ bar[s] # None /\ Test!Room(b)
      /\ qty > 0 /\ Test!Affords(b, qty, price)
      /\ c = [b EXCEPT !.cash = b.cash - value - cost, !.pos[s] = p]
  BY DEF EnterOne
<1>2. b.cash \in Nat /\ b.earned \in Int /\ b.paid \in Nat /\ b.pos \in [Test!Stocks -> TestPosition \cup {None}]
      /\ b = [cash |-> b.cash, pos |-> b.pos, earned |-> b.earned, paid |-> b.paid]
  BY DEF TestBook
<1>3. price \in Nat \ {0}
  <2>1. bar[s] \in [close : Closes, spread : Spreads]
    BY <1>1 DEF TestBars
  <2>2. Closes \subseteq Nat \ {0}
    BY DEF Test!BacktestAssumption
  <2> QED
    BY <2>1, <2>2
<1>4. /\ StopPct \in 1..99 /\ RiskPct \in 1..100 /\ SlipPct \in 0..99 /\ TargetPct \in Nat
  BY DEF Test!BacktestAssumption
<1> HIDE DEF price, c
<1>5. fill \in Nat /\ price <= fill /\ 100 * fill <= price * (100 + SlipPct)
  BY <1>3, FilledIs
<1> HIDE DEF fill
<1> DEFINE by == IF engine = "single" THEN fill ELSE price
           budget == b.cash * RiskPct
<1>6. by \in Nat \ {0} /\ price <= by /\ by <= fill /\ 100 * fill <= by * (100 + SlipPct)
  <2>1. 100 * fill <= fill * (100 + SlipPct)
    BY <1>4, <1>5
  <2> QED
    BY <1>3, <1>5, <2>1
<1> HIDE DEF by
<1>7. qty \in Nat \ {0} /\ qty * (by * StopPct) <= budget /\ budget \in Nat
  <2>1. Test!Qty(by, b.cash) \in Nat /\ Test!Qty(by, b.cash) * (by * StopPct) <= b.cash * RiskPct
    BY <1>2, <1>6, QtyIs
  <2>2. qty = Test!Qty(by, b.cash)
    BY DEF by
  <2>3. b.cash * RiskPct \in Nat
    BY <1>2, <1>4
  <2> HIDE DEF qty
  <2> QED
    BY <1>1, <2>1, <2>2, <2>3
<1>8. value + cost <= b.cash
  BY <1>1 DEF Test!Affords, fill
<1> HIDE DEF qty, budget
<1>9. value \in Nat
  BY <1>5, <1>7
<1>10. cost \in Nat
  <2> HIDE DEF value
  <2> QED
    BY <1>9, CostsAre
<1> DEFINE stop == Test!StopOf(fill)
           goal == (fill * (100 + TargetPct)) \div 100
<1>11. stop \in Nat /\ stop <= fill /\ 100 * (fill - stop) <= fill * StopPct + 100
  BY <1>5, StopIs
<1>12. goal \in Nat
  <2>1. fill * (100 + TargetPct) \in Nat
    BY <1>4, <1>5
  <2> DEFINE w == fill * (100 + TargetPct)
  <2> HIDE DEF w
  <2>2. w \in Nat => w \div 100 \in Nat
    OBVIOUS
  <2> QED
    BY <2>1, <2>2 DEF w
<1>13. /\ p = [qty |-> qty, entry |-> fill, stop |-> stop, target |-> goal, cost |-> cost, budget |-> budget]
       /\ p.qty = qty /\ p.entry = fill /\ p.stop = stop /\ p.cost = cost /\ p.budget = budget
  BY DEF budget
<1> HIDE DEF p, stop, goal, value, cost
<1>14. p \in TestPosition
  BY <1>5, <1>7, <1>10, <1>11, <1>12, <1>13 DEF TestPosition
<1>15. qty * (fill - stop) * 10000 <= budget * (100 + SlipPct) + qty * 10000
  <2> DEFINE lose == fill - stop
             unit == by * StopPct
             rate == 100 + SlipPct
  <2>1. lose \in Nat /\ 100 * lose <= fill * StopPct + 100 /\ unit \in Nat /\ rate \in Nat /\ fill * StopPct \in Nat
    BY <1>4, <1>5, <1>6, <1>11
  <2>2. 100 * (fill * StopPct) <= unit * rate
    <3>1. (100 * fill) * StopPct <= (by * rate) * StopPct
      BY <1>4, <1>5, <1>6
    <3> QED
      BY <1>4, <1>5, <1>6, <3>1
  <2> HIDE DEF lose, unit, rate
  <2>3. 10000 * lose <= unit * rate + 10000
    BY <2>1, <2>2
  <2>4. unit * rate \in Nat
    BY <2>1
  <2>5. qty * (10000 * lose) <= qty * (unit * rate + 10000)
    BY <1>7, <2>1, <2>3, <2>4
  <2>6. (qty * unit) * rate <= budget * rate
    BY <1>7, <2>1 DEF unit
  <2>7. qty * (10000 * lose) = qty * lose * 10000 /\ qty * (unit * rate + 10000) = (qty * unit) * rate + qty * 10000
    BY <1>7, <2>1
  <2>8. qty * lose * 10000 <= budget * rate + qty * 10000
    <3>1. (qty * unit) * rate \in Int /\ budget * rate \in Int /\ qty * 10000 \in Int /\ qty * lose * 10000 \in Int
      BY <1>7, <2>1
    <3> QED
      BY <2>5, <2>6, <2>7, <3>1
  <2> QED
    BY <2>8 DEF lose, rate
<1>16. RiskKept(p)
  BY <1>13, <1>15 DEF RiskKept
<1>17. c = [cash |-> b.cash - value - cost, pos |-> [b.pos EXCEPT ![s] = p], earned |-> b.earned, paid |-> b.paid]
  BY <1>1, <1>2
<1>18. b.cash - value - cost \in Nat
  BY <1>2, <1>8, <1>9, <1>10
<1>19. [b.pos EXCEPT ![s] = p] \in [Test!Stocks -> TestPosition \cup {None}]
  BY <1>2, <1>14
<1>20. c \in TestBook /\ c.earned = b.earned /\ c.paid = b.paid /\ c.pos = [b.pos EXCEPT ![s] = p]
       /\ c.cash = b.cash - value - cost
  BY <1>2, <1>17, <1>18, <1>19 DEF TestBook
<1>21. value = p.qty * p.entry
  BY <1>13 DEF value
<1> QED
  BY <1>1, <1>11, <1>13, <1>14, <1>16, <1>20, <1>21 DEF c

Modes == {"exit", "enter", "sell"}

\* The books a step may be given: before the last sale what is held has a close.
Books(m) == {b \in TestBook : m = "sell" => \A s \in Test!Stocks : b.pos[s] # None => close[s] \in Closes}

LEMMA ExitPriceIs ==
  ASSUME Test!BacktestAssumption, NEW p \in TestPosition, NEW b \in [close : Closes, spread : Spreads], NEW sig
  PROVE  /\ Test!ExitPrice(p, b, sig) \in Nat
         /\ b.close <= p.stop => Test!ExitPrice(p, b, sig) = p.stop
<1>1. b.close \in Nat /\ b.spread \in Nat /\ p.stop \in Nat /\ p.target \in Nat
  <2>1. Closes \subseteq Nat /\ Spreads \subseteq Nat
    BY DEF Test!BacktestAssumption
  <2> QED
    BY <2>1 DEF TestPosition
<1> QED
  BY <1>1 DEF Test!ExitPrice

\* A step closes a position, enters one or does nothing.
LEMMA StepIs ==
  ASSUME Test!BacktestAssumption, NEW m \in Modes, NEW bar \in TestBars, NEW sig,
         NEW b \in Books(m), NEW s \in Test!Stocks, NEW c, c = StepOf(m, bar, sig, b, s)
  PROVE  \/ c = b
         \/ /\ m = "exit" /\ b.pos[s] # None /\ bar[s] # None
            /\ \E price \in Nat : c = Test!Closed(b, s, price) /\ (bar[s].close <= b.pos[s].stop => price = b.pos[s].stop)
         \/ m = "sell" /\ b.pos[s] # None /\ close[s] \in Closes /\ c = Test!Closed(b, s, close[s])
         \/ m = "enter" /\ c = EnterOne(b, s, bar, sig) /\ c # b
<1>1. CASE m = "exit"
  <2>1. c = ExitOne(b, s, bar, sig)
    BY <1>1 DEF StepOf
  <2>2. CASE b.pos[s] # None /\ bar[s] # None
    <3> DEFINE price == Test!ExitPrice(b.pos[s], bar[s], sig[s])
    <3>1. b.pos[s] \in TestPosition /\ bar[s] \in [close : Closes, spread : Spreads]
      BY <2>2 DEF Books, TestBook, TestBars
    <3>2. price \in Nat /\ (bar[s].close <= b.pos[s].stop => price = b.pos[s].stop)
      BY <3>1, ExitPriceIs
    <3>3. c = b \/ c = Test!Closed(b, s, price)
      BY <2>1 DEF ExitOne
    <3> HIDE DEF price
    <3> QED
      BY <1>1, <2>2, <3>2, <3>3
  <2>3. CASE ~(b.pos[s] # None /\ bar[s] # None)
    BY <2>1, <2>3 DEF ExitOne
  <2> QED
    BY <2>2, <2>3
<1>2. CASE m = "sell"
  BY <1>2 DEF StepOf, SellOne, Books
<1>3. CASE m = "enter"
  BY <1>3 DEF StepOf
<1> QED
  BY <1>1, <1>2, <1>3 DEF Modes

LEMMA StepTyped ==
  ASSUME Test!BacktestAssumption, engine \in Engines, NEW m \in Modes, NEW bar \in TestBars, NEW sig,
         NEW b \in Books(m), NEW s \in Test!Stocks
  PROVE  StepOf(m, bar, sig, b, s) \in Books(m)
<1> DEFINE c == StepOf(m, bar, sig, b, s)
<1>1. b \in TestBook
  BY DEF Books
<1>2. ASSUME NEW price \in Nat, b.pos[s] # None, c = Test!Closed(b, s, price) PROVE c \in Books(m)
  <2>1. c \in TestBook /\ c.pos = [b.pos EXCEPT ![s] = None]
    BY <1>1, <1>2, ClosedIs
  <2> HIDE DEF c
  <2>2. \A r \in Test!Stocks : c.pos[r] # None => b.pos[r] # None
    BY <1>1, <2>1 DEF TestBook
  <2> QED
    BY <2>1, <2>2 DEF Books
<1>3. Closes \subseteq Nat
  BY DEF Test!BacktestAssumption
<1>4. ASSUME m = "enter", c = EnterOne(b, s, bar, sig), c # b PROVE c \in Books(m)
  <2>1. c \in TestBook
    BY <1>1, <1>4, EnterIs
  <2> QED
    BY <1>4, <2>1 DEF Books
<1>5. \/ c = b
      \/ b.pos[s] # None /\ \E price \in Nat : c = Test!Closed(b, s, price)
      \/ b.pos[s] # None /\ close[s] \in Closes /\ c = Test!Closed(b, s, close[s])
      \/ m = "enter" /\ c = EnterOne(b, s, bar, sig) /\ c # b
  <2>1. c = StepOf(m, bar, sig, b, s)
    OBVIOUS
  <2> HIDE DEF c
  <2> QED
    BY <2>1, StepIs
<1> HIDE DEF c
<1>6. c \in Books(m)
  BY <1>2, <1>3, <1>4, <1>5
<1> QED
  BY <1>6 DEF c

LEMMA OrderIs ==
  ASSUME Test!BacktestAssumption
  PROVE  /\ Len(Order) \in Nat \ {0} /\ DOMAIN Order = 1..Len(Order)
         /\ \A i \in 1..Len(Order) : Order[i] \in Test!Stocks
         /\ Test!Stocks = {Order[i] : i \in 1..Len(Order)}
BY DEF Test!BacktestAssumption, Test!Stocks, Test!ToSet

\* What every step of a fold over the stocks keeps holds of its result.
LEMMA RunKeeps ==
  ASSUME Test!BacktestAssumption, engine \in Engines, NEW m \in Modes, NEW bar \in TestBars, NEW sig,
         NEW base \in Books(m), NEW G, base \in G,
         \A b \in Books(m) \cap G, s \in Test!Stocks : StepOf(m, bar, sig, b, s) \in G
  PROVE  Run(m, bar, sig, base) \in Books(m) \cap G
<1> DEFINE n == Len(Order)
           F == [x \in Books(m) \X (1..n) |-> StepOf(m, bar, sig, x[1], Order[x[2]])]
           raw == CHOOSE f : f = Body(m, bar, sig, base, f)
<1>1. n \in Nat \ {0} /\ DOMAIN Order = 1..n /\ \A i \in 1..n : Order[i] \in Test!Stocks
  BY OrderIs
<1>2. F \in [Books(m) \X (1..n) -> Books(m)]
  <2>1. ASSUME NEW x \in Books(m) \X (1..n) PROVE StepOf(m, bar, sig, x[1], Order[x[2]]) \in Books(m)
    <3>1. x[1] \in Books(m) /\ Order[x[2]] \in Test!Stocks
      BY <1>1
    <3> QED
      BY <3>1, StepTyped
  <2> QED
    BY <2>1
<1>3. \A b \in Books(m), i \in 1..n : F[<<b, i>>] = StepOf(m, bar, sig, b, Order[i])
  OBVIOUS
<1> HIDE DEF F, n
<1>4. PICK f : Grown(n, Books(m), base, F, f)
  <2>1. n \in Nat
    BY <1>1
  <2> QED
    BY <1>2, <2>1, FoldExists
<1>5. f = Body(m, bar, sig, base, f)
  <2>1. ASSUME NEW S \in SUBSET (1..n)
        PROVE  f[S] = IF S = {} THEN base ELSE StepOf(m, bar, sig, f[S \ {Test!Max(S)}], Order[Test!Max(S)])
    <3>1. S # {} => Test!Max(S) \in 1..n
      BY <1>1, TopIn
    <3>2. f[S \ {Test!Max(S)}] \in Books(m)
      BY <1>4 DEF Grown
    <3>3. S # {} => F[<<f[S \ {Test!Max(S)}], Test!Max(S)>>]
                      = StepOf(m, bar, sig, f[S \ {Test!Max(S)}], Order[Test!Max(S)])
      BY <1>3, <3>1, <3>2
    <3> QED
      BY <1>4, <3>3 DEF Grown
  <2>2. f = [S \in SUBSET (1..n) |-> f[S]]
    BY <1>4 DEF Grown
  <2> QED
    BY <1>1, <2>1, <2>2 DEF Body
<1>6. raw = Body(m, bar, sig, base, raw)
  BY <1>5, Zenon
<1> HIDE DEF raw
<1>7. \A S \in SUBSET (1..n) :
        raw[S] = IF S = {} THEN base ELSE StepOf(m, bar, sig, raw[S \ {Test!Max(S)}], Order[Test!Max(S)])
  <2> DEFINE again == [S \in SUBSET (1..n) |->
                         IF S = {} THEN base ELSE StepOf(m, bar, sig, raw[S \ {Test!Max(S)}], Order[Test!Max(S)])]
  <2>1. raw = again
    BY <1>1, <1>6 DEF Body
  <2>2. \A S \in SUBSET (1..n) :
          again[S] = IF S = {} THEN base ELSE StepOf(m, bar, sig, raw[S \ {Test!Max(S)}], Order[Test!Max(S)])
    OBVIOUS
  <2> HIDE DEF again
  <2> QED
    BY <2>1, <2>2
<1> DEFINE H == Books(m) \cap G
<1>8. raw[{}] \in H
  BY <1>7
<1>9. ASSUME NEW k \in 1..n, raw[1..(k - 1)] \in H PROVE raw[1..k] \in H
  <2>0. k \in Nat \ {0} /\ 1..k \in SUBSET (1..n) /\ 1..k # {}
    BY <1>1
  <2>1. Test!Max(1..k) = k /\ (1..k) \ {k} = 1..(k - 1) /\ 1..k \in SUBSET (1..n) /\ 1..k # {}
    BY <2>0, Top, Zenon
  <2>2. raw[1..k] = StepOf(m, bar, sig, raw[1..(k - 1)], Order[k])
    BY <1>7, <2>1
  <2>3. Order[k] \in Test!Stocks
    BY <1>1
  <2>4. StepOf(m, bar, sig, raw[1..(k - 1)], Order[k]) \in Books(m)
    BY <1>9, <2>3, StepTyped
  <2> QED
    BY <1>9, <2>2, <2>3, <2>4
<1>10. raw[1..n] \in H
  <2> HIDE DEF H
  <2> QED
    BY <1>1, <1>8, <1>9, FoldKeeps
<1> QED
  BY <1>1, <1>10 DEF Run, raw

-----------------------------------------------------------------------------
(* Books that are right *)

InHand(b) == {s \in Test!Stocks : b.pos[s] # None}
SpentOn(b) == [s \in Test!Stocks |-> b.pos[s].qty * b.pos[s].entry + b.pos[s].cost]

RightFor(traded, b) ==
  /\ b \in TestBook
  /\ \A s \in Test!Stocks : b.pos[s] # None =>
       s \in traded /\ b.pos[s].stop <= b.pos[s].entry /\ RiskKept(b.pos[s])
  /\ Cardinality(InHand(b)) <= MaxConcurrent
  /\ b.cash + Sum(SpentOn(b), InHand(b)) = Capital + b.earned - b.paid

TestRight(b) == RightFor(Test!Traded, b)

LEMMA StocksFinite == ASSUME Test!BacktestAssumption PROVE IsFiniteSet(Test!Stocks)
<1> DEFINE n == Len(Order)
<1>1. n \in Nat /\ Order \in [1..n -> Test!Stocks] /\ \A s \in Test!Stocks : \E i \in 1..n : Order[i] = s
  <2>1. Order \in Seq(Test!Stocks)
    BY DEF Test!BacktestAssumption, Test!Stocks
  <2> QED
    BY <2>1, OrderIs
<1>2. IsFiniteSet(1..n)
  BY <1>1, FS_Interval
<1> HIDE DEF n
<1>3. Order \in Surjection(1..n, Test!Stocks)
  BY <1>1 DEF Surjection
<1> QED
  BY <1>2, <1>3, FS_Surjection

LEMMA HandIs ==
  ASSUME Test!BacktestAssumption, NEW b \in TestBook
  PROVE  /\ IsFiniteSet(InHand(b)) /\ Ints(SpentOn(b), InHand(b)) /\ Cardinality(InHand(b)) \in Nat
         /\ Sum(SpentOn(b), InHand(b)) \in Int
<1>1. IsFiniteSet(InHand(b))
  BY StocksFinite, FS_Subset DEF InHand
<1>2. ASSUME NEW s \in InHand(b) PROVE SpentOn(b)[s] \in Int
  <2>1. s \in Test!Stocks /\ b.pos[s] \in TestPosition
    BY DEF InHand, TestBook
  <2>2. b.pos[s].qty \in Int /\ b.pos[s].entry \in Int /\ b.pos[s].cost \in Int
    BY <2>1 DEF TestPosition
  <2>3. b.pos[s].qty * b.pos[s].entry + b.pos[s].cost \in Int
    BY <2>2
  <2> QED
    BY <2>1, <2>3 DEF SpentOn
<1>3. Ints(SpentOn(b), InHand(b))
  BY <1>2 DEF Ints
<1> QED
  BY <1>1, <1>3, SumIs, FS_CardinalityType

\* One position more.
LEMMA OneMore ==
  ASSUME Test!BacktestAssumption, NEW b \in TestBook, NEW c \in TestBook, NEW s \in Test!Stocks,
         b.pos[s] = None, c.pos[s] # None, \A r \in Test!Stocks : r # s => c.pos[r] = b.pos[r]
  PROVE  /\ Sum(SpentOn(c), InHand(c)) = SpentOn(c)[s] + Sum(SpentOn(b), InHand(b))
         /\ Cardinality(InHand(c)) = Cardinality(InHand(b)) + 1
<1>1. s \in InHand(c) /\ InHand(c) \ {s} = InHand(b) /\ InHand(c) = InHand(b) \cup {s} /\ s \notin InHand(b)
  BY DEF InHand
<1>2. Sum(SpentOn(c), InHand(c)) = SpentOn(c)[s] + Sum(SpentOn(c), InHand(b))
  <2>1. IsFiniteSet(InHand(c)) /\ Ints(SpentOn(c), InHand(c))
    BY HandIs
  <2>2. \A x \in InHand(c) : Sum(SpentOn(c), InHand(c)) = SpentOn(c)[x] + Sum(SpentOn(c), InHand(c) \ {x})
    BY <2>1, SumIs
  <2> QED
    BY <1>1, <2>2
<1>3. \A r \in InHand(b) : SpentOn(b)[r] = SpentOn(c)[r]
  BY DEF InHand, SpentOn
<1>4. Sum(SpentOn(c), InHand(b)) = Sum(SpentOn(b), InHand(b))
  BY <1>3, HandIs, SumsAgree
<1>5. Cardinality(InHand(c)) = Cardinality(InHand(b)) + 1
  BY <1>1, HandIs, FS_AddElement
<1> QED
  BY <1>2, <1>4, <1>5

LEMMA RightClosed ==
  ASSUME Test!BacktestAssumption, engine \in Engines, NEW b, TestRight(b), NEW s \in Test!Stocks,
         b.pos[s] # None, NEW price \in Nat
  PROVE  TestRight(Test!Closed(b, s, price))
<1> DEFINE c == Test!Closed(b, s, price)
           p == b.pos[s]
           spent == p.qty * p.entry
<1>1. b \in TestBook /\ p \in TestPosition /\ Capital \in Nat /\ MaxConcurrent \in Nat
  BY DEF TestRight, RightFor, TestBook, Test!BacktestAssumption
<1>2. /\ c \in TestBook /\ c.pos = [b.pos EXCEPT ![s] = None] /\ c.paid = b.paid + p.cost
      /\ \E proceeds \in Nat : c.cash = b.cash + proceeds /\ c.earned = b.earned + proceeds - spent
  BY <1>1, ClosedIs
<1> HIDE DEF c
<1>3. c.pos[s] = None /\ \A r \in Test!Stocks : r # s => b.pos[r] = c.pos[r]
  BY <1>1, <1>2 DEF TestBook
<1>4. /\ Sum(SpentOn(b), InHand(b)) = SpentOn(b)[s] + Sum(SpentOn(c), InHand(c))
      /\ Cardinality(InHand(b)) = Cardinality(InHand(c)) + 1
  BY <1>1, <1>2, <1>3, OneMore
<1>5. SpentOn(b)[s] = spent + p.cost
  BY DEF SpentOn
<1>6. p.qty \in Nat /\ p.entry \in Nat /\ p.cost \in Nat
  BY <1>1 DEF TestPosition
<1> HIDE DEF p
<1>7. spent \in Nat
  BY <1>6
<1> HIDE DEF spent
<1> DEFINE sb == Sum(SpentOn(b), InHand(b))
           sc == Sum(SpentOn(c), InHand(c))
<1>8. sb \in Int /\ sc \in Int /\ sb = spent + p.cost + sc /\ b.cash + sb = Capital + b.earned - b.paid
  BY <1>1, <1>2, <1>4, <1>5, <1>6, <1>7, HandIs DEF TestRight, RightFor
<1> HIDE DEF sb, sc
<1>9. c.cash + sc = Capital + c.earned - c.paid
  <2>1. b.cash \in Int /\ b.earned \in Int /\ b.paid \in Int
    BY <1>1 DEF TestBook
  <2> QED
    BY <1>1, <1>2, <1>6, <1>7, <1>8, <2>1
<1>10. Cardinality(InHand(c)) <= MaxConcurrent
  <2>1. Cardinality(InHand(b)) <= MaxConcurrent /\ Cardinality(InHand(c)) \in Nat
    BY <1>2, HandIs DEF TestRight, RightFor
  <2> QED
    BY <1>1, <1>4, <2>1
<1>11. \A r \in Test!Stocks : c.pos[r] # None => b.pos[r] = c.pos[r]
  BY <1>3
<1>12. TestRight(c)
  BY <1>2, <1>9, <1>10, <1>11 DEF TestRight, RightFor, sc
<1> QED
  BY <1>12 DEF c

LEMMA RightEntered ==
  ASSUME Test!BacktestAssumption, engine \in Engines, NEW b, TestRight(b), NEW s \in Test!Stocks,
         NEW bar \in TestBars, NEW sig, EnterOne(b, s, bar, sig) # b
  PROVE  TestRight(EnterOne(b, s, bar, sig))
<1> DEFINE c == EnterOne(b, s, bar, sig)
<1>1. b \in TestBook /\ Capital \in Nat /\ MaxConcurrent \in Nat
  BY DEF TestRight, RightFor, Test!BacktestAssumption
<1>2. /\ s \in Test!Traded /\ b.pos[s] = None /\ Test!Room(b)
      /\ c \in TestBook /\ c.earned = b.earned /\ c.paid = b.paid
      /\ \E p \in TestPosition : /\ c.pos = [b.pos EXCEPT ![s] = p] /\ RiskKept(p) /\ p.stop <= p.entry
                                 /\ c.cash = b.cash - p.qty * p.entry - p.cost
  BY <1>1, EnterIs
<1> HIDE DEF c
<1>3. PICK p \in TestPosition : /\ c.pos = [b.pos EXCEPT ![s] = p] /\ RiskKept(p) /\ p.stop <= p.entry
                                /\ c.cash = b.cash - p.qty * p.entry - p.cost
  BY <1>2
<1>4. p # None
  BY DEF Test!BacktestAssumption, TestPosition
<1>5. c.pos[s] = p /\ \A r \in Test!Stocks : r # s => c.pos[r] = b.pos[r]
  BY <1>1, <1>3 DEF TestBook
<1>6. /\ Sum(SpentOn(c), InHand(c)) = SpentOn(c)[s] + Sum(SpentOn(b), InHand(b))
      /\ Cardinality(InHand(c)) = Cardinality(InHand(b)) + 1
  BY <1>1, <1>2, <1>4, <1>5, OneMore
<1> DEFINE spent == p.qty * p.entry
<1>7. SpentOn(c)[s] = spent + p.cost
  BY <1>5 DEF SpentOn
<1>8. p.qty \in Nat /\ p.entry \in Nat /\ p.cost \in Nat
  BY DEF TestPosition
<1>9. spent \in Nat /\ c.cash = b.cash - spent - p.cost
  BY <1>3, <1>8
<1> HIDE DEF spent
<1> DEFINE sb == Sum(SpentOn(b), InHand(b))
           sc == Sum(SpentOn(c), InHand(c))
<1>10. sb \in Int /\ sc \in Int /\ sc = spent + p.cost + sb /\ b.cash + sb = Capital + b.earned - b.paid
  BY <1>1, <1>2, <1>6, <1>7, <1>8, <1>9, HandIs DEF TestRight, RightFor
<1> HIDE DEF sb, sc
<1>11. c.cash + sc = Capital + c.earned - c.paid
  <2>1. b.cash \in Int /\ b.earned \in Int /\ b.paid \in Int
    BY <1>1 DEF TestBook
  <2> QED
    BY <1>1, <1>2, <1>8, <1>9, <1>10, <2>1
<1>12. Cardinality(InHand(c)) <= MaxConcurrent
  <2>1. Test!Count(b) = Cardinality(InHand(b))
    BY Zenon DEF Test!Count, InHand, Test!Cardinality, Cardinality, Test!IsFiniteSet, IsFiniteSet
  <2>2. Cardinality(InHand(b)) < MaxConcurrent
    BY <1>2, <2>1 DEF Test!Room
  <2> QED
    BY <1>1, <1>6, <2>2, HandIs
<1>13. \A r \in Test!Stocks : c.pos[r] # None =>
         r \in Test!Traded /\ c.pos[r].stop <= c.pos[r].entry /\ RiskKept(c.pos[r])
  BY <1>2, <1>3, <1>5 DEF TestRight, RightFor
<1>14. TestRight(c)
  BY <1>2, <1>11, <1>12, <1>13 DEF TestRight, RightFor, sc
<1> QED
  BY <1>14 DEF c
PricedIn(b, c) == \A s \in Test!Stocks : b.pos[s] # None => c[s] # None

TestInv ==
  /\ engine \in Engines /\ bars \in 0..Days /\ ended \in BOOLEAN /\ equity \in Int
  /\ close \in [Test!Stocks -> Closes \cup {None}]
  /\ RightFor(Test!Traded, Test!Book)
  /\ PricedIn(Test!Book, close)

\* What the positions with a bar are worth, of whichever measure, is an integer.
LEMMA MarkedIs ==
  ASSUME Test!BacktestAssumption, NEW b \in TestBook, NEW bar \in TestBars
  PROVE  Test!Marked(b, bar) \in Int
<1> DEFINE T == {s \in Test!Stocks : b.pos[s] # None /\ bar[s] # None}
           gain(x) == b.pos[x].qty * (bar[x].close - (IF engine = "single" THEN b.pos[x].entry ELSE 0))
           v == [x \in T |-> gain(x)]
           once(f) == [S \in SUBSET T |-> IF S = {} THEN 0
                                          ELSE gain(CHOOSE x \in S : TRUE) + f[S \ {CHOOSE x \in S : TRUE}]]
           raw == CHOOSE f : f = once(f)
<1>1. Test!Marked(b, bar) = b.cash + raw[T]
  BY DEF Test!Marked, Test!MapThenSumSet, Test!MapThenFoldSet
<1>2. ASSUME NEW x \in T PROVE gain(x) \in Int
  <2>1. b.pos[x] \in TestPosition /\ bar[x] \in [close : Closes, spread : Spreads] /\ Closes \subseteq Nat
    BY DEF TestBook, TestBars, Test!BacktestAssumption
  <2>2. b.pos[x].qty \in Int /\ b.pos[x].entry \in Int
    BY <2>1 DEF TestPosition
  <2>3. bar[x].close \in Int
    <3>1. bar[x].close \in Closes
      BY <2>1
    <3>2. bar[x].close \in Nat
      BY <2>1, <3>1, Zenon
    <3> QED
      BY <3>2
  <2> QED
    BY <2>2, <2>3
<1>3. IsFiniteSet(T)
  BY StocksFinite, FS_Subset
<1> HIDE DEF T, gain
<1>4. Ints(v, T)
  BY <1>2 DEF Ints
<1>5. ASSUME NEW f PROVE f = once(f) <=> Folding(v, T, f)
  <2>1. \A S \in SUBSET T : S # {} => v[CHOOSE x \in S : TRUE] = gain(CHOOSE x \in S : TRUE)
    OBVIOUS
  <2> DEFINE folded == [S \in SUBSET T |-> IF S = {} THEN 0
                          ELSE v[CHOOSE x \in S : TRUE] + f[S \ {CHOOSE x \in S : TRUE}]]
  <2>2. once(f) = folded
    <3> HIDE DEF v
    <3> QED
      BY <2>1
  <2>3. Folding(v, T, f) <=> f = folded
    BY DEF Folding
  <2> HIDE DEF once, folded
  <2> QED
    BY <2>2, <2>3
<1>6. Folding(v, T, raw)
  <2>1. PICK g : Folding(v, T, g)
    BY <1>3, <1>4, AdditiveExists, AdditiveFolds
  <2>2. g = once(g)
    BY <1>5, <2>1
  <2> HIDE DEF once
  <2>3. raw = once(raw)
    BY <2>2, Zenon
  <2> HIDE DEF raw
  <2> QED
    BY <1>5, <2>3
<1> HIDE DEF raw, v
<1>7. raw[T] = Sum(v, T)
  BY <1>3, <1>4, <1>6, FoldIsSum
<1>8. raw[T] \in Int
  BY <1>3, <1>4, <1>7, SumIs
<1>9. b.cash \in Int
  BY DEF TestBook
<1> QED
  BY <1>1, <1>8, <1>9

LEMMA StepRight ==
  ASSUME Test!BacktestAssumption, engine \in Engines, NEW m \in Modes, NEW bar \in TestBars, NEW sig,
         NEW c, NEW b \in Books(m), NEW s \in Test!Stocks, TestRight(b), PricedIn(b, c),
         \A r \in Test!Stocks : m = "enter" /\ bar[r] # None => c[r] # None
  PROVE  TestRight(StepOf(m, bar, sig, b, s)) /\ PricedIn(StepOf(m, bar, sig, b, s), c)
<1> DEFINE d == StepOf(m, bar, sig, b, s)
<1>1. b \in TestBook /\ Closes \subseteq Nat
  BY DEF Books, Test!BacktestAssumption
<1>2. ASSUME NEW price \in Nat, b.pos[s] # None, d = Test!Closed(b, s, price) PROVE TestRight(d) /\ PricedIn(d, c)
  <2>1. TestRight(d)
    BY <1>2, RightClosed
  <2>2. d.pos = [b.pos EXCEPT ![s] = None]
    BY <1>1, <1>2, ClosedIs
  <2> HIDE DEF d
  <2>3. \A r \in Test!Stocks : d.pos[r] # None => b.pos[r] # None
    BY <1>1, <2>2 DEF TestBook
  <2> QED
    BY <2>1, <2>3 DEF PricedIn
<1>3. ASSUME m = "enter", d = EnterOne(b, s, bar, sig), d # b PROVE TestRight(d) /\ PricedIn(d, c)
  <2>1. TestRight(d)
    BY <1>3, RightEntered
  <2>2. bar[s] # None /\ \E p : d.pos = [b.pos EXCEPT ![s] = p]
    <3> DEFINE e == EnterOne(b, s, bar, sig)
    <3>1. e # b
      BY <1>3
    <3>2. bar[s] # None /\ \E p \in TestPosition : e.pos = [b.pos EXCEPT ![s] = p]
      BY <1>1, <3>1, EnterIs
    <3> HIDE DEF d, e
    <3> QED
      BY <1>3, <3>2 DEF e
  <2> HIDE DEF d
  <2>3. \A r \in Test!Stocks : r # s => d.pos[r] = b.pos[r]
    BY <1>1, <2>2 DEF TestBook
  <2> QED
    BY <1>3, <2>1, <2>2, <2>3 DEF PricedIn
<1>4. \/ d = b
      \/ b.pos[s] # None /\ \E price \in Nat : d = Test!Closed(b, s, price)
      \/ b.pos[s] # None /\ close[s] \in Closes /\ d = Test!Closed(b, s, close[s])
      \/ m = "enter" /\ d = EnterOne(b, s, bar, sig) /\ d # b
  <2>1. d = StepOf(m, bar, sig, b, s)
    OBVIOUS
  <2> HIDE DEF d
  <2> QED
    BY <2>1, StepIs
<1> HIDE DEF d
<1>5. TestRight(d) /\ PricedIn(d, c)
  BY <1>1, <1>2, <1>3, <1>4
<1> QED
  BY <1>5 DEF d

LEMMA TestInit == ASSUME Test!BacktestAssumption, Test!Init PROVE TestInv
<1> DEFINE b == Test!Book
<1>1. /\ Capital \in Nat /\ MaxConcurrent \in Nat /\ Days \in Nat
      /\ b = [cash |-> Capital, pos |-> [s \in Test!Stocks |-> None], earned |-> 0, paid |-> 0]
  BY DEF Test!BacktestAssumption, Test!Init, Test!Book
<1>2. b \in TestBook
  BY <1>1 DEF TestBook
<1>3. \A s \in Test!Stocks : b.pos[s] = None
  BY <1>1
<1>4. InHand(b) = {}
  BY <1>3 DEF InHand
<1>5. Cardinality(InHand(b)) = 0 /\ Sum(SpentOn(b), InHand(b)) = 0
  <2>1. IsFiniteSet(InHand(b)) /\ Ints(SpentOn(b), InHand(b))
    BY <1>2, HandIs
  <2> QED
    BY <1>4, <2>1, FS_EmptySet, SumIs
<1>6. b.cash = Capital /\ b.earned = 0 /\ b.paid = 0
  BY <1>1
<1> HIDE DEF b
<1>7. RightFor(Test!Traded, b) /\ PricedIn(b, close)
  BY <1>1, <1>2, <1>3, <1>5, <1>6 DEF RightFor, PricedIn
<1>8. engine \in Engines /\ bars = 0 /\ ended = FALSE /\ equity = Capital /\ close = [s \in Test!Stocks |-> None]
  BY DEF Test!Init, Engines
<1>9. bars \in 0..Days /\ equity \in Int
  BY <1>1, <1>8
<1>10. ended \in BOOLEAN /\ close \in [Test!Stocks -> Closes \cup {None}]
  BY <1>8, Zenon
<1> QED
  BY <1>7, <1>8, <1>9, <1>10 DEF TestInv, b

\* Day and End, in terms of the runs.
LEMMA DayIs ==
  ASSUME Test!Day
  PROVE  \E bar \in TestBars, out, in \in Test!Signals :
           LET mid == Run("exit", bar, out, Test!Book)
               late == Run("enter", bar, in, mid)
           IN  /\ Test!Assign(late) /\ equity' = Test!Marked(late, bar)
               /\ close' = [s \in Test!Stocks |-> IF bar[s] = None THEN close[s] ELSE bar[s].close]
               /\ bars < Days /\ bars' = bars + 1 /\ UNCHANGED <<engine, ended>>
<1>1. PICK bar \in Test!Bars, out \in Test!Signals, in \in Test!Signals :
        /\ LET late == Test!Entries(Test!Exits(bar, out), bar, in)
           IN Test!Assign(late) /\ equity' = Test!Marked(late, bar)
        /\ close' = [s \in Test!Stocks |-> IF bar[s] = None THEN close[s] ELSE bar[s].close]
  BY Zenon DEF Test!Day
<1>2. bar \in TestBars
  BY DEF TestBars, Test!Bars
<1>3. bars < Days /\ bars' = bars + 1 /\ UNCHANGED <<engine, ended>>
  BY DEF Test!Day
<1>4. Test!Entries(Test!Exits(bar, out), bar, in) = Run("enter", bar, in, Run("exit", bar, out, Test!Book))
  BY RunsAre, Zenon
<1> QED
  BY <1>1, <1>2, <1>3, <1>4, Zenon

NoBars == [s \in Test!Stocks |-> None]

LEMMA EndIs ==
  ASSUME Test!End
  PROVE  /\ Test!Assign(Run("sell", NoBars, NoBars, Test!Book))
         /\ ended' = TRUE /\ UNCHANGED <<engine, bars, close, equity>>
<1>1. ended' = TRUE /\ UNCHANGED <<engine, bars, close, equity>>
  BY DEF Test!End
<1>2. Test!Assign(Run("sell", NoBars, NoBars, Test!Book))
  BY DEF Test!End, Run, Body, StepOf, SellOne, Test!FoldLeft, Test!MapThenFoldSet
<1> QED
  BY <1>1, <1>2

LEMMA AssignIs ==
  ASSUME NEW b \in TestBook, Test!Assign(b), UNCHANGED engine
  PROVE  Test!Book' = b /\ Test!Traded' = Test!Traded
<1>1. b = [cash |-> b.cash, pos |-> b.pos, earned |-> b.earned, paid |-> b.paid]
  BY DEF TestBook
<1>2. Test!Book' = b
  BY <1>1 DEF Test!Assign, Test!Book
<1> QED
  BY <1>2 DEF Test!Traded

\* What a day and the end do to a book that is right, and what else they keep of it.
LEMMA DayRuns ==
  ASSUME Test!BacktestAssumption, TestInv, NEW bar \in TestBars, NEW out, NEW in, NEW c,
         \A s \in Test!Stocks : /\ close[s] # None => c[s] # None
                                /\ bar[s] # None => c[s] # None
  PROVE  LET mid == Run("exit", bar, out, Test!Book)
             late == Run("enter", bar, in, mid)
         IN  TestRight(mid) /\ TestRight(late) /\ PricedIn(late, c)
<1> DEFINE mid == Run("exit", bar, out, Test!Book)
           late == Run("enter", bar, in, mid)
           G == {b \in TestBook : TestRight(b) /\ PricedIn(b, c)}
<1>1. engine \in Engines /\ TestRight(Test!Book) /\ PricedIn(Test!Book, c) /\ Test!Book \in TestBook
  BY DEF TestInv, TestRight, RightFor, PricedIn
<1>2. ASSUME NEW m \in Modes, NEW sig, NEW b \in Books(m) \cap G, NEW s \in Test!Stocks
      PROVE  StepOf(m, bar, sig, b, s) \in G
  <2>1. TestRight(b) /\ PricedIn(b, c) /\ b \in Books(m)
    OBVIOUS
  <2>2. TestRight(StepOf(m, bar, sig, b, s)) /\ PricedIn(StepOf(m, bar, sig, b, s), c)
    BY <1>1, <2>1, StepRight
  <2> QED
    BY <2>2 DEF TestRight, RightFor
<1>3. Test!Book \in Books("exit") \cap G /\ "exit" \in Modes /\ "enter" \in Modes
  BY <1>1 DEF Books, Modes
<1> HIDE DEF G
<1>4. mid \in Books("exit") \cap G
  <2>1. \A b \in Books("exit") \cap G, s \in Test!Stocks : StepOf("exit", bar, out, b, s) \in G
    BY <1>2, <1>3
  <2> QED
    BY <1>1, <1>3, <2>1, RunKeeps
<1> HIDE DEF mid
<1>5. mid \in Books("enter") \cap G
  BY <1>4 DEF Books, Modes
<1>6. late \in Books("enter") \cap G
  <2>1. \A b \in Books("enter") \cap G, s \in Test!Stocks : StepOf("enter", bar, in, b, s) \in G
    BY <1>2, <1>3
  <2> QED
    BY <1>1, <1>3, <1>5, <2>1, RunKeeps
<1> HIDE DEF late
<1> QED
  BY <1>4, <1>6 DEF G, mid, late

LEMMA EndRuns ==
  ASSUME Test!BacktestAssumption, TestInv
  PROVE  LET late == Run("sell", NoBars, NoBars, Test!Book)
         IN  TestRight(late) /\ PricedIn(late, close)
<1> DEFINE late == Run("sell", NoBars, NoBars, Test!Book)
           G == {b \in TestBook : TestRight(b) /\ PricedIn(b, close)}
<1>1. engine \in Engines /\ TestRight(Test!Book) /\ PricedIn(Test!Book, close) /\ Test!Book \in TestBook
  BY DEF TestInv, TestRight, RightFor, PricedIn
<1>2. NoBars \in TestBars /\ "sell" \in Modes
  BY DEF NoBars, TestBars, Modes
<1>3. ASSUME NEW b \in Books("sell") \cap G, NEW s \in Test!Stocks PROVE StepOf("sell", NoBars, NoBars, b, s) \in G
  <2>1. TestRight(b) /\ PricedIn(b, close) /\ b \in Books("sell")
    OBVIOUS
  <2>2. \A r \in Test!Stocks : "sell" = "enter" /\ NoBars[r] # None => close[r] # None
    OBVIOUS
  <2> DEFINE d == StepOf("sell", NoBars, NoBars, b, s)
  <2>3. TestRight(d) /\ PricedIn(d, close)
    BY <1>1, <1>2, <2>1, <2>2, StepRight
  <2> HIDE DEF d
  <2>4. d \in G
    BY <2>3 DEF TestRight, RightFor
  <2> QED
    BY <2>4 DEF d
<1>4. Test!Book \in Books("sell") \cap G
  <2>1. \A s \in Test!Stocks : Test!Book.pos[s] # None => close[s] \in Closes
    BY DEF TestInv, PricedIn
  <2> QED
    BY <1>1, <2>1 DEF Books
<1> HIDE DEF G
<1>5. late \in Books("sell") \cap G
  BY <1>1, <1>2, <1>3, <1>4, RunKeeps
<1> HIDE DEF late
<1> QED
  BY <1>5 DEF G, late

LEMMA TestHolds == ASSUME Test!BacktestAssumption PROVE Test!Spec => []TestInv
<1>1. ASSUME TestInv, [Test!Next]_(Test!vars) PROVE TestInv'
  <2>1. CASE Test!Day
    <3>1. PICK bar \in TestBars, out \in Test!Signals, in \in Test!Signals :
           LET mid == Run("exit", bar, out, Test!Book)
               late == Run("enter", bar, in, mid)
           IN  /\ Test!Assign(late) /\ equity' = Test!Marked(late, bar)
               /\ close' = [s \in Test!Stocks |-> IF bar[s] = None THEN close[s] ELSE bar[s].close]
               /\ bars < Days /\ bars' = bars + 1 /\ UNCHANGED <<engine, ended>>
      BY <2>1, DayIs
    <3> DEFINE late == Run("enter", bar, in, Run("exit", bar, out, Test!Book))
               now == [s \in Test!Stocks |-> IF bar[s] = None THEN close[s] ELSE bar[s].close]
    <3>2. Closes \subseteq Nat \ {0} /\ None \notin Closes /\ Days \in Nat
      BY DEF Test!BacktestAssumption
    <3>3. close \in [Test!Stocks -> Closes \cup {None}] /\ bars \in 0..Days /\ engine \in Engines /\ ended \in BOOLEAN
      BY <1>1 DEF TestInv
    <3>4. now \in [Test!Stocks -> Closes \cup {None}]
      <4>1. \A s \in Test!Stocks : bar[s] # None => bar[s].close \in Closes
        BY DEF TestBars
      <4> QED
        BY <3>3, <4>1
    <3>5. \A s \in Test!Stocks : /\ close[s] # None => now[s] # None
                                 /\ bar[s] # None => now[s] # None
      <4>1. \A s \in Test!Stocks : bar[s] # None => bar[s].close \in Closes
        BY DEF TestBars
      <4> QED
        BY <3>2, <4>1
    <3> HIDE DEF now
    <3>6. TestRight(late) /\ PricedIn(late, now)
      BY <1>1, <3>5, DayRuns
    <3> HIDE DEF late
    <3>7. Test!Assign(late) /\ equity' = Test!Marked(late, bar) /\ close' = now
          /\ bars < Days /\ bars' = bars + 1 /\ UNCHANGED <<engine, ended>>
      BY <3>1 DEF late, now
    <3>8. late \in TestBook /\ RightFor(Test!Traded, late)
      BY <3>6 DEF TestRight, RightFor
    <3>9. Test!Book' = late /\ Test!Traded' = Test!Traded
      BY <3>7, <3>8, AssignIs
    <3>10. equity' \in Int
      BY <3>7, <3>8, MarkedIs
    <3>11. bars' \in 0..Days
      BY <3>2, <3>3, <3>7
    <3>12. RightFor(Test!Traded', Test!Book') /\ PricedIn(Test!Book', close')
      BY <3>6, <3>7, <3>8, <3>9
    <3> QED
      BY <3>3, <3>4, <3>7, <3>10, <3>11, <3>12 DEF TestInv
  <2>2. CASE Test!End
    <3> DEFINE late == Run("sell", NoBars, NoBars, Test!Book)
    <3>1. TestRight(late) /\ PricedIn(late, close)
      BY <1>1, EndRuns
    <3>2. Test!Assign(late) /\ ended' = TRUE /\ UNCHANGED <<engine, bars, close, equity>>
      BY <2>2, EndIs
    <3> HIDE DEF late
    <3>3. late \in TestBook /\ RightFor(Test!Traded, late)
      BY <3>1 DEF TestRight, RightFor
    <3>4. Test!Book' = late /\ Test!Traded' = Test!Traded
      BY <3>2, <3>3, AssignIs
    <3>5. RightFor(Test!Traded', Test!Book') /\ PricedIn(Test!Book', close')
      BY <3>1, <3>2, <3>3, <3>4
    <3> QED
      BY <1>1, <3>2, <3>5 DEF TestInv
  <2>3. CASE UNCHANGED Test!vars
    <3>1. Test!Book' = Test!Book /\ Test!Traded' = Test!Traded
      BY <2>3 DEF Test!vars, Test!Book, Test!Traded
    <3>2. RightFor(Test!Traded', Test!Book') /\ PricedIn(Test!Book', close')
      BY <1>1, <2>3, <3>1 DEF TestInv, Test!vars
    <3> QED
      BY <1>1, <2>3, <3>2 DEF TestInv, Test!vars
  <2> QED
    BY <1>1, <2>1, <2>2, <2>3 DEF Test!Next
<1> QED
  BY <1>1, TestInit, PTL DEF Test!Spec

\* Cash and what the open positions cost are capital and profits (backtester.js,
\* portfolioBacktester.js, walkForwardOptimizer.js).
THEOREM TestBooksBalance == ASSUME Test!BacktestAssumption PROVE Test!Spec => []Test!Balanced
<1>1. ASSUME TestInv PROVE Test!Balanced
  <2> DEFINE b == Test!Book
             T == InHand(b)
             v == SpentOn(b)
             spent(x) == pos[x].qty * pos[x].entry + pos[x].cost
             once(f) == [S \in SUBSET T |-> IF S = {} THEN 0
                                            ELSE spent(CHOOSE x \in S : TRUE) + f[S \ {CHOOSE x \in S : TRUE}]]
             raw == CHOOSE f : f = once(f)
  <2>1. /\ b \in TestBook /\ b.cash = money /\ b.earned = earned /\ b.paid = paid /\ b.pos = pos
        /\ b.cash + Sum(SpentOn(b), InHand(b)) = Capital + b.earned - b.paid
    BY <1>1 DEF TestInv, RightFor, Test!Book
  <2>2. T = Test!Held
    BY DEF InHand, Test!Held, Test!Book
  <2>3. Test!Invested = raw[T]
    BY <2>2 DEF Test!Invested, Test!MapThenSumSet, Test!MapThenFoldSet
  <2>4. \A x \in T : v[x] = spent(x)
    BY <2>1 DEF SpentOn, InHand
  <2>5. IsFiniteSet(T) /\ Ints(v, T)
    BY <2>1, HandIs
  <2> HIDE DEF b, T, v, spent
  <2>6. ASSUME NEW f PROVE f = once(f) <=> Folding(v, T, f)
    <3> DEFINE folded == [S \in SUBSET T |-> IF S = {} THEN 0
                            ELSE v[CHOOSE x \in S : TRUE] + f[S \ {CHOOSE x \in S : TRUE}]]
    <3>1. \A S \in SUBSET T : S # {} => v[CHOOSE x \in S : TRUE] = spent(CHOOSE x \in S : TRUE)
      BY <2>4
    <3>2. once(f) = folded
      BY <3>1
    <3>3. Folding(v, T, f) <=> f = folded
      BY DEF Folding
    <3> HIDE DEF once, folded
    <3> QED
      BY <3>2, <3>3
  <2>7. Folding(v, T, raw)
    <3>1. PICK g : Folding(v, T, g)
      BY <2>5, AdditiveExists, AdditiveFolds
    <3>2. g = once(g)
      BY <2>6, <3>1
    <3> HIDE DEF once
    <3>3. raw = once(raw)
      BY <3>2, Zenon
    <3> HIDE DEF raw
    <3> QED
      BY <2>6, <3>3
  <2> HIDE DEF raw
  <2>8. raw[T] = Sum(v, T)
    BY <2>5, <2>7, FoldIsSum
  <2> QED
    BY <2>1, <2>3, <2>8 DEF Test!Balanced, v, T
<1> QED
  BY <1>1, TestHolds, PTL

\* No day spends more cash than there is, or opens more positions than allowed.
THEOREM TestsStayWithinMeans == ASSUME Test!BacktestAssumption PROVE Test!Spec => []Test!WithinMeans
<1>1. ASSUME TestInv PROVE Test!WithinMeans
  <2>1. money \in Nat
    BY <1>1 DEF TestInv, RightFor, TestBook, Test!Book
  <2>2. Test!Cardinality(Test!Held) = Cardinality(InHand(Test!Book))
    <3>1. InHand(Test!Book) = Test!Held
      BY DEF InHand, Test!Held, Test!Book
    <3> QED
      BY <3>1, Zenon DEF Test!Cardinality, Cardinality, Test!IsFiniteSet, IsFiniteSet
  <2>3. Cardinality(InHand(Test!Book)) <= MaxConcurrent
    BY <1>1 DEF TestInv, RightFor
  <2> QED
    BY <2>1, <2>2, <2>3 DEF Test!WithinMeans
<1> QED
  BY <1>1, TestHolds, PTL

\* A position's loss at its stop is within the risk budget it was sized with (computeQty).
THEOREM TestsRiskTheirShare == ASSUME Test!BacktestAssumption PROVE Test!Spec => []Test!RiskBounded
<1>1. ASSUME TestInv PROVE Test!RiskBounded
  BY <1>1 DEF TestInv, RightFor, RiskKept, Test!RiskBounded, Test!Held, Test!Book
<1> QED
  BY <1>1, TestHolds, PTL

\* What a sale earns, by what it brings in.
LEMMA SaleEarns ==
  ASSUME Test!BacktestAssumption, engine \in Engines, NEW b \in TestBook, NEW s \in Test!Stocks,
         b.pos[s] # None, NEW price \in Nat
  PROVE  \E proceeds \in Nat : /\ proceeds <= b.pos[s].qty * price
                               /\ Test!Closed(b, s, price).earned
                                    = b.earned + proceeds - b.pos[s].qty * b.pos[s].entry
<1> DEFINE c == Test!Closed(b, s, price)
<1>1. /\ c \in TestBook /\ b.pos[s] \in TestPosition
      /\ c.pos = [b.pos EXCEPT ![s] = None] /\ c.paid = b.paid + b.pos[s].cost
      /\ \E proceeds \in Nat : /\ proceeds <= b.pos[s].qty * price
                               /\ c.cash = b.cash + proceeds
                               /\ c.earned = b.earned + proceeds - b.pos[s].qty * b.pos[s].entry
  <2>1. b.pos[s] \in TestPosition
    BY DEF TestBook
  <2> QED
    BY <2>1, ClosedIs, Zenon
<1> QED
  BY <1>1, Zenon

\* Sold at its stop, or below, a position loses.
LEMMA SoldBelow ==
  ASSUME Test!BacktestAssumption, engine \in Engines, NEW b \in TestBook, NEW s \in Test!Stocks,
         b.pos[s] # None, b.pos[s].stop <= b.pos[s].entry, NEW price \in Nat, price <= b.pos[s].stop
  PROVE  Test!Closed(b, s, price).earned <= b.earned
<1> DEFINE p == b.pos[s]
           c == Test!Closed(b, s, price)
<1>1. b.earned \in Int /\ p \in TestPosition
  BY DEF TestBook
<1>2. p.qty \in Nat /\ p.entry \in Nat /\ price <= p.entry
  <2>1. p.qty \in Nat /\ p.entry \in Nat /\ p.stop \in Nat
    BY <1>1 DEF TestPosition
  <2> QED
    BY <2>1
<1>3. \E proceeds \in Nat : proceeds <= p.qty * price /\ c.earned = b.earned + proceeds - p.qty * p.entry
  BY SaleEarns, Zenon
<1> HIDE DEF p, c
<1>4. p.qty * price <= p.qty * p.entry /\ p.qty * price \in Nat /\ p.qty * p.entry \in Nat
  BY <1>2
<1>5. c.earned <= b.earned
  <2> DEFINE most == p.qty * price
             spent == p.qty * p.entry
  <2>1. most <= spent /\ most \in Nat /\ spent \in Nat
    BY <1>4
  <2>2. \E proceeds \in Nat : proceeds <= most /\ c.earned = b.earned + proceeds - spent
    BY <1>3
  <2> HIDE DEF most, spent
  <2> QED
    BY <1>1, <2>1, <2>2
<1> QED
  BY <1>5 DEF c

\* A day on which all that is held closes below its stop records no gain, and neither does the end.
THEOREM TestStopsLose == ASSUME Test!BacktestAssumption PROVE Test!Spec => Test!StopsLose
<1> DEFINE Loses == (\A s \in Test!Held : close'[s] <= pos[s].stop) => earned' <= earned
<1>1. ASSUME TestInv, [Test!Next]_(Test!vars) PROVE [Loses]_(Test!vars)
  <2> SUFFICES ASSUME Test!Next, \A s \in Test!Held : close'[s] <= pos[s].stop
               PROVE  earned' <= earned
    BY <1>1
  <2> DEFINE G == {b \in TestBook : b.earned <= earned /\ \A s \in Test!Stocks : b.pos[s] # None => b.pos[s] = pos[s]}
  <2>1. /\ Test!Book \in TestBook /\ Test!Book.earned = earned /\ Test!Book.pos = pos /\ engine \in Engines
        /\ \A s \in Test!Stocks : pos[s] # None => pos[s].stop <= pos[s].entry
        /\ earned \in Int
    BY <1>1 DEF TestInv, RightFor, TestBook, Test!Book
  <2>2. Test!Book \in G
    BY <2>1
  <2>3. ASSUME NEW b \in G, NEW s \in Test!Stocks, b.pos[s] # None, NEW price \in Nat, price <= b.pos[s].stop
        PROVE  Test!Closed(b, s, price) \in G
    <3> DEFINE c == Test!Closed(b, s, price)
    <3>1. b \in TestBook /\ b.earned <= earned /\ b.pos[s] = pos[s] /\ b.earned \in Int
      BY <2>3 DEF TestBook
    <3>2. c.earned <= b.earned
      BY <2>1, <2>3, <3>1, SoldBelow
    <3>3. c \in TestBook /\ c.pos = [b.pos EXCEPT ![s] = None]
      BY <2>1, <2>3, <3>1, ClosedIs
    <3> HIDE DEF c
    <3>4. c.earned <= earned
      <4>1. c.earned \in Int
        BY <3>3 DEF TestBook
      <4> QED
        BY <2>1, <3>1, <3>2, <4>1
    <3>5. \A r \in Test!Stocks : c.pos[r] # None => c.pos[r] = pos[r]
      BY <3>1, <3>3 DEF TestBook
    <3>6. c \in G
      BY <3>3, <3>4, <3>5
    <3> QED
      BY <3>6 DEF c
  <2>4. CASE Test!Day
    <3>1. PICK bar \in TestBars, out \in Test!Signals, in \in Test!Signals :
           LET mid == Run("exit", bar, out, Test!Book)
               late == Run("enter", bar, in, mid)
           IN  /\ Test!Assign(late)
               /\ close' = [s \in Test!Stocks |-> IF bar[s] = None THEN close[s] ELSE bar[s].close]
      BY <2>4, DayIs
    <3> DEFINE mid == Run("exit", bar, out, Test!Book)
               late == Run("enter", bar, in, mid)
               E == {b \in TestBook : b.earned = mid.earned}
    <3>2. ASSUME NEW b \in Books("exit") \cap G, NEW s \in Test!Stocks PROVE StepOf("exit", bar, out, b, s) \in G
      <4> DEFINE c == StepOf("exit", bar, out, b, s)
      <4>1. \/ c = b
            \/ /\ b.pos[s] # None /\ bar[s] # None
               /\ \E price \in Nat : c = Test!Closed(b, s, price) /\ (bar[s].close <= b.pos[s].stop => price = b.pos[s].stop)
        <5>1. c = StepOf("exit", bar, out, b, s) /\ "exit" \in Modes /\ b \in Books("exit")
          BY DEF Modes
        <5> HIDE DEF c, G
        <5> QED
          BY <5>1, StepIs
      <4>2. b.pos[s] # None /\ bar[s] # None => bar[s].close <= b.pos[s].stop
        BY <3>1 DEF Test!Held
      <4>3. b.pos[s] # None => b.pos[s] \in TestPosition
        BY DEF TestBook
      <4> HIDE DEF c, G
      <4>4. \A price \in Nat : b.pos[s] # None /\ price <= b.pos[s].stop => Test!Closed(b, s, price) \in G
        BY <2>3, <3>2
      <4>5. b.pos[s] # None => b.pos[s].stop \in Nat
        BY <4>3 DEF TestPosition
      <4> QED
        BY <4>1, <4>2, <4>4, <4>5 DEF c
    <3>3. mid \in Books("exit") \cap G
      <4>1. Test!Book \in Books("exit") /\ "exit" \in Modes
        BY <2>1 DEF Books, Modes
      <4> HIDE DEF mid, G
      <4> QED
        BY <2>1, <2>2, <3>2, <4>1, RunKeeps DEF mid
    <3> HIDE DEF mid
    <3>4. ASSUME NEW b \in Books("enter") \cap E, NEW s \in Test!Stocks PROVE StepOf("enter", bar, in, b, s) \in E
      <4> DEFINE c == StepOf("enter", bar, in, b, s)
      <4>1. c = EnterOne(b, s, bar, in)
        BY DEF StepOf
      <4>2. c # b => c \in TestBook /\ c.earned = b.earned
        <5> DEFINE e == EnterOne(b, s, bar, in)
        <5>1. e # b => e \in TestBook /\ e.earned = b.earned
          <6>1. b \in TestBook
            OBVIOUS
          <6> QED
            BY <2>1, <6>1, EnterIs
        <5> HIDE DEF c, e
        <5> QED
          BY <4>1, <5>1 DEF e
      <4> HIDE DEF c
      <4>3. c \in E
        BY <4>2
      <4> QED
        BY <4>3 DEF c
    <3>5. late \in Books("enter") \cap E
      <4>1. mid \in Books("enter") /\ "enter" \in Modes /\ mid \in E
        BY <3>3 DEF Books, Modes
      <4> HIDE DEF late, E
      <4> QED
        BY <2>1, <3>4, <4>1, RunKeeps DEF late
    <3>6. late.earned = mid.earned /\ mid.earned <= earned
      <4> HIDE DEF late
      <4> QED
        BY <3>3, <3>5
    <3>7. earned' = late.earned
      BY <3>1 DEF Test!Assign, mid
    <3> HIDE DEF late
    <3> QED
      BY <3>6, <3>7
  <2>5. CASE Test!End
    <3> DEFINE late == Run("sell", NoBars, NoBars, Test!Book)
    <3>1. ASSUME NEW b \in Books("sell") \cap G, NEW s \in Test!Stocks PROVE StepOf("sell", NoBars, NoBars, b, s) \in G
      <4> DEFINE c == StepOf("sell", NoBars, NoBars, b, s)
      <4>1. c = b \/ (b.pos[s] # None /\ c = Test!Closed(b, s, close[s]))
        BY DEF StepOf, SellOne
      <4>2. b.pos[s] # None => close[s] <= b.pos[s].stop
        BY <2>5 DEF Test!Held, Test!End
      <4>3. b.pos[s] # None => close[s] \in Nat
        <5>1. b.pos[s] # None => close[s] \in Closes
          BY DEF Books
        <5>2. Closes \subseteq Nat
          BY DEF Test!BacktestAssumption
        <5> QED
          BY <5>1, <5>2, Zenon
      <4> HIDE DEF c, G
      <4>4. \A price \in Nat : b.pos[s] # None /\ price <= b.pos[s].stop => Test!Closed(b, s, price) \in G
        BY <2>3, <3>1
      <4>5. c \in G
        BY <4>1, <4>2, <4>3, <4>4
      <4> QED
        BY <4>5 DEF c
    <3>2. Test!Book \in Books("sell") /\ "sell" \in Modes /\ NoBars \in TestBars
      <4>1. \A s \in Test!Stocks : Test!Book.pos[s] # None => close[s] \in Closes
        BY <1>1 DEF TestInv, PricedIn
      <4> QED
        BY <2>1, <4>1 DEF Books, Modes, NoBars, TestBars
    <3>3. late \in Books("sell") \cap G
      <4> HIDE DEF late, G
      <4> QED
        BY <2>1, <2>2, <3>1, <3>2, RunKeeps DEF late
    <3>4. earned' = late.earned
      BY <2>5, EndIs DEF Test!Assign
    <3> HIDE DEF late
    <3> QED
      BY <3>3, <3>4
  <2> QED
    BY <2>4, <2>5 DEF Test!Next
<1> QED
  BY <1>1, TestHolds, PTL DEF Test!Spec, Test!StopsLose
=============================================================================
