------------------------------ MODULE SwingRules ------------------------------
(***************************************************************************)
(* The rules of the swing scan over the daily candles of one stock          *)
(* (swingScanService: prefilterUniverse, evaluateSwing).  The lengths of    *)
(* the windows are parameters, so that short histories reach every rule.    *)
(* Prices are whole rupees and averages are compared as fractions, by       *)
(* cross-multiplication; the levels of a signal are paise.                  *)
(***************************************************************************)
EXTENDS FiniteSetsExt, Functions, Integers, Sequences

CONSTANTS
  Bars,       \* candles that may be added: records with h, l, c, v
  Short,      \* 50
  Long,       \* 200
  Lag,        \* 5
  Year,       \* 252
  AtrLen,     \* 14
  MinBars,    \* 210
  LeastValue, \* 20 000 000: volume times price
  MaxDays     \* bound: candles of a history

RulesAssumption ==
  /\ Bars \subseteq [h : Nat, l : Nat \ {0}, c : Nat, v : Nat] /\ \A b \in Bars : b.l <= b.c /\ b.c <= b.h
  /\ Short \in Nat \ {0} /\ Lag \in Nat \ {0} /\ Long \in Nat /\ MinBars \in Nat
  /\ Short < Long /\ Long + Lag <= MinBars
  /\ AtrLen \in Nat \ {0} /\ AtrLen < MinBars /\ Year \in Nat \ {0}

VARIABLE candles
vars == <<candles>>

Now == Len(candles)
Bar == candles[Now]
Before == candles[Now - 1]

------------------------------------------------------------------------------
(* sma, atr14, highest, lowest *)

Window(len, offset) == Now - offset - len + 1 .. Now - offset

\* len times the average of the closes that ended offset days ago.
CloseSum(len, offset) == SumFunctionOnSet([i \in 1..Now |-> candles[i].c], Window(len, offset))
VolumeSum(len) == SumFunctionOnSet([i \in 1..Now |-> candles[i].v], Window(len, 0))

TrueRange(i) ==
  LET gap(p) == IF p >= candles[i - 1].c THEN p - candles[i - 1].c ELSE candles[i - 1].c - p
  IN Max({candles[i].h - candles[i].l, gap(candles[i].h), gap(candles[i].l)})

\* Wilder's average of n true ranges, times AtrLen ^ (n - AtrLen + 1).
Smoothed[n \in Nat] ==
  IF n = AtrLen THEN SumFunction([i \in 1..AtrLen |-> TrueRange(i + 1)])
  ELSE Smoothed[n - 1] * (AtrLen - 1) + TrueRange(n + 1) * AtrLen ^ (n - AtrLen)
Atr == [num |-> Smoothed[Now - 1], den |-> AtrLen ^ (Now - AtrLen)]

Highest(len, offset) ==
  Max({candles[i].h : i \in Max({1, Now - offset - len + 1}) .. Now - offset})

------------------------------------------------------------------------------
(* evaluateSwing *)

Enough == Now >= MinBars

Trend ==
  LET short == CloseSum(Short, 0)  long == CloseSum(Long, 0)
  IN /\ Bar.c * Long > long /\ Bar.c * Short > short /\ short * Long > long * Short
     /\ short > CloseSum(Short, Lag) /\ long > CloseSum(Long, Lag)

Fresh ==
  LET high == Highest(Min({Year, Now - 1}), 1) IN Bar.c >= high /\ Before.c < high

Liquid == Bar.v * Short > VolumeSum(Short) * 2 /\ Bar.v * Bar.c > LeastValue /\ Bar.c > 50

Moved == Bar.c * 1000 > Before.c * 1005

\* 1.5 % <= ATR / close <= 5 %
Calm == Atr.num * 1000 >= 15 * Bar.c * Atr.den /\ Atr.num * 100 <= 5 * Bar.c * Atr.den

Breakout == Enough /\ Trend /\ Fresh /\ Liquid /\ Moved /\ Calm

\* toFixed(2), in paise, of a fraction of a rupee.
Paise(num, den) == (200 * num + den) \div (2 * den)

Entry == Paise(Bar.c * 1001, 1000)
\* entry + n / 2 * atr
Target(n) == Paise(Bar.c * 1001 * 2 * Atr.den + n * Atr.num * 1000, 2000 * Atr.den)

\* max(low, lowest(lows, 5)) is the low of the last candle.
Stop == Paise(Bar.l * 995, 1000)

------------------------------------------------------------------------------
(* prefilterUniverse: the quote of the day has the last price, the volume and *)
(* the change since the close before.                                         *)

Quote == [ltp |-> Bar.c, volume |-> Bar.v, change |-> Bar.c - Before.c]

PrevClose(q) == q.ltp - q.change

Survives(q) ==
  /\ q.ltp > 50 /\ q.volume * q.ltp > LeastValue
  /\ PrevClose(q) > 0 /\ q.ltp * 1000 > PrevClose(q) * 1005

------------------------------------------------------------------------------
Init == candles = <<>>
NewCandle == Now < MaxDays /\ \E b \in Bars : candles' = Append(candles, b)
Next == NewCandle
Spec == Init /\ [][Next]_vars

\* The quotes never cost the scan a hit: a stock that all the rules report on its
\* candles has a quote that the prefilter lets through ("This is a strict SUBSET
\* of the rules - it can never change the results").
PrefilterKeeps == Breakout => Survives(Quote)

\* A signal can be traded and scored: the stop is a price below the entry, and the
\* targets are above it in their order, after the rounding to paise; at most 5 % of
\* range a day, so the second target is less than a fifth away.
SignalsScorable ==
  Breakout => /\ 0 < Stop /\ Stop < Entry /\ Entry < Target(3) /\ Target(3) < Target(6)
              /\ 5 * Target(6) < 6 * Entry

\* A reported close is no lower than any earlier high of the year, the day before's
\* included, and above some earlier close, as the averages it is compared with ask.
NewHigh ==
  Breakout => /\ \A i \in Max({1, Now - Year}) .. Now - 1 : candles[i].h <= Bar.c
              /\ \E i \in 1..Now - 1 : candles[i].c < Bar.c
=============================================================================
