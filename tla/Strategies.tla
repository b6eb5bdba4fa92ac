------------------------------ MODULE Strategies ------------------------------
(***************************************************************************)
(* The strategies that turn the daily closes of a stock into a signal       *)
(* (strategies/*.js), with the indicators they use (mathUtils), as          *)
(* strategyCore dispatches to them.  Closes are integers and every ratio is *)
(* compared by cross-multiplication, standard deviations by their squares;  *)
(* the lengths of the windows are parameters.  The confidences are left     *)
(* out: module Aggregator takes any.  One close is added per day.           *)
(***************************************************************************)
EXTENDS FiniteSetsExt, Functions, Integers, Sequences

CONSTANTS
  Closes,              \* closes that may come
  Fast, Slow,          \* MA_CROSSOVER: 50 and 200
  RsiLen, Look,        \* RSI: 14, and 5 bars of divergence
  ZLen,                \* MEAN_REVERSION: 20
  BandLen,             \* BOLLINGER: 20
  TrendFast, TrendSlow, Momentum,   \* TREND_FOLLOWING: 50, 200, 90
  MaxDays              \* bound

StrategiesAssumption ==
  /\ Closes \subseteq Nat \ {0} /\ Fast \in Nat \ {0} /\ Fast < Slow /\ Slow \in Nat
  /\ RsiLen \in Nat \ {0} /\ Look \in Nat \ {0} /\ ZLen \in Nat \ {0, 1} /\ BandLen \in Nat \ {0, 1}
  /\ TrendFast \in Nat \ {0} /\ TrendSlow \in Nat \ {0} /\ Momentum \in Nat \ {0}

VARIABLE prices
vars == <<prices>>

MinOf(a, b) == IF a < b THEN a ELSE b
MaxOf(a, b) == IF a > b THEN a ELSE b
Last(p) == p[Len(p)]
\* p without its last n values, and the last n values of p.
Drop(p, n) == SubSeq(p, 1, Len(p) - n)
Tail_(p, n) == SubSeq(p, Len(p) - MinOf(n, Len(p)) + 1, Len(p))
\* n times the average of the last n values.
Sum_(p, n) == SumFunctionOnSet(p, Len(p) - n + 1 .. Len(p))

------------------------------------------------------------------------------
(* maCrossover *)

\* The sign tells whether the fast average is above the slow one.
Gap(p) == Sum_(p, Fast) * Slow - Sum_(p, Slow) * Fast

GapBefore(p) == Gap(Drop(p, 1))

Crossover(p) ==
  IF Len(p) < Slow + 1 THEN [signal |-> "HOLD", cross |-> "NONE"]
  ELSE [signal |-> IF Gap(p) > 0 THEN "BUY" ELSE IF Gap(p) < 0 THEN "SELL" ELSE "HOLD",
        cross |-> IF GapBefore(p) <= 0 /\ Gap(p) > 0 THEN "GOLDEN_CROSS"
                  ELSE IF GapBefore(p) >= 0 /\ Gap(p) < 0 THEN "DEATH_CROSS" ELSE "NONE"]

------------------------------------------------------------------------------
(* rsi, rsiStrategy *)

Change(p, i) == p[i + 1] - p[i]

\* Wilder's average of the changes of one direction, times RsiLen ^ (k - RsiLen + 1).
Wilder(p, dir) ==
  LET part(i) == MaxOf(dir * Change(p, i), 0)
      avg[k \in RsiLen .. Len(p) - 1] ==
        IF k = RsiLen THEN SumFunction([i \in 1..RsiLen |-> part(i)])
        ELSE avg[k - 1] * (RsiLen - 1) + part(k) * RsiLen ^ (k - RsiLen)
  IN avg[Len(p) - 1]

\* RSI / 100 = gain / (gain + loss); 1 when nothing was lost.
Rsi(p) ==
  LET gain == Wilder(p, 1)  loss == Wilder(p, -1)
  IN IF loss = 0 THEN [num |-> 1, den |-> 1] ELSE [num |-> gain, den |-> gain + loss]

Less(x, y) == x.num * y.den < y.num * x.den
LowestRsi(S) == CHOOSE x \in S : \A y \in S : ~Less(y, x)
HighestRsi(S) == CHOOSE x \in S : \A y \in S : ~Less(x, y)

\* detectDivergence: the RSIs of earlier days are computed on the last closes only.
Divergence(p) ==
  LET look == MinOf(Look, Len(p) - RsiLen - 1)
      slice == Tail_(p, RsiLen + look + 2)
      earlier == {Drop(slice, i) : i \in 1..look}
      closes == {Last(q) : q \in earlier}
      rsis == {Rsi(q) : q \in earlier}
  IN IF look < 2 THEN "NONE"
     ELSE IF Last(p) < Min(closes) /\ Less(LowestRsi(rsis), Rsi(p)) THEN "BULLISH"
     ELSE IF Last(p) > Max(closes) /\ Less(Rsi(p), HighestRsi(rsis)) THEN "BEARISH"
     ELSE "NONE"

\* Oversold at 30 and below, overbought at 70 and above; divergence decides between.
RsiSignal(p) ==
  IF Len(p) < RsiLen + 2 THEN "HOLD"
  ELSE LET r == Rsi(p)
       IN IF 100 * r.num <= 30 * r.den THEN "BUY"
          ELSE IF 100 * r.num >= 70 * r.den THEN "SELL"
          ELSE CASE Divergence(p) = "BULLISH" -> "BUY"
                 [] Divergence(p) = "BEARISH" -> "SELL"
                 [] OTHER -> "HOLD"

------------------------------------------------------------------------------
(* meanReversion, bollingerBands *)

\* n times the distance of the average from the last close, and n * n times the
\* population variance, of the last n closes.
Below(p, n) == Sum_(p, n) - n * Last(p)
Spread(p, n) == n * SumFunctionOnSet([i \in DOMAIN p |-> p[i] * p[i]], Len(p) - n + 1 .. Len(p))
                - Sum_(p, n) * Sum_(p, n)

\* The Z-score is beyond 1.5 on either side.
Far(p) == 4 * Below(p, ZLen) * Below(p, ZLen) > 9 * Spread(p, ZLen)

ReversionSignal(p) ==
  IF Len(p) < ZLen \/ ~Far(p) THEN "HOLD" ELSE IF Below(p, ZLen) > 0 THEN "BUY" ELSE "SELL"

\* The last close is at or beyond two standard deviations; beyond them.
AtBand(p) == Below(p, BandLen) * Below(p, BandLen) >= 4 * Spread(p, BandLen)
BeyondBand(p) == Below(p, BandLen) * Below(p, BandLen) > 4 * Spread(p, BandLen)

\* The bandwidth, relative to the average, has grown since yesterday.
Expanding(p) ==
  LET q == Drop(p, 1)
  IN /\ Len(p) > BandLen
     /\ Spread(p, BandLen) * Sum_(q, BandLen) ^ 2 > Spread(q, BandLen) * Sum_(p, BandLen) ^ 2

BandSignal(p, mode) ==
  LET below == Below(p, BandLen)
  IN CASE Len(p) < BandLen -> "HOLD"
       [] Len(p) >= BandLen /\ mode = "breakout" ->
            IF ~(BeyondBand(p) /\ Expanding(p)) THEN "HOLD" ELSE IF below < 0 THEN "BUY" ELSE "SELL"
       [] OTHER -> IF ~AtBand(p) THEN "HOLD" ELSE IF below >= 0 THEN "BUY" ELSE "SELL"

------------------------------------------------------------------------------
(* trendFollowing *)

TrendRule(p) ==
  LET up == Last(p) * TrendSlow > Sum_(p, TrendSlow)
      above == Last(p) * TrendFast > Sum_(p, TrendFast)
      rising == Last(p) > p[Len(p) - Momentum]
  IN IF up /\ above /\ rising THEN "BUY" ELSE IF ~above \/ ~rising THEN "SELL" ELSE "HOLD"

TrendSignal(p) == IF Len(p) < MaxOf(TrendSlow, Momentum) + 1 THEN "HOLD" ELSE TrendRule(p)

------------------------------------------------------------------------------
(* strategyCore._evaluate *)

StrategyKeys == {"MEAN_REVERSION", "MA_CROSSOVER", "RSI", "BOLLINGER", "BREAKOUT", "TREND_FOLLOWING"}

Evaluate(key, p) ==
  CASE key = "MEAN_REVERSION" -> ReversionSignal(p)
    [] key = "MA_CROSSOVER" -> Crossover(p).signal
    [] key = "RSI" -> RsiSignal(p)
    [] key = "BOLLINGER" -> BandSignal(p, "mean_reversion")
    [] key = "BREAKOUT" -> BandSignal(p, "breakout")
    [] key = "TREND_FOLLOWING" -> TrendSignal(p)

Init == prices = <<>>
NewClose == Len(prices) < MaxDays /\ \E c \in Closes : prices' = Append(prices, c)
Next == NewClose
Spec == Init /\ [][Next]_vars

------------------------------------------------------------------------------
Opposite == [BUY |-> "SELL", SELL |-> "BUY", HOLD |-> "HOLD"]
MirrorAt == Max(Closes) + Min(Closes)
Mirror(p) == [i \in DOMAIN p |-> MirrorAt - p[i]]
Flat(p) == \A i \in DOMAIN p : p[i] = p[1]

\* A split or a bonus does not change what a strategy says: the same history with
\* every close multiplied gives the same signal, so that adjusted and unadjusted
\* series agree.
ScaleFree ==
  \A key \in StrategyKeys : Evaluate(key, prices) = Evaluate(key, [i \in DOMAIN prices |-> 3 * prices[i]])

\* The crossover and the two band rules treat both directions alike: a history
\* turned upside down gives the opposite signal, unless all the closes of the window
\* are the same, which the bands answer with BUY.
Evenhanded ==
  \A key \in {"MA_CROSSOVER", "MEAN_REVERSION", "BOLLINGER"} :
    (key = "BOLLINGER" => ~Flat(Tail_(prices, BandLen))) =>
      Evaluate(key, Mirror(prices)) = Opposite[Evaluate(key, prices)]

\* The moment of a cross is reported once: a golden cross on the day on which BUY
\* replaces another signal and on no other, a death cross likewise.
CrossOnTurn ==
  Len(prices) > Slow + 1 =>
    LET now == Crossover(prices)  before == Crossover(Drop(prices, 1))
    IN /\ now.cross = "GOLDEN_CROSS" <=> now.signal = "BUY" /\ before.signal /= "BUY"
       /\ now.cross = "DEATH_CROSS" <=> now.signal = "SELL" /\ before.signal /= "SELL"

\* The RSI follows the price from day to day: a higher close never lowers it, a
\* lower one never raises it, an equal one leaves it.
RsiFollows ==
  Len(prices) > RsiLen + 1 =>
    LET now == Rsi(prices)  before == Rsi(Drop(prices, 1))  d == Change(prices, Len(prices) - 1)
    IN /\ d >= 0 => ~Less(now, before)
       /\ d <= 0 => ~Less(before, now)
       /\ d > 0 /\ Less(before, [num |-> 1, den |-> 1]) => Less(before, now)

\* The two ways of calling a close stretched agree: what stands outside the bands of
\* two deviations is beyond a Z-score of 1.5 in the same direction, when both look
\* at the same closes.
BandsWithinZ ==
  Len(prices) >= BandLen /\ BandLen = ZLen /\ ~Flat(Tail_(prices, BandLen)) =>
    LET bands == BandSignal(prices, "mean_reversion")
    IN bands /= "HOLD" => ReversionSignal(prices) = bands
=============================================================================
