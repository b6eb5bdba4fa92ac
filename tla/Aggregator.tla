------------------------------ MODULE Aggregator ------------------------------
(***************************************************************************)
(* aggregator: how the signals of three strategies and their confidences    *)
(* become one, by weighted score or by majority, with the weights that the  *)
(* regime of the stock gives (_regimeWeights).  Confidences are in Steps,   *)
(* weights in thousandths.                                                  *)
(***************************************************************************)
EXTENDS FiniteSets, Integers

CONSTANTS
  Steps,        \* confidence 1
  Confidences   \* confidences that are looked at

AggregatorAssumption == Steps \in Nat \ {0} /\ Confidences \subseteq 0..Steps

Strategies == {"MEAN_REVERSION", "MA_CROSSOVER", "RSI"}
Signals == {"BUY", "SELL", "HOLD"}
Regimes == {"TRENDING", "SIDEWAYS", "VOLATILE", "UNKNOWN"}

VARIABLES
  votes,   \* what each strategy says: a signal and its confidence
  regime   \* the regime and its confidence
vars == <<votes, regime>>

Init ==
  /\ votes \in [Strategies -> [signal : {"HOLD"}, conf : {0}]]
  /\ regime \in [name : Regimes, conf : Confidences]

\* The strategies speak one after the other.
Speak ==
  \E k \in Strategies, v \in [signal : Signals, conf : Confidences] : votes' = [votes EXCEPT ![k] = v]
  /\ UNCHANGED regime

Next == Speak
Spec == Init /\ [][Next]_vars

------------------------------------------------------------------------------
(* _regimeWeights *)

Base == [MEAN_REVERSION |-> 350, MA_CROSSOVER |-> 350, RSI |-> 300]
Clamp(x, lo, hi) == IF x < lo THEN lo ELSE IF x > hi THEN hi ELSE x

\* adj = confidence / 2; in a volatile market 350 * (1 - adj * 0.4), 300 * (1 + adj * 0.2).
Weights(r) ==
  LET shift == (350 * r.conf) \div Steps
      up == Clamp(350 + shift, 0, 700)  down == Clamp(350 - shift, 50, 350)
  IN CASE r.name = "TRENDING" -> [Base EXCEPT !.MEAN_REVERSION = down, !.MA_CROSSOVER = up]
       [] r.name = "SIDEWAYS" -> [Base EXCEPT !.MEAN_REVERSION = up, !.MA_CROSSOVER = down]
       [] r.name = "VOLATILE" -> [MEAN_REVERSION |-> 350 - (70 * r.conf) \div Steps,
                                  MA_CROSSOVER |-> 350 - (70 * r.conf) \div Steps,
                                  RSI |-> 300 + (30 * r.conf) \div Steps]
       [] OTHER -> Base

------------------------------------------------------------------------------
(* weightedScore, majorityVote *)

Direction(signal) == CASE signal = "BUY" -> 1 [] signal = "SELL" -> -1 [] OTHER -> 0

Sum3(f) == f["MEAN_REVERSION"] + f["MA_CROSSOVER"] + f["RSI"]
Score(v, w) == Sum3([k \in Strategies |-> Direction(v[k].signal) * v[k].conf * w[k]])

\* SCORE_THRESHOLD is 0.20 of the sum of the weights.
Beyond(score, w) == 5 * score > Sum3(w) * Steps

Weighted(v, w) ==
  IF Beyond(Score(v, w), w) THEN "BUY" ELSE IF Beyond(-Score(v, w), w) THEN "SELL" ELSE "HOLD"

Votes(v, signal) == Cardinality({k \in Strategies : v[k].signal = signal})

Majority(v) ==
  LET most(signal) == \A t \in Signals : Votes(v, signal) >= Votes(v, t)
  IN IF most("BUY") /\ Votes(v, "BUY") > Votes(v, "SELL") THEN "BUY"
     ELSE IF most("SELL") /\ Votes(v, "SELL") > Votes(v, "BUY") THEN "SELL" ELSE "HOLD"

------------------------------------------------------------------------------
Flip(signal) == CASE signal = "BUY" -> "SELL" [] signal = "SELL" -> "BUY" [] OTHER -> "HOLD"
Flipped(v) == [k \in Strategies |-> [v[k] EXCEPT !.signal = Flip(@)]]
\* How strongly a strategy speaks for buying.
Lean(v) == Direction(v.signal) * v.conf
Better(s, t) == Direction(s) >= Direction(t)

\* Both methods treat the directions alike: all three signals reversed give the
\* reversed signal, in every regime.
Evenhanded ==
  /\ Weighted(Flipped(votes), Weights(regime)) = Flip(Weighted(votes, Weights(regime)))
  /\ Majority(Flipped(votes)) = Flip(Majority(votes))

\* A strategy that speaks more strongly for buying never makes the aggregate less of a
\* BUY, whichever regime weighs it.
Monotone ==
  [][Weights(regime) = Weights(regime') /\ (\A k \in Strategies : Lean(votes'[k]) >= Lean(votes[k]))
       => Better(Weighted(votes', Weights(regime')), Weighted(votes, Weights(regime)))]_vars

\* In a trend, or a range, that is certain by half or more, the strategy that the
\* regime distrusts decides nothing alone: with the other two on HOLD the answer is
\* HOLD, and two that agree against it with full confidence are not overruled.
Distrusted ==
  LET k == IF regime.name = "TRENDING" THEN "MEAN_REVERSION" ELSE "MA_CROSSOVER"
      others == Strategies \ {k}
  IN (regime.name \in {"TRENDING", "SIDEWAYS"} /\ 2 * regime.conf >= Steps) =>
       /\ (\A j \in others : votes[j].signal = "HOLD") => Weighted(votes, Weights(regime)) = "HOLD"
       /\ \A s \in {"BUY", "SELL"} :
            (\A j \in others : votes[j] = [signal |-> s, conf |-> Steps]) => Weighted(votes, Weights(regime)) = s

\* Three strategies that agree, each with more than the confidence the threshold asks
\* for, are not weakened by any weights; and a signal is never one that at most one of
\* the three gives while another says the opposite, by majority.
Agreed ==
  /\ \A s \in Signals \ {"HOLD"} :
       (\A k \in Strategies : votes[k].signal = s /\ 5 * votes[k].conf > Steps)
         => Weighted(votes, Weights(regime)) = s /\ Majority(votes) = s
  /\ Majority(votes) /= "HOLD" => Votes(votes, Majority(votes)) >= 2
=============================================================================
