----------------------------- MODULE Allocation -----------------------------
(***************************************************************************)
(* portfolioEngine: rankSignals, which picks the best BUY signals, and      *)
(* allocateCapital, which divides free cash among them.  A request is an    *)
(* input; shares and confidences are in hundredths, composite scores in     *)
(* thousandths, money in whole units.                                       *)
(***************************************************************************)
EXTENDS Integers, FiniteSets, FiniteSetsExt, SequencesExt

CONSTANTS
  Order,                       \* the stocks of a request, in its order
  Confidences, Vols, Momenta,  \* hundredths; a volatility of 0 is unknown
  Totals, Frees,               \* totalCapital, availableCapital
  TopNs,                       \* topN
  MinConfidence, MinScore,     \* 25, 300
  MaxExposure, MaxSingle       \* MAX_EXPOSURE 95, MAX_SINGLE_PCT 20

AllocationAssumption ==
  /\ Confidences \subseteq 0..100 /\ Vols \subseteq Nat /\ Momenta \subseteq Int
  /\ Totals \subseteq Nat \ {0} /\ Frees \subseteq Nat \ {0} /\ TopNs \subseteq Nat \ {0}
  /\ MaxExposure \in 1..100 /\ MaxSingle \in 1..100

Stocks == ToSet(Order)
At(s) == CHOOSE i \in DOMAIN Order : Order[i] = s

VARIABLES asset, held, topN, total, free, method
vars == <<asset, held, topN, total, free, method>>

Methods == {"equal", "vol_parity", "score_weighted", "composite"}
Assets == [signal : {"BUY", "SELL"}, confidence : Confidences, vol : Vols, momentum : Momenta]

Init ==
  /\ asset \in [Stocks -> Assets] /\ held = {} /\ topN \in TopNs
  /\ total \in Totals /\ free \in Frees /\ method \in Methods

------------------------------------------------------------------------------
(* rankSignals *)

Clamp(x) == IF x < 0 THEN 0 ELSE IF x > 100 THEN 100 ELSE x

\* computeCompositeScore: four tenths confidence, three calm, three momentum; a
\* volatility of 60 hundredths has no calm, a momentum of 10 is the most.
Score(s) ==
  LET a == asset[s]
      directed == IF a.signal = "SELL" THEN -a.momentum ELSE a.momentum
  IN 4 * a.confidence + 3 * Clamp(100 - (a.vol * 100) \div 60) + 3 * Clamp(10 * directed)

Eligible(s) ==
  /\ asset[s].signal = "BUY" /\ asset[s].confidence >= MinConfidence
  /\ s \notin held /\ Score(s) >= MinScore

\* Sorted by score, best first; sort is stable.
Before(a, b) == Score(a) > Score(b) \/ (Score(a) = Score(b) /\ At(a) < At(b))

\* The first topN of those sorted.
Chosen ==
  LET ranked == {s \in Stocks : Eligible(s)}
  IN {s \in ranked : Cardinality({t \in ranked : Before(t, s)}) < topN}

------------------------------------------------------------------------------
(* allocateCapital among the stocks ranked *)

Cap == (total * MaxSingle) \div 100

Deployable == (free * MaxExposure) \div 100

\* Each method's share of what is deployed, in thousandths of its own measure.
Measure(s) ==
  CASE method = "score_weighted" -> 10 * asset[s].confidence
    [] method = "composite" -> Score(s)
    [] method = "vol_parity" /\ asset[s].vol > 0 -> 1000 \div asset[s].vol
    [] OTHER -> 1

\* _volParityWeights gives a stock of unknown volatility an equal share and scales
\* the others down.
Raw(s) ==
  LET unknown == {t \in Chosen : method = "vol_parity" /\ asset[t].vol = 0}
      n == Cardinality(Chosen)
      rest == Deployable - (Deployable * Cardinality(unknown)) \div n
  IN IF s \in unknown THEN Deployable \div n
     ELSE (rest * Measure(s)) \div MapThenSumSet(Measure, Chosen \ unknown)

Uncapped == {s \in Chosen : Raw(s) <= Cap}
Excess == MapThenSumSet(LAMBDA s : Raw(s) - Cap, Chosen \ Uncapped)

\* What exceeds the cap goes to the others, up to the cap.
Capped(s) ==
  IF s \notin Uncapped THEN Cap
  ELSE LET more == Raw(s) + (IF Excess = 0 THEN 0 ELSE (Raw(s) * Excess) \div MapThenSumSet(Raw, Uncapped))
       IN IF more > Cap THEN Cap ELSE more

\* The shares are normalised to add up to what is deployable.
Allocated(s) == (Deployable * Capped(s)) \div MapThenSumSet(Capped, Chosen)

\* The next request: what was ranked is bought, and the answers change.
Buy ==
  /\ Chosen /= {}
  /\ held' = held \cup Chosen /\ free' \in {f \in Frees : f < free}
  /\ UNCHANGED <<asset, topN, total, method>>

Next == Buy
Spec == Init /\ [][Next]_vars

------------------------------------------------------------------------------
\* The ranking takes the best: at most topN, none of what is held, and no stock left
\* out that could have been bought scores more than one taken; scores weigh
\* confidence, calm and momentum together.
BestTaken ==
  /\ Cardinality(Chosen) <= topN
  /\ \A s \in Chosen : s \notin held /\ asset[s].signal = "BUY"
  /\ \A s \in Stocks \ (Chosen \cup held) :
       asset[s].signal = "BUY" /\ asset[s].confidence >= MinConfidence /\ Score(s) >= MinScore
         => Cardinality(Chosen) = topN /\ \A t \in Chosen : Score(t) >= Score(s)

\* What is allocated is free cash, and no more than the exposure allows of it
\* ("preventing double-allocation on already-held positions").
FromFreeCash == Chosen /= {} => MapThenSumSet(Allocated, Chosen) * 100 <= free * MaxExposure

\* Capping, redistributing and normalising keep the order: a stock with the greater
\* share of the method never ends with the smaller allocation.
OrderKept == \A s, t \in Chosen : Raw(s) > Raw(t) => Allocated(s) >= Allocated(t)

\* No stock is given more than its part of the portfolio ("so a new position can't
\* exceed e.g. 20% of total portfolio").  It may be: what the capped shares do not use is
\* handed out by the normalisation, without the cap; so no run checks this.
SingleCapped == \A s \in Chosen : Allocated(s) <= Cap
=============================================================================
