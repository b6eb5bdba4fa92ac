---------------------------- MODULE WalkForward ----------------------------
(***************************************************************************)
(* walkForwardOptimizer.runWalkForward: windows of bars that slide over the *)
(* history of a stock.  Every window tries the parameters of the grid on    *)
(* its in-sample bars and applies the best of them to its out-of-sample     *)
(* bars, which lie Purge bars later; the next window begins Embargo bars    *)
(* after those.  A range of bars is a pair from..to, `to` excluded; what a  *)
(* backtest earns and scores is an input.                                   *)
(***************************************************************************)
EXTENDS Integers, Sequences

CONSTANTS
  Totals,          \* lengths of the history
  Tenths,          \* isFraction, in tenths
  Wanted,          \* numbers of windows asked for
  Purge, Embargo,  \* PURGE_BARS, EMBARGO_BARS
  MinIS, MinOOS,   \* MIN_IS_BARS, MIN_OOS_BARS
  Grid,            \* parameters of the strategy, the first one tried first: 1..n
  Need,            \* Need[g]: bars parameters g look back over, the present one included
  Scores,          \* scores of a backtest, zero among them; NoScore is null
  NoScore

ASSUME WalkForwardAssumption ==
  /\ Totals \subseteq Nat /\ Tenths \subseteq 1..9 /\ Wanted \subseteq Nat \ {0}
  /\ Purge \in Nat /\ Embargo \in Nat /\ MinIS \in Nat \ {0} /\ MinOOS \in Nat \ {0}
  /\ Need \in [Grid -> Nat] /\ Scores \subseteq Int /\ NoScore \notin Scores

VARIABLES
  total, tenths, wanted,  \* the request
  start,                  \* windowStart
  w,                      \* windows tried
  done,                   \* the loop has ended
  results                 \* windowResults

vars == <<total, tenths, wanted, start, w, done, results>>

Window == [isFrom : Nat, isTo : Nat, from : Nat, to : Nat, best : Grid]

TypeOK ==
  /\ total \in Totals /\ tenths \in Tenths /\ wanted \in Wanted
  /\ start \in Nat /\ w \in 0..wanted /\ done \in BOOLEAN
  /\ results \in Seq(Window) /\ Len(results) <= w

Larger(a, b) == IF a >= b THEN a ELSE b
Smaller(a, b) == IF a <= b THEN a ELSE b

Init ==
  /\ total \in Totals /\ tenths \in Tenths /\ wanted \in Wanted
  /\ start = 0 /\ w = 0 /\ done = FALSE /\ results = <<>>

------------------------------------------------------------------------------
IsSize == Larger(MinIS, (total * tenths) \div 10)

OosSize ==
  Larger(MinOOS, (total * (10 - tenths) - 10 * (Purge + Embargo) * wanted) \div (10 * wanted))

IsEnd == start + IsSize

\* Mutant: the purge is left out of where the out-of-sample bars begin.
OosStartAtOnce == IsEnd

OosStart == IsEnd + Purge
OosEnd == Smaller(OosStart + OosSize, total)

TooShort == IsEnd + Purge + MinOOS > total \/ OosEnd - OosStart < MinOOS

Advance(bars) == start + IsSize + Purge + bars + Embargo

\* The parameters chosen: the first of those with the best score; none when no
\* backtest has a score.
Best(score) ==
  LET scored == {g \in Grid : score[g] /= NoScore}
  IN {g \in scored : \A o \in scored : score[o] < score[g] \/ (score[o] = score[g] /\ o >= g)}

\* What the backtests of the grid may score: parameters that look back further than
\* there are bars make no trade, and score nothing or zero, by the measure.
Scorings ==
  {score \in [Grid -> Scores \cup {NoScore}] :
     \A g \in Grid : IsSize < Need[g] => score[g] \in {0, NoScore}}

Ended == w = wanted \/ TooShort

\* One turn of the loop.
Stop == ~done /\ Ended /\ done' = TRUE /\ UNCHANGED <<total, tenths, wanted, start, w, results>>

NoParameters ==
  /\ ~done /\ ~Ended /\ \E score \in Scorings : Best(score) = {}
  /\ start' = Advance(OosSize) /\ w' = w + 1 /\ UNCHANGED <<total, tenths, wanted, done, results>>

Measure ==
  /\ ~done /\ ~Ended
  /\ \E score \in Scorings : \E g \in Best(score) :
       results' = Append(results, [isFrom |-> start, isTo |-> IsEnd,
                                   from |-> OosStart, to |-> OosEnd, best |-> g])
  /\ start' = Advance(OosEnd - OosStart) /\ w' = w + 1
  /\ UNCHANGED <<total, tenths, wanted, done>>

Next == Stop \/ NoParameters \/ Measure
Spec == Init /\ [][Next]_vars

------------------------------------------------------------------------------
\* Out-of-sample bars are out of every sample: no window's out-of-sample bars meet
\* the in-sample bars of any window; before them lies the purge, and after them the
\* embargo before any later window begins (the strict separation the header states,
\* also for the last window, whose bars are cut off at the end of the history).
Separated == \A i, j \in DOMAIN results :
  /\ results[i].isTo + Purge <= results[i].from
  /\ i < j => results[i].to + Embargo <= results[j].isFrom
  /\ results[i].to <= total

\* No window is measured on fewer bars than the least ("prevents statistically
\* meaningless OOS"), nor optimised on fewer than its least.
LongEnough == \A i \in DOMAIN results :
  /\ results[i].to - results[i].from >= MinOOS
  /\ results[i].isTo - results[i].isFrom >= MinIS

\* Windows are apart and long enough, and the state keeps its type.
WindowsRight == TypeOK /\ Separated /\ LongEnough

\* The windows roll: a history that leaves room for two of them is measured twice.
Rolls == done /\ wanted > 1 /\ total >= 2 * (MinIS + Purge + MinOOS + Embargo) => w > 1
=============================================================================
