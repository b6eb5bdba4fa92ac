------------------------------ MODULE Regime ------------------------------
(***************************************************************************)
(* regimeDetector: the regime of a stock as detectRegime keeps it between   *)
(* calls (_states).  Every caller of the aggregator - the signal request,   *)
(* the signal engines, the paper trader - makes an evaluation, so that one  *)
(* bar may be evaluated any number of times.  Strengths are on a grid of    *)
(* Scale steps; the raw strength of a bar, which the ADX and the slope of   *)
(* the average give, and whether it is volatile, are inputs.                *)
(***************************************************************************)
EXTENDS Integers

CONSTANTS
  Scale,        \* strength 1
  Upper, Lower, \* HYSTERESIS_UPPER 0.60, HYSTERESIS_LOWER 0.35, in steps
  Smooth,       \* SMOOTH_PERIOD: 5
  MinConfirm,   \* MIN_CONFIRM_BARS: 3
  Lockout,      \* LOCKOUT_BARS: 5
  Raws          \* raw strengths of bars

RegimeAssumption ==
  /\ Scale \in Nat \ {0} /\ Upper \in 1..Scale /\ Lower \in 0..Upper - 1
  /\ Smooth \in Nat \ {0} /\ MinConfirm \in Nat \ {0} /\ Lockout \in Nat /\ Raws \subseteq 0..Scale

VARIABLES
  bar,       \* the last bar: its raw strength, and whether it is volatile
  smoothed, current, pending, pendingCount, lockout,  \* the state of the symbol
  since,     \* history: evaluations since the last switch, up to Lockout
  agreed     \* history: the candidates of the last evaluations, newest first

vars == <<bar, smoothed, current, pending, pendingCount, lockout, since, agreed>>
state == <<smoothed, current, pending, pendingCount, lockout>>

Confirmed == {"TRENDING", "SIDEWAYS"}
Bars == [raw : Raws, volatile : BOOLEAN]

TypeOK ==
  /\ bar \in Bars /\ smoothed \in 0..Scale /\ current \in Confirmed \cup {"UNKNOWN"}
  /\ pending \in Confirmed \cup {"NONE"} /\ pending /= current
  /\ pendingCount \in Nat /\ (pendingCount = 0 <=> pending = "NONE")
  /\ pendingCount < MinConfirm \/ pendingCount <= Lockout
  /\ lockout \in 0..Lockout

Init ==
  /\ bar \in Bars
  /\ smoothed = Scale \div 2 /\ current = "UNKNOWN" /\ pending = "NONE" /\ pendingCount = 0 /\ lockout = 0
  /\ since = Lockout /\ agreed = [i \in 1..MinConfirm |-> "NONE"]

------------------------------------------------------------------------------
(* _applyHysteresis *)

\* alpha = 2 / (Smooth + 1), to the nearest step.
Ema(raw) == (2 * (2 * raw + (Smooth - 1) * smoothed) + Smooth + 1) \div (2 * (Smooth + 1))

\* Mutant: the dead zone ends where the lower band begins to be trusted.
CandidateStays(s) == IF s >= Upper /\ current = "UNKNOWN" THEN "TRENDING"
  ELSE IF s <= Lower \/ current = "UNKNOWN" THEN "SIDEWAYS" ELSE current

Candidate(s) ==
  IF s >= Upper THEN "TRENDING"
  ELSE IF s <= Lower \/ current = "UNKNOWN" THEN "SIDEWAYS" ELSE current

Count(c) == IF c = current THEN 0 ELSE IF c = pending THEN pendingCount + 1 ELSE 1

LockAfterSwitch == Lockout

Counted(n) == IF n < Lockout THEN n + 1 ELSE n

\* One call of detectRegime on the present bar.
Evaluate ==
  /\ ~bar.volatile
  /\ LET s == Ema(bar.raw)
         c == Candidate(s)
         free == IF lockout > 0 THEN lockout - 1 ELSE 0
         switch == Count(c) >= MinConfirm /\ free = 0
     IN /\ smoothed' = s
        /\ agreed' = [i \in 1..MinConfirm |-> IF i = 1 THEN c ELSE agreed[i - 1]]
        /\ IF switch
             THEN /\ current' = c /\ pending' = "NONE" /\ pendingCount' = 0
                  /\ lockout' = LockAfterSwitch /\ since' = 0
             ELSE /\ pending' = IF c = current THEN "NONE" ELSE c
                  /\ pendingCount' = Count(c)
                  /\ lockout' = free /\ since' = Counted(since) /\ UNCHANGED current
  /\ UNCHANGED bar

\* A volatile bar is answered at once and leaves the state as it is.
EvaluateVolatile == bar.volatile /\ UNCHANGED vars

\* The next bar; a restart of the process.
NewBar == bar' \in Bars /\ UNCHANGED <<smoothed, current, pending, pendingCount, lockout, since, agreed>>

Restart ==
  /\ smoothed' = Scale \div 2 /\ current' = "UNKNOWN" /\ pending' = "NONE" /\ pendingCount' = 0 /\ lockout' = 0
  /\ since' = Lockout /\ agreed' = [i \in 1..MinConfirm |-> "NONE"]
  /\ UNCHANGED bar

Next == Evaluate \/ EvaluateVolatile \/ NewBar \/ Restart
Spec == Init /\ [][Next]_vars

\* The signals of a stock are asked for again and again.
FairSpec == Spec /\ WF_vars(Evaluate)

------------------------------------------------------------------------------
Switched == current' /= current /\ current' /= "UNKNOWN"

\* After a switch no other one follows for the evaluations of the lockout ("prevents
\* another switch for that many bars"), though the count of the candidate goes on
\* through it and bars that are volatile lie in between.
SwitchesApart == [][Switched => since >= Lockout - 1]_vars

\* A switch needs the candidate confirmed without a break: the last evaluations,
\* this one included, all pointed to the regime switched to ("until the signal has
\* held for MIN_CONFIRM_BARS").
SwitchConfirmed == [][Switched => \A i \in 1..MinConfirm : agreed'[i] = current']_vars

\* A market that trends from some bar on, beyond the rounding of the average, is
\* recognised in the end, whichever regime was current, pending or locked before -
\* unless restarts keep making the detector forget.
Trending == ~bar.volatile /\ bar.raw >= Upper + Smooth
Recognised == <>[]Trending /\ <>[][~Restart]_vars => <>[](current = "TRENDING")
=============================================================================
