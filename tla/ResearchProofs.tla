--------------------------- MODULE ResearchProofs ---------------------------
(***************************************************************************)
(* Proofs about research and its signals: the windows of the walk-forward   *)
(* optimiser, and, as instances with variables of their own, the regimes of *)
(* the market, the saving of the swing scan's hits, the combination of the  *)
(* strategies' votes, the scoring of saved signals and the rules of the     *)
(* scan.                                                                    *)
(***************************************************************************)
EXTENDS WalkForward, SequenceTheorems, FiniteSetTheorems, WellFoundedInduction, TLAPS

CONSTANTS
  Scale, Upper, Lower, Smooth, MinConfirm, Lockout, Raws,  \* Regime
  Scans, Symbols, Workers, None,                           \* SwingScan
  Steps, Confidences,                                      \* Aggregator
  Signals, FoundOn, Movers, Passes, Horizon, Limit, MaxDay, \* SwingOutcomes
  Candles, Short, Long, Lag, Year, AtrLen, MinBars, LeastValue, MaxDays \* SwingRules

VARIABLES
  bar, smoothed, current, pending, pendingCount, lockout, since, agreed,
  state, arrays, scan, breakouts, table, mixed,
  votes, regime,
  dead, path, today, rows, cache, pass,
  candles

Detect == INSTANCE Regime
Swing == INSTANCE SwingScan
Combine == INSTANCE Aggregator
Score == INSTANCE SwingOutcomes
Rules == INSTANCE SwingRules WITH Bars <- Candles

-----------------------------------------------------------------------------
(* WalkForward                                                             *)

\* The inductive strengthening: every window measured, with its embargo, ends
\* before the bar the next one begins at.
Behind == \A i \in DOMAIN results : results[i].to + Embargo <= start

IInv == TypeOK /\ Separated /\ LongEnough /\ Behind

\* The sizes of a window are numbers no smaller than their least values.
LEMMA Sizes ==
  ASSUME WalkForwardAssumption, TypeOK
  PROVE  /\ IsSize \in Nat /\ IsSize >= MinIS
         /\ OosSize \in Nat /\ OosSize >= MinOOS
         /\ IsEnd \in Nat /\ OosStart \in Nat /\ OosEnd \in Int
         /\ OosEnd <= total /\ OosEnd <= OosStart + OosSize
<1>1. total \in Nat /\ tenths \in Nat /\ wanted \in Nat /\ wanted > 0 /\ 10 - tenths \in Nat
  BY DEF WalkForwardAssumption, TypeOK
<1>2. total * tenths \in Nat /\ total * (10 - tenths) \in Nat /\ 10 * wanted \in Nat /\ 10 * wanted > 0
  BY <1>1
<1>3. 10 * (Purge + Embargo) * wanted \in Nat
  BY <1>1 DEF WalkForwardAssumption
<1>4. IsSize \in Nat /\ IsSize >= MinIS
  BY <1>2 DEF IsSize, Larger, WalkForwardAssumption
<1>5. DEFINE rest == total * (10 - tenths) - 10 * (Purge + Embargo) * wanted
             times == 10 * wanted
<1>6. rest \in Int /\ times \in Nat /\ times > 0
  BY <1>2, <1>3
<1>7. rest \div times \in Int
  <2>1. HIDE DEF rest, times
  <2>2. QED  BY <1>6
<1>8. OosSize = Larger(MinOOS, rest \div times)
  BY DEF OosSize
<1>9. OosSize \in Nat /\ OosSize >= MinOOS
  <2>1. HIDE DEF rest, times
  <2>2. QED  BY <1>7, <1>8 DEF Larger, WalkForwardAssumption
<1>10. IsEnd \in Nat /\ OosStart \in Nat
  BY <1>4 DEF IsEnd, OosStart, TypeOK, WalkForwardAssumption
<1>11. OosEnd \in Int /\ OosEnd <= total /\ OosEnd <= OosStart + OosSize
  BY <1>1, <1>9, <1>10 DEF OosEnd, Smaller
<1>. QED  BY <1>4, <1>9, <1>10, <1>11

LEMMA InitHolds == ASSUME WalkForwardAssumption PROVE Init => IInv
<1>. SUFFICES ASSUME WalkForwardAssumption, Init PROVE IInv
  OBVIOUS
<1>0. wanted \in Nat /\ 0 \in 0..wanted
  <2>1. wanted \in Nat
    BY DEF WalkForwardAssumption, Init
  <2>. QED  BY <2>1
<1>1. wanted \in Nat /\ w \in 0..wanted /\ start \in Nat /\ total \in Totals /\ tenths \in Tenths
      /\ wanted \in Wanted /\ done \in BOOLEAN
  BY <1>0 DEF Init
<1>2. results = <<>> /\ results \in Seq(Window) /\ Len(results) = 0 /\ DOMAIN results = {}
  BY DEF Init
<1>3. TypeOK
  BY <1>1, <1>2 DEF Init, TypeOK
<1>4. Separated /\ LongEnough /\ Behind
  BY <1>2 DEF Separated, LongEnough, Behind
<1>. QED  BY <1>3, <1>4 DEF IInv

LEMMA StepHolds ==
  ASSUME WalkForwardAssumption, IInv, [Next]_vars
  PROVE  IInv'
<1>. USE DEF IInv
<1>1. CASE UNCHANGED vars
  BY <1>1 DEF vars, TypeOK, Separated, LongEnough, Behind
<1>2. CASE Stop
  BY <1>2 DEF Stop, TypeOK, Separated, LongEnough, Behind
<1>3. CASE NoParameters
  <2>0. /\ start \in Nat /\ wanted \in Nat /\ w \in 0..wanted /\ w /= wanted
        /\ Purge \in Nat /\ Embargo \in Nat /\ IsSize \in Nat /\ OosSize \in Nat
        /\ results \in Seq(Window) /\ Len(results) <= w
    BY <1>3, Sizes DEF NoParameters, Ended, TypeOK, WalkForwardAssumption
  <2>a. start' = start + IsSize + Purge + OosSize + Embargo /\ w' = w + 1
        /\ UNCHANGED <<total, tenths, wanted, done, results>>
    BY <1>3 DEF NoParameters, Advance
  <2>1. start' \in Nat /\ start' >= start /\ w' \in 0..wanted' /\ Len(results') <= w'
    BY <2>0, <2>a
  <2>2. TypeOK'
    BY <1>3, <2>1 DEF NoParameters, TypeOK
  <2>3. Separated' /\ LongEnough'
    BY <1>3 DEF NoParameters, Separated, LongEnough
  <2>4. Behind'
    <3>1. SUFFICES ASSUME NEW i \in DOMAIN results
                   PROVE  results[i].to + Embargo <= start'
      BY <1>3 DEF NoParameters, Behind
    <3>2. results[i] \in Window
      BY DEF TypeOK
    <3>. QED  BY SMTT(60), <2>1, <3>2 DEF Behind, Window, TypeOK, WalkForwardAssumption
  <2>. QED  BY <2>2, <2>3, <2>4
<1>4. CASE Measure
  <2>1. PICK g \in Grid :
          results' = Append(results, [isFrom |-> start, isTo |-> IsEnd,
                                      from |-> OosStart, to |-> OosEnd, best |-> g])
    BY <1>4 DEF Measure, Best
  <2>2. DEFINE new == [isFrom |-> start, isTo |-> IsEnd, from |-> OosStart, to |-> OosEnd, best |-> g]
  <2>3. /\ results \in Seq(Window) /\ start \in Nat /\ total \in Nat
        /\ Purge \in Nat /\ Embargo \in Nat /\ MinIS \in Nat /\ MinOOS \in Nat
    BY DEF TypeOK, WalkForwardAssumption
  <2>4. OosEnd - OosStart >= MinOOS /\ ~TooShort /\ w /= wanted
    BY SMTT(60), <1>4, <2>3, Sizes DEF Measure, Ended, TooShort
  <2>5. /\ OosEnd \in Nat /\ OosEnd <= total /\ IsEnd = start + IsSize /\ IsSize >= MinIS
        /\ IsSize \in Nat /\ OosStart = IsEnd + Purge /\ OosStart \in Nat
    <3>1. /\ IsSize \in Nat /\ IsSize >= MinIS /\ OosStart \in Nat
          /\ OosEnd \in Int /\ OosEnd <= total
      BY Sizes
    <3>2. IsEnd = start + IsSize /\ OosStart = IsEnd + Purge
      BY DEF IsEnd, OosStart
    <3>3. OosEnd \in Nat
      <4>1. HIDE DEF OosEnd, OosStart
      <4>2. QED  BY <2>3, <2>4, <3>1
    <3>. QED  BY <3>1, <3>2, <3>3
  <2>6. start' = start + IsSize + Purge + (OosEnd - OosStart) + Embargo
    BY <1>4 DEF Measure, Advance
  <2>7. start' = OosEnd + Embargo /\ start' \in Nat /\ start' >= start
    BY <2>3, <2>4, <2>5, <2>6
  <2>8. new \in Window
    BY <2>3, <2>5 DEF Window
  <2>9. /\ new.isFrom = start /\ new.isTo = IsEnd /\ new.from = OosStart /\ new.to = OosEnd
    OBVIOUS
  <2>10. /\ results' \in Seq(Window) /\ Len(results') = Len(results) + 1
         /\ \A i \in DOMAIN results : results'[i] = results[i]
         /\ results'[Len(results) + 1] = new
         /\ DOMAIN results' = DOMAIN results \cup {Len(results) + 1}
         /\ \A i \in DOMAIN results : i < Len(results) + 1 /\ results[i] \in Window
    <3>1. HIDE DEF new
    <3>2. results' = Append(results, new)
      BY <2>1 DEF new
    <3>3. QED  BY <2>3, <2>8, <3>2
  <2>11. HIDE DEF new
  <2>12. TypeOK'
    BY <1>4, <2>4, <2>7, <2>10 DEF Measure, TypeOK
  <2>13. \A i \in DOMAIN results' :
           /\ results'[i].isTo + Purge <= results'[i].from /\ results'[i].to <= total
           /\ results'[i].to - results'[i].from >= MinOOS
           /\ results'[i].isTo - results'[i].isFrom >= MinIS
           /\ results'[i].to + Embargo <= start'
    <3>1. TAKE i \in DOMAIN results'
    <3>2. CASE i \in DOMAIN results
      <4>1. results'[i] = results[i] /\ results[i] \in Window
        BY <2>10, <3>2
      <4>2. /\ results[i].isTo + Purge <= results[i].from /\ results[i].to <= total
            /\ results[i].to - results[i].from >= MinOOS
            /\ results[i].isTo - results[i].isFrom >= MinIS
            /\ results[i].to + Embargo <= start
        BY <3>2 DEF Separated, LongEnough, Behind
      <4>3. results[i].to \in Nat
        BY <4>1 DEF Window
      <4>. QED  BY <2>3, <2>7, <4>1, <4>2, <4>3
    <3>3. CASE i = Len(results) + 1
      <4>1. results'[i] = new
        BY <2>10, <3>3
      <4>2. /\ new.isTo + Purge <= new.from /\ new.to <= total /\ new.to + Embargo <= start'
        BY <2>3, <2>5, <2>7, <2>9
      <4>3. new.to - new.from >= MinOOS
        BY <2>4, <2>9
      <4>4. new.isTo - new.isFrom >= MinIS
        BY <2>3, <2>5, <2>9
      <4>. QED  BY <4>1, <4>2, <4>3, <4>4
    <3>. QED  BY <2>10, <3>2, <3>3
  <2>14. ASSUME NEW i \in DOMAIN results', NEW j \in DOMAIN results', i < j
         PROVE  results'[i].to + Embargo <= results'[j].isFrom
    <3>1. i \in DOMAIN results
      BY <2>3, <2>10, <2>14
    <3>2. CASE j \in DOMAIN results
      BY <2>10, <2>14, <3>1, <3>2 DEF Separated
    <3>3. CASE j = Len(results) + 1
      BY <2>9, <2>10, <3>1, <3>3 DEF Behind
    <3>. QED  BY <2>10, <3>2, <3>3
  <2>15. total' = total
    BY <1>4 DEF Measure
  <2>16. Separated'
    BY <2>13, <2>14, <2>15 DEF Separated
  <2>17. LongEnough' /\ Behind'
    BY <2>13 DEF LongEnough, Behind
  <2>. QED  BY <2>12, <2>16, <2>17
<1>. QED  BY <1>1, <1>2, <1>3, <1>4 DEF Next

LEMMA Inductive == ASSUME WalkForwardAssumption PROVE Spec => []IInv
<1>1. Init => IInv  BY InitHolds
<1>2. IInv /\ [Next]_vars => IInv'  BY StepHolds
<1>. QED  BY <1>1, <1>2, PTL DEF Spec

\* No out-of-sample bar is an in-sample bar of any window, purge and embargo lie
\* between, no window is optimised or measured on fewer bars than the least, and the
\* optimiser's state keeps its type, for every history and every choice of the bounds.
THEOREM WindowsAreRight == ASSUME WalkForwardAssumption PROVE Spec => []WindowsRight
<1>1. IInv => WindowsRight  BY DEF IInv, WindowsRight
<1>. QED  BY <1>1, Inductive, PTL

-----------------------------------------------------------------------------
(* Regime                                                                  *)

\* What the evaluations since a switch have used up of the lockout, they have at most added to
\* the count and at least added to the history; a count that is complete waits for the lockout
\* only; and the candidates counted are the newest of the history.
Waiting ==
  /\ lockout > 0 => pendingCount + lockout <= Lockout
  /\ lockout = 0 => pendingCount < MinConfirm
  /\ since \in Nat /\ since + lockout >= Lockout
  /\ agreed \in [1..MinConfirm -> Detect!Confirmed \cup {"NONE"}]
  /\ \A i \in 1..MinConfirm : i <= pendingCount => agreed[i] = pending

RegimeInv == Detect!TypeOK /\ Waiting

\* The average of two values of the grid is one, whatever the rounding.
LEMMA AverageStays ==
  ASSUME NEW a \in 0..Scale, NEW b \in 0..Scale, Detect!RegimeAssumption
  PROVE  (2 * (2 * a + (Smooth - 1) * b) + Smooth + 1) \div (2 * (Smooth + 1)) \in 0..Scale
<1> DEFINE N == 2 * (2 * a + (Smooth - 1) * b) + Smooth + 1
           D == 2 * (Smooth + 1)
           q == N \div D
<1>1. Smooth \in Nat /\ Smooth > 0 /\ Scale \in Nat /\ a \in Nat /\ b \in Nat
  BY DEF Detect!RegimeAssumption
<1>2. (Smooth - 1) * b \in Nat /\ (Smooth - 1) * Scale \in Nat
      /\ (Smooth - 1) * b <= (Smooth - 1) * Scale
  <2> DEFINE m == Smooth - 1
  <2>1. m \in Nat /\ b <= Scale
    BY <1>1
  <2>2. m * b \in Nat /\ m * Scale \in Nat /\ m * b <= m * Scale
    <3> HIDE DEF m
    <3> QED
      BY <1>1, <2>1
  <2> QED
    BY <2>2
<1>3. (Smooth - 1) * Scale = Smooth * Scale - Scale /\ Smooth * Scale \in Nat
  BY <1>1
<1>4. D * (Scale + 1) = 2 * (Smooth * Scale) + 2 * Scale + 2 * Smooth + 2
  BY <1>1
<1>5. N \in Nat /\ D \in Nat /\ D > 0 /\ N < D * (Scale + 1)
  BY <1>1, <1>2, <1>3, <1>4
<1>6. q \in 0..Scale
  <2> HIDE DEF N, D
  <2>1. q \in Int /\ D * q <= N /\ N < D * (q + 1)
    BY <1>5
  <2>2. q >= 0
    <3>1. SUFFICES ASSUME q + 1 <= 0 PROVE FALSE
      BY <2>1
    <3>2. D * (q + 1) <= 0
      BY <1>5, <2>1, <3>1
    <3> QED
      BY <1>5, <2>1, <3>2
  <2>3. q <= Scale
    <3>1. SUFFICES ASSUME q >= Scale + 1 PROVE FALSE
      BY <1>1, <2>1
    <3>2. D * q >= D * (Scale + 1)
      BY <1>1, <1>5, <2>1, <3>1
    <3> QED
      BY <1>1, <1>5, <2>1, <3>2
  <2> QED
    BY <1>1, <2>1, <2>2, <2>3
<1> QED
  BY <1>6

LEMMA Forgotten ==
  ASSUME Detect!RegimeAssumption, bar' \in Detect!Bars,
         smoothed' = Scale \div 2, current' = "UNKNOWN", pending' = "NONE", pendingCount' = 0,
         lockout' = 0, since' = Lockout, agreed' = [i \in 1..MinConfirm |-> "NONE"]
  PROVE  RegimeInv'
<1>1. Scale \div 2 \in 0..Scale
  BY DEF Detect!RegimeAssumption
<1>2. Detect!TypeOK'
  BY <1>1 DEF Detect!TypeOK, Detect!RegimeAssumption, Detect!Confirmed
<1>3. Waiting'
  BY DEF Waiting, Detect!RegimeAssumption, Detect!Confirmed
<1> QED
  BY <1>2, <1>3 DEF RegimeInv

\* The part of Evaluate that the lockout and the count decide.
LEMMA Evaluated ==
  ASSUME Detect!RegimeAssumption, RegimeInv, Detect!Evaluate
  PROVE  /\ RegimeInv'
         /\ Detect!Switched => since >= Lockout - 1
         /\ Detect!Switched => \A i \in 1..MinConfirm : agreed'[i] = current'
<1> DEFINE s == Detect!Ema(bar.raw)
           c == Detect!Candidate(s)
           n == Detect!Count(c)
           free == IF lockout > 0 THEN lockout - 1 ELSE 0
           switch == n >= MinConfirm /\ free = 0
<1>1. s \in 0..Scale
  <2>1. bar.raw \in 0..Scale /\ smoothed \in 0..Scale
    BY DEF RegimeInv, Detect!TypeOK, Detect!Bars, Detect!RegimeAssumption
  <2> QED
    BY <2>1, AverageStays DEF Detect!Ema
<1>2. c \in Detect!Confirmed
  BY DEF Detect!Candidate, RegimeInv, Detect!TypeOK, Detect!Confirmed
<1>3. /\ smoothed' = s /\ bar' = bar
      /\ agreed' = [i \in 1..MinConfirm |-> IF i = 1 THEN c ELSE agreed[i - 1]]
      /\ switch => /\ current' = c /\ pending' = "NONE" /\ pendingCount' = 0
                   /\ lockout' = Lockout /\ since' = 0
      /\ ~switch => /\ pending' = IF c = current THEN "NONE" ELSE c
                    /\ pendingCount' = n /\ lockout' = free
                    /\ since' = Detect!Counted(since) /\ current' = current
  BY DEF Detect!Evaluate, Detect!LockAfterSwitch
<1>4. /\ pendingCount \in Nat /\ lockout \in 0..Lockout /\ Lockout \in Nat
      /\ MinConfirm \in Nat /\ MinConfirm > 0 /\ since \in Nat
      /\ bar \in Detect!Bars /\ current \in Detect!Confirmed \cup {"UNKNOWN"}
      /\ pending \in Detect!Confirmed \cup {"NONE"} /\ pending # current
      /\ pendingCount = 0 <=> pending = "NONE"
  BY DEF RegimeInv, Waiting, Detect!TypeOK, Detect!RegimeAssumption
<1>5. Waiting
  BY DEF RegimeInv
<1>6. /\ n \in Nat /\ n <= pendingCount + 1
      /\ c = current => n = 0
      /\ c # current => n >= 1 /\ (n > 1 => c = pending /\ n = pendingCount + 1)
      /\ c # current /\ c # pending => n = 1
  BY <1>4 DEF Detect!Count
<1> HIDE DEF n, c, s
\* The newest n candidates, with this one, are c.
<1>7. c # current => \A i \in 1..MinConfirm : i <= n => agreed'[i] = c
  <2> SUFFICES ASSUME c # current, NEW i \in 1..MinConfirm, i <= n PROVE agreed'[i] = c
    OBVIOUS
  <2>1. CASE i = 1
    BY <1>3, <1>4, <2>1
  <2>2. CASE i # 1
    <3>1. i - 1 \in 1..MinConfirm /\ i - 1 <= pendingCount /\ c = pending
      BY <1>4, <1>6, <2>2
    <3>2. agreed[i - 1] = pending
      BY <1>5, <3>1 DEF Waiting
    <3> QED
      BY <1>3, <2>2, <3>1, <3>2
  <2> QED
    BY <2>1, <2>2
<1>8. agreed' \in [1..MinConfirm -> Detect!Confirmed \cup {"NONE"}]
  <2>1. agreed \in [1..MinConfirm -> Detect!Confirmed \cup {"NONE"}]
    BY <1>5 DEF Waiting
  <2> QED
    BY <1>2, <1>3, <1>4, <2>1
<1>9. CASE switch
  <2>1. current' = c /\ pending' = "NONE" /\ pendingCount' = 0 /\ lockout' = Lockout /\ since' = 0
    BY <1>3, <1>9
  <2>2. c # current /\ lockout <= 1
    BY <1>4, <1>6, <1>9
  <2>3. Detect!TypeOK'
    BY <1>1, <1>2, <1>3, <1>4, <2>1 DEF Detect!TypeOK, Detect!Confirmed
  <2>4. Waiting'
    BY <1>4, <1>8, <2>1 DEF Waiting
  <2>5. since >= Lockout - 1
    BY <1>4, <1>5, <2>2 DEF Waiting
  <2>6. \A i \in 1..MinConfirm : agreed'[i] = current'
    BY <1>4, <1>6, <1>7, <1>9, <2>1, <2>2
  <2> QED
    BY <2>3, <2>4, <2>5, <2>6 DEF RegimeInv
<1>10. CASE ~switch
  <2>1. /\ pending' = IF c = current THEN "NONE" ELSE c
        /\ pendingCount' = n /\ lockout' = free /\ current' = current
        /\ since' = IF since < Lockout THEN since + 1 ELSE since
    BY <1>3, <1>10 DEF Detect!Counted
  <2>2. /\ free \in 0..Lockout
        /\ free > 0 => n + free <= Lockout
        /\ free = 0 => n < MinConfirm
    BY <1>4, <1>5, <1>6, <1>10 DEF Waiting
  <2>3. Detect!TypeOK'
    <3>1. pending' \in Detect!Confirmed \cup {"NONE"} /\ pending' # current'
          /\ (pendingCount' = 0 <=> pending' = "NONE")
      BY <1>2, <1>4, <1>6, <2>1 DEF Detect!Confirmed
    <3>2. pendingCount' < MinConfirm \/ pendingCount' <= Lockout
      BY <1>4, <1>6, <2>1, <2>2
    <3> QED
      BY <1>1, <1>3, <1>4, <1>6, <2>1, <2>2, <3>1, <3>2 DEF Detect!TypeOK
  <2>4. since' \in Nat /\ since' + lockout' >= Lockout
    BY <1>4, <1>5, <2>1 DEF Waiting
  <2>5. \A i \in 1..MinConfirm : i <= pendingCount' => agreed'[i] = pending'
    BY <1>4, <1>6, <1>7, <2>1
  <2>6. Waiting'
    BY <1>8, <2>1, <2>2, <2>4, <2>5 DEF Waiting
  <2> QED
    BY <2>1, <2>3, <2>6 DEF RegimeInv, Detect!Switched
<1> QED
  BY <1>9, <1>10

LEMMA RegimeStep ==
  ASSUME Detect!RegimeAssumption, RegimeInv, [Detect!Next]_(Detect!vars)
  PROVE  /\ RegimeInv'
         /\ Detect!Switched => since >= Lockout - 1
         /\ Detect!Switched => \A i \in 1..MinConfirm : agreed'[i] = current'
<1>1. CASE Detect!Evaluate
  BY <1>1, Evaluated
<1>2. CASE Detect!Restart
  <2>1. bar' \in Detect!Bars
    BY <1>2 DEF Detect!Restart, RegimeInv, Detect!TypeOK
  <2>2. RegimeInv'
    BY <1>2, <2>1, Forgotten DEF Detect!Restart
  <2> QED
    BY <1>2, <2>2 DEF Detect!Restart, Detect!Switched
<1>3. CASE Detect!NewBar \/ Detect!EvaluateVolatile \/ UNCHANGED Detect!vars
  <2>1. bar' \in Detect!Bars
        /\ UNCHANGED <<smoothed, current, pending, pendingCount, lockout, since, agreed>>
    BY <1>3 DEF Detect!NewBar, Detect!EvaluateVolatile, Detect!vars, RegimeInv, Detect!TypeOK
  <2>2. RegimeInv'
    BY <2>1 DEF RegimeInv, Detect!TypeOK, Waiting
  <2> QED
    BY <2>1, <2>2 DEF Detect!Switched
<1> QED
  BY <1>1, <1>2, <1>3 DEF Detect!Next

LEMMA RegimeHolds == ASSUME Detect!RegimeAssumption PROVE Detect!Spec => []RegimeInv
<1>1. Detect!Init => RegimeInv
  <2> SUFFICES ASSUME Detect!Init PROVE RegimeInv
    OBVIOUS
  <2>1. Scale \div 2 \in 0..Scale
    BY DEF Detect!RegimeAssumption
  <2>2. Detect!TypeOK
    BY <2>1 DEF Detect!Init, Detect!TypeOK, Detect!RegimeAssumption, Detect!Confirmed
  <2>3. Waiting
    BY DEF Detect!Init, Waiting, Detect!RegimeAssumption, Detect!Confirmed
  <2> QED
    BY <2>2, <2>3 DEF RegimeInv
<1>2. RegimeInv /\ [Detect!Next]_(Detect!vars) => RegimeInv'
  BY RegimeStep
<1> QED
  BY <1>1, <1>2, PTL DEF Detect!Spec

\* After a switch the regime stays for the evaluations of the lockout, though the candidate goes
\* on being counted and other bars and volatile ones lie between (regimeDetector.js
\* _applyHysteresis, LOCKOUT_BARS).
THEOREM SwitchesKeepApart == ASSUME Detect!RegimeAssumption PROVE Detect!Spec => Detect!SwitchesApart
<1>1. RegimeInv /\ [Detect!Next]_(Detect!vars) => [Detect!Switched => since >= Lockout - 1]_(Detect!vars)
  BY RegimeStep
<1> QED
  BY <1>1, RegimeHolds, PTL DEF Detect!Spec, Detect!SwitchesApart

\* A regime is switched to only when the last MIN_CONFIRM_BARS candidates without a break were
\* that regime (regimeDetector.js _applyHysteresis).
THEOREM SwitchesAreConfirmed == ASSUME Detect!RegimeAssumption PROVE Detect!Spec => Detect!SwitchConfirmed
<1>1. RegimeInv /\ [Detect!Next]_(Detect!vars) =>
        [Detect!Switched => \A i \in 1..MinConfirm : agreed'[i] = current']_(Detect!vars)
  BY RegimeStep
<1> QED
  BY <1>1, RegimeHolds, PTL DEF Detect!Spec, Detect!SwitchConfirmed

-----------------------------------------------------------------------------
(* SwingScan                                                               *)

SharedState == [running : BOOLEAN, done : Int, total : Int, hits : Scans \cup {None},
                errors : Int, failed : BOOLEAN]

ScanType == [at : {"idle", "universe", "prefilter", "workers", "persist", "over"},
             rest : SUBSET Symbols, busy : SUBSET Symbols, left : SUBSET Symbols,
             list : Scans \cup {None}, next : Nat]

\* Scan x has gone through the entries of its list before the next one, and is over only when there
\* is none, unless an error has ended it.
Saving(x) ==
  scan[x].next > 0 =>
    /\ \A i \in 1..Len(arrays[scan[x].list]) : i < scan[x].next => arrays[scan[x].list][i] \in table
    /\ scan[x].at = "over" => scan[x].next > Len(arrays[scan[x].list])

\* When no scan works, the last one to finish saves, or has saved, the list on display, which
\* nobody changes any more.
LastSaves ==
  Swing!Running = {} /\ state.hits # None =>
    \E x \in Scans : scan[x].at \in {"persist", "over"} /\ scan[x].list = state.hits /\ Saving(x)

SwingInv ==
  /\ state \in SharedState
  /\ arrays \in [Scans -> Seq(breakouts)]
  /\ scan \in [Scans -> ScanType]
  /\ breakouts \subseteq Symbols /\ table \subseteq breakouts
  /\ \A x \in Scans :
       /\ Swing!Working(x) => state.hits \in Scans
       /\ scan[x].at \in {"idle", "universe", "prefilter", "workers"} => scan[x].next = 1
       /\ scan[x].at = "persist" => scan[x].list \in Scans /\ scan[x].next > 0
  /\ LastSaves

\* Sorting a list without repetitions leaves breakouts in it.
LEMMA Sorted ==
  ASSUME Swing!ScanAssumption, breakouts \subseteq Symbols, NEW b \in Seq(breakouts),
         NEW a \in Swing!SetToSeqs(Swing!ToSet(b))
  PROVE  a \in Seq(breakouts)
<1> DEFINE T == Swing!ToSet(b)
           n == Swing!Cardinality(T)
<1>1. T \subseteq breakouts
  BY LenProperties, ElementOfSeq DEF Swing!ToSet
<1>2. IsFiniteSet(Symbols)
  BY Zenon DEF Swing!ScanAssumption, Swing!IsFiniteSet, IsFiniteSet
<1>3. IsFiniteSet(T)
  BY <1>1, <1>2, FS_Subset
<1>4. n = Cardinality(T)
  BY Zenon DEF Swing!Cardinality, Cardinality, Swing!IsFiniteSet, IsFiniteSet
<1>5. n \in Nat
  BY <1>3, <1>4, FS_CardinalityType
<1>6. a \in [1..n -> T]
  BY DEF Swing!SetToSeqs
<1> HIDE DEF T, n
<1> QED
  BY <1>1, <1>5, <1>6

LEMMA SwingInit == ASSUME Swing!ScanAssumption, Swing!Init PROVE SwingInv
<1>1. state \in SharedState
  <2>1. FALSE \in BOOLEAN
    OBVIOUS
  <2> QED
    BY <2>1 DEF Swing!Init, SharedState
<1>2. /\ arrays \in [Scans -> Seq(breakouts)]
      /\ scan \in [Scans -> ScanType]
  BY DEF Swing!Init, Swing!Idle, ScanType
<1>3. \A x \in Scans : scan[x].at = "idle" /\ scan[x].next = 1
  BY DEF Swing!Init, Swing!Idle
<1>4. breakouts \subseteq Symbols /\ table = {} /\ state.hits = None
  BY DEF Swing!Init
<1> QED
  BY <1>1, <1>2, <1>3, <1>4 DEF SwingInv, LastSaves, Swing!Working

\* What a request, the workers and the pre-filter change of a scan says nothing about its list.
LEMMA ScanWorks ==
  ASSUME Swing!ScanAssumption, SwingInv, NEW x \in Scans,
         Swing!Request(x) \/ Swing!Begin(x) \/ Swing!Prefilter(x) \/ Swing!Take(x) \/ Swing!Fetched(x)
  PROVE  SwingInv'
<1>0. scan \in [Scans -> ScanType] /\ state \in SharedState /\ arrays \in [Scans -> Seq(breakouts)]
  BY DEF SwingInv
<1>1. /\ scan[x].at \in {"idle", "universe", "prefilter", "workers"}
      /\ UNCHANGED <<breakouts, table>>
      /\ \A y \in Scans : y # x => scan'[y] = scan[y]
  BY <1>0 DEF Swing!Request, Swing!Begin, Swing!Prefilter, Swing!Take, Swing!Fetched
<1>2. /\ scan' \in [Scans -> ScanType]
      /\ scan'[x].list = scan[x].list /\ scan'[x].next = scan[x].next
      /\ scan'[x].at = IF Swing!Request(x) THEN scan'[x].at ELSE IF Swing!Begin(x) THEN "prefilter" ELSE "workers"
      /\ Swing!Request(x) => scan'[x].at \in {"universe", "over"}
  <2>1. scan[x] \in ScanType
    BY <1>0
  <2>2. CASE Swing!Request(x)
    <3>1. PICK at \in {"universe", "over"} : scan' = [scan EXCEPT ![x].at = at]
      BY <2>2 DEF Swing!Request
    <3>2. scan' \in [Scans -> ScanType] /\ scan'[x] = [scan[x] EXCEPT !.at = at]
      BY <1>0, <2>1, <3>1 DEF ScanType
    <3> QED
      BY <2>1, <2>2, <3>1, <3>2 DEF ScanType
  <2>3. CASE Swing!Begin(x)
    BY <1>0, <2>1, <2>3 DEF Swing!Begin, ScanType, Swing!Request
  <2>4. CASE Swing!Prefilter(x)
    <3>1. PICK K \in SUBSET Symbols :
            scan' = [scan EXCEPT ![x].at = "workers", ![x].left = K, ![x].rest = {}]
      BY <2>1, <2>4 DEF Swing!Prefilter, Swing!Chunk, ScanType
    <3> QED
      BY <1>0, <2>1, <2>4, <3>1 DEF Swing!Prefilter, ScanType, Swing!Request, Swing!Begin
  <2>5. CASE Swing!Take(x)
    <3>1. PICK s \in scan[x].left :
            scan' = [scan EXCEPT ![x].left = @ \ {s}, ![x].busy = @ \cup {s}]
      BY <2>5 DEF Swing!Take
    <3> QED
      BY ZenonT(40), <1>0, <2>1, <2>5, <3>1 DEF Swing!Take, ScanType, Swing!Request, Swing!Begin
  <2>6. CASE Swing!Fetched(x)
    <3>1. PICK s \in scan[x].busy : scan' = [scan EXCEPT ![x].busy = @ \ {s}]
      BY <2>6 DEF Swing!Fetched
    <3> QED
      BY <1>0, <2>1, <2>6, <3>1 DEF Swing!Fetched, ScanType, Swing!Request, Swing!Begin
  <2> QED
    BY <2>2, <2>3, <2>4, <2>5, <2>6
<1>3. state' \in SharedState /\ (state'.hits = IF Swing!Begin(x) THEN x ELSE state.hits)
  <2>1. \A K \in SUBSET Symbols : Swing!Cardinality(K) \in Int
    <3>1. IsFiniteSet(Symbols)
      BY Zenon DEF Swing!ScanAssumption, Swing!IsFiniteSet, IsFiniteSet
    <3>2. \A K : Swing!Cardinality(K) = Cardinality(K)
      BY Zenon DEF Swing!Cardinality, Cardinality, Swing!IsFiniteSet, IsFiniteSet
    <3> QED
      BY <3>1, <3>2, FS_Subset, FS_CardinalityType
  <2>2. Swing!Cardinality(Symbols) \in Int /\ TRUE \in BOOLEAN /\ FALSE \in BOOLEAN
    BY <2>1
  <2>3. CASE Swing!Begin(x)
    <3>1. state' = [running |-> TRUE, done |-> 0, total |-> Swing!Cardinality(Symbols), hits |-> x,
                    errors |-> 0, failed |-> FALSE]
      BY <2>3 DEF Swing!Begin
    <3> QED
      BY <2>2, <2>3, <3>1 DEF SharedState
  <2>4. CASE Swing!Request(x)
    <3>1. ~Swing!Begin(x)
      BY <2>4 DEF Swing!Request, Swing!Begin
    <3>2. state' = state \/ state' = [state EXCEPT !.failed = TRUE]
      BY <2>4 DEF Swing!Request
    <3> QED
      BY <1>0, <2>2, <3>1, <3>2 DEF SharedState
  <2>5. CASE Swing!Prefilter(x)
    <3>1. ~Swing!Begin(x)
      BY <2>5 DEF Swing!Prefilter, Swing!Begin
    <3>2. PICK K \in SUBSET Symbols :
            state' = [state EXCEPT !.done = Swing!Cardinality(Symbols) - Swing!Cardinality(K)]
      BY <1>0, <2>5 DEF Swing!Prefilter, Swing!Chunk, ScanType
    <3>3. Swing!Cardinality(Symbols) - Swing!Cardinality(K) \in Int
      BY <2>1, <2>2
    <3> QED
      BY <1>0, <3>1, <3>2, <3>3 DEF SharedState
  <2>6. CASE Swing!Take(x)
    BY <1>0, <2>6 DEF Swing!Take, Swing!Begin
  <2>7. CASE Swing!Fetched(x)
    <3>1. ~Swing!Begin(x)
      BY <2>7 DEF Swing!Fetched, Swing!Begin
    <3>2. PICK failed \in BOOLEAN : state' = Swing!Counted(failed)
      BY <2>7 DEF Swing!Fetched
    <3>3. PICK d \in Int, e \in Int : state' = [state EXCEPT !.done = d, !.errors = e]
      <4>1. state.done + 1 \in Int /\ state.errors + 1 \in Int /\ state.errors \in Int
        BY <1>0 DEF SharedState
      <4>2. state' = [state EXCEPT !.done = state.done + 1,
                                   !.errors = IF failed THEN state.errors + 1 ELSE state.errors]
        BY <3>2 DEF Swing!Counted
      <4>3. (IF failed THEN state.errors + 1 ELSE state.errors) \in Int
        BY <4>1
      <4> QED
        BY <4>1, <4>2, <4>3, Zenon
    <3> QED
      BY <1>0, <3>1, <3>3 DEF SharedState
  <2> QED
    BY <2>3, <2>4, <2>5, <2>6, <2>7
<1>4. arrays' \in [Scans -> Seq(breakouts)] /\ (~Swing!Fetched(x) => arrays' = arrays)
  <2>1. CASE Swing!Fetched(x)
    <3>1. Swing!Working(x) /\ state.hits \in Scans
      BY <2>1 DEF SwingInv, Swing!Fetched, Swing!Working
    <3>2. arrays' = arrays \/ \E s \in breakouts : arrays' = [arrays EXCEPT ![state.hits] = Append(@, s)]
      BY <2>1 DEF Swing!Fetched
    <3>3. \A s \in breakouts : Append(arrays[state.hits], s) \in Seq(breakouts)
      BY <1>0, <3>1, AppendProperties
    <3> QED
      BY <1>0, <2>1, <3>1, <3>2, <3>3
  <2>2. CASE ~Swing!Fetched(x)
    BY <1>0, <2>2 DEF Swing!Request, Swing!Begin, Swing!Prefilter, Swing!Take
  <2> QED
    BY <2>1, <2>2
<1>5. breakouts' \subseteq Symbols /\ table' \subseteq breakouts'
  BY <1>1 DEF SwingInv
<1>6. \A y \in Scans :
        /\ Swing!Working(y)' => state'.hits \in Scans
        /\ scan'[y].at \in {"idle", "universe", "prefilter", "workers"} => scan'[y].next = 1
        /\ scan'[y].at = "persist" => scan'[y].list \in Scans /\ scan'[y].next > 0
  <2> TAKE y \in Scans
  <2>1. CASE y # x
    BY <1>1, <1>3, <2>1 DEF SwingInv, Swing!Working
  <2>2. CASE y = x
    <3>1. scan[x].next = 1
      BY SMTT(60), <1>1 DEF SwingInv
    <3>2. Swing!Prefilter(x) \/ Swing!Take(x) \/ Swing!Fetched(x) => Swing!Working(x)
      BY DEF Swing!Prefilter, Swing!Take, Swing!Fetched, Swing!Working
    <3>3. Swing!Working(x) => state.hits \in Scans
      BY DEF SwingInv
    <3> QED
      BY <1>2, <1>3, <2>2, <3>1, <3>2, <3>3 DEF Swing!Working
  <2> QED
    BY <2>1, <2>2
<1>7. LastSaves'
  <2>1. CASE Swing!Request(x)
    <3>1. ~Swing!Working(x) /\ ~Swing!Working(x)' /\ scan[x].at = "idle"
      BY <1>2, <2>1 DEF Swing!Request, Swing!Working
    <3>2. Swing!Running' = Swing!Running
      BY <1>1, <3>1 DEF Swing!Running, Swing!Working
    <3>3. state'.hits = state.hits /\ arrays' = arrays
      BY <1>3, <1>4, <2>1 DEF Swing!Request, Swing!Begin, Swing!Fetched
    <3>4. ASSUME Swing!Running = {}, state.hits # None
          PROVE  \E y \in Scans : scan'[y].at \in {"persist", "over"} /\ scan'[y].list = state'.hits /\ Saving(y)'
      <4>1. PICK y \in Scans : scan[y].at \in {"persist", "over"} /\ scan[y].list = state.hits /\ Saving(y)
        BY <3>4 DEF SwingInv, LastSaves
      <4>2. scan'[y] = scan[y]
        BY <1>1, <3>1, <4>1
      <4>3. Saving(y)'
        BY <1>1, <3>3, <4>1, <4>2 DEF Saving
      <4> QED
        BY <3>3, <4>1, <4>2, <4>3
    <3> QED
      BY <3>2, <3>3, <3>4 DEF LastSaves
  <2>2. CASE ~Swing!Request(x)
    <3>1. Swing!Working(x)'
      BY <1>2, <2>2 DEF Swing!Working
    <3> QED
      BY <3>1 DEF LastSaves, Swing!Running
  <2> QED
    BY <2>1, <2>2
<1> QED
  BY <1>1, <1>2, <1>3, <1>4, <1>5, <1>6, <1>7 DEF SwingInv

LEMMA ScanFinishes ==
  ASSUME Swing!ScanAssumption, SwingInv, NEW x \in Scans, Swing!Finish(x)
  PROVE  SwingInv'
<1>0. scan \in [Scans -> ScanType] /\ state \in SharedState /\ arrays \in [Scans -> Seq(breakouts)]
      /\ breakouts \subseteq Symbols /\ scan[x] \in ScanType
  BY DEF SwingInv
<1>1. /\ scan[x].at = "workers" /\ scan[x].next = 1 /\ state.hits \in Scans
  BY DEF SwingInv, Swing!Finish, Swing!Working
<1>2. /\ scan' = [scan EXCEPT ![x].at = "persist", ![x].list = state.hits]
      /\ UNCHANGED <<breakouts, table>>
      /\ state' = Swing!Ended
  BY DEF Swing!Finish
<1>3. /\ scan' \in [Scans -> ScanType]
      /\ \A y \in Scans : y # x => scan'[y] = scan[y]
      /\ scan'[x].at = "persist" /\ scan'[x].list = state.hits /\ scan'[x].next = 1
  BY <1>0, <1>1, <1>2 DEF ScanType
<1>4. state' \in SharedState /\ state'.hits = state.hits
  <2>1. FALSE \in BOOLEAN
    OBVIOUS
  <2> QED
    BY <1>0, <1>2, <2>1 DEF SharedState, Swing!Ended
<1>5. arrays' \in [Scans -> Seq(breakouts)]
  <2>1. PICK a \in Swing!SetToSeqs(Swing!ToSet(arrays[state.hits])) :
          arrays' = arrays \/ arrays' = [arrays EXCEPT ![state.hits] = a]
    BY DEF Swing!Finish
  <2>2. a \in Seq(breakouts)
    BY <1>0, <1>1, Sorted
  <2> QED
    BY <1>0, <1>1, <2>1, <2>2
<1>6. \A y \in Scans :
        /\ Swing!Working(y)' => state'.hits \in Scans
        /\ scan'[y].at \in {"idle", "universe", "prefilter", "workers"} => scan'[y].next = 1
        /\ scan'[y].at = "persist" => scan'[y].list \in Scans /\ scan'[y].next > 0
  <2> TAKE y \in Scans
  <2>1. CASE y = x
    BY <1>1, <1>3, <1>4, <2>1 DEF Swing!Working
  <2>2. CASE y # x
    BY <1>3, <1>4, <2>2 DEF SwingInv, Swing!Working
  <2> QED
    BY <2>1, <2>2
<1>7. LastSaves'
  <2>1. Saving(x)'
    BY <1>3, <1>4, <1>5, LenProperties DEF Saving
  <2> QED
    BY <1>3, <1>4, <2>1 DEF LastSaves
<1>8. breakouts' \subseteq Symbols /\ table' \subseteq breakouts'
  BY <1>2 DEF SwingInv
<1> QED
  BY <1>2, <1>3, <1>4, <1>5, <1>6, <1>7, <1>8 DEF SwingInv

LEMMA ScanSaves ==
  ASSUME SwingInv, NEW x \in Scans, Swing!Persist(x)
  PROVE  SwingInv'
<1> DEFINE a == arrays[scan[x].list]
           i == scan[x].next
<1>0. scan \in [Scans -> ScanType] /\ scan[x] \in ScanType /\ arrays \in [Scans -> Seq(breakouts)]
  BY DEF SwingInv
<1>1. /\ scan[x].at = "persist" /\ scan[x].list \in Scans /\ i \in Nat /\ i > 0
      /\ a \in Seq(breakouts) /\ Len(a) \in Nat
  BY <1>0, LenProperties DEF SwingInv, Swing!Persist, ScanType
<1>2. UNCHANGED <<state, arrays, breakouts>>
  BY DEF Swing!Persist
<1>3. \/ /\ i > Len(a) /\ scan' = [scan EXCEPT ![x].at = "over"] /\ table' = table
      \/ /\ i <= Len(a) /\ scan' = [scan EXCEPT ![x].next = @ + 1] /\ table' = table \cup {a[i]}
      \/ /\ scan' = [scan EXCEPT ![x].at = "over", ![x].next = 0] /\ table' = table
  BY <1>1 DEF Swing!Persist, Swing!AllSaved
<1>4. /\ scan' \in [Scans -> ScanType]
      /\ \A y \in Scans : y # x => scan'[y] = scan[y]
      /\ scan'[x].list = scan[x].list
      /\ scan'[x].at \in {"persist", "over"}
      /\ scan'[x].at = "persist" => scan'[x].next > 0
  <2>1. PICK at \in {"persist", "over"}, n \in Nat :
          /\ scan' = [scan EXCEPT ![x] = [@ EXCEPT !.at = at, !.next = n]]
          /\ at = "persist" => n > 0
    <3>1. CASE i > Len(a) /\ scan' = [scan EXCEPT ![x].at = "over"]
      <4>1. scan' = [scan EXCEPT ![x] = [@ EXCEPT !.at = "over", !.next = i]]
        BY <1>0, <3>1 DEF ScanType
      <4> QED
        BY <1>1, <4>1
    <3>2. CASE scan' = [scan EXCEPT ![x].next = @ + 1]
      <4>1. scan' = [scan EXCEPT ![x] = [@ EXCEPT !.at = "persist", !.next = i + 1]]
        BY <1>0, <1>1, <3>2 DEF ScanType
      <4>2. i + 1 \in Nat /\ i + 1 > 0
        BY <1>1
      <4> QED
        BY <4>1, <4>2, Zenon
    <3>3. CASE scan' = [scan EXCEPT ![x].at = "over", ![x].next = 0]
      <4>1. scan' = [scan EXCEPT ![x] = [@ EXCEPT !.at = "over", !.next = 0]]
        BY <1>0, <3>3 DEF ScanType
      <4> QED
        BY <4>1
    <3> QED
      BY <1>3, <3>1, <3>2, <3>3
  <2>2. scan'[x] = [scan[x] EXCEPT !.at = at, !.next = n]
    BY <1>0, <2>1
  <2> QED
    BY <1>0, <2>1, <2>2 DEF ScanType
<1>5. table \subseteq table' /\ table' \subseteq breakouts
  <2>1. i <= Len(a) => a[i] \in breakouts
    BY <1>1, ElementOfSeq
  <2> QED
    BY <1>3, <2>1 DEF SwingInv
<1>6. \A y \in Scans :
        /\ Swing!Working(y)' => state'.hits \in Scans
        /\ scan'[y].at \in {"idle", "universe", "prefilter", "workers"} => scan'[y].next = 1
        /\ scan'[y].at = "persist" => scan'[y].list \in Scans /\ scan'[y].next > 0
  BY <1>1, <1>2, <1>4 DEF SwingInv, Swing!Working
<1>7. ASSUME NEW y \in Scans, Saving(y), scan[y].list \in Scans PROVE Saving(y)'
  <2>1. CASE y # x
    BY <1>2, <1>4, <1>5, <1>7, <2>1 DEF Saving
  <2>2. CASE y = x
    <3>1. \A j \in 1..Len(a) : j < i => a[j] \in table
      BY <1>1, <1>7, <2>2 DEF Saving
    <3>2. CASE i > Len(a) /\ scan' = [scan EXCEPT ![x].at = "over"] /\ table' = table
      BY <1>0, <1>1, <1>2, <2>2, <3>1, <3>2 DEF Saving, ScanType
    <3>3. CASE i <= Len(a) /\ scan' = [scan EXCEPT ![x].next = @ + 1] /\ table' = table \cup {a[i]}
      <4>1. scan'[x].next = i + 1 /\ scan'[x].at = "persist" /\ scan'[x].list = scan[x].list
        BY <1>0, <1>1, <3>3 DEF ScanType
      <4>2. \A j \in 1..Len(a) : j < i + 1 => a[j] \in table'
        BY <1>1, <3>1, <3>3
      <4> QED
        BY <1>2, <2>2, <4>1, <4>2 DEF Saving
    <3>4. CASE scan' = [scan EXCEPT ![x].at = "over", ![x].next = 0]
      BY <1>0, <2>2, <3>4 DEF Saving, ScanType
    <3> QED
      BY <1>3, <3>2, <3>3, <3>4
  <2> QED
    BY <2>1, <2>2
<1>8. LastSaves'
  <2>1. Swing!Running' = Swing!Running
    BY <1>1, <1>4 DEF Swing!Running, Swing!Working
  <2>2. ASSUME Swing!Running = {}, state.hits # None
        PROVE  \E y \in Scans : scan'[y].at \in {"persist", "over"} /\ scan'[y].list = state'.hits /\ Saving(y)'
    <3>1. PICK y \in Scans : scan[y].at \in {"persist", "over"} /\ scan[y].list = state.hits /\ Saving(y)
      BY <2>2 DEF SwingInv, LastSaves
    <3>2. state.hits \in Scans
      BY <2>2 DEF SwingInv, SharedState
    <3>3. Saving(y)'
      BY <1>7, <3>1, <3>2
    <3> QED
      BY <1>2, <1>4, <3>1, <3>3
  <2> QED
    BY <1>2, <2>1, <2>2 DEF LastSaves
<1> QED
  BY <1>2, <1>4, <1>5, <1>6, <1>8 DEF SwingInv

LEMMA SwingHolds == ASSUME Swing!ScanAssumption PROVE Swing!Spec => []SwingInv
<1>1. SwingInv /\ [Swing!Next]_(Swing!vars) => SwingInv'
  <2> SUFFICES ASSUME SwingInv, [Swing!Next]_(Swing!vars) PROVE SwingInv'
    OBVIOUS
  <2>1. CASE UNCHANGED Swing!vars
    BY <2>1 DEF Swing!vars, SwingInv, LastSaves, Saving, Swing!Running, Swing!Working
  <2>2. CASE \E x \in Scans : Swing!Step(x)
    BY <2>2, ScanWorks, ScanFinishes, ScanSaves DEF Swing!Step
  <2> QED
    BY <2>1, <2>2 DEF Swing!Next, Swing!Done
<1> QED
  BY SwingInit, <1>1, PTL DEF Swing!Spec

\* Whatever scans overlap, nothing but a breakout is saved; and when all are over, and no query of
\* persistHits failed, everything on the list on display is (swingScanService.js runScan, persistHits).
THEOREM HitsAreSaved == ASSUME Swing!ScanAssumption PROVE Swing!Spec => []Swing!HitsSaved
<1>1. SwingInv => Swing!HitsSaved
  <2> SUFFICES ASSUME SwingInv,
                      \A x \in Scans : scan[x].at = "over" /\ scan[x].next > 0, state.hits # None,
                      NEW h \in Swing!ToSet(arrays[state.hits])
               PROVE  h \in table
    BY DEF SwingInv, Swing!HitsSaved
  <2>1. Swing!Running = {}
    BY DEF Swing!Running, Swing!Working
  <2>2. PICK x \in Scans : scan[x].list = state.hits /\ Saving(x)
    BY <2>1 DEF SwingInv, LastSaves
  <2>3. state.hits \in Scans /\ arrays[state.hits] \in Seq(breakouts)
    BY DEF SwingInv, SharedState
  <2>4. PICK i \in 1..Len(arrays[state.hits]) : h = arrays[state.hits][i]
    BY <2>3, LenProperties DEF Swing!ToSet
  <2>5. scan[x].next \in Nat /\ scan[x].next > Len(arrays[state.hits]) /\ Len(arrays[state.hits]) \in Nat
    BY <2>2, <2>3, LenProperties DEF Saving, SwingInv, ScanType
  <2> QED
    BY <2>2, <2>4, <2>5 DEF Saving
<1> QED
  BY <1>1, SwingHolds, PTL

-----------------------------------------------------------------------------
(* Aggregator                                                              *)

\* A vote, and the regime that weighs it.
Vote == [signal : Combine!Signals, conf : Confidences \cup {0}]
RegimeOf == [name : Combine!Regimes, conf : Confidences]

VotesInv == votes \in [Combine!Strategies -> Vote] /\ regime \in RegimeOf

LEMMA VotesHold == ASSUME Combine!AggregatorAssumption PROVE Combine!Spec => []VotesInv
<1>1. Combine!Init => VotesInv
  BY DEF Combine!Init, VotesInv, Vote, RegimeOf, Combine!Signals
<1>2. VotesInv /\ [Combine!Next]_(Combine!vars) => VotesInv'
  BY DEF VotesInv, Vote, Combine!Next, Combine!Speak, Combine!vars
<1> QED
  BY <1>1, <1>2, PTL DEF Combine!Spec

LEMMA QuotientWithin ==
  ASSUME NEW x \in Nat, NEW n \in Nat, NEW m \in Nat \ {0}, x <= n * m
  PROVE  x \div m \in 0..n
<1> DEFINE q == x \div m
<1>1. q \in Int /\ m * q <= x /\ q >= 0
  OBVIOUS
<1> HIDE DEF q
<1>2. SUFFICES ASSUME q >= n + 1 PROVE FALSE
  BY <1>1 DEF q
<1>3. m * q >= m * (n + 1)
  BY <1>1, <1>2
<1>4. m * (n + 1) > n * m
  OBVIOUS
<1> QED
  BY <1>1, <1>3, <1>4

\* What regimes do to weights: each stays within bounds, and a trend or a range that is certain by
\* half or more weighs the strategy it distrusts less than a fifth.
Weighing(wt) ==
  wt["MEAN_REVERSION"] \in 50..700 /\ wt["MA_CROSSOVER"] \in 50..700 /\ wt["RSI"] \in 300..330

Bounded(r, wt) ==
  /\ Weighing(wt)
  /\ 2 * r.conf >= Steps =>
       /\ r.name = "TRENDING" => wt["MEAN_REVERSION"] <= 175 /\ wt["MA_CROSSOVER"] >= 525 /\ wt["RSI"] = 300
       /\ r.name = "SIDEWAYS" => wt["MA_CROSSOVER"] <= 175 /\ wt["MEAN_REVERSION"] >= 525 /\ wt["RSI"] = 300

LEMMA Weighs ==
  ASSUME NEW wt, Weighing(wt)
  PROVE  wt["MEAN_REVERSION"] \in Nat /\ wt["MA_CROSSOVER"] \in Nat /\ wt["RSI"] \in Nat
<1>1. \A x : (x \in 50..700 => x \in Nat) /\ (x \in 300..330 => x \in Nat)
  OBVIOUS
<1> DEFINE a == wt["MEAN_REVERSION"]
           b == wt["MA_CROSSOVER"]
           c == wt["RSI"]
<1>2. a \in 50..700 /\ b \in 50..700 /\ c \in 300..330
  BY Zenon DEF Weighing
<1> HIDE DEF a, b, c
<1>3. a \in Nat /\ b \in Nat /\ c \in Nat
  BY <1>1, <1>2, Zenon
<1> QED
  BY <1>3 DEF a, b, c

LEMMA WeightsBounded ==
  ASSUME Combine!AggregatorAssumption, NEW r \in RegimeOf
  PROVE  Bounded(r, Combine!Weights(r))
<1> DEFINE c == r.conf
           shift == (350 * c) \div Steps
           up == Combine!Clamp(350 + shift, 0, 700)
           down == Combine!Clamp(350 - shift, 50, 350)
           a == (70 * c) \div Steps
           b == (30 * c) \div Steps
           wt == Combine!Weights(r)
<1>1. c \in 0..Steps /\ Steps \in Nat \ {0}
  BY DEF Combine!AggregatorAssumption, RegimeOf
<1>2. shift \in 0..350 /\ a \in 0..70 /\ b \in 0..30 /\ (2 * c >= Steps => shift >= 175)
  <2>1. shift \in 0..350 /\ a \in 0..70 /\ b \in 0..30
    <3>1. 350 * c <= 350 * Steps /\ 70 * c <= 70 * Steps /\ 30 * c <= 30 * Steps
      BY <1>1
    <3>2. 350 * c \in Nat /\ 70 * c \in Nat /\ 30 * c \in Nat
      BY <1>1
    <3> HIDE DEF c
    <3>3. (350 * c) \div Steps \in 0..350
      BY <1>1, <3>1, <3>2, QuotientWithin
    <3>4. (70 * c) \div Steps \in 0..70
      BY <1>1, <3>1, <3>2, QuotientWithin
    <3>5. (30 * c) \div Steps \in 0..30
      BY <1>1, <3>1, <3>2, QuotientWithin
    <3> QED
      BY <1>1, <3>3, <3>4, <3>5 DEF shift, a, b
  <2>2. 2 * c >= Steps => 350 * c >= 175 * Steps
    BY <1>1
  <2>3. 2 * c >= Steps => shift >= 175
    BY <1>1, <2>2
  <2> HIDE DEF c, shift, a, b
  <2> QED
    BY <2>1, <2>3
<1> HIDE DEF shift, a, b
<1>3. up \in 350..700 /\ down \in 50..350 /\ (shift >= 175 => up >= 525 /\ down <= 175)
  BY <1>2 DEF Combine!Clamp
<1> HIDE DEF up, down
<1>4. CASE r.name = "TRENDING"
  <2>1. wt = [Combine!Base EXCEPT !.MEAN_REVERSION = down, !.MA_CROSSOVER = up]
    BY <1>4 DEF Combine!Weights, up, down, shift, c
  <2> HIDE DEF wt
  <2>2. Bounded(r, wt)
    BY <1>2, <1>3, <1>4, <2>1 DEF Combine!Base, Weighing, Bounded, c
  <2> QED
    BY <2>2 DEF wt
<1>5. CASE r.name = "SIDEWAYS"
  <2>1. wt = [Combine!Base EXCEPT !.MEAN_REVERSION = up, !.MA_CROSSOVER = down]
    BY <1>5 DEF Combine!Weights, up, down, shift, c
  <2> HIDE DEF wt
  <2>2. Bounded(r, wt)
    BY <1>2, <1>3, <1>5, <2>1 DEF Combine!Base, Weighing, Bounded, c
  <2> QED
    BY <2>2 DEF wt
<1>6. CASE r.name = "VOLATILE"
  <2>1. wt = [MEAN_REVERSION |-> 350 - a, MA_CROSSOVER |-> 350 - a, RSI |-> 300 + b]
    BY <1>6 DEF Combine!Weights, a, b, c
  <2> HIDE DEF wt
  <2>2. Bounded(r, wt)
    BY <1>2, <1>6, <2>1 DEF Weighing, Bounded, c
  <2> QED
    BY <2>2 DEF wt
<1>7. CASE r.name = "UNKNOWN"
  <2>1. wt = Combine!Base
    BY <1>7 DEF Combine!Weights
  <2> HIDE DEF wt
  <2>2. Bounded(r, wt)
    BY <1>7, <2>1 DEF Combine!Base, Weighing, Bounded
  <2> QED
    BY <2>2 DEF wt
<1> QED
  BY <1>4, <1>5, <1>6, <1>7 DEF RegimeOf, Combine!Regimes


------------------------------------------------------------------------------
Of(v, k) == Combine!Lean(v[k])

\* The score is the sum of what each strategy leans to, by its weight.
LEMMA ScoreIs ==
  ASSUME NEW v, NEW wt
  PROVE  Combine!Score(v, wt) = Of(v, "MEAN_REVERSION") * wt["MEAN_REVERSION"]
           + Of(v, "MA_CROSSOVER") * wt["MA_CROSSOVER"] + Of(v, "RSI") * wt["RSI"]
BY DEF Combine!Score, Combine!Sum3, Combine!Strategies, Of, Combine!Lean

\* A strategy leans no more to either side than it is sure.
LEMMA Leaning ==
  ASSUME Combine!AggregatorAssumption, NEW x \in Vote
  PROVE  /\ x.conf \in 0..Steps
         /\ x.signal = "BUY" => Combine!Lean(x) = x.conf
         /\ x.signal = "SELL" => Combine!Lean(x) = -x.conf
         /\ x.signal = "HOLD" => Combine!Lean(x) = 0
         /\ Combine!Lean(x) \in -Steps..Steps
<1>1. x.conf \in 0..Steps /\ x.signal \in {"BUY", "SELL", "HOLD"} /\ Steps \in Nat
  <2>1. x.signal \in Combine!Signals /\ x.conf \in Confidences \cup {0}
    BY DEF Vote
  <2>2. Steps \in Nat /\ 0 \in 0..Steps /\ Confidences \subseteq 0..Steps
    BY DEF Combine!AggregatorAssumption
  <2> QED
    BY <2>1, <2>2 DEF Combine!Signals
<1> QED
  BY <1>1 DEF Combine!Lean, Combine!Direction

\* The score and the threshold as numbers.
LEMMA Numbers ==
  ASSUME Combine!AggregatorAssumption, NEW v \in [Combine!Strategies -> Vote], NEW wt, Weighing(wt)
  PROVE  /\ Steps \in Nat \ {0}
         /\ \A k \in Combine!Strategies : v[k] \in Vote /\ Of(v, k) \in -Steps..Steps
         /\ wt["MEAN_REVERSION"] \in 50..700 /\ wt["MA_CROSSOVER"] \in 50..700 /\ wt["RSI"] \in 300..330
         /\ Combine!Score(v, wt) \in Int
         /\ Combine!Sum3(wt) = wt["MEAN_REVERSION"] + wt["MA_CROSSOVER"] + wt["RSI"]
         /\ Combine!Sum3(wt) * Steps \in Nat /\ Combine!Sum3(wt) * Steps > 0
<1>1. wt["MEAN_REVERSION"] \in 50..700 /\ wt["MA_CROSSOVER"] \in 50..700 /\ wt["RSI"] \in 300..330
  BY DEF Weighing
<1>2. Steps \in Nat \ {0}
  BY DEF Combine!AggregatorAssumption
<1>3. \A k \in Combine!Strategies : v[k] \in Vote /\ Of(v, k) \in -Steps..Steps
  BY Leaning DEF Of
<1>4. Combine!Score(v, wt) \in Int
  <2>1. Of(v, "MEAN_REVERSION") \in Int /\ Of(v, "MA_CROSSOVER") \in Int /\ Of(v, "RSI") \in Int
    BY <1>2, <1>3 DEF Combine!Strategies
  <2>2. \A a, b, c, x, y, z \in Int : a * x + b * y + c * z \in Int
    OBVIOUS
  <2>3. wt["MEAN_REVERSION"] \in Int /\ wt["MA_CROSSOVER"] \in Int /\ wt["RSI"] \in Int
    BY SMTT(60), <1>1
  <2>4. Of(v, "MEAN_REVERSION") * wt["MEAN_REVERSION"] + Of(v, "MA_CROSSOVER") * wt["MA_CROSSOVER"]
          + Of(v, "RSI") * wt["RSI"] \in Int
    BY <2>1, <2>2, <2>3
  <2> QED
    BY <2>4, ScoreIs
<1>5. Combine!Sum3(wt) = wt["MEAN_REVERSION"] + wt["MA_CROSSOVER"] + wt["RSI"]
  BY DEF Combine!Sum3
<1>6. Combine!Sum3(wt) * Steps \in Nat /\ Combine!Sum3(wt) * Steps > 0
  <2>0. \A x, y \in 50..700, z \in 300..330 : x + y + z \in Nat /\ x + y + z > 0
    OBVIOUS
  <2>1. Combine!Sum3(wt) \in Nat /\ Combine!Sum3(wt) > 0
    <3>1. wt["MEAN_REVERSION"] + wt["MA_CROSSOVER"] + wt["RSI"] \in Nat
          /\ wt["MEAN_REVERSION"] + wt["MA_CROSSOVER"] + wt["RSI"] > 0
      BY <1>1, <2>0, ZenonT(40)
    <3> QED
      BY <1>5, <3>1, Zenon
  <2>2. \A m, n \in Nat : m > 0 /\ n > 0 => m * n \in Nat /\ m * n > 0
    OBVIOUS
  <2> QED
    BY <1>2, <2>1, <2>2
<1> QED
  BY <1>1, <1>2, <1>3, <1>4, <1>5, <1>6

------------------------------------------------------------------------------
\* Reversed votes lean to the other side.
LEMMA FlippedVotes ==
  ASSUME NEW v \in [Combine!Strategies -> Vote]
  PROVE  /\ Combine!Flipped(v) \in [Combine!Strategies -> Vote]
         /\ \A k \in Combine!Strategies, s \in Combine!Signals :
              Combine!Flipped(v)[k].signal = Combine!Flip(s) <=> v[k].signal = s
<1>1. \A s \in Combine!Signals : Combine!Flip(s) \in Combine!Signals
  BY DEF Combine!Flip, Combine!Signals
<1>2. \A s, t \in Combine!Signals : Combine!Flip(s) = Combine!Flip(t) <=> s = t
  BY DEF Combine!Flip, Combine!Signals
<1>3. ASSUME NEW k \in Combine!Strategies
      PROVE  Combine!Flipped(v)[k] \in Vote /\ Combine!Flipped(v)[k].signal = Combine!Flip(v[k].signal)
  <2>1. v[k] \in Vote
    OBVIOUS
  <2>2. Combine!Flipped(v)[k] = [v[k] EXCEPT !.signal = Combine!Flip(v[k].signal)]
    BY DEF Combine!Flipped
  <2> QED
    BY <1>1, <2>1, <2>2 DEF Vote
<1>4. \A k \in Combine!Strategies : v[k].signal \in Combine!Signals
  BY DEF Vote
<1>5. Combine!Flipped(v) \in [Combine!Strategies -> Vote]
  BY <1>3 DEF Combine!Flipped
<1> QED
  BY <1>2, <1>3, <1>4, <1>5

\* Reversed votes have the opposite score.
LEMMA FlippedScore ==
  ASSUME Combine!AggregatorAssumption, NEW v \in [Combine!Strategies -> Vote], NEW wt, Weighing(wt)
  PROVE  Combine!Score(Combine!Flipped(v), wt) = -Combine!Score(v, wt)
<1> DEFINE f == Combine!Flipped(v)
<1>1. ASSUME NEW k \in Combine!Strategies PROVE Of(f, k) = -Of(v, k)
  <2>1. v[k] \in Vote /\ f[k] = [v[k] EXCEPT !.signal = Combine!Flip(v[k].signal)]
    BY DEF Combine!Flipped
  <2>2. f[k].conf = v[k].conf /\ f[k].signal = Combine!Flip(v[k].signal)
    BY <2>1 DEF Vote
  <2>3. v[k].signal \in {"BUY", "SELL", "HOLD"} /\ v[k].conf \in Int
    BY Leaning, <2>1 DEF Vote, Combine!Signals, Combine!AggregatorAssumption
  <2> HIDE DEF f
  <2> QED
    BY <2>2, <2>3 DEF Of, Combine!Lean, Combine!Direction, Combine!Flip
<1>2. \A k \in {"MEAN_REVERSION", "MA_CROSSOVER", "RSI"} : Of(v, k) \in Int
  BY Numbers DEF Combine!Strategies
<1>3. wt["MEAN_REVERSION"] \in Int /\ wt["MA_CROSSOVER"] \in Int /\ wt["RSI"] \in Int
  BY SMTT(60), Numbers
<1>4. \A a, b, c, x, y, z \in Int : (-a) * x + (-b) * y + (-c) * z = -(a * x + b * y + c * z)
  OBVIOUS
<1>5. Combine!Score(f, wt) = (-Of(v, "MEAN_REVERSION")) * wt["MEAN_REVERSION"]
        + (-Of(v, "MA_CROSSOVER")) * wt["MA_CROSSOVER"] + (-Of(v, "RSI")) * wt["RSI"]
  BY <1>1, ScoreIs DEF Combine!Strategies
<1> HIDE DEF f
<1>6. Combine!Score(f, wt) = -(Of(v, "MEAN_REVERSION") * wt["MEAN_REVERSION"]
        + Of(v, "MA_CROSSOVER") * wt["MA_CROSSOVER"] + Of(v, "RSI") * wt["RSI"])
  BY <1>2, <1>3, <1>4, <1>5
<1> QED
  BY <1>6, ScoreIs DEF f

\* The score and its opposite are not both beyond the threshold.
LEMMA Thresholds ==
  ASSUME Combine!AggregatorAssumption, NEW v \in [Combine!Strategies -> Vote], NEW wt, Weighing(wt)
  PROVE  LET S == Combine!Score(v, wt) IN
         /\ Combine!Beyond(S, wt) <=> 5 * S > Combine!Sum3(wt) * Steps
         /\ Combine!Beyond(-S, wt) <=> 5 * S < -(Combine!Sum3(wt) * Steps)
         /\ ~(Combine!Beyond(S, wt) /\ Combine!Beyond(-S, wt))
<1> DEFINE S == Combine!Score(v, wt)
           T == Combine!Sum3(wt) * Steps
<1>1. S \in Int /\ T \in Nat /\ T > 0
  BY Numbers
<1>2. (Combine!Beyond(S, wt) <=> 5 * S > T) /\ (Combine!Beyond(-S, wt) <=> 5 * (-S) > T)
  BY DEF Combine!Beyond
<1> HIDE DEF S, T
<1>3. (5 * (-S) > T <=> 5 * S < -T) /\ ~(5 * S > T /\ 5 * S < -T)
  BY <1>1
<1>4. /\ Combine!Beyond(S, wt) <=> 5 * S > T
      /\ Combine!Beyond(-S, wt) <=> 5 * S < -T
      /\ ~(Combine!Beyond(S, wt) /\ Combine!Beyond(-S, wt))
  BY <1>2, <1>3
<1> QED
  BY <1>4 DEF S, T

\* Reversed votes count the same for the opposite.
LEMMA FlippedCount ==
  ASSUME NEW v \in [Combine!Strategies -> Vote]
  PROVE  LET f == Combine!Flipped(v) IN
         /\ Combine!Votes(f, "BUY") = Combine!Votes(v, "SELL")
         /\ Combine!Votes(f, "SELL") = Combine!Votes(v, "BUY")
         /\ Combine!Votes(f, "HOLD") = Combine!Votes(v, "HOLD")
<1> DEFINE f == Combine!Flipped(v)
           For(u, s) == {k \in Combine!Strategies : u[k].signal = s}
<1>1. \A k \in Combine!Strategies, s \in Combine!Signals : f[k].signal = Combine!Flip(s) <=> v[k].signal = s
  BY FlippedVotes
<1>2. Combine!Flip("BUY") = "SELL" /\ Combine!Flip("SELL") = "BUY" /\ Combine!Flip("HOLD") = "HOLD"
  BY DEF Combine!Flip
<1> HIDE DEF f
<1>3. For(f, "BUY") = For(v, "SELL") /\ For(f, "SELL") = For(v, "BUY") /\ For(f, "HOLD") = For(v, "HOLD")
  BY <1>1, <1>2 DEF Combine!Signals
<1>4. \A u, s : Combine!Votes(u, s) = Combine!Cardinality(For(u, s))
  BY DEF Combine!Votes
<1> HIDE DEF For
<1>5. /\ Combine!Votes(f, "BUY") = Combine!Votes(v, "SELL")
      /\ Combine!Votes(f, "SELL") = Combine!Votes(v, "BUY")
      /\ Combine!Votes(f, "HOLD") = Combine!Votes(v, "HOLD")
  BY <1>3, <1>4
<1> QED
  BY <1>5 DEF f

\* Every strategy gives one of the three signals.
LEMMA ThreeVotes ==
  ASSUME NEW v \in [Combine!Strategies -> Vote]
  PROVE  /\ \A s \in Combine!Signals : Combine!Votes(v, s) \in 0..3
         /\ Combine!Votes(v, "BUY") + Combine!Votes(v, "SELL") + Combine!Votes(v, "HOLD") = 3
         /\ \A s \in Combine!Signals :
              (\A k \in Combine!Strategies : v[k].signal = s) => Combine!Votes(v, s) = 3
<1> DEFINE For(s) == {k \in Combine!Strategies : v[k].signal = s}
           K == Combine!Strategies
<1>1. \A s : Combine!Votes(v, s) = Cardinality(For(s))
  BY Zenon DEF Combine!Votes, Combine!Cardinality, Cardinality, Combine!IsFiniteSet, IsFiniteSet
<1>2. IsFiniteSet(K) /\ Cardinality(K) = 3
  <2>1. K = {"MEAN_REVERSION", "MA_CROSSOVER"} \cup {"RSI"}
    BY DEF Combine!Strategies
  <2>2. IsFiniteSet({"MEAN_REVERSION"}) /\ Cardinality({"MEAN_REVERSION"}) = 1
    BY FS_Singleton
  <2>3. {"MEAN_REVERSION", "MA_CROSSOVER"} = {"MEAN_REVERSION"} \cup {"MA_CROSSOVER"}
    OBVIOUS
  <2>4. "MA_CROSSOVER" \notin {"MEAN_REVERSION"} /\ "RSI" \notin {"MEAN_REVERSION", "MA_CROSSOVER"}
    OBVIOUS
  <2>5. IsFiniteSet({"MEAN_REVERSION", "MA_CROSSOVER"}) /\ Cardinality({"MEAN_REVERSION", "MA_CROSSOVER"}) = 2
    BY <2>2, <2>3, <2>4, FS_AddElement
  <2> QED
    BY <2>1, <2>4, <2>5, FS_AddElement
<1>3. K = For("BUY") \cup For("SELL") \cup For("HOLD")
  BY DEF Vote, Combine!Signals
<1>4. \A s, t : s # t => For(s) \cap For(t) = {}
  OBVIOUS
<1>5. \A s : For(s) \subseteq K
  OBVIOUS
<1> HIDE DEF For, K
<1>6. \A s : IsFiniteSet(For(s)) /\ Cardinality(For(s)) \in Nat /\ Cardinality(For(s)) <= 3
  BY <1>2, <1>5, FS_Subset, FS_CardinalityType
<1>7. \A S, T : IsFiniteSet(S) /\ IsFiniteSet(T) /\ S \cap T = {} =>
        IsFiniteSet(S \cup T) /\ Cardinality(S \cup T) = Cardinality(S) + Cardinality(T)
  <2> SUFFICES ASSUME NEW S, NEW T, IsFiniteSet(S), IsFiniteSet(T), S \cap T = {}
               PROVE  IsFiniteSet(S \cup T) /\ Cardinality(S \cup T) = Cardinality(S) + Cardinality(T)
    OBVIOUS
  <2>1. Cardinality(S \cap T) = 0 /\ Cardinality(S) \in Nat /\ Cardinality(T) \in Nat
    BY FS_EmptySet, FS_CardinalityType
  <2>2. IsFiniteSet(S \cup T) /\ Cardinality(S \cup T) = Cardinality(S) + Cardinality(T) - Cardinality(S \cap T)
    BY FS_Union
  <2> QED
    BY <2>1, <2>2
<1>8. IsFiniteSet(For("BUY") \cup For("SELL"))
      /\ Cardinality(For("BUY") \cup For("SELL")) = Cardinality(For("BUY")) + Cardinality(For("SELL"))
  <2>1. For("BUY") \cap For("SELL") = {}
    BY <1>4
  <2> QED
    BY <1>6, <1>7, <2>1, Zenon
<1>9. Cardinality(K) = Cardinality(For("BUY") \cup For("SELL")) + Cardinality(For("HOLD"))
  <2>1. (For("BUY") \cup For("SELL")) \cap For("HOLD") = {}
    BY <1>4
  <2>2. Cardinality((For("BUY") \cup For("SELL")) \cup For("HOLD"))
          = Cardinality(For("BUY") \cup For("SELL")) + Cardinality(For("HOLD"))
    BY <1>6, <1>7, <1>8, <2>1, Zenon
  <2> QED
    BY <1>3, <2>2
<1>10. \A s : (\A k \in Combine!Strategies : v[k].signal = s) => For(s) = K
  BY DEF For, K
<1> QED
  BY <1>1, <1>2, <1>6, <1>8, <1>9, <1>10

\* Both methods treat the directions alike (aggregator.js weightedScore, majorityVote).
THEOREM BothSidesAlike ==
  ASSUME Combine!AggregatorAssumption
  PROVE  Combine!Spec => []Combine!Evenhanded
<1>1. VotesInv => Combine!Evenhanded
  <2> SUFFICES ASSUME VotesInv PROVE Combine!Evenhanded
    OBVIOUS
  <2> DEFINE wt == Combine!Weights(regime)
             f == Combine!Flipped(votes)
             S == Combine!Score(votes, wt)
  <2>1. votes \in [Combine!Strategies -> Vote] /\ f \in [Combine!Strategies -> Vote] /\ Weighing(wt)
    BY FlippedVotes, WeightsBounded DEF VotesInv, Bounded
  <2>2. S \in Int /\ Combine!Score(f, wt) = -S
    BY <2>1, Numbers, FlippedScore
  <2>3. ~(Combine!Beyond(S, wt) /\ Combine!Beyond(-S, wt))
    BY <2>1, Thresholds
  <2>4. Combine!Weighted(f, wt) = Combine!Flip(Combine!Weighted(votes, wt))
    <3>1. Combine!Weighted(votes, wt) =
            IF Combine!Beyond(S, wt) THEN "BUY" ELSE IF Combine!Beyond(-S, wt) THEN "SELL" ELSE "HOLD"
      BY DEF Combine!Weighted
    <3>2. Combine!Weighted(f, wt) =
            IF Combine!Beyond(Combine!Score(f, wt), wt) THEN "BUY"
            ELSE IF Combine!Beyond(-Combine!Score(f, wt), wt) THEN "SELL" ELSE "HOLD"
      BY DEF Combine!Weighted
    <3> HIDE DEF S, f, wt
    <3>3. Combine!Weighted(f, wt) =
            IF Combine!Beyond(-S, wt) THEN "BUY" ELSE IF Combine!Beyond(S, wt) THEN "SELL" ELSE "HOLD"
      <4>1. -(-S) = S
        BY <2>2
      <4> QED
        BY <2>2, <3>2, <4>1
    <3> QED
      BY <2>3, <3>1, <3>3 DEF Combine!Flip
  <2>5. Combine!Majority(f) = Combine!Flip(Combine!Majority(votes))
    <3> HIDE DEF f
    <3>1. /\ Combine!Votes(f, "BUY") = Combine!Votes(votes, "SELL")
          /\ Combine!Votes(f, "SELL") = Combine!Votes(votes, "BUY")
          /\ Combine!Votes(f, "HOLD") = Combine!Votes(votes, "HOLD")
      BY <2>1, FlippedCount DEF f
    <3>2. \A s \in {"BUY", "SELL", "HOLD"} : Combine!Votes(votes, s) \in Int
      BY <2>1, ThreeVotes DEF Combine!Signals
    <3> QED
      BY <3>1, <3>2 DEF Combine!Majority, Combine!Flip, Combine!Signals
  <2> QED
    BY <2>4, <2>5 DEF Combine!Evenhanded
<1> QED
  BY <1>1, VotesHold, PTL

\* More for buying is no less of a BUY, in every regime (aggregator.js weightedScore).
THEOREM MoreNeverHurts ==
  ASSUME Combine!AggregatorAssumption
  PROVE  Combine!Spec => Combine!Monotone
<1> DEFINE Goal == Combine!Weights(regime) = Combine!Weights(regime')
                     /\ (\A k \in Combine!Strategies : Combine!Lean(votes'[k]) >= Combine!Lean(votes[k]))
                   => Combine!Better(Combine!Weighted(votes', Combine!Weights(regime')),
                                     Combine!Weighted(votes, Combine!Weights(regime)))
<1>1. VotesInv /\ VotesInv' => Goal
  <2> SUFFICES ASSUME VotesInv, VotesInv', Combine!Weights(regime) = Combine!Weights(regime'),
                      \A k \in Combine!Strategies : Combine!Lean(votes'[k]) >= Combine!Lean(votes[k])
               PROVE  Combine!Better(Combine!Weighted(votes', Combine!Weights(regime')),
                                     Combine!Weighted(votes, Combine!Weights(regime)))
    OBVIOUS
  <2> DEFINE wt == Combine!Weights(regime)
             S == Combine!Score(votes, wt)
             N == Combine!Score(votes', wt)
             T == Combine!Sum3(wt) * Steps
  <2>1. votes \in [Combine!Strategies -> Vote] /\ votes' \in [Combine!Strategies -> Vote] /\ Weighing(wt)
    BY WeightsBounded DEF VotesInv, Bounded
  <2>2. S \in Int /\ N \in Int /\ T \in Nat
    BY <2>1, Numbers
  <2>3. N >= S
    <3>1. /\ \A k \in Combine!Strategies : Of(votes, k) \in Int /\ Of(votes', k) \in Int /\ Of(votes', k) >= Of(votes, k)
          /\ wt["MEAN_REVERSION"] \in Nat /\ wt["MA_CROSSOVER"] \in Nat /\ wt["RSI"] \in Nat
      <4>1. \A k \in Combine!Strategies : Of(votes, k) \in -Steps..Steps /\ Of(votes', k) \in -Steps..Steps
        BY <2>1, Numbers
      <4>2. wt["MEAN_REVERSION"] \in 50..700 /\ wt["MA_CROSSOVER"] \in 50..700 /\ wt["RSI"] \in 300..330
        BY <2>1 DEF Weighing
      <4> HIDE DEF wt, S, N, T
      <4>3. Steps \in Int
        BY DEF Combine!AggregatorAssumption
      <4>4. \A k \in Combine!Strategies : Of(votes, k) \in Int /\ Of(votes', k) \in Int
        BY <4>1, <4>3
      <4>5. \A k \in Combine!Strategies : Of(votes', k) >= Of(votes, k)
        BY Zenon DEF Of
      <4>6. wt["MEAN_REVERSION"] \in Nat /\ wt["MA_CROSSOVER"] \in Nat /\ wt["RSI"] \in Nat
        BY <2>1, Weighs
      <4> QED
        BY <4>4, <4>5, <4>6, Zenon
    <3>2. \A x, y \in Int, m \in Nat : x >= y => x * m \in Int /\ y * m \in Int /\ x * m >= y * m
      OBVIOUS
    <3> HIDE DEF wt
    <3> DEFINE New(k) == Of(votes', k) * wt[k]
               Old(k) == Of(votes, k) * wt[k]
    <3>3. New("MEAN_REVERSION") \in Int /\ Old("MEAN_REVERSION") \in Int /\ New("MEAN_REVERSION") >= Old("MEAN_REVERSION")
      BY <3>1, <3>2 DEF Combine!Strategies
    <3>4. New("MA_CROSSOVER") \in Int /\ Old("MA_CROSSOVER") \in Int /\ New("MA_CROSSOVER") >= Old("MA_CROSSOVER")
      BY <3>1, <3>2 DEF Combine!Strategies
    <3>5. New("RSI") \in Int /\ Old("RSI") \in Int /\ New("RSI") >= Old("RSI")
      BY <3>1, <3>2 DEF Combine!Strategies
    <3>6. /\ N = New("MEAN_REVERSION") + New("MA_CROSSOVER") + New("RSI")
          /\ S = Old("MEAN_REVERSION") + Old("MA_CROSSOVER") + Old("RSI")
      BY ScoreIs
    <3> HIDE DEF New, Old, N, S
    <3> QED
      BY <3>3, <3>4, <3>5, <3>6
  <2>4. /\ Combine!Beyond(S, wt) <=> 5 * S > T
        /\ Combine!Beyond(-S, wt) <=> 5 * S < -T
        /\ Combine!Beyond(N, wt) <=> 5 * N > T
        /\ Combine!Beyond(-N, wt) <=> 5 * N < -T
    BY <2>1, Thresholds
  <2>5. /\ Combine!Weighted(votes, wt) =
             IF Combine!Beyond(S, wt) THEN "BUY" ELSE IF Combine!Beyond(-S, wt) THEN "SELL" ELSE "HOLD"
        /\ Combine!Weighted(votes', wt) =
             IF Combine!Beyond(N, wt) THEN "BUY" ELSE IF Combine!Beyond(-N, wt) THEN "SELL" ELSE "HOLD"
    BY DEF Combine!Weighted
  <2> HIDE DEF S, N, T
  <2>6. Combine!Better(Combine!Weighted(votes', wt), Combine!Weighted(votes, wt))
    <3> DEFINE F(A, B) == IF A THEN "BUY" ELSE IF B THEN "SELL" ELSE "HOLD"
    <3>1. (Combine!Beyond(S, wt) => Combine!Beyond(N, wt)) /\ (Combine!Beyond(-N, wt) => Combine!Beyond(-S, wt))
      BY <2>2, <2>3, <2>4
    <3> QED
      BY <2>5, <3>1 DEF Combine!Better, Combine!Direction
  <2> QED
    BY <2>6
<1>2. VotesInv /\ VotesInv' => [Goal]_(Combine!vars)
  BY <1>1
<1> QED
  BY <1>2, VotesHold, PTL DEF Combine!Spec, Combine!Monotone

\* Of a trend, or a range, that is certain by half or more, the distrusted strategy alone decides
\* nothing and overrules nobody (aggregator.js _regimeWeights).
THEOREM DistrustedDecidesNothing ==
  ASSUME Combine!AggregatorAssumption
  PROVE  Combine!Spec => []Combine!Distrusted
<1>1. ASSUME VotesInv, NEW k \in Combine!Strategies, NEW j \in Combine!Strategies, j # k, j # "RSI", k # "RSI",
             2 * regime.conf >= Steps,
             k = IF regime.name = "TRENDING" THEN "MEAN_REVERSION" ELSE "MA_CROSSOVER",
             regime.name \in {"TRENDING", "SIDEWAYS"}
      PROVE  /\ votes[j].signal = "HOLD" /\ votes["RSI"].signal = "HOLD" =>
                  Combine!Weighted(votes, Combine!Weights(regime)) = "HOLD"
             /\ \A s \in {"BUY", "SELL"} :
                  votes[j] = [signal |-> s, conf |-> Steps] /\ votes["RSI"] = [signal |-> s, conf |-> Steps] =>
                    Combine!Weighted(votes, Combine!Weights(regime)) = s
  <2> DEFINE wt == Combine!Weights(regime)
             S == Combine!Score(votes, wt)
             T == Combine!Sum3(wt) * Steps
             x == Of(votes, k)   y == Of(votes, j)   z == Of(votes, "RSI")
  <2>1. votes \in [Combine!Strategies -> Vote] /\ Weighing(wt) /\ Bounded(regime, wt)
    BY <1>1, WeightsBounded DEF VotesInv, Bounded
  <2>2. wt[k] \in 50..175 /\ wt[j] \in 525..700 /\ wt["RSI"] = 300
    <3> HIDE DEF wt
    <3>1. wt["MEAN_REVERSION"] \in 50..700 /\ wt["MA_CROSSOVER"] \in 50..700 /\ wt["RSI"] \in 300..330
      BY <2>1 DEF Weighing
    <3>2. CASE regime.name = "TRENDING"
      <4>1. k = "MEAN_REVERSION" /\ j = "MA_CROSSOVER"
        BY <1>1, <3>2 DEF Combine!Strategies
      <4>2. wt["MEAN_REVERSION"] <= 175 /\ wt["MA_CROSSOVER"] >= 525 /\ wt["RSI"] = 300
        BY <1>1, <2>1, <3>2 DEF Bounded
      <4> QED
        BY SMTT(60), <3>1, <4>1, <4>2
    <3>3. CASE regime.name = "SIDEWAYS"
      <4>1. k = "MA_CROSSOVER" /\ j = "MEAN_REVERSION"
        BY <1>1, <3>3 DEF Combine!Strategies
      <4>2. wt["MA_CROSSOVER"] <= 175 /\ wt["MEAN_REVERSION"] >= 525 /\ wt["RSI"] = 300
        BY <1>1, <2>1, <3>3 DEF Bounded
      <4> QED
        BY SMTT(60), <3>1, <4>1, <4>2
    <3> QED
      BY <1>1, <3>2, <3>3
  <2>3. S = x * wt[k] + y * wt[j] + z * 300 /\ T = (wt[k] + wt[j] + 300) * Steps
    <3>1. /\ S = Of(votes, "MEAN_REVERSION") * wt["MEAN_REVERSION"]
                 + Of(votes, "MA_CROSSOVER") * wt["MA_CROSSOVER"] + Of(votes, "RSI") * wt["RSI"]
          /\ T = (wt["MEAN_REVERSION"] + wt["MA_CROSSOVER"] + wt["RSI"]) * Steps
      BY <2>1, ScoreIs, Numbers
    <3>2. (k = "MEAN_REVERSION" /\ j = "MA_CROSSOVER") \/ (k = "MA_CROSSOVER" /\ j = "MEAN_REVERSION")
      BY <1>1 DEF Combine!Strategies
    <3>3. \A i \in Combine!Strategies : Of(votes, i) * wt[i] \in Int /\ wt[i] \in Int
      <4>1. \A i \in Combine!Strategies : Of(votes, i) \in -Steps..Steps /\ Steps \in Int
        BY <2>1, Numbers
      <4>2. \A i \in Combine!Strategies : wt[i] \in Int
        BY SMTT(60), <2>1 DEF Weighing, Combine!Strategies
      <4> HIDE DEF wt
      <4> QED
        BY <4>1, <4>2
    <3> HIDE DEF S, T, wt
    <3> QED
      BY <2>2, <3>1, <3>2, <3>3 DEF Combine!Strategies
  <2>4. x \in -Steps..Steps /\ Steps \in Nat /\ Steps > 0
    BY <2>1, Numbers
  <2>5. /\ Combine!Beyond(S, wt) <=> 5 * S > T
        /\ Combine!Beyond(-S, wt) <=> 5 * S < -T
        /\ Combine!Weighted(votes, wt) =
             IF Combine!Beyond(S, wt) THEN "BUY" ELSE IF Combine!Beyond(-S, wt) THEN "SELL" ELSE "HOLD"
    BY <2>1, Thresholds DEF Combine!Weighted
  <2> DEFINE a == wt[k]  b == wt[j]
  <2>6. a \in 50..175 /\ b \in 525..700
    BY <2>2
  <2>7. x * a \in Int /\ b * Steps \in Nat /\ a * Steps \in Nat
        /\ x * a <= a * Steps /\ x * a >= -(a * Steps)
        /\ a * Steps <= 175 * Steps /\ b * Steps >= 525 * Steps
        /\ (a + b + 300) * Steps = a * Steps + b * Steps + 300 * Steps
    <3> HIDE DEF x, a, b
    <3>1. \A m, n \in Int, l \in Nat : m >= n => m * l >= n * l
      OBVIOUS
    <3>2. x \in Int /\ a \in Nat /\ b \in Nat /\ x <= Steps /\ -Steps <= x /\ 175 >= a /\ b >= 525
      BY <2>4, <2>6
    <3>3. Steps * a >= x * a /\ x * a >= (-Steps) * a
      BY <2>4, <3>1, <3>2
    <3>4. 175 * Steps >= a * Steps /\ b * Steps >= 525 * Steps
      BY <2>4, <3>1, <3>2
    <3>5. Steps * a = a * Steps /\ (-Steps) * a = -(a * Steps)
      BY <2>4, <3>2
    <3>6. x * a \in Int /\ b * Steps \in Nat /\ a * Steps \in Nat
          /\ (a + b + 300) * Steps = a * Steps + b * Steps + 300 * Steps
      BY <2>4, <3>2
    <3> QED
      BY <3>3, <3>4, <3>5, <3>6
  <2> DEFINE p == a * Steps  q == b * Steps  e == x * a
  <2>8. ASSUME votes[j].signal = "HOLD", votes["RSI"].signal = "HOLD"
        PROVE  Combine!Weighted(votes, wt) = "HOLD"
    <3>1. y = 0 /\ z = 0
      BY <2>8, <2>1, Leaning DEF Of, Combine!Strategies
    <3>2. S = e
      <4> HIDE DEF x, y, z, wt
      <4> QED
        BY <2>3, <2>6, <2>4, <2>7, <3>1
    <3>3. 5 * e <= p + q + 300 * Steps /\ 5 * e >= -(p + q + 300 * Steps) /\ T = p + q + 300 * Steps
      <4>1. T = p + q + 300 * Steps
        BY <2>3, <2>7
      <4> HIDE DEF p, q, e
      <4>2. e \in Int /\ p \in Nat /\ q \in Nat /\ e <= p /\ e >= -p /\ p <= 175 * Steps /\ q >= 525 * Steps
        BY <2>7 DEF p, q, e
      <4> QED
        BY <2>4, <4>1, <4>2
    <3> HIDE DEF S, T, e, p, q, wt
    <3>4. ~(5 * S > T) /\ ~(5 * S < -T)
      <4>1. e \in Int /\ p \in Nat /\ q \in Nat
        BY <2>7 DEF e, p, q
      <4> QED
        BY <2>4, <3>2, <3>3, <4>1
    <3> QED
      BY <2>5, <3>4
  <2>9. ASSUME NEW s \in {"BUY", "SELL"}, votes[j] = [signal |-> s, conf |-> Steps],
               votes["RSI"] = [signal |-> s, conf |-> Steps]
        PROVE  Combine!Weighted(votes, wt) = s
    <3>1. (s = "BUY" => y = Steps /\ z = Steps) /\ (s = "SELL" => y = -Steps /\ z = -Steps)
      BY <2>9, <2>1, Leaning DEF Of, Combine!Strategies
    <3>2. (s = "BUY" => S = e + q + 300 * Steps) /\ (s = "SELL" => S = e - q - 300 * Steps)
      <4> HIDE DEF x, y, z, wt
      <4>1. Steps * b = q /\ (-Steps) * b = -q /\ b \in Nat
        BY <2>4, <2>6
      <4>2. (s = "BUY" => S = e + Steps * b + Steps * 300) /\ (s = "SELL" => S = e + (-Steps) * b + (-Steps) * 300)
        BY <2>3, <3>1
      <4> HIDE DEF e, b, q
      <4>3. e \in Int /\ q \in Nat
        BY <2>7 DEF e, q, b
      <4> QED
        BY <2>4, <4>1, <4>2, <4>3
    <3>3. T = p + q + 300 * Steps
      BY <2>3, <2>7
    <3>4. e \in Int /\ p \in Nat /\ q \in Nat /\ e <= p /\ e >= -p /\ p <= 175 * Steps /\ q >= 525 * Steps
      BY <2>7
    <3> HIDE DEF S, T, e, p, q, wt
    <3>5. (s = "BUY" => 5 * S > T) /\ (s = "SELL" => ~(5 * S > T) /\ 5 * S < -T)
      BY <2>4, <3>2, <3>3, <3>4
    <3> QED
      BY <2>5, <3>5
  <2> QED
    BY <2>8, <2>9
<1>2. VotesInv => Combine!Distrusted
  <2> SUFFICES ASSUME VotesInv PROVE Combine!Distrusted
    OBVIOUS
  <2> DEFINE k == IF regime.name = "TRENDING" THEN "MEAN_REVERSION" ELSE "MA_CROSSOVER"
             j == IF regime.name = "TRENDING" THEN "MA_CROSSOVER" ELSE "MEAN_REVERSION"
  <2>1. Combine!Strategies \ {k} = {j, "RSI"} /\ k \in Combine!Strategies /\ j \in Combine!Strategies
        /\ j # k /\ j # "RSI" /\ k # "RSI"
    BY DEF Combine!Strategies
  <2>2. ASSUME regime.name \in {"TRENDING", "SIDEWAYS"}, 2 * regime.conf >= Steps
        PROVE  /\ votes[j].signal = "HOLD" /\ votes["RSI"].signal = "HOLD" =>
                    Combine!Weighted(votes, Combine!Weights(regime)) = "HOLD"
               /\ \A s \in {"BUY", "SELL"} :
                    votes[j] = [signal |-> s, conf |-> Steps] /\ votes["RSI"] = [signal |-> s, conf |-> Steps] =>
                      Combine!Weighted(votes, Combine!Weights(regime)) = s
    BY <1>1, <2>1, <2>2
  <2> HIDE DEF j
  <2> QED
    BY <2>1, <2>2 DEF Combine!Distrusted
<1> QED
  BY <1>2, VotesHold, PTL

\* Agreement is not weakened, and nothing is the majority that one of three says (aggregator.js
\* weightedScore, majorityVote).
THEOREM AgreementDecides ==
  ASSUME Combine!AggregatorAssumption
  PROVE  Combine!Spec => []Combine!Agreed
<1>1. ASSUME VotesInv, NEW s \in {"BUY", "SELL"},
             \A k \in Combine!Strategies : votes[k].signal = s /\ 5 * votes[k].conf > Steps
      PROVE  Combine!Weighted(votes, Combine!Weights(regime)) = s /\ Combine!Majority(votes) = s
  <2> DEFINE wt == Combine!Weights(regime)
             S == Combine!Score(votes, wt)
             T == Combine!Sum3(wt) * Steps
             a == votes["MEAN_REVERSION"].conf  b == votes["MA_CROSSOVER"].conf  c == votes["RSI"].conf
             x == wt["MEAN_REVERSION"]  y == wt["MA_CROSSOVER"]  z == wt["RSI"]
  <2>1. votes \in [Combine!Strategies -> Vote] /\ Weighing(wt)
    BY <1>1, WeightsBounded DEF VotesInv, Bounded
  <2>2. x \in Nat /\ y \in Nat /\ z \in Nat /\ x > 0 /\ y > 0 /\ z > 0 /\ Steps \in Nat
    <3>1. x \in 50..700 /\ y \in 50..700 /\ z \in 300..330
      BY <2>1 DEF Weighing
    <3>2. Steps \in Nat
      BY DEF Combine!AggregatorAssumption
    <3> HIDE DEF x, y, z
    <3> QED
      BY <3>1, <3>2
  <2>3. \A k \in Combine!Strategies :
          /\ votes[k].conf \in 0..Steps
          /\ s = "BUY" => Of(votes, k) = votes[k].conf
          /\ s = "SELL" => Of(votes, k) = -votes[k].conf
    BY <1>1, <2>1, Leaning DEF Of
  <2>4. a \in Nat /\ b \in Nat /\ c \in Nat /\ 5 * a > Steps /\ 5 * b > Steps /\ 5 * c > Steps
    <3>1. \A k \in Combine!Strategies : votes[k].conf \in 0..Steps /\ 5 * votes[k].conf > Steps
      BY <1>1, <2>3
    <3>2. a \in 0..Steps /\ b \in 0..Steps /\ c \in 0..Steps /\ 5 * a > Steps /\ 5 * b > Steps /\ 5 * c > Steps
      BY <3>1 DEF Combine!Strategies
    <3> HIDE DEF a, b, c
    <3> QED
      BY <2>2, <3>2
  <2> DEFINE p == a * x  q == b * y  r == c * z  l == x * Steps  m == y * Steps  n == z * Steps
  <2>5. /\ p \in Nat /\ q \in Nat /\ r \in Nat /\ l \in Nat /\ m \in Nat /\ n \in Nat
        /\ 5 * p > l /\ 5 * q > m /\ 5 * r > n
    <3> HIDE DEF a, b, c, x, y, z
    <3>1. \A i, j, k \in Nat : 5 * i > k /\ j > 0 => i * j \in Nat /\ j * k \in Nat /\ 5 * (i * j) > j * k
      <4> SUFFICES ASSUME NEW i \in Nat, NEW j \in Nat, NEW k \in Nat, 5 * i > k, j > 0
                   PROVE  i * j \in Nat /\ j * k \in Nat /\ 5 * (i * j) > j * k
        OBVIOUS
      <4>1. 5 * i - k \in Nat /\ 5 * i - k > 0
        OBVIOUS
      <4>2. (5 * i - k) * j > 0
        BY <4>1
      <4>3. (5 * i - k) * j = 5 * (i * j) - j * k /\ i * j \in Nat /\ j * k \in Nat
        OBVIOUS
      <4> QED
        BY <4>2, <4>3
    <3> QED
      BY <2>2, <2>4, <3>1
  <2>6. T = l + m + n
    <3>1. T = (x + y + z) * Steps
      BY <2>1, Numbers
    <3> HIDE DEF x, y, z
    <3> QED
      BY <2>2, <3>1
  <2>7. (s = "BUY" => S = p + q + r) /\ (s = "SELL" => S = -(p + q + r))
    <3>1. S = Of(votes, "MEAN_REVERSION") * x + Of(votes, "MA_CROSSOVER") * y + Of(votes, "RSI") * z
      BY ScoreIs
    <3>2. /\ s = "BUY" => /\ Of(votes, "MEAN_REVERSION") = a
                          /\ Of(votes, "MA_CROSSOVER") = b /\ Of(votes, "RSI") = c
          /\ s = "SELL" => /\ Of(votes, "MEAN_REVERSION") = -a
                           /\ Of(votes, "MA_CROSSOVER") = -b /\ Of(votes, "RSI") = -c
      BY <2>3 DEF Combine!Strategies
    <3> HIDE DEF a, b, c, x, y, z, S
    <3>3. \A i, j \in Nat : (-i) * j = -(i * j)
      OBVIOUS
    <3>4. (-a) * x = -p /\ (-b) * y = -q /\ (-c) * z = -r
      BY <2>2, <2>4, <3>3
    <3>5. (s = "BUY" => S = p + q + r) /\ (s = "SELL" => S = (-p) + (-q) + (-r))
      BY <3>1, <3>2, <3>4
    <3> HIDE DEF p, q, r
    <3> QED
      BY <2>5, <3>5
  <2> HIDE DEF S, T, p, q, r, l, m, n, wt
  <2>8. (s = "BUY" => 5 * S > T) /\ (s = "SELL" => ~(5 * S > T) /\ 5 * S < -T)
    BY <2>5, <2>6, <2>7
  <2>9. Combine!Weighted(votes, wt) = s
    <3>1. /\ Combine!Beyond(S, wt) <=> 5 * S > T
          /\ Combine!Beyond(-S, wt) <=> 5 * S < -T
          /\ Combine!Weighted(votes, wt) =
               IF Combine!Beyond(S, wt) THEN "BUY" ELSE IF Combine!Beyond(-S, wt) THEN "SELL" ELSE "HOLD"
      BY <2>1, Thresholds DEF Combine!Weighted, S, T
    <3> QED
      BY <2>8, <3>1
  <2>10. Combine!Majority(votes) = s
    <3>1. Combine!Votes(votes, s) = 3
      BY <1>1, <2>1, ThreeVotes DEF Combine!Signals
    <3>2. \A t \in {"BUY", "SELL", "HOLD"} : Combine!Votes(votes, t) \in 0..3
      BY <2>1, ThreeVotes DEF Combine!Signals
    <3>3. Combine!Votes(votes, "BUY") + Combine!Votes(votes, "SELL") + Combine!Votes(votes, "HOLD") = 3
      BY <2>1, ThreeVotes
    <3>4. \A t \in {"BUY", "SELL", "HOLD"} : t # s => Combine!Votes(votes, t) = 0
      BY <3>1, <3>2, <3>3
    <3> QED
      BY <3>1, <3>4 DEF Combine!Majority, Combine!Signals
  <2> QED
    BY <2>9, <2>10 DEF wt
<1>2. ASSUME VotesInv, Combine!Majority(votes) # "HOLD"
      PROVE  Combine!Votes(votes, Combine!Majority(votes)) >= 2
  <2>1. votes \in [Combine!Strategies -> Vote]
    BY <1>2 DEF VotesInv
  <2>2. \A t \in {"BUY", "SELL", "HOLD"} : Combine!Votes(votes, t) \in 0..3
    BY <2>1, ThreeVotes DEF Combine!Signals
  <2>3. Combine!Votes(votes, "BUY") + Combine!Votes(votes, "SELL") + Combine!Votes(votes, "HOLD") = 3
    BY <2>1, ThreeVotes
  <2>4. \E s, t \in {"BUY", "SELL"} :
          /\ Combine!Majority(votes) = s /\ t # s /\ Combine!Votes(votes, s) > Combine!Votes(votes, t)
          /\ Combine!Votes(votes, s) >= Combine!Votes(votes, "HOLD")
    BY <1>2 DEF Combine!Majority, Combine!Signals
  <2> QED
    BY <2>2, <2>3, <2>4
<1>3. VotesInv => Combine!Agreed
  BY <1>1, <1>2 DEF Combine!Agreed, Combine!Signals
<1> QED
  BY <1>3, VotesHold, PTL

-----------------------------------------------------------------------------
(* SwingOutcomes                                                           *)

\* Every nonempty set of naturals has a least element.
LEMMA Least == ASSUME NEW T, T \subseteq Nat, T # {} PROVE \E m \in T : \A x \in T : m <= x
<1>1. PICK m \in T : \A x \in T : ~(<<x, m>> \in OpToRel(<, Nat))
  BY WFMin, NatLessThanWellFounded
<1>2. \A x \in T : ~(x < m)
  BY <1>1 DEF OpToRel
<1> QED
  BY <1>2

\* Every nonempty part of 1..n has a largest element.
LEMMA Largest == ASSUME NEW n \in Nat, NEW T, T \subseteq 1..n, T # {} PROVE \E m \in T : \A x \in T : x <= m
<1> DEFINE U == {k \in Nat : \E x \in T : k = n - x}
<1>1. \A x \in T : x \in Int /\ n - x \in Nat
  OBVIOUS
<1>2. U \subseteq Nat /\ U # {}
  BY <1>1
<1>3. PICK u \in U : \A v \in U : u <= v
  <2> HIDE DEF U
  <2> QED
    BY <1>2, Least
<1>4. PICK m \in T : u = n - m
  BY <1>3
<1>5. ASSUME NEW x \in T PROVE x <= m
  <2>1. n - x \in U
    BY <1>1
  <2>2. n - m <= n - x
    BY <1>3, <1>4, <2>1
  <2>3. x \in Int /\ m \in Int
    BY <1>1
  <2> QED
    BY <2>2, <2>3
<1> QED
  BY <1>5

Windowed(bars) == IF Len(bars) < Horizon THEN Len(bars) ELSE Horizon

\* The outcome of the bars from the i-th on, when the window has n of them.
Step(bars, n, g, i) ==
  IF i = n + 1 THEN IF n = Horizon THEN "EXPIRED" ELSE "OPEN"
  ELSE IF Score!Judge(bars[i]) # "OPEN" THEN Score!Judge(bars[i]) ELSE g[i + 1]

LEMMA Walk ==
  ASSUME NEW bars
  PROVE  LET n == Windowed(bars) IN
         Score!Resolve(bars) = (CHOOSE g : g = [i \in 1..n + 1 |-> Step(bars, n, g, i)])[1]
BY DEF Score!Resolve, Windowed, Step

Kinds == {"flat", "target", "stop", "both"}

LEMMA JudgeOf ==
  ASSUME NEW k \in Kinds
  PROVE  (Score!Judge(k) = "OPEN" <=> k = "flat") /\ Score!Judge(k) \in {"OPEN", "STOPPED", "TARGET"}
         /\ (Score!Judge(k) = "TARGET" <=> k = "target")
BY DEF Kinds, Score!Judge, Score!HitStop, Score!HitTarget

\* The first bar of the window from the i-th on that has reached a level.
Reaches(bars, n, i) == \E j \in i..n : bars[j] # "flat"
IsNext(bars, n, i, j) == j \in i..n /\ bars[j] # "flat" /\ \A m \in i..n : bars[m] # "flat" => j <= m
NextOf(bars, n, i) == CHOOSE j : IsNext(bars, n, i, j)
EndOf(n) == IF n = Horizon THEN "EXPIRED" ELSE "OPEN"

LEMMA NextIs ==
  ASSUME NEW bars, NEW n \in Nat, NEW i \in 1..n + 1, Reaches(bars, n, i)
  PROVE  IsNext(bars, n, i, NextOf(bars, n, i))
<1> DEFINE T == {j \in i..n : bars[j] # "flat"}
<1>1. T \subseteq Nat /\ T # {}
  BY DEF Reaches
<1>2. PICK j \in T : \A m \in T : j <= m
  <2> HIDE DEF T
  <2> QED
    BY <1>1, Least
<1>3. IsNext(bars, n, i, j)
  BY <1>2 DEF IsNext
<1> QED
  BY <1>3, Zenon DEF NextOf

LEMMA NextIsOne ==
  ASSUME NEW bars, NEW n \in Nat, NEW i \in 1..n + 1, NEW j, NEW m,
         IsNext(bars, n, i, j), IsNext(bars, n, i, m)
  PROVE  j = m
BY DEF IsNext

\* The value of the loop: how the first level reached is judged, or how the window ends.
LEMMA ResolveIs ==
  ASSUME Score!OutcomesAssumption, NEW bars \in Seq(Kinds)
  PROVE  LET n == Windowed(bars) IN
         Score!Resolve(bars) = IF Reaches(bars, n, 1) THEN Score!Judge(bars[NextOf(bars, n, 1)]) ELSE EndOf(n)
<1> DEFINE n == Windowed(bars)
           G == [i \in 1..n + 1 |->
                   IF Reaches(bars, n, i) THEN Score!Judge(bars[NextOf(bars, n, i)]) ELSE EndOf(n)]
           H == CHOOSE g : g = [i \in 1..n + 1 |-> Step(bars, n, g, i)]
<1>1. n \in Nat /\ n <= Len(bars)
  BY DEF Windowed, Score!OutcomesAssumption
<1>2. \A i \in 1..n : bars[i] \in Kinds
  BY <1>1
<1> HIDE DEF n
<1>3. ASSUME NEW i \in 1..n + 1 PROVE G[i] = Step(bars, n, G, i)
  <2>1. CASE i = n + 1
    BY <1>1, <2>1 DEF Reaches, Step, EndOf
  <2>2. CASE i # n + 1 /\ bars[i] # "flat"
    <3>1. IsNext(bars, n, i, i) /\ Reaches(bars, n, i)
      BY <1>1, <2>2 DEF IsNext, Reaches
    <3>2. NextOf(bars, n, i) = i
      BY <1>1, <3>1, NextIs, NextIsOne
    <3>3. Score!Judge(bars[i]) # "OPEN"
      BY <1>1, <1>2, <2>2, JudgeOf
    <3> QED
      BY <2>2, <3>1, <3>2, <3>3 DEF Step
  <2>3. CASE i # n + 1 /\ bars[i] = "flat"
    <3>1. Score!Judge(bars[i]) = "OPEN" /\ i + 1 \in 1..n + 1
      BY <1>1, <1>2, <2>3, JudgeOf
    <3>2. Reaches(bars, n, i) <=> Reaches(bars, n, i + 1)
      BY <1>1, <2>3 DEF Reaches
    <3>3. ASSUME Reaches(bars, n, i) PROVE NextOf(bars, n, i) = NextOf(bars, n, i + 1)
      <4>1. IsNext(bars, n, i + 1, NextOf(bars, n, i + 1))
        BY <1>1, <3>1, <3>2, <3>3, NextIs
      <4>2. IsNext(bars, n, i, NextOf(bars, n, i + 1))
        BY <1>1, <2>3, <4>1 DEF IsNext
      <4> QED
        BY <1>1, <3>3, <4>2, NextIs, NextIsOne
    <3>4. G[i] = G[i + 1]
      BY <3>1, <3>2, <3>3
    <3> QED
      BY <2>3, <3>1, <3>4 DEF Step
  <2> QED
    BY <2>1, <2>2, <2>3
<1>4. G = [i \in 1..n + 1 |-> Step(bars, n, G, i)]
  <2>1. G = [i \in 1..n + 1 |-> G[i]]
    OBVIOUS
  <2> HIDE DEF G
  <2> QED
    BY <1>3, <2>1
<1>5. H = [i \in 1..n + 1 |-> Step(bars, n, H, i)]
  <2> HIDE DEF G
  <2> QED
    BY <1>4, Zenon
<1>6. \A i \in 1..n + 1 : H[i] = Step(bars, n, H, i)
  <2> HIDE DEF H
  <2> QED
    BY <1>5
<1>7. \A i \in 1..n + 1 : H[i] = G[i]
  <2> HIDE DEF G, H
  <2> DEFINE T == {i \in 1..n + 1 : H[i] # G[i]}
  <2>1. SUFFICES ASSUME T # {} PROVE FALSE
    OBVIOUS
  <2>2. PICK m \in T : \A x \in T : x <= m
    <3>1. T \subseteq 1..n + 1 /\ n + 1 \in Nat
      BY <1>1
    <3> HIDE DEF T
    <3> QED
      BY <2>1, <3>1, Largest
  <2>3. m \in 1..n + 1 /\ H[m] # G[m] /\ (m # n + 1 => H[m + 1] = G[m + 1])
    BY <1>1, <2>2
  <2>4. Step(bars, n, H, m) = Step(bars, n, G, m)
    BY <2>3 DEF Step
  <2> QED
    BY <1>3, <1>6, <2>3, <2>4
<1>8. Score!Resolve(bars) = H[1]
  BY Walk DEF n
<1>9. G[1] = IF Reaches(bars, n, 1) THEN Score!Judge(bars[NextOf(bars, n, 1)]) ELSE EndOf(n)
  BY <1>1
<1> HIDE DEF G, H
<1>10. H[1] = G[1]
  BY <1>1, <1>7
<1> QED
  BY <1>8, <1>9, <1>10 DEF n

PassRecord == [at : {"idle", "fetch", "update"}, todo : Seq(Signals), bars : Seq(Kinds)]

\* The bars of signal s as they are now, the running day's last.
Bars(s) == Append(path[s], today[s])

\* An earlier view of them: the last bar may have been growing still.
ViewOf(now, bars) ==
  /\ bars \in Seq(Kinds) /\ Len(bars) <= Len(now)
  /\ \A i \in 1..Len(bars) :
       /\ i < Len(bars) => bars[i] = now[i]
       /\ bars[i] # "flat" => now[i] # "flat"

View(bars, s) == ViewOf(Bars(s), bars)

\* What is cached, and what a pass is about to judge, is an earlier view of the signal's bars.
OutInv ==
  /\ path \in [Signals -> Seq(Kinds)] /\ today \in [Signals -> Kinds]
  /\ \A s, t \in Signals : Len(path[s]) = Len(path[t])
  /\ rows \in [Signals -> Score!Outcomes \cup {None}]
  /\ DOMAIN cache = Signals /\ \A s \in Signals : cache[s] # None => View(cache[s], s)
  /\ pass \in [Passes -> PassRecord]
  /\ \A p \in Passes :
       /\ pass[p].at # "idle" => pass[p].todo # <<>>
       /\ pass[p].at = "update" => View(pass[p].bars, Head(pass[p].todo))

LEMMA ResolveType ==
  ASSUME Score!OutcomesAssumption, NEW bars \in Seq(Kinds)
  PROVE  Score!Resolve(bars) \in Score!Outcomes
<1> DEFINE n == Windowed(bars)
<1>1. n \in Nat /\ n <= Len(bars)
  BY DEF Windowed, Score!OutcomesAssumption
<1>2. Score!Resolve(bars) = IF Reaches(bars, n, 1) THEN Score!Judge(bars[NextOf(bars, n, 1)]) ELSE EndOf(n)
  BY ResolveIs
<1>3. CASE Reaches(bars, n, 1)
  <2> HIDE DEF n
  <2>1. NextOf(bars, n, 1) \in 1..n
    BY <1>1, <1>3, NextIs DEF IsNext
  <2>2. bars[NextOf(bars, n, 1)] \in Kinds
    BY <1>1, <2>1
  <2> QED
    BY <1>2, <1>3, <2>2, JudgeOf DEF Score!Outcomes
<1>4. CASE ~Reaches(bars, n, 1)
  BY <1>2, <1>4 DEF EndOf, Score!Outcomes
<1> QED
  BY <1>3, <1>4

LEMMA BarsOf ==
  ASSUME OutInv, NEW s \in Signals
  PROVE  /\ Bars(s) \in Seq(Kinds) /\ Len(Bars(s)) = Len(path[s]) + 1
         /\ \A i \in 1..Len(path[s]) : Bars(s)[i] = path[s][i]
         /\ Bars(s)[Len(path[s]) + 1] = today[s]
BY DEF OutInv, Bars

\* Fresh bars are a view.
LEMMA FreshView ==
  ASSUME OutInv, NEW s \in Signals, NEW bars \in {path[s], Append(path[s], today[s])}
  PROVE  View(bars, s)
<1>1. CASE bars = path[s]
  <2>1. path[s] \in Seq(Kinds)
    BY DEF OutInv
  <2>2. Len(path[s]) <= Len(Bars(s)) /\ \A i \in 1..Len(path[s]) : Bars(s)[i] = path[s][i]
    BY <2>1, BarsOf
  <2> QED
    BY <1>1, <2>1, <2>2 DEF View, ViewOf
<1>2. CASE bars = Bars(s)
  BY <1>2, BarsOf DEF View, ViewOf
<1> QED
  BY <1>1, <1>2 DEF Bars

\* The pass goes on.
LEMMA GoesOn ==
  ASSUME OutInv, NEW p \in Passes, pass[p].at # "idle"
  PROVE  LET c == Score!Onward(p) IN
         /\ c \in PassRecord /\ c.at \in {"idle", "fetch"} /\ (c.at # "idle" => c.todo # <<>>)
<1>1. pass[p] \in PassRecord /\ pass[p].todo \in Seq(Signals) /\ pass[p].todo # <<>>
  BY DEF OutInv, PassRecord
<1>2. CASE Len(pass[p].todo) = 1
  <2>1. Score!Onward(p) = [at |-> "idle", todo |-> <<>>, bars |-> <<>>]
    BY <1>2 DEF Score!Onward, Score!Idle
  <2> QED
    BY <2>1 DEF PassRecord
<1>3. CASE Len(pass[p].todo) # 1
  <2>1. Score!Onward(p) = [pass[p] EXCEPT !.at = "fetch", !.todo = Tail(pass[p].todo), !.bars = <<>>]
    BY <1>3 DEF Score!Onward
  <2>2. Tail(pass[p].todo) \in Seq(Signals) /\ Len(Tail(pass[p].todo)) = Len(pass[p].todo) - 1
        /\ Len(pass[p].todo) \in Nat /\ Len(pass[p].todo) # 0
    BY <1>1
  <2>3. Tail(pass[p].todo) # <<>>
    <3>1. Len(Tail(pass[p].todo)) # 0
      BY <1>3, <2>2
    <3> QED
      BY <2>2, <3>1, EmptySeq
  <2>4. <<>> \in Seq(Kinds)
    OBVIOUS
  <2> QED
    BY <1>1, <2>1, <2>2, <2>3, <2>4 DEF PassRecord
<1> QED
  BY <1>2, <1>3

\* Unless the bars of the signals change, views stay views.
LEMMA ViewsStay ==
  ASSUME OutInv, UNCHANGED <<path, today>>, rows' \in [Signals -> Score!Outcomes \cup {None}],
         DOMAIN cache' = Signals, \A s \in Signals : cache'[s] # None => View(cache'[s], s),
         NEW p \in Passes, NEW c \in PassRecord, pass' = [pass EXCEPT ![p] = c],
         c.at # "idle" => c.todo # <<>>, c.at = "update" => View(c.bars, Head(c.todo))
  PROVE  OutInv'
<1>1. \A s : Bars(s)' = Bars(s)
  BY DEF Bars
<1>2. pass' \in [Passes -> PassRecord]
  BY DEF OutInv
<1>3. \A q \in Passes : pass'[q] = IF q = p THEN c ELSE pass[q]
  BY DEF OutInv
<1>4. \A q \in Passes :
        /\ pass'[q].at # "idle" => pass'[q].todo # <<>>
        /\ pass'[q].at = "update" => View(pass'[q].bars, Head(pass'[q].todo))
  BY <1>3 DEF OutInv
<1>5. \A s \in Signals : cache'[s] # None => ViewOf(Bars(s)', cache'[s])
  BY <1>1 DEF View
<1>6. \A q \in Passes : pass'[q].at = "update" => ViewOf(Bars(Head(pass'[q].todo)), pass'[q].bars)
  BY <1>4 DEF View
<1>7. \A q \in Passes : pass'[q].at = "update" => ViewOf(Bars(Head(pass[q].todo))', pass'[q].bars)
  BY <1>6 DEF Bars
<1> QED
  BY <1>2, <1>4, <1>5, <1>7 DEF OutInv, View

LEMMA SelectKeeps ==
  ASSUME Score!OutcomesAssumption, OutInv, NEW p \in Passes, Score!Select(p)
  PROVE  OutInv'
<1>1. PICK S \in SUBSET Signals : S # {} /\ \E q \in Score!Selections(S) :
        pass' = [pass EXCEPT ![p] = [Score!Idle EXCEPT !.at = "fetch", !.todo = q]]
  BY DEF Score!Select, Score!Undecided
<1>2. PICK q \in Score!Selections(S) : pass' = [pass EXCEPT ![p] = [Score!Idle EXCEPT !.at = "fetch", !.todo = q]]
  BY <1>1
<1>3. Score!Cardinality(S) \in Nat /\ Score!Cardinality(S) # 0
  <2>1. IsFiniteSet(S)
    <3>1. IsFiniteSet(Signals)
      BY Zenon DEF Score!OutcomesAssumption, Score!IsFiniteSet, IsFiniteSet
    <3> QED
      BY <3>1, FS_Subset
  <2>2. Score!Cardinality(S) = Cardinality(S)
    BY Zenon DEF Score!Cardinality, Cardinality, Score!IsFiniteSet, IsFiniteSet
  <2> QED
    BY <1>1, <2>1, <2>2, FS_CardinalityType, FS_EmptySet
<1>4. PICK n \in Nat : n # 0 /\ q \in [1..n -> S]
  <2> DEFINE m == IF Score!Cardinality(S) < Limit THEN Score!Cardinality(S) ELSE Limit
  <2>1. m \in Nat /\ m # 0
    BY <1>3 DEF Score!OutcomesAssumption
  <2>2. q \in [1..m -> S]
    BY DEF Score!Selections
  <2> QED
    BY <2>1, <2>2
<1>5. q \in Seq(Signals) /\ q # <<>>
  <2>1. q \in Seq(S) /\ Len(q) = n
    BY <1>4
  <2> QED
    BY <1>4, <2>1, EmptySeq
<1>6. [Score!Idle EXCEPT !.at = "fetch", !.todo = q] = [at |-> "fetch", todo |-> q, bars |-> <<>>]
  <2>1. [Score!Idle EXCEPT !.at = "fetch"] = [at |-> "fetch", todo |-> <<>>, bars |-> <<>>]
    BY DEF Score!Idle
  <2>2. [Score!Idle EXCEPT !.at = "fetch", !.todo = q] = [[Score!Idle EXCEPT !.at = "fetch"] EXCEPT !.todo = q]
    OBVIOUS
  <2>3. [[at |-> "fetch", todo |-> <<>>, bars |-> <<>>] EXCEPT !.todo = q] = [at |-> "fetch", todo |-> q, bars |-> <<>>]
    OBVIOUS
  <2> QED
    BY <2>1, <2>2, <2>3, Zenon
<1>7. [at |-> "fetch", todo |-> q, bars |-> <<>>] \in PassRecord
  BY <1>5 DEF PassRecord
<1>8. pass' = [pass EXCEPT ![p] = [at |-> "fetch", todo |-> q, bars |-> <<>>]]
  BY <1>2, <1>6
<1>9. UNCHANGED <<path, today, rows, cache>>
  BY DEF Score!Select
<1> QED
  BY <1>5, <1>7, <1>8, <1>9, ViewsStay DEF OutInv

LEMMA FetchKeeps ==
  ASSUME Score!OutcomesAssumption, OutInv, NEW p \in Passes, Score!Fetch(p)
  PROVE  OutInv'
<1> DEFINE s == Head(pass[p].todo)
<1>1. pass[p] \in PassRecord /\ pass[p].at = "fetch" /\ pass[p].todo # <<>> /\ UNCHANGED <<path, today, rows>>
  BY DEF OutInv, Score!Fetch
<1>2. s \in Signals
  BY <1>1 DEF PassRecord
<1>3. rows' \in [Signals -> Score!Outcomes \cup {None}]
  BY <1>1 DEF OutInv
<1> HIDE DEF s
<1>4. ASSUME NEW bars, View(bars, s), pass' = [pass EXCEPT ![p].at = "update", ![p].bars = bars],
             DOMAIN cache' = Signals, \A t \in Signals : cache'[t] # None => View(cache'[t], t)
      PROVE  OutInv'
  <2> DEFINE c == [pass[p] EXCEPT !.at = "update", !.bars = bars]
  <2>1. c \in PassRecord /\ c.todo = pass[p].todo /\ c.bars = bars /\ c.at = "update"
    BY <1>1, <1>4 DEF PassRecord, View, ViewOf
  <2>2. pass' = [pass EXCEPT ![p] = c]
    BY <1>1, <1>4 DEF OutInv
  <2>3. View(c.bars, Head(c.todo))
    BY <1>4, <2>1 DEF s
  <2> HIDE DEF c
  <2> QED
    BY <1>1, <1>3, <1>4, <2>1, <2>2, <2>3, ViewsStay
<1>5. CASE cache[s] # None /\ pass' = [pass EXCEPT ![p].at = "update", ![p].bars = cache[s]] /\ UNCHANGED cache
  <2>1. View(cache[s], s)
    BY <1>2, <1>5 DEF OutInv
  <2>2. DOMAIN cache' = Signals /\ \A t \in Signals : cache'[t] # None => View(cache'[t], t)
    BY <1>5 DEF OutInv
  <2> QED
    BY <1>4, <1>5, <2>1, <2>2
<1>6. ASSUME NEW bars \in {path[s], Append(path[s], today[s])}, cache' = [cache EXCEPT ![s] = bars],
             pass' = [pass EXCEPT ![p].at = "update", ![p].bars = bars]
      PROVE  OutInv'
  <2>1. View(bars, s)
    BY <1>2, <1>6, FreshView
  <2>2. DOMAIN cache' = Signals /\ \A t \in Signals : cache'[t] = IF t = s THEN bars ELSE cache[t]
    BY <1>6 DEF OutInv
  <2>3. \A t \in Signals : cache'[t] # None => View(cache'[t], t)
    BY <2>1, <2>2 DEF OutInv
  <2> QED
    BY <1>4, <1>6, <2>1, <2>2, <2>3
<1>7. CASE pass' = Score!FailedRow(p) /\ UNCHANGED cache
  <2>1. pass' = [pass EXCEPT ![p] = Score!Onward(p)]
    BY <1>7 DEF Score!FailedRow
  <2>2. /\ Score!Onward(p) \in PassRecord /\ Score!Onward(p).at \in {"idle", "fetch"}
        /\ Score!Onward(p).at # "idle" => Score!Onward(p).todo # <<>>
    BY <1>1, GoesOn
  <2>3. DOMAIN cache' = Signals /\ \A t \in Signals : cache'[t] # None => View(cache'[t], t)
    BY <1>7 DEF OutInv
  <2> QED
    BY <1>1, <1>3, <2>1, <2>2, <2>3, ViewsStay
<1> QED
  BY <1>5, <1>6, <1>7 DEF Score!Fetch, s

LEMMA UpdateKeeps ==
  ASSUME Score!OutcomesAssumption, OutInv, NEW p \in Passes, Score!Update(p)
  PROVE  OutInv'
<1> DEFINE s == Head(pass[p].todo)
           bars == Score!After(s, pass[p].bars)
<1>1. /\ pass[p] \in PassRecord /\ pass[p].at = "update" /\ pass[p].todo # <<>> /\ UNCHANGED <<path, today, cache>>
      /\ pass' = [pass EXCEPT ![p] = Score!Onward(p)]
  BY DEF OutInv, Score!Update, Score!FailedRow
<1>2. s \in Signals /\ pass[p].bars \in Seq(Kinds)
  BY <1>1 DEF PassRecord
<1>3. bars \in Seq(Kinds)
  <2>1. FoundOn[s] + 1 \in Nat /\ FoundOn[s] + 1 >= 1 /\ Len(pass[p].bars) \in Nat
    BY <1>2 DEF Score!OutcomesAssumption
  <2>2. \A i \in FoundOn[s] + 1 .. Len(pass[p].bars) : pass[p].bars[i] \in Kinds
    BY <1>2, <2>1
  <2> HIDE DEF s
  <2> QED
    BY <2>1, <2>2, SubSeqProperties DEF Score!After
<1>4. rows' \in [Signals -> Score!Outcomes \cup {None}]
  <2>1. Score!Resolve(bars) \in Score!Outcomes
    BY <1>3, ResolveType
  <2>2. rows' = rows \/ rows' = [rows EXCEPT ![s] = Score!Resolve(bars)]
    BY DEF Score!Update
  <2> HIDE DEF bars, s
  <2> QED
    BY <2>1, <2>2 DEF OutInv
<1>5. /\ Score!Onward(p) \in PassRecord /\ Score!Onward(p).at \in {"idle", "fetch"}
      /\ Score!Onward(p).at # "idle" => Score!Onward(p).todo # <<>>
  BY <1>1, GoesOn
<1>6. DOMAIN cache' = Signals /\ \A t \in Signals : cache'[t] # None => View(cache'[t], t)
  BY <1>1 DEF OutInv
<1> QED
  BY <1>1, <1>4, <1>5, <1>6, ViewsStay

\* The market moves, days begin, and the cache ages.
LEMMA TimeKeeps ==
  ASSUME Score!OutcomesAssumption, OutInv, Score!Move \/ Score!NextDay \/ Score!Forget
  PROVE  OutInv'
<1> DEFINE now(s) == Append(path'[s], today'[s])
<1>1. \A s \in Signals : Bars(s)' = now(s)
  BY DEF Bars
<1>2. ASSUME UNCHANGED <<rows, pass>>, path' \in [Signals -> Seq(Kinds)], today' \in [Signals -> Kinds],
             \A s, t \in Signals : Len(path'[s]) = Len(path'[t]),
             DOMAIN cache' = Signals, \A s \in Signals : cache'[s] # None => ViewOf(now(s), cache'[s]),
             \A s \in Signals : \A bars : ViewOf(Bars(s), bars) => ViewOf(now(s), bars)
      PROVE  OutInv'
  <2>1. \A p \in Passes : pass[p].at = "update" => ViewOf(now(Head(pass[p].todo)), pass[p].bars)
    <3>1. SUFFICES ASSUME NEW p \in Passes, pass[p].at = "update"
                   PROVE  ViewOf(now(Head(pass[p].todo)), pass[p].bars)
      OBVIOUS
    <3>2. pass[p] \in PassRecord /\ pass[p].todo # <<>> /\ ViewOf(Bars(Head(pass[p].todo)), pass[p].bars)
      BY <3>1 DEF OutInv, View
    <3>3. Head(pass[p].todo) \in Signals
      BY <3>2 DEF PassRecord
    <3> QED
      BY <1>2, <3>2, <3>3
  <2>2. \A p \in Passes : pass'[p].at = "update" => ViewOf(Bars(Head(pass[p].todo))', pass'[p].bars)
    BY <1>2, <2>1 DEF Bars
  <2>3. \A s \in Signals : cache'[s] # None => ViewOf(Bars(s)', cache'[s])
    BY <1>1, <1>2
  <2>4. /\ pass' \in [Passes -> PassRecord] /\ rows' \in [Signals -> Score!Outcomes \cup {None}]
        /\ \A p \in Passes : pass'[p].at # "idle" => pass'[p].todo # <<>>
    BY <1>2 DEF OutInv
  <2> HIDE DEF now
  <2> QED
    BY <1>2, <2>2, <2>3, <2>4 DEF OutInv, View
<1>3. CASE Score!Move
  <2>1. PICK s \in Signals, k \in {"target", "stop"} :
          today' = [today EXCEPT ![s] = IF today[s] = "flat" THEN k ELSE "both"]
    BY <1>3 DEF Score!Move, Score!OutcomesAssumption
  <2>2. UNCHANGED <<path, rows, cache, pass>>
    BY <1>3 DEF Score!Move
  <2>3. today' \in [Signals -> Kinds] /\ \A t \in Signals : today[t] # "flat" => today'[t] # "flat"
    BY <2>1 DEF OutInv, Kinds
  <2>4. ASSUME NEW t \in Signals, NEW bars, ViewOf(Bars(t), bars) PROVE ViewOf(now(t), bars)
    <3>1. path[t] \in Seq(Kinds) /\ today[t] \in Kinds /\ today'[t] \in Kinds
      BY <2>3 DEF OutInv
    <3>2. /\ Len(now(t)) = Len(path[t]) + 1 /\ now(t)[Len(path[t]) + 1] = today'[t]
          /\ \A i \in 1..Len(path[t]) : now(t)[i] = path[t][i]
      BY <2>2, <3>1
    <3> HIDE DEF now
    <3>3. bars \in Seq(Kinds) /\ Len(bars) \in Nat /\ Len(bars) <= Len(path[t]) + 1 /\ Len(path[t]) \in Nat
      BY <2>4, <3>1, BarsOf DEF ViewOf
    <3>4. ASSUME NEW i \in 1..Len(bars)
          PROVE  /\ i < Len(bars) => bars[i] = now(t)[i]
                 /\ bars[i] # "flat" => now(t)[i] # "flat"
      <4>1. (i < Len(bars) => bars[i] = Bars(t)[i]) /\ (bars[i] # "flat" => Bars(t)[i] # "flat")
        BY <2>4, <3>4 DEF ViewOf
      <4>2. i \in 1..Len(path[t]) \/ i = Len(path[t]) + 1
        BY <3>3, <3>4
      <4> QED
        BY <2>3, <3>2, <3>3, <3>4, <4>1, <4>2, BarsOf
    <3> QED
      BY <3>2, <3>3, <3>4 DEF ViewOf
  <2>5. \A t \in Signals : cache'[t] # None => ViewOf(now(t), cache'[t])
    BY <2>2, <2>4 DEF OutInv, View
  <2> HIDE DEF now
  <2> QED
    BY <1>2, <2>2, <2>3, <2>4, <2>5 DEF OutInv
<1>4. CASE Score!NextDay
  <2>1. /\ path' = [s \in Signals |-> Append(path[s], today[s])] /\ today' = [s \in Signals |-> "flat"]
        /\ cache' = [s \in Signals |-> None] /\ UNCHANGED <<rows, pass>>
    BY <1>4 DEF Score!NextDay
  <2>2. path' \in [Signals -> Seq(Kinds)] /\ today' \in [Signals -> Kinds]
    BY <2>1 DEF OutInv, Kinds
  <2>3. \A s, t \in Signals : Len(path'[s]) = Len(path'[t])
    BY <2>1 DEF OutInv
  <2>4. ASSUME NEW t \in Signals, NEW bars, ViewOf(Bars(t), bars) PROVE ViewOf(now(t), bars)
    <3>1. Bars(t) \in Seq(Kinds) /\ now(t) = Append(Bars(t), "flat")
      BY <2>1, BarsOf DEF Bars
    <3>2. Len(now(t)) = Len(Bars(t)) + 1 /\ Len(Bars(t)) \in Nat /\ \A i \in 1..Len(Bars(t)) : now(t)[i] = Bars(t)[i]
      BY <3>1
    <3> HIDE DEF now
    <3>3. bars \in Seq(Kinds) /\ Len(bars) \in Nat /\ Len(bars) <= Len(Bars(t))
      BY <2>4 DEF ViewOf
    <3> QED
      BY <2>4, <3>2, <3>3 DEF ViewOf
  <2> HIDE DEF now
  <2> QED
    BY <1>2, <2>1, <2>2, <2>3, <2>4
<1>5. CASE Score!Forget
  <2>1. PICK s \in Signals : cache' = [cache EXCEPT ![s] = None]
    BY <1>5 DEF Score!Forget
  <2>2. UNCHANGED <<path, today, rows, pass>>
    BY <1>5 DEF Score!Forget
  <2>3. \A t \in Signals : now(t) = Bars(t)
    BY <2>2 DEF Bars
  <2> HIDE DEF now
  <2>4. DOMAIN cache' = Signals /\ \A t \in Signals : cache'[t] = IF t = s THEN None ELSE cache[t]
    BY <2>1 DEF OutInv
  <2>5. \A t \in Signals : cache'[t] # None => ViewOf(now(t), cache'[t])
    BY <2>3, <2>4 DEF OutInv, View
  <2> QED
    BY <1>2, <2>2, <2>3, <2>4, <2>5 DEF OutInv
<1> QED
  BY <1>3, <1>4, <1>5

LEMMA OutcomesHold == ASSUME Score!OutcomesAssumption PROVE Score!Spec => []OutInv
<1>1. Score!Init => OutInv
  <2> SUFFICES ASSUME Score!Init PROVE OutInv
    OBVIOUS
  <2>1. Score!Idle \in PassRecord /\ Score!Idle.at = "idle"
    BY DEF Score!Idle, PassRecord
  <2>2. path = [s \in Signals |-> <<>>] /\ today = [s \in Signals |-> "flat"] /\ rows = [s \in Signals |-> None]
        /\ cache = [s \in Signals |-> None] /\ pass = [p \in Passes |-> Score!Idle]
    BY DEF Score!Init
  <2> QED
    BY <2>1, <2>2 DEF OutInv, Kinds
<1>2. OutInv /\ [Score!Next]_(Score!vars) => OutInv'
  <2> SUFFICES ASSUME OutInv, [Score!Next]_(Score!vars) PROVE OutInv'
    OBVIOUS
  <2>1. CASE UNCHANGED Score!vars
    BY <2>1 DEF Score!vars, OutInv, View, Bars
  <2> QED
    BY <2>1, SelectKeeps, FetchKeeps, UpdateKeeps, TimeKeeps DEF Score!Next
<1> QED
  BY <1>1, <1>2, PTL DEF Score!Spec

\* An earlier view of bars shows those after a day as an earlier view.
LEMMA LaterView ==
  ASSUME NEW now \in Seq(Kinds), NEW bars, ViewOf(now, bars), NEW n \in Nat
  PROVE  /\ SubSeq(now, n + 1, Len(now)) \in Seq(Kinds)
         /\ ViewOf(SubSeq(now, n + 1, Len(now)), SubSeq(bars, n + 1, Len(bars)))
<1>1. bars \in Seq(Kinds) /\ Len(bars) \in Nat /\ Len(now) \in Nat /\ Len(bars) <= Len(now)
  BY DEF ViewOf
<1>2. ASSUME NEW q \in Seq(Kinds)
      PROVE  /\ SubSeq(q, n + 1, Len(q)) \in Seq(Kinds)
             /\ Len(SubSeq(q, n + 1, Len(q))) = IF n <= Len(q) THEN Len(q) - n ELSE 0
             /\ \A i \in 1..Len(q) - n : SubSeq(q, n + 1, Len(q))[i] = q[n + i]
  <2>1. Len(q) \in Nat /\ n + 1 \in 1..Len(q) + 1 + n
    BY <1>2
  <2>2. \A i \in n + 1 .. Len(q) : q[i] \in Kinds
    BY <1>2, <2>1
  <2> QED
    BY <2>1, <2>2, SubSeqProperties
<1> DEFINE a == SubSeq(bars, n + 1, Len(bars))
           b == SubSeq(now, n + 1, Len(now))
<1>3. a \in Seq(Kinds) /\ b \in Seq(Kinds) /\ Len(a) <= Len(b)
      /\ Len(a) = IF n <= Len(bars) THEN Len(bars) - n ELSE 0
  <2>1. a \in Seq(Kinds) /\ Len(a) = IF n <= Len(bars) THEN Len(bars) - n ELSE 0
    BY <1>1, <1>2, Zenon
  <2>2. b \in Seq(Kinds) /\ Len(b) = IF n <= Len(now) THEN Len(now) - n ELSE 0
    BY <1>2, Zenon
  <2> HIDE DEF a, b
  <2> QED
    BY <1>1, <2>1, <2>2
<1>4. ASSUME NEW i \in 1..Len(a)
      PROVE  /\ i < Len(a) => a[i] = b[i]
             /\ a[i] # "flat" => b[i] # "flat"
  <2>1. i \in 1..Len(bars) - n /\ i \in 1..Len(now) - n /\ n + i \in 1..Len(bars)
        /\ (i < Len(a) => n + i < Len(bars))
    <3> HIDE DEF a
    <3> QED
      BY <1>1, <1>3, <1>4
  <2>2. a[i] = bars[n + i] /\ b[i] = now[n + i]
    BY <1>1, <1>2, <2>1
  <2> HIDE DEF a, b
  <2> QED
    BY <2>1, <2>2 DEF ViewOf
<1> HIDE DEF a, b
<1>5. ViewOf(b, a)
  BY <1>3, <1>4 DEF ViewOf
<1> QED
  BY <1>3, <1>5 DEF a, b

LEMMA FirstIs ==
  ASSUME NEW bars \in Seq(Kinds), NEW j \in 1..Len(bars), bars[j] # "flat",
         \A m \in 1..Len(bars) : bars[m] # "flat" => j <= m
  PROVE  Score!Hits(bars) # {} /\ Score!First(bars) = j
<1>1. j \in Score!Hits(bars) /\ \A m \in Score!Hits(bars) : j <= m
  BY DEF Score!Hits
<1>2. \A m \in Score!Hits(bars) : m \in Int
  BY DEF Score!Hits
<1>3. Score!First(bars) \in Score!Hits(bars) /\ \A m \in Score!Hits(bars) : Score!First(bars) <= m
  BY <1>1, Zenon DEF Score!First
<1>4. Score!First(bars) \in Int /\ j \in Int /\ Score!First(bars) <= j /\ j <= Score!First(bars)
  BY <1>1, <1>2, <1>3, Zenon
<1>5. \A x, y \in Int : x <= y /\ y <= x => x = y
  OBVIOUS
<1>6. Score!First(bars) = j
  BY <1>4, <1>5, Zenon
<1> QED
  BY <1>1, <1>6, Zenon

\* What an earlier view of a signal's bars resolves to is right of the bars as they are.
LEMMA ResolvedRight ==
  ASSUME Score!OutcomesAssumption, NEW s, NEW now \in Seq(Kinds), NEW seen, ViewOf(now, seen)
  PROVE  Score!Right(s, Score!Resolve(seen), seen, now)
<1> DEFINE n == Windowed(seen)
           j == NextOf(seen, n, 1)
<1>1. /\ seen \in Seq(Kinds) /\ Len(seen) \in Nat /\ Len(now) \in Nat /\ Len(seen) <= Len(now)
      /\ \A i \in 1..Len(seen) : (i < Len(seen) => seen[i] = now[i]) /\ (seen[i] # "flat" => now[i] # "flat")
  BY DEF ViewOf
<1>2. n \in Nat /\ n <= Len(seen) /\ n <= Horizon /\ Horizon \in Nat /\ (n # Horizon => n = Len(seen) /\ n < Horizon)
  BY <1>1 DEF Windowed, Score!OutcomesAssumption
<1>3. Score!Resolve(seen) = IF Reaches(seen, n, 1) THEN Score!Judge(seen[j]) ELSE EndOf(n)
  BY <1>1, ResolveIs
<1> HIDE DEF n
<1>4. CASE Reaches(seen, n, 1)
  <2>1. IsNext(seen, n, 1, j)
    BY <1>2, <1>4, NextIs
  <2> HIDE DEF j
  <2>2. j \in 1..Len(seen) /\ j <= n /\ seen[j] # "flat" /\ \A m \in 1..Len(seen) : seen[m] # "flat" => j <= m
    BY <1>1, <1>2, <2>1 DEF IsNext
  <2>3. Score!Hits(seen) # {} /\ Score!First(seen) = j
    BY <1>1, <2>2, FirstIs
  <2>4. j \in 1..Len(now) /\ now[j] # "flat" /\ \A m \in 1..Len(now) : now[m] # "flat" => j <= m
    <3>1. ASSUME NEW m \in 1..Len(now), now[m] # "flat", m < j PROVE FALSE
      BY <1>1, <2>2, <3>1
    <3> QED
      BY <1>1, <2>2, <3>1
  <2>5. Score!First(now) = j
    BY <2>4, FirstIs
  <2>6. seen[j] \in Kinds
    BY <1>1, <2>2
  <2>7. Score!Resolve(seen) = Score!Judge(seen[j])
    BY <1>3, <1>4
  <2>8. Score!Judge(seen[j]) \in {"TARGET", "STOPPED"} /\ (Score!Judge(seen[j]) = "TARGET" <=> seen[j] = "target")
    BY <2>2, <2>6, JudgeOf
  <2>9. j <= Horizon
    BY <1>2, <2>2
  <2> QED
    BY <2>3, <2>5, <2>7, <2>8, <2>9 DEF Score!Right
<1>5. CASE ~Reaches(seen, n, 1)
  <2>1. Score!Resolve(seen) = EndOf(n)
    BY <1>3, <1>5
  <2>2. \A i \in 1..n : seen[i] = "flat"
    BY <1>5 DEF Reaches
  <2>3. CASE n = Horizon
    <3>1. \A i \in Score!Hits(now) : i >= Horizon
      <4>1. SUFFICES ASSUME NEW i \in 1..Len(now), now[i] # "flat", i < Horizon PROVE FALSE
        BY <1>1, <1>2 DEF Score!Hits
      <4> QED
        BY <1>1, <1>2, <2>2, <2>3, <4>1
    <3>2. Len(now) >= Horizon
      BY <1>1, <1>2, <2>3
    <3> QED
      BY <2>1, <2>3, <3>1, <3>2 DEF EndOf, Score!Right
  <2>4. CASE n # Horizon
    <3>1. Score!Hits(seen) \cap 1..Horizon = {}
      BY <1>1, <1>2, <2>2, <2>4 DEF Score!Hits
    <3> QED
      BY <1>2, <2>1, <2>4, <3>1 DEF EndOf, Score!Right
  <2> QED
    BY <2>3, <2>4
<1> QED
  BY <1>4, <1>5

\* However old the bars of a pass are, what it records is right (SwingOutcomes).
THEOREM OutcomesAreRight == ASSUME Score!OutcomesAssumption PROVE Score!Spec => Score!RecordedRight
<1>1. OutInv /\ [Score!Next]_(Score!vars)
        => (\A s \in Signals, p \in Passes : (rows'[s] # rows[s] /\ pass'[p] # pass[p]) =>
              Score!Right(s, rows'[s], SubSeq(pass[p].bars, FoundOn[s] + 1, Len(pass[p].bars)),
                          SubSeq(Append(path[s], today[s]), FoundOn[s] + 1, Score!Day + 1)))
  <2> SUFFICES ASSUME OutInv, [Score!Next]_(Score!vars), NEW s \in Signals, NEW p \in Passes,
                      rows'[s] # rows[s], pass'[p] # pass[p]
               PROVE  Score!Right(s, rows'[s], SubSeq(pass[p].bars, FoundOn[s] + 1, Len(pass[p].bars)),
                                  SubSeq(Append(path[s], today[s]), FoundOn[s] + 1, Score!Day + 1))
    BY Zenon
  <2>1. PICK q \in Passes : Score!Update(q)
    BY DEF Score!Next, Score!vars, Score!Select, Score!Fetch, Score!Move, Score!NextDay, Score!Forget
  <2>2. pass' = [pass EXCEPT ![q] = Score!Onward(q)]
    BY <2>1 DEF Score!Update, Score!FailedRow
  <2>3. q = p
    BY <2>2 DEF OutInv
  <2>4. pass[p].at = "update" /\ rows' = [rows EXCEPT ![Head(pass[p].todo)] = Score!Resolve(Score!After(Head(pass[p].todo), pass[p].bars))]
    BY <2>1, <2>3 DEF Score!Update
  <2>5. s = Head(pass[p].todo) /\ rows'[s] = Score!Resolve(Score!After(s, pass[p].bars))
    BY <2>4 DEF OutInv
  <2>6. ViewOf(Bars(s), pass[p].bars)
    BY <2>4, <2>5 DEF OutInv, View
  <2>7. Bars(s) \in Seq(Kinds) /\ Len(Bars(s)) = Score!Day + 1
    BY BarsOf DEF OutInv, Score!Day
  <2>8. FoundOn[s] \in Nat
    BY DEF Score!OutcomesAssumption
  <2>9. /\ SubSeq(Bars(s), FoundOn[s] + 1, Len(Bars(s))) \in Seq(Kinds)
        /\ ViewOf(SubSeq(Bars(s), FoundOn[s] + 1, Len(Bars(s))), SubSeq(pass[p].bars, FoundOn[s] + 1, Len(pass[p].bars)))
    BY <2>6, <2>7, <2>8, LaterView
  <2>10. Score!Right(s, Score!Resolve(SubSeq(pass[p].bars, FoundOn[s] + 1, Len(pass[p].bars))),
                     SubSeq(pass[p].bars, FoundOn[s] + 1, Len(pass[p].bars)),
                     SubSeq(Bars(s), FoundOn[s] + 1, Len(Bars(s))))
    BY <2>9, ResolvedRight
  <2> QED
    BY <2>5, <2>7, <2>10 DEF Score!After, Bars
<1> QED
  BY <1>1, OutcomesHold, PTL DEF Score!Spec, Score!RecordedRight

-----------------------------------------------------------------------------
(* SwingRules                                                              *)

\* Of the values of f over an interval one is the greatest.
LEMMA Greatest ==
  ASSUME NEW m \in Nat, NEW n \in Nat, m <= n, NEW f, \A i \in m..n : f[i] \in Int
  PROVE  \E k \in m..n : \A i \in m..n : f[i] <= f[k]
<1> DEFINE Top(j) == \E k \in m..j : \A i \in m..j : f[i] <= f[k]
           Bad == {j \in m..n : ~Top(j)}
<1>1. SUFFICES ASSUME Bad # {} PROVE FALSE
  BY DEF Top
<1>2. PICK j \in Bad : \A x \in Bad : j <= x
  <2>1. Bad \subseteq Nat
    OBVIOUS
  <2> HIDE DEF Bad
  <2> QED
    BY <1>1, <2>1, Least
<1>3. j \in m..n /\ ~Top(j)
  BY <1>2
<1>4. j # m
  <2>1. Top(m)
    BY DEF Top
  <2> QED
    BY <1>3, <2>1
<1>5. j - 1 \in m..n /\ Top(j - 1)
  <2>1. j - 1 \in m..n /\ j - 1 < j
    BY <1>3, <1>4
  <2>2. j - 1 \notin Bad
    <3> HIDE DEF Bad
    <3> QED
      BY <1>2, <1>3, <2>1
  <2> HIDE DEF Top
  <2> QED
    BY <2>1, <2>2
<1>6. PICK k \in m..j - 1 : \A i \in m..j - 1 : f[i] <= f[k]
  BY <1>5
<1>7. f[k] \in Int /\ f[j] \in Int /\ k \in m..j /\ j \in m..j /\ (\A i \in m..j : i = j \/ i \in m..j - 1)
  BY <1>3, <1>6
<1>8. CASE f[k] >= f[j]
  BY <1>3, <1>6, <1>7, <1>8
<1>9. CASE f[k] < f[j]
  <2>1. \A i \in m..j - 1 : f[i] \in Int /\ f[i] <= f[j]
    BY <1>3, <1>6, <1>7, <1>9
  <2> QED
    BY <1>3, <1>7, <2>1
<1> QED
  BY <1>7, <1>8, <1>9

LEMMA MaxIs ==
  ASSUME NEW S, NEW m \in S, m \in Int, \A x \in S : x \in Int /\ x <= m
  PROVE  Rules!Max(S) = m
<1>1. Rules!Max(S) \in S /\ \A x \in S : Rules!Max(S) >= x
  BY Zenon DEF Rules!Max
<1>2. Rules!Max(S) \in Int /\ Rules!Max(S) <= m /\ Rules!Max(S) >= m
  BY <1>1, Zenon
<1>3. \A x, y \in Int : x <= y /\ x >= y => x = y
  OBVIOUS
<1> QED
  BY <1>2, <1>3, Zenon

Typed == candles \in Seq(Candles)

LEMMA RulesHold == Rules!Spec => []Typed
<1>1. Rules!Init => Typed
  BY DEF Rules!Init, Typed
<1>2. Typed /\ [Rules!Next]_(Rules!vars) => Typed'
  BY DEF Typed, Rules!Next, Rules!NewCandle, Rules!vars
<1> QED
  BY <1>1, <1>2, PTL DEF Rules!Spec

\* The candles that a breakout is about.
LEMMA Reported ==
  ASSUME Rules!RulesAssumption, Typed, Rules!Enough
  PROVE  /\ Rules!Now \in Nat /\ Rules!Now >= 2
         /\ \A i \in 1..Rules!Now : candles[i] \in Candles /\ candles[i].h \in Nat /\ candles[i].c \in Nat
                                  /\ candles[i].c > 0 /\ candles[i].v \in Nat
         /\ Rules!Bar = candles[Rules!Now] /\ Rules!Before = candles[Rules!Now - 1]
<1>1. Rules!Now \in Nat /\ Rules!Now >= 2
  <2>1. Rules!Now \in Nat /\ Rules!Now >= MinBars
    BY DEF Typed, Rules!Now, Rules!Enough
  <2>2. Long \in Nat /\ Short \in Nat /\ Lag \in Nat /\ MinBars \in Nat /\ Short > 0 /\ Short < Long /\ Long + Lag <= MinBars
    BY DEF Rules!RulesAssumption
  <2> QED
    BY <2>1, <2>2
<1>2. \A i \in 1..Rules!Now : candles[i] \in Candles
  BY DEF Typed, Rules!Now
<1>3. ASSUME NEW b \in Candles PROVE b.h \in Nat /\ b.c \in Nat /\ b.c > 0 /\ b.v \in Nat
  <2>1. b \in [h : Nat, l : Nat \ {0}, c : Nat, v : Nat] /\ b.l <= b.c
    BY DEF Rules!RulesAssumption
  <2> QED
    BY <2>1
<1> QED
  BY <1>1, <1>2, <1>3 DEF Rules!Bar, Rules!Before

\* The prefilter on quotes keeps every stock the rules report (swingScanService.js prefilterUniverse).
THEOREM PrefilterIsSound == ASSUME Rules!RulesAssumption PROVE Rules!Spec => []Rules!PrefilterKeeps
<1>1. ASSUME Rules!RulesAssumption, Typed PROVE Rules!PrefilterKeeps
  <2> SUFFICES ASSUME Rules!Breakout PROVE Rules!Survives(Rules!Quote)
    BY DEF Rules!PrefilterKeeps
  <2>1. Rules!Enough /\ Rules!Liquid /\ Rules!Moved
    BY DEF Rules!Breakout
  <2> DEFINE b == Rules!Bar
             a == Rules!Before
  <2>2. b.c \in Nat /\ a.c \in Nat /\ a.c > 0 /\ b.v \in Nat
    BY <1>1, <2>1, Reported
  <2>3. b.v * b.c > LeastValue /\ b.c > 50 /\ b.c * 1000 > a.c * 1005
    BY <2>1 DEF Rules!Liquid, Rules!Moved
  <2>4. Rules!Quote.ltp = b.c /\ Rules!Quote.volume = b.v /\ Rules!Quote.change = b.c - a.c
    BY DEF Rules!Quote
  <2>5. Rules!PrevClose(Rules!Quote) = a.c
    <3> HIDE DEF a, b
    <3> QED
      BY <2>2, <2>4 DEF Rules!PrevClose
  <2> HIDE DEF a, b
  <2> QED
    BY <2>2, <2>3, <2>4, <2>5 DEF Rules!Survives
<1> QED
  BY <1>1, RulesHold, PTL

\* What is reported closes at a new high of the year (swingScanService.js evaluateSwing).
THEOREM ReportsNewHighs == ASSUME Rules!RulesAssumption PROVE Rules!Spec => []Rules!NewHigh
<1>1. ASSUME Rules!RulesAssumption, Typed PROVE Rules!NewHigh
  <2> SUFFICES ASSUME Rules!Breakout
               PROVE  /\ \A i \in Rules!Max({1, Rules!Now - Year}) .. Rules!Now - 1 : candles[i].h <= Rules!Bar.c
                      /\ \E i \in 1..Rules!Now - 1 : candles[i].c < Rules!Bar.c
    BY DEF Rules!NewHigh
  <2> DEFINE n == Rules!Now
             c == Rules!Bar.c
  <2>1. Rules!Enough /\ Rules!Fresh /\ Rules!Moved
    BY DEF Rules!Breakout
  <2>2. n \in Nat /\ n >= 2 /\ c \in Nat /\ Rules!Before = candles[n - 1] /\ Year \in Nat /\ Year > 0
        /\ \A i \in 1..n : candles[i].h \in Nat /\ candles[i].c \in Nat /\ candles[i].c > 0
    BY <1>1, <2>1, Reported DEF Rules!RulesAssumption
  <2>3. candles[n - 1].c < c
    <3>1. c * 1000 > candles[n - 1].c * 1005
      BY <2>1, <2>2 DEF Rules!Moved
    <3>2. n - 1 \in 1..n
      BY <2>2
    <3> HIDE DEF n, c
    <3> QED
      BY <2>2, <3>1, <3>2
  <2> DEFINE first == IF n - Year > 1 THEN n - Year ELSE 1
             len == IF Year < n - 1 THEN Year ELSE n - 1
  <2> HIDE DEF n, c
  <2>4. Rules!Max({1, n - Year}) = first
    <3>1. first \in {1, n - Year} /\ first \in Int /\ \A x \in {1, n - Year} : x \in Int /\ x <= first
      BY <2>2
    <3> HIDE DEF first
    <3> QED
      BY <3>1, MaxIs
  <2>5. Rules!Min({Year, n - 1}) = len
    <3>1. /\ Rules!Min({Year, n - 1}) \in {Year, n - 1}
          /\ \A x \in {Year, n - 1} : Rules!Min({Year, n - 1}) <= x
      <4>1. \E m \in {Year, n - 1} : \A x \in {Year, n - 1} : m <= x
        BY <2>2
      <4> QED
        BY <4>1, Zenon DEF Rules!Min
    <3> QED
      BY <2>2, <3>1
  <2>6. Rules!Max({1, n - 1 - len + 1}) = first
    <3> DEFINE low == n - 1 - len + 1
    <3>1. low \in Int /\ first = (IF low > 1 THEN low ELSE 1)
      BY <2>2
    <3> HIDE DEF first, low
    <3>2. first \in {1, low} /\ first \in Int /\ \A x \in {1, low} : x \in Int /\ x <= first
      BY <3>1
    <3>3. Rules!Max({1, low}) = first
      BY <3>2, MaxIs
    <3> QED
      BY <3>3 DEF low
  <2> DEFINE highs == {candles[i].h : i \in first..n - 1}
  <2>7. Rules!Highest(len, 1) = Rules!Max(highs)
    BY <2>6 DEF Rules!Highest, n
  <2>8. c >= Rules!Max(highs)
    BY <2>1, <2>5, <2>7 DEF Rules!Fresh, n, c
  <2>9. first \in Nat /\ first >= 1 /\ first <= n - 1 /\ n - 1 \in Nat
    BY <2>2
  <2> HIDE DEF first
  <2>10. PICK k \in first..n - 1 : \A i \in first..n - 1 : candles[i].h <= candles[k].h
    <3> DEFINE f == [i \in first..n - 1 |-> candles[i].h]
    <3>1. \A i \in first..n - 1 : f[i] \in Int
      BY <2>2, <2>9
    <3>2. \E k \in first..n - 1 : \A i \in first..n - 1 : f[i] <= f[k]
      <4> HIDE DEF f
      <4> QED
        BY <2>9, <3>1, Greatest
    <3> QED
      BY <3>2
  <2>11. Rules!Max(highs) = candles[k].h
    <3>1. candles[k].h \in highs /\ candles[k].h \in Int /\ \A x \in highs : x \in Int /\ x <= candles[k].h
      BY <2>2, <2>9, <2>10
    <3> HIDE DEF highs
    <3> QED
      BY <3>1, MaxIs
  <2>12. \A i \in first..n - 1 : candles[i].h <= c
    <3>1. \A i \in first..n - 1 : candles[i].h \in Nat
      BY <2>2, <2>9
    <3>2. candles[k].h <= c
      BY <2>8, <2>11
    <3> HIDE DEF highs
    <3> QED
      BY <2>2, <2>10, <3>1, <3>2
  <2>13. n - 1 \in 1..n - 1
    BY <2>2
  <2> QED
    BY <2>3, <2>4, <2>12, <2>13 DEF n, c
<1> QED
  BY <1>1, RulesHold, PTL
=============================================================================
