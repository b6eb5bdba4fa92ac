---------------------------- MODULE SwingOutcomes ----------------------------
(***************************************************************************)
(* swingOutcomes: passes started by requests walk the saved signals that    *)
(* are undecided, fetch the daily bars since (from a cache shared by all    *)
(* passes), and record how each signal ended.  A bar is told by which of    *)
(* the signal's levels it has reached; the bar of the running day is still  *)
(* growing, and the price source may include it.                            *)
(***************************************************************************)
EXTENDS FiniteSets, Integers, Sequences

CONSTANTS
  Signals,   \* rows of swing_signals
  FoundOn,   \* the day of each signal (signal_date)
  Movers,    \* bound: signals a level of which may be reached
  Passes,
  Horizon,   \* HORIZON_BARS
  Limit,     \* rows a pass reads
  MaxDay,    \* bound: days
  None

OutcomesAssumption ==
  /\ Horizon \in Nat \ {0} /\ Limit \in Nat \ {0} /\ MaxDay \in Nat
  /\ FoundOn \in [Signals -> Nat] /\ IsFiniteSet(Signals) /\ Movers \subseteq Signals /\ None \notin Signals

VARIABLES
  dead,      \* signals whose bars can never be fetched (delisted symbols)
  path,      \* the bars of the days that are over, by signal
  today,     \* the running day's bar so far
  rows,      \* recorded outcomes
  cache,     \* _barCache
  pass       \* the passes

vars == <<dead, path, today, rows, cache, pass>>

BarKinds == {"flat", "target", "stop", "both"}
Outcomes == {"TARGET", "STOPPED", "EXPIRED", "OPEN"}
Day == Len(path[CHOOSE s \in Signals : TRUE])
Idle == [at |-> "idle", todo |-> <<>>, bars |-> <<>>]

TypeOK ==
  /\ dead \subseteq Signals
  /\ path \in [Signals -> Seq(BarKinds)] /\ today \in [Signals -> BarKinds]
  /\ \A s \in Signals :
       /\ rows[s] \in Outcomes \cup {None}
       /\ cache[s] \in Seq(BarKinds) \cup {None}
  /\ \A p \in Passes :
       /\ pass[p].at \in {"idle", "fetch", "update"} /\ pass[p].bars \in Seq(BarKinds)
       /\ pass[p].todo \in Seq(Signals) /\ Len(pass[p].todo) <= Limit
       /\ pass[p].at = "idle" <=> pass[p].todo = <<>>

Init ==
  /\ dead \in SUBSET (Signals \ Movers)
  /\ path = [s \in Signals |-> <<>>] /\ today = [s \in Signals |-> "flat"]
  /\ rows = [s \in Signals |-> None]
  /\ cache = [s \in Signals |-> None]
  /\ pass = [p \in Passes |-> Idle]

------------------------------------------------------------------------------
(* resolveOutcome *)


\* Bars strictly after the signal's date; bar i is that of day i.
After(s, bars) == SubSeq(bars, FoundOn[s] + 1, Len(bars))

HitStop(kind) == kind \in {"stop", "both"}
HitTarget(kind) == kind \in {"target", "both"}

\* Both in one bar: assume the stop.
Judge(kind) ==
  IF HitStop(kind) THEN "STOPPED" ELSE IF HitTarget(kind) THEN "TARGET" ELSE "OPEN"

\* The loop over the window, bar by bar; then the end of the horizon.
Resolve(bars) ==
  LET n == IF Len(bars) < Horizon THEN Len(bars) ELSE Horizon
      walk[i \in 1..n + 1] ==
        IF i = n + 1 THEN IF n = Horizon THEN "EXPIRED" ELSE "OPEN"
        ELSE IF Judge(bars[i]) /= "OPEN" THEN Judge(bars[i]) ELSE walk[i + 1]
  IN walk[1]

------------------------------------------------------------------------------
(* evaluatePending *)


Undecided == {s \in Signals : rows[s] \in {None, "OPEN"}}

\* Newest first, at most Limit.
Selections(S) ==
  {q \in UNION {[1..n -> S] : n \in {IF Cardinality(S) < Limit THEN Cardinality(S) ELSE Limit}} :
     /\ \A i, j \in DOMAIN q : i < j => q[i] /= q[j] /\ FoundOn[q[i]] >= FoundOn[q[j]]
     /\ \A s \in S, i \in DOMAIN q : FoundOn[s] > FoundOn[q[i]] => \E j \in DOMAIN q : q[j] = s}

\* The undecided rows; with "force", every row.
Select(p) ==
  /\ pass[p].at = "idle"
  /\ \E S \in {Undecided, Signals} \ {{}} : \E q \in Selections(S) :
       pass' = [pass EXCEPT ![p] = [Idle EXCEPT !.at = "fetch", !.todo = q]]
  /\ UNCHANGED <<dead, path, today, rows, cache>>

\* The next row, or the end of the pass.
Onward(p) ==
  IF Len(pass[p].todo) = 1 THEN Idle
  ELSE [pass[p] EXCEPT !.at = "fetch", !.todo = Tail(@), !.bars = <<>>]

\* A row that fails is left for another pass.
FailedRow(p) == [pass EXCEPT ![p] = Onward(p)]

\* fetchDailyBars: from the cache, or from the price source with or without the
\* running day.
Fetch(p) ==
  /\ pass[p].at = "fetch"
  /\ LET s == Head(pass[p].todo)
     IN \/ /\ cache[s] /= None
           /\ pass' = [pass EXCEPT ![p].at = "update", ![p].bars = cache[s]]
           /\ UNCHANGED cache
        \/ /\ cache[s] = None /\ s \notin dead
           /\ \E bars \in {path[s], Append(path[s], today[s])} :
                /\ cache' = [cache EXCEPT ![s] = bars]
                /\ pass' = [pass EXCEPT ![p].at = "update", ![p].bars = bars]
        \/ /\ cache[s] = None
           /\ pass' = FailedRow(p) /\ UNCHANGED cache
  /\ UNCHANGED <<dead, path, today, rows>>

Update(p) ==
  /\ pass[p].at = "update"
  /\ LET s == Head(pass[p].todo)
         bars == After(s, pass[p].bars)
     IN \/ /\ rows' = [rows EXCEPT ![s] = Resolve(bars)]
           /\ pass' = [pass EXCEPT ![p] = Onward(p)]
        \/ /\ pass' = FailedRow(p) /\ UNCHANGED rows
  /\ UNCHANGED <<dead, path, today, cache>>

------------------------------------------------------------------------------
(* The market and the clock *)

Move ==
  /\ \E s \in Movers, k \in {"target", "stop"} :
       /\ today[s] \notin {k, "both"}
       /\ today' = [today EXCEPT ![s] = IF @ = "flat" THEN k ELSE "both"]
  /\ UNCHANGED <<dead, path, rows, cache, pass>>

\* The next session begins; no entry of the cache is as old as the night.
NextDay ==
  /\ Day < MaxDay
  /\ path' = [s \in Signals |-> Append(path[s], today[s])]
  /\ today' = [s \in Signals |-> "flat"]
  /\ cache' = [s \in Signals |-> None]
  /\ UNCHANGED <<dead, rows, pass>>

\* An entry of the cache is used for half an hour.
Forget ==
  /\ \E s \in Signals : cache[s] /= None /\ cache' = [cache EXCEPT ![s] = None]
  /\ UNCHANGED <<dead, path, today, rows, pass>>

Next == (\E p \in Passes : Select(p) \/ Fetch(p) \/ Update(p)) \/ Move \/ NextDay \/ Forget

Spec == Init /\ [][Next]_vars

\* Passes are asked for again and again, days end, entries of the cache age, and
\* a fetch or an update that can succeed does so sooner or later.
FairSpec ==
  /\ Spec /\ WF_vars(NextDay)
  /\ \A s \in Signals : WF_vars(Forget /\ cache'[s] /= cache[s])
  /\ \A p \in Passes :
       /\ WF_vars(Select(p)) /\ WF_vars(Fetch(p)) /\ WF_vars(Update(p))
       /\ \A s \in Signals :
            /\ SF_vars(Fetch(p) /\ Head(pass[p].todo) = s /\ cache'[s] = path[s] \o <<today[s]>>)
            /\ SF_vars(Update(p) /\ Head(pass[p].todo) = s /\ rows'[s] = Resolve(After(s, pass[p].bars)))

------------------------------------------------------------------------------
\* The first day of a sequence of bars on which a level is reached, if any.
Hits(bars) == {i \in DOMAIN bars : bars[i] /= "flat"}
First(bars) == CHOOSE i \in Hits(bars) : \A j \in Hits(bars) : i <= j

Right(s, outcome, seen, now) ==
  /\ outcome \in {"TARGET", "STOPPED"} =>
       /\ Hits(seen) /= {} /\ First(seen) <= Horizon /\ First(seen) = First(now)
       /\ outcome = "TARGET" <=> seen[First(seen)] = "target"
  /\ outcome = "EXPIRED" => Len(now) >= Horizon /\ \A i \in Hits(now) : i >= Horizon
  /\ outcome = "OPEN" => Hits(seen) \cap 1..Horizon = {} /\ Len(seen) < Horizon

\* A win is recorded only when the target was reached within the horizon, on a
\* day after the signal's that no stop preceded, nor was in the same bar as far
\* as the pass had seen it; a stop only when no earlier day was a win; and a
\* signal expires only when its horizon has passed without a level reached -
\* however old the bars of the pass are ("we always assume the STOP hit first").
RecordedRight ==
  [][\A s \in Signals, p \in Passes :
       (rows'[s] /= rows[s] /\ pass'[p] /= pass[p]) =>
         Right(s, rows'[s], SubSeq(pass[p].bars, FoundOn[s] + 1, Len(pass[p].bars)),
               SubSeq(Append(path[s], today[s]), FoundOn[s] + 1, Day + 1))]_vars

\* A signal whose horizon is over, and whose bars can be had, is decided in the
\* end although rows of other signals fail - as long as fewer rows fail for good
\* than a pass reads.
Scored ==
  \A s \in Signals :
    (Day >= FoundOn[s] + Horizon /\ s \notin dead /\ Cardinality(dead) < Limit)
      ~> rows[s] \notin {None, "OPEN"}
=============================================================================
