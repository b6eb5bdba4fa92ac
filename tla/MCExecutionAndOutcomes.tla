----------------------- MODULE MCExecutionAndOutcomes -----------------------
(***************************************************************************)
(* One run for the simulated execution of overlapping orders and for what   *)
(* the swing job records of its signals.  They share no state: `part` says  *)
(* which of them moves, the other rests.                                    *)
(***************************************************************************)
EXTENDS PaperExecution, TLC

CONSTANTS g1, g2, p1, None

\* The days of the signals.
MCFound == [g \in {g1, g2} |-> IF g = g1 THEN 0 ELSE 1]

VARIABLES part, dead, path, bar, rows, bars, pass

Score == INSTANCE SwingOutcomes WITH
  Signals <- {g1, g2}, FoundOn <- MCFound, Movers <- {g1}, Passes <- {p1}, Horizon <- 2,
  Limit <- 2, MaxDay <- 2, today <- bar, cache <- bars

ASSUME ScoringHasSense == Score!OutcomesAssumption

scoreVars == <<dead, path, bar, rows, bars, pass>>
all == <<part, vars, scoreVars>>

AllInit ==
  /\ part \in {"execution", "outcomes"}
  /\ Init /\ Score!Init /\ (part = "outcomes" \/ dead = {})

AllNext ==
  /\ UNCHANGED part
  /\ \/ part = "execution" /\ Next /\ UNCHANGED scoreVars
     \/ part = "outcomes" /\ Score!Next /\ UNCHANGED vars

AllSpec == AllInit /\ [][AllNext]_all

\* Nothing orders the members of these sets.
Symmetry == Permutations(Callers) \cup Permutations(Symbols)

=============================================================================
