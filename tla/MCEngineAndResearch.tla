------------------------ MODULE MCEngineAndResearch ------------------------
(***************************************************************************)
(* One run for four parts that share no state: the entries and exits of the *)
(* live engine, and what is computed about stocks meanwhile: the regimes of *)
(* a stock, and the two jobs that go on in the background, the swing scan   *)
(* and the scoring of its signals.  `part` says which of them moves; the    *)
(* others rest in one initial state.                                        *)
(***************************************************************************)
EXTENDS LiveEngine, Sequences

CONSTANTS s1, s2, x1, x2, g1, g2, p1, None

VARIABLES
  part,
  bar, smoothed, current, pending, pendingCount, lockout, since, agreed,
  state, arrays, scan, breakouts, saved, mixed,
  dead, path, today, scored, bars, pass

ASSUME EngineAssumption

Detect == INSTANCE Regime WITH
  Scale <- 20, Upper <- 12, Lower <- 7, Smooth <- 5, MinConfirm <- 3, Lockout <- 5,
  Raws <- {0, 6, 10, 13, 20}
Swing == INSTANCE SwingScan WITH
  Scans <- {x1, x2}, Symbols <- {s1, s2}, Workers <- 1, table <- saved
Score == INSTANCE SwingOutcomes WITH
  Signals <- {g1, g2}, FoundOn <- [g \in {g1, g2} |-> IF g = g1 THEN 0 ELSE 1], Movers <- {},
  Passes <- {p1}, Horizon <- 2, Limit <- 2, MaxDay <- 3, rows <- scored, cache <- bars

ASSUME PartsAssumption ==
  /\ Detect!RegimeAssumption /\ Swing!ScanAssumption /\ Score!OutcomesAssumption

detectVars == <<bar, smoothed, current, pending, pendingCount, lockout, since, agreed>>
swingVars == <<state, arrays, scan, breakouts, saved, mixed>>
scoreVars == <<dead, path, today, scored, bars, pass>>
all == <<part, vars, detectVars, swingVars, scoreVars>>

AllInit ==
  /\ part \in {"engine", "regime", "scan", "outcomes"}
  /\ Init
  /\ Detect!Init /\ (part = "regime" \/ (~bar.volatile /\ bar.raw = 0))
  /\ Swing!Init /\ (part = "scan" \/ breakouts = {})
  /\ Score!Init /\ (part = "outcomes" \/ dead = {})

AllNext ==
  /\ UNCHANGED part
  /\ \/ part = "engine" /\ Next /\ UNCHANGED <<detectVars, swingVars, scoreVars>>
     \/ part = "regime" /\ Detect!Next /\ UNCHANGED <<vars, swingVars, scoreVars>>
     \/ part = "scan" /\ Swing!Next /\ UNCHANGED <<vars, detectVars, scoreVars>>
     \/ part = "outcomes" /\ Score!Next /\ UNCHANGED <<vars, detectVars, swingVars>>

\* The fairness of each part's own FairSpec, for the part that moves: the engine ticks and
\* its orders fill, the signals of a stock are asked for again and again, a scan goes on,
\* and so does the scoring.  Since only one part moves, a fair action of one can share its
\* formula with one of another.
EngineDoes(A) ==
  part = "engine" /\ A /\ UNCHANGED <<part, detectVars, swingVars, scoreVars>>
ScanDoes(A) ==
  part = "scan" /\ A /\ UNCHANGED <<part, vars, detectVars, scoreVars>>
ScoringDoes(A) ==
  part = "outcomes" /\ A /\ UNCHANGED <<part, vars, detectVars, swingVars>>
Evaluates ==
  part = "regime" /\ Detect!Evaluate /\ UNCHANGED <<part, vars, swingVars, scoreVars>>

FetchedInTime(g) ==
  Score!Fetch(p1) /\ Head(pass[p1].todo) = g /\ bars'[g] = path[g] \o <<today[g]>>

Fairness ==
  /\ WF_all(\/ EngineDoes(Tick) \/ ScanDoes(Swing!Step(x1))
            \/ ScoringDoes(Score!NextDay) \/ Evaluates)
  /\ WF_all(\/ EngineDoes(Placing("tick")) \/ ScanDoes(Swing!Step(x2))
            \/ ScoringDoes(Score!Select(p1)))
  /\ WF_all(EngineDoes(Placing("user")) \/ ScoringDoes(Score!Fetch(p1)))
  /\ WF_all(EngineDoes(Fill(s1, "BUY")) \/ ScoringDoes(Score!Update(p1)))
  /\ WF_all(\/ EngineDoes(Fill(s1, "SELL"))
            \/ ScoringDoes(Score!Forget /\ bars'[g1] /= bars[g1]))
  /\ WF_all(\/ EngineDoes(Fill(s2, "BUY"))
            \/ ScoringDoes(Score!Forget /\ bars'[g2] /= bars[g2]))
  /\ WF_vars(part = "engine" /\ Fill(s2, "SELL"))
  /\ \A s \in {s1, s2}, side \in {"BUY", "SELL"} :
       WF_vars(part = "engine" /\ Ages(s, side))
  /\ SF_all(EngineDoes(EntriesDone) \/ ScoringDoes(FetchedInTime(g1)))
  /\ SF_scoreVars(part = "outcomes" /\ FetchedInTime(g2))
  /\ \A g \in {g1, g2} :
       SF_scoreVars(/\ part = "outcomes" /\ Score!Update(p1) /\ Head(pass[p1].todo) = g
                    /\ scored'[g] = Score!Resolve(Score!After(g, pass[p1].bars)))

AllSpec == AllInit /\ [][AllNext]_all /\ Fairness

\* Regime: after a switch the lockout holds, a switch was confirmed without a break, and
\* a lasting trend is recognised.
RegimeSteady ==
  /\ []Detect!TypeOK
  /\ Detect!SwitchesApart
  /\ Detect!SwitchConfirmed
  /\ part = "regime" => Detect!Recognised

\* SwingScan: a lone scan is complete, its hits are saved, and every scan ends.
ScansRight ==
  /\ [](Swing!TypeOK /\ Swing!OneByOneComplete /\ Swing!HitsSaved)
  /\ part = "scan" => Swing!ScanEnds

=============================================================================
