------------------------------ MODULE SwingScan ------------------------------
(***************************************************************************)
(* swingScanService: a scan started by a request runs in the background     *)
(* over the whole market - quote pre-filter in chunks, then a few workers   *)
(* that fetch candles - and reports through one state object that every     *)
(* scan shares.  The list of hits is an array: a scan begins with a new     *)
(* one, and whoever pushes uses the one the state object holds just then.   *)
(***************************************************************************)
EXTENDS FiniteSets, Integers, Sequences, SequencesExt

CONSTANTS
  Scans,     \* scans that may be started
  Symbols,   \* the listed equities
  Workers,   \* CONCURRENCY
  None

ScanAssumption == Workers \in Nat \ {0} /\ IsFiniteSet(Symbols) /\ None \notin Scans

VARIABLES
  state,     \* the shared state; hits names the scan whose array it holds
  arrays,    \* the array each scan has begun with
  scan,      \* the scans
  breakouts, \* symbols whose candles pass every rule
  table,     \* swing_signals of today
  mixed      \* history: two scans have run at the same time

vars == <<state, arrays, scan, breakouts, table, mixed>>

Idle == [at |-> "idle", rest |-> {}, busy |-> {}, left |-> {}, list |-> None, next |-> 1]

TypeOK ==
  /\ state \in [running : BOOLEAN, done : Nat, total : Nat, hits : Scans \cup {None},
                errors : Nat, failed : BOOLEAN]
  /\ \A x \in Scans :
       /\ arrays[x] \in Seq(Symbols)
       /\ scan[x].at \in {"idle", "universe", "prefilter", "workers", "persist", "over"}
       /\ scan[x].busy \subseteq Symbols /\ Cardinality(scan[x].busy) <= Workers
       /\ scan[x].rest \subseteq Symbols /\ scan[x].left \subseteq Symbols
       /\ scan[x].list \in Scans \cup {None} /\ scan[x].next \in Nat
  /\ breakouts \subseteq Symbols /\ table \subseteq Symbols /\ mixed \in BOOLEAN

Init ==
  /\ state = [running |-> FALSE, done |-> 0, total |-> 0, hits |-> None, errors |-> 0,
              failed |-> FALSE]
  /\ arrays = [x \in Scans |-> <<>>]
  /\ scan = [x \in Scans |-> Idle]
  /\ breakouts \in SUBSET Symbols /\ table = {} /\ mixed = FALSE

------------------------------------------------------------------------------
Working(x) == scan[x].at \in {"prefilter", "workers"}
Running == {x \in Scans : Working(x)}

\* runScan: nothing happens while a scan is marked as running; without a broker
\* token there is only an error to show.
Request(x) ==
  /\ scan[x].at = "idle"
  /\ \/ /\ ~state.running
        /\ scan' = [scan EXCEPT ![x].at = "universe"]
        /\ UNCHANGED state
     \/ /\ ~state.running
        /\ state' = [state EXCEPT !.failed = TRUE]
        /\ scan' = [scan EXCEPT ![x].at = "over"]
     \/ /\ state.running
        /\ scan' = [scan EXCEPT ![x].at = "over"]
        /\ UNCHANGED state
  /\ UNCHANGED <<arrays, breakouts, table, mixed>>

\* getUniverse never fails: without the master it answers the mapped symbols.
Begin(x) ==
  /\ scan[x].at = "universe"
  /\ state' = [running |-> TRUE, done |-> 0, total |-> Cardinality(Symbols), hits |-> x,
               errors |-> 0, failed |-> FALSE]
  /\ scan' = [scan EXCEPT ![x].at = "prefilter", ![x].rest = Symbols]
  /\ mixed' = (mixed \/ Running /= {})
  /\ UNCHANGED <<arrays, breakouts, table>>

\* Symbols kept for the full check: the quote rules are among the rules of a
\* breakout, so they drop none; a chunk without quotes is kept whole.
Chunk(x, failed) ==
  IF failed THEN {scan[x].rest} ELSE {K \in SUBSET scan[x].rest : scan[x].rest \cap breakouts \subseteq K}

Prefilter(x) ==
  /\ scan[x].at = "prefilter"
  /\ \E failed \in BOOLEAN : \E K \in Chunk(x, failed) :
       /\ scan' = [scan EXCEPT ![x].at = "workers", ![x].left = K, ![x].rest = {}]
       /\ state' = [state EXCEPT !.done = Cardinality(Symbols) - Cardinality(K)]
  /\ UNCHANGED <<arrays, breakouts, table, mixed>>

\* A free worker takes the next symbol.
Take(x) ==
  /\ scan[x].at = "workers" /\ Cardinality(scan[x].busy) < Workers
  /\ \E s \in scan[x].left :
       scan' = [scan EXCEPT ![x].left = @ \ {s}, ![x].busy = @ \cup {s}]
  /\ UNCHANGED <<state, arrays, breakouts, table, mixed>>

\* The candles of s arrive, or do not; either way s is done.
Counted(failed) ==
  [state EXCEPT !.done = @ + 1, !.errors = IF failed THEN @ + 1 ELSE @]

Fetched(x) ==
  /\ scan[x].at = "workers"
  /\ \E s \in scan[x].busy, failed \in BOOLEAN :
       /\ scan' = [scan EXCEPT ![x].busy = @ \ {s}]
       /\ state' = Counted(failed)
       /\ arrays' = IF ~failed /\ s \in breakouts
                      THEN [arrays EXCEPT ![state.hits] = Append(@, s)] ELSE arrays
  /\ UNCHANGED <<breakouts, table, mixed>>

Ended == [state EXCEPT !.running = FALSE]

\* All workers have stopped: the hits are sorted, and the scan goes on to save
\* the list the state object holds now.
Finish(x) ==
  /\ scan[x].at = "workers" /\ scan[x].left = {} /\ scan[x].busy = {}
  /\ state' = Ended
  /\ scan' = [scan EXCEPT ![x].at = "persist", ![x].list = state.hits]
  /\ \E a \in SetToSeqs(ToSet(arrays[state.hits])) :
       arrays' = IF Len(a) = Len(arrays[state.hits])
                   THEN [arrays EXCEPT ![state.hits] = a] ELSE arrays
  /\ UNCHANGED <<breakouts, table, mixed>>

\* Mutant: the last hit of the list is left out.
AllSavedButOne(x) == scan[x].next >= Len(arrays[scan[x].list])

AllSaved(x) == scan[x].next > Len(arrays[scan[x].list])

\* persistHits goes through the array, which may still grow; INSERT IGNORE, and
\* the first error ends it.
Persist(x) ==
  /\ scan[x].at = "persist"
  /\ IF AllSaved(x)
       THEN /\ scan' = [scan EXCEPT ![x].at = "over"] /\ UNCHANGED table
     ELSE \/ /\ table' = table \cup {arrays[scan[x].list][scan[x].next]}
             /\ scan' = [scan EXCEPT ![x].next = @ + 1]
          \/ /\ scan' = [scan EXCEPT ![x].at = "over", ![x].next = 0]
             /\ UNCHANGED table
  /\ UNCHANGED <<state, arrays, breakouts, mixed>>

Step(x) ==
  \/ Request(x) \/ Begin(x) \/ Prefilter(x) \/ Take(x) \/ Fetched(x) \/ Finish(x) \/ Persist(x)

Done == (\A x \in Scans : scan[x].at = "over") /\ UNCHANGED vars

Next == (\E x \in Scans : Step(x)) \/ Done

Spec == Init /\ [][Next]_vars

\* Every request the scan sends has a timeout.
FairSpec == Spec /\ \A x \in Scans : WF_vars(Step(x))

------------------------------------------------------------------------------
\* As long as scans have not overlapped, a scan that is over has accounted for
\* every symbol once, has reported no symbol twice, and every breakout whose
\* candles it could fetch is among its hits: the quote pre-filter and failing
\* chunks lose none (prefilterUniverse: "it can never change the results").
OneByOneComplete ==
  (~mixed /\ ~state.running /\ state.hits /= None) =>
    LET hits == arrays[state.hits]
    IN /\ state.done = state.total /\ IsInjective(hits)
       /\ ToSet(hits) \subseteq breakouts
       /\ Cardinality(breakouts \ ToSet(hits)) <= state.errors

\* Nothing but a breakout is ever saved, and once all scans are over, however
\* they overlapped, every hit of the list on display is saved unless a query of
\* persistHits failed.
HitsSaved ==
  /\ table \subseteq breakouts
  /\ (\A x \in Scans : scan[x].at = "over" /\ scan[x].next > 0) /\ state.hits /= None =>
       ToSet(arrays[state.hits]) \subseteq table

\* A scan that is marked as running ends: the flag does not stay up and block
\* every later scan.
ScanEnds == state.running ~> ~state.running

\* "Kick off a background scan (no-op if one is already running)": at most one
\* scan works at a time.
OneScan == Cardinality(Running) <= 1
=============================================================================
