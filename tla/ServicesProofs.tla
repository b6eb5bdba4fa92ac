---------------------------- MODULE ServicesProofs ----------------------------
(***************************************************************************)
(* Proofs about what works in the background of the server: the scheduler   *)
(* and the shutdown, the store of daily bars, the alerts, automatic paper   *)
(* trading, the corporate actions, the broker's socket and the providers of *)
(* prices, each an instance of its module with variables of its own.        *)
(* Every part has its assumption on the constants, an inductive invariant   *)
(* and a theorem for each of the safety properties its module states.       *)
(***************************************************************************)
EXTENDS Integers, FiniteSetTheorems, SequenceTheorems, WellFoundedInduction, TLAPS

CONSTANTS
  Jobs, MarketOnly, Backfilled, MaxConnections,              \* Scheduler
  LastDay, Sessions, Imports, MaxFails,                      \* PriceStore
  Rules, MaxQueue, MaxArrays, MaxScans,                      \* Alerts
  Symbols, Passes, Prices, Max, MinHold, MaxClock, MaxLives, \* AutoPaper
  Readers, Actions, Ex(_), Num(_), Den(_), Qtys, MaxRows, MaxDay,   \* CorpActions
  Sockets, MaxCalls, MaxReconnects, MaxBreaks, MaxRequests,  \* BrokerSocket
  Calls, Ops, Keys, Threshold, Cooldown, MaxBackoff,         \* MarketData
  None

VARIABLES
  process, market, timers, running, runs, status, backfill, connections, deadline,
  today, hours, store, sync, import, complete, fails,
  array, rule, scan, queue, fired, scans,
  held, brackets, pass, clock, life,
  day, lots, table, listed, flags, reader, disturbed,
  token, ws, connected, destroyed, attempts, timer, loose, calls, socket, ping, givenUp, breaks, requests,
  call, cache, breakers, cookies, backoff, priming, known, steady

Timers == INSTANCE Scheduler WITH phase <- process, enabled <- timers
Bars == INSTANCE PriceStore WITH phase <- hours
Watch == INSTANCE Alerts
Trader == INSTANCE AutoPaper
Ledger == INSTANCE CorpActions WITH rows <- lots, cache <- listed
Link == INSTANCE BrokerSocket
Price == INSTANCE MarketData

-----------------------------------------------------------------------------
(* Scheduler                                                               *)

JobsAssumption == Timers!SchedulerAssumption /\ MaxConnections \in Nat

\* Once the connections have drained no timer is left.
Silenced ==
  /\ process \in {"closing", "exited"} => \A j \in Jobs : ~timers[j]
  /\ process = "boot" => backfill = "unset"

JobsInv == Timers!TypeOK /\ Timers!FlagsHaveRuns /\ Silenced

LEMMA JobsInit == ASSUME JobsAssumption, Timers!Init PROVE JobsInv
<1>1. Timers!TypeOK
  <2>1. {market, deadline} \subseteq BOOLEAN
    BY DEF Timers!Init
  <2> QED
    BY <2>1 DEF Timers!Init, Timers!TypeOK, JobsAssumption
<1>2. Timers!FlagsHaveRuns
  BY DEF Timers!Init, Timers!FlagsHaveRuns
<1> QED
  BY <1>1, <1>2 DEF Timers!Init, Silenced, JobsInv

LEMMA JobsMove ==
  ASSUME JobsAssumption, JobsInv, NEW j \in Jobs, Timers!Begin(j) \/ Timers!End(j) \/ Timers!StopJob(j)
  PROVE  JobsInv'
<1>1. {market, deadline} \subseteq BOOLEAN /\ {market, deadline}' \subseteq BOOLEAN
  BY DEF JobsInv, Timers!TypeOK, Timers!Begin, Timers!End, Timers!StopJob
<1>2. Timers!FlagsHaveRuns'
  BY DEF JobsInv, Timers!TypeOK, Timers!FlagsHaveRuns, Timers!Begin, Timers!MayBegin, Timers!End, Timers!Reset, Timers!StopJob, JobsAssumption, Timers!SchedulerAssumption
<1>3. Timers!TypeOK'
  <2>1. UNCHANGED <<process, backfill, connections, market, deadline>>
    BY DEF Timers!Begin, Timers!End, Timers!StopJob
  <2>2. timers' \in [Jobs -> BOOLEAN] /\ running' \in [Jobs -> BOOLEAN]
    BY DEF JobsInv, Timers!TypeOK, Timers!Begin, Timers!End, Timers!Reset, Timers!StopJob
  <2>3. status' \in [Jobs -> {"none", "OK", "ERROR"}]
    BY DEF JobsInv, Timers!TypeOK, Timers!Begin, Timers!End, Timers!StopJob
  <2>4. runs' \in [Jobs -> 0..2]
    <3>1. runs \in [Jobs -> 0..2]
      BY DEF JobsInv, Timers!TypeOK
    <3>2. CASE Timers!Begin(j)
      BY <3>1, <3>2 DEF Timers!Begin
    <3>3. CASE Timers!End(j)
      <4>1. running[j] /\ runs[j] \in 1..2
        BY <3>1, <3>3 DEF JobsInv, Timers!FlagsHaveRuns, Timers!End
      <4> QED
        BY <3>1, <3>3, <4>1 DEF Timers!End
    <3>4. CASE Timers!StopJob(j)
      BY <3>1, <3>4 DEF Timers!StopJob
    <3> QED
      BY <3>2, <3>3, <3>4
  <2> QED
    BY <1>1, <2>1, <2>2, <2>3, <2>4 DEF JobsInv, Timers!TypeOK
<1>4. Silenced'
  BY DEF JobsInv, Timers!TypeOK, Silenced, Timers!Begin, Timers!End, Timers!StopJob
<1> QED
  BY <1>2, <1>3, <1>4 DEF JobsInv

LEMMA BackfillMoves ==
  ASSUME JobsAssumption, JobsInv, Timers!BackfillBegins \/ Timers!BackfillEnds
  PROVE  JobsInv'
<1>1. {market, deadline} \subseteq BOOLEAN /\ {market, deadline}' \subseteq BOOLEAN
  BY DEF JobsInv, Timers!TypeOK, Timers!BackfillBegins, Timers!BackfillEnds
<1>2. Timers!FlagsHaveRuns'
  BY DEF JobsInv, Timers!TypeOK, Timers!FlagsHaveRuns, Timers!BackfillBegins, Timers!BackfillEnds, JobsAssumption, Timers!SchedulerAssumption
<1>3. Timers!TypeOK'
  BY <1>1 DEF JobsInv, Timers!TypeOK, Timers!FlagsHaveRuns, Timers!BackfillBegins, Timers!BackfillEnds, JobsAssumption, Timers!SchedulerAssumption
<1>4. Silenced'
  BY DEF JobsInv, Silenced, Timers!BackfillBegins, Timers!BackfillEnds
<1> QED
  BY <1>2, <1>3, <1>4 DEF JobsInv

LEMMA ProcessMoves ==
  ASSUME JobsAssumption, JobsInv,
         \/ Timers!StartScheduler \/ Timers!Listen \/ Timers!Connect \/ Timers!Leave \/ Timers!Shutdown
         \/ Timers!Drained \/ Timers!PoolClosed \/ Timers!ForcedExit \/ Timers!MarketTurns
         \/ UNCHANGED Timers!vars
  PROVE  JobsInv'
<1> DEFINE Move ==
      \/ Timers!StartScheduler \/ Timers!Listen \/ Timers!Connect \/ Timers!Leave \/ Timers!Shutdown
      \/ Timers!Drained \/ Timers!PoolClosed \/ Timers!ForcedExit \/ Timers!MarketTurns
      \/ UNCHANGED Timers!vars
<1>1. /\ UNCHANGED <<running, runs, status>>
      /\ backfill' = backfill \/ (process = "boot" /\ backfill' = "set")
      /\ timers' = timers \/ timers' = [j \in Jobs |-> TRUE] \/ timers' = [j \in Jobs |-> FALSE]
  BY DEF Timers!StartScheduler, Timers!Listen, Timers!Connect, Timers!Leave, Timers!Shutdown,
         Timers!Drained, Timers!PoolClosed, Timers!ForcedExit, Timers!MarketTurns, Timers!StopJobs,
         Timers!jobVars, Timers!vars
<1>2. {market, deadline}' \subseteq BOOLEAN
  <2>1. market \in BOOLEAN /\ deadline \in BOOLEAN
    BY DEF JobsInv, Timers!TypeOK
  <2>2. market' = market \/ market' = ~market
    BY DEF Timers!StartScheduler, Timers!Listen, Timers!Connect, Timers!Leave, Timers!Shutdown,
           Timers!Drained, Timers!PoolClosed, Timers!ForcedExit, Timers!MarketTurns, Timers!vars
  <2>3. deadline' = deadline \/ deadline' = TRUE
    BY DEF Timers!StartScheduler, Timers!Listen, Timers!Connect, Timers!Leave, Timers!Shutdown,
           Timers!Drained, Timers!PoolClosed, Timers!ForcedExit, Timers!MarketTurns, Timers!vars
  <2> QED
    BY <2>1, <2>2, <2>3
<1>3. connections' \in 0..MaxConnections
  BY DEF Timers!StartScheduler, Timers!Listen, Timers!Connect, Timers!Leave, Timers!Shutdown,
         Timers!Drained, Timers!PoolClosed, Timers!ForcedExit, Timers!MarketTurns, Timers!vars,
         JobsInv, Timers!TypeOK, JobsAssumption
<1>4. /\ process' \in {"boot", "restoring", "serving", "draining", "closing", "exited", "killed"}
      /\ process' = "boot" => UNCHANGED <<process, backfill>>
      /\ process' = "closing" => process = "closing" \/ timers' = [j \in Jobs |-> FALSE]
      /\ process' = "exited" => process \in {"closing", "exited"}
      /\ process' \in {"closing", "exited"} => timers' \in {timers, [j \in Jobs |-> FALSE]}
  BY DEF Timers!StartScheduler, Timers!Listen, Timers!Connect, Timers!Leave, Timers!Shutdown,
         Timers!Drained, Timers!PoolClosed, Timers!ForcedExit, Timers!MarketTurns, Timers!StopJobs,
         Timers!jobVars, Timers!vars, JobsInv, Timers!TypeOK
<1>5. Timers!TypeOK'
  BY <1>1, <1>2, <1>3, <1>4 DEF JobsInv, Timers!TypeOK
<1>6. Timers!FlagsHaveRuns'
  BY <1>1 DEF JobsInv, Timers!FlagsHaveRuns, Silenced
<1>7. Silenced'
  BY <1>1, <1>4 DEF JobsInv, Silenced
<1> QED
  BY <1>5, <1>6, <1>7 DEF JobsInv

LEMMA JobsHold == ASSUME JobsAssumption PROVE Timers!Spec => []JobsInv
<1>1. JobsInv /\ [Timers!Next]_(Timers!vars) => JobsInv'
  BY JobsMove, BackfillMoves, ProcessMoves DEF Timers!Next
<1> QED
  BY JobsInit, <1>1, PTL DEF Timers!Spec

\* A job's function runs once at a time, and twice only when the backfill of the start meets
\* the weekly run of the same job; and no flag stays up after its execution has ended, however
\* it has ended (scheduler.js, the guard and the finally of every job).
THEOREM JobsRunOnce == ASSUME JobsAssumption PROVE Timers!Spec => []Timers!FlagsHaveRuns
<1>1. JobsInv => Timers!FlagsHaveRuns
  BY DEF JobsInv
<1> QED
  BY <1>1, JobsHold, PTL

\* No job begins once the shutdown has drained the connections (app.js, scheduler.stop()).
THEOREM NoneBeginsAfterShutdown == ASSUME JobsAssumption PROVE Timers!Spec => Timers!StoppedIsStopped
<1>1. JobsInv /\ [Timers!Next]_(Timers!vars) =>
        [process = "closing" => \A j \in Jobs : running[j] \/ ~running'[j]]_(Timers!vars)
  <2> SUFFICES ASSUME JobsInv, Timers!Next, process = "closing", NEW j \in Jobs, ~running[j]
               PROVE  ~running'[j]
    BY DEF Timers!vars
  <2>1. ~timers[j] /\ running \in [Jobs -> BOOLEAN]
    BY DEF JobsInv, Silenced, Timers!TypeOK
  <2>2. CASE \E k \in Jobs : Timers!Begin(k) \/ Timers!End(k) \/ Timers!StopJob(k)
    BY <2>1, <2>2 DEF Timers!Begin, Timers!MayBegin, Timers!End, Timers!Reset, Timers!StopJob
  <2>3. CASE ~\E k \in Jobs : Timers!Begin(k) \/ Timers!End(k) \/ Timers!StopJob(k)
    <3>1. running' = running
      BY <2>3 DEF Timers!Next, Timers!StartScheduler, Timers!Listen, Timers!Connect, Timers!Leave, Timers!Shutdown,
         Timers!Drained, Timers!PoolClosed, Timers!ForcedExit, Timers!MarketTurns, Timers!StopJobs,
         Timers!jobVars, Timers!BackfillBegins, Timers!BackfillEnds
    <3> QED
      BY <3>1
  <2> QED
    BY <2>2, <2>3
<1> QED
  BY <1>1, JobsHold, PTL DEF Timers!Spec, Timers!StoppedIsStopped

-----------------------------------------------------------------------------
(* Least and largest                                                       *)

\* Every nonempty set of naturals has a least element.
LEMMA Least == ASSUME NEW T, T \subseteq Nat, T # {} PROVE \E m \in T : \A x \in T : m <= x
<1>1. PICK m \in T : \A x \in T : ~(<<x, m>> \in OpToRel(<, Nat))
  BY WFMin, NatLessThanWellFounded
<1>2. \A x \in T : ~(x < m)
  BY <1>1 DEF OpToRel
<1> QED
  BY <1>2

\* Every nonempty part of 1..n has a largest element.
LEMMA Largest == ASSUME NEW n \in Nat, NEW T, T \subseteq 1..n, T # {} PROVE \E m \in T : \A x \in T : x <= m
<1> DEFINE U == {k \in Nat : \E x \in T : k = n - x}
<1>1. \A x \in T : x \in Int /\ n - x \in Nat
  OBVIOUS
<1>2. U \subseteq Nat /\ U # {}
  BY <1>1
<1>3. PICK u \in U : \A v \in U : u <= v
  <2> HIDE DEF U
  <2> QED
    BY <1>2, Least
<1>4. PICK m \in T : u = n - m
  BY <1>3
<1>5. ASSUME NEW x \in T PROVE x <= m
  <2>1. n - x \in U
    BY <1>1
  <2>2. n - m <= n - x
    BY <1>3, <1>4, <2>1
  <2>3. x \in Int /\ m \in Int
    BY <1>1
  <2> QED
    BY <2>2, <2>3
<1> QED
  BY <1>5

-----------------------------------------------------------------------------
(* PriceStore                                                              *)

\* There is at least one day, and it has a session.
BarsAssumption == Bars!StoreAssumption /\ LastDay \in Nat \ {0} /\ None \notin Bars!Bar

ImportType == [at : {"idle", "fetched", "price"}, rows : Bars!Rows, price : Bars!Bar \cup {None},
               saved : SUBSET Bars!Days, until : 0..LastDay, late : BOOLEAN]

Closed(d) == [of |-> d, final |-> TRUE, flat |-> FALSE]

\* The price of a moment is of a session that has begun.
PriceSoFar(b) == b \in Bars!Bar /\ b.of <= today /\ b.flat

\* What an import has in hand.  A bar that was not final when it was fetched is of the running day,
\* for the clock turns once at most while the import is under way.
InHand(c) ==
  /\ c.until < today
  /\ \A d \in Bars!Days : c.rows[d] # None =>
       /\ c.rows[d].of = d /\ ~c.rows[d].flat
       /\ ~c.rows[d].final => d = today /\ (hours = "open" \/ (hours = "post" /\ c.late))
  /\ \A d \in Sessions : d <= c.until => c.rows[d] # None
  /\ \A d \in Sessions \cap c.saved : d <= c.until => store[d] = Closed(d)

BarsInv ==
  /\ today \in Bars!Days /\ hours \in {"pre", "open", "post"} /\ store \in Bars!Rows
  /\ import \in [Imports -> ImportType] /\ complete \in 0..LastDay
  /\ today = 1 => hours = "post"
  /\ complete < today
  /\ \A d \in Sessions : d <= complete => store[d] = Closed(d)
  /\ sync # None => PriceSoFar(sync)
  /\ \A i \in Imports : import[i].at = "price" => PriceSoFar(import[i].price)
  /\ \A i \in Imports : import[i].at = "fetched" => InHand(import[i])
  /\ Bars!NoForesight

LEMMA LatestSession ==
  ASSUME BarsAssumption, BarsInv
  PROVE  PriceSoFar(Bars!PriceNow)
<1>1. Bars!Past \subseteq 1..today /\ today \in Nat /\ Bars!Past # {}
  <2>1. today \in 1..LastDay /\ Sessions \subseteq 1..LastDay /\ 1 \in Sessions /\ LastDay \in Nat
        /\ (today = 1 => hours = "post")
    BY DEF BarsInv, Bars!Days, BarsAssumption, Bars!StoreAssumption
  <2>2. ASSUME NEW d \in Bars!Past PROVE d \in 1..today
    BY <2>1, <2>2 DEF Bars!Past
  <2>3. 1 \in Bars!Past
    BY <2>1 DEF Bars!Past
  <2> QED
    BY <2>1, <2>2, <2>3
<1>2. Bars!Latest \in Bars!Past
  BY <1>1, Largest DEF Bars!Latest
<1>3. Bars!Latest \in Bars!Days /\ Bars!Latest <= today
  BY <1>1, <1>2 DEF Bars!Past, BarsAssumption, Bars!StoreAssumption
<1>4. Bars!Over(Bars!Latest) \in BOOLEAN
  BY DEF Bars!Over
<1> QED
  BY <1>3, <1>4 DEF Bars!PriceNow, PriceSoFar, Bars!Bar

LEMMA BarsInit == ASSUME BarsAssumption, Bars!Init PROVE BarsInv
<1>1. Bars!Rest \in ImportType
  BY DEF Bars!Rest, ImportType, Bars!Rows, BarsAssumption
<1>2. import \in [Imports -> ImportType] /\ \A i \in Imports : import[i].at = "idle"
  BY <1>1 DEF Bars!Init, Bars!Rest
<1> QED
  BY <1>2 DEF Bars!Init, BarsInv, Bars!Days, Bars!Rows, Bars!NoForesight, BarsAssumption, Bars!StoreAssumption

\* Rows that are written keep what a whole import has stored when they touch the running day only
\* or are what the exchange has closed.
LEMMA Writing ==
  ASSUME BarsAssumption, BarsInv, NEW rows \in Bars!Rows, NEW ds \in SUBSET Bars!Days,
         store' = Bars!Saved(rows, ds),
         \A d \in ds : rows[d] # None =>
           /\ rows[d].of <= d /\ (rows[d].flat \/ rows[d].of = d)
           /\ d = today \/ (d \in Sessions => rows[d] = Closed(d))
  PROVE  /\ store' \in Bars!Rows /\ Bars!NoForesight'
         /\ \A d \in Sessions : d < today /\ store[d] = Closed(d) => store'[d] = Closed(d)
<1>1. store \in Bars!Rows /\ Bars!NoForesight /\ today \in Bars!Days
  BY DEF BarsInv
<1>2. store' = [d \in Bars!Days |-> IF d \in ds /\ rows[d] # None THEN rows[d] ELSE store[d]]
  BY DEF Bars!Saved
<1>3. store' \in Bars!Rows
  BY <1>1, <1>2 DEF Bars!Rows
<1>4. ASSUME NEW d \in Bars!Days
      PROVE  store'[d] = IF d \in ds /\ rows[d] # None THEN rows[d] ELSE store[d]
  BY <1>2
<1>5. Bars!NoForesight'
  BY <1>1, <1>4 DEF Bars!NoForesight
<1>6. Sessions \subseteq Bars!Days
  BY DEF BarsAssumption, Bars!StoreAssumption
<1>7. ASSUME NEW d \in Sessions, d < today, store[d] = Closed(d) PROVE store'[d] = Closed(d)
  <2>1. d \in Bars!Days /\ d # today
    BY <1>1, <1>6, <1>7 DEF Bars!Days, BarsAssumption, Bars!StoreAssumption
  <2> QED
    BY <1>4, <1>7, <2>1
<1> QED
  BY <1>3, <1>5, <1>7

\* The price of a moment is stored as the bar of the running day.
LEMMA PriceWritten ==
  ASSUME BarsAssumption, BarsInv, NEW b, b # None, PriceSoFar(b), store' = Bars!Saved(Bars!Only(today, b), Bars!Days)
  PROVE  /\ store' \in Bars!Rows /\ Bars!NoForesight'
         /\ \A d \in Sessions : d < today /\ store[d] = Closed(d) => store'[d] = Closed(d)
<1> DEFINE rows == Bars!Only(today, b)
<1>1. b \in Bars!Bar /\ b.of <= today /\ b.flat
  BY DEF PriceSoFar
<1>2. rows \in Bars!Rows
  BY <1>1 DEF Bars!Only, Bars!Rows
<1>3. \A d \in Bars!Days : rows[d] # None => d = today /\ rows[d] = b
  BY DEF Bars!Only
<1>4. store' = Bars!Saved(rows, Bars!Days) /\ Bars!Days \in SUBSET Bars!Days
  OBVIOUS
<1> HIDE DEF rows
<1> QED
  BY <1>1, <1>2, <1>3, <1>4, Writing

\* What the other imports have in hand is untouched by what keeps the closed bars.
LEMMA HandsKept ==
  ASSUME BarsAssumption, BarsInv, UNCHANGED <<today, hours>>,
         \A d \in Sessions : d < today /\ store[d] = Closed(d) => store'[d] = Closed(d)
  PROVE  /\ \A b : PriceSoFar(b) => PriceSoFar(b)'
         /\ \A c \in ImportType : InHand(c) => InHand(c)'
         /\ \A d \in Sessions : d <= complete => store'[d] = Closed(d)
<1>1. /\ today \in Nat /\ complete \in Nat /\ complete < today
      /\ \A d \in Sessions : d \in Nat
  BY DEF BarsInv, BarsAssumption, Bars!StoreAssumption, Bars!Days
<1>2. ASSUME NEW c \in ImportType, InHand(c) PROVE InHand(c)'
  <2>1. c.until \in Nat /\ c.until < today
    BY <1>2 DEF InHand, ImportType, BarsAssumption
  <2>2. \A d \in Sessions \cap c.saved : d <= c.until => store'[d] = Closed(d)
    BY <1>1, <1>2, <2>1 DEF InHand
  <2> QED
    BY <1>2, <2>2 DEF InHand
<1>3. \A d \in Sessions : d <= complete => store'[d] = Closed(d)
  BY <1>1 DEF BarsInv
<1> QED
  BY <1>2, <1>3 DEF PriceSoFar

LEMMA SyncStep ==
  ASSUME BarsAssumption, BarsInv, Bars!SyncReads \/ Bars!SyncSaves
  PROVE  BarsInv'
<1>1. UNCHANGED <<today, hours, import, complete>>
  BY DEF Bars!SyncReads, Bars!SyncSaves, Bars!clock
<1>2. /\ store' \in Bars!Rows /\ Bars!NoForesight'
      /\ \A d \in Sessions : d < today /\ store[d] = Closed(d) => store'[d] = Closed(d)
      /\ sync' # None => PriceSoFar(sync')
  <2>1. CASE Bars!SyncReads
    BY <2>1, LatestSession DEF Bars!SyncReads, BarsInv, Bars!NoForesight
  <2>2. CASE Bars!SyncSaves /\ store' = store
    BY <2>2 DEF Bars!SyncSaves, BarsInv, Bars!NoForesight
  <2>3. CASE Bars!SyncSaves /\ store' = Bars!Saved(Bars!Only(today, sync), Bars!Days)
    BY <2>3, PriceWritten DEF Bars!SyncSaves, BarsInv
  <2> QED
    BY <2>1, <2>2, <2>3 DEF Bars!SyncSaves
<1>3. /\ \A b : PriceSoFar(b) => PriceSoFar(b)'
      /\ \A c \in ImportType : InHand(c) => InHand(c)'
      /\ \A d \in Sessions : d <= complete => store'[d] = Closed(d)
  BY <1>1, <1>2, HandsKept
<1>4. sync' # None => PriceSoFar(sync)'
  BY <1>1, <1>2 DEF PriceSoFar
<1> QED
  BY <1>1, <1>2, <1>3, <1>4 DEF BarsInv

LEMMA TurnStep ==
  ASSUME BarsAssumption, BarsInv, Bars!Turn
  PROVE  BarsInv'
<1>1. /\ today \in 1..LastDay /\ LastDay \in Nat /\ complete \in 0..LastDay
      /\ hours \in {"pre", "open", "post"} /\ import \in [Imports -> ImportType]
  BY DEF BarsInv, Bars!Days, BarsAssumption, Bars!StoreAssumption
<1>2. /\ today' \in 1..LastDay /\ today <= today' /\ hours' \in {"pre", "open", "post"}
      /\ today' = 1 => hours = "post" /\ today = 1
      /\ UNCHANGED <<store, sync, complete>>
      /\ hours' = "post" \/ hours' = "open" => today' = today
      /\ hours = "open" => today' = today /\ hours' = "post"
  BY <1>1 DEF Bars!Turn, BarsInv
<1>3. \A i \in Imports :
        /\ import[i].late = FALSE /\ import[i] \in ImportType
        /\ import'[i] = [import[i] EXCEPT !.late = import[i].at # "idle"]
  BY <1>1 DEF Bars!Turn, ImportType
<1>4. import' \in [Imports -> ImportType]
  BY <1>3 DEF Bars!Turn, ImportType
<1>5. ASSUME NEW i \in Imports, import[i].at = "fetched" PROVE InHand(import[i])'
  <2> DEFINE c == import[i]
  <2>1. /\ c \in ImportType /\ InHand(c) /\ c.late = FALSE
        /\ import'[i] = [c EXCEPT !.late = TRUE]
    BY <1>3, <1>5 DEF BarsInv
  <2>2. /\ import'[i].late = TRUE /\ import'[i].rows = c.rows /\ import'[i].until = c.until
        /\ import'[i].saved = c.saved
    BY <2>1 DEF ImportType
  <2> HIDE DEF c
  <2>3. c.until < today'
    BY <1>1, <1>2, <2>1 DEF InHand, ImportType
  <2> QED
    BY <1>1, <1>2, <2>1, <2>2, <2>3 DEF InHand
<1>6. \A b : PriceSoFar(b) => PriceSoFar(b)'
  BY <1>1, <1>2 DEF PriceSoFar, Bars!Bar, Bars!Days
<1>7. \A i \in Imports : import'[i].at = import[i].at /\ import'[i].price = import[i].price
  BY <1>3 DEF ImportType
<1>8. /\ \A i \in Imports : import'[i].at = "fetched" => InHand(import[i])'
      /\ \A i \in Imports : import'[i].at = "price" => PriceSoFar(import[i].price)'
      /\ sync' # None => PriceSoFar(sync)'
  BY <1>2, <1>5, <1>6, <1>7 DEF BarsInv
<1>9. complete' < today' /\ (today' = 1 => hours' = "post")
  BY <1>1, <1>2 DEF BarsInv, Bars!Turn
<1> QED
  BY <1>2, <1>4, <1>8, <1>9 DEF BarsInv, Bars!Days, Bars!NoForesight

\* An import changes what it has in hand, whatever it writes.
LEMMA ImportStep ==
  ASSUME BarsAssumption, BarsInv, NEW i \in Imports, NEW c \in ImportType,
         import' = [import EXCEPT ![i] = c], UNCHANGED <<today, hours, sync>>,
         store' \in Bars!Rows, Bars!NoForesight',
         \A d \in Sessions : d < today /\ store[d] = Closed(d) => store'[d] = Closed(d),
         c.at = "price" => PriceSoFar(c.price),
         c.at = "fetched" => InHand(c)',
         complete' \in 0..LastDay, complete' < today,
         \A d \in Sessions : d <= complete' => store'[d] = Closed(d)
  PROVE  BarsInv'
<1>1. import \in [Imports -> ImportType]
  BY DEF BarsInv
<1>2. import' \in [Imports -> ImportType] /\ import'[i] = c /\ \A x \in Imports \ {i} : import'[x] = import[x]
  BY <1>1
<1>3. /\ \A b : PriceSoFar(b) => PriceSoFar(b)'
      /\ \A h \in ImportType : InHand(h) => InHand(h)'
  BY HandsKept
<1>4. \A x \in Imports : import'[x].at = "price" => PriceSoFar(import[x].price)'
  BY <1>2, <1>3 DEF BarsInv
<1>5. \A x \in Imports : import'[x].at = "fetched" => InHand(import[x])'
  BY <1>1, <1>2, <1>3 DEF BarsInv
<1> QED
  BY <1>2, <1>3, <1>4, <1>5 DEF BarsInv

LEMMA SavedSet ==
  ASSUME NEW h \in ImportType, NEW ds \in SUBSET Bars!Days
  PROVE  \E c \in ImportType :
           /\ c = [h EXCEPT !.saved = ds] /\ c.at = h.at /\ c.rows = h.rows /\ c.until = h.until
           /\ c.saved = ds /\ c.late = h.late
<1> DEFINE w == [h EXCEPT !.saved = ds]
<1>1. w \in ImportType /\ w.at = h.at /\ w.rows = h.rows /\ w.until = h.until /\ w.saved = ds /\ w.late = h.late
  BY DEF ImportType
<1> QED
  BY <1>1, Zenon

LEMMA PriceSet ==
  ASSUME NEW h \in ImportType, NEW b \in Bars!Bar
  PROVE  \E c \in ImportType : c = [h EXCEPT !.at = "price", !.price = b] /\ c.at = "price" /\ c.price = b
<1> DEFINE w == [h EXCEPT !.at = "price", !.price = b]
<1>1. w \in ImportType /\ w.at = "price" /\ w.price = b
  BY DEF ImportType
<1> QED
  BY <1>1, Zenon

LEMMA FetchStep ==
  ASSUME BarsAssumption, BarsInv, NEW i \in Imports, Bars!Fetch(i)
  PROVE  BarsInv'
<1>1. /\ today \in 1..LastDay /\ LastDay \in Nat /\ Sessions \subseteq 1..LastDay /\ None \notin Bars!Bar
      /\ hours \in {"pre", "open", "post"}
  BY DEF BarsInv, Bars!Days, BarsAssumption, Bars!StoreAssumption
<1>2. ASSUME NEW d \in Bars!Days
      PROVE  /\ Bars!History[d] \in Bars!Bar \cup {None}
             /\ Bars!History[d] # None =>
                  /\ Bars!History[d].of = d /\ ~Bars!History[d].flat
                  /\ ~Bars!History[d].final => d = today /\ hours = "open"
             /\ d \in Sessions /\ d < today => Bars!History[d] # None
  <2>1. PICK o \in BOOLEAN : o = Bars!Over(d)
    BY DEF Bars!Over
  <2>2. PICK b \in Bars!Bar : b = [of |-> d, final |-> o, flat |-> FALSE]
    BY DEF Bars!Bar
  <2>3. Bars!History[d] = IF d \in Bars!Past THEN b ELSE None
    BY <2>1, <2>2 DEF Bars!History
  <2>4. d \in Bars!Past /\ ~o => d = today /\ hours = "open"
    BY <1>1, <2>1 DEF Bars!Past, Bars!Over, Bars!Days
  <2>5. d \in Sessions /\ d < today => d \in Bars!Past
    BY DEF Bars!Past
  <2>6. b.of = d /\ b.flat = FALSE /\ b.final = o /\ b # None
    BY <1>1, <2>2
  <2> QED
    BY <2>3, <2>4, <2>5, <2>6
<1>3. Bars!History \in Bars!Rows
  BY <1>2 DEF Bars!History, Bars!Rows
<1>4. PICK c \in ImportType : /\ c = [Bars!Rest EXCEPT !.at = "fetched", !.rows = Bars!History, !.until = today - 1]
                              /\ c.at = "fetched" /\ c.rows = Bars!History /\ c.until = today - 1
                              /\ c.saved = {}
  <2>1. today - 1 \in 0..LastDay
    BY <1>1
  <2>2. Bars!Rest \in ImportType /\ Bars!Rest.saved = {}
    BY DEF Bars!Rest, ImportType, Bars!Rows, BarsAssumption
  <2>3. PICK h \in ImportType : h = Bars!Rest /\ h.saved = {}
    BY <2>2
  <2>4. PICK rows \in Bars!Rows : rows = Bars!History
    BY <1>3
  <2>5. PICK u \in 0..LastDay : u = today - 1
    BY <2>1
  <2>6. PICK c \in ImportType :
          /\ c = [h EXCEPT !.at = "fetched", !.rows = rows, !.until = u]
          /\ c.at = "fetched" /\ c.rows = rows /\ c.until = u /\ c.saved = h.saved
    <3> DEFINE w == [h EXCEPT !.at = "fetched", !.rows = rows, !.until = u]
    <3>1. w \in ImportType /\ w.at = "fetched" /\ w.rows = rows /\ w.until = u /\ w.saved = h.saved
      BY DEF ImportType
    <3> QED
      BY <3>1, Zenon
  <2> QED
    BY <2>3, <2>4, <2>5, <2>6
<1>5. /\ import' = [import EXCEPT ![i] = c]
      /\ UNCHANGED <<today, hours, store, sync, complete>>
  BY <1>4 DEF Bars!Fetch, Bars!clock
<1>6. InHand(c)
  <2>1. c.until < today /\ \A d \in Sessions : d \in Bars!Days /\ (d <= c.until => d < today)
    BY <1>1, <1>4 DEF Bars!Days
  <2> QED
    BY <1>2, <1>4, <2>1 DEF InHand
<1>7. InHand(c)'
  BY <1>5, <1>6 DEF InHand
<1>8. /\ store' \in Bars!Rows /\ Bars!NoForesight'
      /\ complete' \in 0..LastDay /\ complete' < today
      /\ \A d \in Sessions : d <= complete' => store'[d] = Closed(d)
  BY <1>5 DEF BarsInv, Bars!NoForesight
<1> QED
  BY <1>4, <1>5, <1>7, <1>8, ImportStep

\* An import asks for the price of the moment instead, stores it, or gives up.
LEMMA PriceSteps ==
  ASSUME BarsAssumption, BarsInv, NEW i \in Imports,
         Bars!FetchFails(i) \/ Bars!SavePrice(i) \/ Bars!SaveFails(i)
  PROVE  BarsInv'
<1>1. Bars!Rest \in ImportType /\ Bars!Rest.at = "idle"
  BY DEF Bars!Rest, ImportType, Bars!Rows, BarsAssumption
<1>2. UNCHANGED <<today, hours, sync, complete>>
  BY DEF Bars!FetchFails, Bars!SavePrice, Bars!SaveFails, Bars!clock
<1>3. PICK c \in ImportType : /\ import' = [import EXCEPT ![i] = c] /\ c.at \in {"idle", "price"}
                              /\ c.at = "price" => PriceSoFar(c.price)
  <2>1. CASE Bars!FetchFails(i)
    <3>1. PICK b \in Bars!Bar : b = Bars!PriceNow /\ PriceSoFar(b)
      BY LatestSession DEF PriceSoFar
    <3>2. PICK h \in ImportType : h = Bars!Rest
      BY <1>1
    <3>3. PICK c \in ImportType : c = [h EXCEPT !.at = "price", !.price = b] /\ c.at = "price" /\ c.price = b
      BY PriceSet
    <3>4. import' = [import EXCEPT ![i] = c]
      BY <2>1, <3>1, <3>2, <3>3 DEF Bars!FetchFails
    <3> QED
      BY <3>1, <3>3, <3>4
  <2>2. CASE Bars!SavePrice(i) \/ Bars!SaveFails(i)
    BY <1>1, <2>2 DEF Bars!SavePrice, Bars!SaveFails
  <2> QED
    BY <2>1, <2>2
<1>4. /\ store' \in Bars!Rows /\ Bars!NoForesight'
      /\ \A d \in Sessions : d < today /\ store[d] = Closed(d) => store'[d] = Closed(d)
  <2>1. CASE store' = store
    BY <2>1 DEF BarsInv, Bars!NoForesight
  <2>2. CASE Bars!SavePrice(i)
    <3>1. CASE import[i].price = None
      <4>1. \A d \in Bars!Days : Bars!Only(today, import[i].price)[d] = None
        BY <3>1 DEF Bars!Only
      <4>2. store' = store
        <5>1. store' = [d \in Bars!Days |-> store[d]]
          BY <2>2, <4>1 DEF Bars!SavePrice, Bars!Saved
        <5> QED
          BY <5>1 DEF BarsInv, Bars!Rows
      <4> QED
        BY <2>1, <4>2
    <3>2. CASE import[i].price # None
      BY <2>2, <3>2, PriceWritten DEF Bars!SavePrice, BarsInv
    <3> QED
      BY <3>1, <3>2
  <2> QED
    BY <2>1, <2>2 DEF Bars!FetchFails, Bars!SaveFails
<1>5. \A d \in Sessions : d <= complete => store'[d] = Closed(d)
  BY <1>2, <1>4, HandsKept
<1>6. complete' \in 0..LastDay /\ complete' < today
  BY <1>2 DEF BarsInv
<1> QED
  BY <1>2, <1>3, <1>4, <1>5, <1>6, ImportStep

LEMMA SaveStep ==
  ASSUME BarsAssumption, BarsInv, NEW i \in Imports, Bars!Save(i)
  PROVE  BarsInv'
<1> DEFINE h == import[i]
<1>1. /\ today \in 1..LastDay /\ LastDay \in Nat /\ Sessions \subseteq 1..LastDay
      /\ complete \in 0..LastDay /\ complete < today
      /\ h \in ImportType /\ InHand(h) /\ h.at = "fetched"
      /\ UNCHANGED <<today, hours, sync>>
  BY DEF BarsInv, Bars!Save, Bars!Days, Bars!clock, BarsAssumption, Bars!StoreAssumption
<1>2. PICK n \in 1..today, ds \in SUBSET Bars!Days :
        /\ ds = h.saved \cup 1..n
        /\ store' = Bars!Saved(h.rows, ds \ h.saved)
        /\ import' = [import EXCEPT ![i] = IF n = today THEN Bars!Rest ELSE [@ EXCEPT !.saved = ds]]
        /\ complete' = IF Bars!Whole(i, ds) /\ h.until > complete THEN h.until ELSE complete
  <2>1. PICK n \in 1..today :
          LET ds == import[i].saved \cup 1..n IN
          /\ store' = Bars!Saved(import[i].rows, ds \ import[i].saved)
          /\ import' = [import EXCEPT ![i] = IF n = today THEN Bars!Rest ELSE [@ EXCEPT !.saved = ds]]
          /\ complete' = IF Bars!Whole(i, ds) /\ import[i].until > complete THEN import[i].until ELSE complete
    BY DEF Bars!Save
  <2>2. h.saved \cup 1..n \in SUBSET Bars!Days
    BY <1>1 DEF ImportType, Bars!Days
  <2> QED
    BY <2>1, <2>2
<1>3. PICK c \in ImportType :
        /\ import' = [import EXCEPT ![i] = c]
        /\ c.at = "idle" \/ (c.at = "fetched" /\ c.rows = h.rows /\ c.until = h.until /\ c.saved = ds /\ c.late = h.late)
  <2>1. CASE n = today
    <3>1. Bars!Rest \in ImportType /\ Bars!Rest.at = "idle"
      BY DEF Bars!Rest, ImportType, Bars!Rows, BarsAssumption
    <3> QED
      BY <1>2, <2>1, <3>1
  <2>2. CASE n # today
    <3>1. PICK c \in ImportType : /\ c = [h EXCEPT !.saved = ds] /\ c.at = h.at /\ c.rows = h.rows /\ c.until = h.until
                                  /\ c.saved = ds /\ c.late = h.late
      BY <1>1, SavedSet, Zenon
    <3> QED
      BY <1>1, <1>2, <2>2, <3>1 DEF BarsInv
  <2> QED
    BY <2>1, <2>2
<1>4. \A d \in Bars!Days : h.rows[d] # None =>
        /\ h.rows[d].of = d /\ ~h.rows[d].flat
        /\ d = today \/ h.rows[d] = Closed(d)
  <2> SUFFICES ASSUME NEW d \in Bars!Days, h.rows[d] # None, d # today
               PROVE  h.rows[d].of = d /\ ~h.rows[d].flat /\ h.rows[d] = Closed(d)
    BY <1>1 DEF InHand
  <2>1. h.rows[d] \in Bars!Bar
    BY <1>1 DEF ImportType, Bars!Rows
  <2>2. h.rows[d].of = d /\ h.rows[d].flat = FALSE /\ h.rows[d].final = TRUE
    BY <1>1, <2>1 DEF InHand, Bars!Bar
  <2> QED
    BY <2>1, <2>2 DEF Bars!Bar, Closed
<1>5. /\ store' \in Bars!Rows /\ Bars!NoForesight'
      /\ \A d \in Sessions : d < today /\ store[d] = Closed(d) => store'[d] = Closed(d)
  <2>1. h.rows \in Bars!Rows /\ ds \ h.saved \in SUBSET Bars!Days
    BY <1>1 DEF ImportType
  <2>2. \A d \in Bars!Days : d <= d
    BY DEF Bars!Days
  <2>3. \A d \in ds \ h.saved : h.rows[d] # None =>
          /\ h.rows[d].of <= d /\ (h.rows[d].flat \/ h.rows[d].of = d)
          /\ d = today \/ (d \in Sessions => h.rows[d] = Closed(d))
    BY <1>4, <2>1, <2>2
  <2>4. store' = Bars!Saved(h.rows, ds \ h.saved)
    BY <1>2
  <2> HIDE DEF h
  <2> QED
    BY <2>1, <2>3, <2>4, Writing
\* What was saved of the closed sessions is stored.
<1>6. \A d \in Sessions \cap ds : d <= h.until => store'[d] = Closed(d)
  <2> SUFFICES ASSUME NEW d \in Sessions \cap ds, d <= h.until PROVE store'[d] = Closed(d)
    OBVIOUS
  <2>1. d < today /\ d \in Bars!Days /\ h.rows[d] # None
    BY <1>1 DEF InHand, ImportType, Bars!Days
  <2>2. CASE d \in h.saved
    BY <1>1, <1>5, <2>1, <2>2 DEF InHand
  <2>3. CASE d \notin h.saved
    <3>1. store'[d] = h.rows[d]
      BY <1>2, <2>1, <2>3 DEF Bars!Saved
    <3> QED
      BY <1>1, <1>4, <2>1, <3>1 DEF Bars!Days
  <2> QED
    BY <2>2, <2>3
<1>7. c.at = "fetched" => InHand(c)'
  BY <1>1, <1>3, <1>6 DEF InHand
<1>8. complete' \in 0..LastDay /\ complete' < today
  BY <1>1, <1>2 DEF InHand, ImportType
<1>9. \A d \in Sessions : d <= complete' => store'[d] = Closed(d)
  <2>1. \A d \in Sessions : d <= complete => store'[d] = Closed(d)
    BY <1>1, <1>5, HandsKept
  <2>2. CASE complete' = complete
    BY <2>1, <2>2
  <2>3. CASE Bars!Whole(i, ds) /\ complete' = h.until
    <3>1. ASSUME NEW d \in Sessions, d <= h.until PROVE d \in ds
      BY <1>1, <2>3, <3>1 DEF Bars!Whole, InHand, Bars!Days
    <3> QED
      BY <1>6, <2>3, <3>1
  <2> QED
    BY <1>2, <2>2, <2>3
<1> QED
  BY <1>1, <1>3, <1>5, <1>7, <1>8, <1>9, ImportStep

LEMMA BarsHold == ASSUME BarsAssumption PROVE Bars!Spec => []BarsInv
<1>1. BarsInv /\ UNCHANGED Bars!vars => BarsInv'
  BY DEF BarsInv, Bars!vars, PriceSoFar, InHand, Bars!NoForesight
<1>2. BarsInv /\ [Bars!Next]_(Bars!vars) => BarsInv'
  BY <1>1, TurnStep, SyncStep, FetchStep, PriceSteps, SaveStep DEF Bars!Next
<1> QED
  BY BarsInit, <1>2, PTL DEF Bars!Spec

\* The sessions a whole import has covered stay as the exchange has closed them, whatever the
\* daily job and later imports store, fail to store or store late (dataStore.js, scheduler.js
\* dataSyncJob, dataController.js fetchAndStore).
THEOREM ImportsLast == ASSUME BarsAssumption PROVE Bars!Spec => []Bars!ImportLasts
<1>1. BarsInv => Bars!ImportLasts
  BY DEF BarsInv, Closed, Bars!ImportLasts
<1> QED
  BY <1>1, BarsHold, PTL

\* No row shows a session after its date, and only rows of one price show an earlier one.
THEOREM NothingForeseen == ASSUME BarsAssumption PROVE Bars!Spec => []Bars!NoForesight
<1>1. BarsInv => Bars!NoForesight
  BY DEF BarsInv
<1> QED
  BY <1>1, BarsHold, PTL

-----------------------------------------------------------------------------
(* Alerts                                                                  *)

WatchAssumption == IsFiniteSet(Rules) /\ MaxQueue \in Nat

RuleType == [array : Nat, type : Watch!Types, triggered : BOOLEAN]
Alert == [scan : Nat, rule : Rules]

\* A rule is triggered when it has fired, a scan holds an array, and no alert of the queue is
\* of a later scan than the last or than the alert above it.
WatchInv ==
  /\ array \in Nat \ {0} /\ scans \in Nat
  /\ rule \in [Rules -> RuleType] /\ fired \in [Rules -> {0, 1}]
  /\ \A r \in Rules : rule[r].triggered <=> fired[r] = 1
  /\ scan.on => scan.array \in Nat \ {0}
  /\ queue \in Seq(Alert)
  /\ \A i \in 1..Len(queue) : queue[i].scan <= scans
  /\ \A i, k \in 1..Len(queue) : i < k => queue[i].scan >= queue[k].scan

LEMMA QueueGrows ==
  ASSUME WatchAssumption, WatchInv, NEW order \in Watch!Orders
  PROVE  /\ Watch!Enqueued(order) \in Seq(Alert)
         /\ \A i \in 1..Len(Watch!Enqueued(order)) : Watch!Enqueued(order)[i].scan <= scans
         /\ \A i, k \in 1..Len(Watch!Enqueued(order)) :
              i < k => Watch!Enqueued(order)[i].scan >= Watch!Enqueued(order)[k].scan
<1>1. PICK n \in Nat : order \in [1..n -> Rules]
  <2>1. Watch!Due \in SUBSET Rules
    BY DEF Watch!Due
  <2>2. Watch!Cardinality(Watch!Due) = Cardinality(Watch!Due)
    BY Zenon DEF Watch!Cardinality, Cardinality, Watch!IsFiniteSet, IsFiniteSet
  <2>3. Watch!Cardinality(Watch!Due) \in Nat
    BY <2>1, <2>2, FS_Subset, FS_CardinalityType DEF WatchAssumption
  <2>4. order \in [1..Watch!Cardinality(Watch!Due) -> Watch!Due]
    BY DEF Watch!Orders
  <2> QED
    BY <2>1, <2>3, <2>4
<1>2. Len(order) = n /\ order \in Seq(Rules)
  BY <1>1
<1> DEFINE fresh == [k \in 1..Len(order) |-> [scan |-> scans, rule |-> order[Len(order) + 1 - k]]]
           all == fresh \o queue
<1>3. fresh \in Seq(Alert) /\ Len(fresh) = n /\ \A k \in 1..n : fresh[k].scan = scans
  <2>1. \A k \in 1..n : n + 1 - k \in 1..n
    OBVIOUS
  <2>2. \A k \in 1..n : [scan |-> scans, rule |-> order[n + 1 - k]] \in Alert
    BY <1>1, <2>1 DEF Alert, WatchInv
  <2>3. fresh = [k \in 1..n |-> [scan |-> scans, rule |-> order[n + 1 - k]]]
    BY <1>2
  <2> HIDE DEF fresh
  <2>4. fresh \in [1..n -> Alert] /\ \A k \in 1..n : fresh[k].scan = scans
    BY <2>2, <2>3
  <2>5. fresh \in Seq(Alert) /\ Len(fresh) = n
    BY <2>4
  <2> QED
    BY <2>4, <2>5
<1> HIDE DEF fresh
<1>4. all \in Seq(Alert) /\ Len(all) = n + Len(queue)
  BY <1>3, ConcatProperties DEF WatchInv
<1>5. \A i \in 1..Len(all) : all[i] = IF i <= n THEN fresh[i] ELSE queue[i - n]
  BY <1>3, ConcatProperties DEF WatchInv
<1>6. \A i \in 1..Len(all) : all[i].scan <= scans
  <2> SUFFICES ASSUME NEW i \in 1..Len(all) PROVE all[i].scan <= scans
    OBVIOUS
  <2>1. CASE i <= n
    BY <1>3, <1>4, <1>5, <2>1 DEF WatchInv
  <2>2. CASE i > n
    BY <1>3, <1>4, <1>5, <2>2 DEF WatchInv
  <2> QED
    BY <1>4, <2>1, <2>2 DEF WatchInv
<1>7. \A i, k \in 1..Len(all) : i < k => all[i].scan >= all[k].scan
  <2> SUFFICES ASSUME NEW i \in 1..Len(all), NEW k \in 1..Len(all), i < k PROVE all[i].scan >= all[k].scan
    OBVIOUS
  <2>1. all[k].scan <= scans /\ all[k].scan \in Nat /\ all[i].scan \in Nat /\ scans \in Nat
    <3>1. all[i] \in Alert /\ all[k] \in Alert
      BY <1>4, ElementOfSeq
    <3> QED
      BY <1>6, <3>1 DEF Alert, WatchInv
  <2>2. CASE i <= n
    BY <1>3, <1>4, <1>5, <2>1, <2>2 DEF WatchInv
  <2>3. CASE i > n
    <3>1. i - n \in 1..Len(queue) /\ k - n \in 1..Len(queue) /\ i - n < k - n /\ ~(k <= n) /\ ~(i <= n)
      BY <1>4, <2>3 DEF WatchInv
    <3> QED
      BY <1>5, <3>1 DEF WatchInv
  <2> QED
    BY <1>4, <2>2, <2>3 DEF WatchInv
<1>8. PICK m \in 0..Len(all) : Watch!Enqueued(order) = SubSeq(all, 1, m)
  <2>1. Watch!Enqueued(order) = SubSeq(all, 1, IF Len(all) > MaxQueue THEN MaxQueue ELSE Len(all))
    BY DEF Watch!Enqueued, fresh
  <2> QED
    BY <1>4, <2>1 DEF WatchAssumption, WatchInv
<1> HIDE DEF all
<1>9. /\ SubSeq(all, 1, m) \in Seq(Alert) /\ Len(SubSeq(all, 1, m)) = m
      /\ \A i \in 1..m : SubSeq(all, 1, m)[i] = all[i] /\ i \in 1..Len(all)
  BY <1>4, <1>8
<1> QED
  BY <1>6, <1>7, <1>8, <1>9

LEMMA WatchStep ==
  ASSUME WatchAssumption, WatchInv, [Watch!Next]_(Watch!vars)
  PROVE  WatchInv'
<1>1. ASSUME NEW r \in Rules, Watch!AddAlert(r) PROVE WatchInv'
  <2>1. PICK t \in Watch!Types : rule' = [rule EXCEPT ![r] = [array |-> array, type |-> t, triggered |-> FALSE]]
    BY <1>1 DEF Watch!AddAlert
  <2>2. PICK v \in RuleType : v = [array |-> array, type |-> t, triggered |-> FALSE] /\ v.triggered = FALSE
    <3> DEFINE w == [array |-> array, type |-> t, triggered |-> FALSE]
    <3>1. w \in RuleType /\ w.triggered = FALSE
      BY DEF RuleType, WatchInv
    <3> QED
      BY <3>1, Zenon
  <2>3. rule' = [rule EXCEPT ![r] = v] /\ fired' = [fired EXCEPT ![r] = 0] /\ UNCHANGED <<array, scan, queue, scans>>
    BY <1>1, <2>1, <2>2 DEF Watch!AddAlert
  <2> QED
    BY <2>2, <2>3 DEF WatchInv
<1>2. ASSUME NEW r \in Rules, Watch!RemoveAlert(r) PROVE WatchInv'
  <2>1. PICK v \in RuleType : v = rule[r]
    BY DEF WatchInv
  <2>2. PICK w \in RuleType : w = [v EXCEPT !.array = 0] /\ w.triggered = v.triggered
    <3> DEFINE w == [v EXCEPT !.array = 0]
    <3>1. w \in RuleType /\ w.triggered = v.triggered
      BY DEF RuleType
    <3> QED
      BY <3>1, Zenon
  <2>3. rule' = [rule EXCEPT ![r] = w] /\ array' \in {array, array + 1} /\ UNCHANGED <<scan, queue, fired, scans>>
    BY <1>2, <2>1, <2>2 DEF Watch!RemoveAlert, WatchInv
  <2> QED
    BY <2>1, <2>2, <2>3 DEF WatchInv
<1>3. ASSUME Watch!EvaluateAlerts PROVE WatchInv'
  <2>1. PICK d \in Watch!Readings : scan' = [on |-> TRUE, array |-> array, read |-> d]
    BY <1>3 DEF Watch!EvaluateAlerts
  <2>2. scan'.array = array /\ scans' = scans + 1 /\ UNCHANGED <<array, rule, queue, fired>>
    BY <1>3, <2>1 DEF Watch!EvaluateAlerts
  <2>3. \A i \in 1..Len(queue) : queue[i].scan \in Nat
    <3>1. \A i \in 1..Len(queue) : queue[i] \in Alert
      BY ElementOfSeq DEF WatchInv
    <3> QED
      BY <3>1 DEF Alert
  <2>4. \A i \in 1..Len(queue) : queue[i].scan <= scans'
    BY <2>2, <2>3 DEF WatchInv
  <2> QED
    BY <2>2, <2>4 DEF WatchInv
<1>4. ASSUME Watch!Fire PROVE WatchInv'
  <2>1. PICK order \in Watch!Orders : queue' = Watch!Enqueued(order)
    BY <1>4 DEF Watch!Fire
  <2>2. /\ rule' = [r \in Rules |-> [rule[r] EXCEPT !.triggered = @ \/ r \in Watch!Due]]
        /\ fired' = [r \in Rules |-> fired[r] + IF r \in Watch!Due THEN 1 ELSE 0]
        /\ UNCHANGED <<array, scans>> /\ scan' = Watch!Idle
    BY <1>4 DEF Watch!Fire
  <2>3. ASSUME NEW r \in Rules
        PROVE  /\ rule'[r] \in RuleType /\ fired'[r] \in {0, 1}
               /\ rule'[r].triggered <=> fired'[r] = 1
    <3>1. PICK v \in RuleType : v = rule[r]
      BY DEF WatchInv
    <3>2. v.triggered \in BOOLEAN /\ (v.triggered <=> fired[r] = 1) /\ fired[r] \in {0, 1}
      BY <3>1 DEF RuleType, WatchInv
    <3>3. CASE r \in Watch!Due
      <4>1. ~v.triggered
        BY <3>1, <3>3 DEF Watch!Due
      <4>2. PICK w \in RuleType : w = [v EXCEPT !.triggered = TRUE] /\ w.triggered = TRUE
        <5> DEFINE w == [v EXCEPT !.triggered = TRUE]
        <5>1. w \in RuleType /\ w.triggered = TRUE
          BY DEF RuleType
        <5> QED
          BY <5>1, Zenon
      <4>3. rule'[r] = w
        <5>1. rule'[r] = [v EXCEPT !.triggered = v.triggered \/ r \in Watch!Due]
          BY <2>2, <3>1
        <5>2. (v.triggered \/ r \in Watch!Due) = TRUE
          BY <3>3
        <5> QED
          BY <4>2, <5>1, <5>2
      <4>4. fired'[r] = 1
        BY <2>2, <3>2, <3>3, <4>1
      <4> QED
        BY <4>2, <4>3, <4>4
    <3>4. CASE r \notin Watch!Due
      <4>1. rule'[r] = v
        <5>1. rule'[r] = [v EXCEPT !.triggered = v.triggered \/ r \in Watch!Due]
          BY <2>2, <3>1
        <5>2. (v.triggered \/ r \in Watch!Due) = v.triggered
          BY <3>2, <3>4
        <5>3. [v EXCEPT !.triggered = v.triggered] = v
          BY DEF RuleType
        <5> QED
          BY <5>1, <5>2, <5>3
      <4>2. fired'[r] = fired[r]
        BY <2>2, <3>2, <3>4
      <4> QED
        BY <3>2, <4>1, <4>2
    <3> QED
      BY <3>3, <3>4
  <2>4. rule' \in [Rules -> RuleType] /\ fired' \in [Rules -> {0, 1}]
    BY <2>2, <2>3
  <2>5. ~scan'.on
    BY <2>2 DEF Watch!Idle
  <2>6. queue' \in Seq(Alert) /\ (\A i \in 1..Len(queue') : queue'[i].scan <= scans')
        /\ \A i, k \in 1..Len(queue') : i < k => queue'[i].scan >= queue'[k].scan
    BY <2>1, <2>2, QueueGrows
  <2> QED
    BY <2>2, <2>3, <2>4, <2>5, <2>6 DEF WatchInv
<1>5. CASE UNCHANGED Watch!vars
  BY <1>5 DEF WatchInv, Watch!vars
<1> QED
  BY <1>1, <1>2, <1>3, <1>4, <1>5 DEF Watch!Next

LEMMA WatchHolds == ASSUME WatchAssumption PROVE Watch!Spec => []WatchInv
<1>1. ASSUME Watch!Init PROVE WatchInv
  <2>1. [array |-> 0, type |-> "PRICE_ABOVE", triggered |-> FALSE] \in RuleType
    BY DEF RuleType, Watch!Types
  <2>2. rule \in [Rules -> RuleType] /\ \A r \in Rules : rule[r].triggered = FALSE
    BY <1>1, <2>1 DEF Watch!Init
  <2>3. fired \in [Rules -> {0, 1}] /\ \A r \in Rules : fired[r] = 0
    BY <1>1 DEF Watch!Init
  <2>4. queue \in Seq(Alert) /\ Len(queue) = 0
    BY <1>1 DEF Watch!Init
  <2> QED
    BY <1>1, <2>2, <2>3, <2>4 DEF Watch!Init, Watch!Idle, WatchInv
<1> QED
  BY <1>1, WatchStep, PTL DEF Watch!Spec

\* A rule raises one alert, however many scans satisfy it and whatever is added and removed beside
\* it while a scan awaits the volumes (alertEngine.js evaluateAlerts, triggered).
THEOREM RulesFireOnce == ASSUME WatchAssumption PROVE Watch!Spec => []Watch!FiresOnce
<1>1. WatchInv => Watch!FiresOnce
  BY DEF WatchInv, Watch!FiresOnce
<1> QED
  BY <1>1, WatchHolds, PTL

\* The queue keeps the alerts in the order of the scans, newest first (alertEngine.js enqueue).
THEOREM QueueIsOrdered == ASSUME WatchAssumption PROVE Watch!Spec => []Watch!NewestFirst
<1>1. WatchInv => Watch!NewestFirst
  <2> SUFFICES ASSUME WatchInv PROVE Watch!NewestFirst
    OBVIOUS
  <2>1. DOMAIN queue = 1..Len(queue)
    BY DEF WatchInv
  <2> QED
    BY <2>1 DEF WatchInv, Watch!NewestFirst
<1> QED
  BY <1>1, WatchHolds, PTL

\* A rule that is removed while a scan awaits the volumes raises no alert (alertEngine.js
\* removeAlert, which splices the array the scan goes through).
THEOREM RemovedStaysSilent == ASSUME WatchAssumption PROVE Watch!Spec => Watch!RemovedIsSilent
<1>1. WatchInv /\ [Watch!Next]_(Watch!vars) =>
        [\A r \in Rules : rule[r].array = 0 => fired'[r] <= fired[r]]_(Watch!vars)
  <2> SUFFICES ASSUME WatchInv, Watch!Next, NEW r \in Rules, rule[r].array = 0 PROVE fired'[r] <= fired[r]
    OBVIOUS
  <2>1. fired[r] \in {0, 1} /\ fired \in [Rules -> {0, 1}]
    BY DEF WatchInv
  <2>2. CASE Watch!Fire
    BY <2>1, <2>2 DEF Watch!Fire, Watch!Due, WatchInv
  <2>3. CASE \E x \in Rules : Watch!AddAlert(x)
    BY <2>1, <2>3 DEF Watch!AddAlert
  <2>4. CASE (\E x \in Rules : Watch!RemoveAlert(x)) \/ Watch!EvaluateAlerts
    BY <2>1, <2>4 DEF Watch!RemoveAlert, Watch!EvaluateAlerts
  <2> QED
    BY <2>2, <2>3, <2>4 DEF Watch!Next
<1> QED
  BY <1>1, WatchHolds, PTL DEF Watch!Spec, Watch!RemovedIsSilent

-----------------------------------------------------------------------------
(* AutoPaper                                                               *)

\* Passes follow each other: there is one at a time.
OnePassAssumption ==
  /\ Trader!AutoPaperAssumption /\ IsFiniteSet(Symbols)
  /\ None \notin Trader!Positions \cup Trader!Brackets \cup Prices \cup Symbols
  /\ \A p, q \in Passes : p = q

PassType == [at : Trader!Places, seen : [Symbols -> Prices \cup {None}], todo : SUBSET Symbols,
             sym : Symbols \cup {None}, price : Prices \cup {None}, count : Nat]

\* The positions that passes of this process have opened.
Own == {s \in Trader!AutoHeld : held[s].life = life}

Kept(s) == brackets[s] # None /\ brackets[s].entry = held[s].entry /\ brackets[s].at >= held[s].at

\* What a pass knows.  Its copy of the portfolio has every position of its own until it buys one,
\* and its count is no less than they are.
Knows(c) ==
  /\ c.at \in {"exits", "signal", "sell", "sold"} => \A s \in Own : c.seen[s] # None
  /\ c.at \in {"entries", "buy"} => Cardinality(Own) <= c.count /\ \A s \in Own \cap c.todo : c.seen[s] # None
  /\ c.at = "bought" => /\ Cardinality(Own) <= c.count + 1
                        /\ \A s \in Own \cap c.todo : s # c.sym => c.seen[s] # None
                        /\ c.sym \in Own => held[c.sym].entry = c.price
  /\ c.at \in {"buy", "bought"} => c.count < Max /\ c.sym \in c.todo /\ c.price # None
  /\ c.at = "buy" => c.seen[c.sym] = None
  /\ c.at = "sold" => c.sym \notin Own
  /\ c.at \in {"signal", "sell", "sold"} => c.sym # None
  /\ c.at \in {"signal", "sell"} /\ c.sym \in Own => clock - held[c.sym].at >= MinHold

AutoInv ==
  /\ held \in [Symbols -> Trader!Positions \cup {None}] /\ brackets \in [Symbols -> Trader!Brackets \cup {None}]
  /\ pass \in [Passes -> PassType] /\ clock \in 0..MaxClock /\ life \in 1..MaxLives
  /\ \A s \in Symbols : held[s] # None => held[s].life <= life /\ held[s].at <= clock
  /\ Cardinality(Own) <= Max
  /\ \A p \in Passes : Knows(pass[p])
  /\ \A s \in Own : Kept(s) \/ \E p \in Passes : pass[p].at = "bought" /\ pass[p].sym = s

LEMMA OwnFinite ==
  ASSUME OnePassAssumption
  PROVE  /\ Own \subseteq Symbols /\ IsFiniteSet(Own) /\ Cardinality(Own) \in Nat
         /\ Own' \subseteq Symbols /\ IsFiniteSet(Own') /\ Cardinality(Own') \in Nat
<1>1. Own \subseteq Symbols /\ Own' \subseteq Symbols
  BY DEF Own, Trader!AutoHeld
<1> QED
  BY <1>1, FS_Subset, FS_CardinalityType DEF OnePassAssumption

LEMMA FewerOwn ==
  ASSUME OnePassAssumption, Own' \subseteq Own
  PROVE  Cardinality(Own') <= Cardinality(Own)
BY OwnFinite, FS_Subset

\* Nothing of the passes' own is opened, and time goes on: what a pass knows stays true.
LEMMA KnowsKept ==
  ASSUME OnePassAssumption, AutoInv, Own' \subseteq Own, \A s \in Own' : held'[s] = held[s],
         clock' \in Int, clock' >= clock, NEW c \in PassType, Knows(c)
  PROVE  Knows(c)'
<1>1. Cardinality(Own') <= Cardinality(Own) /\ Cardinality(Own) \in Nat /\ Cardinality(Own') \in Nat
  BY FewerOwn, OwnFinite
<1>2. c.count \in Nat
  BY DEF PassType
<1>3. ASSUME c.at \in {"signal", "sell"}, c.sym \in Own' PROVE clock' - held'[c.sym].at >= MinHold
  <2>1. c.sym \in Own /\ held'[c.sym] = held[c.sym] /\ clock - held[c.sym].at >= MinHold
    BY <1>3 DEF Knows
  <2>2. held[c.sym].at \in Int /\ MinHold \in Int /\ clock \in Int
    <3>1. held[c.sym] \in Trader!Positions
      BY <2>1 DEF Own, Trader!AutoHeld, AutoInv
    <3> QED
      BY <3>1 DEF Trader!Positions, AutoInv, OnePassAssumption, Trader!AutoPaperAssumption
  <2> QED
    BY <2>1, <2>2
<1>4. Cardinality(Own)' = Cardinality(Own')
  OBVIOUS
<1> QED
  BY <1>1, <1>2, <1>3, <1>4 DEF Knows

\* The one pass goes on and touches nothing else.
LEMMA PassMoves ==
  ASSUME OnePassAssumption, AutoInv, NEW p \in Passes, NEW c \in PassType,
         pass' = [pass EXCEPT ![p] = c], pass[p].at # "bought", Knows(c),
         UNCHANGED <<held, brackets, clock, life>>
  PROVE  AutoInv'
<1>1. Own' = Own /\ \A s \in Own : Kept(s)' = Kept(s)
  BY DEF Own, Trader!AutoHeld, Kept
<1>2. pass' \in [Passes -> PassType] /\ pass'[p] = c /\ \A q \in Passes : q = p
  BY DEF AutoInv, OnePassAssumption
<1>3. Knows(c)'
  BY <1>1, KnowsKept DEF AutoInv
<1>4. \A q \in Passes : Knows(pass[q])'
  BY <1>2, <1>3
<1>5. \A s \in Own : Kept(s)
  BY <1>2 DEF AutoInv
<1> QED
  BY <1>1, <1>2, <1>4, <1>5 DEF AutoInv

LEMMA OnwardGoes ==
  ASSUME OnePassAssumption, AutoInv, NEW p \in Passes, NEW s \in Symbols
  PROVE  \E c \in PassType :
           /\ c = Trader!Onward(p, s)
           /\ c.at = IF pass[p].at \in {"buy", "bought", "entries"} THEN "entries" ELSE "exits"
           /\ c.seen = pass[p].seen /\ c.todo = pass[p].todo \ {s} /\ c.count = pass[p].count
<1>1. PICK y \in PassType : y = pass[p]
  BY DEF AutoInv
<1> DEFINE at == IF y.at \in {"buy", "bought", "entries"} THEN "entries" ELSE "exits"
           w == [y EXCEPT !.at = at, !.todo = @ \ {s}, !.sym = None, !.price = None]
<1>2. at \in {"entries", "exits"}
  OBVIOUS
<1>3. w \in PassType /\ w.at = at /\ w.seen = y.seen /\ w.todo = y.todo \ {s} /\ w.count = y.count
  BY <1>2 DEF PassType, Trader!Places
<1>4. w = Trader!Onward(p, s)
  BY <1>1 DEF Trader!Onward
<1> HIDE DEF w
<1> QED
  BY <1>1, <1>3, <1>4

\* The loop passes over a symbol.
LEMMA SkipStep ==
  ASSUME OnePassAssumption, AutoInv, NEW p \in Passes, NEW s \in Symbols, Trader!Skip(p, s),
         pass[p].at \in {"exits", "signal", "sell", "entries", "buy"},
         UNCHANGED <<held, brackets, clock, life>>
  PROVE  AutoInv'
<1>1. PICK c \in PassType :
           /\ c = Trader!Onward(p, s)
           /\ c.at = IF pass[p].at \in {"buy", "bought", "entries"} THEN "entries" ELSE "exits"
           /\ c.seen = pass[p].seen /\ c.todo = pass[p].todo \ {s} /\ c.count = pass[p].count
  BY OnwardGoes
<1>2. Knows(c)
  BY <1>1 DEF AutoInv, Knows
<1> QED
  BY <1>1, <1>2, PassMoves DEF Trader!Skip

LEMMA IdlePass == Trader!Idle \in PassType /\ Trader!Idle.at = "idle"
<1>1. Trader!NotHeld \in [Symbols -> Prices \cup {None}]
  BY DEF Trader!NotHeld
<1> QED
  BY <1>1 DEF Trader!Idle, PassType, Trader!Places

LEMMA StartStep ==
  ASSUME OnePassAssumption, AutoInv, NEW p \in Passes, Trader!Start(p) \/ Trader!Finish(p)
  PROVE  AutoInv'
<1>1. Trader!Entries \in [Symbols -> Prices \cup {None}] /\ \A s \in Own : Trader!Entries[s] # None
  BY DEF Trader!Entries, AutoInv, Trader!Positions, Own, Trader!AutoHeld, OnePassAssumption
<1>2. CASE Trader!Start(p)
  <2>1. PICK c \in PassType : /\ c = [Trader!Idle EXCEPT !.at = "exits", !.todo = Trader!HeldIn(Trader!Entries), !.seen = Trader!Entries]
                              /\ c.at = "exits" /\ c.seen = Trader!Entries
    <3>1. PICK i \in PassType : i = Trader!Idle
      BY IdlePass
    <3>2. PICK e \in [Symbols -> Prices \cup {None}], t \in SUBSET Symbols :
            e = Trader!Entries /\ t = Trader!HeldIn(Trader!Entries)
      BY <1>1 DEF Trader!HeldIn
    <3> DEFINE w == [i EXCEPT !.at = "exits", !.todo = t, !.seen = e]
    <3>3. w \in PassType /\ w.at = "exits" /\ w.seen = e
      BY DEF PassType, Trader!Places
    <3>4. w = [Trader!Idle EXCEPT !.at = "exits", !.todo = Trader!HeldIn(Trader!Entries), !.seen = Trader!Entries]
      BY <3>1, <3>2
    <3> HIDE DEF w
    <3> QED
      BY <3>2, <3>3, <3>4
  <2>2. Knows(c)
    BY <1>1, <2>1 DEF Knows
  <2> QED
    BY <1>2, <2>1, <2>2, PassMoves DEF Trader!Start
<1>3. CASE Trader!Finish(p)
  <2>1. PICK c \in PassType : c = Trader!Idle /\ c.at = "idle"
    BY IdlePass
  <2>2. Knows(c)
    BY <2>1 DEF Knows
  <2> QED
    BY <1>3, <2>1, <2>2, PassMoves DEF Trader!Finish, Trader!Ended
<1> QED
  BY <1>2, <1>3

\* A quote, and what the signal says of it.
LEMMA ExitLooks ==
  ASSUME OnePassAssumption, AutoInv, NEW p \in Passes,
         (\E s \in Symbols : Trader!LookAtExit(p, s)) \/ Trader!JudgeExit(p)
  PROVE  AutoInv'
<1>1. PICK y \in PassType : y = pass[p] /\ Knows(y)
  BY DEF AutoInv
<1>2. \A s \in Own : y.at # "bought" => Kept(s)
  BY <1>1 DEF AutoInv, OnePassAssumption
<1>3. UNCHANGED <<held, brackets, clock, life>>
  BY DEF Trader!LookAtExit, Trader!JudgeExit
<1>4. ASSUME NEW s \in Symbols, Trader!LookAtExit(p, s), ~Trader!Skip(p, s) PROVE AutoInv'
  <2>1. PICK price \in Prices, a \in {"sell", "signal"} :
          /\ ~Trader!TooSoon(s) /\ y.at = "exits"
          /\ pass' = [pass EXCEPT ![p].sym = s, ![p].price = price, ![p].at = a]
    BY <1>1, <1>4 DEF Trader!LookAtExit
  <2>2. PICK c \in PassType : /\ c = [y EXCEPT !.sym = s, !.price = price, !.at = a]
                              /\ c.at = a /\ c.seen = y.seen /\ c.sym = s
    <3> DEFINE w == [y EXCEPT !.sym = s, !.price = price, !.at = a]
    <3>1. w \in PassType /\ w.at = a /\ w.seen = y.seen /\ w.sym = s
      BY DEF PassType, Trader!Places
    <3> QED
      BY <3>1, Zenon
  <2>3. pass' = [pass EXCEPT ![p] = c]
    BY <1>1, <2>1, <2>2 DEF AutoInv
  <2>4. ASSUME s \in Own PROVE clock - held[s].at >= MinHold
    <3>1. Kept(s) /\ held[s] \in Trader!Positions /\ brackets[s] \in Trader!Brackets
      BY <1>2, <2>1, <2>4 DEF Own, Trader!AutoHeld, AutoInv, Kept
    <3>2. ~(clock - brackets[s].at < MinHold)
      BY <2>1, <3>1 DEF Trader!TooSoon, Kept
    <3>3. {clock, brackets[s].at, held[s].at, MinHold} \subseteq Int
      BY <3>1 DEF Trader!Positions, Trader!Brackets, AutoInv, OnePassAssumption, Trader!AutoPaperAssumption
    <3> QED
      BY <3>1, <3>2, <3>3 DEF Kept
  <2>5. Knows(c)
    <3>1. c.sym # None
      BY <2>2 DEF OnePassAssumption
    <3> QED
      BY <1>1, <2>1, <2>2, <2>4, <3>1 DEF Knows
  <2> QED
    BY <1>1, <1>3, <2>1, <2>3, <2>5, PassMoves
<1>5. ASSUME Trader!JudgeExit(p) PROVE AutoInv'
  <2>1. y.at = "signal" /\ y.sym \in Symbols
    BY <1>1, <1>5 DEF Trader!JudgeExit, Knows, PassType
  <2>2. CASE Trader!Skip(p, y.sym)
    BY <1>1, <1>3, <2>1, <2>2, SkipStep
  <2>3. CASE pass' = [pass EXCEPT ![p].at = "sell"]
    <3>1. PICK c \in PassType : c = [y EXCEPT !.at = "sell"] /\ c.at = "sell" /\ c.seen = y.seen /\ c.sym = y.sym
      <4> DEFINE w == [y EXCEPT !.at = "sell"]
      <4>1. w \in PassType /\ w.at = "sell" /\ w.seen = y.seen /\ w.sym = y.sym
        BY DEF PassType, Trader!Places
      <4> QED
        BY <4>1, Zenon
    <3>2. pass' = [pass EXCEPT ![p] = c]
      BY <1>1, <2>3, <3>1 DEF AutoInv
    <3>3. Knows(c)
      BY <1>1, <2>1, <3>1 DEF Knows
    <3> QED
      BY <1>1, <1>3, <2>1, <3>2, <3>3, PassMoves
  <2> QED
    BY <1>1, <1>5, <2>2, <2>3 DEF Trader!JudgeExit
<1>6. ASSUME NEW s \in Symbols, Trader!LookAtExit(p, s), Trader!Skip(p, s) PROVE AutoInv'
  BY <1>3, <1>6, SkipStep DEF Trader!LookAtExit
<1> QED
  BY <1>4, <1>5, <1>6

LEMMA RereadStep ==
  ASSUME OnePassAssumption, AutoInv, NEW p \in Passes, Trader!Reread(p)
  PROVE  AutoInv'
<1>1. PICK y \in PassType : y = pass[p] /\ Knows(y) /\ y.at = "exits"
  BY DEF AutoInv, Trader!Reread
<1>2. Trader!Entries \in [Symbols -> Prices \cup {None}] /\ \A s \in Own : Trader!Entries[s] # None
  BY DEF Trader!Entries, AutoInv, Trader!Positions, Own, Trader!AutoHeld, OnePassAssumption
<1>3. PICK seen \in [Symbols -> Prices \cup {None}] :
        /\ \A s \in Own : seen[s] # None
        /\ pass' = [pass EXCEPT ![p].at = "entries", ![p].seen = seen, ![p].todo = Symbols,
                                ![p].count = Trader!OpenCount(seen)]
  BY <1>1, <1>2 DEF Trader!Reread, Knows, PassType
<1>4. PICK n \in Nat : n = Trader!OpenCount(seen) /\ Cardinality(Own) <= n
  <2>1. Trader!HeldIn(seen) \subseteq Symbols /\ Own \subseteq Trader!HeldIn(seen)
    BY <1>3, OwnFinite DEF Trader!HeldIn
  <2>2. Trader!OpenCount(seen) = Cardinality(Trader!HeldIn(seen))
    BY Zenon DEF Trader!OpenCount, Trader!Cardinality, Cardinality, Trader!IsFiniteSet, IsFiniteSet
  <2> QED
    BY <2>1, <2>2, FS_Subset, FS_CardinalityType DEF OnePassAssumption
<1>5. PICK c \in PassType : /\ c = [y EXCEPT !.at = "entries", !.seen = seen, !.todo = Symbols, !.count = n]
                            /\ c.at = "entries" /\ c.seen = seen /\ c.count = n
  <2> DEFINE w == [y EXCEPT !.at = "entries", !.seen = seen, !.todo = Symbols, !.count = n]
  <2>1. w \in PassType /\ w.at = "entries" /\ w.seen = seen /\ w.count = n
    BY DEF PassType, Trader!Places
  <2> QED
    BY <2>1, Zenon
<1>6. pass' = [pass EXCEPT ![p] = c]
  BY <1>1, <1>3, <1>4, <1>5 DEF AutoInv
<1>7. Knows(c)
  BY <1>3, <1>4, <1>5 DEF Knows
<1> QED
  BY <1>1, <1>6, <1>7, PassMoves DEF Trader!Reread

LEMMA EntryLooks ==
  ASSUME OnePassAssumption, AutoInv, NEW p \in Passes, NEW s \in Symbols, Trader!LookAtEntry(p, s)
  PROVE  AutoInv'
<1>1. PICK y \in PassType : y = pass[p] /\ Knows(y) /\ y.at = "entries" /\ s \in y.todo /\ y.count < Max
  BY DEF AutoInv, Trader!LookAtEntry
<1>2. UNCHANGED <<held, brackets, clock, life>>
  BY DEF Trader!LookAtEntry
<1>3. CASE Trader!Skip(p, s)
  BY <1>1, <1>2, <1>3, SkipStep
<1>4. CASE ~Trader!Skip(p, s)
  <2>1. PICK price \in Prices : /\ y.seen[s] = None
                                /\ pass' = [pass EXCEPT ![p].at = "buy", ![p].sym = s, ![p].price = price]
    BY <1>1, <1>4 DEF Trader!LookAtEntry
  <2>2. PICK c \in PassType : /\ c = [y EXCEPT !.at = "buy", !.sym = s, !.price = price]
                              /\ c.at = "buy" /\ c.seen = y.seen /\ c.sym = s /\ c.count = y.count
                              /\ c.todo = y.todo /\ c.price = price
    <3> DEFINE w == [y EXCEPT !.at = "buy", !.sym = s, !.price = price]
    <3>1. /\ w \in PassType /\ w.at = "buy" /\ w.seen = y.seen /\ w.sym = s /\ w.count = y.count
          /\ w.todo = y.todo /\ w.price = price
      BY DEF PassType, Trader!Places
    <3> QED
      BY <3>1, Zenon
  <2>3. pass' = [pass EXCEPT ![p] = c]
    BY <1>1, <2>1, <2>2 DEF AutoInv
  <2>4. Knows(c)
    BY <1>1, <2>1, <2>2 DEF Knows, OnePassAssumption
  <2> QED
    BY <1>1, <1>2, <2>3, <2>4, PassMoves
<1> QED
  BY <1>3, <1>4

\* The position is closed, then its bracket goes.
LEMMA SaleSteps ==
  ASSUME OnePassAssumption, AutoInv, NEW p \in Passes, Trader!Sell(p) \/ Trader!Sold(p)
  PROVE  AutoInv'
<1>1. PICK y \in PassType : y = pass[p] /\ Knows(y) /\ y.at \in {"sell", "sold"} /\ y.sym \in Symbols
  BY DEF AutoInv, Trader!Sell, Trader!Sold, Knows, PassType
<1>2. \A s \in Own : Kept(s)
  BY <1>1 DEF AutoInv, OnePassAssumption
<1>3. CASE Trader!Sell(p) /\ Trader!Skip(p, y.sym)
  <2>1. CASE UNCHANGED held
    BY <1>1, <1>3, <2>1, SkipStep DEF Trader!Sell
  <2>2. CASE ~UNCHANGED held
    <3>1. pass' = [pass EXCEPT ![p].at = "sold"] /\ pass' = [pass EXCEPT ![p] = Trader!Onward(p, y.sym)]
      BY <1>1, <1>3, <2>2 DEF Trader!Sell, Trader!Skip
    <3>2. pass'[p].at = "sold" /\ pass'[p].at = "exits"
      <4>1. PICK c \in PassType : c = Trader!Onward(p, y.sym) /\ c.at = "exits"
        BY <1>1, <1>3, OnwardGoes DEF Trader!Sell
      <4> QED
        BY <1>1, <3>1, <4>1 DEF AutoInv, PassType
    <3> QED
      BY <3>2
  <2> QED
    BY <2>1, <2>2
<1>4. CASE Trader!Sell(p) /\ ~Trader!Skip(p, y.sym)
  <2>1. /\ held[y.sym] # None /\ held' = [held EXCEPT ![y.sym] = None]
        /\ pass' = [pass EXCEPT ![p].at = "sold"] /\ UNCHANGED <<brackets, clock, life>>
    BY <1>1, <1>4 DEF Trader!Sell
  <2>2. PICK c \in PassType : c = [y EXCEPT !.at = "sold"] /\ c.at = "sold" /\ c.seen = y.seen /\ c.sym = y.sym
    <3> DEFINE w == [y EXCEPT !.at = "sold"]
    <3>1. w \in PassType /\ w.at = "sold" /\ w.seen = y.seen /\ w.sym = y.sym
      BY DEF PassType, Trader!Places
    <3> QED
      BY <3>1, Zenon
  <2>3. pass' = [pass EXCEPT ![p] = c]
    BY <1>1, <2>1, <2>2 DEF AutoInv
  <2>4. pass' \in [Passes -> PassType] /\ pass'[p] = c /\ \A q \in Passes : q = p
    BY <2>3 DEF AutoInv, OnePassAssumption
  <2>5. Own' = Own \ {y.sym} /\ \A s \in Own' : held'[s] = held[s] /\ Kept(s)'
    BY <1>1, <1>2, <2>1 DEF AutoInv, Own, Trader!AutoHeld, Kept
  <2>6. Knows(c)'
    BY <1>1, <1>4, <2>2, <2>5 DEF Knows, Trader!Sell
  <2>7. Cardinality(Own') <= Max
    BY <2>5, FewerOwn, OwnFinite DEF AutoInv, OnePassAssumption, Trader!AutoPaperAssumption
  <2>8. /\ held' \in [Symbols -> Trader!Positions \cup {None}]
        /\ \A s \in Symbols : held'[s] # None => held'[s].life <= life' /\ held'[s].at <= clock'
    BY <1>1, <2>1 DEF AutoInv
  <2> QED
    BY <2>1, <2>4, <2>5, <2>6, <2>7, <2>8 DEF AutoInv
<1>5. CASE Trader!Sold(p)
  <2>1. PICK c \in PassType :
           /\ c = Trader!Onward(p, y.sym) /\ c.at = "exits"
           /\ c.seen = pass[p].seen /\ c.todo = pass[p].todo \ {y.sym} /\ c.count = pass[p].count
    BY <1>1, <1>5, OnwardGoes DEF Trader!Sold
  <2>2. y.at = "sold" /\ pass' = [pass EXCEPT ![p] = c] /\ UNCHANGED <<held, clock, life>>
        /\ brackets' = [brackets EXCEPT ![y.sym] = None]
    BY <1>1, <1>5, <2>1 DEF Trader!Sold, Trader!Skip
  <2>3. pass' \in [Passes -> PassType] /\ pass'[p] = c /\ \A q \in Passes : q = p
    BY <2>2 DEF AutoInv, OnePassAssumption
  <2>4. Own' = Own /\ \A s \in Own : s # y.sym
    BY <1>1, <2>2 DEF Knows, Own, Trader!AutoHeld
  <2>5. \A s \in Own' : Kept(s)'
    <3> SUFFICES ASSUME NEW s \in Own PROVE Kept(s)'
      BY <2>4
    <3>1. Kept(s) /\ brackets'[s] = brackets[s] /\ held' = held
      BY <1>2, <2>2, <2>4, OwnFinite DEF AutoInv
    <3> QED
      BY <3>1 DEF Kept
  <2>6. Knows(c)'
    BY <1>1, <2>1, <2>2, <2>4 DEF Knows
  <2>7. brackets' \in [Symbols -> Trader!Brackets \cup {None}]
    BY <1>1, <2>2 DEF AutoInv
  <2> QED
    BY <2>2, <2>3, <2>4, <2>5, <2>6, <2>7 DEF AutoInv
<1> QED
  BY <1>3, <1>4, <1>5

\* The purchase, and the bracket it is given.
LEMMA PurchaseSteps ==
  ASSUME OnePassAssumption, AutoInv, NEW p \in Passes, Trader!Buy(p) \/ Trader!Bought(p)
  PROVE  AutoInv'
<1>1. PICK y \in PassType : /\ y = pass[p] /\ Knows(y) /\ y.at \in {"buy", "bought"} /\ y.sym \in Symbols
                            /\ y.count < Max /\ y.sym \in y.todo
  BY DEF AutoInv, Trader!Buy, Trader!Bought, Knows, PassType
<1>2. \A q \in Passes : q = p
  BY DEF OnePassAssumption
<1>3. {y.count, Max, Cardinality(Own), Cardinality(Own')} \subseteq Nat
  BY OwnFinite DEF PassType, OnePassAssumption, Trader!AutoPaperAssumption
<1>4. CASE Trader!Buy(p) /\ UNCHANGED held /\ Trader!Skip(p, y.sym)
  BY <1>1, <1>4, SkipStep DEF Trader!Buy
<1>5. CASE /\ Trader!Buy(p) /\ pass' = [pass EXCEPT ![p].at = "bought"]
           /\ held' = [held EXCEPT ![y.sym] = IF held[y.sym] # None THEN held[y.sym]
                         ELSE [entry |-> y.price, by |-> "auto", at |-> clock, life |-> life]]
  <2>1. y.at = "buy" /\ y.seen[y.sym] = None /\ y.price \in Prices /\ UNCHANGED <<brackets, clock, life>>
    BY <1>1, <1>5 DEF Trader!Buy, Knows, PassType
  <2>2. y.sym \notin Own /\ \A s \in Own : Kept(s)
    BY <1>1, <1>2, <2>1 DEF Knows, AutoInv
  <2>3. PICK c \in PassType : /\ c = [y EXCEPT !.at = "bought"] /\ c.at = "bought" /\ c.seen = y.seen /\ c.sym = y.sym
                              /\ c.todo = y.todo /\ c.count = y.count /\ c.price = y.price
    <3> DEFINE w == [y EXCEPT !.at = "bought"]
    <3>1. /\ w \in PassType /\ w.at = "bought" /\ w.seen = y.seen /\ w.sym = y.sym
          /\ w.todo = y.todo /\ w.count = y.count /\ w.price = y.price
      BY DEF PassType, Trader!Places
    <3> QED
      BY <3>1, Zenon
  <2>4. pass' = [pass EXCEPT ![p] = c]
    BY <1>1, <1>5, <2>3 DEF AutoInv
  <2>5. pass' \in [Passes -> PassType] /\ pass'[p] = c
    BY <2>4 DEF AutoInv
  <2>6. PICK v \in Trader!Positions : v.entry = y.price /\ v.at = clock /\ v.life = life
          /\ held' = [held EXCEPT ![y.sym] = IF held[y.sym] # None THEN held[y.sym] ELSE v]
    <3> DEFINE w == [entry |-> y.price, by |-> "auto", at |-> clock, life |-> life]
    <3>1. w \in Trader!Positions /\ w.entry = y.price /\ w.at = clock /\ w.life = life
      BY <2>1 DEF Trader!Positions, AutoInv
    <3>2. held' = [held EXCEPT ![y.sym] = IF held[y.sym] # None THEN held[y.sym] ELSE w]
      BY <1>5
    <3> HIDE DEF w
    <3> QED
      BY <3>1, <3>2
  <2>7. /\ held' \in [Symbols -> Trader!Positions \cup {None}]
        /\ \A s \in Symbols \ {y.sym} : held'[s] = held[s]
        /\ held[y.sym] # None => held'[y.sym] = held[y.sym]
        /\ held[y.sym] = None => held'[y.sym] = v
    BY <1>1, <2>6 DEF AutoInv
  <2>8. \A s \in Symbols : held'[s] # None => held'[s].life <= life' /\ held'[s].at <= clock'
    BY <2>1, <2>6, <2>7 DEF AutoInv
  <2>9. Own' \subseteq Own \cup {y.sym} /\ \A s \in Own' : s # y.sym => s \in Own /\ Kept(s)'
    BY <2>1, <2>2, <2>7 DEF Own, Trader!AutoHeld, Kept
  <2>10. Cardinality(Own') <= Cardinality(Own) + 1
    <3>1. Cardinality(Own \cup {y.sym}) = Cardinality(Own) + 1 /\ IsFiniteSet(Own \cup {y.sym})
      BY <2>2, OwnFinite, FS_AddElement
    <3> QED
      BY <2>9, <3>1, FS_Subset
  <2>11. y.sym \in Own' => held'[y.sym].entry = c.price
    BY <2>1, <2>2, <2>3, <2>6, <2>7 DEF Own, Trader!AutoHeld
  <2>12. Knows(c)'
    <3>1. Cardinality(Own') <= c.count + 1
      BY <1>1, <1>3, <2>1, <2>3, <2>10 DEF Knows
    <3>2. \A s \in Own' \cap c.todo : s # c.sym => c.seen[s] # None
      BY <1>1, <2>1, <2>3, <2>9 DEF Knows
    <3> QED
      BY <1>1, <2>3, <2>11, <3>1, <3>2 DEF Knows
  <2>13. Cardinality(Own') <= Max
    BY <1>1, <1>3, <2>1, <2>10 DEF Knows
  <2>14. \A s \in Own' : Kept(s)' \/ (pass'[p].at = "bought" /\ pass'[p].sym = s)
    BY <2>3, <2>5, <2>9
  <2> QED
    BY <1>2, <2>1, <2>5, <2>7, <2>8, <2>12, <2>13, <2>14 DEF AutoInv
<1>6. CASE Trader!Bought(p)
  <2>1. /\ y.at = "bought" /\ UNCHANGED <<held, clock, life>>
        /\ brackets' = [brackets EXCEPT ![y.sym] = Trader!NewBracket(p)]
        /\ pass' = [pass EXCEPT ![p] = [Trader!Onward(p, y.sym) EXCEPT !.count = @ + 1]]
    BY <1>1, <1>6 DEF Trader!Bought
  <2>2. PICK g \in PassType :
          /\ g = Trader!Onward(p, y.sym) /\ g.at = "entries"
          /\ g.seen = y.seen /\ g.todo = y.todo \ {y.sym} /\ g.count = y.count
    BY <1>1, <2>1, OnwardGoes
  <2>3. PICK c \in PassType : /\ c = [g EXCEPT !.count = g.count + 1] /\ c.at = "entries" /\ c.seen = g.seen
                              /\ c.todo = g.todo /\ c.count = g.count + 1
    <3> DEFINE w == [g EXCEPT !.count = g.count + 1]
    <3>1. w \in PassType /\ w.at = "entries" /\ w.seen = g.seen /\ w.todo = g.todo /\ w.count = g.count + 1
      BY <2>2 DEF PassType
    <3> QED
      BY <3>1, Zenon
  <2>4. pass' \in [Passes -> PassType] /\ pass'[p] = c
    BY <2>1, <2>2, <2>3 DEF AutoInv
  <2>5. Own' = Own
    BY <2>1 DEF Own, Trader!AutoHeld
  <2>6. \A s \in Own : Kept(s) \/ s = y.sym
    BY <1>1, <1>2 DEF AutoInv
  <2>7. PICK b \in Trader!Brackets : b = Trader!NewBracket(p) /\ b.entry = y.price /\ b.at = clock
    <3> DEFINE w == [entry |-> y.price, at |-> clock]
    <3>1. w \in Trader!Brackets /\ w.entry = y.price /\ w.at = clock
      BY <1>1 DEF Trader!Brackets, PassType, AutoInv, Knows
    <3>2. w = Trader!NewBracket(p)
      BY <1>1 DEF Trader!NewBracket
    <3> HIDE DEF w
    <3> QED
      BY <3>1, <3>2
  <2>8. brackets' \in [Symbols -> Trader!Brackets \cup {None}] /\ brackets'[y.sym] = b
        /\ \A s \in Symbols \ {y.sym} : brackets'[s] = brackets[s]
    BY <1>1, <2>1, <2>7 DEF AutoInv
  <2>9. ASSUME NEW s \in Own PROVE Kept(s)'
    <3>1. s \in Symbols /\ held[s] \in Trader!Positions /\ held[s].at <= clock
      BY OwnFinite DEF Own, Trader!AutoHeld, AutoInv
    <3>2. CASE s = y.sym
      BY <1>1, <2>1, <2>7, <2>8, <3>1, <3>2 DEF Kept, Knows, OnePassAssumption
    <3>3. CASE s # y.sym
      BY <2>1, <2>6, <2>8, <3>1, <3>3 DEF Kept
    <3> QED
      BY <3>2, <3>3
  <2>10. Knows(c)'
    BY <1>1, <2>1, <2>2, <2>3, <2>5 DEF Knows
  <2> QED
    BY <1>2, <2>1, <2>4, <2>5, <2>8, <2>9, <2>10 DEF AutoInv
<1> QED
  BY <1>1, <1>4, <1>5, <1>6 DEF Trader!Buy

\* The user, the clock, a restart.
LEMMA OutsideSteps ==
  ASSUME OnePassAssumption, AutoInv,
         \/ \E s \in Symbols : Trader!UserBuy(s)
         \/ \E S \in SUBSET Symbols : Trader!UserSell(S)
         \/ Trader!Tick
  PROVE  AutoInv'
<1>1. UNCHANGED <<brackets, pass, life>>
  BY DEF Trader!UserBuy, Trader!UserSell, Trader!Tick
<1>2. /\ held' \in [Symbols -> Trader!Positions \cup {None}]
      /\ clock' \in clock..MaxClock
      /\ \A s \in Symbols : \/ held'[s] = held[s] \/ held'[s] = None
                            \/ held'[s].by = "user" /\ held'[s].life = life /\ held'[s].at = clock
  <2>1. CASE \E s \in Symbols : Trader!UserBuy(s)
    <3>1. PICK s \in Symbols, price \in Prices :
            /\ held' = [held EXCEPT ![s] = [entry |-> price, by |-> "user", at |-> clock, life |-> life]]
            /\ UNCHANGED clock
      BY <2>1 DEF Trader!UserBuy
    <3>2. PICK v \in Trader!Positions : /\ v = [entry |-> price, by |-> "user", at |-> clock, life |-> life]
                                        /\ v.by = "user" /\ v.life = life /\ v.at = clock
      <4> DEFINE w == [entry |-> price, by |-> "user", at |-> clock, life |-> life]
      <4>1. w \in Trader!Positions /\ w.by = "user" /\ w.life = life /\ w.at = clock
        BY DEF Trader!Positions, AutoInv
      <4> QED
        BY <4>1, Zenon
    <3> QED
      BY <3>1, <3>2 DEF AutoInv, OnePassAssumption, Trader!AutoPaperAssumption
  <2>2. CASE \E S \in SUBSET Symbols : Trader!UserSell(S)
    BY <2>2 DEF Trader!UserSell, AutoInv, OnePassAssumption, Trader!AutoPaperAssumption
  <2>3. CASE Trader!Tick
    BY <2>3 DEF Trader!Tick, AutoInv, OnePassAssumption, Trader!AutoPaperAssumption
  <2> QED
    BY <2>1, <2>2, <2>3
<1>3. /\ Own' \subseteq Own /\ \A s \in Own' : held'[s] = held[s] /\ (Kept(s) => Kept(s)')
  BY <1>1, <1>2 DEF Own, Trader!AutoHeld, Kept
<1>4. clock' \in 0..MaxClock /\ clock' >= clock /\ clock \in Int /\ clock' \in Int
  BY <1>2 DEF AutoInv, OnePassAssumption, Trader!AutoPaperAssumption
<1>5. \A q \in Passes : Knows(pass[q])'
  <2> SUFFICES ASSUME NEW q \in Passes PROVE Knows(pass[q])'
    OBVIOUS
  <2>1. PICK c \in PassType : c = pass[q] /\ Knows(c)
    BY DEF AutoInv
  <2>2. Knows(c)'
    BY <1>3, <1>4, <2>1, KnowsKept
  <2>3. c = pass'[q]
    BY <1>1, <2>1
  <2> QED
    BY <2>2, <2>3
<1>6. \A s \in Symbols : held'[s] # None => held'[s].life <= life' /\ held'[s].at <= clock'
  <2> SUFFICES ASSUME NEW s \in Symbols, held'[s] # None PROVE held'[s].life <= life /\ held'[s].at <= clock'
    BY <1>1
  <2>1. held'[s].at \in Int /\ held'[s].life \in Int /\ life \in Int
    BY <1>2 DEF Trader!Positions, AutoInv
  <2> QED
    BY <1>2, <1>4, <2>1 DEF AutoInv
<1>7. Cardinality(Own') <= Max
  BY <1>3, FewerOwn, OwnFinite DEF AutoInv, OnePassAssumption, Trader!AutoPaperAssumption
<1>8. \A s \in Own' : Kept(s)' \/ \E q \in Passes : pass'[q].at = "bought" /\ pass'[q].sym = s
  BY <1>1, <1>3 DEF AutoInv
<1> QED
  BY <1>1, <1>2, <1>4, <1>5, <1>6, <1>7, <1>8 DEF AutoInv

LEMMA RestartStep ==
  ASSUME OnePassAssumption, AutoInv, Trader!Restart
  PROVE  AutoInv'
<1>1. life' = life + 1 /\ life \in Int /\ life' \in 1..MaxLives /\ UNCHANGED <<held, clock>>
  BY DEF Trader!Restart, AutoInv, OnePassAssumption, Trader!AutoPaperAssumption
<1>2. Own' = {}
  <2>1. ASSUME NEW s \in Symbols, held[s] # None PROVE held[s].life # life'
    <3>1. held[s] \in Trader!Positions /\ held[s].life <= life
      BY <2>1 DEF AutoInv
    <3> QED
      BY <1>1, <3>1 DEF Trader!Positions
  <2> QED
    BY <1>1, <2>1 DEF Own, Trader!AutoHeld
<1>3. Cardinality(Own') <= Max
  BY <1>2, FS_EmptySet DEF OnePassAssumption, Trader!AutoPaperAssumption
<1>4. pass' \in [Passes -> PassType] /\ \A p \in Passes : pass'[p].at = "idle"
  BY IdlePass DEF Trader!Restart
<1>5. \A p \in Passes : Knows(pass[p])'
  BY <1>4 DEF Knows
<1>6. brackets' \in [Symbols -> Trader!Brackets \cup {None}]
  BY DEF Trader!Restart, Trader!NotHeld
<1>7. \A s \in Symbols : held'[s] # None => held'[s].life <= life' /\ held'[s].at <= clock'
  <2> SUFFICES ASSUME NEW s \in Symbols, held[s] # None PROVE held[s].life <= life' /\ held[s].at <= clock
    BY <1>1
  <2>1. held[s] \in Trader!Positions
    BY DEF AutoInv
  <2> QED
    BY <1>1, <2>1 DEF Trader!Positions, AutoInv
<1> QED
  BY <1>1, <1>2, <1>3, <1>4, <1>5, <1>6, <1>7 DEF AutoInv

LEMMA AutoStep == ASSUME OnePassAssumption, AutoInv, [Trader!Next]_(Trader!vars) PROVE AutoInv'
<1>1. CASE UNCHANGED Trader!vars
  <2>1. UNCHANGED <<held, brackets, pass, clock, life>>
    BY <1>1 DEF Trader!vars
  <2>2. Own' = Own /\ (\A s \in Own : Kept(s)' = Kept(s)) /\ \A q \in Passes : Knows(pass[q])' = Knows(pass[q])
    BY <2>1 DEF Own, Trader!AutoHeld, Kept, Knows
  <2> QED
    BY <2>1, <2>2 DEF AutoInv
<1>2. ASSUME NEW p \in Passes, Trader!Exits(p) PROVE AutoInv'
  BY <1>2, ExitLooks, SaleSteps DEF Trader!Exits
<1>3. ASSUME NEW p \in Passes, Trader!EntriesOf(p) PROVE AutoInv'
  BY <1>3, EntryLooks, PurchaseSteps DEF Trader!EntriesOf
<1> QED
  BY <1>1, <1>2, <1>3, StartStep, RereadStep, OutsideSteps, RestartStep DEF Trader!Next

LEMMA AutoHolds == ASSUME OnePassAssumption PROVE Trader!Spec => []AutoInv
<1>1. ASSUME Trader!Init PROVE AutoInv
  <2>1. Own = {} /\ \A s \in Symbols : held[s] = None
    BY <1>1 DEF Trader!Init, Trader!NotHeld, Own, Trader!AutoHeld
  <2>2. Cardinality(Own) <= Max
    BY <2>1, FS_EmptySet DEF OnePassAssumption, Trader!AutoPaperAssumption
  <2>3. /\ pass \in [Passes -> PassType] /\ \A p \in Passes : pass[p].at = "idle"
    BY <1>1, IdlePass DEF Trader!Init
  <2>4. \A p \in Passes : Knows(pass[p])
    BY <2>3 DEF Knows
  <2>5. /\ held \in [Symbols -> Trader!Positions \cup {None}] /\ brackets \in [Symbols -> Trader!Brackets \cup {None}]
        /\ clock \in 0..MaxClock /\ life \in 1..MaxLives
    BY <1>1 DEF Trader!Init, Trader!NotHeld, OnePassAssumption, Trader!AutoPaperAssumption
  <2> QED
    BY <2>1, <2>2, <2>3, <2>4, <2>5 DEF AutoInv
<1> QED
  BY <1>1, AutoStep, PTL DEF Trader!Spec

\* Passes that follow each other never hold more positions of their own than the cap, whatever
\* the user buys and sells meanwhile and whether or not the portfolio could be read again
\* (autoPaperTrader.js runOnce, openCount and MAX_POSITIONS).
THEOREM CapIsHeld == ASSUME OnePassAssumption PROVE Trader!Spec => []Trader!CapHeld
<1>1. OnePassAssumption /\ AutoInv => Trader!CapHeld
  <2>1. Trader!Cardinality(Own) = Cardinality(Own)
    BY Zenon DEF Trader!Cardinality, Cardinality, Trader!IsFiniteSet, IsFiniteSet
  <2> QED
    BY <2>1 DEF AutoInv, Trader!CapHeld, Own
<1> QED
  BY <1>1, AutoHolds, PTL

\* Once the pass has gone on, the bracket in memory of a position it opened is the one of that
\* entry (autoPaperTrader.js, _brackets).
THEOREM BracketsAreOwn == ASSUME OnePassAssumption PROVE Trader!Spec => []Trader!OwnBracket
<1>1. AutoInv => Trader!OwnBracket
  BY DEF AutoInv, Trader!OwnBracket, Own, Kept
<1> QED
  BY <1>1, AutoHolds, PTL

\* No pass closes a position of this process before the minimum holding time is over, though it
\* looks at the time before it awaits the candles (autoPaperTrader.js, MIN_HOLD_MS).
THEOREM NothingIsThrashed == ASSUME OnePassAssumption PROVE Trader!Spec => Trader!NoThrash
<1>1. AutoInv =>
        [\A s \in Trader!AutoHeld, p \in Passes :
           (pass[p].at = "sell" /\ pass'[p].at = "sold" /\ pass[p].sym = s /\ held[s].life = life)
             => clock - held[s].at >= MinHold]_(Trader!vars)
  BY DEF AutoInv, Knows, Own
<1> QED
  BY <1>1, AutoHolds, PTL DEF Trader!Spec, Trader!NoThrash

-----------------------------------------------------------------------------
(* CorpActions                                                             *)

\* Factors are fractions of naturals and dates are days.
ActionsAssumption ==
  /\ IsFiniteSet(Actions) /\ Qtys \subseteq Nat /\ None \notin Nat
  /\ MaxRows \in Nat /\ MaxDay \in Nat /\ MaxFails \in Nat
  /\ \A a \in Actions : Ex(a) \in Nat /\ Num(a) \in Nat \ {0} /\ Den(a) \in Nat \ {0}

ReaderType == [at : {"idle", "list", "actions", "check", "update", "mark"},
               todo : SUBSET Actions, day : Nat]

At(r) == Ledger!First(reader[r].todo)

\* Readings that have not met follow each other; one that updates has found no mark; and a row was
\* re-based once for what is marked, or for what the reading is about to mark.
Undisturbed ==
  /\ \A r, q \in Readers : reader[r].at # "idle" /\ reader[q].at # "idle" => r = q
  /\ \A r \in Readers : reader[r].at = "update" => flags[At(r)] = None
  /\ \A i \in DOMAIN lots, a \in Actions :
       /\ lots[i].times[a] <= 1
       /\ lots[i].times[a] = 1 =>
            Ledger!Applied(a) \/ \E r \in Readers : reader[r].at = "mark" /\ At(r) = a

\* Every purchase before the update whose mark is on its way has been re-based by it.
Covered(r) ==
  reader[r].at = "mark" =>
    \A i \in DOMAIN lots :
      Ledger!Concerned(lots[i], At(r)) /\ lots[i].day < reader[r].day => lots[i].times[At(r)] > 0

LedgerInv ==
  /\ Ledger!TypeOK
  /\ reader \in [Readers -> ReaderType]
  /\ \A a \in Actions : flags[a] # None => flags[a] <= day
  /\ ~disturbed => Undisturbed
  /\ \A r \in Readers : Covered(r)
  /\ Ledger!MarkedIsDone

LEMMA FirstAction ==
  ASSUME ActionsAssumption, NEW S \in SUBSET Actions, S # {}
  PROVE  Ledger!First(S) \in S
<1>1. {Ex(a) : a \in S} \in SUBSET Nat /\ {Ex(a) : a \in S} # {}
  BY DEF ActionsAssumption
<1>2. PICK m \in {Ex(a) : a \in S} : \A n \in {Ex(a) : a \in S} : m <= n
  BY <1>1, Least
<1>3. \E a \in S : \A b \in S : Ex(a) <= Ex(b)
  BY <1>2
<1> QED
  BY <1>3, Zenon DEF Ledger!First

LEMMA RestOfReading ==
  ASSUME ActionsAssumption, LedgerInv, NEW r \in Readers, reader[r].todo # {}
  PROVE  LET u == Ledger!Rest(r) IN
         /\ u \in ReaderType /\ u.todo \subseteq table /\ u.day = 0 /\ u.at \in {"idle", "check"}
         /\ u.at = "check" <=> u.todo # {}
<1> DEFINE S == reader[r].todo
<1>1. S \in SUBSET Actions /\ S \subseteq table
  BY DEF LedgerInv, ReaderType, Ledger!TypeOK
<1>2. IsFiniteSet(S)
  BY <1>1, FS_Subset DEF ActionsAssumption
<1>3. Ledger!Cardinality(S) = Cardinality(S)
  BY Zenon DEF Ledger!Cardinality, Cardinality, Ledger!IsFiniteSet, IsFiniteSet
<1>4. CASE Ledger!Cardinality(S) <= 1
  BY <1>4 DEF Ledger!Rest, Ledger!Idle, ReaderType
<1>5. CASE ~(Ledger!Cardinality(S) <= 1)
  <2>1. S \ {Ledger!First(S)} # {}
    <3>1. SUFFICES ASSUME S = {Ledger!First(S)} PROVE FALSE
      OBVIOUS
    <3>2. Cardinality(S) = 1
      BY <1>2, <3>1, FS_Singleton
    <3> QED
      BY <1>3, <1>5, <3>2
  <2>2. Ledger!Rest(r) = [at |-> "check", todo |-> S \ {Ledger!First(S)}, day |-> 0]
    BY <1>5 DEF Ledger!Rest, Ledger!Idle
  <2> HIDE DEF S
  <2> QED
    BY <1>1, <2>1, <2>2 DEF ReaderType
<1> QED
  BY <1>4, <1>5

LEMMA RowRebases ==
  ASSUME ActionsAssumption, NEW row \in Ledger!Rows, NEW a \in Actions
  PROVE  /\ Ledger!Rebase(row, a) \in Ledger!Rows
         /\ Ledger!Rebase(row, a).action = row.action /\ Ledger!Rebase(row, a).day = row.day
         /\ \A b \in Actions : Ledger!Rebase(row, a).times[b] =
              IF b = a /\ Ledger!Concerned(row, a) THEN row.times[b] + 1 ELSE row.times[b]
<1> DEFINE n == (2 * row.qty * Den(a) + Num(a)) \div (2 * Num(a))
<1>1. row.qty \in Nat /\ Num(a) \in Nat /\ Num(a) > 0 /\ Den(a) \in Nat /\ row.times \in [Actions -> Nat]
  BY DEF ActionsAssumption, Ledger!Rows
<1>2. n \in Int
  <2>1. 2 * row.qty * Den(a) \in Nat
    BY <1>1
  <2>2. 2 * row.qty * Den(a) + Num(a) \in Nat /\ 2 * Num(a) \in Nat /\ 2 * Num(a) > 0
    BY <1>1, <2>1
  <2> QED
    BY <2>2
<1>3. Ledger!Rebased(row.qty, a) \in Nat
  <2> HIDE DEF n
  <2>1. Ledger!Rebased(row.qty, a) = IF n < 1 THEN 1 ELSE n
    BY DEF Ledger!Rebased, n
  <2> QED
    BY <1>2, <2>1
<1>4. CASE Ledger!Concerned(row, a)
  <2> DEFINE q == Ledger!Rebased(row.qty, a)
             t == [row.times EXCEPT ![a] = @ + 1]
  <2>1. Ledger!Rebase(row, a) = [row EXCEPT !.qty = q, !.times = t]
    BY <1>4 DEF Ledger!Rebase, Ledger!Rows
  <2>2. t \in [Actions -> Nat] /\ \A b \in Actions : t[b] = IF b = a THEN row.times[b] + 1 ELSE row.times[b]
    BY <1>1
  <2> HIDE DEF q, t
  <2>3. q \in Nat
    BY <1>3 DEF q
  <2> QED
    BY <1>4, <2>1, <2>2, <2>3 DEF Ledger!Rows
<1>5. CASE ~Ledger!Concerned(row, a)
  BY <1>5 DEF Ledger!Rebase
<1> QED
  BY <1>4, <1>5

\* A reading goes on without writing anything.
LEMMA ReadingTurns ==
  ASSUME LedgerInv, NEW r \in Readers, NEW u \in ReaderType,
         reader' = [reader EXCEPT ![r] = u], UNCHANGED <<day, lots, table, flags>>,
         listed' \in (SUBSET table) \cup {None}, fails' \in 0..MaxFails, disturbed' \in BOOLEAN,
         u.todo \subseteq table, u.day \in 0..day, u.at # "mark",
         u.at \in {"check", "update", "mark"} <=> u.todo # {},
         ~disturbed' =>
           /\ ~disturbed /\ reader[r].at # "mark"
           /\ u.at # "idle" /\ reader[r].at = "idle" => \A q \in Readers : reader[q].at = "idle"
           /\ u.at = "update" => flags[Ledger!First(u.todo)] = None
  PROVE  LedgerInv'
<1>1. reader \in [Readers -> ReaderType]
  BY DEF LedgerInv
<1>2. reader' \in [Readers -> ReaderType] /\ \A q \in Readers : reader'[q] = IF q = r THEN u ELSE reader[q]
  BY <1>1
<1>3. Ledger!TypeOK'
  <2>1. \A q \in Readers :
          /\ reader'[q].at \in {"idle", "list", "actions", "check", "update", "mark"}
          /\ reader'[q].todo \subseteq table /\ reader'[q].day \in 0..day
          /\ reader'[q].at \in {"check", "update", "mark"} <=> reader'[q].todo # {}
    <3> TAKE q \in Readers
    <3>1. CASE q = r
      BY <1>2, <3>1 DEF ReaderType
    <3>2. CASE q # r
      BY <1>2, <3>2 DEF LedgerInv, Ledger!TypeOK
    <3> QED
      BY <3>1, <3>2
  <2>2. /\ day \in Ledger!Days /\ lots \in Seq(Ledger!Rows) /\ Len(lots) <= MaxRows
        /\ table \subseteq Actions /\ flags \in [Actions -> Ledger!Days \cup {None}]
    BY DEF LedgerInv, Ledger!TypeOK
  <2>3. UNCHANGED <<Ledger!Days, Ledger!Rows>>
    BY DEF Ledger!Days, Ledger!Rows
  <2> QED
    BY <2>1, <2>2, <2>3, Zenon DEF Ledger!TypeOK
<1>4. ASSUME ~disturbed' PROVE Undisturbed'
  <2>0. Undisturbed
    BY <1>4 DEF LedgerInv
  <2>1. \A p, q \in Readers : reader'[p].at # "idle" /\ reader'[q].at # "idle" => p = q
    BY <1>2, <1>4, <2>0 DEF Undisturbed
  <2>2. \A q \in Readers : reader'[q].at = "update" => flags'[At(q)'] = None
    BY <1>2, <1>4, <2>0 DEF Undisturbed, At
  <2>3. \A i \in DOMAIN lots', a \in Actions :
          /\ lots'[i].times[a] <= 1
          /\ lots'[i].times[a] = 1 =>
               Ledger!Applied(a)' \/ \E q \in Readers : reader'[q].at = "mark" /\ At(q)' = a
    <3> SUFFICES ASSUME NEW i \in DOMAIN lots, NEW a \in Actions
                 PROVE  /\ lots[i].times[a] <= 1
                        /\ lots[i].times[a] = 1 =>
                             Ledger!Applied(a) \/ \E q \in Readers : reader'[q].at = "mark" /\ At(q)' = a
      BY DEF Ledger!Applied
    <3>1. ASSUME NEW q \in Readers, reader[q].at = "mark", At(q) = a
          PROVE  reader'[q].at = "mark" /\ At(q)' = a
      BY <1>2, <1>4, <3>1 DEF At
    <3> QED
      BY <2>0, <3>1 DEF Undisturbed
  <2> QED
    BY <2>1, <2>2, <2>3 DEF Undisturbed
<1>5. \A q \in Readers : Covered(q)'
  <2> TAKE q \in Readers
  <2>1. Covered(q)
    BY DEF LedgerInv
  <2> QED
    BY <1>2, <2>1 DEF Covered, At, Ledger!Concerned
<1>6. Ledger!MarkedIsDone'
  BY DEF LedgerInv, Ledger!MarkedIsDone, Ledger!Applied, Ledger!Concerned
<1> QED
  BY <1>2, <1>3, <1>4, <1>5, <1>6 DEF LedgerInv

\* Time, the loader and the listed leave lots, marks and readings alone.
LEMMA WorldMoves ==
  ASSUME ActionsAssumption, LedgerInv,
         \/ Ledger!NextDay \/ Ledger!Expire \/ (\E a \in Actions : Ledger!Load(a))
         \/ UNCHANGED Ledger!vars
  PROVE  LedgerInv'
<1>1. /\ UNCHANGED <<lots, flags, reader, fails, disturbed>>
      /\ day' \in Nat /\ day <= day' /\ day' \in Ledger!Days
      /\ table \subseteq table' /\ table' \subseteq Actions
      /\ listed' \in (SUBSET table') \cup {None}
  BY DEF Ledger!NextDay, Ledger!Expire, Ledger!Load, Ledger!vars, LedgerInv, Ledger!TypeOK, Ledger!Days,
         ActionsAssumption
<1>2. Ledger!TypeOK'
  <2>1. \A q \in Readers :
          /\ reader'[q].at \in {"idle", "list", "actions", "check", "update", "mark"}
          /\ reader'[q].todo \subseteq table' /\ reader'[q].day \in 0..day'
          /\ reader'[q].at \in {"check", "update", "mark"} <=> reader'[q].todo # {}
    <3> TAKE q \in Readers
    <3>1. reader'[q] = reader[q] /\ day \in Int /\ reader[q].day \in 0..day
      BY <1>1 DEF LedgerInv, Ledger!TypeOK, Ledger!Days, ActionsAssumption
    <3>2. reader'[q].day \in 0..day'
      BY <1>1, <3>1
    <3> QED
      BY <1>1, <3>1, <3>2 DEF LedgerInv, Ledger!TypeOK
  <2>2. /\ lots' \in Seq(Ledger!Rows) /\ Len(lots') <= MaxRows
        /\ flags' \in [Actions -> Ledger!Days \cup {None}] /\ fails' \in 0..MaxFails
    BY <1>1 DEF LedgerInv, Ledger!TypeOK
  <2>3. disturbed' \in BOOLEAN
    BY <1>1 DEF LedgerInv, Ledger!TypeOK
  <2>4. UNCHANGED <<Ledger!Days, Ledger!Rows>>
    BY DEF Ledger!Days, Ledger!Rows
  <2> QED
    BY <1>1, <2>1, <2>2, <2>3, <2>4, Zenon DEF Ledger!TypeOK
<1>3. \A a \in Actions : flags'[a] # None => flags'[a] <= day'
  <2> SUFFICES ASSUME NEW a \in Actions, flags[a] # None PROVE flags[a] <= day'
    BY <1>1
  <2>1. flags[a] <= day /\ flags[a] \in Int /\ day \in Int
    BY DEF LedgerInv, Ledger!TypeOK, Ledger!Days, ActionsAssumption
  <2> QED
    BY <1>1, <2>1
<1>4. ~disturbed' => Undisturbed'
  BY <1>1 DEF LedgerInv, Undisturbed, At, Ledger!Applied
<1>5. Ledger!MarkedIsDone' /\ \A r \in Readers : Covered(r)'
  BY <1>1 DEF LedgerInv, Ledger!MarkedIsDone, Covered, At, Ledger!Applied, Ledger!Concerned
<1> QED
  BY <1>1, <1>2, <1>3, <1>4, <1>5 DEF LedgerInv

\* A trade comes after every update so far, and no action was applied to it.
LEMMA TradeIsLater ==
  ASSUME ActionsAssumption, LedgerInv, NEW side \in {"BUY", "SELL"}, NEW q \in Qtys, Ledger!Trade(side, q)
  PROVE  LedgerInv'
<1> DEFINE row == [action |-> side, qty |-> q, first |-> q, day |-> day, times |-> [a \in Actions |-> 0]]
<1>1. /\ lots' = Append(lots, row) /\ Len(lots) < MaxRows
      /\ UNCHANGED <<day, table, listed, flags, reader, fails, disturbed>>
  BY DEF Ledger!Trade
<1>2. row \in Ledger!Rows
  BY DEF ActionsAssumption, Ledger!Rows, LedgerInv, Ledger!TypeOK
<1>3. lots \in Seq(Ledger!Rows) /\ Len(lots) \in Nat
  BY LenProperties DEF LedgerInv, Ledger!TypeOK
<1>4. /\ lots' \in Seq(Ledger!Rows) /\ Len(lots') = Len(lots) + 1
      /\ DOMAIN lots' = 1..Len(lots) + 1 /\ DOMAIN lots = 1..Len(lots)
      /\ \A i \in DOMAIN lots : lots'[i] = lots[i]
      /\ lots'[Len(lots) + 1] = row
  <2> HIDE DEF row
  <2> QED
    BY <1>1, <1>2, <1>3, AppendProperties, LenProperties
<1>5. \A i \in DOMAIN lots' :
        \/ i \in DOMAIN lots /\ lots'[i] = lots[i]
        \/ lots'[i].day = day /\ \A a \in Actions : lots'[i].times[a] = 0
  BY <1>3, <1>4
<1>6. Ledger!TypeOK'
  <2>1. UNCHANGED <<Ledger!Days, Ledger!Rows>>
    BY DEF Ledger!Days, Ledger!Rows
  <2>2. Len(lots') <= MaxRows
    BY <1>1, <1>3, <1>4 DEF ActionsAssumption
  <2>3. \A r \in Readers :
          /\ reader'[r].at \in {"idle", "list", "actions", "check", "update", "mark"}
          /\ reader'[r].todo \subseteq table' /\ reader'[r].day \in 0..day'
          /\ reader'[r].at \in {"check", "update", "mark"} <=> reader'[r].todo # {}
    BY <1>1 DEF LedgerInv, Ledger!TypeOK
  <2>4. /\ day' \in Ledger!Days /\ fails' \in 0..MaxFails /\ table' \subseteq Actions
        /\ listed' \in (SUBSET table') \cup {None} /\ flags' \in [Actions -> Ledger!Days \cup {None}]
    BY <1>1 DEF LedgerInv, Ledger!TypeOK
  <2>5. disturbed' \in BOOLEAN
    BY <1>1 DEF LedgerInv, Ledger!TypeOK
  <2> QED
    BY <1>4, <2>1, <2>2, <2>3, <2>4, <2>5, Zenon DEF Ledger!TypeOK
<1>7. day \in Nat /\ \A a \in Actions : flags[a] # None => flags[a] \in Nat /\ flags[a] <= day
  BY DEF LedgerInv, Ledger!TypeOK, Ledger!Days, ActionsAssumption
<1>8. Ledger!MarkedIsDone'
  <2> SUFFICES ASSUME NEW a \in Actions, NEW i \in DOMAIN lots',
                      flags[a] # None, Ledger!Concerned(lots'[i], a), lots'[i].day < flags[a]
               PROVE  lots'[i].times[a] > 0
    BY <1>1 DEF Ledger!MarkedIsDone, Ledger!Applied, Ledger!Concerned
  <2>1. i \in DOMAIN lots /\ lots'[i] = lots[i]
    BY <1>5, <1>7
  <2> QED
    BY <2>1 DEF LedgerInv, Ledger!MarkedIsDone, Ledger!Applied
<1>9. \A r \in Readers : Covered(r)'
  <2> SUFFICES ASSUME NEW r \in Readers, reader[r].at = "mark", NEW i \in DOMAIN lots',
                      Ledger!Concerned(lots'[i], At(r)), lots'[i].day < reader[r].day
               PROVE  lots'[i].times[At(r)] > 0
    BY <1>1 DEF Covered, At, Ledger!Concerned
  <2>1. reader[r].day \in 0..day
    BY DEF LedgerInv, Ledger!TypeOK
  <2>2. i \in DOMAIN lots /\ lots'[i] = lots[i]
    BY <1>5, <1>7, <2>1
  <2>3. Covered(r)
    BY DEF LedgerInv
  <2> QED
    BY <2>2, <2>3 DEF Covered
<1>10. ~disturbed' => Undisturbed'
  <2> SUFFICES ASSUME ~disturbed, Undisturbed PROVE Undisturbed'
    BY <1>1 DEF LedgerInv
  <2>1. \A i \in DOMAIN lots', a \in Actions :
          /\ lots'[i].times[a] <= 1
          /\ lots'[i].times[a] = 1 =>
               Ledger!Applied(a) \/ \E r \in Readers : reader[r].at = "mark" /\ At(r) = a
    BY <1>5 DEF Undisturbed
  <2> QED
    BY <1>1, <2>1 DEF Undisturbed, At, Ledger!Applied
<1> QED
  BY <1>1, <1>6, <1>8, <1>9, <1>10 DEF LedgerInv

\* The UPDATE of all lots of the symbol before the ex-date.
LEMMA UpdateRebases ==
  ASSUME ActionsAssumption, LedgerInv, NEW r \in Readers, Ledger!Update(r)
  PROVE  LedgerInv'
<1> DEFINE a == At(r)
<1>0. /\ reader \in [Readers -> ReaderType] /\ reader[r].at = "update" /\ day \in Nat
      /\ lots \in Seq(Ledger!Rows) /\ Len(lots) \in Nat /\ DOMAIN lots = 1..Len(lots)
      /\ \A i \in DOMAIN lots : lots[i] \in Ledger!Rows
  BY LenProperties, ElementOfSeq DEF Ledger!Update, LedgerInv, Ledger!TypeOK, Ledger!Days, ActionsAssumption
<1>1. reader[r].todo # {} /\ reader[r].todo \subseteq table /\ a \in Actions
  <2>1. reader[r].todo # {} /\ reader[r].todo \subseteq table /\ reader[r].todo \subseteq Actions
    BY <1>0 DEF LedgerInv, Ledger!TypeOK, ReaderType
  <2> QED
    BY <2>1, FirstAction DEF At
<1>2. /\ lots' = [i \in DOMAIN lots |-> Ledger!Rebase(lots[i], a)]
      /\ UNCHANGED <<day, table, listed, flags, fails, disturbed>>
      /\ reader' = [reader EXCEPT ![r] = IF Ledger!Touched(a)
                                          THEN [reader[r] EXCEPT !.at = "mark", !.day = day]
                                          ELSE Ledger!Rest(r)]
  BY <1>0 DEF Ledger!Update, At
<1> HIDE DEF a
<1>3. /\ DOMAIN lots' = DOMAIN lots
      /\ \A i \in DOMAIN lots :
           /\ lots'[i] \in Ledger!Rows /\ lots'[i].action = lots[i].action /\ lots'[i].day = lots[i].day
           /\ \A b \in Actions : lots'[i].times[b] =
                IF b = a /\ Ledger!Concerned(lots[i], a) THEN lots[i].times[b] + 1 ELSE lots[i].times[b]
  BY <1>0, <1>1, <1>2, RowRebases
<1>4. lots' \in Seq(Ledger!Rows) /\ Len(lots') = Len(lots)
  BY <1>0, <1>2, <1>3
<1>5. CASE Ledger!Touched(a)
  <2> DEFINE u == [reader[r] EXCEPT !.at = "mark", !.day = day]
  <2>1. /\ u \in ReaderType /\ u.at = "mark" /\ u.day = day /\ u.todo = reader[r].todo
        /\ reader' = [reader EXCEPT ![r] = u]
    BY <1>0, <1>2, <1>5 DEF ReaderType
  <2> HIDE DEF u
  <2>2. reader' \in [Readers -> ReaderType] /\ \A q \in Readers : reader'[q] = IF q = r THEN u ELSE reader[q]
    BY <1>0, <2>1
  <2>3. Ledger!TypeOK'
    <3>1. UNCHANGED <<Ledger!Days, Ledger!Rows>>
      BY DEF Ledger!Days, Ledger!Rows
    <3>2. \A q \in Readers :
            /\ reader'[q].at \in {"idle", "list", "actions", "check", "update", "mark"}
            /\ reader'[q].todo \subseteq table' /\ reader'[q].day \in 0..day'
            /\ reader'[q].at \in {"check", "update", "mark"} <=> reader'[q].todo # {}
      <4> TAKE q \in Readers
      <4>1. CASE q = r
        BY <1>0, <1>1, <1>2, <2>1, <2>2, <4>1
      <4>2. CASE q # r
        BY <1>2, <2>2, <4>2 DEF LedgerInv, Ledger!TypeOK
      <4> QED
        BY <4>1, <4>2
    <3>3. /\ day' \in Ledger!Days /\ fails' \in 0..MaxFails /\ table' \subseteq Actions
          /\ Len(lots') <= MaxRows
          /\ listed' \in (SUBSET table') \cup {None} /\ flags' \in [Actions -> Ledger!Days \cup {None}]
      BY <1>2, <1>4 DEF LedgerInv, Ledger!TypeOK
    <3>4. disturbed' \in BOOLEAN
      BY <1>2 DEF LedgerInv, Ledger!TypeOK
    <3> QED
      BY <1>4, <3>1, <3>2, <3>3, <3>4, Zenon DEF Ledger!TypeOK
  <2>4. Ledger!MarkedIsDone'
    <3> SUFFICES ASSUME NEW b \in Actions, NEW i \in DOMAIN lots,
                        flags[b] # None, Ledger!Concerned(lots'[i], b), lots'[i].day < flags[b]
                 PROVE  lots'[i].times[b] > 0
      BY <1>2, <1>3 DEF Ledger!MarkedIsDone, Ledger!Applied, Ledger!Concerned
    <3>1. lots[i].times[b] > 0 /\ lots[i].times[b] \in Nat
      BY <1>0, <1>3 DEF LedgerInv, Ledger!MarkedIsDone, Ledger!Applied, Ledger!Concerned, Ledger!Rows
    <3> QED
      BY <1>3, <3>1
  <2>5. \A q \in Readers : Covered(q)'
    <3> SUFFICES ASSUME NEW q \in Readers, reader'[q].at = "mark", NEW i \in DOMAIN lots,
                        Ledger!Concerned(lots'[i], At(q)'), lots'[i].day < reader'[q].day
                 PROVE  lots'[i].times[At(q)'] > 0
      BY <1>3 DEF Covered, At, Ledger!Concerned
    <3>1. CASE q = r
      <4>1. At(q)' = a
        BY <2>1, <2>2, <3>1 DEF At, a
      <4>2. Ledger!Concerned(lots[i], a)
        BY <1>3, <4>1 DEF Ledger!Concerned
      <4>3. lots[i].times[a] \in Nat
        BY <1>0, <1>1 DEF Ledger!Rows
      <4> QED
        BY <1>1, <1>3, <4>1, <4>2, <4>3
    <3>2. CASE q # r
      <4>1. At(q)' = At(q) /\ reader'[q] = reader[q]
        BY <2>2, <3>2 DEF At
      <4>2. At(q) \in Actions
        <5>1. reader[q].todo # {} /\ reader[q].todo \subseteq Actions
          BY <1>0, <4>1 DEF LedgerInv, Ledger!TypeOK, ReaderType
        <5> QED
          BY <5>1, FirstAction DEF At
      <4>3. Covered(q)
        BY DEF LedgerInv
      <4>4. lots[i].times[At(q)] > 0 /\ lots[i].times[At(q)] \in Nat
        BY <1>0, <1>3, <4>1, <4>2, <4>3 DEF Covered, Ledger!Concerned, Ledger!Rows
      <4> QED
        BY <1>3, <4>1, <4>2, <4>4
    <3> QED
      BY <3>1, <3>2
  <2>6. ASSUME ~disturbed' PROVE Undisturbed'
    <3>0. Undisturbed
      BY <1>2, <2>6 DEF LedgerInv
    <3>1. \A p, q \in Readers : reader'[p].at # "idle" /\ reader'[q].at # "idle" => p = q
      BY <1>0, <2>1, <2>2, <3>0 DEF Undisturbed
    <3>2. \A q \in Readers : reader'[q].at # "update"
      BY <1>0, <2>1, <2>2, <3>0 DEF Undisturbed
    <3>3. flags[a] = None /\ \A q \in Readers : reader[q].at # "mark"
      BY <1>0, <3>0 DEF Undisturbed, a
    <3>4. \A i \in DOMAIN lots, b \in Actions :
            /\ lots'[i].times[b] <= 1
            /\ lots'[i].times[b] = 1 => Ledger!Applied(b) \/ b = a
      <4> TAKE i \in DOMAIN lots, b \in Actions
      <4>1. lots[i].times[b] \in Nat /\ lots[i].times[b] <= 1
        BY <1>0, <3>0 DEF Undisturbed, Ledger!Rows
      <4>2. lots[i].times[b] = 1 => Ledger!Applied(b)
        BY <3>0, <3>3 DEF Undisturbed
      <4>3. lots[i].times[a] \in Nat /\ lots[i].times[a] <= 1 /\ lots[i].times[a] # 1
        BY <1>0, <1>1, <3>0, <3>3 DEF Undisturbed, Ledger!Rows, Ledger!Applied
      <4> QED
        BY <1>3, <4>1, <4>2, <4>3
    <3>5. reader'[r].at = "mark" /\ At(r)' = a
      BY <2>1, <2>2 DEF At, a
    <3> QED
      BY <1>2, <1>3, <3>1, <3>2, <3>4, <3>5 DEF Undisturbed, Ledger!Applied
  <2> QED
    BY <1>2, <2>2, <2>3, <2>4, <2>5, <2>6 DEF LedgerInv
<1>6. CASE ~Ledger!Touched(a)
  <2>1. lots' = lots
    <3>1. \A i \in DOMAIN lots : Ledger!Rebase(lots[i], a) = lots[i]
      BY <1>6 DEF Ledger!Touched, Ledger!Rebase
    <3> QED
      BY <1>0, <1>2, <3>1
  <2> DEFINE u == Ledger!Rest(r)
  <2>2. /\ u \in ReaderType /\ u.todo \subseteq table /\ u.day = 0 /\ u.at \in {"idle", "check"}
        /\ u.at = "check" <=> u.todo # {}
    BY <1>1, RestOfReading
  <2>3. reader' = [reader EXCEPT ![r] = u]
    BY <1>2, <1>6
  <2> HIDE DEF u
  <2>4. listed' \in (SUBSET table) \cup {None} /\ fails' \in 0..MaxFails
    BY <1>2 DEF LedgerInv, Ledger!TypeOK
  <2>5. disturbed' \in BOOLEAN
    BY <1>2 DEF LedgerInv, Ledger!TypeOK
  <2>6. ~disturbed' => ~disturbed
    BY <1>2
  <2>7. /\ UNCHANGED <<day, lots, table, flags>>
        /\ u.day \in 0..day /\ u.at # "mark"
        /\ u.at \in {"check", "update", "mark"} <=> u.todo # {}
        /\ u.at # "update" /\ reader[r].at \notin {"mark", "idle"}
    BY <1>0, <1>2, <2>1, <2>2
  <2> QED
    BY <2>2, <2>3, <2>4, <2>5, <2>6, <2>7, ReadingTurns
<1> QED
  BY <1>5, <1>6

\* The mark that follows an update.
LEMMA MarkFollows ==
  ASSUME ActionsAssumption, LedgerInv, NEW r \in Readers, Ledger!Mark(r)
  PROVE  LedgerInv'
<1> DEFINE a == At(r)
           u == Ledger!Rest(r)
<1>0. /\ reader \in [Readers -> ReaderType] /\ reader[r].at = "mark"
      /\ day \in Nat /\ day \in Ledger!Days /\ reader[r].day \in 0..day /\ reader[r].day \in Ledger!Days
      /\ reader[r].day # None
      /\ flags \in [Actions -> Ledger!Days \cup {None}]
  BY DEF Ledger!Mark, LedgerInv, Ledger!TypeOK, Ledger!Days, ActionsAssumption
<1>1. reader[r].todo # {} /\ a \in Actions
  <2>1. reader[r].todo # {} /\ reader[r].todo \subseteq Actions
    BY <1>0 DEF LedgerInv, Ledger!TypeOK, ReaderType
  <2> QED
    BY <2>1, FirstAction DEF At
<1>2. /\ flags' = [flags EXCEPT ![a] = reader[r].day]
      /\ reader' = [reader EXCEPT ![r] = u]
      /\ UNCHANGED <<day, lots, table, listed, fails, disturbed>>
  BY DEF Ledger!Mark, Ledger!Marked, At
<1>3. /\ u \in ReaderType /\ u.todo \subseteq table /\ u.day = 0 /\ u.at \in {"idle", "check"}
      /\ u.at = "check" <=> u.todo # {}
  BY <1>1, RestOfReading
<1> HIDE DEF a, u
<1>4. reader' \in [Readers -> ReaderType] /\ \A q \in Readers : reader'[q] = IF q = r THEN u ELSE reader[q]
  BY <1>0, <1>2, <1>3
<1>5. /\ flags' \in [Actions -> Ledger!Days \cup {None}]
      /\ \A b \in Actions : flags'[b] = IF b = a THEN reader[r].day ELSE flags[b]
  BY <1>0, <1>1, <1>2
<1>6. Ledger!TypeOK'
  <2>1. UNCHANGED <<Ledger!Days, Ledger!Rows>>
    BY DEF Ledger!Days, Ledger!Rows
  <2>2. \A q \in Readers :
          /\ reader'[q].at \in {"idle", "list", "actions", "check", "update", "mark"}
          /\ reader'[q].todo \subseteq table' /\ reader'[q].day \in 0..day'
          /\ reader'[q].at \in {"check", "update", "mark"} <=> reader'[q].todo # {}
    <3> TAKE q \in Readers
    <3>1. CASE q = r
      BY <1>0, <1>2, <1>3, <1>4, <3>1
    <3>2. CASE q # r
      BY <1>2, <1>4, <3>2 DEF LedgerInv, Ledger!TypeOK
    <3> QED
      BY <3>1, <3>2
  <2>3. /\ day' \in Ledger!Days /\ fails' \in 0..MaxFails /\ table' \subseteq Actions
        /\ lots' \in Seq(Ledger!Rows) /\ Len(lots') <= MaxRows
        /\ listed' \in (SUBSET table') \cup {None}
    BY <1>2 DEF LedgerInv, Ledger!TypeOK
  <2>4. disturbed' \in BOOLEAN
    BY <1>2 DEF LedgerInv, Ledger!TypeOK
  <2> QED
    BY <1>5, <2>1, <2>2, <2>3, <2>4, Zenon DEF Ledger!TypeOK
<1>7. \A b \in Actions : flags'[b] # None => flags'[b] <= day'
  BY <1>0, <1>2, <1>5 DEF LedgerInv
<1>8. Ledger!MarkedIsDone'
  <2> SUFFICES ASSUME NEW b \in Actions, NEW i \in DOMAIN lots,
                      flags'[b] # None, Ledger!Concerned(lots[i], b), lots[i].day < flags'[b]
               PROVE  lots[i].times[b] > 0
    BY <1>2 DEF Ledger!MarkedIsDone, Ledger!Applied, Ledger!Concerned
  <2>1. Covered(r)
    BY DEF LedgerInv
  <2>2. CASE b = a
    BY <1>0, <1>5, <2>1, <2>2 DEF Covered, a
  <2>3. CASE b # a
    BY <1>5, <2>3 DEF LedgerInv, Ledger!MarkedIsDone, Ledger!Applied
  <2> QED
    BY <2>2, <2>3
<1>9. \A q \in Readers : Covered(q)'
  <2> TAKE q \in Readers
  <2>1. Covered(q)
    BY DEF LedgerInv
  <2> QED
    BY <1>2, <1>3, <1>4, <2>1 DEF Covered, At, Ledger!Concerned
<1>10. ASSUME ~disturbed' PROVE Undisturbed'
  <2>0. Undisturbed
    BY <1>2, <1>10 DEF LedgerInv
  <2>1. \A p, q \in Readers : reader'[p].at # "idle" /\ reader'[q].at # "idle" => p = q
    BY <1>0, <1>4, <2>0 DEF Undisturbed
  <2>2. \A q \in Readers : reader'[q].at # "update"
    BY <1>0, <1>3, <1>4, <2>0 DEF Undisturbed
  <2>3. \A i \in DOMAIN lots, b \in Actions :
          lots[i].times[b] <= 1 /\ (lots[i].times[b] = 1 => flags'[b] # None)
    <3> TAKE i \in DOMAIN lots, b \in Actions
    <3>1. lots[i].times[b] = 1 => flags[b] # None \/ b = a
      BY <1>0, <2>0 DEF Undisturbed, Ledger!Applied, a
    <3> QED
      BY <1>0, <1>5, <2>0, <3>1 DEF Undisturbed
  <2> QED
    BY <1>2, <2>1, <2>2, <2>3 DEF Undisturbed, Ledger!Applied
<1> QED
  BY <1>2, <1>4, <1>6, <1>7, <1>8, <1>9, <1>10 DEF LedgerInv

\* The steps of a reading that write nothing.
LEMMA ReadingMoves ==
  ASSUME ActionsAssumption, LedgerInv, NEW r \in Readers,
         \/ Ledger!Begin(r) \/ Ledger!List(r) \/ Ledger!GetActions(r) \/ Ledger!Check(r)
         \/ Ledger!CheckFails(r) \/ Ledger!UpdateFails(r) \/ Ledger!MarkFails(r)
  PROVE  LedgerInv'
<1>0. /\ reader \in [Readers -> ReaderType] /\ reader[r] \in ReaderType
      /\ day \in Nat /\ 0 \in 0..day /\ reader[r].day \in 0..day
      /\ reader[r].todo \subseteq table /\ table \subseteq Actions
      /\ reader[r].at \in {"check", "update", "mark"} <=> reader[r].todo # {}
      /\ listed \in (SUBSET table) \cup {None} /\ fails \in 0..MaxFails
  BY DEF LedgerInv, Ledger!TypeOK, Ledger!Days, ActionsAssumption
<1>1. UNCHANGED <<day, lots, table, flags>> /\ fails' \in 0..MaxFails /\ listed' \in (SUBSET table) \cup {None}
  BY <1>0 DEF Ledger!Begin, Ledger!List, Ledger!GetActions, Ledger!Check, Ledger!CheckFails,
              Ledger!UpdateFails, Ledger!MarkFails, ActionsAssumption
<1>2. disturbed' \in BOOLEAN /\ (~disturbed' => ~disturbed)
  <2>1. disturbed \in BOOLEAN
    BY DEF LedgerInv, Ledger!TypeOK
  <2>2. CASE Ledger!Begin(r)
    BY <2>1, <2>2, Zenon DEF Ledger!Begin
  <2>3. CASE Ledger!CheckFails(r) \/ Ledger!MarkFails(r)
    <3>1. disturbed' = TRUE
      BY <2>3 DEF Ledger!CheckFails, Ledger!MarkFails
    <3> QED
      BY <3>1, Zenon
  <2>4. CASE Ledger!List(r) \/ Ledger!GetActions(r) \/ Ledger!Check(r) \/ Ledger!UpdateFails(r)
    <3>1. disturbed' = disturbed
      BY <2>4 DEF Ledger!List, Ledger!GetActions, Ledger!Check, Ledger!UpdateFails
    <3> QED
      BY <2>1, <3>1, Zenon
  <2> QED
    BY <2>2, <2>3, <2>4
\* A step that only goes to another place.
<1>3. ASSUME NEW at \in {"idle", "list", "actions", "update"}, reader' = [reader EXCEPT ![r].at = at],
             at = "update" <=> reader[r].todo # {},
             ~disturbed' => /\ reader[r].at # "mark" /\ at # "update"
                            /\ reader[r].at = "idle" => \A q \in Readers : reader[q].at = "idle"
      PROVE  LedgerInv'
  <2> DEFINE u == [reader[r] EXCEPT !.at = at]
  <2>1. /\ u \in ReaderType /\ u.at = at /\ u.todo = reader[r].todo /\ u.day = reader[r].day
        /\ reader' = [reader EXCEPT ![r] = u]
    BY <1>0, <1>3 DEF ReaderType
  <2> HIDE DEF u
  <2>2. /\ u.todo \subseteq table /\ u.day \in 0..day /\ u.at # "mark"
        /\ u.at \in {"check", "update", "mark"} <=> u.todo # {}
    BY <1>0, <1>3, <2>1
  <2>3. ~disturbed' =>
           /\ ~disturbed /\ reader[r].at # "mark"
           /\ u.at # "idle" /\ reader[r].at = "idle" => \A q \in Readers : reader[q].at = "idle"
           /\ u.at = "update" => flags[Ledger!First(u.todo)] = None
    BY <1>2, <1>3, <2>1
  <2> QED
    BY <1>1, <1>2, <2>1, <2>2, <2>3, ReadingTurns
\* A step to the next action or to the end.
<1>4. ASSUME reader' = [reader EXCEPT ![r] = Ledger!Rest(r)], reader[r].todo # {}, reader[r].at # "idle",
             ~disturbed' => reader[r].at # "mark"
      PROVE  LedgerInv'
  <2> DEFINE u == Ledger!Rest(r)
  <2>1. /\ u \in ReaderType /\ u.todo \subseteq table /\ u.day = 0 /\ u.at \in {"idle", "check"}
        /\ u.at = "check" <=> u.todo # {}
    BY <1>4, RestOfReading
  <2>2. reader' = [reader EXCEPT ![r] = u]
    BY <1>4
  <2> HIDE DEF u
  <2>3. /\ u.day \in 0..day /\ u.at # "mark" /\ u.at # "update"
        /\ u.at \in {"check", "update", "mark"} <=> u.todo # {}
    BY <1>0, <2>1
  <2>4. ~disturbed' =>
           /\ ~disturbed /\ reader[r].at # "mark"
           /\ u.at # "idle" /\ reader[r].at = "idle" => \A q \in Readers : reader[q].at = "idle"
           /\ u.at = "update" => flags[Ledger!First(u.todo)] = None
    BY <1>2, <1>4, <2>3
  <2> QED
    BY <1>1, <1>2, <2>1, <2>2, <2>3, <2>4, ReadingTurns
<1>5. CASE Ledger!Begin(r)
  <2>1. reader[r].at = "idle" /\ reader' = [reader EXCEPT ![r].at = "list"] /\ reader[r].todo = {}
    BY <1>0, <1>5 DEF Ledger!Begin, Ledger!Goto
  <2>2. ~disturbed' => \A q \in Readers : reader[q].at = "idle"
    BY <1>5, Zenon DEF Ledger!Begin
  <2> QED
    BY <1>3, <2>1, <2>2
<1>6. CASE Ledger!List(r)
  <2>1. PICK at \in {"actions", "idle"} : reader' = [reader EXCEPT ![r].at = at]
    BY <1>6 DEF Ledger!List, Ledger!Goto
  <2>2. reader[r].at = "list" /\ reader[r].todo = {}
    BY <1>0, <1>6 DEF Ledger!List
  <2> QED
    BY <1>3, <2>1, <2>2
<1>7. CASE Ledger!GetActions(r)
  <2> DEFINE found == IF listed # None THEN listed ELSE table
             at == IF found = {} THEN "idle" ELSE "check"
             u == [reader[r] EXCEPT !.at = at, !.todo = found]
  <2>1. found \subseteq table /\ found \subseteq Actions
    BY <1>0
  <2>2. /\ reader[r].at = "actions"
        /\ reader' = [reader EXCEPT ![r].at = at, ![r].todo = found]
    BY <1>7 DEF Ledger!GetActions
  <2>3. at \in {"idle", "check"} /\ (at = "check" <=> found # {})
    OBVIOUS
  <2> HIDE DEF found, at
  <2>4. /\ u \in ReaderType /\ u.at = at /\ u.todo = found /\ u.day = reader[r].day
        /\ reader' = [reader EXCEPT ![r] = u]
    BY <1>0, <2>1, <2>2, <2>3 DEF ReaderType
  <2> HIDE DEF u
  <2>5. /\ u.todo \subseteq table /\ u.day \in 0..day /\ u.at # "mark"
        /\ u.at \in {"check", "update", "mark"} <=> u.todo # {}
    BY <1>0, <2>1, <2>3, <2>4
  <2>6. ~disturbed' =>
           /\ ~disturbed /\ reader[r].at # "mark"
           /\ u.at # "idle" /\ reader[r].at = "idle" => \A q \in Readers : reader[q].at = "idle"
           /\ u.at = "update" => flags[Ledger!First(u.todo)] = None
    BY <1>2, <2>2, <2>3, <2>4
  <2> QED
    BY <1>1, <1>2, <2>4, <2>5, <2>6, ReadingTurns
<1>8. CASE Ledger!Check(r)
  <2>1. reader[r].at = "check" /\ reader[r].todo # {}
    BY <1>0, <1>8 DEF Ledger!Check
  <2>2. CASE Ledger!Applied(At(r))
    <3>1. reader' = [reader EXCEPT ![r] = Ledger!Rest(r)]
      BY <1>8, <2>2 DEF Ledger!Check, At
    <3> QED
      BY <1>4, <2>1, <3>1
  <2>3. CASE ~Ledger!Applied(At(r))
    <3> DEFINE u == [reader[r] EXCEPT !.at = "update"]
    <3>1. /\ u \in ReaderType /\ u.at = "update" /\ u.todo = reader[r].todo /\ u.day = reader[r].day
          /\ reader' = [reader EXCEPT ![r] = u]
      BY <1>0, <1>8, <2>3 DEF ReaderType, Ledger!Check, At
    <3> HIDE DEF u
    <3>2. /\ u.todo \subseteq table /\ u.day \in 0..day /\ u.at # "mark"
          /\ u.at \in {"check", "update", "mark"} <=> u.todo # {}
      BY <1>0, <2>1, <3>1
    <3>3. flags[Ledger!First(u.todo)] = None
      BY <2>3, <3>1 DEF Ledger!Applied, At
    <3>4. ~disturbed' =>
           /\ ~disturbed /\ reader[r].at # "mark"
           /\ u.at # "idle" /\ reader[r].at = "idle" => \A q \in Readers : reader[q].at = "idle"
           /\ u.at = "update" => flags[Ledger!First(u.todo)] = None
      BY <1>2, <2>1, <3>3
    <3> QED
      BY <1>1, <1>2, <3>1, <3>2, <3>4, ReadingTurns
  <2> QED
    BY <2>2, <2>3
<1>9. CASE Ledger!CheckFails(r)
  <2>1. /\ reader[r].at = "check" /\ reader[r].todo # {} /\ disturbed' = TRUE
        /\ reader' = [reader EXCEPT ![r].at = "update"]
    BY <1>0, <1>9 DEF Ledger!CheckFails, Ledger!Goto
  <2> QED
    BY <1>3, <2>1
<1>10. CASE Ledger!UpdateFails(r) \/ Ledger!MarkFails(r)
  <2>1. /\ reader[r].at \in {"update", "mark"} /\ reader' = [reader EXCEPT ![r] = Ledger!Rest(r)]
        /\ reader[r].at = "mark" => disturbed' = TRUE
    BY <1>10 DEF Ledger!UpdateFails, Ledger!MarkFails
  <2>2. reader[r].todo # {}
    BY <1>0, <2>1
  <2> QED
    BY <1>4, <2>1, <2>2
<1> QED
  BY <1>5, <1>6, <1>7, <1>8, <1>9, <1>10

LEMMA LedgerHolds == ASSUME ActionsAssumption PROVE Ledger!Spec => []LedgerInv
<1>1. Ledger!Init => LedgerInv
  <2> SUFFICES ASSUME Ledger!Init PROVE LedgerInv
    OBVIOUS
  <2>1. /\ day = 0 /\ lots = <<>> /\ table = {} /\ listed = None /\ fails = 0
        /\ flags = [a \in Actions |-> None] /\ reader = [r \in Readers |-> Ledger!Idle]
        /\ disturbed = FALSE
    BY DEF Ledger!Init
  <2>2. /\ Ledger!Idle \in ReaderType /\ Ledger!Idle.at = "idle" /\ Ledger!Idle.todo = {}
        /\ Ledger!Idle.day = 0
    BY DEF Ledger!Idle, ReaderType
  <2>3. lots \in Seq(Ledger!Rows) /\ Len(lots) = 0 /\ DOMAIN lots = {}
    BY <2>1
  <2>4. Ledger!TypeOK
    <3>1. \A r \in Readers :
            /\ reader[r].at \in {"idle", "list", "actions", "check", "update", "mark"}
            /\ reader[r].todo \subseteq table /\ reader[r].day \in 0..day
            /\ reader[r].at \in {"check", "update", "mark"} <=> reader[r].todo # {}
      BY <2>1, <2>2
    <3>2. /\ day \in Ledger!Days /\ fails \in 0..MaxFails /\ table \subseteq Actions
          /\ Len(lots) <= MaxRows /\ listed \in (SUBSET table) \cup {None}
          /\ flags \in [Actions -> Ledger!Days \cup {None}]
      BY <2>1, <2>3 DEF Ledger!Days, ActionsAssumption
    <3>3. disturbed \in BOOLEAN
      BY <2>1
    <3> QED
      BY <2>3, <3>1, <3>2, <3>3, Zenon DEF Ledger!TypeOK
  <2>5. Undisturbed /\ Ledger!MarkedIsDone /\ \A r \in Readers : Covered(r)
    BY <2>1, <2>2, <2>3 DEF Undisturbed, Ledger!MarkedIsDone, Covered
  <2>6. \A a \in Actions : flags[a] = None
    BY <2>1
  <2> QED
    BY <2>1, <2>2, <2>4, <2>5, <2>6 DEF LedgerInv
<1>2. LedgerInv /\ [Ledger!Next]_(Ledger!vars) => LedgerInv'
  <2> SUFFICES ASSUME LedgerInv, [Ledger!Next]_(Ledger!vars) PROVE LedgerInv'
    OBVIOUS
  <2> QED
    BY WorldMoves, TradeIsLater, UpdateRebases, MarkFollows, ReadingMoves DEF Ledger!Next, Ledger!Step
<1> QED
  BY <1>1, <1>2, PTL DEF Ledger!Spec

\* An action re-bases a purchase once, unless readings of the portfolio met or a query of the flags
\* failed (corpActionAdjuster.js adjustSymbol, _alreadyApplied).
THEOREM AppliedOnceOnly == ASSUME ActionsAssumption PROVE Ledger!Spec => []Ledger!AppliedOnce
<1>1. LedgerInv => Ledger!AppliedOnce
  BY DEF LedgerInv, Undisturbed, Ledger!AppliedOnce
<1> QED
  BY <1>1, LedgerHolds, PTL

\* A mark hides no purchase, whatever readings meet and queries fail: every one before the ex-date and
\* the day of the mark has been re-based (corpActionAdjuster.js adjustSymbol).
THEOREM MarksHideNothing == ASSUME ActionsAssumption PROVE Ledger!Spec => []Ledger!MarkedIsDone
<1>1. LedgerInv => Ledger!MarkedIsDone
  BY DEF LedgerInv
<1> QED
  BY <1>1, LedgerHolds, PTL

-----------------------------------------------------------------------------
(* BrokerSocket                                                            *)

SocketType == [phase : {"none", "connecting", "open"}, attached : BOOLEAN]

\* Handlers are taken off a socket only together with the socket itself, and every timeout that
\* was lost sight of stands for a break.
LinkInv ==
  /\ socket \in [Sockets -> SocketType]
  /\ ws \in Sockets \cup {None}
  /\ \A k \in Sockets : socket[k].phase \in {"connecting", "open"} => socket[k].attached
  /\ Link!StatusTruthful

LEMMA LinkStep ==
  ASSUME LinkInv, [Link!Next]_(Link!vars)
  PROVE  LinkInv'
<1>0. socket \in [Sockets -> SocketType] /\ ws \in Sockets \cup {None}
  BY DEF LinkInv
<1>1. ASSUME UNCHANGED <<ws, socket, connected, ping>> PROVE LinkInv'
  BY <1>1 DEF LinkInv, Link!StatusTruthful, Link!Feeding, Link!IsOpen
<1>2. CASE UNCHANGED Link!vars \/ Link!AuthorizeFails \/ Link!TimerFires \/ Link!TokenGoes \/ Link!LinkOrPaste
  BY <1>1, <1>2 DEF Link!vars, Link!AuthorizeFails, Link!TimerFires, Link!TokenGoes, Link!LinkOrPaste
<1>3. CASE Link!Authorized
  <2>1. PICK k \in Sockets : /\ socket[k] = Link!Free /\ ws' = k
                             /\ socket' = [socket EXCEPT ![k] = [phase |-> "connecting", attached |-> TRUE]]
    BY <1>3 DEF Link!Authorized, Link!Unused
  <2>2. [phase |-> "connecting", attached |-> TRUE] \in SocketType
    BY DEF SocketType
  <2>3. socket' \in [Sockets -> SocketType] /\ ws' \in Sockets \cup {None}
    BY <1>0, <2>1, <2>2
  <2>4. \A j \in Sockets : socket'[j].phase \in {"connecting", "open"} => socket'[j].attached
    BY <1>0, <2>1 DEF LinkInv
  <2>5. Link!Feeding \subseteq Link!Feeding'
    BY <1>0, <2>1 DEF Link!Feeding, Link!IsOpen, Link!Free
  <2>6. connected' = connected /\ ping' = ping
    BY <1>3 DEF Link!Authorized
  <2> QED
    BY <2>3, <2>4, <2>5, <2>6 DEF LinkInv, Link!StatusTruthful
<1>4. ASSUME NEW k \in Sockets, Link!Opens(k) PROVE LinkInv'
  <2>1. /\ socket' = [socket EXCEPT ![k].phase = "open"] /\ socket[k].attached
        /\ connected' = TRUE /\ ping' = TRUE /\ ws' = ws
    BY <1>4 DEF LinkInv, Link!Opens
  <2>2. socket[k] \in SocketType /\ socket'[k] = [socket[k] EXCEPT !.phase = "open"]
    BY <1>0, <2>1
  <2>3. socket'[k].phase = "open" /\ socket'[k].attached /\ socket'[k] \in SocketType
    BY <2>1, <2>2 DEF SocketType
  <2>4. socket' \in [Sockets -> SocketType]
    BY <1>0, <2>1, <2>3
  <2>5. \A j \in Sockets : socket'[j].phase \in {"connecting", "open"} => socket'[j].attached
    BY <1>0, <2>1, <2>3 DEF LinkInv
  <2>6. k \in Link!Feeding'
    BY <2>3 DEF Link!Feeding, Link!IsOpen
  <2> QED
    BY <1>0, <2>1, <2>4, <2>5, <2>6 DEF LinkInv, Link!StatusTruthful
\* A socket is given up.
<1>5. ASSUME NEW T, T = socket \/ \E k \in Sockets : T = [socket EXCEPT ![k] = Link!Free],
             socket' = T, connected' = FALSE, ws' \in Sockets \cup {None}
      PROVE  LinkInv'
  <2>1. Link!Free \in SocketType /\ Link!Free.phase = "none"
    BY DEF SocketType, Link!Free
  <2>2. socket' \in [Sockets -> SocketType]
    BY <1>0, <1>5, <2>1
  <2>3. \A j \in Sockets : socket'[j].phase \in {"connecting", "open"} => socket'[j].attached
    BY <1>0, <1>5, <2>1 DEF LinkInv
  <2> QED
    BY <1>5, <2>2, <2>3 DEF LinkInv, Link!StatusTruthful
<1>6. ASSUME NEW k \in Sockets, Link!Closes(k) PROVE LinkInv'
  <2>1. /\ socket' = [socket EXCEPT ![k] = Link!Free] /\ connected' = FALSE
        /\ ws' \in Sockets \cup {None}
    BY <1>6, <1>0 DEF LinkInv, Link!Closes, Link!Down
  <2> QED
    BY <1>5, <2>1
<1>7. CASE Link!Disconnect \/ Link!BrokerReconnect
  <2>1. Link!DropSocket
    BY <1>7 DEF Link!Disconnect, Link!BrokerReconnect
  <2>2. connected' = FALSE /\ ws' = None
        /\ (socket' = socket \/ \E k \in Sockets : socket' = [socket EXCEPT ![k] = Link!Free])
    BY <1>0, <2>1 DEF Link!DropSocket
  <2> QED
    BY <1>5, <2>2
<1> QED
  BY <1>2, <1>3, <1>4, <1>6, <1>7 DEF Link!Next

\* "connected" keeps a second connect() out and is what the status shows: it is never set without
\* a socket that is open and whose prices are taken, however connects, breaks and disconnects
\* overlapped (upstoxWS.js, connect() and the handlers of open and close).
THEOREM StatusIsTrue == Link!Spec => []Link!StatusTruthful
<1>1. Link!Init => LinkInv
  <2> SUFFICES ASSUME Link!Init PROVE LinkInv
    OBVIOUS
  <2>1. Link!Free \in SocketType /\ Link!Free.phase = "none"
    BY DEF SocketType, Link!Free
  <2>2. socket = [k \in Sockets |-> Link!Free] /\ ws = None /\ connected = FALSE
    BY DEF Link!Init
  <2> QED
    BY <2>1, <2>2 DEF LinkInv, Link!StatusTruthful
<1>2. LinkInv /\ [Link!Next]_(Link!vars) => LinkInv'
  BY LinkStep
<1>3. LinkInv => Link!StatusTruthful
  BY DEF LinkInv
<1> QED
  BY <1>1, <1>2, <1>3, PTL DEF Link!Spec

-----------------------------------------------------------------------------
(* MarketData                                                              *)

Places == {"idle", "snapshot", "prime"} \cup Price!Providers

Record == [op : Ops \cup {None}, sym : Symbols \cup {None}, at : Places,
           cookie : {"none", "good", "old"}, late : BOOLEAN,
           got : {"nothing", "price", "stale", "unavailable"}]

\* A call is a record with a place; nothing else of it says which provider is asked.
PriceInv ==
  /\ call \in [Calls -> Record]
  /\ cookies \in {"none", "good", "old"}

\* Among usable providers there is a first one.
LEMMA FirstProvider ==
  ASSUME NEW Q \in SUBSET Price!Providers, Q # {}
  PROVE  (CHOOSE x \in Q : \A y \in Q : Price!Rank[x] <= Price!Rank[y]) \in Q
<1>1. Price!Rank["nse"] = 1 /\ Price!Rank["twelvedata"] = 2 /\ Price!Rank["finnhub"] = 3
  BY DEF Price!Rank
<1>2. \A y \in Q : y \in {"nse", "twelvedata", "finnhub"}
  BY DEF Price!Providers
<1>3. \E x \in Q : \A y \in Q : Price!Rank[x] <= Price!Rank[y]
  <2>1. CASE "nse" \in Q
    <3>1. \A y \in Q : Price!Rank["nse"] <= Price!Rank[y]
      BY <1>1, <1>2
    <3> QED
      BY <2>1, <3>1
  <2>2. CASE "nse" \notin Q /\ "twelvedata" \in Q
    <3>1. \A y \in Q : Price!Rank["twelvedata"] <= Price!Rank[y]
      BY <1>1, <1>2, <2>2
    <3> QED
      BY <2>2, <3>1
  <2>3. CASE "nse" \notin Q /\ "twelvedata" \notin Q
    <3>1. "finnhub" \in Q /\ \A y \in Q : y = "finnhub"
      BY <1>2, <2>3
    <3>2. \A y \in Q : Price!Rank["finnhub"] <= Price!Rank[y]
      BY <1>1, <3>1
    <3> QED
      BY <3>1, <3>2
  <2> QED
    BY <2>1, <2>2, <2>3
<1> QED
  BY <1>3, Zenon

\* A call that has the result u.
Spared(c, u) ==
  /\ call' = [call EXCEPT ![c] = u] /\ u \in Record
  /\ \A p \in Price!Providers : call[c].at # p /\ u.at = p /\ Price!IsOpen(p) => p = "nse" /\ call[c].at = "prime"

LEMMA Answers ==
  ASSUME NEW got \in {"nothing", "price", "stale", "unavailable"}
  PROVE  [Price!Idle EXCEPT !.got = got] \in Record /\ [Price!Idle EXCEPT !.got = got].at = "idle"
<1>1. FALSE \in BOOLEAN
  OBVIOUS
<1> QED
  BY <1>1 DEF Record, Places, Price!Idle

LEMMA GoesOn ==
  ASSUME PriceInv, NEW c \in Calls, NEW op \in Ops \cup {None}, NEW s \in Symbols \cup {None},
         NEW stage, NEW bs, NEW kept, Price!GoOn(c, op, s, stage, bs, kept)
  PROVE  \E u \in Record : Spared(c, u)
<1> DEFINE Q == Price!Later(op, stage)
           q == CHOOSE x \in Q : \A y \in Q : Price!Rank[x] <= Price!Rank[y]
           cookie == IF q = "nse" THEN cookies ELSE "none"
           Wait(at, k) == [Price!Idle EXCEPT !.op = op, !.sym = s, !.at = at, !.cookie = k]
<1>1. Q \subseteq Price!Providers /\ \A x \in Q : Price!Usable(x)
  BY DEF Price!Later, Price!Reach, Price!Providers
<1>2. Q # {} => q \in Price!Providers /\ ~Price!IsOpen(q)
  BY <1>1, FirstProvider DEF Price!Usable
<1>3. \/ call' = [call EXCEPT ![c] = [Price!Idle EXCEPT !.got = Price!GiveUp(s, kept)]]
      \/ Q # {} /\ call' = [call EXCEPT ![c] = Wait("prime", "none")]
      \/ Q # {} /\ call' = [call EXCEPT ![c] = Wait(q, cookie)]
  BY DEF Price!GoOn
<1>4. cookie \in {"none", "good", "old"}
  BY DEF PriceInv
<1> HIDE DEF Q, q, cookie
<1>5. CASE call' = [call EXCEPT ![c] = [Price!Idle EXCEPT !.got = Price!GiveUp(s, kept)]]
  <2>1. Price!GiveUp(s, kept) \in {"nothing", "price", "stale", "unavailable"}
    BY DEF Price!GiveUp
  <2> QED
    BY <1>5, <2>1, Answers DEF Spared, Price!Providers
<1>6. CASE Q # {} /\ call' = [call EXCEPT ![c] = Wait("prime", "none")]
  <2>1. "prime" \in Places /\ FALSE \in BOOLEAN
    BY DEF Places
  <2>2. Wait("prime", "none") \in Record /\ Wait("prime", "none").at = "prime"
    BY <2>1 DEF Record, Price!Idle
  <2> QED
    BY <1>6, <2>2 DEF Spared, Price!Providers
<1>7. CASE Q # {} /\ call' = [call EXCEPT ![c] = Wait(q, cookie)]
  <2>1. q \in Places /\ FALSE \in BOOLEAN
    BY <1>2, <1>7 DEF Places
  <2>2. Wait(q, cookie) \in Record /\ Wait(q, cookie).at = q
    BY <1>4, <2>1 DEF Record, Price!Idle
  <2> QED
    BY <1>2, <1>7, <2>2 DEF Spared
<1> QED
  BY <1>3, <1>5, <1>6, <1>7

LEMMA Succeeds ==
  ASSUME NEW c \in Calls, NEW op, NEW s, Price!Succeed(c, op, s)
  PROVE  \E u \in Record : Spared(c, u)
<1>1. call' = [call EXCEPT ![c] = [Price!Idle EXCEPT !.got = "price"]]
  BY DEF Price!Succeed, Price!Return
<1> QED
  BY <1>1, Answers DEF Spared, Price!Providers

LEMMA PriceStep ==
  ASSUME PriceInv, [Price!Next]_(Price!vars)
  PROVE  /\ PriceInv'
         /\ \A c \in Calls, p \in Price!Providers :
              call[c].at # p /\ call'[c].at = p /\ Price!IsOpen(p) => p = "nse" /\ call[c].at = "prime"
<1> DEFINE Goal == /\ PriceInv'
                   /\ \A c \in Calls, p \in Price!Providers :
                        call[c].at # p /\ call'[c].at = p /\ Price!IsOpen(p) => p = "nse" /\ call[c].at = "prime"
<1>0. call \in [Calls -> Record] /\ cookies \in {"none", "good", "old"}
  BY DEF PriceInv, Record
<1>1. ASSUME NEW c \in Calls, \E u \in Record : Spared(c, u), cookies' \in {"none", "good", "old"}
      PROVE  Goal
  <2>1. PICK u \in Record : Spared(c, u)
    BY <1>1
  <2>2. call' \in [Calls -> Record]
    BY <1>0, <2>1 DEF Spared
  <2>3. PriceInv'
    BY <1>1, <2>2 DEF PriceInv, Record
  <2>4. \A d \in Calls : call'[d] = IF d = c THEN u ELSE call[d]
    BY <1>0, <2>1 DEF Spared
  <2> QED
    BY <2>1, <2>3, <2>4 DEF Spared
<1>2. ASSUME call' = call, cookies' \in {"none", "good", "old"} PROVE Goal
  BY <1>0, <1>2 DEF PriceInv, Record
<1>3. ASSUME NEW c \in Calls, Price!Start(c) PROVE Goal
  <2>1. cookies' = cookies
    BY <1>3 DEF Price!Start
  <2>2. PICK op \in Ops, s \in Symbols :
          \/ Price!Return(c, "price")
          \/ Price!Succeed(c, op, s)
          \/ call' = [call EXCEPT ![c] = [Price!Idle EXCEPT !.op = op, !.sym = s, !.at = "snapshot"]]
          \/ Price!GoOn(c, op, s, "snapshot", breakers, Price!Looked(op, s))
    BY <1>3 DEF Price!Start
  <2>3. CASE Price!Return(c, "price")
    BY <1>0, <1>1, <2>1, <2>3, Answers DEF Price!Return, Spared, Price!Providers
  <2>4. CASE Price!Succeed(c, op, s)
    BY <1>0, <1>1, <2>1, <2>4, Succeeds
  <2>5. CASE call' = [call EXCEPT ![c] = [Price!Idle EXCEPT !.op = op, !.sym = s, !.at = "snapshot"]]
    <3> DEFINE u == [Price!Idle EXCEPT !.op = op, !.sym = s, !.at = "snapshot"]
    <3>1. FALSE \in BOOLEAN /\ op \in Ops \cup {None} /\ s \in Symbols \cup {None}
      OBVIOUS
    <3>3. u \in Record /\ u.at = "snapshot"
      BY <3>1 DEF Record, Places, Price!Idle
    <3> HIDE DEF u
    <3>4. Spared(c, u)
      BY <2>5, <3>3 DEF Spared, Price!Providers, u
    <3> QED
      BY <1>0, <1>1, <2>1, <3>3, <3>4
  <2>6. CASE Price!GoOn(c, op, s, "snapshot", breakers, Price!Looked(op, s))
    BY <1>0, <1>1, <2>1, <2>6, GoesOn
  <2> QED
    BY <2>2, <2>3, <2>4, <2>5, <2>6
<1>4. ASSUME NEW c \in Calls, Price!Resume(c) PROVE Goal
  <2>0. call[c].op \in Ops \cup {None} /\ call[c].sym \in Symbols \cup {None}
    BY <1>0 DEF Record
  <2>1. CASE Price!Prime(c)
    <3>1. /\ call[c].at = "prime"
          /\ cookies' \in {"none", "good", "old"}
          /\ call' = [call EXCEPT ![c].at = "nse", ![c].cookie = cookies', ![c].late = FALSE]
      BY <1>0, <2>1 DEF Price!Prime, Price!Sends
    <3> DEFINE u == [call[c] EXCEPT !.at = "nse", !.cookie = cookies', !.late = FALSE]
    <3>2. FALSE \in BOOLEAN
      OBVIOUS
    <3>3. u \in Record /\ u.at = "nse"
      BY <1>0, <3>1, <3>2 DEF Record, Places, Price!Providers
    <3>4. call' = [call EXCEPT ![c] = u]
      BY <1>0, <3>1 DEF Record
    <3>5. Spared(c, u)
      BY <3>1, <3>3, <3>4 DEF Spared
    <3> QED
      BY <1>1, <3>1, <3>3, <3>5
  <2>2. CASE ~Price!Prime(c)
    <3>1. cookies' \in {"none", "good", "old"}
      BY <1>0, <1>4, <2>2 DEF Price!Resume, Price!Snapshot, Price!Quote, Price!External
    <3>2. \/ Price!Succeed(c, call[c].op, call[c].sym)
          \/ \E stage, bs : Price!GoOn(c, call[c].op, call[c].sym, stage, bs, cache)
      BY <1>4, <2>2 DEF Price!Resume, Price!Snapshot, Price!Quote, Price!External, Price!Priced, Price!Goes
    <3> QED
      BY <1>1, <2>0, <3>1, <3>2, Succeeds, GoesOn
  <2> QED
    BY <2>1, <2>2
<1>5. CASE Price!Tick
  <2>1. call' = [c \in Calls |-> [call[c] EXCEPT !.late = call[c].at # "idle"]] /\ cookies' = cookies
    BY <1>5 DEF Price!Tick
  <2>2. \A c \in Calls : (call[c].at # "idle") \in BOOLEAN
    OBVIOUS
  <2>3. \A c \in Calls, b \in BOOLEAN :
          [call[c] EXCEPT !.late = b] \in Record /\ [call[c] EXCEPT !.late = b].at = call[c].at
    BY <1>0 DEF Record
  <2>4. call' \in [Calls -> Record] /\ \A c \in Calls : call'[c].at = call[c].at
    <3>1. \A c \in Calls : /\ [call[c] EXCEPT !.late = call[c].at # "idle"] \in Record
                           /\ [call[c] EXCEPT !.late = call[c].at # "idle"].at = call[c].at
      BY <2>2, <2>3
    <3> QED
      BY <2>1, <3>1
  <2> QED
    BY <1>0, <2>1, <2>4 DEF PriceInv, Record
<1>6. CASE UNCHANGED Price!vars \/ Price!Expire \/ Price!ClearCache \/ Price!Settle
  <2>1. call' = call /\ cookies' \in {"none", "good", "old"}
    BY <1>0, <1>6 DEF Price!vars, Price!Expire, Price!ClearCache, Price!Settle, Price!nse
  <2> QED
    BY <1>2, <2>1
<1> QED
  BY <1>3, <1>4, <1>5, <1>6 DEF Price!Next

\* A provider whose breaker is open is not asked, whatever other calls do to the breakers in between;
\* only NSE is, by a call that looked at the breaker before it waited for the session
\* (marketDataService.js _cbOpen, getLivePrice, getBestPrice, _fetchNSE).
THEOREM OpenBreakersSpare == Price!Spec => Price!OpenNotAsked
<1>1. Price!Init => PriceInv
  <2> SUFFICES ASSUME Price!Init PROVE PriceInv
    OBVIOUS
  <2>1. Price!Idle \in Record
    <3>1. FALSE \in BOOLEAN
      OBVIOUS
    <3> QED
      BY <3>1 DEF Record, Places, Price!Idle
  <2> QED
    BY <2>1 DEF Price!Init, PriceInv, Record
<1>2. PriceInv /\ [Price!Next]_(Price!vars) => PriceInv'
  BY PriceStep
<1>3. PriceInv /\ [Price!Next]_(Price!vars) =>
        [\A c \in Calls, p \in Price!Providers :
           (call[c].at # p /\ call'[c].at = p /\ Price!IsOpen(p)) => (p = "nse" /\ call[c].at = "prime")]_(Price!vars)
  BY PriceStep
<1> QED
  BY <1>1, <1>2, <1>3, PTL DEF Price!Spec, Price!OpenNotAsked
=============================================================================
