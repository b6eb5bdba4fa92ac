------------------------------ MODULE Scheduler -----------------------------
(***************************************************************************)
(* The process around the engines: app.start() and its shutdown, and the    *)
(* scheduler, whose jobs run on timers, some only while the market is open. *)
(* A job's execution awaits; its `running` flag is meant to keep a second   *)
(* one out.  The backfill of corporate actions ninety seconds after the     *)
(* start calls the job's function itself.  What a job does is left to the   *)
(* modules of the engines; here it ends, well or badly.                     *)
(***************************************************************************)
EXTENDS Naturals

CONSTANTS Jobs, MarketOnly, Backfilled, MaxConnections

SchedulerAssumption == MarketOnly \subseteq Jobs /\ Backfilled \in Jobs \ MarketOnly

VARIABLES
  phase,      \* of the process
  market,     \* whether the exchange is open
  enabled, running,      \* the state object of each job
  runs,       \* executions of each job's function that are under way
  status,     \* of the last execution
  backfill,   \* the one-shot timer of the start
  connections,
  deadline    \* the timer of the forced exit
vars == <<phase, market, enabled, running, runs, status, backfill, connections, deadline>>
jobVars == <<enabled, running, runs, status, backfill>>

TypeOK ==
  /\ phase \in {"boot", "restoring", "serving", "draining", "closing", "exited", "killed"}
  /\ {market, deadline} \subseteq BOOLEAN
  /\ enabled \in [Jobs -> BOOLEAN] /\ running \in [Jobs -> BOOLEAN]
  /\ runs \in [Jobs -> 0..2] /\ status \in [Jobs -> {"none", "OK", "ERROR"}]
  /\ backfill \in {"unset", "set", "running", "done"}
  /\ connections \in 0..MaxConnections

Init ==
  /\ phase = "boot" /\ market \in BOOLEAN
  /\ enabled = [j \in Jobs |-> FALSE] /\ running = [j \in Jobs |-> FALSE]
  /\ runs = [j \in Jobs |-> 0] /\ status = [j \in Jobs |-> "none"]
  /\ backfill = "unset" /\ connections = 0 /\ deadline = FALSE

Alive == phase \notin {"exited", "killed"}

-----------------------------------------------------------------------------
(* The process.                                                            *)

\* With the tables or, when the database is away, without them: the jobs begin.
StartScheduler ==
  /\ phase = "boot" /\ phase' = "restoring"
  /\ enabled' = [j \in Jobs |-> TRUE] /\ backfill' = "set"
  /\ UNCHANGED <<market, running, runs, status, connections, deadline>>

\* The broker session is restored, then the simulation starts and the port opens.
Listen ==
  /\ phase = "restoring" /\ phase' = "serving"
  /\ UNCHANGED <<market, jobVars, connections, deadline>>

Connect ==
  /\ phase = "serving" /\ connections < MaxConnections
  /\ connections' = connections + 1
  /\ UNCHANGED <<phase, market, jobVars, deadline>>

Leave ==
  /\ connections > 0 /\ Alive /\ connections' = connections - 1
  /\ UNCHANGED <<phase, market, jobVars, deadline>>

\* A signal or an uncaught exception: the port closes, what is open stays open.
Shutdown ==
  /\ phase = "serving" /\ phase' = "draining" /\ deadline' = TRUE
  /\ UNCHANGED <<market, jobVars, connections>>

\* stop(): no timer fires any more; an execution under way goes on.
StopJobs ==
  /\ enabled' = [j \in Jobs |-> FALSE]
  /\ UNCHANGED <<running, runs, status, backfill>>

\* server.close() calls back once the last connection has gone.
Drained ==
  /\ phase = "draining" /\ connections = 0 /\ phase' = "closing"
  /\ StopJobs
  /\ UNCHANGED <<market, connections, deadline>>

PoolClosed ==
  /\ phase = "closing" /\ phase' = "exited"
  /\ UNCHANGED <<market, jobVars, connections, deadline>>

ForcedExit ==
  /\ deadline /\ phase \in {"draining", "closing"} /\ phase' = "killed"
  /\ UNCHANGED <<market, jobVars, connections, deadline>>

-----------------------------------------------------------------------------
(* The jobs.                                                               *)

MayBegin(j) == enabled[j] /\ ~running[j] /\ (j \in MarketOnly => market)

Begin(j) ==
  /\ Alive /\ MayBegin(j) /\ runs[j] < 2
  /\ running' = [running EXCEPT ![j] = TRUE]
  /\ runs' = [runs EXCEPT ![j] = @ + 1]
  /\ UNCHANGED <<phase, market, enabled, status, backfill, connections, deadline>>

\* Mutant: a job that fails keeps its flag.
ResetUnlessFailed(j, s) == IF s = "OK" THEN FALSE ELSE running[j]

\* finally: the flag goes down however the job has ended.
Reset(j, s) == FALSE

End(j) ==
  /\ Alive /\ running[j]
  /\ runs' = [runs EXCEPT ![j] = @ - 1]
  /\ \E s \in {"OK", "ERROR"} :
       /\ running' = [running EXCEPT ![j] = Reset(j, s)]
       /\ status' = [status EXCEPT ![j] = s]
  /\ UNCHANGED <<phase, market, enabled, backfill, connections, deadline>>

\* The backfill minds neither the flag nor stop().
BackfillBegins ==
  /\ Alive /\ backfill = "set" /\ backfill' = "running"
  /\ runs' = [runs EXCEPT ![Backfilled] = @ + 1]
  /\ UNCHANGED <<phase, market, enabled, running, status, connections, deadline>>

BackfillEnds ==
  /\ Alive /\ backfill = "running" /\ backfill' = "done"
  /\ runs' = [runs EXCEPT ![Backfilled] = @ - 1]
  /\ UNCHANGED <<phase, market, enabled, running, status, connections, deadline>>

\* The administrator stops a job; nothing but a restart brings it back.
StopJob(j) ==
  /\ phase = "serving" /\ connections > 0 /\ enabled[j]
  /\ enabled' = [enabled EXCEPT ![j] = FALSE]
  /\ UNCHANGED <<phase, market, running, runs, status, backfill, connections, deadline>>

MarketTurns ==
  /\ Alive /\ market' = ~market
  /\ UNCHANGED <<phase, jobVars, connections, deadline>>

Next ==
  \/ StartScheduler \/ Listen \/ Connect \/ Leave \/ Shutdown \/ Drained \/ PoolClosed
  \/ ForcedExit \/ BackfillBegins \/ BackfillEnds \/ MarketTurns
  \/ \E j \in Jobs : Begin(j) \/ End(j) \/ StopJob(j)

Spec == Init /\ [][Next]_vars

-----------------------------------------------------------------------------
(* Properties.                                                             *)

\* A job never runs twice at a time, but for the backfill of the start, which may meet the
\* weekly run of the same job; and a flag that is up has its execution: none is stuck by
\* an execution that has ended, whatever it ended with.
FlagsHaveRuns ==
  \A j \in Jobs :
    runs[j] = (IF running[j] THEN 1 ELSE 0) + (IF j = Backfilled /\ backfill = "running" THEN 1 ELSE 0)

\* No job begins once the shutdown has drained the connections.
StoppedIsStopped == [][phase = "closing" => \A j \in Jobs : running[j] \/ ~running'[j]]_vars
=============================================================================
