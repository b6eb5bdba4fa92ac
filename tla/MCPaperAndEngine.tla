-------------------------- MODULE MCPaperAndEngine --------------------------
(***************************************************************************)
(* One run for what requests and timers do to the database side by side:    *)
(* the paper portfolio under overlapping requests (once with resets, once   *)
(* with exits), the live engine (once with failing calls, once with slow    *)
(* orders and the user's exits and emergencyStop), the account of an        *)
(* address, the stored bars, the jobs of the scheduler and the alerts.      *)
(* They share no state: `part` says which of them moves, the others rest.   *)
(***************************************************************************)
EXTENDS PaperPortfolio, TLC

CONSTANTS j1, j2, a1, a2

VARIABLES
  part,
  enabled, mode, pos, working, recent, target, breached, loss, order, tick, user, errors, failed,
  users, resets, issued, used, req, saved, dbFails,
  today, hours, store, sync, import, complete, feedFails,
  process, market, timers, running, runs, status, backfill, connections, deadline,
  array, rule, scan, queue, fired, scans

Exits == INSTANCE PaperPortfolio WITH Kinds <- {"buy", "sell", "exit", "start"}
Engine == INSTANCE LiveEngine WITH
  MaxConcurrent <- 1, MaxNewPerTick <- 1, DeadmanMaxErrors <- 2, MaxExposure <- 1,
  SlowFills <- FALSE, Rejections <- TRUE, Losses <- TRUE, UserCalls <- {},
  MaxLots <- 1, MaxErrors <- 2
Calm == INSTANCE LiveEngine WITH
  MaxConcurrent <- 1, MaxNewPerTick <- 1, DeadmanMaxErrors <- 2, MaxExposure <- 1,
  MayFail <- FALSE, SlowFills <- TRUE, Rejections <- TRUE, Losses <- TRUE,
  UserCalls <- {"exit", "all", "stop"}, MaxLots <- 1, MaxErrors <- 2
Account == INSTANCE Accounts WITH
  Requests <- Callers, Passwords <- {1, 2}, MaxTokens <- 2, MaxFails <- 1, None <- Unread,
  fails <- dbFails
Bars == INSTANCE PriceStore WITH
  LastDay <- 3, Sessions <- {1, 2}, Imports <- Callers, MaxFails <- 1, None <- Unread,
  phase <- hours, fails <- feedFails
Timers == INSTANCE Scheduler WITH
  Jobs <- {j1, j2}, MarketOnly <- {j1}, Backfilled <- j2, MaxConnections <- 1,
  phase <- process, enabled <- timers
Watch == INSTANCE Alerts WITH
  Rules <- {a1, a2}, MaxQueue <- 2, MaxArrays <- 2, MaxScans <- 2, None <- Unread

ASSUME EnginesAssumption == Engine!EngineAssumption /\ Calm!EngineAssumption
ASSUME PartsAssumption == Bars!StoreAssumption /\ Timers!SchedulerAssumption

engineVars == <<enabled, mode, pos, working, recent, target, breached, loss, order, tick, user,
                errors, failed>>
accountVars == <<users, resets, issued, used, req, saved, dbFails>>
barVars == <<today, hours, store, sync, import, complete, feedFails>>
timerVars == <<process, market, timers, running, runs, status, backfill, connections, deadline>>
watchVars == <<array, rule, scan, queue, fired, scans>>
others == <<accountVars, barVars, timerVars, watchVars>>
all == <<part, vars, engineVars, others>>

AllInit ==
  /\ part \in {"portfolio", "exits", "engine", "calls", "accounts", "bars", "jobs", "alerts"}
  /\ market \in IF part = "jobs" THEN BOOLEAN ELSE {TRUE}
  /\ Init /\ Engine!Init /\ Account!Init /\ Bars!Init /\ Timers!Init
  /\ Watch!Init

AllNext ==
  /\ UNCHANGED part
  /\ \/ part = "portfolio" /\ Next /\ UNCHANGED <<engineVars, others>>
     \/ part = "exits" /\ Exits!Next /\ UNCHANGED <<engineVars, others>>
     \/ part = "engine" /\ Engine!Next /\ UNCHANGED <<vars, others>>
     \/ part = "calls" /\ Calm!Next /\ UNCHANGED <<vars, others>>
     \/ part = "accounts" /\ Account!Next
        /\ UNCHANGED <<vars, engineVars, barVars, timerVars, watchVars>>
     \/ part = "bars" /\ Bars!Next
        /\ UNCHANGED <<vars, engineVars, accountVars, timerVars, watchVars>>
     \/ part = "jobs" /\ Timers!Next
        /\ UNCHANGED <<vars, engineVars, accountVars, barVars, watchVars>>
     \/ part = "alerts" /\ Watch!Next
        /\ UNCHANGED <<vars, engineVars, accountVars, barVars, timerVars>>

AllSpec == AllInit /\ [][AllNext]_all

\* Nothing tells the requests apart.
Symmetry == Permutations(Callers)

\* LiveEngine: after enough ticks in a row whose reconcile failed trading is halted, or
\* the switch stays armed for the next tick (liveExecutionEngine.js:316-324).
DeadManHolds == part \in {"engine", "calls"} => Engine!TypeOK /\ Engine!DeadMan


\* Scheduler and PriceStore: a job runs once at a time, its flag stays up for no execution
\* that has ended, and none begins once the shutdown has drained the connections
\* (scheduler.js, app.js).  However its daily job and imports meet, what a whole import
\* has stored lasts, no row shows a later session, and a window of closes ends with the
\* newest (dataStore.js, dataController.js fetchAndStore).
JobsRight ==
  /\ [](part = "jobs" => Timers!TypeOK /\ Timers!FlagsHaveRuns)
  /\ Timers!StoppedIsStopped
  /\ [](part = "bars" =>
          Bars!TypeOK /\ Bars!ImportLasts /\ Bars!NoForesight /\ Bars!WindowIsNewest)

\* Alerts: a rule fires once, the queue keeps the newest alerts in order, and a rule that is
\* removed while a scan waits raises none (alertEngine.js).
AlertsRight ==
  [](part = "alerts" => Watch!TypeOK /\ Watch!FiresOnce /\ Watch!NewestFirst) /\ Watch!RemovedIsSilent
=============================================================================
