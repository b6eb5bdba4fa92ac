------------------------------ MODULE LiveEngine ------------------------------
(***************************************************************************)
(* The tick of the live execution engine (runOnce) against the user's exit  *)
(* calls and emergencyStop: reconcile, the daily-loss halt, the monitored   *)
(* exits, the automatic entries with their bracket targets, the dead-man's  *)
(* switch.                                                                  *)
(*                                                                          *)
(* placeOrder is three steps here (flag, checks, send); LiveOrders has it   *)
(* in full, with its rows.  Quantities are lots: an entry buys one.  The    *)
(* market is open and the broker authenticated; manual buys are left out.   *)
(***************************************************************************)
EXTENDS FiniteSets, FiniteSetsExt, Integers

CONSTANTS
  Symbols,
  MaxConcurrent,     \* LIVE_MAX_CONCURRENT_POSITIONS
  MaxNewPerTick,     \* LIVE_AUTO_MAX_NEW_PER_TICK
  DeadmanMaxErrors,  \* LIVE_DEADMAN_MAX_ERRORS
  MaxExposure,       \* riskLimits.maxExposure in lots; 0 turns the check off
  MayFail,           \* database and broker calls may fail
  SlowFills,         \* an order may work for longer than 10 seconds
  Rejections,        \* the exchange may reject an order it had accepted
  Losses,            \* the day's loss may reach the configured limit
  UserCalls,         \* what is called: "exit", "all" (squareOffAll), "stop" (emergencyStop)
  MaxLots,           \* bound: lots of a symbol, held and working, when a call or entry starts
  MaxErrors          \* bound: where the counts of failed ticks saturate

EngineAssumption ==
  /\ IsFiniteSet(Symbols) /\ Symbols /= {}
  /\ MaxConcurrent \in Nat /\ MaxNewPerTick \in Nat /\ MaxExposure \in Nat
  /\ DeadmanMaxErrors \in Nat \ {0} /\ MaxLots \in Nat
  /\ MaxErrors \in Nat /\ MaxErrors >= DeadmanMaxErrors
  /\ {MayFail, SlowFills, Rejections, Losses} \subseteq BOOLEAN
  /\ UserCalls \subseteq {"exit", "all", "stop"}

VARIABLES
  enabled,   \* system_flags.live_trading_enabled
  mode,      \* users.trading_mode
  pos,       \* net lots of each symbol at the broker
  working,   \* lots of the orders working at the broker, by symbol and side
  recent,    \* (symbol, side) pairs the duplicate guard would refuse
  target,    \* symbols with an active row of live_position_targets
  breached,  \* symbols whose price is beyond their stop or their target price
  loss,      \* the day's loss has reached the limit
  order,     \* the placeOrder call of each actor
  tick,      \* the running tick
  user,      \* the running user call
  errors,    \* _consecutiveErrors
  failed     \* history: ticks in a row whose reconcile failed, since a halt

broker == <<pos, working, recent, breached, loss>>
vars == <<enabled, mode, broker, target, order, tick, user, errors, failed>>

Actors == {"tick", "user"}
Sides  == {"BUY", "SELL"}

NoCall   == [pc |-> "none", sym |-> CHOOSE s \in Symbols : TRUE, side |-> "BUY", qty |-> 0]
IdleTick == [pc |-> "idle", todo |-> {}, held |-> {}, targeted |-> {}, budget |-> 0,
             placed |-> 0, halted |-> FALSE, errs |-> 0]
IdleUser == [pc |-> "idle", kind |-> "none", todo |-> {}]

Held == {s \in Symbols : pos[s] /= 0}
Abs(n) == IF n < 0 THEN -n ELSE n

WithinBound == \A s \in Symbols :
  Abs(pos[s]) + working[s]["BUY"] + working[s]["SELL"] <= MaxLots

NothingWorks == \A s \in Symbols, side \in Sides : working[s][side] = 0

------------------------------------------------------------------------------
(* placeOrder, called by actor a *)

Call(a, s, side, qty) ==
  order' = [order EXCEPT ![a] = [pc |-> "flag", sym |-> s, side |-> side, qty |-> qty]]

Answer(a, pc) == order' = [order EXCEPT ![a].pc = pc]

\* The kill switch; a failed read of the flag lets the order through.
Flag(a) ==
  /\ order[a].pc = "flag"
  /\ \/ (enabled \/ MayFail) /\ Answer(a, "checks")
     \/ ~enabled /\ Answer(a, "halted")
  /\ UNCHANGED <<enabled, mode, broker, target, tick, user, errors, failed>>

IsDuplicate(o) == <<o.sym, o.side>> \in recent

\* Only what is filled counts towards the exposure.
OverExposed(o) ==
  /\ MaxExposure > 0
  /\ MapThenSumSet(LAMBDA s : Abs(pos[s]), Symbols) + o.qty > MaxExposure

\* Duplicate guard, daily loss and exposure.  They do not look at the side:
\* an exit is refused like an entry.  A failed read of the positions skips
\* the loss and the exposure.
Checks(a) ==
  /\ order[a].pc = "checks"
  /\ \/ IsDuplicate(order[a]) /\ Answer(a, "refused")
     \/ ~IsDuplicate(order[a]) /\ (loss \/ OverExposed(order[a])) /\ Answer(a, "limited")
     \/ /\ ~IsDuplicate(order[a])
        /\ MayFail \/ ~(loss \/ OverExposed(order[a]))
        /\ Answer(a, "send")
  /\ UNCHANGED <<enabled, mode, broker, target, tick, user, errors, failed>>

Send(a) ==
  /\ order[a].pc = "send"
  /\ LET o == order[a]
     IN  \/ /\ working' = [working EXCEPT ![o.sym][o.side] = @ + o.qty]
            /\ recent' = recent \cup {<<o.sym, o.side>>}
            /\ Answer(a, "placed")
         \/ /\ MayFail
            /\ Answer(a, "refused")
            /\ UNCHANGED <<working, recent>>
  /\ UNCHANGED <<enabled, mode, pos, breached, loss, target, tick, user, errors, failed>>

Placing(a) == Flag(a) \/ Checks(a) \/ Send(a)

Answered(a) == order[a].pc \in {"placed", "refused", "halted", "limited"}

------------------------------------------------------------------------------
(* runOnce: reconcile and the daily-loss halt *)

\* The tick looks at the kill switch with the read that fails open.
TickStart ==
  /\ tick.pc = "idle"
  /\ enabled \/ MayFail
  /\ SlowFills \/ NothingWorks
  /\ WithinBound
  /\ \/ tick' = [IdleTick EXCEPT !.pc = "loss"]
     \/ MayFail /\ tick' = [IdleTick EXCEPT !.pc = "loss", !.errs = 1]   \* reconcile failed
  /\ UNCHANGED <<enabled, mode, broker, target, order, user, errors, failed>>

\* The halt engages the kill switch and the tick goes on.
LossCheck ==
  /\ tick.pc = "loss"
  /\ \/ loss /\ enabled' = FALSE /\ tick' = [tick EXCEPT !.pc = "targets", !.halted = TRUE]
     \/ ~loss /\ tick' = [tick EXCEPT !.pc = "targets"] /\ UNCHANGED enabled
     \/ MayFail /\ tick' = [tick EXCEPT !.pc = "targets"] /\ UNCHANGED enabled
  /\ UNCHANGED <<mode, broker, target, order, user, errors, failed>>

------------------------------------------------------------------------------
(* manageExits *)

\* Where manageExits hands over to: manageEntries, unless the loss halt struck.
AfterExits == IF tick.halted THEN "end" ELSE "held"

\* A failed read of the targets looks like no targets.
ReadTargets ==
  /\ tick.pc = "targets"
  /\ \E found \in {target} \cup (IF MayFail THEN {{}} ELSE {}) :
       tick' = [tick EXCEPT !.todo = found,
                            !.pc = IF found = {} THEN AfterExits ELSE "positions"]
  /\ UNCHANGED <<enabled, mode, broker, target, order, user, errors, failed>>

\* A failed read of the positions ends manageExits; it is not counted as an
\* error of the tick.
ReadPositions ==
  /\ tick.pc = "positions"
  /\ \/ tick' = [tick EXCEPT !.pc = "exits", !.held = Held]
     \/ MayFail /\ tick' = [tick EXCEPT !.pc = AfterExits, !.todo = {}]
  /\ UNCHANGED <<enabled, mode, broker, target, order, user, errors, failed>>

\* deactivate() swallows its errors.
Deactivate(s) == target' = target \ {s} \/ (MayFail /\ UNCHANGED target)

Done(s) == [tick EXCEPT !.pc = "exits", !.todo = @ \ {s}]

\* A target whose symbol is not held is retired.
RetireTarget(s) ==
  /\ tick.pc = "exits" /\ s \in tick.todo \ tick.held
  /\ Deactivate(s)
  /\ tick' = Done(s)
  /\ UNCHANGED <<enabled, mode, broker, order, user, errors, failed>>

KeepPosition(s) ==
  /\ tick.pc = "exits" /\ s \in tick.todo \cap tick.held
  /\ s \notin breached
  /\ tick' = Done(s)
  /\ UNCHANGED <<enabled, mode, broker, target, order, user, errors, failed>>

\* What exitPosition asks of placeOrder for a position it has just read.
SquareOff(a, s) == Call(a, s, IF pos[s] > 0 THEN "SELL" ELSE "BUY", Abs(pos[s]))

\* exitPosition reads the positions again and throws when there is none.
Exit(s) ==
  /\ tick.pc = "exits" /\ s \in tick.todo \cap tick.held
  /\ s \in breached
  /\ \/ /\ pos[s] /= 0
        /\ SquareOff("tick", s)
        /\ tick' = [tick EXCEPT !.pc = "exit"]
     \/ /\ pos[s] = 0 \/ MayFail
        /\ tick' = Done(s)
        /\ UNCHANGED order
  /\ UNCHANGED <<enabled, mode, broker, target, user, errors, failed>>

\* Mutant: a refused exit retires the target as well.
RetiresAlways(answer) == TRUE

\* After a placed exit the target is retired; a refused one leaves it active.
Retires(answer) == answer = "placed"

AfterExit ==
  /\ tick.pc = "exit" /\ Answered("tick")
  /\ LET s == order["tick"].sym
     IN  /\ IF Retires(order["tick"].pc) THEN Deactivate(s) ELSE UNCHANGED target
         /\ tick' = Done(s)
  /\ order' = [order EXCEPT !["tick"] = NoCall]
  /\ UNCHANGED <<enabled, mode, broker, user, errors, failed>>

ExitsDone ==
  /\ tick.pc = "exits" /\ tick.todo = {}
  /\ tick' = [tick EXCEPT !.pc = AfterExits, !.held = {}]
  /\ UNCHANGED <<enabled, mode, broker, target, order, user, errors, failed>>

------------------------------------------------------------------------------
(* manageEntries *)

\* A failed read of the positions looks like no positions.
ReadHeld ==
  /\ tick.pc = "held"
  /\ \/ tick' = [tick EXCEPT !.pc = "targeted", !.held = Held]
     \/ MayFail /\ tick' = [tick EXCEPT !.pc = "targeted", !.held = {}]
  /\ UNCHANGED <<enabled, mode, broker, target, order, user, errors, failed>>

\* The positions this tick may still open.
Budget(held, targeted) == MaxConcurrent - Cardinality(held \cup targeted)

\* The signals of the last minutes: any symbols, and one symbol may come up
\* more than once.
ReadTargeted ==
  /\ tick.pc = "targeted"
  /\ \E found \in {target} \cup (IF MayFail THEN {{}} ELSE {}) :
       tick' = [tick EXCEPT !.pc = "signals", !.targeted = found,
                            !.budget = Budget(tick.held, found)]
  /\ UNCHANGED <<enabled, mode, broker, target, order, user, errors, failed>>

MayEnter(s) ==
  /\ tick.placed < MaxNewPerTick
  /\ s \notin tick.held \cup tick.targeted
  /\ tick.budget > 0

Enter(s) ==
  /\ tick.pc = "signals"
  /\ MayEnter(s) /\ WithinBound
  /\ Call("tick", s, "BUY", 1)
  /\ tick' = [tick EXCEPT !.pc = "enter"]
  /\ UNCHANGED <<enabled, mode, broker, target, user, errors, failed>>

\* Mutant: the budget is not used up.
EnteredForFree(t, s) == [t EXCEPT !.pc = "signals", !.placed = @ + 1, !.held = @ \cup {s}]

Entered(t, s) ==
  [t EXCEPT !.pc = "signals", !.placed = @ + 1, !.held = @ \cup {s}, !.budget = @ - 1]

\* A placed entry gets its bracket; when that write fails, or the order was
\* refused, the loop goes on to the next signal.
AfterEnter ==
  /\ tick.pc = "enter" /\ Answered("tick")
  /\ LET s == order["tick"].sym
     IN  \/ /\ order["tick"].pc = "placed"
            /\ target' = target \cup {s}
            /\ tick' = Entered(tick, s)
         \/ /\ order["tick"].pc /= "placed" \/ MayFail
            /\ tick' = [tick EXCEPT !.pc = "signals"]
            /\ UNCHANGED target
  /\ order' = [order EXCEPT !["tick"] = NoCall]
  /\ UNCHANGED <<enabled, mode, broker, user, errors, failed>>

EntriesDone ==
  /\ tick.pc = "signals"
  /\ tick' = [tick EXCEPT !.pc = "end"]
  /\ UNCHANGED <<enabled, mode, broker, target, order, user, errors, failed>>

------------------------------------------------------------------------------
(* The dead-man's switch *)

Capped(n) == IF n < MaxErrors THEN n ELSE MaxErrors

\* Mutant: the counter starts again whether or not the halt was written.
AfterHaltAttempt(count, written) == 0

\* The counter after an attempt to engage the kill switch.
AfterHalt(count, written) == IF written THEN 0 ELSE count

TickEnd ==
  /\ tick.pc = "end"
  /\ LET count == IF tick.errs > 0 THEN Capped(errors + 1) ELSE 0
         runs  == IF tick.errs > 0 THEN Capped(failed + 1) ELSE 0
     IN  IF count >= DeadmanMaxErrors
         THEN \E written \in {TRUE} \cup (IF MayFail THEN {FALSE} ELSE {}) :
                /\ enabled' = IF written THEN FALSE ELSE enabled
                /\ errors' = AfterHalt(count, written)
                /\ failed' = IF written THEN 0 ELSE runs
         ELSE /\ errors' = count /\ failed' = runs
              /\ UNCHANGED enabled
  /\ tick' = IdleTick
  /\ UNCHANGED <<mode, broker, target, order, user>>

Tick ==
  \/ TickStart \/ LossCheck
  \/ ReadTargets \/ ReadPositions \/ AfterExit \/ ExitsDone
  \/ \E s \in Symbols : RetireTarget(s) \/ KeepPosition(s) \/ Exit(s) \/ Enter(s)
  \/ ReadHeld \/ ReadTargeted \/ AfterEnter \/ EntriesDone
  \/ TickEnd

------------------------------------------------------------------------------
(* The user's calls *)

ExitPosition(s) ==
  /\ "exit" \in UserCalls /\ user.pc = "idle" /\ WithinBound
  /\ user' = [pc |-> "each", kind |-> "exit", todo |-> {s}]
  /\ UNCHANGED <<enabled, mode, broker, target, order, tick, errors, failed>>

SquareOffAll ==
  /\ "all" \in UserCalls /\ user.pc = "idle" /\ WithinBound
  /\ user' = [pc |-> "read", kind |-> "all", todo |-> {}]
  /\ UNCHANGED <<enabled, mode, broker, target, order, tick, errors, failed>>

EmergencyStop ==
  /\ "stop" \in UserCalls /\ user.pc = "idle" /\ WithinBound
  /\ enabled' = FALSE
  /\ user' = [pc |-> "cancel", kind |-> "stop", todo |-> {}]
  /\ UNCHANGED <<mode, broker, target, order, tick, errors, failed>>

\* The cancel of all open orders, as one step: each is cancelled, or fills first.
StopCancels ==
  /\ user.pc = "cancel"
  /\ \E kept \in (IF MayFail THEN SUBSET Symbols ELSE {{}}) :
       working' = [s \in Symbols |->
                     IF s \in kept THEN working[s] ELSE [side \in Sides |-> 0]]
  /\ user' = [user EXCEPT !.pc = "read"]
  /\ UNCHANGED <<enabled, mode, pos, recent, breached, loss, target, order, tick, errors,
                 failed>>

ReadAll ==
  /\ user.pc = "read"
  /\ \E found \in {Held} \cup (IF MayFail THEN {{}} ELSE {}) :
       user' = [user EXCEPT !.pc = "each", !.todo = found]
  /\ UNCHANGED <<enabled, mode, broker, target, order, tick, errors, failed>>

ExitEach(s) ==
  /\ user.pc = "each" /\ s \in user.todo
  /\ \/ /\ pos[s] /= 0
        /\ SquareOff("user", s)
        /\ user' = [user EXCEPT !.pc = "await"]
     \/ /\ pos[s] = 0 \/ MayFail
        /\ user' = [user EXCEPT !.todo = @ \ {s}]
        /\ UNCHANGED order
  /\ UNCHANGED <<enabled, mode, broker, target, tick, errors, failed>>

\* A refused exit is noted and the loop goes on with the other positions.
AfterEach ==
  /\ user.pc = "await" /\ Answered("user")
  /\ user' = [user EXCEPT !.pc = "each", !.todo = @ \ {order["user"].sym}]
  /\ order' = [order EXCEPT !["user"] = NoCall]
  /\ UNCHANGED <<enabled, mode, broker, target, tick, errors, failed>>

\* The call returns; emergencyStop puts the user in PAPER mode first.
UserDone ==
  /\ user.pc = "each" /\ user.todo = {}
  /\ \/ user.kind = "stop" /\ mode' = "paper"
     \/ (user.kind /= "stop" \/ MayFail) /\ UNCHANGED mode
  /\ user' = IdleUser
  /\ UNCHANGED <<enabled, broker, target, order, tick, errors, failed>>

\* setKillSwitch and the admin's killSwitch.
SetSwitch(on) ==
  /\ enabled /= on
  /\ enabled' = on
  /\ UNCHANGED <<mode, broker, target, order, tick, user, errors, failed>>

User ==
  \/ \E s \in Symbols : ExitPosition(s) \/ ExitEach(s)
  \/ SquareOffAll \/ EmergencyStop \/ StopCancels \/ ReadAll \/ AfterEach \/ UserDone

------------------------------------------------------------------------------
(* The broker, the market and the clock *)

\* One lot fills.
Fill(s, side) ==
  /\ working[s][side] > 0
  /\ working' = [working EXCEPT ![s][side] = @ - 1]
  /\ pos' = [pos EXCEPT ![s] = IF side = "BUY" THEN @ + 1 ELSE @ - 1]
  /\ UNCHANGED <<enabled, mode, recent, breached, loss, target, order, tick, user, errors,
                 failed>>

Reject(s, side) ==
  /\ Rejections /\ working[s][side] > 0
  /\ working' = [working EXCEPT ![s][side] = 0]
  /\ UNCHANGED <<enabled, mode, pos, recent, breached, loss, target, order, tick, user, errors,
                 failed>>

\* Ten seconds pass since the last order for a symbol and side.
Ages(s, side) ==
  /\ <<s, side>> \in recent
  /\ SlowFills \/ working[s][side] = 0
  /\ recent' = recent \ {<<s, side>>}
  /\ UNCHANGED <<enabled, mode, pos, working, breached, loss, target, order, tick, user, errors,
                 failed>>

PriceMoves(s) ==
  /\ breached' = IF s \in breached THEN breached \ {s} ELSE breached \cup {s}
  /\ UNCHANGED <<enabled, mode, pos, working, recent, loss, target, order, tick, user, errors,
                 failed>>

LossMoves ==
  /\ Losses
  /\ loss' = ~loss
  /\ UNCHANGED <<enabled, mode, pos, working, recent, breached, target, order, tick, user, errors,
                 failed>>

Market ==
  \/ \E s \in Symbols, side \in Sides : Fill(s, side) \/ Reject(s, side) \/ Ages(s, side)
  \/ \E s \in Symbols : PriceMoves(s)
  \/ LossMoves

------------------------------------------------------------------------------

Init ==
  /\ enabled = TRUE
  /\ mode = "live"
  /\ pos = [s \in Symbols |-> 0]
  /\ working = [s \in Symbols |-> [side \in Sides |-> 0]]
  /\ recent = {}
  /\ target = {}
  /\ breached = {}
  /\ loss = FALSE
  /\ order = [a \in Actors |-> NoCall]
  /\ tick = IdleTick
  /\ user = IdleUser
  /\ errors = 0
  /\ failed = 0

Next ==
  \/ \E a \in Actors : Placing(a)
  \/ Tick
  \/ User
  \/ \E on \in BOOLEAN : SetSwitch(on)
  \/ Market

Spec == Init /\ [][Next]_vars

\* The scheduler starts a tick every 30 seconds, its list of signals ends
\* (LIMIT 20); orders are answered and fill and the clock goes on.
FairSpec ==
  /\ Spec
  /\ WF_vars(Tick) /\ SF_vars(EntriesDone)
  /\ \A a \in Actors : WF_vars(Placing(a))
  /\ \A s \in Symbols, side \in Sides : WF_vars(Fill(s, side)) /\ WF_vars(Ages(s, side))

------------------------------------------------------------------------------
(* Properties *)

CallType == [pc: {"none", "flag", "checks", "send", "placed", "refused", "halted", "limited"},
             sym: Symbols, side: Sides, qty: Nat]

TickType == [pc: {"idle", "loss", "targets", "positions", "exits", "exit", "held", "targeted",
                  "signals", "enter", "end"},
             todo: SUBSET Symbols, held: SUBSET Symbols, targeted: SUBSET Symbols,
             budget: Int, placed: 0..MaxNewPerTick, halted: BOOLEAN, errs: 0..1]

TypeOK ==
  /\ enabled \in BOOLEAN /\ mode \in {"live", "paper"}
  /\ pos \in [Symbols -> Int] /\ working \in [Symbols -> [Sides -> Nat]]
  /\ recent \subseteq Symbols \X Sides /\ target \subseteq Symbols
  /\ breached \subseteq Symbols /\ loss \in BOOLEAN
  /\ order \in [Actors -> CallType] /\ tick \in TickType
  /\ user \in [pc: {"idle", "cancel", "read", "each", "await"},
               kind: {"none", "exit", "all", "stop"}, todo: SUBSET Symbols]
  /\ {errors, failed} \subseteq 0..MaxErrors

Entering(s) == pos[s] /= 0 \/ working[s]["BUY"] > 0

\* The engine never has more symbols open or being opened than it may
\* (liveExecutionEngine.js:222-224 and 246-247).
AtMostMaxConcurrent == Cardinality({s \in Symbols : Entering(s)}) <= MaxConcurrent

\* A symbol is entered at most once: no entry while it is held or an entry is
\* working (liveExecutionEngine.js:201-204 and 210).
NoDoubleEntry == \A s \in Symbols : pos[s] + working[s]["BUY"] <= 1

\* A held position has an active exit target, or its exit is working, or the
\* tick is about to write the target (liveExecutionEngine.js:119-125, 201-204).
Bracketed ==
  \A s \in Symbols : pos[s] > 0 =>
    \/ s \in target
    \/ working[s]["SELL"] > 0
    \/ tick.pc = "enter" /\ order["tick"].pc = "placed" /\ order["tick"].sym = s

\* What the guards of the entries promise together, and their brackets
\* (liveExecutionEngine.js:201-260).
EntriesGuarded == AtMostMaxConcurrent /\ NoDoubleEntry /\ Bracketed

\* After enough ticks in a row whose reconcile failed trading is halted, or
\* the switch stays armed for the next tick (liveExecutionEngine.js:316-324).
DeadMan ==
  failed >= DeadmanMaxErrors /\ enabled /\ tick.pc = "idle" => errors >= DeadmanMaxErrors

\* When emergencyStop returns every position is closed or being closed
\* (liveController.js:413 "engage kill switch + square off + cancel").
StopSquaresOff ==
  [][UserDone /\ user.kind = "stop" =>
       \A s \in Symbols : pos[s] > 0 => working[s]["SELL"] > 0]_vars

\* A held symbol beyond its stop or target price is sold, unless the price
\* comes back, trading is halted or the day's loss reaches its limit
\* (liveExecutionEngine.js:126-161).
StopsOut ==
  \A s \in Symbols :
    (pos[s] > 0 /\ s \in breached) ~> (pos[s] <= 0 \/ s \notin breached \/ ~enabled \/ loss)
=============================================================================
