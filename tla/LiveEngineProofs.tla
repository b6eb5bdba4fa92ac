--------------------------- MODULE LiveEngineProofs ---------------------------
(***************************************************************************)
(* Theorems about LiveEngine for every set of symbols and every limit.      *)
(*                                                                          *)
(* Types and the dead-man's switch hold whatever fails.  The guards of the  *)
(* entries hold when no call fails, orders are done before the next tick    *)
(* and nobody else trades (Steady): a tick then knows every position, and   *)
(* what it must remember between two steps is which symbols it has sold or  *)
(* bought already (Phases, Counted).  With an exchange that rejects nothing *)
(* every position keeps an exit (Brackets).                                 *)
(***************************************************************************)
EXTENDS LiveEngine, FiniteSetTheorems, TLAPS

------------------------------------------------------------------------------
(* Types *)

\* A step of an entry is allowed one more.
TypeInv == TypeOK /\ (tick.pc = "enter" => tick.placed < MaxNewPerTick)

LEMMA CallTypes == ASSUME EngineAssumption PROVE NoCall \in CallType
<1>1. PICK s \in Symbols : TRUE
  BY DEF EngineAssumption
<1> QED
  BY <1>1 DEF NoCall, CallType, Sides

LEMMA TickTypes == ASSUME EngineAssumption PROVE IdleTick \in TickType
BY DEF EngineAssumption, IdleTick, TickType

LEMMA AbsNat == \A n \in Int : Abs(n) \in Nat
BY DEF Abs

LEMMA CallStep ==
  ASSUME EngineAssumption, TypeOK, NEW a \in Actors, NEW s \in Symbols, NEW side \in Sides, NEW n \in Nat,
         Call(a, s, side, n)
  PROVE  order' \in [Actors -> CallType]
BY DEF TypeOK, Call, CallType

LEMMA AnswerStep ==
  ASSUME EngineAssumption, TypeOK, NEW a \in Actors, NEW pc \in {"checks", "halted", "refused", "limited", "send", "placed"},
         Answer(a, pc)
  PROVE  order' \in [Actors -> CallType]
<1>1. order[a] \in CallType
  BY DEF TypeOK
<1>2. [order[a] EXCEPT !.pc = pc] \in CallType
  BY <1>1 DEF CallType
<1> QED
  BY <1>2 DEF TypeOK, Answer

LEMMA SquareOffStep ==
  ASSUME EngineAssumption, TypeOK, NEW a \in Actors, NEW s \in Symbols, SquareOff(a, s)
  PROVE  order' \in [Actors -> CallType]
<1>1. Abs(pos[s]) \in Nat
  BY AbsNat DEF TypeOK
<1>2. CASE pos[s] > 0
  <2>1. Call(a, s, "SELL", Abs(pos[s]))
    BY <1>2 DEF SquareOff
  <2> QED
    BY <1>1, <2>1, CallStep DEF Sides
<1>3. CASE ~(pos[s] > 0)
  <2>1. Call(a, s, "BUY", Abs(pos[s]))
    BY <1>3 DEF SquareOff
  <2> QED
    BY <1>1, <2>1, CallStep DEF Sides
<1> QED
  BY <1>2, <1>3

LEMMA NoCallStep ==
  ASSUME EngineAssumption, TypeOK, NEW a \in Actors, order' = [order EXCEPT ![a] = NoCall]
  PROVE  order' \in [Actors -> CallType]
BY CallTypes DEF TypeOK

LEMMA SendTypes ==
  ASSUME EngineAssumption, TypeOK, NEW a \in Actors, Send(a)
  PROVE  /\ working' \in [Symbols -> [Sides -> Nat]]
         /\ recent' \subseteq Symbols \X Sides
         /\ order' \in [Actors -> CallType]
<1> DEFINE o == order[a]
<1>1. o.sym \in Symbols /\ o.side \in Sides /\ o.qty \in Nat
  BY DEF TypeOK, CallType
<1>2. \/ /\ working' = [working EXCEPT ![o.sym][o.side] = @ + o.qty]
         /\ recent' = recent \cup {<<o.sym, o.side>>}
         /\ Answer(a, "placed")
      \/ UNCHANGED <<working, recent>> /\ Answer(a, "refused")
  BY DEF Send
<1>3. order' \in [Actors -> CallType]
  BY <1>2, AnswerStep
<1>4. recent' \subseteq Symbols \X Sides
  BY <1>1, <1>2 DEF TypeOK
<1>5. working[o.sym] \in [Sides -> Nat] /\ working[o.sym][o.side] + o.qty \in Nat
  BY <1>1 DEF TypeOK
<1>6. [working[o.sym] EXCEPT ![o.side] = @ + o.qty] \in [Sides -> Nat]
  BY <1>5
<1>7. working \in [Symbols -> [Sides -> Nat]]
  BY DEF TypeOK
<1> HIDE DEF o
<1>8. working' \in [Symbols -> [Sides -> Nat]]
  BY <1>1, <1>2, <1>6, <1>7
<1> QED
  BY <1>3, <1>4, <1>8

LEMMA TickFields ==
  ASSUME TypeOK
  PROVE  /\ tick.todo \subseteq Symbols /\ tick.held \subseteq Symbols /\ tick.targeted \subseteq Symbols
         /\ tick.budget \in Int /\ tick.placed \in 0..MaxNewPerTick
         /\ tick.halted \in BOOLEAN /\ tick.errs \in 0..1
BY DEF TypeOK, TickType

LEMMA HeldTypes == Held \subseteq Symbols
BY DEF Held

\* What a step of the tick makes of its record.
LEMMA TickSteps ==
  ASSUME EngineAssumption, TypeOK
  PROVE  /\ \A pc \in {"targets", "exits", "exit", "held", "signals", "enter", "end"} :
              [tick EXCEPT !.pc = pc] \in TickType /\ [tick EXCEPT !.pc = pc].pc = pc
         /\ \A s \in Symbols : Done(s) \in TickType /\ Done(s).pc = "exits"
         /\ AfterExits \in {"end", "held"}
<1>1. tick \in TickType
  BY DEF TypeOK
<1> QED
  BY <1>1 DEF TickType, Done, AfterExits

LEMMA BudgetType ==
  ASSUME EngineAssumption, NEW X, NEW Y, X \subseteq Symbols, Y \subseteq Symbols
  PROVE  /\ IsFiniteSet(X \cup Y) /\ Cardinality(X \cup Y) \in Nat
         /\ Budget(X, Y) = MaxConcurrent - Cardinality(X \cup Y) /\ Budget(X, Y) \in Int
<1>1. IsFiniteSet(X \cup Y)
  BY FS_Subset DEF EngineAssumption
<1>2. Cardinality(X \cup Y) \in Nat
  BY <1>1, FS_CardinalityType
<1> QED
  BY <1>1, <1>2 DEF Budget, EngineAssumption

LEMMA PlacingTypes ==
  ASSUME EngineAssumption, TypeInv, NEW a \in Actors, Placing(a)
  PROVE  TypeInv'
<1>1. CASE Flag(a)
  <2>1. order' \in [Actors -> CallType]
    BY <1>1, AnswerStep DEF Flag, TypeInv
  <2> QED
    BY <1>1, <2>1 DEF Flag, TypeInv, TypeOK, broker
<1>2. CASE Checks(a)
  <2>1. order' \in [Actors -> CallType]
    BY <1>2, AnswerStep DEF Checks, TypeInv
  <2> QED
    BY <1>2, <2>1 DEF Checks, TypeInv, TypeOK, broker
<1>3. CASE Send(a)
  BY <1>3, SendTypes DEF Send, TypeInv, TypeOK
<1> QED
  BY <1>1, <1>2, <1>3 DEF Placing

\* All but the tick, the call and the targets.
Rest == <<enabled, mode, broker, user, errors, failed>>

LEMMA TickTypesStep ==
  ASSUME EngineAssumption, TypeInv, Tick
  PROVE  TypeInv'
<1>1. TypeOK /\ (tick.pc = "enter" => tick.placed < MaxNewPerTick) /\ tick \in TickType
  BY DEF TypeInv, TypeOK
<1>2. ASSUME UNCHANGED Rest, order' \in [Actors -> CallType], target' \subseteq Symbols,
             tick' \in TickType, tick'.pc = "enter" => tick'.placed < MaxNewPerTick
      PROVE  TypeInv'
  BY <1>1, <1>2 DEF TypeInv, TypeOK, Rest, broker
<1>3. order \in [Actors -> CallType] /\ target \subseteq Symbols
  BY <1>1 DEF TypeOK
<1>4. CASE TickStart
  <2>1. tick' \in TickType /\ tick'.pc = "loss"
    <3>1. IdleTick \in TickType
      BY TickTypes
    <3>2. ASSUME NEW t \in TickType
          PROVE  [t EXCEPT !.pc = "loss"] \in TickType /\ [t EXCEPT !.pc = "loss"].pc = "loss"
      BY DEF TickType
    <3>3. ASSUME NEW t \in TickType
          PROVE  [t EXCEPT !.errs = 1] \in TickType /\ [t EXCEPT !.errs = 1].pc = t.pc
      BY DEF TickType
    <3>4. \/ tick' = [IdleTick EXCEPT !.pc = "loss"]
          \/ tick' = [[IdleTick EXCEPT !.pc = "loss"] EXCEPT !.errs = 1]
      BY <1>4 DEF TickStart
    <3> QED
      BY <3>1, <3>2, <3>3, <3>4
  <2> QED
    BY <1>2, <1>3, <1>4, <2>1 DEF TickStart, Rest
<1>5. CASE LossCheck
  <2>1. tick' \in TickType /\ tick'.pc = "targets"
    BY <1>1, <1>5 DEF LossCheck, TickType
  <2> QED
    BY <1>1, <1>5, <2>1 DEF LossCheck, TypeInv, TypeOK, broker
<1>6. CASE ReadTargets
  <2>1. PICK found \in {target} \cup (IF MayFail THEN {{}} ELSE {}) :
          tick' = [tick EXCEPT !.todo = found, !.pc = IF found = {} THEN AfterExits ELSE "positions"]
    BY <1>6 DEF ReadTargets
  <2>2. found \subseteq Symbols
    BY <1>3
  <2>3. tick' \in TickType /\ tick'.pc /= "enter"
    BY <1>1, <2>1, <2>2 DEF TickType, AfterExits
  <2> QED
    BY <1>2, <1>3, <1>6, <2>3 DEF ReadTargets, Rest
<1>7. CASE ReadPositions
  <2>1. tick' \in TickType /\ tick'.pc /= "enter"
    BY <1>1, <1>7, HeldTypes DEF ReadPositions, TickType, AfterExits
  <2> QED
    BY <1>2, <1>3, <1>7, <2>1 DEF ReadPositions, Rest
<1>8. ASSUME NEW s \in Symbols, RetireTarget(s) \/ KeepPosition(s) \/ Exit(s)
      PROVE  TypeInv'
  <2>1. tick' \in TickType /\ tick'.pc /= "enter"
    <3>1. \/ tick' = Done(s)
          \/ tick' = [tick EXCEPT !.pc = "exit"]
      BY <1>8 DEF RetireTarget, KeepPosition, Exit
    <3> QED
      BY <1>1, <3>1, TickSteps
  <2>2. order' \in [Actors -> CallType]
    BY <1>1, <1>3, <1>8, SquareOffStep DEF RetireTarget, KeepPosition, Exit, Actors
  <2>3. target' \subseteq Symbols
    BY <1>3, <1>8 DEF RetireTarget, KeepPosition, Exit, Deactivate
  <2> QED
    BY <1>2, <1>8, <2>1, <2>2, <2>3 DEF RetireTarget, KeepPosition, Exit, Rest
<1>9. CASE AfterExit
  <2>1. order["tick"].sym \in Symbols
    BY <1>3 DEF CallType, Actors
  <2>2. tick' \in TickType /\ tick'.pc /= "enter"
    <3>1. tick' = Done(order["tick"].sym)
      BY <1>9 DEF AfterExit
    <3> QED
      BY <1>1, <2>1, <3>1, TickSteps
  <2>3. order' \in [Actors -> CallType]
    BY <1>1, <1>9, NoCallStep DEF AfterExit, Actors
  <2>4. target' \subseteq Symbols
    BY <1>3, <1>9 DEF AfterExit, Deactivate
  <2> QED
    BY <1>2, <1>9, <2>2, <2>3, <2>4 DEF AfterExit, Rest
<1>10. CASE ExitsDone
  <2>1. tick' \in TickType /\ tick'.pc /= "enter"
    BY <1>1, <1>10 DEF ExitsDone, TickType, AfterExits
  <2> QED
    BY <1>2, <1>3, <1>10, <2>1 DEF ExitsDone, Rest
<1>11. CASE ReadHeld
  <2>1. tick' \in TickType /\ tick'.pc /= "enter"
    BY <1>1, <1>11, HeldTypes DEF ReadHeld, TickType
  <2> QED
    BY <1>2, <1>3, <1>11, <2>1 DEF ReadHeld, Rest
<1>12. CASE ReadTargeted
  <2>1. PICK found \in {target} \cup (IF MayFail THEN {{}} ELSE {}) :
          tick' = [tick EXCEPT !.pc = "signals", !.targeted = found, !.budget = Budget(tick.held, found)]
    BY <1>12 DEF ReadTargeted
  <2>2. found \subseteq Symbols /\ tick.held \subseteq Symbols
    BY <1>1, <1>3 DEF TickType
  <2>3. Budget(tick.held, found) \in Int
    BY <2>2, BudgetType
  <2>4. tick' \in TickType /\ tick'.pc /= "enter"
    BY <1>1, <2>1, <2>2, <2>3 DEF TickType
  <2> QED
    BY <1>2, <1>3, <1>12, <2>4 DEF ReadTargeted, Rest
<1>13. ASSUME NEW s \in Symbols, Enter(s)
       PROVE  TypeInv'
  <2>1. tick' \in TickType /\ tick'.placed < MaxNewPerTick
    BY <1>1, <1>13 DEF Enter, MayEnter, TickType
  <2>2. order' \in [Actors -> CallType]
    BY <1>1, <1>13, CallStep DEF Enter, Actors, Sides
  <2> QED
    BY <1>2, <1>3, <1>13, <2>1, <2>2 DEF Enter, Rest
<1>14. CASE AfterEnter
  <2>1. order["tick"].sym \in Symbols
    BY <1>3 DEF CallType, Actors
  <2>2. tick.placed + 1 \in 0..MaxNewPerTick /\ tick.budget - 1 \in Int
    BY <1>1, <1>14 DEF AfterEnter, TickType, EngineAssumption
  <2>3. Entered(tick, order["tick"].sym) \in TickType
    BY <1>1, <2>1, <2>2 DEF Entered, TickType
  <2>4. tick' \in TickType /\ tick'.pc = "signals"
    BY <1>1, <1>14, <2>3 DEF AfterEnter, Entered, TickType
  <2>5. order' \in [Actors -> CallType]
    BY <1>1, <1>14, NoCallStep DEF AfterEnter, Actors
  <2>6. target' \subseteq Symbols
    BY <1>3, <1>14, <2>1 DEF AfterEnter
  <2> QED
    BY <1>2, <1>14, <2>4, <2>5, <2>6 DEF AfterEnter, Rest
<1>15. CASE EntriesDone
  <2>1. tick' \in TickType /\ tick'.pc = "end"
    BY <1>1, <1>15 DEF EntriesDone, TickType
  <2> QED
    BY <1>2, <1>3, <1>15, <2>1 DEF EntriesDone, Rest
<1>16. CASE TickEnd
  <2>1. tick' \in TickType /\ tick'.pc = "idle"
    BY <1>16, TickTypes DEF TickEnd, IdleTick
  <2>2. errors \in 0..MaxErrors /\ failed \in 0..MaxErrors /\ MaxErrors \in Nat
    BY <1>1 DEF TypeOK, EngineAssumption
  <2>3. Capped(errors + 1) \in 0..MaxErrors /\ Capped(failed + 1) \in 0..MaxErrors
    BY <2>2 DEF Capped
  <2> DEFINE count == IF tick.errs > 0 THEN Capped(errors + 1) ELSE 0
             runs  == IF tick.errs > 0 THEN Capped(failed + 1) ELSE 0
  <2>4. count \in 0..MaxErrors /\ runs \in 0..MaxErrors /\ 0 \in 0..MaxErrors
    BY <2>2, <2>3
  <2>5. \/ \E written \in BOOLEAN :
             /\ enabled' = IF written THEN FALSE ELSE enabled
             /\ errors' = AfterHalt(count, written)
             /\ failed' = IF written THEN 0 ELSE runs
        \/ errors' = count /\ failed' = runs /\ UNCHANGED enabled
    BY <1>16 DEF TickEnd
  <2>6. enabled \in BOOLEAN
    BY <1>1 DEF TypeOK
  <2> HIDE DEF count, runs
  <2>7. errors' \in 0..MaxErrors /\ failed' \in 0..MaxErrors /\ enabled' \in BOOLEAN
    BY <2>4, <2>5, <2>6 DEF AfterHalt
  <2> QED
    BY <1>1, <1>16, <2>1, <2>7 DEF TickEnd, TypeInv, TypeOK, broker
<1> QED
  BY <1>4, <1>5, <1>6, <1>7, <1>8, <1>9, <1>10, <1>11, <1>12, <1>13, <1>14, <1>15, <1>16 DEF Tick

UserType == [pc: {"idle", "cancel", "read", "each", "await"},
             kind: {"none", "exit", "all", "stop"}, todo: SUBSET Symbols]

LEMMA UserTypesStep ==
  ASSUME EngineAssumption, TypeInv, User
  PROVE  TypeInv'
<1>1. TypeOK /\ order \in [Actors -> CallType] /\ user \in UserType /\ mode \in {"live", "paper"}
  BY DEF TypeInv, TypeOK, UserType
<1>2. ASSUME UNCHANGED <<pos, recent, breached, loss, target, tick, errors, failed>>,
             enabled' \in BOOLEAN, mode' \in {"live", "paper"},
             working' \in [Symbols -> [Sides -> Nat]],
             order' \in [Actors -> CallType], user' \in UserType
      PROVE  TypeInv'
  BY <1>1, <1>2 DEF TypeInv, TypeOK, UserType
<1>3. enabled \in BOOLEAN /\ working \in [Symbols -> [Sides -> Nat]]
  BY <1>1 DEF TypeOK
<1>4. ASSUME NEW s \in Symbols, ExitPosition(s)
      PROVE  TypeInv'
  BY <1>1, <1>2, <1>3, <1>4 DEF ExitPosition, UserType, broker
<1>5. CASE SquareOffAll
  BY <1>1, <1>2, <1>3, <1>5 DEF SquareOffAll, UserType, broker
<1>6. CASE EmergencyStop
  BY <1>1, <1>2, <1>3, <1>6 DEF EmergencyStop, UserType, broker
<1>7. CASE StopCancels
  <2>1. working' \in [Symbols -> [Sides -> Nat]]
    BY <1>3, <1>7 DEF StopCancels
  <2>2. user' \in UserType
    BY <1>1, <1>7 DEF StopCancels, UserType
  <2> QED
    BY <1>1, <1>2, <1>3, <1>7, <2>1, <2>2 DEF StopCancels
<1>8. CASE ReadAll
  <2>1. user' \in UserType
    BY <1>1, <1>8, HeldTypes DEF ReadAll, UserType
  <2> QED
    BY <1>1, <1>2, <1>3, <1>8, <2>1 DEF ReadAll, broker
<1>9. ASSUME NEW s \in Symbols, ExitEach(s)
      PROVE  TypeInv'
  <2>1. user' \in UserType
    BY <1>1, <1>9 DEF ExitEach, UserType
  <2>2. order' \in [Actors -> CallType]
    BY <1>1, <1>9, SquareOffStep DEF ExitEach, Actors
  <2> QED
    BY <1>1, <1>2, <1>3, <1>9, <2>1, <2>2 DEF ExitEach, broker
<1>10. CASE AfterEach
  <2>1. user' \in UserType
    BY <1>1, <1>10 DEF AfterEach, UserType
  <2>2. order' \in [Actors -> CallType]
    BY <1>1, <1>10, NoCallStep DEF AfterEach, Actors
  <2> QED
    BY <1>1, <1>2, <1>3, <1>10, <2>1, <2>2 DEF AfterEach, broker
<1>11. CASE UserDone
  <2>1. user' \in UserType /\ mode' \in {"live", "paper"}
    BY <1>1, <1>11 DEF UserDone, IdleUser, UserType
  <2> QED
    BY <1>1, <1>2, <1>3, <1>11, <2>1 DEF UserDone, broker
<1> QED
  BY <1>4, <1>5, <1>6, <1>7, <1>8, <1>9, <1>10, <1>11 DEF User

LEMMA MarketTypes ==
  ASSUME EngineAssumption, TypeInv, Market
  PROVE  TypeInv'
<1>1. TypeOK
  BY DEF TypeInv
<1>2. ASSUME NEW s \in Symbols, NEW side \in Sides, Fill(s, side)
      PROVE  TypeInv'
  <2>1. pos[s] \in Int /\ working[s] \in [Sides -> Nat] /\ working[s][side] \in Nat
    BY <1>1 DEF TypeOK
  <2>2. working[s][side] - 1 \in Nat
    BY <1>2, <2>1 DEF Fill
  <2>3. [working[s] EXCEPT ![side] = @ - 1] \in [Sides -> Nat]
    BY <2>1, <2>2
  <2>4. working' \in [Symbols -> [Sides -> Nat]]
    BY <1>1, <1>2, <2>3 DEF Fill, TypeOK
  <2>5. pos' \in [Symbols -> Int]
    BY <1>1, <1>2, <2>1 DEF Fill, TypeOK
  <2> QED
    BY <1>1, <1>2, <2>4, <2>5 DEF Fill, TypeInv, TypeOK
<1>3. ASSUME NEW s \in Symbols, NEW side \in Sides, Reject(s, side)
      PROVE  TypeInv'
  <2>1. [working[s] EXCEPT ![side] = 0] \in [Sides -> Nat]
    BY <1>1 DEF TypeOK
  <2>2. working' \in [Symbols -> [Sides -> Nat]]
    BY <1>1, <1>3, <2>1 DEF Reject, TypeOK
  <2> QED
    BY <1>1, <1>3, <2>2 DEF Reject, TypeInv, TypeOK
<1>4. ASSUME NEW s \in Symbols, NEW side \in Sides, Ages(s, side)
      PROVE  TypeInv'
  BY <1>1, <1>4 DEF Ages, TypeInv, TypeOK
<1>5. ASSUME NEW s \in Symbols, PriceMoves(s)
      PROVE  TypeInv'
  BY <1>1, <1>5 DEF PriceMoves, TypeInv, TypeOK
<1>6. CASE LossMoves
  BY <1>1, <1>6 DEF LossMoves, TypeInv, TypeOK
<1> QED
  BY <1>2, <1>3, <1>4, <1>5, <1>6 DEF Market

LEMMA TypeInit == ASSUME EngineAssumption, Init PROVE TypeInv
<1>1. IdleUser \in UserType
  BY DEF IdleUser, UserType
<1>2. order \in [Actors -> CallType] /\ tick \in TickType
  BY CallTypes, TickTypes DEF Init
<1>3. 0 \in 0..MaxErrors
  BY DEF EngineAssumption
<1>4. pos \in [Symbols -> Int] /\ working \in [Symbols -> [Sides -> Nat]]
  BY DEF Init
<1>5. tick.pc /= "enter" /\ user = IdleUser
  BY DEF Init, IdleTick
<1> QED
  BY <1>1, <1>2, <1>3, <1>4, <1>5 DEF Init, TypeInv, TypeOK, UserType

\* Every variable keeps its type, whatever fails and however calls, ticks and fills meet; in
\* particular a tick never makes more entries than liveExecutionEngine.js:246 allows.
THEOREM Typing ==
  ASSUME EngineAssumption
  PROVE  Spec => []TypeOK
<1>1. Init => TypeInv
  BY TypeInit
<1>2. TypeInv /\ [Next]_vars => TypeInv'
  <2>1. ASSUME TypeInv, NEW on \in BOOLEAN, SetSwitch(on)
        PROVE  TypeInv'
    BY <2>1 DEF SetSwitch, TypeInv, TypeOK, broker
  <2>2. ASSUME TypeInv, UNCHANGED vars
        PROVE  TypeInv'
    BY <2>2 DEF vars, broker, TypeInv, TypeOK
  <2> QED
    BY <2>1, <2>2, PlacingTypes, TickTypesStep, UserTypesStep, MarketTypes DEF Next
<1>3. TypeInv => TypeOK
  BY DEF TypeInv
<1> QED
  BY <1>1, <1>2, <1>3, PTL DEF Spec

------------------------------------------------------------------------------
(* The dead-man's switch *)

\* The counter of the code counts what the history counts.
Counts == errors = failed

\* After enough ticks in a row whose reconcile failed trading is halted, or the counter keeps
\* the switch armed for the next tick (liveExecutionEngine.js:316-324), whatever else fails
\* and whoever turns trading on again.
THEOREM DeadManHolds ==
  ASSUME EngineAssumption
  PROVE  Spec => []DeadMan
<1>1. Init => Counts
  BY DEF Init, Counts
<1>2. ASSUME Counts, [Next]_vars
      PROVE  Counts'
  <2>1. CASE TickEnd
    <3> DEFINE count == IF tick.errs > 0 THEN Capped(errors + 1) ELSE 0
               runs  == IF tick.errs > 0 THEN Capped(failed + 1) ELSE 0
    <3>1. count = runs
      BY <1>2 DEF Counts
    <3>2. \/ \E written \in BOOLEAN : /\ errors' = AfterHalt(count, written)
                                     /\ failed' = IF written THEN 0 ELSE runs
          \/ errors' = count /\ failed' = runs
      BY <2>1 DEF TickEnd
    <3> HIDE DEF count, runs
    <3> QED
      BY <3>1, <3>2 DEF Counts, AfterHalt
  <2>2. CASE Tick /\ ~TickEnd
    BY <1>2, <2>2 DEF Counts, Tick, TickStart, LossCheck, ReadTargets, ReadPositions, AfterExit,
      ExitsDone, RetireTarget, KeepPosition, Exit, Enter, ReadHeld, ReadTargeted, AfterEnter, EntriesDone
  <2>3. CASE \E a \in Actors : Placing(a)
    BY <1>2, <2>3 DEF Counts, Placing, Flag, Checks, Send
  <2>4. CASE User
    BY <1>2, <2>4 DEF Counts, User, ExitPosition, ExitEach, SquareOffAll, EmergencyStop, StopCancels,
      ReadAll, AfterEach, UserDone
  <2>5. CASE (\E on \in BOOLEAN : SetSwitch(on)) \/ Market \/ UNCHANGED vars
    BY <1>2, <2>5 DEF Counts, SetSwitch, Market, Fill, Reject, Ages, PriceMoves, LossMoves, vars
  <2> QED
    BY <1>2, <2>1, <2>2, <2>3, <2>4, <2>5 DEF Next
<1>3. Counts /\ TypeOK => DeadMan
  BY DEF Counts, DeadMan
<1> QED
  BY <1>1, <1>2, <1>3, Typing, PTL DEF Spec

------------------------------------------------------------------------------
(* The guards of the entries *)

\* Calls do not fail, orders are done before the next tick, nobody else trades.  Orders may be
\* rejected, trading halted and resumed, the loss and the prices move at any moment.
Steady == ~MayFail /\ ~SlowFills /\ UserCalls = {}

\* The call of the running tick.
Now == order["tick"]

UserRests == user = IdleUser /\ order["user"] = NoCall

\* The call belongs to the loop that made it.
OrderFits ==
  /\ tick.pc \notin {"exit", "enter"} => Now.pc = "none"
  /\ tick.pc \in {"exit", "enter"} => Now.pc /= "none" /\ Now.qty = 1
  /\ tick.pc = "exit" => Now.side = "SELL" /\ Now.sym \in tick.todo \cap tick.held
  /\ tick.pc = "enter" =>
       Now.side = "BUY" /\ Now.sym \notin tick.held \cup tick.targeted /\ tick.budget > 0

\* What works was sent a moment ago.
Recent ==
  /\ \A s \in Symbols, side \in Sides : working[s][side] > 0 => <<s, side>> \in recent
  /\ Now.pc = "send" => <<Now.sym, Now.side>> \notin recent

Lots == \A s \in Symbols : pos[s] + working[s]["BUY"] <= 1 /\ working[s]["SELL"] <= pos[s]

Placed(s) == Now.pc = "placed" /\ Now.sym = s

\* Nothing works until the exits; what they have not come to yet has not been sold, and what is
\* being sold is held.
Phases ==
  /\ tick.pc \in {"loss", "targets", "positions"} => NothingWorks
  /\ tick.pc \in {"exits", "exit", "held"} => \A s \in Symbols : working[s]["BUY"] = 0
  /\ tick.pc \in {"exits", "exit"} =>
       Held \subseteq tick.held /\ \A s \in tick.todo : working[s]["SELL"] = 0 \/ Placed(s)
  /\ tick.pc = "exit" /\ Now.pc \in {"flag", "checks", "send"} => pos[Now.sym] = 1

\* The entries know every symbol that is held or bought, and have room left for their budget.
Counted ==
  /\ tick.pc \in {"targeted", "signals", "enter"} =>
       \A s \in Symbols : Entering(s) => s \in tick.held \/ Placed(s)
  /\ tick.pc \in {"signals", "enter"} =>
       Cardinality(tick.held \cup tick.targeted) + tick.budget <= MaxConcurrent

EntryInv ==
  UserRests /\ OrderFits /\ Recent /\ Lots /\ Phases /\ Counted /\ AtMostMaxConcurrent

LEMMA LotsBounds ==
  ASSUME TypeOK, Lots, NEW s \in Symbols
  PROVE  /\ pos[s] \in 0..1 /\ working[s]["BUY"] \in 0..1 /\ working[s]["SELL"] \in 0..1
         /\ pos[s] + working[s]["BUY"] <= 1 /\ working[s]["SELL"] <= pos[s]
<1>1. pos[s] \in Int /\ working[s]["BUY"] \in Nat /\ working[s]["SELL"] \in Nat
  BY DEF TypeOK, Sides
<1> QED
  BY <1>1 DEF Lots

\* No step makes more symbols open but an entry that is sent.
LEMMA OpenShrinks ==
  ASSUME EngineAssumption, AtMostMaxConcurrent, \A s \in Symbols : Entering(s)' => Entering(s)
  PROVE  AtMostMaxConcurrent'
<1> DEFINE Open == {s \in Symbols : Entering(s)}
           Later == {s \in Symbols : Entering(s)'}
<1>1. Later \subseteq Open /\ Open \subseteq Symbols
  OBVIOUS
<1>2. IsFiniteSet(Open)
  BY <1>1, FS_Subset DEF EngineAssumption
<1>3. IsFiniteSet(Later) /\ Cardinality(Later) <= Cardinality(Open)
  BY <1>1, <1>2, FS_Subset
<1>4. Cardinality(Later) \in Nat /\ Cardinality(Open) \in Nat /\ MaxConcurrent \in Nat
  BY <1>2, <1>3, FS_CardinalityType DEF EngineAssumption
<1>5. Cardinality(Open) <= MaxConcurrent
  BY DEF AtMostMaxConcurrent
<1> HIDE DEF Open, Later
<1>6. Cardinality(Later) <= MaxConcurrent
  BY <1>3, <1>4, <1>5
<1> QED
  BY <1>6 DEF AtMostMaxConcurrent, Later

\* A step of the tick that leaves the broker alone.
LEMMA BrokerRests ==
  ASSUME EngineAssumption, EntryInv, UNCHANGED <<pos, working, user>>, order'["user"] = order["user"]
  PROVE  /\ UserRests' /\ Lots' /\ AtMostMaxConcurrent' /\ (NothingWorks <=> NothingWorks')
         /\ Held' = Held /\ \A s \in Symbols : Entering(s)' <=> Entering(s)
<1>1. \A s \in Symbols : Entering(s)' <=> Entering(s)
  BY DEF Entering
<1>2. AtMostMaxConcurrent'
  BY <1>1, OpenShrinks DEF EntryInv
<1> QED
  BY <1>1, <1>2 DEF EntryInv, UserRests, Lots, NothingWorks, Held

LEMMA AnswerOfTick ==
  ASSUME TypeOK, NEW pc, Answer("tick", pc)
  PROVE  /\ Now'.pc = pc /\ Now'.sym = Now.sym /\ Now'.side = Now.side /\ Now'.qty = Now.qty
         /\ order'["user"] = order["user"]
<1>1. order \in [Actors -> CallType] /\ "tick" \in Actors /\ "user" \in Actors
  BY DEF TypeOK, Actors
<1>2. order["tick"] \in CallType
  BY <1>1
<1>3. order' = [order EXCEPT !["tick"] = [order["tick"] EXCEPT !.pc = pc]]
  BY DEF Answer
<1>4. order'["tick"] = [order["tick"] EXCEPT !.pc = pc] /\ order'["user"] = order["user"]
  BY <1>1, <1>3
<1> QED
  BY <1>2, <1>4 DEF Now, CallType

LEMMA NobodyElse ==
  ASSUME UserRests, Steady
  PROVE  ~User /\ ~Placing("user")
<1>1. user.pc = "idle" /\ order["user"].pc = "none"
  BY DEF UserRests, IdleUser, NoCall
<1> QED
  BY <1>1 DEF Steady, User, ExitPosition, ExitEach, SquareOffAll, EmergencyStop, StopCancels,
    ReadAll, AfterEach, UserDone, Placing, Flag, Checks, Send

LEMMA CheckingKeeps ==
  ASSUME EngineAssumption, Steady, TypeOK, EntryInv, Flag("tick") \/ Checks("tick")
  PROVE  EntryInv'
<1>1. PICK pc \in {"checks", "halted", "refused", "limited", "send"} :
        /\ Answer("tick", pc)
        /\ pc = "send" => Now.pc = "checks" /\ <<Now.sym, Now.side>> \notin recent
  BY DEF Flag, Checks, IsDuplicate, Now
<1>2. /\ Now'.pc = pc /\ Now'.sym = Now.sym /\ Now'.side = Now.side /\ Now'.qty = Now.qty
      /\ order'["user"] = order["user"]
  BY <1>1, AnswerOfTick
<1>3. UNCHANGED <<tick, pos, working, recent, user>> /\ Now.pc \in {"flag", "checks"}
  BY DEF Flag, Checks, broker, Now
<1>4. /\ UserRests' /\ Lots' /\ AtMostMaxConcurrent' /\ (NothingWorks <=> NothingWorks')
      /\ Held' = Held /\ \A s \in Symbols : Entering(s)' <=> Entering(s)
  BY <1>2, <1>3, BrokerRests
<1>5. OrderFits'
  BY <1>2, <1>3 DEF EntryInv, OrderFits
<1>6. Recent'
  BY <1>1, <1>2, <1>3 DEF EntryInv, Recent
<1>7. Phases'
  BY <1>2, <1>3, <1>4 DEF EntryInv, Phases, Placed
<1>8. Counted'
  BY <1>2, <1>3, <1>4 DEF EntryInv, Counted, Placed
<1> QED
  BY <1>4, <1>5, <1>6, <1>7, <1>8 DEF EntryInv

\* What an order that is sent adds to what works.
LEMMA SendAdds ==
  ASSUME EngineAssumption, Steady, TypeOK, EntryInv, Send("tick")
  PROVE  /\ Now.pc = "send" /\ Now.sym \in Symbols /\ Now.side \in Sides
         /\ tick.pc \in {"exit", "enter"}
         /\ Answer("tick", "placed") /\ UNCHANGED <<tick, pos, user>>
         /\ recent' = recent \cup {<<Now.sym, Now.side>>}
         /\ \A s \in Symbols, side \in Sides :
              working'[s][side] = IF s = Now.sym /\ side = Now.side THEN 1 ELSE working[s][side]
<1>1. Now.pc = "send" /\ Now.sym \in Symbols /\ Now.side \in Sides
  BY DEF Send, Now, TypeOK, CallType, Actors
<1>2. tick.pc \in {"exit", "enter"} /\ Now.qty = 1
  BY <1>1 DEF EntryInv, OrderFits
<1>3. /\ working' = [working EXCEPT ![Now.sym][Now.side] = @ + 1]
      /\ recent' = recent \cup {<<Now.sym, Now.side>>}
      /\ Answer("tick", "placed")
  BY <1>2 DEF Send, Steady, Now
<1>4. working[Now.sym][Now.side] = 0
  <2>1. working[Now.sym][Now.side] \in Nat
    BY <1>1 DEF TypeOK
  <2> QED
    BY <1>1, <2>1 DEF EntryInv, Recent
<1>5. working \in [Symbols -> [Sides -> Nat]]
  BY DEF TypeOK
<1>6. \A s \in Symbols, side \in Sides :
        working'[s][side] = IF s = Now.sym /\ side = Now.side THEN 1 ELSE working[s][side]
  BY <1>1, <1>3, <1>4, <1>5
<1> QED
  BY <1>1, <1>2, <1>3, <1>6 DEF Send

LEMMA SellingKeeps ==
  ASSUME EngineAssumption, Steady, TypeOK, EntryInv, Send("tick"), tick.pc = "exit"
  PROVE  EntryInv'
<1>1. /\ Now.pc = "send" /\ Now.sym \in Symbols /\ Now.side = "SELL" /\ Now.qty = 1
      /\ Answer("tick", "placed") /\ UNCHANGED <<tick, pos, user>>
      /\ recent' = recent \cup {<<Now.sym, "SELL">>}
      /\ Now.sym \in tick.todo \cap tick.held /\ pos[Now.sym] = 1
  BY SendAdds DEF EntryInv, OrderFits, Phases
<1>2. \A s \in Symbols : /\ working'[s]["BUY"] = working[s]["BUY"]
                         /\ working'[s]["SELL"] = IF s = Now.sym THEN 1 ELSE working[s]["SELL"]
  BY <1>1, SendAdds DEF Sides
<1>3. /\ Now'.pc = "placed" /\ Now'.sym = Now.sym /\ Now'.side = Now.side /\ Now'.qty = Now.qty
      /\ order'["user"] = order["user"]
  BY <1>1, AnswerOfTick
<1>4. \A s \in Symbols : Entering(s)' <=> Entering(s)
  BY <1>1, <1>2 DEF Entering
<1>5. AtMostMaxConcurrent'
  BY <1>4, OpenShrinks DEF EntryInv
<1>6. UserRests'
  BY <1>1, <1>3 DEF EntryInv, UserRests
<1>7. OrderFits'
  BY <1>1, <1>3 DEF EntryInv, OrderFits
<1>8. Recent'
  BY <1>1, <1>2, <1>3 DEF EntryInv, Recent, Sides
<1>9. Lots'
  BY <1>1, <1>2 DEF EntryInv, Lots
<1>10. Phases'
  <2>1. Held' = Held
    BY <1>1 DEF Held
  <2>2. tick.todo \subseteq Symbols
    BY TickFields
  <2> QED
    BY <1>1, <1>2, <1>3, <2>1, <2>2 DEF EntryInv, Phases, Placed
<1>11. Counted'
  BY <1>1, <1>3 DEF EntryInv, Counted
<1> QED
  BY <1>5, <1>6, <1>7, <1>8, <1>9, <1>10, <1>11 DEF EntryInv

\* The entry that is sent uses room that the budget kept free.
LEMMA BuyingKeeps ==
  ASSUME EngineAssumption, Steady, TypeOK, EntryInv, Send("tick"), tick.pc = "enter"
  PROVE  EntryInv'
<1>1. /\ Now.pc = "send" /\ Now.sym \in Symbols /\ Now.side = "BUY" /\ Now.qty = 1
      /\ Answer("tick", "placed") /\ UNCHANGED <<tick, pos, user>>
      /\ recent' = recent \cup {<<Now.sym, "BUY">>}
      /\ Now.sym \notin tick.held \cup tick.targeted /\ tick.budget > 0
  BY SendAdds DEF EntryInv, OrderFits
<1>2. \A s \in Symbols : /\ working'[s]["SELL"] = working[s]["SELL"]
                         /\ working'[s]["BUY"] = IF s = Now.sym THEN 1 ELSE working[s]["BUY"]
  BY <1>1, SendAdds DEF Sides
<1>3. /\ Now'.pc = "placed" /\ Now'.sym = Now.sym /\ Now'.side = Now.side /\ Now'.qty = Now.qty
      /\ order'["user"] = order["user"]
  BY <1>1, AnswerOfTick
<1>4. \A s \in Symbols : Entering(s) => s \in tick.held
  BY <1>1 DEF EntryInv, Counted, Placed
<1>5. pos[Now.sym] = 0 /\ working[Now.sym]["BUY"] = 0
  BY <1>1, <1>4, LotsBounds DEF EntryInv, Entering
<1>6. \A s \in Symbols : Entering(s)' => s \in tick.held \/ s = Now.sym
  BY <1>1, <1>2, <1>4 DEF Entering
<1>7. AtMostMaxConcurrent'
  <2> DEFINE Known == tick.held \cup tick.targeted
             Later == {s \in Symbols : Entering(s)'}
  <2>1. IsFiniteSet(Known) /\ Cardinality(Known) \in Nat
    BY TickFields, BudgetType
  <2>2. IsFiniteSet(Known \cup {Now.sym}) /\ Cardinality(Known \cup {Now.sym}) = Cardinality(Known) + 1
    BY <1>1, <2>1, FS_AddElement
  <2>3. Later \subseteq Known \cup {Now.sym}
    BY <1>6
  <2>4. IsFiniteSet(Later) /\ Cardinality(Later) <= Cardinality(Known \cup {Now.sym})
    BY <2>2, <2>3, FS_Subset
  <2>5. Cardinality(Later) \in Nat
    BY <2>4, FS_CardinalityType
  <2>6. Cardinality(Known) + tick.budget <= MaxConcurrent
    BY DEF EntryInv, Counted
  <2>7. tick.budget \in Int /\ MaxConcurrent \in Nat
    BY TickFields DEF EngineAssumption
  <2> HIDE DEF Known, Later
  <2>8. Cardinality(Later) <= MaxConcurrent
    BY <1>1, <2>1, <2>2, <2>4, <2>5, <2>6, <2>7
  <2> QED
    BY <2>8 DEF AtMostMaxConcurrent, Later
<1>8. UserRests'
  BY <1>1, <1>3 DEF EntryInv, UserRests
<1>9. OrderFits'
  BY <1>1, <1>3 DEF EntryInv, OrderFits
<1>10. Recent'
  BY <1>1, <1>2, <1>3 DEF EntryInv, Recent, Sides
<1>11. Lots'
  BY <1>1, <1>2, <1>5 DEF EntryInv, Lots
<1>12. Phases'
  BY <1>1 DEF Phases
<1>13. Counted'
  BY <1>1, <1>3, <1>6 DEF EntryInv, Counted, Placed
<1> QED
  BY <1>7, <1>8, <1>9, <1>10, <1>11, <1>12, <1>13 DEF EntryInv

\* A step of the tick has to keep what it knows: the rest follows from what it leaves alone.
LEMMA TickKeeps ==
  ASSUME EngineAssumption, TypeOK, EntryInv,
         UNCHANGED <<pos, working, recent, user>>, order'["user"] = order["user"],
         Now'.pc /= "send" \/ UNCHANGED order,
         OrderFits', Phases', Counted'
  PROVE  EntryInv'
<1>1. UserRests' /\ Lots' /\ AtMostMaxConcurrent'
  BY BrokerRests
<1>2. Recent'
  BY DEF EntryInv, Recent, Now
<1> QED
  BY <1>1, <1>2 DEF EntryInv

LEMMA ReadingKeeps ==
  ASSUME EngineAssumption, Steady, TypeOK, EntryInv,
         TickStart \/ LossCheck \/ ReadTargets \/ ReadPositions \/ ExitsDone \/ EntriesDone \/ TickEnd
  PROVE  EntryInv'
<1>1. UNCHANGED <<order, pos, working, recent, user>>
  BY DEF TickStart, LossCheck, ReadTargets, ReadPositions, ExitsDone, EntriesDone, TickEnd, broker
<1>2. Now' = Now /\ Held' = Held /\ (NothingWorks <=> NothingWorks')
      /\ \A s \in Symbols : Placed(s)' <=> Placed(s)
  BY <1>1 DEF Now, Held, NothingWorks, Placed
<1>3. tick \in TickType
  BY DEF TypeOK
<1>4. NothingWorks => \A s \in Symbols : working[s]["BUY"] = 0 /\ working[s]["SELL"] = 0
  BY DEF NothingWorks, Sides
<1>5. /\ tick.pc \notin {"exit", "enter"}
      /\ tick'.pc \in {"idle", "loss", "targets", "positions", "exits", "held", "end"}
      /\ tick'.pc \in {"loss", "targets", "positions"} =>
           NothingWorks \/ tick.pc \in {"loss", "targets", "positions"}
      /\ tick'.pc = "held" => tick.pc \in {"targets", "positions", "exits"}
      /\ tick'.pc = "exits" => tick.pc = "positions" /\ Held \subseteq tick'.held /\ tick'.todo \subseteq Symbols
  <2>1. CASE TickStart
    BY <2>1 DEF TickStart, Steady, IdleTick
  <2>2. CASE LossCheck
    BY <1>3, <2>2 DEF LossCheck, TickType
  <2>3. CASE ReadTargets
    BY <1>3, <2>3 DEF ReadTargets, TickType, AfterExits
  <2>4. CASE ReadPositions
    BY <1>3, <2>4 DEF ReadPositions, TickType, AfterExits, Steady
  <2>5. CASE ExitsDone
    BY <1>3, <2>5 DEF ExitsDone, TickType, AfterExits
  <2>6. CASE EntriesDone
    BY <1>3, <2>6 DEF EntriesDone, TickType
  <2>7. CASE TickEnd
    BY <2>7 DEF TickEnd, IdleTick
  <2> QED
    BY <2>1, <2>2, <2>3, <2>4, <2>5, <2>6, <2>7
<1>6. OrderFits'
  BY <1>2, <1>5 DEF EntryInv, OrderFits
<1>7. Phases'
  BY <1>1, <1>2, <1>4, <1>5 DEF EntryInv, Phases
<1>8. Counted'
  BY <1>5 DEF Counted
<1> QED
  BY <1>1, <1>6, <1>7, <1>8, TickKeeps

LEMMA CallOfTick ==
  ASSUME TypeOK, NEW s, NEW side, NEW n, Call("tick", s, side, n)
  PROVE  Now' = [pc |-> "flag", sym |-> s, side |-> side, qty |-> n] /\ order'["user"] = order["user"]
BY DEF TypeOK, Call, Now, Actors

LEMMA ExitsKeep ==
  ASSUME EngineAssumption, Steady, TypeOK, EntryInv, NEW s \in Symbols,
         RetireTarget(s) \/ KeepPosition(s) \/ Exit(s)
  PROVE  EntryInv'
<1>1. tick \in TickType /\ tick.pc = "exits" /\ s \in tick.todo /\ UNCHANGED <<pos, working, recent, user>>
  BY DEF TypeOK, RetireTarget, KeepPosition, Exit, broker
<1>2. Held' = Held /\ (NothingWorks <=> NothingWorks') /\ \A t \in Symbols : Entering(t)' <=> Entering(t)
  BY <1>1 DEF Held, NothingWorks, Entering
<1>3. Now.pc = "none"
  BY <1>1 DEF EntryInv, OrderFits
<1>4. CASE tick' = Done(s) /\ UNCHANGED order
  <2>1. tick'.pc = "exits" /\ tick'.todo = tick.todo \ {s} /\ tick'.held = tick.held
    BY <1>1, <1>4 DEF Done, TickType
  <2>2. Now' = Now /\ \A t \in Symbols : Placed(t)' <=> Placed(t)
    BY <1>4 DEF Now, Placed
  <2>3. OrderFits'
    BY <1>3, <2>1, <2>2 DEF OrderFits
  <2>4. Phases'
    <3>1. Held \subseteq tick.held /\ (\A t \in Symbols : working[t]["BUY"] = 0)
          /\ \A t \in tick.todo : working[t]["SELL"] = 0 \/ Placed(t)
      BY <1>1 DEF EntryInv, Phases
    <3>2. tick.todo \subseteq Symbols
      BY TickFields
    <3> QED
      BY <1>1, <1>2, <2>1, <2>2, <3>1, <3>2 DEF Phases
  <2>5. Counted'
    BY <2>1 DEF Counted
  <2> QED
    BY <1>1, <1>4, <2>3, <2>4, <2>5, TickKeeps
<1>5. CASE pos[s] /= 0 /\ SquareOff("tick", s) /\ tick' = [tick EXCEPT !.pc = "exit"] /\ s \in tick.held
  <2>1. pos[s] = 1
    BY <1>5, LotsBounds DEF EntryInv
  <2>2. Now' = [pc |-> "flag", sym |-> s, side |-> "SELL", qty |-> 1] /\ order'["user"] = order["user"]
    <3>1. Abs(pos[s]) = 1
      BY <2>1 DEF Abs
    <3>2. Call("tick", s, "SELL", 1)
      BY <1>5, <2>1, <3>1 DEF SquareOff
    <3> QED
      BY <3>2, CallOfTick
  <2>3. tick'.pc = "exit" /\ tick'.todo = tick.todo /\ tick'.held = tick.held
    BY <1>1, <1>5 DEF TickType
  <2>4. OrderFits'
    BY <1>1, <1>5, <2>2, <2>3 DEF OrderFits
  <2>5. Phases'
    <3>1. \A t \in tick.todo : working[t]["SELL"] = 0
      BY <1>1, <1>3 DEF EntryInv, Phases, Placed
    <3> QED
      BY <1>1, <1>2, <2>1, <2>2, <2>3, <3>1 DEF EntryInv, Phases, Placed
  <2>6. Counted'
    BY <2>3 DEF Counted
  <2> QED
    BY <1>1, <2>2, <2>4, <2>5, <2>6, TickKeeps
<1> QED
  BY <1>4, <1>5 DEF RetireTarget, KeepPosition, Exit

LEMMA NoCallOfTick ==
  ASSUME TypeOK, order' = [order EXCEPT !["tick"] = NoCall]
  PROVE  Now'.pc = "none" /\ order'["user"] = order["user"]
BY DEF TypeOK, NoCall, Now, Actors

LEMMA AfterExitKeeps ==
  ASSUME EngineAssumption, Steady, TypeOK, EntryInv, AfterExit
  PROVE  EntryInv'
<1>1. tick \in TickType /\ tick.pc = "exit" /\ UNCHANGED <<pos, working, recent, user>>
  BY DEF TypeOK, AfterExit, broker
<1>2. Held' = Held /\ \A t \in Symbols : Entering(t)' <=> Entering(t)
  BY <1>1 DEF Held, Entering
<1>3. Now'.pc = "none" /\ order'["user"] = order["user"]
  BY NoCallOfTick DEF AfterExit
<1>4. tick'.pc = "exits" /\ tick'.todo = tick.todo \ {Now.sym} /\ tick'.held = tick.held
  BY <1>1 DEF AfterExit, Done, TickType, Now
<1>5. OrderFits'
  BY <1>3, <1>4 DEF OrderFits
<1>6. Phases'
  BY <1>1, <1>2, <1>3, <1>4 DEF EntryInv, Phases, Placed
<1>7. Counted'
  BY <1>4 DEF Counted
<1> QED
  BY <1>1, <1>3, <1>5, <1>6, <1>7, TickKeeps

LEMMA CountingKeeps ==
  ASSUME EngineAssumption, Steady, TypeOK, TypeOK', EntryInv, ReadHeld \/ ReadTargeted
  PROVE  EntryInv'
<1>1. tick \in TickType /\ tick.pc \in {"held", "targeted"} /\ UNCHANGED <<order, pos, working, recent, user>>
  BY DEF TypeOK, ReadHeld, ReadTargeted, broker
<1>2. Held' = Held /\ (\A s \in Symbols : Entering(s)' <=> Entering(s))
      /\ Now' = Now /\ \A s \in Symbols : Placed(s)' <=> Placed(s)
  BY <1>1 DEF Held, Entering, Now, Placed
<1>3. Now.pc = "none"
  BY <1>1 DEF EntryInv, OrderFits
<1>4. CASE ReadHeld
  <2>1. tick.pc = "held" /\ tick'.pc = "targeted" /\ tick'.held = Held
    BY <1>1, <1>4 DEF ReadHeld, Steady, TickType
  <2>2. \A s \in Symbols : working[s]["BUY"] = 0
    BY <2>1 DEF EntryInv, Phases
  <2>3. \A s \in Symbols : Entering(s) => s \in Held
    BY <2>2 DEF Entering, Held
  <2>4. OrderFits' /\ Phases'
    BY <1>2, <1>3, <2>1 DEF OrderFits, Phases
  <2>5. Counted'
    BY <1>2, <2>1, <2>3 DEF Counted
  <2> QED
    BY <1>1, <2>4, <2>5, TickKeeps
<1>5. CASE ReadTargeted
  <2>1. tick'.pc = "signals" /\ tick'.held = tick.held /\ tick'.targeted = target
        /\ tick'.budget = Budget(tick.held, target) /\ tick.pc = "targeted"
    <3>1. tick' = [tick EXCEPT !.pc = "signals", !.targeted = target, !.budget = Budget(tick.held, target)]
      BY <1>5 DEF ReadTargeted, Steady
    <3> QED
      BY <1>1, <1>5, <3>1 DEF ReadTargeted, TickType
  <2>2. OrderFits' /\ Phases'
    BY <1>2, <1>3, <2>1 DEF OrderFits, Phases
  <2>3. Cardinality(tick.held \cup target) \in Nat /\ MaxConcurrent \in Nat
        /\ Budget(tick.held, target) = MaxConcurrent - Cardinality(tick.held \cup target)
    BY TickFields, BudgetType DEF TypeOK, EngineAssumption
  <2>4. Counted'
    <3>1. Cardinality(tick'.held \cup tick'.targeted) + tick'.budget <= MaxConcurrent
      BY <2>1, <2>3
    <3> QED
      BY <1>2, <2>1, <3>1 DEF EntryInv, Counted
  <2> QED
    BY <1>1, <2>2, <2>4, TickKeeps
<1> QED
  BY <1>4, <1>5

LEMMA EnterKeeps ==
  ASSUME EngineAssumption, Steady, TypeOK, EntryInv, NEW s \in Symbols, Enter(s)
  PROVE  EntryInv'
<1>1. tick \in TickType /\ tick.pc = "signals" /\ UNCHANGED <<pos, working, recent, user>>
      /\ s \notin tick.held \cup tick.targeted /\ tick.budget > 0
  BY DEF TypeOK, Enter, MayEnter, broker
<1>2. Now' = [pc |-> "flag", sym |-> s, side |-> "BUY", qty |-> 1] /\ order'["user"] = order["user"]
  BY CallOfTick DEF Enter
<1>3. tick'.pc = "enter" /\ tick'.held = tick.held /\ tick'.targeted = tick.targeted
      /\ tick'.budget = tick.budget
  BY <1>1 DEF Enter, TickType
<1>4. \A t \in Symbols : Entering(t)' => t \in tick.held
  <2>1. Now.pc = "none"
    BY <1>1 DEF EntryInv, OrderFits
  <2> QED
    BY <1>1, <2>1 DEF EntryInv, Counted, Placed, Entering
<1>5. OrderFits' /\ Phases'
  BY <1>1, <1>2, <1>3 DEF OrderFits, Phases
<1>6. Counted'
  BY <1>1, <1>3, <1>4 DEF EntryInv, Counted
<1> QED
  BY <1>1, <1>2, <1>5, <1>6, TickKeeps

LEMMA AfterEnterKeeps ==
  ASSUME EngineAssumption, Steady, TypeOK, EntryInv, AfterEnter
  PROVE  EntryInv'
<1>1. tick \in TickType /\ tick.pc = "enter" /\ UNCHANGED <<pos, working, recent, user>>
  BY DEF TypeOK, AfterEnter, broker
<1>2. Now'.pc = "none" /\ order'["user"] = order["user"]
  BY NoCallOfTick DEF AfterEnter
<1>3. \A t \in Symbols : Entering(t)' <=> Entering(t)
  BY <1>1 DEF Entering
<1>4. CASE Now.pc = "placed"
  <2>1. tick' = Entered(tick, Now.sym)
    BY <1>4 DEF AfterEnter, Steady, Now
  <2>2. tick'.pc = "signals" /\ tick'.held = tick.held \cup {Now.sym}
        /\ tick'.targeted = tick.targeted /\ tick'.budget = tick.budget - 1
    BY <1>1, <2>1 DEF Entered, TickType
  <2>3. OrderFits' /\ Phases'
    BY <1>2, <2>2 DEF OrderFits, Phases
  <2>4. Cardinality(tick'.held \cup tick'.targeted) + tick'.budget <= MaxConcurrent
    <3> DEFINE Known == tick.held \cup tick.targeted
    <3>1. IsFiniteSet(Known) /\ Cardinality(Known) \in Nat
      BY TickFields, BudgetType
    <3>2. Now.sym \notin Known
      BY <1>1 DEF EntryInv, OrderFits
    <3>3. Cardinality(Known \cup {Now.sym}) = Cardinality(Known) + 1
      BY <3>1, <3>2, FS_AddElement
    <3>4. tick'.held \cup tick'.targeted = Known \cup {Now.sym}
      BY <2>2
    <3>5. Cardinality(Known) + tick.budget <= MaxConcurrent
      BY <1>1 DEF EntryInv, Counted
    <3>6. tick.budget \in Int /\ MaxConcurrent \in Nat
      BY TickFields DEF EngineAssumption
    <3>7. tick'.budget = tick.budget - 1
      BY <2>2
    <3>8. Cardinality(tick'.held \cup tick'.targeted) = Cardinality(Known) + 1
      BY <3>3, <3>4
    <3> HIDE DEF Known
    <3> QED
      BY <3>1, <3>5, <3>6, <3>7, <3>8
  <2>5. Counted'
    BY <1>1, <1>3, <2>2, <2>4 DEF EntryInv, Counted, Placed
  <2> QED
    BY <1>1, <1>2, <2>3, <2>5, TickKeeps
<1>5. CASE Now.pc /= "placed"
  <2>1. tick'.pc = "signals" /\ tick'.held = tick.held
        /\ tick'.targeted = tick.targeted /\ tick'.budget = tick.budget
    BY <1>1, <1>5 DEF AfterEnter, Now, TickType
  <2>2. OrderFits' /\ Phases'
    BY <1>2, <2>1 DEF OrderFits, Phases
  <2>3. Counted'
    BY <1>1, <1>3, <1>5, <2>1 DEF EntryInv, Counted, Placed
  <2> QED
    BY <1>1, <1>2, <2>2, <2>3, TickKeeps
<1> QED
  BY <1>4, <1>5

\* What a fill, a rejection and the clock do to the lots.
LEMMA MarketKeeps ==
  ASSUME EngineAssumption, Steady, TypeOK, EntryInv, Market
  PROVE  EntryInv'
<1>1. UNCHANGED <<order, tick, user>>
  BY DEF Market, Fill, Reject, Ages, PriceMoves, LossMoves
<1>2. UserRests' /\ OrderFits' /\ \A s \in Symbols : Placed(s)' <=> Placed(s)
  BY <1>1 DEF EntryInv, UserRests, OrderFits, Now, Placed
<1>3. tick.todo \subseteq Symbols
  BY TickFields
<1>4. \A s \in Symbols :
        /\ pos[s] \in 0..1 /\ working[s]["BUY"] \in 0..1 /\ working[s]["SELL"] \in 0..1
        /\ pos[s] + working[s]["BUY"] <= 1 /\ working[s]["SELL"] <= pos[s]
  BY LotsBounds DEF EntryInv
<1>5. ASSUME recent' \subseteq recent,
             \A s \in Symbols, side \in Sides :
               /\ working'[s][side] = working[s][side] \/ working'[s][side] = 0
               /\ <<s, side>> \in recent \ recent' => working'[s][side] = 0,
             \A s \in Symbols :
               \/ pos'[s] = pos[s]
               \/ working[s]["BUY"] = 1 /\ working'[s]["BUY"] = 0 /\ pos'[s] = pos[s] + 1
                  /\ working'[s]["SELL"] = working[s]["SELL"]
               \/ working[s]["SELL"] = 1 /\ working'[s]["SELL"] = 0 /\ pos'[s] = pos[s] - 1
                  /\ working'[s]["BUY"] = working[s]["BUY"]
      PROVE  EntryInv'
  <2>1. \A s \in Symbols : /\ working'[s]["BUY"] = working[s]["BUY"] \/ working'[s]["BUY"] = 0
                           /\ working'[s]["SELL"] = working[s]["SELL"] \/ working'[s]["SELL"] = 0
    BY <1>5 DEF Sides
  <2>2. \A s \in Symbols : Entering(s)' => Entering(s)
    BY <1>4, <1>5, <2>1 DEF Entering
  <2>3. AtMostMaxConcurrent'
    BY <2>2, OpenShrinks DEF EntryInv
  <2>4. Lots'
    BY <1>4, <1>5, <2>1 DEF Lots
  <2>5. Recent'
    BY <1>1, <1>5 DEF EntryInv, Recent, Now
  <2>6. Phases'
    <3>1. NothingWorks => NothingWorks'
      BY <1>5 DEF NothingWorks
    <3>2. (\A s \in Symbols : working[s]["BUY"] = 0) =>
             (\A s \in Symbols : working'[s]["BUY"] = 0) /\ Held' \subseteq Held
      BY <1>4, <1>5, <2>1 DEF Held
    <3>3. ASSUME tick.pc = "exit", Now.pc \in {"flag", "checks", "send"}
          PROVE  pos'[Now.sym] = 1
      <4>1. Now.sym \in Symbols /\ pos[Now.sym] = 1 /\ working[Now.sym]["SELL"] = 0 /\ working[Now.sym]["BUY"] = 0
        BY <1>3, <3>3 DEF EntryInv, OrderFits, Phases, Placed
      <4> QED
        BY <1>5, <4>1
    <3> QED
      BY <1>1, <1>2, <1>3, <2>1, <3>1, <3>2, <3>3 DEF EntryInv, Phases, Now
  <2>7. Counted'
    BY <1>1, <1>2, <2>2 DEF EntryInv, Counted
  <2> QED
    BY <1>2, <2>3, <2>4, <2>5, <2>6, <2>7 DEF EntryInv
<1>6. working \in [Symbols -> [Sides -> Nat]] /\ pos \in [Symbols -> Int] /\ "BUY" \in Sides /\ "SELL" \in Sides
  BY DEF TypeOK, Sides
<1>7. ASSUME NEW s \in Symbols, NEW side \in Sides, Fill(s, side)
      PROVE  EntryInv'
  <2>1. working[s][side] = 1
    BY <1>4, <1>7 DEF Fill, Sides
  <2>2. \A t \in Symbols, d \in Sides :
          working'[t][d] = IF t = s /\ d = side THEN 0 ELSE working[t][d]
    BY <1>6, <1>7, <2>1 DEF Fill
  <2>3. \A t \in Symbols :
          pos'[t] = IF t = s THEN (IF side = "BUY" THEN pos[s] + 1 ELSE pos[s] - 1) ELSE pos[t]
    BY <1>6, <1>7 DEF Fill
  <2>4. side \in {"BUY", "SELL"} /\ recent' = recent
    BY <1>7 DEF Fill, Sides
  <2> QED
    BY <1>5, <1>6, <2>1, <2>2, <2>3, <2>4
<1>8. ASSUME NEW s \in Symbols, NEW side \in Sides, Reject(s, side)
      PROVE  EntryInv'
  <2>1. \A t \in Symbols, d \in Sides :
          working'[t][d] = IF t = s /\ d = side THEN 0 ELSE working[t][d]
    BY <1>6, <1>8 DEF Reject
  <2>2. pos' = pos /\ recent' = recent
    BY <1>8 DEF Reject
  <2> QED
    BY <1>5, <2>1, <2>2
<1>9. ASSUME NEW s \in Symbols, NEW side \in Sides, Ages(s, side)
      PROVE  EntryInv'
  BY <1>5, <1>9 DEF Ages, Steady
<1>10. CASE LossMoves \/ \E s \in Symbols : PriceMoves(s)
  BY <1>5, <1>10 DEF LossMoves, PriceMoves
<1> QED
  BY <1>7, <1>8, <1>9, <1>10 DEF Market

LEMMA EntryInit == ASSUME EngineAssumption, Init PROVE EntryInv
<1>1. UserRests /\ Now.pc = "none" /\ tick.pc = "idle"
  BY DEF Init, UserRests, Now, NoCall, Actors, IdleTick
<1>2. \A s \in Symbols : pos[s] = 0 /\ \A side \in Sides : working[s][side] = 0
  BY DEF Init
<1>3. {s \in Symbols : Entering(s)} = {}
  BY <1>2 DEF Entering, Sides
<1>4. AtMostMaxConcurrent
  BY <1>3, FS_EmptySet DEF AtMostMaxConcurrent, EngineAssumption
<1>5. OrderFits /\ Recent /\ Phases /\ Counted
  BY <1>1, <1>2 DEF OrderFits, Recent, Phases, Counted
<1>6. Lots
  BY <1>2 DEF Lots, Sides
<1> QED
  BY <1>1, <1>4, <1>5, <1>6 DEF EntryInv

LEMMA EntryStep ==
  ASSUME EngineAssumption, Steady, TypeOK, TypeOK', EntryInv, [Next]_vars
  PROVE  EntryInv'
<1>1. CASE Tick
  BY <1>1, ReadingKeeps, ExitsKeep, AfterExitKeeps, CountingKeeps, EnterKeeps, AfterEnterKeeps DEF Tick
<1>2. CASE \E a \in Actors : Placing(a)
  <2>1. Placing("tick")
    BY <1>2, NobodyElse DEF Actors, EntryInv
  <2>2. CASE Send("tick")
    <3>1. tick.pc \in {"exit", "enter"}
      BY <2>2, SendAdds
    <3> QED
      BY <2>2, <3>1, SellingKeeps, BuyingKeeps
  <2> QED
    BY <2>1, <2>2, CheckingKeeps DEF Placing
<1>3. CASE User
  BY <1>3, NobodyElse DEF EntryInv
<1>4. CASE Market
  BY <1>4, MarketKeeps
<1>5. CASE (\E on \in BOOLEAN : SetSwitch(on)) \/ UNCHANGED vars
  <2>1. UNCHANGED <<pos, working, recent, user, order, tick>>
    BY <1>5 DEF SetSwitch, vars, broker
  <2> QED
    BY <2>1 DEF EntryInv, UserRests, OrderFits, Recent, Lots, Phases, Counted, AtMostMaxConcurrent,
      Now, Placed, NothingWorks, Held, Entering
<1> QED
  BY <1>1, <1>2, <1>3, <1>4, <1>5 DEF Next

\* While calls do not fail and nobody else trades the engine never has more symbols open or
\* being opened than it may (liveExecutionEngine.js:222-224 and 246-247), and enters no symbol
\* that is held or being bought (201-204 and 210): what it read of the positions before the
\* first entry stays true until the last one.
THEOREM EntriesRight ==
  ASSUME EngineAssumption, Steady
  PROVE  Spec => [](AtMostMaxConcurrent /\ NoDoubleEntry)
<1>1. Init => EntryInv
  BY EntryInit
<1>2. TypeOK /\ TypeOK' /\ EntryInv /\ [Next]_vars => EntryInv'
  BY EntryStep
<1>3. EntryInv => AtMostMaxConcurrent /\ NoDoubleEntry
  BY DEF EntryInv, Lots, NoDoubleEntry
<1> QED
  BY <1>1, <1>2, <1>3, Typing, PTL DEF Spec

------------------------------------------------------------------------------
(* Brackets *)

\* What is being sold is sold as a whole.
Sold == tick.pc = "exit" /\ Now.pc = "placed" => pos[Now.sym] = working[Now.sym]["SELL"]

\* Bracketed, of a symbol whose entry still works as well.
Brackets ==
  \A s \in Symbols : Entering(s) =>
    s \in target \/ working[s]["SELL"] > 0 \/ (tick.pc = "enter" /\ Placed(s))

\* A step that moves no lot and retires no target.
LEMMA NothingLost ==
  ASSUME Sold, Brackets, UNCHANGED <<pos, working>>, target \subseteq target',
         tick.pc = "enter" => tick'.pc = "enter" /\ \A s \in Symbols : Placed(s) => Placed(s)',
         tick'.pc = "exit" /\ Now'.pc = "placed" =>
           tick.pc = "exit" /\ Now.pc = "placed" /\ Now'.sym = Now.sym
  PROVE  Sold' /\ Brackets'
BY DEF Sold, Brackets, Entering

LEMMA BracketsTick ==
  ASSUME EngineAssumption, Steady, ~Rejections, TypeOK, EntryInv, EntryInv', Sold, Brackets, Tick
  PROVE  Sold' /\ Brackets'
<1>1. tick \in TickType /\ UNCHANGED <<pos, working>>
  BY DEF TypeOK, Tick, TickStart, LossCheck, ReadTargets, ReadPositions, AfterExit, ExitsDone,
    RetireTarget, KeepPosition, Exit, Enter, ReadHeld, ReadTargeted, AfterEnter, EntriesDone, TickEnd, broker
<1>2. CASE TickStart \/ LossCheck \/ ReadTargets \/ ReadPositions \/ ExitsDone \/ ReadHeld
           \/ ReadTargeted \/ EntriesDone \/ TickEnd
  <2>1. tick.pc /= "enter" /\ target' = target
    BY <1>2 DEF TickStart, LossCheck, ReadTargets, ReadPositions, ExitsDone, ReadHeld, ReadTargeted,
      EntriesDone, TickEnd
  <2>2. tick'.pc /= "exit"
    <3>1. CASE TickStart
      BY <3>1 DEF IdleTick, TickStart, Steady
    <3>2. CASE TickEnd
      <4>1. tick' = IdleTick
        BY <3>2 DEF TickEnd
      <4> QED
        BY <4>1 DEF IdleTick
    <3>3. CASE LossCheck \/ ReadPositions \/ ExitsDone
      BY <1>1, <3>3 DEF TickType, AfterExits, LossCheck, ReadPositions, ExitsDone
    <3>4. CASE ReadTargets
      BY <1>1, <3>4 DEF TickType, AfterExits, ReadTargets
    <3>5. CASE ReadHeld \/ ReadTargeted \/ EntriesDone
      BY <1>1, <3>5 DEF TickType, ReadHeld, ReadTargeted, EntriesDone
    <3> QED
      BY <1>2, <3>1, <3>2, <3>3, <3>4, <3>5
  <2> QED
    BY <1>1, <2>1, <2>2, NothingLost
<1>3. ASSUME NEW s \in Symbols, KeepPosition(s) \/ Exit(s) \/ Enter(s)
      PROVE  Sold' /\ Brackets'
  <2>1. tick.pc /= "enter" /\ target' = target
    BY <1>3 DEF KeepPosition, Exit, Enter
  <2>2. tick'.pc = "exit" => Now'.pc = "flag"
    <3>1. CASE Exit(s) /\ SquareOff("tick", s)
      BY <3>1, CallOfTick DEF SquareOff
    <3>2. CASE ~(Exit(s) /\ SquareOff("tick", s))
      BY <1>1, <1>3, <3>2 DEF KeepPosition, Exit, Enter, Done, TickType
    <3> QED
      BY <3>1, <3>2
  <2> QED
    BY <1>1, <2>1, <2>2, NothingLost
<1>4. ASSUME NEW s \in Symbols, RetireTarget(s)
      PROVE  Sold' /\ Brackets'
  <2>1. tick.pc = "exits" /\ s \notin tick.held /\ target' = target \ {s} /\ tick'.pc = "exits"
    BY <1>1, <1>4 DEF RetireTarget, Deactivate, Steady, Done, TickType
  <2>2. ~Entering(s)
    BY <2>1 DEF EntryInv, Phases, Held, Entering
  <2> QED
    BY <1>1, <2>1, <2>2 DEF Sold, Brackets, Entering
<1>5. CASE AfterExit
  <2>1. tick.pc = "exit" /\ tick'.pc = "exits"
    BY <1>1, <1>5 DEF AfterExit, Done, TickType
  <2>2. CASE Now.pc = "placed"
    <3>1. target' = target \ {Now.sym} /\ Now.sym \in Symbols
      BY <1>5, <2>2 DEF AfterExit, Retires, Deactivate, Steady, Now, TypeOK, CallType, Actors
    <3>2. Entering(Now.sym) => working[Now.sym]["SELL"] > 0
      <4>1. working[Now.sym]["BUY"] = 0 /\ pos[Now.sym] = working[Now.sym]["SELL"]
        BY <2>1, <2>2, <3>1 DEF EntryInv, Phases, Sold
      <4> QED
        BY <3>1, <4>1, LotsBounds DEF EntryInv, Entering
    <3> QED
      BY <1>1, <2>1, <3>1, <3>2 DEF Sold, Brackets, Entering
  <2>3. CASE Now.pc /= "placed"
    <3>1. target' = target
      BY <1>5, <2>3 DEF AfterExit, Retires, Now
    <3> QED
      BY <1>1, <2>1, <3>1, NothingLost
  <2> QED
    BY <2>2, <2>3
<1>6. CASE AfterEnter
  <2>1. tick.pc = "enter" /\ tick'.pc = "signals"
    BY <1>1, <1>6 DEF AfterEnter, Entered, TickType
  <2>2. \A s \in Symbols : s \in target \/ Placed(s) => s \in target'
    BY <1>6 DEF AfterEnter, Steady, Placed, Now
  <2> QED
    BY <1>1, <2>1, <2>2 DEF Sold, Brackets, Entering
<1> QED
  BY <1>2, <1>3, <1>4, <1>5, <1>6 DEF Tick

LEMMA BracketsOrders ==
  ASSUME EngineAssumption, Steady, ~Rejections, TypeOK, EntryInv, Sold, Brackets, Placing("tick")
  PROVE  Sold' /\ Brackets'
<1>1. CASE Flag("tick") \/ Checks("tick")
  <2>1. PICK pc \in {"checks", "halted", "refused", "limited", "send"} : Answer("tick", pc)
    BY <1>1 DEF Flag, Checks
  <2>2. Now'.pc /= "placed" /\ Now.pc \in {"flag", "checks"} /\ UNCHANGED <<tick, target, pos, working>>
    BY <1>1, <2>1, AnswerOfTick DEF Flag, Checks, broker, Now
  <2> QED
    BY <2>2, NothingLost DEF Placed
<1>2. CASE Send("tick")
  <2>1. /\ Now.pc = "send" /\ Now.sym \in Symbols /\ tick.pc \in {"exit", "enter"}
        /\ UNCHANGED <<tick, pos, target>>
        /\ Now'.pc = "placed" /\ Now'.sym = Now.sym
    BY <1>2, SendAdds, AnswerOfTick DEF Send
  <2>2. \A s \in Symbols, side \in Sides :
          working'[s][side] = IF s = Now.sym /\ side = Now.side THEN 1 ELSE working[s][side]
    BY <1>2, SendAdds
  <2>3. Sold'
    <3>1. tick.pc = "exit" => Now.side = "SELL" /\ pos[Now.sym] = 1
      BY <2>1 DEF EntryInv, OrderFits, Phases
    <3> QED
      BY <2>1, <2>2, <3>1 DEF Sold, Sides
  <2>4. ASSUME NEW s \in Symbols, Entering(s)'
        PROVE  s \in target \/ working'[s]["SELL"] > 0 \/ (tick.pc = "enter" /\ Placed(s)')
    <3>1. CASE s = Now.sym /\ tick.pc = "enter"
      BY <2>1, <3>1 DEF Placed
    <3>2. CASE s = Now.sym /\ tick.pc = "exit"
      BY <2>1, <2>2, <3>2 DEF EntryInv, OrderFits, Sides
    <3>3. CASE s /= Now.sym
      <4>1. working'[s]["BUY"] = working[s]["BUY"] /\ working'[s]["SELL"] = working[s]["SELL"]
        BY <2>2, <3>3 DEF Sides
      <4> QED
        BY <2>1, <2>4, <4>1 DEF Brackets, Entering, Placed
    <3> QED
      BY <2>1, <3>1, <3>2, <3>3
  <2> QED
    BY <2>1, <2>3, <2>4 DEF Brackets
<1> QED
  BY <1>1, <1>2 DEF Placing

LEMMA BracketsMarket ==
  ASSUME EngineAssumption, Steady, ~Rejections, TypeOK, EntryInv, Sold, Brackets, Market
  PROVE  Sold' /\ Brackets'
<1>1. UNCHANGED <<order, tick, target>>
  BY DEF Market, Fill, Reject, Ages, PriceMoves, LossMoves
<1>2. CASE UNCHANGED <<pos, working>>
  BY <1>1, <1>2, NothingLost DEF Now, Placed
<1>3. ASSUME NEW s \in Symbols, NEW side \in Sides, Fill(s, side)
      PROVE  Sold' /\ Brackets'
  <2>1. working \in [Symbols -> [Sides -> Nat]] /\ pos \in [Symbols -> Int] /\ "BUY" \in Sides /\ "SELL" \in Sides
    BY DEF TypeOK, Sides
  <2>2. \A t \in Symbols, d \in Sides :
          working'[t][d] = IF t = s /\ d = side THEN working[t][d] - 1 ELSE working[t][d]
    BY <1>3, <2>1 DEF Fill
  <2>3. \A t \in Symbols :
          pos'[t] = IF t = s THEN (IF side = "BUY" THEN pos[s] + 1 ELSE pos[s] - 1) ELSE pos[t]
    BY <1>3, <2>1 DEF Fill
  <2>4. side \in {"BUY", "SELL"} /\ working[s][side] > 0
    BY <1>3 DEF Fill, Sides
  <2>5. \A t \in Symbols :
          /\ pos[t] \in 0..1 /\ working[t]["BUY"] \in 0..1 /\ working[t]["SELL"] \in 0..1
          /\ pos[t] + working[t]["BUY"] <= 1 /\ working[t]["SELL"] <= pos[t]
    BY LotsBounds DEF EntryInv
  <2>6. Sold'
    <3>1. ASSUME tick.pc = "exit", Now.pc = "placed"
          PROVE  pos'[Now.sym] = working'[Now.sym]["SELL"]
      <4>1. Now.sym \in Symbols
        BY DEF TypeOK, CallType, Actors, Now
      <4>2. pos[Now.sym] = working[Now.sym]["SELL"] /\ working[Now.sym]["BUY"] = 0
        BY <3>1, <4>1 DEF Sold, EntryInv, Phases
      <4>3. CASE Now.sym = s
        <5>1. side = "SELL"
          BY <2>4, <4>2, <4>3
        <5>2. working'[s]["SELL"] = working[s]["SELL"] - 1 /\ pos'[s] = pos[s] - 1
          BY <2>1, <2>2, <2>3, <5>1
        <5> QED
          BY <4>2, <4>3, <5>2
      <4>4. CASE Now.sym /= s
        BY <2>1, <2>2, <2>3, <4>1, <4>2, <4>4
      <4> QED
        BY <4>3, <4>4
    <3> QED
      BY <1>1, <3>1 DEF Sold, Now
  <2>7. ASSUME NEW t \in Symbols, Entering(t)'
        PROVE  t \in target \/ working'[t]["SELL"] > 0 \/ (tick.pc = "enter" /\ Placed(t))
    <3>1. CASE t = s /\ side = "SELL"
      <4>1. pos'[t] = 0 /\ working'[t]["BUY"] = 0
        BY <2>1, <2>2, <2>3, <2>4, <2>5, <3>1
      <4> QED
        BY <2>7, <4>1 DEF Entering
    <3>2. CASE ~(t = s /\ side = "SELL")
      <4>1. working'[t]["SELL"] = working[t]["SELL"]
        BY <2>1, <2>2, <3>2
      <4>2. Entering(t)
        <5>1. CASE t = s
          BY <2>4, <3>2, <5>1 DEF Entering
        <5>2. CASE t /= s
          BY <2>1, <2>2, <2>3, <2>7, <5>2 DEF Entering
        <5> QED
          BY <5>1, <5>2
      <4> QED
        BY <4>1, <4>2 DEF Brackets
    <3> QED
      BY <3>1, <3>2
  <2> QED
    BY <1>1, <2>6, <2>7 DEF Brackets, Placed, Now
<1> QED
  BY <1>2, <1>3 DEF Market, Reject, Ages, PriceMoves, LossMoves

LEMMA BracketsStep ==
  ASSUME EngineAssumption, Steady, ~Rejections, TypeOK, EntryInv, EntryInv', Sold, Brackets, [Next]_vars
  PROVE  Sold' /\ Brackets'
<1>1. CASE \E a \in Actors : Placing(a)
  BY <1>1, BracketsOrders, NobodyElse DEF Actors, EntryInv
<1>2. CASE User
  BY <1>2, NobodyElse DEF EntryInv
<1>3. CASE (\E on \in BOOLEAN : SetSwitch(on)) \/ UNCHANGED vars
  <2>1. UNCHANGED <<pos, working, target, order, tick>>
    BY <1>3 DEF SetSwitch, vars, broker
  <2> QED
    BY <2>1, NothingLost DEF Now, Placed
<1> QED
  BY <1>1, <1>2, <1>3, BracketsTick, BracketsMarket DEF Next

\* With an exchange that rejects nothing besides, a symbol that is held or being bought always
\* has an exit: its target is active, its exit works, or the tick that bought it is about to
\* write the target (liveExecutionEngine.js:119-161 and 201-260).
THEOREM EntriesAreGuarded ==
  ASSUME EngineAssumption, Steady, ~Rejections
  PROVE  Spec => []EntriesGuarded
<1> DEFINE Guard == EntryInv /\ Sold /\ Brackets
<1>1. Init => Guard
  <2>1. ASSUME Init
        PROVE  tick.pc = "idle" /\ \A s \in Symbols : ~Entering(s)
    BY <2>1 DEF Init, IdleTick, Entering, Sides
  <2> QED
    BY <2>1, EntryInit DEF Sold, Brackets
<1>2. TypeOK /\ TypeOK' /\ Guard /\ [Next]_vars => Guard'
  BY EntryStep, BracketsStep
<1>3. TypeOK /\ Guard => EntriesGuarded
  <2>1. ASSUME TypeOK, Guard
        PROVE  Bracketed
    BY <2>1 DEF Brackets, Bracketed, Entering, Placed, Now
  <2> QED
    BY <2>1 DEF EntriesGuarded, EntryInv, Lots, NoDoubleEntry
<1> HIDE DEF Guard
<1> QED
  BY <1>1, <1>2, <1>3, Typing, PTL DEF Spec

=============================================================================
