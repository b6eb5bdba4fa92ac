------------------------------ MODULE AutoPaper ------------------------------
(***************************************************************************)
(* autoPaperTrader: passes over a user's paper portfolio, started by the    *)
(* scheduler and by requests, so that two may overlap.  A pass first closes *)
(* positions, then opens new ones; it works on copies of the portfolio it   *)
(* read, awaits prices and candles in between, and keeps the stop and the   *)
(* opening time of its own entries in memory (_brackets).  A sale or a      *)
(* purchase is one transaction of the portfolio (module PaperPortfolio).    *)
(* Prices are integers; quantities are left out, a position is closed or    *)
(* opened whole.                                                            *)
(***************************************************************************)
EXTENDS FiniteSets, Integers

CONSTANTS
  Symbols, Passes,
  Prices,     \* quotes from a live provider
  Max,        \* MAX_POSITIONS
  MinHold,    \* MIN_HOLD_MS, in ticks
  MaxClock,   \* bound
  MaxLives,   \* bound: processes that run one after the other
  None

AutoPaperAssumption ==
  /\ Prices \subseteq Nat \ {0} /\ Max \in Nat \ {0} /\ MinHold \in Nat
  /\ MaxClock \in Nat /\ MaxLives \in Nat \ {0}

VARIABLES
  held,       \* the portfolio: positions by symbol, with who opened them and when
  brackets,   \* _brackets
  pass,       \* the passes
  clock,
  life        \* number of the running process

vars == <<held, brackets, pass, clock, life>>

Positions == [entry : Prices, by : {"auto", "user"}, at : 0..MaxClock, life : 1..MaxLives]
\* The price of the entry, 5 % under which the stop is, and openedAt.
Brackets == [entry : Prices, at : 0..MaxClock]
Places == {"idle", "exits", "signal", "sell", "sold", "reread", "entries", "buy", "bought"}
NotHeld == [s \in Symbols |-> None]

\* seen: the entry prices of the copy of the portfolio; todo: symbols the loop has
\* yet to reach; sym, price: the symbol under way and its quote; count: openCount.
Idle == [at |-> "idle", seen |-> NotHeld, todo |-> {}, sym |-> None, price |-> None, count |-> 0]

TypeOK ==
  /\ held \in [Symbols -> Positions \cup {None}] /\ brackets \in [Symbols -> Brackets \cup {None}]
  /\ clock \in 0..MaxClock /\ life \in 1..MaxLives
  /\ \A p \in Passes :
       /\ pass[p].at \in Places /\ pass[p].seen \in [Symbols -> Prices \cup {None}]
       /\ pass[p].todo \subseteq Symbols /\ pass[p].count \in 0..Cardinality(Symbols)
       /\ pass[p].sym \in Symbols \cup {None} /\ pass[p].price \in Prices \cup {None}
       /\ pass[p].at \in {"signal", "sell", "sold", "buy", "bought"} <=> pass[p].sym /= None

Init ==
  /\ held = NotHeld /\ brackets = NotHeld
  /\ pass = [p \in Passes |-> Idle] /\ clock = 0 /\ life = 1

Entries == [s \in Symbols |-> IF held[s] = None THEN None ELSE held[s].entry]
HeldIn(seen) == {s \in Symbols : seen[s] /= None}

------------------------------------------------------------------------------
(* runOnce: exits *)

Start(p) ==
  /\ pass[p].at = "idle"
  /\ pass' = [pass EXCEPT ![p] = [Idle EXCEPT !.at = "exits", !.todo = HeldIn(Entries), !.seen = Entries]]
  /\ UNCHANGED <<held, brackets, clock, life>>

\* The bracket of the memory or, without one, that of the entry price, without a time.
Stopped(price, entry) == price * 100 <= entry * 95
StopEntry(p, s) == IF brackets[s] /= None THEN brackets[s].entry ELSE pass[p].seen[s]

TooSoon(s) == brackets[s] /= None /\ clock - brackets[s].at < MinHold

Sane(price, entry) ==
  LET gap == IF price > entry THEN price - entry ELSE entry - price IN gap * 100 <= 35 * entry

\* The loop goes on with the other symbols.
Onward(p, s) == [pass[p] EXCEPT !.at = IF pass[p].at \in {"buy", "bought", "entries"} THEN "entries" ELSE "exits",
                                !.todo = @ \ {s}, !.sym = None, !.price = None]
Skip(p, s) == pass' = [pass EXCEPT ![p] = Onward(p, s)]

\* The quote has come: none, too soon, bad data, at the stop, or still to be judged
\* by the signal.
LookAtExit(p, s) ==
  /\ pass[p].at = "exits" /\ s \in pass[p].todo
  /\ \/ Skip(p, s)
     \/ \E price \in Prices :
          /\ ~TooSoon(s) /\ Sane(price, pass[p].seen[s])
          /\ pass' = [pass EXCEPT ![p].sym = s, ![p].price = price,
                        ![p].at = IF Stopped(price, StopEntry(p, s)) THEN "sell" ELSE "signal"]
  /\ UNCHANGED <<held, brackets, clock, life>>

\* The candles have come: the signal says SELL or it does not.
JudgeExit(p) ==
  /\ pass[p].at = "signal"
  /\ \/ Skip(p, pass[p].sym)
     \/ pass' = [pass EXCEPT ![p].at = "sell"]
  /\ UNCHANGED <<held, brackets, clock, life>>

\* executeSell closes what is held now, or fails.
Sell(p) ==
  /\ pass[p].at = "sell"
  /\ \/ /\ held[pass[p].sym] /= None
        /\ held' = [held EXCEPT ![pass[p].sym] = None]
        /\ pass' = [pass EXCEPT ![p].at = "sold"]
     \/ Skip(p, pass[p].sym) /\ UNCHANGED held
  /\ UNCHANGED <<brackets, clock, life>>

Sold(p) ==
  /\ pass[p].at = "sold"
  /\ brackets' = [brackets EXCEPT ![pass[p].sym] = None]
  /\ Skip(p, pass[p].sym)
  /\ UNCHANGED <<held, clock, life>>

------------------------------------------------------------------------------
(* runOnce: entries *)

OpenCount(seen) == Cardinality(HeldIn(seen))

\* The portfolio is read again; when that fails, the copy of the start serves.
Reread(p) ==
  /\ pass[p].at = "exits" /\ pass[p].todo = {}
  /\ \E seen \in {Entries, pass[p].seen} :
       pass' = [pass EXCEPT ![p].at = "entries", ![p].seen = seen, ![p].todo = Symbols,
                            ![p].count = OpenCount(seen)]
  /\ UNCHANGED <<held, brackets, clock, life>>

\* A symbol that is held in the copy, whose signal is no BUY, that has no quote or
\* is too dear is passed over; otherwise it is bought.
LookAtEntry(p, s) ==
  /\ pass[p].at = "entries" /\ s \in pass[p].todo /\ pass[p].count < Max
  /\ \/ Skip(p, s)
     \/ /\ pass[p].seen[s] = None
        /\ \E price \in Prices : pass' = [pass EXCEPT ![p].at = "buy", ![p].sym = s, ![p].price = price]
  /\ UNCHANGED <<held, brackets, clock, life>>

\* executeBuy: a new position, more of one that is held, or a failure.
Buy(p) ==
  /\ pass[p].at = "buy"
  /\ LET s == pass[p].sym
     IN \/ /\ held' = [held EXCEPT ![s] = IF held[s] /= None THEN held[s]
                         ELSE [entry |-> pass[p].price, by |-> "auto", at |-> clock, life |-> life]]
           /\ pass' = [pass EXCEPT ![p].at = "bought"]
        \/ Skip(p, s) /\ UNCHANGED held
  /\ UNCHANGED <<brackets, clock, life>>

NewBracket(p) == [entry |-> pass[p].price, at |-> clock]

Bought(p) ==
  /\ pass[p].at = "bought"
  /\ brackets' = [brackets EXCEPT ![pass[p].sym] = NewBracket(p)]
  /\ pass' = [pass EXCEPT ![p] = [Onward(p, pass[p].sym) EXCEPT !.count = @ + 1]]
  /\ UNCHANGED <<held, clock, life>>

Ended(p) == Idle

Finish(p) ==
  /\ pass[p].at = "entries" /\ (pass[p].todo = {} \/ pass[p].count >= Max)
  /\ pass' = [pass EXCEPT ![p] = Ended(p)]
  /\ UNCHANGED <<held, brackets, clock, life>>

------------------------------------------------------------------------------
(* The user, the clock and restarts *)

UserBuy(s) ==
  /\ held[s] = None
  /\ \E price \in Prices :
       held' = [held EXCEPT ![s] = [entry |-> price, by |-> "user", at |-> clock, life |-> life]]
  /\ UNCHANGED <<brackets, pass, clock, life>>

\* exitOne, exitAll, a reset of the portfolio.
UserSell(S) ==
  /\ \E s \in S : held[s] /= None
  /\ held' = [s \in Symbols |-> IF s \in S THEN None ELSE held[s]]
  /\ UNCHANGED <<brackets, pass, clock, life>>

Tick ==
  /\ clock < MaxClock /\ clock' = clock + 1
  /\ UNCHANGED <<held, brackets, pass, life>>

Restart ==
  /\ life < MaxLives /\ life' = life + 1
  /\ brackets' = NotHeld /\ pass' = [p \in Passes |-> Idle]
  /\ UNCHANGED <<held, clock>>

Exits(p) == (\E s \in Symbols : LookAtExit(p, s)) \/ JudgeExit(p) \/ Sell(p) \/ Sold(p)
EntriesOf(p) == (\E s \in Symbols : LookAtEntry(p, s)) \/ Buy(p) \/ Bought(p)

Next ==
  \/ \E p \in Passes : Start(p) \/ Exits(p) \/ Reread(p) \/ EntriesOf(p) \/ Finish(p)
  \/ \E s \in Symbols : UserBuy(s) \/ UserSell({s})
  \/ UserSell(Symbols) \/ Tick \/ Restart

Spec == Init /\ [][Next]_vars

\* Every await of a pass ends.
FairSpec ==
  Spec /\ \A p \in Passes : WF_vars(Exits(p) \/ Reread(p) \/ EntriesOf(p) \/ Finish(p))

------------------------------------------------------------------------------
AutoHeld == {s \in Symbols : held[s] /= None /\ held[s].by = "auto"}

\* The passes of this life never hold more positions of their own than the cap,
\* whatever the user trades meanwhile and whichever copy of the portfolio a pass
\* works on ("Entries: ... position cap not reached").  So it is for passes that
\* follow each other; two that overlap count the same free positions.
CapHeld ==
  Cardinality({s \in AutoHeld : held[s].life = life}) <= Max

\* A position opened by a pass is not closed by one before it was held for the
\* minimum - a restart, which forgets the time of opening, excepted ("a single bad tick round-trips a position in seconds").
NoThrash ==
  [][\A s \in AutoHeld, p \in Passes :
       (pass[p].at = "sell" /\ pass'[p].at = "sold" /\ pass[p].sym = s /\ held[s].life = life)
         => clock - held[s].at >= MinHold]_vars

\* The bracket kept for a position that a pass of this life opened is the one of
\* that entry: once the pass has gone on, its time and price are the position's.
OwnBracket ==
  \A s \in AutoHeld :
    (held[s].life = life /\ \A p \in Passes : pass[p].at \notin {"bought", "sold"})
      => /\ brackets[s] /= None /\ brackets[s].entry = held[s].entry
         /\ brackets[s].at >= held[s].at

\* "Remember the entry-time stop/target per user+symbol": a bracket in memory is the
\* entry-time bracket of the position held under that symbol.
BracketOfPosition ==
  \A s \in Symbols :
    (held[s] /= None /\ brackets[s] /= None /\ \A p \in Passes : pass[p].at = "idle")
      => brackets[s].entry = held[s].entry

\* A pass comes to its end, so that the scheduler can run its job again.
PassEnds == \A p \in Passes : pass[p].at /= "idle" ~> pass[p].at = "idle"
=============================================================================
