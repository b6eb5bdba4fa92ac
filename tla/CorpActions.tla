----------------------------- MODULE CorpActions -----------------------------
(***************************************************************************)
(* Splits and bonuses in the paper portfolio, for one symbol of one          *)
(* portfolio: corpActionAdjuster re-bases the rows of sim_trades whenever    *)
(* the portfolio is read, corporateActions knows the actions (a cache with a *)
(* lifetime in front of a table another process fills) and shows prices of   *)
(* earlier days on today's basis.  A position is the sum over its rows.      *)
(* A reading is a program counter; each query is one action.                 *)
(***************************************************************************)
EXTENDS SequencesExt, Integers

CONSTANTS
  Readers,    \* GET /api/sim/portfolio requests that may overlap
  Actions,    \* corporate actions of the symbol
  Ex(_),      \* ex_date
  Num(_),     \* factor = Num / Den, below 1
  Den(_),
  Qtys,       \* quantities of a trade
  MaxRows,    \* bound: rows of sim_trades
  MaxDay,     \* bound
  MaxFails,   \* bound: queries that fail
  None

VARIABLES
  day,
  rows,       \* the symbol's rows of sim_trades
  table,      \* rows of corporate_actions
  cache,      \* the symbol's entry of _cache, or None when missing or too old
  flags,      \* system_flags: the day of the update an action was marked for, or None
  reader,
  fails,
  disturbed   \* history: readings overlapped, or a query of the flags failed

vars == <<day, rows, table, cache, flags, reader, fails, disturbed>>

Days == 0..MaxDay
\* first: the quantity traded; times: history, how often each action was applied.
Rows == [action : {"BUY", "SELL"}, qty : Nat, first : Qtys, day : Days, times : [Actions -> Nat]]
Idle == [at |-> "idle", todo |-> {}, day |-> 0]

TypeOK ==
  /\ day \in Days /\ rows \in Seq(Rows) /\ Len(rows) <= MaxRows /\ fails \in 0..MaxFails
  /\ table \subseteq Actions /\ cache \in (SUBSET table) \cup {None}
  /\ flags \in [Actions -> Days \cup {None}] /\ disturbed \in BOOLEAN
  /\ \A r \in Readers :
       /\ reader[r].at \in {"idle", "list", "actions", "check", "update", "mark"}
       /\ reader[r].todo \subseteq table /\ reader[r].day \in 0..day
       /\ reader[r].at \in {"check", "update", "mark"} <=> reader[r].todo /= {}

Init ==
  /\ day = 0 /\ rows = <<>> /\ table = {} /\ cache = None
  /\ flags = [a \in Actions |-> None]
  /\ reader = [r \in Readers |-> Idle] /\ fails = 0 /\ disturbed = FALSE

\* getPositions: bought less sold.
Signed(row) == IF row.action = "BUY" THEN row.qty ELSE -row.qty
Net == FoldSeq(LAMBDA row, sum : sum + Signed(row), 0, rows)

------------------------------------------------------------------------------
(* The world around a reading *)

NextDay == /\ day < MaxDay /\ day' = day + 1
           /\ UNCHANGED <<rows, table, cache, flags, reader, fails, disturbed>>

\* corpActionLoader, by the weekly job, after a start or by a script: an action is
\* announced before its ex-date, or is found long after it.
Load(a) == /\ a \notin table /\ table' = table \cup {a}
           /\ UNCHANGED <<day, rows, cache, flags, reader, fails, disturbed>>

Expire == /\ cache /= None /\ cache' = None
          /\ UNCHANGED <<day, rows, table, flags, reader, fails, disturbed>>

Trade(side, q) ==
  /\ Len(rows) < MaxRows /\ (side = "SELL" => q <= Net)
  /\ rows' = Append(rows, [action |-> side, qty |-> q, first |-> q, day |-> day,
                           times |-> [a \in Actions |-> 0]])
  /\ UNCHANGED <<day, table, cache, flags, reader, fails, disturbed>>

------------------------------------------------------------------------------
(* adjustPortfolio *)

Goto(r, place) == reader' = [reader EXCEPT ![r].at = place]

Begin(r) ==
  /\ reader[r].at = "idle" /\ Goto(r, "list")
  /\ disturbed' = (disturbed \/ \E q \in Readers : reader[q].at /= "idle")
  /\ UNCHANGED <<day, rows, table, cache, flags, fails>>

\* Only what is held is looked at.
List(r) ==
  /\ reader[r].at = "list" /\ Goto(r, IF Net > 0 THEN "actions" ELSE "idle")
  /\ UNCHANGED <<day, rows, table, cache, flags, fails, disturbed>>

\* getActions: from the cache or else the table, in the order of the ex-dates.
GetActions(r) ==
  LET known == IF cache /= None THEN cache ELSE table IN
  /\ reader[r].at = "actions" /\ cache' = known
  /\ reader' = [reader EXCEPT ![r].at = IF known = {} THEN "idle" ELSE "check", ![r].todo = known]
  /\ UNCHANGED <<day, rows, table, flags, fails, disturbed>>

First(S) == CHOOSE a \in S : \A b \in S : Ex(a) <= Ex(b)

\* The loop over the actions goes on with the next one, or the reading ends.
Rest(r) == IF Cardinality(reader[r].todo) <= 1 THEN Idle
           ELSE [Idle EXCEPT !.at = "check", !.todo = reader[r].todo \ {First(reader[r].todo)}]

Applied(a) == flags[a] /= None

Check(r) ==
  /\ reader[r].at = "check"
  /\ reader' = [reader EXCEPT ![r] = IF Applied(First(@.todo)) THEN Rest(r) ELSE [@ EXCEPT !.at = "update"]]
  /\ UNCHANGED <<day, rows, table, cache, flags, fails, disturbed>>

\* _alreadyApplied answers a failing query with false.
CheckFails(r) ==
  /\ reader[r].at = "check" /\ fails < MaxFails
  /\ Goto(r, "update") /\ fails' = fails + 1 /\ disturbed' = TRUE
  /\ UNCHANGED <<day, rows, table, cache, flags>>

\* GREATEST(1, ROUND(qty / factor))
Rebased(q, a) == LET n == (2 * q * Den(a) + Num(a)) \div (2 * Num(a)) IN IF n < 1 THEN 1 ELSE n

Concerned(row, a) == row.action = "BUY" /\ row.day < Ex(a)

Rebase(row, a) ==
  IF Concerned(row, a) THEN [row EXCEPT !.qty = Rebased(@, a), !.times[a] = @ + 1] ELSE row

Touched(a) == \E i \in DOMAIN rows : Concerned(rows[i], a)

Update(r) ==
  LET a == First(reader[r].todo) IN
  /\ reader[r].at = "update"
  /\ rows' = [i \in DOMAIN rows |-> Rebase(rows[i], a)]
  /\ reader' = [reader EXCEPT ![r] = IF Touched(a) THEN [@ EXCEPT !.at = "mark", !.day = day] ELSE Rest(r)]
  /\ UNCHANGED <<day, table, cache, flags, fails, disturbed>>

UpdateFails(r) ==
  /\ reader[r].at = "update" /\ fails < MaxFails /\ fails' = fails + 1
  /\ reader' = [reader EXCEPT ![r] = Rest(r)]
  /\ UNCHANGED <<day, rows, table, cache, flags, disturbed>>


Marked(r) == [flags EXCEPT ![First(reader[r].todo)] = reader[r].day]

Mark(r) ==
  /\ reader[r].at = "mark" /\ flags' = Marked(r)
  /\ reader' = [reader EXCEPT ![r] = Rest(r)]
  /\ UNCHANGED <<day, rows, table, cache, fails, disturbed>>

MarkFails(r) ==
  /\ reader[r].at = "mark" /\ fails < MaxFails /\ fails' = fails + 1 /\ disturbed' = TRUE
  /\ reader' = [reader EXCEPT ![r] = Rest(r)]
  /\ UNCHANGED <<day, rows, table, cache, flags>>

Step(r) == \/ List(r) \/ GetActions(r) \/ Check(r) \/ Update(r) \/ Mark(r)

Next ==
  \/ NextDay \/ Expire
  \/ \E a \in Actions : Load(a)
  \/ \E side \in {"BUY", "SELL"}, q \in Qtys : Trade(side, q)
  \/ \E r \in Readers : Begin(r) \/ Step(r) \/ CheckFails(r) \/ UpdateFails(r) \/ MarkFails(r)

Spec == Init /\ [][Next]_vars

\* The page polls, queries end, an entry of the cache grows old.
FairSpec ==
  /\ Spec /\ WF_vars(Expire)
  /\ \A r \in Readers : WF_vars(Begin(r)) /\ WF_vars(Step(r))

------------------------------------------------------------------------------
\* An action is applied to a row at most once, unless readings overlapped or a
\* query of the flags failed (the flags of corpActionAdjuster).
AppliedOnce == disturbed \/ \A i \in DOMAIN rows, a \in Actions : rows[i].times[a] <= 1

\* Once an action is marked, every purchase before its ex-date and before the day of
\* the mark has been re-based for it: a mark never hides a row (adjustSymbol).
MarkedIsDone ==
  \A a \in Actions, i \in DOMAIN rows :
    (Applied(a) /\ Concerned(rows[i], a) /\ rows[i].day < flags[a]) => rows[i].times[a] > 0

\* The factor corporateActions shows a day's candle with, Upper(d) / Lower(d): that of
\* the actions after that day.
Upper(d) == FoldSet(LAMBDA a, product : product * Num(a), 1, {a \in table : Ex(a) > d})
Lower(d) == FoldSet(LAMBDA a, product : product * Den(a), 1, {a \in table : Ex(a) > d})

Exact(row) == Lower(row.day) * row.first % Upper(row.day) = 0

\* A purchase that was re-based for all actions after it has the average cost (value
\* by quantity, the value being kept) the adjusted chart shows for its day, where the
\* quantities divide: ledger and candles agree (adjustSymbol against _factorAt).
EntryOnChart ==
  \A i \in DOMAIN rows :
    LET row == rows[i]
        settled == \A a \in table : Ex(a) > row.day => (Applied(a) /\ flags[a] > row.day)
    IN (~disturbed /\ row.action = "BUY" /\ settled /\ Exact(row))
         => row.qty * Upper(row.day) = row.first * Lower(row.day)

\* While the portfolio is polled, a held purchase before an ex-date in the table is
\* re-based, unless it came after an update whose mark followed (adjustPortfolio).
RowRebased(i, a) ==
  (/\ a \in table /\ i \in DOMAIN rows /\ Concerned(rows[i], a) /\ ~Applied(a)
   /\ \A r \in Readers : reader[r].at /= "mark")
    ~> ((i \in DOMAIN rows /\ rows[i].times[a] > 0) \/ Net <= 0)

\* An adjustment multiplies the shares held by 1 / factor, whatever was sold before:
\* "position value is preserved, which is exactly what a bonus does"
\* (corpActionAdjuster.js:18).
HoldingRebased ==
  [][\A a \in Actions :
       (\E i \in DOMAIN rows : rows'[i].times[a] > rows[i].times[a]) => Net' = Rebased(Net, a)]_vars

\* "never applied twice" (corpActionAdjuster.js:21), without exception.
NeverTwice == \A i \in DOMAIN rows, a \in Actions : rows[i].times[a] <= 1

==============================================================================
