----------------------------- MODULE PriceStore -----------------------------
(***************************************************************************)
(* The daily bars of one symbol in daily_prices, and who writes them: the   *)
(* daily job that stores the live price of the moment as a bar, imports     *)
(* that fetch a history and store it in one statement or, in the script, in *)
(* pieces, and the fall-back of an import to the price of the moment.  A    *)
(* day is a UTC date; its session, if it has one, lies within it.  A bar    *)
(* says which session its close is of, whether that session was over, and   *)
(* whether it is one price for all of open, high, low and close.            *)
(***************************************************************************)
EXTENDS Integers, Sequences, FiniteSets

CONSTANTS LastDay, Sessions, Imports, MaxFails, None

Days == 1..LastDay
StoreAssumption == LastDay \in Nat /\ Sessions \subseteq Days /\ 1 \in Sessions

VARIABLES
  today, phase,   \* the date, and "pre", "open" or "post" of its session
  store,          \* the rows
  sync,           \* the daily job: the price it got, None when it rests
  import,         \* each import: where it is, what it fetched, what is left to save
  complete,       \* all sessions up to here are known to have been imported
  fails
vars == <<today, phase, store, sync, import, complete, fails>>
clock == <<today, phase>>

Bar == [of : Days, final : BOOLEAN, flat : BOOLEAN]
Rows == [Days -> Bar \cup {None}]
Rest == [at |-> "idle", rows |-> [d \in Days |-> None], price |-> None,
         saved |-> {}, until |-> 0, late |-> FALSE]

TypeOK ==
  /\ today \in Days /\ phase \in {"pre", "open", "post"}
  /\ store \in Rows /\ sync \in Bar \cup {None}
  /\ import \in [Imports -> [at : {"idle", "fetched", "price"}, rows : Rows,
                             price : Bar \cup {None}, saved : SUBSET Days, until : 0..LastDay, late : BOOLEAN]]
  /\ complete \in 0..LastDay /\ fails \in 0..MaxFails

Init ==
  /\ today = 1 /\ phase = "post"
  /\ store = [d \in Days |-> None] /\ sync = None
  /\ import = [i \in Imports |-> Rest] /\ complete = 0 /\ fails = 0

-----------------------------------------------------------------------------
(* Time: what is under way meets one turn of the clock at most.            *)

Turn ==
  /\ \A i \in Imports : ~import[i].late
  /\ IF phase = "post" THEN today < LastDay /\ today' = today + 1 /\ phase' = "pre"
     ELSE today' = today /\ phase' = IF phase = "pre" /\ today \in Sessions THEN "open" ELSE "post"
  /\ import' = [i \in Imports |-> [import[i] EXCEPT !.late = import[i].at # "idle"]]
  /\ UNCHANGED <<store, sync, complete, fails>>

Past == {d \in Sessions : d < today \/ (d = today /\ phase # "pre")}
Over(d) == d < today \/ phase = "post"

\* The live price is the last one traded, or the last close.
Latest == CHOOSE d \in Past : \A x \in Past : x <= d
PriceNow == [of |-> Latest, final |-> Over(Latest), flat |-> TRUE]

\* The histories of Yahoo and of Twelve Data have the bars of sessions, today's as it is.
History == [d \in Days |-> IF d \in Past THEN [of |-> d, final |-> Over(d), flat |-> FALSE] ELSE None]

\* INSERT ... ON DUPLICATE KEY UPDATE.
Saved(rows, ds) == [d \in Days |-> IF d \in ds /\ rows[d] # None THEN rows[d] ELSE store[d]]

Only(d, b) == [x \in Days |-> IF x = d THEN b ELSE None]

-----------------------------------------------------------------------------
(* The daily job, at whatever time of day and week the process was started. *)

SyncReads ==
  /\ sync = None /\ sync' = PriceNow
  /\ UNCHANGED <<clock, store, import, complete, fails>>

\* The date is the one of the moment after the price has come.
SyncSaves ==
  /\ sync # None /\ sync' = None
  /\ \/ store' = Saved(Only(today, sync), Days) /\ UNCHANGED fails
     \/ store' = store /\ fails < MaxFails /\ fails' = fails + 1
  /\ UNCHANGED <<clock, import, complete>>

-----------------------------------------------------------------------------
(* Imports.                                                                *)

Fetch(i) ==
  /\ import[i].at = "idle"
  /\ import' = [import EXCEPT ![i] = [Rest EXCEPT !.at = "fetched", !.rows = History,
                                                    !.until = today - 1]]
  /\ UNCHANGED <<clock, store, sync, complete, fails>>

\* Without a history fetchAndStore asks for the price of the moment ...
FetchFails(i) ==
  /\ import[i].at = "idle" /\ fails < MaxFails /\ fails' = fails + 1
  /\ import' = [import EXCEPT ![i] = [Rest EXCEPT !.at = "price", !.price = PriceNow]]
  /\ UNCHANGED <<clock, store, sync, complete>>

\* An import is whole when every row it fetched was saved.
Whole(i, ds) == {d \in Days : import[i].rows[d] # None} \subseteq ds

\* All rows at once, or a piece of them with the others to come.
Save(i) ==
  /\ import[i].at = "fetched"
  /\ \E n \in 1..today :
       LET ds == import[i].saved \cup 1..n IN
       /\ store' = Saved(import[i].rows, ds \ import[i].saved)
       /\ import' = [import EXCEPT ![i] = IF n = today THEN Rest ELSE [@ EXCEPT !.saved = ds]]
       /\ complete' = IF Whole(i, ds) /\ import[i].until > complete THEN import[i].until ELSE complete
  /\ UNCHANGED <<clock, sync, fails>>

\* ... and saves it as the bar of the date on which it has come.
SavePrice(i) ==
  /\ import[i].at = "price"
  /\ store' = Saved(Only(today, import[i].price), Days)
  /\ import' = [import EXCEPT ![i] = Rest]
  /\ UNCHANGED <<clock, sync, complete, fails>>

\* What was saved before stays; fetchAndStore answers success all the same.
SaveFails(i) ==
  /\ import[i].at \in {"fetched", "price"} /\ fails < MaxFails /\ fails' = fails + 1
  /\ import' = [import EXCEPT ![i] = Rest]
  /\ UNCHANGED <<clock, store, sync, complete>>

Next ==
  \/ Turn \/ SyncReads \/ SyncSaves
  \/ \E i \in Imports : Fetch(i) \/ FetchFails(i) \/ Save(i) \/ SavePrice(i) \/ SaveFails(i)

Spec == Init /\ [][Next]_vars

-----------------------------------------------------------------------------
(* Readers.                                                                *)

\* The dates that are stored, as ORDER BY trade_date ASC gives them.
Dates ==
  LET ds == {d \in Days : store[d] # None} IN
  [k \in 1..Cardinality(ds) |-> CHOOSE d \in ds : Cardinality({x \in ds : x <= d}) = k]

\* getRecentPrices: the last n, oldest first.
Recent(n) == SubSeq(Dates, IF Len(Dates) > n THEN Len(Dates) - n + 1 ELSE 1, Len(Dates))

-----------------------------------------------------------------------------
(* Properties.                                                             *)

\* The sessions a whole import has covered stay as the exchange has closed them: later
\* imports that fail half-way, fall back to a price or come in late, and the daily job,
\* which knows one price, touch the running day only.
ImportLasts == \A d \in Sessions : d <= complete => store[d] = [of |-> d, final |-> TRUE, flat |-> FALSE]

\* A row never shows a session that came after its date, and what looks like a bar of
\* its own is the bar of that date; only rows of one price may be of an earlier session.
NoForesight ==
  \A d \in Days : store[d] # None => store[d].of <= d /\ (store[d].flat \/ store[d].of = d)

\* A strategy's window of n bars ends with the newest stored bar and skips none.
WindowIsNewest ==
  \A n \in 1..2 : LET w == Recent(n) IN
    \A d \in Days : store[d] # None => (\E k \in 1..Len(w) : w[k] = d) \/ \A k \in 1..Len(w) : d < w[k]
=============================================================================
