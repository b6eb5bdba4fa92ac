------------------------------- MODULE Alerts -------------------------------
(***************************************************************************)
(* alertEngine for one stock: rules in memory, added and removed by         *)
(* requests, and the market scan of the scheduler that goes through them.   *)
(* The scan keeps the array of rules it found and the price it has read,    *)
(* and awaits the volumes of the last days before it looks at the rules;    *)
(* meanwhile the array may change, or be given up for a new one.  Prices    *)
(* and indicators are on a grid of -1, 0 and 1.  resetAlert and clearAlerts *)
(* are called by nothing.                                                   *)
(***************************************************************************)
EXTENDS Integers, Sequences, FiniteSets

CONSTANTS Rules, MaxQueue, MaxArrays, MaxScans, None

VARIABLES
  array,      \* the number of the array that is in the watchlist
  rule,       \* of each rule: the array it is in (0 for none), its type, triggered
  scan,       \* the scan: the array it holds and what it has read
  queue,      \* the latest alerts, newest first: the scan and the rule
  fired,      \* how often each rule has fired since it was added
  scans
vars == <<array, rule, scan, queue, fired, scans>>

Types == {"PRICE_ABOVE", "PRICE_BELOW", "SIGNAL_BUY", "SIGNAL_SELL", "ZSCORE_EXTREME",
          "RSI_OVERSOLD", "RSI_OVERBOUGHT", "VOLUME_SPIKE"}

\* Too few closes leave the indicators and the signal unknown.
Reading == [price : -1..1, known : BOOLEAN, rsi : -1..1, z : -1..1,
            signal : {"BUY", "SELL", "HOLD"}, spike : BOOLEAN]
\* One price, two closes, a volume: what can differ between two rules.
Readings == {d \in Reading : d.rsi = d.price /\ d.z = d.price /\ (d.known \/ d.signal = "HOLD")}

Idle == [on |-> FALSE, array |-> 0, read |-> None]

TypeOK ==
  /\ array \in 1..MaxArrays /\ scans \in 0..MaxScans
  /\ rule \in [Rules -> [array : 0..MaxArrays, type : Types, triggered : BOOLEAN]]
  /\ scan \in [on : BOOLEAN, array : 0..MaxArrays, read : Readings \cup {None}]
  /\ Len(queue) <= MaxQueue
  /\ \A k \in 1..Len(queue) : queue[k] \in [scan : 1..MaxScans, rule : Rules]
  /\ fired \in [Rules -> 0..MaxScans]

Init ==
  /\ array = 1 /\ scans = 0
  /\ rule = [r \in Rules |-> [array |-> 0, type |-> "PRICE_ABOVE", triggered |-> FALSE]]
  /\ scan = Idle /\ queue = <<>>
  /\ fired = [r \in Rules |-> 0]

AddAlert(r) ==
  /\ rule[r].array = 0
  /\ \E t \in Types : rule' = [rule EXCEPT ![r] = [array |-> array, type |-> t, triggered |-> FALSE]]
  /\ fired' = [fired EXCEPT ![r] = 0]
  /\ UNCHANGED <<array, scan, queue, scans>>

\* The last rule of an array takes the array out of the watchlist.
RemoveAlert(r) ==
  /\ rule[r].array = array
  /\ rule' = [rule EXCEPT ![r].array = 0]
  /\ array' = IF \E x \in Rules \ {r} : rule[x].array = array THEN array ELSE array + 1
  /\ array' <= MaxArrays
  /\ UNCHANGED <<scan, queue, fired, scans>>

\* The scan reads a stock, finds its rules and asks for the volumes.
EvaluateAlerts ==
  /\ ~scan.on /\ scans < MaxScans /\ scans' = scans + 1
  /\ \E r \in Rules : rule[r].array = array
  /\ \E d \in Readings : scan' = [on |-> TRUE, array |-> array, read |-> d]
  /\ UNCHANGED <<array, rule, queue, fired>>

\* The threshold of a price rule is 0, of the others 1 on either side.
Satisfied(type, d) ==
  CASE type = "PRICE_ABOVE" -> d.price >= 0
    [] type = "PRICE_BELOW" -> d.price <= 0
    [] type = "SIGNAL_BUY" -> d.signal = "BUY"
    [] type = "SIGNAL_SELL" -> d.signal = "SELL"
    [] type = "ZSCORE_EXTREME" -> d.known /\ d.z \in {-1, 1}
    [] type = "RSI_OVERSOLD" -> d.known /\ d.rsi <= -1
    [] type = "RSI_OVERBOUGHT" -> d.known /\ d.rsi >= 1
    [] type = "VOLUME_SPIKE" -> d.spike

\* Mutant: a rule fires whenever it is satisfied.
DueAgain == {r \in Rules : rule[r].array = scan.array /\ Satisfied(rule[r].type, scan.read)}

\* What is still in the array the scan holds, has not fired, and is satisfied.
Due == {r \in Rules : /\ rule[r].array = scan.array /\ ~rule[r].triggered
                      /\ Satisfied(rule[r].type, scan.read)}

\* enqueue() of the due rules in the order of the array: the oldest give way.
Enqueued(order) ==
  LET all == [k \in 1..Len(order) |-> [scan |-> scans, rule |-> order[Len(order) + 1 - k]]] \o queue
  IN SubSeq(all, 1, IF Len(all) > MaxQueue THEN MaxQueue ELSE Len(all))

Orders == {o \in [1..Cardinality(Due) -> Due] : \A i, k \in DOMAIN o : i # k => o[i] # o[k]}

Fire ==
  /\ scan.on /\ scan' = Idle
  /\ rule' = [r \in Rules |-> [rule[r] EXCEPT !.triggered = @ \/ r \in Due]]
  /\ fired' = [r \in Rules |-> fired[r] + IF r \in Due THEN 1 ELSE 0]
  /\ \E order \in Orders : queue' = Enqueued(order)
  /\ UNCHANGED <<array, scans>>

Next ==
  \/ \E r \in Rules : AddAlert(r) \/ RemoveAlert(r)
  \/ EvaluateAlerts \/ Fire

Spec == Init /\ [][Next]_vars

-----------------------------------------------------------------------------
(* Properties.                                                             *)

\* A rule raises one alert, however many scans its price satisfies and whatever is
\* added and removed beside it.
FiresOnce == \A r \in Rules : fired[r] <= 1 /\ (rule[r].triggered <=> fired[r] = 1)

\* A rule that is removed while a scan awaits the volumes raises none.
RemovedIsSilent == [][\A r \in Rules : rule[r].array = 0 => fired'[r] <= fired[r]]_vars

\* The queue keeps the newest alerts: none in it is older than the one below.
NewestFirst == \A i, k \in DOMAIN queue : i < k => queue[i].scan >= queue[k].scan
=============================================================================
