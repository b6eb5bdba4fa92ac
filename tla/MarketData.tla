------------------------------ MODULE MarketData ------------------------------
(***************************************************************************)
(* marketDataService: calls that walk the chain of price providers (cache,  *)
(* broker feeds, broker snapshot, NSE, TwelveData, Finnhub), with what they *)
(* share: a cache with a lifetime, a circuit breaker per provider, and the  *)
(* NSE session - cookies one call primes for all, a flag that one is        *)
(* priming, and a backoff.                                                  *)
(*                                                                          *)
(* A call is suspended at each request it sends.  Time passes in ticks;     *)
(* a lifetime is the number of ticks that are left of it.                   *)
(***************************************************************************)
EXTENDS FiniteSets, Integers

CONSTANTS
  Calls,
  Symbols,
  Ops,          \* "live" getLivePrice, "best" getBestPrice
  Keys,         \* of "twelvedata" and "finnhub", those with an API key
  Threshold,    \* CB_FAIL_THRESHOLD
  Cooldown,     \* CB_COOLDOWN_MS in ticks
  MaxBackoff,   \* NSE_PRIME_MAX_BACKOFF in ticks
  None

MarketAssumption ==
  /\ Ops \subseteq {"live", "best"} /\ Keys \subseteq {"twelvedata", "finnhub"}
  /\ Threshold \in Nat \ {0} /\ MaxBackoff \in Nat \ {0} /\ Cooldown \in Nat
  /\ Cooldown > MaxBackoff + 1

VARIABLES
  call,      \* the calls
  cache,     \* _cache: for each symbol no price, a fresh one or an expired one
  breakers,  \* _breakers
  cookies,   \* _nseCookies and _nseExpiry
  backoff,   \* _nseFailUntil
  priming,   \* _nsePriming
  known,     \* history: symbols a price has been cached of since the last clear
  steady     \* from now on NSE keeps to its rules

vars == <<call, cache, breakers, cookies, backoff, priming, known, steady>>
nse == <<cookies, backoff, priming>>

Providers == {"nse", "twelvedata", "finnhub"}
Closed == [failures |-> 0, left |-> 0]
Idle == [op |-> None, sym |-> None, at |-> "idle", cookie |-> "none", late |-> FALSE,
         got |-> "nothing"]

TypeOK ==
  /\ \A c \in Calls :
       /\ call[c].op \in Ops \cup {None} /\ call[c].sym \in Symbols \cup {None}
       /\ call[c].at \in {"idle", "snapshot", "prime", "nse", "twelvedata", "finnhub"}
       /\ call[c].cookie \in {"none", "good", "old"}
       /\ call[c].late \in BOOLEAN
       /\ call[c].got \in {"nothing", "price", "stale", "unavailable"}
  /\ cache \in [Symbols -> {"none", "fresh", "expired"}]
  /\ breakers \in [Providers -> [failures : 0..(Threshold + Cardinality(Calls) - 1),
                                 left : 0..Cooldown]]
  /\ cookies \in {"none", "good", "old"} /\ backoff \in 0..MaxBackoff
  /\ priming \in BOOLEAN /\ known \subseteq Symbols /\ steady \in BOOLEAN

Init ==
  /\ call = [c \in Calls |-> Idle]
  /\ cache = [s \in Symbols |-> "none"]
  /\ breakers = [p \in Providers |-> Closed]
  /\ cookies = "none" /\ backoff = 0 /\ priming = FALSE
  /\ known = {} /\ steady = FALSE

------------------------------------------------------------------------------
(* Circuit breakers *)

\* _cbOpen: one that has cooled down is reset by whoever asks.
IsOpen(p) == breakers[p].failures >= Threshold /\ breakers[p].left > 0

Checked(b) == IF b.failures >= Threshold THEN Closed ELSE b

\* _cbFail
Failed(b) ==
  [failures |-> b.failures + 1,
   left |-> IF b.failures + 1 = Threshold THEN Cooldown ELSE b.left]

------------------------------------------------------------------------------
(* The chain *)

\* Mutant: the external providers are asked whatever their breaker says.
UsableOpen(p) == IF p = "nse" THEN ~IsOpen(p) ELSE p \in Keys

Usable(p) == (p = "nse" \/ p \in Keys) /\ ~IsOpen(p)

Rank == [snapshot |-> 0, nse |-> 1, twelvedata |-> 2, finnhub |-> 3]
Reach(op) == IF op = "best" THEN {"nse"} ELSE Providers
Later(op, stage) == {q \in Reach(op) : Rank[q] > Rank[stage] /\ Usable(q)}

\* c has its answer; what it leaves in the cache.
Return(c, got) == call' = [call EXCEPT ![c] = [Idle EXCEPT !.got = got]]
Cached(s) == cache' = [cache EXCEPT ![s] = "fresh"] /\ known' = known \cup {s}

\* getLivePrice caches what a provider sends; getBestPrice does not.
Succeed(c, op, s) ==
  /\ Return(c, "price")
  /\ IF op = "live" THEN Cached(s) ELSE UNCHANGED <<cache, known>>

\* Nothing is left to ask: the stale entry, if somebody else has put one there
\* since this call deleted it, or the admission that there is no price.
GiveUp(s, kept) == IF kept[s] /= "none" THEN "stale" ELSE "unavailable"

\* _primeNSE returns at once: good cookies, backoff, or another call priming.
NoPriming == cookies = "good" \/ backoff > 0 \/ priming

\* c goes on to the first usable provider after stage; bs are the breakers and
\* kept the cache as c leaves them.
GoOn(c, op, s, stage, bs, kept) ==
  LET Q == Later(op, stage)
      q == CHOOSE x \in Q : \A y \in Q : Rank[x] <= Rank[y]
      Wait(at, cookie) ==
        [Idle EXCEPT !.op = op, !.sym = s, !.at = at, !.cookie = cookie]
  IN IF Q = {}
       THEN /\ call' = [call EXCEPT ![c] = [Idle EXCEPT !.got = GiveUp(s, kept)]]
            /\ breakers' = bs /\ UNCHANGED priming
     ELSE /\ breakers' = [bs EXCEPT ![q] = Checked(@)]
          /\ IF q = "nse" /\ ~NoPriming
               THEN /\ call' = [call EXCEPT ![c] = Wait("prime", "none")]
                    /\ priming' = TRUE
             ELSE /\ call' = [call EXCEPT ![c] = Wait(q, IF q = "nse" THEN cookies ELSE "none")]
                  /\ UNCHANGED priming

\* _cacheGet deletes an entry that has expired.
Looked(op, s) ==
  IF op = "live" /\ cache[s] = "expired" THEN [cache EXCEPT ![s] = "none"] ELSE cache

\* A call begins.  The broker feeds have a price of s or not (feed), and there
\* is a broker token or not.
Start(c) ==
  /\ call[c].at = "idle"
  /\ \E op \in Ops, s \in Symbols, feed, token \in BOOLEAN :
       \/ /\ op = "live" /\ cache[s] = "fresh"
          /\ Return(c, "price")
          /\ UNCHANGED <<cache, breakers, priming, known>>
       \/ /\ op = "live" => cache[s] /= "fresh"
          /\ feed /\ Succeed(c, op, s)
          /\ UNCHANGED <<breakers, priming>>
       \/ /\ op = "live" => cache[s] /= "fresh"
          /\ ~feed /\ token
          /\ call' = [call EXCEPT ![c] =
                        [Idle EXCEPT !.op = op, !.sym = s, !.at = "snapshot"]]
          /\ cache' = Looked(op, s)
          /\ UNCHANGED <<breakers, priming, known>>
       \/ /\ op = "live" => cache[s] /= "fresh"
          /\ ~feed /\ ~token
          /\ cache' = Looked(op, s)
          /\ GoOn(c, op, s, "snapshot", breakers, Looked(op, s))
          /\ UNCHANGED known
  /\ UNCHANGED <<cookies, backoff, steady>>

Snapshot(c) ==
  /\ call[c].at = "snapshot"
  /\ \/ Succeed(c, call[c].op, call[c].sym) /\ UNCHANGED <<breakers, priming>>
     \/ /\ GoOn(c, call[c].op, call[c].sym, "snapshot", breakers, cache)
        /\ UNCHANGED <<cache, known>>
  /\ UNCHANGED <<cookies, backoff, steady>>

------------------------------------------------------------------------------
(* NSE *)

Sends(c, cookie) ==
  call' = [call EXCEPT ![c].at = "nse", ![c].cookie = cookie, ![c].late = FALSE]

\* 'finally': the flag is given back however priming ends.
Released(ok) == FALSE

\* The request for cookies ends: with cookies, with an answer that sets none, or
\* with an error, which begins a backoff; then the quote is asked for.
Prime(c) ==
  /\ call[c].at = "prime"
  /\ \/ /\ cookies' = "good" /\ backoff' = 0
        /\ priming' = Released(TRUE)
     \/ /\ ~steady
        /\ UNCHANGED <<cookies, backoff>>
        /\ priming' = Released(TRUE)
     \/ /\ ~steady
        /\ cookies' = "none" /\ backoff' \in 1..MaxBackoff
        /\ priming' = Released(FALSE)
  /\ Sends(c, cookies')
  /\ UNCHANGED <<cache, breakers, known, steady>>

\* The breakers after an answer of p: _cbOk, _cbFail.
Fine(p) == [breakers EXCEPT ![p] = Closed]
Faulty(p) == [breakers EXCEPT ![p] = Failed(@)]

\* The answer of p is no use: c goes on.
Goes(c, p, bs) ==
  /\ GoOn(c, call[c].op, call[c].sym, p, bs, cache)
  /\ UNCHANGED <<cache, known>>

\* The answer of p is a price.
Priced(c, p) ==
  /\ Succeed(c, call[c].op, call[c].sym)
  /\ breakers' = Fine(p) /\ UNCHANGED priming

\* 403: the cookies are dropped, whoever primed them, and the failure counts.
Refused == Faulty("nse")

\* NSE answers only a request that carries cookies it has set.
Quote(c) ==
  /\ call[c].at = "nse"
  /\ \/ /\ call[c].cookie = "good" /\ Priced(c, "nse")
        /\ UNCHANGED <<cookies, backoff>>
     \/ /\ ~steady /\ Goes(c, "nse", Faulty("nse"))
        /\ UNCHANGED <<cookies, backoff>>
     \/ /\ ~steady /\ Goes(c, "nse", breakers)
        /\ UNCHANGED <<cookies, backoff>>
     \/ /\ steady => call[c].cookie /= "good"
        /\ cookies' = "none" /\ backoff' \in 1..MaxBackoff
        /\ Goes(c, "nse", Refused)
  /\ UNCHANGED steady

\* TwelveData and Finnhub: a price, an error or a bad price, or no answer.
External(c, p) ==
  /\ call[c].at = p
  /\ \/ Priced(c, p)
     \/ Goes(c, p, Faulty(p))
     \/ Goes(c, p, breakers)
  /\ UNCHANGED <<cookies, backoff, steady>>

------------------------------------------------------------------------------
(* Time and the environment *)

Less(n) == IF n = 0 THEN 0 ELSE n - 1

\* A request is answered, or times out, before a second tick (TIMEOUT_MS is
\* eight seconds, the first backoff thirty).
Tick ==
  /\ \A c \in Calls : ~call[c].late
  /\ backoff > 0 \/ \E p \in Providers : breakers[p].left > 0
  /\ backoff' = Less(backoff)
  /\ breakers' = [p \in Providers |-> [breakers[p] EXCEPT !.left = Less(@)]]
  /\ call' = [c \in Calls |-> [call[c] EXCEPT !.late = call[c].at /= "idle"]]
  /\ UNCHANGED <<cache, cookies, priming, known, steady>>

Expire ==
  /\ \/ \E s \in Symbols : cache[s] = "fresh" /\ cache' = [cache EXCEPT ![s] = "expired"] /\ UNCHANGED cookies
     \/ cookies = "good" /\ cookies' = "old" /\ UNCHANGED cache
  /\ UNCHANGED <<call, breakers, backoff, priming, known, steady>>

ClearCache ==
  /\ \E S \in {Symbols} \cup {{s} : s \in Symbols} :
       /\ cache' = [s \in Symbols |-> IF s \in S THEN "none" ELSE cache[s]]
       /\ known' = known \ S
  /\ UNCHANGED <<call, breakers, nse, steady>>

Settle == ~steady /\ steady' = TRUE /\ UNCHANGED <<call, cache, breakers, nse, known>>

Resume(c) == Snapshot(c) \/ Prime(c) \/ Quote(c) \/ \E p \in {"twelvedata", "finnhub"} : External(c, p)

Next == (\E c \in Calls : Start(c) \/ Resume(c)) \/ Tick \/ Expire \/ ClearCache \/ Settle

Spec == Init /\ [][Next]_vars

\* Every request has a timeout, clocks run, and prices are asked for again and
\* again (liveDataFeed polls each watched symbol).
FairSpec ==
  /\ Spec /\ WF_vars(Tick)
  /\ \A c \in Calls : WF_vars(Start(c)) /\ WF_vars(Resume(c))

------------------------------------------------------------------------------
\* TwelveData and Finnhub are never asked while their breaker is open; NSE is
\* asked then only by a call that had checked the breaker before it primed the
\* session (_fetchNSE awaits _primeNSE between the check and the request).
OpenNotAsked ==
  [][\A c \in Calls, p \in Providers :
       (call[c].at /= p /\ call'[c].at = p /\ IsOpen(p)) =>
         (p = "nse" /\ call[c].at = "prime")]_vars

\* Once NSE gives cookies to whoever primes and prices to whoever shows them,
\* some call gets a price again, and again: although calls that find another
\* one priming go without cookies, are refused, drop the cookies of all and
\* prolong the backoff - the breaker they trip outlasts the backoff.
PricesReturn == steady ~> \E c \in Calls : call[c].got = "price"

\* "5. Stale cache - a last-known real price beats a fabricated one": a symbol
\* the service has had a price of is never answered UNAVAILABLE.
KnownPriceServed ==
  [][\A c \in Calls :
       (call[c].at /= "idle" /\ call'[c].at = "idle" /\ call[c].op = "live" /\ call[c].sym \in known)
          => call'[c].got /= "unavailable"]_vars
=============================================================================
