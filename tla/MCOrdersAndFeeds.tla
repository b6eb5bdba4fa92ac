-------------------------- MODULE MCOrdersAndFeeds --------------------------
(***************************************************************************)
(* One run for four parts that share no state: live orders, the pages that  *)
(* show one of them, the socket to the broker's feed, and the REST prices   *)
(* that stand in for it.  `part` says which of them moves; the others rest  *)
(* in their initial state.                                                  *)
(***************************************************************************)
EXTENDS LiveOrders

CONSTANTS
  Sockets, MaxCalls, MaxReconnects, MaxBreaks, MaxRequests,
  PriceCalls, Quoted, ApiKeys, Threshold, Cooldown, MaxBackoff

VARIABLES
  part,
  token, ws, connected, destroyed, attempts, timer, loose, calls, socket, ping, givenUp,
  breaks, requests,
  asking, cache, breakers, cookies, backoff, priming, known, steady,
  order, row, oms, fills, answers, shown, withdrawal, faults

Link == INSTANCE BrokerSocket
Price == INSTANCE MarketData WITH Calls <- PriceCalls, Symbols <- Quoted, Ops <- {"live"},
                                  Keys <- ApiKeys, call <- asking
Book == INSTANCE OrderBook WITH Size <- 2, MaxAnswers <- 2, MaxFails <- 1,
                                   cancel <- withdrawal, fails <- faults

ASSUME FeedsAssumption == Link!SocketAssumption /\ Price!MarketAssumption

linkVars == <<token, ws, connected, destroyed, attempts, timer, loose, calls, socket, ping,
              givenUp, breaks, requests>>
priceVars == <<asking, cache, breakers, cookies, backoff, priming, known, steady>>
bookVars == <<order, row, oms, fills, answers, shown, withdrawal, faults>>
all == <<part, vars, linkVars, priceVars, bookVars>>

AllInit ==
  /\ part \in {"orders", "link", "price", "book"}
  /\ Init /\ Link!Init /\ Price!Init /\ Book!Init
  /\ token => part = "link"

AllNext ==
  /\ UNCHANGED part
  /\ \/ part = "orders" /\ Next /\ UNCHANGED <<linkVars, priceVars, bookVars>>
     \/ part = "link" /\ Link!Next /\ UNCHANGED <<vars, priceVars, bookVars>>
     \/ part = "price" /\ Price!Next /\ UNCHANGED <<vars, linkVars, bookVars>>
     \/ part = "book" /\ Book!Next /\ UNCHANGED <<vars, linkVars, priceVars>>

\* The fairness of each part's own FairSpec, for the part that moves.  Since only one
\* moves, a fair action of one can share its formula with one of another.
Fairness ==
  /\ WF_all(\/ part = "orders" /\ Reconcile /\ UNCHANGED <<part, linkVars, priceVars, bookVars>>
            \/ part = "link" /\ Link!TimerFires /\ UNCHANGED <<part, vars, priceVars, bookVars>>
            \/ part = "price" /\ Price!Tick /\ UNCHANGED <<part, vars, linkVars, bookVars>>)
  /\ WF_linkVars(part = "link" /\ (Link!Authorized \/ Link!AuthorizeFails))
  /\ \A k \in Sockets : WF_linkVars(part = "link" /\ Link!Opens(k))
  /\ \A c \in PriceCalls : /\ WF_priceVars(part = "price" /\ Price!Start(c))
                           /\ WF_priceVars(part = "price" /\ Price!Resume(c))
  /\ WF_bookVars(part = "book" /\ Book!OmsReadsRow) /\ WF_bookVars(part = "book" /\ Book!OmsReadsBook)
  /\ WF_bookVars(part = "book" /\ Book!OmsWrites) /\ WF_bookVars(part = "book" /\ Book!FillsRead)
  /\ WF_bookVars(part = "book" /\ Book!FillsWritten) /\ WF_bookVars(part = "book" /\ Book!Ask)
  /\ \A a \in Book!Said : WF_bookVars(part = "book" /\ Book!Show(a))

AllSpec == AllInit /\ [][AllNext]_all /\ Fairness

\* BrokerSocket: "connected" means that prices are taken from some socket; MarketData:
\* an open breaker keeps calls away from its provider.  The state of both keeps its types.
FeedsTruthful ==
  /\ [](Link!TypeOK /\ Price!TypeOK)
  /\ []Link!StatusTruthful
  /\ Price!OpenNotAsked

\* BrokerSocket: the broker's feed comes back while it may; MarketData: prices return
\* once NSE keeps to its rules.
FeedsReturn ==
  /\ part = "link" => Link!FeedReturns
  /\ part = "price" => Price!PricesReturn

=============================================================================
