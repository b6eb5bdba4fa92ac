------------------------------ MODULE PagesProofs ------------------------------
(***************************************************************************)
(* Proofs about what a person meets: the accounts and the forms that make   *)
(* them, being signed in, the order book, the desk that trades with real    *)
(* money and the live prices, each an instance of its module with variables *)
(* of its own.                                                              *)
(***************************************************************************)
EXTENDS Integers, FiniteSetTheorems, SequenceTheorems, TLAPS

CONSTANTS
  Requests, Passwords, MaxTokens,     \* Accounts
  Tabs, MaxReloads,                   \* SignIn, with MaxTokens; TradeDesk
  Size, MaxAnswers,                   \* OrderBook
  Symbols, Sockets, MaxViews, MaxQueue, MaxMishaps,   \* ClientFeed, with Tabs
  MaxFails, None

VARIABLES
  users, resets, issued, used, req, saved, fails,
  stored, valid, given, tab, calls, reloads,
  order, row, oms, fills, answers, shown, cancel, errors,
  session, page, mode, linked, armed, dialog, placing, inflight, asks, visits,
  views, current, timer, loose, status, sock, subs, polls, counts, mishaps

Account == INSTANCE Accounts
Sign == INSTANCE SignIn
Book == INSTANCE OrderBook WITH fails <- errors
Desk == INSTANCE TradeDesk WITH reloads <- visits
Feed == INSTANCE ClientFeed

-----------------------------------------------------------------------------
(* Accounts                                                                *)

AccountAssumption == MaxTokens \in Nat /\ MaxFails \in Nat

ReqType == [kind : Account!Forms, at : Account!Statements \cup Account!Answers,
            password : Passwords \cup {None}, token : 0..MaxTokens]

AccountRow == [password : Passwords \cup {None}, provider : {"local", "google"}, portfolio : BOOLEAN]

\* What a request's place means: from the statements that need one, an account is there, and the
\* password a signup has saved is among those that were set.
Reached(c) ==
  /\ c.token \in 0..issued
  /\ (c.kind = "reset") <=> c.token > 0
  /\ c.kind \in {"signup", "reset"} => c.password # None
  /\ c.at \in {"portfolio", "link", "upsert", "update", "delete"} => users # {}
  /\ c.kind = "signup" /\ c.at \in {"portfolio", "ok"} => users # {} /\ c.password \in saved

\* There is no token without an account, and a used one was issued.
Tokens ==
  /\ issued > 0 => users # {}
  /\ resets \in 0..issued /\ resets \notin used
  /\ used \subseteq 1..issued

Single == users = {} \/ \E u \in users : users = {u}

AccountInv ==
  /\ Account!TypeOK /\ Single /\ Tokens
  /\ \A r \in Requests : Reached(req[r])
  /\ Account!PortfolioOrFailure

LEMMA AccountInit == ASSUME AccountAssumption, Account!Init PROVE AccountInv
<1>1. Account!Idle \in ReqType
  BY DEF ReqType, Account!Idle, Account!Forms, Account!Statements, Account!Answers, AccountAssumption
<1>2. req \in [Requests -> ReqType] /\ \A r \in Requests : req[r] = Account!Idle
  BY <1>1 DEF Account!Init
<1>3. Account!TypeOK
  BY <1>2 DEF Account!Init, Account!TypeOK, ReqType, AccountAssumption
<1>4. \A r \in Requests : Reached(req[r])
  BY <1>2 DEF Account!Init, Account!Idle, Reached
<1> QED
  BY <1>3, <1>4 DEF Account!Init, AccountInv, Single, Tokens, Account!PortfolioOrFailure

\* One request goes to another place.
LEMMA Going ==
  ASSUME AccountInv, NEW r \in Requests, NEW at \in Account!Statements \cup Account!Answers, Account!Goes(r, at)
  PROVE  /\ req' \in [Requests -> ReqType]
         /\ req'[r].at = at
         /\ \A f \in {"kind", "password", "token"} : req'[r][f] = req[r][f]
         /\ \A x \in Requests \ {r} : req'[x] = req[x]
<1>1. req \in [Requests -> ReqType]
  BY DEF AccountInv, Account!TypeOK, ReqType
<1>2. req' = [req EXCEPT ![r] = [req[r] EXCEPT !.at = at]]
  BY DEF Account!Goes
<1>3. req[r] \in ReqType
  BY <1>1
<1>4. [req[r] EXCEPT !.at = at] \in ReqType
  BY <1>3 DEF ReqType
<1>5. req'[r] = [req[r] EXCEPT !.at = at]
  BY <1>1, <1>2
<1> QED
  BY <1>1, <1>2, <1>3, <1>4, <1>5 DEF ReqType

\* The account is the one there is.
LEMMA TheAccount ==
  ASSUME AccountInv, users # {}
  PROVE  /\ users = {Account!TheUser}
         /\ Account!TheUser \in AccountRow
         /\ \A u : Account!Now(u) => users' = {u}
<1>1. PICK u \in users : users = {u}
  BY DEF AccountInv, Single
<1>2. Account!TheUser = u
  BY <1>1 DEF Account!TheUser
<1> QED
  BY <1>1, <1>2 DEF AccountInv, Account!TypeOK, AccountRow, Account!Now

\* A request that reads, answers or fails.
LEMMA OnlyGoing ==
  ASSUME AccountAssumption, AccountInv, NEW r \in Requests, NEW at \in Account!Statements \cup Account!Answers,
         Account!Goes(r, at), UNCHANGED <<users, resets, issued, used, saved>>,
         fails' = fails \/ fails' \in 1..MaxFails,
         req[r].at = "portfolio" => fails' > 0,
         at \in {"portfolio", "link", "upsert", "update", "delete"} => users # {},
         req[r].kind = "signup" => at \notin {"portfolio", "ok"}
  PROVE  AccountInv'
<1>1. /\ req' \in [Requests -> ReqType] /\ req'[r].at = at
      /\ req'[r].kind = req[r].kind /\ req'[r].password = req[r].password /\ req'[r].token = req[r].token
      /\ \A x \in Requests \ {r} : req'[x] = req[x]
  BY Going
<1>2. Account!TypeOK'
  BY <1>1 DEF AccountInv, Account!TypeOK, ReqType, AccountAssumption
<1>3. Reached(req[r])'
  BY <1>1 DEF AccountInv, Reached
<1>4. \A x \in Requests \ {r} : Reached(req[x])'
  BY <1>1 DEF AccountInv, Reached
<1>5. Account!PortfolioOrFailure'
  <2>1. fails > 0 => fails' > 0
    BY DEF AccountInv, Account!TypeOK
  <2>2. SUFFICES ASSUME NEW u \in users, ~u.portfolio, ~(fails' > 0)
                 PROVE  \E x \in Requests : req'[x].at = "portfolio"
    BY DEF Account!PortfolioOrFailure
  <2>3. PICK x \in Requests : req[x].at = "portfolio"
    BY <2>1, <2>2 DEF AccountInv, Account!PortfolioOrFailure
  <2> QED
    BY <1>1, <2>2, <2>3
<1> QED
  BY <1>2, <1>3, <1>4, <1>5 DEF AccountInv, Single, Tokens

LEMMA AskStep ==
  ASSUME AccountAssumption, AccountInv, NEW r \in Requests, Account!Ask(r)
  PROVE  AccountInv'
<1>1. PICK k \in Account!Forms, p \in Passwords \cup {None}, t \in 0..issued :
        /\ (k \in {"google", "forgot"}) <=> p = None
        /\ (k = "reset") <=> t > 0
        /\ req' = [req EXCEPT ![r] = [kind |-> k, at |-> "select", password |-> p, token |-> t]]
  BY DEF Account!Ask
<1>2. UNCHANGED <<users, resets, issued, used, saved, fails>> /\ req[r].at \in Account!Answers
  BY DEF Account!Ask
<1> DEFINE c == [kind |-> k, at |-> "select", password |-> p, token |-> t]
<1>3. c \in ReqType
  BY DEF ReqType, Account!Statements, AccountInv, Account!TypeOK, AccountAssumption
<1>4. req' \in [Requests -> ReqType] /\ req'[r] = c /\ \A x \in Requests \ {r} : req'[x] = req[x]
  BY <1>1, <1>3 DEF AccountInv, Account!TypeOK, ReqType
<1>5. Account!TypeOK'
  BY <1>2, <1>4 DEF AccountInv, Account!TypeOK, ReqType
<1>6. Reached(req[r])'
  BY <1>1, <1>2, <1>4 DEF Reached
<1>7. \A x \in Requests \ {r} : Reached(req[x])'
  BY <1>2, <1>4 DEF AccountInv, Reached
<1>8. Account!PortfolioOrFailure'
  <2> SUFFICES ASSUME NEW u \in users, ~u.portfolio, ~(fails > 0)
               PROVE  \E x \in Requests : req'[x].at = "portfolio"
    BY <1>2 DEF Account!PortfolioOrFailure
  <2>1. PICK x \in Requests : req[x].at = "portfolio"
    BY DEF AccountInv, Account!PortfolioOrFailure
  <2>2. x # r
    BY <1>2, <2>1 DEF Account!Answers
  <2> QED
    BY <1>4, <2>1, <2>2
<1> QED
  BY <1>2, <1>5, <1>6, <1>7, <1>8 DEF AccountInv, Single, Tokens

LEMMA FindsStep ==
  ASSUME AccountAssumption, AccountInv, NEW r \in Requests,
         \/ Account!SignupFinds(r) \/ Account!GoogleFinds(r) \/ Account!Login(r)
         \/ Account!ForgotFinds(r) \/ Account!ResetFinds(r) \/ Account!Duplicate(r)
  PROVE  AccountInv'
<1> USE DEF Account!At, Account!Statements, Account!Answers
<1>1. UNCHANGED <<users, resets, issued, used, saved, fails>> /\ req[r].at # "portfolio"
  BY DEF Account!SignupFinds, Account!GoogleFinds, Account!Login, Account!ForgotFinds,
         Account!ResetFinds, Account!Duplicate
<1>2. CASE Account!SignupFinds(r)
  <2>1. PICK at \in {"insert", "refused"} : Account!Goes(r, at)
    BY <1>2 DEF Account!SignupFinds
  <2> QED
    BY <1>1, <2>1, OnlyGoing
<1>3. CASE Account!GoogleFinds(r)
  <2>1. PICK at \in {"insert", "link", "ok"} : Account!Goes(r, at) /\ (at = "link" => users # {})
    BY <1>3 DEF Account!GoogleFinds
  <2>2. req[r].kind # "signup"
    BY <1>3 DEF Account!GoogleFinds
  <2> QED
    BY <1>1, <2>1, <2>2, OnlyGoing
<1>4. CASE Account!Login(r)
  <2>1. PICK at \in {"refused", "ok"} : Account!Goes(r, at)
    BY <1>4 DEF Account!Login
  <2>2. req[r].kind # "signup"
    BY <1>4 DEF Account!Login
  <2> QED
    BY <1>1, <2>1, <2>2, OnlyGoing
<1>5. CASE Account!ForgotFinds(r)
  <2>1. PICK at \in {"upsert", "ok"} : Account!Goes(r, at) /\ (at = "upsert" => users # {})
    BY <1>5 DEF Account!ForgotFinds
  <2>2. req[r].kind # "signup"
    BY <1>5 DEF Account!ForgotFinds
  <2> QED
    BY <1>1, <2>1, <2>2, OnlyGoing
<1>6. CASE Account!ResetFinds(r)
  <2>1. PICK at \in {"update", "refused"} : Account!Goes(r, at) /\ (at = "update" => resets = req[r].token)
    BY <1>6 DEF Account!ResetFinds
  <2>2. req[r].kind = "reset" /\ req[r].token > 0
    BY <1>6 DEF Account!ResetFinds, AccountInv, Reached
  <2>3. at = "update" => users # {}
    BY <2>1, <2>2 DEF AccountInv, Account!TypeOK, Tokens
  <2> QED
    BY <1>1, <2>1, <2>2, <2>3, OnlyGoing
<1>7. CASE Account!Duplicate(r)
  BY <1>1, <1>7, OnlyGoing DEF Account!Duplicate
<1> QED
  BY <1>2, <1>3, <1>4, <1>5, <1>6, <1>7

LEMMA FailStep ==
  ASSUME AccountAssumption, AccountInv, NEW r \in Requests, Account!Fail(r)
  PROVE  AccountInv'
<1>1. fails' \in 1..MaxFails
  BY DEF Account!Fail, AccountInv, Account!TypeOK, AccountAssumption
<1> QED
  BY <1>1, OnlyGoing DEF Account!Fail, Account!Answers, AccountAssumption

LEMMA InsertStep ==
  ASSUME AccountAssumption, AccountInv, NEW r \in Requests, Account!Insert(r)
  PROVE  AccountInv'
<1>1. /\ users = {} /\ Account!Goes(r, "portfolio") /\ UNCHANGED <<resets, issued, used, fails>>
      /\ req[r].kind \in {"signup", "google"}
  BY DEF Account!Insert, Account!Inserted, Account!At
<1>2. /\ req' \in [Requests -> ReqType] /\ req'[r].at = "portfolio"
      /\ req'[r].kind = req[r].kind /\ req'[r].password = req[r].password /\ req'[r].token = req[r].token
      /\ \A x \in Requests \ {r} : req'[x] = req[x]
  BY <1>1, Going DEF Account!Statements
<1>3. req[r] \in ReqType
  BY DEF AccountInv, Account!TypeOK, ReqType
<1>4. PICK u \in AccountRow : users' = {u}
  <2>1. users' = {Account!User(req[r].password, "local")} \/ users' = {Account!User(None, "google")}
    BY DEF Account!Insert, Account!Inserted
  <2> QED
    BY <1>3, <2>1 DEF Account!User, ReqType, AccountRow
<1>5. saved' = (IF req[r].password = None THEN {} ELSE {req[r].password})
  BY DEF Account!Insert
<1>6. Account!TypeOK'
  BY <1>1, <1>2, <1>3, <1>4, <1>5 DEF AccountInv, Account!TypeOK, ReqType, AccountRow
<1>7. Reached(req[r])'
  BY <1>1, <1>2, <1>4, <1>5 DEF AccountInv, Reached
<1>8. \A x \in Requests \ {r} : Reached(req[x])'
  BY <1>1, <1>2, <1>4 DEF AccountInv, Reached
<1> QED
  BY <1>1, <1>2, <1>4, <1>6, <1>7, <1>8 DEF AccountInv, Single, Tokens, Account!PortfolioOrFailure

\* What changes a password, a portfolio or a provider changes the one account.
LEMMA AccountChanges ==
  ASSUME AccountAssumption, AccountInv, NEW r \in Requests,
         Account!CreatePortfolio(r) \/ Account!LinkGoogle(r) \/ Account!SetPassword(r)
  PROVE  AccountInv'
<1>1. PICK at \in {"ok", "delete"} :
        /\ Account!Goes(r, at) /\ (at = "delete" => req[r].at = "update")
        /\ req[r].at \in {"portfolio", "link", "update"}
        /\ req[r].at = "portfolio" => Account!CreatePortfolio(r)
        /\ req[r].kind = "signup" => req[r].at = "portfolio"
  BY DEF Account!CreatePortfolio, Account!LinkGoogle, Account!SetPassword, Account!At
<1>2. /\ req' \in [Requests -> ReqType] /\ req'[r].at = at
      /\ req'[r].kind = req[r].kind /\ req'[r].password = req[r].password /\ req'[r].token = req[r].token
      /\ \A x \in Requests \ {r} : req'[x] = req[x]
  BY <1>1, Going DEF Account!Statements, Account!Answers
<1>3. users # {} /\ Reached(req[r]) /\ req[r] \in ReqType
  BY <1>1 DEF AccountInv, Reached, Account!TypeOK, ReqType
<1>4. PICK v \in AccountRow : v = Account!TheUser /\ users = {v}
  BY <1>3, TheAccount
<1>5. PICK u \in AccountRow : /\ users' = {u} /\ (v.portfolio => u.portfolio)
                              /\ (Account!CreatePortfolio(r) => u.portfolio)
  <2>1. CASE Account!CreatePortfolio(r)
    <3>1. users' = {[v EXCEPT !.portfolio = TRUE]}
      BY <1>3, <1>4, <2>1, TheAccount DEF Account!CreatePortfolio
    <3>2. [v EXCEPT !.portfolio = TRUE] \in AccountRow /\ [v EXCEPT !.portfolio = TRUE].portfolio = TRUE
      BY DEF AccountRow
    <3> QED
      BY <3>1, <3>2, Zenon
  <2>2. CASE Account!LinkGoogle(r)
    <3>1. users' = {[v EXCEPT !.provider = "google"]} /\ ~Account!CreatePortfolio(r)
      BY <1>3, <1>4, <2>2, TheAccount DEF Account!LinkGoogle, Account!CreatePortfolio, Account!At
    <3> QED
      BY <1>4, <3>1 DEF AccountRow
  <2>3. CASE Account!SetPassword(r)
    <3>1. users' = {[v EXCEPT !.password = req[r].password]} /\ ~Account!CreatePortfolio(r)
      BY <1>3, <1>4, <2>3, TheAccount DEF Account!SetPassword, Account!CreatePortfolio, Account!At
    <3> QED
      BY <1>3, <1>4, <3>1 DEF AccountRow, ReqType
  <2> QED
    BY <2>1, <2>2, <2>3
<1>6. /\ UNCHANGED <<resets, issued, used, fails>>
      /\ saved \subseteq saved' /\ saved' \subseteq Passwords
  <2>1. Account!SetPassword(r) => req[r].password \in Passwords
    BY <1>3 DEF Account!SetPassword, Account!At, Reached, ReqType
  <2> QED
    BY <2>1 DEF Account!CreatePortfolio, Account!LinkGoogle, Account!SetPassword, AccountInv, Account!TypeOK
<1>7. Account!TypeOK'
  BY <1>2, <1>5, <1>6 DEF AccountInv, Account!TypeOK, ReqType, AccountRow
<1>8. Reached(req[r])'
  BY <1>1, <1>2, <1>3, <1>5, <1>6 DEF Reached
<1>9. \A x \in Requests \ {r} : Reached(req[x])'
  BY <1>2, <1>5, <1>6 DEF AccountInv, Reached
<1>10. Account!PortfolioOrFailure'
  <2> SUFFICES ASSUME ~u.portfolio, ~(fails > 0)
               PROVE  \E x \in Requests : req'[x].at = "portfolio"
    BY <1>5, <1>6 DEF Account!PortfolioOrFailure
  <2>1. PICK x \in Requests : req[x].at = "portfolio"
    BY <1>4, <1>5 DEF AccountInv, Account!PortfolioOrFailure
  <2>2. x # r
    BY <1>1, <1>5, <2>1
  <2> QED
    BY <1>2, <2>1, <2>2
<1> QED
  BY <1>5, <1>6, <1>7, <1>8, <1>9, <1>10 DEF AccountInv, Single, Tokens

LEMMA TokenSteps ==
  ASSUME AccountAssumption, AccountInv, NEW r \in Requests,
         Account!SaveToken(r) \/ Account!DeleteToken(r)
  PROVE  AccountInv'
<1>1. /\ Account!Goes(r, "ok") /\ UNCHANGED <<users, saved, fails>>
      /\ req[r].at \in {"upsert", "delete"} /\ req[r].kind # "signup"
  BY DEF Account!SaveToken, Account!DeleteToken, Account!At
<1>2. /\ req' \in [Requests -> ReqType] /\ req'[r].at = "ok"
      /\ req'[r].kind = req[r].kind /\ req'[r].password = req[r].password /\ req'[r].token = req[r].token
      /\ \A x \in Requests \ {r} : req'[x] = req[x]
  BY <1>1, Going DEF Account!Answers
<1>3. users # {} /\ Reached(req[r]) /\ req[r] \in ReqType
  BY <1>1 DEF AccountInv, Reached, Account!TypeOK, ReqType
<1>4. /\ issued \in 0..MaxTokens /\ used \subseteq 1..issued /\ resets \in 0..issued
      /\ \A x \in Requests : req[x].token \in 0..issued
  BY DEF AccountInv, Account!TypeOK, Tokens, Reached
<1>5. issued' \in issued..MaxTokens /\ Tokens'
  <2>1. CASE Account!SaveToken(r)
    BY <1>1, <1>3, <1>4, <2>1 DEF Account!SaveToken, Account!Upsert, Tokens, AccountAssumption
  <2>2. CASE Account!DeleteToken(r)
    <3>1. req[r].token > 0
      BY <1>3, <2>2 DEF Account!DeleteToken, Account!At, Reached
    <3>2. resets' = 0 /\ issued' = issued /\ used' = used \cup {req[r].token}
      BY <2>2 DEF Account!DeleteToken, Account!Delete
    <3>3. req[r].token \in 1..issued
      BY <1>4, <3>1
    <3>4. 0 \notin used'
      BY <1>4, <3>1, <3>2
    <3> QED
      <4>1. issued' \in issued..MaxTokens
        BY <1>4, <3>2, AccountAssumption DEF AccountAssumption
      <4>2. used' \subseteq 1..issued'
        BY <1>4, <3>2, <3>3
      <4> QED
        BY <1>1, <1>3, <1>4, <3>2, <3>4, <4>1, <4>2 DEF Tokens
  <2> QED
    BY <2>1, <2>2
<1>6. Account!TypeOK'
  BY <1>1, <1>2, <1>4, <1>5 DEF AccountInv, Account!TypeOK, ReqType, Tokens, AccountAssumption
<1>7. Reached(req[r])'
  BY <1>1, <1>2, <1>3, <1>4, <1>5 DEF Reached
<1>8. \A x \in Requests \ {r} : Reached(req[x])'
  <2> SUFFICES ASSUME NEW x \in Requests \ {r} PROVE Reached(req[x])'
    OBVIOUS
  <2>1. Reached(req[x]) /\ req'[x] = req[x] /\ req'[x].token \in 0..issued'
    BY <1>2, <1>4, <1>5 DEF AccountInv, AccountAssumption
  <2> QED
    BY <1>1, <2>1 DEF Reached
<1>9. Account!PortfolioOrFailure'
  <2> SUFFICES ASSUME NEW u \in users, ~u.portfolio, ~(fails > 0)
               PROVE  \E x \in Requests : req'[x].at = "portfolio"
    BY <1>1 DEF Account!PortfolioOrFailure
  <2>1. PICK x \in Requests : req[x].at = "portfolio"
    BY DEF AccountInv, Account!PortfolioOrFailure
  <2> QED
    BY <1>1, <1>2, <2>1
<1> QED
  BY <1>1, <1>5, <1>6, <1>7, <1>8, <1>9 DEF AccountInv, Single

LEMMA AccountStep ==
  ASSUME AccountAssumption, AccountInv, [Account!Next]_(Account!vars)
  PROVE  AccountInv'
<1>1. CASE Account!ExpireToken
  BY <1>1 DEF Account!ExpireToken, AccountInv, Account!TypeOK, Single, Tokens, Reached, Account!PortfolioOrFailure,
              AccountAssumption
<1>2. CASE UNCHANGED Account!vars
  BY <1>2 DEF Account!vars, AccountInv, Account!TypeOK, Single, Tokens, Reached, Account!PortfolioOrFailure
<1> QED
  BY <1>1, <1>2, AskStep, FindsStep, InsertStep, AccountChanges, TokenSteps, FailStep DEF Account!Next

LEMMA AccountHolds == ASSUME AccountAssumption PROVE Account!Spec => []AccountInv
BY AccountInit, AccountStep, PTL DEF Account!Spec

\* However signups and sign-ins with Google overlap and whatever statement fails, the address has
\* one account, and the password of a signup that succeeded is one that was set
\* (authController.js signup, googleAuthController.js).
THEOREM OneAccountOnly == ASSUME AccountAssumption PROVE Account!Spec => []Account!OneAccount
<1>1. AccountInv => Account!OneAccount
  <2> SUFFICES ASSUME AccountInv PROVE Account!OneAccount
    OBVIOUS
  <2>1. users = {} \/ \E u : users = {u}
    BY DEF AccountInv, Single
  <2>2. Cardinality(users) <= 1
    <3>1. ASSUME NEW u, users = {u} PROVE Cardinality(users) = 1
      BY <3>1, FS_Singleton
    <3>2. Cardinality({}) = 0
      BY FS_EmptySet
    <3> QED
      BY <2>1, <3>1, <3>2
  <2> QED
    <3>1. \A r \in Requests : req[r].kind \in {"signup"} /\ req[r].at = "ok" => users # {} /\ req[r].password \in saved
      BY DEF AccountInv, Reached
    <3>2. Account!Cardinality(users) = Cardinality(users)
      BY Zenon DEF Account!Cardinality, Cardinality, Account!IsFiniteSet, IsFiniteSet
    <3> QED
      BY <2>2, <3>1, <3>2, Zenon DEF Account!OneAccount, Account!At
<1> QED
  BY <1>1, AccountHolds, PTL

\* An account without a portfolio has its portfolio coming, or a statement has failed
\* (authController.js signup, whose rows are written one after the other).
THEOREM PortfoliosCome == ASSUME AccountAssumption PROVE Account!Spec => []Account!PortfolioOrFailure
<1>1. AccountInv => Account!PortfolioOrFailure
  BY DEF AccountInv
<1> QED
  BY <1>1, AccountHolds, PTL

\* A link that has reset the password is good for nothing more; of several links the newest is
\* the good one (authController.js forgotPassword and resetPassword).
THEOREM LinksOnce == ASSUME AccountAssumption PROVE Account!Spec => Account!LinksWorkOnce
<1> DEFINE Newer == resets' = resets \/ resets' = 0 \/ resets' > issued
<1>1. AccountInv => resets \notin used
  BY DEF AccountInv, Tokens
<1>2. AccountInv /\ [Account!Next]_(Account!vars) => [Newer]_(Account!vars)
  <2> SUFFICES ASSUME AccountInv, Account!Next PROVE Newer
    OBVIOUS
  <2>1. ASSUME NEW r \in Requests, Account!SaveToken(r) PROVE Newer
    BY <2>1 DEF Account!SaveToken, Account!Upsert, AccountInv, Account!TypeOK
  <2> QED
    BY <2>1 DEF Account!Next, Account!ExpireToken, Account!Ask, Account!SignupFinds, Account!GoogleFinds,
      Account!Login, Account!ForgotFinds, Account!ResetFinds, Account!Insert, Account!Duplicate,
      Account!CreatePortfolio, Account!LinkGoogle, Account!SetPassword, Account!DeleteToken, Account!Delete,
      Account!Fail
<1> QED
  BY <1>1, <1>2, AccountHolds, PTL DEF Account!Spec, Account!LinksWorkOnce

-----------------------------------------------------------------------------
(* SignIn                                                                  *)

TabType == [page : {"login", "app"}, token : 0..MaxTokens, form : {"idle", "sent", "success"}]

\* A tab whose form has succeeded has its token already.
SignInv ==
  /\ given \in 0..MaxTokens /\ stored \in {0, given}
  /\ tab \in [Tabs -> TabType]
  /\ \A t \in Tabs : tab[t].page = "app" \/ tab[t].form = "success" => tab[t].token > 0

\* One tab becomes another.
LEMMA TabBecomes ==
  ASSUME SignInv, NEW t \in Tabs, NEW x \in TabType, tab' = [tab EXCEPT ![t] = x],
         given' \in 0..MaxTokens, stored' \in {0, given'},
         x.page = "app" \/ x.form = "success" => x.token > 0
  PROVE  SignInv'
BY DEF SignInv

LEMMA SignStep ==
  ASSUME MaxTokens \in Nat, SignInv, [Sign!Next]_(Sign!vars)
  PROVE  SignInv'
<1>1. \A t \in Tabs : tab[t] \in TabType
  BY DEF SignInv
<1>2. ASSUME NEW t \in Tabs, Sign!Submit(t) \/ Sign!Refused(t) \/ Sign!Enter(t) PROVE SignInv'
  <2>1. CASE Sign!Submit(t)
    BY <1>1, <2>1 DEF Sign!Submit, SignInv, TabType
  <2>2. CASE Sign!Refused(t)
    BY <1>1, <2>2 DEF Sign!Refused, SignInv, TabType
  <2>3. CASE Sign!Enter(t)
    <3>1. tab[t].token > 0
      BY <2>3 DEF Sign!Enter, SignInv
    <3>2. tab[t].token # 0
      BY <1>1, <3>1 DEF TabType
    <3>3. tab' = [tab EXCEPT ![t] = [tab[t] EXCEPT !.page = "app", !.form = "idle"]]
      BY <2>3, <3>2 DEF Sign!Enter, SignInv
    <3>4. PICK y \in TabType : y = tab[t]
      BY <1>1
    <3>5. PICK z \in TabType : z = [y EXCEPT !.page = "app", !.form = "idle"] /\ z.token = y.token /\ z.form = "idle"
      <4> DEFINE w == [y EXCEPT !.page = "app", !.form = "idle"]
      <4>1. w \in TabType /\ w.token = y.token /\ w.form = "idle"
        BY DEF TabType
      <4> QED
        BY <4>1, Zenon
    <3> QED
      BY <2>3, <3>1, <3>3, <3>4, <3>5, TabBecomes DEF Sign!Enter, SignInv
  <2> QED
    BY <1>2, <2>1, <2>2, <2>3
<1>3. ASSUME NEW t \in Tabs, Sign!SignedIn(t) PROVE SignInv'
  <2>1. PICK g \in 0..MaxTokens : g = given + 1 /\ given' = g /\ stored' = g /\ g > 0
    BY <1>3 DEF Sign!SignedIn, SignInv
  <2>2. tab' = [tab EXCEPT ![t] = [tab[t] EXCEPT !.token = g, !.form = "success"]]
    BY <1>3, <2>1 DEF Sign!SignedIn, SignInv
  <2>3. PICK y \in TabType : y = tab[t]
    BY <1>1
  <2>4. PICK z \in TabType : z = [y EXCEPT !.token = g, !.form = "success"] /\ z.token = g
    <3> DEFINE w == [y EXCEPT !.token = g, !.form = "success"]
    <3>1. w \in TabType /\ w.token = g
      BY DEF TabType
    <3> QED
      BY <3>1, Zenon
  <2> QED
    BY <2>1, <2>2, <2>3, <2>4, TabBecomes
<1>4. ASSUME NEW t \in Tabs, Sign!Unauthorized(t) PROVE SignInv'
  <2>1. PICK c \in calls[t] : Sign!LoadLogin(t, c)
    BY <1>4 DEF Sign!Unauthorized
  <2>2. stored' = 0 /\ given' = given
    BY <1>4 DEF Sign!Unauthorized
  <2>3. Sign!SignedOut \in TabType /\ Sign!SignedOut.page = "login" /\ Sign!SignedOut.form = "idle"
    BY DEF Sign!SignedOut, TabType
  <2>4. CASE tab[t].page = "login"
    BY <2>1, <2>2, <2>4 DEF Sign!LoadLogin, SignInv
  <2>5. CASE tab[t].page # "login"
    BY <2>1, <2>2, <2>3, <2>5, TabBecomes DEF Sign!LoadLogin, SignInv
  <2> QED
    BY <2>4, <2>5
<1>5. ASSUME NEW t \in Tabs, Sign!Logout(t) PROVE SignInv'
  <2>1. Sign!SignedOut \in TabType /\ Sign!SignedOut.page = "login" /\ Sign!SignedOut.form = "idle"
    BY DEF Sign!SignedOut, TabType
  <2> QED
    BY <1>5, <2>1, TabBecomes DEF Sign!Logout, SignInv
<1>6. ASSUME NEW t \in Tabs, Sign!Reload(t) PROVE SignInv'
  <2>1. stored \in 0..MaxTokens
    BY DEF SignInv
  <2>2. PICK z \in TabType : /\ z = [page |-> IF stored = 0 THEN "login" ELSE "app", token |-> stored, form |-> "idle"]
                             /\ z.page = "app" => z.token > 0
                             /\ z.form = "idle"
    <3> DEFINE w == [page |-> IF stored = 0 THEN "login" ELSE "app", token |-> stored, form |-> "idle"]
    <3>1. w \in TabType /\ (w.page = "app" => w.token > 0) /\ w.form = "idle"
      BY <2>1 DEF TabType
    <3> QED
      BY <3>1, Zenon
  <2> QED
    BY <1>6, <2>2, TabBecomes DEF Sign!Reload, SignInv
<1>7. CASE (\E c \in 1..MaxTokens : Sign!Expire(c)) \/ (\E t \in Tabs : Sign!Call(t) \/ Sign!Answered(t))
           \/ UNCHANGED Sign!vars
  BY <1>7 DEF Sign!Expire, Sign!Call, Sign!Answered, Sign!vars, SignInv
<1> QED
  BY <1>2, <1>3, <1>4, <1>5, <1>6, <1>7 DEF Sign!Next

\* What the browser keeps is the newest token or none, and no tab shows the application without
\* a token in its context, whichever tab signs in, out or is refused (AuthContext.jsx, api.js).
THEOREM NewestTokenIsKept == ASSUME MaxTokens \in Nat PROVE Sign!Spec => []Sign!NewestIsStored
<1>1. ASSUME Sign!Init PROVE SignInv
  <2>1. Sign!SignedOut \in TabType /\ Sign!SignedOut.page = "login" /\ Sign!SignedOut.form = "idle"
    BY DEF Sign!SignedOut, TabType
  <2>2. tab \in [Tabs -> TabType] /\ \A t \in Tabs : tab[t] = Sign!SignedOut
    BY <1>1, <2>1 DEF Sign!Init
  <2> QED
    BY <1>1, <2>1, <2>2 DEF Sign!Init, SignInv
<1>2. SignInv => Sign!NewestIsStored
  BY DEF SignInv, Sign!NewestIsStored
<1> QED
  BY <1>1, <1>2, SignStep, PTL DEF Sign!Spec

-----------------------------------------------------------------------------
(* OrderBook                                                               *)

\* An entry that was true of the order when it was read, and is no further than the order now.
Behind(e) ==
  /\ e \in Book!Entry /\ e.fill <= order.fill
  /\ e.status \in Book!Final => e.status = order.state

\* Every copy of the order that is anywhere on its way.
BookInv ==
  /\ order \in [state : {"working"} \cup Book!Final, fill : 0..Size]
  /\ oms \in [at : {"idle", "read", "answered"}, status : Book!Statuses, book : Book!Entry \cup {None}]
  /\ oms.at = "answered" => Behind(oms.book)
  /\ fills # None => Behind(fills)
  /\ \A a \in answers : Behind(a)
  /\ Behind(row) /\ (shown # None => Behind(shown))
  /\ cancel = "accepted" => order.state = "CANCELLED"

\* What the broker does to the order leaves no copy ahead of it: only a working order changes,
\* and its fill grows.
LEMMA OrderGoesOn ==
  ASSUME Size \in Nat, BookInv, order.state = "working",
         order' \in [state : {"working"} \cup Book!Final, fill : 0..Size],
         order'.fill >= order.fill
  PROVE  \A e : Behind(e) => Behind(e)'
<1> SUFFICES ASSUME NEW e, Behind(e) PROVE Behind(e)'
  OBVIOUS
<1>1. e.status \notin Book!Final
  BY DEF Behind, Book!Final
<1>2. e.fill \in 0..Size /\ order.fill \in 0..Size /\ order'.fill \in 0..Size
  BY DEF Behind, BookInv, Book!Entry
<1> QED
  BY <1>1, <1>2 DEF Behind

LEMMA ReportIsBehind ==
  ASSUME Size \in Nat, BookInv
  PROVE  Behind(Book!Report)
BY DEF BookInv, Behind, Book!Report, Book!Entry, Book!Statuses, Book!Final

LEMMA BookStep ==
  ASSUME Size \in Nat, BookInv, [Book!Next]_(Book!vars)
  PROVE  BookInv'
<1>1. ASSUME UNCHANGED order PROVE \A e : Behind(e) => Behind(e)'
  BY <1>1 DEF Behind
<1>2. CASE Book!Fills \/ Book!Rejects
  <2>1. /\ order.state = "working" /\ order'.fill >= order.fill
        /\ order' \in [state : {"working"} \cup Book!Final, fill : 0..Size]
        /\ UNCHANGED <<row, oms, fills, answers, shown, cancel>>
    <3>1. CASE Book!Fills
      <4>1. PICK n \in order.fill + 1 .. Size :
              order' = [state |-> IF n = Size THEN "COMPLETED" ELSE "working", fill |-> n]
        BY <3>1 DEF Book!Fills
      <4>2. order.fill \in 0..Size /\ n \in 0..Size /\ n >= order.fill
        BY DEF BookInv
      <4> QED
        BY <3>1, <4>1, <4>2 DEF Book!Fills, Book!Final, Book!writers, Book!page
    <3>2. CASE Book!Rejects
      BY <3>2 DEF Book!Rejects, Book!Final, BookInv, Book!writers, Book!page
    <3> QED
      BY <1>2, <3>1, <3>2
  <2> QED
    BY <2>1, OrderGoesOn DEF BookInv
<1>3. CASE Book!OmsReadsRow \/ Book!OmsReadsBook \/ Book!OmsWrites
  <2>1. UNCHANGED <<order, fills, answers, shown, cancel>>
    BY <1>3 DEF Book!OmsReadsRow, Book!OmsReadsBook, Book!OmsWrites, Book!page
  <2>2. /\ oms' \in [at : {"idle", "read", "answered"}, status : Book!Statuses, book : Book!Entry \cup {None}]
        /\ oms'.at = "answered" => oms'.book = Book!Report
    <3>1. Book!Report \in Book!Entry /\ row.status \in Book!Statuses
      BY ReportIsBehind DEF BookInv, Behind, Book!Entry
    <3>2. Book!Rest \in [at : {"idle", "read", "answered"}, status : Book!Statuses, book : Book!Entry \cup {None}]
          /\ Book!Rest.at = "idle"
      BY DEF Book!Rest, Book!Statuses
    <3>3. CASE Book!OmsReadsRow
      BY <3>1, <3>3 DEF Book!OmsReadsRow
    <3>4. CASE Book!OmsReadsBook
      BY <3>1, <3>2, <3>4 DEF Book!OmsReadsBook, BookInv
    <3>5. CASE Book!OmsWrites
      BY <3>2, <3>5 DEF Book!OmsWrites
    <3> QED
      BY <1>3, <3>3, <3>4, <3>5
  <2>3. row' = row \/ (oms.at = "answered" /\ row' = oms.book)
    BY <1>3 DEF Book!OmsReadsRow, Book!OmsReadsBook, Book!OmsWrites
  <2> QED
    BY <1>1, <2>1, <2>2, <2>3, ReportIsBehind DEF BookInv
<1>4. CASE Book!FillsRead \/ Book!FillsWritten
  <2>1. UNCHANGED <<order, oms, answers, shown, cancel>>
    BY <1>4 DEF Book!FillsRead, Book!FillsWritten, Book!page
  <2>2. fills' \in {None, Book!Report}
    BY <1>4 DEF Book!FillsRead, Book!FillsWritten
  <2>3. row' = row \/ (fills # None /\ row' = [row EXCEPT !.fill = fills.fill])
    BY <1>4 DEF Book!FillsRead, Book!FillsWritten
  <2>4. Behind(row')
    BY <2>3 DEF BookInv, Behind, Book!Entry
  <2> QED
    BY <1>1, <2>1, <2>2, <2>4, ReportIsBehind DEF BookInv
<1>5. CASE Book!Ask
  <2>1. UNCHANGED <<order, row, oms, fills, shown, cancel>>
    BY <1>5 DEF Book!Ask, Book!writers
  <2>2. PICK b \in {Book!Report, None} : answers' = answers \cup {Book!Merged(b)}
    BY <1>5 DEF Book!Ask
  <2>3. Behind(Book!Merged(b))
    BY <2>2, ReportIsBehind DEF Book!Merged, BookInv, Behind, Book!Entry
  <2> QED
    BY <1>1, <2>1, <2>2, <2>3 DEF BookInv
<1>6. CASE \E a \in Book!Said : Book!Show(a)
  <2>1. PICK a \in answers : answers' = answers \ {a} /\ shown' = a
    BY <1>6 DEF Book!Show
  <2> QED
    BY <1>1, <1>6, <2>1 DEF BookInv, Book!Show, Book!writers
<1>7. CASE Book!Cancel \/ UNCHANGED Book!vars
  BY <1>1, <1>7 DEF BookInv, Book!Cancel, Book!writers, Book!page, Book!vars
<1>8. CASE Book!CancelAnswered
  <2>1. UNCHANGED <<row, oms, fills, answers, shown>>
    BY <1>8 DEF Book!CancelAnswered, Book!writers, Book!page
  <2>2. CASE order.state = "working"
    <3>1. order' = [order EXCEPT !.state = "CANCELLED"]
      BY <1>8, <2>2 DEF Book!CancelAnswered
    <3>2. order' \in [state : {"working"} \cup Book!Final, fill : 0..Size] /\ order'.fill >= order.fill
          /\ order'.state = "CANCELLED"
      BY <3>1 DEF BookInv, Book!Final
    <3> QED
      BY <2>1, <2>2, <3>2, OrderGoesOn DEF BookInv
  <2>3. CASE order.state # "working"
    BY <1>1, <1>8, <2>1, <2>3 DEF Book!CancelAnswered, BookInv
  <2> QED
    BY <2>2, <2>3
<1>9. CASE Book!CancelSaved
  <2>1. UNCHANGED <<order, oms, fills, answers, shown>> /\ cancel = "accepted" /\ cancel' = "idle"
    BY <1>9 DEF Book!CancelSaved, Book!writers, Book!page
  <2>2. row' = row \/ row' = [row EXCEPT !.status = "CANCELLED"]
    BY <1>9 DEF Book!CancelSaved
  <2>3. Behind(row')
    BY <2>1, <2>2 DEF BookInv, Behind, Book!Entry, Book!Statuses, Book!Final
  <2> QED
    BY <1>1, <2>1, <2>3 DEF BookInv
<1> QED
  BY <1>2, <1>3, <1>4, <1>5, <1>6, <1>7, <1>8, <1>9 DEF Book!Next

\* However passes of the OMS, fill reconciliations, answers to the page and a cancel overtake one
\* another, no row and no page says more was filled than the broker has filled, or that an order
\* is done which still works (liveExecutionEngine.js reconcile, executionQuality.js, LiveOrders.jsx).
THEOREM NothingAhead == ASSUME Size \in Nat PROVE Book!Spec => []Book!NeverAhead
<1>1. ASSUME Book!Init PROVE BookInv
  <2>1. Behind(row)
    BY <1>1 DEF Book!Init, Behind, Book!Entry, Book!Statuses, Book!Final
  <2> QED
    BY <1>1, <2>1 DEF Book!Init, BookInv, Book!Rest, Book!Statuses, Book!Final
<1>2. BookInv => Book!NeverAhead
  BY DEF BookInv, Behind, Book!NeverAhead
<1> QED
  BY <1>1, <1>2, BookStep, PTL DEF Book!Spec

-----------------------------------------------------------------------------
(* TradeDesk                                                               *)

\* The button is disabled while a request is under way.
DeskInv == inflight \in {0, 1} /\ (inflight = 1 => placing)

LEMMA DeskStep == DeskInv /\ [Desk!Next]_(Desk!vars) => DeskInv'
<1> SUFFICES ASSUME DeskInv, [Desk!Next]_(Desk!vars) PROVE DeskInv'
  OBVIOUS
<1> USE DEF Desk!context, Desk!ticket
<1>1. CASE Desk!SessionChanges \/ Desk!Poll \/ Desk!Disconnect \/ Desk!Cleared \/ Desk!Synced
        \/ \E k \in Desk!Asks : Desk!Answer(k) \/ Desk!Fails(k)
  BY <1>1 DEF DeskInv, Desk!SessionChanges, Desk!Poll, Desk!Disconnect, Desk!Cleared, Desk!Synced, Desk!Answer, Desk!Fails
<1>2. CASE \E k \in Desk!Asks : Desk!Reported(k)
  BY <1>2 DEF DeskInv, Desk!Reported, Desk!ReportBroker
<1>3. CASE \E d \in {"live", "arm", "order"} : Desk!Show(d)
  BY <1>3 DEF DeskInv, Desk!Show
<1>4. CASE Desk!Close \/ Desk!GoLive \/ Desk!Arm \/ Desk!GoPaper
  BY <1>4 DEF DeskInv, Desk!Close, Desk!GoLive, Desk!Arm, Desk!GoPaper
<1>5. CASE Desk!Confirm \/ Desk!OrderAnswered
  BY <1>5 DEF DeskInv, Desk!Confirm, Desk!OrderAnswered
<1>6. CASE Desk!Turn \/ Desk!Reload \/ UNCHANGED Desk!vars
  BY <1>6 DEF DeskInv, Desk!Turn, Desk!Reload, Desk!vars
<1> QED
  BY <1>1, <1>2, <1>3, <1>4, <1>5, <1>6 DEF Desk!Next

\* However tickets are closed, left behind and opened again, a page waits for one order request
\* at most (Trade.jsx, the button of the ticket and liveLoading).
THEOREM OneOrderOnly == Desk!Spec => []Desk!OneOrderAtATime
<1>1. Desk!Init => DeskInv
  BY DEF Desk!Init, DeskInv
<1>2. DeskInv => Desk!OneOrderAtATime
  BY DEF DeskInv, Desk!OneOrderAtATime
<1> QED
  BY <1>1, <1>2, DeskStep, PTL DEF Desk!Spec

\* What takes the tab from LIVE to PAPER.
LEMMA WhoLeavesLive ==
  ASSUME Desk!Next, mode = "LIVE", mode' = "PAPER"
  PROVE  /\ Desk!GoPaper \/ Desk!Reload \/ \E k \in {"poll", "drop"} : asks[k] = "down" /\ Desk!Reported(k)
         /\ ~armed' \/ Desk!Reload
<1> USE DEF Desk!context, Desk!ticket
<1>1. Desk!GoPaper \/ Desk!Reload \/ \E k \in Desk!Asks : Desk!Reported(k)
  BY DEF Desk!Next, Desk!SessionChanges, Desk!Poll, Desk!Disconnect, Desk!Cleared, Desk!Synced,
    Desk!Answer, Desk!Fails, Desk!Show, Desk!Close, Desk!GoLive, Desk!Arm, Desk!Confirm,
    Desk!OrderAnswered, Desk!Turn
<1>2. ASSUME NEW k \in Desk!Asks, Desk!Reported(k)
      PROVE  k \in {"poll", "drop"} /\ asks[k] = "down" /\ ~armed'
  BY <1>2 DEF Desk!Reported, Desk!ReportBroker, Desk!Asks
<1> QED
  BY <1>1, <1>2 DEF Desk!GoPaper

\* The tab leaves LIVE because the user says so or reloads it, or because the server has said
\* that the broker is not connected; a status request that failed never demotes it
\* (TradingModeContext.jsx, reportBroker).
THEOREM LiveIsLeftForAReason == Desk!Spec => Desk!LeavesLiveForAReason
<1>1. [Desk!Next]_(Desk!vars) =>
      [mode = "LIVE" /\ mode' = "PAPER" =>
         Desk!GoPaper \/ Desk!Reload \/ \E k \in {"poll", "drop"} : asks[k] = "down" /\ Desk!Reported(k)]_(Desk!vars)
  BY WhoLeavesLive
<1> QED
  BY <1>1, PTL DEF Desk!Spec, Desk!LeavesLiveForAReason

\* Whoever leaves LIVE has to arm again, unless it was by a reload (TradingModeContext.jsx).
THEOREM LiveIsLeftDisarmed == Desk!Spec => Desk!LeavingDisarms
<1>1. [Desk!Next]_(Desk!vars) => [mode = "LIVE" /\ mode' = "PAPER" => ~armed' \/ Desk!Reload]_(Desk!vars)
  BY WhoLeavesLive
<1> QED
  BY <1>1, PTL DEF Desk!Spec, Desk!LeavingDisarms

-----------------------------------------------------------------------------
(* ClientFeed                                                              *)

SockType == [tab : Tabs \cup {None}, client : {"none", "connecting", "open", "gone"},
             server : {"none", "open", "gone"}, handled : BOOLEAN, queue : Seq(Feed!Messages)]

Joins(m, s) == m.kind = "SUBSCRIBE" /\ s \in m.symbols
Leaves(m, s) == m.kind = "UNSUBSCRIBE" /\ s \in m.symbols

\* When the messages of queue q before the i-th have arrived, socket k is among those that watch s,
\* S being the sockets that watch it now.
Watches(k, S, q, s, i) ==
  \/ \E j \in 1..i - 1 : Joins(q[j], s) /\ \A m \in j + 1..i - 1 : ~Leaves(q[m], s)
  \/ k \in S /\ \A m \in 1..i - 1 : ~Leaves(q[m], s)

\* With messages q under way on socket k, whoever leaves s was watching it, and if s is shown it is
\* watched when all messages have arrived.
InOrder(k, q, S, s, seen) ==
  /\ \A i \in 1..Len(q) : Leaves(q[i], s) => Watches(k, S, q, s, i)
  /\ seen => Watches(k, S, q, s, Len(q) + 1)

\* A tab whose socket is k has s on its screen.
Seen(k, s) == \E t \in Tabs : current[t] = k /\ views[t][s] > 0

Orderly(k) ==
  Feed!Open(k) => \A s \in Symbols : InOrder(k, sock[k].queue, subs[s], s, Seen(k, s))

FeedType ==
  /\ views \in [Tabs -> [Symbols -> Nat]]
  /\ current \in [Tabs -> Sockets \cup {None}]
  /\ sock \in [Sockets -> SockType]
  /\ subs \in [Symbols -> SUBSET Sockets]
  /\ counts \in [Symbols -> Nat]

\* The server's books: only sockets alive there watch, polls run for what is watched, counts suffice.
Books ==
  /\ \A s \in Symbols, k \in Sockets : k \in subs[s] => sock[k].server = "open"
  /\ polls = Feed!Polling(subs)
  /\ \A s \in Symbols : Cardinality(subs[s]) <= counts[s]

Own == \A t \in Tabs, k \in Sockets : current[t] = k => sock[k].tab = t /\ sock[k].client # "none"

FeedInv == FeedType /\ Books /\ Own /\ \A k \in Sockets : Orderly(k)

LEMMA WatchesAfterAppend ==
  ASSUME NEW k, NEW S, NEW s, NEW q \in Seq(Feed!Messages), NEW m \in Feed!Messages
  PROVE  /\ Len(Append(q, m)) = Len(q) + 1 /\ Len(q) \in Nat
         /\ Append(q, m)[Len(q) + 1] = m
         /\ \A i \in 1..Len(q) : Append(q, m)[i] = q[i]
         /\ \A i \in 1..Len(q) + 1 : Watches(k, S, q, s, i) => Watches(k, S, Append(q, m), s, i)
         /\ Joins(m, s) => Watches(k, S, Append(q, m), s, Len(q) + 2)
         /\ ~Leaves(m, s) /\ Watches(k, S, q, s, Len(q) + 1) => Watches(k, S, Append(q, m), s, Len(q) + 2)
<1> DEFINE a == Append(q, m)
           n == Len(q)
<1>1. /\ Len(a) = n + 1 /\ n \in Nat /\ a[n + 1] = m
      /\ \A i \in 1..n : a[i] = q[i]
  BY AppendProperties, LenProperties
<1> HIDE DEF a, n
<1>2. \A i \in 1..n + 1 : Watches(k, S, q, s, i) => Watches(k, S, a, s, i)
  <2> SUFFICES ASSUME NEW i \in 1..n + 1, Watches(k, S, q, s, i) PROVE Watches(k, S, a, s, i)
    OBVIOUS
  <2>1. \A j \in 1..i - 1 : a[j] = q[j]
    BY <1>1
  <2>2. CASE \E j \in 1..i - 1 : Joins(q[j], s) /\ \A x \in j + 1..i - 1 : ~Leaves(q[x], s)
    <3>1. PICK j \in 1..i - 1 : Joins(q[j], s) /\ \A x \in j + 1..i - 1 : ~Leaves(q[x], s)
      BY <2>2
    <3>2. Joins(a[j], s) /\ \A x \in j + 1..i - 1 : ~Leaves(a[x], s)
      BY <2>1, <3>1
    <3> QED
      BY <3>2 DEF Watches
  <2>3. CASE k \in S /\ \A x \in 1..i - 1 : ~Leaves(q[x], s)
    BY <2>1, <2>3 DEF Watches
  <2> QED
    BY <2>2, <2>3 DEF Watches
<1>3. Joins(m, s) => Watches(k, S, a, s, n + 2)
  <2> SUFFICES ASSUME Joins(m, s) PROVE Watches(k, S, a, s, n + 2)
    OBVIOUS
  <2>1. n + 1 \in 1..(n + 2) - 1 /\ Joins(a[n + 1], s) /\ \A x \in (n + 1) + 1..(n + 2) - 1 : FALSE
    BY <1>1
  <2> QED
    BY <2>1 DEF Watches
<1>4. ~Leaves(m, s) /\ Watches(k, S, q, s, n + 1) => Watches(k, S, a, s, n + 2)
  <2> SUFFICES ASSUME ~Leaves(m, s), Watches(k, S, q, s, n + 1) PROVE Watches(k, S, a, s, n + 2)
    OBVIOUS
  <2>1. \A x \in 1..(n + 2) - 1 : x = n + 1 \/ (x \in 1..(n + 1) - 1 /\ a[x] = q[x])
    BY <1>1
  <2>2. CASE \E j \in 1..(n + 1) - 1 : Joins(q[j], s) /\ \A x \in j + 1..(n + 1) - 1 : ~Leaves(q[x], s)
    <3>1. PICK j \in 1..(n + 1) - 1 : Joins(q[j], s) /\ \A x \in j + 1..(n + 1) - 1 : ~Leaves(q[x], s)
      BY <2>2
    <3>2. j \in 1..(n + 2) - 1 /\ Joins(a[j], s)
      BY <1>1, <3>1
    <3>3. \A x \in j + 1..(n + 2) - 1 : ~Leaves(a[x], s)
      BY <1>1, <2>1, <3>1
    <3> QED
      BY <3>2, <3>3 DEF Watches
  <2>3. CASE k \in S /\ \A x \in 1..(n + 1) - 1 : ~Leaves(q[x], s)
    BY <1>1, <2>1, <2>3 DEF Watches
  <2> QED
    BY <2>2, <2>3 DEF Watches
<1> QED
  BY <1>1, <1>2, <1>3, <1>4 DEF a, n

\* The first message arrives, T being the sockets that watch s then.
LEMMA WatchesAfterArrival ==
  ASSUME NEW k, NEW S, NEW T, NEW s, NEW q \in Seq(Feed!Messages), q # <<>>,
         Joins(Head(q), s) => k \in T,
         ~Leaves(Head(q), s) /\ k \in S => k \in T
  PROVE  /\ Tail(q) \in Seq(Feed!Messages) /\ Len(q) \in Nat /\ Len(q) > 0 /\ Len(Tail(q)) = Len(q) - 1
         /\ \A i \in 1..Len(q) - 1 : Tail(q)[i] = q[i + 1]
         /\ \A i \in 1..Len(q) : Watches(k, S, q, s, i + 1) => Watches(k, T, Tail(q), s, i)
<1> DEFINE a == Tail(q)
           n == Len(q)
<1>1. /\ a \in Seq(Feed!Messages) /\ n \in Nat /\ n > 0 /\ Len(a) = n - 1 /\ Head(q) = q[1]
      /\ \A i \in 1..n - 1 : a[i] = q[i + 1]
  BY HeadTailProperties, LenProperties, EmptySeq
<1>2. \A i \in 1..n : Watches(k, S, q, s, i + 1) => Watches(k, T, a, s, i)
  <2> SUFFICES ASSUME NEW i \in 1..n, Watches(k, S, q, s, i + 1) PROVE Watches(k, T, a, s, i)
    OBVIOUS
  <2> HIDE DEF a, n
  <2>1. \A x \in 1..i - 1 : a[x] = q[x + 1] /\ x + 1 \in 1..(i + 1) - 1
    BY <1>1
  <2>2. CASE \E j \in 1..(i + 1) - 1 : Joins(q[j], s) /\ \A x \in j + 1..(i + 1) - 1 : ~Leaves(q[x], s)
    <3>1. PICK j \in 1..(i + 1) - 1 : Joins(q[j], s) /\ \A x \in j + 1..(i + 1) - 1 : ~Leaves(q[x], s)
      BY <2>2
    <3>2. CASE j = 1
      <4>1. k \in T
        BY <1>1, <3>1, <3>2
      <4>2. \A x \in 1..i - 1 : ~Leaves(a[x], s)
        BY <1>1, <2>1, <3>1, <3>2
      <4> QED
        BY <4>1, <4>2 DEF Watches
    <3>3. CASE j # 1
      <4>1. j - 1 \in 1..i - 1 /\ a[j - 1] = q[j]
        BY <1>1, <2>1, <3>1, <3>3
      <4>2. \A x \in (j - 1) + 1..i - 1 : ~Leaves(a[x], s)
        BY <1>1, <2>1, <3>1, <3>3
      <4> QED
        BY <3>1, <4>1, <4>2 DEF Watches
    <3> QED
      BY <3>2, <3>3
  <2>3. CASE k \in S /\ \A x \in 1..(i + 1) - 1 : ~Leaves(q[x], s)
    <3>1. k \in T
      BY <1>1, <2>3
    <3>2. \A x \in 1..i - 1 : ~Leaves(a[x], s)
      BY <2>1, <2>3
    <3> QED
      BY <3>1, <3>2 DEF Watches
  <2> QED
    BY <2>2, <2>3 DEF Watches
<1> QED
  BY <1>1, <1>2

\* A component that comes or goes, without a message.
LEMMA ViewKeeps ==
  ASSUME Feed!FeedAssumption, FeedInv, views' \in [Tabs -> [Symbols -> Nat]],
         UNCHANGED <<current, sock, subs, polls, counts>>,
         \A t \in Tabs, s \in Symbols :
           views'[t][s] > 0 => views[t][s] > 0 \/ current[t] = None \/ sock[current[t]].client # "open"
  PROVE  FeedInv'
<1>1. ASSUME NEW k \in Sockets PROVE Orderly(k)'
  <2>1. Orderly(k)
    BY Zenon DEF FeedInv
  <2>2. ASSUME Feed!Open(k), NEW s \in Symbols, Seen(k, s)' PROVE Seen(k, s)
    BY <2>2 DEF Feed!FeedAssumption, Feed!Open, Seen
  <2> QED
    BY <2>1, <2>2 DEF Orderly, Feed!Open, InOrder
<1>2. FeedType' /\ Own'
  BY DEF FeedInv, FeedType, Own
<1>3. Books'
  BY DEF FeedInv, Books, Feed!Polling
<1> QED
  BY <1>1, <1>2, <1>3 DEF FeedInv

\* A component that comes or goes, with message m on socket k.
LEMMA MessageKeeps ==
  ASSUME FeedInv, NEW t \in Tabs, NEW s \in Symbols, NEW k \in Sockets, current[t] = k,
         NEW q, q = sock[k].queue, NEW m \in Feed!Messages, m.symbols = {s},
         views' \in [Tabs -> [Symbols -> Nat]], UNCHANGED <<current, subs, polls, counts>>,
         sock' = [sock EXCEPT ![k].queue = Append(q, m)],
         \A u \in Tabs : u # t => views'[u] = views[u],
         \A x \in Symbols : x # s => views'[t][x] = views[t][x],
         m.kind = "UNSUBSCRIBE" => views[t][s] > 0 /\ ~(views'[t][s] > 0)
  PROVE  FeedInv'
<1> DEFINE n == Len(q)
           a == Append(q, m)
<1>0. sock \in [Sockets -> SockType] /\ sock[k] \in SockType /\ q \in Seq(Feed!Messages)
  BY DEF FeedInv, FeedType, SockType
<1>2. /\ m.kind = "SUBSCRIBE" => Joins(m, s) /\ \A x \in Symbols : ~Leaves(m, x)
      /\ m.kind = "SUBSCRIBE" \/ m.kind = "UNSUBSCRIBE"
      /\ \A x \in Symbols : x # s => ~Leaves(m, x)
  BY DEF Joins, Leaves, Feed!Messages
<1>4. a \in Seq(Feed!Messages)
  BY <1>0, AppendProperties
<1> HIDE DEF n, a
<1>5. /\ sock'[k] = [sock[k] EXCEPT !.queue = a]
      /\ \A j \in Sockets : j # k => sock'[j] = sock[j]
      /\ DOMAIN sock' = Sockets
  BY <1>0 DEF a
<1>6. /\ sock'[k].queue = a /\ sock'[k].tab = sock[k].tab
      /\ sock'[k].client = sock[k].client /\ sock'[k].server = sock[k].server
      /\ sock'[k] \in SockType
  BY <1>0, <1>4, <1>5 DEF SockType
<1>7. sock' \in [Sockets -> SockType]
  <2>1. sock' = [j \in Sockets |-> sock'[j]]
    BY <1>0
  <2> QED
    BY <1>0, <1>5, <1>6, <2>1
<1>8. FeedType' /\ Own'
  BY <1>5, <1>6, <1>7 DEF FeedInv, FeedType, Own
<1>9. Books'
  BY <1>5, <1>6 DEF FeedInv, Books, Feed!Polling
<1>10. \A u \in Tabs : current[u] = k => u = t
  <2> SUFFICES ASSUME NEW u \in Tabs, current[u] = k PROVE u = t
    OBVIOUS
  <2>1. Own
    BY DEF FeedInv
  <2>2. sock[k].tab = u /\ sock[k].tab = t
    BY <2>1, Zenon DEF Own
  <2> QED
    BY <2>2
<1>11. ASSUME Feed!Open(k), NEW x \in Symbols PROVE InOrder(k, a, subs[x], x, Seen(k, x)')
  <2>0. /\ views[t][x] > 0 => Seen(k, x)
        /\ Seen(k, x)' => views'[t][x] > 0
    BY <1>10, Zenon DEF Seen
  <2>1. /\ \A i \in 1..n : Leaves(q[i], x) => Watches(k, subs[x], q, x, i)
        /\ views[t][x] > 0 => Watches(k, subs[x], q, x, n + 1)
    BY <1>11, <2>0, Zenon DEF FeedInv, Orderly, InOrder, n
  <2>2. /\ Len(a) = n + 1 /\ n \in Nat /\ a[n + 1] = m
        /\ \A i \in 1..n : a[i] = q[i]
        /\ \A i \in 1..n + 1 : Watches(k, subs[x], q, x, i) => Watches(k, subs[x], a, x, i)
        /\ Joins(m, x) => Watches(k, subs[x], a, x, n + 2)
        /\ ~Leaves(m, x) /\ Watches(k, subs[x], q, x, n + 1) => Watches(k, subs[x], a, x, n + 2)
    BY <1>0, WatchesAfterAppend, Zenon DEF n, a
  <2>3. ASSUME NEW i \in 1..n + 1, Leaves(a[i], x)
        PROVE  Watches(k, subs[x], a, x, i)
    <3>1. CASE i \in 1..n
      BY <2>1, <2>2, <2>3, <3>1
    <3>2. CASE i = n + 1
      <4>1. Leaves(m, x)
        BY <2>2, <2>3, <3>2
      <4>2. x = s /\ m.kind = "UNSUBSCRIBE"
        BY <1>2, <4>1
      <4>3. Watches(k, subs[x], q, x, n + 1)
        BY <2>1, <4>2
      <4> QED
        BY <2>2, <3>2, <4>3
    <3> QED
      BY <2>2, <2>3, <3>1, <3>2
  <2>4. ASSUME views'[t][x] > 0 PROVE Watches(k, subs[x], a, x, n + 2)
    <3>1. CASE x = s
      BY <1>2, <2>2, <2>4, <3>1
    <3>2. CASE x # s
      BY <1>2, <2>1, <2>2, <2>4, <3>2
    <3> QED
      BY <3>1, <3>2
  <2>5. Len(a) + 1 = n + 2
    BY <2>2
  <2> QED
    BY <2>0, <2>2, <2>3, <2>4, <2>5 DEF InOrder
<1>12. Orderly(k)'
  BY <1>6, <1>11 DEF Orderly, Feed!Open
<1>13. ASSUME NEW j \in Sockets, j # k PROVE Orderly(j)'
  <2>1. Orderly(j) /\ sock'[j] = sock[j]
    BY <1>5, <1>13, Zenon DEF FeedInv
  <2>2. \A x \in Symbols : Seen(j, x)' => Seen(j, x)
    BY <1>13, Zenon DEF Seen
  <2> QED
    BY <2>1, <2>2 DEF Orderly, Feed!Open, InOrder
<1>14. \A j \in Sockets : Orderly(j)'
  BY <1>12, <1>13, Zenon
<1> QED
  BY <1>8, <1>9, <1>14, Zenon DEF FeedInv

LEMMA ComponentsMove ==
  ASSUME Feed!FeedAssumption, FeedInv, NEW t \in Tabs, NEW s \in Symbols, Feed!Watch(t, s) \/ Feed!Unwatch(t, s)
  PROVE  FeedInv'
<1>0. /\ views \in [Tabs -> [Symbols -> Nat]] /\ views[t] \in [Symbols -> Nat] /\ views[t][s] \in Nat
      /\ current[t] \in Sockets \cup {None} /\ None \notin Sockets
  BY DEF FeedInv, FeedType, Feed!FeedAssumption
<1>3. UNCHANGED <<current, subs, polls, counts>>
  BY DEF Feed!Watch, Feed!Unwatch, Feed!server
<1>4. ASSUME NEW n \in Nat, views' = [views EXCEPT ![t][s] = n], sock' = sock,
             n > 0 => views[t][s] > 0 \/ current[t] = None \/ sock[current[t]].client # "open"
      PROVE  FeedInv'
  <2>1. /\ views' \in [Tabs -> [Symbols -> Nat]]
        /\ \A u \in Tabs, x \in Symbols :
             views'[u][x] > 0 => views[u][x] > 0 \/ current[u] = None \/ sock[current[u]].client # "open"
    BY <1>0, <1>4
  <2> QED
    BY <1>3, <1>4, <2>1, ViewKeeps
<1>5. ASSUME NEW n \in Nat, views' = [views EXCEPT ![t][s] = n],
             NEW kind \in {"SUBSCRIBE", "UNSUBSCRIBE"}, Feed!Send(t, kind, s),
             kind = "UNSUBSCRIBE" => views[t][s] > 0 /\ n = 0
      PROVE  FeedInv'
  <2> DEFINE k == current[t]
             m == [kind |-> kind, symbols |-> {s}]
  <2>1. CASE k # None /\ sock[k].client = "open"
    <3>1. sock' = [sock EXCEPT ![k].queue = Append(sock[k].queue, m)]
      BY <1>5, <2>1 DEF Feed!Send
    <3>2. k \in Sockets /\ m \in Feed!Messages /\ m.symbols = {s} /\ m.kind = kind
      BY <1>0, <2>1 DEF Feed!Messages
    <3>3. /\ views' \in [Tabs -> [Symbols -> Nat]] /\ views'[t][s] = n
          /\ \A u \in Tabs : u # t => views'[u] = views[u]
          /\ \A x \in Symbols : x # s => views'[t][x] = views[t][x]
      BY <1>0, <1>5
    <3>4. m.kind = "UNSUBSCRIBE" => views[t][s] > 0 /\ ~(views'[t][s] > 0)
      BY <1>5, <3>2, <3>3
    <3>5. PICK q : q = sock[k].queue
      OBVIOUS
    <3>6. PICK j \in Sockets : j = current[t] /\ j = k
      BY <3>2
    <3>7. sock' = [sock EXCEPT ![j].queue = Append(q, m)] /\ q = sock[j].queue /\ current[t] = j
      BY <3>1, <3>5, <3>6
    <3> HIDE DEF m, k
    <3> QED
      BY <1>3, <3>2, <3>3, <3>4, <3>7, MessageKeeps, ZenonT(30)
  <2>2. CASE ~(k # None /\ sock[k].client = "open")
    <3>1. sock' = sock
      BY <1>5, <2>2 DEF Feed!Send
    <3> QED
      BY <1>4, <1>5, <2>2, <3>1
  <2> QED
    BY <2>1, <2>2
<1>6. CASE Feed!Watch(t, s)
  <2> DEFINE n == views[t][s] + 1
  <2>1. n \in Nat /\ n > 0 /\ views' = [views EXCEPT ![t][s] = n]
    BY <1>0, <1>6 DEF Feed!Watch
  <2>2. CASE views[t][s] = 0
    BY <1>5, <1>6, <2>1, <2>2 DEF Feed!Watch
  <2>3. CASE views[t][s] # 0
    <3>1. sock' = sock /\ views[t][s] > 0
      BY <1>0, <1>6, <2>3 DEF Feed!Watch
    <3> HIDE DEF n
    <3> QED
      BY <1>4, <2>1, <3>1
  <2> QED
    BY <2>2, <2>3
<1>7. CASE Feed!Unwatch(t, s)
  <2> DEFINE n == views[t][s] - 1
  <2>1. views[t][s] > 0 /\ n \in Nat /\ views' = [views EXCEPT ![t][s] = n]
    BY <1>0, <1>7 DEF Feed!Unwatch
  <2>2. CASE views[t][s] = 1
    <3>1. n = 0 /\ Feed!Send(t, "UNSUBSCRIBE", s)
      BY <1>7, <2>2 DEF Feed!Unwatch
    <3> HIDE DEF n
    <3> QED
      BY <1>5, <2>1, <3>1
  <2>3. CASE views[t][s] # 1
    <3>1. sock' = sock
      BY <1>7, <2>3 DEF Feed!Unwatch
    <3> HIDE DEF n
    <3> QED
      BY <1>4, <2>1, <3>1
  <2> QED
    BY <2>2, <2>3
<1> QED
  BY <1>6, <1>7

LEMMA FiniteSockets == ASSUME Feed!FeedAssumption PROVE IsFiniteSet(Sockets)
BY Zenon DEF Feed!FeedAssumption, Feed!IsFiniteSet, IsFiniteSet

LEMMA OneSocket ==
  ASSUME sock \in [Sockets -> SockType], NEW k \in Sockets, NEW u \in SockType, sock' = [sock EXCEPT ![k] = u]
  PROVE  sock' \in [Sockets -> SockType] /\ sock'[k] = u /\ \A j \in Sockets : j # k => sock'[j] = sock[j]
OBVIOUS

LEMMA InOrderKeeps ==
  ASSUME NEW k, NEW q, NEW S, NEW T, NEW s, NEW seen, NEW later, InOrder(k, q, S, s, seen),
         k \in S => k \in T, later => seen
  PROVE  InOrder(k, q, T, s, later)
BY DEF InOrder, Watches

\* A step after which no socket is open that was not open before, with the same messages, watching
\* what it watched, and the socket of the same tabs.
LEMMA SocketsTurn ==
  ASSUME FeedInv, views' = views, FeedType', Books', Own',
         \A k \in Sockets : Feed!Open(k)' =>
           /\ Feed!Open(k) /\ sock'[k].queue = sock[k].queue
           /\ \A s \in Symbols : k \in subs[s] => k \in subs'[s]
           /\ \A t \in Tabs : current'[t] = k => current[t] = k
  PROVE  FeedInv'
<1>1. ASSUME NEW k \in Sockets PROVE Orderly(k)'
  <2>1. SUFFICES ASSUME Feed!Open(k)', NEW s \in Symbols
                 PROVE  InOrder(k, sock'[k].queue, subs'[s], s, Seen(k, s)')
    BY DEF Orderly
  <2>2. InOrder(k, sock[k].queue, subs[s], s, Seen(k, s))
    BY <2>1, Zenon DEF FeedInv, Orderly
  <2>3. Seen(k, s)' => Seen(k, s)
    BY <2>1, Zenon DEF Seen
  <2>4. sock'[k].queue = sock[k].queue /\ (k \in subs[s] => k \in subs'[s])
    BY <2>1
  <2> QED
    BY <2>2, <2>3, <2>4, InOrderKeeps
<1> QED
  BY <1>1, Zenon DEF FeedInv

\* The books stay true while whoever is alive at the server stays so.
LEMMA BooksStay ==
  ASSUME FeedInv, UNCHANGED <<subs, polls, counts>>,
         \A k \in Sockets : sock[k].server = "open" => sock'[k].server = "open"
  PROVE  Books'
BY DEF FeedInv, Books, Feed!Polling

LEMMA Connects ==
  ASSUME Feed!FeedAssumption, FeedInv, NEW t \in Tabs, Feed!Connect(t), UNCHANGED <<views, subs, polls, counts>>
  PROVE  FeedInv'
<1>1. CASE UNCHANGED <<current, sock>>
  <2>1. FeedType' /\ Own'
    BY <1>1 DEF FeedInv, FeedType, Own
  <2>2. Books'
    BY <1>1, BooksStay
  <2> QED
    BY <1>1, <2>1, <2>2, SocketsTurn DEF Feed!Open
<1>2. ASSUME NEW k \in Feed!Unused, current' = [current EXCEPT ![t] = k],
             sock' = [sock EXCEPT ![k] = Feed!Connecting(t)]
      PROVE  FeedInv'
  <2> DEFINE u == Feed!Connecting(t)
  <2>1. k \in Sockets /\ sock[k] = Feed!Free
    BY <1>2 DEF Feed!Unused
  <2>2. u.tab = t /\ u.client = "connecting" /\ u.server = "none" /\ u \in SockType
    <3>1. <<>> \in Seq(Feed!Messages) /\ TRUE \in BOOLEAN
      BY EmptySeq
    <3> QED
      BY <3>1 DEF Feed!Connecting, Feed!Free, SockType
  <2>3. sock[k].client = "none" /\ sock[k].server = "none"
    BY <2>1 DEF Feed!Free
  <2> HIDE DEF u
  <2>4. sock' = [sock EXCEPT ![k] = u]
    BY <1>2 DEF u
  <2>5. sock \in [Sockets -> SockType] /\ current \in [Tabs -> Sockets \cup {None}] /\ Own
    BY DEF FeedInv, FeedType
  <2>6. sock' \in [Sockets -> SockType] /\ sock'[k] = u /\ \A j \in Sockets : j # k => sock'[j] = sock[j]
    BY <2>1, <2>2, <2>4, <2>5, OneSocket
  <2>7. /\ current' \in [Tabs -> Sockets \cup {None}] /\ current'[t] = k
        /\ \A v \in Tabs : v # t => current'[v] = current[v]
    BY <1>2, <2>1, <2>5
  <2>8. FeedType'
    BY <2>6, <2>7 DEF FeedInv, FeedType
  <2>9. Books'
    BY <2>3, <2>6, BooksStay
  <2>10. Own'
    <3> SUFFICES ASSUME NEW v \in Tabs, NEW j \in Sockets, current'[v] = j
                 PROVE  sock'[j].tab = v /\ sock'[j].client # "none"
      BY DEF Own
    <3>1. CASE v = t
      BY <2>2, <2>6, <2>7, <3>1
    <3>2. CASE v # t
      <4>1. current[v] = j /\ sock[j].tab = v /\ sock[j].client # "none"
        BY <2>5, <2>7, <3>2 DEF Own
      <4>2. j # k
        BY <2>3, <4>1
      <4> QED
        BY <2>6, <4>1, <4>2
    <3> QED
      BY <3>1, <3>2
  <2>11. ASSUME NEW j \in Sockets, Feed!Open(j)'
         PROVE  /\ Feed!Open(j) /\ sock'[j].queue = sock[j].queue
                /\ \A v \in Tabs : current'[v] = j => current[v] = j
    <3>1. j # k
      BY <2>2, <2>6, <2>11 DEF Feed!Open
    <3>2. \A v \in Tabs : current'[v] = j => current[v] = j
      BY <2>7, <3>1
    <3> QED
      BY <2>6, <2>11, <3>1, <3>2 DEF Feed!Open
  <2> QED
    BY <2>8, <2>9, <2>10, <2>11, SocketsTurn
<1> QED
  BY <1>1, <1>2 DEF Feed!Connect

\* Socket k is closed at its tab.
LEMMA Closes ==
  ASSUME Feed!FeedAssumption, FeedInv, NEW k \in Sockets, NEW h \in BOOLEAN, sock[k].client # "none",
         sock' = [sock EXCEPT ![k] = [sock[k] EXCEPT !.client = "gone", !.queue = <<>>,
                    !.server = IF @ = "none" THEN "gone" ELSE @, !.handled = h]],
         UNCHANGED <<views, current, subs, polls, counts>>
  PROVE  FeedInv'
<1> DEFINE u == [sock[k] EXCEPT !.client = "gone", !.queue = <<>>,
                    !.server = IF @ = "none" THEN "gone" ELSE @, !.handled = h]
<1>1. sock \in [Sockets -> SockType] /\ current \in [Tabs -> Sockets \cup {None}] /\ Own /\ sock[k] \in SockType
  BY DEF FeedInv, FeedType
<1>2. /\ u.tab = sock[k].tab /\ u.client = "gone" /\ u \in SockType
      /\ sock[k].server = "open" => u.server = "open"
  BY <1>1, EmptySeq DEF SockType
<1> HIDE DEF u
<1>3. sock' \in [Sockets -> SockType] /\ sock'[k] = u /\ \A j \in Sockets : j # k => sock'[j] = sock[j]
  <2>1. sock' = [sock EXCEPT ![k] = u]
    BY DEF u
  <2> QED
    BY <1>1, <1>2, <2>1, OneSocket
<1>4. FeedType' /\ Own'
  BY <1>1, <1>2, <1>3 DEF FeedInv, FeedType, Own
<1>5. Books'
  BY <1>2, <1>3, BooksStay
<1>6. ASSUME NEW j \in Sockets, Feed!Open(j)' PROVE Feed!Open(j) /\ sock'[j].queue = sock[j].queue
  BY <1>2, <1>3, <1>6 DEF Feed!Open
<1> QED
  BY <1>4, <1>5, <1>6, SocketsTurn

LEMMA Forgets ==
  ASSUME Feed!FeedAssumption, FeedInv, NEW k \in Sockets, Feed!ServerNotices(k)
  PROVE  FeedInv'
<1>0. /\ sock' = [sock EXCEPT ![k].server = "gone"] /\ sock[k].client = "gone"
      /\ subs' = [s \in Symbols |-> subs[s] \ {k}] /\ polls' = Feed!Polling(subs')
      /\ UNCHANGED <<views, current, counts>>
  BY DEF Feed!ServerNotices, Feed!Forget, Feed!tab
<1> DEFINE u == [sock[k] EXCEPT !.server = "gone"]
<1>1. sock \in [Sockets -> SockType] /\ Own /\ sock[k] \in SockType /\ subs \in [Symbols -> SUBSET Sockets]
  BY DEF FeedInv, FeedType
<1>2. u.tab = sock[k].tab /\ u.client = "gone" /\ u \in SockType
  BY <1>0, <1>1 DEF SockType
<1> HIDE DEF u
<1>3. sock' \in [Sockets -> SockType] /\ sock'[k] = u /\ \A j \in Sockets : j # k => sock'[j] = sock[j]
  <2>1. sock' = [sock EXCEPT ![k] = u]
    BY <1>0 DEF u
  <2> QED
    BY <1>1, <1>2, <2>1, OneSocket
<1>4. FeedType' /\ Own'
  BY <1>0, <1>1, <1>2, <1>3 DEF FeedInv, FeedType, Own
<1>5. Books'
  <2>1. ASSUME NEW s \in Symbols, NEW j \in Sockets, j \in subs'[s] PROVE sock'[j].server = "open"
    BY <1>0, <1>3, <2>1 DEF FeedInv, Books
  <2>2. ASSUME NEW s \in Symbols PROVE Cardinality(subs'[s]) <= counts'[s]
    <3>1. subs'[s] \subseteq subs[s] /\ counts'[s] = counts[s]
      BY <1>0
    <3>2. IsFiniteSet(subs[s])
      BY <1>1, FiniteSockets, FS_Subset
    <3>3. Cardinality(subs'[s]) <= Cardinality(subs[s]) /\ Cardinality(subs[s]) \in Nat /\ Cardinality(subs'[s]) \in Nat
      BY <3>1, <3>2, FS_Subset, FS_CardinalityType
    <3>4. Cardinality(subs[s]) <= counts[s] /\ counts[s] \in Nat
      BY DEF FeedInv, Books, FeedType
    <3> QED
      BY <3>1, <3>3, <3>4
  <2> QED
    BY <1>0, <2>1, <2>2 DEF Books
<1>6. ASSUME NEW j \in Sockets, Feed!Open(j)'
      PROVE  /\ Feed!Open(j) /\ sock'[j].queue = sock[j].queue
             /\ \A s \in Symbols : j \in subs[s] => j \in subs'[s]
  BY <1>0, <1>2, <1>3, <1>6 DEF Feed!Open
<1> QED
  BY <1>0, <1>4, <1>5, <1>6, SocketsTurn

LEMMA Restarts ==
  ASSUME Feed!FeedAssumption, FeedInv, Feed!Restart
  PROVE  FeedInv'
<1>0. /\ sock' = [k \in Sockets |-> [sock[k] EXCEPT !.server = IF @ = "open" THEN "gone" ELSE @, !.queue = <<>>]]
      /\ subs' = [s \in Symbols |-> {}] /\ polls' = {} /\ counts' = [s \in Symbols |-> 0]
      /\ UNCHANGED <<views, current>>
  BY DEF Feed!Restart, Feed!tab
<1>1. ASSUME NEW k \in Sockets
      PROVE  /\ sock'[k] \in SockType /\ sock'[k].tab = sock[k].tab
             /\ sock'[k].client = sock[k].client /\ sock'[k].server # "open"
  <2>1. sock[k] \in SockType
    BY DEF FeedInv, FeedType
  <2>2. PICK v \in {"none", "gone"} : sock'[k] = [sock[k] EXCEPT !.server = v, !.queue = <<>>]
    <3>1. sock[k].server \in {"none", "open", "gone"}
      BY <2>1 DEF SockType
    <3>2. CASE sock[k].server = "open"
      BY <1>0, <3>2
    <3>3. CASE sock[k].server # "open"
      BY <1>0, <3>1, <3>3
    <3> QED
      BY <3>2, <3>3
  <2> QED
    BY <2>1, <2>2, EmptySeq DEF SockType
<1>2. sock' \in [Sockets -> SockType]
  <2>1. sock' = [k \in Sockets |-> sock'[k]]
    BY <1>0
  <2> QED
    BY <1>1, <2>1
<1>3. FeedType' /\ Own'
  <2>1. subs' \in [Symbols -> SUBSET Sockets] /\ counts' \in [Symbols -> Nat]
    BY <1>0
  <2>2. FeedType /\ Own
    BY DEF FeedInv
  <2>3. Own'
    BY <1>0, <1>1, <2>2 DEF Own
  <2> QED
    BY <1>0, <1>2, <2>1, <2>2, <2>3 DEF FeedType
<1>4. Books'
  <2>1. \A s \in Symbols : subs'[s] = {} /\ counts'[s] = 0
    BY <1>0
  <2>2. Cardinality({}) = 0
    BY FS_EmptySet
  <2>3. polls' = Feed!Polling(subs')
    BY <1>0, <2>1 DEF Feed!Polling
  <2>4. \A s \in Symbols : Cardinality(subs'[s]) <= counts'[s]
    BY <2>1, <2>2
  <2> QED
    BY <2>1, <2>3, <2>4 DEF Books
<1>5. \A j \in Sockets : ~Feed!Open(j)'
  BY <1>1 DEF Feed!Open
<1> QED
  BY <1>0, <1>3, <1>4, <1>5, SocketsTurn

LEMMA Recycles ==
  ASSUME Feed!FeedAssumption, FeedInv, NEW k \in Sockets, Feed!Recycle(k)
  PROVE  FeedInv'
<1>0. /\ sock' = [sock EXCEPT ![k] = Feed!Free] /\ sock[k].server = "gone"
      /\ current' = [t \in Tabs |-> IF current[t] = k THEN None ELSE current[t]]
      /\ UNCHANGED <<views, subs, polls, counts>>
  BY DEF Feed!Recycle, Feed!server
<1>1. /\ sock \in [Sockets -> SockType] /\ current \in [Tabs -> Sockets \cup {None}] /\ Own
      /\ None \notin Sockets
  BY DEF FeedInv, FeedType, Feed!FeedAssumption
<1>2. Feed!Free \in SockType /\ Feed!Free.client = "none"
  <2>1. FALSE \in BOOLEAN
    OBVIOUS
  <2> QED
    BY <2>1, EmptySeq DEF SockType, Feed!Free
<1>3. sock' \in [Sockets -> SockType] /\ sock'[k] = Feed!Free /\ \A j \in Sockets : j # k => sock'[j] = sock[j]
  BY <1>0, <1>1, <1>2, OneSocket
<1>4. \A t \in Tabs : /\ current'[t] \in Sockets \cup {None}
                      /\ \A j \in Sockets : current'[t] = j => current[t] = j /\ j # k
  BY <1>0, <1>1
<1>5. FeedType' /\ Own'
  <2>1. current' \in [Tabs -> Sockets \cup {None}]
    BY <1>0, <1>4
  <2>2. Own'
    BY <1>1, <1>3, <1>4 DEF Own
  <2> QED
    BY <1>0, <1>3, <2>1, <2>2 DEF FeedInv, FeedType
<1>6. Books'
  BY <1>0, <1>3, BooksStay
<1>7. ASSUME NEW j \in Sockets, Feed!Open(j)'
      PROVE  /\ Feed!Open(j) /\ sock'[j].queue = sock[j].queue
             /\ \A t \in Tabs : current'[t] = j => current[t] = j
  BY <1>2, <1>3, <1>4, <1>7 DEF Feed!Open
<1> QED
  BY <1>0, <1>5, <1>6, <1>7, SocketsTurn

\* A socket opens with the symbols its tab shows.
LEMMA OpensInOrder ==
  ASSUME Feed!FeedAssumption, FeedInv, NEW k \in Sockets, Feed!Opens(k)
  PROVE  FeedInv'
<1> DEFINE t == sock[k].tab
           q == Feed!Resubscribe(t)
           u == [sock[k] EXCEPT !.client = "open", !.server = "open", !.queue = q]
<1>0. sock' = [sock EXCEPT ![k].client = "open", ![k].server = "open", ![k].queue = q]
      /\ sock[k].client = "connecting" /\ UNCHANGED <<views, current, subs, polls, counts>>
  BY DEF Feed!Opens, Feed!server
<1>1. sock \in [Sockets -> SockType] /\ Own /\ sock[k] \in SockType
  BY DEF FeedInv, FeedType
<1>2. q \in Seq(Feed!Messages)
  <2>1. Feed!Watched(t) \in SUBSET Symbols
    BY DEF Feed!Watched
  <2>2. [kind |-> "SUBSCRIBE", symbols |-> Feed!Watched(t)] \in Feed!Messages
    BY <2>1 DEF Feed!Messages
  <2> HIDE DEF t
  <2> QED
    BY <2>2, EmptySeq DEF Feed!Resubscribe
<1>3. sock' = [sock EXCEPT ![k] = u]
  BY <1>0, <1>1
<1> HIDE DEF q
<1>4. u.tab = t /\ u.client = "open" /\ u.server = "open" /\ u.queue = q /\ u \in SockType
  BY <1>1, <1>2 DEF SockType
<1> HIDE DEF u
<1>5. sock' \in [Sockets -> SockType] /\ sock'[k] = u /\ \A j \in Sockets : j # k => sock'[j] = sock[j]
  BY <1>1, <1>3, <1>4, OneSocket
<1>6. FeedType' /\ Own'
  BY <1>0, <1>1, <1>4, <1>5 DEF FeedInv, FeedType, Own
<1>7. Books'
  BY <1>0, <1>4, <1>5, BooksStay
<1>8. ASSUME NEW s \in Symbols PROVE InOrder(k, q, subs[s], s, Seen(k, s))
  <2>1. Seen(k, s) => s \in Feed!Watched(t)
    BY <1>1 DEF Seen, Own, Feed!Watched
  <2>2. CASE Feed!Watched(t) = {}
    <3>1. q = <<>> /\ Len(q) = 0
      BY <2>2 DEF q, Feed!Resubscribe
    <3> QED
      BY <2>1, <2>2, <3>1 DEF InOrder
  <2>3. CASE Feed!Watched(t) # {}
    <3> DEFINE m == [kind |-> "SUBSCRIBE", symbols |-> Feed!Watched(t)]
    <3>1. q = <<m>> /\ Len(q) = 1 /\ q[1] = m
      BY <2>3 DEF q, Feed!Resubscribe
    <3>2. \A i \in 1..Len(q) : ~Leaves(q[i], s)
      BY <3>1 DEF Leaves
    <3>3. ASSUME Seen(k, s) PROVE Watches(k, subs[s], q, s, Len(q) + 1)
      <4>1. Joins(q[1], s)
        BY <2>1, <3>1, <3>3 DEF Joins
      <4>2. 1 \in 1..(Len(q) + 1) - 1 /\ \A x \in 1 + 1..(Len(q) + 1) - 1 : FALSE
        BY <3>1
      <4> QED
        BY <4>1, <4>2 DEF Watches
    <3> QED
      BY <3>2, <3>3 DEF InOrder
  <2> QED
    BY <2>2, <2>3
<1>9. Orderly(k)'
  <2>1. \A s \in Symbols : (Seen(k, s)' <=> Seen(k, s)) /\ subs'[s] = subs[s]
    BY <1>0 DEF Seen
  <2> SUFFICES ASSUME NEW s \in Symbols
               PROVE  InOrder(k, sock'[k].queue, subs'[s], s, Seen(k, s)')
    BY DEF Orderly
  <2>2. InOrder(k, q, subs'[s], s, Seen(k, s)')
    BY <1>8, <2>1, InOrderKeeps
  <2> QED
    BY <1>4, <1>5, <2>2
<1>10. ASSUME NEW j \in Sockets, j # k PROVE Orderly(j)'
  <2>1. Orderly(j) /\ sock'[j] = sock[j]
    BY <1>5, <1>10, Zenon DEF FeedInv
  <2>2. \A s \in Symbols : (Seen(j, s)' <=> Seen(j, s)) /\ subs'[s] = subs[s]
    BY <1>0 DEF Seen
  <2> QED
    BY <2>1, <2>2 DEF Orderly, Feed!Open, InOrder
<1> QED
  BY <1>6, <1>7, <1>9, <1>10, Zenon DEF FeedInv

\* The books after message m of socket k.
LEMMA Counted ==
  ASSUME Feed!FeedAssumption, FeedInv, NEW k \in Sockets, NEW m \in Feed!Messages,
         IF m.kind = "SUBSCRIBE" THEN Feed!Subscribe(k, m.symbols) ELSE Feed!Unsubscribe(k, m.symbols),
         \A s \in Symbols : Leaves(m, s) => k \in subs[s],
         NEW s \in Symbols
  PROVE  /\ subs'[s] \subseteq Sockets /\ counts'[s] \in Nat /\ Cardinality(subs'[s]) <= counts'[s]
         /\ \A j \in Sockets : j # k => (j \in subs'[s] <=> j \in subs[s])
         /\ Joins(m, s) => k \in subs'[s]
         /\ ~Leaves(m, s) /\ k \in subs[s] => k \in subs'[s]
<1>1. /\ subs[s] \in SUBSET Sockets /\ counts[s] \in Nat /\ Cardinality(subs[s]) <= counts[s]
  BY DEF FeedInv, FeedType, Books
<1>2. IsFiniteSet(subs[s]) /\ Cardinality(subs[s]) \in Nat
  BY <1>1, FiniteSockets, FS_Subset, FS_CardinalityType
<1>3. CASE m.kind = "SUBSCRIBE"
  <2>1. CASE s \in m.symbols
    <3>1. subs'[s] = subs[s] \cup {k} /\ counts'[s] = counts[s] + 1
      BY <1>3, <2>1 DEF Feed!Subscribe
    <3>2. Cardinality(subs[s] \cup {k}) \in Nat /\ Cardinality(subs[s] \cup {k}) <= Cardinality(subs[s]) + 1
      <4>1. IsFiniteSet(subs[s] \cup {k}) /\ Cardinality(subs[s] \cup {k}) =
              IF k \in subs[s] THEN Cardinality(subs[s]) ELSE Cardinality(subs[s]) + 1
        BY <1>2, FS_AddElement
      <4> QED
        BY <1>2, <4>1, FS_CardinalityType
    <3> QED
      BY <1>1, <1>2, <3>1, <3>2
  <2>2. CASE s \notin m.symbols
    <3>1. subs'[s] = subs[s] /\ counts'[s] = counts[s]
      BY <1>3, <2>2 DEF Feed!Subscribe
    <3> QED
      BY <1>1, <2>2, <3>1 DEF Joins
  <2> QED
    BY <2>1, <2>2
<1>4. CASE m.kind # "SUBSCRIBE"
  <2>0. m.kind = "UNSUBSCRIBE" /\ ~Joins(m, s)
    BY <1>4 DEF Feed!Messages, Joins
  <2>1. CASE s \in m.symbols
    <3>1. subs'[s] = subs[s] \ {k} /\ counts'[s] = Feed!CountDown(counts[s])
      BY <1>4, <2>1 DEF Feed!Unsubscribe
    <3>2. k \in subs[s] /\ Leaves(m, s)
      BY <2>0, <2>1 DEF Leaves
    <3>3. Cardinality(subs[s] \ {k}) = Cardinality(subs[s]) - 1 /\ Cardinality(subs[s] \ {k}) \in Nat
      <4>1. IsFiniteSet(subs[s] \ {k})
        BY <1>2, FS_RemoveElement
      <4> QED
        BY <1>2, <3>2, <4>1, FS_RemoveElement, FS_CardinalityType
    <3>4. Feed!CountDown(counts[s]) \in Nat /\ Cardinality(subs[s]) - 1 <= Feed!CountDown(counts[s])
      BY <1>1, <1>2 DEF Feed!CountDown
    <3> QED
      BY <1>1, <2>0, <3>1, <3>2, <3>3, <3>4
  <2>2. CASE s \notin m.symbols
    <3>1. subs'[s] = subs[s] /\ counts'[s] = counts[s]
      BY <1>4, <2>2 DEF Feed!Unsubscribe
    <3> QED
      BY <1>1, <2>0, <3>1
  <2> QED
    BY <2>1, <2>2
<1> QED
  BY <1>3, <1>4

LEMMA ReceivesInOrder ==
  ASSUME Feed!FeedAssumption, FeedInv, NEW k \in Sockets, Feed!Receives(k)
  PROVE  FeedInv'
<1> DEFINE q == sock[k].queue
           m == Head(q)
           u == [sock[k] EXCEPT !.queue = Tail(q)]
<1>0. /\ Feed!Open(k) /\ q # <<>>
      /\ IF m.kind = "SUBSCRIBE" THEN Feed!Subscribe(k, m.symbols) ELSE Feed!Unsubscribe(k, m.symbols)
      /\ polls' = Feed!Polling(subs')
      /\ sock' = [sock EXCEPT ![k] = u]
      /\ UNCHANGED <<views, current>>
  BY DEF Feed!Receives, Feed!tab
<1>1. /\ sock \in [Sockets -> SockType] /\ Own /\ sock[k] \in SockType /\ q \in Seq(Feed!Messages)
      /\ \A s \in Symbols : InOrder(k, q, subs[s], s, Seen(k, s))
  <2>1. sock \in [Sockets -> SockType] /\ Own /\ Orderly(k)
    BY Zenon DEF FeedInv, FeedType
  <2> QED
    BY <1>0, <2>1 DEF SockType, Orderly
<1>2. /\ Tail(q) \in Seq(Feed!Messages) /\ m \in Feed!Messages /\ Len(q) \in Nat /\ Len(q) > 0 /\ m = q[1]
  BY <1>0, <1>1, HeadTailProperties, LenProperties, EmptySeq
<1>3. u.tab = sock[k].tab /\ u.client = sock[k].client /\ u.server = sock[k].server /\ u.queue = Tail(q)
      /\ u \in SockType
  BY <1>1, <1>2 DEF SockType
<1> HIDE DEF u, q, m
<1>4. sock' \in [Sockets -> SockType] /\ sock'[k] = u /\ \A j \in Sockets : j # k => sock'[j] = sock[j]
  BY <1>0, <1>1, <1>3, OneSocket
<1>5. ASSUME NEW s \in Symbols, Leaves(m, s) PROVE k \in subs[s]
  <2>1. 1 \in 1..Len(q) /\ Leaves(q[1], s)
    BY <1>2, <1>5
  <2>2. Watches(k, subs[s], q, s, 1)
    BY <1>1, <2>1, Zenon DEF InOrder
  <2> QED
    BY <2>2 DEF Watches
<1>6. ASSUME NEW s \in Symbols
      PROVE  /\ subs'[s] \subseteq Sockets /\ counts'[s] \in Nat /\ Cardinality(subs'[s]) <= counts'[s]
             /\ \A j \in Sockets : j # k => (j \in subs'[s] <=> j \in subs[s])
             /\ Joins(m, s) => k \in subs'[s]
             /\ ~Leaves(m, s) /\ k \in subs[s] => k \in subs'[s]
  BY <1>0, <1>2, <1>5, Counted
<1>7. FeedType' /\ Own'
  <2>1. DOMAIN subs' = Symbols /\ DOMAIN counts' = Symbols
        /\ subs' = [s \in Symbols |-> subs'[s]] /\ counts' = [s \in Symbols |-> counts'[s]]
    BY <1>0 DEF Feed!Subscribe, Feed!Unsubscribe
  <2>2. subs' \in [Symbols -> SUBSET Sockets] /\ counts' \in [Symbols -> Nat]
    BY <1>6, <2>1
  <2>3. Own'
    BY <1>0, <1>1, <1>3, <1>4 DEF Own
  <2> QED
    BY <1>0, <1>4, <2>2, <2>3 DEF FeedInv, FeedType
<1>8. Books'
  <2>1. ASSUME NEW s \in Symbols, NEW j \in Sockets, j \in subs'[s] PROVE sock'[j].server = "open"
    <3>1. CASE j = k
      BY <1>0, <1>3, <1>4, <3>1 DEF Feed!Open
    <3>2. CASE j # k
      BY <1>4, <1>6, <2>1, <3>2 DEF FeedInv, Books
    <3> QED
      BY <3>1, <3>2
  <2> QED
    BY <1>0, <1>6, <2>1 DEF Books
<1>9. \A j \in Sockets, s \in Symbols : Seen(j, s)' <=> Seen(j, s)
  BY <1>0 DEF Seen
<1>10. ASSUME NEW s \in Symbols PROVE InOrder(k, Tail(q), subs'[s], s, Seen(k, s)')
  <2> DEFINE a == Tail(q)
             n == Len(q)
             T == subs'[s]
  <2>1. /\ Len(a) = n - 1 /\ n \in Nat /\ n > 0
        /\ \A i \in 1..n - 1 : a[i] = q[i + 1]
        /\ \A i \in 1..n : Watches(k, subs[s], q, s, i + 1) => Watches(k, T, a, s, i)
    BY <1>0, <1>1, <1>2, <1>6, WatchesAfterArrival
  <2>2. /\ \A i \in 1..n : Leaves(q[i], s) => Watches(k, subs[s], q, s, i)
        /\ Seen(k, s) => Watches(k, subs[s], q, s, n + 1)
    BY <1>1, Zenon DEF InOrder
  <2> HIDE DEF a, n, T
  <2>3. ASSUME NEW i \in 1..Len(a), Leaves(a[i], s) PROVE Watches(k, T, a, s, i)
    <3>1. i \in 1..n /\ i + 1 \in 1..n /\ a[i] = q[i + 1]
      BY <2>1
    <3> QED
      BY <2>1, <2>2, <2>3, <3>1
  <2>4. Seen(k, s) => Watches(k, T, a, s, Len(a) + 1)
    <3>1. n \in 1..n /\ Len(a) + 1 = n
      BY <2>1
    <3> QED
      BY <2>1, <2>2, <3>1
  <2>5. InOrder(k, a, T, s, Seen(k, s)')
    BY <1>9, <2>3, <2>4 DEF InOrder
  <2> QED
    BY <2>5 DEF a, T
<1>11. Orderly(k)'
  BY <1>3, <1>4, <1>10 DEF Orderly
<1>12. ASSUME NEW j \in Sockets, j # k PROVE Orderly(j)'
  <2>1. Orderly(j) /\ sock'[j] = sock[j]
    BY <1>4, <1>12, Zenon DEF FeedInv
  <2> QED
    BY <1>6, <1>9, <1>12, <2>1 DEF Orderly, Feed!Open, InOrder, Watches
<1> QED
  BY <1>7, <1>8, <1>11, <1>12, Zenon DEF FeedInv

LEMMA FeedStep ==
  ASSUME Feed!FeedAssumption, FeedInv, [Feed!Next]_(Feed!vars)
  PROVE  FeedInv'
<1>0. sock \in [Sockets -> SockType] /\ current \in [Tabs -> Sockets \cup {None}] /\ Own
  BY DEF FeedInv, FeedType
<1>1. CASE UNCHANGED Feed!vars
  <2>1. UNCHANGED <<views, current, sock, subs, polls, counts>>
    BY <1>1 DEF Feed!vars
  <2>2. FeedType' /\ Own'
    BY <2>1 DEF FeedInv, FeedType, Own
  <2>3. Books'
    BY <2>1, BooksStay
  <2> QED
    BY <2>1, <2>2, <2>3, SocketsTurn DEF Feed!Open
<1>2. ASSUME NEW t \in Tabs, NEW s \in Symbols, Feed!Watch(t, s) \/ Feed!Unwatch(t, s) PROVE FeedInv'
  BY <1>2, ComponentsMove
<1>3. ASSUME NEW t \in Tabs, Feed!TimerFires(t) \/ Feed!LooseFires(t) PROVE FeedInv'
  <2>1. Feed!Connect(t) /\ UNCHANGED <<views, subs, polls, counts>>
    BY <1>3 DEF Feed!TimerFires, Feed!LooseFires, Feed!server
  <2> QED
    BY <2>1, Connects
<1>4. ASSUME NEW k \in Sockets, Feed!ClientNotices(k) PROVE FeedInv'
  <2>1. sock[k] \in SockType /\ sock[k].client # "none" /\ sock[k].handled \in BOOLEAN
    BY <1>0, <1>4 DEF Feed!ClientNotices, SockType
  <2>2. sock' = Feed!Closed(k) /\ UNCHANGED <<views, current, subs, polls, counts>>
    BY <1>4 DEF Feed!ClientNotices, Feed!server
  <2> DEFINE u == [sock[k] EXCEPT !.client = "gone", !.queue = <<>>,
                     !.server = IF @ = "none" THEN "gone" ELSE @, !.handled = sock[k].handled]
  <2>3. Feed!Closed(k) = [sock EXCEPT ![k] = u]
    BY <1>0, <2>1 DEF Feed!Closed, SockType
  <2> QED
    BY <2>1, <2>2, <2>3, Closes
<1>5. ASSUME NEW t \in Tabs, Feed!Reconnect(t) PROVE FeedInv'
  <2>1. UNCHANGED <<views, current, subs, polls, counts>>
    BY <1>5 DEF Feed!Reconnect, Feed!server
  <2>2. CASE current[t] = None
    <3>1. sock' = sock
      BY <1>5, <2>2 DEF Feed!Reconnect
    <3>2. FeedType' /\ Own'
      BY <2>1, <3>1 DEF FeedInv, FeedType, Own
    <3>3. Books'
      BY <2>1, <3>1, BooksStay
    <3> QED
      BY <2>1, <3>1, <3>2, <3>3, SocketsTurn DEF Feed!Open
  <2>3. CASE current[t] # None
    <3> DEFINE k == current[t]
               u == [sock[k] EXCEPT !.client = "gone", !.queue = <<>>,
                       !.server = IF @ = "none" THEN "gone" ELSE @, !.handled = FALSE]
    <3>1. k \in Sockets /\ sock[k].client # "none" /\ sock[k] \in SockType /\ FALSE \in BOOLEAN
      BY <1>0, <2>3 DEF Own
    <3>2. sock' = [Feed!Closed(k) EXCEPT ![k].handled = FALSE]
      BY <1>5, <2>3 DEF Feed!Reconnect
    <3>3. sock' = [sock EXCEPT ![k] = u]
      BY <1>0, <3>1, <3>2 DEF Feed!Closed, SockType
    <3> HIDE DEF k
    <3> QED
      BY <2>1, <3>1, <3>3, Closes
  <2> QED
    BY <2>2, <2>3
<1>6. ASSUME NEW k \in Sockets, Feed!Opens(k) \/ Feed!Receives(k) \/ Feed!ServerNotices(k) \/ Feed!Recycle(k)
      PROVE  FeedInv'
  BY <1>6, OpensInOrder, ReceivesInOrder, Forgets, Recycles
<1>7. CASE Feed!Restart
  BY <1>7, Restarts
<1>8. ASSUME NEW t \in Tabs, Feed!TabStep(t) PROVE FeedInv'
  BY <1>8, <1>2, <1>3, <1>5, Zenon DEF Feed!TabStep
<1>9. ASSUME NEW k \in Sockets, Feed!SocketStep(k) PROVE FeedInv'
  BY <1>9, <1>4, <1>6, Zenon DEF Feed!SocketStep
<1> QED
  BY <1>1, <1>7, <1>8, <1>9, Zenon DEF Feed!Next

LEMMA FeedInit == ASSUME Feed!FeedAssumption, Feed!Init PROVE FeedInv
<1> DEFINE Owner(k) == CHOOSE t \in Tabs : current[t] = k
<1>1. /\ views = [t \in Tabs |-> [s \in Symbols |-> 0]]
      /\ current \in [Tabs -> Sockets] /\ \A t, u \in Tabs : current[t] = current[u] => t = u
      /\ sock = [k \in Sockets |-> IF \E t \in Tabs : current[t] = k THEN Feed!Connecting(Owner(k)) ELSE Feed!Free]
      /\ subs = [s \in Symbols |-> {}] /\ polls = {} /\ counts = [s \in Symbols |-> 0]
  BY DEF Feed!Init
<1>2. ASSUME NEW k \in Sockets, NEW t \in Tabs, current[t] = k PROVE Owner(k) = t
  <2>1. Owner(k) \in Tabs /\ current[Owner(k)] = k
    BY <1>2, Zenon
  <2> QED
    BY <1>1, <1>2, <2>1
<1> HIDE DEF Owner
<1>3. ASSUME NEW t \in Tabs
      PROVE  /\ Feed!Connecting(t) \in SockType /\ Feed!Connecting(t).tab = t
             /\ Feed!Connecting(t).client = "connecting"
  <2>1. TRUE \in BOOLEAN
    OBVIOUS
  <2> QED
    BY <2>1, EmptySeq DEF Feed!Connecting, Feed!Free, SockType
<1>4. Feed!Free \in SockType /\ Feed!Free.client = "none"
  <2>1. FALSE \in BOOLEAN
    OBVIOUS
  <2> QED
    BY <2>1, EmptySeq DEF SockType, Feed!Free
<1>5. ASSUME NEW k \in Sockets
      PROVE  /\ sock[k] \in SockType /\ ~Feed!Open(k)
             /\ \A t \in Tabs : current[t] = k => sock[k].tab = t /\ sock[k].client # "none"
  <2>1. CASE \E t \in Tabs : current[t] = k
    <3>1. PICK t \in Tabs : current[t] = k
      BY <2>1
    <3>2. Owner(k) = t /\ sock[k] = Feed!Connecting(Owner(k))
      BY <1>1, <1>2, <3>1
    <3> QED
      BY <1>2, <1>3, <3>1, <3>2 DEF Feed!Open
  <2>2. CASE ~\E t \in Tabs : current[t] = k
    <3>1. sock[k] = Feed!Free
      BY <1>1, <2>2
    <3> QED
      BY <1>4, <2>2, <3>1 DEF Feed!Open
  <2> QED
    BY <2>1, <2>2
<1>6. FeedType
  <2>1. sock \in [Sockets -> SockType]
    <3>1. sock = [k \in Sockets |-> sock[k]]
      BY <1>1
    <3> QED
      BY <1>5, <3>1
  <2> QED
    BY <1>1, <2>1 DEF FeedType
<1>7. Books
  <2>1. \A s \in Symbols : subs[s] = {} /\ counts[s] = 0
    BY <1>1
  <2> QED
    BY <1>1, <2>1, FS_EmptySet DEF Books, Feed!Polling
<1>8. Own /\ \A k \in Sockets : Orderly(k)
  BY <1>5 DEF Own, Orderly
<1> QED
  BY <1>6, <1>7, <1>8 DEF FeedInv

LEMMA FeedAlways == ASSUME Feed!FeedAssumption PROVE Feed!Spec => []FeedInv
BY FeedInit, FeedStep, PTL DEF Feed!Spec

LEMMA FeedMeans == ASSUME FeedInv PROVE Feed!CountsCover /\ Feed!PollsMatch
<1>1. \A s \in Symbols : Feed!Cardinality(subs[s]) = Cardinality(subs[s])
  BY Zenon DEF Feed!Cardinality, Cardinality, Feed!IsFiniteSet, IsFiniteSet
<1>2. Feed!CountsCover
  BY <1>1 DEF FeedInv, Books, Feed!CountsCover
<1>3. \A s \in Symbols : subs[s] \subseteq Sockets
  BY DEF FeedInv, FeedType
<1> QED
  BY <1>2, <1>3 DEF FeedInv, Books, Feed!PollsMatch, Feed!Polling

\* The REST poller counts every symbol at least as often as sockets watch it, whatever breaks,
\* restarts and reconnects (liveDataFeed.js's subscribe, unsubscribe and 'close' handler).
THEOREM PollerCountsEnough == ASSUME Feed!FeedAssumption PROVE Feed!Spec => []Feed!CountsCover
BY FeedAlways, FeedMeans, PTL

\* A timer runs for exactly the symbols a socket alive at the server watches.
THEOREM PollsAreForSomebody == ASSUME Feed!FeedAssumption PROVE Feed!Spec => []Feed!PollsMatch
BY FeedAlways, FeedMeans, PTL
=============================================================================
