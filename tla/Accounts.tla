------------------------------ MODULE Accounts ------------------------------
(***************************************************************************)
(* The account of one e-mail address: signing up, signing in with a         *)
(* password or with Google, asking for a link to reset the password and     *)
(* using it.  Every request is a few statements on the database, without a  *)
(* transaction around them; requests overlap, and every statement may fail. *)
(* The validation of the form, hashing and the session token are left out:  *)
(* a password is a value, and a hash equals another when its password does. *)
(***************************************************************************)
EXTENDS Naturals, FiniteSets

CONSTANTS Requests, Passwords, MaxTokens, MaxFails, None

VARIABLES
  users,      \* the rows of the address: password, provider, portfolio
  resets,     \* the row of password_resets: its token, 0 for none
  issued,     \* tokens so far
  used,       \* tokens that a reset has answered with success
  req,        \* each request: its kind, where it is, what it has read
  saved,      \* the passwords that were set, the latest and those before
  fails
vars == <<users, resets, issued, used, req, saved, fails>>

Forms == {"signup", "google", "login", "forgot", "reset"}
Statements == {"select", "insert", "link", "portfolio", "upsert", "update", "delete"}
Answers == {"idle", "ok", "refused", "error"}
Idle == [kind |-> "login", at |-> "idle", password |-> None, token |-> 0]
User(p, v) == [password |-> p, provider |-> v, portfolio |-> FALSE]

TypeOK ==
  /\ users \subseteq [password : Passwords \cup {None}, provider : {"local", "google"}, portfolio : BOOLEAN]
  /\ resets \in 0..MaxTokens /\ issued \in 0..MaxTokens /\ used \subseteq 1..MaxTokens
  /\ req \in [Requests -> [kind : Forms, at : Statements \cup Answers,
                           password : Passwords \cup {None}, token : 0..MaxTokens]]
  /\ saved \subseteq Passwords /\ fails \in 0..MaxFails

Init ==
  /\ users = {} /\ resets = 0 /\ issued = 0 /\ used = {}
  /\ req = [r \in Requests |-> Idle] /\ saved = {} /\ fails = 0

Goes(r, at) == req' = [req EXCEPT ![r].at = at]
At(r, kinds, at) == req[r].kind \in kinds /\ req[r].at = at
TheUser == CHOOSE u \in users : TRUE
Now(u) == users' = (users \ {TheUser}) \cup {u}

-----------------------------------------------------------------------------
(* The requests.                                                           *)

\* A token comes from a link that was sent, and may be an old one.
Ask(r) ==
  /\ req[r].at \in Answers
  /\ \E k \in Forms, p \in Passwords \cup {None}, t \in 0..issued :
       /\ (k \in {"google", "forgot"}) <=> p = None
       /\ (k = "reset") <=> t > 0
       /\ req' = [req EXCEPT ![r] = [kind |-> k, at |-> "select", password |-> p, token |-> t]]
  /\ UNCHANGED <<users, resets, issued, used, saved, fails>>

\* SELECT ... WHERE email = ?: a signup goes on without a row, the others with one.
SignupFinds(r) ==
  /\ At(r, {"signup"}, "select") /\ Goes(r, IF users = {} THEN "insert" ELSE "refused")
  /\ UNCHANGED <<users, resets, issued, used, saved, fails>>

GoogleFinds(r) ==
  /\ At(r, {"google"}, "select")
  /\ Goes(r, IF users = {} THEN "insert" ELSE IF TheUser.provider = "local" THEN "link" ELSE "ok")
  /\ UNCHANGED <<users, resets, issued, used, saved, fails>>

\* A user of Google has no password.
Login(r) ==
  /\ At(r, {"login"}, "select")
  /\ Goes(r, IF users # {} /\ TheUser.password = req[r].password THEN "ok" ELSE "refused")
  /\ UNCHANGED <<users, resets, issued, used, saved, fails>>

\* Whoever asks for a link is told that it was sent.
ForgotFinds(r) ==
  /\ At(r, {"forgot"}, "select") /\ Goes(r, IF users = {} THEN "ok" ELSE "upsert")
  /\ UNCHANGED <<users, resets, issued, used, saved, fails>>


\* The address is UNIQUE in the table.
Inserted(u) == users = {} /\ users' = {u}

Insert(r) ==
  /\ At(r, {"signup", "google"}, "insert")
  /\ IF req[r].kind = "signup" THEN Inserted(User(req[r].password, "local")) ELSE Inserted(User(None, "google"))
  /\ saved' = IF req[r].password = None THEN {} ELSE {req[r].password}
  /\ Goes(r, "portfolio")
  /\ UNCHANGED <<resets, issued, used, fails>>

\* The second of two overlapping signups is refused by the database: an error.
Duplicate(r) ==
  /\ At(r, {"signup", "google"}, "insert") /\ users # {}
  /\ Goes(r, "error")
  /\ UNCHANGED <<users, resets, issued, used, saved, fails>>

\* createPortfolio(1000000, userId) in a transaction of its own.
CreatePortfolio(r) ==
  /\ At(r, {"signup", "google"}, "portfolio")
  /\ Now([TheUser EXCEPT !.portfolio = TRUE]) /\ Goes(r, "ok")
  /\ UNCHANGED <<resets, issued, used, saved, fails>>

LinkGoogle(r) ==
  /\ At(r, {"google"}, "link")
  /\ Now([TheUser EXCEPT !.provider = "google"]) /\ Goes(r, "ok")
  /\ UNCHANGED <<resets, issued, used, saved, fails>>

\* user_id is the primary key: a newer token takes the older one's place.
Upsert == resets' = issued'

SaveToken(r) ==
  /\ At(r, {"forgot"}, "upsert") /\ issued < MaxTokens /\ issued' = issued + 1
  /\ Upsert /\ Goes(r, "ok")
  /\ UNCHANGED <<users, used, saved, fails>>

\* The hour is over; the row stays and means nothing.
ExpireToken ==
  /\ resets > 0 /\ resets' = 0
  /\ UNCHANGED <<users, issued, used, req, saved, fails>>

ResetFinds(r) ==
  /\ At(r, {"reset"}, "select") /\ Goes(r, IF resets = req[r].token THEN "update" ELSE "refused")
  /\ UNCHANGED <<users, resets, issued, used, saved, fails>>

SetPassword(r) ==
  /\ At(r, {"reset"}, "update")
  /\ Now([TheUser EXCEPT !.password = req[r].password])
  /\ saved' = saved \cup {req[r].password} /\ Goes(r, "delete")
  /\ UNCHANGED <<resets, issued, used, fails>>

\* Whatever token the user has by now.
Delete == resets' = 0

DeleteToken(r) ==
  /\ At(r, {"reset"}, "delete")
  /\ Delete /\ used' = used \cup {req[r].token} /\ Goes(r, "ok")
  /\ UNCHANGED <<users, issued, saved, fails>>

\* A statement fails; what came before it stays.
Fail(r) ==
  /\ req[r].at \in Statements /\ fails < MaxFails
  /\ fails' = fails + 1 /\ Goes(r, "error")
  /\ UNCHANGED <<users, resets, issued, used, saved>>

Next ==
  \/ ExpireToken
  \/ \E r \in Requests :
       \/ Ask(r) \/ SignupFinds(r) \/ GoogleFinds(r) \/ Login(r) \/ ForgotFinds(r) \/ ResetFinds(r)
       \/ Insert(r) \/ Duplicate(r) \/ CreatePortfolio(r) \/ LinkGoogle(r) \/ SaveToken(r)
       \/ SetPassword(r) \/ DeleteToken(r) \/ Fail(r)

Spec == Init /\ [][Next]_vars

-----------------------------------------------------------------------------
(* Properties.                                                             *)

\* However signups and sign-ins with Google overlap, the address has one account, and
\* whoever is told that a signup succeeded can sign in with the password it gave until
\* the password is reset.
OneAccount ==
  /\ Cardinality(users) <= 1
  /\ \A r \in Requests :
       At(r, {"signup"}, "ok") => users # {} /\ req[r].password \in saved

\* An account is without a portfolio only while the request that made it is about to
\* make one too, or when a statement has failed.
PortfolioOrFailure ==
  \A u \in users : u.portfolio \/ fails > 0 \/ \E r \in Requests : req[r].at = "portfolio"

\* A link that has reset the password resets it no second time: once a reset has
\* succeeded only a newer link is good, and of several the newest.
LinksWorkOnce ==
  /\ [](resets \notin used)
  /\ [][resets' = resets \/ resets' = 0 \/ resets' > issued]_vars

=============================================================================
