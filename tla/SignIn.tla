------------------------------- MODULE SignIn -------------------------------
(***************************************************************************)
(* Being signed in, in the tabs of one browser: AuthContext holds the token *)
(* of a tab in memory, localStorage the token of the browser, and every     *)
(* request of a page takes the latter along.  The answer 401 to anything    *)
(* but a form of sign-in empties the storage and, unless the tab shows the  *)
(* sign-in page, loads that page anew.  Tokens are numbered; their users    *)
(* are left out.                                                            *)
(***************************************************************************)
EXTENDS Naturals

CONSTANTS Tabs, MaxTokens, MaxReloads

VARIABLES
  stored,     \* the token in localStorage, 0 for none
  valid,      \* the tokens that have not expired
  given,      \* tokens so far
  tab,        \* each tab: its page, its context's token, its form
  calls,      \* the tokens of each tab's requests under way, 0 for none
  reloads
vars == <<stored, valid, given, tab, calls, reloads>>

TypeOK ==
  /\ stored \in 0..MaxTokens /\ given \in 0..MaxTokens /\ valid \subseteq 1..given
  /\ tab \in [Tabs -> [page : {"login", "app"}, token : 0..MaxTokens, form : {"idle", "sent", "success"}]]
  /\ calls \in [Tabs -> SUBSET (0..MaxTokens)]
  /\ reloads \in 0..MaxReloads

SignedOut == [page |-> "login", token |-> 0, form |-> "idle"]

Init ==
  /\ stored = 0 /\ valid = {} /\ given = 0 /\ reloads = 0
  /\ tab = [t \in Tabs |-> SignedOut] /\ calls = [t \in Tabs |-> {}]

\* The form of sign-in; it takes no second submit while one is under way.
Submit(t) ==
  /\ tab[t].page = "login" /\ tab[t].form = "idle"
  /\ tab' = [tab EXCEPT ![t].form = "sent"]
  /\ UNCHANGED <<stored, valid, given, calls, reloads>>

\* login() of AuthContext; the page follows after a moment.
SignedIn(t) ==
  /\ tab[t].form = "sent" /\ given < MaxTokens
  /\ given' = given + 1 /\ valid' = valid \cup {given'} /\ stored' = given'
  /\ tab' = [tab EXCEPT ![t].token = given', ![t].form = "success"]
  /\ UNCHANGED <<calls, reloads>>

Refused(t) ==
  /\ tab[t].form = "sent" /\ tab' = [tab EXCEPT ![t].form = "idle"]
  /\ UNCHANGED <<stored, valid, given, calls, reloads>>

\* navigate('/') when its time has come; ProtectedRoute looks at the context.
Enter(t) ==
  /\ tab[t].form = "success"
  /\ tab' = [tab EXCEPT ![t].page = IF tab[t].token = 0 THEN "login" ELSE "app", ![t].form = "idle"]
  /\ UNCHANGED <<stored, valid, given, calls, reloads>>

\* The pages ask again and again.
Call(t) ==
  /\ tab[t].page = "app" /\ calls' = [calls EXCEPT ![t] = @ \cup {stored}]
  /\ UNCHANGED <<stored, valid, given, tab, reloads>>

\* Mutant: the storage is emptied and the page stays.
LoadLoginLater(t, c) == tab' = tab /\ calls' = [calls EXCEPT ![t] = @ \ {c}]

\* location.href: the page is loaded anew and the context reads the empty storage.
LoadLogin(t, c) ==
  IF tab[t].page = "login" THEN tab' = tab /\ calls' = [calls EXCEPT ![t] = @ \ {c}]
  ELSE tab' = [tab EXCEPT ![t] = SignedOut] /\ calls' = [calls EXCEPT ![t] = {}]

Unauthorized(t) ==
  /\ \E c \in calls[t] \ valid : LoadLogin(t, c)
  /\ stored' = 0
  /\ UNCHANGED <<valid, given, reloads>>

Answered(t) ==
  /\ \E c \in calls[t] : c \in valid /\ calls' = [calls EXCEPT ![t] = @ \ {c}]
  /\ UNCHANGED <<stored, valid, given, tab, reloads>>

\* The navigation bar, and the page that resets a password as it is shown.
Logout(t) ==
  /\ tab[t].page = "app" /\ stored' = 0
  /\ tab' = [tab EXCEPT ![t] = SignedOut]
  /\ UNCHANGED <<valid, given, calls, reloads>>

\* Seven days after it was signed.
Expire(c) ==
  /\ c \in valid /\ valid' = valid \ {c}
  /\ UNCHANGED <<stored, given, tab, calls, reloads>>

\* A reload, or a new tab in the place of an old one.
Reload(t) ==
  /\ reloads < MaxReloads /\ reloads' = reloads + 1
  /\ tab' = [tab EXCEPT ![t] = [page |-> IF stored = 0 THEN "login" ELSE "app", token |-> stored, form |-> "idle"]]
  /\ calls' = [calls EXCEPT ![t] = {}]
  /\ UNCHANGED <<stored, valid, given>>

Next ==
  \/ \E c \in 1..MaxTokens : Expire(c)
  \/ \E t \in Tabs :
       \/ Submit(t) \/ SignedIn(t) \/ Refused(t) \/ Enter(t) \/ Call(t)
       \/ Unauthorized(t) \/ Answered(t) \/ Logout(t) \/ Reload(t)

Spec == Init /\ [][Next]_vars

\* Pages poll, requests are answered, timers fire.
Fairness ==
  \A t \in Tabs :
    WF_vars(Call(t)) /\ WF_vars(Unauthorized(t)) /\ WF_vars(Enter(t))
FairSpec == Spec /\ Fairness

-----------------------------------------------------------------------------
(* Properties.                                                             *)

\* A tab that shows the application as signed in, when another tab has signed out or
\* the token is no longer good, does not do so for ever: the sign-in page replaces it,
\* or somebody signs in again.
NoGhostSession ==
  \A t \in Tabs :
    tab[t].page = "app" /\ stored \notin valid ~> tab[t].page = "login" \/ stored \in valid

\* What is in the storage is the newest token or nothing; a tab of the application has
\* a token in its context, not always the one it sends.
NewestIsStored == stored \in {0, given} /\ \A t \in Tabs : tab[t].page = "app" => tab[t].token > 0
=============================================================================
