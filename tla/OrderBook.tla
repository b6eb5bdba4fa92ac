----------------------------- MODULE OrderBook ------------------------------
(***************************************************************************)
(* What the account's pages say of one live order, and who writes the fill  *)
(* into its row.  The order book page asks every five seconds and does not  *)
(* wait for the answer; the execution page reconciles fills before it       *)
(* answers; the OMS loop reconciles statuses.  Each of them reads the row,  *)
(* then the broker's book, and acts on what it read.  A fill is the number  *)
(* of shares, of Size, that went through, its price and slippage with it.   *)
(***************************************************************************)
EXTENDS Naturals, FiniteSets

CONSTANTS Size, MaxAnswers, MaxFails, None

VARIABLES
  order,      \* the order at the broker: whether it works, its fill
  row,        \* its row: status and fill
  oms,        \* a pass of the loop: where it is, the status it read, the book
  fills,      \* reconcileFills: what it read of the book, None when it is not at work
  answers,    \* answers to the order book page that are on their way
  shown,      \* what the page shows
  cancel,     \* the page's cancel request
  fails
vars == <<order, row, oms, fills, answers, shown, cancel, fails>>
writers == <<oms, fills>>
page == <<answers, shown>>

Final == {"COMPLETED", "CANCELLED", "REJECTED"}
Statuses == Final \cup {"PENDING", "PARTIAL"}
Entry == [status : Statuses, fill : 0..Size]
\* What an answer can say: without the book there is no fill.
Said == {e \in Entry : CASE e.status = "COMPLETED" -> e.fill \in {0, Size}
                         [] e.status \in {"PENDING", "REJECTED"} -> e.fill = 0
                         [] OTHER -> e.fill < Size}

TypeOK ==
  /\ order \in [state : {"working"} \cup Final, fill : 0..Size]
  /\ row \in Entry /\ shown \in Said \cup {None}
  /\ oms \in [at : {"idle", "read", "answered"}, status : Statuses, book : Entry \cup {None}]
  /\ fills \in Entry \cup {None}
  /\ answers \subseteq Said /\ Cardinality(answers) <= MaxAnswers
  /\ cancel \in {"idle", "sent", "accepted"} /\ fails \in 0..MaxFails

Rest == [at |-> "idle", status |-> "PENDING", book |-> None]

Init ==
  /\ order = [state |-> "working", fill |-> 0]
  /\ row = [status |-> "PENDING", fill |-> 0]
  /\ oms = Rest /\ fills = None /\ answers = {}
  /\ shown = None /\ cancel = "idle" /\ fails = 0

-----------------------------------------------------------------------------
(* The broker.                                                             *)

Fills ==
  /\ order.state = "working"
  /\ \E n \in order.fill + 1 .. Size :
       order' = [state |-> IF n = Size THEN "COMPLETED" ELSE "working", fill |-> n]
  /\ UNCHANGED <<row, writers, page, cancel, fails>>

Rejects ==
  /\ order.state = "working" /\ order.fill = 0 /\ order' = [order EXCEPT !.state = "REJECTED"]
  /\ UNCHANGED <<row, writers, page, cancel, fails>>

Report == [status |-> IF order.state # "working" THEN order.state
                      ELSE IF order.fill > 0 THEN "PARTIAL" ELSE "PENDING",
           fill |-> order.fill]

-----------------------------------------------------------------------------
(* Who writes the row.                                                     *)

\* reconcile() of the OMS loop takes no row whose status is final.
OmsReadsRow ==
  /\ oms.at = "idle" /\ row.status \notin Final
  /\ oms' = [at |-> "read", status |-> row.status, book |-> None]
  /\ UNCHANGED <<order, row, fills, page, cancel, fails>>

\* Without the book it gives up.
OmsReadsBook ==
  /\ oms.at = "read"
  /\ \/ oms' = [oms EXCEPT !.at = "answered", !.book = Report] /\ UNCHANGED fails
     \/ oms' = Rest /\ fails < MaxFails /\ fails' = fails + 1
  /\ UNCHANGED <<order, row, fills, page, cancel>>

\* The transition is from the status that was read; a changed status takes the fill along.
OmsWrites ==
  /\ oms.at = "answered" /\ oms' = Rest
  /\ \/ row' = (IF oms.book.status = oms.status THEN row ELSE oms.book) /\ UNCHANGED fails
     \/ row' = row /\ fails < MaxFails /\ fails' = fails + 1
  /\ UNCHANGED <<order, fills, page, cancel>>

\* The execution page: reconcileFills goes by the book, and without it by nothing.
FillsRead ==
  /\ fills = None /\ fills' = Report
  /\ UNCHANGED <<order, row, oms, page, cancel, fails>>


WorthRecording(b) == b.status \in {"COMPLETED", "PARTIAL"} /\ b.fill > 0

\* The fill is written whatever the row says by now.
FillsWritten ==
  /\ fills # None /\ fills' = None
  /\ row' = IF WorthRecording(fills) THEN [row EXCEPT !.fill = fills.fill] ELSE row
  /\ UNCHANGED <<order, oms, page, cancel, fails>>

-----------------------------------------------------------------------------
(* The order book page.                                                    *)

\* The broker's word counts, the row's only without it.
Merged(b) == IF b = None THEN [status |-> row.status, fill |-> 0] ELSE b

Ask ==
  /\ Cardinality(answers) < MaxAnswers
  /\ \/ answers' = answers \cup {Merged(Report)} /\ UNCHANGED fails
     \/ answers' = answers \cup {Merged(None)} /\ fails < MaxFails /\ fails' = fails + 1
  /\ UNCHANGED <<order, row, writers, shown, cancel>>

\* Answers may come in any order; the page shows the last to come.
Show(a) ==
  /\ a \in answers /\ answers' = answers \ {a} /\ shown' = a
  /\ UNCHANGED <<order, row, writers, cancel, fails>>

-----------------------------------------------------------------------------
(* Cancelling from the page.                                               *)

\* The button is there for what the page shows as open.
Cancel ==
  /\ cancel = "idle" /\ shown # None /\ shown.status \in {"PENDING", "PARTIAL"}
  /\ cancel' = "sent"
  /\ UNCHANGED <<order, row, writers, page, fails>>

\* The broker refuses to cancel what it has done with.
CancelAnswered ==
  /\ cancel = "sent"
  /\ \/ /\ order.state = "working" /\ order' = [order EXCEPT !.state = "CANCELLED"]
        /\ cancel' = "accepted"
     \/ order.state # "working" /\ cancel' = "idle" /\ order' = order
  /\ UNCHANGED <<row, writers, page, fails>>

CancelSaved ==
  /\ cancel = "accepted" /\ cancel' = "idle"
  /\ \/ row' = [row EXCEPT !.status = "CANCELLED"] /\ UNCHANGED fails
     \/ fails < MaxFails /\ fails' = fails + 1 /\ row' = row
  /\ UNCHANGED <<order, writers, page>>

Next ==
  \/ Fills \/ Rejects \/ OmsReadsRow \/ OmsReadsBook \/ OmsWrites \/ FillsRead \/ FillsWritten
  \/ Ask \/ (\E a \in Said : Show(a)) \/ Cancel \/ CancelAnswered \/ CancelSaved

Spec == Init /\ [][Next]_vars

\* Loops and polls go on, the execution page is looked at now and then, queries are
\* answered; failures end, for there are only so many.
Fairness ==
  /\ WF_vars(OmsReadsRow) /\ WF_vars(OmsReadsBook) /\ WF_vars(OmsWrites)
  /\ WF_vars(FillsRead) /\ WF_vars(FillsWritten)
  /\ WF_vars(Ask) /\ (\A a \in Said : WF_vars(Show(a)))
FairSpec == Spec /\ Fairness

-----------------------------------------------------------------------------
(* Properties.                                                             *)

\* No row and no page says more was filled than the broker has filled, nor that an
\* order is done which still works.
NeverAhead ==
  /\ row.fill <= order.fill
  /\ row.status \in Final => row.status = order.state
  /\ shown # None => shown.fill <= order.fill /\ (shown.status \in Final => shown.status = order.state)

\* A page that goes on asking shows in the end what the broker says of an order that is
\* over, whatever answers overtook one another.  A pass of the OMS or of the execution
\* page that read the book while the order was filled in part may write after one that
\* read it full; while the execution page is looked at, the row of a completed order ends
\* with the whole fill.
Settles ==
  order.state # "working" ~>
    /\ shown # None /\ shown.status = order.state /\ shown.fill = order.fill
    /\ order.state = "COMPLETED" => row.fill = Size
=============================================================================
