------------------------------- MODULE Report -------------------------------
(***************************************************************************)
(* The yearly report of the mandatory savings                              *)
(* (ReportsService.generateMandatorySavingsReport).  It goes through the   *)
(* active members and then through the paid savings page by page; each     *)
(* page takes two statements, a count and the rows, and nothing keeps them *)
(* to one state of the database.  Meanwhile members are admitted and       *)
(* savings are paid.  Every saving counts 1: the report only adds up.      *)
(***************************************************************************)
EXTENDS Listing

CONSTANTS
  Users,      \* those who are or may become members
  Months,     \* the months of the year
  Namings,    \* the names they may bear, as numbers in alphabetical order
  Founders,   \* the members at the start
  Settled     \* the savings paid at the start

ASSUME ReportAssumption ==
  /\ IsFiniteSet(Users)
  /\ Months \in Nat \ {0}
  /\ Namings \subseteq [Users -> Nat]
  /\ Founders \subseteq Users
  /\ Settled \subseteq Founders \X (1..Months)

\* A saving is named by its member and its month: unique in the table.
Savings == Users \X (1..Months)

VARIABLES
  name,      \* users.fullname
  status,    \* users.status, as committed: "candidate" before "active", "rejected" after
  paid,      \* the paid savings, as committed
  report,    \* where the report stands: its phase, its next statement, the page it is
             \* at and the count it was given
  table,     \* the report's memberDataMap
  opening,   \* the members and the savings there were when the phases began
  crossed    \* the phases in which a row came between a count and its page, and
             \* "gone" when a member left

vars == <<name, status, paid, report, table, opening, crossed>>

Active == {u \in Users : status[u] = "active"}

\* The savings that were ever asked for: a member's.
Charged == {s \in Savings : status[s[1]] # "candidate"}

NoReport == [phase |-> "members", at |-> "idle", page |-> 1, total |-> 0]

\* monthlyPayments and total of a member.
Blank == [cells |-> {}, total |-> 0]

Phases == {"members", "savings"}

Init ==
  /\ name \in Namings
  /\ status = [u \in Users |-> IF u \in Founders THEN "active" ELSE "candidate"]
  /\ paid = Settled
  /\ report = NoReport
  /\ table = [m \in {} |-> Blank]
  /\ opening = [members |-> {}, savings |-> {}]
  /\ crossed = {}

-----------------------------------------------------------------------------
(* Meanwhile, in other transactions. *)

\* A row has come into a phase's listing.
Cross(phase) ==
  crossed' = IF report.phase = phase /\ report.at = "rows" THEN crossed \cup {phase} ELSE crossed

\* A member is admitted (approveUser).
Admit(m) ==
  /\ status[m] = "candidate"
  /\ status' = [status EXCEPT ![m] = "active"]
  /\ Cross("members")
  /\ UNCHANGED <<name, paid, report, table, opening>>

\* A member who was admitted is rejected by a decision made at the same time
\* (rejectUser).
Leave(m) ==
  /\ status[m] = "active"
  /\ status' = [status EXCEPT ![m] = "rejected"]
  /\ crossed' = crossed \cup {"gone"}
  /\ UNCHANGED <<name, paid, report, table, opening>>

\* A saving is paid (settleMandatorySavings).
Pay(s) ==
  /\ s \in Charged \ paid
  /\ paid' = paid \cup {s}
  /\ Cross("savings")
  /\ UNCHANGED <<name, status, report, table, opening>>

-----------------------------------------------------------------------------
(* The report. *)

\* The rows a phase goes through, and the order it asks for: by name, and the savings of
\* one name by month.  The mutant asks for none.
Listed == IF report.phase = "members" THEN Active ELSE paid
KeyNone == [r \in Users \cup Savings |-> 0]
Key == IF report.phase = "members" THEN name
       ELSE [s \in Savings |-> name[s[1]] * (Months + 1) + s[2]]

Begin ==
  /\ report.at = "idle"
  /\ report' = [report EXCEPT !.at = "count"]
  /\ opening' = [opening EXCEPT !.members = Active]
  /\ UNCHANGED <<name, status, paid, table, crossed>>

CountRows ==
  /\ report.at = "count"
  /\ report' = [report EXCEPT !.at = "rows", !.total = Cardinality(Listed)]
  /\ UNCHANGED <<name, status, paid, table, opening, crossed>>

\* memberDataMap.set: a member met again starts afresh.
WithMembers(P) == [m \in DOMAIN table \cup P |-> IF m \in P THEN Blank ELSE table[m]]

\* The savings of those who are listed.
MonthsOf(m, P) == {k \in 1..Months : <<m, k>> \in P}
WithSavings(P) ==
  [m \in DOMAIN table |-> [cells |-> table[m].cells \cup MonthsOf(m, P),
                           total |-> table[m].total + Cardinality(MonthsOf(m, P))]]

\* The rows of the page are read, and the next page or the next phase comes.  The
\* mutant reads the same page again.
AdvanceNowhere == [report EXCEPT !.at = "count"]
Advance ==
  IF HasNext(report.page, report.total) THEN [report EXCEPT !.at = "count", !.page = @ + 1]
  ELSE IF report.phase = "members" THEN [NoReport EXCEPT !.phase = "savings", !.at = "count"]
  ELSE [report EXCEPT !.at = "done"]

ReadRows ==
  /\ report.at = "rows"
  /\ \E P \in Pages(Listed, Key, report.page) :
       table' = IF report.phase = "members" THEN WithMembers(P) ELSE WithSavings(P)
  /\ report' = Advance
  /\ opening' = IF report.phase = "members" THEN [opening EXCEPT !.savings = paid] ELSE opening
  /\ UNCHANGED <<name, status, paid, crossed>>

\* A query fails, and there is no report.
Fail ==
  /\ report.at \in {"count", "rows"}
  /\ report' = [report EXCEPT !.at = "failed"]
  /\ UNCHANGED <<name, status, paid, table, opening, crossed>>

Over == report.at \in {"done", "failed"} /\ UNCHANGED vars

\* What happens before and after the report is no matter of its own.
Meanwhile ==
  /\ report.at \in {"count", "rows"}
  /\ \/ \E m \in Users : Admit(m) \/ Leave(m)
     \/ \E s \in Savings : Pay(s)

ReportStep == CountRows \/ ReadRows

Next == Meanwhile \/ Begin \/ ReportStep \/ Fail \/ Over

Spec == Init /\ [][Next]_vars

\* The queries of a report that has begun are answered.
FairSpec == Spec /\ WF_vars(ReportStep)

-----------------------------------------------------------------------------
(* Properties. *)

\* Every variable has its type; after the first no phase has more pages than its rows
\* ask for.
TypeOK ==
  /\ name \in Namings
  /\ status \in [Users -> {"candidate", "active", "rejected"}]
  /\ paid \subseteq Savings
  /\ report \in [phase : Phases, at : {"idle", "count", "rows", "done", "failed"},
                 page : Nat \ {0}, total : Nat]
  /\ \/ report.page = 1
     \/ report.page <= TotalPage(Cardinality(IF report.phase = "members" THEN Users ELSE Savings))
  /\ DOMAIN table \subseteq Users
  /\ table \in [DOMAIN table ->
                 [cells : SUBSET (1..Months), total : 0..(2 * Cardinality(Savings))]]
  /\ opening \in [members : SUBSET Users, savings : SUBSET Savings]
  /\ crossed \subseteq Phases \cup {"gone"}

\* Nobody has another's name.
NoNamesakes == \A m, n \in Users : name[m] = name[n] => m = n

\* The rows of a report made at one moment.
Statement ==
  [m \in Active |-> [cells |-> MonthsOf(m, paid), total |-> Cardinality(MonthsOf(m, paid))]]

\* A report during which nobody is admitted or pays is the statement of that moment,
\* if no name occurs twice: the pages fit together and none is left out
\* (generateMandatorySavingsReport, createPaginationMetadata).
ExactIfUndisturbed ==
  report.at = "done" /\ opening = [members |-> Active, savings |-> paid] /\ "gone" \notin crossed
      /\ NoNamesakes
    => table = Statement

\* Whoever was a member when the report began is listed, and what was paid when its
\* second phase began is in its cell, whoever is admitted and whatever is paid
\* meanwhile, unless that falls between a count and its page or a member leaves: rows
\* that come in only move the later ones to pages still to be read.
NobodyPassedOver ==
  report.at = "done" /\ NoNamesakes /\ "gone" \notin crossed =>
    /\ "members" \notin crossed => opening.members \subseteq DOMAIN table
    /\ "savings" \notin crossed =>
         \A s \in opening.savings : s[1] \in DOMAIN table => s[2] \in table[s[1]].cells

\* The footer: the sum under each month, and the sum of the members' totals.
UnderMonth(k) == Cardinality({m \in DOMAIN table : k \in table[m].cells})
MonthlyTotals == SumFunction([k \in 1..Months |-> UnderMonth(k)])
GrandTotal == SumFunction([m \in DOMAIN table |-> table[m].total])

\* The grand total is never less than the months of the footer, and they agree unless
\* somebody paid while the savings were read, whose row moves another to the next page
\* to be read again: that one fills its cell once and is added twice.
FooterAgrees ==
  /\ MonthlyTotals <= GrandTotal
  /\ report.at = "done" /\ NoNamesakes /\ paid = opening.savings => MonthlyTotals = GrandTotal

\* A report that has begun ends, although each page may bring a higher count.
ReportEnds == []<>(report.at \notin {"count", "rows"})

=============================================================================
