------------------------------- MODULE Savings -------------------------------
(***************************************************************************)
(* The mandatory savings: MandatorySavingsService creates the records of a *)
(* year (by the yearly job) or of the rest of the current year (for an     *)
(* administrator), and settles them one by one.  Both inserts are one      *)
(* statement with ON CONFLICT DO NOTHING, whose rows are inserted one      *)
(* after another and wait for transactions that insert the same.  Requests *)
(* are PostgreSQL transactions at READ COMMITTED, as in Cashbook.          *)
(***************************************************************************)
EXTENDS Integers, FiniteSets

CONSTANTS
  Requests,    \* the runs of the job and the administrators' requests
  Members,     \* whoever is a member at some time
  None,        \* no request
  YearLength,  \* months in a year, 12
  Months       \* bound on the months that pass

Periods == 0..(Months - 1)

\* unique(user_id, period_date).
Keys == Members \X Periods

ASSUME SavingsAssumption ==
  /\ None \notin Requests
  /\ YearLength \in Nat \ {0} /\ Months \in Nat \ {0}

VARIABLES
  now,     \* the current month
  record,  \* mandatory_savings.status as committed, "none" without a row
  booked,  \* how many incomes each record has given rise to
  owner,   \* who has inserted or locked each row without having committed, or None
  pc,      \* the statement each request is about to run
  todo     \* the rows a request has still to insert, or the one it settles

committed == <<record, booked>>
vars == <<now, committed, owner, pc, todo>>

Init ==
  /\ now = 0
  /\ record = [k \in Keys |-> "none"]
  /\ booked = [k \in Keys |-> 0]
  /\ owner = [k \in Keys |-> None]
  /\ pc = [p \in Requests |-> "idle"]
  /\ todo = [p \in Requests |-> {}]

-----------------------------------------------------------------------------
InTransaction(p) == pc[p] \notin {"idle", "committed", "rolledBack"}

Year(t) == t \div YearLength

Goto(p, next) == pc' = [pc EXCEPT ![p] = next]

Tick == now + 1 \in Periods /\ now' = now + 1 /\ UNCHANGED <<committed, owner, pc, todo>>

-----------------------------------------------------------------------------
(* The creation of records. *)

\* createYearlyMandatorySavingsForUsers: all months of the year.
YearMonths == {t \in Periods : Year(t) = Year(now)}

\* generateRemainingYearSavings: from the current month on.  The mutant stops a month
\* short of December.
RemainingButLast == {t \in Periods : t >= now /\ Year(t) = Year(now) /\ Year(t) = Year(t + 1)}
RemainingMonths == {t \in Periods : t >= now /\ Year(t) = Year(now)}

\* The members and the date are read before the transaction.  Who is an active
\* member at that moment is Membership's business: anybody may be.
Generate(p, months) ==
  /\ pc[p] = "idle"
  /\ \E active \in SUBSET Members : active # {} /\ todo' = [todo EXCEPT ![p] = active \X months]
  /\ Goto(p, "insert")
  /\ UNCHANGED <<now, committed, owner>>

\* The job fires on the first day of a year.
Yearly(p) == now % YearLength = 0 /\ Generate(p, YearMonths)

Remaining(p) == Generate(p, RemainingMonths)

\* The rows p may insert next: the statement goes through the months, and within a
\* month through the members as the query happened to list them.
Front(p) == {k \in todo[p] : \A j \in todo[p] : k[2] <= j[2]}

\* ON CONFLICT DO NOTHING.  The mutant overwrites, as merge() would.
Overwritable(k) == TRUE
Missing(k) == record[k] = "none"

InsertRecord(p) ==
  /\ pc[p] = "insert"
  /\ \E k \in Front(p) :
       /\ IF Missing(k) THEN owner[k] = None /\ owner' = [owner EXCEPT ![k] = p]
                        ELSE UNCHANGED owner
       /\ todo' = [todo EXCEPT ![p] = @ \ {k}]
  /\ UNCHANGED <<now, committed, pc>>

-----------------------------------------------------------------------------
(* settleMandatorySavings. *)

\* findMandatorySavingsById finds the record, and it is not paid.
Owed(k) == record[k] = "due"

\* The record is read without a lock.
Settle(p) ==
  /\ pc[p] = "idle"
  /\ \E k \in Keys : Owed(k) /\ todo' = [todo EXCEPT ![p] = {k}]
  /\ Goto(p, "markPaid")
  /\ UNCHANGED <<now, committed, owner>>

\* It is marked as paid, whatever it is by now.
MarkPaid(p) ==
  /\ pc[p] = "markPaid"
  /\ \E k \in todo[p] : owner[k] = None /\ owner' = [owner EXCEPT ![k] = p]
  /\ Goto(p, "book")
  /\ UNCHANGED <<now, committed, todo>>

-----------------------------------------------------------------------------
(* The ends. *)

Finish(p, outcome) ==
  /\ Goto(p, outcome)
  /\ owner' = [k \in Keys |-> IF owner[k] = p THEN None ELSE owner[k]]
  /\ todo' = [todo EXCEPT ![p] = {}]
  /\ UNCHANGED now

\* The first mutant uses the word of the principal savings; the second returns without
\* ending the transaction when all rows were duplicates.
CommitPending(p) ==
  /\ pc[p] = "insert" /\ todo[p] = {}
  /\ record' = [k \in Keys |-> IF owner[k] = p THEN "pending" ELSE record[k]]
  /\ UNCHANGED booked
  /\ Finish(p, "committed")
CommitIfAny(p) ==
  /\ pc[p] = "insert" /\ todo[p] = {} /\ \E k \in Keys : owner[k] = p
  /\ record' = [k \in Keys |-> IF owner[k] = p THEN "due" ELSE record[k]]
  /\ UNCHANGED booked
  /\ Finish(p, "committed")
CommitRecords(p) ==
  /\ pc[p] = "insert" /\ todo[p] = {}
  /\ record' = [k \in Keys |-> IF owner[k] = p THEN "due" ELSE record[k]]
  /\ UNCHANGED booked
  /\ Finish(p, "committed")

\* createMandatorySavingsIncome, createIncomeTransaction and the commit.  The mutant
\* books without marking the record, as if the update had failed unnoticed.
CommitBookingOnly(p) ==
  /\ pc[p] = "book"
  /\ booked' = [k \in Keys |-> booked[k] + IF owner[k] = p THEN 1 ELSE 0]
  /\ UNCHANGED record
  /\ Finish(p, "committed")
CommitSettlement(p) ==
  /\ pc[p] = "book"
  /\ record' = [k \in Keys |-> IF owner[k] = p THEN "paid" ELSE record[k]]
  /\ booked' = [k \in Keys |-> booked[k] + IF owner[k] = p THEN 1 ELSE 0]
  /\ Finish(p, "committed")

\* The transaction is lost at any point, or raises an error.
Crash(p) == InTransaction(p) /\ Finish(p, "rolledBack") /\ UNCHANGED committed

\* Whatever row p may insert next, another transaction has inserted it.
Blocked(p) ==
  /\ pc[p] = "insert" /\ todo[p] # {}
  /\ \A k \in Front(p) : Missing(k) /\ owner[k] # None

\* p belongs to a set of requests each of which waits only for the others.
Deadlocked(p) ==
  \E S \in SUBSET Requests :
    p \in S /\ \A q \in S : Blocked(q) /\ \A k \in Front(q) : owner[k] \in S

\* PostgreSQL's deadlock detector cancels a transaction of the cycle.
BreakDeadlock(p) == Deadlocked(p) /\ Finish(p, "rolledBack") /\ UNCHANGED committed

Progress(p) ==
  InsertRecord(p) \/ MarkPaid(p) \/ CommitRecords(p) \/ CommitSettlement(p) \/ BreakDeadlock(p)

Step(p) == Yearly(p) \/ Remaining(p) \/ Settle(p) \/ Progress(p) \/ Crash(p)

\* Time and the requests have come to their bounds, or nothing happens.
Quiet == (\A p \in Requests : ~InTransaction(p)) /\ UNCHANGED vars

Next == Quiet \/ Tick \/ \E p \in Requests : Step(p)

Spec == Init /\ [][Next]_vars

\* The database goes on with a transaction whose statement can run, and ends a
\* deadlock.
Fairness == \A p \in Requests : WF_vars(Progress(p))

FairSpec == Spec /\ Fairness

-----------------------------------------------------------------------------
(* Properties. *)

\* Every variable has its type.
TypeOK ==
  /\ now \in Periods
  /\ record \in [Keys -> {"none", "due", "paid"}]
  /\ booked \in [Keys -> Nat]
  /\ owner \in [Keys -> Requests \cup {None}]
  /\ pc \in [Requests -> {"idle", "insert", "markPaid", "book", "committed", "rolledBack"}]
  /\ todo \in [Requests -> SUBSET Keys]

\* A record is paid exactly when an income has been booked for it, in spite of crashes
\* (settleMandatorySavings).
PaidIsBooked == \A k \in Keys : record[k] = "paid" <=> booked[k] > 0

\* Whoever has a record for a month has one for each later month of the year, whatever
\* runs and requests overlapped or were cut short, in every order of months and
\* members (the two generators start at a month and go on to December).
NoGaps ==
  \A u \in Members : \A s, t \in Periods :
    s <= t /\ Year(s) = Year(t) /\ record[<<u, s>>] # "none" => record[<<u, t>>] # "none"

Promise == INSTANCE Dues

\* The requests, interleaved row by row, behave like the one-step operations of Dues:
\* a member is charged all the months or none, and a paid record is never reopened.
ImplementsDues == Promise!DuesSpec

\* Every transaction ends, although two inserts can wait for each other's rows.
EveryRequestEnds == \A p \in Requests : InTransaction(p) ~> ~InTransaction(p)

=============================================================================
