---------------------------- MODULE SavingsProofs ----------------------------
(***************************************************************************)
(* Theorems about Savings, for every set of requests and members and every *)
(* number of months.  The inductive invariant, SavingsInv, follows each    *)
(* request: the records one is inserting do not exist for anybody else,    *)
(* and those it has passed over exist already, so that at its commit there *)
(* is a record for every member and month that it set out to charge.       *)
(***************************************************************************)
EXTENDS Savings, TLAPS

\* months goes up to the end of each year in it.
ToDecember(months) ==
  \A s \in months, t \in Periods : s <= t /\ Year(s) = Year(t) => t \in months

Has(k) == record[k] # "none"

\* Request p set out to charge who for months: what is not left to do exists, or p has
\* inserted it.
Charging(p, who, months) ==
  /\ ToDecember(months)
  /\ todo[p] \subseteq who \X months
  /\ \A k \in who \X months : k \in todo[p] \/ Has(k) \/ owner[k] = p
  /\ \A k \in Keys : owner[k] = p => k \in who \X months /\ ~Has(k)

\* Request p settles the record k.
Settling(p, k) ==
  /\ todo[p] = {k} /\ Has(k)
  /\ \A j \in Keys : owner[j] = p <=> pc[p] = "book" /\ j = k

RequestInv(p) ==
  /\ pc[p] = "insert" => \E who \in SUBSET Members, months \in SUBSET Periods :
                           Charging(p, who, months)
  /\ pc[p] \in {"markPaid", "book"} => \E k \in Keys : Settling(p, k)
  /\ pc[p] \in {"idle", "committed", "rolledBack"} => \A k \in Keys : owner[k] # p

SavingsInv == TypeOK /\ PaidIsBooked /\ NoGaps /\ \A p \in Requests : RequestInv(p)

-----------------------------------------------------------------------------
(* Types. *)

LEMMA MonthsFit ==
  /\ YearMonths \in SUBSET Periods /\ RemainingMonths \in SUBSET Periods
  /\ TypeOK => ToDecember(YearMonths) /\ ToDecember(RemainingMonths)
  <1>1. TypeOK => ToDecember(YearMonths)
    BY DEF ToDecember, YearMonths
  <1>2. TypeOK => ToDecember(RemainingMonths)
    <2> SUFFICES ASSUME TypeOK, NEW s \in RemainingMonths, NEW t \in Periods,
                        s <= t, Year(s) = Year(t)
                 PROVE  t >= now /\ Year(t) = Year(now)
      BY DEF ToDecember, RemainingMonths
    <2>1. s \in Int /\ t \in Int /\ now \in Int /\ s >= now /\ Year(s) = Year(now)
      BY SavingsAssumption DEF RemainingMonths, Periods, TypeOK
    <2>2. QED
      BY <2>1
  <1>3. QED
    BY <1>1, <1>2 DEF YearMonths, RemainingMonths

LEMMA InitTypes == Init => TypeOK
  BY SavingsAssumption DEF Init, TypeOK, Periods

LEMMA FinishTypes ==
  ASSUME TypeOK, NEW p \in Requests, NEW o \in {"committed", "rolledBack"}, Finish(p, o)
  PROVE  /\ now' \in Periods
         /\ owner' \in [Keys -> Requests \cup {None}]
         /\ pc' \in [Requests -> {"idle", "insert", "markPaid", "book", "committed",
                                  "rolledBack"}]
         /\ todo' \in [Requests -> SUBSET Keys]
  BY DEF Finish, Goto, TypeOK

LEMMA TypesKept == TypeOK /\ [Next]_vars => TypeOK'
  <1> SUFFICES ASSUME TypeOK, [Next]_vars PROVE TypeOK'
    OBVIOUS
  <1> USE DEF committed
  <1>1. CASE UNCHANGED vars
    BY <1>1 DEF TypeOK, vars
  <1>2. CASE Tick
    BY <1>2 DEF Tick, TypeOK
  <1>3. ASSUME NEW p \in Requests, Step(p) PROVE TypeOK'
    <2>1. CASE Yearly(p) \/ Remaining(p)
      <3>1. PICK months \in SUBSET Periods : Generate(p, months)
        BY <2>1, MonthsFit DEF Yearly, Remaining
      <3>2. QED
        BY <3>1 DEF Generate, Goto, TypeOK, Keys
    <2>2. CASE InsertRecord(p)
      BY <2>2 DEF InsertRecord, Front, TypeOK
    <2>3. CASE Settle(p)
      BY <2>3 DEF Settle, Goto, TypeOK
    <2>4. CASE MarkPaid(p)
      BY <2>4 DEF MarkPaid, Goto, TypeOK
    <2>5. CASE CommitRecords(p)
      BY <2>5, FinishTypes DEF CommitRecords, TypeOK
    <2>6. CASE CommitSettlement(p)
      BY <2>6, FinishTypes DEF CommitSettlement, TypeOK
    <2>7. CASE Crash(p) \/ BreakDeadlock(p)
      BY <2>7, FinishTypes DEF Crash, BreakDeadlock, TypeOK
    <2>8. QED
      BY <1>3, <2>1, <2>2, <2>3, <2>4, <2>5, <2>6, <2>7 DEF Step, Progress
  <1>4. QED
    BY <1>1, <1>2, <1>3 DEF Next, Quiet

-----------------------------------------------------------------------------
(* The others' rows and plans. *)

\* What p's step leaves to q.
Spares(q) ==
  /\ pc'[q] = pc[q] /\ todo'[q] = todo[q]
  /\ \A k \in Keys : owner[k] = q <=> owner'[k] = q

LEMMA OthersKeep ==
  ASSUME TypeOK, NEW p \in Requests, NEW q \in Requests, q # p, Step(p)
  PROVE  Spares(q)
  <1> USE DEF committed, Spares
  <1>0. None # q
    BY SavingsAssumption
  <1>1. CASE Yearly(p) \/ Remaining(p)
    <2>1. PICK months : Generate(p, months)
      BY <1>1 DEF Yearly, Remaining
    <2>2. QED
      BY <2>1 DEF Generate, Goto, TypeOK
  <1>2. CASE InsertRecord(p)
    BY <1>0, <1>2 DEF InsertRecord, TypeOK
  <1>3. CASE Settle(p)
    BY <1>3 DEF Settle, Goto, TypeOK
  <1>4. CASE MarkPaid(p)
    BY <1>0, <1>4 DEF MarkPaid, Goto, TypeOK
  <1>5. CASE \E o : Finish(p, o)
    BY <1>0, <1>5 DEF Finish, Goto, TypeOK
  <1>6. CASE CommitRecords(p) \/ CommitSettlement(p) \/ Crash(p) \/ BreakDeadlock(p)
    BY <1>5, <1>6 DEF CommitRecords, CommitSettlement, Crash, BreakDeadlock
  <1>7. QED
    BY <1>1, <1>2, <1>3, <1>4, <1>6 DEF Step, Progress

\* A record appears only where p has inserted it, and never disappears.
LEMMA RecordsAppear ==
  ASSUME SavingsInv, NEW p \in Requests, Step(p), NEW k \in Keys
  PROVE  Has(k)' <=> Has(k) \/ (CommitRecords(p) /\ owner[k] = p)
  <1> USE DEF committed, Has
  <1> TypeOK
    BY DEF SavingsInv
  <1>1. CASE UNCHANGED committed /\ ~CommitRecords(p)
    BY <1>1
  <1>2. CASE CommitRecords(p)
    BY <1>2 DEF CommitRecords, TypeOK
  <1>3. CASE CommitSettlement(p)
    <2>1. pc[p] = "book" /\ ~CommitRecords(p)
      BY <1>3 DEF CommitSettlement, CommitRecords
    <2>2. \A j \in Keys : owner[j] = p => Has(j)
      BY <2>1 DEF SavingsInv, RequestInv, Settling
    <2>3. QED
      BY <1>3, <2>1, <2>2 DEF CommitSettlement, TypeOK
  <1>4. CASE ~CommitRecords(p) /\ ~CommitSettlement(p)
    <2>1. UNCHANGED committed
      BY <1>4 DEF Step, Progress, Yearly, Remaining, Generate, InsertRecord, Settle, MarkPaid,
                  Crash, BreakDeadlock
    <2>2. QED
      BY <1>1, <1>4, <2>1
  <1>5. QED
    BY <1>2, <1>3, <1>4

LEMMA OthersInv ==
  ASSUME SavingsInv, NEW p \in Requests, NEW q \in Requests, q # p, Step(p)
  PROVE  RequestInv(q)'
  <1>1. TypeOK /\ RequestInv(q)
    BY DEF SavingsInv
  <1>2. Spares(q)
    BY <1>1, OthersKeep
  <1>3. \A k \in Keys : Has(k)' <=> Has(k) \/ (CommitRecords(p) /\ owner[k] = p)
    BY RecordsAppear
  <1>4. ASSUME pc[q] = "insert"
        PROVE  \E who \in SUBSET Members, months \in SUBSET Periods : Charging(q, who, months)'
    <2>1. PICK who \in SUBSET Members, months \in SUBSET Periods : Charging(q, who, months)
      BY <1>1, <1>4 DEF RequestInv
    <2>2. who \X months \subseteq Keys
      BY DEF Keys
    <2>3. Charging(q, who, months)'
      BY <1>2, <1>3, <2>1, <2>2 DEF Charging, Spares, ToDecember, Year
    <2>4. QED
      BY <2>3
  <1>5. ASSUME pc[q] \in {"markPaid", "book"} PROVE \E k \in Keys : Settling(q, k)'
    <2>1. PICK k \in Keys : Settling(q, k)
      BY <1>1, <1>5 DEF RequestInv
    <2>2. Settling(q, k)'
      BY <1>2, <1>3, <2>1 DEF Settling, Spares
    <2>3. QED
      BY <2>2
  <1>6. pc[q] \in {"idle", "committed", "rolledBack"} => \A k \in Keys : owner'[k] # q
    BY <1>1, <1>2 DEF RequestInv, Spares
  <1>7. QED
    BY <1>2, <1>4, <1>5, <1>6 DEF RequestInv, Spares

-----------------------------------------------------------------------------
(* One's own plan. *)

LEMMA FinishInv ==
  ASSUME TypeOK, NEW p \in Requests, NEW o \in {"committed", "rolledBack"}, Finish(p, o)
  PROVE  RequestInv(p)'
  <1>1. pc'[p] = o
    BY DEF Finish, Goto, TypeOK
  <1>2. \A k \in Keys : owner'[k] # p
    BY SavingsAssumption DEF Finish
  <1>3. QED
    BY <1>1, <1>2 DEF RequestInv

LEMMA OwnInv ==
  ASSUME SavingsInv, NEW p \in Requests, Step(p)
  PROVE  RequestInv(p)'
  <1> USE DEF committed
  <1>1. TypeOK /\ RequestInv(p) /\ p # None
    BY SavingsAssumption DEF SavingsInv
  <1>2. CASE Yearly(p) \/ Remaining(p)
    <2>1. PICK months \in SUBSET Periods : ToDecember(months) /\ Generate(p, months)
      BY <1>1, <1>2, MonthsFit DEF Yearly, Remaining
    <2>2. PICK who \in SUBSET Members : todo' = [todo EXCEPT ![p] = who \X months]
      BY <2>1 DEF Generate
    <2>3. pc'[p] = "insert" /\ todo'[p] = who \X months /\ owner' = owner
      BY <1>1, <2>1, <2>2 DEF Generate, Goto, TypeOK
    <2>4. \A k \in Keys : owner[k] # p
      BY <1>1, <2>1 DEF Generate, RequestInv
    <2>5. Charging(p, who, months)'
      BY <2>1, <2>3, <2>4 DEF Charging, ToDecember
    <2>6. QED
      BY <2>3, <2>5 DEF RequestInv
  <1>3. CASE InsertRecord(p)
    <2>1. pc[p] = "insert" /\ pc' = pc /\ record' = record
      BY <1>3 DEF InsertRecord
    <2>2. PICK who \in SUBSET Members, months \in SUBSET Periods : Charging(p, who, months)
      BY <1>1, <2>1 DEF RequestInv
    <2>3. PICK k \in Front(p) :
            /\ IF Missing(k) THEN owner[k] = None /\ owner' = [owner EXCEPT ![k] = p]
                             ELSE UNCHANGED owner
            /\ todo' = [todo EXCEPT ![p] = @ \ {k}]
      BY <1>3 DEF InsertRecord
    <2>4. k \in todo[p] /\ k \in who \X months /\ k \in Keys
      BY <2>2, <2>3 DEF Front, Charging, Keys
    <2>5. todo'[p] = todo[p] \ {k}
      BY <1>1, <2>3 DEF TypeOK
    <2>6. CASE Missing(k)
      <3>1. /\ \A j \in Keys : owner'[j] = IF j = k THEN p ELSE owner[j]
            /\ ~Has(k)
        BY <1>1, <2>3, <2>4, <2>6 DEF TypeOK, Missing, Has
      <3>2. who \X months \subseteq Keys
        BY DEF Keys
      <3>3. Charging(p, who, months)'
        BY <2>1, <2>2, <2>4, <2>5, <3>1, <3>2 DEF Charging, ToDecember, Has
      <3>4. QED
        BY <2>1, <3>3 DEF RequestInv
    <2>7. CASE ~Missing(k)
      <3>1. Has(k) /\ owner' = owner
        BY <2>3, <2>7 DEF Missing, Has
      <3>2. Charging(p, who, months)'
        BY <2>1, <2>2, <2>4, <2>5, <3>1 DEF Charging, ToDecember, Has
      <3>3. QED
        BY <2>1, <3>2 DEF RequestInv
    <2>8. QED
      BY <2>6, <2>7
  <1>4. CASE Settle(p)
    <2>1. PICK k \in Keys : record[k] = "due" /\ todo' = [todo EXCEPT ![p] = {k}]
      BY <1>4 DEF Settle, Owed
    <2>2. pc'[p] = "markPaid" /\ todo'[p] = {k} /\ owner' = owner /\ record' = record
      BY <1>1, <1>4, <2>1 DEF Settle, Goto, TypeOK
    <2>3. \A j \in Keys : owner[j] # p
      BY <1>1, <1>4 DEF Settle, RequestInv
    <2>4. Settling(p, k)'
      BY <2>1, <2>2, <2>3 DEF Settling, Has
    <2>5. QED
      BY <2>2, <2>4 DEF RequestInv
  <1>5. CASE MarkPaid(p)
    <2>1. pc[p] = "markPaid" /\ pc'[p] = "book" /\ todo' = todo /\ record' = record
      BY <1>1, <1>5 DEF MarkPaid, Goto, TypeOK
    <2>2. PICK k \in Keys : Settling(p, k)
      BY <1>1, <2>1 DEF RequestInv
    <2>3. owner' = [owner EXCEPT ![k] = p]
      BY <1>5, <2>2 DEF MarkPaid, Settling
    <2>4. \A j \in Keys : owner'[j] = IF j = k THEN p ELSE owner[j]
      BY <1>1, <2>3 DEF TypeOK
    <2>5. Settling(p, k)'
      BY <2>1, <2>2, <2>4 DEF Settling, Has
    <2>6. QED
      BY <2>1, <2>5 DEF RequestInv
  <1>6. CASE CommitRecords(p) \/ CommitSettlement(p) \/ Crash(p) \/ BreakDeadlock(p)
    BY <1>1, <1>6, FinishInv DEF CommitRecords, CommitSettlement, Crash, BreakDeadlock
  <1>7. QED
    BY <1>2, <1>3, <1>4, <1>5, <1>6 DEF Step, Progress

-----------------------------------------------------------------------------
(* The committed records. *)

LEMMA BookingsKept ==
  ASSUME SavingsInv, NEW p \in Requests, Step(p)
  PROVE  PaidIsBooked'
  <1> USE DEF committed
  <1>1. TypeOK /\ PaidIsBooked /\ RequestInv(p)
    BY DEF SavingsInv
  <1>2. CASE UNCHANGED committed
    BY <1>1, <1>2 DEF PaidIsBooked
  <1>3. CASE CommitRecords(p)
    <2>1. \A k \in Keys : owner[k] = p => ~Has(k)
      BY <1>1, <1>3 DEF CommitRecords, RequestInv, Charging
    <2>2. \A k \in Keys : owner[k] = p => record[k] # "paid"
      BY <2>1 DEF Has
    <2>3. QED
      BY <1>1, <1>3, <2>2 DEF CommitRecords, PaidIsBooked
  <1>4. CASE CommitSettlement(p)
    <2>1. ASSUME NEW k \in Keys PROVE record'[k] = "paid" <=> booked'[k] > 0
      <3>1. booked[k] \in Nat /\ (record[k] = "paid" <=> booked[k] > 0)
        BY <1>1 DEF TypeOK, PaidIsBooked
      <3>2. CASE owner[k] = p
        <4>1. record'[k] = "paid" /\ booked'[k] = booked[k] + 1
          BY <1>4, <3>2 DEF CommitSettlement
        <4>2. QED
          BY <3>1, <4>1
      <3>3. CASE owner[k] # p
        <4>1. record'[k] = record[k] /\ booked'[k] = booked[k] + 0
          BY <1>4, <3>3 DEF CommitSettlement
        <4>2. QED
          BY <3>1, <4>1
      <3>4. QED
        BY <3>2, <3>3
    <2>2. QED
      BY <2>1 DEF PaidIsBooked
  <1>5. QED
    BY <1>2, <1>3, <1>4 DEF Step, Progress, Yearly, Remaining, Generate, InsertRecord, Settle,
                           MarkPaid, Crash, BreakDeadlock

LEMMA GapsKept ==
  ASSUME SavingsInv, NEW p \in Requests, Step(p)
  PROVE  NoGaps'
  <1>1. NoGaps /\ RequestInv(p)
    BY DEF SavingsInv
  <1> SUFFICES ASSUME NEW u \in Members, NEW s \in Periods, NEW t \in Periods,
                      s <= t, Year(s) = Year(t), Has(<<u, s>>)'
               PROVE  Has(<<u, t>>)'
    BY DEF NoGaps, Has, Year
  <1>2. <<u, s>> \in Keys /\ <<u, t>> \in Keys
    BY DEF Keys
  <1>3. CASE Has(<<u, s>>)
    <2>1. Has(<<u, t>>)
      BY <1>1, <1>3 DEF NoGaps, Has
    <2>2. QED
      BY <1>2, <2>1, RecordsAppear
  <1>4. CASE CommitRecords(p) /\ owner[<<u, s>>] = p
    <2>1. pc[p] = "insert" /\ todo[p] = {}
      BY <1>4 DEF CommitRecords
    <2>2. PICK who \in SUBSET Members, months \in SUBSET Periods : Charging(p, who, months)
      BY <1>1, <2>1 DEF RequestInv
    <2>3. <<u, s>> \in who \X months
      BY <1>2, <1>4, <2>2 DEF Charging
    <2>4. <<u, t>> \in who \X months
      BY <2>2, <2>3 DEF Charging, ToDecember
    <2>5. Has(<<u, t>>) \/ owner[<<u, t>>] = p
      BY <2>1, <2>2, <2>4 DEF Charging
    <2>6. QED
      BY <1>2, <1>4, <2>5, RecordsAppear
  <1>5. QED
    BY <1>2, <1>3, <1>4, RecordsAppear

-----------------------------------------------------------------------------
(* The invariant. *)

LEMMA InitInv == Init => SavingsInv
  <1> SUFFICES ASSUME Init PROVE SavingsInv
    OBVIOUS
  <1>1. TypeOK
    BY InitTypes
  <1>2. \A p \in Requests : RequestInv(p)
    BY SavingsAssumption DEF Init, RequestInv
  <1>3. PaidIsBooked /\ NoGaps
    BY DEF Init, PaidIsBooked, NoGaps, Keys
  <1>4. QED
    BY <1>1, <1>2, <1>3 DEF SavingsInv

LEMMA InvKept == SavingsInv /\ [Next]_vars => SavingsInv'
  <1> SUFFICES ASSUME SavingsInv, [Next]_vars PROVE SavingsInv'
    OBVIOUS
  <1>1. TypeOK'
    BY TypesKept DEF SavingsInv
  <1>2. CASE UNCHANGED <<committed, owner, pc, todo>>
    <2>1. PaidIsBooked' /\ NoGaps'
      BY <1>2 DEF committed, SavingsInv, PaidIsBooked, NoGaps, Year
    <2>2. ASSUME NEW q \in Requests PROVE RequestInv(q)'
      <3>1. RequestInv(q)
        BY DEF SavingsInv
      <3>2. /\ \A k \in Keys : Settling(q, k)' <=> Settling(q, k)
            /\ \A who \in SUBSET Members, months \in SUBSET Periods :
                 Charging(q, who, months)' <=> Charging(q, who, months)
        <4>1. record' = record /\ owner' = owner /\ pc' = pc /\ todo' = todo
          BY <1>2 DEF committed
        <4>2. QED
          BY <4>1 DEF Charging, Settling, Has, ToDecember, Year
      <3>3. pc' = pc /\ owner' = owner
        BY <1>2
      <3>4. QED
        BY <3>1, <3>2, <3>3 DEF RequestInv
    <2>3. QED
      BY <1>1, <2>1, <2>2 DEF SavingsInv
  <1>3. ASSUME NEW p \in Requests, Step(p) PROVE SavingsInv'
    <2>1. \A q \in Requests : RequestInv(q)'
      BY <1>3, OwnInv, OthersInv
    <2>2. QED
      BY <1>1, <1>3, <2>1, BookingsKept, GapsKept DEF SavingsInv
  <1>4. QED
    BY <1>2, <1>3 DEF Next, Quiet, Tick, vars

\* The invariant holds in every reachable state.
THEOREM Invariance == Spec => []SavingsInv
  BY InitInv, InvKept, PTL DEF Spec

-----------------------------------------------------------------------------
(* What follows from it. *)

\* Every variable keeps its type.
THEOREM TypesHold == Spec => []TypeOK
  <1>1. SavingsInv => TypeOK
    BY DEF SavingsInv
  <1>2. QED
    BY <1>1, Invariance, PTL

\* Money comes in for a record exactly when it is marked as paid.
THEOREM PaidAlwaysBooked == Spec => []PaidIsBooked
  <1>1. SavingsInv => PaidIsBooked
    BY DEF SavingsInv
  <1>2. QED
    BY <1>1, Invariance, PTL

\* No member is ever charged a month without the rest of its year, however the yearly
\* job and the administrators' requests overlap.
THEOREM NeverGaps == Spec => []NoGaps
  <1>1. SavingsInv => NoGaps
    BY DEF SavingsInv
  <1>2. QED
    BY <1>1, Invariance, PTL

-----------------------------------------------------------------------------
(* Every step is a step of Dues, or none. *)

LEMMA InitRefines == Init => Promise!DuesInit
  BY DEF Init, Promise!DuesInit, Keys

LEMMA RecordsRefine ==
  ASSUME SavingsInv, NEW p \in Requests, CommitRecords(p)
  PROVE  Promise!DuesNext
  <1>1. pc[p] = "insert" /\ todo[p] = {} /\ RequestInv(p)
    BY DEF CommitRecords, SavingsInv
  <1>2. PICK who \in SUBSET Members, months \in SUBSET Periods : Charging(p, who, months)
    BY <1>1 DEF RequestInv
  <1>3. \A k \in Keys : owner[k] = p <=> k \in who \X months /\ record[k] = "none"
    BY <1>1, <1>2 DEF Charging, Has
  <1>4. record' = [k \in Members \X Periods |->
                     IF k \in who \X months /\ record[k] = "none" THEN "due" ELSE record[k]]
    BY <1>3 DEF CommitRecords, Keys
  <1>5. Promise!UpToDecember(months)
    BY <1>2 DEF Charging, ToDecember, Year, Promise!UpToDecember, Promise!Year
  <1>6. Promise!Charge(who, months)
    BY <1>4, <1>5 DEF Promise!Charge
  <1>7. QED
    BY <1>6 DEF Promise!DuesNext

LEMMA SettlementRefines ==
  ASSUME SavingsInv, NEW p \in Requests, CommitSettlement(p)
  PROVE  Promise!DuesNext
  <1>1. pc[p] = "book" /\ RequestInv(p) /\ TypeOK
    BY DEF CommitSettlement, SavingsInv
  <1>2. PICK k \in Keys : Settling(p, k)
    BY <1>1 DEF RequestInv
  <1>3. \A j \in Keys : owner[j] = p <=> j = k
    BY <1>1, <1>2 DEF Settling
  <1>4. record' = [record EXCEPT ![k] = "paid"]
    BY <1>1, <1>3 DEF CommitSettlement, TypeOK
  <1>5. Promise!Collect(k) /\ k \in Members \X Periods
    BY <1>2, <1>4 DEF Promise!Collect, Settling, Has, Keys
  <1>6. QED
    BY <1>5 DEF Promise!DuesNext

LEMMA StepRefines ==
  ASSUME SavingsInv, [Next]_vars
  PROVE  [Promise!DuesNext]_record
  <1>1. CASE UNCHANGED record
    BY <1>1
  <1>2. CASE Tick \/ UNCHANGED vars
    BY <1>2 DEF Tick, vars, committed
  <1>3. ASSUME NEW p \in Requests, Step(p)
        PROVE  CommitRecords(p) \/ CommitSettlement(p) \/ UNCHANGED record
    BY <1>3 DEF committed, Step, Progress, Yearly, Remaining, Generate, InsertRecord, Settle,
                MarkPaid, Crash, BreakDeadlock
  <1>4. QED
    BY <1>1, <1>2, <1>3, RecordsRefine, SettlementRefines DEF Next, Quiet

\* The requests behave like the one-step operations of Dues: a member is charged all the
\* months or none, once, and a paid record stays paid.
THEOREM RequestsImplementDues == Spec => ImplementsDues
  <1>1. SavingsInv /\ [Next]_vars => [Promise!DuesNext]_record
    BY StepRefines
  <1>2. QED
    BY <1>1, InitRefines, Invariance, PTL DEF Spec, ImplementsDues, Promise!DuesSpec

=============================================================================
