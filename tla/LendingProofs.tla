---------------------------- MODULE LendingProofs ----------------------------
(***************************************************************************)
(* Theorems about Lending, for every set of requests, loans, members and   *)
(* periods, and every limit, tenor and amount.  They rest on one inductive *)
(* invariant, LendingInv: what a request has checked stays true until it   *)
(* commits, because of the locks it holds, and the loans that are granted  *)
(* or about to be are within the limit.                                    *)
(***************************************************************************)
EXTENDS Lending, FiniteSetTheorems, TLAPS

Application(p) == [kind |-> "apply", loan |-> p]

\* What a request is doing fits what it was asked to do.
JobFits(p) ==
  /\ pc[p] \in {"idle", "insert", "reference", "committed", "rolledBack"}
     => job[p] = Application(p)
  /\ pc[p] \in {"find", "findPeriod", "decide"} => job[p].kind \in {"approve", "reject"}
  /\ pc[p] \in {"activate", "insertInstallments", "pay"} => job[p].kind = "disburse"
  /\ pc[p] = "commit" => job[p].kind \in {"approve", "reject", "disburse"}

\* The loan is in the state the request found, or in one it may have come to since.
LoanFits(p) ==
  /\ pc[p] \in {"idle", "insert", "reference"} => status[p] = "none"
  /\ job[p].kind = "disburse" => status[Target(p)] \in {"approved", "active"}
  /\ job[p].kind = "disburse" /\ pc[p] \in {"pay", "commit"} => status[Target(p)] = "approved"
  /\ job[p].kind \in {"approve", "reject"} /\ pc[p] = "commit" => status[Target(p)] = "pending"

\* The locks that keep it so.
LocksHeld(p) ==
  /\ pc[p] \in {"findPeriod", "decide", "insertInstallments", "pay", "commit"}
     => owner[Target(p)] = p
  /\ pc[p] = "commit" /\ job[p].kind = "disburse"
     => owner["balances"] = p /\ capital >= Disbursed

\* Request p is about to commit an approval of loan l.
Approving(p, l) == pc[p] = "commit" /\ job[p].kind = "approve" /\ Target(p) = l

\* The loans of member m that are granted or about to be.
Pledged(m) ==
  {l \in LoanIds : /\ MemberOf[l] = m
                   /\ status[l] \in {"approved", "active"} \/ \E p \in Requests : Approving(p, l)}

PledgedWithinLimit == \A l \in LoanIds : Cardinality(Pledged(MemberOf[l])) <= MaxLoans

LendingInv ==
  /\ TypeOK
  /\ \A p \in Requests : JobFits(p) /\ LoanFits(p) /\ LocksHeld(p)
  /\ DisbursedOnce
  /\ \A l \in LoanIds \ issued : unpaid[l] = 0
  /\ PledgedWithinLimit

-----------------------------------------------------------------------------
(* Sets of loans. *)

LEMMA LoansAreFinite ==
  ASSUME NEW S \in SUBSET LoanIds
  PROVE  IsFiniteSet(S) /\ Cardinality(S) \in Nat
  <1>1. IsFiniteSet(LoanIds)
    BY LendingAssumption, FS_Union DEF LoanIds
  <1>2. QED
    BY <1>1, FS_Subset, FS_CardinalityType

\* A part of a set of loans has no more of them.
LEMMA FewerLoans ==
  ASSUME NEW S \in SUBSET LoanIds, NEW T \in SUBSET S
  PROVE  Cardinality(T) <= Cardinality(S)
  BY LoansAreFinite, FS_Subset

-----------------------------------------------------------------------------
(* One request's step, as the others see it. *)

Spares(q) ==
  /\ pc'[q] = pc[q] /\ job'[q] = job[q]
  /\ \A r \in Rows : owner[r] = q => owner'[r] = q

LEMMA OthersKeep ==
  ASSUME TypeOK, NEW p \in Requests, NEW q \in Requests, q # p, Step(p)
  PROVE  Spares(q)
  <1> USE DEF committed, TypeOK, Spares
  <1>0. None # q
    BY LendingAssumption
  <1>1. CASE Apply(p) \/ Approve(p) \/ Reject(p) \/ Disburse(p)
    BY <1>1 DEF Apply, Approve, Reject, Disburse, Begin, Goto
  <1>2. CASE \/ InsertLoan(p) \/ CommitLoan(p) \/ Decide(p) \/ InsertInstallments(p)
             \/ Settle(p)
    BY <1>2 DEF InsertLoan, CommitLoan, Decide, InsertInstallments, Settle, Goto
  <1>3. CASE FindLoan(p) \/ FindPeriod(p) \/ Activate(p) \/ Pay(p)
    BY <1>0, <1>3 DEF FindLoan, FindPeriod, Activate, Pay, Lock, Goto
  <1>4. ASSUME NEW o, Finish(p, o) PROVE Spares(q)
    BY <1>4 DEF Finish, Unlocked, Goto
  <1>5. CASE CommitDecision(p) \/ CommitDisbursement(p) \/ Fail(p) \/ Crash(p)
    BY <1>4, <1>5 DEF CommitDecision, CommitDisbursement, Fail, Crash
  <1>6. QED
    BY <1>1, <1>2, <1>3, <1>5 DEF Step, Progress

\* What a step of p does to the committed state, if anything.
Commits(p) ==
  \/ CommitLoan(p) \/ Settle(p) \/ CommitDecision(p) \/ CommitDisbursement(p)

LEMMA OnlyCommitsCommit ==
  ASSUME NEW p \in Requests, Step(p)
  PROVE  Commits(p) \/ UNCHANGED committed
  BY DEF Commits, Step, Progress, Apply, Approve, Reject, Disburse, Begin, InsertLoan,
         FindLoan, FindPeriod, Decide, Activate, InsertInstallments, Pay, Fail, Crash

LEMMA FinishForgets ==
  ASSUME TypeOK, NEW p \in Requests, NEW o, Finish(p, o)
  PROVE  pc'[p] = o /\ job'[p] = Application(p)
  BY DEF Finish, Goto, TypeOK, Application

-----------------------------------------------------------------------------
(* Types. *)

LEMMA InitTypes == Init => TypeOK
  BY LendingAssumption DEF Init, TypeOK, LoanIds, Kinds, Rows

LEMMA TypesKept == LendingInv /\ [Next]_vars => TypeOK'
  <1> SUFFICES ASSUME LendingInv, [Next]_vars PROVE TypeOK'
    OBVIOUS
  <1> TypeOK
    BY DEF LendingInv
  <1>1. CASE UNCHANGED vars
    BY <1>1 DEF TypeOK, vars, committed
  <1>2. ASSUME NEW p \in Requests, Step(p) PROVE TypeOK'
    <2> USE DEF committed
    <2> p \in LoanIds
      BY DEF LoanIds
    <2>1. CASE Apply(p) \/ Approve(p) \/ Reject(p) \/ Disburse(p)
      BY <2>1 DEF Apply, Approve, Reject, Disburse, Begin, Goto, TypeOK, Kinds
    <2>2. CASE \/ InsertLoan(p) \/ CommitLoan(p) \/ Decide(p) \/ InsertInstallments(p)
      BY <2>2 DEF InsertLoan, CommitLoan, Decide, InsertInstallments, Goto, TypeOK
    <2>3. CASE FindLoan(p) \/ FindPeriod(p) \/ Activate(p) \/ Pay(p)
      BY <2>3 DEF FindLoan, FindPeriod, Activate, Pay, Lock, Goto, TypeOK
    <2>4. CASE Settle(p)
      BY <2>4, LendingAssumption DEF Settle, Outstanding, Goto, TypeOK
    <2>5. ASSUME NEW o \in {"committed", "rolledBack"}, Finish(p, o)
          PROVE  /\ owner' \in [Rows -> Requests \cup {None}]
                 /\ pc' \in [Requests -> {"idle", "insert", "reference", "find",
                      "findPeriod", "decide", "activate", "insertInstallments", "pay",
                      "commit", "committed", "rolledBack"}]
                 /\ job' \in [Requests -> [kind : Kinds, loan : LoanIds]]
      BY <2>5 DEF Finish, Unlocked, Goto, TypeOK, Kinds
    <2>6. Target(p) \in LoanIds
      BY DEF Target, TypeOK
    <2>7. CASE CommitDecision(p)
      <3>1. StatusAfter(p) \in {"approved", "rejected"}
        BY <2>7 DEF CommitDecision, LendingInv, JobFits, StatusAfter
      <3>2. QED
        BY <2>5, <2>6, <2>7, <3>1 DEF CommitDecision, TypeOK
    <2>8. CASE CommitDisbursement(p)
      <3>1. StatusAfter(p) = "active"
        BY <2>8 DEF CommitDisbursement, StatusAfter
      <3>2. QED
        BY <2>5, <2>6, <2>8, <3>1, LendingAssumption DEF CommitDisbursement, TypeOK
    <2>9. CASE Fail(p) \/ Crash(p)
      BY <2>5, <2>9 DEF Fail, Crash, TypeOK
    <2>10. QED
      BY <1>2, <2>1, <2>2, <2>3, <2>4, <2>7, <2>8, <2>9 DEF Step, Progress
  <1>3. QED
    BY <1>1, <1>2 DEF Next, Quiet

-----------------------------------------------------------------------------
(* How a loan's status moves: only from a state, and under a lock, that the *)
(* invariant knows.                                                         *)

Files(p, l) == CommitLoan(p) /\ l = p /\ status[l] = "none" /\ status'[l] = "pending"

Decides(p, l) ==
  /\ CommitDecision(p) /\ l = Target(p) /\ owner[l] = p
  /\ status[l] = "pending" /\ status'[l] = StatusAfter(p)
  /\ \/ job[p].kind = "approve" /\ StatusAfter(p) = "approved"
     \/ job[p].kind = "reject" /\ StatusAfter(p) = "rejected"

PaysOut(p, l) ==
  /\ CommitDisbursement(p) /\ l = Target(p) /\ owner[l] = p /\ owner["balances"] = p
  /\ status[l] = "approved" /\ status'[l] = "active"

LEMMA DecisionsFit ==
  ASSUME LendingInv, NEW p \in Requests, CommitDecision(p)
  PROVE  Target(p) \in LoanIds /\ Decides(p, Target(p))
  <1>1. pc[p] = "commit" /\ job[p].kind \in {"approve", "reject"}
    BY DEF CommitDecision, LendingInv, JobFits
  <1>2. Target(p) \in LoanIds /\ DOMAIN status = LoanIds
    BY DEF LendingInv, TypeOK, Target
  <1>3. status[Target(p)] = "pending" /\ owner[Target(p)] = p
    BY <1>1 DEF LendingInv, LoanFits, LocksHeld
  <1>4. \/ job[p].kind = "approve" /\ StatusAfter(p) = "approved"
        \/ job[p].kind = "reject" /\ StatusAfter(p) = "rejected"
    BY <1>1 DEF StatusAfter
  <1>5. status' = [status EXCEPT ![Target(p)] = StatusAfter(p)]
    BY DEF CommitDecision
  <1>6. QED
    BY <1>2, <1>3, <1>4, <1>5 DEF Decides

LEMMA PaymentsFit ==
  ASSUME LendingInv, NEW p \in Requests, CommitDisbursement(p)
  PROVE  /\ Target(p) \in LoanIds /\ PaysOut(p, Target(p))
         /\ capital >= Disbursed
  <1>1. pc[p] = "commit" /\ job[p].kind = "disburse"
    BY DEF CommitDisbursement
  <1>2. Target(p) \in LoanIds /\ DOMAIN status = LoanIds
    BY DEF LendingInv, TypeOK, Target
  <1>3. /\ status[Target(p)] = "approved" /\ owner[Target(p)] = p
        /\ owner["balances"] = p /\ capital >= Disbursed
    BY <1>1 DEF LendingInv, LoanFits, LocksHeld
  <1>4. status' = [status EXCEPT ![Target(p)] = "active"]
    BY <1>1 DEF CommitDisbursement, StatusAfter
  <1>5. QED
    BY <1>2, <1>3, <1>4 DEF PaysOut

LEMMA FilingsFit ==
  ASSUME LendingInv, NEW p \in Requests, CommitLoan(p)
  PROVE  p \in LoanIds /\ Files(p, p)
  BY DEF LoanIds, LendingInv, LoanFits, TypeOK, CommitLoan, Files

LEMMA StatusMoves ==
  ASSUME LendingInv, NEW p \in Requests, Step(p), NEW l \in LoanIds
  PROVE  status'[l] = status[l] \/ Files(p, l) \/ Decides(p, l) \/ PaysOut(p, l)
  <1> TypeOK
    BY DEF LendingInv
  <1>1. CASE UNCHANGED committed
    BY <1>1 DEF committed
  <1>2. CASE Settle(p)
    BY <1>2 DEF Settle
  <1>3. CASE CommitLoan(p)
    <2>1. CASE l = p
      BY <1>3, <2>1, FilingsFit
    <2>2. CASE l # p
      BY <1>3, <2>2 DEF CommitLoan, TypeOK
    <2>3. QED
      BY <2>1, <2>2
  <1>4. CASE CommitDecision(p)
    <2>1. CASE l = Target(p)
      BY <1>4, <2>1, DecisionsFit
    <2>2. CASE l # Target(p)
      BY <1>4, <2>2 DEF CommitDecision, TypeOK
    <2>3. QED
      BY <2>1, <2>2
  <1>5. CASE CommitDisbursement(p)
    <2>1. CASE l = Target(p)
      BY <1>5, <2>1, PaymentsFit
    <2>2. CASE l # Target(p)
      BY <1>5, <2>2 DEF CommitDisbursement, TypeOK
    <2>3. QED
      BY <2>1, <2>2
  <1>6. QED
    BY <1>1, <1>2, <1>3, <1>4, <1>5, OnlyCommitsCommit DEF Commits

-----------------------------------------------------------------------------
(* What a request has checked stays true while others work. *)

LEMMA CapitalStays ==
  ASSUME LendingInv, NEW p \in Requests, Step(p)
  PROVE  capital' >= capital \/ PaysOut(p, Target(p))
  <1>1. capital \in Int
    BY DEF LendingInv, TypeOK
  <1>2. CASE UNCHANGED committed \/ CommitLoan(p) \/ CommitDecision(p)
    BY <1>1, <1>2 DEF committed, CommitLoan, CommitDecision
  <1>3. CASE Settle(p)
    BY <1>1, <1>3, LendingAssumption DEF Settle
  <1>4. CASE CommitDisbursement(p)
    BY <1>4, PaymentsFit
  <1>5. QED
    BY <1>2, <1>3, <1>4, OnlyCommitsCommit DEF Commits

LEMMA OthersFit ==
  ASSUME LendingInv, NEW p \in Requests, NEW q \in Requests, q # p, Step(p)
  PROVE  (JobFits(q) /\ LoanFits(q) /\ LocksHeld(q))'
  <1>1. TypeOK /\ JobFits(q) /\ LoanFits(q) /\ LocksHeld(q)
    BY DEF LendingInv
  <1>2. pc'[q] = pc[q] /\ job'[q] = job[q]
    BY <1>1, OthersKeep DEF Spares
  <1>3. \A r \in Rows : owner[r] = q => owner'[r] = q
    BY <1>1, OthersKeep DEF Spares
  <1>4. Target(q) \in LoanIds /\ Target(q) \in Rows /\ q \in LoanIds /\ "balances" \in Rows
    BY <1>1 DEF TypeOK, Target, Rows, LoanIds
  <1>5. Target(q)' = Target(q)
    BY <1>2 DEF Target
  <1>6. JobFits(q)'
    BY <1>1, <1>2 DEF JobFits, Application
  <1>7. LoanFits(q)'
    <2>1. pc[q] \in {"idle", "insert", "reference"} => status'[q] = "none"
      BY <1>1, <1>4, StatusMoves DEF LoanFits, Files, Decides, PaysOut
    <2>2. job[q].kind = "disburse" => status'[Target(q)] \in {"approved", "active"}
      BY <1>1, <1>4, StatusMoves DEF LoanFits, Files, Decides, PaysOut
    <2>3. job[q].kind = "disburse" /\ pc[q] \in {"pay", "commit"}
          => status'[Target(q)] = "approved"
      BY <1>1, <1>4, StatusMoves DEF LoanFits, LocksHeld, Files, Decides, PaysOut
    <2>4. job[q].kind \in {"approve", "reject"} /\ pc[q] = "commit"
          => status'[Target(q)] = "pending"
      BY <1>1, <1>4, StatusMoves DEF LoanFits, LocksHeld, Files, Decides, PaysOut
    <2>5. QED
      BY <1>2, <1>5, <2>1, <2>2, <2>3, <2>4 DEF LoanFits
  <1>8. LocksHeld(q)'
    <2>1. pc[q] \in {"findPeriod", "decide", "insertInstallments", "pay", "commit"}
          => owner'[Target(q)] = q
      BY <1>1, <1>3, <1>4 DEF LocksHeld
    <2>2. pc[q] = "commit" /\ job[q].kind = "disburse" => owner'["balances"] = q
      BY <1>1, <1>3, <1>4 DEF LocksHeld
    <2>3. ASSUME pc[q] = "commit", job[q].kind = "disburse" PROVE capital' >= Disbursed
      <3>1. owner["balances"] = q /\ capital >= Disbursed
        BY <1>1, <2>3 DEF LocksHeld
      <3>2. ~PaysOut(p, Target(p))
        BY <3>1 DEF PaysOut
      <3>3. capital \in Int /\ capital' \in Int
        BY TypesKept DEF LendingInv, TypeOK, Next
      <3>4. QED
        BY <3>1, <3>2, <3>3, CapitalStays, LendingAssumption
    <2>4. QED
      BY <1>2, <1>5, <2>1, <2>2, <2>3 DEF LocksHeld
  <1>9. QED
    BY <1>6, <1>7, <1>8

LEMMA OwnFits ==
  ASSUME LendingInv, NEW p \in Requests, Step(p)
  PROVE  (JobFits(p) /\ LoanFits(p) /\ LocksHeld(p))'
  <1> DEFINE Fits == (JobFits(p) /\ LoanFits(p) /\ LocksHeld(p))'
  <1> USE DEF committed
  <1>1. TypeOK /\ JobFits(p) /\ LoanFits(p) /\ LocksHeld(p) /\ DisbursedOnce
    BY DEF LendingInv
  <1>2. Target(p) \in LoanIds /\ Target(p) \in Rows /\ "balances" \in Rows /\ p # None
    BY <1>1, LendingAssumption DEF TypeOK, Target, Rows
  <1>3. ASSUME Apply(p) \/ Approve(p) \/ Reject(p) \/ Disburse(p) PROVE Fits
    <2>1. pc[p] = "idle" /\ status' = status
      BY <1>3 DEF Apply, Approve, Reject, Disburse, Begin
    <2>2. CASE Apply(p)
      <3>1. pc'[p] = "insert" /\ job'[p] = Application(p)
        BY <1>1, <2>2 DEF Apply, Begin, Goto, TypeOK, Application
      <3>2. status'[p] = "none"
        BY <1>1, <2>1 DEF LoanFits
      <3>3. job'[p].kind = "apply"
        BY <3>1 DEF Application
      <3>4. QED
        BY <3>1, <3>2, <3>3 DEF JobFits, LoanFits, LocksHeld, Application
    <2>3. CASE Approve(p) \/ Reject(p)
      <3>1. pc'[p] = "find" /\ job'[p].kind \in {"approve", "reject"}
        BY <1>1, <2>3 DEF Approve, Reject, Begin, Goto, TypeOK
      <3>2. QED
        BY <3>1 DEF JobFits, LoanFits, LocksHeld
    <2>4. CASE Disburse(p)
      <3>1. PICK l \in LoanIds : status[l] = "approved" /\ Begin(p, "disburse", l, "activate")
        BY <2>4 DEF Disburse
      <3>2. pc'[p] = "activate" /\ job'[p].kind = "disburse" /\ job'[p].loan = l
        BY <1>1, <3>1 DEF Begin, Goto, TypeOK
      <3>3. QED
        BY <2>1, <3>1, <3>2 DEF JobFits, LoanFits, LocksHeld, Target
    <2>5. QED
      BY <1>3, <2>2, <2>3, <2>4
  <1>4. ASSUME NEW o \in {"committed", "rolledBack"}, pc'[p] = o, job'[p] = Application(p)
        PROVE  Fits
    BY <1>4 DEF JobFits, LoanFits, LocksHeld, Application
  <1>5. ASSUME CommitLoan(p) \/ Settle(p) PROVE Fits
    <2>1. pc'[p] = "committed" /\ job'[p] = Application(p)
      BY <1>1, <1>5 DEF CommitLoan, Settle, Goto, TypeOK, JobFits
    <2>2. QED
      BY <1>4, <2>1
  <1>6. ASSUME CommitDecision(p) \/ CommitDisbursement(p) \/ Fail(p) \/ Crash(p) PROVE Fits
    <2>1. PICK o \in {"committed", "rolledBack"} : Finish(p, o)
      BY <1>6 DEF CommitDecision, CommitDisbursement, Fail, Crash
    <2>2. QED
      BY <1>1, <1>4, <2>1, FinishForgets
  <1>7. ASSUME InsertLoan(p) PROVE Fits
    <2>1. pc'[p] = "reference" /\ job' = job /\ status' = status /\ pc[p] = "insert"
      BY <1>1, <1>7 DEF InsertLoan, Goto, TypeOK
    <2>2. job[p] = Application(p) /\ status[p] = "none"
      BY <1>1, <2>1 DEF JobFits, LoanFits
    <2>3. QED
      BY <2>1, <2>2 DEF JobFits, LoanFits, LocksHeld, Application
  <1>8. ASSUME FindLoan(p) \/ FindPeriod(p) PROVE Fits
    <2>1. /\ pc'[p] \in {"findPeriod", "decide"} /\ job' = job
          /\ job[p].kind \in {"approve", "reject"}
      BY <1>1, <1>8 DEF FindLoan, FindPeriod, Goto, TypeOK, JobFits
    <2>2. owner'[Target(p)] = p
      BY <1>1, <1>2, <1>8 DEF FindLoan, FindPeriod, Lock, TypeOK, LocksHeld
    <2>3. QED
      BY <2>1, <2>2 DEF JobFits, LoanFits, LocksHeld, Target
  <1>9. ASSUME Decide(p) PROVE Fits
    <2>1. /\ pc'[p] = "commit" /\ job' = job /\ owner' = owner /\ status' = status
          /\ pc[p] = "decide" /\ status[Target(p)] = "pending"
      BY <1>1, <1>9 DEF Decide, Goto, TypeOK, Undecided
    <2>2. job[p].kind \in {"approve", "reject"} /\ owner[Target(p)] = p
      BY <1>1, <2>1 DEF JobFits, LocksHeld
    <2>3. QED
      BY <2>1, <2>2 DEF JobFits, LoanFits, LocksHeld, Target
  <1>10. ASSUME Activate(p) PROVE Fits
    <2>1. /\ pc'[p] = "insertInstallments" /\ job' = job /\ status' = status
          /\ pc[p] = "activate" /\ owner'[Target(p)] = p
      BY <1>1, <1>2, <1>10 DEF Activate, Lock, Goto, TypeOK
    <2>2. job[p].kind = "disburse" /\ status[Target(p)] \in {"approved", "active"}
      BY <1>1, <2>1 DEF JobFits, LoanFits
    <2>3. QED
      BY <2>1, <2>2 DEF JobFits, LoanFits, LocksHeld, Target
  <1>11. ASSUME InsertInstallments(p) PROVE Fits
    <2>1. /\ pc'[p] = "pay" /\ job' = job /\ status' = status /\ owner' = owner
          /\ pc[p] = "insertInstallments" /\ Target(p) \notin issued
      BY <1>1, <1>11 DEF InsertInstallments, InstallmentsNew, Goto, TypeOK
    <2>2. job[p].kind = "disburse" /\ owner[Target(p)] = p
      BY <1>1, <2>1 DEF JobFits, LocksHeld
    <2>3. status[Target(p)] = "approved"
      BY <1>1, <1>2, <2>1, <2>2 DEF LoanFits, DisbursedOnce
    <2>4. QED
      BY <2>1, <2>2, <2>3 DEF JobFits, LoanFits, LocksHeld, Target
  <1>12. ASSUME Pay(p) PROVE Fits
    <2>1. /\ pc'[p] = "commit" /\ job' = job /\ status' = status /\ capital' = capital
          /\ pc[p] = "pay" /\ owner'["balances"] = p /\ capital >= Disbursed
      BY <1>1, <1>2, <1>12 DEF Pay, Lock, Goto, TypeOK
    <2>2. /\ job[p].kind = "disburse" /\ owner[Target(p)] = p
          /\ status[Target(p)] = "approved"
      BY <1>1, <2>1 DEF JobFits, LocksHeld, LoanFits
    <2>3. owner'[Target(p)] = p
      BY <1>1, <1>2, <1>12, <2>2 DEF Pay, Lock, TypeOK
    <2>4. QED
      BY <2>1, <2>2, <2>3 DEF JobFits, LoanFits, LocksHeld, Target
  <1>13. QED
    BY <1>3, <1>5, <1>6, <1>7, <1>8, <1>9, <1>10, <1>11, <1>12 DEF Step, Progress

-----------------------------------------------------------------------------
(* A loan has installments exactly when it is active. *)

IssuedOnce == DisbursedOnce /\ \A l \in LoanIds \ issued : unpaid[l] = 0

LEMMA IssuedOnceKept ==
  ASSUME LendingInv, NEW p \in Requests, Step(p)
  PROVE  IssuedOnce'
  <1>1. TypeOK /\ IssuedOnce
    BY DEF LendingInv, IssuedOnce
  <1>2. CASE UNCHANGED committed
    BY <1>1, <1>2 DEF committed, IssuedOnce, DisbursedOnce
  <1>3. CASE CommitLoan(p)
    <2>1. \A l \in LoanIds : status'[l] = "active" <=> status[l] = "active"
      <3>1. status[p] = "none" /\ status'[p] = "pending"
        BY <1>3, FilingsFit DEF Files
      <3>2. \A l \in LoanIds \ {p} : status'[l] = status[l]
        BY <1>1, <1>3 DEF CommitLoan, TypeOK
      <3>3. QED
        BY <3>1, <3>2
    <2>2. QED
      BY <1>1, <1>3, <2>1 DEF CommitLoan, IssuedOnce, DisbursedOnce
  <1>4. CASE CommitDecision(p)
    <2>1. \A l \in LoanIds : status'[l] = "active" <=> status[l] = "active"
      <3>1. status[Target(p)] = "pending" /\ status'[Target(p)] \in {"approved", "rejected"}
        BY <1>4, DecisionsFit DEF Decides
      <3>2. \A l \in LoanIds \ {Target(p)} : status'[l] = status[l]
        BY <1>1, <1>4 DEF CommitDecision, TypeOK
      <3>3. QED
        BY <3>1, <3>2
    <2>2. QED
      BY <1>1, <1>4, <2>1 DEF CommitDecision, IssuedOnce, DisbursedOnce
  <1>5. CASE CommitDisbursement(p)
    <2> DEFINE t == Target(p)
    <2>1. t \in LoanIds /\ status[t] = "approved" /\ status'[t] = "active"
      BY <1>5, PaymentsFit DEF PaysOut
    <2>2. \A l \in LoanIds \ {t} : status'[l] = status[l] /\ unpaid'[l] = unpaid[l]
      BY <1>1, <1>5 DEF CommitDisbursement, TypeOK
    <2>3. unpaid[t] = 0
      BY <1>1, <2>1 DEF IssuedOnce, DisbursedOnce
    <2>4. unpaid'[t] = Tenor
      BY <1>1, <1>5, <2>1, <2>3, LendingAssumption DEF CommitDisbursement, TypeOK
    <2>5. issued' = issued \cup {t}
      BY <1>5 DEF CommitDisbursement
    <2>6. issued' = {l \in LoanIds : status'[l] = "active"}
      BY <1>1, <2>1, <2>2, <2>5 DEF IssuedOnce, DisbursedOnce
    <2>7. \A l \in LoanIds : unpaid'[l] <= Tenor
      <3>1. \A l \in LoanIds : unpaid[l] <= Tenor
        BY <1>1 DEF IssuedOnce, DisbursedOnce
      <3>2. \A l \in LoanIds \ {t} : unpaid'[l] <= Tenor
        BY <2>2, <3>1
      <3>3. unpaid'[t] <= Tenor
        BY <2>4, LendingAssumption
      <3>4. QED
        BY <3>2, <3>3
    <2>8. \A l \in LoanIds \ issued' : unpaid'[l] = 0
      BY <1>1, <2>2, <2>5 DEF IssuedOnce
    <2>9. QED
      BY <2>6, <2>7, <2>8 DEF IssuedOnce, DisbursedOnce
  <1>6. CASE Settle(p)
    <2>1. PICK l \in LoanIds : unpaid[l] > 0 /\ unpaid' = [unpaid EXCEPT ![l] = @ - 1]
      BY <1>6 DEF Settle, Outstanding
    <2>2. l \in issued
      BY <1>1, <2>1 DEF IssuedOnce
    <2>3. unpaid'[l] = unpaid[l] - 1 /\ \A k \in LoanIds \ {l} : unpaid'[k] = unpaid[k]
      BY <1>1, <2>1 DEF TypeOK
    <2>4. \A k \in LoanIds : unpaid'[k] <= Tenor
      <3>1. \A k \in LoanIds : unpaid[k] \in Nat /\ unpaid[k] <= Tenor
        BY <1>1 DEF TypeOK, IssuedOnce, DisbursedOnce
      <3>2. QED
        BY <2>3, <3>1, LendingAssumption
    <2>5. issued' = issued /\ status' = status
      BY <1>6 DEF Settle
    <2>6. QED
      BY <1>1, <2>2, <2>3, <2>4, <2>5 DEF IssuedOnce, DisbursedOnce
  <1>7. QED
    BY <1>2, <1>3, <1>4, <1>5, <1>6, OnlyCommitsCommit DEF Commits

-----------------------------------------------------------------------------
(* The loans granted or about to be are within the limit.  Only a decision  *)
(* to approve adds one, and the trigger has counted the others: a granted   *)
(* loan is open, and one about to be granted is still pending.              *)

LEMMA ApprovalsStem ==
  ASSUME LendingInv, NEW p \in Requests, Step(p), NEW q \in Requests, NEW l \in LoanIds,
         Approving(q, l)'
  PROVE  \/ Approving(q, l)
         \/ q = p /\ Decide(p) /\ job[p].kind = "approve" /\ Target(p) = l
  <1>1. TypeOK
    BY DEF LendingInv
  <1>2. pc'[q] = "commit" /\ job'[q].kind = "approve" /\ job'[q].loan = l
    BY DEF Approving, Target
  <1>3. CASE q # p
    BY <1>1, <1>2, <1>3, OthersKeep DEF Spares, Approving, Target
  <1>4. CASE q = p
    <2> USE DEF committed
    <2>1. CASE Decide(p)
      BY <1>2, <1>4, <2>1 DEF Decide, Target
    <2>2. CASE Pay(p)
      <3>1. job[p].kind = "disburse" /\ job' = job
        BY <2>2 DEF Pay, LendingInv, JobFits
      <3>2. QED
        BY <1>2, <1>4, <3>1
    <2>3. CASE \/ Apply(p) \/ Approve(p) \/ Reject(p) \/ Disburse(p) \/ InsertLoan(p)
               \/ CommitLoan(p) \/ FindLoan(p) \/ FindPeriod(p) \/ Activate(p)
               \/ InsertInstallments(p) \/ Settle(p)
      BY <1>1, <1>2, <1>4, <2>3
         DEF Apply, Approve, Reject, Disburse, Begin, InsertLoan, CommitLoan, FindLoan,
             FindPeriod, Activate, InsertInstallments, Settle, Goto, TypeOK
    <2>4. CASE CommitDecision(p) \/ CommitDisbursement(p) \/ Fail(p) \/ Crash(p)
      <3>1. PICK o \in {"committed", "rolledBack"} : Finish(p, o)
        BY <2>4 DEF CommitDecision, CommitDisbursement, Fail, Crash
      <3>2. pc'[p] = o
        BY <1>1, <3>1, FinishForgets
      <3>3. QED
        BY <1>2, <1>4, <3>2
    <2>5. QED
      BY <2>1, <2>2, <2>3, <2>4 DEF Step, Progress
  <1>5. QED
    BY <1>3, <1>4

LEMMA PledgesStem ==
  ASSUME LendingInv, NEW p \in Requests, Step(p), NEW m, NEW l \in Pledged(m)'
  PROVE  /\ l \in LoanIds /\ MemberOf[l] = m
         /\ \/ l \in Pledged(m)
            \/ Decide(p) /\ job[p].kind = "approve" /\ Target(p) = l
  <1>1. /\ l \in LoanIds /\ MemberOf[l] = m
        /\ status'[l] \in {"approved", "active"} \/ \E q \in Requests : Approving(q, l)'
    BY DEF Pledged
  <1>2. CASE status'[l] \in {"approved", "active"}
    <2>1. CASE status'[l] = status[l]
      BY <1>1, <1>2, <2>1 DEF Pledged
    <2>2. CASE Files(p, l)
      BY <1>2, <2>2 DEF Files
    <2>3. CASE Decides(p, l)
      <3>1. Approving(p, l)
        BY <1>2, <2>3 DEF Decides, CommitDecision, Approving
      <3>2. QED
        BY <1>1, <3>1 DEF Pledged
    <2>4. CASE PaysOut(p, l)
      BY <1>1, <2>4 DEF PaysOut, Pledged
    <2>5. QED
      BY <1>1, <2>1, <2>2, <2>3, <2>4, StatusMoves
  <1>3. CASE \E q \in Requests : Approving(q, l)'
    <2>1. PICK q \in Requests : Approving(q, l)'
      BY <1>3
    <2>2. CASE Approving(q, l)
      BY <1>1, <2>2 DEF Pledged
    <2>3. QED
      BY <1>1, <2>1, <2>2, ApprovalsStem
  <1>4. QED
    BY <1>1, <1>2, <1>3

\* What is pledged of a member's loans, but one, is open.
LEMMA PledgedAreOpen ==
  ASSUME LendingInv, NEW l \in LoanIds
  PROVE  Pledged(MemberOf[l]) \ {l} \subseteq Others(l)
  <1> SUFFICES ASSUME NEW k \in Pledged(MemberOf[l]), k # l PROVE k \in Others(l)
    OBVIOUS
  <1>1. k \in LoanIds /\ MemberOf[k] = MemberOf[l]
    BY DEF Pledged
  <1>2. status[k] \in {"pending", "approved", "active"}
    BY DEF Pledged, LendingInv, LoanFits, Approving
  <1>3. QED
    BY <1>1, <1>2 DEF Others, Open

LEMMA PledgedWithinLimitKept ==
  ASSUME LendingInv, NEW p \in Requests, Step(p)
  PROVE  PledgedWithinLimit'
  <1> SUFFICES ASSUME NEW l \in LoanIds
               PROVE  Cardinality(Pledged(MemberOf[l])') <= MaxLoans
    BY DEF PledgedWithinLimit
  <1> DEFINE m == MemberOf[l]
             t == Target(p)
  <1>1. /\ Pledged(m) \in SUBSET LoanIds /\ Pledged(m)' \in SUBSET LoanIds
        /\ Cardinality(Pledged(m)) <= MaxLoans /\ MaxLoans \in Nat
    BY LendingAssumption DEF Pledged, LendingInv, PledgedWithinLimit
  <1>2. CASE Pledged(m)' \subseteq Pledged(m)
    <2>1. Cardinality(Pledged(m)') <= Cardinality(Pledged(m))
      BY <1>1, <1>2, FewerLoans
    <2>2. Cardinality(Pledged(m)) \in Nat /\ Cardinality(Pledged(m)') \in Nat
      BY <1>1, LoansAreFinite
    <2>3. QED
      BY <1>1, <2>1, <2>2
  <1>3. CASE ~(Pledged(m)' \subseteq Pledged(m))
    <2>1. /\ Decide(p) /\ job[p].kind = "approve" /\ t \in LoanIds /\ MemberOf[t] = m
          /\ Pledged(m)' \subseteq Pledged(m) \cup {t}
      BY <1>3, PledgesStem
    <2>2. Cardinality(Others(t)) < MaxLoans
      BY <2>1 DEF Decide, WithinLimit
    <2>3. Pledged(m)' \ {t} \subseteq Others(t)
      BY <2>1, PledgedAreOpen
    <2>4. Others(t) \in SUBSET LoanIds
      BY DEF Others, Open
    <2>5. Cardinality(Pledged(m)' \ {t}) <= Cardinality(Others(t))
      BY <2>3, <2>4, FewerLoans
    <2>6. IsFiniteSet(Pledged(m)')
      BY <1>1, LoansAreFinite
    <2>7. Cardinality(Pledged(m)') <= Cardinality(Pledged(m)' \ {t}) + 1
      <3>1. Cardinality(Pledged(m)') \in Nat /\ Cardinality(Pledged(m)' \ {t}) \in Nat
        BY <1>1, LoansAreFinite
      <3>2. Cardinality(Pledged(m)' \ {t}) = IF t \in Pledged(m)'
                                            THEN Cardinality(Pledged(m)') - 1
                                            ELSE Cardinality(Pledged(m)')
        BY <2>6, FS_RemoveElement
      <3>3. QED
        BY <3>1, <3>2
    <2>8. /\ Cardinality(Pledged(m)') \in Nat /\ Cardinality(Pledged(m)' \ {t}) \in Nat
          /\ Cardinality(Others(t)) \in Nat
      BY <1>1, <2>4, LoansAreFinite
    <2>9. QED
      BY <1>1, <2>2, <2>5, <2>7, <2>8
  <1>4. QED
    BY <1>2, <1>3

-----------------------------------------------------------------------------
(* The invariant. *)

LEMMA InitInv == Init => LendingInv
  <1> SUFFICES ASSUME Init PROVE LendingInv
    OBVIOUS
  <1>1. TypeOK
    BY InitTypes
  <1>2. \A p \in Requests : p \in LoanIds /\ p \notin Approved /\ p \notin Existing
    BY LendingAssumption DEF LoanIds
  <1>3. ASSUME NEW p \in Requests PROVE JobFits(p) /\ LoanFits(p) /\ LocksHeld(p)
    <2>1. pc[p] = "idle" /\ job[p] = Application(p) /\ status[p] = "none"
      BY <1>2 DEF Init, Application
    <2>2. QED
      BY <2>1 DEF JobFits, LoanFits, LocksHeld, Application
  <1>4. \A l \in LoanIds : status[l] # "active" /\ unpaid[l] = 0
    BY DEF Init
  <1>5. DisbursedOnce
    BY <1>4, LendingAssumption DEF Init, DisbursedOnce
  <1>6. PledgedWithinLimit
    <2> SUFFICES ASSUME NEW l \in LoanIds
                 PROVE  Cardinality(Pledged(MemberOf[l])) <= MaxLoans
      BY DEF PledgedWithinLimit
    <2>1. Pledged(MemberOf[l]) = {k \in Approved : MemberOf[k] = MemberOf[l]}
      <3>1. \A k \in LoanIds : status[k] \in {"approved", "active"} <=> k \in Approved
        BY DEF Init
      <3>2. \A p \in Requests, k \in LoanIds : ~Approving(p, k)
        BY DEF Init, Approving
      <3>3. Approved \subseteq LoanIds
        BY LendingAssumption DEF LoanIds
      <3>4. QED
        BY <3>1, <3>2, <3>3 DEF Pledged
    <2>2. CASE Pledged(MemberOf[l]) = {}
      BY <2>2, FS_EmptySet, LendingAssumption
    <2>3. CASE Pledged(MemberOf[l]) # {}
      <3>1. PICK k \in Approved : MemberOf[k] = MemberOf[l]
        BY <2>1, <2>3
      <3>2. Cardinality({j \in Approved : MemberOf[j] = MemberOf[k]}) <= MaxLoans
        BY LendingAssumption
      <3>3. QED
        BY <2>1, <3>1, <3>2
    <2>4. QED
      BY <2>2, <2>3
  <1>7. QED
    BY <1>1, <1>3, <1>4, <1>5, <1>6 DEF LendingInv

LEMMA InvKept == LendingInv /\ [Next]_vars => LendingInv'
  <1> SUFFICES ASSUME LendingInv, [Next]_vars PROVE LendingInv'
    OBVIOUS
  <1>1. CASE UNCHANGED vars
    BY <1>1 DEF vars, committed, LendingInv, TypeOK, JobFits, LoanFits, LocksHeld, Target,
                Application, DisbursedOnce, PledgedWithinLimit, Pledged, Approving
  <1>2. ASSUME NEW p \in Requests, Step(p) PROVE LendingInv'
    <2>1. TypeOK'
      BY TypesKept
    <2>2. \A q \in Requests : (JobFits(q) /\ LoanFits(q) /\ LocksHeld(q))'
      BY <1>2, OwnFits, OthersFit
    <2>3. IssuedOnce'
      BY <1>2, IssuedOnceKept
    <2>4. PledgedWithinLimit'
      BY <1>2, PledgedWithinLimitKept
    <2>5. QED
      BY <2>1, <2>2, <2>3, <2>4 DEF LendingInv, IssuedOnce
  <1>3. QED
    BY <1>1, <1>2 DEF Next, Quiet

\* The invariant holds in every reachable state.
THEOREM Invariance == Spec => []LendingInv
  BY InitInv, InvKept, PTL DEF Spec

-----------------------------------------------------------------------------
(* What follows from it. *)

\* Every variable keeps its type, however many requests and loans there are.
THEOREM TypesHold == Spec => []TypeOK
  <1>1. LendingInv => TypeOK
    BY DEF LendingInv
  <1>2. QED
    BY <1>1, Invariance, PTL

\* No member is ever granted more loans than the limit, although two applications
\* can pass the trigger together: approving meets it again, and two approvals of a
\* member's loans count each other's loan, pending or approved.
THEOREM NeverGrantedTooMany == Spec => []GrantedWithinLimit
  <1>1. LendingInv => GrantedWithinLimit
    <2> SUFFICES ASSUME LendingInv, NEW l \in LoanIds
                 PROVE  Cardinality(Granted(MemberOf[l])) <= MaxLoans
      BY DEF GrantedWithinLimit
    <2> DEFINE m == MemberOf[l]
    <2>1. Granted(m) \subseteq Pledged(m)
      BY DEF Granted, Pledged
    <2>2. Pledged(m) \in SUBSET LoanIds /\ Granted(m) \in SUBSET LoanIds
      BY DEF Pledged, Granted
    <2>3. Cardinality(Granted(m)) <= Cardinality(Pledged(m))
      BY <2>1, <2>2, FewerLoans
    <2>4. Cardinality(Granted(m)) \in Nat /\ Cardinality(Pledged(m)) \in Nat
      BY <2>2, LoansAreFinite
    <2>5. Cardinality(Pledged(m)) <= MaxLoans /\ MaxLoans \in Nat
      BY LendingAssumption DEF LendingInv, PledgedWithinLimit
    <2>6. QED
      BY <2>3, <2>4, <2>5
  <1>2. QED
    BY <1>1, Invariance, PTL

\* A loan's installments are issued once, with its money, although disburseLoan
\* checks a status it has read without a lock.
THEOREM AlwaysDisbursedOnce == Spec => []DisbursedOnce
  <1>1. LendingInv => DisbursedOnce
    BY DEF LendingInv
  <1>2. QED
    BY <1>1, Invariance, PTL

-----------------------------------------------------------------------------
(* Every step is a step of LoanOffice, or none. *)

\* LoanOffice counts as Lending does.
LEMMA SameCardinality == \A S : Promise!Cardinality(S) = Cardinality(S)
  BY DEF Promise!Cardinality, Cardinality

LEMMA InitRefines == Init => Promise!OfficeInit
  BY DEF Init, Promise!OfficeInit

LEMMA StepRefines ==
  ASSUME LendingInv, [Next]_vars
  PROVE  [Promise!OfficeNext]_(Promise!officeVars)
  <1> USE DEF Promise!officeVars
  <1> TypeOK
    BY DEF LendingInv
  <1>1. CASE UNCHANGED vars \/ Quiet
    BY <1>1 DEF vars, committed, Quiet
  <1>2. ASSUME NEW p \in Requests, Step(p)
        PROVE  Promise!OfficeNext \/ UNCHANGED committed
    <2>1. CASE CommitLoan(p)
      <3>1. Promise!Apply(p)
        BY <2>1, FilingsFit DEF CommitLoan, Files, Promise!Apply, Promise!Becomes
      <3>2. QED
        BY <2>1, <3>1, FilingsFit DEF Promise!OfficeNext
    <2>2. CASE CommitDecision(p)
      <3> DEFINE t == Target(p)
      <3>1. t \in LoanIds /\ Decides(p, t)
        BY <2>2, DecisionsFit
      <3>2. /\ status[t] = "pending" /\ status' = [status EXCEPT ![t] = StatusAfter(p)]
            /\ UNCHANGED <<unpaid, capital>>
        BY <2>2, <3>1 DEF CommitDecision, Decides
      <3>3. CASE job[p].kind = "reject" /\ StatusAfter(p) = "rejected"
        <4>1. Promise!Reject(t)
          BY <3>2, <3>3 DEF Promise!Reject, Promise!Becomes
        <4>2. QED
          BY <3>1, <4>1 DEF Promise!OfficeNext
      <3>4. CASE job[p].kind = "approve" /\ StatusAfter(p) = "approved"
        <4> DEFINE m == MemberOf[t]
        <4>1. t \in Pledged(m)
          BY <2>2, <3>1, <3>4 DEF CommitDecision, Pledged, Approving
        <4>2. Promise!GrantedTo(m) \subseteq Pledged(m) \ {t}
          BY <3>2 DEF Promise!GrantedTo, Pledged
        <4>3. Pledged(m) \in SUBSET LoanIds
          BY DEF Pledged
        <4>4. Pledged(m) \ {t} \in SUBSET LoanIds
          BY <4>3
        <4>5. Cardinality(Promise!GrantedTo(m)) <= Cardinality(Pledged(m) \ {t})
          BY <4>2, <4>4, FewerLoans
        <4>6. Cardinality(Pledged(m) \ {t}) = Cardinality(Pledged(m)) - 1
          BY <4>1, <4>3, LoansAreFinite, FS_RemoveElement
        <4>7. Cardinality(Pledged(m)) <= MaxLoans /\ MaxLoans \in Nat
          BY <3>1, LendingAssumption DEF LendingInv, PledgedWithinLimit
        <4>8. /\ Cardinality(Pledged(m)) \in Nat /\ Cardinality(Pledged(m) \ {t}) \in Nat
              /\ Cardinality(Promise!GrantedTo(m)) \in Nat
          BY <4>2, <4>3, <4>4, LoansAreFinite
        <4>9. Cardinality(Promise!GrantedTo(m)) < MaxLoans
          BY <4>5, <4>6, <4>7, <4>8
        <4>10. Promise!Approve(t)
          <5>1. Promise!Becomes(t, "pending", "approved")
            BY <3>2, <3>4 DEF Promise!Becomes
          <5>2. QED
            BY <3>2, <4>9, <5>1, SameCardinality DEF Promise!Approve
        <4>11. QED
          BY <3>1, <4>10 DEF Promise!OfficeNext
      <3>5. QED
        BY <3>1, <3>3, <3>4 DEF Decides
    <2>3. CASE CommitDisbursement(p)
      <3> DEFINE t == Target(p)
      <3>1. t \in LoanIds /\ PaysOut(p, t) /\ capital >= Disbursed
        BY <2>3, PaymentsFit
      <3>2. /\ status[t] = "approved" /\ status' = [status EXCEPT ![t] = "active"]
            /\ unpaid' = [unpaid EXCEPT ![t] = @ + Tenor] /\ capital' = capital - Disbursed
        BY <2>3, <3>1 DEF CommitDisbursement, PaysOut, StatusAfter
      <3>3. unpaid[t] = 0
        BY <3>1, <3>2 DEF LendingInv, DisbursedOnce
      <3>4. unpaid' = [unpaid EXCEPT ![t] = Tenor]
        <4>1. unpaid[t] + Tenor = Tenor
          BY <3>3, LendingAssumption
        <4>2. QED
          BY <3>2, <4>1
      <3>5. Promise!Disburse(t)
        BY <3>1, <3>2, <3>4 DEF Promise!Disburse, Promise!Becomes
      <3>6. QED
        BY <3>1, <3>5 DEF Promise!OfficeNext
    <2>4. CASE Settle(p)
      <3>1. PICK l \in LoanIds : unpaid[l] > 0 /\ unpaid' = [unpaid EXCEPT ![l] = @ - 1]
        BY <2>4 DEF Settle, Outstanding
      <3>2. Promise!Repay(l)
        BY <2>4, <3>1 DEF Settle, Promise!Repay
      <3>3. QED
        BY <3>1, <3>2 DEF Promise!OfficeNext
    <2>5. QED
      BY <1>2, <2>1, <2>2, <2>3, <2>4, OnlyCommitsCommit DEF Commits
  <1>3. QED
    BY <1>1, <1>2 DEF Next, committed

\* Interleaved as they may be, the requests' transactions behave like the one-step
\* operations of LoanOffice.
THEOREM RequestsImplementLoanOffice == Spec => ImplementsLoanOffice
  <1>1. LendingInv /\ [Next]_vars => [Promise!OfficeNext]_(Promise!officeVars)
    BY StepRefines
  <1>2. QED
    BY <1>1, InitRefines, Invariance, PTL DEF Spec, ImplementsLoanOffice, Promise!OfficeSpec

=============================================================================
