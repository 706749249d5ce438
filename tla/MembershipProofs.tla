-------------------------- MODULE MembershipProofs --------------------------
(***************************************************************************)
(* Theorems about Membership, for every set of requests and members and    *)
(* every opening.  The handlers look at the status before they lock the    *)
(* user's row and never again; what saves them is that the row is locked   *)
(* before the deposit is read, that nobody else changes a deposit without  *)
(* the lock, and that no status is ever left for an earlier one.           *)
(* MembershipInv says so for each request at each of its statements; what  *)
(* a share is computed from is followed by ShareInv.                       *)
(* Password resets take nothing from this, and ResetInv says what becomes  *)
(* of their links.                                                         *)
(***************************************************************************)
EXTENDS PasswordReset, FiniteSetTheorems, TLAPS

Verifying == {"readTotal", "countMembers", "insertDeposit"}
Approving == {"readDeposit", "book"}

\* The statements behind the update of the user.
Locked == Verifying \cup Approving \cup {"commit"}

Before == {"none", "pending"}

\* Request p runs the statements of its operation and holds the user's row.
InPlace(p) ==
  /\ pc[p] \in Verifying => job[p].kind = "verify"
  /\ pc[p] \in Approving => job[p].kind = "approve"
  /\ pc[p] \in {"updateUser", "commit"} => job[p].kind \in {"verify", "approve", "reject"}
  /\ pc[p] \in Locked => owner[Target(p)] = p

\* What p has found out about its user is still so.
UpToDate(p) ==
  /\ pc[p] \in Locked \cup {"updateUser"} =>
       /\ status[Target(p)] # "none"
       /\ job[p].kind # "verify" => status[Target(p)] \notin Before
  /\ pc[p] = "commit" /\ job[p].kind = "verify" => deposit[Target(p)] = "none"
  /\ pc[p] \in {"book", "commit"} /\ job[p].kind = "approve" => deposit[Target(p)] = "due"
  /\ pc[p] = "commit" /\ job[p].kind = "approve" => amount[Target(p)] > 0

RequestInv(p) == InPlace(p) /\ UpToDate(p)

MembershipInv == TypeOK /\ StagesAgree /\ \A p \in Requests : RequestInv(p)

-----------------------------------------------------------------------------
(* Types. *)

LEMMA ShareIsNat ==
  ASSUME NEW money \in Nat, NEW members \in Nat
  PROVE  Share(money, members) \in Nat
  <1>1. CASE members = 0
    BY <1>1, MembershipAssumption DEF Share
  <1>2. CASE members # 0
    BY <1>2 DEF Share
  <1>3. QED
    BY <1>1, <1>2

LEMMA ActiveIsFinite ==
  ASSUME NEW p \in Requests
  PROVE  Cardinality(ActiveFor(p)) \in Nat
  <1>1. IsFiniteSet(ActiveFor(p))
    BY MembershipAssumption, FS_Subset DEF ActiveFor
  <1>2. QED
    BY <1>1, FS_CardinalityType

LEMMA TargetFits ==
  ASSUME TypeOK, NEW p \in Requests
  PROVE  Target(p) \in Members /\ Target(p) \in Rows /\ Target(p) # "total" /\ job[p].share \in Nat
  BY MembershipAssumption DEF TypeOK, Target, Rows

LEMMA IdleFits == Idle \in [kind : Kinds, member : Members, share : Nat]
  <1>1. (CHOOSE u \in Members : TRUE) \in Members
    BY MembershipAssumption
  <1>2. QED
    BY <1>1 DEF Idle, Kinds

LEMMA InitTypes == Init => TypeOK
  BY MembershipAssumption, IdleFits DEF Init, TypeOK, Rows

Jobs == [kind : Kinds, member : Members, share : Nat]

LEMMA BeginTypes ==
  ASSUME TypeOK, NEW p \in Requests, NEW kind \in Kinds, NEW expected,
         NEW first \in {"insertUser", "updateCode", "updateUser"}, Begin(p, kind, expected, first)
  PROVE  TypeOK'
  <1>1. job' \in [Requests -> Jobs]
    BY DEF Begin, TypeOK, Jobs
  <1>2. QED
    BY <1>1 DEF Begin, Goto, TypeOK, committed, Jobs

LEMMA FinishTypes ==
  ASSUME TypeOK, NEW p \in Requests, NEW o \in {"committed", "rolledBack"}, Finish(p, o)
  PROVE  /\ owner' \in [Rows -> Requests \cup {None}]
         /\ pc' \in [Requests -> {"idle", "insertUser", "updateCode", "updateUser", "readTotal",
                                  "countMembers", "insertDeposit", "readDeposit", "book",
                                  "commit", "committed", "rolledBack"}]
         /\ job' \in [Requests -> Jobs]
  BY IdleFits DEF Finish, Goto, Unlocked, TypeOK, Jobs

LEMMA StepTypes ==
  ASSUME TypeOK, NEW p \in Requests, InPlace(p), Step(p)
  PROVE  TypeOK'
  <1> USE DEF committed
  <1>0. Target(p) \in Members /\ Target(p) \in Rows /\ job[p].share \in Nat
    BY TargetFits
  <1>1. CASE Register(p) \/ Issue(p) \/ Verify(p) \/ Approve(p) \/ Reject(p)
    BY <1>1, BeginTypes DEF Register, Issue, Verify, Approve, Reject, Kinds
  <1>2. CASE InsertUser(p)
    BY <1>2 DEF InsertUser, Goto, TypeOK
  <1>3. CASE UpdateCode(p)
    BY <1>3 DEF UpdateCode, Goto, TypeOK
  <1>4. CASE UpdateUser(p)
    <2>1. NextStatement(p) \in {"readTotal", "readDeposit", "commit"}
      BY <1>4 DEF UpdateUser, NextStatement, InPlace
    <2>2. QED
      BY <1>0, <1>4, <2>1 DEF UpdateUser, Goto, Lock, TypeOK
  <1>5. CASE ReadTotal(p)
    BY <1>5 DEF ReadTotal, Goto, Lock, TypeOK, Rows
  <1>6. CASE CountMembers(p)
    <2>1. Share(job[p].share, Cardinality(ActiveFor(p))) \in Nat
      BY <1>0, ActiveIsFinite, ShareIsNat
    <2>2. job' = [job EXCEPT ![p].share = Share(job[p].share, Cardinality(ActiveFor(p)))]
      BY <1>6 DEF CountMembers, TypeOK
    <2>3. QED
      BY <1>6, <2>1, <2>2 DEF CountMembers, Goto, TypeOK
  <1>7. CASE InsertDeposit(p) \/ ReadDeposit(p)
    BY <1>7 DEF InsertDeposit, ReadDeposit, Goto, TypeOK
  <1>8. CASE Book(p)
    BY <1>8 DEF Book, Goto, Lock, TypeOK, Rows
  <1>9. CASE CommitVerification(p)
    BY <1>0, <1>9, FinishTypes DEF CommitVerification, StatusAfter, TypeOK, Jobs
  <1>10. CASE CommitApproval(p)
    BY <1>0, <1>10, FinishTypes DEF CommitApproval, StatusAfter, TypeOK, Jobs
  <1>11. CASE CommitRejection(p)
    BY <1>0, <1>11, FinishTypes DEF CommitRejection, StatusAfter, TypeOK, Jobs
  <1>12. CASE Fail(p) \/ Crash(p)
    BY <1>12, FinishTypes DEF Fail, Crash, TypeOK, Jobs
  <1>13. QED
    BY <1>1, <1>2, <1>3, <1>4, <1>5, <1>6, <1>7, <1>8, <1>9, <1>10, <1>11, <1>12
       DEF Step, Progress

-----------------------------------------------------------------------------
(* What p's step changes. *)

\* The ends of p's transaction that leave something behind.
Commits(p) == CommitVerification(p) \/ CommitApproval(p) \/ CommitRejection(p)

\* A committing request holds its user's row; only it changes deposits.
LEMMA DepositsChange ==
  ASSUME TypeOK, NEW p \in Requests, InPlace(p), Step(p)
  PROVE  \/ UNCHANGED <<deposit, amount>>
         \/ /\ owner[Target(p)] = p
            /\ \A u \in Members \ {Target(p)} : deposit'[u] = deposit[u] /\ amount'[u] = amount[u]
  <1> USE DEF committed
  <1>1. CASE Commits(p)
    <2>1. pc[p] = "commit"
      BY <1>1 DEF Commits, CommitVerification, CommitApproval, CommitRejection
    <2>2. owner[Target(p)] = p
      BY <2>1 DEF InPlace, Locked
    <2>3. ASSUME NEW u \in Members, u # Target(p)
          PROVE  deposit'[u] = deposit[u] /\ amount'[u] = amount[u]
      BY <1>1, <2>3 DEF Commits, CommitVerification, CommitApproval, CommitRejection, TypeOK
    <2>4. QED
      BY <2>2, <2>3
  <1>2. CASE ~Commits(p)
    BY <1>2 DEF Step, Progress, Register, Issue, Verify, Approve, Reject, Begin, InsertUser,
                UpdateCode, UpdateUser, ReadTotal, CountMembers, InsertDeposit, ReadDeposit,
                Book, Fail, Crash, Commits
  <1>3. QED
    BY <1>1, <1>2

\* Nobody falls back to an earlier stage.
LEMMA StatusAdvances ==
  ASSUME TypeOK, NEW p \in Requests, InPlace(p), Step(p), NEW u \in Members
  PROVE  /\ status[u] # "none" => status'[u] # "none"
         /\ status[u] \notin Before => status'[u] \notin Before
  <1> USE DEF committed, Before
  <1>1. CASE Commits(p)
    <2>1. StatusAfter(p) \notin Before
      BY <1>1 DEF Commits, CommitVerification, CommitApproval, CommitRejection, StatusAfter
    <2>2. status' = [status EXCEPT ![Target(p)] = StatusAfter(p)]
      BY <1>1 DEF Commits, CommitVerification, CommitApproval, CommitRejection
    <2>3. QED
      BY <2>1, <2>2 DEF TypeOK
  <1>2. CASE InsertUser(p)
    BY <1>2 DEF InsertUser, NewAccount, TypeOK
  <1>3. CASE ~Commits(p) /\ ~InsertUser(p)
    BY <1>3 DEF Step, Progress, Register, Issue, Verify, Approve, Reject, Begin,
                UpdateCode, UpdateUser, ReadTotal, CountMembers, InsertDeposit, ReadDeposit,
                Book, Fail, Crash, Commits
  <1>4. QED
    BY <1>1, <1>2, <1>3

\* What p's step leaves to q.
Spares(q) ==
  /\ pc'[q] = pc[q] /\ job'[q] = job[q]
  /\ \A r \in Rows : owner[r] = q => owner'[r] = q

LEMMA OthersKeep ==
  ASSUME TypeOK, NEW p \in Requests, NEW q \in Requests, q # p, Step(p)
  PROVE  Spares(q)
  <1> USE DEF committed, Spares
  <1>0. None # q
    BY MembershipAssumption
  <1>1. CASE Register(p) \/ Issue(p) \/ Verify(p) \/ Approve(p) \/ Reject(p)
    <2>1. PICK kind, expected, first : Begin(p, kind, expected, first)
      BY <1>1 DEF Register, Issue, Verify, Approve, Reject
    <2>2. QED
      BY <2>1 DEF Begin, Goto, TypeOK
  <1>2. CASE InsertUser(p) \/ UpdateCode(p) \/ CountMembers(p) \/ InsertDeposit(p) \/ ReadDeposit(p)
    BY <1>2 DEF InsertUser, UpdateCode, CountMembers, InsertDeposit, ReadDeposit, Goto, TypeOK
  <1>3. CASE UpdateUser(p) \/ Book(p)
    BY <1>0, <1>3 DEF UpdateUser, Book, Lock, Goto, TypeOK
  <1>4. CASE ReadTotal(p)
    BY <1>0, <1>4 DEF ReadTotal, Lock, Goto, TypeOK
  <1>5. CASE \E o : Finish(p, o)
    BY <1>0, <1>5 DEF Finish, Unlocked, Goto, TypeOK
  <1>6. CASE Commits(p) \/ Fail(p) \/ Crash(p)
    BY <1>5, <1>6 DEF Commits, CommitVerification, CommitApproval, CommitRejection, Fail, Crash
  <1>7. QED
    BY <1>1, <1>2, <1>3, <1>4, <1>6 DEF Step, Progress, Commits

LEMMA OthersInv ==
  ASSUME MembershipInv, NEW p \in Requests, NEW q \in Requests, q # p, Step(p)
  PROVE  RequestInv(q)'
  <1>1. TypeOK /\ InPlace(p) /\ InPlace(q) /\ UpToDate(q)
    BY DEF MembershipInv, RequestInv
  <1>2. Spares(q) /\ Target(q)' = Target(q) /\ Target(q) \in Members /\ Target(q) \in Rows
    BY <1>1, OthersKeep, TargetFits DEF Spares, Target
  <1>3. InPlace(q)'
    BY <1>1, <1>2 DEF InPlace, Spares
  <1>4. /\ status[Target(q)] # "none" => status'[Target(q)] # "none"
        /\ status[Target(q)] \notin Before => status'[Target(q)] \notin Before
    BY <1>1, <1>2, StatusAdvances
  <1>5. pc[q] \in Locked => deposit'[Target(q)] = deposit[Target(q)]
                            /\ amount'[Target(q)] = amount[Target(q)]
    <2>1. SUFFICES ASSUME pc[q] \in Locked
                   PROVE  deposit'[Target(q)] = deposit[Target(q)]
                          /\ amount'[Target(q)] = amount[Target(q)]
      OBVIOUS
    <2>2. owner[Target(q)] = q
      BY <1>1, <2>1 DEF InPlace
    <2>3. QED
      BY <1>1, <1>2, <2>2, DepositsChange
  <1>6. UpToDate(q)'
    <2>1. pc'[q] = pc[q] /\ job'[q] = job[q]
      BY <1>2 DEF Spares
    <2>2. QED
      BY <1>1, <1>2, <1>4, <1>5, <2>1 DEF UpToDate, Locked, Approving
  <1>7. QED
    BY <1>3, <1>6 DEF RequestInv

-----------------------------------------------------------------------------
(* One's own statements. *)

LEMMA FinishInv ==
  ASSUME TypeOK, NEW p \in Requests, NEW o \in {"committed", "rolledBack"}, Finish(p, o)
  PROVE  RequestInv(p)'
  <1>1. pc'[p] = o
    BY DEF Finish, Goto, TypeOK
  <1>2. QED
    BY <1>1 DEF RequestInv, InPlace, UpToDate, Locked, Verifying, Approving

LEMMA BeginInv ==
  ASSUME TypeOK, NEW p \in Requests, NEW kind \in {"verify", "approve", "reject"}, NEW expected,
         Begin(p, kind, expected, "updateUser"), "none" \notin expected,
         kind # "verify" => expected \cap Before = {}
  PROVE  RequestInv(p)'
  <1>1. PICK u \in Members :
          /\ status[u] \in expected
          /\ job' = [job EXCEPT ![p] = [kind |-> kind, member |-> u, share |-> 0]]
    BY DEF Begin
  <1>2. /\ pc'[p] = "updateUser" /\ status' = status
        /\ job'[p].kind = kind /\ job'[p].member = u
    BY <1>1 DEF Begin, Goto, TypeOK, committed
  <1>3. InPlace(p)'
    BY <1>2 DEF InPlace, Locked, Verifying, Approving
  <1>4. UpToDate(p)'
    BY <1>1, <1>2 DEF UpToDate, Target, Locked, Verifying, Approving
  <1>5. QED
    BY <1>3, <1>4 DEF RequestInv

LEMMA OwnInv ==
  ASSUME MembershipInv, NEW p \in Requests, Step(p)
  PROVE  RequestInv(p)'
  <1> USE DEF committed, Locked, Verifying, Approving
  <1>1. TypeOK /\ InPlace(p) /\ UpToDate(p)
    BY DEF MembershipInv, RequestInv
  <1>2. Target(p) \in Members /\ Target(p) \in Rows /\ Target(p) # "total"
    BY <1>1, TargetFits
  <1>3. CASE Register(p) \/ Issue(p)
    <2>1. pc'[p] \in {"insertUser", "updateCode"}
      BY <1>1, <1>3 DEF Register, Issue, Begin, Goto, TypeOK
    <2>2. QED
      BY <2>1 DEF RequestInv, InPlace, UpToDate
  <1>4. CASE Verify(p) \/ Approve(p) \/ Reject(p)
    BY <1>1, <1>4, BeginInv DEF Verify, Approve, Reject, Before
  <1>5. CASE InsertUser(p) \/ UpdateCode(p)
    <2>1. pc'[p] = "committed"
      BY <1>1, <1>5 DEF InsertUser, UpdateCode, Goto, TypeOK
    <2>2. QED
      BY <2>1 DEF RequestInv, InPlace, UpToDate
  <1>6. CASE UpdateUser(p)
    <2>1. /\ pc[p] = "updateUser" /\ pc'[p] = NextStatement(p)
          /\ owner'[Target(p)] = p /\ job' = job
          /\ status' = status /\ deposit' = deposit /\ amount' = amount
      BY <1>1, <1>2, <1>6 DEF UpdateUser, Lock, Goto, TypeOK
    <2>2. \/ job[p].kind = "verify" /\ pc'[p] = "readTotal"
          \/ job[p].kind = "approve" /\ pc'[p] = "readDeposit"
          \/ job[p].kind = "reject" /\ pc'[p] = "commit"
      BY <1>1, <2>1 DEF NextStatement, InPlace
    <2>3. InPlace(p)'
      BY <2>1, <2>2 DEF InPlace, Target
    <2>4. UpToDate(p)'
      BY <1>1, <2>1, <2>2 DEF UpToDate, Target
    <2>5. QED
      BY <2>3, <2>4 DEF RequestInv
  <1>7. CASE ReadTotal(p) \/ CountMembers(p)
    <2>1. /\ pc[p] \in {"readTotal", "countMembers"} /\ pc'[p] \in {"countMembers", "insertDeposit"}
          /\ job'[p].kind = job[p].kind /\ job'[p].member = job[p].member
          /\ status' = status
      BY <1>1, <1>7 DEF ReadTotal, CountMembers, Goto, TypeOK
    <2>2. owner'[Target(p)] = p
      BY <1>1, <1>2, <1>7, <2>1 DEF ReadTotal, CountMembers, Lock, InPlace, TypeOK
    <2>3. InPlace(p)'
      BY <1>1, <2>1, <2>2 DEF InPlace, Target
    <2>4. UpToDate(p)'
      BY <1>1, <2>1 DEF UpToDate, Target
    <2>5. QED
      BY <2>3, <2>4 DEF RequestInv
  <1>8. CASE InsertDeposit(p) \/ ReadDeposit(p)
    <2>1. /\ job' = job /\ owner' = owner
          /\ status' = status /\ deposit' = deposit /\ amount' = amount
          /\ \/ pc[p] = "insertDeposit" /\ pc'[p] = "commit" /\ deposit[Target(p)] = "none"
             \/ pc[p] = "readDeposit" /\ pc'[p] = "book" /\ deposit[Target(p)] = "due"
      BY <1>1, <1>8 DEF InsertDeposit, ReadDeposit, DepositNew, Unpaid, Goto, TypeOK
    <2>2. InPlace(p)'
      BY <1>1, <2>1 DEF InPlace, Target
    <2>3. UpToDate(p)'
      BY <1>1, <2>1 DEF UpToDate, InPlace, Target
    <2>4. QED
      BY <2>2, <2>3 DEF RequestInv
  <1>9. CASE Book(p)
    <2>1. /\ pc[p] = "book" /\ pc'[p] = "commit" /\ job' = job
          /\ status' = status /\ deposit' = deposit /\ amount' = amount
          /\ amount[Target(p)] > 0
      BY <1>1, <1>9 DEF Book, Bookable, Goto, TypeOK
    <2>2. owner'[Target(p)] = p
      BY <1>1, <1>2, <1>9, <2>1 DEF Book, Lock, InPlace, TypeOK
    <2>3. InPlace(p)'
      BY <1>1, <2>1, <2>2 DEF InPlace, Target
    <2>4. UpToDate(p)'
      BY <1>1, <2>1 DEF UpToDate, InPlace, Target
    <2>5. QED
      BY <2>3, <2>4 DEF RequestInv
  <1>10. CASE Commits(p) \/ Fail(p) \/ Crash(p)
    BY <1>1, <1>10, FinishInv DEF Commits, CommitVerification, CommitApproval, CommitRejection,
                                  Fail, Crash
  <1>11. QED
    BY <1>3, <1>4, <1>5, <1>6, <1>7, <1>8, <1>9, <1>10 DEF Step, Progress, Commits

-----------------------------------------------------------------------------
(* The invariant. *)

\* What each end finds.
LEMMA CommitsFind ==
  ASSUME MembershipInv, NEW p \in Requests
  PROVE  /\ CommitVerification(p) => /\ job[p].kind = "verify" /\ deposit[Target(p)] = "none"
                                     /\ status[Target(p)] = "pending"
         /\ CommitApproval(p) => /\ job[p].kind = "approve" /\ deposit[Target(p)] = "due"
                                 /\ status[Target(p)] \in {"waiting_deposit", "rejected"}
                                 /\ amount[Target(p)] > 0
         /\ CommitRejection(p) =>
              /\ job[p].kind = "reject"
              /\ status[Target(p)] \in {"waiting_deposit", "active", "rejected"}
  <1>1. TypeOK /\ UpToDate(p) /\ StagesAgree /\ Target(p) \in Members
    BY TargetFits DEF MembershipInv, RequestInv
  <1>2. status[Target(p)] \in {"none", "pending", "waiting_deposit", "active", "rejected"}
    BY <1>1 DEF TypeOK
  <1>3. CASE CommitVerification(p)
    BY <1>1, <1>2, <1>3 DEF CommitVerification, CommitApproval, CommitRejection, UpToDate, Locked,
                            StagesAgree
  <1>4. CASE CommitApproval(p)
    BY <1>1, <1>2, <1>4 DEF CommitVerification, CommitApproval, CommitRejection, UpToDate, Locked,
                            StagesAgree, Before
  <1>5. CASE CommitRejection(p)
    BY <1>1, <1>2, <1>5 DEF CommitVerification, CommitApproval, CommitRejection, UpToDate, Locked,
                            Before
  <1>6. QED
    BY <1>3, <1>4, <1>5

\* The four parts of StagesAgree, for one person.
StagesOf(u) ==
  /\ deposit[u] = "none" <=> status[u] \in {"none", "pending"}
  /\ status[u] = "active" => deposit[u] = "paid"
  /\ deposit[u] = "paid" => status[u] \in {"active", "rejected"}
  /\ status[u] = "pending" => code[u]

LEMMA StagesKept ==
  ASSUME MembershipInv, NEW p \in Requests, Step(p), NEW u \in Members
  PROVE  StagesOf(u)'
  <1> USE DEF committed
  <1>1. TypeOK /\ StagesOf(u) /\ Target(p) \in Members
    BY TargetFits DEF MembershipInv, StagesAgree, StagesOf
  <1>2. CASE InsertUser(p)
    <2>1. status[Target(p)] = "none" /\ deposit' = deposit
      BY <1>2 DEF InsertUser, NewAccount
    <2>2. CASE u = Target(p)
      <3>1. status'[u] = "pending" /\ code'[u]
        BY <1>1, <1>2, <2>2 DEF InsertUser, TypeOK
      <3>2. QED
        BY <1>1, <2>1, <2>2, <3>1 DEF StagesOf
    <2>3. CASE u # Target(p)
      <3>1. status'[u] = status[u] /\ code'[u] = code[u]
        BY <1>1, <1>2, <2>3 DEF InsertUser, TypeOK
      <3>2. QED
        BY <1>1, <2>1, <3>1 DEF StagesOf
    <2>4. QED
      BY <2>2, <2>3
  <1>3. CASE UpdateCode(p)
    <2>1. status' = status /\ deposit' = deposit /\ (code[u] => code'[u])
      BY <1>1, <1>3 DEF UpdateCode, TypeOK
    <2>2. QED
      BY <1>1, <2>1 DEF StagesOf
  <1>4. CASE Commits(p) /\ u # Target(p)
    <2>1. status'[u] = status[u] /\ deposit'[u] = deposit[u] /\ code'[u] = code[u]
      BY <1>1, <1>4 DEF Commits, CommitVerification, CommitApproval, CommitRejection, TypeOK
    <2>2. QED
      BY <1>1, <2>1 DEF StagesOf
  <1>5. CASE CommitVerification(p) /\ u = Target(p)
    <2>1. status'[u] = "waiting_deposit" /\ deposit'[u] = "due"
      BY <1>1, <1>5 DEF CommitVerification, StatusAfter, TypeOK
    <2>2. QED
      BY <2>1 DEF StagesOf
  <1>6. CASE CommitApproval(p) /\ u = Target(p)
    <2>1. status'[u] = "active" /\ deposit'[u] = "paid"
      BY <1>1, <1>6 DEF CommitApproval, StatusAfter, TypeOK
    <2>2. QED
      BY <2>1 DEF StagesOf
  <1>7. CASE CommitRejection(p) /\ u = Target(p)
    <2>1. status'[u] = "rejected" /\ deposit'[u] = deposit[u]
      BY <1>1, <1>7 DEF CommitRejection, StatusAfter, TypeOK
    <2>2. status[u] \in {"waiting_deposit", "active", "rejected"}
      BY <1>7, CommitsFind
    <2>3. QED
      BY <1>1, <2>1, <2>2 DEF StagesOf
  <1>8. CASE ~Commits(p) /\ ~InsertUser(p) /\ ~UpdateCode(p)
    <2>1. status' = status /\ deposit' = deposit /\ code' = code
      BY <1>8 DEF Step, Progress, Register, Issue, Verify, Approve, Reject, Begin, UpdateUser,
                  ReadTotal, CountMembers, InsertDeposit, ReadDeposit, Book, Fail, Crash, Commits
    <2>2. QED
      BY <1>1, <2>1 DEF StagesOf
  <1>9. QED
    BY <1>2, <1>3, <1>4, <1>5, <1>6, <1>7, <1>8 DEF Commits

LEMMA InitInv == Init => MembershipInv
  <1> SUFFICES ASSUME Init PROVE MembershipInv
    OBVIOUS
  <1>1. TypeOK
    BY InitTypes
  <1>2. ASSUME NEW p \in Requests PROVE RequestInv(p)
    <2>1. pc[p] = "idle"
      BY DEF Init
    <2>2. QED
      BY <2>1 DEF RequestInv, InPlace, UpToDate, Locked, Verifying, Approving
  <1>3. ASSUME NEW u \in Members PROVE StagesOf(u)
    <2>1. /\ status[u] \in {"none", "pending", "waiting_deposit", "active"}
          /\ code[u] <=> status[u] = "pending"
          /\ deposit[u] = CASE status[u] = "active"          -> "paid"
                            [] status[u] = "waiting_deposit" -> "due"
                            [] OTHER                         -> "none"
      BY MembershipAssumption DEF Init
    <2>2. QED
      BY <2>1 DEF StagesOf
  <1>4. QED
    BY <1>1, <1>2, <1>3 DEF MembershipInv, StagesAgree, StagesOf

LEMMA InvKept == MembershipInv /\ [Next]_vars => MembershipInv'
  <1> SUFFICES ASSUME MembershipInv, [Next]_vars PROVE MembershipInv'
    OBVIOUS
  <1>1. ASSUME NEW p \in Requests, Step(p) PROVE MembershipInv'
    <2>1. TypeOK'
      BY <1>1, StepTypes DEF MembershipInv, RequestInv
    <2>2. \A q \in Requests : RequestInv(q)'
      BY <1>1, OwnInv, OthersInv
    <2>3. StagesAgree'
      BY <1>1, StagesKept DEF StagesAgree, StagesOf
    <2>4. QED
      BY <2>1, <2>2, <2>3 DEF MembershipInv
  <1>2. CASE Spend \/ UNCHANGED vars
    <2>1. /\ status' = status /\ code' = code /\ deposit' = deposit /\ amount' = amount
          /\ owner' = owner /\ pc' = pc /\ job' = job
      BY <1>2 DEF Spend, vars, committed
    <2>2. total' \in Nat
      BY <1>2, MembershipAssumption DEF Spend, MembershipInv, TypeOK, vars, committed
    <2>3. TypeOK' /\ StagesAgree'
      BY <2>1, <2>2 DEF MembershipInv, TypeOK, StagesAgree
    <2>4. ASSUME NEW q \in Requests PROVE RequestInv(q)'
      <3>1. RequestInv(q)
        BY DEF MembershipInv
      <3>2. QED
        BY <2>1, <3>1 DEF RequestInv, InPlace, UpToDate, Target
    <2>5. QED
      BY <2>3, <2>4 DEF MembershipInv
  <1>3. QED
    BY <1>1, <1>2 DEF Next, Quiet

\* The invariant holds in every reachable state.
THEOREM Invariance == Spec => []MembershipInv
  BY InitInv, InvKept, PTL DEF Spec

-----------------------------------------------------------------------------
(* What follows from it. *)

\* Every variable keeps its type.
THEOREM TypesHold == Spec => []TypeOK
  <1>1. MembershipInv => TypeOK
    BY DEF MembershipInv
  <1>2. QED
    BY <1>1, Invariance, PTL

\* The account and the deposit always agree, however verifications, approvals and
\* rejections of the same person overlap.
THEOREM StagesAlwaysAgree == Spec => []StagesAgree
  <1>1. MembershipInv => StagesAgree
    BY DEF MembershipInv
  <1>2. QED
    BY <1>1, Invariance, PTL

-----------------------------------------------------------------------------
(* Every step is a step of Roster, or none. *)

LEMMA InitRefines == Init => Promise!RosterInit
  <1> SUFFICES ASSUME Init PROVE Promise!RosterInit
    OBVIOUS
  <1>1. ASSUME NEW u \in Members
        PROVE  (CASE OpeningStatus[u] = "active"          -> "paid"
                  [] OpeningStatus[u] = "waiting_deposit" -> "due"
                  [] OTHER                                -> "none")
               = IF OpeningStatus[u] = "active" THEN "paid"
                 ELSE IF OpeningStatus[u] = "waiting_deposit" THEN "due" ELSE "none"
    OBVIOUS
  <1>2. QED
    BY <1>1 DEF Init, Promise!RosterInit

LEMMA StepRefines ==
  ASSUME MembershipInv, NEW p \in Requests, Step(p)
  PROVE  Promise!RosterNext \/ UNCHANGED Promise!rosterVars
  <1> USE DEF committed
  <1>1. TypeOK /\ Target(p) \in Members /\ job[p].share \in Nat
    BY TargetFits DEF MembershipInv
  <1>2. CASE InsertUser(p)
    <2>1. Promise!Register(Target(p))
      BY <1>2 DEF InsertUser, NewAccount, Promise!Register, Promise!Becomes
    <2>2. QED
      BY <1>1, <2>1 DEF Promise!RosterNext
  <1>3. CASE CommitVerification(p)
    <2>1. /\ status[Target(p)] = "pending"
          /\ status' = [status EXCEPT ![Target(p)] = "waiting_deposit"]
      BY <1>3, CommitsFind DEF CommitVerification, StatusAfter
    <2>2. amount'[Target(p)] = job[p].share /\ amount' = [amount EXCEPT ![Target(p)] = job[p].share]
      BY <1>1, <1>3 DEF CommitVerification, TypeOK
    <2>3. deposit' = [deposit EXCEPT ![Target(p)] = "due"] /\ total' = total
      BY <1>3 DEF CommitVerification
    <2>4. Promise!Verify(Target(p))
      BY <1>1, <2>1, <2>2, <2>3 DEF Promise!Verify, Promise!Becomes
    <2>5. QED
      BY <1>1, <2>4 DEF Promise!RosterNext
  <1>4. CASE CommitApproval(p)
    <2>1. status' = [status EXCEPT ![Target(p)] = "active"]
      BY <1>4, CommitsFind DEF CommitApproval, StatusAfter
    <2>2. Promise!Admit(Target(p))
      BY <1>4, <2>1, CommitsFind DEF CommitApproval, Promise!Admit, Promise!Becomes
    <2>3. QED
      BY <1>1, <2>2 DEF Promise!RosterNext
  <1>5. CASE CommitRejection(p)
    <2>1. status' = [status EXCEPT ![Target(p)] = "rejected"]
      BY <1>5, CommitsFind DEF CommitRejection, StatusAfter
    <2>2. Promise!Reject(Target(p))
      BY <1>5, <2>1, CommitsFind DEF CommitRejection, Promise!Reject, Promise!Becomes
    <2>3. QED
      BY <1>1, <2>2 DEF Promise!RosterNext
  <1>6. CASE ~Commits(p) /\ ~InsertUser(p)
    BY <1>6 DEF Step, Progress, Register, Issue, Verify, Approve, Reject, Begin, UpdateCode,
                UpdateUser, ReadTotal, CountMembers, InsertDeposit, ReadDeposit, Book, Fail,
                Crash, Commits, Promise!rosterVars
  <1>7. QED
    BY <1>2, <1>3, <1>4, <1>5, <1>6 DEF Commits

LEMMA NextRefines ==
  ASSUME MembershipInv, [Next]_vars
  PROVE  [Promise!RosterNext]_(Promise!rosterVars)
  <1>1. CASE Spend
    <2>1. total' \in 0..(total - 1)
      BY <1>1, MembershipAssumption DEF Spend, MembershipInv, TypeOK
    <2>2. QED
      BY <1>1, <2>1 DEF Spend, Promise!Spend, Promise!RosterNext
  <1>2. CASE UNCHANGED vars
    BY <1>2 DEF vars, committed, Promise!rosterVars
  <1>3. QED
    BY <1>1, <1>2, StepRefines DEF Next, Quiet

\* The requests behave like the one-step operations of Roster: one deposit is demanded
\* of a person, it is booked once, and only with the admission it pays for.
THEOREM RequestsImplementRoster == Spec => ImplementsRoster
  <1>1. MembershipInv /\ [Next]_vars => [Promise!RosterNext]_(Promise!rosterVars)
    BY NextRefines
  <1>2. QED
    BY <1>1, InitRefines, Invariance, PTL DEF Spec, ImplementsRoster, Promise!RosterSpec

-----------------------------------------------------------------------------
(* The share of a new deposit. *)

\* Whoever counts the members or books an income holds the total.
HoldsTotal(p) ==
  \/ pc[p] \in {"countMembers", "insertDeposit"}
  \/ pc[p] = "commit" /\ job[p].kind \in {"verify", "approve"}

\* The share is that of the total and of a count of members between those who are active
\* now and those who have paid.
Counted(p) ==
  \E A \in SUBSET Paid :
    Active \ {Target(p)} \subseteq A /\ job[p].share = Share(total, Cardinality(A))

ShareFits(p) ==
  /\ HoldsTotal(p) => owner["total"] = p
  /\ pc[p] = "countMembers" => job[p].share = total
  /\ pc[p] = "insertDeposit" => Counted(p)
  /\ pc[p] = "commit" /\ job[p].kind = "verify" => Counted(p)

ShareInv == MembershipInv /\ \A p \in Requests : ShareFits(p)

\* While q holds the total nobody pays, so that no member comes in.
LEMMA TotalStands ==
  ASSUME ShareInv, NEW p \in Requests, NEW q \in Requests, q # p, Step(p),
         owner["total"] = q
  PROVE  total' = total /\ Active' \subseteq Active /\ Paid \subseteq Paid'
  <1>1. TypeOK /\ MembershipInv /\ ShareFits(p) /\ Target(p) \in Members
    BY TargetFits DEF ShareInv, MembershipInv
  <1>2. CASE CommitApproval(p)
    BY <1>1, <1>2 DEF ShareFits, HoldsTotal, CommitApproval
  <1>3. CASE CommitVerification(p)
    <2>1. /\ status' = [status EXCEPT ![Target(p)] = "waiting_deposit"]
          /\ deposit' = [deposit EXCEPT ![Target(p)] = "due"]
          /\ deposit[Target(p)] = "none" /\ total' = total
      BY <1>1, <1>3, CommitsFind DEF CommitVerification, StatusAfter
    <2>2. QED
      BY <1>1, <2>1 DEF Active, Paid, TypeOK
  <1>4. CASE CommitRejection(p)
    BY <1>1, <1>4 DEF CommitRejection, StatusAfter, Active, Paid, TypeOK
  <1>5. CASE InsertUser(p)
    BY <1>1, <1>5 DEF InsertUser, Active, Paid, TypeOK
  <1>6. CASE ~Commits(p) /\ ~InsertUser(p)
    <2>1. status' = status /\ deposit' = deposit /\ total' = total
      BY <1>6 DEF Step, Progress, Register, Issue, Verify, Approve, Reject, Begin, UpdateUser,
                  UpdateCode, ReadTotal, CountMembers, InsertDeposit, ReadDeposit, Book, Fail,
                  Crash, Commits, committed
    <2>2. QED
      BY <2>1 DEF Active, Paid
  <1>7. QED
    BY <1>2, <1>3, <1>4, <1>5, <1>6 DEF Commits

LEMMA OthersShare ==
  ASSUME ShareInv, NEW p \in Requests, NEW q \in Requests, q # p, Step(p)
  PROVE  ShareFits(q)'
  <1>1. TypeOK /\ ShareFits(q)
    BY DEF ShareInv, MembershipInv
  <1>2. /\ pc'[q] = pc[q] /\ job'[q] = job[q]
        /\ owner["total"] = q => owner'["total"] = q
    BY <1>1, OthersKeep DEF Spares, Rows
  <1>3. CASE ~HoldsTotal(q)
    BY <1>2, <1>3 DEF ShareFits, HoldsTotal
  <1>4. CASE HoldsTotal(q)
    <2>1. owner["total"] = q
      BY <1>1, <1>4 DEF ShareFits
    <2>2. total' = total /\ Active' \subseteq Active /\ Paid \subseteq Paid'
      BY <2>1, TotalStands
    <2>3. Counted(q) => Counted(q)'
      BY <1>2, <2>2 DEF Counted, Target
    <2>4. QED
      BY <1>1, <1>2, <2>1, <2>2, <2>3 DEF ShareFits, HoldsTotal
  <1>5. QED
    BY <1>3, <1>4

LEMMA OwnShare ==
  ASSUME ShareInv, NEW p \in Requests, Step(p)
  PROVE  ShareFits(p)'
  <1>1. /\ TypeOK /\ StagesAgree /\ InPlace(p) /\ ShareFits(p)
        /\ Target(p) \in Members /\ Target(p) # "total"
    BY TargetFits DEF ShareInv, MembershipInv, RequestInv
  <1> USE DEF committed
  <1>2. CASE ReadTotal(p)
    <2>1. /\ pc'[p] = "countMembers" /\ owner'["total"] = p /\ job'[p].share = total
          /\ total' = total
      BY <1>1, <1>2 DEF ReadTotal, Lock, Goto, TypeOK, Rows
    <2>2. QED
      BY <2>1 DEF ShareFits, HoldsTotal
  <1>3. CASE CountMembers(p)
    <2>1. /\ pc[p] = "countMembers" /\ pc'[p] = "insertDeposit" /\ owner' = owner
          /\ status' = status /\ deposit' = deposit /\ total' = total
          /\ job'[p].member = job[p].member
          /\ job'[p].share = Share(job[p].share, Cardinality(ActiveFor(p)))
      BY <1>1, <1>3 DEF CountMembers, Goto, TypeOK
    <2>2. owner["total"] = p /\ job[p].share = total
      BY <1>1, <2>1 DEF ShareFits, HoldsTotal
    <2>3. ActiveFor(p) \in SUBSET Paid /\ Active \ {Target(p)} \subseteq ActiveFor(p)
      BY <1>1 DEF ActiveFor, Active, Paid, StagesAgree
    <2>4. Active' = Active /\ Paid' = Paid /\ Target(p)' = Target(p)
      BY <2>1 DEF Active, Paid, Target
    <2>5. Counted(p)'
      BY <2>1, <2>2, <2>3, <2>4 DEF Counted
    <2>6. QED
      BY <2>1, <2>2, <2>5 DEF ShareFits
  <1>4. CASE InsertDeposit(p)
    <2>1. /\ pc[p] = "insertDeposit" /\ pc'[p] = "commit"
          /\ UNCHANGED <<status, deposit, total, owner, job>>
      BY <1>1, <1>4 DEF InsertDeposit, Goto, TypeOK
    <2>2. Active' = Active /\ Paid' = Paid /\ Target(p)' = Target(p)
      BY <2>1 DEF Active, Paid, Target
    <2>3. owner["total"] = p /\ Counted(p)
      <3>1. HoldsTotal(p)
        BY <2>1 DEF HoldsTotal
      <3>2. QED
        BY <1>1, <2>1, <3>1, Zenon DEF ShareFits
    <2>4. Counted(p)'
      BY <2>1, <2>2, <2>3 DEF Counted
    <2>5. QED
      BY <2>1, <2>3, <2>4 DEF ShareFits
  <1>5. CASE Book(p)
    <2>1. /\ pc[p] = "book" /\ pc'[p] = "commit" /\ owner'["total"] = p /\ job' = job
      BY <1>1, <1>5 DEF Book, Lock, Goto, TypeOK, Rows
    <2>2. job[p].kind = "approve"
      BY <1>1, <2>1 DEF InPlace, Approving
    <2>3. QED
      BY <2>1, <2>2 DEF ShareFits
  <1>6. CASE UpdateUser(p)
    <2>1. job' = job /\ pc'[p] = NextStatement(p)
          /\ job[p].kind \in {"verify", "approve", "reject"}
      BY <1>1, <1>6 DEF UpdateUser, Goto, TypeOK, InPlace
    <2>2. QED
      BY <2>1 DEF NextStatement, ShareFits, HoldsTotal
  <1>7. CASE \/ Register(p) \/ Issue(p) \/ Verify(p) \/ Approve(p) \/ Reject(p)
             \/ InsertUser(p) \/ UpdateCode(p) \/ ReadDeposit(p)
    <2>1. pc'[p] \in {"insertUser", "updateCode", "updateUser", "committed", "book"}
      BY <1>1, <1>7 DEF Register, Issue, Verify, Approve, Reject, Begin, InsertUser, UpdateCode,
                        ReadDeposit, Goto, TypeOK
    <2>2. QED
      BY <2>1 DEF ShareFits, HoldsTotal
  <1>8. CASE Commits(p) \/ Fail(p) \/ Crash(p)
    <2>1. pc'[p] \in {"committed", "rolledBack"}
      BY <1>1, <1>8 DEF Commits, CommitVerification, CommitApproval, CommitRejection, Fail, Crash,
                        Finish, Goto, TypeOK
    <2>2. QED
      BY <2>1 DEF ShareFits, HoldsTotal
  <1>9. QED
    BY <1>2, <1>3, <1>4, <1>5, <1>6, <1>7, <1>8 DEF Step, Progress, Commits

LEMMA InitShare == Init => ShareInv
  BY InitInv DEF Init, ShareInv, ShareFits, HoldsTotal

LEMMA ShareKept == ShareInv /\ [Next]_vars => ShareInv'
  <1> SUFFICES ASSUME ShareInv, [Next]_vars PROVE ShareInv'
    OBVIOUS
  <1>1. MembershipInv'
    BY InvKept DEF ShareInv
  <1>2. ASSUME NEW p \in Requests, Step(p), NEW q \in Requests PROVE ShareFits(q)'
    BY <1>2, OwnShare, OthersShare
  <1>3. ASSUME Spend, NEW q \in Requests PROVE ShareFits(q)'
    <2>1. owner["total"] = None /\ None # q /\ UNCHANGED <<status, deposit, owner, pc, job>>
          /\ ShareFits(q)
      BY <1>3, MembershipAssumption DEF Spend, ShareInv
    <2>2. ~HoldsTotal(q)
      BY <2>1 DEF ShareFits
    <2>3. QED
      BY <2>1, <2>2 DEF ShareFits, HoldsTotal
  <1>4. ASSUME UNCHANGED vars, NEW q \in Requests PROVE ShareFits(q)'
    <2>1. ShareFits(q) /\ UNCHANGED <<status, deposit, total, owner, pc, job>>
      BY <1>4 DEF ShareInv, vars, committed
    <2>2. QED
      BY <2>1 DEF ShareFits, HoldsTotal, Counted, Active, Paid, Target
  <1>5. QED
    BY <1>1, <1>2, <1>3, <1>4 DEF Next, Quiet, ShareInv

LEMMA Quotient ==
  ASSUME NEW n \in Nat, NEW d \in Nat \ {0}
  PROVE  n \div d \in Int /\ d * (n \div d) <= n /\ n < d * (n \div d) + d
  OBVIOUS

\* More members, a smaller share.
LEMMA ShareFalls ==
  ASSUME NEW money \in Nat, NEW A, IsFiniteSet(A), NEW B \in SUBSET A, B # {}
  PROVE  Share(money, Cardinality(A)) <= Share(money, Cardinality(B))
  <1>1. PICK a \in Nat, b \in Nat :
          a = Cardinality(A) /\ b = Cardinality(B) /\ b <= a
    BY FS_Subset, FS_CardinalityType
  <1>2. a \in Nat \ {0} /\ b \in Nat \ {0}
    <2>1. b # 0
      BY <1>1, FS_Subset, FS_EmptySet
    <2>2. QED
      BY <1>1, <2>1
  <1>3. PICK i \in Int : i = money \div a /\ a * i <= money
    BY <1>2, Quotient
  <1>4. PICK j \in Int : j = money \div b /\ b * j <= money /\ money < b * j + b
    BY <1>2, Quotient
  <1>5. i <= j
    <2>1. SUFFICES ASSUME j + 1 <= i PROVE FALSE
      BY <1>3, <1>4
    <2>2. j \in Nat
      <3>1. SUFFICES ASSUME j + 1 <= 0 PROVE FALSE
        BY <1>4
      <3>2. b * (j + 1) <= 0 /\ b * (j + 1) = b * j + b
        BY <1>2, <3>1
      <3>3. QED
        BY <1>2, <1>4, <3>2
    <2>3. b * (j + 1) = b * j + b /\ b * (j + 1) \in Nat
      BY <1>2, <2>2
    <2>4. b * (j + 1) <= a * (j + 1)
      BY <1>1, <1>2, <2>2
    <2>5. a * (j + 1) <= a * i /\ a * i \in Int /\ a * (j + 1) \in Int
      BY <1>2, <1>3, <2>1, <2>2
    <2>6. money < b * (j + 1)
      BY <1>2, <1>4, <2>2, <2>3
    <2>7. a * i <= money
      BY <1>2, <1>3
    <2>8. QED
      BY <2>3, <2>4, <2>5, <2>6, <2>7
  <1>6. QED
    BY <1>1, <1>2, <1>3, <1>4, <1>5 DEF Share

\* A new deposit is the share of a member at the moment it is committed, between that of
\* those who have paid and that of those who are active, whoever is approved, rejected or
\* spends meanwhile (calculatePrincipalSavingsAmount).
THEOREM SharesAlwaysFair == Spec => FairShare
  <1> DEFINE Fair(u) ==
        /\ Active # {} => amount'[u] <= Share(total, Cardinality(Active))
        /\ Paid = {} => amount'[u] = Minimum
        /\ \/ amount'[u] >= Share(total, Cardinality(Paid))
           \/ Active = {} /\ amount'[u] = Minimum
  <1>1. ASSUME ShareInv, NEW p \in Requests, Step(p),
               NEW u \in Members, deposit[u] = "none", deposit'[u] = "due"
        PROVE  Fair(u)
    <2>1. MembershipInv /\ TypeOK /\ StagesAgree /\ ShareFits(p) /\ Target(p) \in Members
      BY <1>1, TargetFits DEF ShareInv, MembershipInv
    <2>2. CommitVerification(p) /\ u = Target(p)
      <3>1. Commits(p)
        BY <1>1 DEF Step, Progress, Register, Issue, Verify, Approve, Reject, Begin, InsertUser,
                    UpdateUser, UpdateCode, ReadTotal, CountMembers, InsertDeposit, ReadDeposit,
                    Book, Fail, Crash, Commits, committed
      <3>2. QED
        BY <1>1, <2>1, <3>1 DEF Commits, CommitVerification, CommitApproval, CommitRejection, TypeOK
    <2>3. amount'[u] = job[p].share /\ job[p].kind = "verify" /\ pc[p] = "commit"
          /\ status[u] = "pending"
      BY <2>1, <2>2, CommitsFind DEF CommitVerification, TypeOK
    <2>4. PICK A \in SUBSET Paid :
            Active \ {u} \subseteq A /\ amount'[u] = Share(total, Cardinality(A))
      BY <2>1, <2>2, <2>3 DEF ShareFits, Counted
    <2>5. Active \in SUBSET A /\ IsFiniteSet(A) /\ IsFiniteSet(Paid) /\ total \in Nat
      <3>1. u \notin Active
        BY <2>3 DEF Active
      <3>2. Paid \in SUBSET Members
        BY DEF Paid
      <3>3. QED
        BY <2>1, <2>4, <3>1, <3>2, MembershipAssumption, FS_Subset DEF TypeOK
    <2>6. A = {} => amount'[u] = Minimum
      BY <2>4, FS_EmptySet DEF Share
    <2>7. A # {} => amount'[u] >= Share(total, Cardinality(Paid))
      <3>1. Share(total, Cardinality(A)) \in Nat
        BY <2>5, FS_CardinalityType, ShareIsNat
      <3>2. Share(total, Cardinality(Paid)) \in Nat
        BY <2>5, FS_CardinalityType, ShareIsNat
      <3>3. A # {} => Share(total, Cardinality(Paid)) <= Share(total, Cardinality(A))
        BY <2>4, <2>5, ShareFalls
      <3>4. QED
        BY <2>4, <3>1, <3>2, <3>3
    <2>8. Active # {} => amount'[u] <= Share(total, Cardinality(Active))
      BY <2>4, <2>5, ShareFalls
    <2>9. QED
      BY <2>4, <2>5, <2>6, <2>7, <2>8
  <1>2. ShareInv /\ [Next]_vars =>
          [\A u \in Members : deposit[u] = "none" /\ deposit'[u] = "due" => Fair(u)]_vars
    <2> SUFFICES ASSUME ShareInv, [Next]_vars, NEW u \in Members,
                        deposit[u] = "none", deposit'[u] = "due"
                 PROVE  Fair(u)
      OBVIOUS
    <2>1. CASE \E p \in Requests : Step(p)
      BY <1>1, <2>1
    <2>2. CASE Spend \/ UNCHANGED vars
      BY <2>2 DEF Spend, vars, committed
    <2>3. QED
      BY <2>1, <2>2 DEF Next, Quiet
  <1>3. QED
    BY <1>2, InitShare, ShareKept, PTL DEF Spec, FairShare

-----------------------------------------------------------------------------
(* Password resets beside it. *)

\* Whatever is promised of Membership alone holds beside the resets too, which leave its
\* variables alone.
THEOREM ResetsKeepMembership == ResetSpec => Spec
  <1>1. ResetInit => Init
    BY DEF ResetInit
  <1>2. [ResetNext]_allVars => [Next]_vars
    <2> SUFFICES ASSUME [ResetNext]_allVars PROVE [Next]_vars
      OBVIOUS
    <2>1. CASE \E p \in Requests : ResetStep(p)
      BY <2>1 DEF ResetStep, ResetProgress
    <2>2. CASE \E p \in Requests : MembershipStep(p)
      BY <2>2 DEF MembershipStep, Next
    <2>3. CASE Quiet \/ Spend
      BY <2>3 DEF Next
    <2>4. CASE UNCHANGED allVars
      BY <2>4 DEF allVars
    <2>5. QED
      BY <2>1, <2>2, <2>3, <2>4 DEF ResetNext
  <1>3. QED
    BY <1>1, <1>2, PTL DEF ResetSpec, Spec

\* A link that is followed, or was, had been sent.
FollowedWereSent ==
  \A p \in Requests : reset[p].at \in {"setPassword", "changed"} => reset[p].link \in Links

\* The token in force for u is that of one of u's own requests, and has been stored.
HasToken(u) ==
  /\ token[u] \in Requests
  /\ reset[token[u]].member = u
  /\ reset[token[u]].at \in {"mail", "sent", "lost"}

\* From the first token on there is one until the password changes.
TokensStand ==
  \A u \in Members :
    /\ \E p \in Requests : reset[p].member = u /\ reset[p].at \in {"mail", "sent"}
    /\ \A p \in Requests : reset[p].member = u => reset[p].at # "changed"
    => HasToken(u)

ResetInv == ResetTypeOK /\ FollowedWereSent /\ SpentLinksStayDead /\ TokensStand

LEMMA InitResetInv == ResetInit => ResetInv
  <1>1. Idle.member \in Members
    BY IdleFits
  <1>2. QED
    BY <1>1 DEF ResetInit, ResetInv, ResetTypeOK, FollowedWereSent, SpentLinksStayDead, TokensStand,
                NoReset

LEMMA RequestKeeps ==
  ASSUME ResetInv, NEW p \in Requests, RequestReset(p)
  PROVE  ResetInv'
  <1> USE DEF ResetInv
  <1>1. PICK u \in Members :
          reset' = [reset EXCEPT ![p] = [at |-> "storeToken", member |-> u, link |-> p]]
    BY DEF RequestReset
  <1>2. reset[p].at = "idle" /\ UNCHANGED <<token, password>>
    BY DEF RequestReset, Unused
  <1>3. /\ reset'[p] = [at |-> "storeToken", member |-> u, link |-> p]
        /\ \A q \in Requests \ {p} : reset'[q] = reset[q]
    BY <1>1 DEF ResetTypeOK
  <1>4. ResetTypeOK'
    BY <1>1, <1>2 DEF ResetTypeOK
  <1>5. FollowedWereSent'
    BY <1>2, <1>3 DEF FollowedWereSent, Links
  <1>6. SpentLinksStayDead'
    BY <1>2, <1>3 DEF SpentLinksStayDead
  <1>7. TokensStand'
    BY <1>2, <1>3 DEF TokensStand, HasToken
  <1>8. QED
    BY <1>4, <1>5, <1>6, <1>7

LEMMA ConfirmKeeps ==
  ASSUME ResetInv, NEW p \in Requests, ConfirmReset(p)
  PROVE  ResetInv'
  <1> USE DEF ResetInv
  <1>1. PICK q \in Links :
          /\ token[reset[q].member] = q
          /\ reset' = [reset EXCEPT ![p] = [at |-> "setPassword", member |-> reset[q].member,
                                            link |-> q]]
    BY DEF ConfirmReset
  <1>2. /\ reset[p].at = "idle" /\ UNCHANGED <<token, password>>
        /\ q \in Requests /\ reset[q].at = "sent" /\ reset[q].member \in Members
    BY <1>1 DEF ConfirmReset, Unused, TokenFound, Links, ResetTypeOK
  <1>3. /\ reset'[p] = [at |-> "setPassword", member |-> reset[q].member, link |-> q]
        /\ \A r \in Requests \ {p} : reset'[r] = reset[r]
    BY <1>1 DEF ResetTypeOK
  <1>4. ResetTypeOK'
    BY <1>1, <1>2 DEF ResetTypeOK
  <1>5. FollowedWereSent'
    BY <1>2, <1>3 DEF FollowedWereSent, Links
  <1>6. SpentLinksStayDead'
    BY <1>2, <1>3 DEF SpentLinksStayDead
  <1>7. TokensStand'
    BY <1>2, <1>3 DEF TokensStand, HasToken
  <1>8. QED
    BY <1>4, <1>5, <1>6, <1>7

LEMMA StoreKeeps ==
  ASSUME ResetInv, NEW p \in Requests, StoreToken(p)
  PROVE  ResetInv'
  <1> USE DEF ResetInv
  <1>1. /\ reset[p].at = "storeToken" /\ reset[p].member \in Members
        /\ token' = [token EXCEPT ![reset[p].member] = p]
        /\ reset' = [reset EXCEPT ![p].at = "mail"] /\ password' = password
    BY DEF StoreToken, Proceed, ResetTypeOK
  <1>2. /\ reset'[p].at = "mail" /\ reset'[p].member = reset[p].member
        /\ \A r \in Requests \ {p} : reset'[r] = reset[r]
        /\ \A r \in Requests : reset'[r].link = reset[r].link /\ reset'[r].member = reset[r].member
        /\ token'[reset[p].member] = p
        /\ \A u \in Members \ {reset[p].member} : token'[u] = token[u]
    BY <1>1 DEF ResetTypeOK
  <1>3. ResetTypeOK'
    BY <1>1 DEF ResetTypeOK
  <1>4. FollowedWereSent'
    BY <1>1, <1>2 DEF FollowedWereSent, Links
  <1>5. SpentLinksStayDead'
    <2>1. SUFFICES ASSUME NEW r \in Requests, reset'[r].at = "changed"
                   PROVE  token'[reset'[r].member] # reset'[r].link
      BY DEF SpentLinksStayDead
    <2>2. reset[r].at = "changed" /\ reset'[r] = reset[r] /\ reset[r].member \in Members
      BY <1>2, <2>1 DEF ResetTypeOK
    <2>3. reset[r].link \in Links /\ token[reset[r].member] # reset[r].link
      BY <2>2 DEF FollowedWereSent, SpentLinksStayDead
    <2>4. reset[r].link # p
      BY <1>1, <2>3 DEF Links
    <2>5. QED
      BY <1>2, <2>2, <2>3, <2>4
  <1>6. TokensStand'
    BY <1>1, <1>2 DEF TokensStand, HasToken
  <1>7. QED
    BY <1>3, <1>4, <1>5, <1>6

LEMMA MailKeeps ==
  ASSUME ResetInv, NEW p \in Requests, Mail(p)
  PROVE  ResetInv'
  <1> USE DEF ResetInv
  <1>1. PICK s \in {"sent", "lost"} : reset' = [reset EXCEPT ![p].at = s]
    BY DEF Mail, Proceed
  <1>2. /\ reset[p].at = "mail" /\ token' = token /\ password' = password
        /\ reset'[p].at = s
        /\ \A r \in Requests \ {p} : reset'[r] = reset[r]
        /\ \A r \in Requests : reset'[r].link = reset[r].link /\ reset'[r].member = reset[r].member
    BY <1>1 DEF Mail, ResetTypeOK
  <1>3. ResetTypeOK'
    BY <1>1, <1>2 DEF ResetTypeOK
  <1>4. FollowedWereSent'
    BY <1>2 DEF FollowedWereSent, Links
  <1>5. SpentLinksStayDead'
    BY <1>2 DEF SpentLinksStayDead
  <1>6. TokensStand'
    <2>1. SUFFICES ASSUME NEW u \in Members, NEW q \in Requests, reset'[q].member = u,
                          reset'[q].at \in {"mail", "sent"},
                          \A r \in Requests : reset'[r].member = u => reset'[r].at # "changed"
                   PROVE  HasToken(u)'
      BY DEF TokensStand
    <2>2. reset[q].member = u /\ reset[q].at \in {"mail", "sent"}
      BY <1>2, <2>1
    <2>3. \A r \in Requests : reset[r].member = u => reset[r].at # "changed"
      BY <1>2, <2>1
    <2>4. HasToken(u)
      BY <2>2, <2>3 DEF TokensStand
    <2>5. QED
      BY <1>2, <2>4 DEF HasToken
  <1>7. QED
    BY <1>3, <1>4, <1>5, <1>6

LEMMA SetKeeps ==
  ASSUME ResetInv, NEW p \in Requests, SetPassword(p)
  PROVE  ResetInv'
  <1> USE DEF ResetInv
  <1>1. /\ reset[p].at = "setPassword" /\ reset[p].member \in Members
        /\ token' = [token EXCEPT ![reset[p].member] = None]
        /\ password' = [password EXCEPT ![reset[p].member] = p]
        /\ reset' = [reset EXCEPT ![p].at = "changed"]
    BY DEF SetPassword, Proceed, TokenCleared, ResetTypeOK
  <1>2. /\ reset'[p].at = "changed" /\ reset'[p].member = reset[p].member
        /\ \A r \in Requests \ {p} : reset'[r] = reset[r]
        /\ \A r \in Requests : reset'[r].link = reset[r].link /\ reset'[r].member = reset[r].member
        /\ token'[reset[p].member] = None
        /\ \A u \in Members \ {reset[p].member} : token'[u] = token[u]
    BY <1>1 DEF ResetTypeOK
  <1>3. ResetTypeOK'
    BY <1>1 DEF ResetTypeOK
  <1>4. FollowedWereSent'
    BY <1>1, <1>2 DEF FollowedWereSent, Links
  <1>5. SpentLinksStayDead'
    <2>1. SUFFICES ASSUME NEW r \in Requests, reset'[r].at = "changed"
                   PROVE  token'[reset'[r].member] # reset'[r].link
      BY DEF SpentLinksStayDead
    <2>2. reset[r].link \in Links /\ reset[r].member \in Members
      BY <1>1, <1>2, <2>1 DEF FollowedWereSent, ResetTypeOK
    <2>3. reset[r].link # None
      BY <2>2, MembershipAssumption DEF Links
    <2>4. r # p => token[reset[r].member] # reset[r].link
      BY <1>2, <2>1 DEF SpentLinksStayDead
    <2>5. QED
      BY <1>2, <2>2, <2>3, <2>4
  <1>6. TokensStand'
    BY <1>1, <1>2 DEF TokensStand, HasToken
  <1>7. QED
    BY <1>3, <1>4, <1>5, <1>6

LEMMA LoseKeeps ==
  ASSUME ResetInv, NEW p \in Requests, LoseReset(p)
  PROVE  ResetInv'
  <1> USE DEF ResetInv
  <1>1. /\ reset[p].at \in {"storeToken", "mail", "setPassword"}
        /\ reset' = [reset EXCEPT ![p].at = "lost"] /\ token' = token /\ password' = password
    BY DEF LoseReset, Resetting, Proceed
  <1>2. /\ reset'[p].at = "lost"
        /\ \A r \in Requests \ {p} : reset'[r] = reset[r]
        /\ \A r \in Requests : reset'[r].link = reset[r].link /\ reset'[r].member = reset[r].member
    BY <1>1 DEF ResetTypeOK
  <1>3. ResetTypeOK'
    BY <1>1 DEF ResetTypeOK
  <1>4. FollowedWereSent'
    BY <1>1, <1>2 DEF FollowedWereSent, Links
  <1>5. SpentLinksStayDead'
    BY <1>1, <1>2 DEF SpentLinksStayDead
  <1>6. TokensStand'
    <2>1. SUFFICES ASSUME NEW u \in Members, NEW q \in Requests, reset'[q].member = u,
                          reset'[q].at \in {"mail", "sent"},
                          \A r \in Requests : reset'[r].member = u => reset'[r].at # "changed"
                   PROVE  HasToken(u)'
      BY DEF TokensStand
    <2>2. reset[q].member = u /\ reset[q].at \in {"mail", "sent"}
      BY <1>2, <2>1
    <2>3. \A r \in Requests : reset[r].member = u => reset[r].at # "changed"
      BY <1>1, <1>2, <2>1
    <2>4. HasToken(u)
      BY <2>2, <2>3 DEF TokensStand
    <2>5. QED
      BY <1>1, <1>2, <2>4 DEF HasToken
  <1>7. QED
    BY <1>3, <1>4, <1>5, <1>6

LEMMA ResetInvKept == ResetInv /\ [ResetNext]_allVars => ResetInv'
  <1> SUFFICES ASSUME ResetInv, [ResetNext]_allVars PROVE ResetInv'
    OBVIOUS
  <1>1. CASE \E p \in Requests : ResetStep(p)
    BY <1>1, RequestKeeps, ConfirmKeeps, StoreKeeps, MailKeeps, SetKeeps, LoseKeeps
       DEF ResetStep, ResetProgress
  <1>2. CASE UNCHANGED resetVars
    BY <1>2 DEF resetVars, ResetInv, ResetTypeOK, FollowedWereSent, SpentLinksStayDead, TokensStand,
                HasToken, Links
  <1>3. QED
    BY <1>1, <1>2 DEF ResetNext, allVars

\* Every variable of the resets keeps its type.
THEOREM ResetTypesHold == ResetSpec => []ResetTypeOK
  <1>1. ResetInv => ResetTypeOK
    BY DEF ResetInv
  <1>2. QED
    BY <1>1, InitResetInv, ResetInvKept, PTL DEF ResetSpec

\* A link that has changed a password never comes into force again, for any number of
\* overlapping requests and confirmations.
THEOREM SpentLinksAlwaysDead == ResetSpec => []SpentLinksStayDead
  <1>1. ResetInv => SpentLinksStayDead
    BY DEF ResetInv
  <1>2. QED
    BY <1>1, InitResetInv, ResetInvKept, PTL DEF ResetSpec

\* Of the links that a member has been sent one can be followed, as long as the password
\* has not been changed and nothing was lost on the way.
THEOREM OneLinkAlwaysWorks == ResetSpec => []OneLinkWorks
  <1>1. ResetInv => OneLinkWorks
    <2> SUFFICES ASSUME ResetInv, NEW u \in Members, LinksOf(u) # {}, OnlyLinks(u)
                 PROVE  token[u] \in LinksOf(u)
      BY DEF OneLinkWorks
    <2>1. HasToken(u)
      BY DEF ResetInv, TokensStand, LinksOf, Links, OnlyLinks
    <2>2. QED
      BY <2>1 DEF HasToken, OnlyLinks, LinksOf, Links
  <1>2. QED
    BY <1>1, InitResetInv, ResetInvKept, PTL DEF ResetSpec

=============================================================================
