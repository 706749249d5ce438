------------------------- MODULE InstallmentsProofs -------------------------
(***************************************************************************)
(* Theorems about the arithmetic of a loan, and about its installments,    *)
(* for every number of loans, pods, requests and months, every principal,  *)
(* tenor and day of disbursement.                                          *)
(***************************************************************************)
EXTENDS Installments, FiniteSetTheorems, TLAPS

-----------------------------------------------------------------------------
(* Rounding. *)

\* Division with remainder.
LEMMA Division ==
  ASSUME NEW a \in Nat, NEW n \in Nat \ {0}
  PROVE  /\ a \div n \in Nat
         /\ a % n \in 0..(n - 1)
         /\ a = n * (a \div n) + (a % n)
  OBVIOUS

\* The two cases of roundUpToNearest500Or1000 come to one: the result is the next
\* multiple of 500 rupiah a month, and the amount is a multiple if it stays.
THEOREM RoundUpIsNextMultiple ==
  ASSUME NEW a \in Nat, NEW d \in Nat \ {0}
  PROVE  /\ RoundUp(a, d) \in a..(a + Step * d - 1)
         /\ \E k \in Nat : RoundUp(a, d) = (Step * d) * k
<1> DEFINE s == Step * d
           remainder == a % (2 * s)
           q == a \div (2 * s)
<1>1. s \in Nat \ {0} /\ 2 * Step * d = 2 * s
  BY StepAssumption
<1> HIDE DEF s
<1>2. /\ q \in Nat /\ remainder \in 0..(2 * s - 1)
      /\ a = (2 * s) * q + remainder
  <2>1. 2 * s \in Nat \ {0}
    BY <1>1
  <2> QED BY <2>1, Division, Zenon
<1> HIDE DEF remainder, q
<1>3. (2 * s) * q = s * (2 * q) /\ s * (2 * q + 1) = s * (2 * q) + s
      /\ s * (2 * q + 2) = s * (2 * q) + 2 * s
  BY <1>1, <1>2
<1>4. RoundUp(a, d) = CASE remainder \in {0, s} -> a
                        [] remainder \in 1..(s - 1) -> a + (s - remainder)
                        [] OTHER -> a + (2 * s - remainder)
  BY <1>1 DEF RoundUp, s, remainder
<1> DEFINE m == s * (2 * q)
<1>m. m \in Nat /\ a = m + remainder
  BY <1>1, <1>2, <1>3
<1> HIDE DEF m
<1>5. CASE remainder = 0
  <2>1. RoundUp(a, d) = a
    BY <1>4, <1>5
  <2>2. RoundUp(a, d) = s * (2 * q)
    BY <2>1, <1>5, <1>m DEF m
  <2> QED BY <2>1, <2>2, <1>1, <1>2 DEF s
<1>6. CASE remainder = s
  <2>1. RoundUp(a, d) = a
    BY <1>4, <1>6
  <2>2. RoundUp(a, d) = s * (2 * q + 1)
    BY <2>1, <1>6, <1>m, <1>3 DEF m
  <2> QED BY <2>1, <2>2, <1>1, <1>2 DEF s
<1>7. CASE remainder \in 1..(s - 1)
  <2>1. RoundUp(a, d) = a + (s - remainder)
    BY <1>4, <1>7, <1>1
  <2>2. RoundUp(a, d) = s * (2 * q + 1)
    BY <2>1, <1>1, <1>2, <1>m, <1>3 DEF m
  <2> QED BY <2>1, <2>2, <1>1, <1>2, <1>7 DEF s
<1>8. CASE remainder \in (s + 1)..(2 * s - 1)
  <2>1. RoundUp(a, d) = a + (2 * s - remainder)
    BY <1>4, <1>8, <1>1
  <2>2. RoundUp(a, d) = s * (2 * q + 2)
    BY <2>1, <1>1, <1>2, <1>m, <1>3 DEF m
  <2> QED BY <2>1, <2>2, <1>1, <1>2, <1>8 DEF s
<1> QED BY <1>1, <1>2, <1>5, <1>6, <1>7, <1>8

\* The rounded part of a month is a multiple of 500 rupiah, and what it comes to in
\* all is the principal or less than 500 rupiah a month more (roundedMonthlyPrincipal).
LEMMA MonthlyPrincipalFits ==
  ASSUME NEW principal \in Nat, NEW tenor \in Nat \ {0}
  PROVE  /\ \E k \in Nat : MonthlyPrincipal(principal, tenor) = Step * k
         /\ MonthlyPrincipal(principal, tenor) \in Nat
         /\ principal <= tenor * MonthlyPrincipal(principal, tenor)
         /\ tenor * MonthlyPrincipal(principal, tenor) < principal + Step * tenor
<1>1. PICK k \in Nat : RoundUp(principal, tenor) = (Step * tenor) * k
  BY RoundUpIsNextMultiple
<1>2. Step * k \in Nat /\ (Step * tenor) * k = tenor * (Step * k)
  BY StepAssumption
<1>3. (tenor * (Step * k)) \div tenor = Step * k
  <2> DEFINE m == Step * k
             x == tenor * m
             y == x \div tenor
  <2>1. m \in Nat
    BY <1>2
  <2> HIDE DEF m
  <2>2. x \in Nat /\ y \in Nat /\ tenor * y <= x /\ x < tenor * y + tenor
    BY <2>1, Division
  <2>3. tenor * (y - m) <= 0 /\ tenor * (m - y) < tenor
    BY <2>1, <2>2
  <2>4. ~ y - m >= 1
    BY <2>1, <2>2, <2>3
  <2>5. ~ m - y >= 1
    BY <2>1, <2>2, <2>3
  <2> QED BY <2>1, <2>2, <2>4, <2>5 DEF m
<1>4. MonthlyPrincipal(principal, tenor) = Step * k
  BY <1>1, <1>2, <1>3 DEF MonthlyPrincipal
<1>5. RoundUp(principal, tenor) \in principal..(principal + Step * tenor - 1)
  BY RoundUpIsNextMultiple
<1>6. RoundUp(principal, tenor) = tenor * MonthlyPrincipal(principal, tenor)
  BY <1>1, <1>2, <1>4
<1>7. Step * tenor \in Nat
  BY StepAssumption
<1> QED BY <1>2, <1>4, <1>5, <1>6, <1>7

-----------------------------------------------------------------------------
(* What is left for the last month. *)

\* From a principal of 500 rupiah * tenor * (tenor - 1) on, every installment has a
\* principal that the ledger takes, and the loan can be repaid in full
\* (generateInstallments).
THEOREM EveryPartIsPositive ==
  ASSUME NEW principal \in Nat \ {0}, NEW tenor \in Nat \ {0},
         principal >= Step * tenor * (tenor - 1),
         NEW n \in 1..tenor
  PROVE  PrincipalPart(principal, tenor, n) > 0
<1> DEFINE m == MonthlyPrincipal(principal, tenor)
<1>1. m \in Nat /\ principal <= tenor * m /\ tenor * m < principal + Step * tenor
  BY MonthlyPrincipalFits
<1> HIDE DEF m
<1>2. m > 0
  BY <1>1
<1>3. principal - (tenor - 1) * m > 0
  <2>1. CASE tenor = 1
    BY <1>1, <2>1
  <2>2. CASE tenor > 1
    <3> DEFINE k == tenor - 1
    <3>1. k \in Nat \ {0} /\ tenor = k + 1
      BY <2>2
    <3> HIDE DEF k
    <3>2. tenor * m = k * m + m
      BY <3>1, <1>1
    <3>3. Step * tenor \in Nat /\ Step * tenor * k = k * (Step * tenor)
      BY <3>1, StepAssumption
    <3>4. k * (tenor * m) < k * (principal + Step * tenor)
      BY <3>1, <3>3, <1>1
    <3>5. k * (principal + Step * tenor) = k * principal + k * (Step * tenor)
      BY <3>1, <3>3
    <3>6. k * (Step * tenor) <= principal
      BY <3>3 DEF k
    <3>7. k * (tenor * m) < k * principal + principal
      BY <3>1, <3>3, <3>4, <3>5, <3>6, <1>1
    <3>8. k * principal + principal = tenor * principal /\ k * (tenor * m) = tenor * (k * m)
      BY <3>1, <1>1
    <3>9. tenor * (k * m) < tenor * principal /\ k * m \in Nat
      BY <3>7, <3>8, <3>1, <1>1
    <3>10. k * m < principal
      BY <3>9
    <3> QED BY <3>10, <3>9 DEF k
  <2> QED BY <2>1, <2>2
<1> QED BY <1>2, <1>3 DEF PrincipalPart, LastPrincipal, m

\* A principal of 500 rupiah * (tenor - 1) or less is used up before the last month,
\* whose installment the ledger refuses: the loan is never repaid in full.
THEOREM LastPartIsLost ==
  ASSUME NEW principal \in Nat \ {0}, NEW tenor \in Nat \ {0},
         principal <= Step * (tenor - 1)
  PROVE  PrincipalPart(principal, tenor, tenor) <= 0
<1> DEFINE m == MonthlyPrincipal(principal, tenor)
<1>1. m \in Nat /\ principal <= tenor * m
  BY MonthlyPrincipalFits
<1>2. PICK k \in Nat : m = Step * k
  BY MonthlyPrincipalFits
<1>3. PrincipalPart(principal, tenor, tenor) = principal - (tenor - 1) * m
  BY DEF PrincipalPart, LastPrincipal, m
<1> HIDE DEF m
<1>4. k >= 1
  BY <1>1, <1>2, StepAssumption
<1>5. m >= Step
  BY <1>2, <1>4, StepAssumption
<1>6. (tenor - 1) * m >= (tenor - 1) * Step
  BY <1>1, <1>5, StepAssumption
<1>7. Step * (tenor - 1) = (tenor - 1) * Step /\ (tenor - 1) * Step \in Nat
      /\ (tenor - 1) * m \in Nat
  BY <1>1, StepAssumption
<1> QED BY <1>3, <1>6, <1>7

\* The monthly payments never come to less than the total payable, and to exactly as
\* much unless the last principal is clamped ("This ensures member pays exactly what
\* they should", calculateLoanPayments).
THEOREM PaymentsCoverTotal ==
  ASSUME NEW principal \in Nat \ {0}, NEW tenor \in Nat \ {0}, NEW interest \in Nat
  PROVE  LET paid == (tenor - 1) * MonthlyPayment(principal, tenor, interest)
                       + LastMonthPayment(principal, tenor, interest)
         IN  /\ paid >= TotalPayable(principal, tenor, interest)
             /\ paid = TotalPayable(principal, tenor, interest)
                  <=> LastPrincipal(principal, tenor) >= 0
<1> DEFINE m == MonthlyPrincipal(principal, tenor)
<1>1. m \in Nat
  BY MonthlyPrincipalFits
<1> DEFINE first == (tenor - 1) * m
           charge == (tenor - 1) * interest
<1> HIDE DEF m
<1>2. (tenor - 1) * (m + interest) = first + charge /\ first \in Nat /\ charge \in Nat
      /\ interest * tenor = charge + interest
  BY <1>1
<1>3. LastPrincipal(principal, tenor) = principal - first
  BY DEF LastPrincipal, m
<1>4. MonthlyPayment(principal, tenor, interest) = m + interest
  BY DEF MonthlyPayment, m
<1>5. TotalPayable(principal, tenor, interest) = principal + charge + interest
  BY <1>2 DEF TotalPayable
<1> HIDE DEF first, charge
<1>6. LastMonthPayment(principal, tenor, interest)
        = (IF principal - first > 0 THEN principal - first ELSE 0) + interest
  BY <1>3 DEF LastMonthPayment
<1> QED BY <1>2, <1>3, <1>4, <1>5, <1>6

-----------------------------------------------------------------------------
(* Due dates. *)

\* A month without an installment, because it lacks the day of the disbursement, is
\* followed by one with two; the installments fall due in the order of their numbers,
\* and at most two in one month (generateInstallments).
THEOREM DueMonthsInOrder ==
  ASSUME NEW day \in 1..31, NEW start \in 0..11, NEW february \in {28, 29}, NEW n \in Nat
  PROVE  LET due(k) == DueMonth(day, start, february, k) IN
         /\ due(n) \in {n, n + 1}
         /\ due(n) <= due(n + 1) /\ due(n) < due(n + 2)
         /\ due(n) = n + 1 => due(n + 1) = n + 1
<1> DEFINE r == (start + n) % 12
           q == (start + n) \div 12
<1>1. r \in 0..11 /\ q \in Nat /\ start + n = 12 * q + r
  OBVIOUS
<1>2. (start + (n + 1)) % 12 = IF r = 11 THEN 0 ELSE r + 1
  BY <1>1
<1>3. Overflows(day, start, february, n) => ~Overflows(day, start, february, n + 1)
  BY <1>1, <1>2 DEF Overflows, DaysIn
<1> QED BY <1>3 DEF DueMonth

-----------------------------------------------------------------------------
(* The inductive invariant. *)

\* The job marks an installment once: whatever has not lapsed was never marked.
LapsesFit ==
  \A i \in Ids :
    /\ status[i] = "overdue" => lapsedIn[i] > 0
    /\ status[i] = "due" => lapsedIn[i] = 0

\* What run d has on its list has not lapsed and is at most paid since, which the
\* payment's crossing tells; of a loan nothing that is due comes before what is listed
\* without being listed too.
BatchFits(d) ==
  \A i \in run[d].batch :
    /\ lapsedIn[i] = 0
    /\ status[i] # "overdue"
    /\ status[i] = "paid" => i \in crossed
    /\ \A j \in OfLoan(i[1]) : j[2] < i[2] /\ status[j] = "due" => j \in run[d].batch

\* The statements of a loan's transaction, in their order; those after the installment
\* is marked; those at which a penalty is called for.
LoanStatements == {"mark", "findOldest", "readPenalty", "fine", "commit"}
MarkedStatements == LoanStatements \ {"mark"}
PenaltyStatements == {"findOldest", "readPenalty", "fine"}

\* The loan at hand has something on the list; an installment that counted as overdue has
\* lapsed.
LoanFits(d) ==
  /\ run[d].loan \in Loans
  /\ Batch(d) # {}
  /\ run[d].previous >= 1 => \E i \in OfLoan(run[d].loan) : lapsedIn[i] > 0

\* The marked installment is locked, listed, and nothing due comes before it.
MarkedFits(d) ==
  /\ run[d].marked \in Batch(d)
  /\ owner[run[d].marked] = d
  /\ \A j \in OfLoan(run[d].loan) : j[2] < run[d].marked[2] => status[j] # "due"

\* The installment to be fined has no penalty; it is the marked one or has lapsed, and
\* is at most paid since, which the payment's crossing tells.
FinedFits(d) ==
  /\ run[d].at \in {"readPenalty", "fine", "commit"}
  /\ run[d].previous >= 1
  /\ run[d].fined \in OfLoan(run[d].loan)
  /\ penalty[run[d].fined] = 0
  /\ \/ run[d].fined = run[d].marked
     \/ lapsedIn[run[d].fined] > 0 /\ status[run[d].fined] # "due"
  /\ status[run[d].fined] = "paid" => run[d].fined \in crossed
  /\ run[d].at # "readPenalty" => run[d].fine = 1

\* A run has the job's lock, so that there is one at most.
RunFits(d) ==
  Running(d) =>
    /\ jobLock = d /\ month > 0
    /\ BatchFits(d)
    /\ run[d].at \in LoanStatements => LoanFits(d)
    /\ run[d].at \in MarkedStatements => MarkedFits(d)
    /\ run[d].at \in PenaltyStatements => PenaltyDue(d)
    /\ run[d].at \in {"readPenalty", "fine"} => run[d].fined # None
    /\ run[d].fined # None => FinedFits(d)

\* What a settlement has found unpaid stays so under its lock.
RequestFits(p) ==
  /\ Asking(p) => request[p].id \in Ids
  /\ request[p].at = "book" => owner[request[p].id] = p /\ status[request[p].id] # "paid"

IInv ==
  /\ TypeOK
  /\ LapsesFit
  /\ \A d \in Pods : RunFits(d)
  /\ \A p \in Requests : RequestFits(p)
  /\ FewerFinesThanLapses
  /\ LapsesInOrder
  /\ SettledOnceUnlessCrossed

-----------------------------------------------------------------------------
(* Numbers and installments. *)

\* Every set of numbers that is not empty has a least one.
LEMMA LeastNumber ==
  ASSUME NEW T \in SUBSET Nat, T # {}
  PROVE  \E n \in T : \A k \in T : n <= k
<1> DEFINE Smaller == StrictSubsetOrdering(Nat)
           Initial == {1..n : n \in T}
<1>1. IsWellFoundedOn(Smaller, FiniteSubsetsOf(Nat))
  BY FS_StrictSubsetOrderingWellFounded
<1>2. Initial \subseteq FiniteSubsetsOf(Nat) /\ Initial # {}
  <2>1. ASSUME NEW n \in T PROVE IsFiniteSet(1..n) /\ 1..n \subseteq Nat
    BY FS_Interval
  <2> QED BY <2>1 DEF FiniteSubsetsOf
<1>3. PICK I \in Initial : \A J \in Initial : <<J, I>> \notin Smaller
  <2> HIDE DEF Smaller, Initial
  <2> QED BY <1>1, <1>2, WFMin
<1>4. PICK n \in T : I = 1..n
  OBVIOUS
<1>5. ASSUME NEW k \in T, k < n PROVE FALSE
  <2>1. 1..k \subseteq 1..n /\ n \in 1..n /\ n \notin 1..k
    BY <1>5
  <2>2. <<1..k, 1..n>> \in Smaller
    BY <2>1 DEF StrictSubsetOrdering
  <2> QED BY <1>3, <1>4, <2>2
<1> QED BY <1>5

\* An installment is a loan and a number up to its tenor.
LEMMA IdIsPair ==
  ASSUME NEW i \in Ids
  PROVE  /\ i = <<i[1], i[2]>> /\ i[1] \in Loans
         /\ i[2] \in 1..Terms[i[1]].tenor /\ i[2] \in Nat \ {0}
         /\ i # None /\ i \in OfLoan(i[1])
<1>1. PICK l \in Loans : i \in {l} \X (1..Terms[l].tenor)
  BY DEF Ids
<1>2. i = <<i[1], i[2]>> /\ i[1] = l /\ i[2] \in 1..Terms[l].tenor
  BY <1>1
<1>3. Terms[l].tenor \in Nat
  BY InstallmentsAssumption
<1> QED BY <1>2, <1>3, InstallmentsAssumption DEF OfLoan

LEMMA PairIsId ==
  ASSUME NEW l \in Loans, NEW n \in 1..Terms[l].tenor
  PROVE  <<l, n>> \in Ids /\ <<l, n>> \in OfLoan(l)
<1>1. <<l, n>> \in {l} \X (1..Terms[l].tenor)
  OBVIOUS
<1> QED BY <1>1 DEF Ids, OfLoan

\* Of a loan the number tells the installment.
LEMMA NumberIsEnough ==
  ASSUME NEW l, NEW i \in OfLoan(l), NEW j \in OfLoan(l), i[2] = j[2]
  PROVE  i = j
<1>1. i \in Ids /\ j \in Ids /\ i[1] = j[1]
  BY DEF OfLoan
<1> QED BY <1>1, IdIsPair, Zenon

\* The installments of a loan are finitely many.
LEMMA SomeOfLoanAreFinite ==
  ASSUME NEW l, NEW S \in SUBSET OfLoan(l)
  PROVE  IsFiniteSet(S) /\ Cardinality(S) \in Nat /\ (S # {} => Cardinality(S) >= 1)
<1>1. CASE S = {}
  BY <1>1, FS_EmptySet
<1>2. CASE S # {}
  <2>1. PICK i \in S : i[1] = l
    BY <1>2 DEF OfLoan
  <2>2. l \in Loans
    BY <2>1, IdIsPair DEF OfLoan
  <2>3. Terms[l].tenor \in Nat
    BY <2>2, InstallmentsAssumption
  <2>4. IsFiniteSet({l} \X (1..Terms[l].tenor))
    <3>1. IsFiniteSet({l})
      BY FS_Singleton
    <3>2. IsFiniteSet(1..Terms[l].tenor)
      BY <2>3, FS_Interval
    <3> QED BY <3>1, <3>2, FS_Product
  <2>5. ASSUME NEW j \in OfLoan(l) PROVE j \in {l} \X (1..Terms[l].tenor)
    <3>1. j \in Ids /\ j[1] = l
      BY DEF OfLoan
    <3>2. j = <<j[1], j[2]>> /\ j[2] \in 1..Terms[j[1]].tenor
      BY <3>1, IdIsPair
    <3> QED BY <3>1, <3>2
  <2>6. IsFiniteSet(S)
    BY <2>4, <2>5, FS_Subset
  <2>7. Cardinality(S) \in Nat /\ Cardinality(S) # 0
    BY <1>2, <2>6, FS_CardinalityType, FS_EmptySet
  <2> QED BY <2>6, <2>7
<1> QED BY <1>1, <1>2

\* A set from one loan has a first installment.
LEMMA FirstIsLeast ==
  ASSUME NEW l, NEW S \in SUBSET OfLoan(l), S # {}
  PROVE  First(S) \in S /\ \A j \in S : First(S)[2] <= j[2]
<1>1. \A i \in S : i \in Ids /\ i[2] \in Nat
  BY IdIsPair DEF OfLoan
<1>2. {i[2] : i \in S} \subseteq Nat /\ {i[2] : i \in S} # {}
  BY <1>1
<1>3. PICK n \in {i[2] : i \in S} : \A k \in {i[2] : i \in S} : n <= k
  BY <1>2, LeastNumber
<1>4. \E i \in S : \A j \in S : i[2] <= j[2]
  BY <1>3
<1> QED BY <1>4 DEF First

\* The installments of a loan fall due in their order, each in the month of its number
\* or in the next.
LEMMA DueInFits ==
  ASSUME NEW i \in Ids
  PROVE  DueIn(i) \in {i[2], i[2] + 1}
<1>1. i[1] \in Loans /\ i[2] \in Nat
  BY IdIsPair
<1>2. Terms[i[1]].day \in 1..31
  BY <1>1, InstallmentsAssumption
<1> QED BY <1>1, <1>2, InstallmentsAssumption DEF DueIn, DueMonth

LEMMA DueInOrder ==
  ASSUME NEW i \in Ids, NEW j \in Ids, i[2] < j[2]
  PROVE  DueIn(i) <= DueIn(j)
<1>1. i[2] \in Nat /\ j[2] \in Nat /\ i[2] + 1 <= j[2]
  BY IdIsPair
<1> QED BY <1>1, DueInFits

LEMMA PrincipalFits ==
  ASSUME NEW i \in Ids
  PROVE  Principal(i) \in Int /\ (Bookable(i) => Principal(i) \in Nat)
<1> DEFINE l == i[1]
<1>1. l \in Loans
  BY IdIsPair
<1>2. Terms[l].principal \in Nat /\ Terms[l].tenor \in Nat \ {0}
  BY <1>1, InstallmentsAssumption
<1>3. MonthlyPrincipal(Terms[l].principal, Terms[l].tenor) \in Nat
  BY <1>2, MonthlyPrincipalFits
<1>4. (Terms[l].tenor - 1) * MonthlyPrincipal(Terms[l].principal, Terms[l].tenor) \in Int
  BY <1>2, <1>3
<1>5. Principal(i) \in Int
  BY <1>2, <1>3, <1>4 DEF Principal, PrincipalPart, LastPrincipal
<1> QED BY <1>5 DEF Bookable

-----------------------------------------------------------------------------
(* What a step does. *)

\* Of what is committed, only a loan's transaction and a settlement change anything.
LEMMA CommittedChanges ==
  ASSUME [Next]_vars
  PROVE  \/ UNCHANGED committed
         \/ \E d \in Pods : CommitLoan(d)
         \/ \E p \in Requests : CommitSettlement(p)
BY DEF Next, vars, committed, Tick, Quiet, StartRun, SkipRun, RunProgress, AbortRun, TakeLoan,
       MarkOverdue, FindOldest, ReadPenalty, Fine, FinishRun, EndRun, Settle,
       RequestProgress, AbortRequest, FindInstallment, RefuseBooking, RefusePaid

\* What the transaction of a loan commits.
LEMMA CommitLoanFits ==
  ASSUME IInv, NEW d \in Pods, CommitLoan(d)
  PROVE  /\ run[d].loan \in Loans /\ run[d].marked \in Batch(d)
         /\ run[d].marked \in Ids /\ run[d].marked \in OfLoan(run[d].loan)
         /\ run[d].marked \in run[d].batch /\ owner[run[d].marked] = d
         /\ lapsedIn[run[d].marked] = 0 /\ month > 0 /\ jobLock = d
         /\ status[run[d].marked] = "paid" => run[d].marked \in crossed
         /\ \A j \in OfLoan(run[d].loan) : j[2] < run[d].marked[2] => status[j] # "due"
         /\ run[d].fined # None => FinedFits(d) /\ run[d].fine = 1 /\ LoanFits(d)
<1>1. RunFits(d) /\ run[d].at = "commit"
  BY DEF IInv, CommitLoan
<1>2. LoanFits(d) /\ MarkedFits(d) /\ BatchFits(d) /\ month > 0 /\ jobLock = d
  BY <1>1 DEF RunFits, Running, LoanStatements, MarkedStatements
<1>3. run[d].marked \in Batch(d)
  BY <1>2 DEF MarkedFits
<1>4. run[d].fined # None => FinedFits(d) /\ run[d].fine = 1
  BY <1>1 DEF RunFits, Running, FinedFits
<1> QED BY <1>2, <1>3, <1>4 DEF LoanFits, MarkedFits, BatchFits, Batch, OfLoan

\* What a settlement pays was not paid, and its principal is of the right sign.
LEMMA CommitSettlementFits ==
  ASSUME IInv, NEW p \in Requests, CommitSettlement(p)
  PROVE  /\ request[p].id \in Ids /\ request[p].id[1] \in Loans
         /\ owner[request[p].id] = p /\ status[request[p].id] # "paid"
         /\ Principal(request[p].id) \in Nat
<1>1. RequestFits(p) /\ request[p].at = "book" /\ Bookable(request[p].id)
  BY DEF IInv, CommitSettlement
<1>2. request[p].id \in Ids
  BY <1>1 DEF RequestFits, Asking
<1> QED BY <1>1, <1>2, IdIsPair, PrincipalFits DEF RequestFits

-----------------------------------------------------------------------------
(* The parts of the invariant, one by one. *)

LEMMA InitFits == Init => IInv
<1> SUFFICES ASSUME Init PROVE IInv
  OBVIOUS
<1> USE InstallmentsAssumption DEF Init
<1>1. TypeOK
  BY DEF TypeOK, NoRun, NoRequest
<1>2. (\A d \in Pods : ~Running(d)) /\ (\A p \in Requests : request[p] = NoRequest)
  BY DEF Running, NoRun
<1>3. LapsesFit /\ FewerFinesThanLapses /\ LapsesInOrder /\ SettledOnceUnlessCrossed
  BY DEF LapsesFit, FewerFinesThanLapses, LapsesInOrder, SettledOnceUnlessCrossed, OfLoan
<1>4. \A d \in Pods : RunFits(d)
  BY <1>2 DEF RunFits
<1>5. \A p \in Requests : RequestFits(p)
  BY <1>2 DEF RequestFits, Asking, NoRequest
<1> QED BY <1>1, <1>3, <1>4, <1>5 DEF IInv

LEMMA UnlockedFits ==
  ASSUME TypeOK, NEW a
  PROVE  /\ Unlocked(a) \in [Ids -> Pods \cup Requests \cup {None}]
         /\ \A i \in Ids : Unlocked(a)[i] = IF owner[i] = a THEN None ELSE owner[i]
BY DEF TypeOK, Unlocked

\* What a run is.
RunRecord == [at : {"idle", "nextLoan", "mark", "findOldest", "readPenalty", "fine", "commit"},
              batch : SUBSET Ids, loan : Loans \cup {None}, previous : Nat,
              marked : Ids \cup {None}, fined : Ids \cup {None}, fine : Nat]

LEMMA RunGoesOn ==
  ASSUME TypeOK, NEW d \in Pods, NEW next \in RunRecord, Continue(d, next)
  PROVE  /\ run' \in [Pods -> RunRecord] /\ run'[d] = next
         /\ \A e \in Pods : e # d => run'[e] = run[e]
<1>1. run \in [Pods -> RunRecord]
  BY DEF TypeOK, RunRecord
<1> QED BY <1>1 DEF Continue

LEMMA TypesKept ==
  ASSUME IInv, [Next]_vars
  PROVE  TypeOK'
<1> USE DEF TypeOK, Continue, Lock, committed
<1>t. TypeOK
  BY DEF IInv
<1>r. \A d \in Pods : run[d] \in RunRecord
  BY <1>t DEF RunRecord
<1> HIDE DEF TypeOK, Continue
<1>0. CASE UNCHANGED vars
  BY <1>t, <1>0 DEF TypeOK, vars
<1>1. CASE Tick
  BY <1>t, <1>1, InstallmentsAssumption DEF TypeOK, Tick
<1>2. ASSUME NEW d \in Pods, StartRun(d) \/ SkipRun(d) \/ TakeLoan(d) PROVE TypeOK'
  <2>1. CASE StartRun(d)
    <3>1. PastDue \in SUBSET Ids
      BY DEF PastDue
    <3> QED BY <1>t, <2>1, <3>1 DEF TypeOK, StartRun, NoRun, Continue
  <2>2. CASE SkipRun(d)
    BY <1>t, <2>2 DEF TypeOK, SkipRun
  <2>3. CASE TakeLoan(d)
    <3>1. PICK i \in run[d].batch :
            Continue(d, [run[d] EXCEPT !.at = "mark", !.loan = i[1],
                                       !.previous = Cardinality(Overdue(i[1]))])
      BY <2>3 DEF TakeLoan
    <3>2. i \in Ids
      BY <1>t DEF TypeOK
    <3>3. i[1] \in Loans /\ Cardinality(Overdue(i[1])) \in Nat
      BY <3>2, IdIsPair, SomeOfLoanAreFinite DEF Overdue
    <3>4. [run[d] EXCEPT !.at = "mark", !.loan = i[1],
                         !.previous = Cardinality(Overdue(i[1]))] \in RunRecord
      BY <1>r, <3>3 DEF RunRecord
    <3>5. run' \in [Pods -> RunRecord]
      BY <1>t, <3>1, <3>4, RunGoesOn
    <3> QED BY <1>t, <2>3, <3>5 DEF TypeOK, RunRecord, TakeLoan
  <2> QED BY <1>2, <2>1, <2>2, <2>3
<1>3. ASSUME NEW d \in Pods, MarkOverdue(d) PROVE TypeOK'
  <2>1. ToMark(d) \in Ids
    <3>1. Batch(d) \subseteq OfLoan(run[d].loan) /\ Batch(d) # {}
      BY <1>3 DEF IInv, RunFits, Running, MarkOverdue, LoanStatements, LoanFits, Batch
    <3> QED BY <3>1, FirstIsLeast DEF ToMark, OfLoan
  <2>2. [run[d] EXCEPT !.at = IF PenaltyDue(d) THEN "findOldest" ELSE "commit",
                       !.marked = ToMark(d)] \in RunRecord
    BY <1>r, <2>1 DEF RunRecord
  <2>3. run' \in [Pods -> RunRecord]
    BY <1>t, <1>3, <2>2, RunGoesOn DEF MarkOverdue
  <2> QED BY <1>t, <1>3, <2>1, <2>3 DEF TypeOK, RunRecord, MarkOverdue
<1>4. ASSUME NEW d \in Pods, FindOldest(d) PROVE TypeOK'
  <2>1. Unpenalized(d) # {} => First(Unpenalized(d)) \in Ids
    <3>1. run[d].marked \in OfLoan(run[d].loan)
      BY <1>4 DEF IInv, RunFits, Running, FindOldest, LoanStatements, MarkedStatements,
                  MarkedFits, Batch
    <3>2. Unpenalized(d) \subseteq OfLoan(run[d].loan)
      BY <3>1 DEF Unpenalized, Overdue
    <3> QED BY <3>2, FirstIsLeast DEF OfLoan
  <2>2. /\ [run[d] EXCEPT !.at = "commit"] \in RunRecord
        /\ Unpenalized(d) # {} =>
             [run[d] EXCEPT !.at = "readPenalty", !.fined = First(Unpenalized(d))] \in RunRecord
    BY <1>r, <2>1 DEF RunRecord
  <2>3. run' \in [Pods -> RunRecord]
    BY <1>t, <1>4, <2>2, RunGoesOn DEF FindOldest
  <2> QED BY <1>t, <1>4, <2>3 DEF TypeOK, RunRecord, FindOldest
<1>5. ASSUME NEW d \in Pods, ReadPenalty(d) \/ Fine(d) PROVE TypeOK'
  <2>1. CASE ReadPenalty(d)
    <3>1. run[d].fined \in Ids
      BY <1>t, <2>1 DEF TypeOK, IInv, RunFits, Running, ReadPenalty
    <3>2. penalty[run[d].fined] + 1 \in Nat
      BY <1>t, <3>1 DEF TypeOK
    <3>3. [run[d] EXCEPT !.at = "fine", !.fine = penalty[run[d].fined] + 1] \in RunRecord
      BY <1>r, <3>2 DEF RunRecord
    <3>4. run' \in [Pods -> RunRecord]
      BY <1>t, <2>1, <3>3, RunGoesOn DEF ReadPenalty
    <3> QED BY <1>t, <2>1, <3>4 DEF TypeOK, RunRecord, ReadPenalty
  <2>2. CASE Fine(d)
    <3>1. [run[d] EXCEPT !.at = "commit"] \in RunRecord
      BY <1>r DEF RunRecord
    <3>2. run' \in [Pods -> RunRecord]
      BY <1>t, <2>2, <3>1, RunGoesOn DEF Fine
    <3> QED BY <1>t, <2>2, <3>2 DEF TypeOK, RunRecord, Fine
  <2> QED BY <1>5, <2>1, <2>2
<1>6. ASSUME NEW d \in Pods, CommitLoan(d) PROVE TypeOK'
  <2>1. run[d].marked \in Ids
    BY <1>6, CommitLoanFits
  <2>2. penalty' \in [Ids -> Nat]
    BY <1>t, <1>6 DEF TypeOK, CommitLoan
  <2>3. owner' \in [Ids -> Pods \cup Requests \cup {None}]
    BY <1>t, <1>6, UnlockedFits DEF CommitLoan
  <2>4. run[d].batch \ OfLoan(run[d].loan) \in SUBSET Ids
    BY <1>t DEF TypeOK
  <2> QED BY <1>t, <1>6, <2>1, <2>2, <2>3, <2>4 DEF TypeOK, CommitLoan, NoRun, Continue
<1>7. ASSUME NEW d \in Pods, EndRun(d) PROVE TypeOK'
  <2>1. owner' \in [Ids -> Pods \cup Requests \cup {None}]
    BY <1>t, <1>7, UnlockedFits DEF EndRun
  <2> QED BY <1>t, <1>7, <2>1 DEF TypeOK, EndRun, NoRun, Continue
<1>8. ASSUME NEW p \in Requests, Settle(p) \/ FindInstallment(p) PROVE TypeOK'
  BY <1>t, <1>8 DEF TypeOK, Settle, FindInstallment
<1>9. ASSUME NEW p \in Requests, EndRequest(p), UNCHANGED committed PROVE TypeOK'
  <2>1. owner' \in [Ids -> Pods \cup Requests \cup {None}]
    BY <1>t, <1>9, UnlockedFits DEF EndRequest
  <2> QED BY <1>t, <1>9, <2>1 DEF TypeOK, EndRequest
<1>10. ASSUME NEW p \in Requests, CommitSettlement(p) PROVE TypeOK'
  <2>1. /\ request[p].id \in Ids /\ request[p].id[1] \in Loans
        /\ Principal(request[p].id) \in Nat
    BY <1>10, CommitSettlementFits
  <2>2. owner' \in [Ids -> Pods \cup Requests \cup {None}]
    BY <1>t, <1>10, UnlockedFits DEF CommitSettlement, EndRequest
  <2> DEFINE i == request[p].id
  <2>3. /\ status' = [status EXCEPT ![i] = "paid"] /\ times' = [times EXCEPT ![i] = @ + 1]
        /\ collected' = [collected EXCEPT ![i] = @ + penalty[i]]
        /\ repaid' = [repaid EXCEPT ![i[1]] = @ + Principal(i)]
        /\ crossed' \subseteq crossed \cup {i}
    BY <1>10 DEF CommitSettlement, PenaltyBooked
  <2>4. /\ status' \in [Ids -> {"due", "overdue", "paid"}] /\ times' \in [Ids -> Nat]
        /\ collected' \in [Ids -> Nat] /\ crossed' \subseteq Ids
    BY <1>t, <2>1, <2>3 DEF TypeOK
  <2>5. repaid' \in [Loans -> Nat]
    BY <1>t, <2>1, <2>3 DEF TypeOK
  <2> QED BY <1>t, <1>10, <2>2, <2>4, <2>5 DEF TypeOK, CommitSettlement, EndRequest
<1> QED
  BY <1>0, <1>1, <1>2, <1>3, <1>4, <1>5, <1>6, <1>7, <1>8, <1>9, <1>10
  DEF Next, Quiet, RunProgress, FinishRun, AbortRun, RequestProgress, RefuseBooking,
      RefusePaid, AbortRequest

\* What the two steps that commit leave in each installment.
LEMMA CommitLoanEffect ==
  ASSUME IInv, NEW d \in Pods, CommitLoan(d), NEW i \in Ids
  PROVE  /\ status'[i] = IF i = run[d].marked THEN "overdue" ELSE status[i]
         /\ lapsedIn'[i] = IF i = run[d].marked THEN month ELSE lapsedIn[i]
         /\ penalty'[i] = IF i = run[d].fined THEN run[d].fine ELSE penalty[i]
         /\ UNCHANGED <<times, collected, repaid, crossed>>
BY CommitLoanFits DEF CommitLoan, IInv, TypeOK

LEMMA CommitSettlementEffect ==
  ASSUME IInv, NEW p \in Requests, CommitSettlement(p), NEW i \in Ids
  PROVE  /\ status'[i] = IF i = request[p].id THEN "paid" ELSE status[i]
         /\ times'[i] = IF i = request[p].id THEN times[i] + 1 ELSE times[i]
         /\ collected'[i] = IF i = request[p].id THEN collected[i] + penalty[i]
                                                 ELSE collected[i]
         /\ crossed' \in {crossed, crossed \cup {request[p].id}}
         /\ UNCHANGED <<penalty, lapsedIn>>
<1>1. request[p].id \in Ids
  BY CommitSettlementFits
<1> QED BY <1>1 DEF CommitSettlement, PenaltyBooked, IInv, TypeOK

LEMMA LapsesKept ==
  ASSUME IInv, [Next]_vars
  PROVE  LapsesFit'
<1>1. CASE UNCHANGED committed
  BY <1>1 DEF IInv, LapsesFit, committed
<1>2. ASSUME NEW d \in Pods, CommitLoan(d) PROVE LapsesFit'
  <2>1. month > 0
    BY <1>2, CommitLoanFits
  <2> QED BY <1>2, <2>1, CommitLoanEffect DEF IInv, LapsesFit
<1>3. ASSUME NEW p \in Requests, CommitSettlement(p) PROVE LapsesFit'
  BY <1>3, CommitSettlementEffect DEF IInv, LapsesFit
<1> QED BY <1>1, <1>2, <1>3, CommittedChanges

\* An installment is marked when nothing due comes before it.
LEMMA OrderKept ==
  ASSUME IInv, [Next]_vars
  PROVE  LapsesInOrder'
<1>1. CASE UNCHANGED committed
  BY <1>1 DEF IInv, LapsesInOrder, committed
<1>2. ASSUME NEW d \in Pods, CommitLoan(d) PROVE LapsesInOrder'
  <2> SUFFICES ASSUME NEW i \in Ids, NEW j \in Ids,
                      i[1] = j[1], i[2] < j[2], lapsedIn'[j] > 0
               PROVE  status'[i] # "due"
    BY DEF LapsesInOrder
  <2>1. CASE j = run[d].marked
    <3>1. i \in OfLoan(run[d].loan)
      BY <1>2, <2>1, CommitLoanFits DEF OfLoan
    <3> QED BY <1>2, <2>1, <3>1, CommitLoanFits, CommitLoanEffect
  <2>2. CASE j # run[d].marked
    <3>1. lapsedIn[j] > 0
      BY <1>2, <2>2, CommitLoanEffect
    <3> QED BY <1>2, <3>1, CommitLoanEffect DEF IInv, LapsesInOrder
  <2> QED BY <2>1, <2>2
<1>3. ASSUME NEW p \in Requests, CommitSettlement(p) PROVE LapsesInOrder'
  BY <1>3, CommitSettlementEffect DEF IInv, LapsesInOrder
<1> QED BY <1>1, <1>2, <1>3, CommittedChanges

\* A payment that no run crossed is found neither marked nor fined afterwards.
LEMMA SettledOnceKept ==
  ASSUME IInv, [Next]_vars
  PROVE  SettledOnceUnlessCrossed'
<1>1. CASE UNCHANGED committed
  BY <1>1 DEF IInv, SettledOnceUnlessCrossed, committed
<1>2. ASSUME NEW d \in Pods, CommitLoan(d) PROVE SettledOnceUnlessCrossed'
  <2> SUFFICES ASSUME NEW i \in Ids, i \notin crossed'
               PROVE  IF status'[i] = "paid" THEN times'[i] = 1 /\ collected'[i] = penalty'[i]
                                             ELSE times'[i] = 0 /\ collected'[i] = 0
    BY DEF SettledOnceUnlessCrossed
  <2>1. i \notin crossed
    BY <1>2, CommitLoanEffect
  <2>2. i = run[d].marked => status[i] # "paid"
    BY <1>2, <2>1, CommitLoanFits
  <2>3. i = run[d].fined => status[i] # "paid"
    BY <1>2, <2>1, CommitLoanFits, IdIsPair DEF FinedFits
  <2> QED BY <1>2, <2>1, <2>2, <2>3, CommitLoanEffect DEF IInv, SettledOnceUnlessCrossed
<1>3. ASSUME NEW p \in Requests, CommitSettlement(p) PROVE SettledOnceUnlessCrossed'
  <2> SUFFICES ASSUME NEW i \in Ids, i \notin crossed'
               PROVE  IF status'[i] = "paid" THEN times'[i] = 1 /\ collected'[i] = penalty'[i]
                                             ELSE times'[i] = 0 /\ collected'[i] = 0
    BY DEF SettledOnceUnlessCrossed
  <2>1. i \notin crossed
    BY <1>3, CommitSettlementEffect
  <2>2. IF status[i] = "paid" THEN times[i] = 1 /\ collected[i] = penalty[i]
                              ELSE times[i] = 0 /\ collected[i] = 0
    BY <2>1 DEF IInv, SettledOnceUnlessCrossed
  <2>3. i = request[p].id => status[i] # "paid"
    BY <1>3, CommitSettlementFits
  <2>4. penalty[i] \in Nat
    BY DEF IInv, TypeOK
  <2> QED BY <1>3, <2>2, <2>3, <2>4, CommitSettlementEffect
<1> QED BY <1>1, <1>2, <1>3, CommittedChanges

\* A loan's lapses and penalties, and what FewerFinesThanLapses says of them.
LapsedOf(l) == {i \in OfLoan(l) : lapsedIn[i] > 0}
FinedOf(l) == {i \in OfLoan(l) : penalty[i] > 0}

FewerFines(l) ==
  /\ FinedOf(l) # {} =>
       FinedOf(l) \subseteq LapsedOf(l) /\ Cardinality(FinedOf(l)) < Cardinality(LapsedOf(l))
  /\ \A i \in FinedOf(l) : penalty[i] = 1

LEMMA FinesLoanByLoan == FewerFinesThanLapses <=> \A l \in Loans : FewerFines(l)
BY DEF FewerFinesThanLapses, FewerFines, LapsedOf, FinedOf

\* One more lapse makes room for one more penalty.
LEMMA OneMoreFine ==
  ASSUME NEW l, NEW Lapsed \in SUBSET OfLoan(l), NEW Fined \in SUBSET OfLoan(l),
         NEW m \in OfLoan(l) \ Lapsed, NEW f \in OfLoan(l) \ Fined,
         Fined # {} => Fined \subseteq Lapsed /\ Cardinality(Fined) < Cardinality(Lapsed)
  PROVE  /\ Fined # {} => Cardinality(Fined) < Cardinality(Lapsed \cup {m})
         /\ Lapsed # {} => Cardinality(Fined \cup {f}) < Cardinality(Lapsed \cup {m})
<1>1. /\ IsFiniteSet(Lapsed) /\ Cardinality(Lapsed) \in Nat
      /\ Lapsed # {} => Cardinality(Lapsed) >= 1
      /\ IsFiniteSet(Fined) /\ Cardinality(Fined) \in Nat
  BY SomeOfLoanAreFinite
<1>2. Cardinality(Lapsed \cup {m}) = Cardinality(Lapsed) + 1
  BY <1>1, FS_AddElement
<1>3. Cardinality(Fined \cup {f}) = Cardinality(Fined) + 1
  BY <1>1, FS_AddElement
<1>4. Fined = {} => Cardinality(Fined) = 0
  BY FS_EmptySet
<1> QED BY <1>1, <1>2, <1>3, <1>4

LEMMA FinesKept ==
  ASSUME IInv, [Next]_vars
  PROVE  FewerFinesThanLapses'
<1> SUFFICES ASSUME NEW l \in Loans PROVE FewerFines(l)'
  BY FinesLoanByLoan DEF FewerFinesThanLapses, FewerFines, LapsedOf, FinedOf
<1>f. FewerFines(l)
  BY FinesLoanByLoan DEF IInv
<1>o. OfLoan(l)' = OfLoan(l) /\ OfLoan(l) \subseteq Ids
  BY DEF OfLoan
<1>1. CASE UNCHANGED committed
  BY <1>1, <1>f, <1>o DEF FewerFines, LapsedOf, FinedOf, committed
<1>2. ASSUME NEW p \in Requests, CommitSettlement(p) PROVE FewerFines(l)'
  BY <1>2, <1>f, <1>o DEF CommitSettlement, FewerFines, LapsedOf, FinedOf
<1>3. ASSUME NEW d \in Pods, CommitLoan(d) PROVE FewerFines(l)'
  <2> DEFINE m == run[d].marked
             f == run[d].fined
  <2>1. \A i \in OfLoan(l) : /\ lapsedIn'[i] = IF i = m THEN month ELSE lapsedIn[i]
                             /\ penalty'[i] = IF i = f THEN run[d].fine ELSE penalty[i]
    BY <1>3, <1>o, CommitLoanEffect
  <2>2. CASE l # run[d].loan
    <3>1. m \notin OfLoan(l)
      BY <1>3, <2>2, CommitLoanFits DEF OfLoan
    <3>2. f \notin OfLoan(l)
      <4>1. CASE f = None
        BY <4>1, IdIsPair DEF OfLoan
      <4>2. CASE f # None
        BY <1>3, <2>2, <4>2, CommitLoanFits DEF FinedFits, OfLoan
      <4> QED BY <4>1, <4>2
    <3>3. LapsedOf(l)' = LapsedOf(l) /\ FinedOf(l)' = FinedOf(l)
      BY <1>o, <2>1, <3>1, <3>2 DEF LapsedOf, FinedOf
    <3>4. \A i \in FinedOf(l) : penalty'[i] = penalty[i]
      BY <2>1, <3>2 DEF FinedOf
    <3> QED BY <1>f, <3>3, <3>4 DEF FewerFines
  <2>3. CASE l = run[d].loan
    <3>1. m \in OfLoan(l) \ LapsedOf(l) /\ month > 0
      BY <1>3, <2>3, CommitLoanFits DEF LapsedOf
    <3>2. LapsedOf(l)' = LapsedOf(l) \cup {m}
      BY <1>o, <2>1, <3>1 DEF LapsedOf
    <3>3. LapsedOf(l) \in SUBSET OfLoan(l) /\ FinedOf(l) \in SUBSET OfLoan(l)
      BY DEF LapsedOf, FinedOf
    <3>4. CASE f = None
      <4>1. f \notin OfLoan(l)
        BY <3>4, IdIsPair DEF OfLoan
      <4>2. FinedOf(l)' = FinedOf(l) /\ \A i \in FinedOf(l) : penalty'[i] = penalty[i]
        BY <1>o, <2>1, <4>1 DEF FinedOf
      <4>3. m \in OfLoan(l) \ FinedOf(l)
        BY <1>f, <3>1 DEF FewerFines
      <4>4. FinedOf(l) # {} => Cardinality(FinedOf(l)) < Cardinality(LapsedOf(l) \cup {m})
        BY <1>f, <3>1, <3>3, <4>3, OneMoreFine DEF FewerFines
      <4> QED BY <1>f, <3>2, <4>2, <4>4 DEF FewerFines
    <3>5. CASE f # None
      <4>1. /\ f \in OfLoan(l) /\ penalty[f] = 0 /\ run[d].fine = 1
            /\ f = m \/ f \in LapsedOf(l)
            /\ LapsedOf(l) # {}
        BY <1>3, <2>3, <3>5, CommitLoanFits DEF FinedFits, LoanFits, LapsedOf
      <4>2. f \in OfLoan(l) \ FinedOf(l)
        BY <4>1 DEF FinedOf
      <4>3. FinedOf(l)' = FinedOf(l) \cup {f}
        BY <1>o, <2>1, <4>1 DEF FinedOf
      <4>4. Cardinality(FinedOf(l) \cup {f}) < Cardinality(LapsedOf(l) \cup {m})
        BY <1>f, <3>1, <3>3, <4>1, <4>2, OneMoreFine DEF FewerFines
      <4>5. \A i \in FinedOf(l)' : penalty'[i] = 1
        BY <1>f, <2>1, <3>3, <4>1, <4>3 DEF FewerFines
      <4> QED BY <1>f, <3>2, <4>1, <4>3, <4>4, <4>5 DEF FewerFines
    <3> QED BY <3>4, <3>5
  <2> QED BY <2>2, <2>3
<1> QED BY <1>1, <1>2, <1>3, CommittedChanges

LEMMA RequestsKept ==
  ASSUME IInv, [Next]_vars, NEW p \in Requests
  PROVE  RequestFits(p)'
<1>r. RequestFits(p)
  BY DEF IInv
<1>t. TypeOK
  BY DEF IInv
<1>1. ASSUME \/ UNCHANGED vars
             \/ Tick
             \/ \E d \in Pods : StartRun(d) \/ SkipRun(d) \/ TakeLoan(d) \/ FindOldest(d)
                                  \/ ReadPenalty(d)
      PROVE  RequestFits(p)'
  BY <1>1, <1>r DEF RequestFits, Asking, vars, committed, Tick, StartRun, SkipRun, TakeLoan,
                    FindOldest, ReadPenalty
<1>2. ASSUME NEW d \in Pods, MarkOverdue(d) \/ Fine(d)
      PROVE  RequestFits(p)'
  <2>1. request' = request /\ status' = status
    BY <1>2 DEF MarkOverdue, Fine, committed
  <2>2. \A i \in Ids : owner[i] = p => owner'[i] = p
    BY <1>2, <1>t, InstallmentsAssumption DEF TypeOK, MarkOverdue, Fine, Lock
  <2> QED BY <1>r, <2>1, <2>2 DEF RequestFits, Asking
<1>3. ASSUME NEW d \in Pods, EndRun(d) \/ CommitLoan(d)
      PROVE  RequestFits(p)'
  <2>1. request' = request
    BY <1>3 DEF EndRun, CommitLoan
  <2>2. \A i \in Ids : owner[i] = p => owner'[i] = p
    <3>1. owner' = Unlocked(d) /\ p # d
      BY <1>3, InstallmentsAssumption DEF EndRun, CommitLoan
    <3> QED BY <1>t, <3>1, UnlockedFits
  <2>3. \A i \in Ids : owner[i] = p => status'[i] = status[i]
    <3>1. CASE EndRun(d)
      BY <3>1 DEF EndRun, committed
    <3>2. CASE CommitLoan(d)
      <4>1. owner[run[d].marked] # p
        BY <3>2, CommitLoanFits, InstallmentsAssumption
      <4> QED BY <3>2, <4>1, CommitLoanEffect
    <3> QED BY <1>3, <3>1, <3>2
  <2> QED BY <1>r, <2>1, <2>2, <2>3 DEF RequestFits, Asking
<1>4. ASSUME NEW q \in Requests, Settle(q) \/ FindInstallment(q)
      PROVE  RequestFits(p)'
  <2>1. CASE q # p
    <3>1. request'[p] = request[p] /\ status' = status
      BY <1>4, <1>t, <2>1 DEF Settle, FindInstallment, committed, TypeOK
    <3>2. \A i \in Ids : owner[i] = p => owner'[i] = p
      BY <1>4, <1>t, <2>1, InstallmentsAssumption DEF TypeOK, Settle, FindInstallment, Lock
    <3> QED BY <1>r, <3>1, <3>2 DEF RequestFits, Asking
  <2>2. CASE Settle(p)
    BY <1>t, <2>2 DEF Settle, RequestFits, Asking, TypeOK
  <2>3. CASE FindInstallment(p)
    <3>1. request[p].id \in Ids
      BY <1>r, <2>3 DEF FindInstallment, RequestFits, Asking
    <3> QED BY <1>t, <2>3, <3>1 DEF FindInstallment, RequestFits, Asking, TypeOK, Lock,
                                     Payable, committed
  <2> QED BY <1>4, <2>1, <2>2, <2>3
<1>5. ASSUME NEW q \in Requests, EndRequest(q), UNCHANGED committed \/ CommitSettlement(q)
      PROVE  RequestFits(p)'
  <2>1. CASE q = p
    BY <1>5, <1>t, <2>1 DEF EndRequest, RequestFits, Asking, TypeOK
  <2>2. CASE q # p
    <3>1. request'[p] = request[p] /\ owner' = Unlocked(q)
      BY <1>5, <1>t, <2>2 DEF EndRequest, TypeOK
    <3>2. \A i \in Ids : owner[i] = p => owner'[i] = p
      BY <1>t, <2>2, <3>1, UnlockedFits
    <3>3. \A i \in Ids : owner[i] = p => status'[i] = status[i]
      <4>1. CASE UNCHANGED committed
        BY <4>1 DEF committed
      <4>2. CASE CommitSettlement(q)
        BY <2>2, <4>2, CommitSettlementFits, CommitSettlementEffect
      <4> QED BY <1>5, <4>1, <4>2
    <3> QED BY <1>r, <3>1, <3>2, <3>3 DEF RequestFits, Asking
  <2> QED BY <2>1, <2>2
<1> QED
  BY <1>1, <1>2, <1>3, <1>4, <1>5
  DEF Next, Quiet, RunProgress, FinishRun, AbortRun, RequestProgress, RefuseBooking,
      RefusePaid, AbortRequest, CommitSettlement

\* A run is a record, and the pod that runs holds the lock of the job.
LEMMA RunFields ==
  ASSUME IInv, NEW d \in Pods
  PROVE  /\ run[d] \in RunRecord /\ run[d].batch \subseteq Ids
         /\ Batch(d) = run[d].batch \cap OfLoan(run[d].loan) /\ Batch(d) \subseteq Ids
         /\ RunFits(d) /\ (Running(d) => jobLock = d /\ month > 0)
BY DEF IInv, TypeOK, RunRecord, Batch, RunFits

\* A run that only sees locks of others come and go.
LEMMA RunUndisturbed ==
  ASSUME IInv, NEW d \in Pods, Running(d), run'[d] = run[d],
         UNCHANGED <<committed, jobLock, month>>,
         \A i \in Ids : owner[i] = d => owner'[i] = d
  PROVE  RunFits(d)'
<1>1. RunFits(d) /\ Batch(d)' = Batch(d) /\ Running(d)'
  BY RunFields DEF Batch, OfLoan, Running
<1>2. BatchFits(d)'
  BY <1>1 DEF RunFits, BatchFits, OfLoan, committed
<1>3. LoanFits(d) => LoanFits(d)'
  BY <1>1 DEF LoanFits, OfLoan, committed
<1>4. MarkedFits(d) => MarkedFits(d)'
  BY <1>1, RunFields DEF MarkedFits, OfLoan, committed
<1>5. FinedFits(d) => FinedFits(d)'
  BY DEF FinedFits, OfLoan, committed
<1>6. PenaltyDue(d)' = PenaltyDue(d)
  BY DEF PenaltyDue
<1> QED BY <1>1, <1>2, <1>3, <1>4, <1>5, <1>6 DEF RunFits, Running

\* A run while a settlement is committed: what it is concerned with becomes crossed.
LEMMA RunCrossed ==
  ASSUME IInv, NEW d \in Pods, Running(d), NEW p \in Requests, CommitSettlement(p)
  PROVE  RunFits(d)'
<1> DEFINE x == request[p].id
<1>1. /\ RunFits(d) /\ Batch(d)' = Batch(d) /\ Running(d)' /\ run'[d] = run[d]
      /\ run[d].batch \subseteq Ids
      /\ jobLock' = jobLock /\ month' = month
  BY RunFields DEF Batch, OfLoan, Running, CommitSettlement, EndRequest
<1>2. /\ \A i \in Ids : status'[i] = IF i = x THEN "paid" ELSE status[i]
      /\ UNCHANGED <<penalty, lapsedIn>> /\ crossed \subseteq crossed'
  BY CommitSettlementEffect DEF CommitSettlement
<1>3. Concerns(d, x) => x \in crossed'
  BY DEF CommitSettlement
<1>4. \A i \in Ids : owner[i] = d => owner'[i] = d
  <2>1. owner' = Unlocked(p) /\ p # d
    BY InstallmentsAssumption DEF CommitSettlement, EndRequest
  <2> QED BY <2>1, UnlockedFits DEF IInv
<1>5. BatchFits(d)'
  <2> SUFFICES ASSUME NEW i \in run[d].batch
               PROVE  /\ lapsedIn'[i] = 0
                      /\ status'[i] # "overdue"
                      /\ status'[i] = "paid" => i \in crossed'
                      /\ \A j \in OfLoan(i[1]) :
                           j[2] < i[2] /\ status'[j] = "due" => j \in run[d].batch
    BY <1>1 DEF BatchFits, OfLoan
  <2>1. i \in Ids /\ (i = x => i \in crossed')
    BY <1>1, <1>3 DEF Concerns
  <2>2. \A j \in OfLoan(i[1]) : j \in Ids
    BY DEF OfLoan
  <2> QED BY <1>1, <1>2, <2>1, <2>2 DEF RunFits, BatchFits
<1>6. LoanFits(d) => LoanFits(d)'
  BY <1>1, <1>2 DEF LoanFits, OfLoan
<1>7. MarkedFits(d) => MarkedFits(d)'
  BY <1>1, <1>2, <1>4, RunFields DEF MarkedFits, OfLoan
<1>8. run[d].fined # None /\ FinedFits(d) => FinedFits(d)'
  <2> SUFFICES ASSUME run[d].fined # None, FinedFits(d) PROVE FinedFits(d)'
    OBVIOUS
  <2>1. run[d].fined \in Ids /\ (run[d].fined = x => run[d].fined \in crossed')
    BY <1>3 DEF FinedFits, OfLoan, Concerns
  <2> QED BY <1>1, <1>2, <2>1 DEF FinedFits, OfLoan
<1>9. PenaltyDue(d)' = PenaltyDue(d)
  BY <1>1 DEF PenaltyDue
<1> QED BY <1>1, <1>5, <1>6, <1>7, <1>8, <1>9 DEF RunFits, Running

\* The run of another pod, or of none, and the requests.
LEMMA OthersKeepRun ==
  ASSUME IInv, NEW d \in Pods,
         \/ UNCHANGED vars \/ Tick
         \/ \E e \in Pods : e # d /\ (StartRun(e) \/ SkipRun(e) \/ RunProgress(e) \/ AbortRun(e))
         \/ SkipRun(d)
         \/ \E p \in Requests : Settle(p) \/ RequestProgress(p) \/ AbortRequest(p)
  PROVE  RunFits(d)'
<1>0. CASE ~Running(d)
  <2>1. run'[d] = run[d]
    <3>1. ASSUME NEW e \in Pods, e # d, NEW next, Continue(e, next) PROVE run'[d] = run[d]
      BY <3>1 DEF Continue, IInv, TypeOK
    <3>2. ASSUME NEW e \in Pods, e # d, StartRun(e) \/ RunProgress(e) \/ AbortRun(e)
          PROVE  run'[d] = run[d]
      BY <3>1, <3>2 DEF StartRun, RunProgress, AbortRun, TakeLoan, MarkOverdue, FindOldest,
                        ReadPenalty, Fine, CommitLoan, FinishRun, EndRun
    <3> QED BY <3>2 DEF vars, Tick, SkipRun, Settle, RequestProgress, AbortRequest,
                        FindInstallment, CommitSettlement, RefuseBooking, RefusePaid, EndRequest
  <2> QED BY <1>0, <2>1 DEF RunFits, Running
<1>1. CASE Running(d)
  <2>0. jobLock = d /\ d # None
    BY <1>1, RunFields, InstallmentsAssumption
  <2>1. CASE UNCHANGED vars \/ SkipRun(d)
    BY <1>1, <2>1, RunUndisturbed DEF vars, SkipRun
  <2>2. CASE Tick
    BY <1>1, <2>2 DEF Tick
  <2>3. ASSUME NEW e \in Pods, e # d, StartRun(e) \/ RunProgress(e) \/ AbortRun(e) PROVE FALSE
    <3>1. StartRun(e) => FALSE
      BY <2>0 DEF StartRun, JobLockFree
    <3>2. RunProgress(e) \/ AbortRun(e) => Running(e)
      BY DEF RunProgress, AbortRun, TakeLoan, MarkOverdue, FindOldest, ReadPenalty, Fine,
             CommitLoan, FinishRun, Running
    <3> QED BY <2>0, <2>3, <3>1, <3>2, RunFields
  <2>4. ASSUME NEW e \in Pods, SkipRun(e) PROVE RunFits(d)'
    BY <1>1, <2>4, RunUndisturbed DEF SkipRun
  <2>5. ASSUME NEW p \in Requests, Settle(p) \/ FindInstallment(p) PROVE RunFits(d)'
    <3>1. \A i \in Ids : owner[i] = d => owner'[i] = d
      BY <2>0, <2>5 DEF Settle, FindInstallment, Lock, IInv, TypeOK
    <3> QED BY <1>1, <2>5, <3>1, RunUndisturbed DEF Settle, FindInstallment
  <2>6. ASSUME NEW p \in Requests, EndRequest(p), UNCHANGED committed PROVE RunFits(d)'
    <3>1. \A i \in Ids : owner[i] = d => owner'[i] = d
      <4>1. owner' = Unlocked(p) /\ p # d
        BY <2>6, InstallmentsAssumption DEF EndRequest
      <4> QED BY <4>1, UnlockedFits DEF IInv
    <3> QED BY <1>1, <2>6, <3>1, RunUndisturbed DEF EndRequest
  <2>7. ASSUME NEW p \in Requests, CommitSettlement(p) PROVE RunFits(d)'
    BY <1>1, <2>7, RunCrossed
  <2> QED
    BY <2>1, <2>2, <2>3, <2>4, <2>5, <2>6, <2>7
    DEF RequestProgress, AbortRequest, RefuseBooking, RefusePaid
<1> QED BY <1>0, <1>1

\* The run itself, statement by statement.
LEMMA RunKept ==
  ASSUME IInv, NEW d \in Pods, StartRun(d) \/ RunProgress(d) \/ AbortRun(d)
  PROVE  RunFits(d)'
<1>t. TypeOK /\ run[d] \in RunRecord
  BY RunFields DEF IInv
<1>1. CASE StartRun(d)
  <2>1. run'[d] = [NoRun EXCEPT !.at = "nextLoan", !.batch = PastDue]
    BY <1>1, <1>t DEF StartRun, Continue, TypeOK
  <2>2. /\ run'[d].at = "nextLoan" /\ run'[d].batch = PastDue /\ run'[d].fined = None
        /\ UNCHANGED <<month, committed>> /\ jobLock' = d
    BY <1>1, <2>1 DEF StartRun, NoRun
  <2>3. month > 0
    BY <1>1, <1>t, InstallmentsAssumption DEF StartRun, TypeOK
  <2>4. BatchFits(d)'
    <3> SUFFICES ASSUME NEW i \in PastDue
                 PROVE  /\ lapsedIn[i] = 0 /\ status[i] = "due"
                        /\ \A j \in OfLoan(i[1]) : j[2] < i[2] /\ status[j] = "due"
                                                     => j \in PastDue
      BY <2>2 DEF BatchFits, OfLoan, committed
    <3>1. i \in Ids /\ status[i] = "due" /\ DueIn(i) <= month
      BY DEF PastDue
    <3>2. ASSUME NEW j \in OfLoan(i[1]), j[2] < i[2], status[j] = "due" PROVE j \in PastDue
      <4>1. j \in Ids
        BY DEF OfLoan
      <4>2. DueIn(j) \in Int /\ DueIn(i) \in Int /\ month \in Int /\ DueIn(j) <= DueIn(i)
        BY <1>t, <3>1, <3>2, <4>1, DueInFits, DueInOrder, IdIsPair, InstallmentsAssumption
        DEF TypeOK
      <4> QED BY <3>1, <3>2, <4>1, <4>2 DEF PastDue
    <3> QED BY <3>1, <3>2 DEF IInv, LapsesFit
  <2> QED BY <2>2, <2>3, <2>4 DEF RunFits, LoanStatements, MarkedStatements, PenaltyStatements
<1> DEFINE Same == /\ run'[d].batch = run[d].batch /\ run'[d].loan = run[d].loan
                   /\ run'[d].previous = run[d].previous
<1>s. ASSUME Running(d), UNCHANGED <<month, committed, jobLock>>
      PROVE  /\ jobLock' = d /\ month' > 0
             /\ run'[d].batch = run[d].batch => BatchFits(d)'
             /\ Same /\ LoanFits(d) => LoanFits(d)' /\ Batch(d)' = Batch(d)
  <2>1. jobLock' = d /\ month' > 0 /\ BatchFits(d)
    BY <1>s, RunFields DEF RunFits
  <2>2. run'[d].batch = run[d].batch => BatchFits(d)'
    BY <1>s, <2>1 DEF BatchFits, OfLoan, committed
  <2>3. Same => Batch(d)' = Batch(d)
    BY DEF Batch, OfLoan
  <2> QED BY <1>s, <2>1, <2>2, <2>3 DEF LoanFits, OfLoan, committed
<1>2. CASE TakeLoan(d)
  <2>1. PICK i \in run[d].batch :
          Continue(d, [run[d] EXCEPT !.at = "mark", !.loan = i[1],
                                     !.previous = Cardinality(Overdue(i[1]))])
    BY <1>2 DEF TakeLoan
  <2>2. run'[d] = [run[d] EXCEPT !.at = "mark", !.loan = i[1],
                                 !.previous = Cardinality(Overdue(i[1]))]
    BY <1>t, <2>1 DEF Continue, TypeOK
  <2>3. /\ run'[d].at = "mark" /\ run'[d].loan = i[1] /\ run'[d].batch = run[d].batch
        /\ run'[d].previous = Cardinality(Overdue(i[1])) /\ run'[d].fined = run[d].fined
    BY <1>t, <2>2 DEF RunRecord
  <2>4. Running(d) /\ UNCHANGED <<month, committed, jobLock>> /\ run[d].fined = None
    BY <1>2, RunFields DEF TakeLoan, Running, RunFits, FinedFits
  <2>5. LoanFits(d)'
    <3>1. i \in Ids /\ i[1] \in Loans /\ i \in OfLoan(i[1])
      BY RunFields, IdIsPair
    <3>2. i \in Batch(d)'
      BY <2>3, <3>1 DEF Batch, OfLoan
    <3>3. Cardinality(Overdue(i[1])) >= 1 => \E j \in OfLoan(i[1]) : lapsedIn[j] > 0
      <4>1. Overdue(i[1]) = {} => Cardinality(Overdue(i[1])) = 0
        BY FS_EmptySet
      <4>2. \A j \in Overdue(i[1]) : j \in OfLoan(i[1]) /\ lapsedIn[j] > 0
        BY DEF IInv, LapsesFit, Overdue, OfLoan
      <4> QED BY <4>1, <4>2
    <3> QED BY <2>3, <2>4, <3>1, <3>2, <3>3 DEF LoanFits, OfLoan, committed
  <2> QED BY <1>s, <2>3, <2>4, <2>5 DEF RunFits, MarkedStatements, PenaltyStatements
<1>3. CASE MarkOverdue(d)
  <2>1. run'[d] = [run[d] EXCEPT !.at = IF PenaltyDue(d) THEN "findOldest" ELSE "commit",
                                 !.marked = ToMark(d)]
    BY <1>3, <1>t DEF MarkOverdue, Continue, TypeOK
  <2>2. /\ run'[d].at = IF PenaltyDue(d) THEN "findOldest" ELSE "commit"
        /\ run'[d].marked = ToMark(d) /\ run'[d].fined = run[d].fined /\ Same
    BY <1>t, <2>1 DEF RunRecord
  <2>3. /\ Running(d) /\ UNCHANGED <<month, committed, jobLock>> /\ run[d].fined = None
        /\ LoanFits(d) /\ BatchFits(d)
    BY <1>3, RunFields DEF MarkOverdue, Running, RunFits, FinedFits, LoanStatements
  <2>4. ToMark(d) \in Batch(d) /\ \A j \in Batch(d) : ToMark(d)[2] <= j[2]
    BY <2>3, RunFields, FirstIsLeast DEF ToMark, LoanFits
  <2>5. ToMark(d) \in Ids /\ owner'[ToMark(d)] = d
    BY <1>3, <1>t, <2>4, RunFields DEF MarkOverdue, Lock, TypeOK
  <2>6. \A j \in OfLoan(run[d].loan) : j[2] < ToMark(d)[2] => status[j] # "due"
    <3> SUFFICES ASSUME NEW j \in OfLoan(run[d].loan), j[2] < ToMark(d)[2], status[j] = "due"
                 PROVE  FALSE
      OBVIOUS
    <3>1. ToMark(d)[1] = run[d].loan /\ ToMark(d) \in run[d].batch
      BY <2>4 DEF Batch, OfLoan
    <3>2. j \in Batch(d)
      BY <2>3, <3>1 DEF BatchFits, Batch
    <3>3. j[2] \in Nat /\ ToMark(d)[2] \in Nat
      BY <2>5, IdIsPair DEF OfLoan
    <3> QED BY <2>4, <3>2, <3>3
  <2>7. MarkedFits(d)'
    BY <1>s, <2>2, <2>3, <2>4, <2>5, <2>6 DEF MarkedFits, OfLoan, committed
  <2>8. PenaltyDue(d)' = PenaltyDue(d)
    BY <2>2 DEF PenaltyDue
  <2> QED BY <1>s, <2>2, <2>3, <2>7, <2>8 DEF RunFits, LoanStatements, MarkedStatements,
                                              PenaltyStatements
<1>4. CASE FindOldest(d)
  <2>1. /\ Running(d) /\ UNCHANGED <<month, committed, owner, jobLock>> /\ run[d].fined = None
        /\ LoanFits(d) /\ BatchFits(d) /\ MarkedFits(d) /\ PenaltyDue(d)
    BY <1>4, RunFields DEF FindOldest, Running, RunFits, FinedFits, LoanStatements,
                           MarkedStatements, PenaltyStatements
  <2>2. run'[d] = IF Unpenalized(d) = {}
                    THEN [run[d] EXCEPT !.at = "commit"]
                    ELSE [run[d] EXCEPT !.at = "readPenalty", !.fined = First(Unpenalized(d))]
    BY <1>4, <1>t DEF FindOldest, Continue, TypeOK
  <2>3. /\ Same /\ run'[d].marked = run[d].marked
        /\ \/ run'[d].at = "commit" /\ run'[d].fined = None
           \/ /\ run'[d].at = "readPenalty" /\ run'[d].fined = First(Unpenalized(d))
              /\ Unpenalized(d) # {}
    BY <1>t, <2>1, <2>2 DEF RunRecord
  <2>4. MarkedFits(d)'
    BY <1>s, <2>1, <2>3 DEF MarkedFits, OfLoan, committed
  <2>5. ASSUME Unpenalized(d) # {}
        PROVE  LET f == First(Unpenalized(d)) IN
               /\ f \in OfLoan(run[d].loan) /\ penalty[f] = 0
               /\ f = run[d].marked \/ (lapsedIn[f] > 0 /\ status[f] # "due")
               /\ status[f] = "paid" => f \in crossed
    <3>1. run[d].marked \in OfLoan(run[d].loan) /\ run[d].marked \in run[d].batch
      BY <2>1 DEF MarkedFits, Batch
    <3>2. First(Unpenalized(d)) \in Unpenalized(d)
      BY <2>5, <3>1, FirstIsLeast DEF Unpenalized, Overdue
    <3>3. \A i \in Overdue(run[d].loan) :
            i \in OfLoan(run[d].loan) /\ status[i] = "overdue" /\ lapsedIn[i] > 0
      BY DEF IInv, LapsesFit, Overdue, OfLoan
    <3> QED BY <2>1, <3>1, <3>2, <3>3 DEF Unpenalized, BatchFits
  <2>6. run[d].previous >= 1
    BY <1>t, <2>1 DEF PenaltyDue, RunRecord
  <2>7. run'[d].fined # None => FinedFits(d)'
    BY <2>1, <2>3, <2>5, <2>6 DEF FinedFits, OfLoan, committed
  <2>8. Unpenalized(d) # {} => First(Unpenalized(d)) # None
    BY <2>5, IdIsPair DEF OfLoan
  <2>9. PenaltyDue(d)'
    BY <2>1, <2>3 DEF PenaltyDue
  <2> QED BY <1>s, <2>1, <2>3, <2>4, <2>7, <2>8, <2>9
          DEF RunFits, LoanStatements, MarkedStatements, PenaltyStatements
<1>5. CASE ReadPenalty(d)
  <2>1. /\ Running(d) /\ UNCHANGED <<month, committed, owner, jobLock>> /\ run[d].fined # None
        /\ LoanFits(d) /\ MarkedFits(d) /\ PenaltyDue(d) /\ FinedFits(d)
    BY <1>5, RunFields DEF ReadPenalty, Running, RunFits, LoanStatements,
                           MarkedStatements, PenaltyStatements
  <2>2. run'[d] = [run[d] EXCEPT !.at = "fine", !.fine = penalty[run[d].fined] + 1]
    BY <1>5, <1>t DEF ReadPenalty, Continue, TypeOK
  <2>3. /\ Same /\ run'[d].marked = run[d].marked /\ run'[d].fined = run[d].fined
        /\ run'[d].at = "fine" /\ run'[d].fine = 1
    BY <1>t, <2>1, <2>2 DEF RunRecord, FinedFits
  <2>4. MarkedFits(d)'
    BY <1>s, <2>1, <2>3 DEF MarkedFits, OfLoan, committed
  <2>5. FinedFits(d)'
    BY <2>1, <2>3 DEF FinedFits, OfLoan, committed
  <2>6. PenaltyDue(d)'
    BY <2>1, <2>3 DEF PenaltyDue
  <2> QED BY <1>s, <2>1, <2>3, <2>4, <2>5, <2>6
          DEF RunFits, LoanStatements, MarkedStatements, PenaltyStatements
<1>6. CASE Fine(d)
  <2>1. /\ Running(d) /\ UNCHANGED <<month, committed, jobLock>> /\ run[d].fined # None
        /\ LoanFits(d) /\ MarkedFits(d) /\ FinedFits(d)
    BY <1>6, RunFields DEF Fine, Running, RunFits, LoanStatements,
                           MarkedStatements, PenaltyStatements
  <2>2. run'[d] = [run[d] EXCEPT !.at = "commit"]
    BY <1>6, <1>t DEF Fine, Continue, TypeOK
  <2>3. /\ Same /\ run'[d].marked = run[d].marked /\ run'[d].fined = run[d].fined
        /\ run'[d].at = "commit" /\ run'[d].fine = run[d].fine
    BY <1>t, <2>1, <2>2 DEF RunRecord, FinedFits
  <2>4. MarkedFits(d)'
    <3>1. run[d].marked \in Ids /\ owner[run[d].marked] = d
      BY <2>1, RunFields DEF MarkedFits
    <3>2. owner'[run[d].marked] = d
      BY <1>6, <1>t, <3>1 DEF Fine, TypeOK
    <3> QED BY <1>s, <2>1, <2>3, <3>2 DEF MarkedFits, OfLoan, committed
  <2>5. FinedFits(d)'
    BY <1>6, <2>1, <2>3 DEF FinedFits, OfLoan, committed, Fine
  <2> QED BY <1>s, <2>1, <2>3, <2>4, <2>5
          DEF RunFits, LoanStatements, MarkedStatements, PenaltyStatements
<1>7. CASE CommitLoan(d)
  <2>1. run'[d] = [NoRun EXCEPT !.at = "nextLoan", !.batch = run[d].batch \ OfLoan(run[d].loan)]
    BY <1>7, <1>t DEF CommitLoan, Continue, TypeOK
  <2>2. /\ run'[d].at = "nextLoan" /\ run'[d].fined = None
        /\ run'[d].batch = run[d].batch \ OfLoan(run[d].loan)
        /\ jobLock' = d /\ month' > 0
    BY <1>7, <2>1, CommitLoanFits DEF CommitLoan, NoRun
  <2>3. BatchFits(d)'
    <3> SUFFICES ASSUME NEW i \in run[d].batch \ OfLoan(run[d].loan)
                 PROVE  /\ lapsedIn'[i] = 0
                        /\ status'[i] # "overdue"
                        /\ status'[i] = "paid" => i \in crossed'
                        /\ \A j \in OfLoan(i[1]) :
                             j[2] < i[2] /\ status'[j] = "due"
                               => j \in run[d].batch \ OfLoan(run[d].loan)
      BY <2>2 DEF BatchFits, OfLoan
    <3>1. i \in Ids /\ i[1] # run[d].loan /\ i # run[d].marked
      BY <1>7, RunFields, CommitLoanFits DEF OfLoan
    <3>2. BatchFits(d)
      BY <1>7, RunFields DEF RunFits, Running, CommitLoan
    <3>3. ASSUME NEW j \in OfLoan(i[1]) PROVE j \in Ids /\ j \notin OfLoan(run[d].loan)
                                              /\ status'[j] = status[j]
      <4>1. j \in Ids /\ j \notin OfLoan(run[d].loan)
        BY <3>1 DEF OfLoan
      <4> QED BY <1>7, <4>1, CommitLoanFits, CommitLoanEffect
    <3> QED BY <1>7, <3>1, <3>2, <3>3, CommitLoanEffect DEF BatchFits
  <2> QED BY <2>2, <2>3 DEF RunFits, LoanStatements, MarkedStatements, PenaltyStatements
<1>8. CASE EndRun(d)
  <2>1. run'[d] = NoRun
    BY <1>8, <1>t DEF EndRun, Continue, TypeOK
  <2> QED BY <2>1 DEF RunFits, Running, NoRun
<1> QED BY <1>1, <1>2, <1>3, <1>4, <1>5, <1>6, <1>7, <1>8 DEF RunProgress, FinishRun, AbortRun

LEMMA InvariantKept == IInv /\ [Next]_vars => IInv'
<1> SUFFICES ASSUME IInv, [Next]_vars PROVE IInv'
  OBVIOUS
<1>1. /\ TypeOK' /\ LapsesFit' /\ FewerFinesThanLapses'
      /\ LapsesInOrder' /\ SettledOnceUnlessCrossed'
  BY TypesKept, LapsesKept, FinesKept, OrderKept, SettledOnceKept
<1>2. ASSUME NEW p \in Requests PROVE RequestFits(p)'
  BY RequestsKept
<1>3. ASSUME NEW d \in Pods PROVE RunFits(d)'
  <2>1. CASE StartRun(d) \/ RunProgress(d) \/ AbortRun(d)
    BY <2>1, RunKept
  <2>2. CASE ~(StartRun(d) \/ RunProgress(d) \/ AbortRun(d))
    BY <2>2, OthersKeepRun DEF Next, Quiet
  <2> QED BY <2>1, <2>2
<1> QED BY <1>1, <1>2, <1>3 DEF IInv

LEMMA Invariance == Spec => []IInv
<1>1. Init => IInv
  BY InitFits
<1>2. IInv /\ [Next]_vars => IInv'
  BY InvariantKept
<1> QED BY <1>1, <1>2, PTL DEF Spec

-----------------------------------------------------------------------------
(* The theorems. *)

\* Every variable keeps its type: what is repaid and collected stays a natural number,
\* whatever the rounding leaves for the last month, as the ledger refuses the rest.
THEOREM TypesHold == Spec => []TypeOK
<1>1. IInv => TypeOK
  BY DEF IInv
<1> QED BY <1>1, Invariance, PTL

\* Each penalty falls on an installment that has lapsed, once and no more, and a loan has
\* fewer of them than lapses, in whatever months runs were missed or cut short and however
\* settlements come in between: the job's lock keeps runs apart, and each adds one lapse
\* before it adds a penalty (processLoanOverdueInstallments).
THEOREM AlwaysFewerFines == Spec => []FewerFinesThanLapses
<1>1. IInv => FewerFinesThanLapses
  BY DEF IInv
<1> QED BY <1>1, Invariance, PTL

\* No installment is marked while an earlier one is due: the due dates are in order,
\* and so the list of a run leaves no earlier one out, even when it has grown old.
THEOREM LapsesAreInOrder == Spec => []LapsesInOrder
<1>1. IInv => LapsesInOrder
  BY DEF IInv
<1> QED BY <1>1, Invariance, PTL

\* A payment is undone, repeated or misses the penalty only when it crosses a run that
\* lists the installment or is about to fine it (updateInstallmentStatus).
THEOREM PaymentsStayUnlessCrossed == Spec => []SettledOnceUnlessCrossed
<1>1. IInv => SettledOnceUnlessCrossed
  BY DEF IInv
<1> QED BY <1>1, Invariance, PTL

-----------------------------------------------------------------------------
(* The capital. *)

\* The principal booked for a loan so far is a sum over its installments, each of which
\* adds nothing before its first payment and its principal after it.
SumsFit(l, booked) ==
  /\ booked \in [0..Terms[l].tenor -> Int]
  /\ booked[0] = 0 /\ booked[Terms[l].tenor] = repaid[l]
  /\ \A n \in 1..Terms[l].tenor :
       /\ times[<<l, n>>] = 0 => booked[n] = booked[n - 1]
       /\ times[<<l, n>>] = 1 => booked[n] = booked[n - 1] + Principal(<<l, n>>)

RepaidFits == \A l \in Loans : \E booked : SumsFit(l, booked)

LEMMA InitRepaid == Init => RepaidFits
<1> SUFFICES ASSUME Init, NEW l \in Loans PROVE \E booked : SumsFit(l, booked)
  BY DEF RepaidFits
<1> DEFINE booked == [n \in 0..Terms[l].tenor |-> 0]
<1>1. Terms[l].tenor \in Nat \ {0}
  BY InstallmentsAssumption
<1>2. \A n \in 1..Terms[l].tenor : times[<<l, n>>] = 0
  BY PairIsId DEF Init
<1>3. repaid[l] = 0
  BY DEF Init
<1>4. SumsFit(l, booked)
  BY <1>1, <1>2, <1>3 DEF SumsFit
<1> QED BY <1>4

LEMMA RepaidKept ==
  ASSUME IInv, RepaidFits, [Next]_vars
  PROVE  RepaidFits'
<1> SUFFICES ASSUME NEW l \in Loans PROVE \E booked : SumsFit(l, booked)'
  BY DEF RepaidFits
<1>f. PICK booked : SumsFit(l, booked)
  BY DEF RepaidFits
<1>1. CASE UNCHANGED <<times, repaid>>
  BY <1>1, <1>f DEF SumsFit, Principal
<1>2. ASSUME NEW p \in Requests, CommitSettlement(p) PROVE \E sums : SumsFit(l, sums)'
  <2> DEFINE x == request[p].id
  <2>1. /\ x \in Ids /\ x = <<x[1], x[2]>> /\ x[1] \in Loans /\ x[2] \in 1..Terms[x[1]].tenor
        /\ Principal(x) \in Nat
    BY <1>2, CommitSettlementFits, IdIsPair
  <2>2. /\ \A i \in Ids : times'[i] = IF i = x THEN times[i] + 1 ELSE times[i]
        /\ repaid' = [repaid EXCEPT ![x[1]] = @ + Principal(x)]
    BY <1>2, CommitSettlementEffect DEF CommitSettlement
  <2>3. \A n \in 1..Terms[l].tenor : <<l, n>> \in Ids /\ times[<<l, n>>] \in Nat
    BY PairIsId DEF IInv, TypeOK
  <2>4. repaid[l] \in Nat /\ Terms[l].tenor \in Nat \ {0}
    BY InstallmentsAssumption DEF IInv, TypeOK
  <2>5. CASE x[1] # l
    <3>1. \A n \in 1..Terms[l].tenor : times'[<<l, n>>] = times[<<l, n>>]
      BY <2>1, <2>2, <2>3, <2>5
    <3>2. repaid'[l] = repaid[l]
      BY <2>1, <2>2, <2>5 DEF IInv, TypeOK
    <3>3. SumsFit(l, booked)'
      BY <1>f, <3>1, <3>2 DEF SumsFit, Principal
    <3> QED BY <3>3
  <2>6. CASE x[1] = l
    <3> DEFINE t == Terms[l].tenor
               k == x[2]
               P == Principal(x)
               sums == [n \in 0..t |-> IF n >= k THEN booked[n] + P ELSE booked[n]]
    <3>1. k \in 1..t /\ x = <<l, k>> /\ t \in Nat \ {0} /\ P \in Nat
      BY <2>1, <2>4, <2>6
    <3>2. /\ booked \in [0..t -> Int] /\ booked[0] = 0 /\ booked[t] = repaid[l]
          /\ \A n \in 1..t : /\ times[<<l, n>>] = 0 => booked[n] = booked[n - 1]
                             /\ times[<<l, n>>] = 1
                                  => booked[n] = booked[n - 1] + Principal(<<l, n>>)
      BY <1>f DEF SumsFit
    <3>3. repaid'[l] = repaid[l] + P
      BY <2>1, <2>2, <2>6 DEF IInv, TypeOK
    <3>4. \A n \in 1..t : times'[<<l, n>>] = IF n = k THEN times[<<l, n>>] + 1
                                                      ELSE times[<<l, n>>]
      BY <2>2, <2>3, <3>1
    <3> HIDE DEF t, k, P
    <3>5. sums \in [0..t -> Int] /\ sums[0] = 0 /\ sums[t] = repaid'[l]
      BY <3>1, <3>2, <3>3
    <3>6. ASSUME NEW n \in 1..t
          PROVE  /\ times'[<<l, n>>] = 0 => sums[n] = sums[n - 1]
                 /\ times'[<<l, n>>] = 1 => sums[n] = sums[n - 1] + Principal(<<l, n>>)
      <4>1. times[<<l, n>>] \in Nat
        BY <2>3 DEF t
      <4>2. booked[n] \in Int /\ booked[n - 1] \in Int
        BY <3>1, <3>2
      <4>3. sums[n] = (IF n >= k THEN booked[n] + P ELSE booked[n])
            /\ sums[n - 1] = (IF n - 1 >= k THEN booked[n - 1] + P ELSE booked[n - 1])
        BY <3>1
      <4>4. CASE n = k
        <5>1. times[<<l, n>>] + 1 = times'[<<l, n>>] /\ Principal(<<l, n>>) = P
          BY <3>1, <3>4, <4>4 DEF P
        <5>2. sums[n] = booked[n] + P /\ sums[n - 1] = booked[n - 1]
          BY <3>1, <4>3, <4>4
        <5>3. times[<<l, n>>] = 0 => booked[n] = booked[n - 1]
          BY <3>2
        <5> HIDE DEF sums
        <5>4. times'[<<l, n>>] # 0 /\ (times'[<<l, n>>] = 1 => times[<<l, n>>] = 0)
          BY <4>1, <5>1
        <5> QED BY <5>1, <5>2, <5>3, <5>4
      <4>5. CASE n # k
        <5>1. times[<<l, n>>] = times'[<<l, n>>]
          BY <3>4, <4>5
        <5>2. sums[n] - sums[n - 1] = booked[n] - booked[n - 1]
              /\ sums[n] \in Int /\ sums[n - 1] \in Int
          BY <3>1, <4>2, <4>3, <4>5
        <5>3. Principal(<<l, n>>) \in Int
          BY <2>3, PrincipalFits DEF t
        <5> QED BY <3>2, <4>2, <5>1, <5>2, <5>3
      <4> QED BY <4>4, <4>5
    <3> HIDE DEF sums
    <3>7. PICK s : s = sums
      OBVIOUS
    <3>8. SumsFit(l, s)'
      BY <3>5, <3>6, <3>7 DEF SumsFit, Principal, t
    <3> QED BY <3>8
  <2> QED BY <2>5, <2>6
<1>3. ASSUME NEW d \in Pods, CommitLoan(d) PROVE UNCHANGED <<times, repaid>>
  BY <1>3 DEF CommitLoan
<1> QED BY <1>1, <1>2, <1>3, CommittedChanges DEF committed

\* Up to an installment the parts add up to as many months of the rounded part, and to
\* the principal at the last.
PartsUpTo(l, n) ==
  IF n = Terms[l].tenor
    THEN Terms[l].principal
    ELSE n * MonthlyPrincipal(Terms[l].principal, Terms[l].tenor)

LEMMA PartsAddUp ==
  ASSUME NEW l \in Loans
  PROVE  /\ \A n \in 0..Terms[l].tenor : PartsUpTo(l, n) \in Int
         /\ PartsUpTo(l, 0) = 0
         /\ \A n \in 1..Terms[l].tenor :
              PartsUpTo(l, n) = PartsUpTo(l, n - 1) + Principal(<<l, n>>)
<1> DEFINE t == Terms[l].tenor
           m == MonthlyPrincipal(Terms[l].principal, t)
<1>1. t \in Nat \ {0} /\ Terms[l].principal \in Nat \ {0}
  BY InstallmentsAssumption
<1>2. m \in Nat
  BY <1>1, MonthlyPrincipalFits
<1>3. \A n \in 1..t : Principal(<<l, n>>)
                        = IF n = t THEN Terms[l].principal - (t - 1) * m ELSE m
  BY DEF Principal, PrincipalPart, LastPrincipal
<1>4. \A n \in 0..t : PartsUpTo(l, n) = IF n = t THEN Terms[l].principal ELSE n * m
  BY DEF PartsUpTo
<1> HIDE DEF t, m
<1>5. \A n \in 0..t : PartsUpTo(l, n) \in Int
  BY <1>1, <1>2, <1>4
<1>6. PartsUpTo(l, 0) = 0
  BY <1>1, <1>2, <1>4
<1>7. ASSUME NEW n \in 1..t
      PROVE  PartsUpTo(l, n) = PartsUpTo(l, n - 1) + Principal(<<l, n>>)
  <2>1. n - 1 \in 0..t /\ n \in 0..t /\ n - 1 # t
    BY <1>1
  <2>2. PartsUpTo(l, n - 1) = (n - 1) * m
    BY <1>4, <2>1
  <2>3. CASE n = t
    <3>1. (t - 1) * m \in Int
      BY <1>1, <1>2
    <3> QED BY <1>1, <1>3, <1>4, <2>1, <2>2, <2>3, <3>1
  <2>4. CASE n # t
    <3>1. (n - 1) * m + m = n * m
      BY <1>2
    <3> QED BY <1>3, <1>4, <2>1, <2>2, <2>4, <3>1
  <2> QED BY <2>3, <2>4
<1> QED BY <1>5, <1>6, <1>7 DEF t

\* A function that counts the outstanding principal of a loan as StillDue does.
CountsDue(l, f) ==
  f = [n \in 0..Terms[l].tenor |-> IF n = 0 THEN 0 ELSE f[n - 1] + Outstanding(<<l, n>>)]

\* There is no more than one, so that StillDue is what any of them ends with.
LEMMA StillDueIs ==
  ASSUME NEW l \in Loans, NEW left, CountsDue(l, left)
  PROVE  StillDue(l) = left[Terms[l].tenor]
<1> DEFINE t == Terms[l].tenor
           f == CHOOSE g : CountsDue(l, g)
           Wrong == {n \in 0..t : f[n] # left[n]}
<1>1. StillDue(l) = f[t]
  BY DEF StillDue, CountsDue
<1>2. CountsDue(l, f)
  OBVIOUS
<1>3. t \in Nat
  BY InstallmentsAssumption
<1> HIDE DEF f
<1>4. \A n \in 0..t : /\ f[n] = IF n = 0 THEN 0 ELSE f[n - 1] + Outstanding(<<l, n>>)
                      /\ left[n] = IF n = 0 THEN 0 ELSE left[n - 1] + Outstanding(<<l, n>>)
  BY <1>2, Zenon DEF CountsDue
<1>5. Wrong = {}
  <2> SUFFICES ASSUME Wrong # {} PROVE FALSE
    OBVIOUS
  <2>1. Wrong \subseteq Nat
    BY <1>3
  <2>2. PICK n \in Wrong : \A k \in Wrong : n <= k
    <3> HIDE DEF Wrong
    <3> QED BY <2>1, LeastNumber
  <2>3. n \in 0..t /\ f[n] # left[n]
    BY <2>2
  <2>4. n # 0
    BY <1>4, <2>3
  <2>5. n - 1 \in 0..t /\ n - 1 \notin Wrong
    BY <1>3, <2>2, <2>3, <2>4
  <2>6. f[n - 1] = left[n - 1]
    BY <2>5
  <2> QED BY <1>4, <2>3, <2>4, <2>6
<1>6. t \in 0..t
  BY <1>3
<1> QED BY <1>1, <1>5, <1>6

\* The principal of a loan is accounted for at every moment, for every principal and
\* tenor, as long as no payment of it crosses a run: what is booked and what the unpaid
\* installments have to bring add up to it (generateInstallments, settleInstallment).
THEOREM PrincipalAlwaysAccounted == Spec => []PrincipalAccounted
<1>1. Init => RepaidFits
  BY InitRepaid
<1>2. IInv /\ RepaidFits /\ [Next]_vars => RepaidFits'
  BY RepaidKept
<1>3. IInv /\ RepaidFits => PrincipalAccounted
  <2> SUFFICES ASSUME IInv, RepaidFits, NEW l \in Loans, OfLoan(l) \cap crossed = {}
               PROVE  repaid[l] + StillDue(l) = Terms[l].principal
    BY DEF PrincipalAccounted
  <2> DEFINE t == Terms[l].tenor
             left(booked) == [n \in 0..t |-> PartsUpTo(l, n) - booked[n]]
  <2>1. t \in Nat \ {0} /\ Terms[l].principal \in Nat
    BY InstallmentsAssumption
  <2>2. PICK booked : SumsFit(l, booked)
    BY DEF RepaidFits
  <2>3. ASSUME NEW n \in 1..t
        PROVE  IF status[<<l, n>>] = "paid" THEN times[<<l, n>>] = 1 ELSE times[<<l, n>>] = 0
    BY PairIsId DEF IInv, SettledOnceUnlessCrossed
  <2>4. ASSUME NEW n \in 1..t
        PROVE  booked[n] + Outstanding(<<l, n>>) = booked[n - 1] + Principal(<<l, n>>)
    <3>1. booked[n] \in Int /\ booked[n - 1] \in Int
      BY <2>1, <2>2 DEF SumsFit
    <3>2. Principal(<<l, n>>) \in Int
      BY PairIsId, PrincipalFits
    <3> QED BY <2>2, <2>3, <3>1, <3>2 DEF SumsFit, Outstanding
  <2>5. CountsDue(l, left(booked))
    <3>1. booked \in [0..t -> Int] /\ booked[0] = 0
      BY <2>2 DEF SumsFit
    <3>2. ASSUME NEW n \in 0..t
          PROVE  left(booked)[n] = IF n = 0 THEN 0
                                            ELSE left(booked)[n - 1] + Outstanding(<<l, n>>)
      <4>1. CASE n = 0
        BY <3>1, <4>1, <2>1, PartsAddUp
      <4>2. CASE n # 0
        <5>1. n \in 1..t /\ n - 1 \in 0..t
          BY <2>1, <4>2
        <5>2. /\ PartsUpTo(l, n) = PartsUpTo(l, n - 1) + Principal(<<l, n>>)
              /\ PartsUpTo(l, n) \in Int /\ PartsUpTo(l, n - 1) \in Int
          BY <5>1, PartsAddUp
        <5>3. booked[n] \in Int /\ booked[n - 1] \in Int /\ Principal(<<l, n>>) \in Int
          BY <3>1, <5>1, PairIsId, PrincipalFits
        <5>4. Outstanding(<<l, n>>) \in Int
          BY <5>3 DEF Outstanding
        <5> HIDE DEF t
        <5>5. /\ left(booked)[n] = PartsUpTo(l, n) - booked[n]
              /\ left(booked)[n - 1] = PartsUpTo(l, n - 1) - booked[n - 1]
          BY <5>1
        <5> HIDE DEF left
        <5> QED BY <2>4, <4>2, <5>1, <5>2, <5>3, <5>4, <5>5
      <4> QED BY <4>1, <4>2
    <3> QED BY <3>2 DEF CountsDue
  <2>6. StillDue(l) = left(booked)[t]
    <3> HIDE DEF left
    <3> QED BY <2>5, StillDueIs
  <2>7. left(booked)[t] = PartsUpTo(l, t) - booked[t] /\ PartsUpTo(l, t) = Terms[l].principal
    BY <2>1 DEF PartsUpTo
  <2>8. booked[t] = repaid[l] /\ repaid[l] \in Nat
    BY <2>2 DEF SumsFit, IInv, TypeOK
  <2> QED BY <2>1, <2>6, <2>7, <2>8
<1> QED BY <1>1, <1>2, <1>3, InitFits, InvariantKept, PTL DEF Spec

-----------------------------------------------------------------------------
(* The refinement. *)

\* A loan's transaction is a lapse, with the penalty it brings; a settlement is a
\* payment; nothing else shows.
LEMMA StepRepays ==
  ASSUME IInv, [Next]_vars
  PROVE  [Promise!RepaymentNext]_(Promise!repaymentVars)
<1>1. CASE UNCHANGED committed
  BY <1>1 DEF committed, Promise!repaymentVars
<1>2. ASSUME NEW d \in Pods, CommitLoan(d)
      PROVE  \E i \in Ids : Promise!Lapse(i)
  <2> DEFINE m == run[d].marked
             f == run[d].fined
  <2>1. m \in Ids /\ (status[m] = "paid" => m \in crossed) /\ lapsedIn[m] = 0
    BY <1>2, CommitLoanFits
  <2>2. status[m] = "due" \/ m \in crossed
    BY <2>1 DEF IInv, TypeOK, LapsesFit
  <2>3. status' = [status EXCEPT ![m] = "overdue"] /\ UNCHANGED <<times, collected, crossed>>
    BY <1>2 DEF CommitLoan
  <2>4. CASE f = None
    <3>1. penalty' = penalty
      BY <1>2, <2>4, IdIsPair DEF CommitLoan, IInv, TypeOK
    <3> QED BY <2>1, <2>2, <2>3, <3>1 DEF Promise!Lapse
  <2>5. CASE f # None
    <3>1. f \in Ids /\ penalty[f] = 0 /\ run[d].fine = 1
          /\ (f = m \/ status[f] # "due") /\ (status[f] = "paid" => f \in crossed)
      BY <1>2, <2>5, CommitLoanFits DEF FinedFits, OfLoan
    <3>2. status'[f] = "overdue" \/ f \in crossed
      BY <1>2, <3>1, CommitLoanEffect DEF IInv, TypeOK
    <3>3. penalty' = [penalty EXCEPT ![f] = 1]
      BY <1>2, <3>1 DEF CommitLoan, IInv, TypeOK
    <3> QED BY <2>1, <2>2, <2>3, <3>1, <3>2, <3>3 DEF Promise!Lapse
  <2> QED BY <2>4, <2>5
<1>3. ASSUME NEW p \in Requests, CommitSettlement(p)
      PROVE  \E i \in Ids : Promise!Pay(i)
  <2>1. request[p].id \in Ids /\ status[request[p].id] # "paid"
    BY <1>3, CommitSettlementFits
  <2>2. Promise!Pay(request[p].id)
    BY <1>3, <2>1, CommitSettlementEffect DEF Promise!Pay, CommitSettlement, PenaltyBooked
  <2> QED BY <2>1, <2>2
<1> QED BY <1>1, <1>2, <1>3, CommittedChanges DEF Promise!RepaymentNext

\* Runs and settlements, in whatever interleaving, do what the one-step operations of
\* Repayment do: a lapse may undo a payment, or fine a paid installment, only where the
\* payment crossed a run.
THEOREM RunsImplementRepayment == Spec => ImplementsRepayment
<1>1. Init => Promise!RepaymentInit
  BY DEF Init, Promise!RepaymentInit
<1>2. IInv /\ [Next]_vars => [Promise!RepaymentNext]_(Promise!repaymentVars)
  BY StepRepays
<1> QED BY <1>1, <1>2, Invariance, PTL DEF Spec, ImplementsRepayment, Promise!RepaymentSpec

=============================================================================
