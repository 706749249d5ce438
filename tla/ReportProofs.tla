---------------------------- MODULE ReportProofs ----------------------------
(***************************************************************************)
(* Theorems about the yearly report, for every number of members, months   *)
(* and rows to a page, whatever is admitted, rejected and paid between its *)
(* queries.                                                                *)
(***************************************************************************)
EXTENDS Report, FiniteSetTheorems, TLAPS

-----------------------------------------------------------------------------
(* The inductive invariant. *)

Reading == report.at \in {"count", "rows"}

\* All that a phase may ever list, and what its listing has before a row.
Listable == IF report.phase = "members" THEN Users ELSE Savings
Before(x) == {y \in Listed : Key[y] < Key[x]}

\* What the report keeps of its beginnings against what is there now.
OpeningFits ==
  /\ report.at = "idle" => report = NoReport /\ crossed = {} /\ DOMAIN table = {}
                           /\ opening.members = {}
  /\ report.at = "done" => report.phase = "savings"
  /\ report.phase = "members" => "savings" \notin crossed
  /\ report.phase = "savings" => opening.savings \subseteq paid
  /\ "gone" \notin crossed => opening.members \subseteq Active /\ DOMAIN table \subseteq Active
  /\ "members" \in crossed /\ "gone" \notin crossed => opening.members # Active
  /\ "savings" \in crossed => opening.savings # paid

\* A count is out of date only if a row has crossed it.
CountFits ==
  report.at = "rows" =>
    /\ report.total <= Cardinality(Listable)
    /\ report.phase \notin crossed => Cardinality(Listed) <= report.total

\* The table has no saving that was not paid; a total is at least what its cells come
\* to, and at most the rows read so far.
TableFits ==
  \A m \in DOMAIN table :
    /\ report.phase = "members" => table[m] = Blank
    /\ table[m].cells \subseteq MonthsOf(m, paid)
    /\ Cardinality(table[m].cells) <= table[m].total
    /\ Reading => table[m].total <= Offset(report.page)

\* A member or a saving of the beginning that is not in the table is still to come: the
\* rows before it fill the pages read so far.
MembersPassed ==
  NoNamesakes /\ "gone" \notin crossed =>
    /\ report.phase = "members" /\ Reading =>
         \A u \in opening.members \ DOMAIN table : Offset(report.page) <= Cardinality(Before(u))
    /\ report.phase = "savings" /\ "members" \notin crossed =>
         opening.members \subseteq DOMAIN table

Filled(s) == s[1] \in DOMAIN table => s[2] \in table[s[1]].cells

SavingsPassed ==
  NoNamesakes /\ report.phase = "savings" =>
    /\ Reading => \A s \in opening.savings :
                    Filled(s) \/ Offset(report.page) <= Cardinality(Before(s))
    /\ report.at = "done" /\ "savings" \notin crossed =>
         \A s \in opening.savings : Filled(s)

\* Without a payment since, the cells hold just what lies on the pages read so far, and
\* nothing was added twice.
SavingsExact ==
  NoNamesakes /\ report.phase = "savings" /\ paid = opening.savings =>
    \A m \in DOMAIN table :
      /\ table[m].total = Cardinality(table[m].cells)
      /\ Reading => \A k \in table[m].cells : Cardinality(Before(<<m, k>>)) < Offset(report.page)

IInv ==
  /\ TypeOK /\ OpeningFits /\ CountFits /\ TableFits
  /\ MembersPassed /\ SavingsPassed /\ SavingsExact

-----------------------------------------------------------------------------
(* Pages. *)

\* There is a page after the first p just if they do not hold all the rows
\* (createPaginationMetadata).
LEMMA PagesEnd ==
  ASSUME NEW p \in Nat, NEW t \in Nat
  PROVE  /\ p < TotalPage(t) <=> p * Limit < t
         /\ TotalPage(t) \in Int
  <1>0. Limit \in Nat \ {0}
    BY ListingAssumption
  <1>1. PICK q \in Int, r \in 0..(Limit - 1) : q = TotalPage(t) /\ t + Limit - 1 = Limit * q + r
    BY <1>0 DEF TotalPage
  <1>2. CASE p < q
    <2>1. Limit * (p + 1) <= Limit * q /\ Limit * (p + 1) = p * Limit + Limit
      BY <1>0, <1>1, <1>2
    <2>2. QED
      BY <1>0, <1>1, <1>2, <2>1
  <1>3. CASE q <= p
    <2>1. Limit * q <= Limit * p /\ Limit * p = p * Limit
      BY <1>0, <1>1, <1>3
    <2>2. QED
      BY <1>0, <1>1, <1>3, <2>1
  <1>4. QED
    BY <1>1, <1>2, <1>3

LEMMA Offsets ==
  ASSUME NEW page \in Nat \ {0}
  PROVE  /\ Offset(page) \in Nat /\ Limit \in Nat \ {0}
         /\ Offset(page + 1) = Offset(page) + Limit
         /\ page * Limit = Offset(page) + Limit
         /\ page = 1 => Offset(page) = 0
  <1>0. Limit \in Nat \ {0}
    BY ListingAssumption
  <1>1. PICK n \in Nat : page = n + 1
    BY page - 1 \in Nat
  <1>2. (n + 1) * Limit = n * Limit + Limit /\ n * Limit \in Nat
    BY <1>0
  <1>3. QED
    BY <1>0, <1>1, <1>2 DEF Offset

\* The first n rows are those with fewer than n before them, if no key occurs twice.
LEMMA FirstAreLeast ==
  ASSUME NEW S, IsFiniteSet(S), NEW key, NEW n \in Nat, NEW B \in FirstRows(S, key, n),
         \A x, y \in S : key[x] \in Int /\ (key[x] = key[y] => x = y)
  PROVE  \A x \in S :
           /\ x \in B => Cardinality({y \in S : key[y] < key[x]}) < n
           /\ x \notin B => B \subseteq {y \in S : key[y] < key[x]} /\ Cardinality(B) = n
  <1>1. /\ B \in SUBSET S /\ IsFiniteSet(B)
        /\ Cardinality(B) = Least(n, Cardinality(S))
        /\ \A x \in B, y \in S \ B : key[x] <= key[y]
    BY FS_Subset DEF FirstRows, kSubset
  <1>2. Cardinality(S) \in Nat /\ Cardinality(B) \in Nat
    BY <1>1, FS_CardinalityType
  <1> TAKE x \in S
  <1> DEFINE A == {y \in S : key[y] < key[x]}
  <1>3. CASE x \in B
    <2>1. A \subseteq B \ {x}
      BY <1>1, <1>3
    <2>2. IsFiniteSet(B \ {x}) /\ Cardinality(B \ {x}) = Cardinality(B) - 1
      BY <1>1, <1>3, FS_RemoveElement
    <2>3. IsFiniteSet(A) /\ Cardinality(A) <= Cardinality(B) - 1
      BY <2>1, <2>2, FS_Subset
    <2>4. Cardinality(A) \in Nat
      BY <2>3, FS_CardinalityType
    <2>5. QED
      BY <1>1, <1>2, <1>3, <2>3, <2>4 DEF Least
  <1>4. CASE x \notin B
    <2>1. B \subseteq A
      BY <1>1, <1>4
    <2>2. Cardinality(B) # Cardinality(S)
      BY <1>1, <1>4, FS_Subset
    <2>3. QED
      BY <1>1, <1>2, <1>4, <2>1, <2>2 DEF Least
  <1>5. QED
    BY <1>3, <1>4

\* A page holds no more than its rows, all of them listed.
LEMMA PageHolds ==
  ASSUME NEW S, IsFiniteSet(S), NEW key, NEW page \in Nat \ {0}, NEW P \in Pages(S, key, page)
  PROVE  /\ P \subseteq S /\ IsFiniteSet(P)
         /\ Cardinality(P) \in Nat /\ Cardinality(P) <= Limit
  <1>1. PICK B \in FirstRows(S, key, Offset(page)) : P \in FirstRows(S \ B, key, Limit)
    BY DEF Pages
  <1>2. IsFiniteSet(S \ B)
    BY FS_Difference
  <1>3. P \in SUBSET (S \ B) /\ Cardinality(P) = Least(Limit, Cardinality(S \ B))
    BY <1>1 DEF FirstRows, kSubset
  <1>4. IsFiniteSet(P) /\ Cardinality(P) \in Nat /\ Cardinality(S \ B) \in Nat
    BY <1>2, <1>3, FS_Subset, FS_CardinalityType
  <1>5. QED
    BY <1>3, <1>4, ListingAssumption DEF Least

\* It holds just the rows with as many before them as are on the earlier pages, and less
\* than one page more, if no key occurs twice.
LEMMA PageIsRange ==
  ASSUME NEW S, IsFiniteSet(S), NEW key, NEW page \in Nat \ {0}, NEW P \in Pages(S, key, page),
         \A x, y \in S : key[x] \in Int /\ (key[x] = key[y] => x = y)
  PROVE  \A x \in S :
           /\ Cardinality({y \in S : key[y] < key[x]}) \in Nat
           /\ x \in P <=> /\ Offset(page) <= Cardinality({y \in S : key[y] < key[x]})
                          /\ Cardinality({y \in S : key[y] < key[x]}) < Offset(page) + Limit
  <1> DEFINE n == Offset(page)
             A(x) == {y \in S : key[y] < key[x]}
  <1>0. n \in Nat /\ Limit \in Nat
    BY Offsets
  <1>1. PICK B \in FirstRows(S, key, n) : P \in FirstRows(S \ B, key, Limit)
    BY DEF Pages
  <1> HIDE DEF n
  <1>2. B \in SUBSET S /\ IsFiniteSet(S \ B) /\ P \in SUBSET (S \ B)
    BY <1>1, FS_Difference DEF FirstRows, kSubset
  <1>b. \A z \in S : /\ z \in B => Cardinality(A(z)) < n
                     /\ z \notin B => B \subseteq A(z) /\ Cardinality(B) = n
    BY <1>0, <1>1, FirstAreLeast
  <1>p. \A z \in S \ B :
          /\ z \in P => Cardinality({y \in S \ B : key[y] < key[z]}) < Limit
          /\ z \notin P => /\ P \subseteq {y \in S \ B : key[y] < key[z]}
                          /\ Cardinality(P) = Limit
    <2>1. \A y, z \in S \ B : key[y] \in Int /\ (key[y] = key[z] => y = z)
      OBVIOUS
    <2>2. QED
      BY <1>0, <1>1, <1>2, <2>1, FirstAreLeast
  <1> TAKE x \in S
  <1>3. IsFiniteSet(A(x)) /\ Cardinality(A(x)) \in Nat
    BY FS_Subset, FS_CardinalityType
  <1>4. CASE x \in B
    <2>1. Cardinality(A(x)) < n
      BY <1>4, <1>b
    <2>2. QED
      BY <1>0, <1>2, <1>3, <1>4, <2>1 DEF n
  <1>5. CASE x \notin B
    <2>1. B \subseteq A(x) /\ Cardinality(B) = n
      BY <1>5, <1>b
    <2> DEFINE D == {y \in S \ B : key[y] < key[x]}
    <2>2. D = A(x) \ B /\ A(x) \cap B = B
      BY <2>1
    <2>3. IsFiniteSet(D) /\ Cardinality(D) = Cardinality(A(x)) - n
      <3> HIDE DEF A, D
      <3>1. IsFiniteSet(A(x) \ B)
            /\ Cardinality(A(x) \ B) = Cardinality(A(x)) - Cardinality(A(x) \cap B)
        BY <1>3, FS_Difference, Zenon
      <3>2. QED
        BY <2>1, <2>2, <3>1
    <2>4. Cardinality(D) \in Nat
      BY <2>3, FS_CardinalityType
    <2> HIDE DEF D, A
    <2>5. CASE x \in P
      <3>1. Cardinality(D) < Limit
        BY <1>5, <1>p, <2>5 DEF D
      <3>2. QED
        BY <1>0, <1>3, <2>3, <2>4, <2>5, <3>1 DEF n, A
    <2>6. CASE x \notin P
      <3>1. P \subseteq D /\ Cardinality(P) = Limit
        BY <1>5, <1>p, <2>6 DEF D
      <3>2. Limit <= Cardinality(D)
        BY <2>3, <3>1, FS_Subset
      <3>3. QED
        BY <1>0, <1>3, <2>3, <2>4, <2>6, <3>2 DEF n, A
    <2>7. QED
      BY <2>5, <2>6
  <1>6. QED
    BY <1>4, <1>5

-----------------------------------------------------------------------------
(* Members, savings and the order they are listed in. *)

LEMMA AllIsFinite ==
  /\ IsFiniteSet(Users) /\ Cardinality(Users) \in Nat
  /\ IsFiniteSet(Savings) /\ Cardinality(Savings) \in Nat
  <1>1. IsFiniteSet(1..Months)
    BY ReportAssumption, FS_Interval
  <1>2. IsFiniteSet(Savings)
    BY <1>1, ReportAssumption, FS_Product DEF Savings
  <1>3. QED
    BY <1>2, ReportAssumption, FS_CardinalityType

\* What a phase lists is finite, and part of what it may list.
LEMMA ListedFits ==
  ASSUME TypeOK
  PROVE  /\ Listed \subseteq Listable /\ IsFiniteSet(Listed)
         /\ Cardinality(Listed) \in Nat /\ Cardinality(Listable) \in Nat
         /\ Cardinality(Listed) <= Cardinality(Listable)
  <1>1. Active \subseteq Users /\ paid \subseteq Savings
    BY DEF TypeOK, Active
  <1>2. Listed \in SUBSET Listable /\ IsFiniteSet(Listable) /\ Cardinality(Listable) \in Nat
    BY <1>1, AllIsFinite DEF Listed, Listable
  <1>3. IsFiniteSet(Listed) /\ Cardinality(Listed) <= Cardinality(Listable)
    BY <1>2, FS_Subset
  <1>4. QED
    BY <1>2, <1>3, FS_CardinalityType

\* A saving is its member and its month.
LEMMA SavingIsPair ==
  ASSUME NEW s \in Savings
  PROVE  s = <<s[1], s[2]>> /\ s[1] \in Users /\ s[2] \in 1..Months
  BY DEF Savings

\* Where no two bear the same name, no two rows have the same key.
LEMMA KeysDiffer ==
  ASSUME TypeOK
  PROVE  \A x, y \in Listable :
           /\ Key[x] \in Int
           /\ NoNamesakes /\ Key[x] = Key[y] => x = y
  <1>1. name \in [Users -> Nat] /\ Months \in Nat \ {0}
    BY ReportAssumption DEF TypeOK
  <1>2. CASE report.phase = "members"
    BY <1>1, <1>2 DEF Listable, Key, NoNamesakes
  <1>3. CASE report.phase # "members"
    <2>1. SUFFICES ASSUME NEW x \in Savings, NEW y \in Savings
                   PROVE  Key[x] \in Int /\ (NoNamesakes /\ Key[x] = Key[y] => x = y)
      BY <1>3 DEF Listable
    <2>2. PICK a \in Nat, b \in Nat, i \in 1..Months, j \in 1..Months, w \in Nat :
            /\ a = name[x[1]] /\ b = name[y[1]] /\ i = x[2] /\ j = y[2] /\ w = Months + 1
      BY <1>1, SavingIsPair
    <2>3. Key[x] = a * w + i /\ Key[y] = b * w + j
      BY <1>3, <2>2 DEF Key
    <2>4. a * w + i \in Int /\ 1 <= i /\ i < w /\ 1 <= j /\ j < w
      BY <1>1, <2>2
    <2>5. ASSUME NEW c \in Nat, NEW d \in Nat, c < d PROVE c * w + w <= d * w
      <3>1. (c + 1) * w <= d * w /\ (c + 1) * w = c * w + w
        BY <2>2, <2>5
      <3>2. QED
        BY <3>1
    <2>6. a * w + i = b * w + j => a = b /\ i = j
      <3>1. a * w \in Int /\ b * w \in Int
        OBVIOUS
      <3>2. CASE a < b
        BY <2>4, <2>5, <3>1, <3>2
      <3>3. CASE b < a
        BY <2>4, <2>5, <3>1, <3>3
      <3>4. CASE a = b
        BY <3>1, <3>4
      <3>5. QED
        BY <3>2, <3>3, <3>4
    <2>7. NoNamesakes /\ a = b /\ i = j => x = y
      BY <2>2, SavingIsPair DEF NoNamesakes
    <2>8. QED
      BY <2>3, <2>4, <2>6, <2>7
  <1>4. QED
    BY <1>2, <1>3

\* A page of the report: in full, and where no two bear the same name.
LEMMA PageFits ==
  ASSUME TypeOK, NEW P \in Pages(Listed, Key, report.page)
  PROVE  /\ P \subseteq Listed /\ IsFiniteSet(P)
         /\ Cardinality(P) \in Nat /\ Cardinality(P) <= Limit
         /\ NoNamesakes => \A x \in Listed :
              /\ Cardinality(Before(x)) \in Nat
              /\ x \in P <=> /\ Offset(report.page) <= Cardinality(Before(x))
                             /\ Cardinality(Before(x)) < Offset(report.page) + Limit
  <1>1. report.page \in Nat \ {0} /\ IsFiniteSet(Listed) /\ Listed \subseteq Listable
    BY ListedFits DEF TypeOK
  <1>2. P \subseteq Listed /\ IsFiniteSet(P) /\ Cardinality(P) \in Nat /\ Cardinality(P) <= Limit
    BY <1>1, PageHolds
  <1>3. ASSUME NoNamesakes
        PROVE  \A x \in Listed :
                 /\ Cardinality(Before(x)) \in Nat
                 /\ x \in P <=> /\ Offset(report.page) <= Cardinality(Before(x))
                                /\ Cardinality(Before(x)) < Offset(report.page) + Limit
    <2>1. \A x, y \in Listed : Key[x] \in Int /\ (Key[x] = Key[y] => x = y)
      BY <1>1, <1>3, KeysDiffer
    <2>2. QED
      BY <1>1, <2>1, PageIsRange DEF Before
  <1>4. QED
    BY <1>2, <1>3

LEMMA BeforeIsFinite ==
  ASSUME TypeOK, NEW x
  PROVE  IsFiniteSet(Before(x)) /\ Cardinality(Before(x)) \in Nat
         /\ Cardinality(Before(x)) <= Cardinality(Listed)
  <1>1. Before(x) \in SUBSET Listed
    BY DEF Before
  <1>2. QED
    BY <1>1, ListedFits, FS_Subset, FS_CardinalityType

\* Rows that come in never lessen what is before another.
LEMMA BeforeGrows ==
  ASSUME TypeOK, TypeOK', Listed \subseteq Listed', Key' = Key, NEW x
  PROVE  /\ Cardinality(Before(x)) \in Nat /\ Cardinality(Before(x)') \in Nat
         /\ Cardinality(Before(x)) <= Cardinality(Before(x)')
  <1>1. Before(x) \in SUBSET (Before(x)') /\ Before(x)' \in SUBSET (Listed')
    BY DEF Before
  <1>2. IsFiniteSet(Listed')
    <2>1. Active' \in SUBSET Users /\ paid' \in SUBSET Savings
      BY DEF TypeOK, Active
    <2>2. QED
      BY <2>1, AllIsFinite, FS_Subset DEF Listed
  <1>3. IsFiniteSet(Before(x)')
    BY <1>1, <1>2, FS_Subset
  <1>4. IsFiniteSet(Before(x)) /\ Cardinality(Before(x)) <= Cardinality(Before(x)')
    BY <1>1, <1>3, FS_Subset
  <1>5. QED
    BY <1>3, <1>4, FS_CardinalityType

\* The months of a member on a page.
LEMMA MonthsFit ==
  ASSUME NEW m, NEW P, IsFiniteSet(P), P \subseteq Savings
  PROVE  /\ MonthsOf(m, P) \subseteq 1..Months /\ IsFiniteSet(MonthsOf(m, P))
         /\ Cardinality(MonthsOf(m, P)) \in Nat
         /\ Cardinality(MonthsOf(m, P)) <= Cardinality(P)
         /\ Cardinality(MonthsOf(m, P)) <= Cardinality(Savings)
  <1> DEFINE Q == {m} \X MonthsOf(m, P)
  <1>1. MonthsOf(m, P) \in SUBSET (1..Months) /\ IsFiniteSet(1..Months)
    BY ReportAssumption, FS_Interval DEF MonthsOf
  <1>2. IsFiniteSet(MonthsOf(m, P)) /\ Cardinality(MonthsOf(m, P)) \in Nat
    BY <1>1, FS_Subset, FS_CardinalityType
  <1>3. Q \in SUBSET P
    BY DEF MonthsOf
  <1>4. Cardinality(Q) <= Cardinality(P) /\ Cardinality(P) <= Cardinality(Savings)
    BY <1>3, AllIsFinite, FS_Subset
  <1>5. Cardinality(Q) = Cardinality({m}) * Cardinality(MonthsOf(m, P)) /\ Cardinality({m}) = 1
    BY <1>2, FS_Singleton, FS_Product, Zenon
  <1>6. Cardinality(Q) = Cardinality(MonthsOf(m, P))
    BY <1>2, <1>5
  <1>7. Cardinality(P) \in Nat /\ Cardinality(Savings) \in Nat
    BY AllIsFinite, FS_CardinalityType
  <1> HIDE DEF Q
  <1>8. QED
    BY <1>1, <1>2, <1>4, <1>6, <1>7

-----------------------------------------------------------------------------
(* Sums: SumFunction adds in the order CHOOSE gives, and comes to the       *)
(* number of the things that are counted apart.                            *)

\* A set of numbers has a least one: its initial segments are well founded.
LEMMA LeastNumber ==
  ASSUME NEW T \in SUBSET Nat, T # {}
  PROVE  \E n \in T : \A k \in T : n <= k
  <1> DEFINE Smaller == StrictSubsetOrdering(Nat)
             Initial == {1..n : n \in T}
  <1>1. IsWellFoundedOn(Smaller, FiniteSubsetsOf(Nat))
    BY FS_StrictSubsetOrderingWellFounded
  <1>2. Initial \subseteq FiniteSubsetsOf(Nat) /\ Initial # {}
    <2>1. ASSUME NEW n \in T PROVE IsFiniteSet(1..n) /\ 1..n \subseteq Nat
      BY FS_Interval
    <2>2. QED
      BY <2>1 DEF FiniteSubsetsOf
  <1>3. PICK I \in Initial : \A J \in Initial : <<J, I>> \notin Smaller
    <2> HIDE DEF Smaller, Initial
    <2>1. QED
      BY <1>1, <1>2, WFMin
  <1>4. PICK n \in T : I = 1..n
    OBVIOUS
  <1>5. ASSUME NEW k \in T, k < n PROVE FALSE
    <2>1. 1..k \subseteq 1..n /\ n \in 1..n /\ n \notin 1..k
      BY <1>5
    <2>2. <<1..k, 1..n>> \in Smaller
      BY <2>1 DEF StrictSubsetOrdering
    <2>3. QED
      BY <1>3, <1>4, <2>2
  <1>6. QED
    BY <1>5

\* The sum of what is counted under each x is the count of all.
LEMMA SumCounts ==
  ASSUME NEW R, IsFiniteSet(R), NEW S, IsFiniteSet(S), NEW under \in [R -> S], NEW f,
         f = [x \in S |-> Cardinality({r \in R : under[r] = x})]
  PROVE  SumFunction(f) = Cardinality(R)
  <1> DEFINE Adds(g) == [s \in SUBSET S |->
                 IF s = {} THEN 0
                 ELSE f[CHOOSE x \in s : TRUE] + g[s \ {CHOOSE x \in s : TRUE}]]
             sum == CHOOSE g : g = Adds(g)
             Those(s) == {r \in R : under[r] \in s}
             count == [s \in SUBSET S |-> Cardinality(Those(s))]
  <1>1. SumFunction(f) = sum[S]
    BY DEF SumFunction, SumFunctionOnSet, FoldFunctionOnSet, MapThenFoldSet
  <1>2. count = Adds(count)
    <2>1. ASSUME NEW s \in SUBSET S PROVE count[s] = Adds(count)[s]
      <3>1. CASE s = {}
        <4>1. Those(s) = {}
          BY <3>1
        <4>2. QED
          BY <3>1, <4>1, FS_EmptySet
      <3>2. CASE s # {}
        <4> DEFINE c == CHOOSE x \in s : TRUE
                   own == {r \in R : under[r] = c}
                   rest == Those(s \ {c})
        <4>1. c \in s
          BY <3>2
        <4> HIDE DEF c
        <4>2. Those(s) = own \cup rest /\ own \cap rest = {}
          BY <4>1
        <4>3. IsFiniteSet(own) /\ IsFiniteSet(rest)
          BY FS_Subset
        <4>4. Cardinality(own) \in Nat /\ Cardinality(rest) \in Nat
              /\ Cardinality(own \cap rest) = 0
          BY <4>2, <4>3, FS_CardinalityType, FS_EmptySet
        <4> HIDE DEF own, rest
        <4>5. Cardinality(own \cup rest)
                = Cardinality(own) + Cardinality(rest) - Cardinality(own \cap rest)
          BY <4>3, FS_Union
        <4>6. Cardinality(Those(s)) = Cardinality(own) + Cardinality(rest)
          <5> HIDE DEF Those
          <5>1. QED
            BY <4>2, <4>4, <4>5
        <4>7. f[c] = Cardinality(own) /\ count[s \ {c}] = Cardinality(rest)
          BY <4>1 DEF own, rest
        <4>8. Adds(count)[s] = f[c] + count[s \ {c}] /\ count[s] = Cardinality(Those(s))
          <5> HIDE DEF Those
          <5>1. QED
            BY <3>2 DEF c
        <4> HIDE DEF Adds, count
        <4>9. QED
          BY <4>6, <4>7, <4>8
      <3>3. QED
        BY <3>1, <3>2
    <2>2. QED
      BY <2>1
  <1>3. sum = Adds(sum)
    <2> HIDE DEF Adds, count
    <2>1. QED
      BY <1>2
  <1>4. \A n \in Nat : \A s \in SUBSET S : Cardinality(s) = n => sum[s] = count[s]
    <2> DEFINE Wrong == {n \in Nat : \E s \in SUBSET S : Cardinality(s) = n /\ sum[s] # count[s]}
    <2> SUFFICES ASSUME Wrong # {} PROVE FALSE
      OBVIOUS
    <2>1. PICK n \in Wrong : \A k \in Wrong : n <= k
      <3> HIDE DEF Wrong
      <3>1. Wrong \in SUBSET Nat
        BY DEF Wrong
      <3>2. QED
        BY <3>1, LeastNumber
    <2>2. PICK s \in SUBSET S : Cardinality(s) = n /\ sum[s] # count[s]
      OBVIOUS
    <2> HIDE DEF sum, count
    <2>3. s # {}
      <3>1. Adds(sum)[{}] = Adds(count)[{}]
        BY DEF Adds
      <3>2. QED
        BY <2>2, <1>2, <1>3, <3>1
    <2> DEFINE c == CHOOSE x \in s : TRUE
    <2>4. c \in s
      BY <2>3
    <2>5. Adds(sum)[s] = f[c] + sum[s \ {c}] /\ Adds(count)[s] = f[c] + count[s \ {c}]
      BY <2>3
    <2> HIDE DEF c, Adds
    <2>6. sum[s \ {c}] = count[s \ {c}]
      <3>1. IsFiniteSet(s) /\ n \in Nat
        BY FS_Subset
      <3>2. Cardinality(s \ {c}) = n - 1 /\ IsFiniteSet(s \ {c})
        BY <3>1, <2>2, <2>4, FS_RemoveElement
      <3>3. n - 1 \in Nat
        BY <3>2, FS_CardinalityType
      <3>4. n - 1 \notin Wrong
        <4> HIDE DEF Wrong
        <4>1. QED
          BY <2>1, <3>1, <3>3
      <3>5. QED
        BY <3>2, <3>3, <3>4
    <2>7. QED
      BY <1>2, <1>3, <2>2, <2>5, <2>6
  <1>5. sum[S] = count[S] /\ Those(S) = R
    BY <1>4, FS_CardinalityType
  <1>6. QED
    BY <1>1, <1>5

LEMMA Interval ==
  ASSUME NEW n \in Nat
  PROVE  IsFiniteSet(1..n) /\ Cardinality(1..n) = n
  <1>1. 1 \in Int /\ n \in Int
    OBVIOUS
  <1>2. IsFiniteSet(1..n) /\ Cardinality(1..n) = IF 1 > n THEN 0 ELSE n - 1 + 1
    BY <1>1, FS_Interval, Zenon
  <1>3. QED
    BY <1>2

\* A sum of numbers is the count of their units.
Units(f, n) == {u \in (DOMAIN f) \X (1..n) : u[2] <= f[u[1]]}

LEMMA SumOfUnits ==
  ASSUME NEW T, IsFiniteSet(T), NEW n \in Nat, NEW f \in [T -> 0..n]
  PROVE  IsFiniteSet(Units(f, n)) /\ SumFunction(f) = Cardinality(Units(f, n))
  <1> DEFINE under == [u \in Units(f, n) |-> u[1]]
  <1>1. IsFiniteSet(T \X (1..n))
    BY Interval, FS_Product
  <1>2. Units(f, n) \in SUBSET (T \X (1..n))
    BY DEF Units
  <1>3. IsFiniteSet(Units(f, n)) /\ under \in [Units(f, n) -> T]
    BY <1>1, <1>2, FS_Subset
  <1>4. ASSUME NEW x \in T
        PROVE  f[x] = Cardinality({u \in Units(f, n) : under[u] = x})
    <2>1. PICK i \in Nat : i = f[x] /\ i <= n
      OBVIOUS
    <2>2. {u \in Units(f, n) : under[u] = x} = {x} \X (1..i)
      BY <2>1 DEF Units
    <2>3. Cardinality({x} \X (1..i)) = Cardinality({x}) * Cardinality(1..i)
          /\ Cardinality({x}) = 1
      BY Interval, FS_Singleton, FS_Product, Zenon
    <2>4. Cardinality({x} \X (1..i)) = i
      BY <2>1, <2>3, Interval
    <2>5. QED
      BY <2>1, <2>2, <2>4, Zenon
  <1>5. f = [x \in T |-> Cardinality({u \in Units(f, n) : under[u] = x})]
    BY <1>4
  <1> DEFINE g == [x \in T |-> Cardinality({u \in Units(f, n) : under[u] = x})]
  <1> HIDE DEF under
  <1>6. SumFunction(g) = Cardinality(Units(f, n))
    BY <1>3, SumCounts
  <1>7. QED
    BY <1>3, <1>5, <1>6

\* What is nowhere less sums up to no less.
LEMMA SumGrows ==
  ASSUME NEW T, IsFiniteSet(T), NEW n \in Nat, NEW f \in [T -> 0..n], NEW g \in [T -> 0..n],
         \A x \in T : f[x] <= g[x]
  PROVE  SumFunction(f) <= SumFunction(g)
  <1>1. Units(f, n) \in SUBSET Units(g, n)
    <2>1. SUFFICES ASSUME NEW x \in T, NEW i \in 1..n, i <= f[x] PROVE i <= g[x]
      BY DEF Units
    <2>2. f[x] \in 0..n /\ g[x] \in 0..n
      OBVIOUS
    <2>3. QED
      BY <2>1, <2>2
  <1>2. QED
    BY <1>1, SumOfUnits, FS_Subset

\* Cells come to the same by row and by column.
ByColumn(T, C, cells) == [k \in C |-> Cardinality({m \in T : k \in cells[m]})]
ByRow(T, cells) == [m \in T |-> Cardinality(cells[m])]

LEMMA RowsAndColumns ==
  ASSUME NEW T, IsFiniteSet(T), NEW C, IsFiniteSet(C), NEW cells \in [T -> SUBSET C]
  PROVE  SumFunction(ByColumn(T, C, cells)) = SumFunction(ByRow(T, cells))
  <1> DEFINE R == {r \in T \X C : r[2] \in cells[r[1]]}
             row == [r \in R |-> r[1]]
             column == [r \in R |-> r[2]]
  <1>1. IsFiniteSet(T \X C)
    BY FS_Product
  <1>2. IsFiniteSet(R) /\ row \in [R -> T] /\ column \in [R -> C]
    BY <1>1, FS_Subset
  <1>3. ASSUME NEW k \in C
        PROVE  Cardinality({m \in T : k \in cells[m]}) = Cardinality({r \in R : column[r] = k})
    <2> DEFINE M == {m \in T : k \in cells[m]}
    <2>1. {r \in R : column[r] = k} = M \X {k}
      OBVIOUS
    <2>2. IsFiniteSet(M) /\ Cardinality(M) \in Nat /\ IsFiniteSet({k}) /\ Cardinality({k}) = 1
      BY FS_Subset, FS_CardinalityType, FS_Singleton
    <2>3. Cardinality(M \X {k}) = Cardinality(M) * Cardinality({k})
      <3> HIDE DEF M
      <3>1. QED
        BY <2>2, FS_Product
    <2>4. Cardinality(M \X {k}) = Cardinality(M)
      <3> HIDE DEF M
      <3>1. QED
        BY <2>2, <2>3
    <2>5. QED
      BY <2>1, <2>4, Zenon
  <1>4. ASSUME NEW m \in T
        PROVE  Cardinality(cells[m]) = Cardinality({r \in R : row[r] = m})
    <2>1. {r \in R : row[r] = m} = {m} \X cells[m]
      OBVIOUS
    <2>2. IsFiniteSet(cells[m]) /\ Cardinality(cells[m]) \in Nat
          /\ IsFiniteSet({m}) /\ Cardinality({m}) = 1
      BY FS_Subset, FS_CardinalityType, FS_Singleton
    <2>3. Cardinality({m} \X cells[m]) = Cardinality({m}) * Cardinality(cells[m])
      BY <2>2, FS_Product
    <2>4. Cardinality({m} \X cells[m]) = Cardinality(cells[m])
      BY <2>2, <2>3
    <2>5. QED
      BY <2>1, <2>4, Zenon
  <1>5. /\ ByColumn(T, C, cells) = [k \in C |-> Cardinality({r \in R : column[r] = k})]
        /\ ByRow(T, cells) = [m \in T |-> Cardinality({r \in R : row[r] = m})]
    BY <1>3, <1>4 DEF ByColumn, ByRow
  <1> HIDE DEF R, row, column
  <1>6. /\ SumFunction([k \in C |-> Cardinality({r \in R : column[r] = k})]) = Cardinality(R)
        /\ SumFunction([m \in T |-> Cardinality({r \in R : row[r] = m})]) = Cardinality(R)
    BY <1>2, SumCounts
  <1>7. QED
    BY <1>5, <1>6

-----------------------------------------------------------------------------
(* Types. *)

LEMMA InitTypes == Init => TypeOK
  <1> SUFFICES ASSUME Init PROVE TypeOK
    OBVIOUS
  <1>1. name \in Namings /\ report = NoReport /\ DOMAIN table = {} /\ crossed = {}
        /\ opening = [members |-> {}, savings |-> {}]
    BY DEF Init
  <1>2. status \in [Users -> {"candidate", "active", "rejected"}]
    BY DEF Init
  <1>3. paid \subseteq Savings
    BY ReportAssumption DEF Init, Savings
  <1>4. QED
    BY <1>1, <1>2, <1>3 DEF TypeOK, NoReport, Phases

\* What is added to a member's total for one page.
LEMMA TotalFits ==
  ASSUME IInv, report.at = "rows", report.phase = "savings", NEW P \in Pages(Listed, Key, report.page),
         NEW m \in DOMAIN table
  PROVE  /\ MonthsOf(m, P) \subseteq 1..Months
         /\ Cardinality(MonthsOf(m, P)) \in Nat /\ table[m].total \in Nat
         /\ table[m].total + Cardinality(MonthsOf(m, P)) <= 2 * Cardinality(Savings)
         /\ table[m].total + Cardinality(MonthsOf(m, P)) <= Offset(report.page + 1)
  <1>1. /\ TypeOK /\ report.page \in Nat \ {0} /\ report.phase # "members"
        /\ report.page = 1 \/ report.page <= TotalPage(Cardinality(Savings))
        /\ table[m].total \in Nat /\ table[m].total <= Offset(report.page)
    BY DEF IInv, TypeOK, TableFits, Reading
  <1>2. P \subseteq paid /\ IsFiniteSet(P) /\ Cardinality(P) \in Nat /\ Cardinality(P) <= Limit
    BY <1>1, PageFits DEF Listed
  <1>3. P \subseteq Savings
    BY <1>1, <1>2 DEF TypeOK
  <1>4. /\ MonthsOf(m, P) \subseteq 1..Months
        /\ Cardinality(MonthsOf(m, P)) \in Nat
        /\ Cardinality(MonthsOf(m, P)) <= Cardinality(P)
        /\ Cardinality(MonthsOf(m, P)) <= Cardinality(Savings)
    BY <1>2, <1>3, MonthsFit
  <1>5. /\ Offset(report.page) \in Nat /\ Limit \in Nat
        /\ Offset(report.page + 1) = Offset(report.page) + Limit
        /\ report.page = 1 => Offset(report.page) = 0
        /\ Cardinality(Savings) \in Nat
    BY <1>1, Offsets, AllIsFinite
  <1>6. Offset(report.page) <= Cardinality(Savings)
    <2>1. CASE report.page = 1
      BY <1>5, <2>1
    <2>2. CASE report.page # 1
      <3>1. PICK n \in Nat : report.page = n + 1
        BY <1>1, report.page - 1 \in Nat
      <3>2. n < TotalPage(Cardinality(Savings))
        BY <1>1, <1>5, <2>2, <3>1, PagesEnd
      <3>3. n * Limit < Cardinality(Savings)
        BY <1>5, <3>2, PagesEnd
      <3>4. QED
        BY <1>5, <3>1, <3>3 DEF Offset
    <2>3. QED
      BY <2>1, <2>2
  <1>7. QED
    BY <1>1, <1>2, <1>4, <1>5, <1>6

LEMMA TypesKept == IInv /\ [Next]_vars => TypeOK'
  <1> SUFFICES ASSUME IInv, [Next]_vars PROVE TypeOK'
    OBVIOUS
  <1>1. TypeOK /\ OpeningFits /\ CountFits /\ TableFits
    BY DEF IInv
  <1>2. Active \subseteq Users /\ Listed \subseteq Listable /\ Cardinality(Listed) \in Nat
        /\ Cardinality(Listable) \in Nat
    BY <1>1, ListedFits DEF TypeOK, Active
  <1>3. ASSUME NEW m \in Users, Admit(m) PROVE TypeOK'
    BY <1>1, <1>3 DEF Admit, Cross, TypeOK, Phases
  <1>4. ASSUME NEW m \in Users, Leave(m) PROVE TypeOK'
    BY <1>1, <1>4 DEF Leave, TypeOK
  <1>5. ASSUME NEW s \in Savings, Pay(s) PROVE TypeOK'
    BY <1>1, <1>5 DEF Pay, Cross, TypeOK, Phases
  <1>6. CASE Begin
    BY <1>1, <1>2, <1>6 DEF Begin, TypeOK
  <1>7. CASE CountRows
    <2>1. report' = [report EXCEPT !.at = "rows", !.total = Cardinality(Listed)]
      BY <1>7 DEF CountRows
    <2>2. QED
      BY <1>1, <1>2, <1>7, <2>1 DEF CountRows, TypeOK
  <1>8. CASE ReadRows
    <2>1. PICK P \in Pages(Listed, Key, report.page) :
            table' = IF report.phase = "members" THEN WithMembers(P) ELSE WithSavings(P)
      BY <1>8 DEF ReadRows
    <2>2. /\ report.at = "rows" /\ report' = Advance /\ UNCHANGED <<name, status, paid, crossed>>
          /\ opening' = IF report.phase = "members" THEN [opening EXCEPT !.savings = paid]
                        ELSE opening
      BY <1>8 DEF ReadRows
    <2>3. opening' \in [members : SUBSET Users, savings : SUBSET Savings]
      BY <1>1, <2>2 DEF TypeOK
    <2>4. /\ report' \in [phase : Phases, at : {"idle", "count", "rows", "done", "failed"},
                          page : Nat \ {0}, total : Nat]
          /\ \/ report'.page = 1
             \/ report'.page <= TotalPage(Cardinality(IF report'.phase = "members" THEN Users
                                                      ELSE Savings))
      <3>1. CASE HasNext(report.page, report.total)
        <4>1. report' = [report EXCEPT !.at = "count", !.page = report.page + 1]
          BY <2>2, <3>1 DEF Advance
        <4>2. report.page \in Nat \ {0} /\ report.total \in Nat
              /\ report.total <= Cardinality(Listable)
          BY <1>1, <2>2 DEF CountFits, TypeOK
        <4>3. report.page * Limit < report.total /\ Limit \in Nat
          BY <3>1, <4>2, PagesEnd, ListingAssumption DEF HasNext
        <4>4. report.page < TotalPage(Cardinality(Listable))
              /\ TotalPage(Cardinality(Listable)) \in Int
          BY <1>2, <4>2, <4>3, PagesEnd
        <4>5. report'.page <= TotalPage(Cardinality(Listable)) /\ report'.phase = report.phase
          BY <1>1, <4>1, <4>2, <4>4 DEF TypeOK
        <4>6. report' \in [phase : Phases, at : {"idle", "count", "rows", "done", "failed"},
                           page : Nat \ {0}, total : Nat]
          <5>1. report.page + 1 \in Nat \ {0}
            BY <4>2
          <5>2. report = [phase |-> report.phase, at |-> report.at, page |-> report.page,
                          total |-> report.total]
                /\ report.phase \in Phases
            BY <1>1 DEF TypeOK
          <5>3. report' = [phase |-> report.phase, at |-> "count", page |-> report.page + 1,
                           total |-> report.total]
            BY <4>1, <5>2
          <5>4. QED
            BY <4>2, <5>1, <5>2, <5>3
        <4>7. (IF report'.phase = "members" THEN Users ELSE Savings) = Listable
          BY <4>5 DEF Listable
        <4>8. QED
          BY <4>5, <4>6, <4>7
      <3>2. CASE ~HasNext(report.page, report.total) /\ report.phase = "members"
        <4>1. report' = [phase |-> "savings", at |-> "count", page |-> 1, total |-> 0]
          BY <2>2, <3>2 DEF Advance, NoReport
        <4>2. QED
          BY <4>1 DEF Phases
      <3>3. CASE ~HasNext(report.page, report.total) /\ report.phase # "members"
        BY <1>1, <2>2, <3>3 DEF Advance, TypeOK
      <3>4. QED
        BY <3>1, <3>2, <3>3
    <2>5. /\ DOMAIN table' \subseteq Users
          /\ table' \in [DOMAIN table' ->
                          [cells : SUBSET (1..Months), total : 0..(2 * Cardinality(Savings))]]
      <3>1. CASE report.phase = "members"
        <4>1. P \subseteq Users
          BY <1>1, <1>2, <3>1, PageFits DEF Listable
        <4>2. Blank \in [cells : SUBSET (1..Months), total : 0..(2 * Cardinality(Savings))]
          BY AllIsFinite DEF Blank
        <4>3. QED
          BY <1>1, <2>1, <3>1, <4>1, <4>2 DEF WithMembers, TypeOK
      <3>2. CASE report.phase # "members"
        <4>1. report.phase = "savings"
          BY <1>1, <3>2 DEF TypeOK, Phases
        <4>2. DOMAIN table' = DOMAIN table /\ table' = [m \in DOMAIN table |-> table'[m]]
          BY <2>1, <3>2 DEF WithSavings
        <4>3. ASSUME NEW m \in DOMAIN table
              PROVE  table'[m] \in [cells : SUBSET (1..Months), total : 0..(2 * Cardinality(Savings))]
          <5>1. table'[m] = [cells |-> table[m].cells \cup MonthsOf(m, P),
                             total |-> table[m].total + Cardinality(MonthsOf(m, P))]
            BY <2>1, <3>2 DEF WithSavings
          <5>2. table[m].cells \in SUBSET (1..Months)
            BY <1>1 DEF TypeOK
          <5>3. QED
            BY <2>2, <4>1, <5>1, <5>2, TotalFits
        <4>4. QED
          BY <1>1, <4>2, <4>3 DEF TypeOK
      <3>3. QED
        BY <3>1, <3>2
    <2>6. QED
      BY <1>1, <2>2, <2>3, <2>4, <2>5 DEF TypeOK
  <1>9. CASE Fail
    BY <1>1, <1>9 DEF Fail, TypeOK
  <1>10. CASE UNCHANGED vars
    BY <1>1, <1>10 DEF TypeOK, vars
  <1>11. QED
    BY <1>3, <1>4, <1>5, <1>6, <1>7, <1>8, <1>9, <1>10 DEF Next, Meanwhile, ReportStep, Over

-----------------------------------------------------------------------------
(* The invariant is kept. *)

LEMMA InitInv == Init => IInv
  <1> SUFFICES ASSUME Init PROVE IInv
    OBVIOUS
  <1>1. TypeOK /\ report = NoReport /\ DOMAIN table = {} /\ crossed = {}
        /\ opening = [members |-> {}, savings |-> {}]
    BY InitTypes DEF Init
  <1>2. report.at = "idle" /\ report.phase = "members"
    BY <1>1 DEF NoReport
  <1>3. QED
    BY <1>1, <1>2 DEF IInv, OpeningFits, CountFits, TableFits, MembersPassed, SavingsPassed,
                      SavingsExact, Reading

\* Somebody is admitted.
LEMMA AdmitKeeps ==
  ASSUME IInv, TypeOK', NEW m \in Users, Admit(m)
  PROVE  IInv'
  <1>1. /\ TypeOK /\ OpeningFits /\ CountFits /\ TableFits
        /\ MembersPassed /\ SavingsPassed /\ SavingsExact
    BY DEF IInv
  <1>2. /\ UNCHANGED <<name, paid, report, table, opening>>
        /\ crossed' = IF report.phase = "members" /\ report.at = "rows"
                        THEN crossed \cup {"members"} ELSE crossed
        /\ status' = [status EXCEPT ![m] = "active"]
    BY DEF Admit, Cross
  <1>3. Active' = Active \cup {m} /\ m \notin Active
    BY <1>1, <1>2 DEF Admit, Active, TypeOK
  <1>4. /\ Listable' = Listable /\ Key' = Key /\ Listed \subseteq Listed'
        /\ report.phase = "savings" => Listed' = Listed /\ (\A x : Before(x)' = Before(x))
    BY <1>2, <1>3 DEF Listable, Key, Listed, Before
  <1>5. OpeningFits'
    BY <1>1, <1>2, <1>3 DEF OpeningFits, Admit
  <1>6. CountFits'
    BY <1>1, <1>2, <1>4 DEF CountFits, TypeOK, Phases
  <1>7. TableFits'
    BY <1>1, <1>2 DEF TableFits, Reading, MonthsOf
  <1>8. MembersPassed'
    <2>1. \A x : /\ Cardinality(Before(x)) \in Nat /\ Cardinality(Before(x)') \in Nat
                 /\ Cardinality(Before(x)) <= Cardinality(Before(x)')
      BY <1>1, <1>4, BeforeGrows
    <2>2. Offset(report.page) \in Nat
      BY <1>1, Offsets DEF TypeOK
    <2>3. QED
      BY <1>1, <1>2, <2>1, <2>2 DEF MembersPassed, NoNamesakes, Reading
  <1>9. SavingsPassed' /\ SavingsExact'
    BY <1>1, <1>2, <1>4 DEF SavingsPassed, SavingsExact, NoNamesakes, Reading, Filled
  <1>10. QED
    BY <1>5, <1>6, <1>7, <1>8, <1>9 DEF IInv

\* Somebody leaves: whatever is said of members holds no more.
LEMMA LeaveKeeps ==
  ASSUME IInv, TypeOK', Reading, NEW m \in Users, Leave(m)
  PROVE  IInv'
  <1>1. /\ TypeOK /\ OpeningFits /\ CountFits /\ TableFits
        /\ MembersPassed /\ SavingsPassed /\ SavingsExact
    BY DEF IInv
  <1>2. /\ UNCHANGED <<name, paid, report, table, opening>>
        /\ crossed' = crossed \cup {"gone"}
        /\ status' = [status EXCEPT ![m] = "rejected"]
    BY DEF Leave
  <1>3. Active' \subseteq Active /\ "gone" \in crossed'
    BY <1>1, <1>2 DEF Active, TypeOK
  <1>4. /\ Listable' = Listable /\ Key' = Key /\ Listed' \in SUBSET Listed
        /\ report.phase = "savings" => Listed' = Listed /\ (\A x : Before(x)' = Before(x))
    BY <1>2, <1>3 DEF Listable, Key, Listed, Before
  <1>5. OpeningFits'
    <2>1. report.at # "idle"
      BY DEF Reading
    <2>2. QED
      BY <1>1, <1>2, <1>3, <2>1 DEF OpeningFits
  <1>6. CountFits'
    <2>1. Cardinality(Listed') <= Cardinality(Listed) /\ Cardinality(Listed') \in Nat
          /\ Cardinality(Listed) \in Nat
      BY <1>1, <1>4, ListedFits, FS_Subset, FS_CardinalityType
    <2>2. report.total \in Nat
      BY <1>1 DEF TypeOK
    <2>3. QED
      BY <1>1, <1>2, <1>4, <2>1, <2>2 DEF CountFits
  <1>7. TableFits'
    BY <1>1, <1>2 DEF TableFits, Reading, MonthsOf
  <1>8. MembersPassed'
    BY <1>3 DEF MembersPassed
  <1>9. SavingsPassed' /\ SavingsExact'
    BY <1>1, <1>2, <1>4 DEF SavingsPassed, SavingsExact, NoNamesakes, Reading, Filled
  <1>10. QED
    BY <1>5, <1>6, <1>7, <1>8, <1>9 DEF IInv

\* Somebody pays.
LEMMA PayKeeps ==
  ASSUME IInv, TypeOK', NEW s \in Savings, Pay(s)
  PROVE  IInv'
  <1>1. /\ TypeOK /\ OpeningFits /\ CountFits /\ TableFits
        /\ MembersPassed /\ SavingsPassed /\ SavingsExact
    BY DEF IInv
  <1>2. /\ UNCHANGED <<name, status, report, table, opening>>
        /\ crossed' = IF report.phase = "savings" /\ report.at = "rows"
                        THEN crossed \cup {"savings"} ELSE crossed
        /\ paid' = paid \cup {s} /\ s \notin paid
    BY DEF Pay, Cross
  <1>3. Active' = Active
    BY <1>2 DEF Active
  <1>4. /\ Listable' = Listable /\ Key' = Key /\ Listed \subseteq Listed'
        /\ report.phase = "members" => Listed' = Listed /\ (\A x : Before(x)' = Before(x))
    BY <1>2, <1>3 DEF Listable, Key, Listed, Before
  <1>5. OpeningFits'
    <2>1. "savings" \in crossed' => opening.savings # paid'
      <3>1. CASE report.phase = "savings"
        BY <1>1, <1>2, <3>1 DEF OpeningFits
      <3>2. CASE report.phase = "members"
        BY <1>1, <1>2, <3>2 DEF OpeningFits
      <3>3. QED
        BY <1>1, <3>1, <3>2 DEF TypeOK, Phases
    <2>2. report.phase = "members" => "savings" \notin crossed'
      BY <1>1, <1>2 DEF OpeningFits
    <2>3. "members" \in crossed' => "members" \in crossed
      BY <1>2
    <2>4. "gone" \notin crossed' => "gone" \notin crossed
      BY <1>2
    <2>5. crossed = {} /\ report.at = "idle" => crossed' = {}
      BY <1>2
    <2>6. QED
      BY <1>1, <1>2, <1>3, <2>1, <2>2, <2>3, <2>4, <2>5 DEF OpeningFits
  <1>6. CountFits'
    BY <1>1, <1>2, <1>4 DEF CountFits, TypeOK, Phases
  <1>7. TableFits'
    BY <1>1, <1>2 DEF TableFits, Reading, MonthsOf
  <1>8. MembersPassed'
    BY <1>1, <1>2, <1>4 DEF MembersPassed, NoNamesakes, Reading
  <1>9. SavingsPassed'
    <2>1. \A x : /\ Cardinality(Before(x)) \in Nat /\ Cardinality(Before(x)') \in Nat
                 /\ Cardinality(Before(x)) <= Cardinality(Before(x)')
      BY <1>1, <1>4, BeforeGrows
    <2>2. Offset(report.page) \in Nat
      BY <1>1, Offsets DEF TypeOK
    <2>3. QED
      BY <1>1, <1>2, <2>1, <2>2 DEF SavingsPassed, NoNamesakes, Reading, Filled
  <1>10. SavingsExact'
    BY <1>1, <1>2 DEF SavingsExact, OpeningFits
  <1>11. QED
    BY <1>5, <1>6, <1>7, <1>8, <1>9, <1>10 DEF IInv

\* The report begins, counts, or fails.
LEMMA CountKeeps ==
  ASSUME IInv, TypeOK', Begin \/ CountRows \/ Fail
  PROVE  IInv'
  <1>1. /\ TypeOK /\ OpeningFits /\ CountFits /\ TableFits
        /\ MembersPassed /\ SavingsPassed /\ SavingsExact
    BY DEF IInv
  <1>2. /\ UNCHANGED <<name, status, paid, table, crossed>>
        /\ report'.phase = report.phase /\ report'.page = report.page
        /\ opening'.savings = opening.savings
    BY <1>1 DEF Begin, CountRows, Fail, TypeOK
  <1>3. Active' = Active /\ Listable' = Listable /\ Key' = Key /\ Listed' = Listed
        /\ \A x : Before(x)' = Before(x)
    BY <1>2 DEF Active, Listable, Key, Listed, Before
  <1>4. CASE Begin
    <2>1. /\ report.at = "idle" /\ report'.at = "count" /\ opening'.members = Active
          /\ report.phase = "members" /\ report.page = 1 /\ crossed = {} /\ DOMAIN table = {}
      BY <1>1, <1>4 DEF Begin, OpeningFits, NoReport, TypeOK
    <2>2. OpeningFits' /\ CountFits' /\ TableFits' /\ SavingsPassed' /\ SavingsExact'
      BY <1>1, <1>2, <1>3, <2>1 DEF OpeningFits, CountFits, TableFits, SavingsPassed, SavingsExact
    <2>3. MembersPassed'
      <3>1. Offset(report.page) = 0 /\ \A x : Cardinality(Before(x)) \in Nat
        BY <1>1, <2>1, Offsets, BeforeIsFinite DEF TypeOK
      <3>2. QED
        BY <1>2, <1>3, <2>1, <3>1 DEF MembersPassed
    <2>4. QED
      BY <2>2, <2>3 DEF IInv
  <1>5. CASE CountRows
    <2>1. /\ report.at = "count" /\ report'.at = "rows" /\ opening' = opening
          /\ report'.total = Cardinality(Listed)
      BY <1>1, <1>5 DEF CountRows, TypeOK
    <2>2. CountFits'
      BY <1>1, <1>2, <1>3, <2>1, ListedFits DEF CountFits
    <2>3. OpeningFits'
      BY <1>1, <1>2, <1>3, <2>1 DEF OpeningFits
    <2>4. Reading /\ Reading'
      BY <2>1 DEF Reading
    <2>5. TableFits'
      BY <1>1, <1>2, <2>4 DEF TableFits, MonthsOf
    <2>6. MembersPassed'
      BY <1>1, <1>2, <1>3, <2>1, <2>4 DEF MembersPassed, NoNamesakes
    <2>7. SavingsPassed' /\ SavingsExact'
      BY <1>1, <1>2, <1>3, <2>1, <2>4 DEF SavingsPassed, SavingsExact, NoNamesakes, Filled
    <2>8. QED
      BY <2>2, <2>3, <2>5, <2>6, <2>7 DEF IInv
  <1>6. CASE Fail
    <2>1. report.at \in {"count", "rows"} /\ report'.at = "failed" /\ opening' = opening
      BY <1>1, <1>6 DEF Fail, TypeOK
    <2>2. ~Reading' /\ report'.at # "done"
      BY <2>1 DEF Reading
    <2>3. OpeningFits' /\ CountFits'
      BY <1>1, <1>2, <1>3, <2>1 DEF OpeningFits, CountFits
    <2>4. TableFits'
      BY <1>1, <1>2, <2>2 DEF TableFits, MonthsOf
    <2>5. MembersPassed' /\ SavingsPassed' /\ SavingsExact'
      BY <1>1, <1>2, <2>1, <2>2 DEF MembersPassed, SavingsPassed, SavingsExact, NoNamesakes
    <2>6. QED
      BY <2>3, <2>4, <2>5 DEF IInv
  <1>7. QED
    BY <1>4, <1>5, <1>6

\* Where a page leads.
LEMMA Advances ==
  ASSUME TypeOK, report.at = "rows", report' = Advance
  PROVE  \/ /\ HasNext(report.page, report.total)
            /\ report'.phase = report.phase /\ report'.at = "count"
            /\ report'.page = report.page + 1
         \/ /\ ~HasNext(report.page, report.total) /\ report.phase = "members"
            /\ report'.phase = "savings" /\ report'.at = "count" /\ report'.page = 1
         \/ /\ ~HasNext(report.page, report.total) /\ report.phase = "savings"
            /\ report'.phase = "savings" /\ report'.at = "done"
  <1>1. CASE HasNext(report.page, report.total)
    <2>1. report' = [report EXCEPT !.at = "count", !.page = report.page + 1]
      BY <1>1 DEF Advance
    <2>2. QED
      BY <1>1, <2>1 DEF TypeOK
  <1>2. CASE ~HasNext(report.page, report.total) /\ report.phase = "members"
    BY <1>2 DEF Advance, NoReport
  <1>3. CASE ~HasNext(report.page, report.total) /\ report.phase # "members"
    BY <1>3 DEF Advance, TypeOK, Phases
  <1>4. QED
    BY <1>1, <1>2, <1>3

\* A row that is still to come and is not on this page comes on a later one; there is
\* one, if no row has crossed the count.
LEMMA StillToCome ==
  ASSUME TypeOK, CountFits, report.at = "rows", NoNamesakes,
         NEW P \in Pages(Listed, Key, report.page), NEW x \in Listed,
         x \notin P, Offset(report.page) <= Cardinality(Before(x))
  PROVE  /\ Offset(report.page + 1) <= Cardinality(Before(x))
         /\ report.phase \notin crossed => HasNext(report.page, report.total)
  <1>1. report.page \in Nat \ {0} /\ report.total \in Nat
    BY DEF TypeOK
  <1>2. /\ Offset(report.page) \in Nat /\ Limit \in Nat
        /\ Offset(report.page + 1) = Offset(report.page) + Limit
        /\ report.page * Limit = Offset(report.page) + Limit
    BY <1>1, Offsets
  <1>3. Cardinality(Before(x)) \in Nat
        /\ ~(Cardinality(Before(x)) < Offset(report.page) + Limit)
    BY PageFits
  <1>4. ASSUME report.phase \notin crossed PROVE HasNext(report.page, report.total)
    <2>1. Cardinality(Listed) <= report.total
      BY <1>4 DEF CountFits
    <2>2. IsFiniteSet(Listed \ {x}) /\ Cardinality(Listed \ {x}) = Cardinality(Listed) - 1
          /\ Cardinality(Listed) \in Nat
      BY ListedFits, FS_RemoveElement
    <2>3. Before(x) \in SUBSET (Listed \ {x})
      <3>1. Key[x] \in Int
        BY ListedFits, KeysDiffer
      <3>2. QED
        BY <3>1 DEF Before
    <2>4. Cardinality(Before(x)) <= Cardinality(Listed) - 1
      BY <2>2, <2>3, FS_Subset
    <2>5. report.page * Limit < report.total
      BY <1>1, <1>2, <1>3, <2>1, <2>2, <2>4
    <2>6. QED
      BY <1>1, <2>5, PagesEnd DEF HasNext
  <1>5. QED
    BY <1>2, <1>3, <1>4

\* A page of members is read.
LEMMA ReadMembersKeeps ==
  ASSUME IInv, TypeOK', ReadRows, report.phase = "members"
  PROVE  IInv'
  <1>1. /\ TypeOK /\ OpeningFits /\ CountFits /\ TableFits
        /\ MembersPassed /\ SavingsPassed /\ SavingsExact
    BY DEF IInv
  <1>2. PICK P \in Pages(Listed, Key, report.page) : table' = WithMembers(P)
    BY DEF ReadRows
  <1>3. /\ report.at = "rows" /\ report' = Advance /\ UNCHANGED <<name, status, paid, crossed>>
        /\ opening'.members = opening.members /\ opening'.savings = paid
    BY <1>1 DEF ReadRows, TypeOK
  <1>4. P \subseteq Active /\ Listed = Active
    BY <1>1, PageFits DEF Listed
  <1>5. /\ DOMAIN table' = DOMAIN table \cup P
        /\ \A m \in DOMAIN table' : table'[m] = Blank
    BY <1>1, <1>2 DEF WithMembers, TableFits
  <1>6. Blank.cells = {} /\ Blank.total = 0 /\ Cardinality({}) = 0
    BY FS_EmptySet DEF Blank
  <1>7. /\ \/ /\ HasNext(report.page, report.total)
              /\ report'.phase = "members" /\ report'.page = report.page + 1
           \/ /\ ~HasNext(report.page, report.total)
              /\ report'.phase = "savings" /\ report'.page = 1
        /\ report'.at = "count"
    BY <1>1, <1>3, Advances
  <1>8. Active' = Active /\ (report'.phase = "members" =>
          Listed' = Listed /\ Key' = Key /\ \A x : Before(x)' = Before(x))
    BY <1>3 DEF Active, Listed, Key, Before
  <1>9. Offset(report'.page) \in Nat /\ (report'.page = 1 => Offset(report'.page) = 0)
    BY Offsets DEF TypeOK
  <1>10. OpeningFits'
    BY <1>1, <1>3, <1>4, <1>5, <1>7, <1>8 DEF OpeningFits
  <1>11. CountFits'
    BY <1>7 DEF CountFits
  <1>12. TableFits'
    BY <1>5, <1>6, <1>9 DEF TableFits
  <1>13. MembersPassed'
    <2>1. SUFFICES ASSUME NoNamesakes, "gone" \notin crossed, NEW u \in opening.members \ DOMAIN table'
                   PROVE  /\ report'.phase = "members" =>
                               Offset(report'.page) <= Cardinality(Before(u)')
                          /\ ~(report'.phase = "savings" /\ "members" \notin crossed)
      BY <1>3 DEF MembersPassed, NoNamesakes
    <2>2. u \in Listed /\ u \notin P /\ Offset(report.page) <= Cardinality(Before(u))
      BY <1>1, <1>3, <1>4, <1>5, <2>1 DEF OpeningFits, MembersPassed, Reading
    <2>3. /\ Offset(report.page + 1) <= Cardinality(Before(u))
          /\ "members" \notin crossed => HasNext(report.page, report.total)
      BY <1>1, <1>3, <2>1, <2>2, StillToCome
    <2>4. QED
      BY <1>7, <1>8, <2>3
  <1>14. SavingsPassed'
    <2>1. SUFFICES ASSUME report'.phase = "savings", NEW s
                   PROVE  Offset(report'.page) <= Cardinality(Before(s)')
      BY <1>7 DEF SavingsPassed
    <2>2. Before(s)' \in SUBSET Savings
      BY <1>1, <1>3, <2>1 DEF Before, Listed, TypeOK
    <2>3. Cardinality(Before(s)') \in Nat
      BY <2>2, AllIsFinite, FS_Subset, FS_CardinalityType
    <2>4. QED
      BY <1>7, <1>9, <2>1, <2>3
  <1>15. SavingsExact'
    BY <1>5, <1>6 DEF SavingsExact
  <1>16. QED
    BY <1>10, <1>11, <1>12, <1>13, <1>14, <1>15 DEF IInv

\* A page of savings is read.
LEMMA ReadSavingsKeeps ==
  ASSUME IInv, TypeOK', ReadRows, report.phase = "savings"
  PROVE  IInv'
  <1>1. /\ TypeOK /\ OpeningFits /\ CountFits /\ TableFits
        /\ MembersPassed /\ SavingsPassed /\ SavingsExact
    BY DEF IInv
  <1>2. PICK P \in Pages(Listed, Key, report.page) : table' = WithSavings(P)
    BY DEF ReadRows
  <1>3. /\ report.at = "rows" /\ report' = Advance
        /\ UNCHANGED <<name, status, paid, crossed, opening>>
    BY DEF ReadRows
  <1>4. P \subseteq paid /\ Listed = paid /\ paid \subseteq Savings
    BY <1>1, PageFits DEF Listed, TypeOK
  <1>5. /\ DOMAIN table' = DOMAIN table
        /\ \A m \in DOMAIN table :
             /\ table'[m].cells = table[m].cells \cup MonthsOf(m, P)
             /\ table'[m].total = table[m].total + Cardinality(MonthsOf(m, P))
    BY <1>2 DEF WithSavings
  <1>6. /\ \/ /\ HasNext(report.page, report.total)
              /\ report'.at = "count" /\ report'.page = report.page + 1
           \/ /\ ~HasNext(report.page, report.total)
              /\ report'.at = "done"
        /\ report'.phase = "savings"
    BY <1>1, <1>3, Advances
  <1>7. Active' = Active /\ Listed' = Listed /\ Key' = Key /\ \A x : Before(x)' = Before(x)
    BY <1>3, <1>6 DEF Active, Listed, Key, Before
  <1>8. /\ Offset(report.page) \in Nat /\ Limit \in Nat
        /\ Offset(report.page + 1) = Offset(report.page) + Limit
    BY <1>1, Offsets DEF TypeOK
  <1>9. OpeningFits'
    BY <1>1, <1>3, <1>5, <1>6, <1>7 DEF OpeningFits
  <1>10. CountFits'
    BY <1>6 DEF CountFits
  <1>11. ASSUME NEW m \in DOMAIN table
         PROVE  /\ IsFiniteSet(table[m].cells) /\ IsFiniteSet(MonthsOf(m, P))
                /\ Cardinality(table[m].cells) \in Nat /\ Cardinality(MonthsOf(m, P)) \in Nat
                /\ Cardinality(table[m].cells \cup MonthsOf(m, P))
                     = Cardinality(table[m].cells) + Cardinality(MonthsOf(m, P))
                       - Cardinality(table[m].cells \cap MonthsOf(m, P))
                /\ Cardinality(table[m].cells \cap MonthsOf(m, P)) \in Nat
    <2>1. table[m].cells \in SUBSET (1..Months) /\ MonthsOf(m, P) \in SUBSET (1..Months)
      BY <1>1 DEF TypeOK, MonthsOf
    <2>2. IsFiniteSet(1..Months)
      BY ReportAssumption, FS_Interval
    <2>3. IsFiniteSet(table[m].cells) /\ IsFiniteSet(MonthsOf(m, P))
          /\ IsFiniteSet(table[m].cells \cap MonthsOf(m, P))
      BY <2>1, <2>2, FS_Subset
    <2>4. QED
      BY <2>3, FS_CardinalityType, FS_Union
  <1>12. TableFits'
    <2>1. SUFFICES ASSUME NEW m \in DOMAIN table
                   PROVE  /\ table'[m].cells \subseteq MonthsOf(m, paid)
                          /\ Cardinality(table'[m].cells) <= table'[m].total
                          /\ report'.at = "count" => table'[m].total <= Offset(report'.page)
      BY <1>3, <1>5, <1>6 DEF TableFits, Reading, MonthsOf
    <2>2. table[m].cells \subseteq MonthsOf(m, paid) /\ MonthsOf(m, P) \subseteq MonthsOf(m, paid)
      BY <1>1, <1>4 DEF TableFits, MonthsOf
    <2>3. Cardinality(table[m].cells) <= table[m].total /\ table[m].total \in Nat
          /\ table[m].total + Cardinality(MonthsOf(m, P)) <= Offset(report.page + 1)
      BY <1>1, <1>3, TotalFits DEF TableFits
    <2>4. PICK c \in Nat, d \in Nat, e \in Nat, t \in Nat :
            /\ c = Cardinality(table[m].cells) /\ d = Cardinality(MonthsOf(m, P))
            /\ e = Cardinality(table[m].cells \cap MonthsOf(m, P)) /\ t = table[m].total
            /\ Cardinality(table[m].cells \cup MonthsOf(m, P)) = c + d - e
      BY <1>11, <2>3
    <2>5. Cardinality(table'[m].cells) = c + d - e /\ table'[m].total = t + d
      BY <1>5, <2>4
    <2>6. QED
      BY <1>5, <1>6, <2>2, <2>3, <2>4, <2>5
  <1>13. MembersPassed'
    BY <1>1, <1>3, <1>5, <1>6 DEF MembersPassed, NoNamesakes
  <1>14. SavingsPassed'
    <2>1. SUFFICES ASSUME NoNamesakes, NEW s \in opening.savings
                   PROVE  \/ Filled(s)'
                          \/ /\ report'.at = "count"
                             /\ Offset(report'.page) <= Cardinality(Before(s))
                          \/ report'.at = "done" /\ "savings" \in crossed
      BY <1>3, <1>6, <1>7 DEF SavingsPassed, NoNamesakes, Reading
    <2>2. s \in Listed /\ s \in Savings
      BY <1>1, <1>4 DEF OpeningFits
    <2>3. CASE Filled(s)
      BY <1>5, <2>3 DEF Filled
    <2>4. CASE s \in P
      <3>1. <<s[1], s[2]>> \in P /\ s[2] \in 1..Months
        BY <2>2, <2>4, SavingIsPair
      <3>2. s[2] \in MonthsOf(s[1], P)
        BY <3>1 DEF MonthsOf
      <3>3. QED
        BY <1>5, <3>2 DEF Filled
    <2>5. CASE ~Filled(s) /\ s \notin P
      <3>1. Offset(report.page) <= Cardinality(Before(s))
        BY <1>1, <1>3, <2>1, <2>5 DEF SavingsPassed, Reading
      <3>2. /\ Offset(report.page + 1) <= Cardinality(Before(s))
            /\ "savings" \notin crossed => HasNext(report.page, report.total)
        BY <1>1, <1>3, <2>1, <2>2, <2>5, <3>1, StillToCome
      <3>3. QED
        BY <1>6, <3>2
    <2>6. QED
      BY <2>3, <2>4, <2>5
  <1>15. SavingsExact'
    <2>1. SUFFICES ASSUME NoNamesakes, paid = opening.savings, NEW m \in DOMAIN table
                   PROVE  /\ table'[m].total = Cardinality(table'[m].cells)
                          /\ report'.at = "count" =>
                               \A k \in table'[m].cells :
                                  Cardinality(Before(<<m, k>>)) < Offset(report'.page)
      BY <1>3, <1>5, <1>6, <1>7 DEF SavingsExact, NoNamesakes, Reading
    <2>2. /\ table[m].total = Cardinality(table[m].cells)
          /\ \A k \in table[m].cells : Cardinality(Before(<<m, k>>)) < Offset(report.page)
      BY <1>1, <1>3, <2>1 DEF SavingsExact, Reading
    <2>3. ASSUME NEW k \in MonthsOf(m, P)
          PROVE  /\ Cardinality(Before(<<m, k>>)) \in Nat
                 /\ Offset(report.page) <= Cardinality(Before(<<m, k>>))
                 /\ Cardinality(Before(<<m, k>>)) < Offset(report.page + 1)
      <3>1. <<m, k>> \in P /\ <<m, k>> \in Listed
        BY <1>4 DEF MonthsOf
      <3>2. QED
        BY <1>1, <1>8, <2>1, <3>1, PageFits
    <2>4. \A k : Cardinality(Before(<<m, k>>)) \in Nat
      BY <1>1, BeforeIsFinite
    <2>5. table[m].cells \cap MonthsOf(m, P) = {}
      <3>1. SUFFICES ASSUME NEW k \in table[m].cells, k \in MonthsOf(m, P) PROVE FALSE
        OBVIOUS
      <3>2. PICK b \in Nat : b = Cardinality(Before(<<m, k>>))
        BY <2>4
      <3>3. b < Offset(report.page) /\ Offset(report.page) <= b
        BY <2>2, <2>3, <3>1, <3>2
      <3>4. QED
        BY <1>8, <3>2, <3>3
    <2>6. Cardinality(table[m].cells \cap MonthsOf(m, P)) = 0
      BY <2>5, FS_EmptySet
    <2>7. \A k \in table'[m].cells : Cardinality(Before(<<m, k>>)) < Offset(report.page + 1)
      BY <1>5, <1>8, <2>2, <2>3, <2>4
    <2>8. table'[m].total = Cardinality(table'[m].cells)
      <3>1. PICK c \in Nat, d \in Nat :
              c = Cardinality(table[m].cells) /\ d = Cardinality(MonthsOf(m, P))
        BY <1>11
      <3>2. Cardinality(table[m].cells \cup MonthsOf(m, P)) = c + d
        <4>1. Cardinality(table[m].cells \cup MonthsOf(m, P)) = c + d - 0
          BY <1>11, <2>6, <3>1
        <4>2. QED
          BY <4>1
      <3>3. QED
        BY <1>5, <2>2, <3>1, <3>2
    <2>9. QED
      BY <1>6, <2>7, <2>8
  <1>16. QED
    BY <1>9, <1>10, <1>12, <1>13, <1>14, <1>15 DEF IInv

LEMMA StepInv == IInv /\ [Next]_vars => IInv'
  <1> SUFFICES ASSUME IInv, [Next]_vars PROVE IInv'
    OBVIOUS
  <1>1. TypeOK'
    BY TypesKept
  <1>2. CASE Meanwhile
    <2>1. Reading
      BY <1>2 DEF Meanwhile, Reading
    <2>2. QED
      BY <1>1, <1>2, <2>1, AdmitKeeps, LeaveKeeps, PayKeeps DEF Meanwhile
  <1>3. CASE Begin \/ CountRows \/ Fail
    BY <1>1, <1>3, CountKeeps
  <1>4. CASE ReadRows
    <2>1. report.phase \in Phases
      BY DEF IInv, TypeOK
    <2>2. QED
      BY <1>1, <1>4, <2>1, ReadMembersKeeps, ReadSavingsKeeps DEF Phases
  <1>5. CASE UNCHANGED vars
    <2>1. /\ TypeOK /\ OpeningFits /\ CountFits /\ TableFits
          /\ MembersPassed /\ SavingsPassed /\ SavingsExact
      BY DEF IInv
    <2>2. UNCHANGED <<name, status, paid, report, table, opening, crossed>>
      BY <1>5 DEF vars
    <2>3. Listed' = Listed /\ Active' = Active /\ \A x : Before(x)' = Before(x)
      BY <2>2 DEF Listed, Key, Before, Active
    <2>4. OpeningFits' /\ CountFits' /\ TableFits'
      BY <2>1, <2>2, <2>3 DEF OpeningFits, CountFits, TableFits, Listable, Reading, MonthsOf
    <2>5. MembersPassed' /\ SavingsPassed' /\ SavingsExact'
      BY <2>1, <2>2, <2>3 DEF MembersPassed, SavingsPassed, SavingsExact, NoNamesakes, Reading, Filled
    <2>6. QED
      BY <1>1, <2>4, <2>5 DEF IInv
  <1>6. QED
    BY <1>2, <1>3, <1>4, <1>5 DEF Next, ReportStep, Over

\* The report reads on as the invariant says, in whatever order its two statements and
\* the members' doings come.
THEOREM Invariance == Spec => []IInv
  <1>1. QED
    BY InitInv, StepInv, PTL DEF Spec

-----------------------------------------------------------------------------
(* What the report promises. *)

\* Every variable keeps its type, and no phase goes past the pages of the rows it may
\* ever list (generateMandatorySavingsReport, createPaginationMetadata).
THEOREM TypesHold == Spec => []TypeOK
  <1>1. IInv => TypeOK
    BY DEF IInv
  <1>2. QED
    BY <1>1, Invariance, PTL

\* Whoever was a member at the start is listed, and what was paid when the second phase
\* began is in its cell, whoever is admitted and whatever is paid meanwhile, unless that
\* falls between a count and its page or a member leaves.
THEOREM NobodyIsPassedOver == Spec => []NobodyPassedOver
  <1>1. ASSUME IInv PROVE NobodyPassedOver
    BY <1>1 DEF IInv, OpeningFits, MembersPassed, SavingsPassed, Filled, NobodyPassedOver
  <1>2. QED
    BY <1>1, Invariance, PTL

\* A report during which nobody is admitted, leaves or pays is the statement of that
\* moment: every member, every saving in its month, each added once.
THEOREM UndisturbedIsExact == Spec => []ExactIfUndisturbed
  <1>1. ASSUME IInv, report.at = "done", opening = [members |-> Active, savings |-> paid],
               "gone" \notin crossed, NoNamesakes
        PROVE  table = Statement
    <2>1. /\ TypeOK /\ OpeningFits /\ TableFits /\ MembersPassed /\ SavingsPassed /\ SavingsExact
          /\ report.phase = "savings" /\ opening.members = Active /\ opening.savings = paid
      BY <1>1 DEF IInv, OpeningFits
    <2>2. "members" \notin crossed /\ "savings" \notin crossed
      BY <1>1, <2>1 DEF OpeningFits
    <2>3. DOMAIN table = Active
      BY <1>1, <2>1, <2>2 DEF OpeningFits, MembersPassed
    <2>4. ASSUME NEW m \in Active
          PROVE  table[m] = [cells |-> MonthsOf(m, paid), total |-> Cardinality(MonthsOf(m, paid))]
      <3>1. table[m].cells \subseteq MonthsOf(m, paid)
            /\ table[m].total = Cardinality(table[m].cells)
        BY <1>1, <2>1, <2>3 DEF TableFits, SavingsExact
      <3>2. ASSUME NEW k \in MonthsOf(m, paid) PROVE k \in table[m].cells
        <4>1. <<m, k>> \in opening.savings
          BY <2>1 DEF MonthsOf
        <4>2. QED
          BY <1>1, <2>1, <2>2, <2>3, <4>1 DEF SavingsPassed, Filled
      <3>3. table[m] = [cells |-> table[m].cells, total |-> table[m].total]
        BY <2>1, <2>3 DEF TypeOK
      <3>4. table[m].cells = MonthsOf(m, paid)
        BY <3>1, <3>2
      <3>5. QED
        BY <3>1, <3>3, <3>4
    <2>5. table = [m \in DOMAIN table |-> table[m]]
      BY <2>1 DEF TypeOK
    <2>6. QED
      BY <2>3, <2>4, <2>5 DEF Statement
  <1>2. IInv => ExactIfUndisturbed
    BY <1>1 DEF ExactIfUndisturbed
  <1>3. QED
    BY <1>2, Invariance, PTL

\* The grand total of the footer is never less than the sum of its months, and equal to it
\* when the report is done and nobody has paid since its second phase began.
THEOREM FooterAlwaysAgrees == Spec => []FooterAgrees
  <1>1. ASSUME IInv PROVE FooterAgrees
    <2> DEFINE T == DOMAIN table
               cells == [m \in T |-> table[m].cells]
               counts == ByRow(T, cells)
               totals == [m \in T |-> table[m].total]
               n == 2 * Cardinality(Savings)
    <2>1. TypeOK /\ TableFits /\ SavingsExact /\ OpeningFits
      BY <1>1 DEF IInv
    <2>2. IsFiniteSet(T) /\ IsFiniteSet(1..Months) /\ n \in Nat
      BY <2>1, AllIsFinite, ReportAssumption, FS_Subset, Interval DEF TypeOK
    <2>3. /\ cells \in [T -> SUBSET (1..Months)]
          /\ totals \in [T -> 0..n]
          /\ \A m \in T : cells[m] = table[m].cells /\ totals[m] = table[m].total
      BY <2>1 DEF TypeOK
    <2>4. ASSUME NEW m \in T
          PROVE  /\ counts[m] = Cardinality(table[m].cells)
                 /\ counts[m] <= totals[m] /\ counts[m] \in 0..n
      <3>1. table[m].cells \in SUBSET (1..Months)
        BY <2>1 DEF TypeOK
      <3>2. Cardinality(table[m].cells) \in Nat
        BY <2>2, <3>1, FS_Subset, FS_CardinalityType
      <3>3. Cardinality(table[m].cells) <= table[m].total /\ table[m].total \in 0..n
        BY <2>1 DEF TableFits, TypeOK
      <3>4. QED
        BY <2>2, <3>2, <3>3 DEF ByRow
    <2>5. counts \in [T -> 0..n]
      BY <2>4 DEF ByRow
    <2>6. MonthlyTotals = SumFunction(counts)
      <3>1. MonthlyTotals = SumFunction(ByColumn(T, 1..Months, cells))
        <4>1. \A k \in 1..Months : UnderMonth(k) = Cardinality({m \in T : k \in cells[m]})
          <5>1. \A k \in 1..Months :
                  {m \in T : k \in cells[m]} = {m \in DOMAIN table : k \in table[m].cells}
            OBVIOUS
          <5>2. QED
            BY <5>1 DEF UnderMonth
        <4>2. [k \in 1..Months |-> UnderMonth(k)] = ByColumn(T, 1..Months, cells)
          BY <4>1 DEF ByColumn
        <4>3. QED
          BY <4>2 DEF MonthlyTotals
      <3>2. SumFunction(ByColumn(T, 1..Months, cells)) = SumFunction(ByRow(T, cells))
        <4> HIDE DEF T, cells
        <4>1. QED
          BY <2>2, <2>3, RowsAndColumns
      <3>3. QED
        BY <3>1, <3>2
    <2>7. GrandTotal = SumFunction(totals)
      BY DEF GrandTotal
    <2>8. SumFunction(counts) <= SumFunction(totals)
      <3> HIDE DEF T, counts, totals, n
      <3>1. QED
        BY <2>2, <2>3, <2>4, <2>5, SumGrows
    <2>9. ASSUME report.at = "done", NoNamesakes, paid = opening.savings
          PROVE  counts = totals
      <3>1. report.phase = "savings"
        BY <2>1, <2>9 DEF OpeningFits
      <3>2. \A m \in T : table[m].total = Cardinality(table[m].cells)
        BY <2>1, <2>9, <3>1 DEF SavingsExact
      <3>3. QED
        BY <3>2 DEF ByRow
    <2> HIDE DEF counts, totals
    <2>10. QED
      BY <2>6, <2>7, <2>8, <2>9 DEF FooterAgrees
  <1>2. QED
    BY <1>1, Invariance, PTL

=============================================================================
