---------------------------- MODULE JobLockProofs ----------------------------
(***************************************************************************)
(* Theorems about JobLock, for every number of pods, connections and       *)
(* firings.  A pod that runs the job has a session with the lock, and only *)
(* one session has it: the unlocking query may miss that session, but only *)
(* after the job.                                                          *)
(***************************************************************************)
EXTENDS JobLock, TLAPS

\* One session at most holds the lock: what pg_try_advisory_lock grants.
OneHolder == \A r, s \in Sessions : held[r] > 0 /\ held[s] > 0 => r = s

\* A pod that has not finished its job holds the lock in some session of its own.
RunnersHold == \A d \in RunningPods : \E s \in SessionsOf(d) : held[s] > 0

HolderInv == TypeOK /\ OneHolder
LockInv == HolderInv /\ RunnersHold

Step(d) ==
  \/ Acquire(d) \/ Skip(d) \/ JobEnds(d) \/ Release(d)
  \/ Borrow(d) \/ Return(d) \/ Reap(d) \/ Crash(d)

-----------------------------------------------------------------------------
(* Types, and one holder. *)

LEMMA InitHolder == Init => HolderInv
  BY JobLockAssumption DEF Init, HolderInv, TypeOK, OneHolder

LEMMA TypesKept ==
  ASSUME TypeOK, NEW d \in Pods, Step(d)
  PROVE  TypeOK'
  <1> USE JobLockAssumption
  <1>1. \A s \in SessionsOf(d) : s \in Sessions
    BY DEF SessionsOf
  <1>2. CASE Acquire(d) \/ Skip(d) \/ JobEnds(d)
    BY <1>1, <1>2 DEF Acquire, Skip, JobEnds, Fire, Idle, TypeOK
  <1>3. CASE Release(d)
    <2>1. PICK s \in Sessions : held' = [held EXCEPT ![s] = AfterUnlock(s)]
      BY <1>1, <1>3 DEF Release, Idle
    <2>2. AfterUnlock(s) \in Nat
      BY DEF AfterUnlock, TypeOK
    <2>3. QED
      BY <1>3, <2>1, <2>2 DEF Release, TypeOK
  <1>4. CASE Borrow(d) \/ Return(d) \/ Reap(d)
    BY <1>1, <1>4 DEF Borrow, Return, Reap, Idle, TypeOK
  <1>5. CASE Crash(d)
    BY <1>5 DEF Crash, TypeOK
  <1>6. QED
    BY <1>2, <1>3, <1>4, <1>5 DEF Step

\* A session comes to hold the lock only when no other session does.
LEMMA HoldersStem ==
  ASSUME TypeOK, NEW d \in Pods, Step(d), NEW s \in Sessions, held'[s] > 0, ~(held[s] > 0)
  PROVE  \A r \in Sessions \ {s} : held'[r] = 0
  <1>1. CASE Acquire(d)
    <2>1. PICK k \in Idle(d) : Granted(k) /\ held' = [held EXCEPT ![k] = @ + 1]
      BY <1>1 DEF Acquire
    <2>2. s = k
      BY <2>1 DEF TypeOK
    <2>3. QED
      BY <2>1, <2>2 DEF Granted, TypeOK
  <1>2. CASE Skip(d) \/ JobEnds(d) \/ Borrow(d) \/ Return(d)
    BY <1>2 DEF Skip, JobEnds, Borrow, Return
  <1>3. CASE Release(d)
    <2>1. PICK k \in Idle(d) : held' = [held EXCEPT ![k] = AfterUnlock(k)]
      BY <1>3 DEF Release
    <2>2. QED
      BY <2>1 DEF AfterUnlock, TypeOK
  <1>4. CASE Reap(d)
    BY <1>4 DEF Reap, TypeOK
  <1>5. CASE Crash(d)
    BY <1>5 DEF Crash, TypeOK
  <1>6. QED
    BY <1>1, <1>2, <1>3, <1>4, <1>5 DEF Step

LEMMA HolderKept == HolderInv /\ [Next]_vars => HolderInv'
  <1> SUFFICES ASSUME HolderInv, [Next]_vars PROVE HolderInv'
    OBVIOUS
  <1>1. CASE UNCHANGED vars
    BY <1>1 DEF vars, HolderInv, TypeOK, OneHolder
  <1>2. ASSUME NEW d \in Pods, Step(d) PROVE HolderInv'
    <2>1. TypeOK'
      BY <1>2, TypesKept DEF HolderInv
    <2>2. SUFFICES ASSUME NEW r \in Sessions, NEW s \in Sessions,
                          held'[r] > 0, held'[s] > 0
                   PROVE  r = s
      BY <2>1 DEF HolderInv, OneHolder
    <2>3. CASE held[r] > 0 /\ held[s] > 0
      BY <2>3 DEF HolderInv, OneHolder
    <2>4. CASE ~(held[r] > 0)
      BY <1>2, <2>2, <2>4, HoldersStem DEF HolderInv
    <2>5. CASE ~(held[s] > 0)
      BY <1>2, <2>2, <2>5, HoldersStem DEF HolderInv
    <2>6. QED
      BY <2>3, <2>4, <2>5
  <1>3. QED
    BY <1>1, <1>2 DEF Next, Step

\* Every variable keeps its type; the count of a lock never falls below zero.
THEOREM TypesHold == Spec => []TypeOK
  <1>1. HolderInv => TypeOK
    BY DEF HolderInv
  <1>2. QED
    BY <1>1, InitHolder, HolderKept, PTL DEF Spec

-----------------------------------------------------------------------------
(* One run at a time, unless a job outlasts the pool's patience. *)

LEMMA RunnersHoldKept ==
  ASSUME ~LongJobs, LockInv, NEW d \in Pods, Step(d)
  PROVE  RunnersHold'
  <1> SUFFICES ASSUME NEW e \in Pods, at'[e] # "idle"
               PROVE  \E s \in SessionsOf(e) : held'[s] > 0
    BY DEF RunnersHold, RunningPods
  <1> TypeOK
    BY DEF LockInv, HolderInv
  <1>1. CASE e # d
    <2>1. at'[e] = at[e]
      BY <1>1 DEF Step, Acquire, Skip, JobEnds, Release, Borrow, Return, Reap, Crash, TypeOK
    <2>2. PICK s \in SessionsOf(e) : held[s] > 0
      BY <2>1 DEF LockInv, RunnersHold, RunningPods
    <2>3. s \in Sessions /\ s[1] = e /\ s \notin SessionsOf(d)
      BY <1>1 DEF SessionsOf
    <2>4. held'[s] = held[s]
      BY <1>1, <2>3 DEF Step, Acquire, Skip, JobEnds, Release, Borrow, Return, Reap, Crash,
                        Idle, TypeOK
    <2>5. QED
      BY <2>2, <2>4
  <1>2. CASE e = d
    <2>1. CASE Acquire(d)
      <3>1. PICK s \in Idle(d) : held' = [held EXCEPT ![s] = @ + 1]
        BY <2>1 DEF Acquire
      <3>2. s \in SessionsOf(d) /\ s \in Sessions
        BY DEF Idle, SessionsOf
      <3>3. held'[s] > 0
        BY <3>1, <3>2 DEF TypeOK
      <3>4. QED
        BY <1>2, <3>2, <3>3
    <2>2. CASE Release(d) \/ Crash(d)
      BY <1>2, <2>2 DEF Release, Crash, TypeOK
    <2>3. CASE Skip(d) \/ JobEnds(d) \/ Borrow(d) \/ Return(d)
      <3>1. held' = held /\ (at'[d] # "idle" => at[d] # "idle")
        BY <2>3 DEF Skip, JobEnds, Borrow, Return
      <3>2. QED
        BY <1>2, <3>1 DEF LockInv, RunnersHold, RunningPods
    <2>4. CASE Reap(d)
      BY <1>2, <2>4 DEF Reap
    <2>5. QED
      BY <2>1, <2>2, <2>3, <2>4 DEF Step
  <1>3. QED
    BY <1>1, <1>2

LEMMA LockInvHolds ==
  ASSUME ~LongJobs
  PROVE  Spec => []LockInv
  <1>1. Init => LockInv
    BY InitHolder DEF Init, LockInv, RunnersHold, RunningPods
  <1>2. LockInv /\ [Next]_vars => LockInv'
    <2> SUFFICES ASSUME LockInv, [Next]_vars PROVE LockInv'
      OBVIOUS
    <2>1. HolderInv'
      BY HolderKept DEF LockInv
    <2>2. CASE UNCHANGED vars
      BY <2>1, <2>2 DEF vars, LockInv, RunnersHold, RunningPods
    <2>3. ASSUME NEW d \in Pods, Step(d) PROVE LockInv'
      BY <2>1, <2>3, RunnersHoldKept DEF LockInv
    <2>4. QED
      BY <2>2, <2>3 DEF Next, Step
  <1>3. QED
    BY <1>1, <1>2, PTL DEF Spec

LEMMA OneRunner ==
  ASSUME LockInv, NEW d \in RunningPods, NEW e \in RunningPods
  PROVE  d = e
  <1>1. PICK r \in SessionsOf(d) : held[r] > 0
    BY DEF LockInv, RunnersHold
  <1>2. PICK s \in SessionsOf(e) : held[s] > 0
    BY DEF LockInv, RunnersHold
  <1>3. r = s
    BY <1>1, <1>2 DEF LockInv, HolderInv, OneHolder, SessionsOf
  <1>4. QED
    BY <1>1, <1>2, <1>3 DEF SessionsOf

\* As long as no job outlasts the pool's patience with idle connections, no two
\* pods run the job at once, whichever session the unlocking query goes to.
THEOREM NeverTwoRuns ==
  ASSUME ~LongJobs
  PROVE  Spec => []OneAtATime
  <1>1. LockInv => OneAtATime
    BY OneRunner DEF OneAtATime
  <1>2. QED
    BY <1>1, LockInvHolds, PTL

=============================================================================
