------------------------------- MODULE JobLock -------------------------------
(***************************************************************************)
(* The advisory lock that LoansScheduler and SavingsScheduler take around  *)
(* their jobs, each under a number of its own.  The lock belongs to a      *)
(* database session, and the session to whichever pooled connection the    *)
(* query happens to use: the lock is taken with one query and released     *)
(* with another.                                                           *)
(***************************************************************************)
EXTENDS Integers, FiniteSets

CONSTANTS
  Pods,         \* the instances of the application, each with a pool
  Connections,  \* the connections of a pool
  MaxFirings,   \* how often a pod's cron fires before the clock stops
  LongJobs      \* whether a job may outlast the pool's patience with idle
                \* connections

Sessions == Pods \X Connections

ASSUME JobLockAssumption ==
  /\ Connections # {}
  /\ MaxFirings \in Nat
  /\ LongJobs \in BOOLEAN

VARIABLES
  held,   \* how many times each session holds the lock: it may lock it again
  busy,   \* the sessions that other requests of their pod are using
  at,     \* where each pod is: "idle", "running" its job, or about to "unlock"
  fired   \* how often each pod's cron has fired

vars == <<held, busy, at, fired>>

Init ==
  /\ held = [s \in Sessions |-> 0]
  /\ busy = {}
  /\ at = [d \in Pods |-> "idle"]
  /\ fired = [d \in Pods |-> 0]

-----------------------------------------------------------------------------
SessionsOf(d) == {s \in Sessions : s[1] = d}

Idle(d) == SessionsOf(d) \ busy

\* pg_try_advisory_lock succeeds in session s unless another session has the lock.
Granted(s) == \A r \in Sessions \ {s} : held[r] = 0

Fire(d) ==
  /\ at[d] = "idle" /\ fired[d] < MaxFirings
  /\ fired' = [fired EXCEPT ![d] = @ + 1]

\* The cron fires, the lock is obtained and the job runs.  The mutant does
\* not look at the answer.
AcquireUnchecked(d) ==
  /\ Fire(d)
  /\ \E s \in Idle(d) : held' = IF Granted(s) THEN [held EXCEPT ![s] = @ + 1] ELSE held
  /\ at' = [at EXCEPT ![d] = "running"]
  /\ UNCHANGED busy
Acquire(d) ==
  /\ Fire(d)
  /\ \E s \in Idle(d) :
       /\ Granted(s)
       /\ held' = [held EXCEPT ![s] = @ + 1]
  /\ at' = [at EXCEPT ![d] = "running"]
  /\ UNCHANGED busy

\* "skipped - another pod holds the lock".
Skip(d) ==
  /\ Fire(d)
  /\ \E s \in Idle(d) : ~Granted(s)
  /\ UNCHANGED <<held, busy, at>>

\* The job ends, with or without an error.
JobEnds(d) ==
  /\ at[d] = "running"
  /\ at' = [at EXCEPT ![d] = "unlock"]
  /\ UNCHANGED <<held, busy, fired>>

\* pg_advisory_unlock in session s: a session that has not got the lock is only
\* warned.
AfterUnlock(s) == IF held[s] > 0 THEN held[s] - 1 ELSE 0

Release(d) ==
  /\ at[d] = "unlock"
  /\ \E s \in Idle(d) : held' = [held EXCEPT ![s] = AfterUnlock(s)]
  /\ at' = [at EXCEPT ![d] = "idle"]
  /\ UNCHANGED <<busy, fired>>

-----------------------------------------------------------------------------
(* The pool, the other requests and the failures. *)

Borrow(d) ==
  /\ \E s \in Idle(d) : busy' = busy \cup {s}
  /\ UNCHANGED <<held, at, fired>>

Return(d) ==
  /\ \E s \in SessionsOf(d) \cap busy : busy' = busy \ {s}
  /\ UNCHANGED <<held, at, fired>>

\* A connection that has long been idle is closed, and its session's locks go
\* with it.
Reap(d) ==
  /\ at[d] # "idle" => LongJobs
  /\ \E s \in Idle(d) : held[s] > 0 /\ held' = [held EXCEPT ![s] = 0]
  /\ UNCHANGED <<busy, at, fired>>

\* The pod is lost with its job and its sessions, and started again.
Crash(d) ==
  /\ held' = [s \in Sessions |-> IF s[1] = d THEN 0 ELSE held[s]]
  /\ busy' = busy \ SessionsOf(d)
  /\ at' = [at EXCEPT ![d] = "idle"]
  /\ UNCHANGED fired

Next ==
  \E d \in Pods :
    \/ Acquire(d) \/ Skip(d) \/ JobEnds(d) \/ Release(d)
    \/ Borrow(d) \/ Return(d) \/ Reap(d) \/ Crash(d)

Spec == Init /\ [][Next]_vars

-----------------------------------------------------------------------------
(* Properties. *)

\* Every variable has its type.
TypeOK ==
  /\ held \in [Sessions -> Nat]
  /\ busy \subseteq Sessions
  /\ at \in [Pods -> {"idle", "running", "unlock"}]
  /\ fired \in [Pods -> 0..MaxFirings]

RunningPods == {d \in Pods : at[d] # "idle"}

\* Two pods never run the job at once (checkOverdueInstallments,
\* createYearlyMandatorySavings), although the unlocking query may go to another
\* session than the locking one.
OneAtATime == \A d, e \in RunningPods : d = e

\* A pod skips the job only when another pod is running it.
SkippedOnlyForAnother ==
  [][\A d \in Pods :
       fired'[d] > fired[d] /\ at'[d] = "idle"
       => \E e \in Pods \ {d} : at[e] # "idle"]_vars

=============================================================================
