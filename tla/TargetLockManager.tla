------------------------- MODULE TargetLockManager -------------------------
(***************************************************************************)
(* The in-memory lock table of automation.locks.ts: at most one entry per  *)
(* target, naming the run that took it and the instant it was taken.  An   *)
(* entry older than DefaultTimeout may be taken over by another run.       *)
(***************************************************************************)
EXTENDS Integers

CONSTANTS
    Run,              \* the workflow runs that can ever be created
    Target,           \* the infrastructure targets (targetIdentifier)
    NoRun,            \* the absence of an entry in the map
    DefaultTimeout    \* defaultTimeoutMs, in ticks of the clock

ASSUME LockAssumption ==
    /\ NoRun \notin Run
    /\ DefaultTimeout \in Nat

Lock == [runId : Run \cup {NoRun}, lockedAt : Nat]

NoLock == [runId |-> NoRun, lockedAt |-> 0]

NoLocks == [t \in Target |-> NoLock]

\* Mutant: the lock ends one tick early.
ExpiredEarly(lock, now) == now - lock.lockedAt >= DefaultTimeout

Expired(lock, now) == now - lock.lockedAt > DefaultTimeout

Acquirable(locks, t, now) ==
    locks[t].runId = NoRun \/ Expired(locks[t], now)

acquireLock(locks, t, r, now) ==
    [locks EXCEPT ![t] = [runId |-> r, lockedAt |-> now]]

\* Mutant: the owner of the entry is not compared.
releaseAnyLock(locks, t, r) == [locks EXCEPT ![t] = NoLock]

releaseLock(locks, t, r) ==
    IF locks[t].runId = r THEN [locks EXCEPT ![t] = NoLock] ELSE locks
=============================================================================
