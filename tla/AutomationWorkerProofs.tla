----------------------- MODULE AutomationWorkerProofs -----------------------
(***************************************************************************)
(* Theorems about AutomationWorker for any number of runs, targets and     *)
(* workflows, any plans and any timeouts.                                  *)
(***************************************************************************)
EXTENDS AutomationWorker, FiniteSetTheorems, SequenceTheorems, TLAPS

-----------------------------------------------------------------------------
(* Type correctness.                                                       *)

\* A breaker stays a breaker under every call that may change it.
LEMMA BreakerTyped ==
    ASSUME NEW b \in Breaker, NEW t \in Nat
    PROVE  /\ getState(b, t) \in Breaker
           /\ recordSuccess(b, t) \in Breaker
           /\ recordFailure(b, t) \in Breaker
<1>1. getState(b, t) \in Breaker
    BY DEF Breaker, getState
<1>2. recordSuccess(b, t) \in Breaker
    BY <1>1 DEF Breaker, recordSuccess
<1>3. recordFailure(b, t) \in Breaker
    BY <1>1, BreakerAssumption DEF Breaker, recordFailure
<1> QED
    BY <1>1, <1>2, <1>3

\* The lock table stays a lock table.
LEMMA LocksTyped ==
    ASSUME NEW l \in [Target -> Lock], NEW t \in Target, NEW r \in Run,
           NEW n \in Nat
    PROVE  /\ acquireLock(l, t, r, n) \in [Target -> Lock]
           /\ releaseLock(l, t, r) \in [Target -> Lock]
BY DEF acquireLock, releaseLock, Lock, NoLock

LEMMA TypeInit == Init => TypeOK
BY LockAssumption, WorkerAssumption
DEF Init, TypeOK, NoLocks, NoLock, Lock, ClosedBreaker, Breaker, RunStatus,
    Location, Holding, InTry

\* Replacing one row's status leaves a sequence of statuses.
LEMMA RowReplaced ==
    ASSUME NEW s \in Seq(StepStatus), NEW i, NEW e \in StepStatus
    PROVE  [s EXCEPT ![i] = e] \in Seq(StepStatus)
<1>1. CASE i \in 1 .. Len(s)
    BY <1>1, ExceptSeq
<1>2. CASE i \notin 1 .. Len(s)
    <2>1. [s EXCEPT ![i] = e] = s
        BY <1>2, LenProperties
    <2> QED
        BY <2>1
<1> QED
    BY <1>1, <1>2

\* A finished row is a status of the enumeration; the next row may be any.
LEMMA RowAppended ==
    ASSUME NEW s \in Seq(StepStatus), NEW e \in StepStatus
    PROVE  Append(s, e) \in Seq(StepStatus)
BY AppendProperties

\* Every step keeps the shape of the state.
LEMMA TypeNext == TypeOK /\ [Next]_vars => TypeOK'
<1> SUFFICES ASSUME TypeOK, [Next]_vars PROVE TypeOK'
    OBVIOUS
<1> USE DEF TypeOK, Goto, Location, Holding, InTry, RunStatus
<1>1. ASSUME NEW r \in Run, Submit(r) PROVE TypeOK'
    BY <1>1 DEF Submit, memVars, localVars, envVars
<1>2. ASSUME NEW r \in Run, NEW p \in Plans, Admit(r, p) PROVE TypeOK'
    <2>1. breakers' \in [Workflow -> Breaker]
        BY <1>2, BreakerTyped DEF Admit, LookAtBreaker, SeenBreaker, Job
    <2>2. locks' \in [Target -> Lock] /\ acquiredAt' \in [Run -> Nat]
        <3>1. job[r].target \in Target
            BY DEF Job
        <3>2. acquireLock(locks, job[r].target, r, now) \in [Target -> Lock]
            BY <3>1, LocksTyped
        <3> QED
            BY <1>2, <3>2 DEF Admit
    <2>3. plan' \in [Run -> Seq(StepConfig)]
        BY <1>2, WorkerAssumption DEF Admit
    <2> QED
        BY <1>2, <2>1, <2>2, <2>3 DEF Admit, dbVars, envVars
<1>3. ASSUME NEW r \in Run, Reject(r) PROVE TypeOK'
    <2>1. breakers' \in [Workflow -> Breaker]
        BY <1>3, BreakerTyped DEF Reject, LookAtBreaker, SeenBreaker, Job
    <2> QED
        BY <1>3, <2>1 DEF Reject, dbVars, localVars, envVars
<1>4. ASSUME NEW r \in Run, Refuse(r) PROVE TypeOK'
    BY <1>4 DEF Refuse, memVars, localVars, envVars
<1>5. ASSUME NEW r \in Run, Start(r) PROVE TypeOK'
    BY <1>5 DEF Start, memVars, envVars
<1>6. ASSUME NEW r \in Run, FailOutsideTry(r) PROVE TypeOK'
    <2>1. status' \in [Run -> RunStatus]
        BY <1>6 DEF FailOutsideTry
    <2>2. pc' \in [Run -> Location]
        BY <1>6 DEF FailOutsideTry
    <2>3. faults' \in Nat
        BY <1>6 DEF FailOutsideTry
    <2> QED
        BY <1>6, <2>1, <2>2, <2>3 DEF FailOutsideTry, memVars, localVars
<1>7. ASSUME NEW r \in Run, SkipStep(r) PROVE TypeOK'
    <2>1. stepRuns' \in [Run -> Seq(StepStatus)]
        BY <1>7, RowAppended DEF SkipStep, StepStatus
    <2> QED
        BY <1>7, <2>1 DEF SkipStep, memVars, localVars, envVars
<1>8. ASSUME NEW r \in Run, BeginStep(r) PROVE TypeOK'
    <2>1. stepRuns' \in [Run -> Seq(StepStatus)]
        BY <1>8, RowAppended DEF BeginStep, StepStatus
    <2> QED
        BY <1>8, <2>1 DEF BeginStep, memVars, envVars
<1>9. ASSUME NEW r \in Run, NEW ok \in BOOLEAN, Attempt(r, ok)
       PROVE  TypeOK'
    BY <1>9 DEF Attempt, dbVars, memVars, envVars
<1>10. ASSUME NEW r \in Run, RecordStepSuccess(r) PROVE TypeOK'
    <2>1. stepRuns' \in [Run -> Seq(StepStatus)]
        BY <1>10, RowReplaced DEF RecordStepSuccess, SetStep, StepStatus
    <2> QED
        BY <1>10, <2>1 DEF RecordStepSuccess, memVars, localVars, envVars
<1>11. ASSUME NEW r \in Run, RecordStepFailure(r) PROVE TypeOK'
    <2>1. stepRuns' \in [Run -> Seq(StepStatus)]
        BY <1>11, RowReplaced DEF RecordStepFailure, SetStep, StepStatus
    <2> QED
        BY <1>11, <2>1 DEF RecordStepFailure, memVars, envVars
<1>12. ASSUME NEW r \in Run, Settle(r) PROVE TypeOK'
    <2>1. breakers' \in [Workflow -> Breaker]
        BY <1>12, BreakerTyped DEF Settle, Job
    <2>2. atOpening' \in [Workflow -> SUBSET Run]
        BY <1>12 DEF Settle, NoteOpening, AtWork
    <2> QED
        BY <1>12, <2>1, <2>2 DEF Settle, dbVars, envVars
<1>13. ASSUME NEW r \in Run, TimeOut(r) PROVE TypeOK'
    BY <1>13 DEF TimeOut, dbVars, memVars, envVars
<1>14. ASSUME NEW r \in Run, Commit(r) PROVE TypeOK'
    BY <1>14 DEF Commit, memVars, localVars, envVars
<1>15. ASSUME NEW r \in Run, Throw(r) PROVE TypeOK'
    BY <1>15 DEF Throw, dbVars, memVars, localVars
<1>16. ASSUME NEW r \in Run, Catch(r) PROVE TypeOK'
    BY <1>16 DEF Catch, memVars, localVars, envVars
<1>17. ASSUME NEW r \in Run, CatchFails(r) PROVE TypeOK'
    BY <1>17 DEF CatchFails, dbVars, memVars, localVars
<1>18. ASSUME NEW r \in Run, Release(r) PROVE TypeOK'
    <2>1. locks' \in [Target -> Lock]
        BY <1>18, LocksTyped DEF Release, Job
    <2> QED
        BY <1>18, <2>1 DEF Release, dbVars, localVars, envVars
<1>19. CASE Crash
    <2>1. locks' \in [Target -> Lock]
        BY <1>19, LockAssumption DEF Crash, NoLocks, NoLock, Lock
    <2>2. breakers' \in [Workflow -> Breaker]
        BY <1>19 DEF Crash, ClosedBreaker, Breaker
    <2> QED
        BY <1>19, <2>1, <2>2 DEF Crash, dbVars, localVars
<1>20. CASE Tick
    BY <1>20 DEF Tick, dbVars, memVars, localVars
<1>21. CASE UNCHANGED vars
    BY <1>21 DEF vars, dbVars, memVars, localVars, envVars
<1> QED
    BY <1>1, <1>2, <1>3, <1>4, <1>5, <1>6, <1>7, <1>8, <1>9, <1>10,
       <1>11, <1>12, <1>13, <1>14, <1>15, <1>16, <1>17, <1>18, <1>19, <1>20,
       <1>21
    DEF Next, Proceed, Fail, Quiescent

\* The type invariant holds in every reachable state.
THEOREM TypeCorrect == Spec => []TypeOK
BY TypeInit, TypeNext, PTL DEF Spec

-----------------------------------------------------------------------------
(* The lease of a target.  LeaseExclusion alone is not inductive: that the *)
(* next acquireLock finds every earlier writer's lease expired follows     *)
(* from LeaseHeld, which says where each of them stands in the table.      *)

LeaseInv == LeaseHeld /\ LeaseExclusion

\* A step that takes no lock, moves no run past its acquisition and changes
\* the table only by giving back the entry of a run that has ended.
LEMMA LeaseKept ==
    ASSUME TypeOK, TypeOK', LeaseInv,
           job' = job, acquiredAt' = acquiredAt, now' >= now,
           \A s \in Run : Live(s)' => Live(s),
           \A t \in Target :
              \/ locks'[t] = locks[t]
              \/ \A s \in Run : Writer(s, t)' => locks[t].runId # s
    PROVE  LeaseInv'
<1>1. \A s \in Run, t \in Target : Writer(s, t)' => Writer(s, t)
    BY DEF Writer, Real
<1>2. LeaseHeld'
    <2> SUFFICES ASSUME NEW r \in Run, NEW t \in Target, Writer(r, t)'
                 PROVE  /\ acquiredAt[r] <= now'
                        /\ \/ locks'[t] = [runId |-> r,
                                           lockedAt |-> acquiredAt[r]]
                           \/ now' - acquiredAt[r] > DefaultTimeout
        BY DEF LeaseHeld
    <2>1. /\ acquiredAt[r] <= now
          /\ \/ locks[t] = [runId |-> r, lockedAt |-> acquiredAt[r]]
             \/ now - acquiredAt[r] > DefaultTimeout
        BY <1>1 DEF LeaseInv, LeaseHeld
    <2>2. acquiredAt[r] \in Nat /\ now \in Nat /\ now' \in Nat
        BY DEF TypeOK
    <2>3. acquiredAt[r] <= now'
        BY <2>1, <2>2
    <2>4. CASE now - acquiredAt[r] > DefaultTimeout
        BY <2>2, <2>3, <2>4, LockAssumption
    <2>5. CASE locks[t] = [runId |-> r, lockedAt |-> acquiredAt[r]]
        <3>1. locks'[t] = locks[t]
            BY <2>5
        <3> QED
            BY <2>3, <2>5, <3>1
    <2> QED
        BY <2>1, <2>4, <2>5
<1>3. LeaseExclusion'
    BY <1>1 DEF LeaseInv, LeaseExclusion
<1> QED
    BY <1>2, <1>3 DEF LeaseInv

\* acquireLock succeeds for a real run: whoever else is at work on the
\* target took the lock more than DefaultTimeout ago.
LEMMA OthersExpired ==
    ASSUME TypeOK, LeaseInv, NEW t \in Target, Acquirable(locks, t, now),
           NEW s \in Run, Writer(s, t)
    PROVE  now - acquiredAt[s] > DefaultTimeout
<1>1. \/ locks[t] = [runId |-> s, lockedAt |-> acquiredAt[s]]
      \/ now - acquiredAt[s] > DefaultTimeout
    BY DEF LeaseInv, LeaseHeld
<1>2. CASE locks[t] = [runId |-> s, lockedAt |-> acquiredAt[s]]
    BY <1>2, LockAssumption DEF Acquirable, Expired
<1> QED
    BY <1>1, <1>2

LEMMA LeaseAdmit ==
    ASSUME TypeOK, TypeOK', LeaseInv, NEW r \in Run, NEW p \in Plans,
           Admit(r, p)
    PROVE  LeaseInv'
<1>1. job' = job /\ now' = now /\ job[r].target \in Target
    BY DEF Admit, envVars, TypeOK, Job
<1>2. CASE ~Real(r)
    <2>1. /\ UNCHANGED <<locks, acquiredAt>>
          /\ \A s \in Run, t \in Target : Writer(s, t)' => Writer(s, t)
        BY <1>1, <1>2 DEF Admit, Goto, Writer, Live, Real, TypeOK
    <2> QED
        BY <1>1, <2>1 DEF LeaseInv, LeaseHeld, LeaseExclusion
<1>3. CASE Real(r)
    <2> DEFINE u == job[r].target
    <2>1. /\ Acquirable(locks, u, now)
          /\ locks' = [locks EXCEPT ![u] = [runId |-> r, lockedAt |-> now]]
          /\ acquiredAt' = [acquiredAt EXCEPT ![r] = now]
        BY <1>3 DEF Admit, Admissible, acquireLock
    <2>2. \A s \in Run, t \in Target :
             s # r /\ Writer(s, t)' =>
                Writer(s, t) /\ acquiredAt'[s] = acquiredAt[s]
        BY <1>1, <2>1 DEF Admit, Goto, Writer, Live, Real, TypeOK
    <2>3. \A t \in Target : Writer(r, t)' => t = u
        BY <1>1 DEF Writer
    <2>4. acquiredAt'[r] = now
        BY <2>1 DEF TypeOK
    <2>5. \A s \in Run, t \in Target : s # r /\ t = u /\ Writer(s, t)' =>
              now - acquiredAt[s] > DefaultTimeout
        BY <1>1, <2>1, <2>2, OthersExpired
    <2>6. LeaseHeld'
        <3> SUFFICES ASSUME NEW s \in Run, NEW t \in Target, Writer(s, t)'
                     PROVE  /\ acquiredAt'[s] <= now
                            /\ \/ locks'[t] = [runId |-> s,
                                               lockedAt |-> acquiredAt'[s]]
                               \/ now - acquiredAt'[s] > DefaultTimeout
            BY <1>1 DEF LeaseHeld
        <3>1. CASE s = r
            BY <1>1, <2>1, <2>3, <2>4, <3>1 DEF TypeOK
        <3>2. CASE s # r /\ t = u
            BY <2>2, <2>5, <3>2 DEF LeaseInv, LeaseHeld
        <3>3. CASE s # r /\ t # u
            BY <2>1, <2>2, <3>3 DEF LeaseInv, LeaseHeld, TypeOK
        <3> QED
            BY <3>1, <3>2, <3>3
    <2>7. LeaseExclusion'
        <3> SUFFICES ASSUME NEW a \in Run, NEW b \in Run, NEW t \in Target,
                            a # b, Writer(a, t)', Writer(b, t)'
                     PROVE  \/ acquiredAt'[a] - acquiredAt'[b] > DefaultTimeout
                            \/ acquiredAt'[b] - acquiredAt'[a] > DefaultTimeout
            BY DEF LeaseExclusion
        <3>1. CASE a = r
            BY <2>2, <2>3, <2>4, <2>5, <3>1
        <3>2. CASE b = r
            BY <2>2, <2>3, <2>4, <2>5, <3>2
        <3>3. CASE a # r /\ b # r
            BY <2>2, <3>3 DEF LeaseInv, LeaseExclusion
        <3> QED
            BY <3>1, <3>2, <3>3
    <2> QED
        BY <2>6, <2>7 DEF LeaseInv
<1> QED
    BY <1>2, <1>3

LEMMA LeaseRelease ==
    ASSUME TypeOK, TypeOK', LeaseInv, NEW r \in Run, Release(r)
    PROVE  LeaseInv'
<1>1. job' = job /\ acquiredAt' = acquiredAt /\ now' = now
    BY DEF Release, localVars, envVars
<1>2. \A s \in Run : Live(s)' => Live(s) /\ s # r
    BY DEF Release, Goto, Live, Holding, InTry, TypeOK
<1>3. \A t \in Target : locks'[t] = locks[t] \/ locks[t].runId = r
    BY DEF Release, releaseLock, TypeOK
<1>4. now' >= now
    BY <1>1 DEF TypeOK
<1> QED
    BY <1>1, <1>2, <1>3, <1>4, LeaseKept DEF Writer

LEMMA LeaseInit == Init => LeaseInv
BY DEF Init, LeaseInv, LeaseHeld, LeaseExclusion, Writer, Live, Holding, InTry

\* Neither an acquisition nor a release nor a crash.
LeaseQuiet ==
    /\ UNCHANGED <<locks, job, acquiredAt>>
    /\ \A s \in Run : Live(s)' => Live(s)
    /\ \/ now' = now
       \/ now' = now + 1 /\ \A s \in Run : Live(s)' = Live(s)

\* Every step is an acquisition, a release, a crash or quiet.
LEMMA StepKinds ==
    ASSUME TypeOK, [Next]_vars
    PROVE  \/ \E r \in Run, p \in Plans : Admit(r, p)
           \/ \E r \in Run : Release(r)
           \/ Crash
           \/ LeaseQuiet
<1> USE DEF LeaseQuiet, Live, Goto, Holding, InTry, TypeOK
<1>1. ASSUME NEW r \in Run, Submit(r) PROVE LeaseQuiet
    BY <1>1 DEF Submit, memVars, localVars, envVars
<1>2. ASSUME NEW r \in Run, Reject(r) PROVE LeaseQuiet
    BY <1>2 DEF Reject, localVars, envVars
<1>3. ASSUME NEW r \in Run, Refuse(r) PROVE LeaseQuiet
    BY <1>3 DEF Refuse, memVars, localVars, envVars
<1>4. ASSUME NEW r \in Run, Start(r) PROVE LeaseQuiet
    BY <1>4 DEF Start, memVars, envVars
<1>5. ASSUME NEW r \in Run, Fail(r) PROVE LeaseQuiet
    BY <1>5 DEF Fail, FailOutsideTry, Throw, CatchFails, memVars, localVars
<1>6. ASSUME NEW r \in Run, SkipStep(r) PROVE LeaseQuiet
    BY <1>6 DEF SkipStep, memVars, localVars, envVars
<1>7. ASSUME NEW r \in Run, BeginStep(r) PROVE LeaseQuiet
    BY <1>7 DEF BeginStep, AtNextStep, memVars, envVars
<1>8. ASSUME NEW r \in Run, NEW ok \in BOOLEAN, Attempt(r, ok)
      PROVE  LeaseQuiet
    BY <1>8 DEF Attempt, memVars, envVars
<1>9. ASSUME NEW r \in Run, RecordStepSuccess(r) PROVE LeaseQuiet
    BY <1>9 DEF RecordStepSuccess, memVars, localVars, envVars
<1>10. ASSUME NEW r \in Run, RecordStepFailure(r) PROVE LeaseQuiet
    BY <1>10 DEF RecordStepFailure, memVars, envVars
<1>11. ASSUME NEW r \in Run, Settle(r) \/ TimeOut(r) PROVE LeaseQuiet
    BY <1>11 DEF Settle, TimeOut, memVars, envVars
<1>12. ASSUME NEW r \in Run, Commit(r) \/ Catch(r) PROVE LeaseQuiet
    BY <1>12 DEF Commit, Catch, memVars, localVars, envVars
<1>13. CASE Tick
    BY <1>13 DEF Tick, memVars, localVars
<1>14. CASE UNCHANGED vars
    BY <1>14 DEF vars, memVars, localVars, envVars
<1> QED
    BY <1>1, <1>2, <1>3, <1>4, <1>5, <1>6, <1>7, <1>8, <1>9, <1>10,
       <1>11, <1>12, <1>13, <1>14
    DEF Next, Proceed, Quiescent

LEMMA LeaseNextKept ==
    ASSUME TypeOK, TypeOK', LeaseInv, [Next]_vars
    PROVE  LeaseInv'
<1>1. CASE \E r \in Run, p \in Plans : Admit(r, p)
    BY <1>1, LeaseAdmit
<1>2. CASE \E r \in Run : Release(r)
    BY <1>2, LeaseRelease
<1>3. CASE Crash
    <2>1. \A s \in Run : ~Live(s)'
        BY <1>3 DEF Crash, Live, Holding, InTry, TypeOK
    <2> QED
        BY <2>1 DEF LeaseInv, LeaseHeld, LeaseExclusion, Writer
<1>4. CASE LeaseQuiet
    <2>1. now' >= now
        BY <1>4 DEF LeaseQuiet, TypeOK
    <2> QED
        BY <1>4, <2>1, LeaseKept DEF LeaseQuiet
<1> QED
    BY <1>1, <1>2, <1>3, <1>4, StepKinds

\* A run at work owns its entry in the table or its lease has run out.
THEOREM LeaseHeldAlways == Spec => []LeaseHeld
<1>1. TypeOK /\ LeaseInv /\ [Next]_vars => TypeOK' /\ LeaseInv'
    BY TypeNext, LeaseNextKept
<1>2. Init => TypeOK /\ LeaseInv
    BY TypeInit, LeaseInit
<1>3. LeaseInv => LeaseHeld
    BY DEF LeaseInv
<1> QED
    BY <1>1, <1>2, <1>3, PTL DEF Spec

\* Two real runs at work on one target took its lock more than the life of
\* a lock apart, whatever failed or was released in between.
THEOREM LeaseExclusionAlways == Spec => []LeaseExclusion
<1>1. TypeOK /\ LeaseInv /\ [Next]_vars => TypeOK' /\ LeaseInv'
    BY TypeNext, LeaseNextKept
<1>2. Init => TypeOK /\ LeaseInv
    BY TypeInit, LeaseInit
<1>3. LeaseInv => LeaseExclusion
    BY DEF LeaseInv
<1> QED
    BY <1>1, <1>2, <1>3, PTL DEF Spec

-----------------------------------------------------------------------------
(* The worker implements TargetLease.  A step maps to the beginning of a   *)
(* writer (a real acquisition), to the end of some writers (a release, a   *)
(* crash, a failing write of RUNNING), to the passing of time, or to       *)
(* nothing.                                                                *)

LEMMA WritingIs ==
    ASSUME TypeOK, NEW s \in Run, NEW t \in Target
    PROVE  WritingTarget[s] = t <=> Writer(s, t)
BY WorkerAssumption DEF WritingTarget, Writer, TypeOK, Job

\* Runs only leave off: an End step of TargetLease.
LEMMA EndMaps ==
    ASSUME TypeOK, UNCHANGED <<job, acquiredAt, now>>,
           \A s \in Run : Live(s)' => Live(s)
    PROVE  Leases!LeaseNext
<1>1. PICK S \in SUBSET Run : \A s \in Run : s \in S <=> ~Live(s)'
    <2>1. {s \in Run : ~Live(s)'} \in SUBSET Run
        OBVIOUS
    <2> QED
        BY <2>1
<1>2. \A s \in Run :
        WritingTarget'[s] = IF s \in S THEN NoTarget ELSE WritingTarget[s]
    BY <1>1 DEF WritingTarget, Real
<1>3. Leases!End(S)
    BY <1>2 DEF Leases!End, WritingTarget
<1> QED
    BY <1>3 DEF Leases!LeaseNext

LEMMA BeginMaps ==
    ASSUME TypeOK, LeaseInv, NEW r \in Run, NEW p \in Plans, Admit(r, p),
           Real(r)
    PROVE  Leases!Begin(r, job[r].target)
<1> DEFINE u == job[r].target
<1>1. /\ u \in Target
      /\ job' = job /\ now' = now
      /\ Acquirable(locks, u, now)
      /\ acquiredAt' = [acquiredAt EXCEPT ![r] = now]
      /\ pc[r] = "reading"
      /\ pc' = [pc EXCEPT ![r] = "starting"]
    BY DEF Admit, Admissible, Goto, envVars, TypeOK, Job
<1>2. WritingTarget[r] = NoTarget
    BY <1>1 DEF WritingTarget, Live, Holding, InTry
<1>3. \A s \in Run : WritingTarget[s] = u => now - acquiredAt[s] > DefaultTimeout
    BY <1>1, WritingIs, OthersExpired
<1>4. WritingTarget' = [WritingTarget EXCEPT ![r] = u]
    <2>1. \A s \in Run : s # r => Live(s)' = Live(s)
        BY <1>1 DEF Live, TypeOK
    <2>2. Live(r)'
        BY <1>1 DEF Live, Holding, TypeOK
    <2> QED
        BY <1>1, <2>1, <2>2 DEF WritingTarget, Real
<1> QED
    BY <1>1, <1>2, <1>3, <1>4 DEF Leases!Begin

LEMMA StepMaps ==
    ASSUME TypeOK, LeaseInv, [Next]_vars
    PROVE  [Leases!LeaseNext]_(Leases!leaseVars)
<1>1. ASSUME NEW r \in Run, NEW p \in Plans, Admit(r, p), Real(r)
      PROVE  Leases!LeaseNext
    BY <1>1, BeginMaps DEF Leases!LeaseNext, TypeOK, Job
<1>2. ASSUME NEW r \in Run, NEW p \in Plans, Admit(r, p), ~Real(r)
      PROVE  UNCHANGED Leases!leaseVars
    <2>1. UNCHANGED <<job, now, acquiredAt>>
        BY <1>2 DEF Admit, envVars
    <2>2. \A s \in Run : s # r => Live(s)' = Live(s)
        BY <1>2 DEF Admit, Goto, Live, TypeOK
    <2>3. WritingTarget' = WritingTarget
        BY <1>2, <2>1, <2>2 DEF WritingTarget, Real
    <2> QED
        BY <2>1, <2>3 DEF Leases!leaseVars
<1>3. ASSUME NEW r \in Run, Release(r) PROVE Leases!LeaseNext
    <2>1. UNCHANGED <<job, acquiredAt, now>>
        BY <1>3 DEF Release, localVars, envVars
    <2>2. \A s \in Run : Live(s)' => Live(s)
        BY <1>3 DEF Release, Goto, Live, Holding, InTry, TypeOK
    <2> QED
        BY <2>1, <2>2, EndMaps
<1>4. CASE Crash
    <2>1. UNCHANGED <<job, acquiredAt, now>>
        BY <1>4 DEF Crash, localVars
    <2>2. \A s \in Run : ~Live(s)'
        BY <1>4 DEF Crash, Live, Holding, InTry, TypeOK
    <2> QED
        BY <2>1, <2>2, EndMaps
<1>5. CASE LeaseQuiet /\ now' = now
    BY <1>5, EndMaps DEF LeaseQuiet
<1>6. CASE LeaseQuiet /\ now' = now + 1 /\ \A s \in Run : Live(s)' = Live(s)
    <2>1. WritingTarget' = WritingTarget
        BY <1>6 DEF LeaseQuiet, WritingTarget, Real
    <2> QED
        BY <1>6, <2>1 DEF LeaseQuiet, Leases!Pass, Leases!LeaseNext
<1> QED
    BY <1>1, <1>2, <1>3, <1>4, <1>5, <1>6, StepKinds DEF LeaseQuiet

LEMMA InitMaps == Init => Leases!LeaseInit
BY DEF Init, Leases!LeaseInit, WritingTarget, Live, Holding, InTry

\* The lock table of the worker, with entries that expire, are taken over,
\* leak and vanish in a crash, implements the leases of TargetLease.
THEOREM WorkerImplementsLeases == Spec => ImplementsLeases
<1>1. TypeOK /\ LeaseInv /\ [Next]_vars => TypeOK' /\ LeaseInv'
    BY TypeNext, LeaseNextKept
<1>2. Init => TypeOK /\ LeaseInv
    BY TypeInit, LeaseInit
<1>3. Spec => [](TypeOK /\ LeaseInv)
    BY <1>1, <1>2, PTL DEF Spec
<1>4. TypeOK /\ LeaseInv /\ [Next]_vars => [Leases!LeaseNext]_(Leases!leaseVars)
    BY StepMaps
<1> QED
    BY <1>3, <1>4, InitMaps, PTL DEF Spec, ImplementsLeases, Leases!LeaseSpec

-----------------------------------------------------------------------------
(* Where a run stands.                                                     *)

\* What the database holds of a run at each place of its call.  The lock and
\* the final status are safe because of it: up to the write of RUNNING a run
\* has no step rows, and until the final write it has no final status.
Stage(r) ==
    /\ pc[r] = "idle" => status[r] = "ABSENT" /\ stepRuns[r] = <<>>
    /\ pc[r] \in {"reading", "refusing", "starting"} =>
          status[r] = "QUEUED" /\ stepRuns[r] = <<>>
    /\ pc[r] \in {"loop", "executing", "stepOk", "stepFailed", "stopped",
                  "committing"} => status[r] = "RUNNING"

StageInv == \A r \in Run : Stage(r)

\* A step of run r leaves the rows and the place of every other run alone.
Alone(r) ==
    /\ pc[r] \notin {"dead", "done"}
    /\ \A s \in Run \ {r} : /\ pc'[s] = pc[s]
                            /\ status'[s] = status[s]
                            /\ stepRuns'[s] = stepRuns[s]

LEMMA StepOfOne ==
    ASSUME TypeOK, StageInv, NEW r \in Run, Submit(r) \/ Proceed(r) \/ Fail(r)
    PROVE  Alone(r) /\ Stage(r)'
<1> USE DEF TypeOK, StageInv, Stage, Alone, Goto
<1>1. CASE Submit(r)
    BY <1>1 DEF Submit
<1>2. ASSUME NEW p \in Plans, Admit(r, p) PROVE Alone(r) /\ Stage(r)'
    BY <1>2 DEF Admit, dbVars
<1>3. CASE Reject(r)
    BY <1>3 DEF Reject, dbVars
<1>4. CASE Refuse(r)
    BY <1>4 DEF Refuse
<1>5. CASE Start(r)
    BY <1>5 DEF Start
<1>6. CASE SkipStep(r)
    BY <1>6 DEF SkipStep, AtNextStep
<1>7. CASE BeginStep(r)
    <2>1. PICK loc \in {"executing", "stepFailed"} : pc' = [pc EXCEPT ![r] = loc]
        BY <1>7 DEF BeginStep
    <2> QED
        BY <1>7, <2>1 DEF BeginStep, AtNextStep
<1>8. ASSUME NEW ok \in BOOLEAN, Attempt(r, ok) PROVE Alone(r) /\ Stage(r)'
    <2>1. PICK loc \in {"stepOk", "executing", "stepFailed"} :
             pc' = [pc EXCEPT ![r] = loc]
        BY <1>8 DEF Attempt
    <2> QED
        BY <1>8, <2>1 DEF Attempt, dbVars
<1>9. CASE RecordStepSuccess(r)
    BY <1>9 DEF RecordStepSuccess, SetStep
<1>10. CASE RecordStepFailure(r)
    <2>1. PICK loc \in {"loop", "stopped"} : pc' = [pc EXCEPT ![r] = loc]
        BY <1>10 DEF RecordStepFailure
    <2> QED
        BY <1>10, <2>1 DEF RecordStepFailure, SetStep
<1>11. CASE Settle(r) \/ TimeOut(r)
    BY <1>11 DEF Settle, TimeOut, dbVars
<1>12. CASE Commit(r) \/ Catch(r)
    BY <1>12 DEF Commit, Catch
<1>13. CASE Release(r)
    BY <1>13 DEF Release, dbVars
<1>14. CASE FailOutsideTry(r)
    BY <1>14 DEF FailOutsideTry
<1>15. CASE Throw(r) \/ CatchFails(r)
    BY <1>15 DEF Throw, CatchFails, InTry, dbVars
<1> QED
    BY <1>1, <1>2, <1>3, <1>4, <1>5, <1>6, <1>7, <1>8, <1>9, <1>10, <1>11,
       <1>12, <1>13, <1>14, <1>15
    DEF Proceed, Fail

LEMMA StageInit == Init => StageInv
<1> SUFFICES ASSUME Init, NEW r \in Run PROVE Stage(r)
    BY DEF StageInv
<1>1. pc[r] = "idle" /\ status[r] = "ABSENT" /\ stepRuns[r] = <<>>
    BY DEF Init
<1> QED
    BY <1>1 DEF Stage

LEMMA StageNext == TypeOK /\ StageInv /\ [Next]_vars => StageInv'
<1> SUFFICES ASSUME TypeOK, StageInv, [Next]_vars PROVE StageInv'
    OBVIOUS
<1>1. ASSUME NEW r \in Run, Submit(r) \/ Proceed(r) \/ Fail(r)
      PROVE  StageInv'
    <2>1. Alone(r) /\ Stage(r)'
        BY <1>1, StepOfOne
    <2> QED
        BY <2>1 DEF StageInv, Stage, Alone
<1>2. CASE Crash
    BY <1>2 DEF Crash, dbVars, TypeOK, StageInv, Stage
<1>3. CASE UNCHANGED <<status, stepRuns, pc>>
    BY <1>3 DEF StageInv, Stage
<1> QED
    BY <1>1, <1>2, <1>3 DEF Next, Tick, Quiescent, vars, dbVars

-----------------------------------------------------------------------------
(* Final statuses.                                                         *)

\* A final status changes only in the catch clause.
THEOREM TerminalIsFinalAlways == Spec => TerminalIsFinal
<1> DEFINE Kept ==
        \A r \in Run : status[r] \in Terminal /\ status'[r] # status[r] =>
            pc[r] = "catching" /\ status'[r] = "FAILED"
<1>1. TypeOK /\ StageInv /\ [Next]_vars => [Kept]_vars
    <2> SUFFICES ASSUME TypeOK, StageInv, Next, NEW r \in Run,
                        status[r] \in Terminal, status'[r] # status[r]
                 PROVE  pc[r] = "catching" /\ status'[r] = "FAILED"
        BY DEF vars, dbVars
    <2>1. pc[r] \notin {"idle", "reading", "refusing", "starting", "committing"}
        BY DEF StageInv, Stage, Terminal
    <2>2. PICK s \in Run : Submit(s) \/ Proceed(s) \/ Fail(s)
        BY DEF Next, Crash, Tick, Quiescent, vars, dbVars
    <2>3. s = r
        BY <2>2, StepOfOne DEF Alone
    <2>4. CASE Catch(r)
        BY <2>4 DEF Catch, TypeOK
    <2>5. CASE status' = status
        BY <2>5
    <2> QED
        BY <2>1, <2>2, <2>3, <2>4, <2>5
        DEF Submit, Proceed, Fail, Admit, Reject, Refuse, Start, SkipStep,
            BeginStep, Attempt, RecordStepSuccess, RecordStepFailure, Settle,
            TimeOut, Commit, Release, FailOutsideTry, Throw, CatchFails, dbVars
<1>2. Init => TypeOK /\ StageInv
    BY TypeInit, StageInit
<1>3. TypeOK /\ StageInv /\ [Next]_vars => TypeOK' /\ StageInv'
    BY TypeNext, StageNext
<1> QED
    BY <1>1, <1>2, <1>3, PTL DEF Spec, TerminalIsFinal

-----------------------------------------------------------------------------
(* The entries of the lock table.                                          *)

OwnedBy(r, t) ==
    \/ Writer(r, t)
    \/ /\ pc[r] = "dead"
       /\ status[r] \in {"QUEUED", "RUNNING"}
       /\ stepRuns[r] = <<>>

Owned == \A t \in Target, r \in Run : locks[t].runId = r => OwnedBy(r, t)

LEMMA OwnedIs == TypeOK => (LockNotLeaked <=> Owned)
<1> SUFFICES ASSUME TypeOK PROVE LockNotLeaked <=> Owned
    OBVIOUS
<1>1. \A t \in Target : locks[t].runId \in Run \cup {NoRun}
    BY DEF TypeOK, Lock
<1> QED
    BY <1>1, LockAssumption DEF LockNotLeaked, Owned, OwnedBy

\* The step of another run takes nothing from an owner.
LEMMA OwnedAside ==
    ASSUME NEW r \in Run, NEW s \in Run, s # r, Alone(r), job' = job,
           NEW t \in Target, OwnedBy(s, t)
    PROVE  OwnedBy(s, t)'
BY DEF OwnedBy, Alone, Writer, Live, Real

\* A run that neither acquires nor releases and leaves its work dies before
\* its first step.
LEMMA OwnedOn ==
    ASSUME TypeOK, StageInv, NEW r \in Run, NEW t \in Target,
           Submit(r) \/ Proceed(r) \/ Fail(r), ~Release(r),
           job' = job, OwnedBy(r, t)
    PROVE  OwnedBy(r, t)'
<1>1. Writer(r, t)
    BY StepOfOne DEF OwnedBy, Alone
<1>2. Live(r) /\ (Live(r)' => Writer(r, t)')
    BY <1>1 DEF Writer, Real
<1>3. CASE FailOutsideTry(r)
    <2>1. pc[r] = "starting" /\ pc' = [pc EXCEPT ![r] = "dead"]
        BY <1>2, <1>3 DEF FailOutsideTry, Live, Holding, InTry, Goto
    <2>2. status[r] = "QUEUED" /\ stepRuns[r] = <<>>
        BY <2>1 DEF StageInv, Stage
    <2>3. status'[r] \in {"QUEUED", "RUNNING"} /\ stepRuns'[r] = <<>>
        BY <1>3, <2>2 DEF FailOutsideTry, TypeOK
    <2> QED
        BY <2>1, <2>3 DEF OwnedBy, TypeOK
<1>4. CASE ~FailOutsideTry(r)
    <2>1. Live(r)'
        BY <1>2, <1>4
        DEF Submit, Proceed, Fail, Admit, Reject, Refuse, Start, SkipStep,
            BeginStep, Attempt, RecordStepSuccess, RecordStepFailure, Settle,
            TimeOut, Commit, Catch, Throw, CatchFails, AtNextStep, Live,
            Holding, InTry, Goto, TypeOK
    <2> QED
        BY <1>2, <2>1 DEF OwnedBy
<1> QED
    BY <1>3, <1>4

LEMMA OwnedAdmit ==
    ASSUME TypeOK, StageInv, Owned, NEW r \in Run, NEW p \in Plans, Admit(r, p)
    PROVE  Owned'
<1>1. Alone(r)
    BY StepOfOne DEF Proceed
<1>2. job' = job /\ pc[r] = "reading" /\ pc'[r] = "starting"
    BY DEF Admit, Goto, TypeOK
<1>3. \A t \in Target : locks[t].runId # r
    BY <1>2 DEF Owned, OwnedBy, Writer, Live, Holding, InTry
<1>4. SUFFICES ASSUME NEW t \in Target, NEW s \in Run, locks'[t].runId = s
               PROVE  OwnedBy(s, t)'
    BY DEF Owned
<1>5. CASE locks'[t] = locks[t]
    <2>1. s # r /\ OwnedBy(s, t)
        BY <1>3, <1>4, <1>5 DEF Owned
    <2> QED
        BY <1>1, <1>2, <2>1, OwnedAside
<1>6. CASE locks'[t] # locks[t]
    <2>1. Real(r) /\ locks' = acquireLock(locks, job[r].target, r, now)
        BY <1>6 DEF Admit
    <2>2. t = job[r].target /\ s = r
        BY <1>4, <1>6, <2>1 DEF acquireLock, TypeOK
    <2> QED
        BY <1>2, <2>1, <2>2 DEF OwnedBy, Writer, Live, Real, Holding, InTry
<1> QED
    BY <1>5, <1>6

LEMMA OwnedRelease ==
    ASSUME TypeOK, StageInv, Owned, NEW r \in Run, Release(r)
    PROVE  Owned'
<1>1. Alone(r)
    BY StepOfOne DEF Proceed
<1>2. job' = job /\ pc[r] \in {"committed", "releasing"}
    BY DEF Release
<1>3. SUFFICES ASSUME NEW t \in Target, NEW s \in Run, locks'[t].runId = s
               PROVE  OwnedBy(s, t)'
    BY DEF Owned
<1>4. locks'[t] = locks[t]
    BY <1>3, LockAssumption DEF Release, releaseLock, NoLock, TypeOK
<1>5. OwnedBy(s, t)
    BY <1>3, <1>4 DEF Owned
<1>6. s # r
    <2> SUFFICES ASSUME s = r PROVE FALSE
        OBVIOUS
    <2>1. Writer(r, t)
        BY <1>2, <1>5 DEF OwnedBy
    <2>2. locks' = releaseLock(locks, t, r)
        BY <2>1 DEF Release, Writer
    <2>3. locks[t].runId = r
        BY <1>3, <1>4
    <2>4. locks'[t] = NoLock
        BY <2>2, <2>3 DEF releaseLock, TypeOK
    <2> QED
        BY <1>3, <2>4, LockAssumption DEF NoLock
<1> QED
    BY <1>1, <1>2, <1>5, <1>6, OwnedAside

LEMMA OwnedQuiet ==
    ASSUME TypeOK, StageInv, Owned, [Next]_vars, locks' = locks, job' = job,
           ~Crash, \A r \in Run : ~Release(r)
    PROVE  Owned'
<1> SUFFICES ASSUME NEW s \in Run, NEW t \in Target, OwnedBy(s, t)
             PROVE  OwnedBy(s, t)'
    BY DEF Owned
<1>1. ASSUME NEW r \in Run, Submit(r) \/ Proceed(r) \/ Fail(r)
      PROVE  OwnedBy(s, t)'
    <2>1. CASE s = r
        BY <1>1, <2>1, OwnedOn
    <2>2. CASE s # r
        BY <1>1, <2>2, StepOfOne, OwnedAside
    <2> QED
        BY <2>1, <2>2
<1>2. CASE UNCHANGED <<pc, status, stepRuns>>
    BY <1>2 DEF OwnedBy, Writer, Live, Real
<1> QED
    BY <1>1, <1>2 DEF Next, Tick, Quiescent, vars, dbVars

LEMMA OwnedNext == TypeOK /\ StageInv /\ Owned /\ [Next]_vars => Owned'
<1> SUFFICES ASSUME TypeOK, StageInv, Owned, [Next]_vars PROVE Owned'
    OBVIOUS
<1>1. CASE \E r \in Run, p \in Plans : Admit(r, p)
    BY <1>1, OwnedAdmit
<1>2. CASE \E r \in Run : Release(r)
    BY <1>2, OwnedRelease
<1>3. CASE Crash
    BY <1>3, LockAssumption DEF Crash, Owned, NoLocks, NoLock
<1>4. CASE LeaseQuiet /\ ~Crash /\ \A r \in Run : ~Release(r)
    BY <1>4, OwnedQuiet DEF LeaseQuiet
<1> QED
    BY <1>1, <1>2, <1>3, <1>4, StepKinds

OwnedInv == TypeOK /\ StageInv /\ Owned

LEMMA OwnedInvInit == Init => OwnedInv
<1> SUFFICES ASSUME Init PROVE Owned
    BY TypeInit, StageInit DEF OwnedInv
<1> QED
    BY LockAssumption DEF Init, Owned, NoLocks, NoLock

LEMMA OwnedInvNext == OwnedInv /\ [Next]_vars => OwnedInv'
BY TypeNext, StageNext, OwnedNext DEF OwnedInv

\* An entry of the lock table belongs to a run that is at work, or to one
\* that ended because its write of RUNNING failed.
THEOREM LockNotLeakedAlways == Spec => []LockNotLeaked
<1>1. OwnedInv => LockNotLeaked
    BY OwnedIs DEF OwnedInv
<1> QED
    BY <1>1, OwnedInvInit, OwnedInvNext, PTL DEF Spec

\* An entry leaves the table when its own run comes to its end, or with the
\* process.
THEOREM NoForeignReleaseAlways == Spec => NoForeignRelease
<1> DEFINE Kept ==
        \A t \in Target :
          LET r == locks[t].runId IN
            r # NoRun /\ locks'[t].runId = NoRun =>
                crashes' # crashes \/ (pc[r] # "done" /\ pc'[r] = "done")
<1>1. OwnedInv /\ [Next]_vars => [Kept]_vars
    <2> SUFFICES ASSUME OwnedInv, Next, NEW t \in Target,
                        locks[t].runId # NoRun, locks'[t].runId = NoRun
                 PROVE  \/ crashes' # crashes
                        \/ /\ pc[locks[t].runId] # "done"
                           /\ pc'[locks[t].runId] = "done"
        BY DEF vars, dbVars
    <2> USE DEF OwnedInv
    <2>1. ASSUME NEW r \in Run, NEW p \in Plans, Admit(r, p) PROVE FALSE
        <3>1. \/ locks' = locks
              \/ locks' = [locks EXCEPT ![job[r].target] =
                              [runId |-> r, lockedAt |-> now]]
            BY <2>1 DEF Admit, acquireLock
        <3>2. locks'[t] = locks[t] \/ locks'[t].runId = r
            BY <3>1 DEF TypeOK
        <3> QED
            BY <3>2, LockAssumption
    <2>2. ASSUME NEW r \in Run, Release(r)
          PROVE  pc[locks[t].runId] # "done" /\ pc'[locks[t].runId] = "done"
        <3>1. locks[t].runId = r
            BY <2>2 DEF Release, releaseLock, TypeOK
        <3> QED
            BY <2>2, <3>1 DEF Release, Goto, TypeOK
    <2>3. CASE Crash
        BY <2>3 DEF Crash, TypeOK
    <2>4. CASE LeaseQuiet
        BY <2>4 DEF LeaseQuiet
    <2> QED
        BY <2>1, <2>2, <2>3, <2>4, StepKinds
<1> QED
    BY <1>1, OwnedInvInit, OwnedInvNext, PTL DEF Spec, NoForeignRelease

-----------------------------------------------------------------------------
(* The rows of a run.  That they follow the plan, and that a success is one, *)
(* rests on what the call knows at each of its places: runFailed says       *)
(* whether a row FAILED, a row that is RUNNING is the last, and the loop is *)
(* entered again only over rows that are finished.                          *)

Finished(r, i) ==
    /\ stepRuns[r][i] # "RUNNING"
    /\ stepRuns[r][i] = "FAILED" => plan[r][i].continueOnError

OmittedAt(r, i) ==
    \/ plan[r][i].condition = "ON_SUCCESS" /\ FailedBefore(r, i)
    \/ plan[r][i].condition = "ON_FAILURE" /\ ~FailedBefore(r, i)

RowTrue(r, i) ==
    /\ (stepRuns[r][i] = "SKIPPED") <=> OmittedAt(r, i)
    /\ i < Len(stepRuns[r]) => Finished(r, i)

Complete(r) ==
    /\ Len(stepRuns[r]) = Len(plan[r])
    /\ \A i \in 1 .. Len(plan[r]) :
          \/ stepRuns[r][i] = "SUCCESS"
          \/ /\ stepRuns[r][i] = "SKIPPED"
             /\ plan[r][i].condition = "ON_FAILURE"

SomeFailed(r) == \E i \in 1 .. Len(stepRuns[r]) : stepRuns[r][i] = "FAILED"

RowsFollow(r) ==
    /\ Len(stepRuns[r]) <= Len(plan[r])
    /\ \A i \in 1 .. Len(stepRuns[r]) : RowTrue(r, i)

BeforeLoop == {"idle", "reading", "refusing", "starting"}
AtStep     == {"executing", "stepOk", "stepFailed"}
Undecided  == BeforeLoop \cup AtStep \cup {"loop", "stopped"}

\* What a call knows of its rows.
Known(r) ==
    /\ pc[r] \in BeforeLoop => stepRuns[r] = <<>>
    /\ pc[r] \in Undecided =>
          (runFailed[r] <=> SomeFailed(r)) /\ finalStatus[r] = "ABSENT"
    /\ pc[r] = "loop" => \A i \in 1 .. Len(stepRuns[r]) : Finished(r, i)
    /\ pc[r] \in AtStep =>
          stepRuns[r] # <<>> /\ stepRuns[r][Len(stepRuns[r])] = "RUNNING"
    /\ pc[r] = "stopped" => runFailed[r]
    /\ pc[r] = "committing" /\ finalStatus[r] = "SUCCESS" => Complete(r)
    /\ status[r] = "SUCCESS" => Complete(r)

RowsInv == \A r \in Run : RowsFollow(r) /\ Known(r)

\* Everything the invariant says of a run depends on these alone.
SamePapers(s) ==
    /\ status'[s] = status[s] /\ stepRuns'[s] = stepRuns[s]
    /\ plan'[s] = plan[s] /\ pc'[s] = pc[s]
    /\ runFailed'[s] = runFailed[s] /\ finalStatus'[s] = finalStatus[s]

LEMMA RowsKept ==
    ASSUME NEW s \in Run, RowsFollow(s), stepRuns'[s] = stepRuns[s],
           plan'[s] = plan[s]
    PROVE  RowsFollow(s)'
BY DEF RowsFollow, RowTrue, OmittedAt, FailedBefore, Finished

LEMMA PapersKept ==
    ASSUME NEW s \in Run, RowsFollow(s), Known(s), SamePapers(s)
    PROVE  RowsFollow(s)' /\ Known(s)'
<1>1. RowsFollow(s)'
    BY RowsKept DEF SamePapers
<1>2. Known(s)'
    BY DEF SamePapers, Known, Complete, SomeFailed, Finished
<1> QED
    BY <1>1, <1>2

\* A step of one run leaves the papers of the others alone.
LEMMA OthersPapers ==
    ASSUME TypeOK, NEW r \in Run, Submit(r) \/ Proceed(r) \/ Fail(r),
           NEW s \in Run, s # r
    PROVE  SamePapers(s)
<1> USE DEF TypeOK, SamePapers, Goto
<1>1. CASE Submit(r)
    BY <1>1 DEF Submit, localVars
<1>2. ASSUME NEW p \in Plans, Admit(r, p) PROVE SamePapers(s)
    BY <1>2 DEF Admit, dbVars
<1>3. CASE Reject(r)
    BY <1>3 DEF Reject, dbVars, localVars
<1>4. CASE Refuse(r) \/ Commit(r) \/ Catch(r)
    BY <1>4 DEF Refuse, Commit, Catch, localVars
<1>5. CASE Start(r)
    BY <1>5 DEF Start
<1>6. CASE SkipStep(r) \/ RecordStepSuccess(r)
    BY <1>6 DEF SkipStep, RecordStepSuccess, SetStep, localVars
<1>7. CASE BeginStep(r) \/ RecordStepFailure(r)
    BY <1>7 DEF BeginStep, RecordStepFailure, SetStep
<1>8. ASSUME NEW ok \in BOOLEAN, Attempt(r, ok) PROVE SamePapers(s)
    BY <1>8 DEF Attempt, dbVars
<1>9. CASE Settle(r) \/ TimeOut(r)
    BY <1>9 DEF Settle, TimeOut, dbVars
<1>10. CASE Release(r)
    BY <1>10 DEF Release, dbVars, localVars
<1>11. CASE Fail(r)
    BY <1>11 DEF Fail, FailOutsideTry, Throw, CatchFails, dbVars, localVars
<1> QED
    BY <1>1, <1>2, <1>3, <1>4, <1>5, <1>6, <1>7, <1>8, <1>9, <1>10, <1>11
    DEF Proceed

\* The next row of the loop, skipped or begun: what its condition asks is read
\* from runFailed.
LEMMA RowGrown ==
    ASSUME TypeOK, NEW r \in Run, RowsFollow(r), Known(r), AtNextStep(r),
           NEW e \in {"SKIPPED", "RUNNING"}, (e = "SKIPPED") <=> Omitted(r),
           stepRuns' = [stepRuns EXCEPT ![r] = Append(@, e)], plan' = plan
    PROVE  /\ RowsFollow(r)'
           /\ Len(stepRuns'[r]) = Len(stepRuns[r]) + 1
           /\ stepRuns'[r][Len(stepRuns[r]) + 1] = e
           /\ \A i \in 1 .. Len(stepRuns[r]) :
                 stepRuns'[r][i] = stepRuns[r][i] /\ Finished(r, i)
           /\ SomeFailed(r)' <=> SomeFailed(r)
<1> DEFINE n == Len(stepRuns[r])
<1>1. stepRuns[r] \in Seq(StepStatus) /\ plan[r] \in Seq(StepConfig) /\ n \in Nat
    BY DEF TypeOK
<1>2. stepRuns'[r] = Append(stepRuns[r], e) /\ e \in StepStatus
    BY DEF TypeOK, StepStatus
<1>3. /\ Len(stepRuns'[r]) = n + 1
      /\ stepRuns'[r][n + 1] = e
      /\ \A i \in 1 .. n : stepRuns'[r][i] = stepRuns[r][i]
    BY <1>1, <1>2, AppendProperties
<1>4. \A i \in 1 .. n : Finished(r, i)
    BY DEF AtNextStep, Known
<1>5. n + 1 <= Len(plan[r])
    BY <1>1 DEF AtNextStep, StepsLeft
<1>6. SomeFailed(r)' <=> SomeFailed(r)
    BY <1>1, <1>3 DEF SomeFailed
<1>7. \A i \in 1 .. n + 1 : FailedBefore(r, i)' <=> FailedBefore(r, i)
    BY <1>1, <1>3 DEF FailedBefore
<1>8. FailedBefore(r, n + 1) <=> runFailed[r]
    <2>1. runFailed[r] <=> SomeFailed(r)
        BY DEF Known, AtNextStep, Undecided
    <2> QED
        BY <1>1, <2>1 DEF SomeFailed, FailedBefore
<1>9. \A i \in 1 .. n : RowTrue(r, i)'
    <2> SUFFICES ASSUME NEW i \in 1 .. n PROVE RowTrue(r, i)'
        OBVIOUS
    <2>1. RowTrue(r, i) /\ i \in 1 .. n + 1
        BY <1>1 DEF RowsFollow
    <2> QED
        BY <1>1, <1>3, <1>4, <1>7, <2>1 DEF RowTrue, OmittedAt, Finished
<1>10. ASSUME NEW i \in 1 .. n + 1, i = n + 1 PROVE RowTrue(r, i)'
    <2>1. FailedBefore(r, i)' <=> runFailed[r]
        BY <1>7, <1>8, <1>10
    <2>2. OmittedAt(r, i)' <=> Omitted(r)
        BY <1>10, <2>1 DEF OmittedAt, Omitted, NextStep
    <2> QED
        BY <1>1, <1>3, <1>10, <2>2 DEF RowTrue
<1>11. RowsFollow(r)'
    BY <1>1, <1>3, <1>5, <1>9, <1>10 DEF RowsFollow
<1> QED
    BY <1>3, <1>4, <1>6, <1>11

\* The last row, which was RUNNING, gets its result.
LEMMA RowSet ==
    ASSUME TypeOK, NEW r \in Run, RowsFollow(r), Known(r), pc[r] \in AtStep,
           NEW e \in {"SUCCESS", "FAILED"}, SetStep(r, e), plan' = plan
    PROVE  /\ RowsFollow(r)'
           /\ Len(stepRuns'[r]) = Len(stepRuns[r])
           /\ Len(stepRuns[r]) \in 1 .. Len(plan[r])
           /\ stepRuns'[r][Len(stepRuns[r])] = e
           /\ \A i \in 1 .. Len(stepRuns[r]) - 1 :
                 stepRuns'[r][i] = stepRuns[r][i] /\ Finished(r, i)
           /\ SomeFailed(r)' <=> SomeFailed(r) \/ e = "FAILED"
<1> DEFINE n == Len(stepRuns[r])
<1>1. stepRuns[r] \in Seq(StepStatus) /\ plan[r] \in Seq(StepConfig)
    BY DEF TypeOK
<1>2. stepRuns[r] # <<>> /\ stepRuns[r][n] = "RUNNING"
    BY DEF Known
<1>3. n \in Nat /\ n >= 1
    BY <1>1, <1>2, EmptySeq
<1>4. stepRuns'[r] = [stepRuns[r] EXCEPT ![n] = e]
    BY DEF SetStep, TypeOK
<1>5. /\ Len(stepRuns'[r]) = n
      /\ stepRuns'[r][n] = e
      /\ \A i \in 1 .. n - 1 : stepRuns'[r][i] = stepRuns[r][i]
    BY <1>1, <1>3, <1>4, ExceptSeq DEF StepStatus
<1>6. \A i \in 1 .. n - 1 : Finished(r, i)
    BY <1>3 DEF RowsFollow, RowTrue
<1>7. SomeFailed(r)' <=> SomeFailed(r) \/ e = "FAILED"
    BY <1>2, <1>3, <1>5 DEF SomeFailed
<1>8. \A i \in 1 .. n : FailedBefore(r, i)' <=> FailedBefore(r, i)
    BY <1>3, <1>5 DEF FailedBefore
<1>9. ASSUME NEW i \in 1 .. n PROVE RowTrue(r, i)'
    <2>1. RowTrue(r, i)
        BY DEF RowsFollow
    <2>2. stepRuns'[r][i] = "SKIPPED" <=> stepRuns[r][i] = "SKIPPED"
        BY <1>2, <1>3, <1>5
    <2>3. OmittedAt(r, i)' <=> OmittedAt(r, i)
        BY <1>8 DEF OmittedAt
    <2>4. i < n => Finished(r, i)'
        BY <1>3, <1>5, <1>6 DEF Finished
    <2> QED
        BY <1>5, <2>1, <2>2, <2>3, <2>4 DEF RowTrue
<1>10. n <= Len(plan[r]) /\ Len(plan[r]) \in Nat
    BY <1>1 DEF RowsFollow
<1>11. RowsFollow(r)'
    BY <1>5, <1>9, <1>10 DEF RowsFollow
<1> QED
    BY <1>3, <1>5, <1>6, <1>7, <1>10, <1>11

\* The loop came to its end without a failure.
LEMMA WithoutFailure ==
    ASSUME TypeOK, NEW r \in Run, RowsFollow(r), Known(r), pc[r] = "loop",
           ~StepsLeft(r), ~runFailed[r]
    PROVE  Complete(r)
<1>1. stepRuns[r] \in Seq(StepStatus) /\ plan[r] \in Seq(StepConfig)
    BY DEF TypeOK
<1>2. Len(stepRuns[r]) = Len(plan[r])
    BY <1>1 DEF RowsFollow, StepsLeft
<1>3. ~SomeFailed(r)
    BY DEF Known, Undecided
<1> SUFFICES ASSUME NEW i \in 1 .. Len(plan[r])
             PROVE  \/ stepRuns[r][i] = "SUCCESS"
                    \/ /\ stepRuns[r][i] = "SKIPPED"
                       /\ plan[r][i].condition = "ON_FAILURE"
    BY <1>2 DEF Complete
<1>4. stepRuns[r][i] \in {"SUCCESS", "SKIPPED"}
    <2>1. stepRuns[r][i] \in StepStatus
        BY <1>1, <1>2
    <2> QED
        BY <1>2, <1>3, <2>1 DEF Known, Finished, SomeFailed, StepStatus
<1>5. ~FailedBefore(r, i)
    BY <1>1, <1>2, <1>3 DEF FailedBefore, SomeFailed
<1>6. stepRuns[r][i] = "SKIPPED" => plan[r][i].condition = "ON_FAILURE"
    BY <1>2, <1>5 DEF RowsFollow, RowTrue, OmittedAt
<1> QED
    BY <1>4, <1>6

LEMMA RowsStepOwn ==
    ASSUME TypeOK, StageInv, NEW r \in Run, RowsFollow(r), Known(r),
           Submit(r) \/ Proceed(r) \/ Fail(r)
    PROVE  RowsFollow(r)' /\ Known(r)'
<1> DEFINE Goal == RowsFollow(r)' /\ Known(r)'
<1> USE DEF Goto, BeforeLoop, AtStep, Undecided
\* Steps that leave the rows and the plan alone keep the first part.
<1>a. stepRuns'[r] = stepRuns[r] /\ plan'[r] = plan[r] =>
         /\ RowsFollow(r)'
         /\ SomeFailed(r)' <=> SomeFailed(r)
         /\ Complete(r)' <=> Complete(r)
         /\ \A i \in 1 .. Len(stepRuns[r]) : Finished(r, i)' <=> Finished(r, i)
    BY RowsKept DEF SomeFailed, Complete, Finished
<1>1. CASE Submit(r)
    BY <1>1, <1>a DEF Submit, localVars, Known, TypeOK
<1>2. ASSUME NEW p \in Plans, Admit(r, p) PROVE Goal
    <2>1. pc[r] = "reading" /\ pc'[r] = "starting" /\ plan'[r] = p
          /\ UNCHANGED <<status, stepRuns, runFailed, finalStatus>>
        BY <1>2 DEF Admit, dbVars, TypeOK
    <2>2. stepRuns[r] = <<>> /\ status[r] = "QUEUED"
        BY <2>1 DEF Known, StageInv, Stage
    <2>3. p \in Seq(StepConfig)
        BY WorkerAssumption
    <2>4. RowsFollow(r)'
        BY <2>1, <2>2, <2>3 DEF RowsFollow
    <2> QED
        BY <2>1, <2>2, <2>4 DEF Known, SomeFailed
<1>3. CASE Reject(r)
    BY <1>3, <1>a DEF Reject, dbVars, localVars, Known, TypeOK
<1>4. CASE Refuse(r)
    BY <1>4, <1>a DEF Refuse, localVars, Known, TypeOK
<1>5. CASE Start(r)
    <2>1. /\ pc[r] = "starting" /\ pc'[r] = "loop"
          /\ status'[r] = "RUNNING"
          /\ UNCHANGED <<stepRuns, plan, runFailed, finalStatus>>
        BY <1>5 DEF Start, TypeOK
    <2>2. stepRuns[r] = <<>>
        BY <2>1 DEF Known
    <2> QED
        BY <2>1, <2>2, <1>a DEF Known
<1>6. CASE SkipStep(r)
    <2>1. /\ pc[r] = "loop" /\ status[r] = "RUNNING"
          /\ UNCHANGED <<status, pc, plan, runFailed, finalStatus>>
          /\ stepRuns' = [stepRuns EXCEPT ![r] = Append(@, "SKIPPED")]
        BY <1>6 DEF SkipStep, AtNextStep, localVars, StageInv, Stage
    <2>2. /\ RowsFollow(r)'
          /\ Len(stepRuns'[r]) = Len(stepRuns[r]) + 1
          /\ stepRuns'[r][Len(stepRuns[r]) + 1] = "SKIPPED"
          /\ \A i \in 1 .. Len(stepRuns[r]) :
                stepRuns'[r][i] = stepRuns[r][i] /\ Finished(r, i)
          /\ SomeFailed(r)' <=> SomeFailed(r)
        BY <1>6, <2>1, RowGrown DEF SkipStep
    <2>3. \A i \in 1 .. Len(stepRuns'[r]) : Finished(r, i)'
        <3>1. Len(stepRuns[r]) \in Nat
            BY DEF TypeOK
        <3> QED
            BY <2>1, <2>2, <3>1 DEF Finished
    <2> QED
        BY <2>1, <2>2, <2>3 DEF Known
<1>7. CASE BeginStep(r)
    <2>1. /\ pc[r] = "loop" /\ pc'[r] \in AtStep /\ status[r] = "RUNNING"
          /\ UNCHANGED <<status, plan, runFailed, finalStatus>>
          /\ stepRuns' = [stepRuns EXCEPT ![r] = Append(@, "RUNNING")]
        BY <1>7 DEF BeginStep, AtNextStep, StageInv, Stage, TypeOK
    <2>2. /\ RowsFollow(r)'
          /\ Len(stepRuns'[r]) = Len(stepRuns[r]) + 1
          /\ stepRuns'[r][Len(stepRuns[r]) + 1] = "RUNNING"
          /\ SomeFailed(r)' <=> SomeFailed(r)
        BY <1>7, <2>1, RowGrown DEF BeginStep
    <2>3. stepRuns'[r] # <<>> /\ stepRuns'[r][Len(stepRuns'[r])] = "RUNNING"
        <3>1. Len(stepRuns[r]) \in Nat
            BY DEF TypeOK
        <3>2. Len(<<>>) = 0
            OBVIOUS
        <3> QED
            BY <2>2, <3>1, <3>2
    <2> QED
        BY <2>1, <2>2, <2>3 DEF Known
<1>8. ASSUME NEW ok \in BOOLEAN, Attempt(r, ok) PROVE Goal
    <2>1. /\ pc[r] = "executing" /\ pc'[r] \in AtStep
          /\ UNCHANGED <<status, stepRuns, plan, runFailed, finalStatus>>
        BY <1>8 DEF Attempt, dbVars, TypeOK
    <2> QED
        BY <2>1, <1>a DEF Known
<1>9. CASE RecordStepSuccess(r)
    <2>1. /\ pc[r] = "stepOk" /\ pc'[r] = "loop" /\ status[r] = "RUNNING"
          /\ UNCHANGED <<status, plan, runFailed, finalStatus>>
          /\ SetStep(r, "SUCCESS")
        BY <1>9 DEF RecordStepSuccess, localVars, StageInv, Stage, TypeOK
    <2>2. /\ RowsFollow(r)'
          /\ Len(stepRuns'[r]) = Len(stepRuns[r])
          /\ Len(stepRuns[r]) \in 1 .. Len(plan[r])
          /\ stepRuns'[r][Len(stepRuns[r])] = "SUCCESS"
          /\ \A i \in 1 .. Len(stepRuns[r]) - 1 :
                stepRuns'[r][i] = stepRuns[r][i] /\ Finished(r, i)
          /\ SomeFailed(r)' <=> SomeFailed(r)
        BY <2>1, RowSet
    <2>3. \A i \in 1 .. Len(stepRuns'[r]) : Finished(r, i)'
        BY <2>1, <2>2 DEF Finished
    <2> QED
        BY <2>1, <2>2, <2>3 DEF Known
<1>10. CASE RecordStepFailure(r)
    <2> DEFINE n == Len(stepRuns[r])
    <2>1. /\ pc[r] = "stepFailed" /\ status[r] = "RUNNING"
          /\ pc'[r] = IF plan[r][n].continueOnError THEN "loop" ELSE "stopped"
          /\ runFailed'[r]
          /\ UNCHANGED <<status, plan, finalStatus>>
          /\ SetStep(r, "FAILED")
        BY <1>10 DEF RecordStepFailure, ThisStep, StageInv, Stage, TypeOK
    <2>2. /\ RowsFollow(r)'
          /\ Len(stepRuns'[r]) = n
          /\ n \in 1 .. Len(plan[r])
          /\ stepRuns'[r][n] = "FAILED"
          /\ \A i \in 1 .. n - 1 :
                stepRuns'[r][i] = stepRuns[r][i] /\ Finished(r, i)
          /\ SomeFailed(r)'
        BY <2>1, RowSet
    <2>3. pc'[r] = "loop" => \A i \in 1 .. Len(stepRuns'[r]) : Finished(r, i)'
        <3> SUFFICES ASSUME pc'[r] = "loop", NEW i \in 1 .. n
                     PROVE  Finished(r, i)'
            BY <2>2
        <3>1. CASE i = n
            BY <2>1, <2>2, <3>1 DEF Finished
        <3>2. CASE i # n
            BY <2>1, <2>2, <3>2 DEF Finished
        <3> QED
            BY <3>1, <3>2
    <2>4. finalStatus[r] = "ABSENT"
        BY <2>1 DEF Known
    <2> QED
        BY <2>1, <2>2, <2>3, <2>4 DEF Known
<1>11. CASE Settle(r)
    <2>1. /\ pc[r] \in {"loop", "stopped"} /\ pc'[r] = "committing"
          /\ finalStatus'[r] = IF runFailed[r] THEN "FAILED" ELSE "SUCCESS"
          /\ status[r] = "RUNNING"
          /\ UNCHANGED <<status, stepRuns, plan>>
        BY <1>11 DEF Settle, dbVars, StageInv, Stage, TypeOK
    <2>2. finalStatus'[r] = "SUCCESS" => Complete(r)
        BY <1>11, <2>1, WithoutFailure DEF Known, Settle
    <2> QED
        BY <2>1, <2>2, <1>a DEF Known
<1>12. CASE TimeOut(r)
    <2>1. /\ pc[r] = "loop" /\ pc'[r] = "committing"
          /\ finalStatus'[r] = "TIMEOUT"
          /\ UNCHANGED <<status, stepRuns, plan>>
        BY <1>12 DEF TimeOut, dbVars, TypeOK
    <2> QED
        BY <2>1, <1>a DEF Known
<1>13. CASE Commit(r)
    <2>1. /\ pc[r] = "committing" /\ pc'[r] = "committed"
          /\ status'[r] = finalStatus[r]
          /\ UNCHANGED <<stepRuns, plan, finalStatus>>
        BY <1>13 DEF Commit, localVars, TypeOK
    <2> QED
        BY <2>1, <1>a DEF Known
<1>14. CASE Catch(r)
    <2>1. /\ pc'[r] = "releasing" /\ status'[r] = "FAILED"
          /\ UNCHANGED <<stepRuns, plan>>
        BY <1>14 DEF Catch, localVars, TypeOK
    <2> QED
        BY <2>1, <1>a DEF Known
<1>15. CASE Release(r)
    <2>1. pc'[r] = "done" /\ UNCHANGED <<status, stepRuns, plan>>
        BY <1>15 DEF Release, dbVars, localVars, TypeOK
    <2> QED
        BY <2>1, <1>a DEF Known
<1>16. CASE Fail(r)
    <2>1. /\ pc'[r] \in {"dead", "catching", "releasing"}
          /\ status'[r] \in {status[r], "RUNNING"}
          /\ UNCHANGED <<stepRuns, plan>>
        BY <1>16 DEF Fail, FailOutsideTry, Throw, CatchFails, dbVars,
                     localVars, TypeOK
    <2> QED
        BY <2>1, <1>a DEF Known
<1> QED
    BY <1>1, <1>2, <1>3, <1>4, <1>5, <1>6, <1>7, <1>8, <1>9, <1>10, <1>11,
       <1>12, <1>13, <1>14, <1>15, <1>16
    DEF Proceed

LEMMA RowsInit == Init => RowsInv
<1> SUFFICES ASSUME Init, NEW r \in Run PROVE RowsFollow(r) /\ Known(r)
    BY DEF RowsInv
<1>1. /\ stepRuns[r] = <<>> /\ plan[r] = <<>> /\ pc[r] = "idle"
      /\ status[r] = "ABSENT" /\ finalStatus[r] = "ABSENT" /\ ~runFailed[r]
    BY DEF Init
<1>2. Len(stepRuns[r]) = 0 /\ Len(plan[r]) = 0
    BY <1>1
<1>3. RowsFollow(r)
    BY <1>2 DEF RowsFollow
<1> QED
    BY <1>1, <1>2, <1>3 DEF Known, SomeFailed, BeforeLoop, AtStep, Undecided

LEMMA RowsNext == TypeOK /\ StageInv /\ RowsInv /\ [Next]_vars => RowsInv'
<1> SUFFICES ASSUME TypeOK, StageInv, RowsInv, [Next]_vars, NEW s \in Run
             PROVE  RowsFollow(s)' /\ Known(s)'
    BY DEF RowsInv
<1>1. RowsFollow(s) /\ Known(s)
    BY DEF RowsInv
<1>2. ASSUME NEW r \in Run, Submit(r) \/ Proceed(r) \/ Fail(r)
      PROVE  RowsFollow(s)' /\ Known(s)'
    <2>1. CASE s = r
        BY <1>1, <1>2, <2>1, RowsStepOwn
    <2>2. CASE s # r
        BY <1>1, <1>2, <2>2, OthersPapers, PapersKept
    <2> QED
        BY <2>1, <2>2
<1>3. CASE Crash
    <2>1. CASE pc'[s] = pc[s]
        BY <1>1, <1>3, <2>1, PapersKept DEF Crash, dbVars, localVars, SamePapers
    <2>2. CASE pc'[s] = "dead"
        <3>1. UNCHANGED <<status, stepRuns, plan>>
            BY <1>3 DEF Crash, dbVars, localVars
        <3>2. RowsFollow(s)'
            BY <1>1, <3>1, RowsKept
        <3> QED
            BY <1>1, <2>2, <3>1, <3>2
            DEF Known, Complete, BeforeLoop, AtStep, Undecided
    <2> QED
        BY <1>3, <2>1, <2>2 DEF Crash, TypeOK
<1>4. CASE Tick \/ UNCHANGED vars
    BY <1>1, <1>4, PapersKept
    DEF Tick, vars, dbVars, localVars, SamePapers
<1> QED
    BY <1>2, <1>3, <1>4 DEF Next, Quiescent

PapersInv == TypeOK /\ StageInv /\ RowsInv

LEMMA PapersInvAlways == Spec => []PapersInv
<1>1. Init => PapersInv
    BY TypeInit, StageInit, RowsInit DEF PapersInv
<1>2. PapersInv /\ [Next]_vars => PapersInv'
    BY TypeNext, StageNext, RowsNext DEF PapersInv
<1> QED
    BY <1>1, <1>2, PTL DEF Spec

\* Every row is written under its step's condition, and nothing follows a
\* failure that is not tolerated.
THEOREM ConditionsRespectedAlways == Spec => []ConditionsRespected
<1>1. PapersInv => ConditionsRespected
    BY DEF PapersInv, RowsInv, RowsFollow, RowTrue, OmittedAt, Finished,
           ConditionsRespected
<1> QED
    BY <1>1, PapersInvAlways, PTL

\* A run that says SUCCESS carried out every step of its plan but those meant
\* for a failure.
THEOREM SuccessIsHonestAlways == Spec => []SuccessIsHonest
<1>1. PapersInv => SuccessIsHonest
    BY DEF PapersInv, RowsInv, Known, Complete, SuccessIsHonest
<1> QED
    BY <1>1, PapersInvAlways, PTL

-----------------------------------------------------------------------------
(* The breakers.                                                           *)

\* What can happen to the breakers in one step.
LookedAt(r) ==
    /\ LookAtBreaker(r)
    /\ UNCHANGED <<job, finalStatus, now, atOpening>>

BreakerQuiet ==
    /\ UNCHANGED <<breakers, job, atOpening>>
    /\ \A r \in Run : finalStatus'[r] = "FAILED" <=> finalStatus[r] = "FAILED"

\* Only a look, a verdict and a crash change a breaker, and only a verdict
\* brings or takes a FAILED.
LEMMA BreakerKinds ==
    ASSUME PapersInv, [Next]_vars
    PROVE  \/ \E r \in Run : LookedAt(r)
           \/ \E r \in Run : Settle(r)
           \/ Crash
           \/ BreakerQuiet
<1> USE DEF PapersInv, TypeOK, BreakerQuiet
<1>1. ASSUME NEW r \in Run, Submit(r) PROVE BreakerQuiet
    BY <1>1 DEF Submit, memVars, localVars
<1>2. ASSUME NEW r \in Run, NEW p \in Plans, Admit(r, p) PROVE LookedAt(r)
    BY <1>2 DEF Admit, LookedAt, envVars
<1>3. ASSUME NEW r \in Run, Reject(r) PROVE LookedAt(r)
    BY <1>3 DEF Reject, LookedAt, localVars, envVars
<1>4. ASSUME NEW r \in Run, Refuse(r) \/ Commit(r) \/ Catch(r)
      PROVE  BreakerQuiet
    BY <1>4 DEF Refuse, Commit, Catch, memVars, localVars
<1>5. ASSUME NEW r \in Run, Start(r) PROVE BreakerQuiet
    BY <1>5 DEF Start, memVars
<1>6. ASSUME NEW r \in Run, SkipStep(r) \/ RecordStepSuccess(r)
      PROVE  BreakerQuiet
    BY <1>6 DEF SkipStep, RecordStepSuccess, memVars, localVars
<1>7. ASSUME NEW r \in Run, BeginStep(r) \/ RecordStepFailure(r)
      PROVE  BreakerQuiet
    BY <1>7 DEF BeginStep, RecordStepFailure, memVars
<1>8. ASSUME NEW r \in Run, NEW ok \in BOOLEAN, Attempt(r, ok)
      PROVE  BreakerQuiet
    BY <1>8 DEF Attempt, memVars
<1>9. ASSUME NEW r \in Run, TimeOut(r) PROVE BreakerQuiet
    <2>1. /\ pc[r] = "loop"
          /\ finalStatus' = [finalStatus EXCEPT ![r] = "TIMEOUT"]
          /\ UNCHANGED <<breakers, job, atOpening>>
        BY <1>9 DEF TimeOut, memVars
    <2>2. finalStatus[r] = "ABSENT"
        BY <2>1 DEF RowsInv, Known, Undecided
    <2> QED
        BY <2>1, <2>2
<1>10. ASSUME NEW r \in Run, Release(r) PROVE BreakerQuiet
    BY <1>10 DEF Release, localVars
<1>11. ASSUME NEW r \in Run, Fail(r) PROVE BreakerQuiet
    BY <1>11 DEF Fail, FailOutsideTry, Throw, CatchFails, memVars, localVars
<1>12. CASE Tick \/ UNCHANGED vars
    BY <1>12 DEF Tick, vars, memVars, localVars
<1> QED
    BY <1>1, <1>2, <1>3, <1>4, <1>5, <1>6, <1>7, <1>8, <1>9, <1>10, <1>11,
       <1>12
    DEF Next, Proceed, Quiescent

\* A verdict is given once: before it the run has no final status.
LEMMA VerdictOnce ==
    ASSUME PapersInv, NEW r \in Run, Settle(r)
    PROVE  /\ finalStatus[r] = "ABSENT"
           /\ finalStatus' = [finalStatus EXCEPT
                   ![r] = IF runFailed[r] THEN "FAILED" ELSE "SUCCESS"]
           /\ UNCHANGED <<job, now>>
<1>1. pc[r] \in {"loop", "stopped"}
    BY DEF Settle
<1>2. finalStatus[r] = "ABSENT"
    BY <1>1 DEF PapersInv, RowsInv, Known, Undecided
<1> QED
    BY <1>2 DEF Settle, envVars

\* While a breaker is open nobody comes in: the runs at work are among those
\* that were at work when it opened.
OpeningInv ==
    \A w \in Workflow : breakers[w].isOpen => AtWork(w) \subseteq atOpening[w]

\* The look of an admission closes the breaker of a real run, if only by
\* finding it cooled down; a run's place and papers are no breaker's business.
LEMMA OpeningAdmit ==
    ASSUME TypeOK, OpeningInv, NEW r \in Run, NEW p \in Plans, Admit(r, p)
    PROVE  OpeningInv'
<1> USE DEF TypeOK
<1> SUFFICES ASSUME NEW w \in Workflow, breakers'[w].isOpen, NEW s \in Run,
                    s \in AtWork(w)'
             PROVE  s \in atOpening[w]
    BY DEF Admit, OpeningInv, AtWork
<1>1. /\ breakers' = [breakers EXCEPT ![job[r].workflow] = SeenBreaker(r)]
      /\ pc' = [pc EXCEPT ![r] = "starting"]
      /\ job' = job
      /\ Real(r) => ~SeenBreaker(r).isOpen
    BY DEF Admit, LookAtBreaker, Goto, Admissible
<1>2. ~(s = r /\ Real(r))
    BY <1>1 DEF AtWork
<1>3. s \in AtWork(w)
    BY <1>1, <1>2 DEF AtWork, Live, Real
<1>4. breakers[w].isOpen
    BY <1>1 DEF SeenBreaker, getState
<1> QED
    BY <1>3, <1>4 DEF OpeningInv

\* Outside an admission the runs at work only become fewer, and a breaker
\* that opens notes them.
LEMMA OpeningOther ==
    ASSUME PapersInv, OpeningInv, [Next]_vars,
           \A s \in Run : Live(s)' => Live(s),
           job' = job
    PROVE  OpeningInv'
<1> USE DEF PapersInv, TypeOK
<1> SUFFICES ASSUME NEW w \in Workflow, breakers'[w].isOpen, NEW s \in Run,
                    s \in AtWork(w)'
             PROVE  s \in atOpening'[w]
    BY DEF OpeningInv, AtWork
<1>1. s \in AtWork(w)
    BY DEF AtWork, Real
<1>2. ASSUME NEW r \in Run, LookedAt(r) PROVE s \in atOpening'[w]
    <2>1. breakers[w].isOpen
        BY <1>2 DEF LookedAt, LookAtBreaker, SeenBreaker, getState
    <2> QED
        BY <1>1, <1>2, <2>1 DEF OpeningInv, LookedAt
<1>3. ASSUME NEW r \in Run, Settle(r) PROVE s \in atOpening'[w]
    <2>1. CASE Real(r) /\ job[r].workflow = w /\ ~SeenBreaker(r).isOpen
        BY <1>1, <1>3, <2>1 DEF Settle, NoteOpening
    <2>2. CASE ~(Real(r) /\ job[r].workflow = w /\ ~SeenBreaker(r).isOpen)
        <3>1. atOpening'[w] = atOpening[w]
            BY <1>3, <2>2 DEF Settle, NoteOpening
        <3>2. breakers[w].isOpen
            BY <1>3, <2>2 DEF Settle, SeenBreaker, getState, recordSuccess
        <3> QED
            BY <1>1, <3>1, <3>2 DEF OpeningInv
    <2> QED
        BY <2>1, <2>2
<1>4. CASE Crash
    BY <1>4 DEF Crash, ClosedBreaker
<1>5. CASE BreakerQuiet
    BY <1>1, <1>5 DEF BreakerQuiet, OpeningInv
<1> QED
    BY <1>2, <1>3, <1>4, <1>5, BreakerKinds

LEMMA OpeningNext == PapersInv /\ OpeningInv /\ [Next]_vars => OpeningInv'
<1> SUFFICES ASSUME PapersInv, OpeningInv, [Next]_vars PROVE OpeningInv'
    OBVIOUS
<1> USE DEF PapersInv
<1>1. ASSUME NEW r \in Run, NEW p \in Plans, Admit(r, p) PROVE OpeningInv'
    BY <1>1, OpeningAdmit
<1>2. ASSUME NEW r \in Run, Release(r) PROVE OpeningInv'
    BY <1>2, OpeningOther DEF Release, Goto, Live, Holding, InTry, TypeOK
<1>3. CASE Crash
    BY <1>3, OpeningOther DEF Crash, Live, Holding, InTry, TypeOK
<1>4. CASE LeaseQuiet
    BY <1>4, OpeningOther DEF LeaseQuiet
<1> QED
    BY <1>1, <1>2, <1>3, <1>4, StepKinds

\* An open breaker closes after its cool-down, by the success of a run that
\* was admitted before it opened, or with the process.
THEOREM BreakerClosesForAReasonAlways == Spec => BreakerClosesForAReason
<1> DEFINE Reason ==
        \A w \in Workflow : breakers[w].isOpen /\ ~breakers'[w].isOpen =>
          \/ CooledDown(breakers[w], now)
          \/ crashes' # crashes
          \/ \E r \in atOpening[w] : /\ finalStatus'[r] = "SUCCESS"
                                     /\ finalStatus[r] # "SUCCESS"
<1>1. PapersInv /\ OpeningInv /\ [Next]_vars => [Reason]_vars
    <2> SUFFICES ASSUME PapersInv, OpeningInv, [Next]_vars, NEW w \in Workflow,
                        breakers[w].isOpen, ~breakers'[w].isOpen,
                        ~CooledDown(breakers[w], now), crashes' = crashes
                 PROVE  \E r \in atOpening[w] :
                            /\ finalStatus'[r] = "SUCCESS"
                            /\ finalStatus[r] # "SUCCESS"
        OBVIOUS
    <2> USE DEF PapersInv, TypeOK
    <2>1. ASSUME NEW r \in Run, LookedAt(r) PROVE FALSE
        BY <2>1 DEF LookedAt, LookAtBreaker, SeenBreaker, getState
    <2>2. ASSUME NEW r \in Run, Settle(r)
          PROVE  /\ r \in atOpening[w]
                 /\ finalStatus'[r] = "SUCCESS"
                 /\ finalStatus[r] # "SUCCESS"
        <3>1. breakers' # breakers
            OBVIOUS
        <3>2. /\ Real(r)
              /\ breakers' = [breakers EXCEPT ![job[r].workflow] =
                    IF runFailed[r] THEN recordFailure(@, now)
                                    ELSE recordSuccess(@, now)]
            BY <2>2, <3>1 DEF Settle
        <3>3. job[r].workflow = w
            BY <3>2
        <3>4. ~runFailed[r]
            BY <3>2, <3>3 DEF recordFailure, getState
        <3>5. r \in atOpening[w]
            BY <2>2, <3>2, <3>3
            DEF Settle, OpeningInv, AtWork, Live, Holding, InTry
        <3> QED
            BY <2>2, <3>4, <3>5, VerdictOnce
    <2>3. CASE Crash
        BY <2>3 DEF Crash
    <2>4. CASE BreakerQuiet
        BY <2>4 DEF BreakerQuiet
    <2> QED
        BY <2>1, <2>2, <2>3, <2>4, BreakerKinds
<1>2. Init => OpeningInv
    BY DEF Init, OpeningInv, ClosedBreaker
<1> QED
    BY <1>1, <1>2, OpeningNext, PapersInvAlways, PTL
    DEF Spec, BreakerClosesForAReason

\* The runs a breaker may count, of which there are finitely many whatever
\* the number of runs that are still to come.
Verdicts(w) == {r \in Run : /\ job[r].workflow = w
                            /\ Real(r)
                            /\ finalStatus[r] = "FAILED"}

CountInv ==
    \A w \in Workflow :
        /\ IsFiniteSet(Verdicts(w))
        /\ breakers[w].consecutiveFailures <= Cardinality(Verdicts(w))

LEMMA CountInit == Init => CountInv
<1> SUFFICES ASSUME Init, NEW w \in Workflow
             PROVE  /\ IsFiniteSet(Verdicts(w))
                    /\ breakers[w].consecutiveFailures <= Cardinality(Verdicts(w))
    BY DEF CountInv
<1>1. Verdicts(w) = {}
    BY DEF Init, Verdicts
<1>2. breakers[w].consecutiveFailures = 0
    BY DEF Init, ClosedBreaker
<1> QED
    BY <1>1, <1>2, FS_EmptySet

LEMMA CountNext == PapersInv /\ CountInv /\ [Next]_vars => CountInv'
<1> SUFFICES ASSUME PapersInv, CountInv, [Next]_vars, NEW w \in Workflow
             PROVE  /\ IsFiniteSet(Verdicts(w)')
                    /\ breakers'[w].consecutiveFailures
                          <= Cardinality(Verdicts(w)')
    BY DEF CountInv
<1> USE DEF PapersInv, TypeOK
<1>1. /\ IsFiniteSet(Verdicts(w))
      /\ breakers[w].consecutiveFailures <= Cardinality(Verdicts(w))
      /\ Cardinality(Verdicts(w)) \in Nat
      /\ breakers[w].consecutiveFailures \in Nat
    BY FS_CardinalityType DEF CountInv, Breaker
<1>2. ASSUME Verdicts(w)' = Verdicts(w),
             breakers'[w].consecutiveFailures \in
                {0, breakers[w].consecutiveFailures}
      PROVE  /\ IsFiniteSet(Verdicts(w)')
             /\ breakers'[w].consecutiveFailures <= Cardinality(Verdicts(w)')
    BY <1>1, <1>2
<1>3. ASSUME NEW r \in Run, LookedAt(r)
      PROVE  /\ IsFiniteSet(Verdicts(w)')
             /\ breakers'[w].consecutiveFailures <= Cardinality(Verdicts(w)')
    <2>1. Verdicts(w)' = Verdicts(w)
        BY <1>3 DEF LookedAt, Verdicts, Real
    <2>2. breakers'[w].consecutiveFailures \in
             {0, breakers[w].consecutiveFailures}
        BY <1>3 DEF LookedAt, LookAtBreaker, SeenBreaker, getState, Breaker
    <2> QED
        BY <1>2, <2>1, <2>2
<1>4. ASSUME NEW r \in Run, Settle(r)
      PROVE  /\ IsFiniteSet(Verdicts(w)')
             /\ breakers'[w].consecutiveFailures <= Cardinality(Verdicts(w)')
    <2>1. /\ finalStatus[r] = "ABSENT"
          /\ finalStatus' = [finalStatus EXCEPT
                   ![r] = IF runFailed[r] THEN "FAILED" ELSE "SUCCESS"]
          /\ UNCHANGED <<job, now>>
        BY <1>4, VerdictOnce
    <2>2. CASE job[r].workflow = w /\ Real(r) /\ runFailed[r]
        <3>1. Verdicts(w)' = Verdicts(w) \cup {r} /\ r \notin Verdicts(w)
            BY <2>1, <2>2 DEF Verdicts, Real
        <3>2. /\ IsFiniteSet(Verdicts(w)')
              /\ Cardinality(Verdicts(w)') = Cardinality(Verdicts(w)) + 1
            <4>1. /\ IsFiniteSet(Verdicts(w) \cup {r})
                  /\ Cardinality(Verdicts(w) \cup {r})
                        = Cardinality(Verdicts(w)) + 1
                BY <1>1, <3>1, FS_AddElement
            <4> QED
                BY <3>1, <4>1
        <3>3. breakers'[w] = recordFailure(breakers[w], now)
            BY <1>4, <2>2 DEF Settle
        <3>4. breakers'[w].consecutiveFailures
                 \in {1, breakers[w].consecutiveFailures + 1}
            BY <3>3 DEF recordFailure, getState, Breaker
        <3> QED
            BY <1>1, <3>2, <3>4
    <2>3. CASE ~(job[r].workflow = w /\ Real(r) /\ runFailed[r])
        <3>1. Verdicts(w)' = Verdicts(w)
            BY <2>1, <2>3 DEF Verdicts, Real
        <3>2. breakers'[w].consecutiveFailures \in
                 {0, breakers[w].consecutiveFailures}
            BY <1>4, <2>3 DEF Settle, recordSuccess, getState, Breaker
        <3> QED
            BY <1>2, <3>1, <3>2
    <2> QED
        BY <2>2, <2>3
<1>5. CASE Crash
    <2>1. Verdicts(w)' = Verdicts(w)
        BY <1>5 DEF Crash, localVars, Verdicts, Real
    <2>2. breakers'[w].consecutiveFailures = 0
        BY <1>5 DEF Crash, ClosedBreaker
    <2> QED
        BY <1>2, <2>1, <2>2
<1>6. CASE BreakerQuiet
    <2>1. Verdicts(w)' = Verdicts(w)
        BY <1>6 DEF BreakerQuiet, Verdicts, Real
    <2> QED
        BY <1>2, <1>6, <2>1 DEF BreakerQuiet
<1> QED
    BY <1>3, <1>4, <1>5, <1>6, BreakerKinds

\* The failures a breaker counts are FAILED verdicts of real runs of its
\* workflow.
THEOREM BreakerCountsVerdictsAlways == Spec => []BreakerCountsVerdicts
<1>1. PapersInv /\ CountInv /\ [Next]_vars => CountInv'
    BY CountNext
<1>2. CountInv => BreakerCountsVerdicts
    BY DEF CountInv, Verdicts, BreakerCountsVerdicts
<1> QED
    BY <1>1, <1>2, CountInit, PapersInvAlways, PTL DEF Spec
=============================================================================
