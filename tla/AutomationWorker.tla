-------------------------- MODULE AutomationWorker --------------------------
(***************************************************************************)
(* AutomationWorker.executeWorkflowRun (automation.worker.ts), run by any  *)
(* number of concurrent requests in one Node.js process, together with the *)
(* two in-memory singletons it uses: the target lock table and the circuit *)
(* breakers.                                                               *)
(*                                                                         *)
(* A run is one call of executeWorkflowRun.  Its code is atomic between    *)
(* two awaits, so each action below is one awaited call (a database write, *)
(* the execution of an action, a retry delay) with the synchronous code    *)
(* around it.  A database call may fail before or after it took effect, a  *)
(* bounded number of times; the process may crash, losing everything but   *)
(* the database rows.                                                      *)
(***************************************************************************)
EXTENDS TargetLockManager, CircuitBreakerManager, Sequences,
        FiniteSets

CONSTANTS
    Workflow,       \* the automation workflows
    NoTarget,       \* the absence of a target (refinement mapping only)
    Plans,          \* the step lists a workflow version may carry
    TotalTimeout,   \* workflow.timeoutTotalSec, in ticks of the clock
    MaxTime,        \* bound: the clock stops here
    MaxFaults,      \* bound: failing database calls
    MaxCrashes      \* bound: crashes of the process

StepConfig ==
    [condition       : {"ALWAYS", "ON_SUCCESS", "ON_FAILURE"},
     continueOnError : BOOLEAN,
     retryCount      : Nat,
     registered      : BOOLEAN]     \* registry.get(actionName) finds it

ASSUME WorkerAssumption ==
    /\ NoTarget \notin Target
    /\ \A p \in Plans : p \in Seq(StepConfig) /\ p # <<>>
    /\ TotalTimeout \in Nat
    /\ MaxTime \in Nat
    /\ MaxFaults \in Nat
    /\ MaxCrashes \in Nat

VARIABLES
    status,       \* database: WorkflowRun.status of each run
    stepRuns,     \* database: the statuses of its WorkflowRunStep rows
    locks,        \* memory: targetLockManager
    breakers,     \* memory: circuitBreakerManager
    pc,           \* where each call of executeWorkflowRun is
    job,          \* its arguments
    plan,         \* version.steps, as this call read them
    runFailed,    \* its local runFailed
    attempt,      \* its local attempt, of the step under way
    startTime,    \* its local startTime
    acquiredAt,   \* history: when it took its target's lock
    finalStatus,  \* its local finalStatus
    atOpening,    \* history: the real runs at work when a breaker last opened
    now,          \* Date.now()
    faults,       \* failing database calls so far
    crashes       \* crashes so far

dbVars    == <<status, stepRuns>>
memVars   == <<locks, breakers, atOpening>>
localVars == <<plan, runFailed, attempt, startTime, acquiredAt, finalStatus>>
envVars   == <<now, faults, crashes>>
vars      == <<dbVars, memVars, pc, job, localVars, envVars>>

Job == [workflow : Workflow, target : Target, isDryRun : BOOLEAN]

RunStatus  == {"ABSENT", "QUEUED", "RUNNING", "SUCCESS", "FAILED", "TIMEOUT"}
Terminal   == {"SUCCESS", "FAILED", "TIMEOUT"}
StepStatus == {"RUNNING", "SUCCESS", "FAILED", "SKIPPED"}

\* Inside the try block, where an exception reaches the catch clause.
InTry == {"loop", "executing", "stepOk", "stepFailed", "stopped",
          "committing", "committed"}
\* Past the acquisition of the lock and not yet past its release.
Holding == InTry \cup {"starting", "catching", "releasing"}
Location == Holding \cup {"idle", "reading", "refusing", "done", "dead"}

Real(r) == ~job[r].isDryRun
Live(r) == pc[r] \in Holding

\* The real runs of a workflow that were admitted and have not ended.
AtWork(w) == {r \in Run : Live(r) /\ Real(r) /\ job[r].workflow = w}

Goto(r, loc) == pc' = [pc EXCEPT ![r] = loc]

Init ==
    /\ status = [r \in Run |-> "ABSENT"]
    /\ stepRuns = [r \in Run |-> <<>>]
    /\ locks = NoLocks
    /\ breakers = [w \in Workflow |-> ClosedBreaker]
    /\ pc = [r \in Run |-> "idle"]
    /\ job \in [Run -> Job]
    /\ plan = [r \in Run |-> <<>>]
    /\ runFailed = [r \in Run |-> FALSE]
    /\ attempt = [r \in Run |-> 0]
    /\ startTime = [r \in Run |-> 0]
    /\ acquiredAt = [r \in Run |-> 0]
    /\ finalStatus = [r \in Run |-> "ABSENT"]
    /\ atOpening = [w \in Workflow |-> {}]
    /\ now = 0
    /\ faults = 0
    /\ crashes = 0

-----------------------------------------------------------------------------
(* Before the try block: the request, admission, the first write.          *)

\* executeWorkflow creates the row and calls the worker.
Submit(r) ==
    /\ pc[r] = "idle"
    /\ status' = [status EXCEPT ![r] = "QUEUED"]
    /\ Goto(r, "reading")
    /\ UNCHANGED <<stepRuns, memVars, job, localVars, envVars>>

\* What the breaker says to this call, after a cool-down has been applied.
SeenBreaker(r) == getState(breakers[job[r].workflow], now)

\* Mutant: the breaker is not asked.
AdmissibleOpen(r) == ~Real(r) \/ Acquirable(locks, job[r].target, now)

\* Mutant: the answer of acquireLock is ignored.
AdmissibleUnlocked(r) == ~Real(r) \/ ~SeenBreaker(r).isOpen

Admissible(r) ==
    \/ ~Real(r)
    \/ /\ ~SeenBreaker(r).isOpen
       /\ Acquirable(locks, job[r].target, now)

LookAtBreaker(r) ==
    breakers' = [breakers EXCEPT ![job[r].workflow] = SeenBreaker(r)]

\* No await separates the breaker check from the acquisition of the lock.
Admit(r, p) ==
    /\ pc[r] = "reading"
    /\ Admissible(r)
    /\ plan' = [plan EXCEPT ![r] = p]
    /\ LookAtBreaker(r)
    /\ IF Real(r)
       THEN /\ locks' = acquireLock(locks, job[r].target, r, now)
            /\ acquiredAt' = [acquiredAt EXCEPT ![r] = now]
       ELSE UNCHANGED <<locks, acquiredAt>>
    /\ Goto(r, "starting")
    /\ UNCHANGED <<dbVars, atOpening, job, runFailed, attempt, startTime,
                   finalStatus, envVars>>

\* Mutant: returns without writing FAILED.
RejectSilently(r) ==
    /\ pc[r] = "reading"
    /\ ~Admissible(r)
    /\ LookAtBreaker(r)
    /\ Goto(r, "done")
    /\ UNCHANGED <<dbVars, locks, atOpening, job, localVars, envVars>>

\* The breaker is open, or the target is locked by another run.  (A version
\* without steps is refused as well; none can be stored, as the schema asks
\* for one step at least.)
Reject(r) ==
    /\ pc[r] = "reading"
    /\ ~Admissible(r)
    /\ LookAtBreaker(r)
    /\ Goto(r, "refusing")
    /\ UNCHANGED <<dbVars, locks, atOpening, job, localVars, envVars>>

\* Mutant: the return after the write is missing.
RefuseAndGoOn(r) ==
    /\ pc[r] = "refusing"
    /\ status' = [status EXCEPT ![r] = "FAILED"]
    /\ Goto(r, "starting")
    /\ UNCHANGED <<stepRuns, memVars, job, localVars, envVars>>

Refuse(r) ==
    /\ pc[r] = "refusing"
    /\ status' = [status EXCEPT ![r] = "FAILED"]
    /\ Goto(r, "done")
    /\ UNCHANGED <<stepRuns, memVars, job, localVars, envVars>>

\* Mutant: a status the enumeration does not have.
StartAsExecuting(r) ==
    /\ pc[r] = "starting"
    /\ status' = [status EXCEPT ![r] = "EXECUTING"]
    /\ startTime' = [startTime EXCEPT ![r] = now]
    /\ Goto(r, "loop")
    /\ UNCHANGED <<stepRuns, memVars, job, plan, runFailed, attempt,
                   acquiredAt, finalStatus, envVars>>

Start(r) ==
    /\ pc[r] = "starting"
    /\ status' = [status EXCEPT ![r] = "RUNNING"]
    /\ startTime' = [startTime EXCEPT ![r] = now]
    /\ Goto(r, "loop")
    /\ UNCHANGED <<stepRuns, memVars, job, plan, runFailed, attempt,
                   acquiredAt, finalStatus, envVars>>

\* A call outside the try block fails (or the run's workflow has been deleted
\* meanwhile): nothing catches the exception, and a lock that was taken stays
\* in the table.  The write of RUNNING may have
\* taken effect before its answer was lost.
FailOutsideTry(r) ==
    /\ faults < MaxFaults
    /\ pc[r] \in {"reading", "refusing", "starting"}
    /\ \/ UNCHANGED status
       \/ /\ pc[r] = "starting"
          /\ status' = [status EXCEPT ![r] = "RUNNING"]
    /\ faults' = faults + 1
    /\ Goto(r, "dead")
    /\ UNCHANGED <<stepRuns, memVars, job, localVars, now, crashes>>

-----------------------------------------------------------------------------
(* The step loop.                                                          *)

StepsLeft(r) == Len(stepRuns[r]) < Len(plan[r])
NextStep(r)  == plan[r][Len(stepRuns[r]) + 1]
ThisStep(r)  == plan[r][Len(stepRuns[r])]

\* startTime is read in the turn that takes the first iteration, so only a
\* later one can find the time exceeded.
TotalTimeExceeded(r) ==
    stepRuns[r] # <<>> /\ now - startTime[r] > TotalTimeout

AtNextStep(r) == pc[r] = "loop" /\ StepsLeft(r) /\ ~TotalTimeExceeded(r)

\* Mutant: the condition ON_FAILURE is not looked at.
OmittedOnFailureOnly(r) == NextStep(r).condition = "ON_SUCCESS" /\ runFailed[r]

Omitted(r) ==
    \/ NextStep(r).condition = "ON_SUCCESS" /\ runFailed[r]
    \/ NextStep(r).condition = "ON_FAILURE" /\ ~runFailed[r]

SkipStep(r) ==
    /\ AtNextStep(r)
    /\ Omitted(r)
    /\ stepRuns' = [stepRuns EXCEPT ![r] = Append(@, "SKIPPED")]
    /\ UNCHANGED <<status, memVars, pc, job, localVars, envVars>>

BeginStep(r) ==
    /\ AtNextStep(r)
    /\ ~Omitted(r)
    /\ stepRuns' = [stepRuns EXCEPT ![r] = Append(@, "RUNNING")]
    /\ attempt' = [attempt EXCEPT ![r] = 0]
    /\ Goto(r, IF NextStep(r).registered THEN "executing" ELSE "stepFailed")
    /\ UNCHANGED <<status, memVars, job, plan, runFailed, startTime,
                   acquiredAt, finalStatus, envVars>>

\* One pass of the retry loop: actionDef.execute answers ok or not.
Attempt(r, ok) ==
    /\ pc[r] = "executing"
    /\ attempt' = [attempt EXCEPT ![r] = @ + 1]
    /\ Goto(r, IF ok THEN "stepOk"
               ELSE IF attempt[r] < ThisStep(r).retryCount THEN "executing"
               ELSE "stepFailed")
    /\ UNCHANGED <<dbVars, memVars, job, plan, runFailed, startTime,
                   acquiredAt, finalStatus, envVars>>

SetStep(r, st) ==
    stepRuns' = [stepRuns EXCEPT ![r][Len(stepRuns[r])] = st]

RecordStepSuccess(r) ==
    /\ pc[r] = "stepOk"
    /\ SetStep(r, "SUCCESS")
    /\ Goto(r, "loop")
    /\ UNCHANGED <<status, memVars, job, localVars, envVars>>

\* Mutant: a tolerated failure is not remembered.
RecordStepFailureLeniently(r) ==
    /\ pc[r] = "stepFailed"
    /\ SetStep(r, "FAILED")
    /\ runFailed' = [runFailed EXCEPT ![r] = ~ThisStep(r).continueOnError]
    /\ Goto(r, IF ThisStep(r).continueOnError THEN "loop" ELSE "stopped")
    /\ UNCHANGED <<status, memVars, job, plan, attempt, startTime,
                   acquiredAt, finalStatus, envVars>>

RecordStepFailure(r) ==
    /\ pc[r] = "stepFailed"
    /\ SetStep(r, "FAILED")
    /\ runFailed' = [runFailed EXCEPT ![r] = TRUE]
    /\ Goto(r, IF ThisStep(r).continueOnError THEN "loop" ELSE "stopped")
    /\ UNCHANGED <<status, memVars, job, plan, attempt, startTime,
                   acquiredAt, finalStatus, envVars>>

-----------------------------------------------------------------------------
(* The end of the run.                                                     *)

\* The verdict opens the breaker, which was closed or had cooled down.
NoteOpening(r) ==
    LET w == job[r].workflow IN
    atOpening' =
        IF Real(r) /\ ~SeenBreaker(r).isOpen /\ breakers'[w].isOpen
        THEN [atOpening EXCEPT ![w] = AtWork(w)]
        ELSE atOpening

\* Mutant: dry runs tell the breaker as well.
SettleDryRunsToo(r) ==
    /\ pc[r] = "stopped" \/ (pc[r] = "loop" /\ ~StepsLeft(r))
    /\ finalStatus' = [finalStatus EXCEPT
                         ![r] = IF runFailed[r] THEN "FAILED" ELSE "SUCCESS"]
    /\ breakers' = [breakers EXCEPT ![job[r].workflow] =
                      IF runFailed[r] THEN recordFailure(@, now)
                                      ELSE recordSuccess(@, now)]
    /\ NoteOpening(r)
    /\ Goto(r, "committing")
    /\ UNCHANGED <<dbVars, locks, job, plan, runFailed, attempt, startTime,
                   acquiredAt, envVars>>

\* The loop is over: the verdict and, for a real run, the breaker.
Settle(r) ==
    /\ pc[r] = "stopped" \/ (pc[r] = "loop" /\ ~StepsLeft(r))
    /\ finalStatus' = [finalStatus EXCEPT
                         ![r] = IF runFailed[r] THEN "FAILED" ELSE "SUCCESS"]
    /\ breakers' =
         IF ~Real(r) THEN breakers
         ELSE [breakers EXCEPT ![job[r].workflow] =
                 IF runFailed[r] THEN recordFailure(@, now)
                                 ELSE recordSuccess(@, now)]
    /\ NoteOpening(r)
    /\ Goto(r, "committing")
    /\ UNCHANGED <<dbVars, locks, job, plan, runFailed, attempt, startTime,
                   acquiredAt, envVars>>

\* The total timeout cancels the remaining steps; the breaker hears nothing.
TimeOut(r) ==
    /\ pc[r] = "loop"
    /\ StepsLeft(r)
    /\ TotalTimeExceeded(r)
    /\ finalStatus' = [finalStatus EXCEPT ![r] = "TIMEOUT"]
    /\ Goto(r, "committing")
    /\ UNCHANGED <<dbVars, memVars, job, plan, runFailed, attempt, startTime,
                   acquiredAt, envVars>>

Commit(r) ==
    /\ pc[r] = "committing"
    /\ status' = [status EXCEPT ![r] = finalStatus[r]]
    /\ Goto(r, "committed")
    /\ UNCHANGED <<stepRuns, memVars, job, localVars, envVars>>

\* A call inside the try block fails.  After "committed" it is the answer of
\* the final write that is lost.
Throw(r) ==
    /\ faults < MaxFaults
    /\ pc[r] \in InTry
    /\ faults' = faults + 1
    /\ Goto(r, "catching")
    /\ UNCHANGED <<dbVars, memVars, job, localVars, now, crashes>>

\* Mutant: the lock is released at the end of the try block, not in finally.
CatchAndForget(r) ==
    /\ pc[r] = "catching"
    /\ status' = [status EXCEPT ![r] = "FAILED"]
    /\ Goto(r, "done")
    /\ UNCHANGED <<stepRuns, memVars, job, localVars, envVars>>

Catch(r) ==
    /\ pc[r] = "catching"
    /\ status' = [status EXCEPT ![r] = "FAILED"]
    /\ Goto(r, "releasing")
    /\ UNCHANGED <<stepRuns, memVars, job, localVars, envVars>>

\* Mutant: the exception of the catch clause ends the call, without finally.
CatchFailsForGood(r) ==
    /\ faults < MaxFaults
    /\ pc[r] = "catching"
    /\ faults' = faults + 1
    /\ Goto(r, "done")
    /\ UNCHANGED <<dbVars, memVars, job, localVars, now, crashes>>

\* The write of the catch clause fails as well; finally still runs.
CatchFails(r) ==
    /\ faults < MaxFaults
    /\ pc[r] = "catching"
    /\ faults' = faults + 1
    /\ Goto(r, "releasing")
    /\ UNCHANGED <<dbVars, memVars, job, localVars, now, crashes>>

Release(r) ==
    /\ pc[r] \in {"committed", "releasing"}
    /\ locks' = IF Real(r) THEN releaseLock(locks, job[r].target, r) ELSE locks
    /\ Goto(r, "done")
    /\ UNCHANGED <<dbVars, breakers, atOpening, job, localVars, envVars>>

-----------------------------------------------------------------------------
(* The process and the clock.                                              *)

Crash ==
    /\ crashes < MaxCrashes
    /\ crashes' = crashes + 1
    /\ locks' = NoLocks
    /\ breakers' = [w \in Workflow |-> ClosedBreaker]
    /\ pc' = [r \in Run |-> IF pc[r] \in {"idle", "done"} THEN pc[r]
                                                          ELSE "dead"]
    /\ UNCHANGED <<dbVars, atOpening, job, localVars, now, faults>>

Tick ==
    /\ now < MaxTime
    /\ now' = now + 1
    /\ UNCHANGED <<dbVars, memVars, pc, job, localVars, faults, crashes>>

\* Every request was answered.
Quiescent ==
    /\ \A r \in Run : pc[r] \in {"done", "dead"}
    /\ UNCHANGED vars

\* What the call itself does next, its database calls succeeding.
Proceed(r) ==
    \/ \E p \in Plans : Admit(r, p)
    \/ Reject(r) \/ Refuse(r) \/ Start(r)
    \/ SkipStep(r) \/ BeginStep(r)
    \/ \E ok \in BOOLEAN : Attempt(r, ok)
    \/ RecordStepSuccess(r) \/ RecordStepFailure(r)
    \/ Settle(r) \/ TimeOut(r) \/ Commit(r) \/ Catch(r) \/ Release(r)

Fail(r) == FailOutsideTry(r) \/ Throw(r) \/ CatchFails(r)

Next ==
    \/ \E r \in Run : Submit(r) \/ Proceed(r) \/ Fail(r)
    \/ Crash
    \/ Tick
    \/ Quiescent

Spec == Init /\ [][Next]_vars

\* The event loop resumes every call whose awaited promise is settled.
FairSpec == Spec /\ \A r \in Run : WF_vars(Proceed(r))
-----------------------------------------------------------------------------
(* Properties.                                                             *)

\* The shape of the rows, the locals and the two singletons.
TypeOK ==
    /\ status \in [Run -> RunStatus]
    /\ stepRuns \in [Run -> Seq(StepStatus)]
    /\ locks \in [Target -> Lock]
    /\ breakers \in [Workflow -> Breaker]
    /\ pc \in [Run -> Location]
    /\ job \in [Run -> Job]
    /\ plan \in [Run -> Seq(StepConfig)]
    /\ runFailed \in [Run -> BOOLEAN]
    /\ attempt \in [Run -> Nat]
    /\ startTime \in [Run -> Nat]
    /\ acquiredAt \in [Run -> Nat]
    /\ finalStatus \in [Run -> RunStatus]
    /\ atOpening \in [Workflow -> SUBSET Run]
    /\ now \in Nat
    /\ faults \in Nat
    /\ crashes \in Nat

Writer(r, t) == Live(r) /\ Real(r) /\ job[r].target = t

\* A run past acquireLock still owns the entry it wrote, unless its lease
\* has run out (another run may then have taken the entry over).
LeaseHeld ==
    \A r \in Run, t \in Target : Writer(r, t) =>
        /\ acquiredAt[r] <= now
        /\ \/ locks[t] = [runId |-> r, lockedAt |-> acquiredAt[r]]
           \/ now - acquiredAt[r] > DefaultTimeout

\* Two real runs are at work on one target only when one of them took the
\* lock more than the lock's life after the other: acquireLock never hands
\* a target to a second run while the lease of the first lasts, whatever
\* releases, failures and crashes come in between.
LeaseExclusion ==
    \A r, s \in Run, t \in Target :
        r # s /\ Writer(r, t) /\ Writer(s, t) =>
            \/ acquiredAt[r] - acquiredAt[s] > DefaultTimeout
            \/ acquiredAt[s] - acquiredAt[r] > DefaultTimeout

\* A lock outlives its run only if the write of RUNNING failed, the one call
\* between acquireLock and the try block: every other end of a run, by
\* success, timeout, exception or a failing catch clause, releases it.
LockNotLeaked ==
    \A t \in Target : locks[t].runId # NoRun =>
        LET r == locks[t].runId IN
            \/ Writer(r, t)
            \/ /\ pc[r] = "dead"
               /\ status[r] \in {"QUEUED", "RUNNING"}
               /\ stepRuns[r] = <<>>

\* finally gives back only the run's own entry: a run whose lease was taken
\* over does not free the lock of its successor.
NoForeignRelease ==
    [][\A t \in Target :
          LET r == locks[t].runId IN
            r # NoRun /\ locks'[t].runId = NoRun =>
                crashes' # crashes \/ (pc[r] # "done" /\ pc'[r] = "done")]_vars

\* A run reported SUCCESS has one finished row for every step of its plan,
\* and the only steps it did not carry out are the ON_FAILURE ones.
SuccessIsHonest ==
    \A r \in Run : status[r] = "SUCCESS" =>
        /\ Len(stepRuns[r]) = Len(plan[r])
        /\ \A i \in 1 .. Len(plan[r]) :
              \/ stepRuns[r][i] = "SUCCESS"
              \/ /\ stepRuns[r][i] = "SKIPPED"
                 /\ plan[r][i].condition = "ON_FAILURE"

FailedBefore(r, i) == \E j \in 1 .. i - 1 : stepRuns[r][j] = "FAILED"

\* Every row was written under its step's condition, judged by the rows
\* before it: an ON_SUCCESS step is omitted exactly after a failure, an
\* ON_FAILURE step exactly without one, and nothing follows a failure that
\* continueOnError does not tolerate.
ConditionsRespected ==
    \A r \in Run : \A i \in 1 .. Len(stepRuns[r]) :
        LET step == plan[r][i]
            omit == \/ step.condition = "ON_SUCCESS" /\ FailedBefore(r, i)
                    \/ step.condition = "ON_FAILURE" /\ ~FailedBefore(r, i)
        IN  /\ (stepRuns[r][i] = "SKIPPED") <=> omit
            /\ i < Len(stepRuns[r]) =>
                  /\ stepRuns[r][i] # "RUNNING"
                  /\ stepRuns[r][i] = "FAILED" => step.continueOnError

\* The final status of a run never changes again, with one exception: when
\* the answer of the final write is lost, the catch clause turns the run
\* into FAILED.
TerminalIsFinal ==
    [][\A r \in Run : status[r] \in Terminal /\ status'[r] # status[r] =>
          pc[r] = "catching" /\ status'[r] = "FAILED"]_vars

\* The failures a breaker counts are real runs that reached their verdict:
\* dry runs, refused runs, timeouts and runs ended by an exception before
\* the verdict never bring it nearer to opening.
BreakerCountsVerdicts ==
    \A w \in Workflow :
        breakers[w].consecutiveFailures <=
            Cardinality({r \in Run : /\ job[r].workflow = w
                                     /\ Real(r)
                                     /\ finalStatus[r] = "FAILED"})

\* An open breaker closes only after its cool-down, by the success of a real
\* run of the workflow that was already at work when it opened, or with the
\* process: nobody gets through an open breaker and closes it from inside.
BreakerClosesForAReason ==
    [][\A w \in Workflow : breakers[w].isOpen /\ ~breakers'[w].isOpen =>
          \/ CooledDown(breakers[w], now)
          \/ crashes' # crashes
          \/ \E r \in atOpening[w] :
                /\ finalStatus'[r] = "SUCCESS"
                /\ finalStatus[r] # "SUCCESS"]_vars

\* Every run that is created reaches a final status unless a database call
\* failed on the way: retries, skipped steps, timeouts and refusals all come
\* to an end and none returns without writing its verdict.
EveryRunEnds ==
    \A r \in Run :
        status[r] = "QUEUED" ~> status[r] \in Terminal \/ faults > 0

\* Whatever calls fail, the write of the catch clause included, a run that
\* got as far as its loop gives its target back, or has lost it to a run that
\* took it over.
TargetComesFree ==
    \A r \in Run, t \in Target :
        locks[t].runId = r /\ pc[r] = "loop" ~> locks[t].runId # r

\* What automation.locks.ts:3 says the lock table does: it prevents
\* concurrent write operations on one target.
NoConcurrentWriters ==
    \A r, s \in Run, t \in Target :
        Writer(r, t) /\ Writer(s, t) => r = s

-----------------------------------------------------------------------------
(* The worker implements the leases of TargetLease: a real run writes from *)
(* the acquisition of its lock to its end.                                 *)

WritingTarget ==
    [r \in Run |-> IF Live(r) /\ Real(r) THEN job[r].target ELSE NoTarget]

Leases == INSTANCE TargetLease WITH
    Lease <- DefaultTimeout,
    writing <- WritingTarget,
    since <- acquiredAt,
    clock <- now

\* The lock table, whose entries expire, are stolen, leak and vanish in a
\* crash, keeps the promise of TargetLease.
ImplementsLeases == Leases!LeaseSpec
=============================================================================
