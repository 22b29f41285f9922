-------------------------- MODULE AutomationService --------------------------
(***************************************************************************)
(* The handlers of automation.service.ts that decide whether a workflow    *)
(* may run: executeWorkflow with its risk check and approval request,      *)
(* decideApproval, createApprovalRequest, updateWorkflow, deleteWorkflow   *)
(* and the policies.  One workflow is modelled; a version is abstracted to *)
(* the highest risk of its steps, HIGH standing for HIGH and CRITICAL.     *)
(*                                                                         *)
(* No handler uses a transaction: each action is one database call with    *)
(* the synchronous code that follows its answer, and any other handler may *)
(* run in between.  What the worker does with a run after its first read   *)
(* is the subject of AutomationWorker.                                     *)
(***************************************************************************)
EXTENDS Integers, Sequences

CONSTANTS
    Call,         \* calls of executeWorkflow and createApprovalRequest
    Decider,      \* calls of decideApproval
    Editor,       \* calls of updateWorkflow
    Policy,       \* rows AutomationPolicy may hold
    User,
    NoUser,       \* approvedById is null
    NoCall,       \* the request of a decision that has not begun
    MaxVersion,   \* bound: versions of the workflow
    MaxFaults     \* bound: failing database calls

ASSUME ServiceAssumption ==
    /\ NoUser \notin User
    /\ NoCall \notin Call
    /\ MaxVersion \in Nat \ {0}
    /\ MaxFaults \in Nat

Risk == {"LOW", "HIGH"}
PolicyRow == [enabled : BOOLEAN, enforceFourEyes : BOOLEAN]

VARIABLES
    workflow,    \* database: the workflow's row: enabled, disabled or gone
    versions,    \* database: the risk of each version, by number
    policies,    \* database: AutomationPolicy
    approvals,   \* database: the ApprovalRequest each call has created
    runs,        \* database: the WorkflowRun each call has created
    call,        \* the calls under way
    decision,    \* the decisions under way
    edit,        \* the edits under way
    faults

dbVars == <<workflow, versions, policies, approvals, runs>>
vars   == <<dbVars, call, decision, edit, faults>>

WorkflowState == {"ENABLED", "DISABLED", "DELETED"}
Approval ==
    [status : {"ABSENT", "PENDING", "APPROVED", "REJECTED"},
     requestedBy : User \cup {NoUser}, approvedBy : User \cup {NoUser}]
\* executed is the number of the version the worker read, 0 before it did.
RunRow ==
    [status : {"ABSENT", "WAITING_APPROVAL", "QUEUED", "STARTED"},
     workflowVersion : Nat, executed : Nat]

CallState ==
    [pc : {"idle", "readPolicy", "createApproval", "createWaiting",
           "createRun", "toWorker", "done"},
     user : User \cup {NoUser}, isDryRun : BOOLEAN, version : Nat,
     exempt : BOOLEAN]    \* history: the policy read asked for no approval
DecisionState ==
    [pc : {"idle", "update", "done"}, user : User \cup {NoUser},
     of : Call \cup {NoCall}, verdict : {"APPROVED", "REJECTED"},
     late : BOOLEAN]      \* history: began after the request was decided
EditState == [pc : {"idle", "update", "done"}, seen : Nat]

NoApproval == [status |-> "ABSENT", requestedBy |-> NoUser, approvedBy |-> NoUser]
NoRunRow   == [status |-> "ABSENT", workflowVersion |-> 0, executed |-> 0]

Init ==
    /\ workflow = "ENABLED"
    /\ \E risk \in Risk : versions = <<risk>>
    /\ \E row \in PolicyRow : policies = [p \in Policy |-> row]
    /\ approvals = [c \in Call |-> NoApproval]
    /\ runs = [c \in Call |-> NoRunRow]
    /\ call = [c \in Call |-> [pc |-> "idle", user |-> NoUser,
                               isDryRun |-> FALSE, version |-> 0,
                               exempt |-> FALSE]]
    /\ decision = [d \in Decider |-> [pc |-> "idle", user |-> NoUser,
                                      of |-> NoCall, verdict |-> "REJECTED",
                                      late |-> FALSE]]
    /\ edit = [e \in Editor |-> [pc |-> "idle", seen |-> 0]]
    /\ faults = 0

Latest == Len(versions)

-----------------------------------------------------------------------------
(* executeWorkflow                                                         *)

\* Mutant: the risk of the version is not looked at.
ReadWorkflowRiskless(c) ==
    /\ call[c].pc = "idle"
    /\ \E u \in User, dry \in BOOLEAN :
          call' = [call EXCEPT ![c] =
                     [pc |-> IF workflow = "ENABLED" THEN "createRun"
                                                     ELSE "done",
                      user |-> u, isDryRun |-> dry, version |-> Latest,
                      exempt |-> FALSE]]
    /\ UNCHANGED <<dbVars, decision, edit, faults>>

\* Reads the workflow with its newest version.  A disabled or missing
\* workflow ends the call.
ReadWorkflow(c) ==
    /\ call[c].pc = "idle"
    /\ \E u \in User, dry \in BOOLEAN :
          call' = [call EXCEPT ![c] =
                     [pc |-> IF workflow # "ENABLED" THEN "done"
                             ELSE IF ~dry /\ versions[Latest] = "HIGH"
                                  THEN "readPolicy" ELSE "createRun",
                      user |-> u, isDryRun |-> dry, version |-> Latest,
                      exempt |-> FALSE]]
    /\ UNCHANGED <<dbVars, decision, edit, faults>>

\* findFirst names no order: any enabled policy may be the one it returns.
EnforcementRead ==
    LET active == {p \in Policy : policies[p].enabled}
    IN  IF active = {} THEN {FALSE}
        ELSE {policies[p].enforceFourEyes : p \in active}

ReadPolicy(c) ==
    /\ call[c].pc = "readPolicy"
    /\ \E enforced \in EnforcementRead :
          call' = [call EXCEPT
                     ![c].pc = IF enforced THEN "createApproval"
                                           ELSE "createRun",
                     ![c].exempt = ~enforced]
    /\ UNCHANGED <<dbVars, decision, edit, faults>>

Requested(u) ==
    [status |-> "PENDING", requestedBy |-> u, approvedBy |-> NoUser]

\* Mutant: goes on to create the queued run.
CreateApprovalAndGoOn(c) ==
    /\ call[c].pc = "createApproval"
    /\ approvals' = [approvals EXCEPT ![c] = Requested(call[c].user)]
    /\ call' = [call EXCEPT ![c].pc = "createRun"]
    /\ UNCHANGED <<workflow, versions, policies, runs, decision, edit, faults>>

CreateApproval(c) ==
    /\ call[c].pc = "createApproval"
    /\ approvals' = [approvals EXCEPT ![c] = Requested(call[c].user)]
    /\ call' = [call EXCEPT ![c].pc = "createWaiting"]
    /\ UNCHANGED <<workflow, versions, policies, runs, decision, edit, faults>>

\* Mutant: a status the enumeration does not have.
NewRunPending(c, st) ==
    [status |-> "PENDING", workflowVersion |-> call[c].version, executed |-> 0]

NewRun(c, st) ==
    [status |-> st, workflowVersion |-> call[c].version, executed |-> 0]

\* The foreign key refuses a run of a workflow deleted meanwhile.
CreateWaitingRun(c) ==
    /\ call[c].pc = "createWaiting"
    /\ runs' = IF workflow = "DELETED" THEN runs
               ELSE [runs EXCEPT ![c] = NewRun(c, "WAITING_APPROVAL")]
    /\ call' = [call EXCEPT ![c].pc = "done"]
    /\ UNCHANGED <<workflow, versions, policies, approvals, decision, edit,
                   faults>>

CreateQueuedRun(c) ==
    /\ call[c].pc = "createRun"
    /\ runs' = IF workflow = "DELETED" THEN runs
               ELSE [runs EXCEPT ![c] = NewRun(c, "QUEUED")]
    /\ call' = [call EXCEPT ![c].pc =
                  IF workflow = "DELETED" THEN "done" ELSE "toWorker"]
    /\ UNCHANGED <<workflow, versions, policies, approvals, decision, edit,
                   faults>>

\* The worker reads the newest version again; it throws when the workflow is
\* gone, and the run stays QUEUED.
WorkerReads(c) ==
    /\ call[c].pc = "toWorker"
    /\ runs' = IF workflow = "DELETED" THEN runs
               ELSE [runs EXCEPT ![c].status = "STARTED",
                                 ![c].executed = Latest]
    /\ call' = [call EXCEPT ![c].pc = "done"]
    /\ UNCHANGED <<workflow, versions, policies, approvals, decision, edit,
                   faults>>

\* createApprovalRequest: a request that belongs to no run.
RequestApproval(c) ==
    /\ call[c].pc = "idle"
    /\ \E u \in User :
          /\ approvals' = [approvals EXCEPT ![c] = Requested(u)]
          /\ call' = [call EXCEPT ![c].pc = "done", ![c].user = u]
    /\ UNCHANGED <<workflow, versions, policies, runs, decision, edit, faults>>

\* A database call fails, or the process crashes, in the middle of a call.
Abort(c) ==
    /\ faults < MaxFaults
    /\ call[c].pc \notin {"idle", "done"}
    /\ call' = [call EXCEPT ![c].pc = "done"]
    /\ faults' = faults + 1
    /\ UNCHANGED <<dbVars, decision, edit>>

-----------------------------------------------------------------------------
(* decideApproval                                                          *)

Decided(c) == approvals[c].status \in {"APPROVED", "REJECTED"}

\* Mutant: who asked is not compared with who approves.
MayDecideAnyUser(c, u, verdict) == approvals[c].status = "PENDING"

\* Mutant: a request may be decided again.
MayDecideAgain(c, u, verdict) ==
    approvals[c].status # "ABSENT" /\
    ~(verdict = "APPROVED" /\ approvals[c].requestedBy = u)

\* Pending, and the four-eyes principle for an approval.
MayDecide(c, u, verdict) ==
    /\ approvals[c].status = "PENDING"
    /\ ~(verdict = "APPROVED" /\ approvals[c].requestedBy = u)

ReadApproval(d) ==
    /\ decision[d].pc = "idle"
    /\ \E c \in Call, u \in User, verdict \in {"APPROVED", "REJECTED"} :
          decision' = [decision EXCEPT ![d] =
                         [pc |-> IF MayDecide(c, u, verdict) THEN "update"
                                                             ELSE "done",
                          user |-> u, of |-> c, verdict |-> verdict,
                          late |-> Decided(c)]]
    /\ UNCHANGED <<dbVars, call, edit, faults>>

\* The update names the row only: it does not ask that it still be PENDING.
UpdateApproval(d) ==
    /\ decision[d].pc = "update"
    /\ approvals' = [approvals EXCEPT
                       ![decision[d].of].status = decision[d].verdict,
                       ![decision[d].of].approvedBy = decision[d].user]
    /\ decision' = [decision EXCEPT ![d].pc = "done"]
    /\ UNCHANGED <<workflow, versions, policies, runs, call, edit, faults>>

-----------------------------------------------------------------------------
(* updateWorkflow, deleteWorkflow, the policies                            *)

ReadForEdit(e) ==
    /\ edit[e].pc = "idle"
    /\ edit' = [edit EXCEPT ![e] =
                  [pc |-> IF workflow = "DELETED" THEN "done" ELSE "update",
                   seen |-> Latest]]
    /\ UNCHANGED <<dbVars, call, decision, faults>>

\* Mutant: versions are numbered without the unique constraint.
VersionAcceptedAlways(e) == TRUE

\* The number an edit gives its version, one above the one it read, must be
\* new: @@unique([workflowId, versionNumber]).
VersionAccepted(e) == edit[e].seen + 1 \notin DOMAIN versions

StoreVersion(n, risk) ==
    versions' = [m \in DOMAIN versions \cup {n} |->
                    IF m = n THEN risk ELSE versions[m]]

\* One update writes the workflow's row and, when there are new steps, a new
\* version; a refused version undoes it all.
SaveEdit(e) ==
    /\ edit[e].pc = "update"
    /\ edit' = [edit EXCEPT ![e].pc = "done"]
    /\ \/ /\ workflow # "DELETED"
          /\ workflow' \in {"ENABLED", "DISABLED"}
          /\ \/ UNCHANGED versions
             \/ /\ VersionAccepted(e)
                /\ Latest < MaxVersion
                /\ \E risk \in Risk : StoreVersion(edit[e].seen + 1, risk)
       \/ /\ workflow = "DELETED" \/ ~VersionAccepted(e)
          /\ UNCHANGED <<workflow, versions>>
    /\ UNCHANGED <<policies, approvals, runs, call, decision, faults>>

DeleteWorkflow ==
    /\ workflow # "DELETED"
    /\ workflow' = "DELETED"
    /\ UNCHANGED <<versions, policies, approvals, runs, call, decision, edit,
                   faults>>

\* createPolicy (a disabled row stands for an absent one) and updatePolicy.
SetPolicy(p) ==
    /\ \E row \in PolicyRow : policies' = [policies EXCEPT ![p] = row]
    /\ UNCHANGED <<workflow, versions, approvals, runs, call, decision, edit,
                   faults>>

ExecuteStep(c) ==
    \/ ReadWorkflow(c) \/ ReadPolicy(c) \/ CreateApproval(c)
    \/ CreateWaitingRun(c) \/ CreateQueuedRun(c) \/ WorkerReads(c)

Next ==
    \/ \E c \in Call : ExecuteStep(c) \/ RequestApproval(c) \/ Abort(c)
    \/ \E d \in Decider : ReadApproval(d) \/ UpdateApproval(d)
    \/ \E e \in Editor : ReadForEdit(e) \/ SaveEdit(e)
    \/ DeleteWorkflow
    \/ \E p \in Policy : SetPolicy(p)

Spec == Init /\ [][Next]_vars

\* Once their first await is answered, executeWorkflow and decideApproval go
\* on to their end.
FairSpec ==
    /\ Spec
    /\ \A c \in Call :
          WF_vars(call[c].pc # "idle" /\ ExecuteStep(c))
    /\ \A d \in Decider : WF_vars(UpdateApproval(d))

-----------------------------------------------------------------------------
(* Properties.                                                             *)

\* The shape of the rows and of the calls' locals.
TypeOK ==
    /\ workflow \in WorkflowState
    /\ versions \in Seq(Risk)
    /\ Latest > 0
    /\ policies \in [Policy -> PolicyRow]
    /\ approvals \in [Call -> Approval]
    /\ runs \in [Call -> RunRow]
    /\ call \in [Call -> CallState]
    /\ decision \in [Decider -> DecisionState]
    /\ edit \in [Editor -> EditState]
    /\ faults \in Nat

\* The four-eyes principle of decideApproval survives racing decisions: an
\* APPROVED request names an approver, and not the one who asked, although
\* several calls may read it PENDING and each then overwrites the others.
FourEyes ==
    \A c \in Call : approvals[c].status = "APPROVED" =>
        /\ approvals[c].approvedBy \in User
        /\ approvals[c].approvedBy # approvals[c].requestedBy

\* A real run starts steps of high risk without an approval in two ways
\* only: the policy that executeWorkflow read asked for none, or the version
\* the worker read is newer than the one whose risk was judged.
UnapprovedHighRiskExplained ==
    \A c \in Call :
        LET n == runs[c].executed IN
        n # 0 /\ ~call[c].isDryRun /\ versions[n] = "HIGH" =>
            call[c].exempt \/ n > runs[c].workflowVersion

\* A call creates a request or starts a run, never both, and a run waits
\* only for a request of its own caller.
ApprovalGates ==
    \A c \in Call :
        /\ approvals[c].status # "ABSENT" =>
              runs[c].status \in {"ABSENT", "WAITING_APPROVAL"}
        /\ runs[c].status = "WAITING_APPROVAL" =>
              approvals[c].status # "ABSENT" /\
              approvals[c].requestedBy = call[c].user

\* A decision is overturned only by a call that had read the request while
\* it was pending: one that begins after the request was decided changes
\* nothing.
LateDecisionLoses ==
    [][\A c \in Call : Decided(c) /\ approvals'[c] # approvals[c] =>
          \E d \in Decider : /\ decision[d].pc = "update"
                             /\ decision[d].of = c
                             /\ ~decision[d].late]_vars

\* The unique constraint makes edits serial: a version once stored is never
\* replaced, and a new one is numbered next to the newest and was written by
\* an editor who had read that one; of two edits that read the same newest
\* version one is refused.
NoLostEdit ==
    [][versions' # versions =>
          /\ Len(versions') = Latest + 1
          /\ \A n \in 1 .. Latest : versions'[n] = versions[n]
          /\ \E e \in Editor : /\ edit[e].pc = "update" /\ edit'[e].pc = "done"
                               /\ edit[e].seen = Latest]_vars

\* Whatever enabled policy is read, it asks for an approval.
PolicyAsks == EnforcementRead = {TRUE}

\* What automation.actions-registry.ts:381 says of an action of high risk, it
\* requires explicit approval, where a policy in force asks for one: a real
\* run starts steps of high risk under such a policy only once its request is
\* approved, unless the policy that executeWorkflow read asked for none.
HighRiskIsApproved ==
    [][\A c \in Call :
          LET n == runs'[c].executed IN
          /\ n # runs[c].executed
          /\ versions[n] = "HIGH"
          /\ ~call[c].isDryRun
          /\ PolicyAsks
          /\ ~call[c].exempt
          => approvals[c].status = "APPROVED"]_vars

\* What automation.service.ts:284 and :292 say of a run that waits: it is
\* paused until its approval, so an approved one goes on.
ApprovedRunsGoOn ==
    \A c \in Call :
        runs[c].status = "WAITING_APPROVAL" /\ approvals[c].status = "APPROVED"
            ~> \/ runs[c].status # "WAITING_APPROVAL"
               \/ approvals[c].status # "APPROVED"
=============================================================================
