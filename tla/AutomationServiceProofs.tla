----------------------- MODULE AutomationServiceProofs -----------------------
(***************************************************************************)
(* Theorems about AutomationService for any number of calls, deciders,     *)
(* editors, policies and users.                                            *)
(***************************************************************************)
EXTENDS AutomationService, SequenceTheorems, TLAPS

-----------------------------------------------------------------------------
(* Type correctness.                                                       *)

LEMMA TypeInit == Init => TypeOK
<1> SUFFICES ASSUME Init PROVE TypeOK
    OBVIOUS
<1>1. versions \in Seq(Risk) /\ Latest > 0
    BY DEF Init, Risk, Latest
<1> QED
    BY <1>1
    DEF Init, TypeOK, WorkflowState, Approval, NoApproval, RunRow, NoRunRow,
        CallState, DecisionState, EditState

\* That versions stay a sequence rests on the unique constraint: an editor
\* has read a version that is still there, so the number it gives is new only
\* when it is next to the newest.
SeenKnown ==
    \A e \in Editor : edit[e].pc = "update" => edit[e].seen \in 1 .. Latest

LEMMA StoredNext ==
    ASSUME TypeOK, SeenKnown, NEW e \in Editor, SaveEdit(e),
           versions' # versions
    PROVE  /\ edit[e].seen = Latest
           /\ versions' \in Seq(Risk)
           /\ Len(versions') = Latest + 1
           /\ \A n \in 1 .. Latest : versions'[n] = versions[n]
<1>1. PICK risk \in Risk : /\ VersionAccepted(e)
                           /\ StoreVersion(edit[e].seen + 1, risk)
    BY DEF SaveEdit
<1>2. versions \in Seq(Risk) /\ Latest \in Nat /\ DOMAIN versions = 1 .. Latest
    BY DEF TypeOK, Latest
<1>3. edit[e].seen \in 1 .. Latest
    BY DEF SaveEdit, SeenKnown
<1>4. edit[e].seen = Latest
    BY <1>1, <1>2, <1>3 DEF VersionAccepted
<1>5. DOMAIN versions \cup {Latest + 1} = 1 .. Latest + 1
    BY <1>2
<1>6. versions' = [m \in 1 .. Latest + 1 |->
                     IF m = Latest + 1 THEN risk ELSE versions[m]]
    BY <1>1, <1>4, <1>5 DEF StoreVersion
<1>7. \A m \in 1 .. Latest : versions[m] \in Risk
    BY <1>2, ElementOfSeq DEF Latest
<1>8. versions' \in [1 .. Latest + 1 -> Risk] /\ Latest + 1 \in Nat
    BY <1>2, <1>6, <1>7
<1>9. versions' \in Seq(Risk)
    BY <1>8, SeqDef
<1>10. Len(versions') = Latest + 1
    BY <1>2, <1>6, <1>9, LenProperties
<1> QED
    BY <1>2, <1>4, <1>6, <1>9, <1>10

LEMMA TypeNext == TypeOK /\ SeenKnown /\ [Next]_vars => TypeOK'
<1> SUFFICES ASSUME TypeOK, SeenKnown, [Next]_vars PROVE TypeOK'
    OBVIOUS
<1> USE DEF TypeOK, Latest
<1>1. ASSUME NEW c \in Call, ReadWorkflow(c) PROVE TypeOK'
    <2>1. PICK u \in User, dry \in BOOLEAN :
             call' = [call EXCEPT ![c] =
                        [pc |-> IF workflow # "ENABLED" THEN "done"
                                ELSE IF ~dry /\ versions[Latest] = "HIGH"
                                     THEN "readPolicy" ELSE "createRun",
                         user |-> u, isDryRun |-> dry, version |-> Latest,
                         exempt |-> FALSE]]
        BY <1>1 DEF ReadWorkflow
    <2>2. Latest \in Nat
        OBVIOUS
    <2>3. call' \in [Call -> CallState]
        BY <2>1, <2>2 DEF CallState
    <2> QED
        BY <1>1, <2>3 DEF ReadWorkflow, dbVars
<1>2. ASSUME NEW c \in Call, ReadPolicy(c) PROVE TypeOK'
    <2>1. PICK enforced \in EnforcementRead :
             call' = [call EXCEPT
                        ![c].pc = IF enforced THEN "createApproval"
                                              ELSE "createRun",
                        ![c].exempt = ~enforced]
        BY <1>2 DEF ReadPolicy
    <2>2. enforced \in BOOLEAN
        BY DEF EnforcementRead, PolicyRow
    <2>3. PICK loc \in {"createApproval", "createRun"}, ex \in BOOLEAN :
             call' = [call EXCEPT ![c].pc = loc, ![c].exempt = ex]
        <3>1. CASE enforced
            BY <2>1, <3>1, Zenon
        <3>2. CASE ~enforced
            BY <2>1, <3>2, Zenon
        <3> QED
            BY <3>1, <3>2
    <2>4. call' \in [Call -> CallState]
        BY ZenonT(60), <2>3 DEF CallState
    <2> QED
        BY <1>2, <2>4 DEF ReadPolicy, dbVars
<1>3. ASSUME NEW c \in Call, CreateApproval(c) PROVE TypeOK'
    <2>1. call' \in [Call -> CallState]
        BY <1>3 DEF CreateApproval, CallState
    <2>2. Requested(call[c].user) \in Approval
        BY DEF Requested, Approval, CallState
    <2> QED
        BY <1>3, <2>1, <2>2 DEF CreateApproval
<1>4. ASSUME NEW c \in Call, CreateWaitingRun(c) PROVE TypeOK'
    <2>1. call' \in [Call -> CallState]
        BY <1>4 DEF CreateWaitingRun, CallState
    <2>2. NewRun(c, "WAITING_APPROVAL") \in RunRow
        BY DEF NewRun, RunRow, CallState
    <2> QED
        BY <1>4, <2>1, <2>2 DEF CreateWaitingRun
<1>5. ASSUME NEW c \in Call, CreateQueuedRun(c) PROVE TypeOK'
    <2>1. call' \in [Call -> CallState]
        BY ZenonT(60), <1>5 DEF CreateQueuedRun, CallState
    <2>2. NewRun(c, "QUEUED") \in RunRow
        BY DEF NewRun, RunRow, CallState
    <2> QED
        BY <1>5, <2>1, <2>2 DEF CreateQueuedRun
<1>6. ASSUME NEW c \in Call, WorkerReads(c) PROVE TypeOK'
    <2>1. call' \in [Call -> CallState]
        BY <1>6 DEF WorkerReads, CallState
    <2>2. Latest \in Nat
        OBVIOUS
    <2>3. [runs EXCEPT ![c].status = "STARTED", ![c].executed = Latest]
             \in [Call -> RunRow]
        BY <2>2 DEF RunRow
    <2>4. runs' \in [Call -> RunRow]
        BY <1>6, <2>3 DEF WorkerReads
    <2> QED
        BY <1>6, <2>1, <2>4 DEF WorkerReads
<1>7. ASSUME NEW c \in Call, RequestApproval(c) PROVE TypeOK'
    <2>1. PICK u \in User :
             /\ approvals' = [approvals EXCEPT ![c] = Requested(u)]
             /\ call' = [call EXCEPT ![c].pc = "done", ![c].user = u]
        BY <1>7 DEF RequestApproval
    <2>2. call' \in [Call -> CallState]
        BY ZenonT(60), <2>1 DEF CallState
    <2>3. Requested(u) \in Approval
        BY DEF Requested, Approval
    <2>4. approvals' \in [Call -> Approval]
        BY <2>1, <2>3
    <2> QED
        BY <1>7, <2>2, <2>4 DEF RequestApproval
<1>8. ASSUME NEW c \in Call, Abort(c) PROVE TypeOK'
    <2>1. call' \in [Call -> CallState]
        BY <1>8 DEF Abort, CallState
    <2> QED
        BY <1>8, <2>1 DEF Abort, dbVars
<1>9. ASSUME NEW d \in Decider, ReadApproval(d) PROVE TypeOK'
    <2>1. PICK c \in Call, u \in User, verdict \in {"APPROVED", "REJECTED"} :
             decision' = [decision EXCEPT ![d] =
                            [pc |-> IF MayDecide(c, u, verdict) THEN "update"
                                                                ELSE "done",
                             user |-> u, of |-> c, verdict |-> verdict,
                             late |-> Decided(c)]]
        BY <1>9 DEF ReadApproval
    <2>2. Decided(c) \in BOOLEAN
        BY DEF Decided
    <2>3. decision' \in [Decider -> DecisionState]
        BY <2>1, <2>2 DEF DecisionState
    <2> QED
        BY <1>9, <2>3 DEF ReadApproval, dbVars
<1>10. ASSUME NEW d \in Decider, UpdateApproval(d) PROVE TypeOK'
    <2>1. decision' \in [Decider -> DecisionState]
        BY ZenonT(60), <1>10 DEF UpdateApproval, DecisionState
    <2>2. /\ decision[d].verdict \in {"APPROVED", "REJECTED"}
          /\ decision[d].user \in User \cup {NoUser}
        BY DEF DecisionState
    <2>3. [approvals EXCEPT ![decision[d].of].status = decision[d].verdict,
                            ![decision[d].of].approvedBy = decision[d].user]
             \in [Call -> Approval]
        BY <2>2 DEF Approval
    <2> QED
        BY <1>10, <2>1, <2>3 DEF UpdateApproval
<1>11. ASSUME NEW e \in Editor, ReadForEdit(e) PROVE TypeOK'
    BY <1>11 DEF ReadForEdit, dbVars, EditState
<1>12. ASSUME NEW e \in Editor, SaveEdit(e) PROVE TypeOK'
    <2>1. versions' \in Seq(Risk) /\ Len(versions') > 0
        BY <1>12, StoredNext DEF Latest
    <2>2. workflow' \in WorkflowState /\ edit' \in [Editor -> EditState]
        BY <1>12 DEF SaveEdit, WorkflowState, EditState
    <2> QED
        BY <1>12, <2>1, <2>2 DEF SaveEdit
<1>13. CASE DeleteWorkflow
    BY <1>13 DEF DeleteWorkflow, WorkflowState
<1>14. ASSUME NEW p \in Policy, SetPolicy(p) PROVE TypeOK'
    BY <1>14 DEF SetPolicy
<1>15. CASE UNCHANGED vars
    BY <1>15 DEF vars, dbVars
<1> QED
    BY <1>1, <1>2, <1>3, <1>4, <1>5, <1>6, <1>7, <1>8, <1>9, <1>10, <1>11,
       <1>12, <1>13, <1>14, <1>15
    DEF Next, ExecuteStep

LEMMA SeenKnownNext == TypeOK /\ SeenKnown /\ [Next]_vars => SeenKnown'
<1> SUFFICES ASSUME TypeOK, SeenKnown, [Next]_vars, NEW e \in Editor,
                    edit'[e].pc = "update"
             PROVE  edit'[e].seen \in 1 .. Latest'
    BY DEF SeenKnown
<1>1. Latest \in Nat /\ Latest' \in Nat /\ Latest > 0
    BY TypeNext DEF TypeOK, Latest
<1>2. Latest' >= Latest
    <2>1. CASE versions' = versions
        BY <2>1, <1>1 DEF Latest
    <2>2. CASE versions' # versions
        <3>1. PICK f \in Editor : SaveEdit(f)
            BY <2>2
            DEF Next, vars, dbVars, ExecuteStep, ReadWorkflow, ReadPolicy,
                CreateApproval, CreateWaitingRun, CreateQueuedRun, WorkerReads,
                RequestApproval, Abort, ReadApproval, UpdateApproval,
                ReadForEdit, DeleteWorkflow, SetPolicy
        <3> QED
            BY <2>2, <3>1, <1>1, StoredNext DEF Latest
    <2> QED
        BY <2>1, <2>2
<1>3. CASE \E f \in Editor : ReadForEdit(f)
    <2>1. PICK f \in Editor : ReadForEdit(f)
        BY <1>3
    <2>2. CASE e = f
        BY <2>1, <2>2, <1>1, <1>2 DEF ReadForEdit, TypeOK
    <2>3. CASE e # f
        BY <2>1, <2>3, <1>1, <1>2 DEF ReadForEdit, TypeOK, SeenKnown
    <2> QED
        BY <2>2, <2>3
<1>4. CASE \E f \in Editor : SaveEdit(f)
    BY <1>4, <1>1, <1>2 DEF SaveEdit, TypeOK, SeenKnown
<1>5. CASE edit' = edit
    BY <1>5, <1>1, <1>2 DEF SeenKnown
<1> QED
    BY <1>3, <1>4, <1>5
    DEF Next, vars, dbVars, ExecuteStep, ReadWorkflow, ReadPolicy,
        CreateApproval, CreateWaitingRun, CreateQueuedRun, WorkerReads,
        RequestApproval, Abort, ReadApproval, UpdateApproval, DeleteWorkflow,
        SetPolicy

TypeInv == TypeOK /\ SeenKnown

LEMMA TypeInvInit == Init => TypeInv
BY TypeInit DEF Init, TypeInv, SeenKnown

LEMMA TypeInvNext == TypeInv /\ [Next]_vars => TypeInv'
BY TypeNext, SeenKnownNext DEF TypeInv

\* The type invariant holds in every reachable state.
THEOREM TypeCorrect == Spec => []TypeOK
<1>1. TypeInv => TypeOK
    BY DEF TypeInv
<1> QED
    BY <1>1, TypeInvInit, TypeInvNext, PTL DEF Spec

-----------------------------------------------------------------------------
(* Versions.                                                               *)

\* No edit replaces a stored version or is stacked on one its editor has not
\* read, for any number of editors and versions.
THEOREM NoLostEditAlways == Spec => NoLostEdit
<1> DEFINE Kept ==
        versions' # versions =>
          /\ Len(versions') = Latest + 1
          /\ \A n \in 1 .. Latest : versions'[n] = versions[n]
          /\ \E e \in Editor : /\ edit[e].pc = "update" /\ edit'[e].pc = "done"
                               /\ edit[e].seen = Latest
<1>1. TypeInv /\ [Next]_vars => [Kept]_vars
    <2> SUFFICES ASSUME TypeInv, Next, versions' # versions PROVE Kept
        BY DEF vars, dbVars
    <2>1. PICK e \in Editor : SaveEdit(e)
        BY DEF Next, ExecuteStep, ReadWorkflow, ReadPolicy,
               CreateApproval, CreateWaitingRun, CreateQueuedRun, WorkerReads,
               RequestApproval, Abort, ReadApproval, UpdateApproval,
               ReadForEdit, DeleteWorkflow, SetPolicy, dbVars
    <2>2. edit[e].seen = Latest
        BY <2>1, StoredNext DEF TypeInv
    <2>3. Len(versions') = Latest + 1 /\ \A n \in 1 .. Latest : versions'[n] = versions[n]
        BY <2>1, StoredNext DEF TypeInv
    <2>4. edit[e].pc = "update" /\ edit'[e].pc = "done"
        BY <2>1 DEF SaveEdit, TypeInv, TypeOK
    <2> QED
        BY <2>2, <2>3, <2>4
<1> QED
    BY <1>1, TypeInvInit, TypeInvNext, PTL DEF Spec, NoLostEdit

-----------------------------------------------------------------------------
(* The four-eyes principle.  A decision compares the caller with the       *)
(* requester when it reads the request and writes later, after others may  *)
(* have written.  That is enough because a request never changes its       *)
(* requester: it is created once, before any decision can have read it.    *)

BeforeRequest == {"idle", "readPolicy", "createApproval"}

NotYetRequested ==
    \A c \in Call : call[c].pc \in BeforeRequest =>
        approvals[c].status = "ABSENT"

DecisionSound(d) ==
    decision[d].pc = "update" =>
        /\ decision[d].of \in Call
        /\ decision[d].user \in User
        /\ approvals[decision[d].of].status # "ABSENT"
        /\ decision[d].verdict = "APPROVED" =>
              decision[d].user # approvals[decision[d].of].requestedBy

FourEyesInv ==
    /\ NotYetRequested
    /\ \A d \in Decider : DecisionSound(d)
    /\ FourEyes

LEMMA FourEyesInit == Init => FourEyesInv
BY DEF Init, FourEyesInv, NotYetRequested, DecisionSound, FourEyes, NoApproval

\* A request is created for a call that had none.
LEMMA FourEyesRequested ==
    ASSUME TypeOK, FourEyesInv, NEW c \in Call, NEW u \in User \cup {NoUser},
           call[c].pc \in BeforeRequest,
           approvals' = [approvals EXCEPT ![c] = Requested(u)],
           decision' = decision,
           \A b \in Call : b # c => call'[b] = call[b],
           call'[c].pc \notin BeforeRequest
    PROVE  FourEyesInv'
<1>1. approvals[c].status = "ABSENT"
    BY DEF FourEyesInv, NotYetRequested
<1>2. approvals'[c] = Requested(u) /\ approvals'[c].status = "PENDING"
    BY DEF TypeOK, Requested
<1>3. \A b \in Call : b # c => approvals'[b] = approvals[b]
    BY DEF TypeOK
<1>4. NotYetRequested'
    BY <1>3 DEF FourEyesInv, NotYetRequested
<1>5. ASSUME NEW d \in Decider PROVE DecisionSound(d)'
    <2>1. DecisionSound(d)
        BY DEF FourEyesInv
    <2>2. decision[d].pc = "update" => decision[d].of # c
        BY <1>1, <2>1 DEF DecisionSound
    <2> QED
        BY <1>3, <2>1, <2>2 DEF DecisionSound
<1>6. FourEyes'
    BY <1>2, <1>3 DEF FourEyesInv, FourEyes
<1> QED
    BY <1>4, <1>5, <1>6 DEF FourEyesInv

\* A decision that has passed its checks is written.
LEMMA FourEyesDecided ==
    ASSUME TypeOK, FourEyesInv, NEW d \in Decider, UpdateApproval(d)
    PROVE  FourEyesInv'
<1> DEFINE c == decision[d].of
<1>1. /\ c \in Call
      /\ decision[d].user \in User
      /\ approvals[c].status # "ABSENT"
      /\ decision[d].verdict = "APPROVED" =>
            decision[d].user # approvals[c].requestedBy
      /\ decision[d].verdict \in {"APPROVED", "REJECTED"}
    BY DEF UpdateApproval, FourEyesInv, DecisionSound, TypeOK, DecisionState
<1>2. /\ approvals' = [approvals EXCEPT
                         ![c].status = decision[d].verdict,
                         ![c].approvedBy = decision[d].user]
      /\ decision' = [decision EXCEPT ![d].pc = "done"]
      /\ call' = call
    BY DEF UpdateApproval
<1>3. /\ approvals'[c].status = decision[d].verdict
      /\ approvals'[c].approvedBy = decision[d].user
      /\ approvals'[c].requestedBy = approvals[c].requestedBy
    BY <1>1, <1>2 DEF TypeOK, Approval
<1>4. \A b \in Call : b # c => approvals'[b] = approvals[b]
    BY <1>2 DEF TypeOK
<1>5. NotYetRequested'
    BY <1>1, <1>2, <1>4 DEF FourEyesInv, NotYetRequested
<1>6. ASSUME NEW e \in Decider PROVE DecisionSound(e)'
    <2>1. DecisionSound(e)
        BY DEF FourEyesInv
    <2>2. CASE e = d
        BY <1>2, <2>2 DEF DecisionSound, TypeOK, DecisionState
    <2>3. CASE e # d
        <3>1. decision'[e] = decision[e]
            BY <1>2, <2>3 DEF TypeOK
        <3>2. CASE decision[e].of = c
            BY <1>1, <1>3, <2>1, <3>1, <3>2 DEF DecisionSound
        <3>3. CASE decision[e].of # c
            BY <1>4, <2>1, <3>1, <3>3 DEF DecisionSound
        <3> QED
            BY <3>2, <3>3
    <2> QED
        BY <2>2, <2>3
<1>7. FourEyes'
    BY <1>1, <1>3, <1>4 DEF FourEyesInv, FourEyes
<1> QED
    BY <1>5, <1>6, <1>7 DEF FourEyesInv

\* A decision reads the request and applies its checks.
LEMMA FourEyesRead ==
    ASSUME TypeOK, FourEyesInv, NEW d \in Decider, ReadApproval(d)
    PROVE  FourEyesInv'
<1>1. UNCHANGED <<approvals, call>>
    BY DEF ReadApproval, dbVars
<1>2. NotYetRequested' /\ FourEyes'
    BY <1>1 DEF FourEyesInv, NotYetRequested, FourEyes
<1>3. PICK c \in Call, u \in User, verdict \in {"APPROVED", "REJECTED"} :
         decision' = [decision EXCEPT ![d] =
                        [pc |-> IF MayDecide(c, u, verdict) THEN "update"
                                                            ELSE "done",
                         user |-> u, of |-> c, verdict |-> verdict,
                         late |-> Decided(c)]]
    BY DEF ReadApproval
<1>4. ASSUME NEW e \in Decider PROVE DecisionSound(e)'
    <2>1. CASE e = d
        BY <1>1, <1>3, <2>1 DEF DecisionSound, MayDecide, TypeOK
    <2>2. CASE e # d
        BY <1>1, <1>3, <2>2 DEF FourEyesInv, DecisionSound, TypeOK
    <2> QED
        BY <2>1, <2>2
<1> QED
    BY <1>2, <1>4 DEF FourEyesInv

\* A step that touches neither requests nor decisions.
LEMMA FourEyesKept ==
    ASSUME FourEyesInv, UNCHANGED <<approvals, decision>>,
           \A c \in Call : call'[c].pc \in BeforeRequest =>
               call[c].pc \in BeforeRequest
    PROVE  FourEyesInv'
BY DEF FourEyesInv, NotYetRequested, DecisionSound, FourEyes

LEMMA FourEyesNext ==
    ASSUME TypeOK, FourEyesInv, [Next]_vars
    PROVE  FourEyesInv'
<1>1. ASSUME NEW c \in Call, ReadWorkflow(c) PROVE FourEyesInv'
    BY <1>1, FourEyesKept DEF ReadWorkflow, dbVars, TypeOK, BeforeRequest
<1>2. ASSUME NEW c \in Call, ReadPolicy(c) PROVE FourEyesInv'
    BY <1>2, FourEyesKept DEF ReadPolicy, dbVars, TypeOK, BeforeRequest
<1>3. ASSUME NEW c \in Call, CreateApproval(c) PROVE FourEyesInv'
    <2>1. call'[c].pc = "createWaiting"
        BY <1>3 DEF CreateApproval, TypeOK, CallState
    <2>2. \A b \in Call : b # c => call'[b] = call[b]
        BY <1>3 DEF CreateApproval, TypeOK
    <2>3. call[c].user \in User \cup {NoUser}
        BY DEF TypeOK, CallState
    <2> QED
        BY <1>3, <2>1, <2>2, <2>3, FourEyesRequested
        DEF CreateApproval, BeforeRequest
<1>4. ASSUME NEW c \in Call, RequestApproval(c) PROVE FourEyesInv'
    <2>1. PICK u \in User :
             /\ approvals' = [approvals EXCEPT ![c] = Requested(u)]
             /\ call' = [call EXCEPT ![c].pc = "done", ![c].user = u]
        BY <1>4 DEF RequestApproval
    <2>2. call'[c].pc = "done"
        BY <2>1 DEF TypeOK, CallState
    <2>3. \A b \in Call : b # c => call'[b] = call[b]
        BY <2>1 DEF TypeOK
    <2> QED
        BY <1>4, <2>1, <2>2, <2>3, FourEyesRequested
        DEF RequestApproval, BeforeRequest
<1>5. ASSUME NEW c \in Call, CreateWaitingRun(c) \/ CreateQueuedRun(c)
      PROVE  FourEyesInv'
    <2>1. PICK loc \in {"done", "toWorker"} :
             call' = [call EXCEPT ![c].pc = loc]
        BY <1>5 DEF CreateWaitingRun, CreateQueuedRun
    <2>2. \A b \in Call : call'[b].pc = call[b].pc \/ call'[b].pc = loc
        BY <2>1 DEF TypeOK, CallState
    <2> QED
        BY <1>5, <2>2, FourEyesKept
        DEF CreateWaitingRun, CreateQueuedRun, BeforeRequest
<1>6. ASSUME NEW c \in Call, WorkerReads(c) \/ Abort(c) PROVE FourEyesInv'
    <2>1. call' = [call EXCEPT ![c].pc = "done"]
        BY <1>6 DEF WorkerReads, Abort
    <2>2. \A b \in Call : call'[b].pc = call[b].pc \/ call'[b].pc = "done"
        BY <2>1 DEF TypeOK, CallState
    <2> QED
        BY <1>6, <2>2, FourEyesKept
        DEF WorkerReads, Abort, dbVars, BeforeRequest
<1>7. ASSUME NEW d \in Decider, ReadApproval(d) PROVE FourEyesInv'
    BY <1>7, FourEyesRead
<1>8. ASSUME NEW d \in Decider, UpdateApproval(d) PROVE FourEyesInv'
    BY <1>8, FourEyesDecided
<1>9. ASSUME NEW e \in Editor, ReadForEdit(e) \/ SaveEdit(e)
      PROVE  FourEyesInv'
    BY <1>9, FourEyesKept DEF ReadForEdit, SaveEdit, dbVars
<1>10. ASSUME DeleteWorkflow \/ (\E p \in Policy : SetPolicy(p))
       PROVE  FourEyesInv'
    BY <1>10, FourEyesKept DEF DeleteWorkflow, SetPolicy
<1>11. CASE UNCHANGED vars
    BY <1>11, FourEyesKept DEF vars, dbVars
<1> QED
    BY <1>1, <1>2, <1>3, <1>4, <1>5, <1>6, <1>7, <1>8, <1>9, <1>10, <1>11
    DEF Next, ExecuteStep

\* Whatever decisions race for a request, an APPROVED one was approved by
\* another user than the one who asked.
THEOREM FourEyesAlways == Spec => []FourEyes
<1>1. TypeInv /\ FourEyesInv /\ [Next]_vars => TypeInv' /\ FourEyesInv'
    BY TypeInvNext, FourEyesNext DEF TypeInv
<1>2. Init => TypeInv /\ FourEyesInv
    BY TypeInvInit, FourEyesInit
<1>3. FourEyesInv => FourEyes
    BY DEF FourEyesInv
<1> QED
    BY <1>1, <1>2, <1>3, PTL DEF Spec

-----------------------------------------------------------------------------
(* Late decisions.                                                         *)

BegunInTime ==
    \A d \in Decider : decision[d].pc = "update" => ~decision[d].late

DecisionInv == TypeInv /\ FourEyesInv /\ BegunInTime

LEMMA DecisionInit == Init => DecisionInv
BY TypeInvInit, FourEyesInit DEF Init, DecisionInv, BegunInTime

LEMMA DecisionNext == DecisionInv /\ [Next]_vars => DecisionInv'
<1> SUFFICES ASSUME DecisionInv, [Next]_vars PROVE DecisionInv'
    OBVIOUS
<1>1. TypeInv' /\ FourEyesInv'
    BY TypeInvNext, FourEyesNext DEF DecisionInv, TypeInv
<1>2. decision \in [Decider -> DecisionState]
    BY DEF DecisionInv, TypeInv, TypeOK
<1>3. ASSUME NEW d \in Decider, ReadApproval(d) PROVE BegunInTime'
    <2>1. PICK c \in Call, u \in User, verdict \in {"APPROVED", "REJECTED"} :
             decision' = [decision EXCEPT ![d] =
                            [pc |-> IF MayDecide(c, u, verdict) THEN "update"
                                                                ELSE "done",
                             user |-> u, of |-> c, verdict |-> verdict,
                             late |-> Decided(c)]]
        BY <1>3 DEF ReadApproval
    <2>2. MayDecide(c, u, verdict) => ~Decided(c)
        BY DEF MayDecide, Decided
    <2> QED
        BY <1>2, <2>1, <2>2 DEF DecisionInv, BegunInTime
<1>4. ASSUME NEW d \in Decider, UpdateApproval(d) PROVE BegunInTime'
    BY <1>2, <1>4 DEF UpdateApproval, DecisionInv, BegunInTime
<1>5. ASSUME decision' = decision PROVE BegunInTime'
    BY <1>5 DEF DecisionInv, BegunInTime
<1>6. BegunInTime'
    BY <1>3, <1>4, <1>5
    DEF Next, vars, dbVars, ExecuteStep, ReadWorkflow, ReadPolicy,
        CreateApproval, CreateWaitingRun, CreateQueuedRun, WorkerReads,
        RequestApproval, Abort, ReadForEdit, SaveEdit, DeleteWorkflow,
        SetPolicy
<1> QED
    BY <1>1, <1>6 DEF DecisionInv

\* A decided request changes again only by a call that had read it pending.
THEOREM LateDecisionLosesAlways == Spec => LateDecisionLoses
<1> DEFINE Overturned(c) ==
        \E d \in Decider : /\ decision[d].pc = "update"
                           /\ decision[d].of = c
                           /\ ~decision[d].late
<1> DEFINE InTime ==
        \A c \in Call : Decided(c) /\ approvals'[c] # approvals[c] => Overturned(c)
<1>1. DecisionInv /\ [Next]_vars => [InTime]_vars
    <2> SUFFICES ASSUME DecisionInv, Next, NEW c \in Call, Decided(c),
                        approvals'[c] # approvals[c]
                 PROVE  Overturned(c)
        BY DEF vars, dbVars
    <2>1. approvals \in [Call -> Approval]
        BY DEF DecisionInv, TypeInv, TypeOK
    <2>2. call[c].pc \notin {"idle", "createApproval"}
        BY DEF DecisionInv, FourEyesInv, NotYetRequested, BeforeRequest, Decided
    <2>3. PICK d \in Decider : UpdateApproval(d)
        BY <2>1, <2>2
        DEF Next, dbVars, ExecuteStep, ReadWorkflow, ReadPolicy,
            CreateApproval, CreateWaitingRun, CreateQueuedRun, WorkerReads,
            RequestApproval, Abort, ReadApproval, ReadForEdit, SaveEdit,
            DeleteWorkflow, SetPolicy
    <2>4. decision[d].pc = "update" /\ decision[d].of = c
        BY <2>1, <2>3 DEF UpdateApproval
    <2> QED
        BY <2>4 DEF DecisionInv, BegunInTime
<1> QED
    BY <1>1, DecisionInit, DecisionNext, PTL DEF Spec, LateDecisionLoses

-----------------------------------------------------------------------------
(* What a call creates, and what its run is judged by.  A call is at one   *)
(* place only, so it creates a request or a run that starts; and the       *)
(* version whose risk it judged is still the same when the worker reads,   *)
(* as versions only grow.                                                  *)

Unstarted == {"idle", "readPolicy", "createApproval", "createRun"}

Judged(c, v) ==
    /\ v \in 1 .. Latest
    /\ call[c].isDryRun \/ call[c].exempt \/ versions[v] # "HIGH"

Gated(c) ==
    /\ call[c].pc \in Unstarted \cup {"toWorker"} =>
          approvals[c].status = "ABSENT"
    /\ call[c].pc \in Unstarted \cup {"createWaiting"} =>
          runs[c].status = "ABSENT"
    /\ call[c].pc = "createWaiting" \/ runs[c].status = "WAITING_APPROVAL" =>
          /\ approvals[c].status # "ABSENT"
          /\ approvals[c].requestedBy = call[c].user
    /\ approvals[c].status # "ABSENT" =>
          runs[c].status \in {"ABSENT", "WAITING_APPROVAL"}

Explained(c) ==
    /\ call[c].pc # "done" => runs[c].executed = 0
    /\ call[c].pc = "readPolicy" => call[c].version \in 1 .. Latest
    /\ call[c].pc = "createRun" => Judged(c, call[c].version)
    /\ call[c].pc = "toWorker" => Judged(c, runs[c].workflowVersion)
    /\ runs[c].executed # 0 =>
          /\ runs[c].executed \in runs[c].workflowVersion .. Latest
          /\ Judged(c, runs[c].workflowVersion)

GateInv == \A c \in Call : Gated(c) /\ Explained(c)

\* Versions are only added.
VersionsGrow ==
    /\ Latest \in Nat /\ Latest' \in Nat /\ Latest' >= Latest /\ Latest > 0
    /\ \A n \in 1 .. Latest : versions'[n] = versions[n]

LEMMA VersionsOnlyGrow == TypeInv /\ [Next]_vars => VersionsGrow
<1> SUFFICES ASSUME TypeInv, [Next]_vars PROVE VersionsGrow
    OBVIOUS
<1>1. Latest \in Nat /\ Latest' \in Nat /\ Latest > 0
    BY TypeInvNext DEF TypeInv, TypeOK, Latest
<1>2. CASE versions' = versions
    BY <1>1, <1>2 DEF VersionsGrow, Latest
<1>3. CASE versions' # versions
    <2>1. PICK e \in Editor : SaveEdit(e)
        BY <1>3
        DEF Next, vars, dbVars, ExecuteStep, ReadWorkflow, ReadPolicy,
            CreateApproval, CreateWaitingRun, CreateQueuedRun, WorkerReads,
            RequestApproval, Abort, ReadApproval, UpdateApproval,
            ReadForEdit, DeleteWorkflow, SetPolicy
    <2>2. Len(versions') = Latest + 1
          /\ \A n \in 1 .. Latest : versions'[n] = versions[n]
        BY <1>3, <2>1, StoredNext DEF TypeInv
    <2> QED
        BY <1>1, <2>2 DEF VersionsGrow, Latest
<1> QED
    BY <1>2, <1>3

\* A call that rests is judged as before, whatever versions are added and
\* however its request is decided.
LEMMA GateKept ==
    ASSUME VersionsGrow, NEW c \in Call, Gated(c), Explained(c),
           call'[c] = call[c], runs'[c] = runs[c],
           approvals'[c].requestedBy = approvals[c].requestedBy,
           approvals'[c].status = "ABSENT" <=> approvals[c].status = "ABSENT"
    PROVE  Gated(c)' /\ Explained(c)'
<1>1. \A v : Judged(c, v) => v \in 1 .. Latest'
                             /\ (call'[c].isDryRun \/ call'[c].exempt
                                    \/ versions'[v] # "HIGH")
    BY DEF Judged, VersionsGrow
<1>2. Judged(c, call[c].version) => Judged(c, call[c].version)'
    BY <1>1 DEF Judged
<1>3. Judged(c, runs[c].workflowVersion) => Judged(c, runs[c].workflowVersion)'
    BY <1>1 DEF Judged
<1>4. Gated(c)'
    BY DEF Gated
<1>5. call[c].version \in 1 .. Latest => call[c].version \in 1 .. Latest'
    BY DEF VersionsGrow
<1>6. runs[c].executed # 0 =>
         runs[c].executed \in runs[c].workflowVersion .. Latest'
    BY DEF Explained, Judged, VersionsGrow
<1>7. Explained(c)'
    BY <1>2, <1>3, <1>5, <1>6 DEF Explained
<1> QED
    BY <1>4, <1>7

\* The step of a call that is under way.
LEMMA GateOwn ==
    ASSUME TypeInv, FourEyesInv, VersionsGrow, NEW c \in Call, Gated(c),
           Explained(c), ExecuteStep(c) \/ RequestApproval(c) \/ Abort(c)
    PROVE  Gated(c)' /\ Explained(c)'
<1> USE DEF TypeInv, TypeOK, Unstarted
<1>1. call[c] \in CallState /\ runs[c] \in RunRow /\ approvals[c] \in Approval
    OBVIOUS
<1>2. CASE ReadWorkflow(c)
    <2>1. PICK u \in User, dry \in BOOLEAN :
             call' = [call EXCEPT ![c] =
                        [pc |-> IF workflow # "ENABLED" THEN "done"
                                ELSE IF ~dry /\ versions[Latest] = "HIGH"
                                     THEN "readPolicy" ELSE "createRun",
                         user |-> u, isDryRun |-> dry, version |-> Latest,
                         exempt |-> FALSE]]
        BY <1>2 DEF ReadWorkflow
    <2>2. /\ call[c].pc = "idle"
          /\ UNCHANGED <<versions, approvals, runs>>
        BY <1>2 DEF ReadWorkflow, dbVars
    <2>3. /\ call'[c].pc = IF workflow # "ENABLED" THEN "done"
                           ELSE IF ~dry /\ versions[Latest] = "HIGH"
                                THEN "readPolicy" ELSE "createRun"
          /\ call'[c].isDryRun = dry
          /\ call'[c].version = Latest
        BY <2>1
    <2>4. /\ approvals[c].status = "ABSENT" /\ runs[c].status = "ABSENT"
          /\ runs[c].executed = 0
        BY <2>2 DEF Gated, Explained
    <2>5. Gated(c)'
        BY <2>2, <2>3, <2>4 DEF Gated
    <2>6. Latest' = Latest /\ Latest \in 1 .. Latest
        BY <2>2 DEF Latest, VersionsGrow
    <2>7. call'[c].pc = "createRun" => Judged(c, call[c].version)'
        BY <2>2, <2>3, <2>6 DEF Judged
    <2>8. Explained(c)'
        BY <2>2, <2>3, <2>4, <2>6, <2>7 DEF Explained
    <2> QED
        BY <2>5, <2>8
<1>3. CASE ReadPolicy(c)
    <2>1. PICK enforced \in EnforcementRead :
             call' = [call EXCEPT
                        ![c].pc = IF enforced THEN "createApproval"
                                              ELSE "createRun",
                        ![c].exempt = ~enforced]
        BY <1>3 DEF ReadPolicy
    <2>2. /\ call[c].pc = "readPolicy"
          /\ UNCHANGED <<versions, approvals, runs>>
        BY <1>3 DEF ReadPolicy, dbVars
    <2>3. /\ call'[c].pc = IF enforced THEN "createApproval" ELSE "createRun"
          /\ call'[c].exempt = ~enforced
          /\ call'[c].version = call[c].version
        BY <1>1, <2>1 DEF CallState
    <2>4. /\ approvals[c].status = "ABSENT" /\ runs[c].status = "ABSENT"
          /\ runs[c].executed = 0 /\ call[c].version \in 1 .. Latest
        BY <2>2 DEF Gated, Explained
    <2>5. Gated(c)'
        BY <2>2, <2>3, <2>4 DEF Gated
    <2>6. call'[c].pc = "createRun" => Judged(c, call[c].version)'
        BY <2>2, <2>3, <2>4 DEF Judged, Latest
    <2>7. Explained(c)'
        BY <2>2, <2>3, <2>4, <2>6 DEF Explained
    <2> QED
        BY <2>5, <2>7
<1>4. CASE CreateApproval(c)
    <2>1. /\ call[c].pc = "createApproval"
          /\ call'[c].pc = "createWaiting" /\ call'[c].user = call[c].user
          /\ approvals'[c] = Requested(call[c].user)
          /\ UNCHANGED <<versions, runs>>
        BY <1>1, <1>4 DEF CreateApproval, CallState
    <2>2. runs[c].status = "ABSENT" /\ runs[c].executed = 0
        BY <2>1 DEF Gated, Explained
    <2> QED
        BY <2>1, <2>2 DEF Gated, Explained, Requested
<1>5. CASE CreateWaitingRun(c)
    <2>1. /\ call[c].pc = "createWaiting"
          /\ call'[c].pc = "done" /\ call'[c].user = call[c].user
          /\ runs'[c] \in {runs[c], NewRun(c, "WAITING_APPROVAL")}
          /\ UNCHANGED <<versions, approvals>>
        BY <1>1, <1>5 DEF CreateWaitingRun, CallState
    <2>2. /\ approvals[c].status # "ABSENT"
          /\ approvals[c].requestedBy = call[c].user
          /\ runs[c].status = "ABSENT" /\ runs[c].executed = 0
        BY <2>1 DEF Gated, Explained
    <2>3. runs'[c].status \in {"ABSENT", "WAITING_APPROVAL"}
          /\ runs'[c].executed = 0
        BY <2>1, <2>2 DEF NewRun
    <2> QED
        BY <2>1, <2>2, <2>3 DEF Gated, Explained
<1>6. CASE CreateQueuedRun(c)
    <2>1. /\ call[c].pc = "createRun"
          /\ UNCHANGED <<versions, approvals>>
          /\ call'[c].isDryRun = call[c].isDryRun
          /\ call'[c].exempt = call[c].exempt
        BY <1>1, <1>6 DEF CreateQueuedRun, CallState
    <2>2. /\ approvals[c].status = "ABSENT" /\ runs[c].status = "ABSENT"
          /\ runs[c].executed = 0 /\ Judged(c, call[c].version)
        BY <2>1 DEF Gated, Explained
    <2>3. CASE workflow = "DELETED"
        <3>1. runs' = runs /\ call'[c].pc = "done"
            BY <1>1, <1>6, <2>3 DEF CreateQueuedRun, CallState
        <3> QED
            BY <2>1, <2>2, <3>1 DEF Gated, Explained
    <2>4. CASE workflow # "DELETED"
        <3>1. runs'[c] = NewRun(c, "QUEUED") /\ call'[c].pc = "toWorker"
            BY <1>1, <1>6, <2>4 DEF CreateQueuedRun, CallState
        <3>2. /\ runs'[c].status = "QUEUED" /\ runs'[c].executed = 0
              /\ runs'[c].workflowVersion = call[c].version
            BY <3>1 DEF NewRun
        <3>3. Judged(c, runs[c].workflowVersion)'
            BY <2>1, <2>2, <3>2 DEF Judged, Latest
        <3> QED
            BY <2>1, <2>2, <3>1, <3>2, <3>3 DEF Gated, Explained
    <2> QED
        BY <2>3, <2>4
<1>7. CASE WorkerReads(c)
    <2>1. /\ call[c].pc = "toWorker" /\ call'[c].pc = "done"
          /\ UNCHANGED <<versions, approvals>>
          /\ call'[c].isDryRun = call[c].isDryRun
          /\ call'[c].exempt = call[c].exempt
        BY <1>1, <1>7 DEF WorkerReads, CallState
    <2>2. /\ approvals[c].status = "ABSENT" /\ runs[c].executed = 0
          /\ Judged(c, runs[c].workflowVersion)
        BY <2>1 DEF Gated, Explained
    <2>3. CASE workflow = "DELETED"
        <3>1. runs' = runs
            BY <1>7, <2>3 DEF WorkerReads
        <3> QED
            BY <2>1, <2>2, <3>1 DEF Gated, Explained
    <2>4. CASE workflow # "DELETED"
        <3>1. runs' = [runs EXCEPT ![c].status = "STARTED",
                                   ![c].executed = Latest]
            BY <1>7, <2>4 DEF WorkerReads
        <3>2. /\ runs'[c].status = "STARTED"
              /\ runs'[c].executed = Latest
              /\ runs'[c].workflowVersion = runs[c].workflowVersion
            BY <1>1, <3>1 DEF RunRow
        <3>3. Judged(c, runs[c].workflowVersion)'
            BY <2>1, <2>2, <3>2 DEF Judged, Latest
        <3>4. Latest \in runs[c].workflowVersion .. Latest /\ Latest' = Latest
            BY <2>1, <2>2 DEF Judged, Latest, VersionsGrow
        <3> QED
            BY <2>1, <2>2, <3>2, <3>3, <3>4 DEF Gated, Explained
    <2> QED
        BY <2>3, <2>4
<1>8. CASE RequestApproval(c)
    <2>1. PICK u \in User :
             /\ approvals' = [approvals EXCEPT ![c] = Requested(u)]
             /\ call' = [call EXCEPT ![c].pc = "done", ![c].user = u]
        BY <1>8 DEF RequestApproval
    <2>2. /\ call[c].pc = "idle" /\ UNCHANGED <<versions, runs>>
          /\ call'[c].pc = "done" /\ approvals'[c] = Requested(u)
        BY <1>1, <1>8, <2>1 DEF RequestApproval, CallState
    <2>3. runs[c].status = "ABSENT" /\ runs[c].executed = 0
        BY <2>2 DEF Gated, Explained
    <2> QED
        BY <2>2, <2>3 DEF Gated, Explained, Requested
<1>9. CASE Abort(c)
    <2>1. /\ call[c].pc # "done" /\ call'[c].pc = "done"
          /\ call'[c].user = call[c].user
          /\ UNCHANGED <<versions, approvals, runs>>
        BY <1>1, <1>9 DEF Abort, dbVars, CallState
    <2>2. runs[c].executed = 0
        BY <2>1 DEF Explained
    <2> QED
        BY <2>1, <2>2 DEF Gated, Explained
<1> QED
    BY <1>2, <1>3, <1>4, <1>5, <1>6, <1>7, <1>8, <1>9 DEF ExecuteStep

LEMMA GateInit == Init => GateInv
<1> SUFFICES ASSUME Init, NEW c \in Call PROVE Gated(c) /\ Explained(c)
    BY DEF GateInv
<1>1. /\ call[c].pc = "idle"
      /\ approvals[c].status = "ABSENT"
      /\ runs[c].status = "ABSENT" /\ runs[c].executed = 0
    BY DEF Init, NoApproval, NoRunRow
<1> QED
    BY <1>1 DEF Gated, Explained, Unstarted

LEMMA GateNext == TypeInv /\ FourEyesInv /\ GateInv /\ [Next]_vars => GateInv'
<1> SUFFICES ASSUME TypeInv, FourEyesInv, GateInv, [Next]_vars, NEW b \in Call
             PROVE  Gated(b)' /\ Explained(b)'
    BY DEF GateInv
<1>1. VersionsGrow
    BY VersionsOnlyGrow
<1>2. Gated(b) /\ Explained(b)
    BY DEF GateInv
<1> USE DEF TypeInv, TypeOK
<1>3. ASSUME NEW c \in Call, ExecuteStep(c) \/ RequestApproval(c) \/ Abort(c)
      PROVE  Gated(b)' /\ Explained(b)'
    <2>1. CASE b = c
        BY <1>1, <1>2, <1>3, <2>1, GateOwn
    <2>2. CASE b # c
        <3>1. /\ call'[b] = call[b] /\ runs'[b] = runs[b]
              /\ approvals'[b] = approvals[b]
            BY <1>3, <2>2
            DEF ExecuteStep, ReadWorkflow, ReadPolicy, CreateApproval,
                CreateWaitingRun, CreateQueuedRun, WorkerReads,
                RequestApproval, Abort, dbVars
        <3> QED
            BY <1>1, <1>2, <3>1, GateKept
    <2> QED
        BY <2>1, <2>2
<1>4. ASSUME NEW d \in Decider, UpdateApproval(d)
      PROVE  Gated(b)' /\ Explained(b)'
    <2>1. UNCHANGED <<call, runs>>
        BY <1>4 DEF UpdateApproval
    <2>2. /\ approvals[decision[d].of].status # "ABSENT"
          /\ decision[d].verdict # "ABSENT"
        BY <1>4 DEF UpdateApproval, FourEyesInv, DecisionSound, DecisionState
    <2>3. /\ approvals'[b].requestedBy = approvals[b].requestedBy
          /\ approvals'[b].status = "ABSENT" <=> approvals[b].status = "ABSENT"
        BY <1>4, <2>2 DEF UpdateApproval, Approval
    <2> QED
        BY <1>1, <1>2, <2>1, <2>3, GateKept
<1>5. CASE UNCHANGED <<call, runs, approvals>>
    BY <1>1, <1>2, <1>5, GateKept
<1> QED
    BY <1>3, <1>4, <1>5
    DEF Next, vars, dbVars, ReadApproval, ReadForEdit, SaveEdit,
        DeleteWorkflow, SetPolicy

LEMMA GateAlways == Spec => [](TypeInv /\ GateInv)
<1>1. Init => TypeInv /\ FourEyesInv /\ GateInv
    BY TypeInvInit, FourEyesInit, GateInit
<1>2. TypeInv /\ FourEyesInv /\ GateInv /\ [Next]_vars
         => TypeInv' /\ FourEyesInv' /\ GateInv'
    BY TypeInvNext, FourEyesNext, GateNext DEF TypeInv
<1> QED
    BY <1>1, <1>2, PTL DEF Spec

\* A call creates a request or starts a run, never both, and a run that waits
\* waits for a request of its own caller.
THEOREM ApprovalGatesAlways == Spec => []ApprovalGates
<1>1. GateInv => ApprovalGates
    BY DEF GateInv, Gated, ApprovalGates
<1> QED
    BY <1>1, GateAlways, PTL

\* A real run reaches a version of high risk without approval only when the
\* policy asked for none or the version is newer than the one judged.
THEOREM UnapprovedHighRiskExplainedAlways == Spec => []UnapprovedHighRiskExplained
<1>1. TypeInv /\ GateInv => UnapprovedHighRiskExplained
    <2> SUFFICES ASSUME TypeInv, GateInv, NEW c \in Call,
                        runs[c].executed # 0, ~call[c].isDryRun,
                        versions[runs[c].executed] = "HIGH", ~call[c].exempt
                 PROVE  runs[c].executed > runs[c].workflowVersion
        BY DEF UnapprovedHighRiskExplained
    <2>1. /\ runs[c].executed \in runs[c].workflowVersion .. Latest
          /\ Judged(c, runs[c].workflowVersion)
        BY DEF GateInv, Explained
    <2>2. runs[c].executed # runs[c].workflowVersion
        BY <2>1 DEF Judged
    <2>3. runs[c].executed \in Nat /\ runs[c].workflowVersion \in Nat
        BY DEF TypeInv, TypeOK, RunRow
    <2> QED
        BY <2>1, <2>2, <2>3
<1> QED
    BY <1>1, GateAlways, PTL
=============================================================================
