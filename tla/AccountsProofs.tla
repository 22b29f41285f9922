--------------------------- MODULE AccountsProofs ---------------------------
(***************************************************************************)
(* Theorems about Accounts: its types, and what the guards of the last     *)
(* administrator and of the installation are worth.                        *)
(***************************************************************************)
EXTENDS Accounts, FiniteSetTheorems, TLAPS

-----------------------------------------------------------------------------
(* Types.                                                                  *)

LEMMA NoRequestType == User # {} => NoRequest \in RequestState
BY DEF NoRequest, RequestState, Input, Account, Absent

LEMMA AskType ==
    ASSUME AccountsTypeOK, NEW r \in Request, NEW request \in RequestState, BeginRequest(r, request)
    PROVE  asked' \in [Request -> RequestState] /\ asks' \in Nat
BY DEF AccountsTypeOK, BeginRequest

LEMMA WriteType ==
    ASSUME User # {}, AccountsTypeOK, NEW r \in Request,
           NEW accounts \in [User -> Account \cup {Absent}], Write(r, accounts)
    PROVE  users' \in [User -> Account \cup {Absent}] /\ asked' \in [Request -> RequestState]
<1> DEFINE d(q) == asked[q].disturbed \/ (asked[q].pc # "idle" /\ accounts # users)
<1>1. \A q \in Request : asked[q] \in RequestState
    BY DEF AccountsTypeOK
<1>2. \A q \in Request : d(q) \in BOOLEAN
    BY Zenon, <1>1 DEF RequestState
<1> HIDE DEF d
<1>3. \A q \in Request : [asked[q] EXCEPT !.disturbed = d(q)] \in RequestState
    BY <1>1, <1>2 DEF RequestState
<1> USE DEF d
<1>4. asked' = [q \in Request |-> IF q = r THEN NoRequest
                                  ELSE [asked[q] EXCEPT !.disturbed = d(q)]]
    BY DEF Write
<1> QED
    BY <1>3, <1>4, NoRequestType DEF Write

LEMMA GoType ==
    ASSUME AccountsTypeOK, NEW r \in Request, NEW was \in Account \cup {Absent}, NEW b \in BOOLEAN,
           NEW seen \in SUBSET User,
           NEW pc \in {"insert", "countRole", "countActive", "update", "countOthers",
                       "delete", "admins", "commit"}
    PROVE  /\ [asked[r] EXCEPT !.pc = pc] \in RequestState
           /\ [asked[r] EXCEPT !.was = was, !.pc = pc, !.disturbed = b] \in RequestState
           /\ [asked[r] EXCEPT !.was = was, !.disturbed = b, !.pc = pc] \in RequestState
           /\ [asked[r] EXCEPT !.pc = pc, !.seen = seen] \in RequestState
<1>1. asked[r] \in RequestState
    BY DEF AccountsTypeOK
<1> QED
    BY <1>1 DEF RequestState

\* What a request carries at each place: a creation names a role, and an update
\* has read its user.
Carries(r) ==
    /\ asked[r].pc \in {"create", "insert"} => asked[r].set.role # "KEEP"
    /\ asked[r].pc \in {"countRole", "countActive", "update"} => asked[r].was \in Account

CarryInv == \A r \in Request : Carries(r)

LEMMA AccountsTypeInit == User # {} => (AccountsInit => AccountsTypeOK /\ CarryInv)
<1> SUFFICES ASSUME User # {}, AccountsInit PROVE AccountsTypeOK /\ CarryInv
    OBVIOUS
<1>1. users \in [User -> Account \cup {Absent}]
    <2>1. PICK A \in SUBSET User :
             users = [u \in User |-> IF u \in A THEN [role |-> "ADMIN", isActive |-> TRUE]
                                                ELSE Absent]
        BY Zenon DEF AccountsInit
    <2>2. [role |-> "ADMIN", isActive |-> TRUE] \in Account
        BY DEF Account
    <2> QED
        BY <2>1, <2>2
<1>2. asked \in [Request -> RequestState] /\ CarryInv
    BY NoRequestType DEF AccountsInit, CarryInv, Carries, NoRequest
<1> QED
    BY <1>1, <1>2 DEF AccountsInit, AccountsTypeOK

LEMMA CarryNext ==
    ASSUME User # {}
    PROVE  AccountsTypeOK /\ CarryInv /\ [AccountsNext]_accVars => CarryInv'
<1> SUFFICES ASSUME AccountsTypeOK, CarryInv, [AccountsNext]_accVars, NEW q \in Request PROVE Carries(q)'
    BY DEF CarryInv
<1>r. asked[q] \in RequestState /\ NoRequest.pc = "idle"
    BY DEF AccountsTypeOK, NoRequest
<1>0. CASE asked'[q] = asked[q] \/ asked'[q] = NoRequest
    BY <1>0, <1>r DEF Carries, CarryInv
<1> USE <1>r DEF AccountsTypeOK, CarryInv, Carries
<1>1. CASE AskCreate(q)
    BY <1>1 DEF AskCreate, BeginRequest, NoRequest
<1>2. CASE AskUpdate(q) \/ AskDelete(q) \/ AskInitialize(q) \/ AskStatus(q)
    <2>1. asked'[q].pc \in {"read", "find", "status", "persist"}
        <3>1. CASE AskUpdate(q)
            BY <3>1 DEF AskUpdate, BeginRequest, NoRequest
        <3>2. CASE AskDelete(q)
            BY <3>2 DEF AskDelete, BeginRequest, NoRequest
        <3>3. CASE AskInitialize(q)
            BY <3>3 DEF AskInitialize, BeginRequest, NoRequest
        <3>4. CASE AskStatus(q)
            BY <3>4 DEF AskStatus, BeginRequest, NoRequest
        <3> QED
            BY <1>2, <3>1, <3>2, <3>3, <3>4
    <2> QED
        BY <2>1
<1>3. CASE Create(q) \/ CountRole(q) \/ CountActive(q) \/ CountOthers(q) \/ CheckAdmins(q)
    BY <1>3, <1>0 DEF Create, CountRole, CountActive, CountOthers, CheckAdmins, Answer, Go,
        RequestAt, RequestState
<1>4. CASE Read(q)
    <2>1. users[asked[q].user] \in Account \cup {Absent}
        BY DEF RequestState
    <2> QED
        BY ZenonT(60), <2>1, <1>4, <1>0 DEF Read, Answer, Present, RequestState
<1>5. CASE Find(q) \/ CheckStatus(q)
    <2>1. CASE Answer(q)
        BY <2>1, <1>0 DEF Answer
    <2>2. CASE asked'[q].pc \in {"countOthers", "delete", "admins"}
        BY <2>2
    <2>3. CASE Find(q)
        <3>1. CASE Present(asked[q].user)
            <4>1. PICK pc \in {"countOthers", "delete"} :
                     asked'[q] = [asked[q] EXCEPT !.was = users[asked[q].user],
                                                  !.disturbed = FALSE, !.pc = pc]
                BY <2>3, <3>1 DEF Find
            <4> QED
                BY <4>1, <2>2 DEF RequestState
        <3> QED
            BY <2>1, <2>3, <3>1 DEF Find
    <2>4. CASE CheckStatus(q)
        <3>1. CASE ~configured
            <4>1. asked'[q] = [asked[q] EXCEPT !.pc = "admins",
                                               !.seen = {i.user : i \in installs}]
                BY <2>4, <3>1 DEF CheckStatus
            <4> QED
                BY <4>1, <2>2 DEF RequestState
        <3> QED
            BY <2>1, <2>4, <3>1 DEF CheckStatus
    <2> QED
        BY <1>5, <2>3, <2>4
<1>6. CASE Insert(q) \/ Update(q) \/ Delete(q) \/ Commit(q) \/ Persist(q)
    BY <1>6, <1>0 DEF Insert, Update, Delete, Commit, Persist, Answer, Write
<1>7. ASSUME NEW r \in Request, NEW accounts, r # q, Write(r, accounts) PROVE Carries(q)'
    BY <1>7 DEF Write, RequestState
<1>8. ASSUME NEW r \in Request, NEW request, r # q, asked' = [asked EXCEPT ![r] = request]
      PROVE  Carries(q)'
    BY <1>8, <1>0
<1>9. CASE UNCHANGED accVars
    BY <1>9, <1>0 DEF accVars
<1>10. ASSUME NEW r \in Request, r # q,
              \/ AskCreate(r) \/ Create(r) \/ AskUpdate(r) \/ Read(r) \/ CountRole(r)
              \/ CountActive(r) \/ AskDelete(r) \/ Find(r) \/ CountOthers(r)
              \/ AskInitialize(r) \/ CheckStatus(r) \/ CheckAdmins(r) \/ AskStatus(r)
              \/ Persist(r)
       PROVE  Carries(q)'
    BY <1>10, <1>0 DEF AskCreate, Create, AskUpdate, Read, CountRole, CountActive, AskDelete,
        Find, CountOthers, AskInitialize, CheckStatus, CheckAdmins, AskStatus, Persist, BeginRequest,
        Answer, Go
<1>11. ASSUME NEW r \in Request, r # q, Insert(r) \/ Update(r) \/ Delete(r) \/ Commit(r)
       PROVE  Carries(q)'
    BY <1>11, <1>7, <1>8 DEF Insert, Update, Delete, Commit, Answer
<1> QED
    BY <1>1, <1>2, <1>3, <1>4, <1>5, <1>6, <1>9, <1>10, <1>11 DEF AccountsNext

LEMMA AccountsTypeNext ==
    ASSUME User # {}
    PROVE  AccountsTypeOK /\ CarryInv /\ [AccountsNext]_accVars => AccountsTypeOK'
<1> SUFFICES ASSUME AccountsTypeOK, CarryInv, [AccountsNext]_accVars PROVE AccountsTypeOK'
    OBVIOUS
<1>n. NoRequest \in RequestState
    BY NoRequestType
<1>r. \A r \in Request : asked[r] \in RequestState
    BY DEF AccountsTypeOK
<1>1. ASSUME NEW r \in Request, AskCreate(r) \/ AskUpdate(r) \/ AskDelete(r)
                                \/ AskInitialize(r) \/ AskStatus(r)
      PROVE  AccountsTypeOK'
    <2>1. PICK request \in RequestState : BeginRequest(r, request)
        <3>1. \A u \in User, s \in Input :
                 /\ [NoRequest EXCEPT !.pc = "create", !.user = u, !.set = s] \in RequestState
                 /\ [NoRequest EXCEPT !.pc = "read", !.user = u, !.set = s] \in RequestState
            BY <1>n DEF RequestState
        <3>2a. \A u \in User :
                 /\ [NoRequest EXCEPT !.pc = "find", !.user = u] \in RequestState
                 /\ [NoRequest EXCEPT !.pc = "status", !.user = u] \in RequestState
            BY <1>n DEF RequestState
        <3>2. [NoRequest EXCEPT !.pc = "persist"] \in RequestState
            BY <1>n DEF RequestState
        <3>4. CASE AskCreate(r)
            BY <3>1, <3>4 DEF AskCreate
        <3>5. CASE AskUpdate(r)
            BY <3>1, <3>5 DEF AskUpdate
        <3>6. CASE AskDelete(r)
            BY <3>2a, <3>6 DEF AskDelete
        <3>7. CASE AskInitialize(r)
            BY <3>2a, <3>7 DEF AskInitialize
        <3>8. CASE AskStatus(r)
            BY <3>2, <3>8 DEF AskStatus
        <3> QED
            BY <1>1, <3>4, <3>5, <3>6, <3>7, <3>8
    <2> QED
        BY <1>1, <2>1, AskType
        DEF AccountsTypeOK, AskCreate, AskUpdate, AskDelete, AskInitialize, AskStatus
<1>2. ASSUME NEW r \in Request, Create(r) \/ CountRole(r) \/ CountActive(r)
                                \/ CountOthers(r) \/ CheckAdmins(r) \/ Persist(r)
      PROVE  AccountsTypeOK'
    <2>1. asked' \in [Request -> RequestState]
        <3>1. CASE Answer(r)
            BY <1>n, <3>1 DEF Answer, AccountsTypeOK
        <3>2. ASSUME NEW pc \in {"insert", "countActive", "update", "delete", "commit"},
                     Go(r, pc)
              PROVE  asked' \in [Request -> RequestState]
            <4>1. [asked[r] EXCEPT !.pc = pc] \in RequestState
                BY <1>r DEF RequestState
            <4> QED
                BY <3>2, <4>1 DEF Go, AccountsTypeOK
        <3> QED
            BY <1>2, <3>1, <3>2
            DEF Create, CountRole, CountActive, CountOthers, CheckAdmins, Persist
    <2> QED
        BY <1>2, <2>1
        DEF AccountsTypeOK, Create, CountRole, CountActive, CountOthers, CheckAdmins, Persist
<1>3. ASSUME NEW r \in Request, Read(r) \/ Find(r) \/ CheckStatus(r) PROVE AccountsTypeOK'
    <2>1. PICK request \in RequestState : asked' = [asked EXCEPT ![r] = request]
        <3>1. asked[r].user \in User
            BY <1>r DEF RequestState
        <3>2. users[asked[r].user] \in Account \cup {Absent}
            BY <3>1 DEF AccountsTypeOK
        <3>3. {i.user : i \in installs} \in SUBSET User
            BY DEF AccountsTypeOK
        <3>4. CASE Answer(r)
            BY <1>n, <3>4 DEF Answer
        <3>5. CASE Read(r)
            BY <3>2, <3>4, <3>5, GoType DEF Read
        <3>6. CASE Find(r)
            BY <3>2, <3>4, <3>6, GoType DEF Find
        <3>7. CASE CheckStatus(r)
            BY <3>2, <3>3, <3>4, <3>7, GoType DEF CheckStatus
        <3> QED
            BY <1>3, <3>5, <3>6, <3>7
    <2> QED
        BY <1>3, <2>1 DEF AccountsTypeOK, Read, Find, CheckStatus
<1>4. ASSUME NEW r \in Request, Insert(r) \/ Update(r) \/ Delete(r) \/ Commit(r)
      PROVE  AccountsTypeOK'
    <2>1. /\ asked[r].user \in User /\ asked[r].set \in Input
          /\ asked[r].was \in Account \cup {Absent} /\ asked[r].seen \in SUBSET User
        BY <1>r DEF RequestState
    <2>2. CASE Answer(r) /\ UNCHANGED users /\ UNCHANGED installs
        BY <1>4, <1>n, <2>2 DEF Answer, AccountsTypeOK, Insert, Update, Delete, Commit
    <2>3. CASE Insert(r) /\ ~Present(asked[r].user)
        <3>1. [role |-> asked[r].set.role, isActive |-> asked[r].set.isActive = "TRUE"]
                 \in Account
            <4>1. asked[r].set.role \in {"ADMIN", "VIEWER"}
                BY <2>1, <2>3 DEF Insert, RequestAt, CarryInv, Carries, Input
            <4> QED
                BY <4>1 DEF Account
        <3>2. /\ users' \in [User -> Account \cup {Absent}]
              /\ asked' \in [Request -> RequestState]
            BY <2>1, <2>3, <3>1, WriteType DEF Insert, AccountsTypeOK
        <3> QED
            BY <2>3, <3>2 DEF Insert, AccountsTypeOK
    <2>4. CASE Update(r) /\ Present(asked[r].user)
        <3>1. Merged(asked[r].set, asked[r].was) \in Account
            <4>1. asked[r].was \in Account
                BY <2>4 DEF Update, RequestAt, CarryInv, Carries
            <4> QED
                BY <2>1, <4>1 DEF Input, Account, Merged
        <3> QED
            BY <2>1, <2>4, <3>1, WriteType DEF Update, AccountsTypeOK
    <2>5. CASE Delete(r)
        BY <2>1, <2>5, WriteType DEF Delete, AccountsTypeOK
    <2>6. CASE Commit(r) /\ ~Present(asked[r].user)
        <3>1. [role |-> "ADMIN", isActive |-> TRUE] \in Account
            BY DEF Account
        <3>2. /\ users' \in [User -> Account \cup {Absent}]
              /\ asked' \in [Request -> RequestState]
            BY <2>1, <2>6, <3>1, WriteType DEF Commit, AccountsTypeOK
        <3>3. installs' \subseteq [user : User, seen : SUBSET User] /\ configured' = TRUE
            BY <2>1, <2>6 DEF Commit, AccountsTypeOK
        <3> QED
            BY <2>6, <3>2, <3>3 DEF Commit, AccountsTypeOK
    <2> QED
        BY <1>4, <2>2, <2>3, <2>4, <2>5, <2>6 DEF Insert, Update, Commit
<1>5. CASE UNCHANGED accVars
    BY <1>5 DEF accVars, AccountsTypeOK
<1> QED
    BY <1>1, <1>2, <1>3, <1>4, <1>5 DEF AccountsNext

\* The accounts, the requests on them and the installations keep their types,
\* for any number of users and requests.
THEOREM AccountsTypeCorrect ==
    ASSUME User # {}
    PROVE  AccountsSpec => []AccountsTypeOK
<1>1. AccountsInit => AccountsTypeOK /\ CarryInv
    BY AccountsTypeInit
<1>2. AccountsTypeOK /\ CarryInv /\ [AccountsNext]_accVars => (AccountsTypeOK /\ CarryInv)'
    BY AccountsTypeNext, CarryNext
<1> QED
    BY <1>1, <1>2, PTL DEF AccountsSpec

-----------------------------------------------------------------------------
(* The installation.                                                       *)

\* Once there is an installation the status says so for ever, so whoever goes
\* on from the status has seen none.
SeenInv ==
    /\ installs # {} => configured
    /\ \A i \in installs : i.seen = {}
    /\ \A r \in Request : asked[r].seen = {}

LEMMA SeenInit == AccountsInit => SeenInv
BY DEF AccountsInit, SeenInv, NoRequest

LEMMA SeenNext == AccountsTypeOK /\ SeenInv /\ [AccountsNext]_accVars => SeenInv'
<1> SUFFICES ASSUME AccountsTypeOK, SeenInv, [AccountsNext]_accVars PROVE SeenInv'
    OBVIOUS
<1>n. NoRequest.seen = {}
    BY DEF NoRequest
<1> USE <1>n DEF SeenInv, AccountsTypeOK
<1>1. ASSUME NEW r \in Request, NEW request, request.seen = {},
             asked' = [asked EXCEPT ![r] = request]
      PROVE  \A q \in Request : asked'[q].seen = {}
    BY <1>1
<1>2. ASSUME NEW r \in Request, NEW accounts, Write(r, accounts)
      PROVE  \A q \in Request : asked'[q].seen = {}
    BY <1>2 DEF Write, RequestState
<1>3. ASSUME NEW r \in Request, AskCreate(r) \/ AskUpdate(r) \/ AskDelete(r)
                                \/ AskInitialize(r) \/ AskStatus(r)
      PROVE  SeenInv'
    <2>1. PICK request : request.seen = {} /\ asked' = [asked EXCEPT ![r] = request]
        <3>1. CASE AskCreate(r)
            BY <3>1 DEF AskCreate, BeginRequest, NoRequest
        <3>2. CASE AskUpdate(r)
            BY <3>2 DEF AskUpdate, BeginRequest, NoRequest
        <3>3. CASE AskDelete(r)
            BY <3>3 DEF AskDelete, BeginRequest, NoRequest
        <3>4. CASE AskInitialize(r)
            BY <3>4 DEF AskInitialize, BeginRequest, NoRequest
        <3>5. CASE AskStatus(r)
            BY <3>5 DEF AskStatus, BeginRequest, NoRequest
        <3> QED
            BY <1>3, <3>1, <3>2, <3>3, <3>4, <3>5
    <2> QED
        BY <1>1, <1>3, <2>1 DEF AskCreate, AskUpdate, AskDelete, AskInitialize, AskStatus
<1>4. ASSUME NEW r \in Request, Answer(r) PROVE \A q \in Request : asked'[q].seen = {}
    BY <1>4 DEF Answer
<1>5. ASSUME NEW r \in Request, NEW pc, Go(r, pc)
      PROVE  \A q \in Request : asked'[q].seen = {}
    BY <1>5 DEF Go, RequestState
<1>6. ASSUME NEW r \in Request, Create(r) \/ CountRole(r) \/ CountActive(r)
                                \/ CountOthers(r) \/ CheckAdmins(r) \/ Persist(r)
      PROVE  SeenInv'
    BY <1>4, <1>5, <1>6
    DEF Create, CountRole, CountActive, CountOthers, CheckAdmins, Persist
<1>7. ASSUME NEW r \in Request, Read(r) \/ Find(r) PROVE SeenInv'
    <2>1. CASE Present(asked[r].user)
        <3>1. PICK was, pc :
                 \/ asked' = [asked EXCEPT ![r] = [asked[r] EXCEPT !.was = was, !.pc = pc,
                                                                   !.disturbed = FALSE]]
                 \/ asked' = [asked EXCEPT ![r] = [asked[r] EXCEPT !.was = was,
                                                         !.disturbed = FALSE, !.pc = pc]]
            BY <1>7, <2>1 DEF Read, Find
        <3>2. asked[r] \in RequestState
            OBVIOUS
        <3>3. \A q \in Request : asked'[q].seen = {}
            BY <1>1, <3>1, <3>2 DEF RequestState
        <3> QED
            BY <1>7, <3>3 DEF Read, Find
    <2> QED
        BY <1>4, <1>7, <2>1 DEF Read, Find
<1>8. ASSUME NEW r \in Request, CheckStatus(r) PROVE SeenInv'
    <2>1. CASE configured
        BY <1>4, <1>8, <2>1 DEF CheckStatus
    <2>2. CASE ~configured
        <3>1. {i.user : i \in installs} = {}
            BY <2>2
        <3>2. asked' = [asked EXCEPT ![r] = [asked[r] EXCEPT !.pc = "admins", !.seen = {}]]
            BY <1>8, <2>2, <3>1 DEF CheckStatus
        <3>3. \A q \in Request : asked'[q].seen = {}
            BY <1>1, <3>2 DEF RequestState
        <3> QED
            BY <1>8, <3>3 DEF CheckStatus
    <2> QED
        BY <2>1, <2>2
<1>9. ASSUME NEW r \in Request, Insert(r) \/ Update(r) \/ Delete(r) PROVE SeenInv'
    BY <1>2, <1>4, <1>9 DEF Insert, Update, Delete
<1>10. ASSUME NEW r \in Request, Commit(r) PROVE SeenInv'
    BY <1>2, <1>4, <1>10 DEF Commit
<1>11. CASE UNCHANGED accVars
    BY <1>11 DEF accVars
<1> QED
    BY <1>3, <1>6, <1>7, <1>8, <1>9, <1>10, <1>11 DEF AccountsNext

-----------------------------------------------------------------------------
(* The last administrator.                                                 *)

Others(r) == ActiveAdmins \ {asked[r].user}

\* What a request has found out holds as long as nobody writes to the users:
\* its user is as it was read, and where it would take an administrator away
\* there is another one.
Guarded(r) ==
    ~asked[r].disturbed =>
        /\ asked[r].pc \in {"countRole", "countActive", "update", "countOthers", "delete"} =>
              users[asked[r].user] = asked[r].was
        /\ asked[r].pc \in {"countActive", "update"} /\ Demotes(r) => Others(r) # {}
        /\ asked[r].pc = "update" /\ Deactivates(r) => Others(r) # {}
        /\ asked[r].pc = "delete" /\ asked[r].was.role = "ADMIN" => Others(r) # {}

GuardInv == \A r \in Request : Guarded(r)

LEMMA NoRequestGuarded ==
    ASSUME NEW r \in Request, asked'[r] = NoRequest
    PROVE  Guarded(r)'
BY DEF Guarded, NoRequest

LEMMA GuardInit == AccountsInit => GuardInv
BY DEF AccountsInit, GuardInv, Guarded, NoRequest

\* A step that writes to no user leaves the other requests as they are, ...
LEMMA QuietStep ==
    ASSUME AccountsTypeOK, GuardInv, NEW r \in Request, NEW request,
           asked' = [asked EXCEPT ![r] = request], UNCHANGED users, Guarded(r)'
    PROVE  GuardInv'
<1> SUFFICES ASSUME NEW q \in Request, q # r PROVE Guarded(q)'
    BY DEF GuardInv
<1>1. asked'[q] = asked[q] /\ ActiveAdmins' = ActiveAdmins
    BY DEF AccountsTypeOK, ActiveAdmins, Admins
<1> QED
    BY <1>1 DEF GuardInv, Guarded, Others, Demotes, Deactivates

\* ... and one that does tells them.
LEMMA WriteStep ==
    ASSUME AccountsTypeOK, GuardInv, NEW r \in Request, NEW accounts, Write(r, accounts)
    PROVE  GuardInv'
<1> SUFFICES ASSUME NEW q \in Request PROVE Guarded(q)'
    BY DEF GuardInv
<1>1. asked[q] \in RequestState
    BY DEF AccountsTypeOK
<1>2. CASE q = r
    BY <1>2, NoRequestGuarded DEF Write
<1>3. CASE q # r /\ accounts = users
    <2>1. asked'[q] = asked[q] /\ users' = users
        BY <1>1, <1>3 DEF Write, RequestState
    <2>2. ActiveAdmins' = ActiveAdmins
        BY <2>1 DEF ActiveAdmins, Admins
    <2> QED
        BY <2>1, <2>2 DEF GuardInv, Guarded, Others, Demotes, Deactivates
<1>4. CASE q # r /\ accounts # users
    <2>1. asked'[q].pc = asked[q].pc /\ (asked[q].pc # "idle" => asked'[q].disturbed)
        BY <1>1, <1>4 DEF Write, RequestState
    <2> QED
        BY <2>1 DEF Guarded
<1> QED
    BY <1>2, <1>3, <1>4

\* More than one active administrator: one besides the user in question.
LEMMA SecondAdmin ==
    ASSUME IsFiniteSet(User), NEW u, ~OnlyAdmin
    PROVE  ActiveAdmins \ {u} # {}
<1>1. Cardinality({u}) = 1 /\ IsFiniteSet({u})
    BY FS_Singleton
<1>2. ActiveAdmins \subseteq {u} =>
        Cardinality(ActiveAdmins) <= 1 /\ Cardinality(ActiveAdmins) \in Nat
    BY <1>1, FS_Subset, FS_CardinalityType
<1> QED
    BY <1>2 DEF OnlyAdmin

LEMMA GuardNext ==
    ASSUME IsFiniteSet(User)
    PROVE  AccountsTypeOK /\ GuardInv /\ [AccountsNext]_accVars => GuardInv'
<1> SUFFICES ASSUME AccountsTypeOK, GuardInv, [AccountsNext]_accVars PROVE GuardInv'
    OBVIOUS
<1>r. \A r \in Request : asked[r] \in RequestState
    BY DEF AccountsTypeOK
<1>1. ASSUME NEW r \in Request, Answer(r), UNCHANGED users PROVE GuardInv'
    <2>1. asked'[r] = NoRequest
        BY <1>1 DEF Answer, AccountsTypeOK
    <2> QED
        BY <1>1, <2>1, NoRequestGuarded, QuietStep DEF Answer
<1>2. ASSUME NEW r \in Request, NEW request, asked' = [asked EXCEPT ![r] = request],
             UNCHANGED users,
             request.pc \in {"create", "insert", "read", "find", "status", "persist",
                             "admins", "commit"}
      PROVE  GuardInv'
    <2>1. Guarded(r)'
        BY <1>2 DEF Guarded, AccountsTypeOK
    <2> QED
        BY <1>2, <2>1, QuietStep
<1>3. ASSUME NEW r \in Request, AskCreate(r) \/ AskUpdate(r) \/ AskDelete(r)
                                \/ AskInitialize(r) \/ AskStatus(r)
      PROVE  GuardInv'
    <2>1. /\ asked' = [asked EXCEPT ![r] = asked'[r]]
          /\ asked'[r].pc \in {"create", "read", "find", "status", "persist"}
        <3>1. CASE AskCreate(r)
            BY <3>1 DEF AskCreate, BeginRequest, NoRequest, AccountsTypeOK
        <3>2. CASE AskUpdate(r)
            BY <3>2 DEF AskUpdate, BeginRequest, NoRequest, AccountsTypeOK
        <3>3. CASE AskDelete(r)
            BY <3>3 DEF AskDelete, BeginRequest, NoRequest, AccountsTypeOK
        <3>4. CASE AskInitialize(r)
            BY <3>4 DEF AskInitialize, BeginRequest, NoRequest, AccountsTypeOK
        <3>5. CASE AskStatus(r)
            BY <3>5 DEF AskStatus, BeginRequest, NoRequest, AccountsTypeOK
        <3> QED
            BY <1>3, <3>1, <3>2, <3>3, <3>4, <3>5
    <2>2. UNCHANGED users
        BY <1>3 DEF AskCreate, AskUpdate, AskDelete, AskInitialize, AskStatus
    <2> QED
        BY <1>2, <2>1, <2>2
<1>4. ASSUME NEW r \in Request, NEW pc \in {"insert", "commit"}, Go(r, pc), UNCHANGED users
      PROVE  GuardInv'
    <2>1. [asked[r] EXCEPT !.pc = pc].pc = pc
        BY <1>r DEF RequestState
    <2> QED
        BY <1>2, <1>4, <2>1 DEF Go
<1>5. ASSUME NEW r \in Request, Create(r) \/ CheckAdmins(r) \/ Persist(r) PROVE GuardInv'
    BY <1>1, <1>4, <1>5 DEF Create, CheckAdmins, Persist
<1>6. ASSUME NEW r \in Request, CheckStatus(r) PROVE GuardInv'
    <2>1. CASE ~configured
        <3>1. asked' = [asked EXCEPT ![r] =
                 [asked[r] EXCEPT !.pc = "admins", !.seen = {i.user : i \in installs}]]
            BY <1>6, <2>1 DEF CheckStatus
        <3>2. [asked[r] EXCEPT !.pc = "admins", !.seen = {i.user : i \in installs}].pc
                 = "admins"
            BY <1>r DEF RequestState
        <3> QED
            BY <1>2, <1>6, <3>1, <3>2 DEF CheckStatus
    <2> QED
        BY <1>1, <1>6, <2>1 DEF CheckStatus
<1>7. ASSUME NEW r \in Request, Read(r) PROVE GuardInv'
    <2>1. CASE Present(asked[r].user)
        <3>1. asked' = [asked EXCEPT ![r] =
                 [asked[r] EXCEPT !.was = users[asked[r].user], !.pc = "countRole",
                                  !.disturbed = FALSE]]
            BY <1>7, <2>1 DEF Read
        <3>2. /\ asked'[r].pc = "countRole" /\ asked'[r].user = asked[r].user
              /\ asked'[r].was = users[asked[r].user]
            BY <1>r, <3>1 DEF RequestState, AccountsTypeOK
        <3>3. UNCHANGED users
            BY <1>7 DEF Read
        <3>4. Guarded(r)'
            BY <3>2, <3>3 DEF Guarded
        <3> QED
            BY <3>1, <3>3, <3>4, QuietStep
    <2> QED
        BY <1>1, <1>7, <2>1 DEF Read
<1>8. ASSUME NEW r \in Request, CountRole(r) PROVE GuardInv'
    <2>1. CASE Go(r, "countActive") /\ ~(Demotes(r) /\ OnlyAdmin)
        <3>1. asked' = [asked EXCEPT ![r] = [asked[r] EXCEPT !.pc = "countActive"]]
            BY <2>1 DEF Go
        <3>2. /\ asked'[r].pc = "countActive" /\ asked'[r].user = asked[r].user
              /\ asked'[r].was = asked[r].was /\ asked'[r].set = asked[r].set
              /\ asked'[r].disturbed = asked[r].disturbed
            BY <1>r, <3>1 DEF RequestState, AccountsTypeOK
        <3>3. UNCHANGED users /\ asked[r].pc = "countRole"
            BY <1>8 DEF CountRole, RequestAt
        <3>4. Demotes(r)' => Demotes(r)
            BY <3>2 DEF Demotes
        <3>5. ActiveAdmins' = ActiveAdmins
            BY <3>3 DEF ActiveAdmins, Admins
        <3>6. Guarded(r)'
            BY <2>1, <3>2, <3>3, <3>4, <3>5, SecondAdmin DEF Guarded, GuardInv, Others
        <3> QED
            BY <3>1, <3>3, <3>6, QuietStep
    <2> QED
        BY <1>1, <1>8, <2>1 DEF CountRole
<1>9. ASSUME NEW r \in Request, CountActive(r) PROVE GuardInv'
    <2>1. CASE Go(r, "update") /\ ~(Deactivates(r) /\ ActiveAdmins \subseteq {asked[r].user})
        <3>1. asked' = [asked EXCEPT ![r] = [asked[r] EXCEPT !.pc = "update"]]
            BY <2>1 DEF Go
        <3>2. /\ asked'[r].pc = "update" /\ asked'[r].user = asked[r].user
              /\ asked'[r].was = asked[r].was /\ asked'[r].set = asked[r].set
              /\ asked'[r].disturbed = asked[r].disturbed
            BY <1>r, <3>1 DEF RequestState, AccountsTypeOK
        <3>3. UNCHANGED users /\ asked[r].pc = "countActive"
            BY <1>9 DEF CountActive, RequestAt
        <3>4. (Demotes(r)' => Demotes(r)) /\ (Deactivates(r)' => Deactivates(r))
            BY <3>2 DEF Demotes, Deactivates
        <3>5. ActiveAdmins' = ActiveAdmins
            BY <3>3 DEF ActiveAdmins, Admins
        <3>6. Guarded(r)'
            BY <2>1, <3>2, <3>3, <3>4, <3>5 DEF Guarded, GuardInv, Others
        <3> QED
            BY <3>1, <3>3, <3>6, QuietStep
    <2> QED
        BY <1>1, <1>9, <2>1 DEF CountActive
<1>10. ASSUME NEW r \in Request, Find(r) PROVE GuardInv'
    <2>1. CASE Present(asked[r].user)
        <3> DEFINE to == IF users[asked[r].user].role = "ADMIN" THEN "countOthers" ELSE "delete"
        <3>1. asked' = [asked EXCEPT ![r] =
                 [asked[r] EXCEPT !.was = users[asked[r].user], !.disturbed = FALSE,
                                  !.pc = to]]
            BY <1>10, <2>1 DEF Find
        <3>2. /\ asked'[r].pc = to /\ asked'[r].user = asked[r].user
              /\ asked'[r].was = users[asked[r].user]
            BY <1>r, <3>1 DEF RequestState, AccountsTypeOK
        <3>3. UNCHANGED users
            BY <1>10 DEF Find
        <3>4. Guarded(r)'
            BY <3>2, <3>3 DEF Guarded
        <3> QED
            BY <3>1, <3>3, <3>4, QuietStep
    <2> QED
        BY <1>1, <1>10, <2>1 DEF Find
<1>11. ASSUME NEW r \in Request, CountOthers(r) PROVE GuardInv'
    <2>1. CASE Go(r, "delete") /\ ~(ActiveAdmins \subseteq {asked[r].user})
        <3>1. asked' = [asked EXCEPT ![r] = [asked[r] EXCEPT !.pc = "delete"]]
            BY <2>1 DEF Go
        <3>2. /\ asked'[r].pc = "delete" /\ asked'[r].user = asked[r].user
              /\ asked'[r].was = asked[r].was /\ asked'[r].disturbed = asked[r].disturbed
            BY <1>r, <3>1 DEF RequestState, AccountsTypeOK
        <3>3. UNCHANGED users /\ asked[r].pc = "countOthers"
            BY <1>11 DEF CountOthers, RequestAt
        <3>4. ActiveAdmins' = ActiveAdmins
            BY <3>3 DEF ActiveAdmins, Admins
        <3>5. Guarded(r)'
            BY <2>1, <3>2, <3>3, <3>4 DEF Guarded, GuardInv, Others
        <3> QED
            BY <3>1, <3>3, <3>5, QuietStep
    <2> QED
        BY <1>1, <1>11, <2>1 DEF CountOthers
<1>12. ASSUME NEW r \in Request, Insert(r) \/ Update(r) \/ Delete(r) \/ Commit(r)
       PROVE  GuardInv'
    BY <1>1, <1>12, WriteStep DEF Insert, Update, Delete, Commit
<1>13. CASE UNCHANGED accVars
    <2>1. asked' = asked /\ ActiveAdmins' = ActiveAdmins /\ users' = users
        BY <1>13 DEF accVars, ActiveAdmins, Admins
    <2> QED
        BY <2>1 DEF GuardInv, Guarded, Others, Demotes, Deactivates
<1> QED
    BY <1>3, <1>5, <1>6, <1>7, <1>8, <1>9, <1>10, <1>11, <1>12, <1>13 DEF AccountsNext

\* One step: a request that nobody disturbed does not take the last one.
LEMMA LastAdminStep ==
    ASSUME AccountsTypeOK, GuardInv, AccountsNext, ActiveAdmins # {}, ActiveAdmins' = {}
    PROVE  \E r \in Request : asked[r].disturbed /\ asked'[r] = NoRequest
<1> DEFINE Active(a) == a.role = "ADMIN" /\ a.isActive
<1>0. ActiveAdmins = {u \in User : Active(users[u])}
    BY DEF ActiveAdmins, Admins
<1>1. PICK r \in Request : \/ Insert(r) /\ ~Present(asked[r].user)
                           \/ Update(r) /\ Present(asked[r].user)
                           \/ Delete(r)
                           \/ Commit(r) /\ ~Present(asked[r].user)
    <2>1. users' # users
        BY DEF ActiveAdmins, Admins
    <2>2. PICK r \in Request : Insert(r) \/ Update(r) \/ Delete(r) \/ Commit(r)
        BY <2>1 DEF AccountsNext, AskCreate, Create, AskUpdate, Read, CountRole, CountActive,
            AskDelete, Find, CountOthers, AskInitialize, CheckStatus, CheckAdmins,
            AskStatus, Persist
    <2>3. Insert(r) => ~Present(asked[r].user)
        BY <2>1 DEF Insert
    <2>4. Update(r) => Present(asked[r].user)
        BY <2>1 DEF Update
    <2>5. Commit(r) => ~Present(asked[r].user)
        BY <2>1 DEF Commit
    <2> QED
        BY <2>2, <2>3, <2>4, <2>5
<1>2. asked[r] \in RequestState /\ asked[r].user \in User
    BY DEF AccountsTypeOK, RequestState
<1>3. PICK accounts : Write(r, accounts) /\ \E a : accounts = [users EXCEPT ![asked[r].user] = a]
    BY <1>1 DEF Insert, Update, Delete, Commit
<1>4. asked'[r] = NoRequest /\ \A u \in User \ {asked[r].user} : users'[u] = users[u]
    BY <1>2, <1>3 DEF Write, AccountsTypeOK
<1>5. \A u \in User : ~Active(users'[u])
    BY DEF ActiveAdmins, Admins
<1>6. Others(r) = {} /\ Active(users[asked[r].user])
    BY <1>0, <1>4, <1>5 DEF Others
<1>7. Present(asked[r].user)
    BY <1>6 DEF Present, Absent
<1>8. SUFFICES ASSUME ~asked[r].disturbed PROVE FALSE
    BY <1>4
<1>9. Guarded(r)
    BY DEF GuardInv
<1>10. CASE Delete(r)
    BY <1>6, <1>8, <1>9, <1>10 DEF Delete, RequestAt, Guarded
<1>11. CASE Update(r)
    <2>1. asked[r].pc = "update" /\ users[asked[r].user] = asked[r].was
        BY <1>8, <1>9, <1>11 DEF Update, RequestAt, Guarded
    <2>2. asked[r].set.role # "VIEWER" /\ asked[r].set.isActive # "FALSE"
        BY <1>6, <1>8, <1>9, <2>1 DEF Guarded, Demotes, Deactivates
    <2>3. asked[r].set.role \in {"ADMIN", "KEEP"} /\ asked[r].set.isActive \in {"TRUE", "KEEP"}
        BY <1>2, <2>2 DEF RequestState, Input
    <2>4. Active(Merged(asked[r].set, asked[r].was))
        BY <1>6, <2>1, <2>3 DEF Merged
    <2>5. users'[asked[r].user] = Merged(asked[r].set, asked[r].was)
        BY <1>2, <1>7, <1>11 DEF Update, Write, AccountsTypeOK
    <2> QED
        BY <1>2, <1>5, <2>4, <2>5
<1> QED
    BY <1>1, <1>7, <1>10, <1>11

\* For any finite number of users and any number of requests: the last active
\* administrator goes only by a request during which another one wrote
\* (updateUser:159, :168, deleteUser:269), and two installations overlap
\* (initialize:46).
THEOREM AccountsGuardedAlways ==
    ASSUME User # {}, IsFiniteSet(User)
    PROVE  AccountsSpec => AccountsGuarded
<1> DEFINE Held == ActiveAdmins # {} /\ ActiveAdmins' = {} =>
              \E r \in Request : asked[r].disturbed /\ asked'[r] = NoRequest
<1>1. AccountsInit => AccountsTypeOK /\ CarryInv /\ SeenInv /\ GuardInv
    BY AccountsTypeInit, SeenInit, GuardInit
<1>2. AccountsTypeOK /\ CarryInv /\ SeenInv /\ GuardInv /\ [AccountsNext]_accVars
         => (AccountsTypeOK /\ CarryInv /\ SeenInv /\ GuardInv)'
    BY AccountsTypeNext, CarryNext, SeenNext, GuardNext
<1>3. AccountsTypeOK /\ GuardInv /\ [AccountsNext]_accVars => [Held]_accVars
    BY LastAdminStep DEF accVars
<1>4. SeenInv => OneInstallation
    BY DEF SeenInv, OneInstallation
<1> QED
    BY <1>1, <1>2, <1>3, <1>4, PTL DEF AccountsSpec, AccountsGuarded, LastAdmin

=============================================================================
