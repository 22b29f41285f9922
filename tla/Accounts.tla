------------------------------ MODULE Accounts ------------------------------
(***************************************************************************)
(* The accounts: createUser, updateUser and deleteUser (users.service.ts)  *)
(* with their guard of the last administrator, and the installation:       *)
(* getSetupStatus and initialize (setup.service.ts).                       *)
(*                                                                         *)
(* An action is one database call with the code that follows its answer.   *)
(* initialize is one READ COMMITTED transaction: each of its reads sees    *)
(* what is committed by then, and its writes appear at the commit.  Of a   *)
(* user only the role and isActive are kept; passwords, e-mail addresses   *)
(* and the change log are left out.  Who may send the requests is not      *)
(* modelled: any user may be the one who asks.                             *)
(***************************************************************************)
EXTENDS Integers, FiniteSets

CONSTANTS
    Request,       \* requests under way at once
    User,          \* user names
    MaxAsked       \* bound: requests ever made

VARIABLES
    users,         \* database: User, absent or with role and isActive
    configured,    \* database: INSTALLATION_STATUS is CONFIGURED
    asked,         \* the requests under way
    asks,
    installs       \* what the properties remember of initialize

accVars == <<users, configured, asked, asks, installs>>

Account == [role : {"ADMIN", "VIEWER"}, isActive : BOOLEAN]
Absent  == [role |-> "NONE", isActive |-> FALSE]
Present(u) == users[u] # Absent
Admins  == {u \in User : users[u].role = "ADMIN"}
ActiveAdmins == {u \in Admins : users[u].isActive}

\* set is the input of updateUser or createUser, was what it read; "KEEP"
\* stands for a field the input leaves out.   disturbed: another request wrote
\* to the users since this one began to read.   seen: the installations that
\* were committed when initialize began to read.
Input == [role : {"ADMIN", "VIEWER", "KEEP"}, isActive : {"TRUE", "FALSE", "KEEP"}]
RequestState ==
    [pc : {"idle", "create", "insert", "read", "countRole", "countActive", "update",
           "find", "countOthers", "delete", "status", "admins", "commit", "persist"},
     user : User, set : Input, was : Account \cup {Absent},
     disturbed : BOOLEAN, seen : SUBSET User]
NoRequest == [pc |-> "idle", user |-> CHOOSE u \in User : TRUE,
              set |-> [role |-> "KEEP", isActive |-> "KEEP"], was |-> Absent,
              disturbed |-> FALSE, seen |-> {}]

AccountsTypeOK ==
    /\ users \in [User -> Account \cup {Absent}]
    /\ configured \in BOOLEAN
    /\ asked \in [Request -> RequestState]
    /\ asks \in Nat
    /\ installs \subseteq [user : User, seen : SUBSET User]

\* A new installation, or one older than the setting with its administrator.
AccountsInit ==
    /\ users \in {[u \in User |-> IF u \in A THEN [role |-> "ADMIN", isActive |-> TRUE]
                                             ELSE Absent] : A \in SUBSET User}
    /\ configured = FALSE
    /\ asked = [r \in Request |-> NoRequest]
    /\ asks = 0
    /\ installs = {}

RequestAt(r, pc) == asked[r].pc = pc
BeginRequest(r, request) ==
    /\ RequestAt(r, "idle") /\ asks < MaxAsked
    /\ asks' = asks + 1
    /\ asked' = [asked EXCEPT ![r] = request]
Go(r, pc) == asked' = [asked EXCEPT ![r].pc = pc]
Answer(r) == asked' = [asked EXCEPT ![r] = NoRequest]

\* The request ends with a write the others may not have seen.
Write(r, accounts) ==
    /\ users' = accounts
    /\ asked' = [q \in Request |->
          IF q = r THEN NoRequest
          ELSE [asked[q] EXCEPT !.disturbed = @ \/ (asked[q].pc # "idle" /\ accounts # users)]]

-----------------------------------------------------------------------------
(* createUser                                                              *)

AskCreate(r) ==
    /\ \E u \in User, s \in Input :
          /\ s.role # "KEEP" /\ s.isActive # "KEEP"
          /\ BeginRequest(r, [NoRequest EXCEPT !.pc = "create", !.user = u, !.set = s])
    /\ UNCHANGED <<users, configured, installs>>

Create(r) ==
    /\ RequestAt(r, "create")
    /\ IF Present(asked[r].user) THEN Answer(r) ELSE Go(r, "insert")
    /\ UNCHANGED <<users, configured, asks, installs>>

\* The name is unique in the database too.
Insert(r) ==
    /\ RequestAt(r, "insert")
    /\ IF Present(asked[r].user)
       THEN Answer(r) /\ UNCHANGED users
       ELSE Write(r, [users EXCEPT ![asked[r].user] =
                [role |-> asked[r].set.role, isActive |-> asked[r].set.isActive = "TRUE"]])
    /\ UNCHANGED <<configured, asks, installs>>

-----------------------------------------------------------------------------
(* updateUser                                                              *)

AskUpdate(r) ==
    /\ \E u \in User, s \in Input :
          BeginRequest(r, [NoRequest EXCEPT !.pc = "read", !.user = u, !.set = s])
    /\ UNCHANGED <<users, configured, installs>>

Demotes(r)     == asked[r].was.role = "ADMIN" /\ asked[r].set.role = "VIEWER"
Deactivates(r) == asked[r].was.role = "ADMIN" /\ asked[r].set.isActive = "FALSE"

Read(r) ==
    /\ RequestAt(r, "read")
    /\ IF Present(asked[r].user)
       THEN asked' = [asked EXCEPT ![r] =
              [@ EXCEPT !.was = users[asked[r].user], !.pc = "countRole", !.disturbed = FALSE]]
       ELSE Answer(r)
    /\ UNCHANGED <<users, configured, asks, installs>>

\* Mutant: every administrator counts, active or not.
OnlyAdminOfAll == Cardinality(Admins) <= 1

OnlyAdmin == Cardinality(ActiveAdmins) <= 1

CountRole(r) ==
    /\ RequestAt(r, "countRole")
    /\ IF Demotes(r) /\ OnlyAdmin THEN Answer(r) ELSE Go(r, "countActive")
    /\ UNCHANGED <<users, configured, asks, installs>>

CountActive(r) ==
    /\ RequestAt(r, "countActive")
    /\ IF Deactivates(r) /\ ActiveAdmins \subseteq {asked[r].user}
       THEN Answer(r) ELSE Go(r, "update")
    /\ UNCHANGED <<users, configured, asks, installs>>

\* Mutant: a role that is left out is written too.
MergedRole(s, was) ==
    [role     |-> s.role,
     isActive |-> IF s.isActive = "KEEP" THEN was.isActive ELSE s.isActive = "TRUE"]

\* What the input leaves out is written back as it was read.
Merged(s, was) ==
    [role     |-> IF s.role = "KEEP" THEN was.role ELSE s.role,
     isActive |-> IF s.isActive = "KEEP" THEN was.isActive ELSE s.isActive = "TRUE"]

Update(r) ==
    /\ RequestAt(r, "update")
    /\ IF Present(asked[r].user)
       THEN Write(r, [users EXCEPT ![asked[r].user] = Merged(asked[r].set, asked[r].was)])
       ELSE Answer(r) /\ UNCHANGED users
    /\ UNCHANGED <<configured, asks, installs>>

-----------------------------------------------------------------------------
(* deleteUser, asked for by another user                                   *)

AskDelete(r) ==
    /\ \E u \in User, by \in User :
          /\ by # u /\ Present(by)
          /\ BeginRequest(r, [NoRequest EXCEPT !.pc = "find", !.user = u])
    /\ UNCHANGED <<users, configured, installs>>

Find(r) ==
    /\ RequestAt(r, "find")
    /\ IF Present(asked[r].user)
       THEN asked' = [asked EXCEPT ![r] =
              [@ EXCEPT !.was = users[asked[r].user], !.disturbed = FALSE,
                        !.pc = IF users[asked[r].user].role = "ADMIN"
                               THEN "countOthers" ELSE "delete"]]
       ELSE Answer(r)
    /\ UNCHANGED <<users, configured, asks, installs>>

CountOthers(r) ==
    /\ RequestAt(r, "countOthers")
    /\ IF ActiveAdmins \subseteq {asked[r].user} THEN Answer(r) ELSE Go(r, "delete")
    /\ UNCHANGED <<users, configured, asks, installs>>

Delete(r) ==
    /\ RequestAt(r, "delete")
    /\ Write(r, [users EXCEPT ![asked[r].user] = Absent])
    /\ UNCHANGED <<configured, asks, installs>>

-----------------------------------------------------------------------------
(* The installation                                                        *)

AskInitialize(r) ==
    /\ \E u \in User : BeginRequest(r, [NoRequest EXCEPT !.pc = "status", !.user = u])
    /\ UNCHANGED <<users, configured, installs>>

\* Mutant: the status is not looked at.
CheckStatusNever(r) ==
    /\ RequestAt(r, "status")
    /\ asked' = [asked EXCEPT ![r] =
          [@ EXCEPT !.pc = "commit", !.seen = {i.user : i \in installs}]]
    /\ UNCHANGED <<users, configured, asks, installs>>

CheckStatus(r) ==
    /\ RequestAt(r, "status")
    /\ IF configured THEN Answer(r)
       ELSE asked' = [asked EXCEPT ![r] =
              [@ EXCEPT !.pc = "admins", !.seen = {i.user : i \in installs}]]
    /\ UNCHANGED <<users, configured, asks, installs>>

CheckAdmins(r) ==
    /\ RequestAt(r, "admins")
    /\ IF Admins # {} \/ Present(asked[r].user) THEN Answer(r) ELSE Go(r, "commit")
    /\ UNCHANGED <<users, configured, asks, installs>>

\* Nothing in the database stands against a second administrator.
Commit(r) ==
    /\ RequestAt(r, "commit")
    /\ LET u == asked[r].user
       IN  IF Present(u)
           THEN Answer(r) /\ UNCHANGED <<users, configured, installs>>
           ELSE /\ Write(r, [users EXCEPT ![u] = [role |-> "ADMIN", isActive |-> TRUE]])
                /\ configured' = TRUE
                /\ installs' = installs \cup {[user |-> u, seen |-> asked[r].seen]}
    /\ UNCHANGED asks

\* getSetupStatus of an installation older than the setting.
AskStatus(r) ==
    /\ ~configured /\ Admins # {}
    /\ BeginRequest(r, [NoRequest EXCEPT !.pc = "persist"])
    /\ UNCHANGED <<users, configured, installs>>

Persist(r) ==
    /\ RequestAt(r, "persist")
    /\ configured' = TRUE
    /\ Answer(r)
    /\ UNCHANGED <<users, asks, installs>>

AccountsNext ==
    \E r \in Request :
       \/ AskCreate(r) \/ Create(r) \/ Insert(r)
       \/ AskUpdate(r) \/ Read(r) \/ CountRole(r) \/ CountActive(r) \/ Update(r)
       \/ AskDelete(r) \/ Find(r) \/ CountOthers(r) \/ Delete(r)
       \/ AskInitialize(r) \/ CheckStatus(r) \/ CheckAdmins(r) \/ Commit(r)
       \/ AskStatus(r) \/ Persist(r)

AccountsSpec == AccountsInit /\ [][AccountsNext]_accVars

-----------------------------------------------------------------------------
(* Properties                                                              *)

\* The last active administrator is lost only to a request during which
\* another one wrote to the users: each request alone is refused, whatever it
\* asks for (updateUser:158, deleteUser:269).
LastAdmin ==
    [][ActiveAdmins # {} /\ ActiveAdmins' = {} =>
          \E r \in Request : asked[r].disturbed /\ asked'[r] = NoRequest]_accVars

\* Of two installations that both made their administrator, neither was there
\* when the other began: what the transaction's own checks (setup:48) promise
\* and all they do.
OneInstallation ==
    \A i, j \in installs : i.user \notin j.seen

\* The two promises the guards of the accounts make.
AccountsGuarded == LastAdmin /\ []OneInstallation

=============================================================================
