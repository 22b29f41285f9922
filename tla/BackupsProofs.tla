--------------------------- MODULE BackupsProofs ---------------------------
(***************************************************************************)
(* Theorems about Backups for any number of requests, names, tables, days  *)
(* and failures.                                                           *)
(***************************************************************************)
EXTENDS Backups, FiniteSetTheorems, TLAPS

-----------------------------------------------------------------------------
(* Rows, files and calls as functions.                                     *)

LEMMA StatusType ==
    ASSUME rows \in [DOMAIN rows -> Row], NEW i \in DOMAIN rows,
           NEW s \in Status, SetStatus(i, s)
    PROVE  /\ rows' \in [DOMAIN rows' -> Row]
           /\ DOMAIN rows' = DOMAIN rows
           /\ rows'[i].status = s
           /\ \A j \in DOMAIN rows : /\ rows'[j].name = rows[j].name
                                     /\ rows'[j].type = rows[j].type
                                     /\ rows'[j].isProtected = rows[j].isProtected
                                     /\ j # i => rows'[j] = rows[j]
BY DEF SetStatus, Row

LEMMA IdleType == IdleCall \in CallState
<1>1. <<"auto-backup", 0>> \in Name
    BY DEF Name
<1>2. Blank \in [Table -> Nat \cup {Unread}]
    BY DEF Blank, Unread
<1> QED
    BY <1>1, <1>2 DEF IdleCall, CallState, Type

-----------------------------------------------------------------------------
(* Type correctness.                                                       *)

\* What is written to disk has been read from every table, and what is
\* written to the database comes from a dump.
ReadInv ==
    \A c \in Call :
        /\ calls[c].pc = "write" => calls[c].read \in Dump
        /\ (calls[c].op = "restore" /\ calls[c].pc # "load") => calls[c].payload \in Dump
        /\ calls[c].pc \in {"mark", "transaction"} => calls[c].payload \in Dump

LEMMA TypeInit == Init => TypeOK /\ ReadInv
<1> SUFFICES ASSUME Init PROVE TypeOK /\ ReadInv
    OBVIOUS
<1>1. TypeOK
    BY IdleType DEF Init, TypeOK, History
<1>2. ReadInv
    BY DEF Init, ReadInv, IdleCall
<1> QED
    BY <1>1, <1>2

Place == {"idle", "insert", "export", "write", "complete", "fail",
          "unlink", "drop", "list",
          "load", "mark", "transaction", "restored", "restoreFailed"}

\* Of a call's locals only its place and its queue change.
SameLocals(c) ==
    /\ calls'[c].op = calls[c].op
    /\ calls'[c].name = calls[c].name
    /\ calls'[c].type = calls[c].type
    /\ calls'[c].isProtected = calls[c].isProtected
    /\ calls'[c].id = calls[c].id
    /\ calls'[c].read = calls[c].read
    /\ calls'[c].target = calls[c].target
    /\ calls'[c].payload = calls[c].payload

LEMMA GotoType ==
    ASSUME calls \in [Call -> CallState], NEW c \in Call, NEW pc \in Place,
           Goto(c, pc)
    PROVE  /\ calls' \in [Call -> CallState]
           /\ calls'[c].pc = pc /\ calls'[c].queue = calls[c].queue
           /\ SameLocals(c)
           /\ \A d \in Call \ {c} : calls'[d] = calls[d]
BY DEF Goto, CallState, Place, SameLocals

LEMMA EndType ==
    ASSUME calls \in [Call -> CallState], NEW c \in Call, End(c)
    PROVE  /\ calls' \in [Call -> CallState]
           /\ calls'[c] = IdleCall
           /\ \A d \in Call \ {c} : calls'[d] = calls[d]
BY IdleType DEF End

LEMMA AfterCreationType ==
    ASSUME calls \in [Call -> CallState], NEW c \in Call, AfterCreation(c)
    PROVE  /\ calls' \in [Call -> CallState]
           /\ \/ calls'[c] = IdleCall
              \/ /\ calls'[c].pc \in {"mark", "list"}
                 /\ calls'[c].queue = calls[c].queue
                 /\ SameLocals(c)
           /\ \A d \in Call \ {c} : calls'[d] = calls[d]
<1>1. CASE calls[c].op = "restore"
    BY <1>1, GotoType DEF AfterCreation, Place
<1>2. CASE calls[c].op = "check"
    BY <1>2, GotoType DEF AfterCreation, Place
<1>3. CASE calls[c].op \notin {"restore", "check"}
    BY <1>3, EndType DEF AfterCreation
<1> QED
    BY <1>1, <1>2, <1>3

LEMMA DoneType ==
    ASSUME calls \in [Call -> CallState], NEW c \in Call,
           NEW v \in calls[c].queue, Done(c, v)
    PROVE  /\ calls' \in [Call -> CallState]
           /\ \/ calls'[c] = IdleCall
              \/ /\ calls'[c].pc = "unlink"
                 /\ calls'[c].queue = calls[c].queue \ {v}
                 /\ SameLocals(c)
           /\ \A d \in Call \ {c} : calls'[d] = calls[d]
<1>1. CASE calls[c].queue = {v}
    BY <1>1, EndType DEF Done
<1>2. CASE calls[c].queue # {v}
    <2> DEFINE r == [calls[c] EXCEPT !.queue = calls[c].queue \ {v}, !.pc = "unlink"]
    <2>1. /\ r \in CallState
          /\ r.pc = "unlink" /\ r.queue = calls[c].queue \ {v}
          /\ r.op = calls[c].op /\ r.name = calls[c].name
          /\ r.type = calls[c].type /\ r.isProtected = calls[c].isProtected
          /\ r.id = calls[c].id /\ r.read = calls[c].read
          /\ r.target = calls[c].target /\ r.payload = calls[c].payload
        <3>1. calls[c] \in CallState
            OBVIOUS
        <3> QED
            BY <3>1 DEF CallState
    <2>2. calls' = [calls EXCEPT ![c] = r]
        BY <1>2 DEF Done
    <2> HIDE DEF r
    <2> QED
        BY <2>1, <2>2 DEF SameLocals
<1> QED
    BY <1>1, <1>2

LEMMA PreName == TypeOK => <<"pre-restore", nextId>> \in Name
BY DEF TypeOK, Name

LEMMA NameOfType == ASSUME TypeOK, NEW c \in Call PROVE NameOf(c) \in Name
BY PreName DEF TypeOK, NameOf, CallState

LEMMA RestoreType ==
    ASSUME TypeOK, NEW payload \in Dump
    PROVE  Restore(payload) \in [Table -> Nat]
BY DEF TypeOK, Restore, Dump

LEMMA VictimType ==
    ASSUME TypeOK, NEW i \in DOMAIN rows
    PROVE  /\ [id |-> i, name |-> rows[i].name] \in Victim
           /\ i \in Nat /\ i # nextId /\ i < nextId
           /\ rows[i] \in Row
BY DEF TypeOK, Victim, Row

LEMMA ListEffect ==
    ASSUME TypeOK, NEW c \in Call, ListScheduled(c), ~End(c)
    PROVE  \E q \in SUBSET Victim :
              /\ calls' = [calls EXCEPT ![c] =
                             [@ EXCEPT !.pc = "unlink", !.queue = q]]
              /\ \A v \in q : /\ v.id \in DOMAIN rows
                             /\ v.name = rows[v.id].name
                             /\ ~rows[v.id].isProtected
<1> DEFINE victims == Excess(Prunable)
           queue == {[id |-> i, name |-> rows[i].name] : i \in victims}
<1>1. \A i \in victims : i \in DOMAIN rows /\ ~rows[i].isProtected
    BY DEF Excess, Prunable
<1>2. queue \in SUBSET Victim
    BY <1>1, VictimType
<1>3. calls' = [calls EXCEPT ![c] = [@ EXCEPT !.pc = "unlink", !.queue = queue]]
    BY DEF ListScheduled
<1>4. \A v \in queue : /\ v.id \in DOMAIN rows
                       /\ v.name = rows[v.id].name
                       /\ ~rows[v.id].isProtected
    BY <1>1
<1> HIDE DEF queue
<1> QED
    BY <1>2, <1>3, <1>4

LEMMA TypeNext == TypeOK /\ ReadInv /\ [Next]_vars => TypeOK'
<1> SUFFICES ASSUME TypeOK, ReadInv, [Next]_vars PROVE TypeOK'
    OBVIOUS
<1> USE DEF TypeOK, bounds, At
<1>1. ASSUME NEW c \in Call, BeginCreate(c) PROVE TypeOK'
    <2>1. PICK n \in ManualName, p \in BOOLEAN :
             calls' = [calls EXCEPT ![c] =
                 [IdleCall EXCEPT !.pc = "insert", !.op = "create",
                                  !.name = <<"backup", n>>, !.isProtected = p]]
        BY <1>1 DEF BeginCreate
    <2>2. <<"backup", n>> \in Name
        BY DEF Name
    <2>3. calls' \in [Call -> CallState]
        BY <2>1, <2>2, IdleType DEF CallState
    <2> QED
        BY <1>1, <2>3 DEF BeginCreate, Request
<1>2. ASSUME NEW c \in Call, Insert(c) PROVE TypeOK'
    <2>1. NameOf(c) \in Name
        BY NameOfType
    <2>2. calls' \in [Call -> CallState]
        <3>1. [calls[c] EXCEPT !.pc = "export", !.id = nextId, !.name = NameOf(c)]
                 \in CallState
            BY ZenonT(60), <2>1 DEF CallState
        <3> QED
            BY <1>2, <3>1 DEF Insert
    <2>3. [name |-> NameOf(c), type |-> calls[c].type,
           status |-> "RUNNING", isProtected |-> calls[c].isProtected,
           createdAt |-> day] \in Row
        BY <2>1 DEF Row, Status, CallState
    <2>4. /\ rows' \in [DOMAIN rows' -> Row]
          /\ DOMAIN rows' = DOMAIN rows \cup {nextId}
        BY <1>2, <2>3 DEF Insert, With
    <2>5. history' \in History
        <3>1. calls[c].today \in Nat /\ nextId \in Nat
            BY DEF CallState
        <3> DEFINE made == IF DeletionOf(NameOf(c)) THEN {nextId} ELSE {}
                   dated == IF calls[c].type = "SCHEDULED"
                            THEN {<<nextId, calls[c].today>>} ELSE {}
        <3>2. made \in SUBSET Nat /\ dated \in SUBSET (Nat \X Nat)
            BY <3>1
        <3>3. history' = [history EXCEPT !.raced = @ \cup made,
                                         !.daily = @ \cup dated]
            BY <1>2 DEF Insert
        <3> HIDE DEF made, dated
        <3> QED
            BY <3>2, <3>3 DEF History
    <2> QED
        BY <1>2, <2>2, <2>4, <2>5 DEF Insert
<1>3. ASSUME NEW c \in Call, InsertFails(c) PROVE TypeOK'
    BY <1>3, EndType DEF InsertFails, Fault
<1>4. ASSUME NEW c \in Call, NEW t \in Table, ReadTable(c, t) PROVE TypeOK'
    <2>1. calls' \in [Call -> CallState]
        <3>1. calls[c] \in CallState
            OBVIOUS
        <3>2. [calls[c].read EXCEPT ![t] = data[t]] \in [Table -> Nat \cup {Unread}]
            BY <3>1 DEF CallState
        <3>3. PICK pc \in {"write", "export"} :
                 calls' = [calls EXCEPT ![c] =
                    [@ EXCEPT !.read = [calls[c].read EXCEPT ![t] = data[t]], !.pc = pc]]
            BY <1>4 DEF ReadTable
        <3>4. [calls[c] EXCEPT !.read = [calls[c].read EXCEPT ![t] = data[t]], !.pc = pc]
                 \in CallState
            BY <3>1, <3>2 DEF CallState
        <3> QED
            BY <3>3, <3>4
    <2> QED
        BY <1>4, <2>1 DEF ReadTable
<1>5. ASSUME NEW c \in Call, WriteFile(c) PROVE TypeOK'
    <2>1. calls' \in [Call -> CallState]
        BY <1>5, GotoType DEF WriteFile, Place
    <2>2. /\ calls[c].name \in Name
          /\ [by |-> calls[c].id, tables |-> calls[c].read] \in File
        BY <1>5 DEF WriteFile, ReadInv, File, CallState
    <2>3. /\ files' \in [DOMAIN files' -> File]
          /\ DOMAIN files' = DOMAIN files \cup {calls[c].name}
        BY <1>5, <2>2 DEF WriteFile, With
    <2> QED
        BY <1>5, <2>1, <2>2, <2>3 DEF WriteFile
<1>6. ASSUME NEW c \in Call, Complete(c) PROVE TypeOK'
    <2>1. calls' \in [Call -> CallState]
        BY <1>6, AfterCreationType DEF Complete
    <2>2. rows' \in [DOMAIN rows' -> Row] /\ DOMAIN rows' = DOMAIN rows
        BY <1>6, StatusType DEF Complete, Status
    <2>3. history' \in History
        BY <1>6 DEF Complete, History, CallState
    <2> QED
        BY <1>6, <2>1, <2>2, <2>3 DEF Complete
<1>7. ASSUME NEW c \in Call, CreationThrows(c) PROVE TypeOK'
    <2>1. calls' \in [Call -> CallState]
        BY <1>7, GotoType DEF CreationThrows, Place
    <2>2. /\ calls[c].name \in Name
          /\ [by |-> calls[c].id, tables |-> Blank] \in File
        BY DEF File, CallState
    <2>3. \/ files' = files
          \/ files' = With(files, calls[c].name,
                           [by |-> calls[c].id, tables |-> Blank])
        BY <1>7 DEF CreationThrows
    <2>4. files' \in [DOMAIN files' -> File] /\ DOMAIN files' \subseteq Name
        BY <2>2, <2>3 DEF With
    <2> QED
        BY <1>7, <2>1, <2>4 DEF CreationThrows, Fault
<1>8. ASSUME NEW c \in Call, CreationFails(c) PROVE TypeOK'
    <2>1. calls' \in [Call -> CallState]
        BY <1>8, EndType DEF CreationFails
    <2>2. rows' \in [DOMAIN rows' -> Row] /\ DOMAIN rows' = DOMAIN rows
        BY <1>8, StatusType DEF CreationFails, Status
    <2> QED
        BY <1>8, <2>1, <2>2 DEF CreationFails, Fault
<1>9. ASSUME NEW i \in DOMAIN rows, Protect(i) PROVE TypeOK'
    <2>1. rows' \in [DOMAIN rows' -> Row] /\ DOMAIN rows' = DOMAIN rows
        BY <1>9 DEF Protect, Row
    <2>2. i \in Nat
        BY VictimType
    <2>3. PICK added \in SUBSET Nat, freed \in SUBSET Nat :
             history' = [history EXCEPT !.raced = @ \cup added,
                                        !.lifted = @ \cup freed]
        BY <1>9, <2>2 DEF Protect
    <2>4. history' \in History
        BY <2>3 DEF History
    <2> QED
        BY <1>9, <2>1, <2>4 DEF Protect, Request
<1>10. ASSUME NEW c \in Call, BeginDelete(c) PROVE TypeOK'
    <2>1. PICK i \in DOMAIN rows :
             calls' = [calls EXCEPT ![c] =
                [IdleCall EXCEPT !.pc = "unlink", !.op = "delete",
                                 !.queue = {[id |-> i, name |-> rows[i].name]}]]
        BY <1>10 DEF BeginDelete
    <2>2. calls' \in [Call -> CallState]
        BY <2>1, VictimType, IdleType DEF CallState
    <2> QED
        BY <1>10, <2>2 DEF BeginDelete, Request
<1>11. ASSUME NEW c \in Call, Unlink(c) PROVE TypeOK'
    <2>1. calls' \in [Call -> CallState]
        BY <1>11, GotoType DEF Unlink, Place
    <2>2. files' \in [DOMAIN files' -> File] /\ DOMAIN files' \subseteq Name
        BY <1>11 DEF Unlink, Without
    <2> QED
        BY <1>11, <2>1, <2>2 DEF Unlink
<1>12. ASSUME NEW c \in Call, UnlinkFails(c) PROVE TypeOK'
    <2>1. calls' \in [Call -> CallState]
        BY <1>12, GotoType, DoneType DEF UnlinkFails, Place
    <2> QED
        BY <1>12, <2>1 DEF UnlinkFails, Fault
<1>13. ASSUME NEW c \in Call, Drop(c) PROVE TypeOK'
    <2>1. PICK v \in calls[c].queue :
             /\ rows' = Without(rows, v.id)
             /\ history' = [history EXCEPT !.cut =
                              @ \cup (IF Making(v.id) THEN {v.id} ELSE {})]
             /\ Done(c, v)
        BY <1>13 DEF Drop
    <2>2. calls' \in [Call -> CallState]
        BY <2>1, DoneType
    <2>3. /\ rows' \in [DOMAIN rows' -> Row]
          /\ DOMAIN rows' = DOMAIN rows \ {v.id}
        BY <2>1 DEF Without
    <2>4. v \in Victim
        BY DEF CallState
    <2>5. history' \in History
        BY <2>1, <2>4 DEF History, Victim
    <2> QED
        BY <1>13, <2>2, <2>3, <2>5 DEF Drop
<1>14. ASSUME NEW c \in Call, DropFails(c) PROVE TypeOK'
    <2>1. PICK v \in calls[c].queue :
             /\ Done(c, v)
             /\ history' = [history EXCEPT !.stranded = @ \cup {v.id}]
        BY <1>14 DEF DropFails
    <2>2. calls' \in [Call -> CallState]
        BY <2>1, DoneType
    <2>3. v \in Victim
        BY DEF CallState
    <2>4. history' \in History
        BY <2>1, <2>3 DEF History, Victim
    <2> QED
        BY <1>14, <2>2, <2>4 DEF DropFails, Fault
<1>15. ASSUME NEW c \in Call, BeginRestore(c) PROVE TypeOK'
    <2>1. PICK i \in DOMAIN rows :
             calls' = [calls EXCEPT ![c] =
                [IdleCall EXCEPT !.pc = "load", !.op = "restore",
                                 !.target = i, !.name = rows[i].name]]
        BY <1>15 DEF BeginRestore
    <2>2. rows[i].name \in Name /\ i \in Nat
        BY VictimType DEF Row
    <2>3. calls' \in [Call -> CallState]
        BY <2>1, <2>2, IdleType DEF CallState
    <2> QED
        BY <1>15, <2>3 DEF BeginRestore, Request
<1>16. ASSUME NEW c \in Call, Load(c) PROVE TypeOK'
    <2>1. CASE End(c)
        BY <1>16, <2>1, EndType DEF Load
    <2>2. CASE ~End(c)
        <3>1. Loadable(calls[c].name)
            BY <1>16, <2>2 DEF Load
        <3>2. files[calls[c].name].tables \in Dump
            BY <3>1 DEF Loadable, File
        <3>3. PICK skip \in BOOLEAN :
                calls' = [calls EXCEPT ![c] =
                   [@ EXCEPT !.payload = files[calls[c].name].tables,
                             !.pc = IF skip THEN "mark" ELSE "insert",
                             !.type = IF skip THEN calls[c].type ELSE "PRE_RESTORE",
                             !.isProtected = ~skip]]
            BY <1>16, <2>2 DEF Load
        <3>4. calls[c] \in CallState
            OBVIOUS
        <3>5. [calls[c] EXCEPT !.payload = files[calls[c].name].tables,
                               !.pc = IF skip THEN "mark" ELSE "insert",
                               !.type = IF skip THEN calls[c].type ELSE "PRE_RESTORE",
                               !.isProtected = ~skip] \in CallState
            BY <3>2, <3>4 DEF CallState, Type
        <3>6. calls' \in [Call -> CallState]
            BY <3>3, <3>5
        <3> QED
            BY <1>16, <3>6 DEF Load
    <2> QED
        BY <2>1, <2>2
<1>17. ASSUME NEW c \in Call, Mark(c) PROVE TypeOK'
    <2>1. calls' \in [Call -> CallState]
        BY <1>17, GotoType, EndType DEF Mark, Place
    <2>2. rows' \in [DOMAIN rows' -> Row] /\ DOMAIN rows' = DOMAIN rows
        BY <1>17, StatusType DEF Mark, Status
    <2> QED
        BY <1>17, <2>1, <2>2 DEF Mark, Fault
<1>18. ASSUME NEW c \in Call, Transact(c) PROVE TypeOK'
    <2>1. calls' \in [Call -> CallState]
        BY <1>18, GotoType DEF Transact, Place
    <2>2. data' \in [Table -> Nat]
        <3>1. calls[c].payload \in Dump
            BY <1>18 DEF Transact, ReadInv
        <3> QED
            BY <1>18, <3>1, RestoreType DEF Transact
    <2>3. history' \in History
        BY <1>18 DEF Transact, History, CallState
    <2> QED
        BY <1>18, <2>1, <2>2, <2>3 DEF Transact
<1>19. ASSUME NEW c \in Call, RestoreThrows(c) PROVE TypeOK'
    <2>1. calls' \in [Call -> CallState]
        BY <1>19, GotoType DEF RestoreThrows, Place
    <2> QED
        BY <1>19, <2>1 DEF RestoreThrows, Fault
<1>20. ASSUME NEW c \in Call, Restored(c) PROVE TypeOK'
    <2>1. calls' \in [Call -> CallState]
        BY <1>20, EndType DEF Restored
    <2>2. rows' \in [DOMAIN rows' -> Row] /\ DOMAIN rows' = DOMAIN rows
        BY <1>20, StatusType DEF Restored, Status
    <2> QED
        BY <1>20, <2>1, <2>2 DEF Restored
<1>21. ASSUME NEW c \in Call, RestoreFails(c) PROVE TypeOK'
    <2>1. calls' \in [Call -> CallState]
        BY <1>21, EndType DEF RestoreFails
    <2>2. rows' \in [DOMAIN rows' -> Row] /\ DOMAIN rows' = DOMAIN rows
        BY <1>21, StatusType DEF RestoreFails, Status
    <2> QED
        BY <1>21, <2>1, <2>2 DEF RestoreFails, Fault
<1>22. ASSUME NEW c \in Call, BeginCheck(c) PROVE TypeOK'
    <2>1. <<"auto-backup", day>> \in Name
        BY DEF Name
    <2>2. calls' \in [Call -> CallState]
        BY <1>22, <2>1, IdleType DEF BeginCheck, DailyName, CallState, Type
    <2> QED
        BY <1>22, <2>2 DEF BeginCheck, Request
<1>23. ASSUME NEW c \in Call, ListScheduled(c) PROVE TypeOK'
    <2>1. CASE End(c)
        BY <1>23, <2>1, EndType DEF ListScheduled
    <2>2. CASE ~End(c)
        <3>1. PICK q \in SUBSET Victim :
                 calls' = [calls EXCEPT ![c] =
                             [@ EXCEPT !.pc = "unlink", !.queue = q]]
            BY <1>23, <2>2, ListEffect
        <3> DEFINE new == [calls[c] EXCEPT !.pc = "unlink", !.queue = q]
        <3>2. new \in CallState
            <4>1. calls[c] \in CallState
                OBVIOUS
            <4> QED
                BY ONLY <4>1, q \in SUBSET Victim DEF CallState
        <3>3. calls' = [calls EXCEPT ![c] = new]
            BY <3>1
        <3>4. calls' \in [Call -> CallState]
            <4> HIDE DEF new
            <4> QED
                BY <3>2, <3>3
        <3> QED
            BY <1>23, <3>4 DEF ListScheduled
    <2> QED
        BY <2>1, <2>2
<1>24. ASSUME NEW t \in Table, WriteRecord(t) PROVE TypeOK'
    BY <1>24 DEF WriteRecord, Request
<1>25. CASE NextDay
    BY <1>25 DEF NextDay
<1>26. CASE Crash
    <2>1. calls' \in [Call -> CallState]
        BY <1>26, IdleType DEF Crash
    <2>2. history' \in History
        BY <1>26, VictimType DEF Crash, History
    <2> QED
        BY <1>26, <2>1, <2>2 DEF Crash, Fault
<1>27. CASE UNCHANGED vars
    BY <1>27 DEF vars
<1> QED
    BY <1>1, <1>2, <1>3, <1>4, <1>5, <1>6, <1>7, <1>8, <1>9, <1>10, <1>11,
       <1>12, <1>13, <1>14, <1>15, <1>16, <1>17, <1>18, <1>19, <1>20, <1>21,
       <1>22, <1>23, <1>24, <1>25, <1>26, <1>27 DEF Next, Step

-----------------------------------------------------------------------------
(* What a step does to the calls.                                          *)

LEMMA OthersKept ==
    ASSUME TypeOK, NEW c \in Call, Step(c)
    PROVE  \A d \in Call \ {c} : calls'[d] = calls[d]
<1>1. PICK r : calls' = [calls EXCEPT ![c] = r]
    <2>1. CASE \E p : Goto(c, p)
        BY <2>1 DEF Goto
    <2>2. CASE End(c)
        BY <2>2 DEF End
    <2>3. ASSUME NEW v \in calls[c].queue, Done(c, v)
          PROVE  \E r : calls' = [calls EXCEPT ![c] = r]
        BY <2>2, <2>3 DEF Done
    <2>4. CASE AfterCreation(c)
        <3>1. Goto(c, "mark") \/ Goto(c, "list") \/ End(c)
            BY <2>4 DEF AfterCreation
        <3> QED
            BY <3>1, <2>1, <2>2
    <2> QED
        BY <2>1, <2>2, <2>3, <2>4
        DEF Step, BeginCreate, Insert, InsertFails, ReadTable, WriteFile,
            Complete, CreationThrows, CreationFails, BeginDelete, Unlink,
            UnlinkFails, Drop, DropFails, BeginRestore, Load, Mark, Transact,
            RestoreThrows, Restored, RestoreFails, BeginCheck, ListScheduled
<1> QED
    BY SMTT(40), <1>1 DEF TypeOK

LEMMA ReadNext == TypeOK /\ ReadInv /\ [Next]_vars => ReadInv'
<1> SUFFICES ASSUME TypeOK, ReadInv, [Next]_vars PROVE ReadInv'
    OBVIOUS
<1> DEFINE Fine(d) ==
       /\ calls[d].pc = "write" => calls[d].read \in Dump
       /\ (calls[d].op = "restore" /\ calls[d].pc # "load") =>
             calls[d].payload \in Dump
       /\ calls[d].pc \in {"mark", "transaction"} => calls[d].payload \in Dump
<1>1. \A d \in Call : Fine(d)
    BY DEF ReadInv
<1>2. ASSUME NEW c \in Call, Step(c) PROVE ReadInv'
    <2> SUFFICES Fine(c)'
        <3>1. ASSUME Fine(c)', NEW d \in Call PROVE Fine(d)'
            <4>1. CASE d = c
                BY <3>1, <4>1
            <4>2. CASE d # c
                BY <1>1, <1>2, <4>2, OthersKept
            <4> QED
                BY <4>1, <4>2
        <3> QED
            BY <3>1 DEF ReadInv
    <2> USE DEF At
    <2>1. calls \in [Call -> CallState] /\ calls[c] \in CallState
        BY DEF TypeOK
    <2>2. IdleCall.pc = "idle" /\ IdleCall.op = "none"
        BY DEF IdleCall
    <2>3. ASSUME NEW d \in Call, End(d) PROVE Fine(d)'
        BY <2>1, <2>2, <2>3, EndType
    <2>4. ASSUME NEW p \in Place \ {"write", "mark", "transaction"}, Goto(c, p),
                 calls[c].pc # "load"
          PROVE  Fine(c)'
        BY <1>1, <2>1, <2>4, GotoType DEF SameLocals
    <2>5. ASSUME NEW v \in calls[c].queue, Done(c, v), calls[c].pc # "load"
          PROVE  Fine(c)'
        BY <1>1, <2>1, <2>2, <2>5, DoneType DEF SameLocals
    <2>6. CASE BeginCreate(c) \/ BeginDelete(c) \/ BeginRestore(c) \/ BeginCheck(c)
        <3>1. \/ calls'[c].op \in {"create", "delete", "check"} /\
                 calls'[c].pc \in {"insert", "unlink"}
              \/ calls'[c].pc = "load"
            BY ZenonT(60), <2>1, <2>6
            DEF BeginCreate, BeginDelete, BeginRestore, BeginCheck, IdleCall
        <3> QED
            BY <3>1
    <2>7. CASE Insert(c)
        <3>1. /\ calls'[c].op = calls[c].op /\ calls'[c].pc = "export"
              /\ calls'[c].payload = calls[c].payload
            BY <2>1, <2>7 DEF Insert, CallState
        <3> QED
            BY <1>1, <2>7, <3>1 DEF Insert
    <2>8. ASSUME NEW t \in Table, ReadTable(c, t) PROVE Fine(c)'
        <3> DEFINE read == [calls[c].read EXCEPT ![t] = data[t]]
        <3>1. PICK pc : /\ calls' = [calls EXCEPT ![c] =
                                       [@ EXCEPT !.read = read, !.pc = pc]]
                        /\ pc \in {"write", "export"}
                        /\ pc = "write" => \A u \in Table \ {t} :
                                              calls[c].read[u] # Unread
            BY <2>8 DEF ReadTable
        <3>2. pc = "write" => read \in Dump
            BY <2>1, <3>1 DEF Dump, CallState, TypeOK
        <3>3. /\ calls'[c].op = calls[c].op /\ calls'[c].pc = pc
              /\ calls'[c].read = read /\ calls'[c].payload = calls[c].payload
            BY <2>1, <3>1 DEF CallState
        <3> HIDE DEF read
        <3> QED
            BY <1>1, <2>8, <3>1, <3>2, <3>3 DEF ReadTable
    <2>9. CASE Complete(c)
        <3>1. CASE calls[c].op = "restore"
            BY <1>1, <2>1, <2>9, <3>1, GotoType
            DEF Complete, AfterCreation, SameLocals, Place
        <3>2. CASE calls[c].op # "restore"
            BY <2>1, <2>2, <2>9, <3>2, GotoType, EndType
            DEF Complete, AfterCreation, SameLocals, Place
        <3> QED
            BY <3>1, <3>2
    <2>10. CASE Load(c)
        <3>1. CASE ~End(c)
            <4>1. PICK skip \in BOOLEAN :
                    calls' = [calls EXCEPT ![c] =
                       [@ EXCEPT !.payload = files[calls[c].name].tables,
                                 !.pc = IF skip THEN "mark" ELSE "insert",
                                 !.type = IF skip THEN calls[c].type ELSE "PRE_RESTORE",
                                 !.isProtected = ~skip]]
                BY <2>10, <3>1 DEF Load
            <4>2. /\ calls'[c].payload = files[calls[c].name].tables
                  /\ calls'[c].pc \in {"mark", "insert"}
                BY <2>1, <4>1 DEF CallState
            <4>3. files[calls[c].name].tables \in Dump
                BY <2>10, <3>1 DEF Load, Loadable, TypeOK, File
            <4> QED
                BY <4>2, <4>3
        <3> QED
            BY <2>3, <3>1
    <2>11. CASE Mark(c)
        <3>1. ASSUME Goto(c, "transaction") PROVE Fine(c)'
            BY <1>1, <2>1, <2>11, <3>1, GotoType DEF Mark, SameLocals, Place
        <3> QED
            BY <2>3, <2>11, <3>1 DEF Mark
    <2>12. CASE InsertFails(c) \/ CreationFails(c) \/ Restored(c) \/ RestoreFails(c)
        BY <2>3, <2>12 DEF InsertFails, CreationFails, Restored, RestoreFails
    <2>13. CASE WriteFile(c) \/ CreationThrows(c) \/ Unlink(c) \/ Transact(c)
                  \/ RestoreThrows(c)
        BY <2>4, <2>13
        DEF WriteFile, CreationThrows, Unlink, Transact, RestoreThrows, Place
    <2>14. CASE UnlinkFails(c) \/ Drop(c) \/ DropFails(c)
        BY <2>4, <2>5, <2>14 DEF UnlinkFails, Drop, DropFails, Place
    <2>15. CASE ListScheduled(c)
        <3>1. CASE ~End(c)
            <4>1. PICK q \in SUBSET Victim :
                     calls' = [calls EXCEPT ![c] =
                                 [@ EXCEPT !.pc = "unlink", !.queue = q]]
                BY <2>15, <3>1, ListEffect
            <4>2. /\ calls'[c].pc = "unlink" /\ calls'[c].op = calls[c].op
                  /\ calls'[c].payload = calls[c].payload
                BY <2>1, <4>1 DEF CallState
            <4> QED
                BY <1>1, <2>15, <4>2 DEF ListScheduled
        <3> QED
            BY <2>3, <3>1
    <2> HIDE DEF Fine
    <2> QED
        BY <1>2, <2>6, <2>7, <2>8, <2>9, <2>10, <2>11, <2>12, <2>13, <2>14, <2>15
        DEF Step
<1>3. CASE Crash
    <2>1. \A c \in Call : calls'[c] = IdleCall
        BY <1>3 DEF Crash
    <2> QED
        BY <2>1 DEF ReadInv, IdleCall
<1>4. ASSUME calls' = calls PROVE ReadInv'
    BY <1>4 DEF ReadInv
<1> QED
    BY <1>2, <1>3, <1>4 DEF Next, Protect, WriteRecord, NextDay, vars

LEMMA TypeInvariant == Spec => [](TypeOK /\ ReadInv)
BY TypeInit, TypeNext, ReadNext, PTL DEF Spec

\* Rows, dumps, the inventory and the locals of every call keep their types:
\* nothing is written to disk or to the database but what was read.
THEOREM TypeCorrect == Spec => []TypeOK
BY TypeInvariant, PTL

-----------------------------------------------------------------------------
(* Protection.                                                             *)

\* A name belongs to one row, what is about to be deleted is known by its row
\* if that is still there, and no deletion is under way of a name whose row
\* was protected before any of them began.
NamesUnique ==
    \A i, j \in DOMAIN rows : rows[i].name = rows[j].name => i = j
VictimsKnown ==
    \A c \in Call : \A v \in calls[c].queue :
        /\ v.id < nextId
        /\ v.id \in DOMAIN rows => v.name = rows[v.id].name
ProtectedUntouched ==
    \A i \in DOMAIN rows :
        rows[i].isProtected /\ i \notin history.raced => ~DeletionOf(rows[i].name)
KeepInv == NamesUnique /\ VictimsKnown /\ ProtectedUntouched

\* Only deleteBackup's read and the retention's list find victims.
LEMMA QueuesShrink ==
    ASSUME TypeOK, NEW c \in Call, Step(c), ~BeginDelete(c), ~ListScheduled(c)
    PROVE  \A d \in Call : calls'[d].queue \subseteq calls[d].queue
<1> SUFFICES calls'[c].queue \subseteq calls[c].queue
    BY OthersKept
<1>1. calls \in [Call -> CallState] /\ calls[c] \in CallState /\ IdleCall.queue = {}
    BY DEF TypeOK, IdleCall
<1>2. ASSUME End(c) PROVE calls'[c].queue \subseteq calls[c].queue
    BY <1>1, <1>2, EndType
<1>3. ASSUME NEW p \in Place, Goto(c, p)
      PROVE  calls'[c].queue \subseteq calls[c].queue
    BY <1>1, <1>3, GotoType
<1>4. ASSUME NEW v \in calls[c].queue, Done(c, v)
      PROVE  calls'[c].queue \subseteq calls[c].queue
    BY <1>1, <1>4, DoneType
<1>5. CASE BeginCreate(c) \/ BeginRestore(c) \/ BeginCheck(c)
    BY <1>1, <1>5 DEF BeginCreate, BeginRestore, BeginCheck, IdleCall
<1>6. CASE Insert(c)
    BY <1>1, <1>6 DEF Insert, CallState
<1>7. CASE \E t \in Table : ReadTable(c, t)
    <2>1. PICK t \in Table : ReadTable(c, t)
        BY <1>7
    <2>2. PICK read, pc : calls' = [calls EXCEPT ![c] =
                                      [@ EXCEPT !.read = read, !.pc = pc]]
        BY <2>1 DEF ReadTable
    <2> QED
        BY <1>1, <2>2 DEF CallState
<1>8. CASE Complete(c)
    BY <1>1, <1>8, AfterCreationType DEF Complete
<1>9. CASE Load(c)
    <2>1. CASE ~End(c)
        <3>1. PICK skip \in BOOLEAN :
                 calls' = [calls EXCEPT ![c] =
                    [@ EXCEPT !.payload = files[calls[c].name].tables,
                              !.pc = IF skip THEN "mark" ELSE "insert",
                              !.type = IF skip THEN calls[c].type ELSE "PRE_RESTORE",
                              !.isProtected = ~skip]]
            BY <1>9, <2>1 DEF Load
        <3> QED
            BY <1>1, <3>1 DEF CallState
    <2> QED
        BY <1>2, <2>1
<1>10. CASE WriteFile(c) \/ CreationThrows(c) \/ Unlink(c) \/ Transact(c)
               \/ RestoreThrows(c)
    BY <1>3, <1>10
    DEF WriteFile, CreationThrows, Unlink, Transact, RestoreThrows, Place
<1>11. CASE UnlinkFails(c) \/ Drop(c) \/ DropFails(c)
    BY <1>3, <1>4, <1>11 DEF UnlinkFails, Drop, DropFails, Place
<1>12. CASE InsertFails(c) \/ CreationFails(c) \/ Mark(c) \/ Restored(c)
               \/ RestoreFails(c)
    BY <1>2, <1>3, <1>12
    DEF InsertFails, CreationFails, Mark, Restored, RestoreFails, Place
<1> QED
    BY <1>5, <1>6, <1>7, <1>8, <1>9, <1>10, <1>11, <1>12 DEF Step

\* Only Insert makes rows, and no step of a call changes a name or a flag.
LEMMA RowsShrink ==
    ASSUME TypeOK, NEW c \in Call, Step(c), ~Insert(c)
    PROVE  /\ nextId' = nextId /\ history'.raced = history.raced
           /\ DOMAIN rows' \subseteq DOMAIN rows
           /\ \A i \in DOMAIN rows' : /\ rows'[i].name = rows[i].name
                                      /\ rows'[i].isProtected = rows[i].isProtected
<1>1. rows \in [DOMAIN rows -> Row] /\ history \in History
    BY DEF TypeOK
<1>2. CASE Complete(c) \/ CreationFails(c) \/ Mark(c) \/ Restored(c) \/ RestoreFails(c)
    <2>1. rows' = rows \/ \E i \in DOMAIN rows, s \in Status : SetStatus(i, s)
        BY <1>2
        DEF Complete, CreationFails, Mark, Restored, RestoreFails, Status
    <2>2. nextId' = nextId
        BY <1>2 DEF Complete, CreationFails, Mark, Restored, RestoreFails,
                    Fault, bounds
    <2>3. history'.raced = history.raced
        BY <1>1, <1>2 DEF Complete, CreationFails, Mark, Restored, RestoreFails,
                          History
    <2> QED
        BY <1>1, <2>1, <2>2, <2>3, StatusType
<1>3. CASE Drop(c)
    <2>1. PICK v \in calls[c].queue : rows' = Without(rows, v.id)
        BY <1>3 DEF Drop
    <2>2. history'.raced = history.raced
        BY <1>1, <1>3 DEF Drop, History
    <2>3. nextId' = nextId
        BY <1>3 DEF Drop, bounds
    <2> QED
        BY <2>1, <2>2, <2>3 DEF Without
<1>4. CASE DropFails(c)
    <2>1. PICK s : history' = [history EXCEPT !.stranded = s]
        BY <1>4 DEF DropFails
    <2>2. history'.raced = history.raced
        BY <1>1, <2>1 DEF History
    <2> QED
        BY <1>4, <2>2 DEF DropFails, Fault
<1>5. CASE Transact(c)
    <2>1. history'.raced = history.raced
        BY <1>1, <1>5 DEF Transact, History
    <2> QED
        BY <1>5, <2>1 DEF Transact, bounds
<1>6. CASE \/ BeginCreate(c) \/ InsertFails(c) \/ \E t \in Table : ReadTable(c, t)
           \/ WriteFile(c) \/ CreationThrows(c) \/ BeginDelete(c) \/ Unlink(c)
           \/ UnlinkFails(c) \/ BeginRestore(c) \/ Load(c) \/ RestoreThrows(c)
           \/ BeginCheck(c) \/ ListScheduled(c)
    BY <1>6
    DEF BeginCreate, InsertFails, ReadTable, WriteFile, CreationThrows,
        BeginDelete, Unlink, UnlinkFails, BeginRestore, Load, RestoreThrows,
        BeginCheck, ListScheduled, Fault, Request, bounds
<1> QED
    BY <1>2, <1>3, <1>4, <1>5, <1>6 DEF Step

LEMMA KeepInit == Init => KeepInv
BY DEF Init, KeepInv, NamesUnique, VictimsKnown, ProtectedUntouched, IdleCall

LEMMA KeepNext == TypeOK /\ KeepInv /\ [Next]_vars => KeepInv'
<1> SUFFICES ASSUME TypeOK, KeepInv, [Next]_vars PROVE KeepInv'
    OBVIOUS
<1> USE DEF KeepInv
<1>1. rows \in [DOMAIN rows -> Row] /\ history \in History
    BY DEF TypeOK
<1>2. ASSUME \A d \in Call : calls'[d].queue \subseteq calls[d].queue,
             nextId' = nextId, history.raced \subseteq history'.raced,
             DOMAIN rows' \subseteq DOMAIN rows,
             \A i \in DOMAIN rows' : /\ rows'[i].name = rows[i].name
                                     /\ rows'[i].isProtected = rows[i].isProtected
      PROVE  KeepInv'
    <2>1. NamesUnique'
        BY <1>2 DEF NamesUnique
    <2>2. VictimsKnown'
        BY <1>2 DEF VictimsKnown
    <2>3. ProtectedUntouched'
        BY <1>2 DEF ProtectedUntouched, DeletionOf
    <2> QED
        BY <2>1, <2>2, <2>3
<1>3. ASSUME NEW c \in Call, Insert(c) PROVE KeepInv'
    <2> DEFINE row == [name |-> NameOf(c), type |-> calls[c].type,
                       status |-> "RUNNING", isProtected |-> calls[c].isProtected,
                       createdAt |-> day]
    <2>1. rows' = With(rows, nextId, row) /\ Free(NameOf(c))
        BY <1>3 DEF Insert
    <2>2. nextId \notin DOMAIN rows
        BY VictimType
    <2>3. /\ DOMAIN rows' = DOMAIN rows \cup {nextId}
          /\ rows'[nextId] = row
          /\ \A i \in DOMAIN rows : rows'[i] = rows[i]
        BY <2>1, <2>2 DEF With
    <2>4. row.name = NameOf(c) /\ row.isProtected = calls[c].isProtected
        OBVIOUS
    <2> HIDE DEF row
    <2>5. \A d \in Call : calls'[d].queue = calls[d].queue
        <3>1. calls[c] \in CallState
            BY DEF TypeOK
        <3> QED
            BY <1>3, <3>1 DEF Insert, CallState, TypeOK
    <2>6. /\ nextId' = nextId + 1
          /\ history'.raced = history.raced \cup
                (IF DeletionOf(NameOf(c)) THEN {nextId} ELSE {})
        BY <1>1, <1>3 DEF Insert, History
    <2>7. NamesUnique'
        BY <2>1, <2>2, <2>3, <2>4 DEF NamesUnique, Free
    <2>8. VictimsKnown'
        <3>1. nextId \in Nat
            BY DEF TypeOK
        <3>2. \A d \in Call : \A v \in calls[d].queue : v.id \in Nat
            BY DEF TypeOK, CallState, Victim
        <3> QED
            BY <2>3, <2>5, <2>6, <3>1, <3>2 DEF VictimsKnown
    <2>9. ProtectedUntouched'
        <3>1. \A n : DeletionOf(n)' <=> DeletionOf(n)
            BY <2>5 DEF DeletionOf
        <3> QED
            BY <2>2, <2>3, <2>4, <2>6, <3>1 DEF ProtectedUntouched
    <2> QED
        BY <2>7, <2>8, <2>9
<1>4. ASSUME NEW c \in Call, Step(c), NEW q,
             calls'[c].queue = q,
             \A d \in Call \ {c} : calls'[d] = calls[d],
             \A v \in q : /\ v.id \in DOMAIN rows
                          /\ v.name = rows[v.id].name
                          /\ ~rows[v.id].isProtected,
             rows' = rows, nextId' = nextId, history' = history
      PROVE  KeepInv'
    <2>1. NamesUnique'
        BY <1>4 DEF NamesUnique
    <2>2. \A i \in DOMAIN rows : i < nextId
        BY VictimType
    <2>3. VictimsKnown'
        BY <1>4, <2>2 DEF VictimsKnown
    <2>4. ASSUME NEW i \in DOMAIN rows, rows[i].isProtected,
                 NEW d \in Call, NEW v \in calls'[d].queue, v.name = rows[i].name
          PROVE  v \in calls[d].queue
        BY <1>4, <2>4 DEF NamesUnique
    <2>5. ProtectedUntouched'
        BY <1>4, <2>4 DEF ProtectedUntouched, DeletionOf
    <2> QED
        BY <2>1, <2>3, <2>5
<1>5. ASSUME NEW c \in Call, BeginDelete(c) PROVE KeepInv'
    <2>1. PICK i \in DOMAIN rows :
             /\ ~rows[i].isProtected
             /\ calls' = [calls EXCEPT ![c] =
                [IdleCall EXCEPT !.pc = "unlink", !.op = "delete",
                                 !.queue = {[id |-> i, name |-> rows[i].name]}]]
        BY <1>5 DEF BeginDelete
    <2>2. calls'[c].queue = {[id |-> i, name |-> rows[i].name]}
        BY <2>1 DEF TypeOK, IdleCall
    <2>3. Step(c)
        BY <1>5 DEF Step
    <2>4. rows' = rows /\ nextId' = nextId /\ history' = history
        BY <1>5 DEF BeginDelete, Request
    <2>5. \A v \in {[id |-> i, name |-> rows[i].name]} :
             /\ v.id \in DOMAIN rows
             /\ v.name = rows[v.id].name
             /\ ~rows[v.id].isProtected
        BY <2>1
    <2>6. \A d \in Call \ {c} : calls'[d] = calls[d]
        BY <2>3, OthersKept
    <2> QED
        BY <1>4, <2>2, <2>3, <2>4, <2>5, <2>6
<1>6. ASSUME NEW c \in Call, ListScheduled(c) PROVE KeepInv'
    <2>1. rows' = rows /\ nextId' = nextId /\ history' = history
        BY <1>6 DEF ListScheduled, bounds
    <2>2. Step(c)
        BY <1>6 DEF Step
    <2>3. CASE End(c)
        <3>1. \A d \in Call : calls'[d].queue \subseteq calls[d].queue
            BY <2>3, EndType DEF TypeOK, IdleCall
        <3> QED
            BY <1>2, <2>1, <3>1
    <2>4. CASE ~End(c)
        <3>1. PICK q \in SUBSET Victim :
                 /\ calls' = [calls EXCEPT ![c] =
                                [@ EXCEPT !.pc = "unlink", !.queue = q]]
                 /\ \A v \in q : /\ v.id \in DOMAIN rows
                                 /\ v.name = rows[v.id].name
                                 /\ ~rows[v.id].isProtected
            BY <1>6, <2>4, ListEffect
        <3>2. calls'[c].queue = q
            BY <3>1 DEF TypeOK, CallState
        <3> QED
            BY <1>4, <2>1, <2>2, <3>1, <3>2, OthersKept
    <2> QED
        BY <2>3, <2>4
<1>7. ASSUME NEW c \in Call, Step(c), ~Insert(c), ~BeginDelete(c), ~ListScheduled(c)
      PROVE  KeepInv'
    BY <1>2, <1>7, QueuesShrink, RowsShrink
<1>8. ASSUME NEW i \in DOMAIN rows, Protect(i) PROVE KeepInv'
    <2>1. PICK p \in BOOLEAN :
             /\ rows' = [rows EXCEPT ![i].isProtected = p]
             /\ history' = [history EXCEPT
                  !.raced = @ \cup (IF p /\ DeletionOf(rows[i].name) THEN {i} ELSE {}),
                  !.lifted = @ \cup (IF p THEN {} ELSE {i})]
        BY <1>8 DEF Protect
    <2>2. /\ DOMAIN rows' = DOMAIN rows
          /\ \A j \in DOMAIN rows : rows'[j].name = rows[j].name
          /\ \A j \in DOMAIN rows \ {i} : rows'[j] = rows[j]
          /\ rows'[i].isProtected = p
        BY <1>1, <2>1 DEF Row
    <2>3. history'.raced = history.raced \cup
             (IF p /\ DeletionOf(rows[i].name) THEN {i} ELSE {})
        BY <1>1, <2>1 DEF History
    <2>4. calls' = calls /\ nextId' = nextId
        BY <1>8 DEF Protect, Request
    <2>5. NamesUnique'
        BY <2>2 DEF NamesUnique
    <2>6. VictimsKnown'
        BY <2>2, <2>4 DEF VictimsKnown
    <2>7. \A n : DeletionOf(n)' <=> DeletionOf(n)
        BY <2>4 DEF DeletionOf
    <2>8. ProtectedUntouched'
        BY <2>2, <2>3, <2>7 DEF ProtectedUntouched
    <2> QED
        BY <2>5, <2>6, <2>8
<1>9. CASE Crash
    <2>1. \A d \in Call : calls'[d].queue = {}
        BY <1>9 DEF Crash, IdleCall
    <2>2. history'.raced = history.raced
        <3>1. PICK s : history' = [history EXCEPT !.stranded = s]
            BY <1>9 DEF Crash
        <3> QED
            BY <1>1, <3>1 DEF History
    <2>3. rows' = rows /\ nextId' = nextId
        BY <1>9 DEF Crash, Fault
    <2> QED
        BY <1>2, <2>1, <2>2, <2>3
<1>10. ASSUME calls' = calls, rows' = rows, nextId' = nextId, history' = history
       PROVE  KeepInv'
    BY <1>2, <1>10
<1> QED
    BY <1>3, <1>5, <1>6, <1>7, <1>8, <1>9, <1>10
    DEF Next, WriteRecord, NextDay, Request, vars, bounds

\* The step that removes a row or a file comes from a queue.
LEMMA RemovedByDeletion ==
    ASSUME TypeOK, KeepInv, [Next]_vars, NEW i \in DOMAIN rows,
           ~DeletionOf(rows[i].name)
    PROVE  /\ i \in DOMAIN rows'
           /\ rows[i].name \in DOMAIN files => rows[i].name \in DOMAIN files'
<1> DEFINE Goal == /\ i \in DOMAIN rows'
                   /\ rows[i].name \in DOMAIN files =>
                         rows[i].name \in DOMAIN files'
<1>1. rows \in [DOMAIN rows -> Row]
    BY DEF TypeOK
<1>2. ASSUME NEW c \in Call, Drop(c) PROVE Goal
    <2>1. PICK v \in calls[c].queue : rows' = Without(rows, v.id)
        BY <1>2 DEF Drop
    <2>2. v.id # i
        BY <2>1 DEF DeletionOf, KeepInv, VictimsKnown
    <2> QED
        BY <1>2, <2>1, <2>2 DEF Drop, Without
<1>3. ASSUME NEW c \in Call, Unlink(c) PROVE Goal
    <2>1. PICK v \in calls[c].queue : files' = Without(files, v.name)
        BY <1>3 DEF Unlink
    <2>2. v.name # rows[i].name
        BY DEF DeletionOf
    <2> QED
        BY <1>3, <2>1, <2>2 DEF Unlink, Without
<1>4. ASSUME NEW c \in Call, Insert(c) PROVE Goal
    BY <1>4 DEF Insert, With
<1>5. ASSUME NEW c \in Call, WriteFile(c) \/ CreationThrows(c) PROVE Goal
    BY <1>5 DEF WriteFile, CreationThrows, With
<1>6. ASSUME NEW c \in Call,
             \/ Complete(c) \/ CreationFails(c) \/ Mark(c) \/ Restored(c)
             \/ RestoreFails(c)
      PROVE  Goal
    <2>1. rows' = rows \/ \E j \in DOMAIN rows, s \in Status : SetStatus(j, s)
        BY <1>6
        DEF Complete, CreationFails, Mark, Restored, RestoreFails, Status
    <2>2. files' = files
        BY SMTT(40), <1>6 DEF Complete, CreationFails, Mark, Restored, RestoreFails
    <2> QED
        BY <1>1, <2>1, <2>2, StatusType
<1>7. ASSUME NEW c \in Call,
             \/ BeginCreate(c) \/ InsertFails(c) \/ \E t \in Table : ReadTable(c, t)
             \/ BeginDelete(c) \/ UnlinkFails(c) \/ DropFails(c) \/ BeginRestore(c)
             \/ Load(c) \/ Transact(c) \/ RestoreThrows(c) \/ BeginCheck(c)
             \/ ListScheduled(c)
      PROVE  Goal
    BY <1>7 DEF BeginCreate, InsertFails, ReadTable, BeginDelete, UnlinkFails,
                DropFails, BeginRestore, Load, Transact, RestoreThrows,
                BeginCheck, ListScheduled
<1>8. ASSUME NEW j \in DOMAIN rows, Protect(j) PROVE Goal
    BY <1>8 DEF Protect
<1>9. ASSUME rows' = rows, files' = files PROVE Goal
    BY <1>9
<1> HIDE DEF Goal
<1>10. Goal
    BY <1>2, <1>3, <1>4, <1>5, <1>6, <1>7, <1>8, <1>9
    DEF Next, Step, WriteRecord, NextDay, Crash, vars
<1> QED
    BY <1>10 DEF Goal

LEMMA KeepInvariant == Spec => [](TypeOK /\ KeepInv)
BY TypeInvariant, KeepInit, KeepNext, PTL DEF Spec

\* A backup protected while no deletion of its name was under way keeps its
\* row and its file, through every handler, failure and restart.
THEOREM ProtectedKeptAlways == Spec => ProtectedKept
<1>1. TypeOK /\ KeepInv /\ [Next]_vars =>
        [\A i \in DOMAIN rows :
           rows[i].isProtected /\ i \notin history.raced =>
              /\ i \in DOMAIN rows'
              /\ rows[i].name \in DOMAIN files =>
                    rows[i].name \in DOMAIN files']_vars
    BY RemovedByDeletion DEF KeepInv, ProtectedUntouched
<1> QED
    BY <1>1, KeepInvariant, PTL DEF Spec, ProtectedKept

-----------------------------------------------------------------------------
(* Dumps and their rows.                                                   *)

MakerPlace == {"export", "write", "complete", "fail"}

\* createBackup works on its own row or on one that was deleted under it, and
\* what it has written is its own dump or that of such another one.
MakersKnown ==
    \A c \in Call : calls[c].pc \in MakerPlace =>
        /\ calls[c].id < nextId
        /\ IF calls[c].id \in DOMAIN rows
           THEN rows[calls[c].id].name = calls[c].name
           ELSE calls[c].id \in history.cut
DumpFits ==
    \A c \in Call :
        /\ calls[c].pc = "complete"
        /\ calls[c].id \in DOMAIN rows
        /\ calls[c].name \in DOMAIN files
        => files[calls[c].name].by \in {calls[c].id} \cup history.cut
DumpInv == MakersKnown /\ DumpFits /\ DumpIsItsOwn

\* A call enters createBackup by Insert and gets to its last write by
\* WriteFile only.
LEMMA MakersShrink ==
    ASSUME TypeOK, NEW c \in Call, Step(c), ~Insert(c), NEW d \in Call,
           calls'[d].pc \in MakerPlace
    PROVE  /\ calls[d].pc \in MakerPlace
           /\ calls'[d].id = calls[d].id /\ calls'[d].name = calls[d].name
           /\ ~WriteFile(c) /\ calls'[d].pc = "complete" => calls[d].pc = "complete"
<1> DEFINE Goal ==
       /\ calls[c].pc \in MakerPlace
       /\ calls'[c].id = calls[c].id /\ calls'[c].name = calls[c].name
       /\ ~WriteFile(c) /\ calls'[c].pc = "complete" => calls[c].pc = "complete"
<1>1. SUFFICES ASSUME calls'[c].pc \in MakerPlace PROVE Goal
    BY OthersKept
<1>2. calls \in [Call -> CallState] /\ calls[c] \in CallState
    BY DEF TypeOK
<1> USE DEF At, MakerPlace
<1>3. ~End(c)
    BY <1>1, <1>2, EndType DEF IdleCall
<1>4. ASSUME NEW p \in Place \ MakerPlace PROVE ~Goto(c, p)
    BY <1>1, <1>2, <1>4, GotoType
<1>5. ASSUME NEW v \in calls[c].queue PROVE ~Done(c, v)
    BY <1>1, <1>2, <1>5, DoneType DEF IdleCall
<1>6. CASE \E t \in Table : ReadTable(c, t)
    <2>1. PICK t \in Table : ReadTable(c, t)
        BY <1>6
    <2>2. /\ calls[c].pc = "export"
          /\ \E pc \in {"write", "export"} :
                calls' = [calls EXCEPT ![c] =
                   [@ EXCEPT !.read = [calls[c].read EXCEPT ![t] = data[t]],
                             !.pc = pc]]
        BY <2>1 DEF ReadTable
    <2>3. PICK pc \in {"write", "export"} :
             calls' = [calls EXCEPT ![c] =
                [@ EXCEPT !.read = [calls[c].read EXCEPT ![t] = data[t]],
                          !.pc = pc]]
        BY <2>2
    <2>4. /\ calls'[c].id = calls[c].id /\ calls'[c].name = calls[c].name
          /\ calls'[c].pc = pc
        BY <1>2, <2>3 DEF CallState
    <2> QED
        BY <2>2, <2>4
<1>7. CASE WriteFile(c)
    BY <1>2, <1>7, GotoType DEF WriteFile, Place, SameLocals
<1>8. CASE CreationThrows(c)
    <2>1. Goto(c, "fail") /\ calls[c].pc \in MakerPlace
        BY <1>8 DEF CreationThrows
    <2> QED
        BY <1>2, <2>1, GotoType DEF Place, SameLocals
<1>9. CASE BeginCreate(c) \/ BeginDelete(c) \/ BeginRestore(c) \/ BeginCheck(c)
    <2>1. calls'[c].pc \in {"insert", "unlink", "load"}
        BY <1>2, <1>9
        DEF BeginCreate, BeginDelete, BeginRestore, BeginCheck, IdleCall
    <2> QED
        BY <1>1, <2>1
<1>10. CASE Complete(c)
    <2>1. calls'[c].pc \in {"idle", "mark", "list"}
        BY <1>2, <1>10, AfterCreationType DEF Complete, IdleCall
    <2> QED
        BY <1>1, <2>1
<1>11. CASE Load(c)
    <2>1. PICK skip \in BOOLEAN :
             calls' = [calls EXCEPT ![c] =
                [@ EXCEPT !.payload = files[calls[c].name].tables,
                          !.pc = IF skip THEN "mark" ELSE "insert",
                          !.type = IF skip THEN calls[c].type ELSE "PRE_RESTORE",
                          !.isProtected = ~skip]]
        BY <1>3, <1>11 DEF Load
    <2>2. calls'[c].pc \in {"mark", "insert"}
        BY <1>2, <2>1 DEF CallState
    <2> QED
        BY <1>1, <2>2
<1>12. CASE ListScheduled(c)
    <2>1. PICK q \in SUBSET Victim :
             calls' = [calls EXCEPT ![c] =
                         [@ EXCEPT !.pc = "unlink", !.queue = q]]
        BY <1>3, <1>12, ListEffect
    <2>2. calls'[c].pc = "unlink"
        BY <1>2, <2>1 DEF CallState
    <2> QED
        BY <1>1, <2>2
<1>13. CASE \/ InsertFails(c) \/ CreationFails(c) \/ Mark(c) \/ Restored(c)
            \/ RestoreFails(c) \/ Unlink(c) \/ Transact(c) \/ RestoreThrows(c)
            \/ UnlinkFails(c) \/ Drop(c) \/ DropFails(c)
    BY <1>3, <1>4, <1>5, <1>13
    DEF InsertFails, CreationFails, Mark, Restored, RestoreFails, Unlink,
        Transact, RestoreThrows, UnlinkFails, Drop, DropFails, Place
<1> HIDE DEF Goal
<1> QED
    BY <1>6, <1>7, <1>8, <1>9, <1>10, <1>11, <1>12, <1>13 DEF Step

LEMMA DumpInit == Init => DumpInv
BY DEF Init, DumpInv, MakersKnown, DumpFits, DumpIsItsOwn, IdleCall, MakerPlace

\* What no step but the three below does: rows, files and createBackups come
\* to an end, or go on as they were.
LEMMA DumpFrame ==
    ASSUME TypeOK, DumpInv,
           \A d \in Call : calls'[d].pc \in MakerPlace =>
              /\ calls[d].pc \in MakerPlace
              /\ calls'[d].id = calls[d].id /\ calls'[d].name = calls[d].name
              /\ calls'[d].pc = "complete" => calls[d].pc = "complete"
              /\ calls[d].id \in DOMAIN rows \ DOMAIN rows' =>
                    calls[d].id \in history'.cut,
           nextId' = nextId, history.cut \subseteq history'.cut,
           DOMAIN rows' \subseteq DOMAIN rows,
           \A i \in DOMAIN rows' :
              /\ rows'[i].name = rows[i].name
              /\ rows'[i].status = "COMPLETED" => rows[i].status = "COMPLETED",
           DOMAIN files' \subseteq DOMAIN files,
           \A n \in DOMAIN files' : files'[n] = files[n]
    PROVE  DumpInv'
<1> USE DEF DumpInv
<1>1. MakersKnown'
    BY DEF MakersKnown
<1>2. DumpFits'
    BY DEF DumpFits, MakerPlace
<1>3. DumpIsItsOwn'
    BY DEF DumpIsItsOwn
<1> QED
    BY <1>1, <1>2, <1>3

LEMMA DumpNext == TypeOK /\ KeepInv /\ DumpInv /\ [Next]_vars => DumpInv'
<1> SUFFICES ASSUME TypeOK, KeepInv, DumpInv, [Next]_vars PROVE DumpInv'
    OBVIOUS
<1> USE DEF DumpInv
<1>1. /\ rows \in [DOMAIN rows -> Row] /\ history \in History
      /\ calls \in [Call -> CallState]
    BY DEF TypeOK
<1>2. ASSUME NEW c \in Call, Insert(c) PROVE DumpInv'
    <2> DEFINE row == [name |-> NameOf(c), type |-> calls[c].type,
                       status |-> "RUNNING", isProtected |-> calls[c].isProtected,
                       createdAt |-> day]
    <2>1. nextId \notin DOMAIN rows /\ nextId \in Nat
        BY VictimType DEF TypeOK
    <2>2. /\ DOMAIN rows' = DOMAIN rows \cup {nextId}
          /\ rows'[nextId] = row
          /\ \A i \in DOMAIN rows : rows'[i] = rows[i]
        BY <1>2, <2>1 DEF Insert, With
    <2>3. row.name = NameOf(c) /\ row.status = "RUNNING"
        OBVIOUS
    <2> HIDE DEF row
    <2>4. /\ calls'[c].pc = "export" /\ calls'[c].id = nextId
          /\ calls'[c].name = NameOf(c)
        BY <1>1, <1>2 DEF Insert, CallState
    <2>5. \A d \in Call \ {c} : calls'[d] = calls[d]
        BY <1>2 DEF Insert, TypeOK
    <2>6. nextId' = nextId + 1 /\ history'.cut = history.cut /\ files' = files
        BY <1>1, <1>2 DEF Insert, History
    <2>7. \A d \in Call : calls[d].id \in Nat
        BY <1>1 DEF CallState
    <2>8. MakersKnown'
        BY <2>1, <2>2, <2>3, <2>4, <2>5, <2>6, <2>7 DEF MakersKnown
    <2>9. DumpFits'
        <3>1. ASSUME NEW d \in Call \ {c}, calls[d].pc = "complete"
              PROVE  calls[d].id # nextId
            BY <3>1, <2>1, <2>7 DEF MakersKnown, MakerPlace
        <3> QED
            BY <2>2, <2>4, <2>5, <2>6, <3>1 DEF DumpFits
    <2>10. DumpIsItsOwn'
        BY <2>1, <2>2, <2>3, <2>6 DEF DumpIsItsOwn
    <2> QED
        BY <2>8, <2>9, <2>10
<1>3. ASSUME NEW c \in Call, NEW contents, calls[c].pc \in MakerPlace,
             files' = With(files, calls[c].name,
                           [by |-> calls[c].id, tables |-> contents]),
             rows' = rows, nextId' = nextId, history' = history,
             \A d \in Call : calls'[d].pc \in MakerPlace =>
                /\ calls[d].pc \in MakerPlace
                /\ calls'[d].id = calls[d].id /\ calls'[d].name = calls[d].name,
             \A d \in Call \ {c} : calls'[d] = calls[d]
      PROVE  DumpInv'
    <2> DEFINE n == calls[c].name
    <2>1. /\ DOMAIN files' = DOMAIN files \cup {n}
          /\ files'[n].by = calls[c].id
          /\ \A m \in DOMAIN files : m # n => files'[m] = files[m]
        BY <1>3 DEF With
    <2>2. ASSUME NEW i \in DOMAIN rows, rows[i].name = n
          PROVE  calls[c].id \in {i} \cup history.cut
        BY <1>3, <2>2 DEF MakersKnown, KeepInv, NamesUnique
    <2> HIDE DEF n
    <2>3. MakersKnown'
        BY <1>3 DEF MakersKnown
    <2>4. DumpIsItsOwn'
        BY <1>3, <2>1, <2>2 DEF DumpIsItsOwn
    <2>5. DumpFits'
        <3> SUFFICES ASSUME NEW d \in Call, calls'[d].pc = "complete",
                            calls'[d].id \in DOMAIN rows,
                            calls'[d].name \in DOMAIN files'
                     PROVE  files'[calls'[d].name].by
                               \in {calls'[d].id} \cup history.cut
            BY <1>3 DEF DumpFits
        <3>1. /\ calls[d].pc \in MakerPlace
              /\ calls'[d].id = calls[d].id /\ calls'[d].name = calls[d].name
            BY <1>3 DEF MakerPlace
        <3>2. rows[calls[d].id].name = calls[d].name
            BY <3>1 DEF MakersKnown
        <3>3. CASE calls[d].name = n
            BY <2>1, <2>2, <3>1, <3>2, <3>3
        <3>4. CASE calls[d].name # n
            BY <1>3, <2>1, <3>1, <3>4 DEF DumpFits, n
        <3> QED
            BY <3>3, <3>4
    <2> QED
        BY <2>3, <2>4, <2>5
<1>4. ASSUME NEW c \in Call, WriteFile(c) PROVE DumpInv'
    <2>1. Step(c) /\ ~Insert(c)
        BY <1>4 DEF Step, WriteFile, Insert, At
    <2>2. \A d \in Call : calls'[d].pc \in MakerPlace =>
             /\ calls[d].pc \in MakerPlace
             /\ calls'[d].id = calls[d].id /\ calls'[d].name = calls[d].name
        BY <2>1, MakersShrink
    <2>3. \A d \in Call \ {c} : calls'[d] = calls[d]
        BY <2>1, OthersKept
    <2> QED
        BY <1>3, <1>4, <2>2, <2>3 DEF WriteFile, At, MakerPlace, bounds
<1>5. ASSUME NEW c \in Call, Complete(c) PROVE DumpInv'
    <2> DEFINE id == calls[c].id
    <2>1. /\ DOMAIN rows' = DOMAIN rows
          /\ \A j \in DOMAIN rows : rows'[j].name = rows[j].name
          /\ \A j \in DOMAIN rows \ {id} : rows'[j] = rows[j]
        BY <1>1, <1>5, StatusType DEF Complete, Status
    <2>2. Step(c) /\ ~Insert(c) /\ ~WriteFile(c)
        BY <1>5 DEF Step, Complete, WriteFile, Insert, At
    <2>3. \A d \in Call : calls'[d].pc \in MakerPlace =>
             /\ calls[d].pc \in MakerPlace
             /\ calls'[d].id = calls[d].id /\ calls'[d].name = calls[d].name
             /\ calls'[d].pc = "complete" => calls[d].pc = "complete"
        BY <2>2, MakersShrink
    <2>4. history'.cut = history.cut
        BY <1>1, <1>5 DEF Complete, History
    <2>5. files' = files /\ nextId' = nextId
        BY <1>5 DEF Complete, bounds
    <2>6. /\ calls[c].pc = "complete" /\ id \in DOMAIN rows
          /\ rows[id].name = calls[c].name
        BY <1>5 DEF Complete, At, MakersKnown, MakerPlace
    <2> HIDE DEF id
    <2>7. MakersKnown'
        BY <2>1, <2>3, <2>4, <2>5 DEF MakersKnown
    <2>8. DumpFits'
        BY <2>1, <2>3, <2>4, <2>5 DEF DumpFits, MakerPlace
    <2>9. DumpIsItsOwn'
        BY <2>1, <2>4, <2>5, <2>6 DEF DumpIsItsOwn, DumpFits, id
    <2> QED
        BY <2>7, <2>8, <2>9
<1>6. ASSUME NEW c \in Call, CreationThrows(c), files' # files PROVE DumpInv'
    <2>1. Step(c) /\ ~Insert(c) /\ calls[c].pc \in MakerPlace
        BY <1>6 DEF Step, CreationThrows, Insert, At, MakerPlace
    <2>2. \A d \in Call : calls'[d].pc \in MakerPlace =>
             /\ calls[d].pc \in MakerPlace
             /\ calls'[d].id = calls[d].id /\ calls'[d].name = calls[d].name
        BY <2>1, MakersShrink
    <2>3. \A d \in Call \ {c} : calls'[d] = calls[d]
        BY <2>1, OthersKept
    <2>4. files' = With(files, calls[c].name, [by |-> calls[c].id, tables |-> Blank])
        BY <1>6 DEF CreationThrows
    <2>5. rows' = rows /\ nextId' = nextId /\ history' = history
        BY <1>6 DEF CreationThrows, Fault, bounds
    <2> QED
        BY <1>3, <2>1, <2>2, <2>3, <2>4, <2>5
<1>7. ASSUME NEW c \in Call, Step(c), ~Insert(c), ~WriteFile(c), ~Complete(c),
             ~(CreationThrows(c) /\ files' # files)
      PROVE  DumpInv'
    <2>1. \A d \in Call : calls'[d].pc \in MakerPlace =>
             /\ calls[d].pc \in MakerPlace
             /\ calls'[d].id = calls[d].id /\ calls'[d].name = calls[d].name
             /\ calls'[d].pc = "complete" => calls[d].pc = "complete"
        BY <1>7, MakersShrink
    <2>2. /\ nextId' = nextId /\ DOMAIN rows' \subseteq DOMAIN rows
          /\ \A i \in DOMAIN rows' : rows'[i].name = rows[i].name
        BY <1>7, RowsShrink
    <2>3. /\ history.cut \subseteq history'.cut
          /\ \A d \in Call : calls[d].pc \in MakerPlace
                                /\ calls[d].id \in DOMAIN rows \ DOMAIN rows' =>
                                   calls[d].id \in history'.cut
        <3>1. CASE Drop(c)
            <4>1. PICK v \in calls[c].queue :
                     /\ rows' = Without(rows, v.id)
                     /\ history' = [history EXCEPT !.cut =
                                      @ \cup (IF Making(v.id) THEN {v.id} ELSE {})]
                BY <3>1 DEF Drop
            <4>2. history'.cut = history.cut \cup
                                    (IF Making(v.id) THEN {v.id} ELSE {})
                BY <1>1, <4>1 DEF History
            <4>3. DOMAIN rows' = DOMAIN rows \ {v.id}
                BY <4>1 DEF Without
            <4> QED
                BY <4>2, <4>3 DEF Making, MakerPlace
        <3>2. CASE ~Drop(c)
            <4>1. DOMAIN rows' = DOMAIN rows
                BY <1>1, <1>7, <3>2, StatusType
                DEF Step, BeginCreate, InsertFails, ReadTable, CreationThrows,
                    CreationFails, BeginDelete, Unlink, UnlinkFails, DropFails,
                    BeginRestore, Load, Mark, Transact, RestoreThrows, Restored,
                    RestoreFails, BeginCheck, ListScheduled, Status
            <4>2. \/ history' = history
                  \/ \E s : \/ history' = [history EXCEPT !.stranded = s]
                            \/ history' = [history EXCEPT !.committed = s]
                BY <1>7, <3>2
                DEF Step, BeginCreate, InsertFails, ReadTable, CreationThrows,
                    CreationFails, BeginDelete, Unlink, UnlinkFails, DropFails,
                    BeginRestore, Load, Mark, Transact, RestoreThrows, Restored,
                    RestoreFails, BeginCheck, ListScheduled
            <4>3. history'.cut = history.cut
                BY <1>1, <4>2 DEF History
            <4> QED
                BY <4>1, <4>3
        <3> QED
            BY <3>1, <3>2
    <2>4. \A i \in DOMAIN rows' :
             rows'[i].status = "COMPLETED" => rows[i].status = "COMPLETED"
        <3>1. \/ rows' = rows
              \/ \E j \in DOMAIN rows, s \in Status \ {"COMPLETED"} : SetStatus(j, s)
              \/ \E x : rows' = Without(rows, x)
            BY <1>7
            DEF Step, BeginCreate, InsertFails, ReadTable, CreationThrows,
                CreationFails, BeginDelete, Unlink, UnlinkFails, Drop, DropFails,
                BeginRestore, Load, Mark, Transact, RestoreThrows, Restored,
                RestoreFails, BeginCheck, ListScheduled, Status
        <3>2. ASSUME NEW j \in DOMAIN rows, NEW s \in Status \ {"COMPLETED"},
                     SetStatus(j, s), NEW i \in DOMAIN rows',
                     rows'[i].status = "COMPLETED"
              PROVE  rows[i].status = "COMPLETED"
            BY <1>1, <3>2, StatusType
        <3>3. ASSUME NEW x, rows' = Without(rows, x), NEW i \in DOMAIN rows'
              PROVE  rows'[i] = rows[i]
            BY <3>3 DEF Without
        <3> QED
            BY SMTT(40), <3>1, <3>2, <3>3
    <2>5. /\ DOMAIN files' \subseteq DOMAIN files
          /\ \A n \in DOMAIN files' : files'[n] = files[n]
        <3>1. files' = files \/ \E x : files' = Without(files, x)
            BY <1>7
            DEF Step, BeginCreate, InsertFails, ReadTable, CreationThrows,
                CreationFails, BeginDelete, Unlink, UnlinkFails, Drop, DropFails,
                BeginRestore, Load, Mark, Transact, RestoreThrows, Restored,
                RestoreFails, BeginCheck, ListScheduled
        <3> QED
            BY <3>1 DEF Without
    <2> QED
        BY <2>1, <2>2, <2>3, <2>4, <2>5, DumpFrame
<1>8. ASSUME NEW i \in DOMAIN rows, Protect(i) PROVE DumpInv'
    <2>1. /\ \E p \in BOOLEAN : rows' = [rows EXCEPT ![i].isProtected = p]
          /\ history'.cut = history.cut
        BY <1>1, <1>8 DEF Protect, History
    <2>2. /\ DOMAIN rows' = DOMAIN rows
          /\ \A j \in DOMAIN rows : /\ rows'[j].name = rows[j].name
                                    /\ rows'[j].status = rows[j].status
        BY <1>1, <2>1 DEF Row
    <2>3. calls' = calls /\ files' = files /\ nextId' = nextId
        BY <1>8 DEF Protect, Request
    <2> QED
        BY <2>1, <2>2, <2>3, DumpFrame
<1>9. CASE Crash
    <2>1. \A d \in Call : calls'[d].pc \notin MakerPlace
        BY <1>9 DEF Crash, IdleCall, MakerPlace
    <2>2. history'.cut = history.cut
        <3>1. PICK s : history' = [history EXCEPT !.stranded = s]
            BY <1>9 DEF Crash
        <3> QED
            BY <1>1, <3>1 DEF History
    <2>3. rows' = rows /\ files' = files /\ nextId' = nextId
        BY <1>9 DEF Crash, Fault
    <2> QED
        BY <2>1, <2>2, <2>3, DumpFrame
<1>10. ASSUME calls' = calls, rows' = rows, nextId' = nextId, files' = files,
              history' = history
       PROVE  DumpInv'
    BY <1>10, DumpFrame
<1> QED
    BY <1>2, <1>4, <1>5, <1>6, <1>7, <1>8, <1>9, <1>10
    DEF Next, WriteRecord, NextDay, Request, vars, bounds

\* The checksum of a completed backup is that of the file under its name,
\* unless a backup of that name was deleted while it was being written.
THEOREM DumpIsItsOwnAlways == Spec => []DumpIsItsOwn
<1>1. DumpInv => DumpIsItsOwn
    BY DEF DumpInv
<1> QED
    BY <1>1, KeepInvariant, DumpInit, DumpNext, PTL DEF Spec

-----------------------------------------------------------------------------
(* The steps once more, by what they do to a call, to the rows and to what *)
(* the properties remember.                                                *)

\* Where a call can go when it neither begins, inserts, reads nor ends.
LEMMA CallStep ==
    ASSUME TypeOK, NEW c \in Call, Step(c)
    PROVE  \/ BeginCreate(c) \/ BeginDelete(c) \/ BeginRestore(c) \/ BeginCheck(c)
           \/ Insert(c) \/ (\E t \in Table : ReadTable(c, t)) \/ Load(c)
           \/ calls'[c] = IdleCall
           \/ ListScheduled(c) /\ calls'[c].pc = "unlink"
           \/ /\ SameLocals(c)
              /\ \/ WriteFile(c) /\ calls[c].pc = "write" /\ calls'[c].pc = "complete"
                 \/ /\ Complete(c) /\ calls[c].pc = "complete"
                    /\ calls'[c].pc \in {"mark", "list"}
                 \/ /\ Transact(c) /\ calls[c].pc = "transaction"
                    /\ calls'[c].pc = "restored"
                 \/ calls[c].pc = "mark" /\ calls'[c].pc = "transaction"
                 \/ calls[c].pc \in MakerPlace /\ calls'[c].pc = "fail"
                 \/ calls'[c].pc \in {"unlink", "drop", "restoreFailed"}
<1> USE DEF At
<1>1. calls \in [Call -> CallState]
    BY DEF TypeOK
<1>2. ASSUME NEW v \in calls[c].queue, Done(c, v)
      PROVE  calls'[c] = IdleCall \/ (SameLocals(c) /\ calls'[c].pc = "unlink")
    BY <1>1, <1>2, DoneType
<1>3. ASSUME NEW p \in Place, Goto(c, p)
      PROVE  SameLocals(c) /\ calls'[c].pc = p
    BY <1>1, <1>3, GotoType
<1>4. End(c) => calls'[c] = IdleCall
    BY <1>1, EndType
<1>5. CASE InsertFails(c) \/ CreationFails(c) \/ Restored(c) \/ RestoreFails(c)
    BY <1>4, <1>5 DEF InsertFails, CreationFails, Restored, RestoreFails
<1>6. CASE WriteFile(c)
    BY <1>3, <1>6 DEF WriteFile, Place
<1>7. CASE Complete(c)
    BY <1>1, <1>7, AfterCreationType DEF Complete
<1>8. CASE CreationThrows(c)
    BY <1>3, <1>8 DEF CreationThrows, Place, MakerPlace
<1>9. CASE Unlink(c) \/ RestoreThrows(c)
    BY <1>3, <1>9 DEF Unlink, RestoreThrows, Place
<1>10. CASE UnlinkFails(c) \/ Drop(c) \/ DropFails(c)
    BY <1>2, <1>3, <1>10 DEF UnlinkFails, Drop, DropFails, Place
<1>11. CASE Mark(c)
    BY <1>3, <1>4, <1>11 DEF Mark, Place
<1>12. CASE Transact(c)
    BY <1>3, <1>12 DEF Transact, Place
<1>13. CASE ListScheduled(c)
    <2>1. CASE ~End(c)
        <3>1. PICK q \in SUBSET Victim :
                 calls' = [calls EXCEPT ![c] =
                             [@ EXCEPT !.pc = "unlink", !.queue = q]]
            BY <1>13, <2>1, ListEffect
        <3>2. calls'[c].pc = "unlink"
            BY <1>1, <3>1 DEF CallState
        <3> QED
            BY <1>13, <3>2
    <2> QED
        BY <1>4, <2>1
<1> QED
    BY <1>5, <1>6, <1>7, <1>8, <1>9, <1>10, <1>11, <1>12, <1>13 DEF Step

\* What a call begins with.
LEMMA BeginEffect ==
    ASSUME TypeOK, NEW c \in Call,
           BeginCreate(c) \/ BeginDelete(c) \/ BeginRestore(c) \/ BeginCheck(c)
    PROVE  /\ calls'[c].pc \in {"insert", "unlink", "load"}
           /\ calls'[c].id = 0
           /\ calls'[c].op = "check" => calls'[c].queue = {}
           /\ calls'[c].pc = "insert" =>
                 /\ calls'[c].type \in {"MANUAL", "SCHEDULED"}
                 /\ calls'[c].op \in {"create", "check"}
                 /\ \A k : calls'[c].name # <<"pre-restore", k>>
                 /\ calls'[c].type = "SCHEDULED" =>
                       calls'[c].name = <<"auto-backup", calls'[c].today>>
           /\ UNCHANGED <<rows, files, nextId, history>>
<1>1. calls \in [Call -> CallState]
    BY DEF TypeOK
<1>2. UNCHANGED <<rows, files, nextId, history>>
    BY DEF BeginCreate, BeginDelete, BeginRestore, BeginCheck, Request
<1>3. CASE BeginCreate(c)
    <2>1. PICK n \in ManualName, p \in BOOLEAN :
             calls' = [calls EXCEPT ![c] =
                 [IdleCall EXCEPT !.pc = "insert", !.op = "create",
                                  !.name = <<"backup", n>>, !.isProtected = p]]
        BY <1>3 DEF BeginCreate
    <2>2. /\ calls'[c].pc = "insert" /\ calls'[c].op = "create"
          /\ calls'[c].name = <<"backup", n>> /\ calls'[c].type = "MANUAL"
          /\ calls'[c].id = 0
        BY <1>1, <2>1 DEF IdleCall
    <2> QED
        BY <1>2, <2>2
<1>4. CASE BeginCheck(c)
    <2>1. /\ calls'[c].pc = "insert" /\ calls'[c].op = "check"
          /\ calls'[c].name = <<"auto-backup", day>> /\ calls'[c].today = day
          /\ calls'[c].type = "SCHEDULED"
          /\ calls'[c].id = 0 /\ calls'[c].queue = {}
        BY <1>1, <1>4 DEF BeginCheck, DailyName, IdleCall
    <2> QED
        BY <1>2, <2>1
<1>5. CASE BeginDelete(c)
    <2>1. calls'[c].pc = "unlink" /\ calls'[c].op = "delete" /\ calls'[c].id = 0
        BY <1>1, <1>5 DEF BeginDelete, IdleCall
    <2> QED
        BY <1>2, <2>1
<1>6. CASE BeginRestore(c)
    <2>1. calls'[c].pc = "load" /\ calls'[c].op = "restore" /\ calls'[c].id = 0
        BY <1>1, <1>6 DEF BeginRestore, IdleCall
    <2> QED
        BY <1>2, <2>1
<1> QED
    BY <1>3, <1>4, <1>5, <1>6

\* A row is made with its status RUNNING, under the number that was next.
LEMMA InsertEffect ==
    ASSUME TypeOK, NEW c \in Call, Insert(c)
    PROVE  /\ calls[c].pc = "insert" /\ nextId \in Nat
           /\ nextId \notin DOMAIN rows
           /\ DOMAIN rows' = DOMAIN rows \cup {nextId}
           /\ \A i \in DOMAIN rows : rows'[i] = rows[i]
           /\ rows'[nextId].name = NameOf(c)
           /\ rows'[nextId].type = calls[c].type
           /\ rows'[nextId].status = "RUNNING"
           /\ rows'[nextId].isProtected = calls[c].isProtected
           /\ calls'[c].pc = "export" /\ calls'[c].id = nextId
           /\ calls'[c].name = NameOf(c)
           /\ calls'[c].op = calls[c].op /\ calls'[c].type = calls[c].type
           /\ \A d \in Call : calls'[d].queue = calls[d].queue
           /\ nextId' = nextId + 1 /\ files' = files
           /\ history'.raced = history.raced \cup
                 (IF DeletionOf(NameOf(c)) THEN {nextId} ELSE {})
           /\ history'.stranded = history.stranded
           /\ history'.lifted = history.lifted
           /\ history'.committed = history.committed
           /\ history'.archived = history.archived
           /\ history'.daily = history.daily \cup
                 (IF calls[c].type = "SCHEDULED"
                  THEN {<<nextId, calls[c].today>>} ELSE {})
<1> DEFINE row == [name |-> NameOf(c), type |-> calls[c].type,
                   status |-> "RUNNING", isProtected |-> calls[c].isProtected,
                   createdAt |-> day]
<1>1. /\ row.name = NameOf(c) /\ row.type = calls[c].type
      /\ row.status = "RUNNING" /\ row.isProtected = calls[c].isProtected
    OBVIOUS
<1>2. rows' = With(rows, nextId, row) /\ calls[c].pc = "insert"
    BY DEF Insert, At
<1> HIDE DEF row
<1>3. nextId \notin DOMAIN rows /\ nextId \in Nat
    BY VictimType DEF TypeOK
<1>4. /\ DOMAIN rows' = DOMAIN rows \cup {nextId}
      /\ rows'[nextId] = row
      /\ \A i \in DOMAIN rows : rows'[i] = rows[i]
    BY <1>2, <1>3 DEF With
<1>5. /\ calls'[c].pc = "export" /\ calls'[c].id = nextId
      /\ calls'[c].name = NameOf(c)
      /\ calls'[c].op = calls[c].op /\ calls'[c].type = calls[c].type
      /\ calls'[c].queue = calls[c].queue
    <2>1. calls[c] \in CallState /\ calls \in [Call -> CallState]
        BY DEF TypeOK
    <2> QED
        BY <2>1 DEF Insert, CallState
<1>6. \A d \in Call \ {c} : calls'[d] = calls[d]
    BY OthersKept DEF Step
<1>7. /\ nextId' = nextId + 1 /\ files' = files
      /\ history' = [history EXCEPT
            !.raced = @ \cup (IF DeletionOf(NameOf(c)) THEN {nextId} ELSE {}),
            !.daily = @ \cup (IF calls[c].type = "SCHEDULED"
                              THEN {<<nextId, calls[c].today>>} ELSE {})]
    BY DEF Insert
<1>8. /\ history'.raced = history.raced \cup
            (IF DeletionOf(NameOf(c)) THEN {nextId} ELSE {})
      /\ history'.stranded = history.stranded
      /\ history'.lifted = history.lifted
      /\ history'.committed = history.committed
      /\ history'.archived = history.archived
      /\ history'.daily = history.daily \cup
            (IF calls[c].type = "SCHEDULED"
             THEN {<<nextId, calls[c].today>>} ELSE {})
    BY <1>7 DEF TypeOK, History
<1> QED
    BY <1>1, <1>2, <1>3, <1>4, <1>5, <1>6, <1>7, <1>8

\* The steps of a call that change no row.
Rowless(c) ==
    \/ BeginCreate(c) \/ InsertFails(c) \/ \E t \in Table : ReadTable(c, t)
    \/ WriteFile(c) \/ CreationThrows(c) \/ BeginDelete(c) \/ Unlink(c)
    \/ UnlinkFails(c) \/ DropFails(c) \/ BeginRestore(c) \/ Load(c) \/ Transact(c)
    \/ RestoreThrows(c) \/ BeginCheck(c) \/ ListScheduled(c)

\* A row's type never changes, and its status only with these four writes.
LEMMA StatusStep ==
    ASSUME TypeOK, NEW c \in Call, Step(c), ~Insert(c)
    PROVE  /\ ~Drop(c) => DOMAIN rows' = DOMAIN rows
           /\ \A i \in DOMAIN rows' :
                 /\ rows'[i].type = rows[i].type
                 /\ \/ rows'[i].status = rows[i].status
                    \/ rows'[i].status \in {"FAILED", "RESTORING"}
                    \/ /\ Complete(c) /\ i = calls[c].id
                       /\ rows'[i].status = "COMPLETED"
                    \/ /\ Restored(c) /\ i = calls[c].target
                       /\ rows'[i].status = "RESTORED"
<1>1. rows \in [DOMAIN rows -> Row]
    BY DEF TypeOK
<1>2. CASE Drop(c)
    <2>1. PICK v \in calls[c].queue : rows' = Without(rows, v.id)
        BY <1>2 DEF Drop
    <2> QED
        BY <1>2, <2>1 DEF Without
<1>3. CASE Rowless(c)
    <2>1. rows' = rows
        BY <1>3
        DEF Rowless, BeginCreate, InsertFails, ReadTable, WriteFile,
            CreationThrows, BeginDelete, Unlink, UnlinkFails, DropFails,
            BeginRestore, Load, Transact, RestoreThrows, BeginCheck,
            ListScheduled
    <2> QED
        BY SMTT(40), <2>1
<1>4. CASE Complete(c)
    BY <1>1, <1>4, StatusType DEF Complete, Status
<1>5. CASE CreationFails(c)
    BY <1>1, <1>5, StatusType DEF CreationFails, Status
<1>6. CASE Mark(c)
    BY <1>1, <1>6, StatusType DEF Mark, Status
<1>7. CASE Restored(c)
    BY <1>1, <1>7, StatusType DEF Restored, Status
<1>8. CASE RestoreFails(c)
    BY SMTT(40), <1>1, <1>8, StatusType DEF RestoreFails, Status
<1> QED
    BY <1>2, <1>3, <1>4, <1>5, <1>6, <1>7, <1>8 DEF Step, Rowless

\* What is remembered is never forgotten.
HistoryGrows ==
    /\ history.raced \subseteq history'.raced
    /\ history.stranded \subseteq history'.stranded
    /\ history.lifted \subseteq history'.lifted
    /\ history.committed \subseteq history'.committed
    /\ history.archived \subseteq history'.archived

LEMMA HistoryStep ==
    ASSUME TypeOK, NEW c \in Call, Step(c), ~Insert(c)
    PROVE  /\ HistoryGrows
           /\ history'.lifted = history.lifted
           /\ ~Transact(c) => history'.committed = history.committed
           /\ ~Complete(c) => history'.archived = history.archived
           /\ history'.daily = history.daily
<1> USE DEF HistoryGrows
<1>1. history \in History
    BY DEF TypeOK
<1>2. CASE Complete(c)
    BY <1>1, <1>2 DEF Complete, Transact, At, History
<1>3. CASE Transact(c)
    BY <1>1, <1>3 DEF Complete, Transact, At, History
<1>4. CASE Drop(c) \/ DropFails(c)
    <2>1. PICK s : \/ history' = [history EXCEPT !.cut = @ \cup s]
                   \/ history' = [history EXCEPT !.stranded = @ \cup s]
        BY SMTT(40), <1>4 DEF Drop, DropFails
    <2> QED
        BY <1>1, <2>1 DEF History
<1>5. CASE history' = history
    BY SMTT(40), <1>5
<1> QED
    BY <1>2, <1>3, <1>4, <1>5
    DEF Step, BeginCreate, InsertFails, ReadTable, WriteFile, CreationThrows,
        CreationFails, BeginDelete, Unlink, UnlinkFails, BeginRestore, Load,
        Mark, RestoreThrows, Restored, RestoreFails, BeginCheck, ListScheduled

\* Files change with three steps only.
LEMMA FilesStep ==
    ASSUME NEW c \in Call, Step(c), files' # files
    PROVE  WriteFile(c) \/ CreationThrows(c) \/ Unlink(c)
BY DEF Step, BeginCreate, Insert, InsertFails, ReadTable, Complete,
       CreationFails, BeginDelete, UnlinkFails, Drop, DropFails, BeginRestore,
       Load, Mark, Transact, RestoreThrows, Restored, RestoreFails, BeginCheck,
       ListScheduled

\* The protection of a row is set or lifted.
LEMMA ProtectEffect ==
    ASSUME TypeOK, NEW i \in DOMAIN rows, Protect(i)
    PROVE  /\ UNCHANGED <<calls, files, nextId>> /\ HistoryGrows
           /\ DOMAIN rows' = DOMAIN rows
           /\ \A j \in DOMAIN rows : /\ rows'[j].name = rows[j].name
                                     /\ rows'[j].type = rows[j].type
                                     /\ rows'[j].status = rows[j].status
           /\ \A j \in DOMAIN rows \ {i} : rows'[j] = rows[j]
           /\ history'.raced \subseteq history.raced \cup {i}
           /\ i \in history'.raced \ history.raced => ~rows[i].isProtected
           /\ rows'[i].isProtected \/ i \in history'.lifted
           /\ history'.committed = history.committed
           /\ history'.archived = history.archived
           /\ history'.daily = history.daily
<1>1. rows \in [DOMAIN rows -> Row] /\ history \in History
    BY DEF TypeOK
<1>2. PICK p \in BOOLEAN :
         /\ p # rows[i].isProtected
         /\ rows' = [rows EXCEPT ![i].isProtected = p]
         /\ history' = [history EXCEPT
               !.raced = @ \cup (IF p /\ DeletionOf(rows[i].name) THEN {i} ELSE {}),
               !.lifted = @ \cup (IF p THEN {} ELSE {i})]
    BY DEF Protect
<1>3. /\ DOMAIN rows' = DOMAIN rows
      /\ \A j \in DOMAIN rows : /\ rows'[j].name = rows[j].name
                                /\ rows'[j].type = rows[j].type
                                /\ rows'[j].status = rows[j].status
      /\ \A j \in DOMAIN rows \ {i} : rows'[j] = rows[j]
      /\ rows'[i].isProtected = p /\ rows[i].isProtected \in BOOLEAN
    BY <1>1, <1>2 DEF Row
<1>4. /\ history'.raced = history.raced
            \cup (IF p /\ DeletionOf(rows[i].name) THEN {i} ELSE {})
      /\ history'.lifted = history.lifted \cup (IF p THEN {} ELSE {i})
      /\ history'.stranded = history.stranded
      /\ history'.committed = history.committed
      /\ history'.archived = history.archived
      /\ history'.daily = history.daily
    BY <1>1, <1>2 DEF History
<1>5. UNCHANGED <<calls, files, nextId>>
    BY DEF Protect, Request
<1> QED
    BY <1>2, <1>3, <1>4, <1>5 DEF HistoryGrows

\* A restart leaves the calls idle and remembers what it stranded.
LEMMA CrashEffect ==
    ASSUME TypeOK, Crash
    PROVE  /\ calls' = [c \in Call |-> IdleCall]
           /\ UNCHANGED <<rows, files, nextId>> /\ HistoryGrows
           /\ history'.raced = history.raced /\ history'.lifted = history.lifted
           /\ history'.committed = history.committed
           /\ history'.archived = history.archived
           /\ history'.daily = history.daily
           /\ \A c \in Call : \A v \in calls[c].queue :
                 calls[c].pc = "drop" /\ Foremost(c, v) /\ v.id \in DOMAIN rows
                    => v.id \in history'.stranded
<1> DEFINE hung == {i \in DOMAIN rows : \E c \in Call : \E v \in calls[c].queue :
                        At(c, "drop") /\ Foremost(c, v) /\ v.id = i}
<1>1. history' = [history EXCEPT !.stranded = @ \cup hung]
    BY DEF Crash
<1>2. \A c \in Call : \A v \in calls[c].queue :
         calls[c].pc = "drop" /\ Foremost(c, v) /\ v.id \in DOMAIN rows
            => v.id \in hung
    BY DEF At
<1> HIDE DEF hung
<1>3. history'.stranded = history.stranded \cup hung
      /\ history'.raced = history.raced /\ history'.lifted = history.lifted
      /\ history'.committed = history.committed
      /\ history'.archived = history.archived
      /\ history'.daily = history.daily
    BY <1>1 DEF TypeOK, History
<1>4. UNCHANGED <<rows, files, nextId>> /\ calls' = [c \in Call |-> IdleCall]
    BY DEF Crash, Fault
<1> QED
    BY <1>2, <1>3, <1>4 DEF HistoryGrows

\* The steps that are none of a call, of a protection or of a restart.
LEMMA NextKinds ==
    ASSUME [Next]_vars
    PROVE  \/ \E c \in Call : Step(c)
           \/ \E i \in DOMAIN rows : Protect(i)
           \/ Crash
           \/ UNCHANGED <<rows, files, calls, nextId, history>>
BY DEF Next, WriteRecord, NextDay, Request, vars, bounds
LEMMA ReadEffect ==
    ASSUME TypeOK, NEW c \in Call, NEW t \in Table, ReadTable(c, t)
    PROVE  /\ calls[c].pc = "export" /\ calls'[c].pc \in {"export", "write"}
           /\ calls'[c].op = calls[c].op /\ calls'[c].id = calls[c].id
           /\ calls'[c].name = calls[c].name /\ calls'[c].type = calls[c].type
           /\ calls'[c].queue = calls[c].queue
<1>1. calls \in [Call -> CallState] /\ calls[c] \in CallState
    BY DEF TypeOK
<1>2. /\ calls[c].pc = "export"
      /\ \E pc \in {"write", "export"} :
            calls' = [calls EXCEPT ![c] =
               [@ EXCEPT !.read = [calls[c].read EXCEPT ![t] = data[t]],
                         !.pc = pc]]
    BY DEF ReadTable, At
<1>3. PICK pc \in {"write", "export"} :
         calls' = [calls EXCEPT ![c] =
            [@ EXCEPT !.read = [calls[c].read EXCEPT ![t] = data[t]], !.pc = pc]]
    BY <1>2
<1> QED
    BY <1>1, <1>2, <1>3 DEF CallState

\* The snapshot of a restore is asked for as a protected backup.
LEMMA LoadEffect ==
    ASSUME TypeOK, NEW c \in Call, Load(c), ~End(c)
    PROVE  /\ calls[c].pc = "load" /\ calls'[c].pc \in {"mark", "insert"}
           /\ calls'[c].op = calls[c].op /\ calls'[c].id = calls[c].id
           /\ calls'[c].name = calls[c].name
           /\ calls'[c].queue = calls[c].queue
           /\ calls'[c].pc = "insert" =>
                 calls'[c].type = "PRE_RESTORE" /\ calls'[c].isProtected
<1>1. calls \in [Call -> CallState] /\ calls[c] \in CallState
    BY DEF TypeOK
<1>2. PICK skip \in BOOLEAN :
         calls' = [calls EXCEPT ![c] =
            [@ EXCEPT !.payload = files[calls[c].name].tables,
                      !.pc = IF skip THEN "mark" ELSE "insert",
                      !.type = IF skip THEN calls[c].type ELSE "PRE_RESTORE",
                      !.isProtected = ~skip]]
    BY DEF Load
<1>3. calls[c].pc = "load"
    BY DEF Load, At
<1> QED
    BY <1>1, <1>2, <1>3 DEF CallState

LEMMA ListedEffect ==
    ASSUME TypeOK, NEW c \in Call, ListScheduled(c), calls'[c].pc = "unlink"
    PROVE  /\ calls[c].pc = "list"
           /\ calls'[c].op = calls[c].op /\ calls'[c].id = calls[c].id
           /\ calls'[c].name = calls[c].name
<1>1. calls \in [Call -> CallState] /\ calls[c] \in CallState
    BY DEF TypeOK
<1>2. ~End(c)
    BY <1>1, EndType DEF IdleCall
<1>3. PICK q \in SUBSET Victim :
         calls' = [calls EXCEPT ![c] = [@ EXCEPT !.pc = "unlink", !.queue = q]]
    BY <1>2, ListEffect
<1>4. calls[c].pc = "list"
    BY DEF ListScheduled, At
<1> QED
    BY <1>1, <1>3, <1>4 DEF CallState

-----------------------------------------------------------------------------
(* What a restore says of itself.                                          *)

\* The call that is about to write RESTORED has committed its transaction.
CommitInv ==
    /\ \A c \in Call : calls[c].pc = "restored" =>
                          calls[c].target \in history.committed
    /\ RestoredIsTrue

LEMMA CommitInit == Init => CommitInv
BY DEF Init, CommitInv, RestoredIsTrue, IdleCall

LEMMA CommitNext == TypeOK /\ CommitInv /\ [Next]_vars => CommitInv'
<1> SUFFICES ASSUME TypeOK, CommitInv, [Next]_vars PROVE CommitInv'
    OBVIOUS
<1> USE DEF CommitInv
<1>1. ASSUME NEW c \in Call, Insert(c) PROVE CommitInv'
    <2>1. \A d \in Call \ {c} : calls'[d] = calls[d]
        BY <1>1, OthersKept DEF Step
    <2> QED
        BY <1>1, <2>1, InsertEffect DEF RestoredIsTrue
<1>2. ASSUME NEW c \in Call, Step(c), ~Insert(c) PROVE CommitInv'
    <2>1. HistoryGrows
        BY <1>2, HistoryStep
    <2>2. \A d \in Call \ {c} : calls'[d] = calls[d]
        BY <1>2, OthersKept
    <2>3. ASSUME calls'[c].pc = "restored"
          PROVE  calls'[c].target \in history'.committed
        <3>1. Transact(c) /\ SameLocals(c)
            <4>1. ~Load(c)
                BY <2>3, EndType, LoadEffect DEF TypeOK, IdleCall
            <4>2. ASSUME NEW t \in Table PROVE ~ReadTable(c, t)
                BY <2>3, <4>2, ReadEffect
            <4> QED
                BY <1>2, <2>3, <4>1, <4>2, CallStep, BeginEffect DEF IdleCall
        <3>2. history'.committed = history.committed \cup {calls[c].target}
            BY <3>1 DEF Transact, TypeOK, History
        <3> QED
            BY <3>1, <3>2 DEF SameLocals
    <2>4. ASSUME NEW i \in DOMAIN rows', rows'[i].status = "RESTORED"
          PROVE  i \in history'.committed
        <3>1. i \in DOMAIN rows
            BY <1>2, RowsShrink
        <3>2. CASE Restored(c) /\ i = calls[c].target
            BY <2>1, <3>2 DEF Restored, At, HistoryGrows
        <3>3. CASE rows'[i].status = rows[i].status
            BY <2>1, <2>4, <3>1, <3>3 DEF RestoredIsTrue, HistoryGrows
        <3> QED
            BY <1>2, <2>4, <3>2, <3>3, StatusStep
    <2> QED
        BY <2>1, <2>2, <2>3, <2>4 DEF RestoredIsTrue, HistoryGrows
<1>3. ASSUME NEW i \in DOMAIN rows, Protect(i) PROVE CommitInv'
    BY <1>3, ProtectEffect DEF RestoredIsTrue
<1>4. CASE Crash
    BY <1>4, CrashEffect DEF RestoredIsTrue, IdleCall
<1>5. CASE UNCHANGED <<rows, files, calls, nextId, history>>
    BY <1>5 DEF RestoredIsTrue
<1> QED
    BY <1>1, <1>2, <1>3, <1>4, <1>5, NextKinds

\* RESTORED is said only of a backup whose transaction committed.
THEOREM RestoredIsTrueAlways == Spec => []RestoredIsTrue
<1>1. CommitInv => RestoredIsTrue
    BY DEF CommitInv
<1> QED
    BY <1>1, TypeInvariant, CommitInit, CommitNext, PTL DEF Spec
-----------------------------------------------------------------------------
(* What stands for the dump of a completed backup.                         *)

\* The deletion that has removed the file of that name and not yet the row.
Unlinked(n) ==
    \E c \in Call : /\ calls[c].pc = "drop"
                    /\ \E v \in calls[c].queue : Foremost(c, v) /\ v.name = n
Accounted(i) ==
    \/ rows[i].name \in DOMAIN files
    \/ Unlinked(rows[i].name)
    \/ i \in history.raced \cup history.stranded

\* A row of a name that is about to be deleted is the victim's own, or came
\* when the deletion was under way.  What is completed, or about to be, is
\* accounted for: a deletion that has only been decided has taken nothing yet.
VictimsOwn ==
    \A c \in Call : \A v \in calls[c].queue : \A i \in DOMAIN rows :
        rows[i].name = v.name => i = v.id \/ i \in history.raced
Completing(i) == \E c \in Call : calls[c].pc = "complete" /\ calls[c].id = i
StandInv ==
    /\ VictimsOwn
    /\ \A i \in DOMAIN rows :
          rows[i].status = "COMPLETED" \/ Completing(i) => Accounted(i)

LEMMA VictimsFound ==
    ASSUME TypeOK, NEW c \in Call, Step(c), NEW d \in Call,
           NEW v \in calls'[d].queue, v \notin calls[d].queue
    PROVE  /\ v.id \in DOMAIN rows /\ v.name = rows[v.id].name
           /\ UNCHANGED <<rows, files, history>>
<1>1. calls \in [Call -> CallState]
    BY DEF TypeOK
<1>2. d = c
    BY OthersKept
<1>3. CASE BeginDelete(c)
    <2>1. PICK i \in DOMAIN rows :
             calls' = [calls EXCEPT ![c] =
                [IdleCall EXCEPT !.pc = "unlink", !.op = "delete",
                                 !.queue = {[id |-> i, name |-> rows[i].name]}]]
        BY <1>3 DEF BeginDelete
    <2>2. calls'[c].queue = {[id |-> i, name |-> rows[i].name]}
        BY <1>1, <2>1 DEF IdleCall
    <2> QED
        BY <1>2, <1>3, <2>2 DEF BeginDelete
<1>4. CASE ListScheduled(c)
    <2>1. ~End(c)
        BY <1>1, <1>2, EndType DEF IdleCall
    <2>2. PICK q \in SUBSET Victim :
             /\ calls' = [calls EXCEPT ![c] =
                            [@ EXCEPT !.pc = "unlink", !.queue = q]]
             /\ \A w \in q : /\ w.id \in DOMAIN rows
                             /\ w.name = rows[w.id].name
                             /\ ~rows[w.id].isProtected
        BY <1>4, <2>1, ListEffect
    <2>3. calls'[c].queue = q
        BY <1>1, <2>2 DEF CallState
    <2> QED
        BY <1>2, <1>4, <2>2, <2>3 DEF ListScheduled
<1> QED
    BY <1>3, <1>4, QueuesShrink

\* The end of a deletion: the row goes with its file, or is remembered.
LEMMA DropEffect ==
    ASSUME TypeOK, NEW c \in Call, Drop(c) \/ DropFails(c)
    PROVE  \E v \in calls[c].queue :
              /\ calls[c].pc = "drop" /\ Foremost(c, v) /\ files' = files
              /\ v.id \notin DOMAIN rows' \/ v.id \in history'.stranded
<1>1. history \in History /\ calls[c].pc = "drop" /\ files' = files
    BY DEF TypeOK, Drop, DropFails, At
<1>2. CASE Drop(c)
    <2>1. PICK v \in calls[c].queue : Foremost(c, v) /\ rows' = Without(rows, v.id)
        BY <1>2 DEF Drop
    <2> QED
        BY <1>1, <2>1 DEF Without
<1>3. CASE DropFails(c)
    <2>1. PICK v \in calls[c].queue :
             /\ Foremost(c, v)
             /\ history' = [history EXCEPT !.stranded = @ \cup {v.id}]
        BY <1>3 DEF DropFails
    <2>2. v.id \in history'.stranded
        BY <1>1, <2>1 DEF History
    <2> QED
        BY <1>1, <2>1, <2>2
<1> QED
    BY <1>2, <1>3

LEMMA DropNext ==
    ASSUME NEW c \in Call, Step(c), calls[c].pc = "drop"
    PROVE  Drop(c) \/ DropFails(c)
BY DEF Step, BeginCreate, Insert, InsertFails, ReadTable, WriteFile, Complete,
       CreationThrows, CreationFails, BeginDelete, Unlink, UnlinkFails,
       BeginRestore, Load, Mark, Transact, RestoreThrows, Restored,
       RestoreFails, BeginCheck, ListScheduled, At

LEMMA UnlinkedKept ==
    ASSUME TypeOK, NEW c \in Call, Step(c), ~Drop(c), ~DropFails(c), NEW n,
           Unlinked(n)
    PROVE  Unlinked(n)'
<1>1. PICK d \in Call : /\ calls[d].pc = "drop"
                        /\ \E v \in calls[d].queue : Foremost(d, v) /\ v.name = n
    BY DEF Unlinked
<1>2. calls'[d] = calls[d]
    BY <1>1, DropNext, OthersKept
<1> QED
    BY <1>1, <1>2 DEF Unlinked, Foremost

LEMMA StandInit == Init => StandInv
BY DEF Init, StandInv, VictimsOwn, IdleCall

LEMMA VictimsOwnNext ==
    TypeOK /\ KeepInv /\ VictimsOwn /\ [Next]_vars => VictimsOwn'
<1> SUFFICES ASSUME TypeOK, KeepInv, VictimsOwn, [Next]_vars PROVE VictimsOwn'
    OBVIOUS
<1>1. ASSUME NEW c \in Call, Insert(c) PROVE VictimsOwn'
    BY <1>1, InsertEffect DEF VictimsOwn, DeletionOf
<1>2. ASSUME NEW c \in Call, Step(c), ~Insert(c) PROVE VictimsOwn'
    <2> SUFFICES ASSUME NEW d \in Call, NEW v \in calls'[d].queue,
                        NEW i \in DOMAIN rows', rows'[i].name = v.name
                 PROVE  i = v.id \/ i \in history'.raced
        BY DEF VictimsOwn
    <2>1. /\ i \in DOMAIN rows /\ rows[i].name = v.name
          /\ history'.raced = history.raced
        BY <1>2, RowsShrink
    <2>2. CASE v \in calls[d].queue
        BY <2>1, <2>2 DEF VictimsOwn
    <2>3. CASE v \notin calls[d].queue
        BY <1>2, <2>1, <2>3, VictimsFound DEF KeepInv, NamesUnique
    <2> QED
        BY <2>2, <2>3
<1>3. ASSUME NEW i \in DOMAIN rows, Protect(i) PROVE VictimsOwn'
    BY <1>3, ProtectEffect DEF VictimsOwn, HistoryGrows
<1>4. CASE Crash
    BY <1>4, CrashEffect DEF VictimsOwn, IdleCall
<1>5. CASE UNCHANGED <<rows, files, calls, nextId, history>>
    BY <1>5 DEF VictimsOwn
<1> QED
    BY <1>1, <1>2, <1>3, <1>4, <1>5, NextKinds

LEMMA StandNext ==
    TypeOK /\ KeepInv /\ DumpInv /\ StandInv /\ [Next]_vars => StandInv'
<1> SUFFICES ASSUME TypeOK, KeepInv, DumpInv, StandInv, [Next]_vars
             PROVE  StandInv'
    OBVIOUS
<1> USE DEF StandInv
<1> DEFINE Stands(i) ==
       rows[i].status = "COMPLETED" \/ Completing(i) => Accounted(i)
<1>1. VictimsOwn'
    BY VictimsOwnNext
<1>2. \A c \in Call : \A v, w \in calls[c].queue :
         Foremost(c, v) /\ Foremost(c, w) => v.id = w.id
    <2>1. \A c \in Call : \A v \in calls[c].queue : v.id \in Nat
        BY DEF TypeOK, CallState, Victim
    <2>2. \A m, k \in Nat : m <= k /\ k <= m => m = k
        OBVIOUS
    <2> QED
        BY <2>1, <2>2 DEF Foremost
<1>3. ASSUME NEW c \in Call, Insert(c), NEW i \in DOMAIN rows' PROVE Stands(i)'
    <2>1. \A d \in Call \ {c} : calls'[d] = calls[d]
        BY <1>3, OthersKept DEF Step
    <2>2. ~Drop(c) /\ ~DropFails(c) /\ Step(c)
        BY <1>3 DEF Insert, Drop, DropFails, At, Step
    <2>3. CASE i = nextId
        <3>1. ASSUME NEW d \in Call, calls'[d].pc = "complete" PROVE calls'[d].id # i
            <4>1. d # c
                BY <1>3, <3>1, InsertEffect
            <4>2. calls[d].pc = "complete" /\ calls'[d].id = calls[d].id
                BY <2>1, <3>1, <4>1
            <4>3. calls[d].id \in Nat /\ nextId \in Nat /\ calls[d].id < nextId
                BY <4>2 DEF DumpInv, MakersKnown, MakerPlace, TypeOK, CallState
            <4> QED
                BY <2>3, <4>2, <4>3
        <3> QED
            BY <1>3, <2>3, <3>1, InsertEffect DEF Completing
    <2>4. CASE i # nextId
        <3>1. i \in DOMAIN rows /\ rows'[i] = rows[i]
            BY <1>3, <2>4, InsertEffect
        <3>2. ASSUME Completing(i)' PROVE Completing(i)
            BY <1>3, <2>1, <3>2, InsertEffect DEF Completing
        <3>3. ASSUME Accounted(i) PROVE Accounted(i)'
            BY <1>3, <2>2, <3>1, <3>3, InsertEffect, UnlinkedKept DEF Accounted
        <3> QED
            BY <3>1, <3>2, <3>3
    <2> QED
        BY <2>3, <2>4
<1>4. ASSUME NEW c \in Call, Step(c), ~Insert(c), NEW i \in DOMAIN rows'
      PROVE  Stands(i)'
    <2> SUFFICES ASSUME rows'[i].status = "COMPLETED" \/ Completing(i)'
                 PROVE  Accounted(i)'
        OBVIOUS
    <2>1. i \in DOMAIN rows /\ rows'[i].name = rows[i].name
        BY <1>4, RowsShrink
    <2>2. HistoryGrows
        BY <1>4, HistoryStep
    <2> PICK n : n = rows[i].name
        OBVIOUS
    <2>3. CASE WriteFile(c) /\ calls[c].id = i
        <3>1. rows[i].name = calls[c].name
            BY <2>1, <2>3
            DEF WriteFile, At, DumpInv, MakersKnown, MakerPlace
        <3>2. rows[i].name \in DOMAIN files'
            BY <2>3, <3>1 DEF WriteFile, With
        <3> QED
            BY <2>1, <3>2 DEF Accounted
    <2>4. CASE ~(WriteFile(c) /\ calls[c].id = i)
        <3>1. ASSUME Completing(i)' PROVE Completing(i)
            <4>1. PICK d \in Call : calls'[d].pc = "complete" /\ calls'[d].id = i
                BY <3>1 DEF Completing
            <4>2. calls[d].id = i /\ (~WriteFile(c) => calls[d].pc = "complete")
                BY <1>4, <4>1, MakersShrink DEF MakerPlace
            <4>3. WriteFile(c) => d # c
                BY <2>4, <4>2
            <4>4. calls[d].pc = "complete"
                BY <1>4, <4>1, <4>2, <4>3, OthersKept
            <4> QED
                BY <4>2, <4>4 DEF Completing
        <3>2. ASSUME rows'[i].status = "COMPLETED"
              PROVE  rows[i].status = "COMPLETED" \/ Completing(i)
            BY <1>4, <3>2, StatusStep DEF Complete, At, Completing
        <3>3. Accounted(i)
            BY <2>1, <3>1, <3>2
        <3>4. CASE Drop(c) \/ DropFails(c)
            <4>1. PICK v \in calls[c].queue :
                     /\ calls[c].pc = "drop" /\ Foremost(c, v) /\ files' = files
                     /\ v.id \notin DOMAIN rows' \/ v.id \in history'.stranded
                BY <3>4, DropEffect
            <4>2. ASSUME Unlinked(rows[i].name), ~Unlinked(rows[i].name)'
                  PROVE  i \in history'.raced \cup history'.stranded
                <5>1. PICK d \in Call :
                         /\ calls[d].pc = "drop"
                         /\ \E w \in calls[d].queue :
                               Foremost(d, w) /\ w.name = rows[i].name
                    BY <4>2 DEF Unlinked
                <5>2. d = c
                    <6>1. ASSUME calls'[d] = calls[d]
                          PROVE  \E w \in calls'[d].queue :
                                    Foremost(d, w)' /\ w.name = rows'[i].name
                        BY <2>1, <5>1, <6>1 DEF Foremost
                    <6> QED
                        BY <1>4, <2>1, <4>2, <5>1, <6>1, OthersKept DEF Unlinked
                <5>3. PICK w \in calls[c].queue :
                         Foremost(c, w) /\ w.name = rows[i].name
                    BY <5>1, <5>2
                <5>4. i = w.id \/ i \in history.raced
                    BY <2>1, <5>3 DEF VictimsOwn
                <5>5. w.id = v.id
                    BY <1>2, <4>1, <5>3
                <5> QED
                    BY <2>2, <4>1, <5>4, <5>5 DEF HistoryGrows
            <4> QED
                BY <2>1, <2>2, <3>3, <4>1, <4>2 DEF Accounted, HistoryGrows
        <3>5. CASE Unlink(c)
            <4>1. PICK v \in calls[c].queue :
                     Foremost(c, v) /\ files' = Without(files, v.name)
                BY <3>5 DEF Unlink
            <4>2. calls'[c].pc = "drop" /\ calls'[c].queue = calls[c].queue
                BY <3>5, GotoType DEF Unlink, TypeOK, Place
            <4>3. Unlinked(v.name)'
                <5>1. Foremost(c, v)' /\ v \in calls'[c].queue
                    BY <4>1, <4>2 DEF Foremost
                <5> QED
                    BY <4>2, <5>1 DEF Unlinked
            <4>4. \A f \in DOMAIN files : f \in DOMAIN files' \/ f = v.name
                BY <4>1 DEF Without
            <4>5. ~Drop(c) /\ ~DropFails(c)
                BY <3>5 DEF Unlink, Drop, DropFails, At
            <4>6. Unlinked(n) => Unlinked(n)'
                BY <1>4, <4>5, UnlinkedKept
            <4>7. ASSUME rows[i].name \in DOMAIN files
                  PROVE  Accounted(i)'
                BY <2>1, <4>3, <4>4, <4>7 DEF Accounted
            <4> QED
                BY <2>1, <2>2, <3>3, <4>6, <4>7 DEF Accounted, HistoryGrows
        <3>6. CASE ~Drop(c) /\ ~DropFails(c) /\ ~Unlink(c)
            <4>1. DOMAIN files \subseteq DOMAIN files'
                BY <1>4, <3>6, FilesStep DEF WriteFile, CreationThrows, With
            <4>2. Unlinked(n) => Unlinked(n)'
                BY <1>4, <3>6, UnlinkedKept
            <4> QED
                BY <2>1, <2>2, <3>3, <4>1, <4>2 DEF Accounted, HistoryGrows
        <3> QED
            BY <3>4, <3>5, <3>6
    <2> QED
        BY <2>3, <2>4
<1>5. ASSUME NEW j \in DOMAIN rows, Protect(j), NEW i \in DOMAIN rows'
      PROVE  Stands(i)'
    BY <1>5, ProtectEffect
    DEF Accounted, Unlinked, Foremost, Completing, HistoryGrows
<1>6. ASSUME Crash, NEW i \in DOMAIN rows' PROVE Stands(i)'
    <2>1. rows' = rows /\ files' = files /\ HistoryGrows
        BY <1>6, CrashEffect
    <2>2. ~Completing(i)'
        BY <1>6, CrashEffect DEF Completing, IdleCall
    <2>3. ASSUME Unlinked(rows[i].name)
          PROVE  i \in history'.raced \cup history'.stranded
        <3>1. PICK c \in Call :
                 /\ calls[c].pc = "drop"
                 /\ \E v \in calls[c].queue : Foremost(c, v) /\ v.name = rows[i].name
            BY <2>3 DEF Unlinked
        <3>2. PICK v \in calls[c].queue : Foremost(c, v) /\ v.name = rows[i].name
            BY <3>1
        <3>3. i = v.id \/ i \in history.raced
            BY <2>1, <3>2 DEF VictimsOwn
        <3> QED
            BY <1>6, <2>1, <3>1, <3>2, <3>3, CrashEffect DEF HistoryGrows
    <2> QED
        BY <2>1, <2>2, <2>3 DEF Accounted, HistoryGrows
<1>7. ASSUME UNCHANGED <<rows, files, calls, nextId, history>>,
             NEW i \in DOMAIN rows'
      PROVE  Stands(i)'
    BY <1>7 DEF Accounted, Unlinked, Foremost, Completing
<1>8. \A i \in DOMAIN rows' : Stands(i)'
    BY <1>3, <1>4, <1>5, <1>6, <1>7, NextKinds
<1> QED
    BY <1>1, <1>8

\* The file of a completed backup is there, or a deletion has just removed
\* it, ended half-way, or was under way before the row was.
THEOREM CompletedHasDumpAlways == Spec => []CompletedHasDump
<1>1. StandInv => CompletedHasDump
    BY DEF StandInv, CompletedHasDump, Accounted, Unlinked, DeletionOf
<1> QED
    BY <1>1, KeepInvariant, DumpInit, DumpNext, StandInit, StandNext, PTL
    DEF Spec
-----------------------------------------------------------------------------
(* The snapshot of a restore.                                              *)

SnapName(k) == <<"pre-restore", k>>

\* A row with the name of a snapshot is the snapshot of its own number, and
\* protected from the moment it was made until somebody lifts that.
Snapshots ==
    \A i \in DOMAIN rows, k \in Nat :
        rows[i].name = SnapName(k) =>
            /\ k = i
            /\ rows[i].isProtected \/ i \in history.lifted
            /\ i \in history.raced => i \in history.lifted
SnapVictims ==
    \A c \in Call : \A v \in calls[c].queue : \A k \in Nat :
        v.name = SnapName(k) => k = v.id

\* No two calls have made the same row, and a call that has not come to its
\* insertion has made none.
IdsDistinct ==
    /\ \A i \in history.raced : i < nextId
    /\ \A c \in Call : calls[c].id < nextId
    /\ \A c \in Call : calls[c].pc \in {"load", "insert"} => calls[c].id = 0
    /\ \A c, d \in Call : calls[c].id = calls[d].id => c = d \/ calls[c].id = 0
Inserting ==
    \A c \in Call : calls[c].pc = "insert" =>
        IF calls[c].type = "PRE_RESTORE" THEN calls[c].isProtected
        ELSE calls[c].op # "restore" /\ \A k : calls[c].name # SnapName(k)
MakersNamed ==
    \A c \in Call : calls[c].pc \in MakerPlace =>
        \A k \in Nat : calls[c].name = SnapName(k) => k = calls[c].id

\* The snapshot of a restore, from its row on and from its file on.
Written(c) == calls[c].pc \in {"complete", "mark", "transaction", "restored"}
Held(c) ==
    calls[c].op = "restore" /\ calls[c].id # 0
        /\ (calls[c].pc \in MakerPlace \/ Written(c)) =>
        /\ calls[c].name = SnapName(calls[c].id)
        /\ calls[c].id \notin history.lifted =>
              /\ calls[c].id \in DOMAIN rows
              /\ rows[calls[c].id].name = calls[c].name
              /\ Written(c) =>
                    /\ calls[c].name \in DOMAIN files
                    /\ files[calls[c].name] =
                          [by |-> calls[c].id, tables |-> calls[c].read]
SnapInv == /\ Snapshots /\ SnapVictims /\ IdsDistinct /\ Inserting /\ MakersNamed
           /\ \A c \in Call : Held(c)

LEMMA SnapInit == Init => SnapInv
<1> SUFFICES ASSUME Init PROVE SnapInv
    OBVIOUS
<1>1. DOMAIN rows = {} /\ nextId = 1 /\ history.raced = {}
    BY DEF Init
<1>2. \A c \in Call : /\ calls[c].pc = "idle" /\ calls[c].id = 0
                      /\ calls[c].op = "none" /\ calls[c].queue = {}
    BY DEF Init, IdleCall
<1> QED
    BY <1>1, <1>2
    DEF SnapInv, Snapshots, SnapVictims, IdsDistinct, Inserting, MakersNamed,
        Held, MakerPlace

LEMMA InsertedName ==
    ASSUME TypeOK, Inserting, NEW c \in Call, calls[c].pc = "insert",
           NEW k \in Nat, NameOf(c) = SnapName(k)
    PROVE  calls[c].type = "PRE_RESTORE" /\ calls[c].isProtected /\ k = nextId
<1>1. calls[c].type = "PRE_RESTORE"
    BY DEF Inserting, NameOf
<1>2. calls[c].isProtected
    BY <1>1 DEF Inserting
<1>3. <<"pre-restore", nextId>> = <<"pre-restore", k>>
    BY <1>1 DEF NameOf, SnapName
<1>4. \A m : <<"pre-restore", m>>[2] = m
    OBVIOUS
<1>5. k = nextId
    BY <1>3, <1>4
<1> QED
    BY <1>1, <1>2, <1>5

LEMMA SnapshotsNext ==
    TypeOK /\ KeepInv /\ SnapInv /\ [Next]_vars => Snapshots'
<1> SUFFICES ASSUME TypeOK, KeepInv, SnapInv, [Next]_vars,
                    NEW i \in DOMAIN rows', NEW k \in Nat,
                    rows'[i].name = SnapName(k)
             PROVE  /\ k = i
                    /\ rows'[i].isProtected \/ i \in history'.lifted
                    /\ i \in history'.raced => i \in history'.lifted
    BY DEF Snapshots
<1> USE DEF SnapInv
<1>1. ASSUME NEW c \in Call, Insert(c), i = nextId
      PROVE  k = i /\ rows'[i].isProtected /\ i \notin history'.raced
    <2>1. k = nextId /\ calls[c].isProtected /\ NameOf(c) = SnapName(nextId)
        BY <1>1, InsertEffect, InsertedName
    <2>2. nextId \notin history.raced
        BY <1>1, InsertEffect DEF IdsDistinct
    <2>3. ~DeletionOf(NameOf(c))
        <3> SUFFICES ASSUME NEW d \in Call, NEW v \in calls[d].queue,
                            v.name = SnapName(nextId)
                     PROVE  FALSE
            BY <2>1 DEF DeletionOf
        <3>1. v.id = nextId /\ v.id < nextId /\ nextId \in Nat
            BY <1>1, InsertEffect DEF SnapVictims, KeepInv, VictimsKnown
        <3> QED
            BY <3>1
    <2> QED
        BY <1>1, <2>1, <2>2, <2>3, InsertEffect
<1>2. ASSUME i \in DOMAIN rows, rows'[i].name = rows[i].name,
             rows'[i].isProtected = rows[i].isProtected,
             history.lifted \subseteq history'.lifted,
             i \in history'.raced => i \in history.raced
      PROVE  /\ k = i
             /\ rows'[i].isProtected \/ i \in history'.lifted
             /\ i \in history'.raced => i \in history'.lifted
    BY <1>2 DEF Snapshots
<1>3. ASSUME NEW c \in Call, Insert(c), i # nextId
      PROVE  /\ i \in DOMAIN rows /\ rows'[i] = rows[i]
             /\ history.lifted \subseteq history'.lifted
             /\ i \in history'.raced => i \in history.raced
    BY <1>3, InsertEffect
<1>4. ASSUME NEW c \in Call, Step(c), ~Insert(c)
      PROVE  /\ i \in DOMAIN rows /\ rows'[i].name = rows[i].name
             /\ rows'[i].isProtected = rows[i].isProtected
             /\ history.lifted \subseteq history'.lifted
             /\ i \in history'.raced => i \in history.raced
    BY <1>4, RowsShrink, HistoryStep DEF HistoryGrows
<1>5. ASSUME NEW j \in DOMAIN rows, Protect(j)
      PROVE  /\ k = i
             /\ rows'[i].isProtected \/ i \in history'.lifted
             /\ i \in history'.raced => i \in history'.lifted
    <2>1. /\ i \in DOMAIN rows /\ rows'[i].name = rows[i].name
          /\ history.lifted \subseteq history'.lifted
        BY <1>5, ProtectEffect DEF HistoryGrows
    <2>2. CASE i # j
        BY <1>2, <1>5, <2>1, <2>2, ProtectEffect
    <2>3. CASE i = j
        <3>1. /\ i \in history'.raced \ history.raced => ~rows[i].isProtected
              /\ rows'[i].isProtected \/ i \in history'.lifted
            BY <1>5, <2>3, ProtectEffect
        <3>2. /\ k = i
              /\ rows[i].isProtected \/ i \in history.lifted
              /\ i \in history.raced => i \in history.lifted
            BY <2>1 DEF Snapshots
        <3> QED
            BY <2>1, <3>1, <3>2
    <2> QED
        BY <2>2, <2>3
<1>6. CASE Crash
    BY <1>2, <1>6, CrashEffect DEF HistoryGrows
<1>7. CASE UNCHANGED <<rows, files, calls, nextId, history>>
    BY <1>2, <1>7
<1> QED
    BY <1>1, <1>2, <1>3, <1>4, <1>5, <1>6, <1>7, NextKinds

LEMMA SnapVictimsNext ==
    TypeOK /\ SnapInv /\ [Next]_vars => SnapVictims'
<1> SUFFICES ASSUME TypeOK, SnapInv, [Next]_vars PROVE SnapVictims'
    OBVIOUS
<1> USE DEF SnapInv
<1>1. ASSUME NEW c \in Call, Step(c) PROVE SnapVictims'
    <2> SUFFICES ASSUME NEW d \in Call, NEW v \in calls'[d].queue, NEW k \in Nat,
                        v.name = SnapName(k)
                 PROVE  k = v.id
        BY DEF SnapVictims
    <2>1. CASE v \in calls[d].queue
        BY <2>1 DEF SnapVictims
    <2>2. CASE v \notin calls[d].queue
        BY <1>1, <2>2, VictimsFound DEF Snapshots
    <2> QED
        BY <2>1, <2>2
<1>2. ASSUME calls' = calls PROVE SnapVictims'
    BY <1>2 DEF SnapVictims
<1>3. CASE Crash
    BY <1>3, CrashEffect DEF SnapVictims, IdleCall
<1> QED
    BY <1>1, <1>2, <1>3, NextKinds, ProtectEffect

\* A call's number changes with Insert, and at its end.
LEMMA IdStep ==
    ASSUME TypeOK, NEW c \in Call, Step(c), ~Insert(c)
    PROVE  /\ calls'[c].id \in {0, calls[c].id}
           /\ calls'[c].pc \in {"load", "insert"} =>
                 calls'[c].id = 0 \/ calls[c].pc = "load"
           /\ calls'[c].pc = "insert" =>
                 IF calls'[c].type = "PRE_RESTORE" THEN calls'[c].isProtected
                 ELSE calls'[c].op # "restore" /\ \A k : calls'[c].name # SnapName(k)
<1>1. calls \in [Call -> CallState]
    BY DEF TypeOK
<1>2. CASE BeginCreate(c) \/ BeginDelete(c) \/ BeginRestore(c) \/ BeginCheck(c)
    BY <1>2, BeginEffect DEF SnapName
<1>3. CASE calls'[c] = IdleCall
    BY <1>3 DEF IdleCall
<1>4. CASE Load(c)
    BY <1>1, <1>3, <1>4, LoadEffect, EndType
<1>5. ASSUME NEW t \in Table, ReadTable(c, t)
      PROVE  calls'[c].id = calls[c].id /\ calls'[c].pc \in {"export", "write"}
    BY <1>5, ReadEffect
<1>6. CASE ListScheduled(c) /\ calls'[c].pc = "unlink"
    BY <1>6, ListedEffect
<1>7. CASE SameLocals(c) /\ calls'[c].pc \notin {"load", "insert"}
    BY <1>7 DEF SameLocals
<1> QED
    BY <1>2, <1>3, <1>4, <1>5, <1>6, <1>7, CallStep

LEMMA IdsNext == TypeOK /\ SnapInv /\ [Next]_vars => IdsDistinct' /\ Inserting'
<1> SUFFICES ASSUME TypeOK, SnapInv, [Next]_vars PROVE IdsDistinct' /\ Inserting'
    OBVIOUS
<1> USE DEF SnapInv
<1>1. nextId \in Nat \ {0} /\ \A d \in Call : calls[d].id \in Nat
    BY DEF TypeOK, CallState
<1>2. history.raced \subseteq Nat
    BY DEF TypeOK, History
<1>3. ASSUME NEW c \in Call, Insert(c) PROVE IdsDistinct' /\ Inserting'
    <2>1. \A d \in Call \ {c} : calls'[d] = calls[d]
        BY <1>3, OthersKept DEF Step
    <2>2. /\ calls'[c].pc = "export" /\ calls'[c].id = nextId
          /\ nextId' = nextId + 1 /\ history'.raced \subseteq history.raced \cup {nextId}
        BY <1>3, InsertEffect
    <2>3. IdsDistinct'
        BY <1>1, <1>2, <2>1, <2>2 DEF IdsDistinct
    <2>4. Inserting'
        BY <2>1, <2>2 DEF Inserting
    <2> QED
        BY <2>3, <2>4
<1>4. ASSUME NEW c \in Call, Step(c), ~Insert(c) PROVE IdsDistinct' /\ Inserting'
    <2>1. \A d \in Call \ {c} : calls'[d] = calls[d]
        BY <1>4, OthersKept
    <2>2. nextId' = nextId /\ history'.raced = history.raced
        BY <1>4, RowsShrink
    <2>3. calls'[c].id \in {0, calls[c].id}
        BY <1>4, IdStep
    <2>4. calls'[c].pc \in {"load", "insert"} => calls'[c].id = 0
        BY <1>4, <2>3, IdStep DEF IdsDistinct
    <2>5. IdsDistinct'
        BY <1>1, <2>1, <2>2, <2>3, <2>4 DEF IdsDistinct
    <2>6. Inserting'
        BY <1>4, <2>1, IdStep DEF Inserting
    <2> QED
        BY <2>5, <2>6
<1>5. ASSUME NEW i \in DOMAIN rows, Protect(i) PROVE IdsDistinct' /\ Inserting'
    <2>1. /\ calls' = calls /\ nextId' = nextId
          /\ history'.raced \subseteq history.raced \cup {i} /\ i < nextId
        BY <1>5, ProtectEffect, VictimType
    <2> QED
        BY <2>1 DEF IdsDistinct, Inserting
<1>6. CASE Crash
    BY <1>1, <1>6, CrashEffect DEF IdsDistinct, Inserting, IdleCall
<1>7. CASE UNCHANGED <<rows, files, calls, nextId, history>>
    BY <1>7 DEF IdsDistinct, Inserting
<1> QED
    BY <1>3, <1>4, <1>5, <1>6, <1>7, NextKinds

LEMMA MakersNamedNext == TypeOK /\ SnapInv /\ [Next]_vars => MakersNamed'
<1> SUFFICES ASSUME TypeOK, SnapInv, [Next]_vars PROVE MakersNamed'
    OBVIOUS
<1> USE DEF SnapInv
<1>1. ASSUME NEW c \in Call, Insert(c) PROVE MakersNamed'
    <2>1. \A d \in Call \ {c} : calls'[d] = calls[d]
        BY <1>1, OthersKept DEF Step
    <2> QED
        BY <1>1, <2>1, InsertEffect, InsertedName DEF MakersNamed
<1>2. ASSUME NEW c \in Call, Step(c), ~Insert(c) PROVE MakersNamed'
    BY <1>2, MakersShrink DEF MakersNamed
<1>3. ASSUME calls' = calls PROVE MakersNamed'
    BY <1>3 DEF MakersNamed
<1>4. CASE Crash
    BY <1>4, CrashEffect DEF MakersNamed, IdleCall, MakerPlace
<1> QED
    BY <1>1, <1>2, <1>3, <1>4, NextKinds, ProtectEffect
\* Nothing under way reaches a snapshot that is still protected: its row and
\* its file outlive the step.
LEMMA SnapshotKept ==
    ASSUME TypeOK, KeepInv, SnapInv, [Next]_vars, NEW i \in DOMAIN rows,
           rows[i].name = SnapName(i), i \notin history.lifted
    PROVE  /\ i \in DOMAIN rows' /\ rows'[i].name = rows[i].name
           /\ rows[i].name \in DOMAIN files => rows[i].name \in DOMAIN files'
<1>1. i \in Nat
    BY VictimType
<1>2. rows[i].isProtected /\ i \notin history.raced
    BY <1>1 DEF SnapInv, Snapshots
<1>3. ~DeletionOf(rows[i].name)
    BY <1>2 DEF KeepInv, ProtectedUntouched
<1>4. /\ i \in DOMAIN rows'
      /\ rows[i].name \in DOMAIN files => rows[i].name \in DOMAIN files'
    BY <1>3, RemovedByDeletion
<1>5. rows'[i].name = rows[i].name
    <2>1. ASSUME NEW c \in Call, Insert(c) PROVE rows'[i].name = rows[i].name
        BY <2>1, InsertEffect
    <2>2. ASSUME NEW c \in Call, Step(c), ~Insert(c)
          PROVE  rows'[i].name = rows[i].name
        BY <1>4, <2>2, RowsShrink
    <2>3. ASSUME NEW j \in DOMAIN rows, Protect(j)
          PROVE  rows'[i].name = rows[i].name
        BY <2>3, ProtectEffect
    <2> QED
        BY <2>1, <2>2, <2>3, NextKinds, CrashEffect
<1> QED
    BY <1>4, <1>5

\* Only its own call writes the file of a snapshot.
LEMMA SnapshotFileKept ==
    ASSUME TypeOK, SnapInv, NEW c \in Call, Step(c), NEW d \in Call,
           d # c \/ calls[d].pc \notin MakerPlace, calls[d].id # 0,
           calls[d].name = SnapName(calls[d].id),
           calls[d].name \in DOMAIN files, calls[d].name \in DOMAIN files'
    PROVE  files'[calls[d].name] = files[calls[d].name]
<1>1. calls[d].id \in Nat /\ calls[c].id \in Nat
    BY DEF TypeOK, CallState
<1>2. ASSUME calls[c].pc \in MakerPlace PROVE calls[c].name # calls[d].name
    <2>1. SUFFICES ASSUME calls[c].name = SnapName(calls[d].id) PROVE FALSE
        OBVIOUS
    <2>2. calls[c].id = calls[d].id
        BY <1>1, <1>2, <2>1 DEF SnapInv, MakersNamed
    <2> QED
        BY <1>2, <2>2 DEF SnapInv, IdsDistinct
<1>3. CASE WriteFile(c)
    BY <1>2, <1>3 DEF WriteFile, With, At, MakerPlace
<1>4. CASE CreationThrows(c)
    <2>1. calls[c].pc \in MakerPlace
        BY <1>4 DEF CreationThrows, At, MakerPlace
    <2>2. \/ files' = files
          \/ files' = With(files, calls[c].name,
                           [by |-> calls[c].id, tables |-> Blank])
        BY <1>4 DEF CreationThrows
    <2> QED
        BY <1>2, <2>1, <2>2 DEF With
<1>5. CASE Unlink(c)
    BY <1>5 DEF Unlink, Without
<1> QED
    BY <1>3, <1>4, <1>5, FilesStep

\* A call that has a snapshot does not come by another way than the one its
\* snapshot was made on.
LEMMA HolderStep ==
    ASSUME TypeOK, SnapInv, NEW c \in Call, Step(c), ~Insert(c),
           calls'[c].op = "restore", calls'[c].id # 0,
           calls'[c].pc \in MakerPlace \/ Written(c)'
    PROVE  /\ calls[c].op = "restore" /\ calls[c].id # 0
           /\ calls[c].pc \in MakerPlace \/ Written(c)
           /\ calls'[c].id = calls[c].id /\ calls'[c].name = calls[c].name
           /\ Written(c)' =>
                 /\ calls'[c].read = calls[c].read
                 /\ \/ calls[c].pc = "write" /\ WriteFile(c)
                    \/ Written(c)
<1> USE DEF MakerPlace, Written
<1>1. calls'[c] # IdleCall
    BY DEF IdleCall
<1>2. ~(BeginCreate(c) \/ BeginDelete(c) \/ BeginRestore(c) \/ BeginCheck(c))
    BY BeginEffect
<1>3. ~Load(c)
    BY <1>1, EndType, LoadEffect DEF TypeOK, SnapInv, IdsDistinct
<1>4. ~(ListScheduled(c) /\ calls'[c].pc = "unlink")
    OBVIOUS
<1>5. CASE \E t \in Table : ReadTable(c, t)
    BY <1>5, ReadEffect
<1>6. CASE SameLocals(c) /\ WriteFile(c) /\ calls[c].pc = "write"
              /\ calls'[c].pc = "complete"
    BY <1>6 DEF SameLocals
<1>7. CASE SameLocals(c) /\ Complete(c) /\ calls[c].pc = "complete"
              /\ calls'[c].pc \in {"mark", "list"}
    BY <1>7 DEF SameLocals
<1>8. CASE SameLocals(c) /\ calls[c].pc \in {"mark", "transaction"}
              /\ calls'[c].pc \in {"transaction", "restored"}
    BY <1>8 DEF SameLocals
<1>9. CASE SameLocals(c) /\ calls[c].pc \in MakerPlace /\ calls'[c].pc = "fail"
    BY <1>9 DEF SameLocals
<1> QED
    BY <1>1, <1>2, <1>3, <1>4, <1>5, <1>6, <1>7, <1>8, <1>9, CallStep

LEMMA HeldNext ==
    TypeOK /\ KeepInv /\ SnapInv /\ [Next]_vars => \A c \in Call : Held(c)'
<1> SUFFICES ASSUME TypeOK, KeepInv, SnapInv, [Next]_vars, NEW d \in Call
             PROVE  Held(d)'
    OBVIOUS
<1>1. Held(d)
    BY DEF SnapInv
<1>2. ASSUME NEW c \in Call, Insert(c) PROVE Held(d)'
    <2>1. CASE d = c
        <3>1. /\ calls'[d].id = nextId /\ calls'[d].name = NameOf(c)
              /\ calls'[d].pc = "export" /\ calls'[d].op = calls[c].op
              /\ nextId \in DOMAIN rows' /\ rows'[nextId].name = NameOf(c)
              /\ calls[c].pc = "insert"
            BY <1>2, <2>1, InsertEffect
        <3>2. calls[c].op = "restore" => NameOf(c) = SnapName(nextId)
            BY <3>1 DEF SnapInv, Inserting, NameOf, SnapName
        <3> QED
            BY <3>1, <3>2 DEF Held, Written
    <2>2. CASE d # c
        <3>1. calls'[d] = calls[d]
            BY <1>2, <2>2, OthersKept DEF Step
        <3>2. \A i \in DOMAIN rows : i \in DOMAIN rows' /\ rows'[i] = rows[i]
            BY <1>2, InsertEffect
        <3>3. files' = files /\ history'.lifted = history.lifted
            BY <1>2, InsertEffect
        <3> QED
            BY <1>1, <3>1, <3>2, <3>3 DEF Held, Written
    <2> QED
        BY <2>1, <2>2
<1>3. ASSUME NEW c \in Call, Step(c), ~Insert(c) PROVE Held(d)'
    <2> DEFINE id == calls[d].id
    <2> SUFFICES ASSUME calls'[d].op = "restore", calls'[d].id # 0,
                        calls'[d].pc \in MakerPlace \/ Written(d)'
                 PROVE  /\ calls'[d].name = SnapName(calls'[d].id)
                        /\ calls'[d].id \notin history'.lifted =>
                              /\ calls'[d].id \in DOMAIN rows'
                              /\ rows'[calls'[d].id].name = calls'[d].name
                              /\ Written(d)' =>
                                    /\ calls'[d].name \in DOMAIN files'
                                    /\ files'[calls'[d].name] =
                                          [by |-> calls'[d].id,
                                           tables |-> calls'[d].read]
        BY DEF Held
    <2>1. /\ calls[d].op = "restore" /\ calls[d].id # 0
          /\ calls[d].pc \in MakerPlace \/ Written(d)
          /\ calls'[d].id = calls[d].id /\ calls'[d].name = calls[d].name
          /\ Written(d)' =>
                /\ calls'[d].read = calls[d].read
                /\ \/ d = c /\ calls[d].pc = "write" /\ WriteFile(d)
                   \/ Written(d)
        <3>1. CASE d = c
            BY <1>3, <3>1, HolderStep
        <3>2. CASE d # c
            BY <1>3, <3>2, OthersKept DEF Written
        <3> QED
            BY <3>1, <3>2
    <2>2. calls[d].name = SnapName(calls[d].id)
        BY <1>1, <2>1 DEF Held
    <2>3. SUFFICES ASSUME calls[d].id \notin history'.lifted
                   PROVE  /\ calls[d].id \in DOMAIN rows'
                          /\ rows'[calls[d].id].name = calls[d].name
                          /\ Written(d)' =>
                                /\ calls[d].name \in DOMAIN files'
                                /\ files'[calls[d].name] =
                                      [by |-> calls[d].id,
                                       tables |-> calls[d].read]
        BY <2>1, <2>2
    <2>4. calls[d].id \notin history.lifted
        BY <1>3, <2>3, HistoryStep
    <2>5. /\ calls[d].id \in DOMAIN rows
          /\ rows[calls[d].id].name = calls[d].name
          /\ Written(d) => /\ calls[d].name \in DOMAIN files
                           /\ files[calls[d].name] =
                                 [by |-> calls[d].id, tables |-> calls[d].read]
        BY <1>1, <2>1, <2>4 DEF Held
    <2>6. /\ calls[d].id \in DOMAIN rows'
          /\ rows'[calls[d].id].name = calls[d].name
          /\ calls[d].name \in DOMAIN files => calls[d].name \in DOMAIN files'
        BY <2>2, <2>4, <2>5, SnapshotKept
    <2>7. ASSUME Written(d)'
          PROVE  /\ calls[d].name \in DOMAIN files'
                 /\ files'[calls[d].name] =
                       [by |-> calls[d].id, tables |-> calls[d].read]
        <3>1. CASE d = c /\ calls[d].pc = "write" /\ WriteFile(d)
            BY <3>1 DEF WriteFile, With
        <3>2. CASE Written(d)
            <4>1. d # c \/ calls[d].pc \notin MakerPlace
                  \/ files'[calls[d].name] = files[calls[d].name]
                <5>1. ASSUME d = c, calls[d].pc \in MakerPlace
                      PROVE  files' = files
                    <6>1. calls[c].pc = "complete"
                        BY <3>2, <5>1 DEF Written, MakerPlace
                    <6>2. calls'[c].pc # "fail"
                        BY <2>7, <5>1 DEF Written
                    <6>3. ~CreationThrows(c)
                        BY <6>2, GotoType DEF CreationThrows, TypeOK, Place
                    <6>4. ~WriteFile(c) /\ ~Unlink(c)
                        BY <6>1 DEF WriteFile, Unlink, At
                    <6> QED
                        BY <1>3, <6>3, <6>4, FilesStep
                <5> QED
                    BY <5>1
            <4>2. files'[calls[d].name] = files[calls[d].name]
                BY <1>3, <2>1, <2>2, <2>5, <2>6, <3>2, <4>1, SnapshotFileKept
            <4> QED
                BY <2>5, <2>6, <3>2, <4>2
        <3> QED
            BY <2>1, <2>7, <3>1, <3>2
    <2> QED
        BY <2>6, <2>7
<1>4. ASSUME NEW j \in DOMAIN rows, Protect(j) PROVE Held(d)'
    <2>1. /\ calls' = calls /\ files' = files /\ DOMAIN rows' = DOMAIN rows
          /\ \A i \in DOMAIN rows : rows'[i].name = rows[i].name
          /\ history.lifted \subseteq history'.lifted
        BY <1>4, ProtectEffect DEF HistoryGrows
    <2> QED
        BY <1>1, <2>1 DEF Held, Written
<1>5. CASE Crash
    BY <1>5, CrashEffect DEF Held, IdleCall
<1>6. CASE UNCHANGED <<rows, files, calls, nextId, history>>
    BY <1>1, <1>6 DEF Held, Written
<1> QED
    BY <1>2, <1>3, <1>4, <1>5, <1>6, NextKinds

LEMMA SnapNext == TypeOK /\ KeepInv /\ SnapInv /\ [Next]_vars => SnapInv'
BY SnapshotsNext, SnapVictimsNext, IdsNext, MakersNamedNext, HeldNext DEF SnapInv

\* From its last write to the end of the restore, the snapshot is on disk
\* with what it read, unless its protection was lifted.
THEOREM SnapshotHeldAlways == Spec => []SnapshotHeld
<1>1. SnapInv => SnapshotHeld
    BY DEF SnapInv, SnapshotHeld, Held, Written
<1> QED
    BY <1>1, KeepInvariant, SnapInit, SnapNext, PTL DEF Spec
-----------------------------------------------------------------------------
(* Retention.                                                              *)

OldEnough(i) == Cardinality({j \in history.archived : j > i}) >= retentionDaily

\* What the list of the retention finds completed was archived, createBackup
\* knows the type of its row, and a victim of the retention stays too old
\* while its deletion waits: backups are added behind it, never taken away.
ScheduledArchived ==
    \A i \in DOMAIN rows :
        rows[i].type = "SCHEDULED" /\ rows[i].status = "COMPLETED" =>
            i \in history.archived
MakersTyped ==
    \A c \in Call : calls[c].pc \in MakerPlace /\ calls[c].id \in DOMAIN rows =>
        rows[calls[c].id].type = calls[c].type
VictimsOld ==
    \A c \in Call : calls[c].op = "check" =>
        \A v \in calls[c].queue : OldEnough(v.id)
RetentionInv ==
    IsFiniteSet(history.archived) /\ ScheduledArchived /\ MakersTyped /\ VictimsOld

LEMMA ManyMore ==
    ASSUME NEW A, NEW B, A \subseteq B, IsFiniteSet(B), NEW i,
           Cardinality({j \in A : j > i}) >= retentionDaily
    PROVE  Cardinality({j \in B : j > i}) >= retentionDaily
<1> DEFINE a == {j \in A : j > i}
           b == {j \in B : j > i}
<1>1. IsFiniteSet(b) /\ a \subseteq b
    <2>1. b \subseteq B /\ a \subseteq b
        OBVIOUS
    <2> QED
        BY <2>1, FS_Subset
<1>2. /\ Cardinality(a) <= Cardinality(b)
      /\ Cardinality(a) \in Nat /\ Cardinality(b) \in Nat
    BY <1>1, FS_Subset, FS_CardinalityType
<1>3. Cardinality(a) >= retentionDaily
    OBVIOUS
<1> HIDE DEF a, b
<1>4. Cardinality(b) >= retentionDaily
    BY <1>2, <1>3, BackupAssumption
<1> QED
    BY <1>4 DEF b

\* What the list of the retention condemns.
LEMMA ListedOld ==
    ASSUME TypeOK, RetentionInv, NEW c \in Call, ListScheduled(c),
           NEW v \in calls'[c].queue
    PROVE  OldEnough(v.id)
<1>1. calls \in [Call -> CallState]
    BY DEF TypeOK
<1>2. ~End(c)
    BY <1>1, EndType DEF IdleCall
<1>3. calls' = [calls EXCEPT ![c] =
         [@ EXCEPT !.pc = "unlink",
            !.queue = {[id |-> i, name |-> rows[i].name] : i \in Excess(Prunable)}]]
    BY <1>2 DEF ListScheduled
<1>4. calls'[c].queue =
         {[id |-> i, name |-> rows[i].name] : i \in Excess(Prunable)}
    BY <1>1, <1>3 DEF CallState
<1>5. v.id \in Excess(Prunable)
    BY <1>4
<1>6. Cardinality({j \in Prunable : j > v.id}) >= retentionDaily
    BY <1>5 DEF Excess
<1>7. Prunable \subseteq history.archived
    BY DEF Prunable, RetentionInv, ScheduledArchived
<1> QED
    BY <1>6, <1>7, ManyMore DEF OldEnough, RetentionInv

LEMMA RetentionInit == Init => RetentionInv
<1> SUFFICES ASSUME Init PROVE RetentionInv
    OBVIOUS
<1>1. DOMAIN rows = {} /\ history.archived = {}
    BY DEF Init
<1>2. \A c \in Call : calls[c].pc = "idle" /\ calls[c].op = "none"
    BY DEF Init, IdleCall
<1> QED
    BY <1>1, <1>2, FS_EmptySet
    DEF RetentionInv, ScheduledArchived, MakersTyped, VictimsOld, MakerPlace

\* One backup is archived at a time, by the call that completes it.
LEMMA ArchivedStep ==
    ASSUME TypeOK, [Next]_vars
    PROVE  \/ history'.archived = history.archived
           \/ \E c \in Call :
                 /\ Complete(c) /\ calls[c].type = "SCHEDULED"
                 /\ history'.archived = history.archived \cup {calls[c].id}
<1>1. ASSUME NEW c \in Call, Complete(c)
      PROVE  \/ history'.archived = history.archived
             \/ /\ calls[c].type = "SCHEDULED"
                /\ history'.archived = history.archived \cup {calls[c].id}
    BY <1>1 DEF Complete, TypeOK, History
<1>2. ASSUME NEW c \in Call, Step(c), ~Complete(c)
      PROVE  history'.archived = history.archived
    BY <1>2, HistoryStep, InsertEffect
<1> QED
    BY <1>1, <1>2, NextKinds, ProtectEffect, CrashEffect

LEMMA MakersTypedNext ==
    TypeOK /\ DumpInv /\ RetentionInv /\ [Next]_vars => MakersTyped'
<1> SUFFICES ASSUME TypeOK, DumpInv, RetentionInv, [Next]_vars PROVE MakersTyped'
    OBVIOUS
<1> USE DEF RetentionInv
<1>1. ASSUME NEW c \in Call, Insert(c) PROVE MakersTyped'
    <2>1. \A d \in Call \ {c} : calls'[d] = calls[d]
        BY <1>1, OthersKept DEF Step
    <2>2. ASSUME NEW d \in Call, calls[d].pc \in MakerPlace
          PROVE  calls[d].id # nextId
        <3>1. calls[d].id \in Nat /\ nextId \in Nat /\ calls[d].id < nextId
            BY <2>2 DEF DumpInv, MakersKnown, TypeOK, CallState
        <3> QED
            BY <3>1
    <2> QED
        BY <1>1, <2>1, <2>2, InsertEffect DEF MakersTyped
<1>2. ASSUME NEW c \in Call, Step(c), ~Insert(c) PROVE MakersTyped'
    <2> SUFFICES ASSUME NEW d \in Call, calls'[d].pc \in MakerPlace,
                        calls'[d].id \in DOMAIN rows'
                 PROVE  rows'[calls'[d].id].type = calls'[d].type
        BY DEF MakersTyped
    <2>1. calls[d].pc \in MakerPlace /\ calls'[d].id = calls[d].id
        BY <1>2, MakersShrink
    <2>2. calls'[d].type = calls[d].type
        <3>1. CASE d # c
            BY <1>2, <3>1, OthersKept
        <3>2. CASE d = c
            <4>1. calls'[c] # IdleCall
                BY <3>2 DEF IdleCall, MakerPlace
            <4>2. ~Load(c)
                BY <2>1, <3>2 DEF Load, At, MakerPlace
            <4>3. ~(BeginCreate(c) \/ BeginDelete(c) \/ BeginRestore(c)
                       \/ BeginCheck(c))
                BY <3>2, BeginEffect DEF MakerPlace
            <4>4. ~(ListScheduled(c) /\ calls'[c].pc = "unlink")
                BY <3>2 DEF MakerPlace
            <4>5. CASE \E t \in Table : ReadTable(c, t)
                BY <3>2, <4>5, ReadEffect
            <4>6. CASE SameLocals(c)
                BY <3>2, <4>6 DEF SameLocals
            <4> QED
                BY <1>2, <4>1, <4>2, <4>3, <4>4, <4>5, <4>6, CallStep
        <3> QED
            BY <3>1, <3>2
    <2>3. /\ calls[d].id \in DOMAIN rows
          /\ rows'[calls[d].id].type = rows[calls[d].id].type
        BY <1>2, <2>1, RowsShrink, StatusStep
    <2> QED
        BY <2>1, <2>2, <2>3 DEF MakersTyped
<1>3. ASSUME NEW i \in DOMAIN rows, Protect(i) PROVE MakersTyped'
    BY <1>3, ProtectEffect DEF MakersTyped
<1>4. CASE Crash
    BY <1>4, CrashEffect DEF MakersTyped, IdleCall, MakerPlace
<1>5. CASE UNCHANGED <<rows, files, calls, nextId, history>>
    BY <1>5 DEF MakersTyped
<1> QED
    BY <1>1, <1>2, <1>3, <1>4, <1>5, NextKinds

\* A call keeps its operation as long as it has victims.
LEMMA CheckStep ==
    ASSUME TypeOK, NEW c \in Call, Step(c), calls'[c].op = "check",
           calls'[c].queue # {}
    PROVE  calls[c].op = "check"
<1>1. calls'[c] # IdleCall
    BY DEF IdleCall
<1>2. ~(BeginCreate(c) \/ BeginDelete(c) \/ BeginRestore(c) \/ BeginCheck(c))
    BY BeginEffect
<1>3. ASSUME Insert(c) PROVE calls[c].op = "check"
    BY <1>3, InsertEffect
<1>4. ASSUME NEW t \in Table, ReadTable(c, t) PROVE calls[c].op = "check"
    BY <1>4, ReadEffect
<1>5. ASSUME Load(c) PROVE calls[c].op = "check"
    BY <1>1, <1>5, EndType, LoadEffect DEF TypeOK
<1>6. ASSUME ListScheduled(c) /\ calls'[c].pc = "unlink"
      PROVE  calls[c].op = "check"
    BY <1>6, ListedEffect
<1>7. ASSUME SameLocals(c) PROVE calls[c].op = "check"
    BY <1>7 DEF SameLocals
<1> QED
    BY <1>1, <1>2, <1>3, <1>4, <1>5, <1>6, <1>7, CallStep

LEMMA RetentionNext ==
    TypeOK /\ DumpInv /\ RetentionInv /\ [Next]_vars => RetentionInv'
<1> SUFFICES ASSUME TypeOK, DumpInv, RetentionInv, [Next]_vars
             PROVE  RetentionInv'
    OBVIOUS
<1> USE DEF RetentionInv
<1>1. /\ history.archived \subseteq history'.archived
      /\ IsFiniteSet(history'.archived)
    BY ArchivedStep, FS_AddElement
<1>2. \A i : OldEnough(i) => OldEnough(i)'
    BY <1>1, ManyMore DEF OldEnough
<1>3. MakersTyped'
    BY MakersTypedNext
<1>4. VictimsOld'
    <2>1. ASSUME NEW c \in Call, Step(c) PROVE VictimsOld'
        <3> SUFFICES ASSUME NEW d \in Call, calls'[d].op = "check",
                            NEW v \in calls'[d].queue
                     PROVE  OldEnough(v.id)'
            BY DEF VictimsOld
        <3>1. CASE v \in calls[d].queue
            <4>1. calls[d].op = "check"
                BY <2>1, CheckStep, OthersKept
            <4> QED
                BY <1>2, <3>1, <4>1 DEF VictimsOld
        <3>2. CASE v \notin calls[d].queue
            <4>1. d = c
                BY <2>1, <3>2, OthersKept
            <4>2. ListScheduled(c) \/ BeginDelete(c)
                BY <2>1, <3>2, QueuesShrink
            <4>3. ~BeginDelete(c)
                BY <4>1, BeginEffect
            <4> QED
                BY <1>2, <4>1, <4>2, <4>3, ListedOld
        <3> QED
            BY <3>1, <3>2
    <2>2. CASE Crash
        BY <2>2, CrashEffect DEF VictimsOld, IdleCall
    <2>3. CASE calls' = calls
        BY <1>2, <2>3 DEF VictimsOld
    <2> QED
        BY <2>1, <2>2, <2>3, NextKinds, ProtectEffect
<1>5. ScheduledArchived'
    <2>1. ASSUME NEW c \in Call, Insert(c) PROVE ScheduledArchived'
        BY <1>1, <2>1, InsertEffect DEF ScheduledArchived
    <2>2. ASSUME NEW c \in Call, Step(c), ~Insert(c) PROVE ScheduledArchived'
        <3> SUFFICES ASSUME NEW i \in DOMAIN rows', rows'[i].type = "SCHEDULED",
                            rows'[i].status = "COMPLETED"
                     PROVE  i \in history'.archived
            BY DEF ScheduledArchived
        <3>1. i \in DOMAIN rows /\ rows[i].type = "SCHEDULED"
            BY <2>2, RowsShrink, StatusStep
        <3>2. CASE Complete(c) /\ i = calls[c].id
            <4>1. calls[c].type = "SCHEDULED"
                BY <3>1, <3>2 DEF MakersTyped, Complete, At, MakerPlace
            <4> QED
                BY <3>2, <4>1 DEF Complete, TypeOK, History
        <3>3. CASE rows'[i].status = rows[i].status
            BY <1>1, <3>1, <3>3 DEF ScheduledArchived
        <3> QED
            BY <2>2, <3>2, <3>3, StatusStep
    <2>3. ASSUME NEW i \in DOMAIN rows, Protect(i) PROVE ScheduledArchived'
        BY <1>1, <2>3, ProtectEffect DEF ScheduledArchived
    <2>4. CASE Crash
        BY <1>1, <2>4, CrashEffect DEF ScheduledArchived
    <2>5. CASE UNCHANGED <<rows, files, calls, nextId, history>>
        BY <2>5 DEF ScheduledArchived
    <2> QED
        BY <2>1, <2>2, <2>3, <2>4, <2>5, NextKinds
<1> QED
    BY <1>1, <1>3, <1>4, <1>5

\* Whatever is made, protected or deleted between the list of the retention
\* and its deletions, what it removes has retentionDaily newer ones behind it.
THEOREM RetentionKeepsNewestAlways == Spec => RetentionKeepsNewest
<1>1. ASSUME TypeOK, RetentionInv, [Next]_vars,
             NEW i \in DOMAIN rows \ DOMAIN rows',
             NEW c \in Call, calls[c].op = "check", calls'[c] # calls[c]
      PROVE  Cardinality({j \in history.archived : j > i}) >= retentionDaily
    <2>1. PICK d \in Call : Step(d)
        BY <1>1, NextKinds, ProtectEffect, CrashEffect
    <2>2. d = c
        BY <1>1, <2>1, OthersKept
    <2>3. ~Insert(c)
        BY <1>1, InsertEffect
    <2>4. Drop(c)
        BY <1>1, <2>1, <2>2, <2>3, StatusStep
    <2>5. PICK v \in calls[c].queue : rows' = Without(rows, v.id)
        BY <2>4 DEF Drop
    <2>6. i = v.id
        BY <2>5 DEF Without
    <2> QED
        BY <1>1, <2>6 DEF RetentionInv, VictimsOld, OldEnough
<1>2. TypeOK /\ RetentionInv /\ [Next]_vars =>
        [\A i \in DOMAIN rows \ DOMAIN rows' :
           (\E c \in Call : calls[c].op = "check" /\ calls'[c] # calls[c]) =>
              Cardinality({j \in history.archived : j > i}) >= retentionDaily]_vars
    BY <1>1
<1> QED
    BY <1>2, KeepInvariant, DumpInit, DumpNext, RetentionInit, RetentionNext, PTL
    DEF Spec, RetentionKeepsNewest

\* The name of a scheduled backup tells the day of its check, from the
\* moment the check reads the clock to the end of the row.
NamedByDay(i, d) == i \in DOMAIN rows => rows[i].name = <<"auto-backup", d>>
ScheduledNamed ==
    \A c \in Call : calls[c].pc = "insert" /\ calls[c].type = "SCHEDULED" =>
        calls[c].name = <<"auto-backup", calls[c].today>>
DailyNamed ==
    \A i \in Nat, d \in Nat : <<i, d>> \in history.daily =>
        i < nextId /\ NamedByDay(i, d)
DailyInv == ScheduledNamed /\ DailyNamed

LEMMA DailyInit == Init => DailyInv
BY DEF Init, DailyInv, ScheduledNamed, DailyNamed, IdleCall

LEMMA ScheduledNamedNext ==
    TypeOK /\ DailyInv /\ [Next]_vars => ScheduledNamed'
<1> SUFFICES ASSUME TypeOK, DailyInv, [Next]_vars PROVE ScheduledNamed'
    OBVIOUS
<1> USE DEF DailyInv
<1>1. ASSUME NEW c \in Call, Step(c) PROVE ScheduledNamed'
    <2> SUFFICES ASSUME NEW d \in Call, calls'[d].pc = "insert",
                        calls'[d].type = "SCHEDULED"
                 PROVE  calls'[d].name = <<"auto-backup", calls'[d].today>>
        BY DEF ScheduledNamed
    <2>1. CASE d # c
        <3>1. calls'[d] = calls[d]
            BY <1>1, <2>1, OthersKept
        <3> QED
            BY <3>1 DEF ScheduledNamed
    <2>2. CASE d = c
        <3>1. calls'[c] # IdleCall
            BY <2>2 DEF IdleCall
        <3>2. ~Insert(c) /\ \A t \in Table : ~ReadTable(c, t)
            BY <2>2, InsertEffect, ReadEffect
        <3>3. ~Load(c)
            BY <2>2, <3>1, EndType, LoadEffect DEF TypeOK
        <3> QED
            BY <1>1, <2>2, <3>1, <3>2, <3>3, BeginEffect, CallStep DEF MakerPlace
    <2> QED
        BY <2>1, <2>2
<1>2. CASE Crash
    BY <1>2, CrashEffect DEF ScheduledNamed, IdleCall
<1>3. CASE calls' = calls
    BY <1>3 DEF ScheduledNamed
<1> QED
    BY <1>1, <1>2, <1>3, NextKinds, ProtectEffect

\* A new row takes the day of the check that makes it; the others keep theirs.
LEMMA DailyNamedNext == TypeOK /\ DailyInv /\ [Next]_vars => DailyNamed'
<1> SUFFICES ASSUME TypeOK, DailyInv, [Next]_vars, NEW i \in Nat, NEW d \in Nat,
                    <<i, d>> \in history'.daily
             PROVE  i < nextId' /\ NamedByDay(i, d)'
    BY DEF DailyNamed
<1> USE DEF DailyInv
<1>1. nextId \in Nat
    BY DEF TypeOK
<1>2. ASSUME <<i, d>> \in history.daily, nextId' \in {nextId, nextId + 1},
             \A j \in DOMAIN rows' : j # nextId =>
                j \in DOMAIN rows /\ rows'[j].name = rows[j].name
      PROVE  i < nextId' /\ NamedByDay(i, d)'
    <2>1. i < nextId /\ NamedByDay(i, d)
        BY <1>2 DEF DailyNamed
    <2> QED
        BY <1>1, <1>2, <2>1 DEF NamedByDay
<1>3. ASSUME NEW c \in Call, Insert(c) PROVE i < nextId' /\ NamedByDay(i, d)'
    <2>1. CASE <<i, d>> \in history.daily
        BY <1>2, <1>3, <2>1, InsertEffect
    <2>2. CASE <<i, d>> \notin history.daily
        <3>1. <<i, d>> = <<nextId, calls[c].today>>
              /\ calls[c].type = "SCHEDULED" /\ calls[c].pc = "insert"
            BY <1>3, <2>2, InsertEffect
        <3>2. i = nextId /\ d = calls[c].today
            BY <3>1
        <3>3. NameOf(c) = <<"auto-backup", d>>
            BY <3>1, <3>2 DEF NameOf, ScheduledNamed
        <3> QED
            BY <1>1, <1>3, <3>2, <3>3, InsertEffect DEF NamedByDay
    <2> QED
        BY <2>1, <2>2
<1>4. ASSUME NEW c \in Call, Step(c), ~Insert(c)
      PROVE  i < nextId' /\ NamedByDay(i, d)'
    <2>1. <<i, d>> \in history.daily
        BY <1>4, HistoryStep
    <2> QED
        BY <1>2, <1>4, <2>1, RowsShrink
<1>5. ASSUME NEW j \in DOMAIN rows, Protect(j)
      PROVE  i < nextId' /\ NamedByDay(i, d)'
    BY <1>2, <1>5, ProtectEffect
<1>6. CASE Crash
    BY <1>2, <1>6, CrashEffect
<1>7. CASE UNCHANGED <<rows, files, calls, nextId, history>>
    BY <1>2, <1>7
<1> QED
    BY <1>3, <1>4, <1>5, <1>6, <1>7, NextKinds

LEMMA DailyNext == TypeOK /\ DailyInv /\ [Next]_vars => DailyInv'
BY ScheduledNamedNext, DailyNamedNext DEF DailyInv

\* While the row of a failed scheduled backup stands, no check of its day
\* completes another: two rows of one day would have one name.
THEOREM FailedDayStaysLostAlways == Spec => FailedDayStaysLost
<1>1. ASSUME TypeOK, KeepInv, DailyInv, [Next]_vars, NEW i \in DOMAIN rows,
             NEW j \in history'.archived \ history.archived, i # j,
             NEW d \in 1 .. day, <<i, d>> \in history.daily
      PROVE  <<j, d>> \notin history.daily
    <2>1. PICK c \in Call : Complete(c) /\ j = calls[c].id
        BY <1>1, ArchivedStep
    <2>2. j \in DOMAIN rows
        BY <2>1 DEF Complete
    <2>3. i \in Nat /\ j \in Nat /\ d \in Nat
        BY <1>1, <2>2, VictimType DEF TypeOK
    <2>4. ASSUME <<j, d>> \in history.daily PROVE rows[i].name = rows[j].name
        BY <1>1, <2>2, <2>3, <2>4 DEF DailyInv, DailyNamed, NamedByDay
    <2> QED
        BY <1>1, <2>2, <2>4 DEF KeepInv, NamesUnique
<1>2. TypeOK /\ KeepInv /\ DailyInv /\ [Next]_vars =>
        [\A i \in DOMAIN rows, j \in history'.archived \ history.archived :
           rows[i].type = "SCHEDULED" /\ rows[i].status = "FAILED" /\ i # j =>
              \A d \in 1 .. day :
                 <<i, d>> \in history.daily => <<j, d>> \notin history.daily]_vars
    BY <1>1
<1> QED
    BY <1>2, KeepInvariant, DailyInit, DailyNext, PTL
    DEF Spec, FailedDayStaysLost
=============================================================================
