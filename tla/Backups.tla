------------------------------ MODULE Backups ------------------------------
(***************************************************************************)
(* BackupService (backup.service.ts): creation, protection, deletion,      *)
(* restoration, the scheduled check and its retention, over two stores no  *)
(* transaction joins: the rows of Backup and the dump files on disk.       *)
(*                                                                         *)
(* An action is one database call with the synchronous code that follows   *)
(* its answer (file system calls are synchronous), and any other call may  *)
(* run in between.  A failing database or file call has no effect, except  *)
(* that a failing write may leave a truncated file.  The storage           *)
(* directory, retentionDaily and the schedule do not change.  A table is   *)
(* abstracted to one record: the number of the write it stems from, 0 when *)
(* it is absent.  logChange and the notifications swallow their errors.    *)
(***************************************************************************)
EXTENDS Integers, FiniteSets

CONSTANTS
    Call,             \* requests under way at once
    ManualName,       \* names users give to backups
    Table,            \* what exportFullDatabase reads
    RestoredTable,    \* what restoreBackup writes back
    retentionDaily,
    MaxRequests,      \* bound: requests ever made
    MaxDay,           \* bound: days that pass
    MaxFaults         \* bound: failing calls and restarts of the backend

ASSUME BackupAssumption ==
    /\ RestoredTable \subseteq Table
    /\ retentionDaily \in Nat \ {0}
    /\ MaxRequests \in Nat /\ MaxDay \in Nat
    /\ MaxFaults \in Nat

VARIABLES
    rows,      \* database: Backup, by identifier, in the order of createdAt
    files,     \* disk: the dumps, by name
    data,      \* database: the inventory
    calls,     \* the calls under way
    day, nextId, requests, faults,
    history    \* what the properties remember

bounds == <<day, nextId, requests, faults>>
vars   == <<rows, files, data, calls, bounds, history>>

Type   == {"MANUAL", "SCHEDULED", "PRE_RESTORE"}
Status == {"RUNNING", "COMPLETED", "FAILED", "RESTORING", "RESTORED"}
Name   == ({"backup"} \X ManualName) \cup ({"auto-backup", "pre-restore"} \X Nat)
Row    == [name : Name, type : Type, status : Status, isProtected : BOOLEAN,
           createdAt : Nat]

\* A dump holds every table, a truncated file none.  Its checksum is that of
\* the backup that wrote it, for the header names it.
Unread == -1
Dump   == [Table -> Nat]
Blank  == [t \in Table |-> Unread]
File   == [by : Nat, tables : {Blank} \cup Dump]
Victim == [id : Nat, name : Name]

\* id and read belong to createBackup, target and payload to restoreBackup,
\* queue holds what deleteBackup or the retention is about to delete, today
\* is the todayDate of runScheduledBackupCheck.
CallState ==
    [pc : {"idle", "insert", "export", "write", "complete", "fail",
           "unlink", "drop", "list",
           "load", "mark", "transaction", "restored", "restoreFailed"},
     op : {"none", "create", "delete", "restore", "check"},
     name : Name, type : Type, isProtected : BOOLEAN, id : Nat,
     read : [Table -> Nat \cup {Unread}],
     target : Nat, payload : {Blank} \cup Dump, queue : SUBSET Victim,
     today : Nat]

IdleCall ==
    [pc |-> "idle", op |-> "none", name |-> <<"auto-backup", 0>>,
     type |-> "MANUAL", isProtected |-> FALSE, id |-> 0, read |-> Blank,
     target |-> 0, payload |-> Blank, queue |-> {}, today |-> 0]

\* raced: made or protected while a deletion of its name was under way.
\* cut: its row was deleted while createBackup was at work on it.
\* stranded: its deletion ended between the file and the row.
\* lifted: its protection was taken away.   committed: it was restored.
\* archived: scheduled backups that were completed.
\* daily: scheduled backups, each with the day whose check made it.
History ==
    [raced : SUBSET Nat, cut : SUBSET Nat, stranded : SUBSET Nat,
     lifted : SUBSET Nat, committed : SUBSET Nat, archived : SUBSET Nat,
     daily : SUBSET (Nat \X Nat)]

TypeOK ==
    /\ DOMAIN rows \subseteq 1 .. nextId - 1
    /\ rows \in [DOMAIN rows -> Row]
    /\ DOMAIN files \subseteq Name
    /\ files \in [DOMAIN files -> File]
    /\ data \in [Table -> Nat]
    /\ calls \in [Call -> CallState]
    /\ day \in Nat /\ nextId \in Nat \ {0} /\ requests \in Nat /\ faults \in Nat
    /\ history \in History

Init ==
    /\ rows = [i \in {} |-> IdleCall]
    /\ files = [n \in {} |-> IdleCall]
    /\ data = [t \in Table |-> 0]
    /\ calls = [c \in Call |-> IdleCall]
    /\ day = 1 /\ nextId = 1 /\ requests = 0 /\ faults = 0
    /\ history = [raced |-> {}, cut |-> {}, stranded |-> {}, lifted |-> {},
                  committed |-> {}, archived |-> {}, daily |-> {}]

Without(f, x) == [y \in DOMAIN f \ {x} |-> f[y]]
With(f, x, v) == [y \in DOMAIN f \cup {x} |-> IF y = x THEN v ELSE f[y]]

At(c, pc)  == calls[c].pc = pc
Goto(c, pc) == calls' = [calls EXCEPT ![c].pc = pc]
End(c)     == calls' = [calls EXCEPT ![c] = IdleCall]
SetStatus(i, s) == rows' = [rows EXCEPT ![i].status = s]
Fault ==
    /\ faults < MaxFaults
    /\ faults' = faults + 1
    /\ UNCHANGED <<day, nextId, requests>>

\* The deletions that have read a row of that name and not ended.
DeletionOf(n) == \E c \in Call : \E v \in calls[c].queue : v.name = n
Making(i) == \E c \in Call :
                calls[c].id = i /\ calls[c].pc \in {"export", "write", "complete", "fail"}

Request ==
    /\ requests < MaxRequests
    /\ requests' = requests + 1
    /\ UNCHANGED <<day, nextId, faults>>

-----------------------------------------------------------------------------
(* createBackup, alone or within a restore or a scheduled check            *)

BeginCreate(c) ==
    /\ At(c, "idle") /\ Request
    /\ \E n \in ManualName, p \in BOOLEAN :
          calls' = [calls EXCEPT ![c] =
              [IdleCall EXCEPT !.pc = "insert", !.op = "create",
                               !.name = <<"backup", n>>, !.isProtected = p]]
    /\ UNCHANGED <<rows, files, data, history>>

\* The name of a snapshot is a time stamp, here its number.
NameOf(c) == IF calls[c].type = "PRE_RESTORE" THEN <<"pre-restore", nextId>>
                                              ELSE calls[c].name

\* Mutant: the name of a backup need not be new.
FreeAlways(n) == TRUE

Free(n) == \A i \in DOMAIN rows : rows[i].name # n

Insert(c) ==
    /\ At(c, "insert")
    /\ Free(NameOf(c))
    /\ rows' = With(rows, nextId,
                    [name |-> NameOf(c), type |-> calls[c].type,
                     status |-> "RUNNING", isProtected |-> calls[c].isProtected,
                     createdAt |-> day])
    /\ nextId' = nextId + 1
    /\ calls' = [calls EXCEPT ![c] =
          [@ EXCEPT !.pc = "export", !.id = nextId, !.name = NameOf(c)]]
    /\ history' = [history EXCEPT
          !.raced = @ \cup (IF DeletionOf(NameOf(c)) THEN {nextId} ELSE {}),
          !.daily = @ \cup (IF calls[c].type = "SCHEDULED"
                            THEN {<<nextId, calls[c].today>>} ELSE {})]
    /\ UNCHANGED <<files, data, day, requests, faults>>

\* The insertion is outside the try: the caller's call ends with it.
InsertFails(c) ==
    /\ At(c, "insert")
    /\ \/ ~Free(NameOf(c)) /\ UNCHANGED bounds
       \/ Fault
    /\ End(c)
    /\ UNCHANGED <<rows, files, data, history>>

\* Mutant: the dump is written with the first answer.
ReadFirstTable(c, t) ==
    /\ At(c, "export")
    /\ calls' = [calls EXCEPT ![c] =
          [@ EXCEPT !.read[t] = data[t], !.pc = "write"]]
    /\ UNCHANGED <<rows, files, data, bounds, history>>

\* Promise.all of findMany calls, each with a snapshot of its own.
ReadTable(c, t) ==
    /\ At(c, "export")
    /\ calls[c].read[t] = Unread
    /\ LET last == \A u \in Table \ {t} : calls[c].read[u] # Unread
       IN  calls' = [calls EXCEPT ![c] =
                [@ EXCEPT !.read = [calls[c].read EXCEPT ![t] = data[t]],
                          !.pc = IF last THEN "write" ELSE "export"]]
    /\ UNCHANGED <<rows, files, data, bounds, history>>

WriteFile(c) ==
    /\ At(c, "write")
    /\ files' = With(files, calls[c].name,
                     [by |-> calls[c].id, tables |-> calls[c].read])
    /\ Goto(c, "complete")
    /\ UNCHANGED <<rows, data, bounds, history>>

AfterCreation(c) ==
    CASE calls[c].op = "restore" -> Goto(c, "mark")
      [] calls[c].op = "check"   -> Goto(c, "list")
      [] OTHER                   -> End(c)

Complete(c) ==
    /\ At(c, "complete")
    /\ calls[c].id \in DOMAIN rows
    /\ SetStatus(calls[c].id, "COMPLETED")
    /\ AfterCreation(c)
    /\ history' = [history EXCEPT !.archived =
                     @ \cup (IF calls[c].type = "SCHEDULED" THEN {calls[c].id} ELSE {})]
    /\ UNCHANGED <<files, data, bounds>>

\* Mutant: an error of the write is ignored.
CreationIgnoresWriteError(c) ==
    /\ At(c, "write") /\ Fault
    /\ Goto(c, "complete")
    /\ UNCHANGED <<rows, files, data, history>>

\* An exception in the try: a failing read or write, a row that is gone.
CreationThrows(c) ==
    /\ \/ At(c, "export") /\ Fault /\ UNCHANGED files
       \/ /\ At(c, "write") /\ Fault
          /\ files' \in {files, With(files, calls[c].name,
                                     [by |-> calls[c].id, tables |-> Blank])}
       \/ At(c, "complete") /\ Fault /\ UNCHANGED files
       \/ /\ At(c, "complete") /\ calls[c].id \notin DOMAIN rows
          /\ UNCHANGED <<files, bounds>>
    /\ Goto(c, "fail")
    /\ UNCHANGED <<rows, data, history>>

\* The catch clause, whose own update may fail, throws: the restore or the
\* check the backup was made for ends too.
CreationFails(c) ==
    /\ At(c, "fail")
    /\ \/ /\ calls[c].id \in DOMAIN rows
          /\ SetStatus(calls[c].id, "FAILED")
          /\ UNCHANGED bounds
       \/ calls[c].id \notin DOMAIN rows /\ UNCHANGED <<rows, bounds>>
       \/ Fault /\ UNCHANGED rows
    /\ End(c)
    /\ UNCHANGED <<files, data, history>>

-----------------------------------------------------------------------------
(* toggleProtectBackup and deleteBackup                                    *)

Protect(i) ==
    /\ i \in DOMAIN rows /\ Request
    /\ \E p \in BOOLEAN :
          /\ p # rows[i].isProtected
          /\ rows' = [rows EXCEPT ![i].isProtected = p]
          /\ history' = [history EXCEPT
                !.raced = @ \cup (IF p /\ DeletionOf(rows[i].name) THEN {i} ELSE {}),
                !.lifted = @ \cup (IF p THEN {} ELSE {i})]
    /\ UNCHANGED <<files, data, calls>>

\* Whatever its status, a backup that is read unprotected will be deleted.
BeginDelete(c) ==
    /\ At(c, "idle") /\ Request
    /\ \E i \in DOMAIN rows :
          /\ ~rows[i].isProtected
          /\ calls' = [calls EXCEPT ![c] =
                [IdleCall EXCEPT !.pc = "unlink", !.op = "delete",
                                 !.queue = {[id |-> i, name |-> rows[i].name]}]]
    /\ UNCHANGED <<rows, files, data, history>>

\* The loop of the retention goes from the newest victim to the oldest;
\* deleteBackup has one.
Foremost(c, v) == v \in calls[c].queue /\ \A w \in calls[c].queue : w.id <= v.id

Done(c, v) ==
    IF calls[c].queue = {v} THEN End(c)
    ELSE calls' = [calls EXCEPT ![c] =
                      [@ EXCEPT !.queue = calls[c].queue \ {v}, !.pc = "unlink"]]

Unlink(c) ==
    /\ At(c, "unlink")
    /\ \E v \in calls[c].queue :
          Foremost(c, v) /\ files' = Without(files, v.name)
    /\ Goto(c, "drop")
    /\ UNCHANGED <<rows, data, bounds, history>>

\* deleteBackup warns and goes on to the row, the retention keeps the row.
UnlinkFails(c) ==
    /\ At(c, "unlink") /\ Fault
    /\ \E v \in calls[c].queue :
          /\ Foremost(c, v) /\ v.name \in DOMAIN files
          /\ IF calls[c].op = "delete" THEN Goto(c, "drop") ELSE Done(c, v)
    /\ UNCHANGED <<rows, files, data, history>>

\* By identifier: a row of the same name made since is not touched.
Drop(c) ==
    /\ At(c, "drop")
    /\ \E v \in calls[c].queue :
          /\ Foremost(c, v)
          /\ rows' = Without(rows, v.id)
          /\ history' = [history EXCEPT !.cut =
                           @ \cup (IF Making(v.id) THEN {v.id} ELSE {})]
          /\ Done(c, v)
    /\ UNCHANGED <<files, data, bounds>>

DropFails(c) ==
    /\ At(c, "drop") /\ Fault
    /\ \E v \in calls[c].queue :
          /\ Foremost(c, v) /\ Done(c, v)
          /\ history' = [history EXCEPT !.stranded = @ \cup {v.id}]
    /\ UNCHANGED <<rows, files, data>>

-----------------------------------------------------------------------------
(* restoreBackup                                                           *)

\* No status is refused: the row may be of a running or a failed backup.
BeginRestore(c) ==
    /\ At(c, "idle") /\ Request
    /\ \E i \in DOMAIN rows :
          calls' = [calls EXCEPT ![c] =
              [IdleCall EXCEPT !.pc = "load", !.op = "restore",
                               !.target = i, !.name = rows[i].name]]
    /\ UNCHANGED <<rows, files, data, history>>

Loadable(n) == n \in DOMAIN files /\ files[n].tables # Blank

\* Mutant: the snapshot is an ordinary backup.
LoadUnguarded(c) ==
    /\ At(c, "load")
    /\ Loadable(calls[c].name)
    /\ calls' = [calls EXCEPT ![c] =
          [@ EXCEPT !.payload = files[calls[c].name].tables,
                    !.pc = "insert", !.type = "PRE_RESTORE"]]
    /\ UNCHANGED <<rows, files, data, bounds, history>>

\* skipPreRestoreBackup leaves the snapshot out.
Load(c) ==
    /\ At(c, "load")
    /\ \/ /\ ~Loadable(calls[c].name)
          /\ End(c)
       \/ /\ Loadable(calls[c].name)
          /\ \E skip \in BOOLEAN :
                calls' = [calls EXCEPT ![c] =
                   [@ EXCEPT !.payload = files[calls[c].name].tables,
                             !.pc = IF skip THEN "mark" ELSE "insert",
                             !.type = IF skip THEN calls[c].type ELSE "PRE_RESTORE",
                             !.isProtected = ~skip]]
    /\ UNCHANGED <<rows, files, data, bounds, history>>

\* Outside the try: a failure leaves the row as it is.
Mark(c) ==
    /\ At(c, "mark")
    /\ \/ /\ calls[c].target \in DOMAIN rows
          /\ SetStatus(calls[c].target, "RESTORING")
          /\ Goto(c, "transaction")
          /\ UNCHANGED bounds
       \/ /\ calls[c].target \notin DOMAIN rows
          /\ End(c)
          /\ UNCHANGED <<rows, bounds>>
       \/ Fault /\ End(c) /\ UNCHANGED rows
    /\ UNCHANGED <<files, data, history>>

\* Upserts: a record the dump does not hold stays.
Restore(payload) ==
    [t \in Table |-> IF t \in RestoredTable /\ payload[t] # 0
                     THEN payload[t] ELSE data[t]]

Transact(c) ==
    /\ At(c, "transaction")
    /\ data' = Restore(calls[c].payload)
    /\ Goto(c, "restored")
    /\ history' = [history EXCEPT !.committed = @ \cup {calls[c].target}]
    /\ UNCHANGED <<rows, files, bounds>>

\* Mutant: the end of a restore is announced whatever became of it.
RestoreThrowsUnheard(c) ==
    /\ At(c, "transaction") /\ Fault
    /\ Goto(c, "restored")
    /\ UNCHANGED <<rows, files, data, history>>

RestoreThrows(c) ==
    /\ \/ At(c, "transaction") /\ Fault
       \/ At(c, "restored") /\ Fault
       \/ At(c, "restored") /\ calls[c].target \notin DOMAIN rows /\ UNCHANGED bounds
    /\ Goto(c, "restoreFailed")
    /\ UNCHANGED <<rows, files, data, history>>

Restored(c) ==
    /\ At(c, "restored")
    /\ calls[c].target \in DOMAIN rows
    /\ SetStatus(calls[c].target, "RESTORED")
    /\ End(c)
    /\ UNCHANGED <<files, data, bounds, history>>

\* The backup itself is marked FAILED, good as it may be.
RestoreFails(c) ==
    /\ At(c, "restoreFailed")
    /\ \/ /\ calls[c].target \in DOMAIN rows
          /\ SetStatus(calls[c].target, "FAILED")
          /\ UNCHANGED bounds
       \/ calls[c].target \notin DOMAIN rows /\ UNCHANGED <<rows, bounds>>
       \/ Fault /\ UNCHANGED rows
    /\ End(c)
    /\ UNCHANGED <<files, data, history>>

-----------------------------------------------------------------------------
(* runScheduledBackupCheck and applyRetentionPolicy                        *)

\* Mutant: the name of a scheduled backup is a time stamp.
DailyNameStamped == <<"auto-backup", nextId>>

DailyName == <<"auto-backup", day>>

BeginCheck(c) ==
    /\ At(c, "idle") /\ Request
    /\ ~\E i \in DOMAIN rows :
          /\ rows[i].type = "SCHEDULED" /\ rows[i].status = "COMPLETED"
          /\ rows[i].createdAt = day
    /\ calls' = [calls EXCEPT ![c] =
          [IdleCall EXCEPT !.pc = "insert", !.op = "check",
                           !.type = "SCHEDULED", !.name = DailyName,
                           !.today = day]]
    /\ UNCHANGED <<rows, files, data, history>>

\* Mutant: the list holds protected backups too.
PrunableAny ==
    {i \in DOMAIN rows : rows[i].type = "SCHEDULED" /\ rows[i].status = "COMPLETED"}

Prunable ==
    {i \in DOMAIN rows : /\ rows[i].type = "SCHEDULED"
                         /\ rows[i].status = "COMPLETED"
                         /\ ~rows[i].isProtected}

\* Mutant: one backup too few is kept.
ExcessByOne(ids) ==
    {i \in ids : Cardinality({j \in ids : j > i}) >= retentionDaily - 1}

\* slice(maxKeep) of the list, newest first.
Excess(ids) == {i \in ids : Cardinality({j \in ids : j > i}) >= retentionDaily}

\* The list is read once; what happens to its rows later is not seen.
ListScheduled(c) ==
    /\ At(c, "list")
    /\ LET victims == Excess(Prunable)
       IN  IF victims = {} THEN End(c)
           ELSE calls' = [calls EXCEPT ![c] =
                  [@ EXCEPT !.pc = "unlink",
                     !.queue = {[id |-> i, name |-> rows[i].name] : i \in victims}]]
    /\ UNCHANGED <<rows, files, data, bounds, history>>

-----------------------------------------------------------------------------
(* The rest of the system                                                  *)

\* Any other handler writes a record.
WriteRecord(t) ==
    /\ Request
    /\ data' = [data EXCEPT ![t] = requests']
    /\ UNCHANGED <<rows, files, calls, history>>

NextDay ==
    /\ day < MaxDay
    /\ day' = day + 1
    /\ UNCHANGED <<rows, files, data, calls, nextId, requests, faults, history>>

\* The process restarts: nothing takes up what it was doing.
Crash ==
    /\ Fault
    /\ \E c \in Call : ~At(c, "idle")
    /\ calls' = [c \in Call |-> IdleCall]
    /\ history' = [history EXCEPT !.stranded = @ \cup
          {i \in DOMAIN rows : \E c \in Call : \E v \in calls[c].queue :
                At(c, "drop") /\ Foremost(c, v) /\ v.id = i}]
    /\ UNCHANGED <<rows, files, data>>

Step(c) ==
    \/ BeginCreate(c) \/ Insert(c) \/ InsertFails(c)
    \/ \E t \in Table : ReadTable(c, t)
    \/ WriteFile(c) \/ Complete(c) \/ CreationThrows(c) \/ CreationFails(c)
    \/ BeginDelete(c) \/ Unlink(c) \/ UnlinkFails(c) \/ Drop(c) \/ DropFails(c)
    \/ BeginRestore(c) \/ Load(c) \/ Mark(c) \/ Transact(c)
    \/ RestoreThrows(c) \/ Restored(c) \/ RestoreFails(c)
    \/ BeginCheck(c) \/ ListScheduled(c)

Next ==
    \/ \E c \in Call : Step(c)
    \/ \E i \in DOMAIN rows : Protect(i)
    \/ \E t \in Table : WriteRecord(t)
    \/ NextDay
    \/ Crash

Spec == Init /\ [][Next]_vars

-----------------------------------------------------------------------------
(* Properties                                                              *)

\* A completed backup has its file, unless a deletion is at work on its name
\* or ended half-way, or the backup was made under a name whose deletion had
\* been decided before (deleteBackup:378 and applyRetentionPolicy:761 delete
\* by path what createBackup:193 finds free by row).
CompletedHasDump ==
    \A i \in DOMAIN rows :
        rows[i].status = "COMPLETED" /\ rows[i].name \notin DOMAIN files =>
            \/ DeletionOf(rows[i].name)
            \/ i \in history.raced \cup history.stranded

\* The file of a completed backup is the one its checksum was computed from,
\* unless a backup of the same name was deleted while createBackup was still
\* writing it: nothing refuses to delete a RUNNING backup, nor stops its
\* writer.
DumpIsItsOwn ==
    \A i \in DOMAIN rows :
        rows[i].status = "COMPLETED" /\ rows[i].name \in DOMAIN files =>
            files[rows[i].name].by \in {i} \cup history.cut

\* While a restore overwrites the inventory, the snapshot restoreBackup made
\* before it is on disk with what it read, whoever deletes or prunes backups
\* meanwhile, as long as nobody took its protection away.
SnapshotHeld ==
    \A c \in Call :
        calls[c].pc \in {"mark", "transaction", "restored"} /\ calls[c].id # 0
            /\ calls[c].op = "restore" /\ calls[c].id \notin history.lifted =>
            /\ calls[c].id \in DOMAIN rows
            /\ calls[c].name \in DOMAIN files
            /\ files[calls[c].name] = [by |-> calls[c].id, tables |-> calls[c].read]

\* Only a backup whose transaction committed is called RESTORED, whatever
\* other restores of it fail, and whoever runs createBackup on it still.
RestoredIsTrue ==
    \A i \in DOMAIN rows : rows[i].status = "RESTORED" => i \in history.committed

\* From the moment a backup is protected with no deletion of its name under
\* way, no handler removes its row or its file.
ProtectedKept ==
    [][\A i \in DOMAIN rows :
         rows[i].isProtected /\ i \notin history.raced =>
            /\ i \in DOMAIN rows'
            /\ rows[i].name \in DOMAIN files => rows[i].name \in DOMAIN files']_vars

\* What the retention removes is older than retentionDaily scheduled backups
\* that were completed, whatever is made, protected or deleted between its
\* list and its deletions.
RetentionKeepsNewest ==
    [][\A i \in DOMAIN rows \ DOMAIN rows' :
         (\E c \in Call : calls[c].op = "check" /\ calls'[c] # calls[c]) =>
            Cardinality({j \in history.archived : j > i}) >= retentionDaily]_vars

\* A day whose scheduled backup failed is not made good: as long as the
\* failed row is there, no check of that day, begun before or after it and
\* though midnight may have passed since, completes another backup.
FailedDayStaysLost ==
    [][\A i \in DOMAIN rows, j \in history'.archived \ history.archived :
         rows[i].type = "SCHEDULED" /\ rows[i].status = "FAILED" /\ i # j =>
            \A d \in 1 .. day :
                <<i, d>> \in history.daily => <<j, d>> \notin history.daily]_vars

\* "Protected backups must NEVER be pruned" (v13_backups_and_io.test.ts:73).
ProtectedNeverPruned ==
    [][\A i \in DOMAIN rows \ DOMAIN rows' :
         (\E c \in Call : calls[c].op = "check" /\ calls'[c] # calls[c]) =>
            ~rows[i].isProtected]_vars

=============================================================================
