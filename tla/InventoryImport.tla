-------------------------- MODULE InventoryImport --------------------------
(***************************************************************************)
(* executeImport (inventory-import.service.ts): the rows of a file written *)
(* in one transaction, each in a try of its own, and counted as they go;   *)
(* the log row is written after the transaction.                           *)
(*                                                                         *)
(* An action is one statement with the code that follows its answer.  The  *)
(* transaction is one of PostgreSQL at READ COMMITTED: a statement waits   *)
(* for a transaction that holds its row, and after a statement that failed *)
(* every later one fails too and the commit rolls back without an error.   *)
(* A machine is its unique host name; locations and tags are further       *)
(* statements of a row, which may fail like the one on the machine.        *)
(***************************************************************************)
EXTENDS Integers, Sequences, FiniteSets

CONSTANTS
    Import,        \* imports under way at once
    Host,          \* host names
    MaxRows,       \* bound: rows of a file
    MaxImports,    \* bound: imports
    MaxWrites      \* bound: other writes and failing statements

VARIABLES
    machines,      \* database: the host names that are committed
    imports,       \* executeImport under way
    begun, writes,
    logs           \* database: InventoryImportLog, with what was really written

impVars == <<machines, imports, begun, writes, logs>>

\* keep: the row's resolution is KEEP_EXISTING, or the mode is ADD_ONLY.
Row   == [host : Host, as : {"badIp", "SKIP", "keep", "write"}]
Files == UNION {[1 .. n -> Row] : n \in 0 .. MaxRows}

\* held: the machines the transaction has written.   claimed: those that were
\* counted.   local: errors that leave the transaction as it was.
Counts == [created : Nat, updated : Nat, skipped : Nat, errors : Nat, local : Nat]
ImportState ==
    [pc : {"idle", "find", "write", "commit", "log"}, rows : Seq(Row), total : Nat,
     exists : BOOLEAN, held : SUBSET Host, aborted : BOOLEAN, count : Counts]
Log == [count : Counts, total : Nat, claimed : SUBSET Host, wrote : SUBSET Host]
Zero == [created |-> 0, updated |-> 0, skipped |-> 0, errors |-> 0, local |-> 0]
NoImport == [pc |-> "idle", rows |-> <<>>, total |-> 0, exists |-> FALSE,
             held |-> {}, aborted |-> FALSE, count |-> Zero]

TypeOK ==
    /\ machines \subseteq Host
    /\ imports \in [Import -> ImportState]
    /\ begun \in Nat /\ writes \in Nat
    /\ logs \subseteq Log

Init ==
    /\ machines \in SUBSET Host
    /\ imports = [i \in Import |-> NoImport]
    /\ begun = 0 /\ writes = 0
    /\ logs = {}

\* The next row, or the commit after the last; r is the import with its counts.
Leave(i, r) ==
    LET rest == Tail(r.rows)
    IN  imports' = [imports EXCEPT ![i] =
           [r EXCEPT !.rows = rest, !.pc = IF rest = <<>> THEN "commit" ELSE "find"]]

Counted(i, field, held) ==
    Leave(i, [imports[i] EXCEPT !.count[field] = @ + 1, !.held = held])

\* Mutant: the catch of a row counts nothing.
FailedUncounted(i, local) ==
    Leave(i, [imports[i] EXCEPT !.count.local = @ + (IF local THEN 1 ELSE 0),
                                !.aborted = @ \/ ~local])

\* An address that is not valid and an update that finds no row are errors of
\* the row alone; a statement the database refuses is the end of the
\* transaction, but not of the loop.
Failed(i, local) ==
    Leave(i, [imports[i] EXCEPT !.count.errors = @ + 1,
                                !.count.local = @ + (IF local THEN 1 ELSE 0),
                                !.aborted = @ \/ ~local])

Head1(i) == Head(imports[i].rows)

Begin(i) ==
    /\ imports[i].pc = "idle" /\ begun < MaxImports
    /\ begun' = begun + 1
    /\ \E f \in Files :
          imports' = [imports EXCEPT ![i] =
             [NoImport EXCEPT !.rows = f, !.total = Len(f),
                              !.pc = IF f = <<>> THEN "commit" ELSE "find"]]
    /\ UNCHANGED <<machines, writes, logs>>

FindMachine(i) ==
    /\ imports[i].pc = "find"
    /\ LET row == Head1(i)
       IN  IF row.as = "badIp" THEN Failed(i, TRUE)
           ELSE IF imports[i].aborted THEN Failed(i, FALSE)
           ELSE IF row.as = "SKIP" THEN Counted(i, "skipped", imports[i].held)
           ELSE imports' = [imports EXCEPT ![i] =
                   [@ EXCEPT !.exists = row.host \in machines \cup imports[i].held,
                             !.pc = "write"]]
    /\ UNCHANGED <<machines, begun, writes, logs>>

Holder(h) == {i \in Import : h \in imports[i].held /\ ~imports[i].aborted}

\* A row that is there is updated, or kept; one that is not is created, and
\* fails if another transaction has created it since.
WriteMachine(i) ==
    /\ imports[i].pc = "write"
    /\ LET row == Head1(i)
           held == imports[i].held
           there == row.host \in machines \cup held
       IN  IF imports[i].exists /\ row.as = "keep" THEN Counted(i, "skipped", held)
           ELSE /\ Holder(row.host) \subseteq {i}
                /\ IF imports[i].exists # there THEN Failed(i, imports[i].exists)
                   ELSE Counted(i, IF there THEN "updated" ELSE "created",
                                held \cup {row.host})
    /\ UNCHANGED <<machines, begun, writes, logs>>

\* A statement fails, of a location or a tag, or chosen to end a deadlock.
StatementFails(i) ==
    /\ imports[i].pc \in {"find", "write"} /\ writes < MaxWrites
    /\ Head1(i).as # "badIp"
    /\ writes' = writes + 1
    /\ Failed(i, FALSE)
    /\ UNCHANGED <<machines, begun, logs>>

\* The transaction may not last longer than a minute.
TimesOut(i) ==
    /\ imports[i].pc \in {"find", "write", "commit"}
    /\ imports' = [imports EXCEPT ![i] = NoImport]
    /\ UNCHANGED <<machines, begun, writes, logs>>

Commit(i) ==
    /\ imports[i].pc = "commit"
    /\ machines' = IF imports[i].aborted THEN machines ELSE machines \cup imports[i].held
    /\ imports' = [imports EXCEPT ![i].pc = "log"]
    /\ UNCHANGED <<begun, writes, logs>>

SaveLog(i) ==
    /\ imports[i].pc = "log"
    /\ logs' = logs \cup
         {[count |-> imports[i].count, total |-> imports[i].total,
           claimed |-> imports[i].held,
           wrote |-> IF imports[i].aborted THEN {} ELSE imports[i].held]}
    /\ imports' = [imports EXCEPT ![i] = NoImport]
    /\ UNCHANGED <<machines, begun, writes>>

\* A machine is created or deleted elsewhere.
WriteElsewhere(h) ==
    /\ writes < MaxWrites /\ Holder(h) = {}
    /\ writes' = writes + 1
    /\ machines' = IF h \in machines THEN machines \ {h} ELSE machines \cup {h}
    /\ UNCHANGED <<imports, begun, logs>>

Next ==
    \/ \E i \in Import : \/ Begin(i) \/ FindMachine(i) \/ WriteMachine(i)
                         \/ StatementFails(i) \/ TimesOut(i) \/ Commit(i) \/ SaveLog(i)
    \/ \E h \in Host : WriteElsewhere(h)

Spec == Init /\ [][Next]_impVars

-----------------------------------------------------------------------------
(* Properties                                                              *)

\* Every row of the file is counted once, and the machines counted as created
\* or updated are in the inventory, or else none of them is and a row other
\* than those local ones is counted as an error: a log without such errors
\* tells the truth, whoever writes the same machines meanwhile.
ImportHonest ==
    \A l \in logs :
        LET c == l.count
        IN  /\ c.created + c.updated + c.skipped + c.errors = l.total
            /\ l.wrote # l.claimed => l.wrote = {} /\ c.errors > c.local

=============================================================================
