---------------------------- MODULE Maintenances ----------------------------
(***************************************************************************)
(* The maintenances (maintenance.service.ts): createMaintenance looks for  *)
(* those of the same machine or asset at the same time, creates its own    *)
(* and reports how many it had found.  Nothing is ever refused.            *)
(*                                                                         *)
(* An action is one database call with the code that follows its answer;   *)
(* a call may fail.  An hour stands for a point in time; no code asks that *)
(* a maintenance ends after it starts.                                     *)
(***************************************************************************)
EXTENDS Integers, FiniteSets

CONSTANTS
    Planner,       \* requests under way at once
    Target,        \* machines and assets
    Maintenance,   \* identifiers of maintenances
    MaxHour,       \* bound: hours
    MaxPlanned     \* bound: requests

VARIABLES
    maintenances,  \* database: Maintenance, with its check list
    planners,      \* the requests under way
    planned

mntVars == <<maintenances, planners, planned>>

Hour   == 0 .. MaxHour
Places == Target \cup {"none"}
\* live: PLANNED, SCHEDULED or IN_PROGRESS.   counted: the conflicts the reply
\* reported.   For the properties, changed: updated since, or counted early.
Row    == [status : {"none", "live", "over"}, on : Places, start : Hour, end : Hour,
           items : BOOLEAN, counted : SUBSET Maintenance, changed : BOOLEAN]
NoRow  == [status |-> "none", on |-> "none", start |-> 0, end |-> 0,
           items |-> FALSE, counted |-> {}, changed |-> FALSE]
\* old: others were written since the conflicts were counted.
PlannerState == [pc : {"idle", "insert", "checklist"}, row : Row,
                 id : SUBSET Maintenance, old : BOOLEAN]
Away == [pc |-> "idle", row |-> NoRow, id |-> {}, old |-> FALSE]

TypeOK ==
    /\ maintenances \in [Maintenance -> Row]
    /\ planners \in [Planner -> PlannerState]
    /\ planned \in Nat

Init ==
    /\ maintenances = [m \in Maintenance |-> NoRow]
    /\ planners = [b \in Planner |-> Away]
    /\ planned = 0

Ask(b)    == planners[b].pc = "idle" /\ planned < MaxPlanned /\ planned' = planned + 1
At(b, pc) == planners[b].pc = pc

\* Mutant: only what starts within the new period is a conflict.
StartsWithin(row, m) ==
    /\ maintenances[m].status = "live"
    /\ row.on # "none" /\ maintenances[m].on = row.on
    /\ maintenances[m].start \in row.start .. row.end

\* A maintenance without machine and asset asks for an empty OR: none matches.
Conflicts(row, m) ==
    /\ maintenances[m].status = "live"
    /\ row.on # "none" /\ maintenances[m].on = row.on
    /\ maintenances[m].start <= row.end /\ maintenances[m].end >= row.start

FindConflicts(b) ==
    /\ Ask(b)
    /\ \E on \in Places, start \in Hour, end \in Hour, status \in {"live", "over"} :
          LET row == [NoRow EXCEPT !.status = status, !.on = on, !.start = start, !.end = end]
          IN  planners' = [planners EXCEPT ![b] =
                 [Away EXCEPT !.pc = "insert",
                     !.row = [row EXCEPT !.counted = {m \in Maintenance : Conflicts(row, m)}]]]
    /\ UNCHANGED maintenances

\* Those that have counted and not yet written: their count is an old one.
Outdated(b) == [c \in Planner |-> [planners[c] EXCEPT !.old = @ \/ (c # b /\ At(c, "insert"))]]

\* An identifier is a new one: no request and no count remembers it.
InsertMaintenance(b, m) ==
    /\ At(b, "insert") /\ maintenances[m].status = "none"
    /\ \A c \in Planner : m \notin planners[c].row.counted \cup planners[c].id
    /\ \A n \in Maintenance : m \notin maintenances[n].counted
    /\ maintenances' = [maintenances EXCEPT ![m] =
                          [planners[b].row EXCEPT !.changed = planners[b].old]]
    /\ planners' = [Outdated(b) EXCEPT ![b] = [Away EXCEPT !.pc = "checklist", !.id = {m}]]
    /\ UNCHANGED planned

\* The items of the request or of the runbook, if there are any, and if the
\* maintenance has not been deleted meanwhile.
WriteChecklist(b) ==
    /\ At(b, "checklist")
    /\ maintenances' \in {maintenances,
         [m \in Maintenance |->
            IF m \in planners[b].id /\ maintenances[m].status # "none"
            THEN [maintenances[m] EXCEPT !.items = TRUE] ELSE maintenances[m]]}
    /\ planners' = [planners EXCEPT ![b] = Away]
    /\ UNCHANGED planned

\* updateMaintenance looks for no conflicts.
UpdateMaintenance(b, m) ==
    /\ Ask(b) /\ maintenances[m].status # "none"
    /\ \E on \in Places, start \in Hour, end \in Hour, status \in {"live", "over"} :
          maintenances' = [maintenances EXCEPT ![m] =
             [@ EXCEPT !.status = status, !.on = on, !.start = start, !.end = end,
                       !.changed = TRUE]]
    /\ planners' = Outdated(b)

DeleteMaintenance(b, m) ==
    /\ Ask(b) /\ maintenances[m].status # "none"
    /\ maintenances' = [maintenances EXCEPT ![m] = NoRow]
    /\ UNCHANGED planners

\* The database fails: the request ends where it is.
Fail(b) ==
    /\ ~At(b, "idle")
    /\ planners' = [planners EXCEPT ![b] = Away]
    /\ UNCHANGED <<maintenances, planned>>

Next ==
    \E b \in Planner :
       \/ FindConflicts(b) \/ WriteChecklist(b) \/ Fail(b)
       \/ \E m \in Maintenance : \/ InsertMaintenance(b, m) \/ UpdateMaintenance(b, m)
                                 \/ DeleteMaintenance(b, m)

Spec == Init /\ [][Next]_mntVars

-----------------------------------------------------------------------------
(* Properties                                                              *)

\* Two maintenances of one machine that share an hour: one of them reported the
\* other, unless one was updated or they were created at once
\* (createMaintenance:55).
ConflictsReported ==
    \A m, n \in Maintenance :
        LET a == maintenances[m]
            b == maintenances[n]
        IN  /\ m # n /\ a.status = "live" /\ b.status = "live" /\ a.on = b.on /\ a.on # "none"
            /\ \E h \in Hour : h \in a.start .. a.end /\ h \in b.start .. b.end
            /\ ~a.changed /\ ~b.changed
            => n \in a.counted \/ m \in b.counted

=============================================================================
