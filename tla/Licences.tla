------------------------------ MODULE Licences ------------------------------
(***************************************************************************)
(* The seats of one licence (license.service.ts): assignLicense reads the  *)
(* licence with its assignments, adds one, and logs by what it had read    *)
(* whether the licence is overallocated.  Nothing is ever refused.         *)
(*                                                                         *)
(* An action is one database call with the code that follows its answer;   *)
(* a call may fail.  The key of the licence, which is encrypted and shown  *)
(* by operations of its own, is left out.                                  *)
(***************************************************************************)
EXTENDS Integers

CONSTANTS
    Assigner,      \* requests under way at once
    MaxSeats,      \* bound: seats of the licence
    MaxAssigned    \* bound: requests

VARIABLES
    seats,         \* database: License.seats
    assignments,   \* database: LicenseAssignment, counted
    warned,        \* the logs of the assignments that said OVERALLOCATED, counted
    unsure,        \* for the properties: seats lowered, or a count that may be old
    assigners,     \* the requests under way
    assigned

licVars == <<seats, assignments, warned, unsure, assigners, assigned>>

\* room: what the request has read.   old: a seat was taken since.
AssignerState == [pc : {"idle", "assign", "logAssigned"}, room : BOOLEAN, old : BOOLEAN]
Away == [pc |-> "idle", room |-> FALSE, old |-> FALSE]

TypeOK ==
    /\ seats \in 1 .. MaxSeats
    /\ assignments \in Nat /\ warned \in Nat /\ unsure \in BOOLEAN
    /\ assigners \in [Assigner -> AssignerState]
    /\ assigned \in Nat

Init ==
    /\ seats \in 1 .. MaxSeats
    /\ assignments = 0 /\ warned = 0 /\ unsure = FALSE
    /\ assigners = [b \in Assigner |-> Away]
    /\ assigned = 0

Ask(b)    == assigners[b].pc = "idle" /\ assigned < MaxAssigned /\ assigned' = assigned + 1
At(b, pc) == assigners[b].pc = pc

\* Mutant: the seat about to be taken is not counted.
RoomBefore == assignments <= seats

\* Of the licence as it is read: isOverallocated is false.
Room == assignments + 1 <= seats

ReadLicence(b) ==
    /\ Ask(b)
    /\ assigners' = [assigners EXCEPT ![b] = [Away EXCEPT !.pc = "assign", !.room = Room]]
    /\ UNCHANGED <<seats, assignments, warned, unsure>>

\* Those that have read the licence and not yet taken a seat have an old count.
Assign(b) ==
    /\ At(b, "assign")
    /\ assignments' = assignments + 1
    /\ assigners' = [c \in Assigner |->
                     IF c = b THEN [assigners[c] EXCEPT !.pc = "logAssigned"]
                     ELSE [assigners[c] EXCEPT !.old = @ \/ At(c, "assign")]]
    /\ UNCHANGED <<seats, warned, unsure, assigned>>

LogAssigned(b) ==
    /\ At(b, "logAssigned")
    /\ warned' = warned + IF assigners[b].room THEN 0 ELSE 1
    /\ unsure' = (unsure \/ assigners[b].old)
    /\ assigners' = [assigners EXCEPT ![b] = Away]
    /\ UNCHANGED <<seats, assignments, assigned>>

\* Lowered or raised under the assignments.
UpdateSeats(b) ==
    /\ Ask(b)
    /\ \E s \in (1 .. MaxSeats) \ {seats} :
          /\ seats' = s
          /\ unsure' = (unsure \/ s < seats)
          /\ assigners' = [c \in Assigner |->
                           [assigners[c] EXCEPT !.old = @ \/ (s < seats /\ At(c, "assign"))]]
    /\ UNCHANGED <<assignments, warned>>

RemoveAssignment(b) ==
    /\ Ask(b) /\ assignments > 0
    /\ assignments' = assignments - 1
    /\ UNCHANGED <<seats, warned, unsure, assigners>>

\* The database fails: the request ends where it is.
Fail(b) ==
    /\ ~At(b, "idle")
    /\ unsure' = (unsure \/ At(b, "logAssigned"))
    /\ assigners' = [assigners EXCEPT ![b] = Away]
    /\ UNCHANGED <<seats, assignments, warned, assigned>>

Next ==
    \E b \in Assigner :
       \/ ReadLicence(b) \/ Assign(b) \/ LogAssigned(b) \/ UpdateSeats(b)
       \/ RemoveAssignment(b) \/ Fail(b)

Spec == Init /\ [][Next]_licVars

-----------------------------------------------------------------------------
(* Properties                                                              *)

\* A licence with more assignments than seats was logged as OVERALLOCATED once
\* for every seat too many, unless seats were taken away, two assignments
\* crossed or a log failed (assignLicense:241).
SeatsNoticed ==
    (\A b \in Assigner : ~At(b, "logAssigned")) /\ ~unsure =>
        assignments - seats <= warned

=============================================================================
