----------------------------- MODULE Locations -----------------------------
(***************************************************************************)
(* The hierarchy of the locations (locations.service.ts): create, update   *)
(* and delete, and the tree getTree makes of them.                         *)
(*                                                                         *)
(* An action is one database call with the code that follows its answer;   *)
(* a call may fail.  Of a location only its parent is kept; its name,      *)
(* which create looks for first, is unique in the database too, and is the *)
(* location here.                                                          *)
(***************************************************************************)
EXTENDS Integers

CONSTANTS
    Editor,        \* requests under way at once
    Location,
    MaxEdits       \* bound: requests

VARIABLES
    parent,        \* database: Location.parentId, Root without, Absent without the row
    editors,       \* the requests under way
    looped,        \* for the properties: moved to where they lay above
    edits

locVars == <<parent, editors, looped, edits>>

Root   == "root"
Absent == "absent"
EditorState == [pc : {"idle", "update", "delete"}, on : SUBSET Location,
                parentId : SUBSET (Location \cup {Root})]
Off == [pc |-> "idle", on |-> {}, parentId |-> {}]

TypeOK ==
    /\ parent \in [Location -> Location \cup {Root, Absent}]
    /\ editors \in [Editor -> EditorState]
    /\ looped \subseteq Location
    /\ edits \in Nat

Init ==
    /\ parent = [l \in Location |-> Root]
    /\ editors = [e \in Editor |-> Off]
    /\ looped = {}
    /\ edits = 0

There      == {l \in Location : parent[l] # Absent}
Children(l) == {c \in Location : parent[c] = l}

\* The location, its parent, the parent of that, ...
Above(l) ==
    {a \in Location :
        \A S \in SUBSET Location :
            l \in S /\ (\A x \in S : {parent[x]} \cap Location \subseteq S) => a \in S}

Ask(e)     == editors[e].pc = "idle" /\ edits < MaxEdits /\ edits' = edits + 1
At(e, pc)  == editors[e].pc = pc
Done(e)    == editors' = [editors EXCEPT ![e] = Off]
Go(e, pc, l, to) ==
    editors' = [editors EXCEPT ![e] = [pc |-> pc, on |-> {l}, parentId |-> to]]

-----------------------------------------------------------------------------

\* A parent that is not there is refused by the database.
Create(e, l) ==
    /\ Ask(e) /\ l \notin There
    /\ \A f \in Editor : l \notin editors[f].on \cup editors[f].parentId
    /\ \E p \in There \cup {Root} : parent' = [parent EXCEPT ![l] = p]
    /\ UNCHANGED <<editors, looped>>

\* Mutant: a location may be its own parent.
MayBeParentAny(p, l) == p \in There \cup {Root}

\* update refuses the location itself, and nothing that lies below it.
MayBeParent(p, l) == p \in (There \cup {Root}) \ {l}

ReadLocation(e, l) ==
    /\ Ask(e) /\ l \in There
    /\ \E p \in Location \cup {Root} : MayBeParent(p, l) /\ Go(e, "update", l, {p})
    /\ UNCHANGED <<parent, looped>>

\* The location or its new parent may be gone by now: nothing is written then.
WriteLocation(e) ==
    /\ At(e, "update")
    /\ \E l \in editors[e].on, p \in editors[e].parentId :
          IF l \in There /\ p \in There \cup {Root}
          THEN /\ parent' = [parent EXCEPT ![l] = p]
               /\ looped' = IF p # l /\ p # Root /\ l \in Above(p) THEN looped \cup {l}
                                                                   ELSE looped \ {l}
          ELSE UNCHANGED <<parent, looped>>
    /\ Done(e)
    /\ UNCHANGED edits

LookForChildren(e, l) ==
    /\ Ask(e) /\ l \in There
    /\ IF Children(l) = {} THEN Go(e, "delete", l, {}) ELSE UNCHANGED editors
    /\ UNCHANGED <<parent, looped>>

\* Children it has got since are left without a parent (onDelete: SetNull).
Delete(e) ==
    /\ At(e, "delete")
    /\ parent' = [c \in Location |-> IF c \in editors[e].on THEN Absent
                                     ELSE IF {parent[c]} \subseteq editors[e].on THEN Root
                                     ELSE parent[c]]
    /\ looped' = looped \ editors[e].on
    /\ Done(e)
    /\ UNCHANGED edits

\* The database fails: the request ends where it is.
Fail(e) ==
    /\ ~At(e, "idle") /\ Done(e)
    /\ UNCHANGED <<parent, looped, edits>>

Next ==
    \E e \in Editor :
       \/ WriteLocation(e) \/ Delete(e) \/ Fail(e)
       \/ \E l \in Location : Create(e, l) \/ ReadLocation(e, l) \/ LookForChildren(e, l)

Spec == Init /\ [][Next]_locVars

-----------------------------------------------------------------------------
(* Properties                                                              *)

\* What getTree reaches from its roots.
Shown == {l \in There : \E a \in Above(l) : parent[a] \notin Location}

\* A location that getTree leaves out, with all that lies in it, is in or below
\* one that was moved under a location that lay below it, which update
\* (update:160) refuses only for the location itself; deletions that race new
\* children, and moves that cross, leave no other holes.
LocationsShown ==
    \A l \in There \ Shown : Above(l) \cap looped # {}

=============================================================================
