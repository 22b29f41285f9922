-------------------------------- MODULE Ipam --------------------------------
(***************************************************************************)
(* The addresses of the machines: createIP, updateIP and deleteIP          *)
(* (networks.service.ts) and create, update and delete of the machines     *)
(* (machines.service.ts), which all keep the primary address of a machine, *)
(* the creation of an interface with its address, and detectConflicts.     *)
(*                                                                         *)
(* An action is one database call with the code that follows its answer;   *)
(* a call may fail.  Networks and VLANs are rows the addresses refer to,   *)
(* the statuses RESERVED and DHCP go the way of FREE.  The database keeps  *)
(* an address unique in its network, and in none for the others.  Of a     *)
(* machine only its primary address is kept.                               *)
(***************************************************************************)
EXTENDS Integers, FiniteSets

CONSTANTS
    Clerk,         \* requests under way at once
    Machine, Address, Network,
    Id,            \* identifiers of the rows of an address
    MaxCalls       \* bound: requests

VARIABLES
    addresses,     \* database: IPAddress
    primaryIp,     \* database: Machine.primaryIp, Gone without the machine
    bare,          \* database: NetworkInterface without its address, counted
    requests,      \* the requests under way
    muddled,       \* for the properties: machines whose addresses are unsettled
    called

ipVars == <<addresses, primaryIp, bare, requests, muddled, called>>

NoOne == "none"
Gone  == "gone"
Row == [there : BOOLEAN, address : Address \cup {NoOne}, network : Network \cup {NoOne},
        machine : Machine \cup {NoOne}, primary : BOOLEAN,
        status : {"FREE", "ASSIGNED", "CONFLICT"}]
NoRow == [there |-> FALSE, address |-> NoOne, network |-> NoOne, machine |-> NoOne,
          primary |-> FALSE, status |-> "FREE"]

\* row: what is to be written.   on: the machines it concerns.   crossed: another
\* request concerned one of them meanwhile.   seen: the assigned rows as a
\* detection read them, without those that were written since.
RequestState ==
    [pc : {"idle", "clear", "setPrimary", "insert", "update", "clearOthers", "mark",
           "machine", "clearAll", "find", "flag"},
     id : SUBSET Id, row : Row, makePrimary : BOOLEAN, iface : BOOLEAN,
     on : SUBSET Machine, crossed : BOOLEAN, seen : SUBSET Id, found : SUBSET Address]
Idle == [pc |-> "idle", id |-> {}, row |-> NoRow, makePrimary |-> FALSE, iface |-> FALSE,
         on |-> {}, crossed |-> FALSE, seen |-> {}, found |-> {}]

TypeOK ==
    /\ addresses \in [Id -> Row]
    /\ primaryIp \in [Machine -> Address \cup {NoOne, Gone}]
    /\ bare \in Nat
    /\ requests \in [Clerk -> RequestState]
    /\ muddled \subseteq Machine
    /\ called \in Nat

Init ==
    /\ addresses = [i \in Id |-> NoRow]
    /\ primaryIp = [m \in Machine |-> NoOne]
    /\ bare = 0
    /\ requests = [k \in Clerk |-> Idle]
    /\ muddled = {}
    /\ called = 0

Ask(k)    == requests[k].pc = "idle" /\ called < MaxCalls /\ called' = called + 1
At(k, pc) == requests[k].pc = pc
Others(k, m) == {j \in Clerk \ {k} : m \in requests[j].on}
There     == {m \in Machine : primaryIp[m] # Gone}
Flagged(m) == {i \in Id : addresses[i].machine = m /\ addresses[i].primary}

\* Request k begins as q: it crosses those that concern the same machines.
Begin(k, q) ==
    requests' = [j \in Clerk |->
       IF j = k THEN [q EXCEPT !.crossed = \E m \in q.on : Others(k, m) # {}]
       ELSE [requests[j] EXCEPT !.crossed = @ \/ requests[j].on \cap q.on # {}]]

\* Request k goes on at pc, or ends, having written the rows in ids.
Go(k, pc, ids) ==
    requests' = [j \in Clerk |->
       IF j # k THEN [requests[j] EXCEPT !.seen = @ \ ids]
       ELSE IF pc = "idle" THEN Idle ELSE [requests[j] EXCEPT !.pc = pc]]

\* A request on the machines of k has ended: well and alone, or not.
Settle(k, well) ==
    muddled' = IF well /\ ~requests[k].crossed
               THEN muddled \ (requests[k].on \cap {requests[k].row.machine})
               ELSE muddled \cup requests[k].on

Taken(row) == \E i \in Id : /\ addresses[i].there
                            /\ addresses[i].address = row.address
                            /\ addresses[i].network = row.network /\ row.network # NoOne

-----------------------------------------------------------------------------
(* Creating an address                                                     *)

NewRow(a, n, m, primary) ==
    [there |-> TRUE, address |-> a, network |-> n, machine |-> m, primary |-> primary,
     status |-> IF m = NoOne THEN "FREE" ELSE "ASSIGNED"]

\* Made the primary one, if asked, before the row is there.
Creation(r, iface) ==
    IF r.primary /\ r.machine # NoOne
    THEN [Idle EXCEPT !.pc = "clear", !.row = r, !.iface = iface, !.on = {r.machine}]
    ELSE [Idle EXCEPT !.pc = "insert", !.row = r, !.iface = iface]

\* The network was found or given, and has no such address; an interface is
\* created before its address, which is refused then and leaves it behind.
CreateIP(k) ==
    /\ Ask(k)
    /\ \E a \in Address, n \in Network \cup {NoOne}, m \in There \cup {NoOne},
          primary \in BOOLEAN, iface \in BOOLEAN :
          /\ iface => m # NoOne /\ ~primary
          /\ IF Taken(NewRow(a, n, m, primary))
             THEN iface /\ bare' = bare + 1 /\ UNCHANGED requests
             ELSE Begin(k, Creation(NewRow(a, n, m, primary), iface)) /\ UNCHANGED bare
    /\ UNCHANGED <<addresses, primaryIp, muddled>>

\* Mutant: only the addresses of the network lose the flag.
ClearedInNetwork(row, ids) ==
    [i \in Id |-> IF i \notin ids /\ addresses[i].machine = row.machine
                     /\ addresses[i].network = row.network
                  THEN [addresses[i] EXCEPT !.primary = FALSE] ELSE addresses[i]]

\* Every address of the machine but those in ids loses the flag.
Cleared(row, ids) ==
    [i \in Id |-> IF i \notin ids /\ addresses[i].machine = row.machine
                  THEN [addresses[i] EXCEPT !.primary = FALSE] ELSE addresses[i]]

Touched(row, ids) == {i \in Id \ ids : addresses[i].machine = row.machine}

ClearFlags(k) ==
    /\ At(k, "clear")
    /\ addresses' = Cleared(requests[k].row, {})
    /\ Go(k, "setPrimary", Touched(requests[k].row, {}))
    /\ UNCHANGED <<primaryIp, bare, muddled, called>>

\* createIP goes on to the row, updateIP has already written it.
SetPrimary(k) ==
    /\ At(k, "setPrimary") /\ requests[k].row.machine \in There
    /\ primaryIp' = [m \in Machine |-> IF m = requests[k].row.machine
                                       THEN requests[k].row.address ELSE primaryIp[m]]
    /\ IF requests[k].makePrimary
       THEN Go(k, "idle", {}) /\ Settle(k, TRUE)
       ELSE Go(k, "insert", {}) /\ UNCHANGED muddled
    /\ UNCHANGED <<addresses, bare, called>>

\* An identifier is a new one: no request remembers it.
InsertIP(k, i) ==
    /\ At(k, "insert") /\ ~addresses[i].there /\ ~Taken(requests[k].row)
    /\ requests[k].row.machine \in There \cup {NoOne}
    /\ \A j \in Clerk : i \notin requests[j].id
    /\ addresses' = [addresses EXCEPT ![i] = requests[k].row]
    /\ Go(k, "idle", {i}) /\ Settle(k, TRUE)
    /\ UNCHANGED <<primaryIp, bare, called>>

-----------------------------------------------------------------------------
(* Updating and deleting                                                   *)

\* What the request leaves out is written back as it was read: without
\* isPrimary the flag moves with its address.
UpdateIP(k, i) ==
    /\ Ask(k) /\ addresses[i].there
    /\ \E a \in Address, n \in Network \cup {NoOne}, m \in There \cup {NoOne},
          s \in {"FREE", "ASSIGNED", "keep"}, p \in {"keep", "set", "unset"} :
          LET old == addresses[i]
              row == [old EXCEPT
                        !.address = a, !.network = n, !.machine = m,
                        !.primary = (p = "set") \/ (p = "keep" /\ @),
                        !.status = IF m # old.machine
                                   THEN IF m = NoOne THEN "FREE" ELSE "ASSIGNED"
                                   ELSE IF s = "keep" THEN @ ELSE s]
          IN  Begin(k, [Idle EXCEPT !.pc = "update", !.id = {i}, !.row = row,
                           !.makePrimary = p = "set" /\ m # NoOne,
                           !.on = {old.machine, m} \cap Machine])
    /\ UNCHANGED <<addresses, primaryIp, bare, muddled>>

\* A flag that moved or changed its address, or is written over one that
\* changed, leaves the machine with none that is right, or with two.
Unsettled(k, i) ==
    \/ requests[k].crossed
    \/ requests[k].row.primary /\ (addresses[i].machine # requests[k].row.machine
                                   \/ addresses[i].address # requests[k].row.address)

\* The row or the machine may be gone, or the address be taken in its network.
WriteIP(k, i) ==
    /\ At(k, "update") /\ i \in requests[k].id
    /\ LET row == requests[k].row
           done == /\ addresses[i].there /\ row.machine \in There \cup {NoOne}
                   /\ ~\E j \in Id \ {i} :
                      /\ addresses[j].there /\ addresses[j].address = row.address
                      /\ addresses[j].network = row.network /\ row.network # NoOne
       IN  IF ~done THEN Go(k, "idle", {}) /\ UNCHANGED <<addresses, muddled>>
           ELSE /\ addresses' = [addresses EXCEPT ![i] = row]
                /\ Go(k, IF requests[k].makePrimary THEN "clearOthers" ELSE "idle", {i})
                /\ muddled' = IF Unsettled(k, i) THEN muddled \cup requests[k].on ELSE muddled
    /\ UNCHANGED <<primaryIp, bare, called>>

ClearOthers(k) ==
    /\ At(k, "clearOthers")
    /\ addresses' = Cleared(requests[k].row, requests[k].id)
    /\ Go(k, "setPrimary", Touched(requests[k].row, requests[k].id))
    /\ UNCHANGED <<primaryIp, bare, muddled, called>>

DeleteIP(k, i) ==
    /\ Ask(k) /\ addresses[i].there
    /\ addresses' = [addresses EXCEPT ![i] = NoRow]
    /\ requests' = [j \in Clerk |-> [requests[j] EXCEPT !.seen = @ \ {i}]]
    /\ UNCHANGED <<primaryIp, bare, muddled>>

\* The database fails, or refuses a row another request has just written.
Fail(k) ==
    /\ requests[k].pc \notin {"idle", "update"}
    /\ Go(k, "idle", {}) /\ Settle(k, FALSE)
    /\ bare' = bare + IF requests[k].iface THEN 1 ELSE 0
    /\ UNCHANGED <<addresses, primaryIp, called>>

-----------------------------------------------------------------------------
(* The machines                                                            *)

PrimaryRow(m, a) ==
    [there |-> TRUE, address |-> a, network |-> NoOne, machine |-> m, primary |-> TRUE,
     status |-> "ASSIGNED"]

\* A machine is a new one: no request remembers it.
CreateMachine(k, m) ==
    /\ Ask(k) /\ m \notin There
    /\ \A j \in Clerk : m \notin requests[j].on \cup {requests[j].row.machine}
    /\ \E a \in Address \cup {NoOne} :
          /\ primaryIp' = [primaryIp EXCEPT ![m] = a]
          /\ IF a = NoOne THEN UNCHANGED requests
             ELSE Begin(k, [Idle EXCEPT !.pc = "insert", !.row = PrimaryRow(m, a), !.on = {m}])
    /\ muddled' = muddled \ {m}
    /\ UNCHANGED <<addresses, bare>>

\* Its addresses are written only if the primary one is given and differs from
\* the one that is read.
UpdateMachine(k, m) ==
    /\ Ask(k) /\ m \in There
    /\ \E a \in Address \cup {NoOne} :
          Begin(k, [Idle EXCEPT !.pc = "machine", !.row = PrimaryRow(m, a), !.on = {m},
                       !.makePrimary = a \notin {NoOne, primaryIp[m]}])
    /\ UNCHANGED <<addresses, primaryIp, bare, muddled>>

\* A primary address that is taken away leaves its flag behind.
WriteMachine(k) ==
    /\ At(k, "machine")
    /\ \E m \in {requests[k].row.machine} \cap There :
          LET a == requests[k].row.address
          IN  /\ primaryIp' = [primaryIp EXCEPT ![m] = a]
              /\ IF requests[k].makePrimary
                 THEN Go(k, "clearAll", {}) /\ UNCHANGED muddled
                 ELSE /\ Go(k, "idle", {})
                      /\ muddled' = IF requests[k].crossed \/ (a = NoOne /\ Flagged(m) # {})
                                    THEN muddled \cup {m} ELSE muddled
    /\ UNCHANGED <<addresses, bare, called>>

ClearAll(k) ==
    /\ At(k, "clearAll")
    /\ addresses' = Cleared(requests[k].row, {})
    /\ Go(k, "find", Touched(requests[k].row, {}))
    /\ UNCHANGED <<primaryIp, bare, muddled, called>>

\* The address may be there already, and there more than once.
FindIP(k) ==
    /\ At(k, "find")
    /\ LET its == {i \in Id : /\ addresses[i].machine = requests[k].row.machine
                               /\ addresses[i].address = requests[k].row.address}
       IN  \/ its = {} /\ Go(k, "insert", {})
           \/ \E i \in its :
                 requests' = [requests EXCEPT ![k] = [requests[k] EXCEPT !.pc = "flag", !.id = {i}]]
    /\ UNCHANGED <<addresses, primaryIp, bare, muddled, called>>

\* Its row as it is by now: another may have moved it, and the flag then crosses
\* the requests on the machine it is set on.
FlagIP(k, i) ==
    /\ At(k, "flag") /\ i \in requests[k].id /\ addresses[i].there
    /\ addresses' = [addresses EXCEPT ![i] = [addresses[i] EXCEPT !.primary = TRUE,
                                                               !.status = "ASSIGNED"]]
    /\ requests' = [j \in Clerk |-> IF j = k THEN Idle ELSE
                      [requests[j] EXCEPT !.seen = @ \ {i},
                          !.crossed = @ \/ addresses[i].machine \in requests[j].on]]
    /\ muddled' = IF Unsettled(k, i)
                  THEN muddled \cup requests[k].on \cup ({addresses[i].machine} \cap Machine)
                  ELSE muddled \ requests[k].on
    /\ UNCHANGED <<primaryIp, bare, called>>

\* With its addresses and its interfaces.
DeleteMachine(k, m) ==
    /\ Ask(k) /\ m \in There
    /\ primaryIp' = [primaryIp EXCEPT ![m] = Gone]
    /\ LET its == {i \in Id : addresses[i].machine = m}
       IN  /\ addresses' = [i \in Id |-> IF i \in its THEN NoRow ELSE addresses[i]]
           /\ requests' = [j \in Clerk |-> [requests[j] EXCEPT !.seen = @ \ its]]
    /\ muddled' = muddled \ {m}
    /\ UNCHANGED bare

\* executeImport and restoreBackup write the machine without its addresses.
WriteElsewhere(k, m) ==
    /\ Ask(k) /\ m \in There
    /\ \E a \in Address \cup {NoOne} : primaryIp' = [primaryIp EXCEPT ![m] = a]
    /\ requests' = [j \in Clerk |-> [requests[j] EXCEPT !.crossed = @ \/ m \in requests[j].on]]
    /\ muddled' = muddled \cup {m}
    /\ UNCHANGED <<addresses, bare>>

-----------------------------------------------------------------------------
(* detectConflicts                                                         *)

Assigned(a) == {i \in Id : addresses[i].machine # NoOne /\ addresses[i].address = a}

\* Mutant: an address is a conflict when three machines have it.
ManyMachines(a) == Cardinality({addresses[i].machine : i \in Assigned(a)}) > 2

Shared(a) == Cardinality({addresses[i].machine : i \in Assigned(a)}) > 1

ReadAddresses(k) ==
    /\ Ask(k)
    /\ requests' = [requests EXCEPT ![k] =
          [Idle EXCEPT !.pc = "mark", !.seen = UNION {Assigned(a) : a \in Address},
                       !.found = {a \in Address : Shared(a)}]]
    /\ UNCHANGED <<addresses, primaryIp, bare, muddled>>

\* One statement for each address, whatever its rows have become.
MarkConflict(k, a) ==
    /\ At(k, "mark") /\ a \in requests[k].found
    /\ addresses' = [i \in Id |-> IF addresses[i].there /\ addresses[i].address = a
                                  THEN [addresses[i] EXCEPT !.status = "CONFLICT"]
                                  ELSE addresses[i]]
    /\ requests' = [requests EXCEPT ![k].found = requests[k].found \ {a}]
    /\ UNCHANGED <<primaryIp, bare, muddled, called>>

EndDetection(k) ==
    /\ At(k, "mark") /\ requests[k].found = {}
    /\ Go(k, "idle", {})
    /\ UNCHANGED <<addresses, primaryIp, bare, muddled, called>>

Next ==
    \E k \in Clerk :
       \/ CreateIP(k) \/ ClearFlags(k) \/ SetPrimary(k) \/ ClearOthers(k) \/ Fail(k)
       \/ ReadAddresses(k) \/ EndDetection(k)
       \/ \E i \in Id : InsertIP(k, i) \/ UpdateIP(k, i) \/ WriteIP(k, i) \/ DeleteIP(k, i)
       \/ \E a \in Address : MarkConflict(k, a)
       \/ WriteMachine(k) \/ ClearAll(k) \/ FindIP(k) \/ \E i \in Id : FlagIP(k, i)
       \/ \E m \in Machine : \/ CreateMachine(k, m) \/ UpdateMachine(k, m)
                             \/ DeleteMachine(k, m) \/ WriteElsewhere(k, m)

Spec == Init /\ [][Next]_ipVars

-----------------------------------------------------------------------------
(* Properties                                                              *)

\* A machine has at most one primary address, and it is the one the machine
\* names, once the requests on it are over: unless two of them crossed, one
\* failed half-way, a flagged address was moved or changed without being made
\* primary anew (updateIP:493), or the machine's was taken away (update:249) or
\* written by an import or a restore (executeImport:431).
OnePrimary ==
    \A m \in Machine \ muddled :
        Others(NoOne, m) = {} =>
            /\ Cardinality(Flagged(m)) <= 1
            /\ \A i \in Flagged(m) : primaryIp[m] = addresses[i].address

\* When a detection is over, two machines with one address are both marked,
\* unless one of their rows was written since the detection read it
\* (detectConflicts:564).
ConflictsMarked ==
    \A k \in Clerk : At(k, "mark") /\ requests[k].found = {} =>
        \A i, j \in requests[k].seen :
            /\ addresses[i].address = addresses[j].address
            /\ addresses[i].machine # addresses[j].machine
            => addresses[i].status = "CONFLICT"

\* What the addresses promise.
AddressesHonest == OnePrimary /\ ConflictsMarked

=============================================================================
