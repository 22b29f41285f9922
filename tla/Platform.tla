------------------------------ MODULE Platform ------------------------------
(***************************************************************************)
(* The services of the back end around the automation, the scans and the   *)
(* backups.  None of these modules reads a column of another (what one     *)
(* writes of another's is a step of the other's environment), so a         *)
(* behaviour shows one of them, the active one: their product would only   *)
(* repeat the same states.                                                 *)
(***************************************************************************)
EXTENDS Accounts, AgentRegistry, ServiceDesk, Sequences

CONSTANTS
    Client,        \* alerts, samples, imports or requests under way at once
    Thing,         \* hosts, maintenances or rows of an address
    Machine, Address,
    Place,         \* locations
    Single,        \* where one is enough: a target, a network
    Ttl, Cooldown, Window, rateLimit,      \* of the notifications
    Recent,                                \* of the anomalies
    \* bounds of the seven modules
    MaxNotices, MaxUpdates, MaxCycles, MaxTime, MaxOutside, MaxRows, MaxImports, MaxWrites,
    MaxSeats, MaxAssigned, MaxHour, MaxPlanned, MaxCalls, MaxEdits

ASSUME PlatformAssumption ==
    /\ Ttl \in Nat \ {0} /\ Cooldown \in Nat /\ Window \in Nat /\ rateLimit \in Nat
    /\ Recent \in Nat
    /\ MaxRows \in Nat /\ MaxSeats \in Nat /\ MaxHour \in Nat
    \* The values that stand for nothing are not one of the things.
    /\ {"root", "absent"} \cap Place = {}
    /\ "none" \notin Machine \cup Client /\ "gone" \notin Address

VARIABLES
    active,
    clock, row, cachedConfig, updating, cooldownMap, recent, notices, log, updates,
    up, hasPort, hostStatus, anomalies, cycle, ingest, time, cycles, outside, raised,
    machines, imports, begun, writes, logs,
    seats, assignments, warned, unsure, assigners, assigned,
    maintenances, planners, planned,
    addresses, primaryIp, bare, requests, muddled, called,
    parent, editors, looped, edits

alertVars    == <<clock, row, cachedConfig, updating, cooldownMap, recent, notices, log,
                  updates>>
hostVars     == <<up, hasPort, hostStatus, anomalies, cycle, ingest, time, cycles, outside,
                  raised>>
fileVars     == <<machines, imports, begun, writes, logs>>
seatVars     == <<seats, assignments, warned, unsure, assigners, assigned>>
planningVars == <<maintenances, planners, planned>>
ipVars       == <<addresses, primaryIp, bare, requests, muddled, called>>
placeVars    == <<parent, editors, looped, edits>>

Alerts   == INSTANCE Notifier WITH Notice <- Client
Hosts    == INSTANCE Monitoring WITH Ingest <- Client
Files    == INSTANCE InventoryImport WITH Import <- Client, Host <- Thing
Seats    == INSTANCE Licences WITH Assigner <- Client
Planning == INSTANCE Maintenances WITH
    Planner <- Client, Target <- Single, Maintenance <- Thing
Ips      == INSTANCE Ipam WITH Clerk <- Client, Network <- Single, Id <- Thing
Sites    == INSTANCE Locations WITH Editor <- Client, Location <- Place

Services == {"alerts", "hosts", "people", "registry", "files", "desk", "seats",
             "planning", "ips", "sites"}

\* A service that is not active is not there.
NoAlerts == /\ clock = 0 /\ row = 0 /\ cachedConfig = 0 /\ updating = 0 /\ cooldownMap = 0
            /\ recent = 0 /\ notices = 0 /\ log = 0 /\ updates = 0
NoHosts  == /\ up = 0 /\ hasPort = 0 /\ hostStatus = 0 /\ anomalies = 0 /\ cycle = 0
            /\ ingest = 0 /\ time = 0 /\ cycles = 0 /\ outside = 0 /\ raised = 0
NoFiles  == machines = 0 /\ imports = 0 /\ begun = 0 /\ writes = 0 /\ logs = 0
NoSeats  == /\ seats = 0 /\ assignments = 0 /\ warned = 0 /\ unsure = 0
            /\ assigners = 0 /\ assigned = 0
NoPlans  == maintenances = 0 /\ planners = 0 /\ planned = 0
NoIps    == /\ addresses = 0 /\ primaryIp = 0 /\ bare = 0 /\ requests = 0
            /\ muddled = 0 /\ called = 0
NoSites  == parent = 0 /\ editors = 0 /\ looped = 0 /\ edits = 0

Init ==
    /\ active \in Services
    /\ AccountsInit /\ RegistryInit /\ DeskInit
    /\ active # "people" => Admins = {}
    /\ IF active = "alerts" THEN Alerts!Init ELSE NoAlerts
    /\ IF active = "hosts" THEN Hosts!Init ELSE NoHosts
    /\ IF active = "files" THEN Files!Init ELSE NoFiles
    /\ IF active = "seats" THEN Seats!Init ELSE NoSeats
    /\ IF active = "planning" THEN Planning!Init ELSE NoPlans
    /\ IF active = "ips" THEN Ips!Init ELSE NoIps
    /\ IF active = "sites" THEN Sites!Init ELSE NoSites

OthersRest(s) ==
    /\ UNCHANGED active
    /\ s # "alerts"   => UNCHANGED alertVars
    /\ s # "hosts"    => UNCHANGED hostVars
    /\ s # "people"   => UNCHANGED accVars
    /\ s # "registry" => UNCHANGED regVars
    /\ s # "files"    => UNCHANGED fileVars
    /\ s # "desk"     => UNCHANGED deskVars
    /\ s # "seats"    => UNCHANGED seatVars
    /\ s # "planning" => UNCHANGED planningVars
    /\ s # "ips"      => UNCHANGED ipVars
    /\ s # "sites"    => UNCHANGED placeVars

Next ==
    \/ active = "alerts"   /\ Alerts!Next  /\ OthersRest("alerts")
    \/ active = "hosts"    /\ Hosts!Next   /\ OthersRest("hosts")
    \/ active = "people"   /\ AccountsNext /\ OthersRest("people")
    \/ active = "registry" /\ RegistryNext /\ OthersRest("registry")
    \/ active = "files"    /\ Files!Next   /\ OthersRest("files")
    \/ active = "desk"     /\ DeskNext     /\ OthersRest("desk")
    \/ active = "seats"    /\ Seats!Next   /\ OthersRest("seats")
    \/ active = "planning" /\ Planning!Next/\ OthersRest("planning")
    \/ active = "ips"      /\ Ips!Next     /\ OthersRest("ips")
    \/ active = "sites"    /\ Sites!Next   /\ OthersRest("sites")

allVars == <<active, alertVars, hostVars, accVars, regVars, fileVars, deskVars, seatVars,
             planningVars, ipVars, placeVars>>

Spec == Init /\ [][Next]_allVars

-----------------------------------------------------------------------------
(* Properties                                                              *)

\* The variables of the active service have their types.
TypeOK ==
    /\ active \in Services
    /\ active = "alerts"   => Alerts!TypeOK
    /\ active = "hosts"    => Hosts!TypeOK
    /\ active = "people"   => AccountsTypeOK
    /\ active = "registry" => RegistryTypeOK
    /\ active = "files"    => Files!TypeOK
    /\ active = "desk"     => DeskTypeOK
    /\ active = "seats"    => Seats!TypeOK
    /\ active = "planning" => Planning!TypeOK
    /\ active = "ips"      => Ips!TypeOK
    /\ active = "sites"    => Sites!TypeOK

\* Cool-down, recovery, rate limit and a changed configuration, as far as the
\* notification service keeps them between its awaits (notify:288).
AlertsHonest ==
    active = "alerts" =>
        /\ Alerts!AlertsSpaced /\ Alerts!SuppressedForAReason
        /\ Alerts!RateLimited /\ Alerts!UpdateHonoured

\* What the alerts of the monitoring say of a host: a recovery and an anomaly
\* (ingestSamples:95, recordAnomaly:268).
HostsHonest ==
    active = "hosts" =>
        Hosts!RecoveryAnnounced /\ Hosts!AnomalyOnce

\* The log of an import tells what it wrote (executeImport:330).
ImportHonest == active = "files" => Files!ImportHonest

\* Seats, maintenances, addresses and locations are counted or read first and
\* written later: what they collide with is noticed unless requests crossed, or
\* the request asked for what nobody checks (assignLicense:226,
\* createMaintenance:55, updateIP:493, detectConflicts:564, update:160).
CollisionsNoticed ==
    /\ active = "seats" => Seats!SeatsNoticed
    /\ active = "planning" => Planning!ConflictsReported
    /\ active = "ips" => Ips!AddressesHonest
    /\ active = "sites" => Sites!LocationsShown

=============================================================================
