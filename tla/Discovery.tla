----------------------------- MODULE Discovery -----------------------------
(***************************************************************************)
(* The discovery of one network: DiscoveryService of the backend           *)
(* (discovery.service.ts), which keeps the rows of DiscoveryScan, polls    *)
(* the scanner and compares what it found with the inventory, and the      *)
(* DiscoveryEngine of the scanner (engine.ts), which keeps its scans in    *)
(* memory only.  Both may restart, and any call between them or to the     *)
(* database may fail.                                                      *)
(*                                                                         *)
(* An action is one awaited call with the synchronous code that follows    *)
(* its answer.  A machine is known by its primary address or else by its   *)
(* MAC or host name; the two are one identity here, that of the machine    *)
(* itself, and a device bears the identity it has or would get in the      *)
(* inventory.  Of the differences the comparison reports only a new device,*)
(* a changed address and a missing machine are kept.                       *)
(***************************************************************************)
EXTENDS Integers, FiniteSets

CONSTANTS
    Call,          \* requests under way at once
    Scan,          \* rows that can be created
    Ip,            \* the addresses of the network
    Machine,       \* devices, in the inventory or not
    Nowhere,       \* the address of a machine that is not in the inventory
    Inventory,     \* primary addresses at the start
    MaxRequests,   \* bound: requests ever made
    MaxFaults      \* bound: failing calls and restarts

ASSUME DiscoveryAssumption ==
    /\ Nowhere \notin Ip
    /\ Inventory \in [Machine -> Ip \cup {Nowhere}]

VARIABLES
    status,     \* database: DiscoveryScan.status, "none" before the row
    primary,    \* database: Machine.primaryIp
    state,      \* database: Machine.status
    hosts,      \* database: DiscoveryHost, the hosts saved for each scan
    changes,    \* database: DiscoveryChange
    calls,      \* backend: startScan, cancelScan and importHost under way
    monitor,    \* backend: monitorScanBackground, by scan
    remote,     \* scanner: activeScans, the status
    cancelled,  \* scanner: cancelledScans
    working,    \* scanner: scans whose workers have not ended
    left,       \* scanner: the addresses they have not probed
    found,      \* scanner: discoveredHosts
    requests, faults,
    history     \* what the properties remember

rows      == <<status, primary, state, hosts, changes>>
scanner   == <<remote, cancelled, working, left, found>>
bounds    == <<requests, faults>>
vars      == <<rows, calls, monitor, scanner, bounds, history>>

Status  == {"none", "RUNNING", "COMPLETED", "FAILED", "CANCELLED"}
Host    == [ip : Ip, device : Machine]
Change  == [scan : Scan, host : Host,
            type : {"NEW_DEVICE", "IP_CHANGED", "DEVICE_OFFLINE"},
            status : {"PENDING", "APPROVED", "IGNORED", "APPLIED"}]

\* scan is the row the request is about, host the one that is imported.
CallState ==
    [pc : {"idle", "look", "insert", "post", "answer", "fail",
           "send", "cancel", "create", "apply"},
     scan : SUBSET Scan, host : SUBSET Host]
IdleCall == [pc |-> "idle", scan |-> {}, host |-> {}]

\* existing is the inventory as processScanResults read it, todo and missing
\* what its two loops have before them.
MonitorState ==
    [pc : {"none", "poll", "read", "save", "diff", "moved", "offline", "report",
           "finish", "close", "done"},
     existing : [Machine -> Ip \cup {Nowhere}],
     todo : SUBSET Host, current : SUBSET Host, missing : SUBSET Machine]
NoMonitor ==
    [pc |-> "none", existing |-> Inventory, todo |-> {}, current |-> {}, missing |-> {}]

\* acked: the scanner granted the cancellation.   lost: nobody is left to end
\* the scan.   away: machines a scan marked OFFLINE, with the address it had
\* read for them.
History == [acked : SUBSET Scan, lost : SUBSET Scan,
            away : SUBSET (Scan \X Machine \X Ip)]

TypeOK ==
    /\ status \in [Scan -> Status]
    /\ primary \in [Machine -> Ip \cup {Nowhere}]
    /\ state \in [Machine -> {"ONLINE", "OFFLINE"}]
    /\ hosts \in [Scan -> SUBSET Host]
    /\ changes \subseteq Change
    /\ calls \in [Call -> CallState]
    /\ monitor \in [Scan -> MonitorState]
    /\ remote \in [Scan -> {"none", "RUNNING", "COMPLETED", "CANCELLED"}]
    /\ cancelled \subseteq Scan /\ working \subseteq Scan
    /\ left \in [Scan -> SUBSET Ip]
    /\ found \in [Scan -> SUBSET Host]
    /\ requests \in Nat /\ faults \in Nat
    /\ history \in History

Init ==
    /\ status = [s \in Scan |-> "none"]
    /\ primary = Inventory
    /\ state = [m \in Machine |-> "ONLINE"]
    /\ hosts = [s \in Scan |-> {}]
    /\ changes = {}
    /\ calls = [c \in Call |-> IdleCall]
    /\ monitor = [s \in Scan |-> NoMonitor]
    /\ remote = [s \in Scan |-> "none"]
    /\ cancelled = {} /\ working = {}
    /\ left = [s \in Scan |-> {}]
    /\ found = [s \in Scan |-> {}]
    /\ requests = 0 /\ faults = 0
    /\ history = [acked |-> {}, lost |-> {}, away |-> {}]

At(c, pc)  == calls[c].pc = pc
Goto(c, pc) == calls' = [calls EXCEPT ![c].pc = pc]
End(c)     == calls' = [calls EXCEPT ![c] = IdleCall]
Begin(c, pc, s, h) ==
    /\ At(c, "idle") /\ requests < MaxRequests
    /\ calls' = [calls EXCEPT ![c] = [pc |-> pc, scan |-> s, host |-> h]]
    /\ requests' = requests + 1
Subject(c, s) == s \in calls[c].scan

On(s, pc)  == monitor[s].pc = pc
Move(s, pc) == monitor' = [monitor EXCEPT ![s].pc = pc]
SetStatus(s, st) == status' = [status EXCEPT ![s] = st]
Fault == faults < MaxFaults /\ faults' = faults + 1 /\ UNCHANGED requests
Lose(S) == history' = [history EXCEPT !.lost = @ \cup S]

-----------------------------------------------------------------------------
(* startScan                                                               *)

BeginStart(c) ==
    /\ Begin(c, "look", {}, {})
    /\ UNCHANGED <<rows, monitor, scanner, faults, history>>

\* A RUNNING scan of the network is returned as it is.
Look(c) ==
    /\ At(c, "look")
    /\ IF \E s \in Scan : status[s] = "RUNNING" THEN End(c) ELSE Goto(c, "insert")
    /\ UNCHANGED <<rows, monitor, scanner, bounds, history>>

Insert(c) ==
    /\ At(c, "insert")
    /\ \E s \in Scan :
          /\ status[s] = "none"
          /\ SetStatus(s, "RUNNING")
          /\ calls' = [calls EXCEPT ![c] = [pc |-> "post", scan |-> {s}, host |-> {}]]
    /\ UNCHANGED <<primary, state, hosts, changes, monitor, scanner, bounds, history>>

InsertFails(c) ==
    /\ At(c, "insert") /\ Fault
    /\ End(c)
    /\ UNCHANGED <<rows, monitor, scanner, history>>

\* The request reaches the scanner, whose workers set out.
Post(c) ==
    /\ At(c, "post")
    /\ \E s \in calls[c].scan :
          /\ remote' = [remote EXCEPT ![s] = "RUNNING"]
          /\ left' = [left EXCEPT ![s] = Ip]
          /\ working' = working \cup {s}
    /\ Goto(c, "answer")
    /\ UNCHANGED <<rows, monitor, cancelled, found, bounds, history>>

\* It does not, is refused, or its answer is lost.
PostFails(c) ==
    /\ calls[c].pc \in {"post", "answer"} /\ Fault
    /\ Goto(c, "fail")
    /\ UNCHANGED <<rows, monitor, scanner, history>>

Answer(c) ==
    /\ At(c, "answer")
    /\ monitor' = [s \in Scan |-> IF Subject(c, s)
                                  THEN [NoMonitor EXCEPT !.pc = "poll"]
                                  ELSE monitor[s]]
    /\ End(c)
    /\ UNCHANGED <<rows, scanner, bounds, history>>

\* The catch clause, whose own update may fail.
Fail(c) ==
    /\ At(c, "fail")
    /\ \/ /\ status' = [s \in Scan |-> IF Subject(c, s) THEN "FAILED" ELSE status[s]]
          /\ UNCHANGED <<bounds, history>>
       \/ Fault /\ Lose(calls[c].scan) /\ UNCHANGED status
    /\ End(c)
    /\ UNCHANGED <<primary, state, hosts, changes, monitor, scanner>>

-----------------------------------------------------------------------------
(* cancelScan, at the scanner if it can, then in the row                   *)

BeginCancel(c) ==
    /\ \E s \in Scan : status[s] # "none" /\ Begin(c, "send", {s}, {})
    /\ UNCHANGED <<rows, monitor, scanner, faults, history>>

CanCancel(s) == remote[s] \in {"RUNNING", "CANCELLED"}

SendCancel(c) ==
    /\ At(c, "send")
    /\ \E s \in calls[c].scan :
          IF CanCancel(s)
          THEN /\ cancelled' = cancelled \cup {s}
               /\ remote' = [remote EXCEPT ![s] = "CANCELLED"]
               /\ history' = [history EXCEPT !.acked = @ \cup {s}]
          ELSE UNCHANGED <<cancelled, remote, history>>
    /\ Goto(c, "cancel")
    /\ UNCHANGED <<rows, monitor, working, left, found, bounds>>

SendCancelFails(c) ==
    /\ At(c, "send") /\ Fault
    /\ Goto(c, "cancel")
    /\ UNCHANGED <<rows, monitor, scanner, history>>

\* Whatever the scanner said and whatever the row says.
WriteCancel(c) ==
    /\ At(c, "cancel")
    /\ \/ /\ status' = [s \in Scan |-> IF Subject(c, s) THEN "CANCELLED" ELSE status[s]]
          /\ UNCHANGED bounds
       \/ Fault /\ UNCHANGED status
    /\ End(c)
    /\ UNCHANGED <<primary, state, hosts, changes, monitor, scanner, history>>

-----------------------------------------------------------------------------
(* The scanner: runScanWorker                                              *)

\* A probe that is under way when the scan is cancelled still counts.
Probe(s, i) ==
    /\ s \in working /\ i \in left[s]
    /\ left' = [left EXCEPT ![s] = @ \ {i}]
    /\ \E answer \in SUBSET {[ip |-> i, device |-> m] : m \in Machine} :
          /\ Cardinality(answer) <= 1
          /\ found' = [found EXCEPT ![s] = @ \cup answer]
    /\ UNCHANGED <<rows, calls, monitor, remote, cancelled, working, bounds, history>>

\* Mutant: the workers have ended, whatever was asked meanwhile.
WorkersEndDeaf(s) ==
    /\ s \in working
    /\ left[s] = {} \/ s \in cancelled
    /\ remote' = [remote EXCEPT ![s] = "COMPLETED"]
    /\ cancelled' = cancelled \ {s}
    /\ working' = working \ {s}
    /\ UNCHANGED <<rows, calls, monitor, left, found, bounds, history>>

WorkersEnd(s) ==
    /\ s \in working
    /\ left[s] = {} \/ s \in cancelled
    /\ remote' = [remote EXCEPT ![s] = IF s \in cancelled THEN "CANCELLED" ELSE "COMPLETED"]
    /\ cancelled' = cancelled \ {s}
    /\ working' = working \ {s}
    /\ UNCHANGED <<rows, calls, monitor, left, found, bounds, history>>

\* What it kept in memory is gone, what a monitor has read of it is not.
ScannerRestart ==
    /\ Fault
    /\ \E s \in Scan : remote[s] # "none"
    /\ remote' = [s \in Scan |-> "none"]
    /\ cancelled' = {} /\ working' = {}
    /\ UNCHANGED <<rows, calls, monitor, left, found, history>>

-----------------------------------------------------------------------------
(* monitorScanBackground and processScanResults                            *)

\* Any answer but a final one, and no answer, lets the loop go on.
Poll(s) ==
    /\ On(s, "poll")
    /\ \/ remote[s] = "COMPLETED" /\ Move(s, "read")
       \/ remote[s] = "CANCELLED" /\ Move(s, "close")
    /\ UNCHANGED <<rows, calls, scanner, bounds, history>>

Close(s) ==
    /\ On(s, "close")
    /\ SetStatus(s, "CANCELLED")
    /\ Move(s, "done")
    /\ UNCHANGED <<primary, state, hosts, changes, calls, scanner, bounds, history>>

\* The loop ends after fifteen minutes, and the row stays as it is.
GiveUp(s) ==
    /\ On(s, "poll")
    /\ Move(s, "done")
    /\ Lose({s})
    /\ UNCHANGED <<rows, calls, scanner, bounds>>

\* The whole loop over the hosts works with what is read here.
ReadInventory(s) ==
    /\ On(s, "read")
    /\ monitor' = [monitor EXCEPT ![s] =
          [pc |-> "save", existing |-> primary, todo |-> found[s], current |-> {},
           missing |-> {}]]
    /\ UNCHANGED <<rows, calls, scanner, bounds, history>>

\* The machine of that address, or else the one of that identity.
Known(s, h) ==
    LET byIp == {m \in Machine : monitor[s].existing[m] = h.ip}
    IN  IF byIp # {} THEN {CHOOSE m \in byIp : TRUE}
        ELSE {m \in {h.device} : monitor[s].existing[m] # Nowhere}

\* Mutant: a machine is missing wherever another of the network answers.
MissingAll(s) ==
    {m \in Machine : monitor[s].existing[m] # Nowhere}

\* Not the machines that were not seen: those whose address was not.
Missing(s) ==
    {m \in Machine : /\ monitor[s].existing[m] # Nowhere
                     /\ \A h \in found[s] : h.ip # monitor[s].existing[m]}

Save(s) ==
    /\ On(s, "save") /\ monitor[s].todo # {}
    /\ \E h \in monitor[s].todo :
          /\ hosts' = [hosts EXCEPT ![s] = @ \cup {h}]
          /\ monitor' = [monitor EXCEPT ![s] =
                [@ EXCEPT !.pc = "diff", !.current = {h}, !.todo = monitor[s].todo \ {h}]]
    /\ UNCHANGED <<status, primary, state, changes, calls, scanner, bounds, history>>

Report(s, h, type) ==
    changes' = changes \cup {[scan |-> s, host |-> h, type |-> type, status |-> "PENDING"]}

ReportNew(s) ==
    /\ On(s, "diff")
    /\ \E h \in monitor[s].current :
          Known(s, h) = {} /\ Report(s, h, "NEW_DEVICE")
    /\ Move(s, "save")
    /\ UNCHANGED <<status, primary, state, hosts, calls, scanner, bounds, history>>

MarkOnline(s) ==
    /\ On(s, "diff")
    /\ \E h \in monitor[s].current : \E m \in Known(s, h) :
          /\ state' = [state EXCEPT ![m] = "ONLINE"]
          /\ Move(s, IF monitor[s].existing[m] = h.ip THEN "save" ELSE "moved")
    /\ UNCHANGED <<status, primary, hosts, changes, calls, scanner, bounds, history>>

ReportMoved(s) ==
    /\ On(s, "moved")
    /\ \E h \in monitor[s].current : Report(s, h, "IP_CHANGED")
    /\ Move(s, "save")
    /\ UNCHANGED <<status, primary, state, hosts, calls, scanner, bounds, history>>

HostsDone(s) ==
    /\ On(s, "save") /\ monitor[s].todo = {}
    /\ monitor' = [monitor EXCEPT ![s] =
          [@ EXCEPT !.missing = Missing(s),
                    !.pc = IF Missing(s) = {} THEN "finish" ELSE "offline"]]
    /\ UNCHANGED <<rows, calls, scanner, bounds, history>>

MarkOffline(s) ==
    /\ On(s, "offline")
    /\ \E m \in monitor[s].missing :
          /\ state' = [state EXCEPT ![m] = "OFFLINE"]
          /\ history' = [history EXCEPT !.away = @ \cup {<<s, m, monitor[s].existing[m]>>}]
          /\ monitor' = [monitor EXCEPT ![s] = [@ EXCEPT !.pc = "report",
                !.current = {[ip |-> monitor[s].existing[m], device |-> m]},
                !.missing = monitor[s].missing \ {m}]]
    /\ UNCHANGED <<status, primary, hosts, changes, calls, scanner, bounds>>

ReportOffline(s) ==
    /\ On(s, "report")
    /\ \E h \in monitor[s].current : Report(s, h, "DEVICE_OFFLINE")
    /\ Move(s, IF monitor[s].missing = {} THEN "finish" ELSE "offline")
    /\ UNCHANGED <<status, primary, state, hosts, calls, scanner, bounds, history>>

\* Whatever the row says by now.
Finish(s) ==
    /\ On(s, "finish")
    /\ SetStatus(s, "COMPLETED")
    /\ Move(s, "done")
    /\ UNCHANGED <<primary, state, hosts, changes, calls, scanner, bounds, history>>

Processing == {"close", "read", "save", "diff", "moved", "offline", "report", "finish"}

\* Mutant: an error of the comparison is swallowed and the scan finished.
ProcessingGoesOn(s) ==
    /\ monitor[s].pc \in Processing \ {"close"} /\ Fault
    /\ Move(s, "finish")
    /\ UNCHANGED <<rows, calls, scanner, history>>

\* Mutant: the catch is outside the loop.
ProcessingEndsMonitor(s) ==
    /\ monitor[s].pc \in Processing /\ Fault
    /\ Move(s, "done")
    /\ UNCHANGED <<rows, calls, scanner, history>>

\* The catch of the loop: the next poll starts the comparison afresh, and
\* what was saved and reported is saved and reported again.
ProcessingFails(s) ==
    /\ monitor[s].pc \in Processing /\ Fault
    /\ Move(s, "poll")
    /\ UNCHANGED <<rows, calls, scanner, history>>

-----------------------------------------------------------------------------
(* importHost, and the decisions on the changes                            *)

BeginImport(c) ==
    /\ \E s \in Scan : \E h \in hosts[s] : Begin(c, "create", {s}, {h})
    /\ UNCHANGED <<rows, monitor, scanner, faults, history>>

\* Host names are unique: a machine that is there is not created again.
CreateMachine(c) ==
    /\ At(c, "create")
    /\ \E h \in calls[c].host :
          IF primary[h.device] = Nowhere
          THEN /\ primary' = [primary EXCEPT ![h.device] = h.ip]
               /\ state' = [state EXCEPT ![h.device] = "ONLINE"]
               /\ Goto(c, "apply")
          ELSE End(c) /\ UNCHANGED <<primary, state>>
    /\ UNCHANGED <<status, hosts, changes, monitor, scanner, bounds, history>>

\* By scan and address, whatever was decided on them.
ApplyChanges(c) ==
    /\ At(c, "apply")
    /\ \E s \in calls[c].scan, h \in calls[c].host :
          LET its == {ch \in changes : /\ ch.scan = s /\ ch.host.ip = h.ip
                                       /\ ch.type = "NEW_DEVICE"}
          IN  changes' = (changes \ its) \cup {[ch EXCEPT !.status = "APPLIED"] : ch \in its}
    /\ End(c)
    /\ UNCHANGED <<status, primary, state, hosts, monitor, scanner, bounds, history>>

ImportFails(c) ==
    /\ calls[c].pc \in {"create", "apply"} /\ Fault
    /\ End(c)
    /\ UNCHANGED <<rows, monitor, scanner, history>>

\* Mutant: a status the enumeration does not have.
DecideRejects(ch) ==
    /\ requests < MaxRequests /\ requests' = requests + 1
    /\ changes' = (changes \ {ch}) \cup {[ch EXCEPT !.status = "REJECTED"]}
    /\ UNCHANGED <<status, primary, state, hosts, calls, monitor, scanner, faults, history>>

\* approveChange and ignoreChange ask nothing of the status before.
Decide(ch) ==
    /\ requests < MaxRequests /\ requests' = requests + 1
    /\ \E st \in {"APPROVED", "IGNORED"} :
          changes' = (changes \ {ch}) \cup {[ch EXCEPT !.status = st]}
    /\ UNCHANGED <<status, primary, state, hosts, calls, monitor, scanner, faults, history>>

\* The backend restarts: no scan is taken up again.
BackendRestart ==
    /\ Fault
    /\ calls' = [c \in Call |-> IdleCall]
    /\ monitor' = [s \in Scan |-> NoMonitor]
    /\ Lose({s \in Scan : status[s] = "RUNNING"})
    /\ UNCHANGED <<rows, scanner>>

Request(c) ==
    \/ BeginStart(c) \/ BeginCancel(c) \/ BeginImport(c)

Handle(c) ==
    \/ Look(c) \/ Insert(c) \/ Post(c) \/ Answer(c) \/ Fail(c)
    \/ SendCancel(c) \/ WriteCancel(c)
    \/ CreateMachine(c) \/ ApplyChanges(c)

HandleFails(c) ==
    \/ InsertFails(c) \/ PostFails(c) \/ SendCancelFails(c) \/ ImportFails(c)

Monitor(s) ==
    \/ Poll(s) \/ Close(s) \/ ReadInventory(s) \/ Save(s) \/ ReportNew(s)
    \/ MarkOnline(s) \/ ReportMoved(s) \/ HostsDone(s) \/ MarkOffline(s)
    \/ ReportOffline(s) \/ Finish(s)

Scanner(s) == WorkersEnd(s) \/ \E i \in Ip : Probe(s, i)

Next ==
    \/ \E c \in Call : Request(c) \/ Handle(c) \/ HandleFails(c)
    \/ \E s \in Scan : Monitor(s) \/ GiveUp(s) \/ ProcessingFails(s) \/ Scanner(s)
    \/ \E ch \in changes : Decide(ch)
    \/ ScannerRestart
    \/ BackendRestart

\* Handlers, timers and probes, which have time-outs, go on as long as their
\* process lives.  Nobody needs to ask for anything, and nothing needs to
\* fail.
Fairness ==
    /\ \A c \in Call : WF_vars(Handle(c))
    /\ \A s \in Scan : WF_vars(Monitor(s)) /\ WF_vars(Scanner(s))

Spec == Init /\ [][Next]_vars /\ Fairness

-----------------------------------------------------------------------------
(* Properties                                                              *)

\* A scan whose cancellation the scanner granted (cancelScan, engine.ts:22) is
\* never compared with the inventory, so never COMPLETED, however the
\* cancellation, the end of the workers, the polls and retries interleave.
CancelAcknowledged ==
    \A s \in history.acked :
        /\ status[s] # "COMPLETED"
        /\ monitor[s].pc \notin Processing \ {"close"}

\* A COMPLETED scan is whole: every host the scanner found is saved and, if it
\* was unknown to the inventory, reported, through failing calls, repeated
\* comparisons, cancellations, imports and restarts.
CompletedIsWhole ==
    \A s \in Scan : status[s] = "COMPLETED" =>
        /\ found[s] \subseteq hosts[s]
        /\ \A h \in found[s] :
              \/ primary[h.device] # Nowhere
              \/ \E m \in Machine : primary[m] = h.ip
              \/ \E ch \in changes :
                    ch.scan = s /\ ch.host = h /\ ch.type = "NEW_DEVICE"

\* A machine a scan both saw and marked OFFLINE was seen at another address
\* than the one read for it: at its own, it is never called missing, whatever
\* the other scans and the imports write meanwhile.
SeenButOffline ==
    \A s \in Scan, m \in Machine, i \in Ip :
        <<s, m, i>> \in history.away =>
            \A h \in found[s] : h.device = m => h.ip # i

\* A RUNNING scan, which refuses every later scan of its network, ends, unless
\* nobody is left to end it: the backend restarted, its monitor gave up after
\* fifteen minutes, the FAILED of startScan could not be written, or the
\* scanner has forgotten it.
ScansEnd ==
    \A s \in Scan :
        status[s] = "RUNNING" ~>
            \/ status[s] # "RUNNING"
            \/ s \in history.lost
            \/ On(s, "poll") /\ remote[s] = "none"

=============================================================================
