----------------------------- MODULE Monitoring -----------------------------
(***************************************************************************)
(* One monitored host: the cycles of the monitoring worker (engine.ts and  *)
(* server.ts of monitoring-worker), the ingestion of their samples         *)
(* (ingestSamples of metrics.service.ts), the alerts it hands to the       *)
(* notifier and the anomalies it records.                                  *)
(*                                                                         *)
(* A sample is what the ingestion tells apart: whether the ping was        *)
(* answered, whether a registered port was not, and whether its latency    *)
(* stands out.  The host has a registered port or not, as the worker read  *)
(* it.  The thresholds do not change; the samples, service checks and      *)
(* web-socket messages are left out.                                       *)
(***************************************************************************)
EXTENDS Integers, Sequences, FiniteSets

CONSTANTS
    Ingest,        \* calls of ingestSamples under way at once
    Recent,        \* the five minutes an unresolved anomaly stands for
    MaxCycles,     \* bound: cycles of the worker
    MaxTime,       \* bound: the clock
    MaxOutside     \* bound: writes of the status by users and discovery

VARIABLES
    up, hasPort,   \* the host
    hostStatus,    \* database: Machine.status
    anomalies,     \* database: MetricAnomaly, in their order
    cycle,         \* worker: the cycle under way
    ingest,        \* backend: ingestSamples
    time, cycles, outside,
    raised         \* what the properties remember

monitored == <<up, hasPort, hostStatus, anomalies, cycle, ingest, raised>>
limits    == <<time, cycles, outside>>
monVars   == <<monitored, limits>>

HostStatus == {"ONLINE", "WARNING", "OFFLINE", "UNCHECKED"}
Sample     == [ping : BOOLEAN, portError : BOOLEAN, spike : BOOLEAN, ofUp : BOOLEAN,
               port : BOOLEAN]
NoSample   == [ping |-> TRUE, portError |-> FALSE, spike |-> FALSE, ofUp |-> TRUE,
               port |-> FALSE]

NoIngest == [pc |-> "idle", sample |-> NoSample, was |-> "ONLINE", seen |-> 0]
Anomaly  == [at : Nat, resolved : BOOLEAN, seen : Nat]

\* open: HOST_OFFLINE was raised and HOST_RECOVERED not since.   excused: the
\* status was meanwhile written by another way, or over one not read.
TypeOK ==
    /\ up \in BOOLEAN /\ hasPort \in BOOLEAN
    /\ hostStatus \in HostStatus
    /\ anomalies \in Seq(Anomaly)
    /\ cycle \in [pc : {"idle", "probe", "post", "wait"}, sample : Sample, port : BOOLEAN]
    /\ ingest \in [Ingest -> [pc : {"idle", "read", "write", "search", "record"},
                              sample : Sample, was : HostStatus, seen : Nat]]
    /\ time \in Nat /\ cycles \in Nat /\ outside \in Nat
    /\ raised \in [open : BOOLEAN, excused : BOOLEAN]

Init ==
    /\ up = TRUE /\ hasPort \in BOOLEAN
    /\ hostStatus = "ONLINE"
    /\ anomalies = <<>>
    /\ cycle = [pc |-> "idle", sample |-> NoSample, port |-> FALSE]
    /\ ingest = [i \in Ingest |-> NoIngest]
    /\ time = 0 /\ cycles = 0 /\ outside = 0
    /\ raised = [open |-> FALSE, excused |-> FALSE]

-----------------------------------------------------------------------------
(* The worker: one cycle at a time                                         *)

FetchMachines ==
    /\ cycle.pc = "idle" /\ cycles < MaxCycles
    /\ cycle' = [pc |-> "probe", sample |-> NoSample, port |-> hasPort]
    /\ cycles' = cycles + 1
    /\ UNCHANGED <<up, hasPort, hostStatus, anomalies, ingest, time, outside, raised>>

\* A host that is up may still lose a ping or a connection; one that is down
\* answers nothing.
CollectMachineMetrics ==
    /\ cycle.pc = "probe"
    /\ \E s \in Sample :
          /\ s.ofUp = up /\ s.port = cycle.port
          /\ s.portError => s.port
          /\ s.spike => s.ping
          /\ ~up => ~s.ping /\ s.portError = s.port
          /\ cycle' = [cycle EXCEPT !.sample = s, !.pc = "post"]
    /\ UNCHANGED <<up, hasPort, hostStatus, anomalies, ingest, limits, raised>>

\* A batch the backend never gets is dropped.
PostSamples ==
    /\ cycle.pc = "post"
    /\ \/ /\ \E i \in Ingest :
                /\ ingest[i].pc = "idle"
                /\ ingest' = [ingest EXCEPT ![i] =
                      [NoIngest EXCEPT !.pc = "read", !.sample = cycle.sample]]
          /\ cycle' = [cycle EXCEPT !.pc = "wait"]
       \/ cycle' = [cycle EXCEPT !.pc = "idle"] /\ UNCHANGED ingest
    /\ UNCHANGED <<up, hasPort, hostStatus, anomalies, limits, raised>>

\* The answer, or an error while the backend is still at work.
PostEnds ==
    /\ cycle.pc = "wait"
    /\ cycle' = [cycle EXCEPT !.pc = "idle"]
    /\ UNCHANGED <<up, hasPort, hostStatus, anomalies, ingest, limits, raised>>

-----------------------------------------------------------------------------
(* ingestSamples                                                           *)

\* Mutant: the state of a dead host is not looked at.
NewMachineStatusByPing(s) == IF s.ping THEN "ONLINE" ELSE "OFFLINE"

\* A dead host with a closed port is CRITICAL, which ingestSamples files as a
\* WARNING; without a registered port it is HEALTHY and OFFLINE.
NewMachineStatus(s) ==
    IF ~s.ping /\ s.portError THEN "WARNING"
    ELSE IF s.ping THEN "ONLINE" ELSE "OFFLINE"

ReadMachine(i) ==
    /\ ingest[i].pc = "read"
    /\ LET s == ingest[i].sample
       IN  ingest' = [ingest EXCEPT ![i] = [@ EXCEPT
               !.was = hostStatus,
               !.pc = IF hostStatus # NewMachineStatus(s) THEN "write"
                      ELSE IF s.spike THEN "search" ELSE "idle"]]
    /\ UNCHANGED <<up, hasPort, hostStatus, anomalies, cycle, limits, raised>>

\* Mutant: HOST_RECOVERED is raised for a host that recovers in steps only.
RecoveredFrom(was) == was = "WARNING"

Recovered(was) == was = "OFFLINE"

\* The alert goes by the status as it was read, not as it is.
WriteMachine(i) ==
    /\ ingest[i].pc = "write"
    /\ LET s == ingest[i].sample
           new == NewMachineStatus(s)
           stale == hostStatus # ingest[i].was
       IN  /\ hostStatus' = new
           /\ raised' =
                IF new = "OFFLINE"
                THEN [open |-> TRUE, excused |-> stale]
                ELSE IF new = "ONLINE" /\ Recovered(ingest[i].was)
                THEN [raised EXCEPT !.open = FALSE]
                ELSE [raised EXCEPT !.excused = @ \/ stale \/ new = "WARNING"]
           /\ ingest' = [ingest EXCEPT ![i] = [@ EXCEPT
                  !.pc = IF s.spike THEN "search" ELSE "idle"]]
    /\ UNCHANGED <<up, hasPort, anomalies, cycle, limits>>

Current(a) == ~anomalies[a].resolved /\ time - anomalies[a].at <= Recent

\* Mutant: an anomaly that stands is not looked for.
SearchAnomalyNever(i) ==
    /\ ingest[i].pc = "search"
    /\ ingest' = [ingest EXCEPT ![i] = [@ EXCEPT !.pc = "record", !.seen = Len(anomalies)]]
    /\ UNCHANGED <<up, hasPort, hostStatus, anomalies, cycle, limits, raised>>

SearchAnomaly(i) ==
    /\ ingest[i].pc = "search"
    /\ ingest' = [ingest EXCEPT ![i] =
          IF \E a \in DOMAIN anomalies : Current(a) THEN NoIngest
          ELSE [@ EXCEPT !.pc = "record", !.seen = Len(anomalies)]]
    /\ UNCHANGED <<up, hasPort, hostStatus, anomalies, cycle, limits, raised>>

RecordAnomaly(i) ==
    /\ ingest[i].pc = "record"
    /\ anomalies' = Append(anomalies, [at |-> time, resolved |-> FALSE,
                                       seen |-> ingest[i].seen])
    /\ ingest' = [ingest EXCEPT ![i] = NoIngest]
    /\ UNCHANGED <<up, hasPort, hostStatus, cycle, limits, raised>>

IngestThrows(i) ==
    /\ ingest[i].pc # "idle" /\ outside < MaxOutside
    /\ outside' = outside + 1
    /\ ingest' = [ingest EXCEPT ![i] = NoIngest]
    /\ UNCHANGED <<up, hasPort, hostStatus, anomalies, cycle, time, cycles, raised>>

ResolveAnomaly(a) ==
    /\ ~anomalies[a].resolved
    /\ anomalies' = [anomalies EXCEPT ![a].resolved = TRUE]
    /\ UNCHANGED <<up, hasPort, hostStatus, cycle, ingest, limits, raised>>

-----------------------------------------------------------------------------
(* The rest of the world                                                   *)

HostChanges ==
    /\ up' = ~up
    /\ UNCHANGED <<hasPort, hostStatus, anomalies, cycle, ingest, limits, raised>>

\* Discovery, imports and users write the status too.
WriteStatus ==
    /\ outside < MaxOutside
    /\ outside' = outside + 1
    /\ \E st \in HostStatus : st # hostStatus /\ hostStatus' = st
    /\ raised' = [raised EXCEPT !.excused = TRUE]
    /\ UNCHANGED <<up, hasPort, anomalies, cycle, ingest, time, cycles>>

Tick ==
    /\ time < MaxTime
    /\ time' = time + 1
    /\ UNCHANGED <<monitored, cycles, outside>>

Next ==
    \/ FetchMachines \/ CollectMachineMetrics \/ PostSamples \/ PostEnds
    \/ \E i \in Ingest : \/ ReadMachine(i) \/ WriteMachine(i) \/ SearchAnomaly(i)
                         \/ RecordAnomaly(i) \/ IngestThrows(i)
    \/ \E a \in DOMAIN anomalies : ResolveAnomaly(a)
    \/ HostChanges \/ WriteStatus \/ Tick

Spec == Init /\ [][Next]_monVars

-----------------------------------------------------------------------------
(* Properties                                                              *)

\* A host whose HOST_OFFLINE was raised is ONLINE again without HOST_RECOVERED
\* only if its status went by WARNING, was written by somebody else, or was
\* overwritten by an ingestion that had read an older one (ingestSamples:95).
RecoveryAnnounced == hostStatus = "ONLINE" /\ raised.open => raised.excused

\* An anomaly is recorded beside one that stands for it (recordAnomaly:268)
\* only if both were looked for before either was there.
AnomalyOnce ==
    \A a, b \in DOMAIN anomalies :
        /\ a < b /\ ~anomalies[a].resolved /\ ~anomalies[b].resolved
        /\ anomalies[b].at - anomalies[a].at <= Recent
        => anomalies[b].seen < a

\* The claim of changelog.md:32 and :35, alerts in real time for hosts that
\* fall: an ingestion that takes note, by writing another status, of a sample
\* taken while the host was down leaves a HOST_OFFLINE standing.  Of a host
\* with a port that does not answer it files a WARNING, which raises nothing
\* (engine.ts:126, ingestSamples:60).
FallAnnounced ==
    [][\A i \in Ingest : WriteMachine(i) /\ ~ingest[i].sample.ofUp => raised'.open]_monVars

=============================================================================
