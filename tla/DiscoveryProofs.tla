--------------------------- MODULE DiscoveryProofs ---------------------------
(***************************************************************************)
(* Theorems about Discovery: its types, what a granted cancellation is     *)
(* worth, which machines a scan calls missing, and what COMPLETED says.    *)
(***************************************************************************)
EXTENDS Discovery, TLAPS

-----------------------------------------------------------------------------
(* Types.                                                                  *)

CallPc    == {"idle", "look", "insert", "post", "answer", "fail",
              "send", "cancel", "create", "apply"}
MonitorPc == {"none", "poll", "read", "save", "diff", "moved", "offline", "report",
              "finish", "close", "done"}

\* Who is missing had an address.
MissInv == \A s \in Scan : \A m \in monitor[s].missing : monitor[s].existing[m] # Nowhere

MonitorOK == monitor \in [Scan -> MonitorState] /\ MissInv

LEMMA IdleType == IdleCall \in CallState
BY DEF IdleCall, CallState

LEMMA NoMonitorType ==
    /\ NoMonitor \in MonitorState /\ NoMonitor.missing = {} /\ NoMonitor.pc = "none"
    /\ [NoMonitor EXCEPT !.pc = "poll"] \in MonitorState
    /\ [NoMonitor EXCEPT !.pc = "poll"].missing = {}
    /\ [NoMonitor EXCEPT !.pc = "poll"].pc = "poll"
BY DiscoveryAssumption DEF NoMonitor, MonitorState

LEMMA TypeInit == Init => TypeOK /\ MissInv
<1> SUFFICES ASSUME Init PROVE TypeOK /\ MissInv
    OBVIOUS
<1>1. history \in History
    BY DEF Init, History
<1>2. calls \in [Call -> CallState] /\ monitor \in [Scan -> MonitorState] /\ MissInv
    BY IdleType, NoMonitorType DEF Init, MissInv
<1> QED
    BY <1>1, <1>2, DiscoveryAssumption DEF Init, TypeOK, Status

\* What the small operators leave.
LEMMA GotoType ==
    ASSUME TypeOK, NEW c \in Call, NEW pc \in CallPc, Goto(c, pc)
    PROVE  /\ calls' \in [Call -> CallState]
           /\ calls'[c].pc = pc /\ calls'[c].scan = calls[c].scan
           /\ \A b \in Call \ {c} : calls'[b] = calls[b]
<1>1. [calls[c] EXCEPT !.pc = pc] \in CallState
    BY DEF TypeOK, CallState, CallPc
<1>2. /\ [calls[c] EXCEPT !.pc = pc].pc = pc
      /\ [calls[c] EXCEPT !.pc = pc].scan = calls[c].scan
    BY DEF TypeOK, CallState
<1>3. calls' = [calls EXCEPT ![c] = [calls[c] EXCEPT !.pc = pc]]
    BY DEF Goto
<1> QED
    BY <1>1, <1>2, <1>3 DEF TypeOK

LEMMA EndType ==
    ASSUME TypeOK, NEW c \in Call, End(c)
    PROVE  /\ calls' \in [Call -> CallState]
           /\ calls'[c].pc = "idle" /\ calls'[c].scan = {}
           /\ \A b \in Call \ {c} : calls'[b] = calls[b]
BY IdleType DEF End, TypeOK, IdleCall

LEMMA BeginType ==
    ASSUME TypeOK, NEW c \in Call, NEW pc \in CallPc, NEW S \in SUBSET Scan,
           NEW h \in SUBSET Host, Begin(c, pc, S, h)
    PROVE  /\ calls' \in [Call -> CallState] /\ requests' \in Nat
           /\ calls'[c].pc = pc /\ calls'[c].scan = S /\ calls[c].pc = "idle"
           /\ \A b \in Call \ {c} : calls'[b] = calls[b]
<1>1. [pc |-> pc, scan |-> S, host |-> h] \in CallState
    BY DEF CallState, CallPc
<1> QED
    BY <1>1 DEF Begin, TypeOK, At

\* What a step leaves of the monitor of one scan.
StepsTo(s, mon) ==
    /\ monitor'[s] = mon
    /\ \A r \in Scan \ {s} : monitor'[r] = monitor[r]

LEMMA StepType ==
    ASSUME TypeOK, MissInv, NEW s \in Scan, NEW mon \in MonitorState,
           monitor' = [monitor EXCEPT ![s] = mon],
           \A m \in mon.missing : mon.existing[m] # Nowhere
    PROVE  MonitorOK' /\ StepsTo(s, mon)
BY DEF TypeOK, MissInv, MonitorOK, StepsTo

LEMMA MoveType ==
    ASSUME TypeOK, MissInv, NEW s \in Scan, NEW pc \in MonitorPc, Move(s, pc)
    PROVE  /\ MonitorOK' /\ StepsTo(s, [monitor[s] EXCEPT !.pc = pc])
           /\ monitor'[s].pc = pc
           /\ monitor'[s].existing = monitor[s].existing
           /\ monitor'[s].todo = monitor[s].todo
           /\ monitor'[s].current = monitor[s].current
           /\ monitor'[s].missing = monitor[s].missing
<1> DEFINE mon == [monitor[s] EXCEPT !.pc = pc]
<1>1. monitor[s] \in MonitorState
    BY DEF TypeOK
<1>2. /\ mon \in MonitorState /\ mon.pc = pc /\ mon.existing = monitor[s].existing
      /\ mon.todo = monitor[s].todo /\ mon.current = monitor[s].current
      /\ mon.missing = monitor[s].missing
    BY <1>1 DEF MonitorState, MonitorPc
<1>3. monitor' = [monitor EXCEPT ![s] = mon]
    BY DEF Move
<1> HIDE DEF mon
<1>4. MonitorOK' /\ StepsTo(s, mon)
    BY <1>2, <1>3, StepType DEF MissInv
<1> USE DEF mon
<1> QED
    BY <1>2, <1>4 DEF StepsTo

LEMMA LoseType ==
    ASSUME TypeOK, NEW S \in SUBSET Scan, Lose(S)
    PROVE  /\ history' \in History /\ history'.acked = history.acked
           /\ history'.away = history.away
BY DEF TypeOK, Lose, History

LEMMA FaultType ==
    ASSUME TypeOK, Fault
    PROVE  faults' \in Nat /\ requests' \in Nat
BY DEF TypeOK, Fault

\* The four records a monitor writes whole or in several fields.
LEMMA ReadEffect ==
    ASSUME TypeOK, MissInv, NEW s \in Scan, ReadInventory(s)
    PROVE  /\ MonitorOK'
           /\ StepsTo(s, [pc |-> "save", existing |-> primary, todo |-> found[s],
                          current |-> {}, missing |-> {}])
<1>1. [pc |-> "save", existing |-> primary, todo |-> found[s], current |-> {},
       missing |-> {}] \in MonitorState
    BY DEF TypeOK, MonitorState
<1> QED
    BY <1>1, StepType DEF ReadInventory

LEMMA SaveEffect ==
    ASSUME TypeOK, MissInv, NEW s \in Scan, Save(s)
    PROVE  \E h \in monitor[s].todo :
              /\ MonitorOK' /\ h \in Host
              /\ hosts' = [hosts EXCEPT ![s] = hosts[s] \cup {h}]
              /\ \A r \in Scan \ {s} : monitor'[r] = monitor[r]
              /\ monitor'[s].pc = "diff"
              /\ monitor'[s].existing = monitor[s].existing
              /\ monitor'[s].todo = monitor[s].todo \ {h}
              /\ monitor'[s].current = {h}
              /\ monitor'[s].missing = monitor[s].missing
<1>1. PICK h \in monitor[s].todo :
         /\ hosts' = [hosts EXCEPT ![s] = hosts[s] \cup {h}]
         /\ monitor' = [monitor EXCEPT ![s] =
               [monitor[s] EXCEPT !.pc = "diff", !.current = {h}, !.todo = monitor[s].todo \ {h}]]
    BY DEF Save
<1>2. monitor[s] \in MonitorState
    BY DEF TypeOK
<1>3. h \in Host
    BY <1>2 DEF MonitorState
<1> DEFINE mon == [monitor[s] EXCEPT !.pc = "diff", !.current = {h}, !.todo = monitor[s].todo \ {h}]
<1>4. /\ mon \in MonitorState /\ mon.pc = "diff" /\ mon.existing = monitor[s].existing
      /\ mon.todo = monitor[s].todo \ {h} /\ mon.current = {h}
      /\ mon.missing = monitor[s].missing
    BY <1>2, <1>3 DEF MonitorState
<1> HIDE DEF mon
<1>5. MonitorOK' /\ StepsTo(s, mon)
    BY <1>1, <1>4, StepType DEF MissInv, mon
<1> QED
    BY <1>1, <1>3, <1>4, <1>5 DEF StepsTo

LEMMA HostsDoneEffect ==
    ASSUME TypeOK, MissInv, NEW s \in Scan, HostsDone(s)
    PROVE  /\ MonitorOK'
           /\ \A r \in Scan \ {s} : monitor'[r] = monitor[r]
           /\ monitor'[s].pc \in {"offline", "finish"}
           /\ monitor'[s].existing = monitor[s].existing
           /\ monitor'[s].todo = monitor[s].todo
           /\ monitor'[s].missing = Missing(s)
<1> DEFINE pc == IF Missing(s) = {} THEN "finish" ELSE "offline"
           mon == [monitor[s] EXCEPT !.missing = Missing(s), !.pc = pc]
<1>1. monitor[s] \in MonitorState /\ Missing(s) \subseteq Machine
    BY DEF TypeOK, Missing
<1>2. \A m \in Missing(s) : monitor[s].existing[m] # Nowhere
    BY DEF Missing
<1>3. pc \in {"offline", "finish"}
    OBVIOUS
<1>4. monitor' = [monitor EXCEPT ![s] = mon]
    BY DEF HostsDone
<1> HIDE DEF pc
<1>5. /\ mon \in MonitorState /\ mon.pc = pc /\ mon.existing = monitor[s].existing
      /\ mon.todo = monitor[s].todo /\ mon.missing = Missing(s)
    BY <1>1, <1>3 DEF MonitorState
<1> HIDE DEF mon
<1>6. MonitorOK' /\ StepsTo(s, mon)
    BY <1>2, <1>4, <1>5, StepType
<1> QED
    BY <1>3, <1>5, <1>6 DEF StepsTo

LEMMA MarkOfflineEffect ==
    ASSUME TypeOK, MissInv, NEW s \in Scan, MarkOffline(s)
    PROVE  \E m \in monitor[s].missing :
              /\ MonitorOK' /\ m \in Machine /\ monitor[s].existing[m] \in Ip
              /\ state' = [state EXCEPT ![m] = "OFFLINE"]
              /\ history' \in History /\ history'.acked = history.acked
              /\ history'.away = history.away \cup {<<s, m, monitor[s].existing[m]>>}
              /\ \A r \in Scan \ {s} : monitor'[r] = monitor[r]
              /\ monitor'[s].pc = "report"
              /\ monitor'[s].existing = monitor[s].existing
              /\ monitor'[s].todo = monitor[s].todo
              /\ monitor'[s].missing = monitor[s].missing \ {m}
<1>1. PICK m \in monitor[s].missing :
         /\ state' = [state EXCEPT ![m] = "OFFLINE"]
         /\ history' = [history EXCEPT !.away = history.away
                                                  \cup {<<s, m, monitor[s].existing[m]>>}]
         /\ monitor' = [monitor EXCEPT ![s] = [monitor[s] EXCEPT !.pc = "report",
               !.current = {[ip |-> monitor[s].existing[m], device |-> m]},
               !.missing = monitor[s].missing \ {m}]]
    BY DEF MarkOffline
<1>2. monitor[s] \in MonitorState
    BY DEF TypeOK
<1>3. m \in Machine /\ monitor[s].existing[m] \in Ip
    BY <1>2 DEF MonitorState, MissInv
<1> DEFINE h == [ip |-> monitor[s].existing[m], device |-> m]
           mon == [monitor[s] EXCEPT !.pc = "report", !.current = {h},
                                     !.missing = monitor[s].missing \ {m}]
<1>4. h \in Host
    BY <1>3 DEF Host
<1> HIDE DEF h
<1>5. /\ mon \in MonitorState /\ mon.pc = "report" /\ mon.existing = monitor[s].existing
      /\ mon.todo = monitor[s].todo /\ mon.missing = monitor[s].missing \ {m}
    BY <1>2, <1>4 DEF MonitorState
<1> HIDE DEF mon
<1>6. MonitorOK' /\ StepsTo(s, mon)
    BY <1>1, <1>5, StepType DEF MissInv, mon, h
<1>7. /\ history' \in History /\ history'.acked = history.acked
      /\ history'.away = history.away \cup {<<s, m, monitor[s].existing[m]>>}
    BY <1>1, <1>3 DEF TypeOK, History
<1> QED
    BY <1>1, <1>3, <1>5, <1>6, <1>7 DEF StepsTo

LEMMA TypeNext == TypeOK /\ MissInv /\ [Next]_vars => TypeOK' /\ MissInv'
<1> SUFFICES ASSUME TypeOK, MissInv, [Next]_vars PROVE TypeOK' /\ MissInv'
    OBVIOUS
<1> DEFINE Goal == TypeOK' /\ MissInv'
<1>h. Host = [ip : Ip, device : Machine]
    BY DEF Host
<1>c. \A c \in Call : calls[c].scan \in SUBSET Scan /\ calls[c].host \in SUBSET Host
    BY DEF TypeOK, CallState
<1>m. \A s \in Scan : /\ monitor[s].current \in SUBSET Host
                      /\ monitor[s].existing \in [Machine -> Ip \cup {Nowhere}]
    BY DEF TypeOK, MonitorState
<1>1. ASSUME NEW c \in Call, BeginStart(c) PROVE Goal
    <2>1. calls' \in [Call -> CallState] /\ requests' \in Nat
        BY SMTT(40), <1>1, BeginType DEF BeginStart, CallPc
    <2> QED
        BY <1>1, <2>1 DEF BeginStart, rows, scanner, TypeOK, MissInv
<1>2. ASSUME NEW c \in Call, BeginCancel(c) PROVE Goal
    <2>0. PICK s \in Scan : Begin(c, "send", {s}, {})
        BY <1>2 DEF BeginCancel
    <2>a. {s} \in SUBSET Scan /\ {} \in SUBSET Host /\ "send" \in CallPc
        BY DEF CallPc
    <2>1. calls' \in [Call -> CallState] /\ requests' \in Nat
        BY <2>0, <2>a, BeginType, Zenon
    <2> QED
        BY <1>2, <2>1 DEF BeginCancel, rows, scanner, TypeOK, MissInv
<1>3. ASSUME NEW c \in Call, BeginImport(c) PROVE Goal
    <2>0. PICK s \in Scan : \E h \in hosts[s] : Begin(c, "create", {s}, {h})
        BY <1>3, Zenon DEF BeginImport
    <2>1. PICK h \in hosts[s] : Begin(c, "create", {s}, {h})
        BY <2>0
    <2>2. h \in Host
        BY DEF TypeOK
    <2>3. calls' \in [Call -> CallState] /\ requests' \in Nat
        <3>1. {s} \in SUBSET Scan /\ {h} \in SUBSET Host /\ "create" \in CallPc
            BY <2>2 DEF CallPc
        <3> QED
            BY <2>1, <3>1, BeginType, Zenon
    <2> QED
        BY <1>3, <2>3 DEF BeginImport, rows, scanner, TypeOK, MissInv
<1>4. ASSUME NEW c \in Call, Look(c) PROVE Goal
    <2>1. calls' \in [Call -> CallState]
        BY <1>4, GotoType, EndType DEF Look, CallPc
    <2> QED
        BY <1>4, <2>1 DEF Look, rows, scanner, bounds, TypeOK, MissInv
<1>5. ASSUME NEW c \in Call, Insert(c) PROVE Goal
    <2>1. PICK s \in Scan :
             /\ SetStatus(s, "RUNNING")
             /\ calls' = [calls EXCEPT ![c] = [pc |-> "post", scan |-> {s}, host |-> {}]]
        BY <1>5 DEF Insert
    <2>2. [pc |-> "post", scan |-> {s}, host |-> {}] \in CallState
        BY DEF CallState
    <2>3. calls' \in [Call -> CallState] /\ status' \in [Scan -> Status]
        BY <2>1, <2>2 DEF TypeOK, SetStatus, Status
    <2> QED
        BY <1>5, <2>3 DEF Insert, scanner, bounds, TypeOK, MissInv
<1>6. ASSUME NEW c \in Call, InsertFails(c) \/ ImportFails(c) PROVE Goal
    <2>1. calls' \in [Call -> CallState] /\ faults' \in Nat /\ requests' \in Nat
        BY <1>6, EndType, FaultType DEF InsertFails, ImportFails
    <2> QED
        BY <1>6, <2>1 DEF InsertFails, ImportFails, rows, scanner, TypeOK, MissInv
<1>7. ASSUME NEW c \in Call, Post(c) PROVE Goal
    <2>1. calls' \in [Call -> CallState]
        BY <1>7, GotoType DEF Post, CallPc
    <2>2. PICK s \in Scan : /\ remote' = [remote EXCEPT ![s] = "RUNNING"]
                            /\ left' = [left EXCEPT ![s] = Ip]
                            /\ working' = working \cup {s}
        BY <1>7, <1>c DEF Post
    <2>3. /\ remote' \in [Scan -> {"none", "RUNNING", "COMPLETED", "CANCELLED"}]
          /\ left' \in [Scan -> SUBSET Ip] /\ working' \subseteq Scan
        BY <2>2 DEF TypeOK
    <2> QED
        BY <1>7, <2>1, <2>3 DEF Post, rows, bounds, TypeOK, MissInv
<1>8. ASSUME NEW c \in Call, PostFails(c) \/ SendCancelFails(c) PROVE Goal
    <2>1. calls' \in [Call -> CallState] /\ faults' \in Nat /\ requests' \in Nat
        BY <1>8, GotoType, FaultType DEF PostFails, SendCancelFails, CallPc
    <2> QED
        BY <1>8, <2>1 DEF PostFails, SendCancelFails, rows, scanner, TypeOK, MissInv
<1>9. ASSUME NEW c \in Call, Answer(c) PROVE Goal
    <2>1. calls' \in [Call -> CallState]
        BY <1>9, EndType DEF Answer
    <2>2. monitor' \in [Scan -> MonitorState] /\ MissInv'
        BY <1>9, NoMonitorType DEF Answer, TypeOK, MissInv
    <2> QED
        BY <1>9, <2>1, <2>2 DEF Answer, rows, scanner, bounds, TypeOK
<1>10. ASSUME NEW c \in Call, Fail(c) PROVE Goal
    <2>1. calls' \in [Call -> CallState]
        BY <1>10, EndType DEF Fail
    <2>2. status' \in [Scan -> Status]
        BY <1>10 DEF Fail, TypeOK, Status
    <2>3. history' \in History /\ requests' \in Nat /\ faults' \in Nat
        <3>1. CASE UNCHANGED <<bounds, history>>
            BY <3>1 DEF bounds, TypeOK
        <3>2. CASE Fault /\ Lose(calls[c].scan)
            BY <1>c, <3>2, FaultType, LoseType
        <3> QED
            BY <1>10, <3>1, <3>2 DEF Fail
    <2> QED
        BY <1>10, <2>1, <2>2, <2>3 DEF Fail, scanner, TypeOK, MissInv
<1>11. ASSUME NEW c \in Call, SendCancel(c) PROVE Goal
    <2>1. calls' \in [Call -> CallState]
        BY <1>11, GotoType DEF SendCancel, CallPc
    <2>2. /\ cancelled' \subseteq Scan /\ history' \in History
          /\ remote' \in [Scan -> {"none", "RUNNING", "COMPLETED", "CANCELLED"}]
        <3>1. CASE UNCHANGED <<cancelled, remote, history>>
            BY <3>1 DEF TypeOK
        <3>2. ASSUME NEW s \in Scan,
                     /\ cancelled' = cancelled \cup {s}
                     /\ remote' = [remote EXCEPT ![s] = "CANCELLED"]
                     /\ history' = [history EXCEPT !.acked = history.acked \cup {s}]
              PROVE  /\ cancelled' \subseteq Scan /\ history' \in History
                     /\ remote' \in [Scan -> {"none", "RUNNING", "COMPLETED", "CANCELLED"}]
            BY <3>2 DEF TypeOK, History
        <3> QED
            BY <1>11, <1>c, <3>1, <3>2 DEF SendCancel
    <2> QED
        BY <1>11, <2>1, <2>2 DEF SendCancel, rows, bounds, TypeOK, MissInv
<1>12. ASSUME NEW c \in Call, WriteCancel(c) PROVE Goal
    <2>1. calls' \in [Call -> CallState]
        BY <1>12, EndType DEF WriteCancel
    <2>2. status' \in [Scan -> Status] /\ requests' \in Nat /\ faults' \in Nat
        BY <1>12, FaultType DEF WriteCancel, TypeOK, Status, bounds
    <2> QED
        BY <1>12, <2>1, <2>2 DEF WriteCancel, scanner, TypeOK, MissInv
<1>13. ASSUME NEW s \in Scan, NEW i \in Ip, Probe(s, i) PROVE Goal
    <2>1. PICK answer \in SUBSET {[ip |-> i, device |-> m] : m \in Machine} :
             found' = [found EXCEPT ![s] = found[s] \cup answer]
        BY <1>13 DEF Probe
    <2>2. answer \subseteq Host
        BY <1>h
    <2>3. found' \in [Scan -> SUBSET Host]
        BY <2>1, <2>2 DEF TypeOK
    <2> QED
        BY <1>13, <2>3 DEF Probe, rows, bounds, TypeOK, MissInv
<1>14. ASSUME NEW s \in Scan, WorkersEnd(s) PROVE Goal
    BY <1>14 DEF WorkersEnd, rows, bounds, TypeOK, MissInv
<1>15. ASSUME ScannerRestart PROVE Goal
    BY <1>15, FaultType DEF ScannerRestart, rows, TypeOK, MissInv
<1>16. ASSUME BackendRestart PROVE Goal
    <2>1. {s \in Scan : status[s] = "RUNNING"} \in SUBSET Scan
        OBVIOUS
    <2>2. history' \in History /\ faults' \in Nat /\ requests' \in Nat
        BY <1>16, <2>1, FaultType, LoseType DEF BackendRestart
    <2>3. monitor' \in [Scan -> MonitorState] /\ MissInv'
        BY <1>16, NoMonitorType DEF BackendRestart, MissInv
    <2> QED
        BY <1>16, <2>2, <2>3, IdleType DEF BackendRestart, rows, scanner, TypeOK
<1>17. ASSUME NEW s \in Scan, Poll(s) PROVE Goal
    <2>1. MonitorOK'
        BY <1>17, MoveType DEF Poll, MonitorPc
    <2> QED
        BY <1>17, <2>1 DEF Poll, MonitorOK, rows, scanner, bounds, TypeOK
<1>18. ASSUME NEW s \in Scan, Close(s) \/ Finish(s) PROVE Goal
    <2>1. MonitorOK'
        BY <1>18, MoveType DEF Close, Finish, MonitorPc
    <2>2. status' \in [Scan -> Status]
        BY <1>18 DEF Close, Finish, SetStatus, TypeOK, Status
    <2> QED
        BY <1>18, <2>1, <2>2 DEF Close, Finish, MonitorOK, scanner, bounds, TypeOK
<1>19. ASSUME NEW s \in Scan, GiveUp(s) PROVE Goal
    <2>1. MonitorOK' /\ history' \in History
        BY <1>19, MoveType, LoseType DEF GiveUp, MonitorPc
    <2> QED
        BY <1>19, <2>1 DEF GiveUp, MonitorOK, rows, scanner, bounds, TypeOK
<1>20. ASSUME NEW s \in Scan, ReadInventory(s) PROVE Goal
    BY <1>20, ReadEffect DEF ReadInventory, MonitorOK, rows, scanner, bounds, TypeOK
<1>21. ASSUME NEW s \in Scan, Save(s) PROVE Goal
    <2>1. MonitorOK' /\ hosts' \in [Scan -> SUBSET Host]
        BY <1>21, SaveEffect DEF TypeOK
    <2> QED
        BY <1>21, <2>1 DEF Save, MonitorOK, scanner, bounds, TypeOK
<1>22. ASSUME NEW s \in Scan, ReportNew(s) \/ ReportMoved(s) \/ ReportOffline(s) PROVE Goal
    <2>1. MonitorOK'
        BY <1>22, MoveType DEF ReportNew, ReportMoved, ReportOffline, MonitorPc
    <2>2. PICK h \in monitor[s].current,
               type \in {"NEW_DEVICE", "IP_CHANGED", "DEVICE_OFFLINE"} : Report(s, h, type)
        BY <1>22 DEF ReportNew, ReportMoved, ReportOffline
    <2>3. [scan |-> s, host |-> h, type |-> type, status |-> "PENDING"] \in Change
        BY <1>m DEF Change
    <2>4. changes' \subseteq Change
        BY <2>2, <2>3 DEF Report, TypeOK
    <2> QED
        BY <1>22, <2>1, <2>4
        DEF ReportNew, ReportMoved, ReportOffline, MonitorOK, scanner, bounds, TypeOK
<1>23. ASSUME NEW s \in Scan, MarkOnline(s) PROVE Goal
    <2>1. PICK h, m :
             /\ state' = [state EXCEPT ![m] = "ONLINE"]
             /\ Move(s, IF monitor[s].existing[m] = h.ip THEN "save" ELSE "moved")
        BY <1>23 DEF MarkOnline
    <2>2. MonitorOK'
        BY <2>1, MoveType DEF MonitorPc
    <2>3. state' \in [Machine -> {"ONLINE", "OFFLINE"}]
        BY <2>1 DEF TypeOK
    <2> QED
        BY <1>23, <2>2, <2>3 DEF MarkOnline, MonitorOK, scanner, bounds, TypeOK
<1>24. ASSUME NEW s \in Scan, HostsDone(s) PROVE Goal
    BY <1>24, HostsDoneEffect DEF HostsDone, MonitorOK, rows, scanner, bounds, TypeOK
<1>25. ASSUME NEW s \in Scan, MarkOffline(s) PROVE Goal
    <2>1. /\ MonitorOK' /\ history' \in History
          /\ state' \in [Machine -> {"ONLINE", "OFFLINE"}]
        BY <1>25, MarkOfflineEffect DEF TypeOK
    <2> QED
        BY <1>25, <2>1 DEF MarkOffline, MonitorOK, scanner, bounds, TypeOK
<1>26. ASSUME NEW s \in Scan, ProcessingFails(s) PROVE Goal
    <2>1. MonitorOK' /\ faults' \in Nat /\ requests' \in Nat
        BY <1>26, MoveType, FaultType DEF ProcessingFails, MonitorPc
    <2> QED
        BY <1>26, <2>1 DEF ProcessingFails, MonitorOK, rows, scanner, TypeOK
<1>27. ASSUME NEW c \in Call, CreateMachine(c) PROVE Goal
    <2>1. PICK h \in calls[c].host :
             IF primary[h.device] = Nowhere
             THEN /\ primary' = [primary EXCEPT ![h.device] = h.ip]
                  /\ state' = [state EXCEPT ![h.device] = "ONLINE"]
                  /\ Goto(c, "apply")
             ELSE End(c) /\ UNCHANGED <<primary, state>>
        BY <1>27 DEF CreateMachine
    <2>2. h.ip \in Ip /\ h.device \in Machine
        BY <1>c, <1>h
    <2>3. /\ primary' \in [Machine -> Ip \cup {Nowhere}]
          /\ state' \in [Machine -> {"ONLINE", "OFFLINE"}]
        BY <2>1, <2>2 DEF TypeOK
    <2>4. calls' \in [Call -> CallState]
        BY <2>1, GotoType, EndType DEF CallPc
    <2> QED
        BY <1>27, <2>3, <2>4 DEF CreateMachine, scanner, bounds, TypeOK, MissInv
<1>28. ASSUME NEW c \in Call, ApplyChanges(c) PROVE Goal
    <2>1. \A ch \in changes : [ch EXCEPT !.status = "APPLIED"] \in Change
        BY DEF TypeOK, Change
    <2>2. changes' \subseteq Change
        BY <1>28, <2>1 DEF ApplyChanges, TypeOK
    <2>3. calls' \in [Call -> CallState]
        BY <1>28, EndType DEF ApplyChanges
    <2> QED
        BY <1>28, <2>2, <2>3 DEF ApplyChanges, scanner, bounds, TypeOK, MissInv
<1>29. ASSUME NEW ch \in changes, Decide(ch) PROVE Goal
    <2>1. \A st \in {"APPROVED", "IGNORED"} : [ch EXCEPT !.status = st] \in Change
        BY DEF TypeOK, Change
    <2>2. changes' \subseteq Change /\ requests' \in Nat
        BY <1>29, <2>1 DEF Decide, TypeOK
    <2> QED
        BY <1>29, <2>2 DEF Decide, scanner, TypeOK, MissInv
<1>30. ASSUME UNCHANGED vars PROVE Goal
    BY <1>30 DEF vars, rows, scanner, bounds, TypeOK, MissInv
<1> HIDE DEF Goal
<1>31. ASSUME NEW c \in Call, Request(c) \/ Handle(c) \/ HandleFails(c) PROVE Goal
    BY <1>31, <1>1, <1>2, <1>3, <1>4, <1>5, <1>6, <1>7, <1>8, <1>9, <1>10, <1>11, <1>12,
       <1>27, <1>28 DEF Request, Handle, HandleFails
<1>32. ASSUME NEW s \in Scan, Monitor(s) \/ GiveUp(s) \/ ProcessingFails(s) \/ Scanner(s)
       PROVE  Goal
    BY <1>32, <1>13, <1>14, <1>17, <1>18, <1>19, <1>20, <1>21, <1>22, <1>23, <1>24, <1>25,
       <1>26 DEF Monitor, Scanner
<1>33. Goal
    BY <1>15, <1>16, <1>29, <1>30, <1>31, <1>32 DEF Next
<1> QED
    BY <1>33 DEF Goal

\* The rows, the scanner's memory, the monitors and the requests keep their
\* types, for any number of scans, requests, devices, faults and restarts.
THEOREM TypeCorrect == Spec => []TypeOK
BY TypeInit, TypeNext, PTL DEF Spec

-----------------------------------------------------------------------------
(* The life of a scan.                                                     *)

\* The comparison is under way, or repeated.
Busy == Processing \ {"close"}

\* The request of startScan that is about to post the scan, or has.
Holds(c, s)  == calls[c].pc \in {"post", "answer"} /\ s \in calls[c].scan
Posting(c, s) == calls[c].pc = "post" /\ s \in calls[c].scan

Away(s) == \E m \in Machine, i \in Ip : <<s, m, i>> \in history.away

\* Nobody has heard of the scan yet.
Fresh(s) ==
    /\ remote[s] = "none" /\ s \notin working /\ monitor[s].pc = "none"
    /\ s \notin history.acked /\ ~Away(s) /\ status[s] # "COMPLETED"

\* While the scanner works the scan is not compared; once it has granted a
\* cancellation it stays with it; and a scan is posted once.
Life(s) ==
    /\ s \in working => remote[s] \in {"RUNNING", "CANCELLED"}
    /\ remote[s] \in {"RUNNING", "CANCELLED"} =>
          status[s] # "COMPLETED" /\ monitor[s].pc \notin Busy /\ ~Away(s)
    /\ s \in history.acked =>
          /\ remote[s] \in {"CANCELLED", "none"}
          /\ s \in working => s \in cancelled
          /\ status[s] # "COMPLETED" /\ monitor[s].pc \notin Busy
    /\ status[s] = "none" => Fresh(s)
    /\ \A c \in Call : Posting(c, s) => Fresh(s)
    /\ \A c \in Call : Holds(c, s) => status[s] # "none"
    /\ \A b, c \in Call : Holds(b, s) /\ Holds(c, s) => b = c

LifeInv == \A s \in Scan : Life(s)

LEMMA LifeInit == Init => LifeInv
BY DEF Init, LifeInv, Life, Fresh, Away, Holds, Posting, IdleCall, NoMonitor, Busy, Processing

\* No request takes hold of the scan.
NoNewHold(s) ==
    \A c \in Call : /\ Holds(c, s)' => Holds(c, s)
                    /\ Posting(c, s)' => Posting(c, s)

\* The scanner, the cancellations and the missing machines of the scan rest.
ScannerRests(s) ==
    /\ remote'[s] = remote[s] /\ (s \in working' <=> s \in working)
    /\ (s \in cancelled' <=> s \in cancelled)

\* A step that leaves a scan alone, or leads its monitor on or back.
LEMMA LifeGoesOn ==
    ASSUME NEW s \in Scan, Life(s), NoNewHold(s), ScannerRests(s),
           s \in history'.acked <=> s \in history.acked,
           Away(s)' => Away(s) \/ monitor[s].pc \in Busy,
           status'[s] # status[s] =>
              /\ status[s] # "none" /\ status'[s] # "none"
              /\ status'[s] = "COMPLETED" => monitor[s].pc \in Busy,
           monitor'[s].pc # monitor[s].pc =>
              /\ monitor[s].pc \in Busy \/ monitor'[s].pc \notin Busy
              /\ monitor[s].pc = "none" => monitor'[s].pc = "none"
    PROVE  Life(s)'
<1>1. monitor[s].pc \in Busy => /\ remote[s] \notin {"RUNNING", "CANCELLED"}
                                /\ s \notin history.acked /\ status[s] # "none"
                                /\ \A c \in Call : ~Posting(c, s)
    BY DEF Life, Fresh, Busy, Processing
<1>2. Fresh(s) => monitor[s].pc \notin Busy
    BY DEF Fresh, Busy, Processing
<1>3. Fresh(s) => Fresh(s)'
    BY <1>2 DEF Fresh, ScannerRests
<1> QED
    BY <1>1, <1>3 DEF Life, NoNewHold, ScannerRests

\* A call that moves on, or ends, takes hold of nothing.
LEMMA CallMoves ==
    ASSUME TypeOK, NEW c \in Call, NEW s \in Scan,
           \A b \in Call \ {c} : calls'[b] = calls[b],
           \/ calls'[c].pc \notin {"post", "answer"}
           \/ /\ calls[c].pc = "post" /\ calls'[c].pc = "answer"
              /\ calls'[c].scan = calls[c].scan
           \/ calls'[c].scan = {}
    PROVE  NoNewHold(s)
BY DEF NoNewHold, Holds, Posting

LEMMA LifeRequests ==
    ASSUME TypeOK, LifeInv, NEW c \in Call, Request(c) \/ Handle(c) \/ HandleFails(c)
    PROVE  LifeInv'
<1> SUFFICES ASSUME NEW r \in Scan PROVE Life(r)'
    BY DEF LifeInv
<1>r. Life(r)
    BY DEF LifeInv
\* Only the calls, the machines, the changes and the bounds.
<1>1. ASSUME UNCHANGED <<status, monitor, remote, working, cancelled>>,
             history'.acked = history.acked, history'.away = history.away,
             NoNewHold(r)
      PROVE  Life(r)'
    BY <1>1, <1>r, LifeGoesOn DEF ScannerRests, Away
<1>2. ASSUME NEW pc \in CallPc \ {"post", "answer"}, NEW S \in SUBSET Scan,
             NEW h \in SUBSET Host, Begin(c, pc, S, h)
      PROVE  NoNewHold(r)
    BY <1>2, BeginType, CallMoves
<1>3. ASSUME NEW pc \in CallPc \ {"post", "answer"}, Goto(c, pc) PROVE NoNewHold(r)
    BY <1>3, GotoType, CallMoves
<1>4. ASSUME End(c) PROVE NoNewHold(r)
    BY <1>4, EndType, CallMoves
<1>5. CASE BeginStart(c)
    <2>1. NoNewHold(r)
        BY <1>5, <1>2 DEF BeginStart, CallPc
    <2> QED
        BY <1>5, <1>1, <2>1 DEF BeginStart, rows, scanner
<1>6. CASE BeginCancel(c)
    <2>1. PICK s \in Scan : Begin(c, "send", {s}, {})
        BY <1>6 DEF BeginCancel
    <2>2. {s} \in SUBSET Scan /\ {} \in SUBSET Host /\ "send" \in CallPc \ {"post", "answer"}
        BY DEF CallPc
    <2>3. NoNewHold(r)
        BY <2>1, <2>2, <1>2, Zenon
    <2> QED
        BY <1>6, <1>1, <2>3 DEF BeginCancel, rows, scanner
<1>7. CASE BeginImport(c)
    <2>1. PICK s \in Scan : \E h \in hosts[s] : Begin(c, "create", {s}, {h})
        BY <1>7, Zenon DEF BeginImport
    <2>2. PICK h \in hosts[s] : Begin(c, "create", {s}, {h})
        BY <2>1
    <2>3. {s} \in SUBSET Scan /\ {h} \in SUBSET Host /\ "create" \in CallPc \ {"post", "answer"}
        BY DEF CallPc, TypeOK
    <2>4. NoNewHold(r)
        BY <2>2, <2>3, <1>2, Zenon
    <2> QED
        BY <1>7, <1>1, <2>4 DEF BeginImport, rows, scanner
<1>8. CASE Look(c)
    <2>1. NoNewHold(r)
        BY <1>8, <1>3, <1>4 DEF Look, CallPc
    <2> QED
        BY <1>8, <1>1, <2>1 DEF Look, rows, scanner
<1>9. CASE Insert(c)
    <2>1. PICK s \in Scan :
             /\ status[s] = "none" /\ status' = [status EXCEPT ![s] = "RUNNING"]
             /\ calls' = [calls EXCEPT ![c] = [pc |-> "post", scan |-> {s}, host |-> {}]]
        BY <1>9 DEF Insert, SetStatus
    <2>2. UNCHANGED <<monitor, remote, working, cancelled, history>>
        BY <1>9 DEF Insert, scanner
    <2>3. /\ calls'[c].pc = "post" /\ calls'[c].scan = {s}
          /\ \A b \in Call \ {c} : calls'[b] = calls[b]
        BY <2>1 DEF TypeOK
    <2>4. CASE r # s
        <3>1. NoNewHold(r)
            BY <2>3, <2>4 DEF NoNewHold, Holds, Posting
        <3>2. status'[r] = status[r]
            BY <2>1, <2>4 DEF TypeOK
        <3> QED
            BY <1>r, <2>2, <3>1, <3>2, LifeGoesOn DEF ScannerRests, Away
    <2>5. CASE r = s
        <3>1. Fresh(s) /\ \A b \in Call : ~Holds(b, s)
            BY <1>r, <2>1, <2>5 DEF Life
        <3>2. status'[s] = "RUNNING"
            BY <2>1 DEF TypeOK
        <3>3. Fresh(s)'
            BY <2>2, <3>1, <3>2 DEF Fresh, Away
        <3>4. \A b \in Call : Holds(b, s)' => b = c
            BY <2>3, <3>1 DEF Holds
        <3> QED
            BY <2>5, <3>2, <3>3, <3>4 DEF Life, Fresh, Busy, Processing
    <2> QED
        BY <2>4, <2>5
<1>10. CASE InsertFails(c) \/ ImportFails(c)
    <2>1. NoNewHold(r)
        BY <1>10, <1>4 DEF InsertFails, ImportFails
    <2> QED
        BY <1>10, <1>1, <2>1 DEF InsertFails, ImportFails, rows, scanner
<1>11. CASE Post(c)
    <2>1. PICK s \in calls[c].scan : /\ remote' = [remote EXCEPT ![s] = "RUNNING"]
                                     /\ working' = working \cup {s}
        BY <1>11 DEF Post
    <2>2. calls[c].pc = "post" /\ UNCHANGED <<status, monitor, cancelled, history>>
        BY <1>11 DEF Post, At, rows
    <2>3. /\ calls'[c].pc = "answer" /\ calls'[c].scan = calls[c].scan
          /\ \A b \in Call \ {c} : calls'[b] = calls[b]
        BY <1>11, GotoType DEF Post, CallPc
    <2>4. NoNewHold(r)
        BY <2>2, <2>3, CallMoves
    <2>5. s \in Scan /\ remote \in [Scan -> {"none", "RUNNING", "COMPLETED", "CANCELLED"}]
        BY DEF TypeOK, CallState
    <2>6. CASE r # s
        <3>1. remote'[r] = remote[r] /\ (r \in working' <=> r \in working)
            BY <2>1, <2>5, <2>6
        <3> QED
            BY <1>r, <2>2, <2>4, <3>1, LifeGoesOn DEF ScannerRests, Away
    <2>7. CASE r = s
        <3>1. Posting(c, s) /\ Holds(c, s)
            BY <2>2 DEF Posting, Holds
        <3>2. Fresh(s) /\ status[s] # "none"
            BY <1>r, <2>7, <3>1 DEF Life
        <3>3. \A b \in Call : ~Posting(b, s)'
            BY <1>r, <2>3, <2>7, <3>1 DEF Life, Posting, Holds
        <3>4. remote'[s] = "RUNNING" /\ s \in working' /\ s \notin history'.acked
            BY <2>1, <2>2, <2>5, <3>2 DEF Fresh
        <3>5. ~Away(s)' /\ monitor'[s].pc \notin Busy
            BY <2>2, <3>2 DEF Fresh, Away, Busy, Processing
        <3> QED
            BY <1>r, <2>2, <2>4, <2>7, <3>2, <3>3, <3>4, <3>5 DEF Life, NoNewHold, Fresh
    <2> QED
        BY <2>6, <2>7
<1>12. CASE PostFails(c) \/ SendCancelFails(c)
    <2>1. NoNewHold(r)
        BY <1>12, <1>3 DEF PostFails, SendCancelFails, CallPc
    <2> QED
        BY <1>12, <1>1, <2>1 DEF PostFails, SendCancelFails, rows, scanner
<1>13. CASE Answer(c)
    <2>1. /\ UNCHANGED <<status, remote, working, cancelled, history>>
          /\ calls[c].pc = "answer"
          /\ monitor'[r] = IF r \in calls[c].scan THEN [NoMonitor EXCEPT !.pc = "poll"]
                           ELSE monitor[r]
        BY <1>13 DEF Answer, At, Subject, rows, scanner
    <2>2. NoNewHold(r)
        BY <1>13, <1>4 DEF Answer
    <2>3. CASE r \notin calls[c].scan
        BY <1>r, <2>1, <2>2, <2>3, LifeGoesOn DEF ScannerRests, Away
    <2>4. CASE r \in calls[c].scan
        <3>1. monitor'[r].pc = "poll" /\ monitor'[r].pc \notin Busy
            BY <2>1, <2>4, NoMonitorType DEF Busy, Processing
        <3>2. Holds(c, r) /\ status[r] # "none"
            BY <1>r, <2>1, <2>4 DEF Holds, Life
        <3>3. \A b \in Call : ~Posting(b, r)
            BY <1>r, <2>1, <3>2 DEF Life, Posting, Holds
        <3> QED
            BY <1>r, <2>1, <2>2, <3>1, <3>2, <3>3 DEF Life, NoNewHold, Away
    <2> QED
        BY <2>3, <2>4
<1>14. CASE Fail(c)
    <2>1. /\ UNCHANGED <<monitor, remote, working, cancelled>>
          /\ history'.acked = history.acked /\ history'.away = history.away
        <3>1. calls[c].scan \in SUBSET Scan
            BY DEF TypeOK, CallState
        <3> QED
            BY <1>14, <3>1, LoseType DEF Fail, scanner
    <2>2. status'[r] = status[r] \/ (r \in calls[c].scan /\ status'[r] = "FAILED")
        BY <1>14 DEF Fail, Subject
    <2>3. NoNewHold(r)
        BY <1>14, <1>4 DEF Fail
    <2>4. CASE status'[r] = status[r]
        BY <1>r, <2>1, <2>3, <2>4, LifeGoesOn DEF ScannerRests, Away
    <2>5. CASE status'[r] = "FAILED"
        BY <1>r, <2>1, <2>3, <2>5 DEF Life, Fresh, NoNewHold, Away
    <2> QED
        BY <2>2, <2>4, <2>5
<1>15. CASE SendCancel(c)
    <2>1. PICK s \in calls[c].scan :
             IF CanCancel(s)
             THEN /\ cancelled' = cancelled \cup {s}
                  /\ remote' = [remote EXCEPT ![s] = "CANCELLED"]
                  /\ history' = [history EXCEPT !.acked = history.acked \cup {s}]
             ELSE UNCHANGED <<cancelled, remote, history>>
        BY <1>15 DEF SendCancel
    <2>2. UNCHANGED <<status, monitor, working>>
        BY <1>15 DEF SendCancel, rows
    <2>3. NoNewHold(r)
        BY <1>15, <1>3 DEF SendCancel, CallPc
    <2>4. CASE ~CanCancel(s)
        BY <1>1, <2>1, <2>2, <2>3, <2>4
    <2>5. CASE CanCancel(s)
        <3>1. /\ cancelled' = cancelled \cup {s} /\ s \in Scan
              /\ remote' = [remote EXCEPT ![s] = "CANCELLED"]
              /\ history'.acked = history.acked \cup {s} /\ history'.away = history.away
            BY <2>1, <2>5 DEF TypeOK, CallState, History
        <3>2. CASE r # s
            <4>1. ScannerRests(r)
                BY <2>2, <3>1, <3>2 DEF ScannerRests, TypeOK
            <4> QED
                BY <1>r, <2>2, <2>3, <3>1, <3>2, <4>1, LifeGoesOn DEF Away
        <3>3. CASE r = s
            <4>1. remote'[s] = "CANCELLED" /\ remote[s] \in {"RUNNING", "CANCELLED"}
                BY <2>5, <3>1 DEF TypeOK, CanCancel
            <4>2. ~Fresh(s) /\ ~Away(s) /\ status[s] # "COMPLETED" /\ monitor[s].pc \notin Busy
                BY <1>r, <3>3, <4>1 DEF Life, Fresh
            <4>3. ~Away(s)'
                BY <3>1, <4>2 DEF Away
            <4> QED
                BY <1>r, <2>2, <2>3, <3>1, <3>3, <4>1, <4>2, <4>3 DEF Life, NoNewHold
        <3> QED
            BY <3>2, <3>3
    <2> QED
        BY <2>4, <2>5
<1>16. CASE WriteCancel(c)
    <2>1. UNCHANGED <<monitor, remote, working, cancelled, history>>
        BY <1>16 DEF WriteCancel, scanner
    <2>2. status'[r] = status[r] \/ status'[r] = "CANCELLED"
        BY <1>16 DEF WriteCancel
    <2>3. NoNewHold(r)
        BY <1>16, <1>4 DEF WriteCancel
    <2>4. CASE status'[r] = status[r]
        BY <1>r, <2>1, <2>3, <2>4, LifeGoesOn DEF ScannerRests, Away
    <2>5. CASE status'[r] = "CANCELLED"
        BY <1>r, <2>1, <2>3, <2>5 DEF Life, Fresh, NoNewHold, Away
    <2> QED
        BY <2>2, <2>4, <2>5
<1>17. CASE CreateMachine(c)
    <2>1. NoNewHold(r)
        BY <1>17, <1>3, <1>4 DEF CreateMachine, CallPc
    <2> QED
        BY <1>17, <1>1, <2>1 DEF CreateMachine, scanner
<1>18. CASE ApplyChanges(c)
    <2>1. NoNewHold(r)
        BY <1>18, <1>4 DEF ApplyChanges
    <2> QED
        BY <1>18, <1>1, <2>1 DEF ApplyChanges, scanner
<1> QED
    BY <1>5, <1>6, <1>7, <1>8, <1>9, <1>10, <1>11, <1>12, <1>13, <1>14, <1>15, <1>16, <1>17,
       <1>18 DEF Request, Handle, HandleFails

LEMMA BusyPc == Busy = {"read", "save", "diff", "moved", "offline", "report", "finish"}
BY DEF Busy, Processing

LEMMA LifeMonitors ==
    ASSUME TypeOK, MissInv, LifeInv, NEW s \in Scan,
           Monitor(s) \/ GiveUp(s) \/ ProcessingFails(s) \/ Scanner(s)
    PROVE  LifeInv'
<1> SUFFICES ASSUME NEW r \in Scan PROVE Life(r)'
    BY DEF LifeInv
<1>r. Life(r) /\ Life(s)
    BY DEF LifeInv
\* Only the monitor of the scan, on its way.
<1>1. ASSUME UNCHANGED <<status, calls, remote, working, cancelled>>,
             history'.acked = history.acked,
             \A q \in Scan \ {s} : monitor'[q] = monitor[q],
             \A q \in Scan : Away(q)' => Away(q) \/ (q = s /\ monitor[s].pc \in Busy),
             monitor[s].pc # "none",
             monitor[s].pc \in Busy \/ monitor'[s].pc \notin Busy
      PROVE  Life(r)'
    <2>1. NoNewHold(r) /\ ScannerRests(r)
        BY <1>1 DEF NoNewHold, Holds, Posting, ScannerRests
    <2> QED
        BY <1>1, <1>r, <2>1, LifeGoesOn
<1>2. CASE Poll(s)
    <2>1. PICK pc \in {"read", "close"} :
             /\ Move(s, pc) /\ monitor[s].pc = "poll"
             /\ remote[s] = IF pc = "read" THEN "COMPLETED" ELSE "CANCELLED"
        BY <1>2 DEF Poll, On
    <2>2. monitor'[s].pc = pc /\ \A q \in Scan \ {s} : monitor'[q] = monitor[q]
        BY <2>1, MoveType DEF MonitorPc, StepsTo
    <2>3. UNCHANGED <<status, calls, remote, working, cancelled, history>>
        BY <1>2 DEF Poll, rows, scanner
    <2>4. NoNewHold(r) /\ ScannerRests(r) /\ (Away(r)' <=> Away(r))
        BY <2>3 DEF NoNewHold, Holds, Posting, ScannerRests, Away
    <2>5. CASE r # s \/ pc = "close"
        BY <1>r, <2>1, <2>2, <2>3, <2>4, <2>5, BusyPc, LifeGoesOn
    <2>6. CASE r = s /\ pc = "read"
        <3>1. ~Fresh(s)
            BY <2>1 DEF Fresh
        <3>2. s \notin history.acked
            BY <1>r, <2>1, <2>6 DEF Life
        <3> QED
            BY <1>r, <2>1, <2>2, <2>3, <2>4, <2>6, <3>1, <3>2 DEF Life, NoNewHold
    <2> QED
        BY <2>5, <2>6
<1>3. CASE Close(s) \/ Finish(s)
    <2>1. /\ Move(s, "done") /\ monitor[s].pc \in {"close", "finish"}
          /\ status'[s] = IF monitor[s].pc = "finish" THEN "COMPLETED" ELSE "CANCELLED"
          /\ \A q \in Scan \ {s} : status'[q] = status[q]
        BY <1>3 DEF Close, Finish, On, SetStatus, TypeOK
    <2>2. monitor'[s].pc = "done" /\ \A q \in Scan \ {s} : monitor'[q] = monitor[q]
        BY <2>1, MoveType DEF MonitorPc, StepsTo
    <2>3. UNCHANGED <<calls, remote, working, cancelled, history>>
        BY <1>3 DEF Close, Finish, scanner
    <2>4. NoNewHold(r) /\ ScannerRests(r) /\ (Away(r)' <=> Away(r))
        BY <2>3 DEF NoNewHold, Holds, Posting, ScannerRests, Away
    <2>5. status[s] # "none"
        BY <1>r, <2>1 DEF Life, Fresh
    <2> QED
        BY <1>r, <2>1, <2>2, <2>3, <2>4, <2>5, BusyPc, LifeGoesOn
<1>4. CASE GiveUp(s)
    <2>1. monitor'[s].pc = "done" /\ \A q \in Scan \ {s} : monitor'[q] = monitor[q]
        BY <1>4, MoveType DEF GiveUp, MonitorPc, StepsTo
    <2>2. history'.acked = history.acked /\ history'.away = history.away
        BY <1>4, LoseType DEF GiveUp
    <2> QED
        BY <1>1, <1>4, <2>1, <2>2, BusyPc DEF GiveUp, On, rows, scanner, Away
<1>5. CASE ReadInventory(s)
    <2>1. \A q \in Scan \ {s} : monitor'[q] = monitor[q]
        BY <1>5, ReadEffect DEF StepsTo
    <2> QED
        BY <1>1, <1>5, <2>1, BusyPc DEF ReadInventory, On, rows, scanner, Away
<1>6. CASE Save(s)
    <2>1. \A q \in Scan \ {s} : monitor'[q] = monitor[q]
        BY <1>6, SaveEffect
    <2> QED
        BY <1>1, <1>6, <2>1, BusyPc DEF Save, On, scanner, Away
<1>7. CASE ReportNew(s) \/ ReportMoved(s) \/ ReportOffline(s)
    <2>1. \A q \in Scan \ {s} : monitor'[q] = monitor[q]
        BY <1>7, MoveType DEF ReportNew, ReportMoved, ReportOffline, MonitorPc, StepsTo
    <2> QED
        BY <1>1, <1>7, <2>1, BusyPc DEF ReportNew, ReportMoved, ReportOffline, On, scanner, Away
<1>8. CASE MarkOnline(s)
    <2>1. PICK pc \in {"save", "moved"} : Move(s, pc)
        BY <1>8 DEF MarkOnline
    <2>2. \A q \in Scan \ {s} : monitor'[q] = monitor[q]
        BY <2>1, MoveType DEF MonitorPc, StepsTo
    <2> QED
        BY <1>1, <1>8, <2>2, BusyPc DEF MarkOnline, On, scanner, Away
<1>9. CASE HostsDone(s)
    <2>1. \A q \in Scan \ {s} : monitor'[q] = monitor[q]
        BY <1>9, HostsDoneEffect
    <2> QED
        BY <1>1, <1>9, <2>1, BusyPc DEF HostsDone, On, rows, scanner, Away
<1>10. CASE MarkOffline(s)
    <2>1. PICK m \in Machine :
             /\ \A q \in Scan \ {s} : monitor'[q] = monitor[q]
             /\ history'.acked = history.acked
             /\ history'.away = history.away \cup {<<s, m, monitor[s].existing[m]>>}
        BY <1>10, MarkOfflineEffect
    <2>2. monitor[s].pc = "offline"
        BY <1>10 DEF MarkOffline, On
    <2>3. \A q \in Scan : Away(q)' => Away(q) \/ (q = s /\ monitor[s].pc \in Busy)
        BY <2>1, <2>2, BusyPc DEF Away
    <2> QED
        BY <1>1, <1>10, <2>1, <2>2, <2>3, BusyPc DEF MarkOffline, scanner
<1>11. CASE ProcessingFails(s)
    <2>1. monitor'[s].pc = "poll" /\ \A q \in Scan \ {s} : monitor'[q] = monitor[q]
        BY <1>11, MoveType DEF ProcessingFails, MonitorPc, StepsTo
    <2> QED
        BY <1>1, <1>11, <2>1, BusyPc DEF ProcessingFails, Processing, rows, scanner, Away
<1>12. CASE WorkersEnd(s)
    <2>1. /\ remote' = [remote EXCEPT ![s] = IF s \in cancelled THEN "CANCELLED" ELSE "COMPLETED"]
          /\ cancelled' = cancelled \ {s} /\ working' = working \ {s} /\ s \in working
          /\ UNCHANGED <<status, monitor, calls, history>>
        BY <1>12 DEF WorkersEnd, rows
    <2>2. NoNewHold(r) /\ (Away(r)' <=> Away(r))
        BY <2>1 DEF NoNewHold, Holds, Posting, Away
    <2>3. CASE r # s
        <3>1. ScannerRests(r)
            BY <2>1, <2>3 DEF ScannerRests, TypeOK
        <3> QED
            BY <1>r, <2>1, <2>2, <3>1, LifeGoesOn
    <2>4. CASE r = s
        <3>1. remote'[s] = IF s \in cancelled THEN "CANCELLED" ELSE "COMPLETED"
            BY <2>1 DEF TypeOK
        <3>2. remote[s] \in {"RUNNING", "CANCELLED"} /\ ~Fresh(s)
            BY <1>r, <2>1 DEF Life, Fresh
        <3> QED
            BY <1>r, <2>1, <2>2, <2>4, <3>1, <3>2 DEF Life, NoNewHold
    <2> QED
        BY <2>3, <2>4
<1>13. ASSUME NEW i \in Ip, Probe(s, i) PROVE Life(r)'
    <2>1. UNCHANGED <<status, monitor, calls, remote, working, cancelled, history>>
        BY <1>13 DEF Probe, rows
    <2>2. NoNewHold(r) /\ ScannerRests(r) /\ (Away(r)' <=> Away(r))
        BY <2>1 DEF NoNewHold, Holds, Posting, ScannerRests, Away
    <2> QED
        BY <1>r, <2>1, <2>2, LifeGoesOn
<1> QED
    BY <1>2, <1>3, <1>4, <1>5, <1>6, <1>7, <1>8, <1>9, <1>10, <1>11, <1>12, <1>13
    DEF Monitor, Scanner

LEMMA LifeNext == TypeOK /\ MissInv /\ LifeInv /\ [Next]_vars => LifeInv'
<1> SUFFICES ASSUME TypeOK, MissInv, LifeInv, [Next]_vars PROVE LifeInv'
    OBVIOUS
<1>1. ASSUME ScannerRestart PROVE LifeInv'
    <2>1. /\ remote' = [q \in Scan |-> "none"] /\ working' = {} /\ cancelled' = {}
          /\ UNCHANGED <<status, monitor, calls, history>>
        BY <1>1 DEF ScannerRestart, rows
    <2> QED
        BY <2>1 DEF LifeInv, Life, Fresh, Holds, Posting, Away
<1>2. ASSUME BackendRestart PROVE LifeInv'
    <2>1. /\ UNCHANGED <<status, remote, working, cancelled>>
          /\ calls' = [c \in Call |-> IdleCall] /\ monitor' = [q \in Scan |-> NoMonitor]
        BY <1>2 DEF BackendRestart, rows, scanner
    <2>2. history'.acked = history.acked /\ history'.away = history.away
        <3>1. {q \in Scan : status[q] = "RUNNING"} \in SUBSET Scan
            OBVIOUS
        <3> QED
            BY <1>2, <3>1, LoseType DEF BackendRestart
    <2>3. \A q \in Scan : /\ monitor'[q].pc = "none" /\ NoNewHold(q) /\ ScannerRests(q)
                          /\ (Away(q)' <=> Away(q))
        BY <2>1, <2>2, NoMonitorType
        DEF NoNewHold, Holds, Posting, IdleCall, ScannerRests, Away
    <2>4. ASSUME NEW q \in Scan PROVE Life(q)'
        BY <2>1, <2>2, <2>3, BusyPc, LifeGoesOn DEF LifeInv
    <2> QED
        BY <2>4 DEF LifeInv
<1>3. ASSUME UNCHANGED <<status, monitor, calls, remote, working, cancelled, history>>
      PROVE  LifeInv'
    BY <1>3 DEF LifeInv, Life, Fresh, Holds, Posting, Away
<1>4. ASSUME NEW ch \in changes, Decide(ch) PROVE LifeInv'
    BY <1>3, <1>4 DEF Decide, scanner
<1>5. ASSUME UNCHANGED vars PROVE LifeInv'
    BY <1>3, <1>5 DEF vars, rows, scanner
<1> QED
    BY <1>1, <1>2, <1>4, <1>5, LifeRequests, LifeMonitors DEF Next

\* A scan whose cancellation the scanner granted is never compared with the
\* inventory nor completed, however cancellation, probes, polls, failures and
\* restarts interleave (cancelScan:673, engine.ts:22).
THEOREM CancelAcknowledgedAlways == Spec => []CancelAcknowledged
<1>1. Init => TypeOK /\ MissInv /\ LifeInv
    BY TypeInit, LifeInit
<1>2. TypeOK /\ MissInv /\ LifeInv /\ [Next]_vars => (TypeOK /\ MissInv /\ LifeInv)'
    BY TypeNext, LifeNext
<1>3. TypeOK /\ LifeInv => CancelAcknowledged
    BY DEF TypeOK, History, LifeInv, Life, CancelAcknowledged, Busy
<1> QED
    BY <1>1, <1>2, <1>3, PTL DEF Spec

-----------------------------------------------------------------------------
(* Which machines a scan calls missing.                                    *)

\* No host has the address of a machine that was called missing, or is about
\* to be.
Seen(s) ==
    \A h \in found[s] :
        /\ \A m \in Machine, i \in Ip : <<s, m, i>> \in history.away => h.ip # i
        /\ monitor[s].pc \in {"offline", "report"} =>
              \A m \in monitor[s].missing : h.ip # monitor[s].existing[m]

SeenInv == \A s \in Scan : Seen(s)

LEMMA SeenInit == Init => SeenInv
BY DEF Init, SeenInv, Seen

\* A step that finds and calls nothing for the scan, and gives its monitor
\* nobody to call.
LEMMA SeenGoesOn ==
    ASSUME NEW s \in Scan, Seen(s), found'[s] = found[s],
           \A m \in Machine, i \in Ip :
              <<s, m, i>> \in history'.away => <<s, m, i>> \in history.away,
           \/ monitor'[s] = monitor[s]
           \/ monitor'[s].pc \notin {"offline", "report"}
    PROVE  Seen(s)'
BY DEF Seen

LEMMA SeenRequests ==
    ASSUME TypeOK, SeenInv, NEW c \in Call, Request(c) \/ Handle(c) \/ HandleFails(c)
    PROVE  SeenInv'
<1>1. found' = found /\ history'.away = history.away
    <2>1. calls[c].scan \in SUBSET Scan
        BY DEF TypeOK, CallState
    <2>2. CASE Fail(c)
        BY <2>1, <2>2, LoseType DEF Fail, scanner
    <2>3. CASE SendCancel(c)
        BY <2>3 DEF SendCancel, TypeOK, History
    <2>4. CASE Post(c)
        BY <2>4 DEF Post
    <2>5. CASE Answer(c)
        BY <2>5 DEF Answer, scanner
    <2> QED
        BY <2>2, <2>3, <2>4, <2>5
        DEF Request, Handle, HandleFails, BeginStart, BeginCancel, BeginImport, Look, Insert,
            WriteCancel, CreateMachine, ApplyChanges, InsertFails, PostFails, SendCancelFails,
            ImportFails, scanner
<1>2. ASSUME NEW s \in Scan
      PROVE  monitor'[s] = monitor[s] \/ monitor'[s].pc \notin {"offline", "report"}
    <2>1. CASE Answer(c)
        BY <2>1, NoMonitorType DEF Answer
    <2> QED
        BY <2>1
        DEF Request, Handle, HandleFails, BeginStart, BeginCancel, BeginImport, Look, Insert,
            Post, Fail, SendCancel,
            WriteCancel, CreateMachine, ApplyChanges, InsertFails, PostFails, SendCancelFails,
            ImportFails
<1> QED
    BY <1>1, <1>2, SeenGoesOn DEF SeenInv

LEMMA SeenMonitors ==
    ASSUME TypeOK, MissInv, LifeInv, SeenInv, NEW s \in Scan,
           Monitor(s) \/ GiveUp(s) \/ ProcessingFails(s) \/ Scanner(s)
    PROVE  SeenInv'
<1> SUFFICES ASSUME NEW r \in Scan PROVE Seen(r)'
    BY DEF SeenInv
<1>r. Seen(r) /\ Seen(s) /\ Life(s)
    BY DEF SeenInv, LifeInv
\* The monitor moves on to where it calls nobody.
<1>1. ASSUME NEW pc \in MonitorPc \ {"offline", "report"}, Move(s, pc),
             found' = found, history'.away = history.away
      PROVE  Seen(r)'
    BY ZenonT(60), <1>1, <1>r, MoveType, SeenGoesOn DEF StepsTo
<1>2. CASE Poll(s)
    BY <1>1, <1>2 DEF Poll, MonitorPc, scanner
<1>3. CASE Close(s) \/ Finish(s)
    BY <1>1, <1>3 DEF Close, Finish, MonitorPc, scanner
<1>4. CASE GiveUp(s)
    BY <1>1, <1>4, LoseType DEF GiveUp, MonitorPc, scanner
<1>5. CASE ReadInventory(s)
    <2>1. /\ monitor'[s].pc \notin {"offline", "report"}
          /\ \A q \in Scan \ {s} : monitor'[q] = monitor[q]
        <3>1. StepsTo(s, [pc |-> "save", existing |-> primary, todo |-> found[s],
                          current |-> {}, missing |-> {}])
            BY <1>5, ReadEffect
        <3> QED
            BY <3>1 DEF StepsTo
    <2> QED
        BY <1>5, <1>r, <2>1, SeenGoesOn DEF ReadInventory, scanner
<1>6. CASE Save(s)
    <2>1. /\ monitor'[s].pc = "diff" /\ \A q \in Scan \ {s} : monitor'[q] = monitor[q]
        BY <1>6, SaveEffect
    <2> QED
        BY <1>6, <1>r, <2>1, SeenGoesOn DEF Save, scanner
<1>7. CASE ReportNew(s) \/ ReportMoved(s)
    BY <1>1, <1>7 DEF ReportNew, ReportMoved, MonitorPc, scanner
<1>8. CASE MarkOnline(s)
    <2>1. PICK pc \in {"save", "moved"} : Move(s, pc)
        BY <1>8 DEF MarkOnline
    <2> QED
        BY <1>1, <1>8, <2>1 DEF MarkOnline, MonitorPc, scanner
<1>9. CASE HostsDone(s)
    <2>1. /\ \A q \in Scan \ {s} : monitor'[q] = monitor[q]
          /\ monitor'[s].existing = monitor[s].existing
          /\ monitor'[s].missing = Missing(s)
        BY <1>9, HostsDoneEffect
    <2>2. UNCHANGED <<found, history>>
        BY <1>9 DEF HostsDone, scanner
    <2> QED
        BY <1>r, <2>1, <2>2, SeenGoesOn DEF Seen, Missing
<1>10. CASE MarkOffline(s)
    <2>1. PICK m \in monitor[s].missing :
             /\ m \in Machine /\ monitor[s].existing[m] \in Ip
             /\ history'.away = history.away \cup {<<s, m, monitor[s].existing[m]>>}
             /\ \A q \in Scan \ {s} : monitor'[q] = monitor[q]
             /\ monitor'[s].existing = monitor[s].existing
             /\ monitor'[s].missing = monitor[s].missing \ {m}
        BY <1>10, MarkOfflineEffect
    <2>2. found' = found /\ monitor[s].pc = "offline"
        BY <1>10 DEF MarkOffline, On, scanner
    <2>3. CASE r # s
        BY <1>r, <2>1, <2>2, <2>3, SeenGoesOn
    <2>4. CASE r = s
        BY <1>r, <2>1, <2>2, <2>4 DEF Seen
    <2> QED
        BY <2>3, <2>4
<1>11. CASE ReportOffline(s)
    <2>1. PICK pc \in {"finish", "offline"} : Move(s, pc)
        BY <1>11 DEF ReportOffline
    <2>2. /\ monitor'[s].existing = monitor[s].existing
          /\ monitor'[s].missing = monitor[s].missing
          /\ \A q \in Scan \ {s} : monitor'[q] = monitor[q]
        BY <2>1, MoveType DEF MonitorPc, StepsTo
    <2>3. UNCHANGED <<found, history>> /\ monitor[s].pc = "report"
        BY <1>11 DEF ReportOffline, On, scanner
    <2> QED
        BY <1>r, <2>2, <2>3, SeenGoesOn DEF Seen
<1>12. CASE ProcessingFails(s)
    BY <1>1, <1>12 DEF ProcessingFails, MonitorPc, scanner
<1>13. CASE WorkersEnd(s)
    BY <1>13, <1>r, SeenGoesOn DEF WorkersEnd
\* While the scanner still finds hosts, nobody has been called missing.
<1>14. ASSUME NEW i \in Ip, Probe(s, i) PROVE Seen(r)'
    <2>1. /\ s \in working /\ UNCHANGED <<monitor, history>>
          /\ \A q \in Scan \ {s} : found'[q] = found[q]
        BY <1>14 DEF Probe, TypeOK
    <2>2. ~Away(s) /\ monitor[s].pc \notin {"offline", "report"}
        BY <1>r, <2>1, BusyPc DEF Life
    <2> QED
        BY <1>r, <2>1, <2>2, SeenGoesOn DEF Seen, Away
<1> QED
    BY <1>2, <1>3, <1>4, <1>5, <1>6, <1>7, <1>8, <1>9, <1>10, <1>11, <1>12, <1>13, <1>14
    DEF Monitor, Scanner

LEMMA SeenNext == TypeOK /\ MissInv /\ LifeInv /\ SeenInv /\ [Next]_vars => SeenInv'
<1> SUFFICES ASSUME TypeOK, MissInv, LifeInv, SeenInv, [Next]_vars PROVE SeenInv'
    OBVIOUS
<1>1. CASE ScannerRestart
    BY <1>1, SeenGoesOn DEF ScannerRestart, SeenInv
<1>2. CASE BackendRestart
    <2>1. {q \in Scan : status[q] = "RUNNING"} \in SUBSET Scan
        OBVIOUS
    <2>2. history'.away = history.away
        BY <1>2, <2>1, LoseType DEF BackendRestart
    <2>3. \A q \in Scan : monitor'[q].pc = "none"
        BY <1>2, NoMonitorType DEF BackendRestart
    <2> QED
        BY <1>2, <2>2, <2>3, SeenGoesOn DEF BackendRestart, SeenInv, scanner
<1>3. ASSUME NEW ch \in changes, Decide(ch) PROVE SeenInv'
    BY <1>3, SeenGoesOn DEF Decide, SeenInv, scanner
<1>4. CASE UNCHANGED vars
    BY <1>4, SeenGoesOn DEF vars, scanner, SeenInv
<1> QED
    BY <1>1, <1>2, <1>3, <1>4, SeenRequests, SeenMonitors DEF Next

\* At the address read for it a machine is never called missing by the scan
\* that saw it there, however scans, imports, failures and restarts interleave
\* (processScanResults:504).
THEOREM SeenButOfflineAlways == Spec => []SeenButOffline
<1>1. Init => TypeOK /\ MissInv /\ LifeInv /\ SeenInv
    BY TypeInit, LifeInit, SeenInit
<1>2. TypeOK /\ MissInv /\ LifeInv /\ SeenInv /\ [Next]_vars
         => (TypeOK /\ MissInv /\ LifeInv /\ SeenInv)'
    BY TypeNext, LifeNext, SeenNext
<1>3. SeenInv => SeenButOffline
    BY DEF SeenInv, Seen, SeenButOffline
<1> QED
    BY <1>1, <1>2, <1>3, PTL DEF Spec

-----------------------------------------------------------------------------
(* What COMPLETED says of a scan.                                          *)

\* A host is saved, and a device the inventory does not know is reported.
Dealt(s, h) ==
    /\ h \in hosts[s]
    /\ \/ primary[h.device] # Nowhere
       \/ \E m \in Machine : primary[m] = h.ip
       \/ \E ch \in changes : ch.scan = s /\ ch.host = h /\ ch.type = "NEW_DEVICE"

\* What a monitor has read of a machine with an address is still so.   The
\* host it is about to compare is saved.   Whatever host is not before it has
\* been dealt with, as has each of a completed scan.
Whole(s) ==
    /\ \A m \in Machine : monitor[s].existing[m] # Nowhere
                             => primary[m] = monitor[s].existing[m]
    /\ monitor[s].pc \in {"diff", "moved"} =>
          \E h \in Host : monitor[s].current = {h} /\ h \in hosts[s]
    /\ \A h \in found[s] :
          /\ monitor[s].pc = "save" => h \in monitor[s].todo \/ Dealt(s, h)
          /\ monitor[s].pc = "diff" =>
                h \in monitor[s].todo \/ h \in monitor[s].current \/ Dealt(s, h)
          /\ monitor[s].pc = "moved" => h \in monitor[s].todo \/ Dealt(s, h)
          /\ monitor[s].pc \in {"offline", "report", "finish"} => Dealt(s, h)
          /\ status[s] = "COMPLETED" => Dealt(s, h)

\* Machines keep the address they had at the start.
Grown == \A m \in Machine : Inventory[m] # Nowhere => primary[m] = Inventory[m]

WholeInv == Grown /\ \A s \in Scan : Whole(s)

LEMMA WholeInit == Init => WholeInv
<1> SUFFICES ASSUME Init, NEW s \in Scan PROVE Whole(s)
    BY DEF WholeInv, Grown, Init
<1>1. monitor[s].pc = "none" /\ monitor[s].existing = Inventory
    BY DEF Init, NoMonitor
<1> QED
    BY <1>1 DEF Init, Whole

\* Hosts are saved for good, machines keep the address they have, and a
\* change keeps its scan, its host and its type.
Kept ==
    /\ \A s \in Scan : hosts[s] \subseteq hosts'[s]
    /\ \A m \in Machine : primary[m] # Nowhere => primary'[m] = primary[m]
    /\ \A ch \in changes : \E new \in changes' :
          new.scan = ch.scan /\ new.host = ch.host /\ new.type = ch.type

LEMMA DealtStays ==
    ASSUME TypeOK, Kept, NEW s \in Scan, NEW h \in Host, Dealt(s, h)
    PROVE  Dealt(s, h)'
<1>1. h.device \in Machine /\ h.ip \in Ip
    BY DEF Host
<1>2. h \in hosts'[s]
    BY DEF Dealt, Kept
<1>3. CASE primary[h.device] # Nowhere
    BY <1>1, <1>2, <1>3 DEF Dealt, Kept
<1>4. ASSUME NEW m \in Machine, primary[m] = h.ip PROVE Dealt(s, h)'
    BY <1>1, <1>2, <1>4, DiscoveryAssumption DEF Dealt, Kept
<1>5. ASSUME NEW ch \in changes, ch.scan = s, ch.host = h, ch.type = "NEW_DEVICE"
      PROVE  Dealt(s, h)'
    BY <1>2, <1>5 DEF Dealt, Kept
<1> QED
    BY <1>3, <1>4, <1>5 DEF Dealt

LEMMA NothingLost == TypeOK /\ MissInv /\ [Next]_vars => Kept
<1> SUFFICES ASSUME TypeOK, MissInv, [Next]_vars PROVE Kept
    OBVIOUS
<1>1. ASSUME UNCHANGED <<hosts, primary, changes>> PROVE Kept
    BY <1>1 DEF Kept
<1>2. ASSUME NEW c \in Call, CreateMachine(c) PROVE Kept
    <2>1. /\ UNCHANGED <<hosts, changes>>
          /\ \E h : \/ primary[h.device] = Nowhere /\ primary' = [primary EXCEPT ![h.device] = h.ip]
                    \/ primary' = primary
        BY <1>2 DEF CreateMachine
    <2>2. \A m \in Machine : primary[m] # Nowhere => primary'[m] = primary[m]
        BY <2>1 DEF TypeOK
    <2> QED
        BY <2>1, <2>2 DEF Kept
<1>3. ASSUME NEW c \in Call, ApplyChanges(c) PROVE Kept
    <2>1. PICK its \in SUBSET changes :
             changes' = (changes \ its) \cup {[ch EXCEPT !.status = "APPLIED"] : ch \in its}
        BY <1>3 DEF ApplyChanges
    <2>2. \A ch \in changes : /\ [ch EXCEPT !.status = "APPLIED"].scan = ch.scan
                              /\ [ch EXCEPT !.status = "APPLIED"].host = ch.host
                              /\ [ch EXCEPT !.status = "APPLIED"].type = ch.type
        BY DEF TypeOK, Change
    <2>3. UNCHANGED <<hosts, primary>>
        BY <1>3 DEF ApplyChanges
    <2> QED
        BY <2>1, <2>2, <2>3 DEF Kept
<1>4. ASSUME NEW ch \in changes, Decide(ch) PROVE Kept
    <2>1. PICK st : changes' = (changes \ {ch}) \cup {[ch EXCEPT !.status = st]}
        BY <1>4 DEF Decide
    <2>2. /\ [ch EXCEPT !.status = st].scan = ch.scan
          /\ [ch EXCEPT !.status = st].host = ch.host
          /\ [ch EXCEPT !.status = st].type = ch.type
        BY DEF TypeOK, Change
    <2>3. UNCHANGED <<hosts, primary>>
        BY <1>4 DEF Decide
    <2> QED
        BY <2>1, <2>2, <2>3 DEF Kept
<1>5. ASSUME NEW s \in Scan, Save(s) PROVE Kept
    <2>1. \A q \in Scan : hosts[q] \subseteq hosts'[q]
        BY <1>5, SaveEffect DEF TypeOK
    <2> QED
        BY <1>5, <2>1 DEF Save, Kept
<1>6. ASSUME NEW s \in Scan, ReportNew(s) \/ ReportMoved(s) \/ ReportOffline(s) PROVE Kept
    <2>1. changes \subseteq changes' /\ UNCHANGED <<hosts, primary>>
        BY <1>6 DEF ReportNew, ReportMoved, ReportOffline, Report
    <2> QED
        BY <2>1 DEF Kept
<1>7. ASSUME NEW c \in Call, Request(c) \/ Handle(c) \/ HandleFails(c) PROVE Kept
    BY <1>1, <1>2, <1>3, <1>7
    DEF Request, Handle, HandleFails, BeginStart, BeginCancel, BeginImport, Look, Insert,
        Post, Answer, Fail, SendCancel, WriteCancel, InsertFails, PostFails, SendCancelFails,
        ImportFails, rows
<1>8. ASSUME NEW s \in Scan, Monitor(s) \/ GiveUp(s) \/ ProcessingFails(s) \/ Scanner(s)
      PROVE  Kept
    BY <1>1, <1>5, <1>6, <1>8
    DEF Monitor, Scanner, Poll, Close, ReadInventory, MarkOnline, HostsDone, MarkOffline,
        Finish, GiveUp, ProcessingFails, WorkersEnd, Probe, rows
<1>9. CASE ScannerRestart \/ BackendRestart \/ UNCHANGED vars
    BY <1>1, <1>9 DEF ScannerRestart, BackendRestart, vars, rows
<1> QED
    BY <1>4, <1>7, <1>8, <1>9 DEF Next

\* A step that finds nothing and completes nothing, and leaves the monitor
\* where it is or takes it where nothing is before it.
LEMMA WholeGoesOn ==
    ASSUME TypeOK, TypeOK', Kept, NEW s \in Scan, Whole(s),
           found'[s] = found[s],
           status'[s] = "COMPLETED" => status[s] = "COMPLETED",
           \/ monitor'[s] = monitor[s]
           \/ /\ monitor'[s].pc \in {"none", "poll", "read", "close", "done"}
              /\ \A m \in Machine : monitor'[s].existing[m] # Nowhere
                                       => primary[m] = monitor'[s].existing[m]
    PROVE  Whole(s)'
<1>1. found[s] \subseteq Host
    BY DEF TypeOK
<1>2. \A h \in found[s] : Dealt(s, h) => Dealt(s, h)'
    BY <1>1, DealtStays
<1>3. \A m \in Machine : monitor'[s].existing[m] # Nowhere
                            => primary'[m] = monitor'[s].existing[m]
    BY DEF Kept, Whole
<1>4. monitor'[s].pc \in {"diff", "moved"} =>
         \E h \in Host : monitor'[s].current = {h} /\ h \in hosts'[s]
    BY DEF Whole, Kept
<1> QED
    BY <1>2, <1>3, <1>4 DEF Whole

LEMMA GrownNext == TypeOK /\ Kept /\ Grown => Grown'
BY DEF Kept, Grown

LEMMA WholeRequests ==
    ASSUME TypeOK, TypeOK', Kept, WholeInv, NEW c \in Call,
           Request(c) \/ Handle(c) \/ HandleFails(c)
    PROVE  WholeInv'
<1> SUFFICES ASSUME NEW s \in Scan PROVE Whole(s)'
    BY GrownNext DEF WholeInv
<1>1. found' = found /\ Whole(s)
    BY DEF Request, Handle, HandleFails, BeginStart, BeginCancel, BeginImport, Look, Insert,
        Post, Answer, Fail, SendCancel, WriteCancel, CreateMachine, ApplyChanges,
        InsertFails, PostFails, SendCancelFails, ImportFails, scanner, WholeInv
<1>2. status'[s] = "COMPLETED" => status[s] = "COMPLETED"
    BY DEF Request, Handle, HandleFails, BeginStart, BeginCancel, BeginImport, Look, Insert,
        Post, Answer, Fail, SendCancel, WriteCancel, CreateMachine, ApplyChanges,
        InsertFails, PostFails, SendCancelFails, ImportFails, rows, SetStatus, TypeOK
<1>3. CASE Answer(c)
    <2>1. \/ monitor'[s] = monitor[s]
          \/ monitor'[s] = [NoMonitor EXCEPT !.pc = "poll"]
        BY <1>3 DEF Answer
    <2>2. /\ [NoMonitor EXCEPT !.pc = "poll"].pc = "poll"
          /\ [NoMonitor EXCEPT !.pc = "poll"].existing = Inventory
        BY DEF NoMonitor
    <2> QED
        BY <1>1, <1>2, <2>1, <2>2, WholeGoesOn DEF WholeInv, Grown
<1>4. CASE ~Answer(c)
    <2>1. monitor' = monitor
        BY <1>4
        DEF Request, Handle, HandleFails, BeginStart, BeginCancel, BeginImport, Look, Insert,
            Post, Fail, SendCancel, WriteCancel, CreateMachine, ApplyChanges,
            InsertFails, PostFails, SendCancelFails, ImportFails
    <2> QED
        BY <1>1, <1>2, <2>1, WholeGoesOn
<1> QED
    BY <1>3, <1>4

LEMMA WholeMonitors ==
    ASSUME TypeOK, TypeOK', MissInv, LifeInv, Kept, WholeInv, NEW s \in Scan,
           Monitor(s) \/ GiveUp(s) \/ ProcessingFails(s) \/ Scanner(s)
    PROVE  WholeInv'
<1> SUFFICES ASSUME NEW r \in Scan PROVE Whole(r)'
    BY GrownNext DEF WholeInv
<1>r. Whole(r) /\ Whole(s) /\ Life(s)
    BY DEF WholeInv, LifeInv
<1>f. found[s] \subseteq Host /\ monitor[s] \in MonitorState
    BY DEF TypeOK
<1>d. \A h \in Host : Dealt(s, h) => Dealt(s, h)'
    BY DealtStays
\* A step of this monitor is no step of another.
<1>o. ASSUME \A q \in Scan \ {s} : /\ monitor'[q] = monitor[q] /\ found'[q] = found[q]
                                   /\ status'[q] = status[q],
             Whole(s)'
      PROVE  Whole(r)'
    BY <1>o, <1>r, WholeGoesOn
<1>1. ASSUME NEW pc \in {"read", "close", "done", "poll"}, Move(s, pc), found' = found,
             status' = status \/ status' = [status EXCEPT ![s] = "CANCELLED"]
      PROVE  Whole(r)'
    <2>1. monitor'[s].pc = pc /\ monitor'[s].existing = monitor[s].existing
          /\ \A q \in Scan \ {s} : monitor'[q] = monitor[q]
        BY <1>1, MoveType DEF MonitorPc, StepsTo
    <2>2. /\ \A q \in Scan \ {s} : status'[q] = status[q]
          /\ status'[s] = "COMPLETED" => status[s] = "COMPLETED"
        BY <1>1 DEF TypeOK
    <2>3. Whole(s)'
        BY <1>1, <1>r, <2>1, <2>2, WholeGoesOn DEF Whole
    <2> QED
        BY <1>1, <1>o, <2>1, <2>2, <2>3
<1>2. CASE Poll(s)
    BY <1>1, <1>2 DEF Poll, rows, scanner
<1>3. CASE Close(s)
    BY <1>1, <1>3 DEF Close, SetStatus, scanner
<1>4. CASE GiveUp(s)
    BY <1>1, <1>4 DEF GiveUp, rows, scanner
<1>5. CASE ProcessingFails(s)
    BY <1>1, <1>5 DEF ProcessingFails, rows, scanner
\* The monitor moves on in the comparison.
<1>6. ASSUME UNCHANGED <<found, status>>,
             \A q \in Scan \ {s} : monitor'[q] = monitor[q],
             monitor[s].pc \in Busy,
             \A m \in Machine : monitor'[s].existing[m] # Nowhere
                                   => primary'[m] = monitor'[s].existing[m],
             monitor'[s].pc \in {"diff", "moved"} =>
                \E h \in Host : monitor'[s].current = {h} /\ h \in hosts'[s],
             \A h \in found[s] :
                /\ monitor'[s].pc = "save" => h \in monitor'[s].todo \/ Dealt(s, h)'
                /\ monitor'[s].pc = "diff" =>
                     h \in monitor'[s].todo \/ h \in monitor'[s].current \/ Dealt(s, h)'
                /\ monitor'[s].pc = "moved" => h \in monitor'[s].todo \/ Dealt(s, h)'
                /\ monitor'[s].pc \in {"offline", "report", "finish"} => Dealt(s, h)'
      PROVE  Whole(r)'
    <2>1. \A h \in found[s] : status'[s] = "COMPLETED" => Dealt(s, h)'
        BY <1>d, <1>f, <1>r, <1>6 DEF Whole
    <2>2. Whole(s)'
        BY <1>6, <2>1 DEF Whole
    <2> QED
        BY <1>6, <1>o, <2>2
<1>e. \A m \in Machine : monitor[s].existing[m] # Nowhere
                            => primary'[m] = monitor[s].existing[m]
    BY <1>r DEF Whole, Kept
<1>7. CASE ReadInventory(s)
    <2>1. StepsTo(s, [pc |-> "save", existing |-> primary, todo |-> found[s],
                      current |-> {}, missing |-> {}])
        BY <1>7, ReadEffect
    <2>2. /\ monitor'[s].pc = "save" /\ monitor'[s].existing = primary
          /\ monitor'[s].todo = found[s]
          /\ \A q \in Scan \ {s} : monitor'[q] = monitor[q]
        BY <2>1 DEF StepsTo
    <2>3. UNCHANGED <<found, status, primary>> /\ monitor[s].pc \in Busy
        BY <1>7, BusyPc DEF ReadInventory, On, rows, scanner
    <2> QED
        BY <1>6, <2>2, <2>3
<1>8. CASE Save(s)
    <2>1. PICK h \in monitor[s].todo :
             /\ h \in Host /\ hosts' = [hosts EXCEPT ![s] = hosts[s] \cup {h}]
             /\ \A q \in Scan \ {s} : monitor'[q] = monitor[q]
             /\ monitor'[s].pc = "diff"
             /\ monitor'[s].existing = monitor[s].existing
             /\ monitor'[s].todo = monitor[s].todo \ {h}
             /\ monitor'[s].current = {h}
        BY <1>8, SaveEffect
    <2>2. UNCHANGED <<found, status>> /\ monitor[s].pc = "save"
        BY <1>8 DEF Save, On, scanner
    <2>3. \A g \in found[s] : g \in monitor'[s].todo \/ g \in monitor'[s].current \/ Dealt(s, g)'
        BY <1>d, <1>f, <1>r, <2>1, <2>2 DEF Whole
    <2>4. h \in hosts'[s]
        BY <2>1 DEF TypeOK
    <2> QED
        BY <1>6, <1>e, <2>1, <2>2, <2>3, <2>4, BusyPc
\* The host before the monitor has been dealt with.
<1>9. ASSUME NEW pc \in {"save", "moved"}, Move(s, pc), UNCHANGED <<found, status>>,
             monitor[s].pc \in {"diff", "moved"},
             monitor[s].pc = "diff" => \A h \in monitor[s].current : Dealt(s, h)'
      PROVE  Whole(r)'
    <2>1. /\ monitor'[s].pc = pc /\ monitor'[s].existing = monitor[s].existing
          /\ monitor'[s].todo = monitor[s].todo /\ monitor'[s].current = monitor[s].current
          /\ \A q \in Scan \ {s} : monitor'[q] = monitor[q]
        BY <1>9, MoveType DEF MonitorPc, StepsTo
    <2>2. \E h \in Host : monitor'[s].current = {h} /\ h \in hosts'[s]
        BY <1>9, <1>r, <2>1 DEF Whole, Kept
    <2>3. \A h \in found[s] : h \in monitor'[s].todo \/ Dealt(s, h)'
        BY <1>9, <1>d, <1>f, <1>r, <2>1 DEF Whole
    <2> QED
        BY <1>6, <1>9, <1>e, <2>1, <2>2, <2>3, BusyPc
<1>10. CASE ReportNew(s)
    <2>1. PICK h \in monitor[s].current :
             changes' = changes \cup {[scan |-> s, host |-> h, type |-> "NEW_DEVICE",
                                       status |-> "PENDING"]}
        BY <1>10 DEF ReportNew, Report
    <2>2. /\ UNCHANGED <<found, status, hosts>> /\ monitor[s].pc = "diff" /\ Move(s, "save")
        BY <1>10 DEF ReportNew, On, scanner
    <2>3. monitor[s].current = {h} /\ h \in hosts[s]
        BY <1>r, <2>1, <2>2 DEF Whole
    <2>4. [scan |-> s, host |-> h, type |-> "NEW_DEVICE", status |-> "PENDING"] \in changes'
        BY <2>1
    <2>5. Dealt(s, h)'
        BY <2>2, <2>3, <2>4 DEF Dealt
    <2> QED
        BY <1>9, <2>2, <2>3, <2>5
<1>11. CASE MarkOnline(s)
    <2>0. PICK h \in monitor[s].current :
             \E m \in Known(s, h) :
                Move(s, IF monitor[s].existing[m] = h.ip THEN "save" ELSE "moved")
        BY <1>11 DEF MarkOnline
    <2>1. PICK m \in Known(s, h) :
             Move(s, IF monitor[s].existing[m] = h.ip THEN "save" ELSE "moved")
        BY <2>0
    <2>2. UNCHANGED <<found, status, hosts, primary, changes>> /\ monitor[s].pc = "diff"
        BY <1>11 DEF MarkOnline, On, scanner
    <2>3. monitor[s].current = {h} /\ h \in hosts[s] /\ h \in Host
        BY <1>r, <2>0, <2>2 DEF Whole
    <2>4. h.ip \in Ip /\ h.device \in Machine
        BY <2>3 DEF Host
    <2>5. Dealt(s, h)'
        <3> DEFINE byIp == {x \in Machine : monitor[s].existing[x] = h.ip}
        <3>1. CASE byIp # {}
            <4>1. PICK x \in Machine : monitor[s].existing[x] = h.ip
                BY <3>1
            <4>2. primary[x] = h.ip
                BY <1>r, <2>4, <4>1, DiscoveryAssumption DEF Whole
            <4> QED
                BY <2>2, <2>3, <4>2 DEF Dealt
        <3>2. CASE byIp = {}
            <4>1. monitor[s].existing[h.device] # Nowhere
                BY <2>1, <3>2 DEF Known
            <4>2. primary[h.device] # Nowhere
                BY <1>r, <2>4, <4>1 DEF Whole
            <4> QED
                BY <2>2, <2>3, <4>2 DEF Dealt
        <3> QED
            BY <3>1, <3>2
    <2> QED
        BY <1>9, <2>1, <2>2, <2>3, <2>5
<1>12. CASE ReportMoved(s)
    <2>1. UNCHANGED <<found, status>> /\ monitor[s].pc = "moved" /\ Move(s, "save")
        BY <1>12 DEF ReportMoved, On, scanner
    <2> QED
        BY <1>9, <2>1
<1>13. CASE HostsDone(s)
    <2>1. /\ \A q \in Scan \ {s} : monitor'[q] = monitor[q]
          /\ monitor'[s].pc \in {"offline", "finish"}
          /\ monitor'[s].existing = monitor[s].existing
        BY <1>13, HostsDoneEffect
    <2>2. UNCHANGED <<found, status>> /\ monitor[s].pc = "save" /\ monitor[s].todo = {}
        BY <1>13 DEF HostsDone, On, rows, scanner
    <2>3. \A h \in found[s] : Dealt(s, h)'
        BY <1>d, <1>f, <1>r, <2>2 DEF Whole
    <2> QED
        BY <1>6, <1>e, <2>1, <2>2, <2>3, BusyPc
<1>14. CASE MarkOffline(s)
    <2>1. /\ \A q \in Scan \ {s} : monitor'[q] = monitor[q]
          /\ monitor'[s].pc = "report"
          /\ monitor'[s].existing = monitor[s].existing
        BY <1>14, MarkOfflineEffect
    <2>2. UNCHANGED <<found, status>> /\ monitor[s].pc = "offline"
        BY <1>14 DEF MarkOffline, On, scanner
    <2>3. \A h \in found[s] : Dealt(s, h)'
        BY <1>d, <1>f, <1>r, <2>2 DEF Whole
    <2> QED
        BY <1>6, <1>e, <2>1, <2>2, <2>3, BusyPc
<1>15. CASE ReportOffline(s)
    <2>1. PICK pc \in {"finish", "offline"} : Move(s, pc)
        BY <1>15 DEF ReportOffline
    <2>2. /\ \A q \in Scan \ {s} : monitor'[q] = monitor[q]
          /\ monitor'[s].pc = pc
          /\ monitor'[s].existing = monitor[s].existing
        BY <2>1, MoveType DEF MonitorPc, StepsTo
    <2>3. UNCHANGED <<found, status>> /\ monitor[s].pc = "report"
        BY <1>15 DEF ReportOffline, On, scanner
    <2>4. \A h \in found[s] : Dealt(s, h)'
        BY <1>d, <1>f, <1>r, <2>3 DEF Whole
    <2> QED
        BY <1>6, <1>e, <2>2, <2>3, <2>4, BusyPc
<1>16. CASE Finish(s)
    <2>1. /\ monitor'[s].pc = "done" /\ monitor'[s].existing = monitor[s].existing
          /\ \A q \in Scan \ {s} : monitor'[q] = monitor[q]
        BY <1>16, MoveType DEF Finish, MonitorPc, StepsTo
    <2>2. /\ found' = found /\ monitor[s].pc = "finish"
          /\ \A q \in Scan \ {s} : status'[q] = status[q]
        BY <1>16 DEF Finish, On, SetStatus, scanner, TypeOK
    <2>3. \A h \in found[s] : Dealt(s, h)'
        BY <1>d, <1>f, <1>r, <2>2 DEF Whole
    <2>4. Whole(s)'
        BY <1>e, <2>1, <2>2, <2>3 DEF Whole
    <2> QED
        BY <1>o, <2>1, <2>2, <2>4
<1>17. CASE WorkersEnd(s)
    BY <1>17, <1>r, WholeGoesOn DEF WorkersEnd, rows
\* While the scanner still finds hosts, nothing is compared.
<1>18. ASSUME NEW i \in Ip, Probe(s, i) PROVE Whole(r)'
    <2>1. /\ s \in working /\ UNCHANGED <<monitor, status, primary, hosts>>
          /\ \A q \in Scan \ {s} : found'[q] = found[q]
        BY <1>18 DEF Probe, TypeOK, rows
    <2>2. status[s] # "COMPLETED" /\ monitor[s].pc \notin Busy
        BY <1>r, <2>1 DEF Life
    <2>3. Whole(s)'
        BY <1>r, <2>1, <2>2, BusyPc DEF Whole
    <2> QED
        BY <1>o, <2>1, <2>3
<1> QED
    BY <1>2, <1>3, <1>4, <1>5, <1>7, <1>8, <1>10, <1>11, <1>12, <1>13, <1>14, <1>15, <1>16,
       <1>17, <1>18 DEF Monitor, Scanner

LEMMA WholeNext ==
    TypeOK /\ MissInv /\ LifeInv /\ WholeInv /\ [Next]_vars => WholeInv'
<1> SUFFICES ASSUME TypeOK, MissInv, LifeInv, WholeInv, [Next]_vars PROVE WholeInv'
    OBVIOUS
<1>k. TypeOK' /\ Kept /\ Grown'
    BY TypeNext, NothingLost, GrownNext DEF WholeInv
<1>1. ASSUME UNCHANGED <<found, status>>,
             \A q \in Scan : \/ monitor'[q] = monitor[q]
                             \/ monitor'[q].pc = "none" /\ monitor'[q].existing = Inventory
      PROVE  WholeInv'
    BY <1>k, <1>1, WholeGoesOn DEF WholeInv, Grown
<1>2. CASE ScannerRestart
    BY <1>1, <1>2 DEF ScannerRestart, rows
<1>3. CASE BackendRestart
    BY <1>1, <1>3 DEF BackendRestart, NoMonitor, rows, scanner
<1>4. ASSUME NEW ch \in changes, Decide(ch) PROVE WholeInv'
    BY <1>1, <1>4 DEF Decide, scanner
<1>5. CASE UNCHANGED vars
    BY <1>1, <1>5 DEF vars, rows, scanner
<1> QED
    BY <1>k, <1>2, <1>3, <1>4, <1>5, WholeRequests, WholeMonitors DEF Next

\* Every host the scanner found is saved, and reported if the inventory did
\* not know it, when the scan says COMPLETED, whatever calls failed and
\* comparisons were repeated on the way (processScanResults:209, :202).
THEOREM CompletedIsWholeAlways == Spec => []CompletedIsWhole
<1>1. Init => TypeOK /\ MissInv /\ LifeInv /\ WholeInv
    BY TypeInit, LifeInit, WholeInit
<1>2. TypeOK /\ MissInv /\ LifeInv /\ WholeInv /\ [Next]_vars
         => (TypeOK /\ MissInv /\ LifeInv /\ WholeInv)'
    BY TypeNext, LifeNext, WholeNext
<1>3. WholeInv => CompletedIsWhole
    BY DEF WholeInv, Whole, Dealt, CompletedIsWhole
<1> QED
    BY <1>1, <1>2, <1>3, PTL DEF Spec

=============================================================================
