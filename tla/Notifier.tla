------------------------------ MODULE Notifier ------------------------------
(***************************************************************************)
(* NotificationService (notification.service.ts): the configuration kept   *)
(* for ten seconds, the cool-down of an alert, the rate limit and the      *)
(* awaited send, for the alerts about one host.                            *)
(*                                                                         *)
(* An action runs from one await to the next.  The configuration is one    *)
(* row, abstracted to the events it lets through and to its version;       *)
(* cooldownMinutes and rateLimitPerMin do not change.  sendTestMessage     *)
(* keeps out of the limits and of this module.                             *)
(***************************************************************************)
EXTENDS Integers, Sequences, FiniteSets

CONSTANTS
    Notice,        \* calls of notify under way at once
    Ttl,           \* CONFIG_CACHE_TTL_MS
    Cooldown,      \* cooldownMinutes
    Window,        \* the minute of the rate limit
    rateLimit,     \* rateLimitPerMin
    MaxTime,       \* bound: the clock
    MaxNotices,    \* bound: calls of notify
    MaxUpdates     \* bound: calls of updateConfig

VARIABLES
    clock,
    row,           \* database: NotificationConfig
    cachedConfig,  \* the row that was read, when, or Uncached
    updating,      \* updateConfig has written and not yet invalidated
    cooldownMap,   \* when an event was last sent, or Never
    recent,        \* recentSendTimestamps
    notices,       \* the calls of notify under way
    log,           \* every decision, in their order, for the properties
    updates        \* when each version of the row was written

vars == <<clock, row, cachedConfig, updating, cooldownMap, recent, notices, log, updates>>

Event    == {"HOST_OFFLINE", "HOST_RECOVERED"}
Config   == [version : Nat, enabled : SUBSET Event]
Never    == -1
Uncached == [config |-> [version |-> 0, enabled |-> {}], at |-> Never]
Idle     == [pc |-> "idle", id |-> 0, event |-> "HOST_OFFLINE", began |-> 0,
             config |-> Uncached.config]

\* at and done: when the call decided, and which had ended by then.
Entry == [event : Event, began : Nat, at : Nat, version : Nat, done : SUBSET (Nat \ {0}),
          outcome : {"filtered", "suppressed", "throttled", "sending", "sent", "failed"}]

TypeOK ==
    /\ clock \in Nat
    /\ row \in Config
    /\ cachedConfig \in [config : Config, at : Nat \cup {Never}]
    /\ updating \in BOOLEAN
    /\ cooldownMap \in [Event -> Nat \cup {Never}]
    /\ recent \subseteq (Nat \ {0}) \X Nat
    /\ notices \in [Notice -> [pc : {"idle", "read", "fill", "send"}, id : Nat,
                               event : Event, began : Nat, config : Config]]
    /\ log \in Seq(Entry)
    /\ DOMAIN updates \subseteq Nat
    /\ updates \in [DOMAIN updates -> Nat]

Init ==
    /\ clock = 0
    /\ row = [version |-> 0, enabled |-> Event]
    /\ cachedConfig = Uncached
    /\ updating = FALSE
    /\ cooldownMap = [e \in Event |-> Never]
    /\ recent = {}
    /\ notices = [n \in Notice |-> Idle]
    /\ log = <<>>
    /\ updates = [v \in {} |-> 0]

With(f, x, v) == [y \in DOMAIN f \cup {x} |-> IF y = x THEN v ELSE f[y]]
Ended == {i \in DOMAIN log : log[i].outcome # "sending"}
Begun == Len(log) + Cardinality({n \in Notice : notices[n].pc \in {"read", "fill"}})

\* Mutant: a recovery does not end the cool-down of the problem.
RecoveryKeeps(e) == cooldownMap

\* HOST_RECOVERED ends the cool-down of HOST_OFFLINE.
Cleared(e) ==
    IF e = "HOST_RECOVERED" THEN [cooldownMap EXCEPT !["HOST_OFFLINE"] = Never]
                            ELSE cooldownMap

\* Mutant: nothing cools down.
NeverCoolingDown(e) == FALSE

CoolingDown(e) ==
    /\ e # "HOST_RECOVERED"
    /\ cooldownMap[e] # Never
    /\ clock - cooldownMap[e] < Cooldown

InWindow == {r \in recent : r[2] > clock - Window}

Outcome(e, config) ==
    CASE e \notin config.enabled                -> "filtered"
      [] e \in config.enabled /\ CoolingDown(e) -> "suppressed"
      [] e \in config.enabled /\ ~CoolingDown(e)
            /\ Cardinality(InWindow) >= rateLimit -> "throttled"
      [] OTHER                                  -> "sending"

\* From the answer of getRawConfig to the send: no await in between.
Decide(n, e, began, config) ==
    LET outcome == Outcome(e, config)
    IN  /\ log' = Append(log, [event |-> e, began |-> began, at |-> clock,
                               version |-> config.version, done |-> Ended,
                               outcome |-> outcome])
        /\ notices' = [notices EXCEPT ![n] =
              IF outcome = "sending"
              THEN [Idle EXCEPT !.pc = "send", !.id = Len(log) + 1, !.event = e]
              ELSE Idle]
        /\ cooldownMap' = IF outcome = "filtered" THEN cooldownMap ELSE Cleared(e)
        /\ recent' = IF outcome \in {"throttled", "sending"} THEN InWindow ELSE recent

Fresh == cachedConfig.at # Never /\ clock - cachedConfig.at < Ttl

\* notify, up to the read of the row or, with a cached one, to the send.
Notify(n, e) ==
    /\ notices[n].pc = "idle" /\ Begun < MaxNotices
    /\ IF Fresh
       THEN Decide(n, e, clock, cachedConfig.config)
       ELSE /\ notices' = [notices EXCEPT ![n] =
                  [pc |-> "read", id |-> 0, event |-> e, began |-> clock,
                   config |-> Uncached.config]]
            /\ UNCHANGED <<log, cooldownMap, recent>>
    /\ UNCHANGED <<clock, row, cachedConfig, updating, updates>>

ReadConfig(n) ==
    /\ notices[n].pc = "read"
    /\ notices' = [notices EXCEPT ![n] = [notices[n] EXCEPT !.config = row, !.pc = "fill"]]
    /\ UNCHANGED <<clock, row, cachedConfig, updating, cooldownMap, recent, log, updates>>

\* Mutant: the age of the cached row counts from its arrival.
FillAged(n) ==
    /\ notices[n].pc = "fill"
    /\ cachedConfig' = [config |-> notices[n].config, at |-> clock]
    /\ Decide(n, notices[n].event, notices[n].began, notices[n].config)
    /\ UNCHANGED <<clock, row, updating, updates>>

\* Its age counts from the start of the read, whatever was written meanwhile.
Fill(n) ==
    /\ notices[n].pc = "fill"
    /\ cachedConfig' = [config |-> notices[n].config, at |-> notices[n].began]
    /\ Decide(n, notices[n].event, notices[n].began, notices[n].config)
    /\ UNCHANGED <<clock, row, updating, updates>>

\* Mutant: a failed send does not count.
SentCountsSuccess(n) ==
    /\ notices[n].pc = "send"
    /\ LET i == notices[n].id
       IN  \/ /\ log' = [log EXCEPT ![i].outcome = "sent"]
              /\ cooldownMap' = [cooldownMap EXCEPT ![notices[n].event] = log[i].at]
              /\ recent' = recent \cup {<<i, log[i].at>>}
           \/ /\ log' = [log EXCEPT ![i].outcome = "failed"]
              /\ UNCHANGED <<cooldownMap, recent>>
    /\ notices' = [notices EXCEPT ![n] = Idle]
    /\ UNCHANGED <<clock, row, cachedConfig, updating, updates>>

\* Both are stamped with the time of the decision; a send that failed
\* counts for the rate limit only.
Sent(n) ==
    /\ notices[n].pc = "send"
    /\ LET i == notices[n].id
           at == log[i].at
       IN  /\ recent' = recent \cup {<<i, at>>}
           /\ \/ /\ log' = [log EXCEPT ![i].outcome = "sent"]
                 /\ cooldownMap' = [cooldownMap EXCEPT ![notices[n].event] = at]
              \/ /\ log' = [log EXCEPT ![i].outcome = "failed"]
                 /\ UNCHANGED cooldownMap
    /\ notices' = [notices EXCEPT ![n] = Idle]
    /\ UNCHANGED <<clock, row, cachedConfig, updating, updates>>

-----------------------------------------------------------------------------
(* updateConfig                                                            *)

\* The switch the module tells apart: notifyInfo, off by default, without which
\* recoveries do not pass.
UpdateConfig ==
    /\ ~updating /\ row.version < MaxUpdates
    /\ \E enabled \in {Event, Event \ {"HOST_RECOVERED"}} :
          row' = [version |-> row.version + 1, enabled |-> enabled]
    /\ updates' = With(updates, row.version + 1, clock)
    /\ updating' = TRUE
    /\ UNCHANGED <<clock, cachedConfig, cooldownMap, recent, notices, log>>

Invalidate ==
    /\ updating
    /\ updating' = FALSE
    /\ cachedConfig' = Uncached
    /\ UNCHANGED <<clock, row, cooldownMap, recent, notices, log, updates>>

Tick ==
    /\ clock < MaxTime
    /\ clock' = clock + 1
    /\ UNCHANGED <<row, cachedConfig, updating, cooldownMap, recent, notices, log, updates>>

Next ==
    \/ \E n \in Notice :
          \/ \E e \in Event : Notify(n, e)
          \/ ReadConfig(n) \/ Fill(n) \/ Sent(n)
    \/ UpdateConfig \/ Invalidate
    \/ Tick

Spec == Init /\ [][Next]_vars

-----------------------------------------------------------------------------
(* Properties                                                              *)

Passed(i) == log[i].outcome \in {"sending", "sent", "failed"}
Problem(i) == log[i].event # "HOST_RECOVERED"

\* A recovery that was let through, decided after i had ended and before j.
RecoveryBetween(i, j) ==
    \E k \in i + 1 .. j - 1 : /\ ~Problem(k) /\ log[k].outcome # "filtered"
                              /\ i \in log[k].done

\* A send decided before i and still under way when i was decided: when it
\* ends it puts its older time over that of i.
Overtaken(i) ==
    \E k \in 1 .. i - 1 : Passed(k) /\ log[k].event = log[i].event /\ k \notin log[i].done

\* Once an alert was sent (notify:355), the same alert is sent again within
\* its cool-down only after a recovery, or if an older send of it was still
\* under way, whose end turned the cool-down back.
AlertsSpaced ==
    \A i, j \in DOMAIN log :
        /\ i < j /\ Problem(i) /\ log[i].event = log[j].event
        /\ log[i].outcome = "sent" /\ Passed(j) /\ i \in log[j].done
        /\ log[j].at - log[i].at < Cooldown
        => RecoveryBetween(i, j) \/ Overtaken(i)

\* An alert is suppressed (notify:316) only for one that was really sent, less
\* than a cool-down ago, and since whose end no recovery was let through.
SuppressedForAReason ==
    \A j \in DOMAIN log : log[j].outcome = "suppressed" =>
        \E i \in log[j].done :
            /\ log[i].event = log[j].event /\ log[i].outcome = "sent"
            /\ log[j].at - log[i].at < Cooldown
            /\ ~RecoveryBetween(i, j)

\* Of sends none of which was decided while another was under way, no more
\* than rateLimitPerMin fall into a minute, failed ones included (notify:325).
RateLimited ==
    \A S \in SUBSET {i \in DOMAIN log : Passed(i)} :
        /\ \A i, j \in S : i < j => i \in log[j].done /\ log[j].at - log[i].at < Window
        => Cardinality(S) <= rateLimit

\* A notification that begins a cache's life or more after an update was
\* written honours it, though the cache may be filled, after updateConfig
\* emptied it, with a row read before (getRawConfig:55 takes the time first).
UpdateHonoured ==
    \A i \in DOMAIN log : \A v \in DOMAIN updates :
        v > log[i].version => log[i].began < updates[v] + Ttl

=============================================================================
