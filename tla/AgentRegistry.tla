--------------------------- MODULE AgentRegistry ---------------------------
(***************************************************************************)
(* The agents and the proposals of the assistant (automation.service.ts):  *)
(* registerAgent, processAgentHeartbeat and revokeAgent; createAIProposal  *)
(* and decideAIProposal, which runs the proposed action itself.            *)
(*                                                                         *)
(* An action is one database call, or the run of a proposed action, with   *)
(* the code that follows its answer.  A heartbeat with a wrong token has   *)
(* no effect and is left out, as are the measurements of a heartbeat.      *)
(***************************************************************************)
EXTENDS Integers, FiniteSets

CONSTANTS
    Agent, Proposal,
    Beat,          \* heartbeats under way at once
    Decision,      \* decisions under way at once
    MaxMessages,   \* bound: heartbeats and decisions
    MaxRevoked     \* bound: revocations

VARIABLES
    agents,        \* database: Agent.status, "none" before it registers
    heartbeats,    \* database: AgentHeartbeat, counted
    beats,         \* processAgentHeartbeat under way
    proposals,     \* database: AIActionProposal.status
    decisions,     \* decideAIProposal under way
    messages, revocations,
    ran            \* what the properties remember: the runs of each proposal

regVars == <<agents, heartbeats, beats, proposals, decisions, messages, revocations, ran>>

\* late: the agent was revoked since the heartbeat read it.
Idle     == [pc |-> "idle", of |-> {}, late |-> FALSE]
BeatState == [pc : {"idle", "record", "update"}, of : SUBSET Agent, late : BOOLEAN]
DecisionState ==
    [pc : {"idle", "ACCEPTED", "REJECTED", "execute", "EXECUTED"},
     of : SUBSET Proposal, late : BOOLEAN]

RegistryTypeOK ==
    /\ agents \in [Agent -> {"none", "ONLINE", "REVOKED"}]
    /\ heartbeats \in [Agent -> Nat]
    /\ beats \in [Beat -> BeatState]
    /\ proposals \in [Proposal -> {"none", "PROPOSED", "ACCEPTED", "REJECTED", "EXECUTED"}]
    /\ decisions \in [Decision -> DecisionState]
    /\ messages \in Nat /\ revocations \in Nat
    /\ ran \in [Proposal -> Nat]

RegistryInit ==
    /\ agents = [a \in Agent |-> "none"]
    /\ heartbeats = [a \in Agent |-> 0]
    /\ beats = [b \in Beat |-> Idle]
    /\ proposals = [p \in Proposal |-> "none"]
    /\ decisions = [d \in Decision |-> Idle]
    /\ messages = 0 /\ revocations = 0
    /\ ran = [p \in Proposal |-> 0]

Message == messages < MaxMessages /\ messages' = messages + 1

-----------------------------------------------------------------------------
(* Agents                                                                  *)

RegisterAgent(a) ==
    /\ agents[a] = "none"
    /\ agents' = [agents EXCEPT ![a] = "ONLINE"]
    /\ UNCHANGED <<heartbeats, beats, proposals, decisions, messages, revocations, ran>>

\* Mutant: a revoked agent is not refused.
RegisteredAtAll(a) == agents[a] # "none"

Welcome(a) == agents[a] = "ONLINE"

\* A heartbeat of an agent that is unknown or revoked throws.
ReadAgent(b, a) ==
    /\ beats[b].pc = "idle" /\ Message
    /\ Welcome(a)
    /\ beats' = [beats EXCEPT ![b] = [pc |-> "record", of |-> {a}, late |-> FALSE]]
    /\ UNCHANGED <<agents, heartbeats, proposals, decisions, revocations, ran>>

RecordHeartbeat(b) ==
    /\ beats[b].pc = "record"
    /\ \/ /\ heartbeats' = [a \in Agent |-> IF a \in beats[b].of THEN heartbeats[a] + 1
                                                                ELSE heartbeats[a]]
          /\ beats' = [beats EXCEPT ![b].pc = "update"]
       \/ beats' = [beats EXCEPT ![b] = Idle] /\ UNCHANGED heartbeats
    /\ UNCHANGED <<agents, proposals, decisions, messages, revocations, ran>>

\* Whatever the status is by now.
UpdateAgent(b) ==
    /\ beats[b].pc = "update"
    /\ agents' = [a \in Agent |-> IF a \in beats[b].of THEN "ONLINE" ELSE agents[a]]
    /\ beats' = [beats EXCEPT ![b] = Idle]
    /\ UNCHANGED <<heartbeats, proposals, decisions, messages, revocations, ran>>

RevokeAgent(a) ==
    /\ agents[a] # "none" /\ revocations < MaxRevoked
    /\ revocations' = revocations + 1
    /\ agents' = [agents EXCEPT ![a] = "REVOKED"]
    /\ beats' = [b \in Beat |-> [beats[b] EXCEPT !.late = @ \/ a \in beats[b].of]]
    /\ UNCHANGED <<heartbeats, proposals, decisions, messages, ran>>

-----------------------------------------------------------------------------
(* Proposals                                                               *)

CreateProposal(p) ==
    /\ proposals[p] = "none"
    /\ proposals' = [proposals EXCEPT ![p] = "PROPOSED"]
    /\ UNCHANGED <<agents, heartbeats, beats, decisions, messages, revocations, ran>>

\* No status is refused: a rejected proposal is executed, an executed one
\* executed again, and an executed one rejected.
Decide(d, p) ==
    /\ decisions[d].pc = "idle" /\ Message
    /\ proposals[p] # "none"
    /\ \E pc \in {"ACCEPTED", "REJECTED", "execute"} :
          decisions' = [decisions EXCEPT ![d] = [pc |-> pc, of |-> {p}, late |-> FALSE]]
    /\ UNCHANGED <<agents, heartbeats, beats, proposals, revocations, ran>>

\* Mutant: a proposal is marked before its action runs.
ExecuteUnheard(d) ==
    /\ decisions[d].pc = "execute"
    /\ decisions' = [decisions EXCEPT ![d].pc = "EXECUTED"]
    /\ ran' \in {ran, [p \in Proposal |-> ran[p] + IF p \in decisions[d].of THEN 1 ELSE 0]}
    /\ UNCHANGED <<agents, heartbeats, beats, proposals, messages, revocations>>

\* The action is not in the catalogue or throws, or it ran, well or not.
Execute(d) ==
    /\ decisions[d].pc = "execute"
    /\ \/ decisions' = [decisions EXCEPT ![d] = Idle] /\ UNCHANGED ran
       \/ /\ decisions' = [decisions EXCEPT ![d].pc = "EXECUTED"]
          /\ ran' = [p \in Proposal |-> ran[p] + IF p \in decisions[d].of THEN 1 ELSE 0]
    /\ UNCHANGED <<agents, heartbeats, beats, proposals, messages, revocations>>

MarkProposal(d) ==
    /\ decisions[d].pc \in {"ACCEPTED", "REJECTED", "EXECUTED"}
    /\ proposals' = [p \in Proposal |-> IF p \in decisions[d].of THEN decisions[d].pc
                                                                 ELSE proposals[p]]
    /\ decisions' = [decisions EXCEPT ![d] = Idle]
    /\ UNCHANGED <<agents, heartbeats, beats, messages, revocations, ran>>

RegistryNext ==
    \/ \E a \in Agent : RegisterAgent(a) \/ RevokeAgent(a)
    \/ \E b \in Beat : \/ \E a \in Agent : ReadAgent(b, a)
                       \/ RecordHeartbeat(b) \/ UpdateAgent(b)
    \/ \E p \in Proposal : CreateProposal(p)
    \/ \E d \in Decision : \/ \E p \in Proposal : Decide(d, p)
                           \/ Execute(d) \/ MarkProposal(d)

RegistrySpec == RegistryInit /\ [][RegistryNext]_regVars

-----------------------------------------------------------------------------
(* Properties                                                              *)

\* A revoked agent is taken back, and its heartbeats are recorded, only for a
\* heartbeat that had been let in before the revocation: the window between
\* processAgentHeartbeat:480 and :505.
RevocationHolds ==
    [][\A a \in Agent :
         agents[a] = "REVOKED" /\ (agents'[a] # "REVOKED" \/ heartbeats'[a] # heartbeats[a]) =>
            \E b \in Beat : a \in beats[b].of /\ beats[b].late /\ beats'[b] # beats[b]]_regVars

\* A proposal is EXECUTED only if its action ran, and every decision about to
\* mark it so has a run of its own, whatever other decisions on it are under
\* way (decideAIProposal:585).
ExecutedIsTrue ==
    \A p \in Proposal :
        /\ proposals[p] = "EXECUTED" => ran[p] > 0
        /\ Cardinality({d \in Decision : decisions[d].pc = "EXECUTED" /\ p \in decisions[d].of})
             <= ran[p]

\* What revocations and executions promise.
RegistryHonest == RevocationHolds /\ []ExecutedIsTrue

=============================================================================
