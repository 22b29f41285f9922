------------------------- MODULE AgentRegistryProofs -------------------------
(***************************************************************************)
(* Theorems about AgentRegistry: its types, what a revocation is worth and *)
(* that a proposal is called executed only when its action ran.            *)
(***************************************************************************)
EXTENDS AgentRegistry, FiniteSetTheorems, TLAPS

-----------------------------------------------------------------------------
(* Types.                                                                  *)

LEMMA RegistryTypeInit == RegistryInit => RegistryTypeOK
BY DEF RegistryInit, RegistryTypeOK, Idle, BeatState, DecisionState

LEMMA RegistryTypeNext == RegistryTypeOK /\ [RegistryNext]_regVars => RegistryTypeOK'
<1> SUFFICES ASSUME RegistryTypeOK, [RegistryNext]_regVars PROVE RegistryTypeOK'
    OBVIOUS
<1> USE DEF RegistryTypeOK, BeatState, DecisionState, Idle, Message
<1>1. ASSUME NEW a \in Agent, RegisterAgent(a) PROVE RegistryTypeOK'
    BY <1>1 DEF RegisterAgent
<1>2. ASSUME NEW a \in Agent, RevokeAgent(a) PROVE RegistryTypeOK'
    <2>1. \A b \in Beat : [beats[b] EXCEPT !.late = @ \/ a \in beats[b].of] \in BeatState
        BY Zenon
    <2> QED
        BY <1>2, <2>1 DEF RevokeAgent
<1>3. ASSUME NEW b \in Beat, NEW a \in Agent, ReadAgent(b, a) PROVE RegistryTypeOK'
    BY <1>3 DEF ReadAgent
<1>4. ASSUME NEW b \in Beat, RecordHeartbeat(b) PROVE RegistryTypeOK'
    <2>1. [beats[b] EXCEPT !.pc = "update"] \in BeatState
        OBVIOUS
    <2> HIDE DEF BeatState
    <2>2. beats' \in [Beat -> BeatState]
        <3>1. CASE beats' = [beats EXCEPT ![b].pc = "update"]
            BY <2>1, <3>1
        <3>2. CASE beats' = [beats EXCEPT ![b] = Idle]
            BY <3>2 DEF BeatState
        <3> QED
            BY <1>4, <3>1, <3>2 DEF RecordHeartbeat
    <2>3. heartbeats' \in [Agent -> Nat]
        BY <1>4 DEF RecordHeartbeat
    <2> QED
        BY <1>4, <2>2, <2>3 DEF RecordHeartbeat
<1>5. ASSUME NEW b \in Beat, UpdateAgent(b) PROVE RegistryTypeOK'
    BY <1>5 DEF UpdateAgent
<1>6. ASSUME NEW p \in Proposal, CreateProposal(p) PROVE RegistryTypeOK'
    BY <1>6 DEF CreateProposal
<1>7. ASSUME NEW d \in Decision, NEW p \in Proposal, Decide(d, p) PROVE RegistryTypeOK'
    BY <1>7 DEF Decide
<1>8. ASSUME NEW d \in Decision, Execute(d) PROVE RegistryTypeOK'
    <2>1. [decisions[d] EXCEPT !.pc = "EXECUTED"] \in DecisionState
        OBVIOUS
    <2> HIDE DEF DecisionState
    <2>2. decisions' \in [Decision -> DecisionState]
        <3>1. CASE decisions' = [decisions EXCEPT ![d].pc = "EXECUTED"]
            BY <2>1, <3>1
        <3>2. CASE decisions' = [decisions EXCEPT ![d] = Idle]
            BY <3>2 DEF DecisionState
        <3> QED
            BY <1>8, <3>1, <3>2 DEF Execute
    <2>3. ran' \in [Proposal -> Nat]
        BY <1>8 DEF Execute
    <2> QED
        BY <1>8, <2>2, <2>3 DEF Execute
<1>9. ASSUME NEW d \in Decision, MarkProposal(d) PROVE RegistryTypeOK'
    BY <1>9 DEF MarkProposal
<1>10. CASE UNCHANGED regVars
    BY <1>10 DEF regVars
<1> QED
    BY <1>1, <1>2, <1>3, <1>4, <1>5, <1>6, <1>7, <1>8, <1>9, <1>10 DEF RegistryNext

\* The agents, the proposals and the calls on them keep their types, for any
\* number of agents, heartbeats, proposals and decisions.
THEOREM RegistryTypeCorrect == RegistrySpec => []RegistryTypeOK
BY RegistryTypeInit, RegistryTypeNext, PTL DEF RegistrySpec

-----------------------------------------------------------------------------
(* Revocations.                                                            *)

\* A heartbeat under way for an agent that is revoked was let in before: only
\* the revocation itself can have made the difference, and it marks it.
LateInv ==
    \A b \in Beat, a \in Agent :
        a \in beats[b].of /\ agents[a] = "REVOKED" => beats[b].late

LEMMA LateInit == RegistryInit => LateInv
BY DEF RegistryInit, LateInv, Idle

LEMMA LateNext == RegistryTypeOK /\ LateInv /\ [RegistryNext]_regVars => LateInv'
<1> SUFFICES ASSUME RegistryTypeOK, LateInv, [RegistryNext]_regVars PROVE LateInv'
    OBVIOUS
<1> USE DEF RegistryTypeOK, LateInv, Idle
<1>1. ASSUME NEW a \in Agent, RegisterAgent(a) PROVE LateInv'
    BY <1>1 DEF RegisterAgent
<1>2. ASSUME NEW a \in Agent, RevokeAgent(a) PROVE LateInv'
    <2> SUFFICES ASSUME NEW b \in Beat, NEW e \in Agent,
                        e \in beats'[b].of, agents'[e] = "REVOKED"
                 PROVE  beats'[b].late
        OBVIOUS
    <2>1. beats[b] \in BeatState
        OBVIOUS
    <2>2. beats'[b] = [beats[b] EXCEPT !.late = @ \/ a \in beats[b].of]
        BY <1>2 DEF RevokeAgent
    <2>3. beats'[b].of = beats[b].of /\ beats'[b].late = (beats[b].late \/ a \in beats[b].of)
        BY <2>1, <2>2 DEF BeatState
    <2>4. e = a \/ agents[e] = "REVOKED"
        BY <1>2 DEF RevokeAgent
    <2> QED
        BY <2>3, <2>4
<1>3. ASSUME NEW b \in Beat, NEW a \in Agent, ReadAgent(b, a) PROVE LateInv'
    BY <1>3 DEF ReadAgent, Welcome
<1>4. ASSUME NEW b \in Beat, RecordHeartbeat(b) PROVE LateInv'
    BY <1>4 DEF RecordHeartbeat, BeatState
<1>5. ASSUME NEW b \in Beat, UpdateAgent(b) PROVE LateInv'
    BY <1>5 DEF UpdateAgent
<1>6. CASE UNCHANGED <<agents, beats>>
    BY <1>6
<1> QED
    BY <1>1, <1>2, <1>3, <1>4, <1>5, <1>6
    DEF RegistryNext, regVars, CreateProposal, Decide, Execute, MarkProposal

\* One step: who disturbs a revoked agent is a heartbeat that is late.
LEMMA RevocationStep ==
    ASSUME RegistryTypeOK, LateInv, RegistryNext, NEW a \in Agent,
           agents[a] = "REVOKED", agents'[a] # "REVOKED" \/ heartbeats'[a] # heartbeats[a]
    PROVE  \E b \in Beat : a \in beats[b].of /\ beats[b].late /\ beats'[b] # beats[b]
<1> USE DEF RegistryTypeOK
<1>1. PICK b \in Beat : RecordHeartbeat(b) \/ UpdateAgent(b)
    BY DEF RegistryNext, RegisterAgent, RevokeAgent, ReadAgent, CreateProposal, Decide,
           Execute, MarkProposal
<1>2. a \in beats[b].of
    BY <1>1 DEF RecordHeartbeat, UpdateAgent
<1>3. beats'[b].pc # beats[b].pc
    BY <1>1 DEF RecordHeartbeat, UpdateAgent, Idle, BeatState
<1> QED
    BY <1>2, <1>3 DEF LateInv

-----------------------------------------------------------------------------
(* Proposals.                                                              *)

\* The decisions about to call a proposal executed.
Claims(p) == {d \in Decision : decisions[d].pc = "EXECUTED" /\ p \in decisions[d].of}

\* A step that adds no claim and takes no run away keeps the count.
LEMMA NoNewClaim ==
    ASSUME IsFiniteSet(Decision), RegistryTypeOK, RegistryTypeOK', ExecutedIsTrue, NEW p \in Proposal,
           Claims(p)' \subseteq Claims(p), ran'[p] = ran[p],
           proposals'[p] = "EXECUTED" => proposals[p] = "EXECUTED" \/ Claims(p) # {}
    PROVE  /\ proposals'[p] = "EXECUTED" => ran'[p] > 0
           /\ Cardinality(Claims(p)') <= ran'[p]
<1>1. IsFiniteSet(Claims(p))
    BY FS_Subset DEF Claims
<1>2. IsFiniteSet(Claims(p)') /\ Cardinality(Claims(p)') <= Cardinality(Claims(p))
    BY <1>1, FS_Subset
<1>3. Cardinality(Claims(p)) \in Nat /\ Cardinality(Claims(p)') \in Nat
    BY <1>1, <1>2, FS_CardinalityType
<1>4. Cardinality(Claims(p)) <= ran[p] /\ ran[p] \in Nat
    BY DEF ExecutedIsTrue, Claims, RegistryTypeOK
<1>5. Claims(p) # {} => Cardinality(Claims(p)) # 0
    BY <1>1, FS_EmptySet
<1>6. proposals[p] = "EXECUTED" => ran[p] > 0
    BY DEF ExecutedIsTrue
<1> QED
    BY <1>2, <1>3, <1>4, <1>5, <1>6

LEMMA ExecutedInit == RegistryInit => ExecutedIsTrue
<1> SUFFICES ASSUME RegistryInit PROVE ExecutedIsTrue
    OBVIOUS
<1>1. \A p \in Proposal :
         {d \in Decision : decisions[d].pc = "EXECUTED" /\ p \in decisions[d].of} = {}
    BY DEF RegistryInit, Idle
<1> QED
    BY <1>1, FS_EmptySet DEF RegistryInit, ExecutedIsTrue

LEMMA ExecutedNext ==
    ASSUME IsFiniteSet(Decision)
    PROVE  RegistryTypeOK /\ ExecutedIsTrue /\ [RegistryNext]_regVars => ExecutedIsTrue'
<1> SUFFICES ASSUME RegistryTypeOK, ExecutedIsTrue, [RegistryNext]_regVars, NEW p \in Proposal
             PROVE  /\ proposals'[p] = "EXECUTED" => ran'[p] > 0
                    /\ Cardinality(Claims(p)') <= ran'[p]
    BY DEF ExecutedIsTrue, Claims
<1>t. RegistryTypeOK'
    BY RegistryTypeNext
<1> DEFINE Same == /\ Claims(p)' \subseteq Claims(p)
                   /\ ran'[p] = ran[p]
                   /\ proposals'[p] = "EXECUTED" =>
                         proposals[p] = "EXECUTED" \/ Claims(p) # {}
<1>s. Same => /\ proposals'[p] = "EXECUTED" => ran'[p] > 0
              /\ Cardinality(Claims(p)') <= ran'[p]
    BY <1>t, NoNewClaim
<1>1. CASE UNCHANGED <<proposals, decisions, ran>>
    BY <1>1, <1>s DEF Claims
<1>2. ASSUME NEW q \in Proposal, CreateProposal(q) PROVE Same
    BY <1>2 DEF CreateProposal, Claims, RegistryTypeOK
<1>3. ASSUME NEW d \in Decision, NEW q \in Proposal, Decide(d, q) PROVE Same
    BY <1>3 DEF Decide, Claims, RegistryTypeOK
<1>4. ASSUME NEW d \in Decision, MarkProposal(d) PROVE Same
    <2>1. decisions'[d].pc = "idle"
        BY <1>4 DEF MarkProposal, RegistryTypeOK, Idle
    <2>2. \A c \in Decision \ {d} : decisions'[c] = decisions[c]
        BY <1>4 DEF MarkProposal, RegistryTypeOK
    <2>3. Claims(p)' \subseteq Claims(p)
        BY <2>1, <2>2 DEF Claims
    <2>4. proposals'[p] = "EXECUTED" => proposals[p] = "EXECUTED" \/ d \in Claims(p)
        BY <1>4 DEF MarkProposal, RegistryTypeOK, Claims
    <2> QED
        BY <1>4, <2>3, <2>4 DEF MarkProposal
<1>5. ASSUME NEW d \in Decision, Execute(d)
      PROVE  /\ proposals'[p] = "EXECUTED" => ran'[p] > 0
             /\ Cardinality(Claims(p)') <= ran'[p]
    <2>0. /\ decisions[d].pc = "execute" /\ proposals' = proposals
          /\ \A c \in Decision \ {d} : decisions'[c] = decisions[c]
        BY <1>5 DEF Execute, RegistryTypeOK
    <2>1. CASE ran'[p] = ran[p] /\ d \notin Claims(p)'
        BY <2>0, <2>1, <1>s DEF Claims
    <2>2. CASE ran'[p] = ran[p] + 1 /\ d \in Claims(p)'
        <3>1. d \notin Claims(p) /\ Claims(p)' = Claims(p) \cup {d}
            BY <2>0, <2>2 DEF Claims
        <3>2. IsFiniteSet(Claims(p))
            BY FS_Subset DEF Claims
        <3>3. Cardinality(Claims(p)') = Cardinality(Claims(p)) + 1
            BY <3>1, <3>2, FS_AddElement
        <3>4. Cardinality(Claims(p)) \in Nat /\ ran[p] \in Nat
            BY <3>2, FS_CardinalityType DEF RegistryTypeOK
        <3>5. Cardinality(Claims(p)) <= ran[p]
            BY DEF ExecutedIsTrue, Claims
        <3> QED
            BY <2>2, <3>3, <3>4, <3>5
    <2>3. CASE decisions' = [decisions EXCEPT ![d] = Idle] /\ UNCHANGED ran
        BY <2>1, <2>3 DEF Claims, Idle, RegistryTypeOK
    <2>4. CASE /\ decisions' = [decisions EXCEPT ![d].pc = "EXECUTED"]
               /\ ran' = [q \in Proposal |-> ran[q] + IF q \in decisions[d].of THEN 1 ELSE 0]
        <3>1. decisions'[d].pc = "EXECUTED" /\ decisions'[d].of = decisions[d].of
            BY <2>4 DEF RegistryTypeOK, DecisionState
        <3>2. d \in Claims(p)' <=> p \in decisions[d].of
            BY <3>1 DEF Claims
        <3>3. ran'[p] = IF p \in decisions[d].of THEN ran[p] + 1 ELSE ran[p]
            BY <2>4 DEF RegistryTypeOK
        <3> QED
            BY <2>1, <2>2, <3>2, <3>3
    <2> QED
        BY <1>5, <2>3, <2>4 DEF Execute
<1> QED
    BY <1>1, <1>2, <1>3, <1>4, <1>5, <1>s
    DEF RegistryNext, regVars, RegisterAgent, RevokeAgent, ReadAgent, RecordHeartbeat, UpdateAgent

\* A revoked agent comes back, or is heard, only through a heartbeat let in
\* before the revocation; and a proposal that is EXECUTED, or about to be
\* called so, has had a run of its action for each decision that says it
\* (processAgentHeartbeat:505, decideAIProposal:585).
THEOREM RegistryHonestAlways ==
    ASSUME IsFiniteSet(Decision)
    PROVE  RegistrySpec => RegistryHonest
<1> DEFINE Held == \A a \in Agent :
              agents[a] = "REVOKED" /\ (agents'[a] # "REVOKED" \/ heartbeats'[a] # heartbeats[a])
              => \E b \in Beat : a \in beats[b].of /\ beats[b].late /\ beats'[b] # beats[b]
<1>1. RegistryInit => RegistryTypeOK /\ LateInv /\ ExecutedIsTrue
    BY RegistryTypeInit, LateInit, ExecutedInit
<1>2. RegistryTypeOK /\ LateInv /\ ExecutedIsTrue /\ [RegistryNext]_regVars
         => (RegistryTypeOK /\ LateInv /\ ExecutedIsTrue)'
    BY RegistryTypeNext, LateNext, ExecutedNext
<1>3. RegistryTypeOK /\ LateInv /\ [RegistryNext]_regVars => [Held]_regVars
    BY RevocationStep DEF regVars
<1> QED
    BY <1>1, <1>2, <1>3, PTL DEF RegistrySpec, RegistryHonest, RevocationHolds

=============================================================================
