--------------------------- MODULE ContainmentProofs ---------------------------
(***************************************************************************)
(* Containment for every set of requests, administrative threads, agents   *)
(* and sessions.  First the lifecycle planes by themselves; then the       *)
(* composition, which uses the authority and the lifecycle planes as their *)
(* specifications say, so their inductive invariants hold of it, and with  *)
(* them the gate is accounted for at every step of the race between        *)
(* _suspend_agent and the coordinator.                                     *)
(***************************************************************************)
EXTENDS Containment, TLAPS

AuthorityProofs ==
  INSTANCE ExecutionAuthorityProofs WITH epoch <- [a \in Agents |-> enforcement[a].epoch]

\* Types and accounting of the lifecycle planes.
LifecycleIInv == Lifecycle!TypeOK /\ EpochAccounting

--------------------------------------------------------------------------------
(* The lifecycle planes, for any number of agents and transitions.           *)

\* An enforcement transition keeps the types and advances epoch, ledger and generation
\* together, when a suspension finds the agent clear and a reinstatement finds it suspended.
LEMMA EnforcementPlaneStep ==
  ASSUME LifecycleIInv, NEW a \in Agents, NEW action \in {"SUSPEND", "REINSTATE"},
         NEW new_status \in Lifecycle!AgentStatus,
         enforcement[a].suspended <=> action = "REINSTATE",
         Lifecycle!EnforcementTransitionTo(a, action, new_status)
  PROVE  LifecycleIInv'
<1> DEFINE entry == [action |-> action, previous_status |-> Lifecycle!ProjectStatus(a),
                     new_status |-> new_status]
           state == [epoch |-> enforcement[a].epoch + 1,
                     suspended |-> (action = "SUSPEND"),
                     recovery_generation |-> enforcement[a].recovery_generation
                       + (IF action = "REINSTATE" THEN 1 ELSE 0)]
<1>1. /\ enforcement' = [enforcement EXCEPT ![a] = state]
      /\ enforcement_ledger' =
           [enforcement_ledger EXCEPT ![a] = Append(enforcement_ledger[a], entry)]
      /\ UNCHANGED <<administrative, administrative_ledger>>
  BY DEF Lifecycle!EnforcementTransitionTo
<1>2. entry \in Lifecycle!EnforcementTransition
  BY DEF Lifecycle!EnforcementTransition, Lifecycle!ProjectStatus, Lifecycle!AgentStatus,
     Lifecycle!AdministrativeState, LifecycleIInv, Lifecycle!TypeOK
<1>3. enforcement[a] \in [epoch: Nat, suspended: BOOLEAN, recovery_generation: Nat]
  BY DEF LifecycleIInv, Lifecycle!TypeOK
<1>4. state \in [epoch: Nat, suspended: BOOLEAN, recovery_generation: Nat]
  BY <1>3
<1>5. enforcement_ledger[a] \in Seq(Lifecycle!EnforcementTransition)
  BY DEF LifecycleIInv, Lifecycle!TypeOK
<1>6. /\ Append(enforcement_ledger[a], entry) \in Seq(Lifecycle!EnforcementTransition)
      /\ Len(Append(enforcement_ledger[a], entry)) = Len(enforcement_ledger[a]) + 1
  BY <1>2, <1>5
<1>7. state.epoch = 2 * state.recovery_generation + (IF state.suspended THEN 1 ELSE 0)
  <2> DEFINE e == enforcement[a].epoch
             r == enforcement[a].recovery_generation
  <2>1. e \in Nat /\ r \in Nat
    BY <1>3
  <2>2. e = 2 * r + (IF enforcement[a].suspended THEN 1 ELSE 0)
    BY DEF LifecycleIInv, EpochAccounting
  <2>3. CASE action = "SUSPEND"
    <3>1. ~enforcement[a].suspended
      BY <2>3
    <3>2. e = 2 * r
      BY <2>1, <2>2, <3>1
    <3>3. state.epoch = e + 1 /\ state.recovery_generation = r
      BY <2>1, <2>3
    <3>4. state.suspended
      BY <2>3, Zenon
    <3> HIDE DEF state, e, r
    <3> QED BY <2>1, <3>2, <3>3, <3>4
  <2>4. CASE action = "REINSTATE"
    <3>1. enforcement[a].suspended
      BY <2>4
    <3>2. e = 2 * r + 1
      BY <2>1, <2>2, <3>1
    <3>3. state.epoch = e + 1 /\ state.recovery_generation = r + 1 /\ ~state.suspended
      BY <2>1, <2>4
    <3> HIDE DEF state, e, r
    <3> QED BY <2>1, <3>2, <3>3
  <2> QED BY <2>3, <2>4
<1>8. state.epoch = Len(enforcement_ledger[a]) + 1
  BY DEF LifecycleIInv, EpochAccounting
<1> HIDE DEF state, entry
<1>9. Lifecycle!TypeOK'
  BY <1>1, <1>4, <1>6 DEF LifecycleIInv, Lifecycle!TypeOK
<1>10. EpochAccounting'
  <2> SUFFICES ASSUME NEW b \in Agents
               PROVE  /\ enforcement'[b].epoch = Len(enforcement_ledger'[b])
                      /\ enforcement'[b].epoch =
                           2 * enforcement'[b].recovery_generation
                             + (IF enforcement'[b].suspended THEN 1 ELSE 0)
    BY DEF EpochAccounting
  <2>1. CASE b = a
    <3>1. enforcement'[a] = state /\ enforcement_ledger'[a] = Append(enforcement_ledger[a], entry)
      BY <1>1 DEF LifecycleIInv, Lifecycle!TypeOK
    <3> QED BY <2>1, <3>1, <1>6, <1>7, <1>8
  <2>2. CASE b # a
    <3>1. enforcement'[b] = enforcement[b] /\ enforcement_ledger'[b] = enforcement_ledger[b]
      BY <1>1, <2>2 DEF LifecycleIInv, Lifecycle!TypeOK
    <3> QED BY <3>1 DEF LifecycleIInv, EpochAccounting
  <2> QED BY <2>1, <2>2
<1> QED BY <1>9, <1>10 DEF LifecycleIInv

\* An administrative transition keeps the types.
LEMMA AdministrativePlaneStep ==
  ASSUME Lifecycle!TypeOK, NEW a \in Agents,
         NEW new_state \in {"REGISTERED", "ACTIVE", "DISABLED"},
         Lifecycle!TransitionTo(a, new_state)
  PROVE  Lifecycle!TypeOK' /\ UNCHANGED <<enforcement, enforcement_ledger>>
<1> DEFINE entry == [action |-> Lifecycle!ActionInto[new_state],
                     previous_state |-> administrative[a].state, new_state |-> new_state,
                     version_before |-> administrative[a].version,
                     version_after |-> administrative[a].version + 1]
<1>1. /\ administrative' = [administrative EXCEPT ![a] =
                              [state |-> new_state, version |-> administrative[a].version + 1]]
      /\ administrative_ledger' =
           [administrative_ledger EXCEPT ![a] = Append(administrative_ledger[a], entry)]
      /\ UNCHANGED <<enforcement, enforcement_ledger>>
  BY DEF Lifecycle!TransitionTo, Lifecycle!RecordTransition
<1>2. administrative[a] \in [state: Lifecycle!AdministrativeState, version: Nat]
  BY DEF Lifecycle!TypeOK
<1>3. entry \in Lifecycle!AdministrativeTransition
  BY <1>2 DEF Lifecycle!AdministrativeTransition, Lifecycle!ActionInto,
     Lifecycle!AdministrativeState
<1>4. administrative_ledger[a] \in Seq(Lifecycle!AdministrativeTransition)
  BY DEF Lifecycle!TypeOK
<1>5. Append(administrative_ledger[a], entry) \in Seq(Lifecycle!AdministrativeTransition)
  BY <1>3, <1>4
<1>6. [state |-> new_state, version |-> administrative[a].version + 1]
        \in [state: Lifecycle!AdministrativeState, version: Nat]
  BY <1>2 DEF Lifecycle!AdministrativeState
<1> HIDE DEF entry
<1> QED BY <1>1, <1>5, <1>6 DEF Lifecycle!TypeOK

\* Every step preserves the accounting.
LEMMA LifecycleNext ==
  LifecycleIInv /\ [Lifecycle!Next]_(Lifecycle!lifecycleVars) => LifecycleIInv'
<1> SUFFICES ASSUME LifecycleIInv, [Lifecycle!Next]_(Lifecycle!lifecycleVars) PROVE LifecycleIInv'
  OBVIOUS
<1>1. CASE \E a \in Agents :
           Lifecycle!RegisterAgent(a) \/ Lifecycle!ActivateAgent(a) \/ Lifecycle!DisableAgent(a)
  <2>1. Lifecycle!TypeOK' /\ UNCHANGED <<enforcement, enforcement_ledger>>
    BY <1>1, AdministrativePlaneStep DEF Lifecycle!RegisterAgent, Lifecycle!ActivateAgent,
       Lifecycle!DisableAgent, LifecycleIInv
  <2> QED BY <2>1 DEF LifecycleIInv, EpochAccounting
<1>2. CASE \E a \in Agents : Lifecycle!RegisterAndActivateAgent(a)
  <2>1. PICK a \in Agents : Lifecycle!RegisterAndActivateAgent(a)
    BY <1>2
  <2> DEFINE first == [action |-> "REGISTER", previous_state |-> "NONE",
                       new_state |-> "REGISTERED", version_before |-> 0, version_after |-> 1]
             second == [action |-> "ACTIVATE", previous_state |-> "REGISTERED",
                        new_state |-> "ACTIVE", version_before |-> 1, version_after |-> 2]
  <2>2. /\ administrative' =
             [administrative EXCEPT ![a] = [state |-> "ACTIVE", version |-> 2]]
        /\ administrative_ledger' =
             [administrative_ledger EXCEPT ![a] = <<first, second>>]
        /\ UNCHANGED <<enforcement, enforcement_ledger>>
    BY <2>1 DEF Lifecycle!RegisterAndActivateAgent
  <2>3. /\ first \in Lifecycle!AdministrativeTransition
        /\ second \in Lifecycle!AdministrativeTransition
    BY DEF Lifecycle!AdministrativeTransition, Lifecycle!AdministrativeState
  <2>4. <<first, second>> \in Seq(Lifecycle!AdministrativeTransition)
    BY <2>3
  <2> HIDE DEF first, second
  <2>5. Lifecycle!TypeOK'
    BY <2>2, <2>4 DEF LifecycleIInv, Lifecycle!TypeOK, Lifecycle!AdministrativeState
  <2> QED BY <2>2, <2>5 DEF LifecycleIInv, EpochAccounting
<1>3. CASE \E a \in Agents : Lifecycle!SuspendAgent(a)
  BY <1>3, EnforcementPlaneStep DEF Lifecycle!SuspendAgent, Lifecycle!NothingToSuspend,
     Lifecycle!AgentStatus
<1>4. CASE \E a \in Agents : Lifecycle!ReinstateAgent(a)
  BY <1>4, EnforcementPlaneStep DEF Lifecycle!ReinstateAgent, Lifecycle!AgentStatus
<1>5. CASE UNCHANGED Lifecycle!lifecycleVars
  BY <1>5 DEF Lifecycle!lifecycleVars, LifecycleIInv, Lifecycle!TypeOK, EpochAccounting
<1> QED BY <1>1, <1>2, <1>3, <1>4, <1>5 DEF Lifecycle!Next

\* Types and accounting hold in every reachable state.
THEOREM LifecycleInvariance == Lifecycle!Spec => []LifecycleIInv
<1>1. Lifecycle!Init => LifecycleIInv
  BY DEF Lifecycle!Init, LifecycleIInv, Lifecycle!TypeOK, EpochAccounting,
     Lifecycle!AdministrativeState
<1> QED BY <1>1, LifecycleNext, PTL DEF Lifecycle!Spec

\* The repositories keep their types.
THEOREM LifecycleTypeCorrect == Lifecycle!Spec => []Lifecycle!TypeOK
  BY LifecycleInvariance, PTL DEF LifecycleIInv

\* Epoch, ledger and recovery generation agree however suspensions and reinstatements are
\* ordered.
THEOREM EpochsAccountForTransitions == Lifecycle!Spec => []EpochAccounting
  BY LifecycleInvariance, PTL DEF LifecycleIInv

\* A DISABLED agent stays DISABLED, and disable_agent's verdict keeps suspend_agent from
\* containing it again.
THEOREM DisablementIsFinal == Lifecycle!Spec => DisabledIsTerminal
<1> DEFINE Step == \A a \in Agents :
                     administrative[a].state = "DISABLED" =>
                       /\ administrative'[a].state = "DISABLED"
                       /\ enforcement'[a].suspended => enforcement[a].suspended
<1>1. LifecycleIInv /\ [Lifecycle!Next]_(Lifecycle!lifecycleVars)
        => [Step]_lifecycleVars
  <2> SUFFICES ASSUME LifecycleIInv, Lifecycle!Next, NEW a \in Agents,
                      administrative[a].state = "DISABLED"
               PROVE  /\ administrative'[a].state = "DISABLED"
                      /\ enforcement'[a].suspended => enforcement[a].suspended
    BY DEF lifecycleVars, Lifecycle!lifecycleVars
  <2>1. /\ administrative \in [Agents -> [state: Lifecycle!AdministrativeState, version: Nat]]
        /\ enforcement \in [Agents -> [epoch: Nat, suspended: BOOLEAN, recovery_generation: Nat]]
    BY DEF LifecycleIInv, Lifecycle!TypeOK
  <2>2. ASSUME NEW b \in Agents,
               Lifecycle!RegisterAgent(b) \/ Lifecycle!ActivateAgent(b) \/ Lifecycle!DisableAgent(b)
        PROVE  /\ b # a
               /\ administrative'[a] = administrative[a]
               /\ UNCHANGED enforcement
    <3>1. /\ Lifecycle!LegalTransitions[administrative[b].state] # {}
          /\ \E new_state : administrative' = [administrative EXCEPT ![b] = new_state]
          /\ UNCHANGED enforcement
      BY <2>2 DEF Lifecycle!RegisterAgent, Lifecycle!ActivateAgent, Lifecycle!DisableAgent,
         Lifecycle!TransitionTo, Lifecycle!RecordTransition
    <3>2. Lifecycle!LegalTransitions["DISABLED"] = {}
      BY DEF Lifecycle!LegalTransitions
    <3>3. b # a
      BY <3>1, <3>2
    <3> QED BY <2>1, <3>1, <3>3
  <2>3. ASSUME NEW b \in Agents, Lifecycle!RegisterAndActivateAgent(b)
        PROVE  administrative'[a] = administrative[a] /\ UNCHANGED enforcement
    <3>1. b # a
      BY <2>3 DEF Lifecycle!RegisterAndActivateAgent
    <3> QED BY <2>1, <2>3, <3>1 DEF Lifecycle!RegisterAndActivateAgent
  <2>4. ASSUME NEW b \in Agents, Lifecycle!SuspendAgent(b)
        PROVE  UNCHANGED administrative /\ enforcement'[a] = enforcement[a]
    <3>1. /\ b # a
          /\ \E state : enforcement' = [enforcement EXCEPT ![b] = state]
          /\ UNCHANGED administrative
      BY <2>4 DEF Lifecycle!SuspendAgent, Lifecycle!NothingToSuspend,
         Lifecycle!EnforcementTransitionTo
    <3> QED BY <2>1, <3>1
  <2>5. ASSUME NEW b \in Agents, Lifecycle!ReinstateAgent(b)
        PROVE  /\ UNCHANGED administrative
               /\ enforcement'[a].suspended => enforcement[a].suspended
    <3>1. /\ \E epoch, generation :
               enforcement' = [enforcement EXCEPT ![b] =
                 [epoch |-> epoch, suspended |-> FALSE, recovery_generation |-> generation]]
          /\ UNCHANGED administrative
      BY <2>5 DEF Lifecycle!ReinstateAgent, Lifecycle!EnforcementTransitionTo
    <3> QED BY <2>1, <3>1
  <2> QED BY <2>2, <2>3, <2>4, <2>5 DEF Lifecycle!Next
<1> QED BY <1>1, LifecycleInvariance, PTL DEF Lifecycle!Spec, DisabledIsTerminal

--------------------------------------------------------------------------------
(* The invariant of the composition.                                         *)

PC == {"new", "authorized", "recorded", "detected", "assessed", "issued", "closing",
       "suspending", "done", "executed", "refused", "failed"}

RequestState ==
  [pc: PC, agent_id: Agents, session_id: Sessions, decision: Decision,
   context_epoch: 0..MaxEpoch,
   response: {"NONE", "MONITOR", "REQUIRE_APPROVAL", "SUSPEND_AGENT"},
   authorization: SUBSET AuthorityProofs!Grant]

AdminState == [pc: {"idle", "reinstated", "repairing", "reset", "resumed"}, agent_id: Agents]

Types ==
  /\ posture \in [Agents -> RiskLevel]
  /\ terminal \subseteq Sessions
  /\ request \in [Requests -> RequestState]
  /\ admin \in [Admins -> AdminState]
  /\ raced \in [Agents -> BOOLEAN]

\* What the bounds of the two components say of the values the composition passes on.
Bounds ==
  /\ now <= MaxTime
  /\ \A a \in Agents : enforcement[a].epoch <= MaxEpoch

Closed(a) == "ENFORCEMENT" \in issuance_closed[a] \/ raced[a]

\* A request that has not come to issuance holds no authority; one that is about to come to
\* it has a response; authority is held under a final ALLOW only, and is claimed when the
\* request has executed; and while the request is between the halves of _suspend_agent the
\* gate is closed, or recovery has raced it.
Own(r) ==
  /\ request[r].pc \in {"new", "authorized", "recorded", "detected", "assessed"} =>
       request[r].authorization = {}
  /\ request[r].pc = "assessed" => request[r].response # "NONE"
  /\ request[r].authorization \subseteq grants
  /\ request[r].authorization # {} =>
       request[r].decision = "ALLOW" /\ request[r].response = "MONITOR"
  /\ request[r].pc = "executed" =>
       \E g \in request[r].authorization : claimed[g.grant_id] = 1
  /\ request[r].pc = "suspending" => Closed(request[r].agent_id)

IInv ==
  /\ LifecycleIInv
  /\ AuthorityProofs!IInv
  /\ Types
  /\ Bounds
  /\ SuspendedMeansClosed
  /\ \A r \in Requests : Own(r)

--------------------------------------------------------------------------------
(* The components as the composition instantiates them.                      *)

\* The authority that the composition uses is the one proved about.
LEMMA SameAuthority == Authority!Next <=> AuthorityProofs!Next
  BY DEF Authority!Next, AuthorityProofs!Next, AuthorityProofs!Issue, Authority!Issue,
     AuthorityProofs!VerifyGrant, Authority!VerifyGrant, AuthorityProofs!ClaimGrant,
     Authority!ClaimGrant, AuthorityProofs!RefuseGrant, Authority!RefuseGrant,
     AuthorityProofs!ConsumeGrant, Authority!ConsumeGrant, AuthorityProofs!SuspendIssuance,
     Authority!SuspendIssuance, AuthorityProofs!ResumeIssuance, Authority!ResumeIssuance,
     AuthorityProofs!AdvanceEpoch, Authority!AdvanceEpoch, AuthorityProofs!Tick,
     Authority!Tick, AuthorityProofs!Restart, Authority!Restart,
     AuthorityProofs!NoExpectedEpoch, Authority!NoExpectedEpoch,
     AuthorityProofs!Presentable, Authority!Presentable, AuthorityProofs!Altered,
     Authority!Altered, AuthorityProofs!Alterations, Authority!Alterations,
     AuthorityProofs!Refusal, Authority!Refusal, AuthorityProofs!Authentic,
     Authority!Authentic, AuthorityProofs!Sign, Authority!Sign,
     AuthorityProofs!SignedPayload, Authority!SignedPayload, AuthorityProofs!Prune,
     Authority!Prune, AuthorityProofs!Holds, Authority!Holds, AuthorityProofs!Without,
     Authority!Without, AuthorityProofs!IssuancePlane, Authority!IssuancePlane,
     AuthorityProofs!authorityVars, Authority!authorityVars

\* A grant in a caller's hands can be presented as it is.
LEMMA GrantsArePresentable ==
  ASSUME IInv, NEW g \in grants
  PROVE  g \in Authority!Presentable /\ g.binding \in Bindings /\ g.grant_id \in GrantIds
<1> DEFINE c == [grant_id |-> g.grant_id, authority_id |-> g.authority_id,
                 agent_id |-> g.agent_id, session_id |-> g.session_id,
                 binding |-> g.binding, expires_at |-> g.expires_at]
<1>1. g \in [grant_id: GrantIds, authority_id: Nat, agent_id: Agents, session_id: Sessions,
             binding: Bindings, issued_at: Nat, expires_at: Nat, capability: Capabilities,
             signature: [key: Nat, payload: AuthorityProofs!Payload]]
  BY DEF IInv, AuthorityProofs!IInv, AuthorityProofs!TypeOK, AuthorityProofs!Grant
<1>2. /\ g.expires_at = g.issued_at + TTL
      /\ g.issued_at <= now
      /\ g.authority_id <= authority_id
  BY DEF IInv, AuthorityProofs!IInv, AuthorityProofs!GrantsAreBounded
<1>3. now \in Nat /\ authority_id \in Nat /\ now <= MaxTime
  BY DEF IInv, Bounds, AuthorityProofs!IInv, AuthorityProofs!TypeOK
<1>4. g.expires_at \in 0..(MaxTime + TTL) /\ g.authority_id \in 0..authority_id
  BY <1>1, <1>2, <1>3, ContainmentAssumption, LifecycleAssumption
<1>5. c \in Authority!Alterations
  BY <1>1, <1>4 DEF Authority!Alterations
<1>6. g = Authority!Altered(g, c)
  BY <1>1 DEF Authority!Altered
<1>7. g \in {Authority!Altered(g, d) : d \in Authority!Alterations}
  BY <1>5, <1>6, Zenon
<1>8. g \in UNION {{Authority!Altered(h, d) : d \in Authority!Alterations} : h \in grants}
  BY <1>7, Zenon
<1> QED BY <1>1, <1>8 DEF Authority!Presentable

--------------------------------------------------------------------------------
(* Step simulation.                                                          *)

\* Every step of the composition is a step of the lifecycle planes, or leaves them alone.
LEMMA LifecycleStep ==
  ASSUME Types, [Next]_vars
  PROVE  [Lifecycle!Next]_(Lifecycle!lifecycleVars)
<1> USE DEF lifecycleVars, Lifecycle!lifecycleVars
<1>1. CASE \E r \in Requests : SuspendAgent(r)
  <2>1. PICK r \in Requests : SuspendAgent(r)
    BY <1>1
  <2>2. request[r].agent_id \in Agents
    BY DEF Types, RequestState
  <2>3. Lifecycle!SuspendAgent(request[r].agent_id) \/ UNCHANGED lifecycleVars
    BY <2>1 DEF SuspendAgent
  <2> QED BY <2>2, <2>3 DEF Lifecycle!Next
<1>2. CASE \E c \in Admins, a \in Agents : Reinstate(c, a)
  BY <1>2 DEF Reinstate, Lifecycle!Next
<1>3. CASE \E a \in Agents : RegisterAndActivateAgent(a) \/ DisableAgent(a)
  BY <1>3 DEF RegisterAndActivateAgent, DisableAgent, Lifecycle!Next
<1>4. CASE \E r \in Requests :
             \/ Authorize(r) \/ RecordEvent(r) \/ RecordFindings(r) \/ Assess(r)
             \/ Issue(r) \/ IssueNothing(r) \/ Finalize(r) \/ CloseGate(r) \/ Execute(r)
  BY <1>4 DEF Authorize, RecordEvent, RecordFindings, Assess, Issue, IssueNothing, Finalize,
     CloseGate, Execute
<1>5. CASE \/ \E c \in Admins : AdminStep(c)
           \/ \E c \in Admins, a \in Agents : Repair(c, a)
           \/ \E s \in Sessions : EndSession(s)
  BY <1>5 DEF AdminStep, ResetToBaseline, ResumeIssuance, Recheck, Repair, EndSession
<1>6. CASE UNCHANGED vars
  BY <1>6 DEF vars
<1> QED BY <1>1, <1>2, <1>3, <1>4, <1>5, <1>6 DEF Next, RequestStep

\* A transition of the enforcement plane is an advance of the epoch, to the authority.
LEMMA EpochStep ==
  ASSUME IInv, NEW a \in Agents, UNCHANGED authorityVars,
         Lifecycle!SuspendAgent(a) \/ Lifecycle!ReinstateAgent(a)
  PROVE  Authority!Next
<1> DEFINE epoch == [b \in Agents |-> enforcement[b].epoch]
<1>1. /\ enforcement[a].epoch < MaxEpoch
      /\ \E suspended, generation :
           enforcement' = [enforcement EXCEPT ![a] =
              [epoch |-> enforcement[a].epoch + 1, suspended |-> suspended,
               recovery_generation |-> generation]]
  BY DEF Lifecycle!SuspendAgent, Lifecycle!ReinstateAgent, Lifecycle!EnforcementTransitionTo
<1>2. enforcement \in [Agents -> [epoch: Nat, suspended: BOOLEAN, recovery_generation: Nat]]
  BY DEF IInv, LifecycleIInv, Lifecycle!TypeOK
<1>3. \A b \in Agents : enforcement'[b].epoch =
                          IF b = a THEN enforcement[a].epoch + 1 ELSE enforcement[b].epoch
  BY <1>1, <1>2
<1>4. epoch' = [epoch EXCEPT ![a] = @ + 1]
  BY <1>3
<1>5. epoch[a] < MaxEpoch
  BY <1>1
<1>6. Authority!AdvanceEpoch(a)
  BY <1>4, <1>5 DEF Authority!AdvanceEpoch, Authority!authorityVars, authorityVars
<1> QED BY <1>6 DEF Authority!Next

\* Every step of the composition is a step of the authority, or leaves it alone: a request
\* issues under an epoch it read, and presents the grant it was given.
LEMMA AuthorityStep ==
  ASSUME IInv, [Next]_vars
  PROVE  [Authority!Next]_(Authority!vars)
<1> USE DEF authorityVars, lifecycleVars, Authority!vars, Authority!authorityVars
<1>1. CASE \E r \in Requests : Issue(r)
  <2>1. PICK r \in Requests : Issue(r)
    BY <1>1
  <2>2. PICK b \in Bindings, cap \in Capabilities :
          Authority!Issue(request[r].agent_id, request[r].session_id, b, cap,
                          request[r].context_epoch)
    BY <2>1 DEF Issue
  <2>3. /\ request[r].agent_id \in Agents
        /\ request[r].session_id \in Sessions
        /\ request[r].context_epoch \in {Authority!NoExpectedEpoch} \cup 0..MaxEpoch
    BY DEF IInv, Types, RequestState
  <2> QED BY <2>2, <2>3 DEF Authority!Next
<1>2. CASE \E r \in Requests : CloseGate(r)
  <2>1. PICK r \in Requests : CloseGate(r)
    BY <1>2
  <2>2. request[r].agent_id \in Agents
    BY DEF IInv, Types, RequestState
  <2>3. Authority!SuspendIssuance(request[r].agent_id, "ENFORCEMENT")
    BY <2>1 DEF CloseGate
  <2> QED BY <2>2, <2>3 DEF Authority!Next, Authority!IssuancePlane
<1>3. CASE \E r \in Requests : SuspendAgent(r)
  <2>1. PICK r \in Requests : SuspendAgent(r)
    BY <1>3
  <2>2. request[r].agent_id \in Agents /\ UNCHANGED authorityVars
    BY <2>1 DEF IInv, Types, RequestState, SuspendAgent
  <2>3. Lifecycle!SuspendAgent(request[r].agent_id) \/ UNCHANGED lifecycleVars
    BY <2>1 DEF SuspendAgent
  <2> QED BY <2>2, <2>3, EpochStep
<1>4. CASE \E r \in Requests : Execute(r)
  <2>1. PICK r \in Requests : Execute(r)
    BY <1>4
  <2>2. PICK g \in request[r].authorization :
          Authority!ClaimGrant(g, g.binding) \/ Authority!RefuseGrant(g, g.binding)
    BY <2>1 DEF Execute
  <2>3. g \in grants
    BY <2>2 DEF IInv, Own
  <2>4. g \in Authority!Presentable /\ g.binding \in Bindings
    BY <2>3, GrantsArePresentable
  <2> QED BY <2>2, <2>4 DEF Authority!Next
<1>5. CASE \E c \in Admins : ResumeIssuance(c)
  <2>1. PICK c \in Admins : ResumeIssuance(c)
    BY <1>5
  <2>2. admin[c].agent_id \in Agents
    BY DEF IInv, Types, AdminState
  <2>3. Authority!ResumeIssuance(admin[c].agent_id, "ENFORCEMENT")
    BY <2>1 DEF ResumeIssuance
  <2> QED BY <2>2, <2>3 DEF Authority!Next, Authority!IssuancePlane
<1>6. CASE \E c \in Admins, a \in Agents : Reinstate(c, a)
  BY <1>6, EpochStep DEF Reinstate
<1>7. CASE \E r \in Requests :
             \/ Authorize(r) \/ RecordEvent(r) \/ RecordFindings(r) \/ Assess(r)
             \/ IssueNothing(r) \/ Finalize(r)
  BY <1>7 DEF Authorize, RecordEvent, RecordFindings, Assess, IssueNothing, Finalize
<1>8. CASE \/ \E c \in Admins : ResetToBaseline(c) \/ Recheck(c)
           \/ \E c \in Admins, a \in Agents : Repair(c, a)
           \/ \E s \in Sessions : EndSession(s)
  BY <1>8 DEF ResetToBaseline, Recheck, Repair, EndSession
<1>9. CASE \E a \in Agents : RegisterAndActivateAgent(a) \/ DisableAgent(a)
  <2>1. UNCHANGED <<authorityVars, enforcement>>
    BY <1>9 DEF RegisterAndActivateAgent, DisableAgent, Lifecycle!RegisterAndActivateAgent,
       Lifecycle!DisableAgent, Lifecycle!TransitionTo, Lifecycle!RecordTransition
  <2> QED BY <2>1
<1>10. CASE UNCHANGED vars
  BY <1>10 DEF vars
<1> QED BY <1>1, <1>2, <1>3, <1>4, <1>5, <1>6, <1>7, <1>8, <1>9, <1>10
        DEF Next, RequestStep, AdminStep

\* So both components' inductive invariants are preserved.
LEMMA ComponentsNext ==
  ASSUME IInv, [Next]_vars
  PROVE  LifecycleIInv' /\ AuthorityProofs!IInv'
<1>1. [Lifecycle!Next]_(Lifecycle!lifecycleVars)
  BY LifecycleStep DEF IInv
<1>2. [AuthorityProofs!Next]_(AuthorityProofs!vars)
  BY AuthorityStep, SameAuthority
  DEF Authority!vars, AuthorityProofs!vars, Authority!authorityVars,
      AuthorityProofs!authorityVars
<1>3. LifecycleIInv'
  BY <1>1, LifecycleNext DEF IInv
<1>4. AuthorityProofs!IInv'
  BY <1>2, AuthorityProofs!NextIInv, ContainmentAssumption, LifecycleAssumption DEF IInv
<1> QED BY <1>3, <1>4

--------------------------------------------------------------------------------
(* Preservation of what the composition itself adds.                         *)

\* A request that a step leaves alone keeps what is its own, when the step neither takes a
\* grant back nor claims a claimed one again, and opens no gate unaccounted for.
LEMMA Frame ==
  ASSUME IInv, NEW r \in Requests,
         request'[r] = request[r],
         grants \subseteq grants',
         \A id \in GrantIds : claimed[id] = 1 => claimed'[id] = 1,
         \A a \in Agents : Closed(a) => Closed(a)'
  PROVE  Own(r)'
<1>1. Own(r) /\ request[r] \in RequestState
  BY DEF IInv, Types
<1>2. request[r].agent_id \in Agents
  BY <1>1 DEF RequestState
<1>3. \A g \in request[r].authorization : g.grant_id \in GrantIds
  BY <1>1, GrantsArePresentable DEF Own
<1>4. request'[r].pc = "suspending" => Closed(request[r].agent_id)'
  BY <1>1, <1>2 DEF Own
<1>5. request'[r].pc = "executed" =>
        \E g \in request'[r].authorization : claimed'[g.grant_id] = 1
  BY <1>1, <1>3 DEF Own
<1> QED BY <1>1, <1>4, <1>5 DEF Own, Closed

\* What a step of request r has to show that leaves the authority, the lifecycle planes and
\* the other requests alone.
LEMMA LocalStep ==
  ASSUME IInv, [Next]_vars, NEW r \in Requests, NEW new \in RequestState,
         request' = [request EXCEPT ![r] = new],
         posture' \in [Agents -> RiskLevel],
         UNCHANGED <<authorityVars, lifecycleVars, terminal, admin, raced>>,
         Own(r)'
  PROVE  IInv'
<1> USE DEF authorityVars, lifecycleVars
<1>1. Types' /\ Bounds' /\ SuspendedMeansClosed'
  BY DEF IInv, Types, Bounds, SuspendedMeansClosed
<1>2. ASSUME NEW s \in Requests PROVE Own(s)'
  <2>1. CASE s = r
    BY <2>1
  <2>2. CASE s # r
    <3>1. request'[s] = request[s]
      BY <2>2 DEF IInv, Types
    <3> QED BY <3>1, Frame DEF Closed
  <2> QED BY <2>1, <2>2
<1> QED BY <1>1, <1>2, ComponentsNext DEF IInv

\* A step of request r that only moves its program counter, to a place that asks for
\* nothing.
LEMMA MoveStep ==
  ASSUME IInv, [Next]_vars, NEW r \in Requests, NEW pc \in PC,
         Move(r, pc),
         posture' \in [Agents -> RiskLevel],
         UNCHANGED <<authorityVars, lifecycleVars, terminal, admin, raced>>,
         pc \notin {"assessed", "executed", "suspending"},
         pc \in {"new", "authorized", "recorded", "detected"} => request[r].authorization = {}
  PROVE  IInv'
<1> DEFINE new == [request[r] EXCEPT !.pc = pc]
<1>1. request[r] \in RequestState /\ Own(r) /\ request \in [Requests -> RequestState]
  BY DEF IInv, Types
<1>2. new \in RequestState
  BY <1>1 DEF RequestState
<1>3. request' = [request EXCEPT ![r] = new]
  BY <1>1 DEF Move
<1>4. request'[r] = new
  BY <1>1, <1>3
<1>5. /\ new.pc = pc /\ new.authorization = request[r].authorization
      /\ new.decision = request[r].decision /\ new.response = request[r].response
  BY <1>1 DEF RequestState
<1> HIDE DEF new
<1>6. Own(r)'
  BY <1>1, <1>4, <1>5 DEF Own, authorityVars
<1> QED BY <1>2, <1>3, <1>6, LocalStep

\* The steps of a request up to its response.
LEMMA EarlySteps ==
  ASSUME IInv, [Next]_vars, NEW r \in Requests,
         Authorize(r) \/ RecordEvent(r) \/ RecordFindings(r) \/ Assess(r)
  PROVE  IInv'
<1>1. /\ request[r] \in RequestState /\ Own(r) /\ request \in [Requests -> RequestState]
      /\ posture \in [Agents -> RiskLevel]
  BY DEF IInv, Types
<1>2. request[r].agent_id \in Agents /\ request[r].authorization = {}
  BY <1>1 DEF RequestState, Own, Authorize, RecordEvent, RecordFindings, Assess
<1>3. CASE Authorize(r)
  <2>1. UNCHANGED <<authorityVars, lifecycleVars, posture, terminal, admin, raced>>
    BY <1>3 DEF Authorize
  <2>2. CASE Move(r, "refused")
    BY <2>1, <2>2, <1>1, MoveStep DEF PC
  <2>3. CASE \E decision \in Decision :
               request' = [request EXCEPT ![r].pc = "authorized", ![r].decision = decision]
    <3>1. PICK decision \in Decision :
            request' = [request EXCEPT ![r].pc = "authorized", ![r].decision = decision]
      BY <2>3
    <3> DEFINE new == [request[r] EXCEPT !.pc = "authorized", !.decision = decision]
    <3>2. new \in RequestState /\ request' = [request EXCEPT ![r] = new]
      BY <1>1, <3>1 DEF RequestState, PC
    <3>3. new.pc = "authorized" /\ new.authorization = {}
      BY <1>1, <1>2 DEF RequestState
    <3>4. request'[r] = new
      BY <1>1, <3>2
    <3> HIDE DEF new
    <3>5. Own(r)'
      BY <3>3, <3>4 DEF Own
    <3> QED BY <2>1, <3>2, <3>5, <1>1, LocalStep
  <2> QED BY <1>3, <2>2, <2>3 DEF Authorize
<1>4. CASE RecordEvent(r)
  <2> DEFINE pc == IF request[r].session_id \in terminal THEN "failed" ELSE "recorded"
             epoch == enforcement[request[r].agent_id].epoch
             new == [request[r] EXCEPT !.context_epoch = epoch, !.pc = pc]
  <2>1. UNCHANGED <<authorityVars, lifecycleVars, posture, terminal, admin, raced>>
    BY <1>4 DEF RecordEvent
  <2>2. epoch \in 0..MaxEpoch
    BY <1>2, ContainmentAssumption, LifecycleAssumption
    DEF IInv, Bounds, LifecycleIInv, Lifecycle!TypeOK
  <2>3. request' = [request EXCEPT ![r].context_epoch = epoch, ![r].pc = pc]
    BY <1>4 DEF RecordEvent
  <2>4. pc \in PC /\ pc \notin {"assessed", "executed", "suspending"}
    BY DEF PC
  <2> HIDE DEF pc, epoch
  <2>5. new \in RequestState /\ request' = [request EXCEPT ![r] = new]
    BY <1>1, <2>2, <2>3, <2>4 DEF RequestState
  <2>6. new.pc = pc /\ new.authorization = {}
    BY <1>1, <1>2 DEF RequestState
  <2>7. request'[r] = new
    BY <1>1, <2>5
  <2> HIDE DEF new
  <2>8. Own(r)'
    BY <2>4, <2>6, <2>7 DEF Own
  <2> QED BY <2>1, <2>5, <2>8, <1>1, LocalStep
<1>5. CASE RecordFindings(r)
  <2>1. UNCHANGED <<authorityVars, lifecycleVars, terminal, admin, raced>>
    BY <1>5 DEF RecordFindings
  <2>2. CASE Refuse(r) /\ UNCHANGED posture
    BY <1>1, <2>1, <2>2, MoveStep DEF Refuse, PC
  <2>3. CASE /\ \E level \in AtLeast[posture[request[r].agent_id]] :
                  posture' = [posture EXCEPT ![request[r].agent_id] = level]
             /\ Move(r, "detected")
    <3>1. AtLeast[posture[request[r].agent_id]] \subseteq RiskLevel
      BY <1>1, <1>2 DEF AtLeast, RiskLevel
    <3>2. posture' \in [Agents -> RiskLevel]
      BY <1>1, <2>3, <3>1
    <3> QED BY <1>2, <2>1, <2>3, <3>2, MoveStep DEF PC
  <2> QED BY <1>5, <2>2, <2>3 DEF RecordFindings
<1>6. CASE Assess(r)
  <2>1. UNCHANGED <<authorityVars, lifecycleVars, posture, terminal, admin, raced>>
    BY <1>6 DEF Assess
  <2>2. CASE Refuse(r)
    BY <1>1, <2>1, <2>2, MoveStep DEF Refuse, PC
  <2>3. CASE request' = [request EXCEPT ![r].pc = "assessed",
                           ![r].response = ResponseType[posture[request[r].agent_id]]]
    <3> DEFINE response == ResponseType[posture[request[r].agent_id]]
               new == [request[r] EXCEPT !.pc = "assessed", !.response = response]
    <3>1. response \in {"MONITOR", "REQUIRE_APPROVAL", "SUSPEND_AGENT"}
      BY <1>1, <1>2 DEF ResponseType, RiskLevel
    <3>2. request' = [request EXCEPT ![r].pc = "assessed", ![r].response = response]
      BY <2>3
    <3> HIDE DEF response
    <3>3. new \in RequestState /\ request' = [request EXCEPT ![r] = new]
      BY <1>1, <3>1, <3>2 DEF RequestState, PC
    <3>4. new.pc = "assessed" /\ new.authorization = {} /\ new.response # "NONE"
      BY <1>1, <1>2, <3>1 DEF RequestState
    <3>5. request'[r] = new
      BY <1>1, <3>3
    <3> HIDE DEF new
    <3>6. Own(r)'
      BY <3>4, <3>5 DEF Own
    <3> QED BY <2>1, <3>3, <3>6, <1>1, LocalStep
  <2> QED BY <1>6, <2>2, <2>3 DEF Assess
<1> QED BY <1>3, <1>4, <1>5, <1>6

\* issue hands out new authority only for a response that left the ALLOW alone.
LEMMA IssueStep ==
  ASSUME IInv, [Next]_vars, NEW r \in Requests, Issue(r)
  PROVE  IInv'
<1>1. /\ request[r] \in RequestState /\ Own(r) /\ request \in [Requests -> RequestState]
  BY DEF IInv, Types
<1>2. /\ request[r].pc = "assessed"
      /\ FinalDecision(r) = "ALLOW"
      /\ UNCHANGED <<lifecycleVars, posture, terminal, admin, raced>>
      /\ request' = [request EXCEPT ![r].pc = "issued", ![r].decision = "ALLOW",
                                    ![r].authorization = grants' \ grants]
  BY DEF Issue
<1>3. /\ grants \subseteq grants'
      /\ UNCHANGED <<now, issuance_closed, claimed>>
  BY DEF Issue, Authority!Issue
<1>4. request[r].response = "MONITOR"
  <2>1. request[r].response \in {"MONITOR", "REQUIRE_APPROVAL", "SUSPEND_AGENT"}
    BY <1>1, <1>2 DEF RequestState, Own
  <2> QED BY <1>2, <2>1 DEF FinalDecision
<1>5. grants' \subseteq AuthorityProofs!Grant
  <2>1. AuthorityProofs!IInv'
    BY ComponentsNext
  <2> QED BY <2>1 DEF AuthorityProofs!IInv, AuthorityProofs!TypeOK, AuthorityProofs!Grant,
             AuthorityProofs!Payload
<1> DEFINE handed == grants' \ grants
           new == [request[r] EXCEPT !.pc = "issued", !.decision = "ALLOW",
                                     !.authorization = handed]
<1>6. handed \subseteq AuthorityProofs!Grant /\ handed \subseteq grants'
  BY <1>5
<1>7. request' = [request EXCEPT ![r].pc = "issued", ![r].decision = "ALLOW",
                                 ![r].authorization = handed]
  BY <1>2
<1> HIDE DEF handed
<1>8. new \in RequestState /\ request' = [request EXCEPT ![r] = new]
  BY <1>1, <1>6, <1>7 DEF RequestState, PC, Decision
<1>9. /\ new.pc = "issued" /\ new.decision = "ALLOW" /\ new.response = "MONITOR"
      /\ new.authorization = handed
  BY <1>1, <1>4 DEF RequestState
<1>10. request'[r] = new
  BY <1>1, <1>8
<1> HIDE DEF new
<1>11. Own(r)'
  BY <1>6, <1>9, <1>10 DEF Own
<1>12. Types' /\ Bounds' /\ SuspendedMeansClosed'
  BY <1>2, <1>3, <1>8 DEF IInv, Types, Bounds, SuspendedMeansClosed, lifecycleVars
<1>13. ASSUME NEW s \in Requests PROVE Own(s)'
  <2>1. CASE s = r
    BY <2>1, <1>11
  <2>2. CASE s # r
    <3>1. request'[s] = request[s]
      BY <2>2, <1>1, <1>8
    <3> QED BY <3>1, <1>2, <1>3, Frame DEF Closed
  <2> QED BY <2>1, <2>2
<1> QED BY <1>12, <1>13, ComponentsNext DEF IInv

\* A request that issues nothing, and the final decision.
LEMMA LateSteps ==
  ASSUME IInv, [Next]_vars, NEW r \in Requests, IssueNothing(r) \/ Finalize(r)
  PROVE  IInv'
<1>1. /\ request[r] \in RequestState /\ Own(r) /\ request \in [Requests -> RequestState]
      /\ posture \in [Agents -> RiskLevel]
  BY DEF IInv, Types
<1>2. CASE IssueNothing(r)
  <2> DEFINE decision == IF FinalDecision(r) = "ALLOW" THEN "DENY" ELSE FinalDecision(r)
             new == [request[r] EXCEPT !.pc = "issued", !.decision = decision]
  <2>1. /\ UNCHANGED <<authorityVars, lifecycleVars, posture, terminal, admin, raced>>
        /\ request' = [request EXCEPT ![r].pc = "issued", ![r].decision = decision]
        /\ request[r].authorization = {}
    BY <1>1, <1>2 DEF IssueNothing, Own
  <2>2. decision \in Decision
    BY <1>1 DEF FinalDecision, Decision, RequestState
  <2> HIDE DEF decision
  <2>3. new \in RequestState /\ request' = [request EXCEPT ![r] = new]
    BY <1>1, <2>1, <2>2 DEF RequestState, PC
  <2>4. new.pc = "issued" /\ new.authorization = {}
    BY <1>1, <2>1 DEF RequestState
  <2>5. request'[r] = new
    BY <1>1, <2>3
  <2> HIDE DEF new
  <2>6. Own(r)'
    BY <2>4, <2>5 DEF Own
  <2> QED BY <2>1, <2>3, <2>6, <1>1, LocalStep
<1>3. CASE Finalize(r)
  <2>1. UNCHANGED <<authorityVars, lifecycleVars, posture, terminal, admin, raced>>
    BY <1>3 DEF Finalize
  <2>2. Move(r, "failed") \/ Move(r, "closing") \/ Move(r, "done")
    BY <1>3 DEF Finalize
  <2> QED BY <1>1, <2>1, <2>2, MoveStep DEF PC
<1> QED BY <1>2, <1>3

\* The first half of _suspend_agent closes the gate of the request's own agent and forgets
\* an earlier race for it.
LEMMA CloseGateStep ==
  ASSUME IInv, [Next]_vars, NEW r \in Requests, CloseGate(r)
  PROVE  IInv'
<1> DEFINE a == request[r].agent_id
           new == [request[r] EXCEPT !.pc = "suspending"]
<1>1. /\ request[r] \in RequestState /\ Own(r) /\ request \in [Requests -> RequestState]
      /\ raced \in [Agents -> BOOLEAN] /\ a \in Agents
  BY DEF IInv, Types, RequestState
<1>2. issuance_closed \in [Agents -> SUBSET {"ADMINISTRATIVE", "ENFORCEMENT"}]
  BY DEF IInv, AuthorityProofs!IInv, AuthorityProofs!TypeOK, AuthorityProofs!IssuancePlane
<1>3. /\ UNCHANGED <<lifecycleVars, posture, terminal, admin>>
      /\ request' = [request EXCEPT ![r] = new]
      /\ raced' = [raced EXCEPT ![a] = FALSE]
  BY <1>1 DEF CloseGate, Move
<1>4. /\ issuance_closed' =
           [issuance_closed EXCEPT ![a] = issuance_closed[a] \cup {"ENFORCEMENT"}]
      /\ UNCHANGED <<now, grants, claimed>>
  BY DEF CloseGate, Authority!SuspendIssuance
<1>5. /\ new \in RequestState /\ new.pc = "suspending" /\ new.agent_id = a
      /\ new.authorization = request[r].authorization
      /\ new.decision = request[r].decision /\ new.response = request[r].response
  BY <1>1 DEF RequestState, PC
<1>6. request'[r] = new
  BY <1>1, <1>3
<1> HIDE DEF new
<1>7. \A b \in Agents : Closed(b) => Closed(b)'
  BY <1>1, <1>2, <1>3, <1>4 DEF Closed
<1>8. "ENFORCEMENT" \in issuance_closed'[a]
  BY <1>1, <1>2, <1>4
<1>9. Own(r)'
  BY <1>1, <1>4, <1>5, <1>6, <1>8 DEF Own, Closed
<1>10. Types' /\ Bounds'
  BY <1>1, <1>3, <1>4, <1>5 DEF IInv, Types, Bounds, lifecycleVars
<1>11. SuspendedMeansClosed'
  BY <1>3, <1>7 DEF IInv, SuspendedMeansClosed, Closed, lifecycleVars
<1>12. ASSUME NEW s \in Requests PROVE Own(s)'
  <2>1. CASE s = r
    BY <2>1, <1>9
  <2>2. CASE s # r
    <3>1. request'[s] = request[s]
      BY <2>2, <1>1, <1>3
    <3> QED BY <3>1, <1>4, <1>7, Frame
  <2> QED BY <2>1, <2>2
<1> QED BY <1>10, <1>11, <1>12, ComponentsNext DEF IInv

\* A step of the lifecycle planes that suspends nobody but an agent whose gate is accounted
\* for keeps the bounds and the closed gates.
LEMMA PlaneStep ==
  ASSUME IInv, NEW a \in Agents, UNCHANGED <<authorityVars, raced>>,
         \/ Lifecycle!SuspendAgent(a) /\ Closed(a)
         \/ Lifecycle!ReinstateAgent(a)
         \/ Lifecycle!RegisterAndActivateAgent(a) \/ Lifecycle!DisableAgent(a)
         \/ UNCHANGED lifecycleVars
  PROVE  Bounds' /\ SuspendedMeansClosed'
<1>1. enforcement \in [Agents -> [epoch: Nat, suspended: BOOLEAN, recovery_generation: Nat]]
  BY DEF IInv, LifecycleIInv, Lifecycle!TypeOK
<1>2. Bounds /\ SuspendedMeansClosed
  BY DEF IInv
<1>3. CASE UNCHANGED enforcement
  BY <1>2, <1>3 DEF Bounds, SuspendedMeansClosed, authorityVars
<1>4. CASE Lifecycle!SuspendAgent(a) /\ Closed(a)
  <2>1. /\ enforcement[a].epoch < MaxEpoch
        /\ \E suspended, generation :
             enforcement' = [enforcement EXCEPT ![a] =
                [epoch |-> enforcement[a].epoch + 1, suspended |-> suspended,
                 recovery_generation |-> generation]]
    BY <1>4 DEF Lifecycle!SuspendAgent, Lifecycle!EnforcementTransitionTo
  <2>2. \A b \in Agents : /\ enforcement'[b].epoch <= MaxEpoch
                          /\ b # a => enforcement'[b].suspended = enforcement[b].suspended
    BY <1>1, <1>2, <2>1, ContainmentAssumption, LifecycleAssumption DEF Bounds
  <2> QED BY <1>2, <1>4, <2>2 DEF Bounds, SuspendedMeansClosed, Closed, authorityVars
<1>5. CASE Lifecycle!ReinstateAgent(a)
  <2>1. /\ enforcement[a].epoch < MaxEpoch
        /\ \E generation :
             enforcement' = [enforcement EXCEPT ![a] =
                [epoch |-> enforcement[a].epoch + 1, suspended |-> FALSE,
                 recovery_generation |-> generation]]
    BY <1>5 DEF Lifecycle!ReinstateAgent, Lifecycle!EnforcementTransitionTo
  <2>2. \A b \in Agents : /\ enforcement'[b].epoch <= MaxEpoch
                          /\ enforcement'[b].suspended => enforcement[b].suspended
    BY <1>1, <1>2, <2>1, ContainmentAssumption, LifecycleAssumption DEF Bounds
  <2> QED BY <1>2, <2>2 DEF Bounds, SuspendedMeansClosed, authorityVars
<1> QED BY <1>3, <1>4, <1>5
        DEF Lifecycle!RegisterAndActivateAgent, Lifecycle!DisableAgent,
            Lifecycle!TransitionTo, Lifecycle!RecordTransition, lifecycleVars

\* The second half of _suspend_agent finds the gate closed, or raced.
LEMMA SuspendAgentStep ==
  ASSUME IInv, [Next]_vars, NEW r \in Requests, SuspendAgent(r)
  PROVE  IInv'
<1> DEFINE a == request[r].agent_id
           new == [request[r] EXCEPT !.pc = "done"]
<1>1. /\ request[r] \in RequestState /\ Own(r) /\ request \in [Requests -> RequestState]
      /\ a \in Agents
  BY DEF IInv, Types, RequestState
<1>2. /\ request[r].pc = "suspending"
      /\ request' = [request EXCEPT ![r] = new]
      /\ Lifecycle!SuspendAgent(a) \/ UNCHANGED lifecycleVars
      /\ UNCHANGED <<authorityVars, posture, terminal, admin, raced>>
  BY <1>1 DEF SuspendAgent, Move
<1>3. Closed(a)
  BY <1>1, <1>2 DEF Own
<1>4. Bounds' /\ SuspendedMeansClosed'
  BY <1>1, <1>2, <1>3, PlaneStep
<1>5. /\ new \in RequestState /\ new.pc = "done"
      /\ new.authorization = request[r].authorization
      /\ new.decision = request[r].decision /\ new.response = request[r].response
  BY <1>1 DEF RequestState, PC
<1>6. request'[r] = new
  BY <1>1, <1>2
<1> HIDE DEF new
<1>7. Own(r)'
  BY <1>1, <1>2, <1>5, <1>6 DEF Own, authorityVars
<1>8. Types'
  BY <1>2, <1>5 DEF IInv, Types
<1>9. ASSUME NEW s \in Requests PROVE Own(s)'
  <2>1. CASE s = r
    BY <2>1, <1>7
  <2>2. CASE s # r
    <3>1. request'[s] = request[s]
      BY <2>2, <1>1, <1>2
    <3> QED BY <3>1, <1>2, Frame DEF Closed, authorityVars
  <2> QED BY <2>1, <2>2
<1> QED BY <1>4, <1>8, <1>9, ComponentsNext DEF IInv

\* A grant that is claimed has an outstanding entry of its own agent, was never claimed
\* before, and its agent's gate is open on every plane.
LEMMA ClaimedIsOutstanding ==
  ASSUME IInv, NEW g \in grants, NEW b, Authority!ClaimGrant(g, b)
  PROVE  claimed[g.grant_id] = 0 /\ issuance_closed[g.agent_id] = {}
<1>1. g \in [grant_id: GrantIds, authority_id: Nat, agent_id: Agents, session_id: Sessions,
             binding: Bindings, issued_at: Nat, expires_at: Nat, capability: Capabilities,
             signature: [key: Nat, payload: AuthorityProofs!Payload]]
  BY DEF IInv, AuthorityProofs!IInv, AuthorityProofs!TypeOK, AuthorityProofs!Grant
<1>2. Authority!Refusal(g, b) = "NONE"
  BY DEF Authority!ClaimGrant
<1>3. /\ Authority!Holds(Authority!Prune(outstanding), g.grant_id)
      /\ ~\E o \in outstanding :
            /\ o.grant_id = g.grant_id
            /\ <<o.agent_id, o.session_id>> # <<g.agent_id, g.session_id>>
  BY <1>2 DEF Authority!Refusal
<1>4. PICK o \in outstanding : o.grant_id = g.grant_id
  BY <1>3 DEF Authority!Holds, Authority!Prune
<1>5. o.agent_id = g.agent_id
  BY <1>3, <1>4
<1>6. claimed[o.grant_id] = 0 /\ issuance_closed[o.agent_id] = {}
  BY <1>4 DEF IInv, AuthorityProofs!IInv, AuthorityProofs!OutstandingIsBacked,
     AuthorityProofs!ClosedGateHoldsNoGrant
<1> QED BY <1>4, <1>5, <1>6

\* The executor claims the request's grant, or is refused.
LEMMA ExecuteStep ==
  ASSUME IInv, [Next]_vars, NEW r \in Requests, Execute(r)
  PROVE  IInv'
<1>1. /\ request[r] \in RequestState /\ Own(r) /\ request \in [Requests -> RequestState]
  BY DEF IInv, Types
<1>2. UNCHANGED <<lifecycleVars, posture, terminal, admin, raced>>
  BY DEF Execute
<1>3. PICK g \in request[r].authorization :
        \/ Authority!ClaimGrant(g, g.binding) /\ Move(r, "executed")
        \/ Authority!RefuseGrant(g, g.binding) /\ Move(r, "refused")
  BY DEF Execute
<1>4. g \in grants /\ g.grant_id \in GrantIds
  BY <1>1, GrantsArePresentable DEF Own
<1>5. claimed \in [GrantIds -> Nat]
  BY DEF IInv, AuthorityProofs!IInv, AuthorityProofs!TypeOK
<1>6. UNCHANGED <<now, grants, issuance_closed>>
  BY <1>3 DEF Authority!ClaimGrant, Authority!RefuseGrant
<1>7. PICK pc \in {"executed", "refused"} :
        /\ request' = [request EXCEPT ![r].pc = pc]
        /\ pc = "executed" => Authority!ClaimGrant(g, g.binding)
        /\ pc = "refused" => UNCHANGED claimed
  BY <1>3 DEF Move, Authority!RefuseGrant
<1>8. pc = "executed" => /\ claimed[g.grant_id] = 0
                         /\ claimed' = [claimed EXCEPT ![g.grant_id] = claimed[g.grant_id] + 1]
  BY <1>4, <1>7, ClaimedIsOutstanding DEF Authority!ClaimGrant
<1>9. /\ \A id \in GrantIds : claimed[id] = 1 => claimed'[id] = 1
      /\ pc = "executed" => claimed'[g.grant_id] = 1
  BY <1>4, <1>5, <1>7, <1>8
<1> DEFINE new == [request[r] EXCEPT !.pc = pc]
<1>10. /\ new \in RequestState /\ new.pc = pc
       /\ new.authorization = request[r].authorization
       /\ new.decision = request[r].decision /\ new.response = request[r].response
       /\ request' = [request EXCEPT ![r] = new]
  BY <1>1, <1>7 DEF RequestState, PC
<1>11. request'[r] = new
  BY <1>1, <1>10
<1> HIDE DEF new
<1>12. Own(r)'
  BY <1>1, <1>3, <1>6, <1>9, <1>10, <1>11 DEF Own
<1>13. Types' /\ Bounds' /\ SuspendedMeansClosed'
  BY <1>2, <1>6, <1>10 DEF IInv, Types, Bounds, SuspendedMeansClosed, lifecycleVars
<1>14. ASSUME NEW s \in Requests PROVE Own(s)'
  <2>1. CASE s = r
    BY <2>1, <1>12
  <2>2. CASE s # r
    <3>1. request'[s] = request[s]
      BY <2>2, <1>1, <1>10
    <3> QED BY <3>1, <1>2, <1>6, <1>9, Frame DEF Closed
  <2> QED BY <2>1, <2>2
<1> QED BY <1>13, <1>14, ComponentsNext DEF IInv

\* A step that leaves every request alone keeps what is theirs, when it opens no gate
\* unaccounted for.
LEMMA RestStep ==
  ASSUME IInv, [Next]_vars,
         UNCHANGED <<request, grants, claimed>>,
         \A a \in Agents : Closed(a) => Closed(a)',
         posture' \in [Agents -> RiskLevel],
         terminal' \subseteq Sessions,
         admin' \in [Admins -> AdminState],
         raced' \in [Agents -> BOOLEAN],
         Bounds', SuspendedMeansClosed'
  PROVE  IInv'
<1>1. Types'
  BY DEF IInv, Types
<1>2. ASSUME NEW r \in Requests PROVE Own(r)'
  BY Frame
<1> QED BY <1>1, <1>2, ComponentsNext DEF IInv

\* The coordinator's steps: resume_issuance reopens the gate, and raced says of whom.
LEMMA AdminSteps ==
  ASSUME IInv, [Next]_vars, NEW c \in Admins, AdminStep(c)
  PROVE  IInv'
<1>1. /\ admin \in [Admins -> AdminState] /\ admin[c] \in AdminState
      /\ admin[c].agent_id \in Agents
      /\ posture \in [Agents -> RiskLevel] /\ terminal \subseteq Sessions
      /\ raced \in [Agents -> BOOLEAN]
      /\ Bounds /\ SuspendedMeansClosed
  BY DEF IInv, Types, AdminState
<1>2. ASSUME NEW pc \in {"idle", "reinstated", "repairing", "reset", "resumed"},
             MoveAdmin(c, pc)
      PROVE  admin' \in [Admins -> AdminState]
  BY <1>1, <1>2 DEF MoveAdmin, AdminState
<1>3. CASE ResetToBaseline(c)
  <2>1. /\ UNCHANGED <<authorityVars, lifecycleVars, terminal, request, raced>>
        /\ admin' \in [Admins -> AdminState]
        /\ posture' \in [Agents -> RiskLevel]
    BY <1>1, <1>2, <1>3 DEF ResetToBaseline, RiskLevel
  <2>2. Bounds' /\ SuspendedMeansClosed'
    BY <1>1, <2>1 DEF Bounds, SuspendedMeansClosed, authorityVars, lifecycleVars
  <2> QED BY <1>1, <2>1, <2>2, RestStep DEF Closed, authorityVars
<1>4. CASE Recheck(c)
  <2>1. /\ UNCHANGED <<authorityVars, lifecycleVars, posture, terminal, request, raced>>
        /\ admin' \in [Admins -> AdminState]
    BY <1>2, <1>4 DEF Recheck
  <2>2. Bounds' /\ SuspendedMeansClosed'
    BY <1>1, <2>1 DEF Bounds, SuspendedMeansClosed, authorityVars, lifecycleVars
  <2> QED BY <1>1, <2>1, <2>2, RestStep DEF Closed, authorityVars
<1>5. CASE ResumeIssuance(c)
  <2>1. PICK a \in Agents : a = admin[c].agent_id
    BY <1>1
  <2>2. /\ UNCHANGED <<lifecycleVars, posture, terminal, request>>
        /\ admin' \in [Admins -> AdminState]
        /\ raced' = [raced EXCEPT ![a] = raced[a] \/ BeingContained(a)]
    BY <1>2, <1>5, <2>1 DEF ResumeIssuance
  <2>3. /\ issuance_closed' = [issuance_closed EXCEPT ![a] = issuance_closed[a] \ {"ENFORCEMENT"}]
        /\ UNCHANGED <<now, grants, claimed>>
    BY <1>5, <2>1 DEF ResumeIssuance, Authority!ResumeIssuance
  <2>4. issuance_closed \in [Agents -> SUBSET {"ADMINISTRATIVE", "ENFORCEMENT"}]
    BY DEF IInv, AuthorityProofs!IInv, AuthorityProofs!TypeOK, AuthorityProofs!IssuancePlane
  <2>5. raced' \in [Agents -> BOOLEAN]
    BY <1>1, <2>2, Zenon
  <2>6. \A b \in Agents : b # a => (Closed(b) => Closed(b)')
    BY <1>1, <2>2, <2>3, <2>4 DEF Closed
  <2>7. BeingContained(a) => raced'[a]
    BY <1>1, <2>2, Zenon
  <2>8. Bounds'
    BY <1>1, <2>2, <2>3 DEF Bounds, lifecycleVars
  <2>9. SuspendedMeansClosed'
    BY <1>1, <2>2, <2>6, <2>7
    DEF SuspendedMeansClosed, Closed, BeingContained, lifecycleVars
  <2>10. Types'
    BY <1>1, <2>2, <2>5 DEF IInv, Types
  <2>11. ASSUME NEW r \in Requests PROVE Own(r)'
    <3>1. Own(r) /\ request[r].agent_id \in Agents
      BY DEF IInv, Types, RequestState
    <3>2. request[r].pc = "suspending" /\ request[r].agent_id = a => raced'[a]
      BY <2>7 DEF BeingContained
    <3> QED BY <2>2, <2>3, <2>6, <3>1, <3>2 DEF Own, Closed
  <2> QED BY <2>8, <2>9, <2>10, <2>11, ComponentsNext DEF IInv
<1> QED BY <1>3, <1>4, <1>5 DEF AdminStep

\* The coordinator's first steps, and the administration of agents and sessions.
LEMMA AdministrationSteps ==
  ASSUME IInv, [Next]_vars,
         \/ \E c \in Admins, a \in Agents : Reinstate(c, a) \/ Repair(c, a)
         \/ \E a \in Agents : RegisterAndActivateAgent(a) \/ DisableAgent(a)
         \/ \E s \in Sessions : EndSession(s)
  PROVE  IInv'
<1>1. /\ admin \in [Admins -> AdminState]
      /\ posture \in [Agents -> RiskLevel] /\ terminal \subseteq Sessions
      /\ raced \in [Agents -> BOOLEAN]
  BY DEF IInv, Types
<1>2. CASE \E c \in Admins, a \in Agents : Reinstate(c, a) \/ Repair(c, a)
  <2>1. PICK c \in Admins, a \in Agents : Reinstate(c, a) \/ Repair(c, a)
    BY <1>2
  <2>2. /\ UNCHANGED <<authorityVars, posture, terminal, request, raced>>
        /\ Lifecycle!ReinstateAgent(a) \/ UNCHANGED lifecycleVars
    BY <2>1 DEF Reinstate, Repair
  <2>3. admin' \in [Admins -> AdminState]
    BY <1>1, <2>1 DEF Reinstate, Repair, AdminState
  <2>4. Bounds' /\ SuspendedMeansClosed'
    BY <2>2, PlaneStep
  <2> QED BY <1>1, <2>2, <2>3, <2>4, RestStep DEF Closed, authorityVars
<1>3. CASE \E a \in Agents : RegisterAndActivateAgent(a) \/ DisableAgent(a)
  <2>1. PICK a \in Agents : RegisterAndActivateAgent(a) \/ DisableAgent(a)
    BY <1>3
  <2>2. /\ UNCHANGED <<authorityVars, posture, terminal, request, admin, raced>>
        /\ Lifecycle!RegisterAndActivateAgent(a) \/ Lifecycle!DisableAgent(a)
    BY <2>1 DEF RegisterAndActivateAgent, DisableAgent
  <2>3. Bounds' /\ SuspendedMeansClosed'
    BY <2>2, PlaneStep
  <2> QED BY <1>1, <2>2, <2>3, RestStep DEF Closed, authorityVars
<1>4. CASE \E s \in Sessions : EndSession(s)
  <2>1. /\ UNCHANGED <<authorityVars, lifecycleVars, posture, request, admin, raced>>
        /\ terminal' \subseteq Sessions
    BY <1>1, <1>4 DEF EndSession
  <2>2. Bounds' /\ SuspendedMeansClosed'
    BY <2>1 DEF IInv, Bounds, SuspendedMeansClosed, authorityVars, lifecycleVars
  <2> QED BY <1>1, <2>1, <2>2, RestStep DEF Closed, authorityVars
<1> QED BY <1>2, <1>3, <1>4

\* Every step preserves the inductive invariant.
LEMMA NextIInv == IInv /\ [Next]_vars => IInv'
<1> SUFFICES ASSUME IInv, [Next]_vars PROVE IInv'
  OBVIOUS
<1>1. CASE \E r \in Requests :
             Authorize(r) \/ RecordEvent(r) \/ RecordFindings(r) \/ Assess(r)
  BY <1>1, EarlySteps
<1>2. CASE \E r \in Requests : Issue(r)
  BY <1>2, IssueStep
<1>3. CASE \E r \in Requests : IssueNothing(r) \/ Finalize(r)
  BY <1>3, LateSteps
<1>4. CASE \E r \in Requests : CloseGate(r)
  BY <1>4, CloseGateStep
<1>5. CASE \E r \in Requests : SuspendAgent(r)
  BY <1>5, SuspendAgentStep
<1>6. CASE \E r \in Requests : Execute(r)
  BY <1>6, ExecuteStep
<1>7. CASE \E c \in Admins : AdminStep(c)
  BY <1>7, AdminSteps
<1>8. CASE \/ \E c \in Admins, a \in Agents : Reinstate(c, a) \/ Repair(c, a)
           \/ \E a \in Agents : RegisterAndActivateAgent(a) \/ DisableAgent(a)
           \/ \E s \in Sessions : EndSession(s)
  BY <1>8, AdministrationSteps
<1>9. CASE UNCHANGED vars
  <2>1. /\ UNCHANGED <<authorityVars, lifecycleVars, posture, terminal, request, admin, raced>>
    BY <1>9 DEF vars
  <2>2. /\ Bounds' /\ SuspendedMeansClosed'
        /\ posture' \in [Agents -> RiskLevel] /\ terminal' \subseteq Sessions
        /\ admin' \in [Admins -> AdminState] /\ raced' \in [Agents -> BOOLEAN]
    BY <2>1 DEF IInv, Types, Bounds, SuspendedMeansClosed, authorityVars, lifecycleVars
  <2> QED BY <2>1, <2>2, RestStep DEF Closed, authorityVars
<1> QED BY <1>1, <1>2, <1>3, <1>4, <1>5, <1>6, <1>7, <1>8, <1>9 DEF Next, RequestStep

\* The initial states are initial states of both components.
LEMMA InitComponents == Init => Lifecycle!Init /\ Authority!Init
  BY DEF Init

\* The initial states satisfy the inductive invariant.
LEMMA InitIInv == Init => IInv
<1> SUFFICES ASSUME Init PROVE IInv
  OBVIOUS
<1>1. Lifecycle!Init /\ Authority!Init
  BY InitComponents
<1>2. LifecycleIInv
  BY <1>1 DEF Lifecycle!Init, LifecycleIInv, Lifecycle!TypeOK,
     EpochAccounting, Lifecycle!AdministrativeState
<1>3. AuthorityProofs!IInv
  <2>1. AuthorityProofs!Init
    BY <1>1 DEF Authority!Init, AuthorityProofs!Init
  <2> QED BY <2>1, AuthorityProofs!InitIInv, ContainmentAssumption, LifecycleAssumption
<1>4. /\ posture = [a \in Agents |-> "LOW"]
      /\ terminal = {}
      /\ request \in
           [Requests -> [pc: {"new"}, agent_id: Agents, session_id: Sessions,
                         decision: {"DENY"}, context_epoch: {0}, response: {"NONE"},
                         authorization: {{}}]]
      /\ admin = [c \in Admins |-> [pc |-> "idle", agent_id |-> CHOOSE a \in Agents : TRUE]]
      /\ raced = [a \in Agents |-> FALSE]
  BY DEF Init
<1>5. request \in [Requests -> RequestState]
  BY <1>4, ContainmentAssumption, LifecycleAssumption DEF RequestState, PC, Decision
<1>6. admin \in [Admins -> AdminState]
  BY <1>4, ContainmentAssumption, LifecycleAssumption DEF AdminState
<1>7. Types
  BY <1>4, <1>5, <1>6 DEF Types, RiskLevel
<1>8. Bounds /\ SuspendedMeansClosed
  BY <1>1, ContainmentAssumption, LifecycleAssumption
  DEF Lifecycle!Init, Authority!Init, Bounds, SuspendedMeansClosed
<1>9. \A r \in Requests : Own(r)
  BY <1>4 DEF Own
<1> QED BY <1>2, <1>3, <1>7, <1>8, <1>9 DEF IInv

--------------------------------------------------------------------------------
\* The inductive invariant holds of every reachable state of the composition.
THEOREM Invariance == Spec => []IInv
  BY InitIInv, NextIInv, PTL DEF Spec

\* Requests, administrative threads and both components keep their types.
THEOREM TypeCorrect == Spec => []TypeOK
<1>1. IInv => TypeOK
  <2> SUFFICES ASSUME IInv PROVE TypeOK
    OBVIOUS
  <2>1. Authority!TypeOK
    BY DEF IInv, AuthorityProofs!IInv, AuthorityProofs!TypeOK, Authority!TypeOK,
       AuthorityProofs!Grant, Authority!Grant, AuthorityProofs!Payload, Authority!Payload,
       AuthorityProofs!OutstandingGrant, Authority!OutstandingGrant,
       AuthorityProofs!RevokedGrant, Authority!RevokedGrant,
       AuthorityProofs!IssuancePlane, Authority!IssuancePlane
  <2>2. Lifecycle!TypeOK
    BY DEF IInv, LifecycleIInv
  <2>3. ASSUME NEW r \in Requests
        PROVE  /\ request[r].pc \in PC
               /\ request[r].agent_id \in Agents
               /\ request[r].session_id \in Sessions
               /\ request[r].decision \in Decision
               /\ request[r].context_epoch \in Nat
               /\ request[r].response \in {"NONE", "MONITOR", "REQUIRE_APPROVAL",
                                           "SUSPEND_AGENT"}
               /\ request[r].authorization \subseteq grants
    BY ContainmentAssumption, LifecycleAssumption DEF IInv, Types, RequestState, Own
  <2> QED BY <2>1, <2>2, <2>3 DEF IInv, Types, AdminState, TypeOK, PC
<1> QED BY <1>1, Invariance, PTL

\* Every behaviour of requests, coordinator and administration is a behaviour of the
\* authority: what is proved of the authority alone holds under every interleaving.
THEOREM AuthorityRefinement == Spec => ImplementsAuthority
<1>1. Init => Authority!Init
  BY InitComponents
<1>2. IInv /\ [Next]_vars => [Authority!Next]_(Authority!vars)
  BY AuthorityStep
<1> QED BY <1>1, <1>2, Invariance, PTL DEF Spec, ImplementsAuthority, Authority!Spec

\* Likewise for the lifecycle planes of AgentService.
THEOREM LifecycleRefinement == Spec => ImplementsLifecycle
<1>1. Init => Lifecycle!Init
  BY InitComponents
<1>2. IInv /\ [Next]_vars => [Lifecycle!Next]_(Lifecycle!lifecycleVars)
  BY LifecycleStep DEF IInv
<1> QED BY <1>1, <1>2, Invariance, PTL DEF Spec, ImplementsLifecycle, Lifecycle!Spec

\* Under every interleaving of requests, coordinator and administration, grants are claimed
\* once and never after a revocation, the planes' counters agree, and disablement is final.
THEOREM ComponentsKeepTheirPromises ==
  Spec => /\ [](AuthorityProofs!SingleUse /\ AuthorityProofs!RevocationIsFinal)
          /\ []EpochAccounting
          /\ DisabledIsTerminal
<1>1. IInv => AuthorityProofs!SingleUse /\ AuthorityProofs!RevocationIsFinal
  BY DEF IInv, AuthorityProofs!IInv
<1> QED BY <1>1, Invariance, LifecycleRefinement, EpochsAccountForTransitions,
           DisablementIsFinal, PTL DEF ImplementsLifecycle

\* However many requests and administrators race, a suspended agent with an open gate is one
\* whose containment the coordinator's resume_issuance overtook.
THEOREM SuspensionClosesTheGate == Spec => []SuspendedMeansClosed
  BY Invariance, PTL DEF IInv

\* An agent whose suspension was not raced executes nothing, whatever grants its running
\* requests still hold.
THEOREM SuspensionStopsExecution == Spec => SuspendedExecutesNothing
<1> DEFINE Step == \A c \in claims' \ claims :
                     enforcement[c.grant.agent_id].suspended => raced[c.grant.agent_id]
<1>1. IInv /\ [Next]_vars => [Step]_vars
  <2> SUFFICES ASSUME IInv, Next, NEW c \in claims' \ claims,
                      enforcement[c.grant.agent_id].suspended
               PROVE  raced[c.grant.agent_id]
    OBVIOUS
  <2>1. PICK r \in Requests : Execute(r)
    <3>1. claims' # claims
      OBVIOUS
    <3> QED
      BY <3>1 DEF Next, RequestStep, AdminStep, authorityVars, Authorize, RecordEvent,
         RecordFindings, Assess, Issue, IssueNothing, Finalize, CloseGate, SuspendAgent,
         ResetToBaseline, ResumeIssuance, Recheck, Reinstate, Repair,
         RegisterAndActivateAgent, DisableAgent, EndSession, Authority!Issue,
         Authority!SuspendIssuance, Authority!ResumeIssuance
  <2>2. PICK g \in request[r].authorization :
          Authority!ClaimGrant(g, g.binding) \/ Authority!RefuseGrant(g, g.binding)
    BY <2>1 DEF Execute
  <2>3. Authority!ClaimGrant(g, g.binding)
    BY <2>2 DEF Authority!RefuseGrant
  <2>4. c.grant = g
    BY <2>3 DEF Authority!ClaimGrant
  <2>5. g \in grants
    BY DEF IInv, Own
  <2>6. issuance_closed[g.agent_id] = {}
    BY <2>3, <2>5, ClaimedIsOutstanding
  <2>7. g.agent_id \in Agents
    BY <2>5 DEF IInv, AuthorityProofs!IInv, AuthorityProofs!TypeOK, AuthorityProofs!Grant
  <2> QED BY <2>4, <2>6, <2>7 DEF IInv, SuspendedMeansClosed
<1> QED BY <1>1, Invariance, PTL DEF Spec, SuspendedExecutesNothing

\* A request holds authority only under an ALLOW that its response left alone, and has
\* executed only by claiming it.
THEOREM AuthorityFollowsDecision == Spec => []OnlyAllowExecutes
<1>1. IInv => OnlyAllowExecutes
  BY DEF IInv, Own, OnlyAllowExecutes
<1> QED BY <1>1, Invariance, PTL

================================================================================
