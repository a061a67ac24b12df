----------------------------- MODULE AgentLifecycle -----------------------------
(***************************************************************************)
(* The two lifecycle planes of an agent, as AgentService keeps them        *)
(* (app/services/agent_service.py).  AgentService holds its RLock through  *)
(* every operation, reads included, so each is one action and its          *)
(* compare-and-set always finds the version it read.                       *)
(***************************************************************************)
EXTENDS LifecyclePlanes

TypeOK ==
  /\ administrative \in [Agents -> [state: AdministrativeState, version: Nat]]
  /\ administrative_ledger \in [Agents -> Seq(AdministrativeTransition)]
  /\ enforcement \in [Agents -> [epoch: Nat, suspended: BOOLEAN, recovery_generation: Nat]]
  /\ enforcement_ledger \in [Agents -> Seq(EnforcementTransition)]

Init ==
  /\ administrative = [a \in Agents |-> [state |-> "NONE", version |-> 0]]
  /\ administrative_ledger = [a \in Agents |-> <<>>]
  /\ enforcement =
       [a \in Agents |-> [epoch |-> 0, suspended |-> FALSE, recovery_generation |-> 0]]
  /\ enforcement_ledger = [a \in Agents |-> <<>>]

--------------------------------------------------------------------------------
(* Administrative plane.                                                     *)

\* Mutant: a disabled agent may be activated again.
Mut_DisabledMayReturn ==
  [NONE |-> {"REGISTERED"}, REGISTERED |-> {"ACTIVE", "DISABLED"}, ACTIVE |-> {"DISABLED"},
   DISABLED |-> {"ACTIVE"}]

\* LEGAL_ADMINISTRATIVE_TRANSITIONS.
LegalTransitions ==
  [NONE |-> {"REGISTERED"}, REGISTERED |-> {"ACTIVE", "DISABLED"}, ACTIVE |-> {"DISABLED"},
   DISABLED |-> {}]

\* ADMINISTRATIVE_TRANSITION_ACTIONS: the action follows from the state entered.
ActionInto == [REGISTERED |-> "REGISTER", ACTIVE |-> "ACTIVATE", DISABLED |-> "DISABLE"]

\* record_transition and commit_registration of the repository: the transition must be
\* legal, and the ledger entry describe it, for the state that is stored.
RecordTransition(a, transition, new_state) ==
  /\ new_state.version = administrative[a].version + 1
  /\ new_state.state \in LegalTransitions[administrative[a].state]
  /\ transition.previous_state = administrative[a].state
  /\ transition.new_state = new_state.state
  /\ transition.version_before = administrative[a].version
  /\ transition.version_after = new_state.version
  /\ administrative' = [administrative EXCEPT ![a] = new_state]
  /\ administrative_ledger' = [administrative_ledger EXCEPT ![a] = Append(@, transition)]
  /\ UNCHANGED <<enforcement, enforcement_ledger>>

\* _administrative_transition.
TransitionTo(a, new_state) ==
  /\ new_state \in LegalTransitions[administrative[a].state]
  /\ RecordTransition(a,
       [action |-> ActionInto[new_state],
        previous_state |-> administrative[a].state, new_state |-> new_state,
        version_before |-> administrative[a].version,
        version_after |-> administrative[a].version + 1],
       [state |-> new_state, version |-> administrative[a].version + 1])

\* register_agent; an agent that exists is refused.
RegisterAgent(a) == TransitionTo(a, "REGISTERED")

\* activate_agent.
ActivateAgent(a) == TransitionTo(a, "ACTIVE")

\* disable_agent.
DisableAgent(a) == TransitionTo(a, "DISABLED")

\* register_and_activate_agent: both transitions, each with its ledger entry, in one hold of
\* the service lock.
RegisterAndActivateAgent(a) ==
  /\ administrative[a].state = "NONE"
  /\ administrative' = [administrative EXCEPT ![a] = [state |-> "ACTIVE", version |-> 2]]
  /\ administrative_ledger' =
       [administrative_ledger EXCEPT ![a] =
          <<[action |-> "REGISTER", previous_state |-> "NONE", new_state |-> "REGISTERED",
             version_before |-> 0, version_after |-> 1],
            [action |-> "ACTIVATE", previous_state |-> "REGISTERED", new_state |-> "ACTIVE",
             version_before |-> 1, version_after |-> 2]>>]
  /\ UNCHANGED <<enforcement, enforcement_ledger>>

--------------------------------------------------------------------------------
(* Reading the planes.                                                       *)

\* _project_status: the status shown for an agent, from both planes.
ProjectStatus(a) ==
  IF administrative[a].state = "DISABLED" THEN "DISABLED"
  ELSE IF administrative[a].state = "NONE" THEN "REGISTERED"
  ELSE IF enforcement[a].suspended THEN "SUSPENDED"
  ELSE administrative[a].state

\* failing_lifecycle_conditions and evaluate_lifecycle_authorization, with both
\* repositories answering: the most significant condition that forbids execution.
LifecycleRefusal(a) ==
  IF administrative[a].state = "NONE" THEN "ADMINISTRATIVE_STATE_UNAVAILABLE"
  ELSE IF administrative[a].state = "DISABLED" THEN "AGENT_DISABLED"
  ELSE IF administrative[a].state # "ACTIVE" THEN "AGENT_NOT_ACTIVE"
  ELSE IF enforcement[a].suspended THEN "AGENT_SUSPENDED"
  ELSE "NONE"

--------------------------------------------------------------------------------
(* Enforcement plane.                                                        *)

Mut_ForgottenGeneration(a, action, new_status) ==
  /\ action = "SUSPEND" => administrative[a].state # "DISABLED"
  /\ enforcement[a].epoch < MaxEpoch
  /\ enforcement' =
       [enforcement EXCEPT ![a] =
          [epoch |-> @.epoch + 1,
           suspended |-> (action = "SUSPEND"),
           recovery_generation |-> @.recovery_generation + 1]]
  /\ enforcement_ledger' =
       [enforcement_ledger EXCEPT ![a] = Append(@,
          [action |-> action, previous_status |-> ProjectStatus(a), new_status |-> new_status])]
  /\ UNCHANGED <<administrative, administrative_ledger>>

\* _transition and record_transition: no suspension of a DISABLED agent, whoever calls; the
\* epoch advances on every transition, the recovery generation on a reinstatement only.
EnforcementTransitionTo(a, action, new_status) ==
  /\ action = "SUSPEND" => administrative[a].state # "DISABLED"
  /\ enforcement[a].epoch < MaxEpoch
  /\ enforcement' =
       [enforcement EXCEPT ![a] =
          [epoch |-> @.epoch + 1,
           suspended |-> (action = "SUSPEND"),
           recovery_generation |->
             @.recovery_generation + (IF action = "REINSTATE" THEN 1 ELSE 0)]]
  /\ enforcement_ledger' =
       [enforcement_ledger EXCEPT ![a] = Append(@,
          [action |-> action, previous_status |-> ProjectStatus(a), new_status |-> new_status])]
  /\ UNCHANGED <<administrative, administrative_ledger>>

\* suspend_agent leaves an agent alone that is suspended already, or DISABLED.
NothingToSuspend(a) == enforcement[a].suspended \/ administrative[a].state = "DISABLED"

\* suspend_agent, when it makes a transition.
SuspendAgent(a) ==
  /\ administrative[a].state # "NONE"
  /\ ~NothingToSuspend(a)
  /\ EnforcementTransitionTo(a, "SUSPEND", "SUSPENDED")

\* reinstate_agent: clears the suspension whatever the administrative state.
ReinstateAgent(a) ==
  /\ administrative[a].state # "NONE"
  /\ enforcement[a].suspended
  /\ EnforcementTransitionTo(a, "REINSTATE", "ACTIVE")

Next ==
  \/ \E a \in Agents : RegisterAgent(a)
  \/ \E a \in Agents : ActivateAgent(a)
  \/ \E a \in Agents : RegisterAndActivateAgent(a)
  \/ \E a \in Agents : DisableAgent(a)
  \/ \E a \in Agents : SuspendAgent(a)
  \/ \E a \in Agents : ReinstateAgent(a)

Spec == Init /\ [][Next]_lifecycleVars

================================================================================
