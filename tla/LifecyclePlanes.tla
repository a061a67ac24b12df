---------------------------- MODULE LifecyclePlanes ----------------------------
(***************************************************************************)
(* What the administrative and the enforcement repository hold, and what   *)
(* makes it consistent.  The administrative plane is REGISTERED / ACTIVE / *)
(* DISABLED under a version; the enforcement plane is suspended or not     *)
(* under an epoch; each keeps an append-only ledger.  The operations are   *)
(* in AgentLifecycle; Containment shares the state.                        *)
(***************************************************************************)
EXTENDS Integers, Sequences

CONSTANTS
  Agents,   \* agent ids
  MaxEpoch  \* bound on the enforcement transitions of an agent

ASSUME LifecycleAssumption == MaxEpoch \in Nat

VARIABLES
  administrative,        \* AgentAdministrativeState of each agent
  administrative_ledger, \* AdministrativeTransition records of each agent
  enforcement,           \* AgentEnforcementState of each agent
  enforcement_ledger     \* EnforcementTransition records of each agent

lifecycleVars == <<administrative, administrative_ledger, enforcement, enforcement_ledger>>

\* "NONE" is an agent with no administrative record: it was never registered.
AdministrativeState == {"NONE", "REGISTERED", "ACTIVE", "DISABLED"}

AgentStatus == {"REGISTERED", "ACTIVE", "SUSPENDED", "DISABLED"}

AdministrativeTransition ==
  [action: {"REGISTER", "ACTIVATE", "DISABLE"},
   previous_state: AdministrativeState, new_state: AdministrativeState,
   version_before: Nat, version_after: Nat]

EnforcementTransition ==
  [action: {"SUSPEND", "REINSTATE"}, previous_status: AgentStatus, new_status: AgentStatus]

--------------------------------------------------------------------------------
(* Properties.                                                               *)

\* The three counters of AgentEnforcementState tell one story: the epoch is the number of
\* ledger entries, suspensions and reinstatements alternate, and the recovery generation
\* counts the reinstatements alone (DR-8(c)).
EpochAccounting ==
  \A a \in Agents :
    /\ enforcement[a].epoch = Len(enforcement_ledger[a])
    /\ enforcement[a].epoch =
         2 * enforcement[a].recovery_generation + (IF enforcement[a].suspended THEN 1 ELSE 0)

\* Disablement is final and nothing is contained after it: a DISABLED agent stays DISABLED
\* and no suspension is added to its ledger, although a reinstatement may be.
DisabledIsTerminal ==
  [][\A a \in Agents :
       administrative[a].state = "DISABLED" =>
         /\ administrative'[a].state = "DISABLED"
         /\ enforcement'[a].suspended => enforcement[a].suspended]_lifecycleVars

================================================================================
