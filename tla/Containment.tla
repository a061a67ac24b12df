------------------------------ MODULE Containment ------------------------------
(***************************************************************************)
(* Requests, containment and recovery.  RuntimeService.execute runs in the *)
(* thread of each request, EnforcementCoordinator in the thread of an      *)
(* administrative request, and they meet in three shared components: the   *)
(* execution authority, the two lifecycle planes of AgentService and the   *)
(* agent's risk posture.  Each component locks itself; the per-agent lock  *)
(* is held by the coordinator throughout and by a request only while it    *)
(* records findings.                                                       *)
(***************************************************************************)
EXTENDS LifecyclePlanes, FiniteSets

CONSTANTS
  Sessions, Bindings, Capabilities, GrantIds, TTL, MaxTime, MaxRestarts,
  Requests,         \* calls of RuntimeService.execute
  Admins,           \* threads that run the coordinator
  Recoveries,       \* the coordinator's operations that are reachable: the management API
                    \* calls "reinstate" only
  EndableSessions   \* sessions that end_session may end while requests run

\* As the authority assumes; the coordinator needs an agent to act on.
ASSUME ContainmentAssumption ==
  /\ Agents # {}
  /\ TTL \in Nat \ {0}
  /\ MaxTime \in Nat
  /\ MaxRestarts \in Nat

VARIABLES
  \* ExecutionAuthority
  now, authority_id, outstanding, revoked, issuance_closed, grants, claims, claimed,
  withdrawn, removed,
  posture,    \* the risk level of the agent's projection
  terminal,   \* sessions with a tombstone
  request,    \* the local state of each request
  admin,      \* the local state of each administrative thread
  raced       \* history: recovery reopened the gate while a containment was in force or
              \* under way, and the gate has not been closed since

Authority ==
  INSTANCE ExecutionAuthority WITH epoch <- [a \in Agents |-> enforcement[a].epoch]

Lifecycle == INSTANCE AgentLifecycle

authorityVars == <<now, authority_id, outstanding, revoked, issuance_closed, grants, claims,
                   claimed, withdrawn, removed>>
vars == <<authorityVars, lifecycleVars, posture, terminal, request, admin, raced>>

\* LOW stands for LOW and MEDIUM, which leave the decision alone.
RiskLevel == {"LOW", "HIGH", "CRITICAL"}

AtLeast == [LOW |-> RiskLevel, HIGH |-> {"HIGH", "CRITICAL"}, CRITICAL |-> {"CRITICAL"}]

\* RESPONSE_TYPES of ResponseService.
ResponseType == [LOW |-> "MONITOR", HIGH |-> "REQUIRE_APPROVAL", CRITICAL |-> "SUSPEND_AGENT"]

Decision == {"ALLOW", "DENY", "APPROVAL_REQUIRED"}

TypeOK ==
  /\ Authority!TypeOK
  /\ Lifecycle!TypeOK
  /\ posture \in [Agents -> RiskLevel]
  /\ terminal \subseteq Sessions
  /\ \A r \in Requests :
       /\ request[r].pc \in {"new", "authorized", "recorded", "detected", "assessed", "issued",
                             "closing", "suspending", "done", "executed", "refused", "failed"}
       /\ request[r].agent_id \in Agents
       /\ request[r].session_id \in Sessions
       /\ request[r].decision \in Decision
       /\ request[r].context_epoch \in Nat
       /\ request[r].response \in {"NONE", "MONITOR", "REQUIRE_APPROVAL", "SUSPEND_AGENT"}
       /\ request[r].authorization \subseteq grants
  /\ admin \in [Admins -> [pc: {"idle", "reinstated", "repairing", "reset", "resumed"},
                           agent_id: Agents]]
  /\ raced \in [Agents -> BOOLEAN]

Init ==
  /\ Lifecycle!Init
  /\ Authority!Init
  /\ posture = [a \in Agents |-> "LOW"]
  /\ terminal = {}
  /\ request \in
       [Requests -> [pc: {"new"}, agent_id: Agents, session_id: Sessions, decision: {"DENY"},
                     context_epoch: {0}, response: {"NONE"}, authorization: {{}}]]
  /\ admin = [c \in Admins |-> [pc |-> "idle", agent_id |-> CHOOSE a \in Agents : TRUE]]
  /\ raced = [a \in Agents |-> FALSE]

\* AgentLockManager: the coordinator holds the agent's lock from its first step to its last.
LockFree(a) == \A c \in Admins : admin[c].pc = "idle" \/ admin[c].agent_id # a

Move(r, pc) == request' = [request EXCEPT ![r].pc = pc]

--------------------------------------------------------------------------------
(* RuntimeService.execute, from the session binding to the result.           *)

\* bind_or_validate, then AuthorizationService.evaluate: policy may deny anything, and
\* allows nothing that the lifecycle refuses.  A terminal session is refused inertly.
Authorize(r) ==
  /\ request[r].pc = "new"
  /\ \/ /\ request[r].session_id \notin terminal
        /\ \E decision \in Decision :
             /\ decision # "DENY" => Lifecycle!LifecycleRefusal(request[r].agent_id) = "NONE"
             /\ request' = [request EXCEPT ![r].pc = "authorized", ![r].decision = decision]
     \/ /\ request[r].session_id \in terminal
        /\ Move(r, "refused")
  /\ UNCHANGED <<authorityVars, lifecycleVars, posture, terminal, admin, raced>>

\* get_enforcement_state, read after authorization, and record_event, which raises when the
\* session ended in between.
RecordEvent(r) ==
  /\ request[r].pc = "authorized"
  /\ request' =
       [request EXCEPT
          ![r].context_epoch = enforcement[request[r].agent_id].epoch,
          ![r].pc = IF request[r].session_id \in terminal THEN "failed" ELSE "recorded"]
  /\ UNCHANGED <<authorityVars, lifecycleVars, posture, terminal, admin, raced>>

\* The refusals of a request whose event is recorded: its final decision becomes DENY, which
\* raises when the session ended in between.
Refuse(r) == Move(r, IF request[r].session_id \in terminal THEN "failed" ELSE "refused")

\* Detection and, under the agent's lock, record_new_findings with its projection: evidence
\* can only raise the posture.  When the horizon or the evidence store fails, the request is
\* refused with a final DENY and without a response.
RecordFindings(r) ==
  LET a == request[r].agent_id
  IN  /\ request[r].pc = "recorded"
      /\ \/ /\ LockFree(a)
            /\ \E level \in AtLeast[posture[a]] : posture' = [posture EXCEPT ![a] = level]
            /\ Move(r, "detected")
         \/ /\ Refuse(r)
            /\ UNCHANGED posture
      /\ UNCHANGED <<authorityVars, lifecycleVars, terminal, admin, raced>>

\* _assess_agent_posture and recommend_for_level.  A projection that cannot be reconciled
\* refuses the request.
Assess(r) ==
  /\ request[r].pc = "detected"
  /\ \/ request' = [request EXCEPT ![r].pc = "assessed",
                                   ![r].response = ResponseType[posture[request[r].agent_id]]]
     \/ Refuse(r)
  /\ UNCHANGED <<authorityVars, lifecycleVars, posture, terminal, admin, raced>>

Mut_PolicyDecides(r) == request[r].decision

\* The response may override an ALLOW.
FinalDecision(r) ==
  IF request[r].decision = "ALLOW"
  THEN CASE request[r].response = "SUSPEND_AGENT" -> "DENY"
         [] request[r].response = "REQUIRE_APPROVAL" -> "APPROVAL_REQUIRED"
         [] OTHER -> "ALLOW"
  ELSE request[r].decision

\* Issuance under the epoch of the snapshot.
Issue(r) ==
  /\ request[r].pc = "assessed"
  /\ FinalDecision(r) = "ALLOW"
  /\ UNCHANGED <<lifecycleVars, posture, terminal, admin, raced>>
  /\ \E b \in Bindings, cap \in Capabilities :
       Authority!Issue(request[r].agent_id, request[r].session_id, b, cap,
                       request[r].context_epoch)
  /\ request' = [request EXCEPT ![r].pc = "issued", ![r].decision = "ALLOW",
                                ![r].authorization = grants' \ grants]

\* No grant: the decision is not ALLOW, or the operation has no resolved implementation or
\* no capability profile, or issue refuses.  An ALLOW that cannot be enforced becomes DENY.
IssueNothing(r) ==
  /\ request[r].pc = "assessed"
  /\ request' =
       [request EXCEPT
          ![r].pc = "issued",
          ![r].decision = IF FinalDecision(r) = "ALLOW" THEN "DENY" ELSE FinalDecision(r)]
  /\ UNCHANGED <<authorityVars, lifecycleVars, posture, terminal, admin, raced>>

Mut_OnlyAllowIsContained(r) ==
  /\ request[r].pc = "issued"
  /\ Move(r, CASE request[r].session_id \in terminal -> "failed"
               [] request[r].session_id \notin terminal
                    /\ request[r].response = "SUSPEND_AGENT"
                    /\ request[r].decision # "APPROVAL_REQUIRED" -> "closing"
               [] OTHER -> "done")
  /\ UNCHANGED <<authorityVars, lifecycleVars, posture, terminal, admin, raced>>

\* update_event_final_decision raises for a session that ended meanwhile, and the rest of
\* the request is lost with it.
Finalize(r) ==
  /\ request[r].pc = "issued"
  /\ Move(r, CASE request[r].session_id \in terminal -> "failed"
               [] request[r].session_id \notin terminal
                    /\ request[r].response = "SUSPEND_AGENT" -> "closing"
               [] OTHER -> "done")
  /\ UNCHANGED <<authorityVars, lifecycleVars, posture, terminal, admin, raced>>

Mut_StatusBeforeGate(r) ==
  LET a == request[r].agent_id
  IN  /\ request[r].pc = "closing"
      /\ Lifecycle!SuspendAgent(a)
      /\ UNCHANGED <<authorityVars, posture, terminal, admin, raced>>
      /\ Move(r, "suspending")

Mut_ClosesWithoutRevoking(r) ==
  LET a == request[r].agent_id
  IN  /\ request[r].pc = "closing"
      /\ issuance_closed' = [issuance_closed EXCEPT ![a] = @ \cup {"ENFORCEMENT"}]
      /\ UNCHANGED <<lifecycleVars, posture, terminal, admin, now, authority_id, outstanding,
                     revoked, grants, claims, claimed, withdrawn, removed>>
      /\ Move(r, "suspending")
      /\ raced' = [raced EXCEPT ![a] = FALSE]

\* _suspend_agent, first half: the authority closes the gate and revokes.
CloseGate(r) ==
  LET a == request[r].agent_id
  IN  /\ request[r].pc = "closing"
      /\ UNCHANGED <<lifecycleVars, posture, terminal, admin>>
      /\ Authority!SuspendIssuance(a, "ENFORCEMENT")
      /\ Move(r, "suspending")
      /\ raced' = [raced EXCEPT ![a] = FALSE]

Mut_SuspendsUnderTheSameEpoch(r) ==
  LET a == request[r].agent_id
  IN  /\ request[r].pc = "suspending"
      /\ Move(r, "done")
      /\ enforcement' = [enforcement EXCEPT ![a].suspended = TRUE]
      /\ UNCHANGED <<authorityVars, administrative, administrative_ledger, enforcement_ledger,
                     posture, terminal, admin, raced>>

\* _suspend_agent, second half: AgentService writes the suspension, unless there is nothing
\* to suspend.
SuspendAgent(r) ==
  LET a == request[r].agent_id
  IN  /\ request[r].pc = "suspending"
      /\ Move(r, "done")
      /\ \/ Lifecycle!SuspendAgent(a)
         \/ /\ administrative[a].state = "NONE" \/ Lifecycle!NothingToSuspend(a)
            /\ UNCHANGED lifecycleVars
      /\ UNCHANGED <<authorityVars, posture, terminal, admin, raced>>

\* ToolExecutor.execute with the request's grant: claimed, or refused by the authority.
Execute(r) ==
  /\ request[r].pc = "done"
  /\ UNCHANGED <<lifecycleVars, posture, terminal, admin, raced>>
  /\ \E g \in request[r].authorization :
       \/ Authority!ClaimGrant(g, g.binding) /\ Move(r, "executed")
       \/ Authority!RefuseGrant(g, g.binding) /\ Move(r, "refused")

--------------------------------------------------------------------------------
(* EnforcementCoordinator.                                                   *)

MoveAdmin(c, pc) == admin' = [admin EXCEPT ![c].pc = pc]

\* reinstate, under the agent's lock: the transition comes first.
Reinstate(c, a) ==
  /\ "reinstate" \in Recoveries
  /\ admin[c].pc = "idle"
  /\ LockFree(a)
  /\ Lifecycle!ReinstateAgent(a)
  /\ admin' = [admin EXCEPT ![c] = [pc |-> "reinstated", agent_id |-> a]]
  /\ UNCHANGED <<authorityVars, posture, terminal, request, raced>>

\* repair, under the agent's lock: refused while the agent is suspended.
Repair(c, a) ==
  /\ "repair" \in Recoveries
  /\ admin[c].pc = "idle"
  /\ LockFree(a)
  /\ administrative[a].state # "NONE"
  /\ ~enforcement[a].suspended
  /\ admin' = [admin EXCEPT ![c] = [pc |-> "repairing", agent_id |-> a]]
  /\ UNCHANGED <<authorityVars, lifecycleVars, posture, terminal, request, raced>>

\* reset_to_baseline; when it raises, the coordinator stops with the gate still closed.
ResetToBaseline(c) ==
  /\ admin[c].pc \in {"reinstated", "repairing"}
  /\ \/ /\ posture' = [posture EXCEPT ![admin[c].agent_id] = "LOW"]
        /\ MoveAdmin(c, "reset")
     \/ /\ MoveAdmin(c, "idle")
        /\ UNCHANGED posture
  /\ UNCHANGED <<authorityVars, lifecycleVars, terminal, request, raced>>

\* The agent is suspended, or a request has closed its gate and is about to suspend it.
BeingContained(a) ==
  \/ enforcement[a].suspended
  \/ \E r \in Requests : request[r].pc = "suspending" /\ request[r].agent_id = a

\* resume_issuance, unconditionally.
ResumeIssuance(c) ==
  LET a == admin[c].agent_id
  IN  /\ admin[c].pc = "reset"
      /\ UNCHANGED <<lifecycleVars, posture, terminal, request>>
      /\ Authority!ResumeIssuance(a, "ENFORCEMENT")
      /\ MoveAdmin(c, "resumed")
      /\ raced' = [raced EXCEPT ![a] = @ \/ BeingContained(a)]

\* The closing check reports success or ReinstatementIncompleteError; it changes nothing,
\* and the lock is released.
Recheck(c) ==
  /\ admin[c].pc = "resumed"
  /\ MoveAdmin(c, "idle")
  /\ UNCHANGED <<authorityVars, lifecycleVars, posture, terminal, request, raced>>

--------------------------------------------------------------------------------
(* Administration.                                                           *)

RegisterAndActivateAgent(a) ==
  /\ Lifecycle!RegisterAndActivateAgent(a)
  /\ UNCHANGED <<authorityVars, posture, terminal, request, admin, raced>>

DisableAgent(a) ==
  /\ Lifecycle!DisableAgent(a)
  /\ UNCHANGED <<authorityVars, posture, terminal, request, admin, raced>>

\* end_session or expire_idle_sessions leaves a tombstone.
EndSession(s) ==
  /\ s \in EndableSessions \ terminal
  /\ terminal' = terminal \cup {s}
  /\ UNCHANGED <<authorityVars, lifecycleVars, posture, request, admin, raced>>

RequestStep(r) ==
  \/ Authorize(r) \/ RecordEvent(r) \/ RecordFindings(r) \/ Assess(r)
  \/ Issue(r) \/ IssueNothing(r) \/ Finalize(r) \/ CloseGate(r) \/ SuspendAgent(r)
  \/ Execute(r)

AdminStep(c) == ResetToBaseline(c) \/ ResumeIssuance(c) \/ Recheck(c)

Next ==
  \/ \E r \in Requests : RequestStep(r)
  \/ \E c \in Admins : AdminStep(c)
  \/ \E c \in Admins, a \in Agents : Reinstate(c, a) \/ Repair(c, a)
  \/ \E a \in Agents : RegisterAndActivateAgent(a) \/ DisableAgent(a)
  \/ \E s \in Sessions : EndSession(s)

\* A thread that has begun runs on; nobody is obliged to begin.
Fairness ==
  /\ \A r \in Requests : WF_vars(request[r].pc # "new" /\ RequestStep(r))
  /\ \A c \in Admins : WF_vars(AdminStep(c))

Spec == Init /\ [][Next]_vars /\ Fairness

--------------------------------------------------------------------------------
(* Properties.                                                               *)

\* A suspended agent's gate is closed, unless recovery reopened it while the containment
\* was in force or under way: the unsynchronised pair of _suspend_agent and
\* EnforcementCoordinator is the only hole in "can obtain none".
SuspendedMeansClosed ==
  \A a \in Agents :
    enforcement[a].suspended => "ENFORCEMENT" \in issuance_closed[a] \/ raced[a]

\* An agent that is suspended executes nothing, under the same proviso, even with a grant
\* issued before its suspension to a request that is still running.
SuspendedExecutesNothing ==
  [][\A c \in claims' \ claims :
       enforcement[c.grant.agent_id].suspended => raced[c.grant.agent_id]]_vars

\* Authority is granted only to a request whose decision is ALLOW and whose response leaves
\* the agent alone, and nothing executes without it: a denial, an escalation to approval or a
\* posture that calls for suspension leaves the request with no grant, and a tool has run
\* only for a request whose own grant was claimed, once.
OnlyAllowExecutes ==
  \A r \in Requests :
    /\ request[r].authorization # {} => request[r].decision = "ALLOW"
                                        /\ request[r].response = "MONITOR"
    /\ request[r].pc = "executed" =>
         \E g \in request[r].authorization : claimed[g.grant_id] = 1

\* Under every interleaving the requests and the coordinator use the authority as its
\* specification says, so what is proved of the authority holds here.
ImplementsAuthority == Authority!Spec

\* Likewise for the lifecycle planes.
ImplementsLifecycle == Lifecycle!Spec

\* Once the posture of the agent has called for SUSPEND_AGENT, the agent is suspended, unless
\* it is disabled or unknown, or the session of the request ended under it.
ContainmentFollows ==
  \A r \in Requests :
    request[r].pc = "assessed" /\ request[r].response = "SUSPEND_AGENT"
      ~> \/ enforcement[request[r].agent_id].suspended
         \/ administrative[request[r].agent_id].state \in {"NONE", "DISABLED"}
         \/ request[r].session_id \in terminal

\* A suspended agent obtains no new authority, "including from a request that passed
\* authorization moments before the suspension was written".
SuspendedObtainsNothing ==
  [][\A g \in grants' \ grants : ~enforcement[g.agent_id].suspended]_vars

================================================================================
