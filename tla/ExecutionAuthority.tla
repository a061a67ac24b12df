--------------------------- MODULE ExecutionAuthority ---------------------------
(***************************************************************************)
(* The issuer and verifier of execution grants                             *)
(* (app/runtime/execution_authority.py).  Every public method runs under   *)
(* one RLock, so each is one action.  A grant is held by its caller, who    *)
(* may present it any number of times, late, after a restart, or in an      *)
(* altered copy; the authority's own tables decide what it is worth.        *)
(***************************************************************************)
EXTENDS Integers, FiniteSets

CONSTANTS
  Agents,       \* agent ids
  Sessions,     \* session ids
  Bindings,     \* ExecutionBinding: tool, version, resource and parameters
  Capabilities, \* capability profile id and digest, as one value
  GrantIds,     \* the uuids that may be drawn: bounds the grants issued
  TTL,          \* ttl_seconds
  MaxTime,      \* bound on the clock
  MaxEpoch,     \* bound on the enforcement epoch of an agent
  MaxRestarts   \* bound on process restarts

\* __init__ refuses a non-positive ttl; the other constants only bound the model.
ASSUME AuthorityAssumption ==
  /\ TTL \in Nat \ {0}
  /\ MaxTime \in Nat
  /\ MaxEpoch \in Nat
  /\ MaxRestarts \in Nat

VARIABLES
  now,             \* the monotonic clock
  authority_id,    \* id of this process's authority, and of its random key
  outstanding,     \* _outstanding: issued, unclaimed grants
  revoked,         \* _revoked: grants withdrawn before use
  issuance_closed, \* _issuance_closed: the planes that close an agent's gate
  epoch,           \* the persisted enforcement epoch the authority compares with
  grants,          \* every RuntimeExecutionGrant handed to a caller
  claims,          \* history: the claims that succeeded
  claimed,         \* history: how often each grant was claimed
  withdrawn,       \* history: grants that suspend_issuance ever revoked
  removed          \* history: grants that consume_grant removed

authorityVars == <<now, authority_id, outstanding, revoked, issuance_closed, grants,
                   claims, claimed, withdrawn, removed>>
vars == <<authorityVars, epoch>>

IssuancePlane == {"ADMINISTRATIVE", "ENFORCEMENT"}

\* expected_epoch = None: the caller asks for no epoch check.
NoExpectedEpoch == -1

\* The fields a signature covers.
Payload ==
  [grant_id: GrantIds, authority_id: Nat, agent_id: Agents, session_id: Sessions,
   binding: Bindings, issued_at: Nat, expires_at: Nat, capability: Capabilities]

\* RuntimeExecutionGrant.
Grant ==
  [grant_id: GrantIds, authority_id: Nat, agent_id: Agents, session_id: Sessions,
   binding: Bindings, issued_at: Nat, expires_at: Nat, capability: Capabilities,
   signature: [key: Nat, payload: Payload]]

OutstandingGrant ==
  [grant_id: GrantIds, expires_at: Nat, agent_id: Agents, session_id: Sessions]

RevokedGrant == [grant_id: GrantIds, expires_at: Nat]

TypeOK ==
  /\ now \in Nat
  /\ authority_id \in Nat
  /\ outstanding \subseteq OutstandingGrant
  /\ revoked \subseteq RevokedGrant
  /\ issuance_closed \in [Agents -> SUBSET IssuancePlane]
  /\ epoch \in [Agents -> Nat]
  /\ grants \subseteq Grant
  /\ claims \subseteq [grant: Grant, requested: Bindings, at: Nat, authority_id: Nat]
  /\ claimed \in [GrantIds -> Nat]
  /\ withdrawn \subseteq GrantIds
  /\ removed \subseteq GrantIds

Init ==
  /\ now = 0
  /\ authority_id = 0
  /\ outstanding = {}
  /\ revoked = {}
  /\ issuance_closed = [a \in Agents |-> {}]
  /\ epoch = [a \in Agents |-> 0]
  /\ grants = {}
  /\ claims = {}
  /\ claimed = [i \in GrantIds |-> 0]
  /\ withdrawn = {}
  /\ removed = {}

--------------------------------------------------------------------------------
(* Helpers of the authority.                                                 *)

Mut_SignOmitsBinding(g) ==
  [grant_id |-> g.grant_id, authority_id |-> g.authority_id, agent_id |-> g.agent_id,
   session_id |-> g.session_id, binding |-> CHOOSE b \in Bindings : TRUE,
   issued_at |-> g.issued_at, expires_at |-> g.expires_at, capability |-> g.capability]

\* The canonical payload of _sign.
SignedPayload(g) ==
  [grant_id |-> g.grant_id, authority_id |-> g.authority_id, agent_id |-> g.agent_id,
   session_id |-> g.session_id, binding |-> g.binding, issued_at |-> g.issued_at,
   expires_at |-> g.expires_at, capability |-> g.capability]

\* _sign: an HMAC determines, and is determined by, its key and its payload.  The key is
\* random per process, so it is known by the id of the authority that drew it.
Sign(g) == [key |-> authority_id, payload |-> SignedPayload(g)]

\* _verify_authenticity.  An object that is no grant at all is refused likewise.
Authentic(g) == g.authority_id = authority_id /\ g.signature = Sign(g)

\* _prune, on either table.
Prune(table) == {entry \in table : entry.expires_at > now}

Holds(table, id) == \E entry \in table : entry.grant_id = id

Without(table, id) == {entry \in table : entry.grant_id # id}

\* _require_claimable_locked and _require_exact_match: why an authentic grant does not
\* authorize the requested operation, or "NONE" when it does.
Refusal(g, requested) ==
  IF now >= g.expires_at THEN "EXPIRED"
  ELSE IF Holds(Prune(revoked), g.grant_id) THEN "REVOKED"
  ELSE IF ~Holds(Prune(outstanding), g.grant_id) THEN "CONSUMED"
  ELSE IF \E o \in outstanding : /\ o.grant_id = g.grant_id
                                 /\ <<o.agent_id, o.session_id>> # <<g.agent_id, g.session_id>>
       THEN "IDENTITY_MISMATCH"
  ELSE IF requested # g.binding THEN "OPERATION_MISMATCH"
  ELSE "NONE"

\* What a caller can present: a grant it was given, or a copy with any field altered.  The
\* signature is not forgeable, so a copy keeps the one it was made with.
Alterations ==
  [grant_id: GrantIds, authority_id: 0..authority_id, agent_id: Agents,
   session_id: Sessions, binding: Bindings, expires_at: 0..(MaxTime + TTL)]

Altered(g, c) ==
  [grant_id |-> c.grant_id, authority_id |-> c.authority_id, agent_id |-> c.agent_id,
   session_id |-> c.session_id, binding |-> c.binding, issued_at |-> g.issued_at,
   expires_at |-> c.expires_at, capability |-> g.capability, signature |-> g.signature]

Presentable == UNION {{Altered(g, c) : c \in Alterations} : g \in grants}

--------------------------------------------------------------------------------
(* Operations.                                                               *)

Mut_IssueIgnoresGate(a, s, b, cap, expected) ==
  \E id \in GrantIds :
    /\ ~Holds(grants, id)
    /\ expected \in {NoExpectedEpoch, epoch[a]}
    /\ LET g == [grant_id |-> id, authority_id |-> authority_id, agent_id |-> a,
                 session_id |-> s, binding |-> b, issued_at |-> now,
                 expires_at |-> now + TTL, capability |-> cap]
       IN  /\ outstanding' = Prune(outstanding) \cup
                {[grant_id |-> id, expires_at |-> now + TTL, agent_id |-> a, session_id |-> s]}
           /\ grants' = grants \cup
                {[grant_id |-> id, authority_id |-> authority_id, agent_id |-> a,
                  session_id |-> s, binding |-> b, issued_at |-> now, expires_at |-> now + TTL,
                  capability |-> cap, signature |-> Sign(g)]}
    /\ revoked' = Prune(revoked)
    /\ UNCHANGED <<now, authority_id, issuance_closed, epoch, claims, claimed, withdrawn, removed>>

\* issue and _create_grant, for a final ALLOW: nothing is issued while any plane closes the
\* agent's gate, nor under an epoch other than the persisted one.  A refused call changes
\* nothing.
Issue(a, s, b, cap, expected) ==
  /\ issuance_closed[a] = {}
  /\ expected \in {NoExpectedEpoch, epoch[a]}
  /\ \E id \in GrantIds :
       /\ ~Holds(grants, id)
       /\ LET g == [grant_id |-> id, authority_id |-> authority_id, agent_id |-> a,
                    session_id |-> s, binding |-> b, issued_at |-> now,
                    expires_at |-> now + TTL, capability |-> cap]
          IN  grants' = grants \cup
                {[grant_id |-> id, authority_id |-> authority_id, agent_id |-> a,
                  session_id |-> s, binding |-> b, issued_at |-> now, expires_at |-> now + TTL,
                  capability |-> cap, signature |-> Sign(g)]}
       /\ outstanding' = Prune(outstanding) \cup
            {[grant_id |-> id, expires_at |-> now + TTL, agent_id |-> a, session_id |-> s]}
  /\ revoked' = Prune(revoked)
  /\ UNCHANGED <<now, authority_id, issuance_closed, epoch, claims, claimed, withdrawn, removed>>

\* verify_grant, when it does not raise: a pre-check that consumes nothing.
VerifyGrant(g, requested) ==
  /\ Authentic(g)
  /\ Refusal(g, requested) = "NONE"
  /\ outstanding' = Prune(outstanding)
  /\ revoked' = Prune(revoked)
  /\ UNCHANGED <<now, authority_id, issuance_closed, epoch, grants, claims, claimed, withdrawn, removed>>

Mut_ClaimKeepsGrant(g, requested) ==
  /\ Authentic(g)
  /\ Refusal(g, requested) = "NONE"
  /\ outstanding' = Prune(outstanding)
  /\ revoked' = Prune(revoked)
  /\ claims' = claims \cup
       {[grant |-> g, requested |-> requested, at |-> now, authority_id |-> authority_id]}
  /\ claimed' = [claimed EXCEPT ![g.grant_id] = @ + 1]
  /\ UNCHANGED <<now, authority_id, issuance_closed, epoch, grants, withdrawn, removed>>

\* claim_grant and verify_and_consume, when they do not raise: validation and removal in one
\* lock hold.
ClaimGrant(g, requested) ==
  /\ Authentic(g)
  /\ Refusal(g, requested) = "NONE"
  /\ outstanding' = Without(Prune(outstanding), g.grant_id)
  /\ revoked' = Prune(revoked)
  /\ claims' = claims \cup
       {[grant |-> g, requested |-> requested, at |-> now, authority_id |-> authority_id]}
  /\ claimed' = [claimed EXCEPT ![g.grant_id] = @ + 1]
  /\ UNCHANGED <<now, authority_id, issuance_closed, epoch, grants, withdrawn, removed>>

Mut_RefusalConsumes(g, requested) ==
  /\ Authentic(g)
  /\ Refusal(g, requested) # "NONE"
  /\ outstanding' = Without(Prune(outstanding), g.grant_id)
  /\ revoked' = Prune(revoked)
  /\ UNCHANGED <<now, authority_id, issuance_closed, epoch, grants, claims, claimed, withdrawn, removed>>

\* verify_grant or claim_grant, when it raises: an expired grant leaves the table, any
\* other stays.  A grant that is not authentic is refused before the tables are read.
RefuseGrant(g, requested) ==
  /\ Authentic(g)
  /\ Refusal(g, requested) # "NONE"
  /\ outstanding' = IF Refusal(g, requested) = "EXPIRED"
                    THEN Without(Prune(outstanding), g.grant_id)
                    ELSE Prune(outstanding)
  /\ revoked' = Prune(revoked)
  /\ UNCHANGED <<now, authority_id, issuance_closed, epoch, grants, claims, claimed, withdrawn, removed>>

\* consume_grant: administrative removal, without verification.
ConsumeGrant(g) ==
  /\ Holds(outstanding, g.grant_id)
  /\ outstanding' = Without(outstanding, g.grant_id)
  /\ removed' = removed \cup {g.grant_id}
  /\ UNCHANGED <<now, authority_id, revoked, issuance_closed, epoch, grants, claims, claimed, withdrawn>>

\* suspend_issuance: the gate closes on one plane and the agent's grants move to _revoked,
\* in one lock hold.
SuspendIssuance(a, plane) ==
  LET theirs == {o \in outstanding : o.agent_id = a}
  IN  /\ issuance_closed' = [issuance_closed EXCEPT ![a] = @ \cup {plane}]
      /\ outstanding' = outstanding \ theirs
      /\ revoked' = revoked \cup
           {[grant_id |-> o.grant_id, expires_at |-> o.expires_at] : o \in theirs}
      /\ withdrawn' = withdrawn \cup {o.grant_id : o \in theirs}
      /\ UNCHANGED <<now, authority_id, epoch, grants, claims, claimed, removed>>

Mut_ResumeRestores(a, plane) ==
  LET back == {g \in grants : g.agent_id = a /\ Holds(revoked, g.grant_id)}
  IN  /\ issuance_closed' = [issuance_closed EXCEPT ![a] = @ \ {plane}]
      /\ outstanding' = outstanding \cup
           {[grant_id |-> g.grant_id, expires_at |-> g.expires_at, agent_id |-> a,
             session_id |-> g.session_id] : g \in back}
      /\ revoked' = {r \in revoked : \A g \in back : g.grant_id # r.grant_id}
      /\ UNCHANGED <<now, authority_id, epoch, grants, claims, claimed, withdrawn, removed>>

\* resume_issuance: reopens one plane and restores no grant.
ResumeIssuance(a, plane) ==
  /\ issuance_closed' = [issuance_closed EXCEPT ![a] = @ \ {plane}]
  /\ UNCHANGED <<now, authority_id, outstanding, revoked, epoch, grants, claims, claimed, withdrawn, removed>>

--------------------------------------------------------------------------------
(* The surroundings of the authority.                                        *)

\* The enforcement repository commits a transition of the agent (_transition).
AdvanceEpoch(a) ==
  /\ epoch[a] < MaxEpoch
  /\ epoch' = [epoch EXCEPT ![a] = @ + 1]
  /\ UNCHANGED authorityVars

Tick ==
  /\ now < MaxTime
  /\ now' = now + 1
  /\ UNCHANGED <<authority_id, outstanding, revoked, issuance_closed, epoch, grants, claims,
                 claimed, withdrawn, removed>>

\* The process restarts: __init__ draws a new key and id and starts with empty tables, and
\* the in-memory enforcement repository starts over.  Callers may still hold old grants.
Restart ==
  /\ authority_id < MaxRestarts
  /\ authority_id' = authority_id + 1
  /\ outstanding' = {}
  /\ revoked' = {}
  /\ issuance_closed' = [a \in Agents |-> {}]
  /\ epoch' = [a \in Agents |-> 0]
  /\ UNCHANGED <<now, grants, claims, claimed, withdrawn, removed>>

Next ==
  \/ \E a \in Agents, s \in Sessions, b \in Bindings, cap \in Capabilities,
        expected \in {NoExpectedEpoch} \cup 0..MaxEpoch : Issue(a, s, b, cap, expected)
  \/ \E g \in Presentable, b \in Bindings :
       VerifyGrant(g, b) \/ ClaimGrant(g, b) \/ RefuseGrant(g, b)
  \/ \E g \in grants : ConsumeGrant(g)
  \/ \E a \in Agents, plane \in IssuancePlane : SuspendIssuance(a, plane)
  \/ \E a \in Agents, plane \in IssuancePlane : ResumeIssuance(a, plane)
  \/ \E a \in Agents : AdvanceEpoch(a)
  \/ Tick
  \/ Restart

Spec == Init /\ [][Next]_vars

--------------------------------------------------------------------------------
(* Properties.                                                               *)

\* While any plane closes an agent's gate, the agent has no outstanding grant: closing and
\* revoking are one step, and a request in flight cannot slip a grant in afterwards.
ClosedGateHoldsNoGrant ==
  \A o \in outstanding : issuance_closed[o.agent_id] = {}

\* claim_grant succeeds at most once per grant, however many callers verified it before.
SingleUse == \A id \in GrantIds : claimed[id] <= 1

\* Whatever a caller presents, a successful claim is of a grant this process issued,
\* unaltered, for exactly the authorized operation, and within the TTL of its issue: a
\* grant survives neither alteration, nor its expiry, nor a restart.
ClaimsAreAsIssued ==
  \A c \in claims :
    /\ c.grant \in grants
    /\ c.grant.authority_id = c.authority_id
    /\ c.requested = c.grant.binding
    /\ c.grant.issued_at <= c.at /\ c.at < c.grant.issued_at + TTL

\* A grant revoked by suspend_issuance is never claimed, not even after resume_issuance
\* reopened the gate or _prune forgot the revocation.
RevocationIsFinal == \A id \in withdrawn : claimed[id] = 0

\* A refused attempt never consumes the grant: an unexpired grant leaves the table only
\* when it is claimed, revoked or administratively removed, or the process ends.
RefusedAttemptsConsumeNothing ==
  [][\A o \in outstanding :
       o \notin outstanding' /\ o.expires_at > now /\ authority_id' = authority_id
       => \/ claimed'[o.grant_id] = claimed[o.grant_id] + 1
          \/ o.grant_id \in withdrawn' \cup removed']_vars

================================================================================
