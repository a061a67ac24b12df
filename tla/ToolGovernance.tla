--------------------------- MODULE ToolGovernance ---------------------------
(***************************************************************************)
(* Which implementation a request may run, and on what: the executable     *)
(* registry, the governance records, the capability profile and the files  *)
(* of the workspace all change under a request that resolves a version,    *)
(* canonicalises its target, is authorised, obtains a grant and executes.  *)
(*                                                                         *)
(* One tool family (file_read) is modelled with all its versions.  A       *)
(* profile is a model value that stands for a capability set and for its   *)
(* digest (distinct sets have distinct digests).  A path is the name it    *)
(* spells; syntactic rejections of a path are the name Malformed.          *)
(***************************************************************************)
EXTENDS Integers, FiniteSets, FiniteSetsExt

CONSTANTS
  Requests,     \* concurrent requests of the agent
  Versions,     \* versions of the tool family
  Impls,        \* packaged implementation identifiers
  RiskOf,       \* [Versions -> Risk], the risk a version is governed at
  Profiles,     \* capability profiles the family may be given
  Workspaces,   \* workspace roots
  RootOf,       \* [Profiles -> Workspaces]
  Names,        \* directory entries of a workspace
  Protected,    \* the entries of PROTECTED_RESOURCES
  MaxOps,       \* bound on operations of operators and of the file system
  None,         \* no value
  Malformed,    \* a path without a workspace identity
  Outside,      \* a link target that leaves the workspace
  Missing       \* a directory entry that does not exist

\* ToolRiskLevel in order of severity: LOW, MEDIUM, HIGH, CRITICAL.
Risk == 0..3

HIGH == 2

CRITICAL == 3

ASSUME ToolAssumption ==
  /\ RiskOf \in [Versions -> Risk]
  /\ RootOf \in [Profiles -> Workspaces]
  /\ Protected \subseteq Names
  /\ MaxOps \in Nat
  /\ {None, Malformed, Outside, Missing} \cap (Versions \cup Impls \cup Profiles \cup Names) = {}
  /\ IsFiniteSet(Names) /\ Cardinality({None, Malformed, Outside, Missing}) = 4

VARIABLES
  registry,    \* ToolRegistry._descriptors: "unregistered", None (no implementation) or Impls
  governance,  \* ToolRepository: "absent", "enabled" or "disabled"
  profile,     \* the family's entry in the capability registry, or None
  link,        \* [Workspaces -> [Names -> ...]]: itself for a file, else a link's target
  tier,        \* the agent's risk tier: "LOW" or "HIGH"
  ops,         \* operations so far
  pc,          \* where each request is
  req,         \* [path, resource] the request names; canonical once bound
  version,     \* the version the request resolved, or None
  decision,    \* its decision
  grant,       \* its grant
  impl,        \* the implementation of the descriptor the executor materialised
  caps,        \* the profile the executor resolved for it
  ran          \* what the sandbox did for it

shared == <<registry, governance, profile, link, tier, ops>>

local == <<pc, req, version, decision, grant, impl, caps, ran>>

vars == <<shared, local>>

-----------------------------------------------------------------------------
(* Look-ups.                                                               *)

Unregistered == "unregistered"

Registered == {v \in Versions : registry[v] # Unregistered}

\* ToolRegistry.resolve without a version: one registered version, or nothing.
resolve ==
  IF Cardinality(Registered) = 1 THEN CHOOSE v \in Registered : TRUE ELSE None

\* RuntimeService._version_is_enabled: governance decides, not the descriptor.
version_is_enabled(v) == v # None /\ governance[v] = "enabled"

\* ToolService.list_versions, and family_exists.
list_versions == {v \in Versions : governance[v] # "absent"}

\* Mutant: a disabled version does not count for the family.
Mut_get_family_governance ==
  LET enabled == {RiskOf[v] : v \in {w \in Versions : governance[w] = "enabled"}}
  IN  IF enabled = {} THEN 0 ELSE Max(enabled)

\* ToolService.get_family_governance: the most restrictive registered version.
get_family_governance == Max({RiskOf[v] : v \in list_versions})

\* Where the links that start at entry n of workspace w lead: a file, Outside, Missing, or
\* round a cycle (_resolve_existing_or_missing, _require_inside).
FollowLinks(w, n) ==
  LET hop[k \in 0..Cardinality(Names)] ==
        IF k = 0 THEN n
        ELSE IF hop[k - 1] \in Names THEN link[w][hop[k - 1]] ELSE hop[k - 1]
  IN  hop[Cardinality(Names)]

\* FilesystemResourceIdentityResolver.canonicalize: the file of the workspace the name
\* leads to; an entry that does not exist keeps its name; a dangling, cyclic or outgoing
\* link is refused.
canonicalize(w, n) ==
  LET end == FollowLinks(w, n)
  IN  IF n \notin Names THEN Malformed
      ELSE IF link[w][n] = Missing THEN n
      ELSE IF end \in Names /\ link[w][end] = end THEN end
      ELSE Malformed

\* PolicyEngine.evaluate_policy for the family's risk, once the lifecycle permits.
evaluate_policy(t, risk, resource) ==
  IF t = "LOW" /\ risk >= HIGH THEN "DENY"
  ELSE IF resource \in Protected THEN "DENY"
  ELSE IF risk = CRITICAL THEN "APPROVAL_REQUIRED"
  ELSE "ALLOW"

\* AuthorizationService.evaluate; `refused` is an unknown or unapproved agent or a
\* lifecycle refusal.
evaluate(resource, refused) ==
  IF refused \/ list_versions = {} THEN "DENY"
  ELSE evaluate_policy(tier, get_family_governance, resource)

-----------------------------------------------------------------------------
(* A request up to its grant.                                              *)

NoRequest == [path |-> None, resource |-> None]

NoGrant == [state |-> "none", version |-> None, resource |-> None, path |-> None, profile |-> None]

NoRun == [version |-> None, impl |-> None, profile |-> None, target |-> None]

Init ==
  /\ registry \in [Versions -> Impls \cup {None, Unregistered}]
  /\ governance \in [Versions -> {"absent", "enabled", "disabled"}]
  /\ profile \in Profiles \cup {None}
  /\ link = [w \in Workspaces |-> [n \in Names |-> n]]
  /\ tier \in {"LOW", "HIGH"}
  /\ ops = 0
  /\ pc = [r \in Requests |-> "idle"]
  /\ req = [r \in Requests |-> NoRequest]
  /\ version = [r \in Requests |-> None]
  /\ decision = [r \in Requests |-> None]
  /\ grant = [r \in Requests |-> NoGrant]
  /\ impl = [r \in Requests |-> None]
  /\ caps = [r \in Requests |-> None]
  /\ ran = [r \in Requests |-> NoRun]

\* RuntimeService.execute: the version is the one registered version of the family.
Resolve(r) ==
  /\ pc[r] = "idle"
  /\ \E path, resource \in Names \cup {None, Malformed} :
       req' = [req EXCEPT ![r] = [path |-> path, resource |-> resource]]
  /\ version' = [version EXCEPT ![r] = resolve]
  /\ pc' = [pc EXCEPT ![r] = "resolved"]
  /\ UNCHANGED <<shared, decision, grant, impl, caps, ran>>

\* ... and governance must have it enabled.
CheckEnabled(r) ==
  /\ pc[r] = "resolved"
  /\ version' = [version EXCEPT ![r] = IF version_is_enabled(@) THEN @ ELSE None]
  /\ pc' = [pc EXCEPT ![r] = "checked"]
  /\ UNCHANGED <<shared, req, decision, grant, impl, caps, ran>>

\* The canonical identities of what the request names, in the profile's workspace.
Canonical(q) ==
  [f \in {"path", "resource"} |->
     IF q[f] = None THEN None ELSE canonicalize(RootOf[profile], q[f])]

\* Both names must have an identity, and it must be the same one.
WellFormed(c) ==
  /\ Malformed \notin {c.path, c.resource}
  /\ c.path = None \/ c.resource = None \/ c.path = c.resource

\* The filesystem gate of RuntimeService.execute; the target becomes the resource.
Bind(r) ==
  /\ pc[r] = "checked"
  /\ LET q == req[r]
         named == q # NoRequest
         gated == named /\ (version[r] # None \/ profile # None)
         c == Canonical(q)
         sound == profile # None /\ WellFormed(c)
     IN  \/ /\ gated /\ sound
            /\ req' = [req EXCEPT ![r] =
                 [path |-> c.path, resource |-> IF c.path # None THEN c.path ELSE c.resource]]
            /\ pc' = [pc EXCEPT ![r] = "bound"]
            /\ UNCHANGED decision
         \/ /\ gated /\ ~sound
            /\ decision' = [decision EXCEPT ![r] = "DENY"]
            /\ pc' = [pc EXCEPT ![r] = "refused"]
            /\ UNCHANGED req
         \/ /\ ~gated
            /\ pc' = [pc EXCEPT ![r] = "bound"]
            /\ UNCHANGED <<req, decision>>
  /\ UNCHANGED <<shared, version, grant, impl, caps, ran>>

\* AuthorizationService.evaluate on the canonical resource.
Authorize(r) ==
  /\ pc[r] = "bound"
  /\ \E refused \in BOOLEAN :
       decision' = [decision EXCEPT ![r] = evaluate(req[r].resource, refused)]
  /\ pc' = [pc EXCEPT ![r] = "authorized"]
  /\ UNCHANGED <<shared, req, version, grant, impl, caps, ran>>

\* The containment gates of RuntimeService.execute: no binding or no profile turns an
\* ALLOW into a DENY; so may the response and the authority (`escalated`).
Issue(r) ==
  /\ pc[r] = "authorized"
  /\ \E escalated \in BOOLEAN :
       \/ /\ decision[r] = "ALLOW" /\ ~escalated /\ version[r] # None /\ profile # None
          /\ grant' = [grant EXCEPT ![r] =
               [state |-> "outstanding", version |-> version[r], resource |-> req[r].resource,
                path |-> req[r].path, profile |-> profile]]
          /\ pc' = [pc EXCEPT ![r] = "granted"]
          /\ UNCHANGED decision
       \/ /\ decision[r] # "ALLOW" \/ escalated \/ version[r] = None \/ profile = None
          /\ decision' = [decision EXCEPT ![r] = IF @ = "ALLOW" THEN "DENY" ELSE @]
          /\ pc' = [pc EXCEPT ![r] = "refused"]
          /\ UNCHANGED grant
  /\ UNCHANGED <<shared, req, version, impl, caps, ran>>

-----------------------------------------------------------------------------
(* The executor.                                                           *)

\* DefaultToolExecutor.execute: exactly the version the grant names.
Materialise(r) ==
  /\ pc[r] = "granted"
  /\ IF grant[r].version \in Registered
       THEN /\ impl' = [impl EXCEPT ![r] = registry[grant[r].version]]
            /\ pc' = [pc EXCEPT ![r] = "materialised"]
       ELSE /\ pc' = [pc EXCEPT ![r] = "refused"]
            /\ UNCHANGED impl
  /\ UNCHANGED <<shared, req, version, decision, grant, caps, ran>>

\* The binding rebuilt from the authorised parameters has their path for resource;
\* verify_grant refuses it when the grant was bound to an explicit resource.
BindingAgrees(g) == g.resource = g.path

\* Mutant: the profile is found, its digest is not compared.
Mut_verify_capability_binding(g, p) == p # None

\* verify_capability_binding: the profile resolved now is the one that was granted.
verify_capability_binding(g, p) == p # None /\ p = g.profile

\* _verify_and_prepare up to the claim; `ok` is false when the authority, the caller's
\* context or a missing sandbox refuses.
VerifyAndPrepare(r) ==
  /\ pc[r] = "materialised"
  /\ \E ok \in BOOLEAN :
       IF ok /\ BindingAgrees(grant[r]) /\ verify_capability_binding(grant[r], profile)
         THEN /\ caps' = [caps EXCEPT ![r] = profile]
              /\ pc' = [pc EXCEPT ![r] = "prepared"]
         ELSE /\ pc' = [pc EXCEPT ![r] = "refused"]
              /\ UNCHANGED caps
  /\ UNCHANGED <<shared, req, version, decision, grant, impl, ran>>

\* claim_grant, which a suspension or an expiry since the verification refuses.
Claim(r) ==
  /\ pc[r] = "prepared"
  /\ \/ /\ grant' = [grant EXCEPT ![r].state = "spent"]
        /\ pc' = [pc EXCEPT ![r] = "claimed"]
     \/ /\ pc' = [pc EXCEPT ![r] = "refused"]
        /\ UNCHANGED grant
  /\ UNCHANGED <<shared, req, version, decision, impl, caps, ran>>

\* Mutant: the tool opens whatever the authorised name resolves to now.
Mut_resolve_for_execution(w, n) ==
  IF n \in Names /\ canonicalize(w, n) # Malformed THEN canonicalize(w, n) ELSE Malformed

\* resolve_for_execution: the identity must be its own canonical identity still.
resolve_for_execution(w, n) ==
  IF n \in Names /\ canonicalize(w, n) = n /\ link[w][n] # Missing THEN n ELSE Malformed

\* FileReadTool.read, which the packaged wrapper gives the workspace of profile p.
read(p, n) == resolve_for_execution(RootOf[p], n)

\* _run: without a declared implementation the execution is refused, after the claim;
\* otherwise the packaged tool runs in the workspace of the resolved profile.
Run(r) ==
  /\ pc[r] = "claimed"
  /\ IF impl[r] = None
       THEN /\ pc' = [pc EXCEPT ![r] = "unpackaged"]
            /\ UNCHANGED ran
       ELSE /\ ran' = [ran EXCEPT ![r] =
                 [version |-> grant[r].version, impl |-> impl[r], profile |-> caps[r],
                  target |-> read(caps[r], grant[r].path)]]
            /\ pc' = [pc EXCEPT ![r] = "ran"]
  /\ UNCHANGED <<shared, req, version, decision, grant, impl, caps>>

-----------------------------------------------------------------------------
(* Operators and the file system.                                          *)

Operation == ops < MaxOps /\ ops' = ops + 1 /\ UNCHANGED local

\* ToolRegistry.register (i in Impls or None) and register_factory (None).
Register(v, i) ==
  /\ Operation
  /\ registry[v] = Unregistered
  /\ registry' = [registry EXCEPT ![v] = i]
  /\ UNCHANGED <<governance, profile, link, tier>>

\* ToolRegistry.unregister of one version, of the whole family, or clear.
Unregister(vs) ==
  /\ Operation
  /\ vs # {} /\ vs \subseteq Registered
  /\ Cardinality(vs) = 1 \/ vs = Registered
  /\ registry' = [v \in Versions |-> IF v \in vs THEN Unregistered ELSE registry[v]]
  /\ UNCHANGED <<governance, profile, link, tier>>

\* The tool repository keeps one record per version, replaced in place.
save(v, g) == governance' = [governance EXCEPT ![v] = g]

\* ToolService.register_tool: a new version, enabled or not as its metadata says.
RegisterTool(v) ==
  /\ Operation
  /\ governance[v] = "absent"
  /\ \E g \in {"enabled", "disabled"} : save(v, g)
  /\ UNCHANGED <<registry, profile, link, tier>>

\* ToolService.disable_tool and enable_tool.
SetEnabled(v) ==
  /\ Operation
  /\ governance[v] # "absent"
  /\ \E g \in {"enabled", "disabled"} \ {governance[v]} : save(v, g)
  /\ UNCHANGED <<registry, profile, link, tier>>

\* InMemoryCapabilityProfileRegistry.register_profile replaces.
RegisterProfile(p) ==
  /\ Operation
  /\ profile' = p /\ p # profile
  /\ UNCHANGED <<registry, governance, link, tier>>

\* Someone changes a directory entry of a workspace.
Relink(w, n, t) ==
  /\ Operation
  /\ link[w][n] # t
  /\ link' = [link EXCEPT ![w][n] = t]
  /\ UNCHANGED <<registry, governance, profile, tier>>

Step(r) ==
  \/ Resolve(r) \/ CheckEnabled(r) \/ Bind(r) \/ Authorize(r) \/ Issue(r)
  \/ Materialise(r) \/ VerifyAndPrepare(r) \/ Claim(r) \/ Run(r)

Next ==
  \/ \E r \in Requests : Step(r)
  \/ \E v \in Versions, i \in Impls \cup {None} : Register(v, i)
  \/ \E vs \in SUBSET Versions : Unregister(vs)
  \/ \E v \in Versions : RegisterTool(v) \/ SetEnabled(v)
  \/ \E p \in Profiles : RegisterProfile(p)
  \/ \E w \in Workspaces, n \in Names, t \in Names \cup {Outside, Missing} : Relink(w, n, t)

Spec == Init /\ [][Next]_vars

-----------------------------------------------------------------------------
(* Properties.                                                             *)

Path == Names \cup {None, Malformed}

TypeOK ==
  /\ registry \in [Versions -> Impls \cup {None, Unregistered}]
  /\ governance \in [Versions -> {"absent", "enabled", "disabled"}]
  /\ profile \in Profiles \cup {None}
  /\ link \in [Workspaces -> [Names -> Names \cup {Outside, Missing}]]
  /\ tier \in {"LOW", "HIGH"}
  /\ ops \in 0..MaxOps
  /\ pc \in [Requests -> {"idle", "resolved", "checked", "bound", "authorized", "granted",
                          "materialised", "prepared", "claimed", "ran", "unpackaged", "refused"}]
  /\ req \in [Requests -> [path : Path, resource : Path]]
  /\ version \in [Requests -> Versions \cup {None}]
  /\ decision \in [Requests -> {None, "ALLOW", "DENY", "APPROVAL_REQUIRED"}]
  /\ grant \in [Requests -> [state : {"none", "outstanding", "spent"}, version : Versions \cup {None},
                             resource : Path, path : Path, profile : Profiles \cup {None}]]
  /\ impl \in [Requests -> Impls \cup {None}]
  /\ caps \in [Requests -> Profiles \cup {None}]
  /\ ran \in [Requests -> [version : Versions \cup {None}, impl : Impls \cup {None},
                           profile : Profiles \cup {None}, target : Path]]

\* What the sandbox was given is what was granted: the capability set whose digest
\* the grant carries, and the version that governance had enabled for the request,
\* whatever was registered, replaced or disabled in between (tool_executor.py,
\* materialisation and verify_capability_binding).
ExecutionIsPinned ==
  \A r \in Requests :
    pc[r] = "ran" =>
      /\ ran[r].profile = grant[r].profile
      /\ ran[r].version = version[r] /\ ran[r].version \in list_versions

\* The file that is read is the one policy decided about, under the name policy saw:
\* not a protected one and not one outside the workspace, although entries may have
\* been replaced and the profile may have moved to another workspace since
\* (resolve_for_execution rechecks the identity).
PolicyAppliesToWhatIsRead ==
  \A r \in Requests :
    ran[r].target \in Names =>
      /\ ran[r].target = grant[r].resource
      /\ ran[r].target \notin Protected

\* Policy judges the family, the sandbox runs one version: the version that runs is
\* never one the agent's tier would have been refused, or held for approval, on its
\* own (get_family_governance aggregates registered versions, not enabled ones).
RanWithinTier ==
  \A r \in Requests :
    pc[r] = "ran" => evaluate_policy(tier, RiskOf[ran[r].version], None) = "ALLOW"

=============================================================================
