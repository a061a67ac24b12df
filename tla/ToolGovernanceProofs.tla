------------------------ MODULE ToolGovernanceProofs ------------------------
(***************************************************************************)
(* What runs is what was judged, for any number of requests, versions,     *)
(* profiles, workspaces and files, and however often operators and the     *)
(* file system intervene.                                                  *)
(***************************************************************************)
EXTENDS ToolGovernance, FiniteSetTheorems, TLAPS

\* The agent's tier may run this version on its own.
Permitted(v) == evaluate_policy(tier, RiskOf[v], None) = "ALLOW"

\* The version of a request, once governance was asked.
Governed(r) == version[r] # None => version[r] \in list_versions

\* What a request that was allowed may rely on.
Judged(r) == req[r].resource \notin Protected /\ (version[r] # None => Permitted(version[r]))

\* The grant of a request carries what was judged.
Granted(r) ==
  /\ version[r] # None
  /\ grant[r].version = version[r]
  /\ grant[r].profile \in Profiles
  /\ grant[r].resource \notin Protected
  /\ Permitted(version[r])

Own(r) ==
  /\ pc[r] \in {"checked", "bound", "authorized", "granted", "materialised", "prepared", "claimed",
                "ran"} => Governed(r)
  /\ pc[r] = "authorized" /\ decision[r] = "ALLOW" => Judged(r)
  /\ pc[r] \in {"granted", "materialised", "prepared", "claimed", "ran"} => Granted(r)
  /\ pc[r] \in {"prepared", "claimed", "ran"} =>
       BindingAgrees(grant[r]) /\ caps[r] = grant[r].profile
  /\ pc[r] # "ran" => ran[r] = NoRun
  /\ pc[r] = "ran" =>
       /\ ran[r].profile = caps[r]
       /\ ran[r].version = grant[r].version
       /\ ran[r].target \in Names => ran[r].target = grant[r].path

IInv == TypeOK /\ \A r \in Requests : Own(r)

-----------------------------------------------------------------------------
(* Operators.                                                              *)

\* The greatest of some risks is one of them and at least each of them.
LEMMA MaxRisk ==
  ASSUME NEW S, S \subseteq Risk, S # {}
  PROVE  Max(S) \in S /\ \A x \in S : x <= Max(S)
<1>1. \E m \in S : \A x \in S : m >= x
  <2>1. \A x \in S : x \in 0..3
    BY DEF Risk
  <2>2. CASE 3 \in S
    BY <2>1, <2>2
  <2>3. CASE 3 \notin S /\ 2 \in S
    BY <2>1, <2>3
  <2>4. CASE 3 \notin S /\ 2 \notin S /\ 1 \in S
    BY <2>1, <2>4
  <2>5. CASE 3 \notin S /\ 2 \notin S /\ 1 \notin S
    <3>1. \A x \in S : x = 0
      BY <2>1, <2>5
    <3> QED BY <3>1
  <2> QED BY <2>2, <2>3, <2>4, <2>5
<1>2. Max(S) \in S /\ \A x \in S : Max(S) >= x
  BY <1>1 DEF Max
<1>3. \A x \in S : x \in Nat
  BY DEF Risk
<1> QED BY <1>2, <1>3

\* A version the family is judged with is at most as risky as the family, so what policy
\* allows the family it allows the version.
LEMMA FamilyCoversVersion ==
  ASSUME TypeOK, NEW resource, NEW refused \in BOOLEAN, evaluate(resource, refused) = "ALLOW"
  PROVE  resource \notin Protected /\ \A v \in list_versions : Permitted(v)
<1> DEFINE risks == {RiskOf[v] : v \in list_versions}
<1>1. list_versions # {} /\ evaluate_policy(tier, Max(risks), resource) = "ALLOW"
  BY DEF evaluate, get_family_governance
<1>2. list_versions \subseteq Versions /\ RiskOf \in [Versions -> Risk] /\ None \notin Protected
  BY ToolAssumption DEF list_versions
<1>3. risks \subseteq Risk /\ risks # {}
  BY <1>1, <1>2
<1>4. Max(risks) \in risks /\ \A x \in risks : x <= Max(risks)
  <2> HIDE DEF risks
  <2> QED BY <1>3, MaxRisk
<1>5. resource \notin Protected
  BY <1>1 DEF evaluate_policy
<1>6. ASSUME NEW v \in list_versions PROVE Permitted(v)
  <2>1. RiskOf[v] \in 0..3 /\ Max(risks) \in 0..3 /\ RiskOf[v] <= Max(risks)
    BY <1>2, <1>3, <1>4 DEF Risk
  <2>2. ~(tier = "LOW" /\ Max(risks) >= HIGH) /\ Max(risks) # CRITICAL
    BY <1>1 DEF evaluate_policy
  <2> HIDE DEF risks
  <2>3. ~(tier = "LOW" /\ RiskOf[v] >= HIGH) /\ RiskOf[v] # CRITICAL
    BY <2>1, <2>2 DEF HIGH, CRITICAL
  <2> QED BY <1>2, <2>3 DEF Permitted, evaluate_policy
<1> QED BY <1>5, <1>6

\* resolve finds a version or nothing.
LEMMA ResolveType == resolve \in Versions \cup {None}
<1>1. CASE Cardinality(Registered) = 1
  <2>1. Registered # {}
    BY <1>1, FS_EmptySet
  <2> QED BY <1>1, <2>1 DEF resolve, Registered
<1>2. CASE Cardinality(Registered) # 1
  BY <1>2 DEF resolve
<1> QED BY <1>1, <1>2

\* A canonical identity is a name of the workspace or none.
LEMMA CanonicalType ==
  \A w, n : canonicalize(w, n) \in Names \cup {Malformed}
<1> SUFFICES ASSUME NEW w, NEW n PROVE canonicalize(w, n) \in Names \cup {Malformed}
  OBVIOUS
<1> QED BY DEF canonicalize

\* The special values are no names.
LEMMA NotNames == None \notin Names /\ Malformed \notin Names
BY ToolAssumption

-----------------------------------------------------------------------------
(* Steps.                                                                  *)

\* A request that a step leaves alone keeps what is its own: tiers do not change, and no
\* version leaves governance.
LEMMA OwnFrame ==
  ASSUME NEW q \in Requests, Own(q), UNCHANGED tier, list_versions \subseteq list_versions',
         pc'[q] = pc[q], req'[q] = req[q], version'[q] = version[q], decision'[q] = decision[q],
         grant'[q] = grant[q], caps'[q] = caps[q], ran'[q] = ran[q]
  PROVE  Own(q)'
<1>1. Permitted(version[q]) => Permitted(version[q])'
  BY DEF Permitted, evaluate_policy
<1>2. Governed(q) => Governed(q)'
  BY DEF Governed
<1>3. Judged(q) => Judged(q)'
  BY <1>1 DEF Judged
<1>4. Granted(q) => Granted(q)'
  BY <1>1 DEF Granted
<1> QED BY <1>2, <1>3, <1>4 DEF Own, BindingAgrees

\* A step of one request: the others, and what is shared, stay.
LEMMA RequestFrame ==
  ASSUME IInv, NEW r \in Requests, UNCHANGED shared,
         \A q \in Requests \ {r} :
           /\ pc'[q] = pc[q] /\ req'[q] = req[q] /\ version'[q] = version[q]
           /\ decision'[q] = decision[q] /\ grant'[q] = grant[q] /\ caps'[q] = caps[q]
           /\ ran'[q] = ran[q],
         Own(r)', TypeOK'
  PROVE  IInv'
<1>1. UNCHANGED tier /\ list_versions' = list_versions
  BY DEF shared, list_versions
<1>2. \A q \in Requests \ {r} : Own(q)'
  BY <1>1, OwnFrame DEF IInv
<1> QED BY <1>2 DEF IInv

PC == {"idle", "resolved", "checked", "bound", "authorized", "granted", "materialised", "prepared",
       "claimed", "ran", "unpackaged", "refused"}

Asked == [path : Path, resource : Path]

Grant == [state : {"none", "outstanding", "spent"}, version : Versions \cup {None},
          resource : Path, path : Path, profile : Profiles \cup {None}]

Outcome == [version : Versions \cup {None}, impl : Impls \cup {None},
            profile : Profiles \cup {None}, target : Path]

\* The version is resolved.
LEMMA ResolveStep == ASSUME IInv, NEW r \in Requests, Resolve(r) PROVE IInv'
<1>1. PICK path \in Path, resource \in Path :
        req' = [req EXCEPT ![r] = [path |-> path, resource |-> resource]]
  BY DEF Resolve, Path
<1>2. /\ TypeOK /\ Own(r) /\ pc[r] = "idle" /\ UNCHANGED <<shared, decision, grant, impl, caps, ran>>
      /\ version' = [version EXCEPT ![r] = resolve] /\ pc' = [pc EXCEPT ![r] = "resolved"]
  BY DEF IInv, Resolve
<1>3. resolve \in Versions \cup {None}
  BY ResolveType
<1> HIDE DEF resolve
<1>4. TypeOK'
  <2>1. req' \in [Requests -> Asked]
    BY <1>1, <1>2 DEF TypeOK, Asked
  <2>2. version' \in [Requests -> Versions \cup {None}] /\ pc' \in [Requests -> PC]
    BY <1>2, <1>3 DEF TypeOK, PC
  <2> QED BY <1>2, <2>1, <2>2 DEF TypeOK, shared, Asked, PC
<1>5. pc'[r] = "resolved" /\ ran'[r] = ran[r]
  BY <1>2 DEF TypeOK
<1>6. Own(r)'
  BY <1>2, <1>5 DEF Own
<1>7. \A q \in Requests \ {r} :
        /\ pc'[q] = pc[q] /\ req'[q] = req[q] /\ version'[q] = version[q]
        /\ decision'[q] = decision[q] /\ grant'[q] = grant[q] /\ caps'[q] = caps[q]
        /\ ran'[q] = ran[q]
  BY <1>1, <1>2 DEF TypeOK
<1> QED BY <1>2, <1>4, <1>6, <1>7, RequestFrame

\* Governance is asked.
LEMMA CheckEnabledStep == ASSUME IInv, NEW r \in Requests, CheckEnabled(r) PROVE IInv'
<1> DEFINE v == IF version_is_enabled(version[r]) THEN version[r] ELSE None
<1>1. /\ TypeOK /\ Own(r) /\ pc[r] = "resolved"
      /\ UNCHANGED <<shared, req, decision, grant, impl, caps, ran>>
      /\ version' = [version EXCEPT ![r] = v] /\ pc' = [pc EXCEPT ![r] = "checked"]
  BY DEF IInv, CheckEnabled
<1>2. /\ v \in Versions \cup {None}
      /\ v # None => v \in list_versions
  BY <1>1 DEF TypeOK, version_is_enabled, list_versions
<1> HIDE DEF v
<1>3. TypeOK'
  <2>1. version' \in [Requests -> Versions \cup {None}] /\ pc' \in [Requests -> PC]
    BY <1>1, <1>2 DEF TypeOK, PC
  <2> QED BY <1>1, <2>1 DEF TypeOK, shared, PC
<1>4. /\ pc'[r] = "checked" /\ ran'[r] = ran[r] /\ version'[r] = v
      /\ list_versions' = list_versions
  BY <1>1 DEF TypeOK, list_versions, shared
<1>5. Own(r)'
  BY <1>1, <1>2, <1>4 DEF Own, Governed
<1>6. \A q \in Requests \ {r} :
        /\ pc'[q] = pc[q] /\ req'[q] = req[q] /\ version'[q] = version[q]
        /\ decision'[q] = decision[q] /\ grant'[q] = grant[q] /\ caps'[q] = caps[q]
        /\ ran'[q] = ran[q]
  BY <1>1 DEF TypeOK
<1> QED BY <1>1, <1>3, <1>5, <1>6, RequestFrame

\* The filesystem gate binds the request to a canonical target, or refuses it.
LEMMA BindStep == ASSUME IInv, NEW r \in Requests, Bind(r) PROVE IInv'
<1> DEFINE c == Canonical(req[r])
           q0 == [path |-> c.path, resource |-> IF c.path # None THEN c.path ELSE c.resource]
<1>1. /\ TypeOK /\ Own(r) /\ pc[r] = "checked"
      /\ UNCHANGED <<shared, version, grant, impl, caps, ran>>
  BY DEF IInv, Bind
<1>2. \/ /\ req' = [req EXCEPT ![r] = q0] /\ pc' = [pc EXCEPT ![r] = "bound"]
         /\ UNCHANGED decision
      \/ /\ decision' = [decision EXCEPT ![r] = "DENY"] /\ pc' = [pc EXCEPT ![r] = "refused"]
         /\ UNCHANGED req
      \/ pc' = [pc EXCEPT ![r] = "bound"] /\ UNCHANGED <<req, decision>>
  BY DEF Bind
<1>3. c.path \in Path /\ c.resource \in Path
  BY CanonicalType DEF Canonical, Path
<1> HIDE DEF c
<1>4. q0 \in Asked
  BY <1>3 DEF Asked
<1> HIDE DEF q0
<1>5. TypeOK'
  <2>1. req' \in [Requests -> Asked]
    BY <1>1, <1>2, <1>4 DEF TypeOK, Asked
  <2>2. pc' \in [Requests -> PC]
    BY <1>1, <1>2 DEF TypeOK, PC
  <2>3. decision' \in [Requests -> {None, "ALLOW", "DENY", "APPROVAL_REQUIRED"}]
    BY <1>1, <1>2 DEF TypeOK
  <2> QED BY <1>1, <2>1, <2>2, <2>3 DEF TypeOK, shared, PC, Asked
<1>6. /\ pc'[r] \in {"bound", "refused"} /\ ran'[r] = ran[r] /\ version'[r] = version[r]
      /\ list_versions' = list_versions
  BY <1>1, <1>2 DEF TypeOK, list_versions, shared
<1>7. Own(r)'
  BY <1>1, <1>6 DEF Own, Governed
<1>8. \A q \in Requests \ {r} :
        /\ pc'[q] = pc[q] /\ req'[q] = req[q] /\ version'[q] = version[q]
        /\ decision'[q] = decision[q] /\ grant'[q] = grant[q] /\ caps'[q] = caps[q]
        /\ ran'[q] = ran[q]
  BY <1>1, <1>2 DEF TypeOK
<1> QED BY <1>1, <1>5, <1>7, <1>8, RequestFrame

\* Policy decides on the canonical resource and the family.
LEMMA AuthorizeStep == ASSUME IInv, NEW r \in Requests, Authorize(r) PROVE IInv'
<1>1. PICK refused \in BOOLEAN :
        decision' = [decision EXCEPT ![r] = evaluate(req[r].resource, refused)]
  BY DEF Authorize
<1> DEFINE d == evaluate(req[r].resource, refused)
<1>2. /\ TypeOK /\ Own(r) /\ pc[r] = "bound"
      /\ UNCHANGED <<shared, req, version, grant, impl, caps, ran>>
      /\ decision' = [decision EXCEPT ![r] = d]
      /\ pc' = [pc EXCEPT ![r] = "authorized"]
  BY <1>1 DEF IInv, Authorize
<1>3. d \in {"ALLOW", "DENY", "APPROVAL_REQUIRED"}
  BY DEF evaluate, evaluate_policy
<1>4. d = "ALLOW" => Judged(r)
  BY <1>2, FamilyCoversVersion DEF Own, Governed, Judged
<1> HIDE DEF d
<1>5. TypeOK'
  <2>1. pc' \in [Requests -> PC]
    BY <1>2 DEF TypeOK, PC
  <2>2. decision' \in [Requests -> {None, "ALLOW", "DENY", "APPROVAL_REQUIRED"}]
    BY <1>2, <1>3 DEF TypeOK
  <2> QED BY <1>2, <2>1, <2>2 DEF TypeOK, shared, PC
<1>6. /\ pc'[r] = "authorized" /\ ran'[r] = ran[r] /\ version'[r] = version[r]
      /\ req'[r] = req[r] /\ decision'[r] = d
      /\ list_versions' = list_versions /\ UNCHANGED tier
  BY <1>2 DEF TypeOK, list_versions, shared
<1>7. Own(r)'
  <2>1. Governed(r)'
    BY <1>2, <1>6 DEF Own, Governed
  <2>2. d = "ALLOW" => Judged(r)'
    BY <1>4, <1>6 DEF Judged, Permitted, evaluate_policy
  <2> QED BY <1>2, <1>6, <2>1, <2>2 DEF Own
<1>8. \A q \in Requests \ {r} :
        /\ pc'[q] = pc[q] /\ req'[q] = req[q] /\ version'[q] = version[q]
        /\ decision'[q] = decision[q] /\ grant'[q] = grant[q] /\ caps'[q] = caps[q]
        /\ ran'[q] = ran[q]
  BY <1>2 DEF TypeOK
<1> QED BY <1>2, <1>5, <1>7, <1>8, RequestFrame

\* A grant is issued for what was allowed, or the request is refused.
LEMMA IssueStep == ASSUME IInv, NEW r \in Requests, Issue(r) PROVE IInv'
<1> DEFINE g == [state |-> "outstanding", version |-> version[r], resource |-> req[r].resource,
                 path |-> req[r].path, profile |-> profile]
<1>1. /\ TypeOK /\ Own(r) /\ pc[r] = "authorized"
      /\ UNCHANGED <<shared, req, version, impl, caps, ran>>
  BY DEF IInv, Issue
<1>2. /\ ran'[r] = ran[r] /\ version'[r] = version[r] /\ caps'[r] = caps[r]
      /\ list_versions' = list_versions /\ UNCHANGED tier
  BY <1>1 DEF TypeOK, list_versions, shared
<1>3. CASE /\ decision[r] = "ALLOW" /\ version[r] # None /\ profile # None
           /\ grant' = [grant EXCEPT ![r] = g] /\ pc' = [pc EXCEPT ![r] = "granted"]
           /\ UNCHANGED decision
  <2>1. g \in Grant /\ g.version = version[r] /\ g.profile = profile /\ g.resource = req[r].resource
    BY <1>1 DEF TypeOK, Grant
  <2> HIDE DEF g
  <2>2. TypeOK'
    <3>1. grant' \in [Requests -> Grant] /\ pc' \in [Requests -> PC]
      BY <1>1, <1>3, <2>1 DEF TypeOK, PC, Grant
    <3> QED BY <1>1, <1>3, <3>1 DEF TypeOK, shared, PC, Grant
  <2>3. pc'[r] = "granted" /\ grant'[r] = g
    BY <1>1, <1>3 DEF TypeOK
  <2>4. Granted(r)'
    <3>1. Judged(r) /\ profile \in Profiles
      BY <1>1, <1>3 DEF Own, TypeOK
    <3> QED BY <1>2, <1>3, <2>1, <2>3, <3>1 DEF Granted, Judged, Permitted, evaluate_policy
  <2>5. Own(r)'
    BY <1>1, <1>2, <2>3, <2>4 DEF Own, Governed
  <2>6. \A q \in Requests \ {r} :
          /\ pc'[q] = pc[q] /\ req'[q] = req[q] /\ version'[q] = version[q]
          /\ decision'[q] = decision[q] /\ grant'[q] = grant[q] /\ caps'[q] = caps[q]
          /\ ran'[q] = ran[q]
    BY <1>1, <1>3 DEF TypeOK
  <2> QED BY <1>1, <2>2, <2>5, <2>6, RequestFrame
<1>4. CASE /\ decision' = [decision EXCEPT ![r] = IF decision[r] = "ALLOW" THEN "DENY"
                                                  ELSE decision[r]]
           /\ pc' = [pc EXCEPT ![r] = "refused"] /\ UNCHANGED grant
  <2>1. TypeOK'
    <3>1. pc' \in [Requests -> PC]
      BY <1>1, <1>4 DEF TypeOK, PC
    <3>2. decision' \in [Requests -> {None, "ALLOW", "DENY", "APPROVAL_REQUIRED"}]
      BY <1>1, <1>4 DEF TypeOK
    <3> QED BY <1>1, <1>4, <3>1, <3>2 DEF TypeOK, shared, PC
  <2>2. pc'[r] = "refused"
    BY <1>1, <1>4 DEF TypeOK
  <2>3. Own(r)'
    BY <1>1, <1>2, <2>2 DEF Own
  <2>4. \A q \in Requests \ {r} :
          /\ pc'[q] = pc[q] /\ req'[q] = req[q] /\ version'[q] = version[q]
          /\ decision'[q] = decision[q] /\ grant'[q] = grant[q] /\ caps'[q] = caps[q]
          /\ ran'[q] = ran[q]
    BY <1>1, <1>4 DEF TypeOK
  <2> QED BY <1>1, <2>1, <2>3, <2>4, RequestFrame
<1> QED BY <1>3, <1>4 DEF Issue

\* The descriptor of the granted version is materialised.
LEMMA MaterialiseStep == ASSUME IInv, NEW r \in Requests, Materialise(r) PROVE IInv'
<1>1. /\ TypeOK /\ Own(r) /\ pc[r] = "granted"
      /\ UNCHANGED <<shared, req, version, decision, grant, caps, ran>>
  BY DEF IInv, Materialise
<1>2. \/ /\ grant[r].version \in Registered
         /\ impl' = [impl EXCEPT ![r] = registry[grant[r].version]]
         /\ pc' = [pc EXCEPT ![r] = "materialised"]
      \/ pc' = [pc EXCEPT ![r] = "refused"] /\ UNCHANGED impl
  BY DEF Materialise
<1>3. grant[r].version \in Registered => registry[grant[r].version] \in Impls \cup {None}
  BY <1>1 DEF TypeOK, Registered
<1>4. TypeOK'
  <2>1. impl' \in [Requests -> Impls \cup {None}]
    BY <1>1, <1>2, <1>3 DEF TypeOK
  <2>2. pc' \in [Requests -> PC]
    BY <1>1, <1>2 DEF TypeOK, PC
  <2> QED BY <1>1, <2>1, <2>2 DEF TypeOK, shared, PC
<1>5. /\ pc'[r] \in {"materialised", "refused"} /\ ran'[r] = ran[r] /\ version'[r] = version[r]
      /\ grant'[r] = grant[r] /\ list_versions' = list_versions /\ UNCHANGED tier
  BY <1>1, <1>2 DEF TypeOK, list_versions, shared
<1>6. Own(r)'
  BY <1>1, <1>5 DEF Own, Governed, Granted, Permitted, evaluate_policy
<1>7. \A q \in Requests \ {r} :
        /\ pc'[q] = pc[q] /\ req'[q] = req[q] /\ version'[q] = version[q]
        /\ decision'[q] = decision[q] /\ grant'[q] = grant[q] /\ caps'[q] = caps[q]
        /\ ran'[q] = ran[q]
  BY <1>1, <1>2 DEF TypeOK
<1> QED BY <1>1, <1>4, <1>6, <1>7, RequestFrame

\* The grant is verified against the profile of the moment, which must be the granted one.
LEMMA VerifyAndPrepareStep == ASSUME IInv, NEW r \in Requests, VerifyAndPrepare(r) PROVE IInv'
<1>1. /\ TypeOK /\ Own(r) /\ pc[r] = "materialised"
      /\ UNCHANGED <<shared, req, version, decision, grant, impl, ran>>
  BY DEF IInv, VerifyAndPrepare
<1>2. \/ /\ BindingAgrees(grant[r]) /\ verify_capability_binding(grant[r], profile)
         /\ caps' = [caps EXCEPT ![r] = profile]
         /\ pc' = [pc EXCEPT ![r] = "prepared"]
      \/ pc' = [pc EXCEPT ![r] = "refused"] /\ UNCHANGED caps
  BY DEF VerifyAndPrepare
<1>3. TypeOK'
  <2>1. caps' \in [Requests -> Profiles \cup {None}]
    BY <1>1, <1>2 DEF TypeOK
  <2>2. pc' \in [Requests -> PC]
    BY <1>1, <1>2 DEF TypeOK, PC
  <2> QED BY <1>1, <2>1, <2>2 DEF TypeOK, shared, PC
<1>4. /\ pc'[r] \in {"prepared", "refused"} /\ ran'[r] = ran[r] /\ version'[r] = version[r]
      /\ grant'[r] = grant[r] /\ list_versions' = list_versions /\ UNCHANGED tier
      /\ pc'[r] = "prepared" => BindingAgrees(grant[r]) /\ caps'[r] = grant[r].profile
  BY <1>1, <1>2 DEF TypeOK, list_versions, shared, verify_capability_binding
<1>5. Own(r)'
  BY <1>1, <1>4 DEF Own, Governed, Granted, Permitted, evaluate_policy, BindingAgrees
<1>6. \A q \in Requests \ {r} :
        /\ pc'[q] = pc[q] /\ req'[q] = req[q] /\ version'[q] = version[q]
        /\ decision'[q] = decision[q] /\ grant'[q] = grant[q] /\ caps'[q] = caps[q]
        /\ ran'[q] = ran[q]
  BY <1>1, <1>2 DEF TypeOK
<1> QED BY <1>1, <1>3, <1>5, <1>6, RequestFrame

\* The grant is claimed, or refused.
LEMMA ClaimStep == ASSUME IInv, NEW r \in Requests, Claim(r) PROVE IInv'
<1> DEFINE g == [grant[r] EXCEPT !.state = "spent"]
<1>1. /\ TypeOK /\ Own(r) /\ pc[r] = "prepared"
      /\ UNCHANGED <<shared, req, version, decision, impl, caps, ran>>
      /\ grant \in [Requests -> Grant]
  BY DEF IInv, Claim, TypeOK, Grant
<1>2. \/ grant' = [grant EXCEPT ![r] = g] /\ pc' = [pc EXCEPT ![r] = "claimed"]
      \/ pc' = [pc EXCEPT ![r] = "refused"] /\ UNCHANGED grant
  BY <1>1 DEF Claim
<1>3. /\ g \in Grant /\ g.version = grant[r].version /\ g.profile = grant[r].profile
      /\ g.resource = grant[r].resource /\ g.path = grant[r].path
  BY <1>1 DEF Grant
<1> HIDE DEF g
<1>4. TypeOK'
  <2>1. grant' \in [Requests -> Grant]
    BY <1>1, <1>2, <1>3
  <2>2. pc' \in [Requests -> PC]
    BY <1>1, <1>2 DEF TypeOK, PC
  <2> QED BY <1>1, <2>1, <2>2 DEF TypeOK, shared, PC, Grant
<1>5. /\ pc'[r] \in {"claimed", "refused"} /\ ran'[r] = ran[r] /\ version'[r] = version[r]
      /\ caps'[r] = caps[r] /\ list_versions' = list_versions /\ UNCHANGED tier
      /\ grant'[r].version = grant[r].version /\ grant'[r].profile = grant[r].profile
      /\ grant'[r].resource = grant[r].resource /\ grant'[r].path = grant[r].path
  BY <1>1, <1>2, <1>3 DEF TypeOK, list_versions, shared
<1>6. Own(r)'
  BY <1>1, <1>5 DEF Own, Governed, Granted, Permitted, evaluate_policy, BindingAgrees
<1>7. \A q \in Requests \ {r} :
        /\ pc'[q] = pc[q] /\ req'[q] = req[q] /\ version'[q] = version[q]
        /\ decision'[q] = decision[q] /\ grant'[q] = grant[q] /\ caps'[q] = caps[q]
        /\ ran'[q] = ran[q]
  BY <1>1, <1>2 DEF TypeOK
<1> QED BY <1>1, <1>4, <1>6, <1>7, RequestFrame

\* The tool runs on the authorised name, if that is still its own identity.
LEMMA RunStep == ASSUME IInv, NEW r \in Requests, Run(r) PROVE IInv'
<1> DEFINE t == read(caps[r], grant[r].path)
           o == [version |-> grant[r].version, impl |-> impl[r], profile |-> caps[r], target |-> t]
<1>1. /\ TypeOK /\ Own(r) /\ pc[r] = "claimed"
      /\ UNCHANGED <<shared, req, version, decision, grant, impl, caps>>
      /\ grant \in [Requests -> Grant] /\ ran \in [Requests -> Outcome]
  BY DEF IInv, Run, TypeOK, Grant, Outcome
<1>2. \/ ran' = [ran EXCEPT ![r] = o] /\ pc' = [pc EXCEPT ![r] = "ran"]
      \/ pc' = [pc EXCEPT ![r] = "unpackaged"] /\ UNCHANGED ran
  BY DEF Run
<1>3. t \in Names \cup {Malformed} /\ (t \in Names => t = grant[r].path)
  BY NotNames DEF read, resolve_for_execution
<1> HIDE DEF t
<1>4. /\ o \in Outcome /\ o.version = grant[r].version /\ o.profile = caps[r] /\ o.target = t
  BY <1>1, <1>3 DEF TypeOK, Outcome, Grant, Path
<1> HIDE DEF o
<1>5. TypeOK'
  <2>1. ran' \in [Requests -> Outcome]
    BY <1>1, <1>2, <1>4
  <2>2. pc' \in [Requests -> PC]
    BY <1>1, <1>2 DEF TypeOK, PC
  <2> QED BY <1>1, <2>1, <2>2 DEF TypeOK, shared, PC, Outcome
<1>6. /\ version'[r] = version[r] /\ caps'[r] = caps[r] /\ grant'[r] = grant[r]
      /\ list_versions' = list_versions /\ UNCHANGED tier
      /\ \/ pc'[r] = "ran" /\ ran'[r] = o
         \/ pc'[r] = "unpackaged" /\ ran'[r] = ran[r]
  BY <1>1, <1>2 DEF TypeOK, list_versions, shared
<1>7. Own(r)'
  <2>1. CASE pc'[r] = "unpackaged" /\ ran'[r] = ran[r]
    BY <1>1, <2>1 DEF Own
  <2>2. CASE pc'[r] = "ran" /\ ran'[r] = o
    <3>1. Governed(r)' /\ Granted(r)'
      BY <1>1, <1>6 DEF Own, Governed, Granted, Permitted, evaluate_policy
    <3>2. BindingAgrees(grant'[r]) /\ caps'[r] = grant'[r].profile
      BY <1>1, <1>6 DEF Own
    <3>3. /\ ran'[r].profile = caps'[r] /\ ran'[r].version = grant'[r].version
          /\ ran'[r].target \in Names => ran'[r].target = grant'[r].path
      BY <1>3, <1>4, <1>6, <2>2
    <3> QED BY <2>2, <3>1, <3>2, <3>3 DEF Own, BindingAgrees
  <2> QED BY <1>6, <2>1, <2>2
<1>8. \A q \in Requests \ {r} :
        /\ pc'[q] = pc[q] /\ req'[q] = req[q] /\ version'[q] = version[q]
        /\ decision'[q] = decision[q] /\ grant'[q] = grant[q] /\ caps'[q] = caps[q]
        /\ ran'[q] = ran[q]
  BY <1>1, <1>2 DEF TypeOK
<1> QED BY <1>1, <1>5, <1>7, <1>8, RequestFrame

\* What operators and the file system do: requests keep what they have judged and bound.
LEMMA OperationFrame ==
  ASSUME IInv, Operation, UNCHANGED tier, list_versions \subseteq list_versions',
         registry' \in [Versions -> Impls \cup {None, Unregistered}],
         governance' \in [Versions -> {"absent", "enabled", "disabled"}],
         profile' \in Profiles \cup {None},
         link' \in [Workspaces -> [Names -> Names \cup {Outside, Missing}]]
  PROVE  IInv'
<1>1. TypeOK /\ UNCHANGED <<pc, req, version, decision, grant, impl, caps, ran>>
  BY DEF IInv, Operation, local
<1>2. ops' \in 0..MaxOps
  BY <1>1, ToolAssumption DEF Operation, TypeOK
<1>3. TypeOK'
  BY <1>1, <1>2 DEF TypeOK
<1>4. \A q \in Requests : Own(q)'
  BY <1>1, OwnFrame DEF IInv
<1> QED BY <1>3, <1>4 DEF IInv

\* Each of their operations.
LEMMA OperationStep ==
  ASSUME IInv,
         \/ \E v \in Versions, i \in Impls \cup {None} : Register(v, i)
         \/ \E vs \in SUBSET Versions : Unregister(vs)
         \/ \E v \in Versions : RegisterTool(v) \/ SetEnabled(v)
         \/ \E p \in Profiles : RegisterProfile(p)
         \/ \E w \in Workspaces, n \in Names, t \in Names \cup {Outside, Missing} : Relink(w, n, t)
  PROVE  IInv'
<1>1. TypeOK
  BY DEF IInv
<1>2. /\ registry \in [Versions -> Impls \cup {None, Unregistered}]
      /\ governance \in [Versions -> {"absent", "enabled", "disabled"}]
      /\ profile \in Profiles \cup {None}
      /\ link \in [Workspaces -> [Names -> Names \cup {Outside, Missing}]]
  BY <1>1 DEF TypeOK
<1>3. UNCHANGED governance => list_versions \subseteq list_versions'
  BY DEF list_versions
<1>4. ASSUME NEW v \in Versions, NEW i \in Impls \cup {None}, Register(v, i) PROVE IInv'
  <2>1. /\ Operation /\ UNCHANGED <<governance, profile, link, tier>>
        /\ registry' \in [Versions -> Impls \cup {None, Unregistered}]
    BY <1>2, <1>4 DEF Register
  <2> QED BY <1>2, <1>3, <2>1, OperationFrame
<1>5. ASSUME NEW vs \in SUBSET Versions, Unregister(vs) PROVE IInv'
  <2>1. /\ Operation /\ UNCHANGED <<governance, profile, link, tier>>
        /\ registry' = [v \in Versions |-> IF v \in vs THEN Unregistered ELSE registry[v]]
    BY <1>5 DEF Unregister
  <2>2. registry' \in [Versions -> Impls \cup {None, Unregistered}]
    BY <1>2, <2>1
  <2> QED BY <1>2, <1>3, <2>1, <2>2, OperationFrame
<1>6. ASSUME NEW v \in Versions, RegisterTool(v) \/ SetEnabled(v) PROVE IInv'
  <2>1. PICK g \in {"enabled", "disabled"} : governance' = [governance EXCEPT ![v] = g]
    BY <1>6 DEF RegisterTool, SetEnabled, save
  <2>2. Operation /\ UNCHANGED <<registry, profile, link, tier>>
    BY <1>6 DEF RegisterTool, SetEnabled
  <2>3. /\ governance' \in [Versions -> {"absent", "enabled", "disabled"}]
        /\ list_versions \subseteq list_versions'
    BY <1>2, <2>1 DEF list_versions
  <2> QED BY <1>2, <2>2, <2>3, OperationFrame
<1>7. ASSUME NEW p \in Profiles, RegisterProfile(p) PROVE IInv'
  <2>1. Operation /\ UNCHANGED <<registry, governance, link, tier>> /\ profile' = p
    BY <1>7 DEF RegisterProfile
  <2> QED BY <1>2, <1>3, <2>1, OperationFrame
<1>8. ASSUME NEW w \in Workspaces, NEW n \in Names, NEW t \in Names \cup {Outside, Missing},
             Relink(w, n, t)
      PROVE  IInv'
  <2>1. /\ Operation /\ UNCHANGED <<registry, governance, profile, tier>>
        /\ link' = [link EXCEPT ![w] = [link[w] EXCEPT ![n] = t]]
    BY <1>8 DEF Relink
  <2>2. link' \in [Workspaces -> [Names -> Names \cup {Outside, Missing}]]
    BY <1>2, <2>1
  <2> QED BY <1>2, <1>3, <2>1, <2>2, OperationFrame
<1> QED BY <1>4, <1>5, <1>6, <1>7, <1>8

-----------------------------------------------------------------------------
(* Theorems.                                                               *)

\* At first no request has begun.
LEMMA InitIInv == Init => IInv
<1> SUFFICES ASSUME Init PROVE IInv
  OBVIOUS
<1>1. /\ NoRequest \in Asked /\ NoGrant \in Grant /\ NoRun \in Outcome
  BY DEF NoRequest, NoGrant, NoRun, Asked, Grant, Outcome, Path
<1> HIDE DEF NoRequest, NoGrant, NoRun
<1>2. TypeOK
  <2>1. /\ pc \in [Requests -> PC] /\ req \in [Requests -> Asked] /\ grant \in [Requests -> Grant]
        /\ ran \in [Requests -> Outcome]
    BY <1>1 DEF Init, PC
  <2>2. link \in [Workspaces -> [Names -> Names \cup {Outside, Missing}]]
    BY DEF Init
  <2>3. ops \in 0..MaxOps
    BY ToolAssumption DEF Init
  <2> QED BY <2>1, <2>2, <2>3 DEF Init, TypeOK, PC, Asked, Grant, Outcome
<1>3. \A r \in Requests : pc[r] = "idle" /\ ran[r] = NoRun
  BY DEF Init
<1>4. \A r \in Requests : Own(r)
  BY <1>3 DEF Own
<1> QED BY <1>2, <1>4 DEF IInv

\* Every step of requests, operators and the file system preserves the invariant.
LEMMA NextIInv == IInv /\ [Next]_vars => IInv'
<1> SUFFICES ASSUME IInv, [Next]_vars PROVE IInv'
  OBVIOUS
<1>1. ASSUME NEW r \in Requests, Step(r) PROVE IInv'
  BY <1>1, ResolveStep, CheckEnabledStep, BindStep, AuthorizeStep, IssueStep, MaterialiseStep,
     VerifyAndPrepareStep, ClaimStep, RunStep DEF Step
<1>2. CASE UNCHANGED vars
  <2>1. /\ UNCHANGED <<pc, req, version, decision, grant, impl, caps, ran>>
        /\ UNCHANGED <<registry, governance, profile, link, tier, ops>>
    BY <1>2 DEF vars, shared, local
  <2>2. TypeOK'
    BY <2>1 DEF IInv, TypeOK
  <2>3. list_versions' = list_versions
    BY <2>1 DEF list_versions
  <2>4. \A q \in Requests : Own(q)'
    BY <2>1, <2>3, OwnFrame DEF IInv
  <2> QED BY <2>2, <2>4 DEF IInv
<1>3. CASE Next
  BY <1>1, <1>3, OperationStep DEF Next
<1> QED BY <1>2, <1>3

\* The inductive invariant holds in every reachable state.
THEOREM Invariance == Spec => []IInv
BY InitIInv, NextIInv, PTL DEF Spec

\* Registry, governance, profiles, files and requests keep their types.
THEOREM TypeCorrect == Spec => []TypeOK
<1>1. IInv => TypeOK
  BY DEF IInv
<1> QED BY <1>1, Invariance, PTL

\* DefaultToolExecutor runs the version that governance had enabled for the request and the
\* capability set the grant was issued for, whatever is registered or replaced meanwhile.
THEOREM ExecutionPinned == Spec => []ExecutionIsPinned
<1>1. IInv => ExecutionIsPinned
  <2> SUFFICES ASSUME IInv, NEW r \in Requests, pc[r] = "ran"
               PROVE  /\ ran[r].profile = grant[r].profile
                      /\ ran[r].version = version[r] /\ ran[r].version \in list_versions
    BY DEF ExecutionIsPinned
  <2> QED BY DEF IInv, Own, Granted, Governed
<1> QED BY <1>1, Invariance, PTL

\* The file a tool reads is the one policy judged and is not protected, whatever happens to the
\* directory and the profile between the judgement and the read.
THEOREM PolicyReachesTheRead == Spec => []PolicyAppliesToWhatIsRead
<1>1. IInv => PolicyAppliesToWhatIsRead
  <2> SUFFICES ASSUME IInv, NEW r \in Requests, ran[r].target \in Names
               PROVE  ran[r].target = grant[r].resource /\ ran[r].target \notin Protected
    BY DEF PolicyAppliesToWhatIsRead
  <2>1. Own(r)
    BY DEF IInv
  <2>2. pc[r] = "ran"
    BY <2>1, NotNames DEF Own, NoRun
  <2> QED BY <2>1, <2>2 DEF Own, Granted, BindingAgrees
<1> QED BY <1>1, Invariance, PTL

\* The version that runs is one the agent's tier may run on its own: the family is judged by
\* its most restrictive version, disabled ones included.
THEOREM VersionsWithinTier == Spec => []RanWithinTier
<1>1. IInv => RanWithinTier
  <2> SUFFICES ASSUME IInv, NEW r \in Requests, pc[r] = "ran"
               PROVE  evaluate_policy(tier, RiskOf[ran[r].version], None) = "ALLOW"
    BY DEF RanWithinTier
  <2> QED BY DEF IInv, Own, Granted, Permitted
<1> QED BY <1>1, Invariance, PTL
=============================================================================
