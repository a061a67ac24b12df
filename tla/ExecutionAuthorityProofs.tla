------------------------ MODULE ExecutionAuthorityProofs ------------------------
(***************************************************************************)
(* What ExecutionAuthority guarantees for every set of agents, bindings    *)
(* and grants, every TTL and any number of restarts.                       *)
(***************************************************************************)
EXTENDS ExecutionAuthority, TLAPS

\* Every grant in a caller's hands was signed, in full, by the authority it names.
GrantsAreSigned ==
  \A g \in grants :
    /\ g.signature.key = g.authority_id
    /\ g.signature.payload = SignedPayload(g)

\* A grant expires one TTL after its issue, and none comes from the future.
GrantsAreBounded ==
  \A g \in grants :
    /\ g.expires_at = g.issued_at + TTL
    /\ g.issued_at <= now
    /\ g.authority_id <= authority_id

\* A grant id names one grant.
GrantIdsAreUnique ==
  \A g, h \in grants : g.grant_id = h.grant_id => g = h

\* An outstanding entry stands for a grant this authority issued, with the same identity
\* and expiry, that was neither claimed nor revoked.
OutstandingIsBacked ==
  \A o \in outstanding :
    /\ \E g \in grants : /\ g.grant_id = o.grant_id
                         /\ g.authority_id = authority_id
                         /\ g.agent_id = o.agent_id
                         /\ g.session_id = o.session_id
                         /\ g.expires_at = o.expires_at
    /\ claimed[o.grant_id] = 0
    /\ o.grant_id \notin withdrawn

\* Only an issued grant has a history.
HistoryIsOfIssuedGrants ==
  \A id \in GrantIds : ~Holds(grants, id) => claimed[id] = 0 /\ id \notin withdrawn

IInv ==
  /\ TypeOK
  /\ GrantsAreSigned
  /\ GrantsAreBounded
  /\ GrantIdsAreUnique
  /\ OutstandingIsBacked
  /\ HistoryIsOfIssuedGrants
  /\ ClosedGateHoldsNoGrant
  /\ SingleUse
  /\ RevocationIsFinal
  /\ ClaimsAreAsIssued

--------------------------------------------------------------------------------
\* A presentable object that verifies is one of the grants handed out: the signature
\* covers every field, so an altered copy does not verify.
LEMMA AuthenticIsGenuine ==
  ASSUME TypeOK, GrantsAreSigned, NEW p \in Presentable, Authentic(p)
  PROVE  p \in grants
<1>1. PICK g \in grants, c \in Alterations : p = Altered(g, c)
  BY Zenon DEF Presentable
<1>2. g \in Grant
  BY DEF TypeOK
<1>3. SignedPayload(p) = SignedPayload(g)
  <2>1. p.signature = g.signature
    BY <1>1 DEF Altered
  <2>2. p.signature.payload = SignedPayload(p)
    BY DEF Authentic, Sign
  <2>3. g.signature.payload = SignedPayload(g)
    BY Zenon DEF GrantsAreSigned
  <2> QED BY <2>1, <2>2, <2>3
<1>4. /\ p.grant_id = g.grant_id
      /\ p.authority_id = g.authority_id
      /\ p.agent_id = g.agent_id
      /\ p.session_id = g.session_id
      /\ p.binding = g.binding
      /\ p.expires_at = g.expires_at
  BY <1>3 DEF SignedPayload
<1>5. p = g
  BY <1>1, <1>2, <1>4 DEF Grant, Altered
<1> QED BY <1>5

\* The initial state satisfies the inductive invariant.
LEMMA InitIInv == Init => IInv
  BY AuthorityAssumption
  DEF Init, IInv, TypeOK, GrantsAreSigned, GrantsAreBounded, GrantIdsAreUnique, OutstandingIsBacked,
      HistoryIsOfIssuedGrants, ClosedGateHoldsNoGrant, SingleUse, RevocationIsFinal,
      ClaimsAreAsIssued

\* issue preserves the inductive invariant.
LEMMA IssueIInv ==
  ASSUME IInv, NEW a \in Agents, NEW s \in Sessions, NEW b \in Bindings,
         NEW cap \in Capabilities, NEW expected, Issue(a, s, b, cap, expected)
  PROVE  IInv'
<1> USE AuthorityAssumption DEF IInv
<1>1. PICK id \in GrantIds :
        /\ ~Holds(grants, id)
        /\ LET g == [grant_id |-> id, authority_id |-> authority_id, agent_id |-> a,
                     session_id |-> s, binding |-> b, issued_at |-> now,
                     expires_at |-> now + TTL, capability |-> cap]
           IN  grants' = grants \cup
                 {[grant_id |-> id, authority_id |-> authority_id, agent_id |-> a,
                   session_id |-> s, binding |-> b, issued_at |-> now,
                   expires_at |-> now + TTL, capability |-> cap, signature |-> Sign(g)]}
        /\ outstanding' = Prune(outstanding) \cup
             {[grant_id |-> id, expires_at |-> now + TTL, agent_id |-> a, session_id |-> s]}
  BY DEF Issue
<1> DEFINE g == [grant_id |-> id, authority_id |-> authority_id, agent_id |-> a,
                 session_id |-> s, binding |-> b, issued_at |-> now,
                 expires_at |-> now + TTL, capability |-> cap]
           new == [grant_id |-> id, authority_id |-> authority_id, agent_id |-> a,
                   session_id |-> s, binding |-> b, issued_at |-> now,
                   expires_at |-> now + TTL, capability |-> cap, signature |-> Sign(g)]
           entry == [grant_id |-> id, expires_at |-> now + TTL, agent_id |-> a, session_id |-> s]
<1>2. /\ grants' = grants \cup {new}
      /\ outstanding' = Prune(outstanding) \cup {entry}
  BY <1>1
<1>3. /\ issuance_closed[a] = {}
      /\ revoked' = Prune(revoked)
      /\ UNCHANGED <<now, authority_id, issuance_closed, epoch, claims, claimed, withdrawn, removed>>
  BY DEF Issue
<1>4. g \in Payload /\ new \in Grant /\ entry \in OutstandingGrant
  BY DEF TypeOK, Payload, Grant, OutstandingGrant, Sign, SignedPayload
<1>5. SignedPayload(g) = SignedPayload(new)
  BY DEF SignedPayload
<1>6. TypeOK'
  BY <1>2, <1>3, <1>4 DEF TypeOK, Prune
<1>7. GrantsAreSigned'
  <2>1. new.signature.key = authority_id /\ new.signature.payload = SignedPayload(new)
    BY <1>5 DEF Sign
  <2>2. new.authority_id = authority_id
    OBVIOUS
  <2> HIDE DEF new, g
  <2>3. \A h \in grants' : /\ h.signature.key = h.authority_id
                           /\ h.signature.payload = SignedPayload(h)
    BY <1>2, <2>1, <2>2, Zenon DEF GrantsAreSigned
  <2> QED BY <2>3 DEF GrantsAreSigned, SignedPayload
<1>7a. GrantsAreBounded'
  BY <1>2, <1>3 DEF GrantsAreBounded, TypeOK
<1>8. GrantIdsAreUnique'
  BY <1>1, <1>2 DEF GrantIdsAreUnique, Holds
<1>9. OutstandingIsBacked'
  <2>1. ASSUME NEW o \in outstanding'
        PROVE  /\ \E h \in grants' : /\ h.grant_id = o.grant_id
                                     /\ h.authority_id = authority_id
                                     /\ h.agent_id = o.agent_id
                                     /\ h.session_id = o.session_id
                                     /\ h.expires_at = o.expires_at
               /\ claimed[o.grant_id] = 0
               /\ o.grant_id \notin withdrawn
    <3>1. CASE o = entry
      <4>1. new \in grants'
        BY <1>2
      <4>2. claimed[id] = 0 /\ id \notin withdrawn
        BY <1>1 DEF HistoryIsOfIssuedGrants
      <4> QED BY <3>1, <4>1, <4>2
    <3>2. CASE o \in outstanding
      BY <3>2, <1>2 DEF OutstandingIsBacked
    <3> QED BY <2>1, <3>1, <3>2, <1>2 DEF Prune
  <2> QED BY <2>1, <1>3 DEF OutstandingIsBacked
<1>10. HistoryIsOfIssuedGrants'
  BY <1>2, <1>3 DEF HistoryIsOfIssuedGrants, Holds
<1>11. ClosedGateHoldsNoGrant'
  BY <1>2, <1>3 DEF ClosedGateHoldsNoGrant, Prune
<1>12. SingleUse' /\ RevocationIsFinal'
  BY <1>3 DEF SingleUse, RevocationIsFinal
<1>13. ClaimsAreAsIssued'
  BY <1>2, <1>3 DEF ClaimsAreAsIssued
<1> QED BY <1>6, <1>7, <1>7a, <1>8, <1>9, <1>10, <1>11, <1>12, <1>13

\* A successful claim preserves the inductive invariant.
LEMMA ClaimIInv ==
  ASSUME IInv, NEW g \in Presentable, NEW b \in Bindings, ClaimGrant(g, b)
  PROVE  IInv'
<1> USE AuthorityAssumption DEF IInv
<1>1. g \in grants
  BY AuthenticIsGenuine DEF ClaimGrant
<1>2. /\ outstanding' = Without(Prune(outstanding), g.grant_id)
      /\ revoked' = Prune(revoked)
      /\ claims' = claims \cup
           {[grant |-> g, requested |-> b, at |-> now, authority_id |-> authority_id]}
      /\ claimed' = [claimed EXCEPT ![g.grant_id] = @ + 1]
      /\ UNCHANGED <<now, authority_id, issuance_closed, epoch, grants, withdrawn, removed>>
  BY DEF ClaimGrant
<1>3. /\ now < g.expires_at
      /\ b = g.binding
      /\ g.authority_id = authority_id
      /\ Holds(outstanding, g.grant_id)
  <2>1. Refusal(g, b) = "NONE" /\ g.authority_id = authority_id
    BY DEF ClaimGrant, Authentic
  <2>2. ~(now >= g.expires_at) /\ b = g.binding /\ Holds(Prune(outstanding), g.grant_id)
    BY <2>1 DEF Refusal
  <2>3. now \in Nat /\ g.expires_at \in Nat
    BY <1>1 DEF TypeOK, Grant
  <2> QED BY <2>1, <2>2, <2>3 DEF Holds, Prune
<1>4. g \in Grant /\ g.grant_id \in GrantIds
  BY <1>1 DEF TypeOK, Grant
<1>5. claimed[g.grant_id] = 0 /\ g.grant_id \notin withdrawn
  BY <1>3 DEF OutstandingIsBacked, Holds
<1>6. TypeOK'
  BY <1>2, <1>4 DEF TypeOK, Prune, Without
<1>7. GrantsAreSigned' /\ GrantsAreBounded' /\ GrantIdsAreUnique'
  BY <1>2 DEF GrantsAreSigned, GrantsAreBounded, GrantIdsAreUnique, SignedPayload
<1>8. OutstandingIsBacked'
  BY <1>2, <1>4 DEF OutstandingIsBacked, Prune, Without, TypeOK, OutstandingGrant
<1>9. HistoryIsOfIssuedGrants'
  BY <1>1, <1>2, <1>4 DEF HistoryIsOfIssuedGrants, Holds, TypeOK
<1>10. ClosedGateHoldsNoGrant'
  BY <1>2 DEF ClosedGateHoldsNoGrant, Prune, Without
<1>11. SingleUse'
  BY <1>2, <1>4, <1>5 DEF SingleUse, TypeOK
<1>12. RevocationIsFinal'
  BY <1>2, <1>4, <1>5 DEF RevocationIsFinal, TypeOK
<1>13. ClaimsAreAsIssued'
  <2>1. g.issued_at <= now /\ now < g.issued_at + TTL
    BY <1>1, <1>3 DEF GrantsAreBounded
  <2> QED BY <1>1, <1>2, <1>3, <2>1 DEF ClaimsAreAsIssued
<1> QED BY <1>6, <1>7, <1>8, <1>9, <1>10, <1>11, <1>12, <1>13

\* A step that only shrinks the outstanding table, prunes the revoked one and may note a
\* removal preserves the inductive invariant: verification, refusal and consume_grant.
LEMMA ShrinkIInv ==
  ASSUME IInv,
         outstanding' \subseteq outstanding,
         revoked' \subseteq revoked,
         removed' \subseteq GrantIds,
         UNCHANGED <<now, authority_id, issuance_closed, epoch, grants, claims, claimed, withdrawn>>
  PROVE  IInv'
<1> USE DEF IInv
<1>1. TypeOK'
  BY DEF TypeOK
<1>2. GrantsAreSigned' /\ GrantsAreBounded' /\ GrantIdsAreUnique'
  BY DEF GrantsAreSigned, GrantsAreBounded, GrantIdsAreUnique, SignedPayload
<1>3. OutstandingIsBacked'
  BY DEF OutstandingIsBacked
<1>4. HistoryIsOfIssuedGrants'
  BY DEF HistoryIsOfIssuedGrants, Holds
<1>5. ClosedGateHoldsNoGrant' /\ SingleUse' /\ RevocationIsFinal' /\ ClaimsAreAsIssued'
  BY DEF ClosedGateHoldsNoGrant, SingleUse, RevocationIsFinal, ClaimsAreAsIssued
<1> QED BY <1>1, <1>2, <1>3, <1>4, <1>5

\* suspend_issuance preserves the inductive invariant.
LEMMA SuspendIInv ==
  ASSUME IInv, NEW a \in Agents, NEW plane \in IssuancePlane, SuspendIssuance(a, plane)
  PROVE  IInv'
<1> USE DEF IInv
<1> DEFINE theirs == {o \in outstanding : o.agent_id = a}
<1>1. /\ issuance_closed' = [issuance_closed EXCEPT ![a] = @ \cup {plane}]
      /\ outstanding' = outstanding \ theirs
      /\ revoked' = revoked \cup
           {[grant_id |-> o.grant_id, expires_at |-> o.expires_at] : o \in theirs}
      /\ withdrawn' = withdrawn \cup {o.grant_id : o \in theirs}
      /\ UNCHANGED <<now, authority_id, epoch, grants, claims, claimed, removed>>
  BY DEF SuspendIssuance
<1>2. TypeOK'
  BY <1>1 DEF TypeOK, OutstandingGrant, RevokedGrant
<1>3. /\ GrantsAreSigned' /\ GrantsAreBounded' /\ GrantIdsAreUnique'
      /\ SingleUse' /\ ClaimsAreAsIssued'
  BY <1>1 DEF GrantsAreSigned, GrantsAreBounded, GrantIdsAreUnique, SignedPayload, SingleUse, ClaimsAreAsIssued
<1>4. \A o \in outstanding, p \in theirs : o.grant_id = p.grant_id => o \in theirs
  BY DEF OutstandingIsBacked, GrantIdsAreUnique
<1>5. OutstandingIsBacked'
  BY <1>1, <1>4 DEF OutstandingIsBacked
<1>6. HistoryIsOfIssuedGrants'
  BY <1>1 DEF HistoryIsOfIssuedGrants, OutstandingIsBacked, Holds
<1>7. ClosedGateHoldsNoGrant'
  BY <1>1 DEF ClosedGateHoldsNoGrant, TypeOK, OutstandingGrant
<1>8. RevocationIsFinal'
  BY <1>1 DEF RevocationIsFinal, OutstandingIsBacked
<1> QED BY <1>2, <1>3, <1>5, <1>6, <1>7, <1>8

\* Every step preserves the inductive invariant.
LEMMA NextIInv == IInv /\ [Next]_vars => IInv'
<1> SUFFICES ASSUME IInv, [Next]_vars PROVE IInv'
  OBVIOUS
<1>1. CASE \E a \in Agents, s \in Sessions, b \in Bindings, cap \in Capabilities,
              expected \in {NoExpectedEpoch} \cup 0..MaxEpoch : Issue(a, s, b, cap, expected)
  BY <1>1, IssueIInv
<1>2. CASE \E g \in Presentable, b \in Bindings : VerifyGrant(g, b)
  BY <1>2, ShrinkIInv DEF VerifyGrant, Prune, IInv, TypeOK
<1>3. CASE \E g \in Presentable, b \in Bindings : ClaimGrant(g, b)
  BY <1>3, ClaimIInv
<1>4. CASE \E g \in Presentable, b \in Bindings : RefuseGrant(g, b)
  <2>1. /\ outstanding' \subseteq outstanding
        /\ revoked' \subseteq revoked
        /\ UNCHANGED <<now, authority_id, issuance_closed, epoch, grants, claims, claimed,
                       withdrawn, removed>>
    BY <1>4 DEF RefuseGrant, Prune, Without
  <2> QED BY <2>1, ShrinkIInv DEF IInv, TypeOK
<1>5. CASE \E g \in grants : ConsumeGrant(g)
  <2>1. /\ outstanding' \subseteq outstanding
        /\ UNCHANGED <<revoked, now, authority_id, issuance_closed, epoch, grants, claims,
                       claimed, withdrawn>>
    BY <1>5 DEF ConsumeGrant, Without
  <2>2. removed' \subseteq GrantIds
    BY <1>5 DEF ConsumeGrant, IInv, TypeOK, Grant
  <2> QED BY <2>1, <2>2, ShrinkIInv
<1>6. CASE \E a \in Agents, plane \in IssuancePlane : SuspendIssuance(a, plane)
  BY <1>6, SuspendIInv
<1>7. CASE \E a \in Agents, plane \in IssuancePlane : ResumeIssuance(a, plane)
  <2>1. PICK a \in Agents, plane \in IssuancePlane : ResumeIssuance(a, plane)
    BY <1>7
  <2>2. /\ issuance_closed' = [issuance_closed EXCEPT ![a] = @ \ {plane}]
        /\ UNCHANGED <<now, authority_id, outstanding, revoked, epoch, grants, claims, claimed,
                       withdrawn, removed>>
    BY <2>1 DEF ResumeIssuance
  <2>3. TypeOK'
    BY <2>2 DEF IInv, TypeOK
  <2>4. ClosedGateHoldsNoGrant'
    BY <2>2 DEF IInv, ClosedGateHoldsNoGrant, TypeOK, OutstandingGrant
  <2>5. /\ GrantsAreSigned' /\ GrantsAreBounded' /\ GrantIdsAreUnique' /\ OutstandingIsBacked'
        /\ HistoryIsOfIssuedGrants' /\ SingleUse' /\ RevocationIsFinal' /\ ClaimsAreAsIssued'
    BY <2>2 DEF IInv, GrantsAreSigned, GrantsAreBounded, GrantIdsAreUnique, OutstandingIsBacked, Holds,
       HistoryIsOfIssuedGrants, SingleUse, RevocationIsFinal, ClaimsAreAsIssued, SignedPayload
  <2> QED BY <2>3, <2>4, <2>5 DEF IInv
<1>8. CASE \E a \in Agents : AdvanceEpoch(a)
  <2>1. UNCHANGED authorityVars /\ epoch' \in [Agents -> Nat]
    BY <1>8 DEF AdvanceEpoch, IInv, TypeOK
  <2> QED BY <2>1 DEF IInv, authorityVars, TypeOK, GrantsAreSigned, GrantsAreBounded, GrantIdsAreUnique,
       OutstandingIsBacked, Holds, HistoryIsOfIssuedGrants, SingleUse, RevocationIsFinal,
       ClaimsAreAsIssued, ClosedGateHoldsNoGrant, SignedPayload
<1>9. CASE Tick
  <2>1. /\ now' = now + 1
        /\ UNCHANGED <<authority_id, outstanding, revoked, issuance_closed, epoch, grants,
                       claims, claimed, withdrawn, removed>>
    BY <1>9 DEF Tick
  <2>2. TypeOK'
    BY <2>1 DEF IInv, TypeOK
  <2>3. GrantsAreSigned'
    BY <2>1 DEF IInv, GrantsAreSigned, SignedPayload
  <2>4. GrantsAreBounded'
    BY <2>1 DEF IInv, GrantsAreBounded, TypeOK, Grant
  <2> QED BY <2>1, <2>2, <2>3, <2>4 DEF IInv, GrantIdsAreUnique, OutstandingIsBacked, Holds,
       HistoryIsOfIssuedGrants, SingleUse, RevocationIsFinal, ClaimsAreAsIssued,
       ClosedGateHoldsNoGrant
<1>10. CASE Restart
  <2>1. /\ authority_id' = authority_id + 1
        /\ outstanding' = {}
        /\ revoked' = {}
        /\ issuance_closed' = [a \in Agents |-> {}]
        /\ epoch' = [a \in Agents |-> 0]
        /\ UNCHANGED <<now, grants, claims, claimed, withdrawn, removed>>
    BY <1>10 DEF Restart
  <2>2. TypeOK'
    BY <2>1 DEF IInv, TypeOK
  <2>3. GrantsAreSigned'
    BY <2>1 DEF IInv, GrantsAreSigned, SignedPayload
  <2>4. GrantsAreBounded'
    BY <2>1 DEF IInv, GrantsAreBounded, TypeOK, Grant
  <2> QED BY <2>1, <2>2, <2>3, <2>4 DEF IInv, GrantIdsAreUnique, OutstandingIsBacked, Holds,
       HistoryIsOfIssuedGrants, SingleUse, RevocationIsFinal, ClaimsAreAsIssued,
       ClosedGateHoldsNoGrant
<1>11. CASE UNCHANGED vars
  BY <1>11 DEF vars, authorityVars, IInv, TypeOK, GrantsAreSigned, GrantsAreBounded, GrantIdsAreUnique,
     OutstandingIsBacked, Holds, HistoryIsOfIssuedGrants, SingleUse, RevocationIsFinal,
     ClaimsAreAsIssued, ClosedGateHoldsNoGrant, SignedPayload
<1> QED BY <1>1, <1>2, <1>3, <1>4, <1>5, <1>6, <1>7, <1>8, <1>9, <1>10, <1>11 DEF Next

--------------------------------------------------------------------------------
\* The inductive invariant holds of every reachable state of the authority.
THEOREM Invariance == Spec => []IInv
  BY InitIInv, NextIInv, PTL DEF Spec

\* The authority's tables keep their types.
THEOREM TypeCorrect == Spec => []TypeOK
  BY Invariance, PTL DEF IInv

\* suspend_issuance leaves the agent without usable authority for as long as its gate is
\* closed on any plane.
THEOREM GateIsTight == Spec => []ClosedGateHoldsNoGrant
  BY Invariance, PTL DEF IInv

\* claim_grant succeeds at most once per grant.
THEOREM GrantsAreSingleUse == Spec => []SingleUse
  BY Invariance, PTL DEF IInv

\* A revoked grant is never claimed.
THEOREM RevokedGrantsStayRevoked == Spec => []RevocationIsFinal
  BY Invariance, PTL DEF IInv

\* A claim succeeds only for an unaltered grant of this process, for the authorized
\* operation, within the TTL.
THEOREM ClaimsMatchIssuance == Spec => []ClaimsAreAsIssued
  BY Invariance, PTL DEF IInv

\* A refused or merely verified presentation costs the holder nothing: an unexpired grant
\* leaves the table by a claim, a revocation, an administrative removal or a restart only.
THEOREM RefusalIsFree == Spec => RefusedAttemptsConsumeNothing
<1> DEFINE Step == \A o \in outstanding :
                     o \notin outstanding' /\ o.expires_at > now /\ authority_id' = authority_id
                     => \/ claimed'[o.grant_id] = claimed[o.grant_id] + 1
                        \/ o.grant_id \in withdrawn' \cup removed'
<1>1. IInv /\ [Next]_vars => [Step]_vars
  <2> SUFFICES ASSUME IInv, Next, NEW o \in outstanding,
                      o \notin outstanding', o.expires_at > now, authority_id' = authority_id
               PROVE  \/ claimed'[o.grant_id] = claimed[o.grant_id] + 1
                      \/ o.grant_id \in withdrawn' \cup removed'
    OBVIOUS
  <2>1. o \in Prune(outstanding)
    BY DEF Prune
  <2>2. o.grant_id \in GrantIds /\ claimed \in [GrantIds -> Nat]
    BY DEF IInv, TypeOK, OutstandingGrant
  <2>3. ASSUME NEW a \in Agents, NEW s \in Sessions, NEW b \in Bindings,
               NEW cap \in Capabilities, NEW expected, Issue(a, s, b, cap, expected)
        PROVE  FALSE
    BY <2>1, <2>3 DEF Issue
  <2>4. ASSUME NEW g \in Presentable, NEW b \in Bindings, VerifyGrant(g, b)
        PROVE  FALSE
    BY <2>1, <2>4 DEF VerifyGrant
  <2>5. ASSUME NEW g \in Presentable, NEW b \in Bindings, ClaimGrant(g, b)
        PROVE  claimed'[o.grant_id] = claimed[o.grant_id] + 1
    <3>1. o.grant_id = g.grant_id
      BY <2>1, <2>5 DEF ClaimGrant, Without
    <3> QED BY <2>2, <2>5, <3>1 DEF ClaimGrant
  <2>6. ASSUME NEW g \in Presentable, NEW b \in Bindings, RefuseGrant(g, b)
        PROVE  FALSE
    <3>1. Refusal(g, b) = "EXPIRED" /\ o.grant_id = g.grant_id
      BY <2>1, <2>6 DEF RefuseGrant, Without
    <3>2. now >= g.expires_at
      BY <3>1 DEF Refusal
    <3>3. g \in grants
      BY <2>6, AuthenticIsGenuine DEF RefuseGrant, IInv
    <3>4. PICK h \in grants : h.grant_id = o.grant_id /\ h.expires_at = o.expires_at
      BY DEF IInv, OutstandingIsBacked
    <3>5. h = g
      BY <3>1, <3>3, <3>4 DEF IInv, GrantIdsAreUnique
    <3>6. o.expires_at \in Nat /\ now \in Nat
      BY DEF IInv, TypeOK, OutstandingGrant
    <3> QED BY <3>2, <3>4, <3>5, <3>6
  <2>7. ASSUME NEW g \in grants, ConsumeGrant(g)
        PROVE  o.grant_id \in removed'
    BY <2>7 DEF ConsumeGrant, Without
  <2>8. ASSUME NEW a \in Agents, NEW plane \in IssuancePlane, SuspendIssuance(a, plane)
        PROVE  o.grant_id \in withdrawn'
    BY <2>8 DEF SuspendIssuance
  <2>9. CASE \/ \E a \in Agents, plane \in IssuancePlane : ResumeIssuance(a, plane)
             \/ \E a \in Agents : AdvanceEpoch(a)
             \/ Tick
    BY <2>9 DEF ResumeIssuance, AdvanceEpoch, Tick, authorityVars
  <2>10. ~Restart
    BY DEF Restart, IInv, TypeOK
  <2> QED BY <2>3, <2>4, <2>5, <2>6, <2>7, <2>8, <2>9, <2>10 DEF Next
<1> QED BY <1>1, Invariance, PTL DEF Spec, RefusedAttemptsConsumeNothing

================================================================================
