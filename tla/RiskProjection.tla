--------------------------- MODULE RiskProjection ---------------------------
(***************************************************************************)
(* The materialized risk posture of ONE agent: the findings store that     *)
(* numbers the evidence, the projection (AgentRiskAggregate) that follows  *)
(* it incrementally, the per-agent coordination lock, the requests that    *)
(* record evidence and then decide from the posture, and the operator who  *)
(* reinstates or repairs the agent.                                        *)
(*                                                                         *)
(* A finding is its identifier, the severity and session of which are      *)
(* constants, with the time the store accepted it; its position in         *)
(* `findings` is its evidence_sequence.  Nothing in the program moves a    *)
(* finding out of OPEN, so every finding is active.  The rule vocabulary   *)
(* and the version counter feed no decision and are left out.              *)
(***************************************************************************)
EXTENDS Integers, Sequences, FiniteSets, FiniteSetsExt, SequencesExt

CONSTANTS
  Requests,    \* request threads of the agent
  Ids,         \* finding identifiers detection can derive
  SeverityOf,  \* [Ids -> Severity]
  SessionOf,   \* [Ids -> sessions]
  MaxClock,    \* bound on the clock
  MaxBatch,    \* bound on the findings one request derives
  MaxRepairs,  \* bound on operator repairs
  NoOne        \* the lock is free

Severity == {"LOW", "MEDIUM", "HIGH", "CRITICAL"}

OPERATOR == "operator"

ASSUME RiskAssumption ==
  /\ SeverityOf \in [Ids -> Severity]
  /\ DOMAIN SessionOf = Ids
  /\ MaxClock \in Nat /\ MaxBatch \in Nat /\ MaxRepairs \in Nat
  /\ NoOne \notin Requests \cup {OPERATOR}
  /\ OPERATOR \notin Requests

VARIABLES
  clock,     \* datetime.now of the process; two readings may be equal
  findings,  \* FindingsService: sequence of [id, at], index = evidence_sequence
  baseline,  \* the watermark stored with the enforcement state
  proj,      \* the agent's entry in RiskAggregator._projections
  holder,    \* who holds the agent's coordination lock
  pc,        \* where each request is
  batch,     \* evidence sequences the request has still to ingest
  mine,      \* evidence sequences the request recorded
  decided,   \* the posture the request decided from
  suspended, \* the enforcement state says the agent is suspended
  repairs,   \* repairs so far
  lossy      \* the projection was emptied past evidence it should count

vars == <<clock, findings, baseline, proj, holder, pc, batch, mine, decided,
          suspended, repairs, lossy>>

-----------------------------------------------------------------------------
(* Scores.                                                                 *)

SEVERITY_WEIGHTS == [LOW |-> 10, MEDIUM |-> 25, HIGH |-> 50, CRITICAL |-> 100]

\* RiskLevel in rank order: 0 LOW, 1 MEDIUM, 2 HIGH, 3 CRITICAL.
level_for_score(score) ==
  IF score >= 100 THEN 3 ELSE IF score >= 50 THEN 2 ELSE IF score >= 25 THEN 1 ELSE 0

\* How many of the evidence sequences `is` of store fs have each severity.
CountBySeverity(fs, is) ==
  [s \in Severity |-> Cardinality({i \in is : SeverityOf[fs[i].id] = s})]

\* score_findings and _recalculate_score_and_level: the same weighted sum.
Score(counts) ==
  counts["LOW"] * SEVERITY_WEIGHTS["LOW"] + counts["MEDIUM"] * SEVERITY_WEIGHTS["MEDIUM"]
    + counts["HIGH"] * SEVERITY_WEIGHTS["HIGH"]
    + counts["CRITICAL"] * SEVERITY_WEIGHTS["CRITICAL"]

\* RiskService.assess_session: derived from the session's evidence, stored nowhere.
assess_session(s) ==
  level_for_score(Score(CountBySeverity(findings,
    {i \in DOMAIN findings : SessionOf[findings[i].id] = s})))

-----------------------------------------------------------------------------
(* The projection.  `state` UNINITIALIZED stands for no map entry.         *)

NoBaseline == [at |-> -1, seq |-> 0]

NoCounts == [s \in Severity |-> 0]

NoProjection ==
  [state |-> "UNINITIALIZED", base |-> NoBaseline, cursor |-> 0, counts |-> NoCounts]

\* AgentRiskAggregate.__init__: born HEALTHY and empty.
NewAggregate(w) ==
  [state |-> "HEALTHY", base |-> w, cursor |-> w.seq, counts |-> NoCounts]

\* Mutant: a failed projection is not marked.
Mut_mark_stale(p) == p

\* AgentRiskAggregate.mark_stale; the map may hold no entry to mark.
mark_stale(p) ==
  IF p.state = "UNINITIALIZED" THEN p ELSE [p EXCEPT !.state = "STALE"]

\* Mutant: the finding is counted but the cursor stays.
Mut_apply_finding(p, fs, i) ==
  IF i <= p.base.seq \/ i <= p.cursor THEN p
  ELSE IF fs[i].at <= p.base.at \/ i > p.cursor + 1 THEN [p EXCEPT !.state = "STALE"]
  ELSE [p EXCEPT !.counts[SeverityOf[fs[i].id]] = @ + 1]

\* AgentRiskAggregate.apply_finding for evidence sequence i of store fs.
apply_finding(p, fs, i) ==
  IF i <= p.base.seq \/ i <= p.cursor THEN p
  ELSE IF fs[i].at <= p.base.at \/ i > p.cursor + 1 THEN [p EXCEPT !.state = "STALE"]
  ELSE [p EXCEPT !.cursor = i, !.counts[SeverityOf[fs[i].id]] = @ + 1]

\* RiskAggregator.ingest_finding: without a projection nothing is applied.
ingest_finding(p, fs, i) ==
  IF p.state = "UNINITIALIZED" THEN p ELSE apply_finding(p, fs, i)

\* Mutant: the first finding after the baseline is taken for historical.
Mut_PostBaseline(fs, w) == {i \in DOMAIN fs : i > w.seq + 1 /\ fs[i].at > w.at}

\* The evidence rebuild_from_findings keeps.
PostBaseline(fs, w) == {i \in DOMAIN fs : i > w.seq /\ fs[i].at > w.at}

\* AgentRiskAggregate.rebuild_from_findings.
rebuild_from_findings(fs, w) ==
  LET kept == PostBaseline(fs, w)
  IN  [state  |-> "HEALTHY",
       base   |-> w,
       cursor |-> IF kept = {} THEN w.seq ELSE Max(kept),
       counts |-> CountBySeverity(fs, kept)]

\* RiskAggregator.reset_to_baseline, whether or not a projection exists.
reset_to_baseline(w) == NewAggregate(w)

\* FindingsService.capture_evidence_baseline_sequence at time t.
capture_evidence_baseline_sequence(t) ==
  LET upto == {i \in DOMAIN findings : findings[i].at <= t}
  IN  IF upto = {} THEN 0 ELSE Max(upto)

-----------------------------------------------------------------------------
(* The steps.                                                              *)

NoDecision == [taken |-> FALSE]

\* What a request keeps of the snapshot it decides from.  `sound` is history:
\* no HEALTHY entry was standing in for evidence it had never counted.
Snapshot(p) ==
  [taken |-> TRUE, base |-> p.base, cursor |-> p.cursor,
   level |-> level_for_score(Score(p.counts)), sound |-> ~lossy]

\* At most MaxBatch distinct findings; they are derived in some order.
Detections == {d \in SUBSET Ids : IsFiniteSet(d) /\ Cardinality(d) <= MaxBatch}

Stored == {findings[i].id : i \in DOMAIN findings}

\* record_new_findings: what is already stored is skipped, the rest numbered on.
record_new_findings(d) ==
  {findings \o [i \in DOMAIN fresh |-> [id |-> fresh[i], at |-> clock]] :
     fresh \in SetToSeqs(d \ Stored)}

\* The lock is taken and the evidence of this request accepted.
Record(r) ==
  /\ pc[r] = "start"
  /\ holder = NoOne
  /\ \E d \in Detections :
       /\ findings' \in record_new_findings(d)
       /\ batch' = [batch EXCEPT ![r] =
                      [k \in 1..(Len(findings') - Len(findings)) |-> Len(findings) + k]]
       /\ mine' = [mine EXCEPT ![r] = (Len(findings) + 1)..Len(findings')]
  /\ holder' = r
  /\ pc' = [pc EXCEPT ![r] = "ingest"]
  /\ UNCHANGED <<clock, baseline, proj, decided, suspended, repairs, lossy>>

\* The evidence write fails: the request is refused, nothing is projected.  record_new_findings
\* is taken to fail before it stores any of the batch: its loop, which nothing would roll
\* back, only numbers, copies and assigns.
RecordFails(r) ==
  /\ pc[r] = "start"
  /\ holder = NoOne
  /\ pc' = [pc EXCEPT ![r] = "refused"]
  /\ UNCHANGED <<clock, findings, baseline, proj, holder, batch, mine, decided,
                 suspended, repairs, lossy>>

\* Hand the next recorded finding to the projection.
Ingest(r) ==
  /\ pc[r] = "ingest"
  /\ batch[r] # <<>>
  /\ proj' = ingest_finding(proj, findings, Head(batch[r]))
  /\ batch' = [batch EXCEPT ![r] = Tail(@)]
  /\ UNCHANGED <<clock, findings, baseline, holder, pc, mine, decided, suspended, repairs, lossy>>

\* The projection raises: marked STALE, the evidence stands.
IngestFails(r) ==
  /\ pc[r] = "ingest"
  /\ batch[r] # <<>>
  /\ proj' = mark_stale(proj)
  /\ batch' = [batch EXCEPT ![r] = Tail(@)]
  /\ UNCHANGED <<clock, findings, baseline, holder, pc, mine, decided, suspended, repairs, lossy>>

\* The end of the lock's scope.
Release(r) ==
  /\ pc[r] = "ingest"
  /\ batch[r] = <<>>
  /\ holder' = NoOne
  /\ pc' = [pc EXCEPT ![r] = "assess"]
  /\ UNCHANGED <<clock, findings, baseline, proj, batch, mine, decided, suspended, repairs, lossy>>

\* Mutant: any entry is trusted, a STALE one too.
Mut_Peek(r) ==
  /\ pc[r] = "assess"
  /\ IF proj.state # "UNINITIALIZED"
     THEN /\ decided' = [decided EXCEPT ![r] = Snapshot(proj)]
          /\ pc' = [pc EXCEPT ![r] = "decided"]
     ELSE /\ pc' = [pc EXCEPT ![r] = "lock"]
          /\ UNCHANGED decided
  /\ UNCHANGED <<clock, findings, baseline, proj, holder, batch, mine, suspended,
                 repairs, lossy>>

\* _assess_agent_posture reads the posture WITHOUT the lock and trusts HEALTHY.
Peek(r) ==
  /\ pc[r] = "assess"
  /\ IF proj.state = "HEALTHY"
     THEN /\ decided' = [decided EXCEPT ![r] = Snapshot(proj)]
          /\ pc' = [pc EXCEPT ![r] = "decided"]
     ELSE /\ pc' = [pc EXCEPT ![r] = "lock"]
          /\ UNCHANGED decided
  /\ UNCHANGED <<clock, findings, baseline, proj, holder, batch, mine, suspended, repairs, lossy>>

\* Under the lock it looks again; a missing entry is inserted, HEALTHY and
\* empty, before the rebuild that fills it.
LockAndRecheck(r) ==
  /\ pc[r] = "lock"
  /\ holder = NoOne
  /\ IF proj.state = "HEALTHY"
     THEN /\ decided' = [decided EXCEPT ![r] = Snapshot(proj)]
          /\ pc' = [pc EXCEPT ![r] = "decided"]
          /\ UNCHANGED <<proj, holder, lossy>>
     ELSE /\ holder' = r
          /\ pc' = [pc EXCEPT ![r] = "rebuild"]
          /\ proj' = IF proj.state = "UNINITIALIZED" THEN NewAggregate(baseline) ELSE proj
          /\ lossy' = (proj.state = "UNINITIALIZED" /\ Len(findings) > baseline.seq)
          /\ UNCHANGED decided
  /\ UNCHANGED <<clock, findings, baseline, batch, mine, suspended, repairs>>

\* Reconciliation: rebuilt from all the evidence and the stored baseline.
Rebuild(r) ==
  /\ pc[r] = "rebuild"
  /\ proj' = rebuild_from_findings(findings, baseline)
  /\ lossy' = FALSE
  /\ decided' = [decided EXCEPT ![r] = [Snapshot(proj') EXCEPT !.sound = TRUE]]
  /\ holder' = NoOne
  /\ pc' = [pc EXCEPT ![r] = "decided"]
  /\ UNCHANGED <<clock, findings, baseline, batch, mine, suspended, repairs>>

\* The rebuild raises (PostureReconciliationError): the request is refused and
\* the entry stays as it is, a freshly inserted one included.
RebuildFails(r) ==
  /\ pc[r] = "rebuild"
  /\ holder' = NoOne
  /\ pc' = [pc EXCEPT ![r] = "refused"]
  /\ UNCHANGED <<clock, findings, baseline, proj, batch, mine, decided, suspended, repairs, lossy>>

\* SUSPEND_AGENT, the response to CRITICAL, suspends the agent; the request is
\* over and the thread serves another.
Respond(r) ==
  /\ pc[r] = "decided"
  /\ suspended' = (suspended \/ decided[r].level = 3)
  /\ pc' = [pc EXCEPT ![r] = "start"]
  /\ mine' = [mine EXCEPT ![r] = {}]
  /\ decided' = [decided EXCEPT ![r] = NoDecision]
  /\ UNCHANGED <<clock, findings, baseline, proj, holder, batch, repairs, lossy>>

\* The refusal is returned.
Refuse(r) ==
  /\ pc[r] = "refused"
  /\ pc' = [pc EXCEPT ![r] = "start"]
  /\ mine' = [mine EXCEPT ![r] = {}]
  /\ UNCHANGED <<clock, findings, baseline, proj, holder, batch, decided, suspended,
                 repairs, lossy>>

\* EnforcementCoordinator.reinstate: the watermark is composed and committed
\* with the enforcement transition, under the lock.
ReinstateCommit ==
  /\ holder = NoOne
  /\ suspended
  /\ suspended' = FALSE
  /\ holder' = OPERATOR
  /\ baseline' = [at |-> clock, seq |-> capture_evidence_baseline_sequence(clock)]
  /\ UNCHANGED <<clock, findings, proj, pc, batch, mine, decided, repairs, lossy>>

\* ... then the projection is reset to it and the lock released.
ReinstateReset ==
  /\ holder = OPERATOR
  /\ proj' = reset_to_baseline(baseline)
  /\ lossy' = FALSE
  /\ holder' = NoOne
  /\ UNCHANGED <<clock, findings, baseline, pc, batch, mine, decided, suspended, repairs>>

\* EnforcementCoordinator.repair: no transition, and the projection is reset
\* to the STORED baseline, whatever was recorded since.
Repair ==
  /\ holder = NoOne
  /\ ~suspended
  /\ repairs < MaxRepairs
  /\ repairs' = repairs + 1
  /\ proj' = reset_to_baseline(baseline)
  /\ lossy' = (Len(findings) > baseline.seq)
  /\ UNCHANGED <<clock, findings, baseline, holder, pc, batch, mine, decided, suspended>>

Tick ==
  /\ clock < MaxClock
  /\ clock' = clock + 1
  /\ UNCHANGED <<findings, baseline, proj, holder, pc, batch, mine, decided, suspended, repairs, lossy>>

Init ==
  /\ clock = 0
  /\ findings = <<>>
  /\ baseline = NoBaseline
  /\ proj = NoProjection
  /\ holder = NoOne
  /\ pc = [r \in Requests |-> "start"]
  /\ batch = [r \in Requests |-> <<>>]
  /\ mine = [r \in Requests |-> {}]
  /\ decided = [r \in Requests |-> NoDecision]
  /\ suspended = FALSE
  /\ repairs = 0
  /\ lossy = FALSE

\* One step of a request thread.
Step(r) ==
  \/ Record(r) \/ RecordFails(r) \/ Ingest(r) \/ IngestFails(r) \/ Release(r)
  \/ Peek(r) \/ LockAndRecheck(r) \/ Rebuild(r) \/ RebuildFails(r)
  \/ Respond(r) \/ Refuse(r)

Next ==
  \/ \E r \in Requests : Step(r)
  \/ ReinstateCommit \/ ReinstateReset \/ Repair \/ Tick

Spec == Init /\ [][Next]_vars

-----------------------------------------------------------------------------
(* Properties.                                                             *)

Watermark == [at : -1..MaxClock, seq : Nat]

Projection ==
  [state : {"UNINITIALIZED", "HEALTHY", "STALE"}, base : Watermark, cursor : Nat,
   counts : [Severity -> Nat]]

\* Every variable has its type; the evidence is bounded by the identifiers.
TypeOK ==
  /\ clock \in 0..MaxClock
  /\ findings \in Seq([id : Ids, at : 0..MaxClock])
  /\ baseline \in Watermark
  /\ proj \in Projection
  /\ holder \in Requests \cup {OPERATOR, NoOne}
  /\ pc \in [Requests -> {"start", "ingest", "assess", "lock", "rebuild", "decided",
                         "refused"}]
  /\ batch \in [Requests -> Seq(Nat)]
  /\ mine \in [Requests -> SUBSET Nat]
  /\ suspended \in BOOLEAN
  /\ repairs \in 0..MaxRepairs
  /\ lossy \in BOOLEAN

\* The evidence that drives enforcement: accepted strictly after the stored
\* baseline, by position and by time.
Enforceable == {i \in DOMAIN findings : i > baseline.seq /\ findings[i].at > baseline.at}

\* B-1, projection equivalence: whenever no one holds the agent's lock, a
\* HEALTHY projection counts exactly the enforceable evidence and belongs to the
\* stored baseline, whatever mixture of incremental application, staleness,
\* rebuild, reinstatement and failed projection led there; the exceptions are an
\* entry repair emptied, or a failed first reconciliation left, past evidence.
HealthyMatchesRebuild ==
  (holder = NoOne /\ proj.state = "HEALTHY" /\ ~lossy) =>
    /\ proj.base = baseline
    /\ proj.counts = CountBySeverity(findings, Enforceable)

\* A HEALTHY cursor never lags by a part of the evidence: it is at the end of
\* the store, or at the baseline with nothing counted.  So a projection that
\* missed evidence can absorb no later finding: the next one is a gap (B-4), the
\* projection turns STALE and the rebuild brings back what was missed.
LagIsTotal ==
  (holder = NoOne /\ proj.state = "HEALTHY") =>
    \/ proj.cursor = Len(findings)
    \/ proj.cursor = proj.base.seq /\ proj.counts = NoCounts

\* The level request r's own evidence amounts to under the baseline it decided by.
OwnLevel(r) ==
  level_for_score(Score(CountBySeverity(findings,
    {i \in mine[r] : i > decided[r].base.seq /\ findings[i].at > decided[r].base.at})))

\* A request decides from a posture that counts its own findings: its level is
\* at least what they amount to alone, although the posture is read without the
\* lock they were recorded under and other requests, reinstatements and
\* rebuilds come in between.  Decisions taken while an emptied entry stood
\* HEALTHY are the exception.
SoundDecisionCountsOwnFindings ==
  \A r \in Requests :
    (decided[r].taken /\ decided[r].sound) => decided[r].level >= OwnLevel(r)

\* The same without the exception: "a HEALTHY posture matches deterministic
\* rebuild", so no request may be decided without its own evidence.
DecisionCountsOwnFindings ==
  \A r \in Requests : decided[r].taken => decided[r].level >= OwnLevel(r)

\* Rotating to a fresh session cannot present an agent as newly harmless: a
\* posture that was never reinstated ranks at least as high as any session's
\* own assessment.
SessionNeverOutranksAgent ==
  (holder = NoOne /\ proj.state = "HEALTHY" /\ ~lossy /\ baseline = NoBaseline) =>
    \A x \in Ids : level_for_score(Score(proj.counts)) >= assess_session(SessionOf[x])

=============================================================================
