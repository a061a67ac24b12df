----------------------------- MODULE SessionHorizon -----------------------------
(***************************************************************************)
(* Sessions and the detection horizon.  SessionService over its repository *)
(* binds sessions to agents, numbers and retains the events of requests,   *)
(* and DetectionService reads them back, across the agent's sessions, to   *)
(* report excessive denials.  Every repository operation is one critical   *)
(* section (an RLock in memory, a row-locking transaction in SQL);         *)
(* RuntimeService.execute strings them together in the thread of each      *)
(* request, so requests interleave between them.                           *)
(***************************************************************************)
EXTENDS Integers, Sequences, FiniteSets

CONSTANTS
  Agents, SessionIds, NoAgent, NoSession,
  Workers,          \* threads that serve requests
  Threshold,        \* EXCESSIVE_DENIAL_THRESHOLD
  Window,           \* excessive_denials_window_seconds, and retention_window_seconds
  Grace,            \* late_arrival_grace_seconds
  MaxLag,           \* the longest that a request takes from its timestamp to its detection
  MaxTime, MaxEvents,
  MaxDisturbances   \* bounds the seconds, ended sessions and reinstatements of a behaviour

ASSUME NoneAssumption == NoAgent \notin Agents /\ NoSession \notin SessionIds
ASSUME HorizonAssumption ==
  /\ Threshold \in Nat \ {0}
  /\ Window \in Nat \ {0}
  /\ Grace \in Nat
  /\ {MaxLag, MaxTime, MaxEvents, MaxDisturbances} \subseteq Nat

VARIABLES
  now,
  sessions,           \* the owners of the active sessions
  tombstones,         \* the owners of the sessions that ended
  events,             \* the retained events
  session_sequences, agent_sequences,   \* the two allocators
  findings,           \* EXCESSIVE_DENIALS findings in the order they were accepted
  baselines,          \* baseline_agent_sequence under each recovery generation, from 0
  worker,             \* the local state of each request
  reinstating,        \* the watermarks the coordinator has read and not yet committed
  recorded            \* history: every event that was ever recorded

vars == <<now, sessions, tombstones, events, session_sequences, agent_sequences, findings,
          baselines, worker, reinstating, recorded>>

\* ALLOW stands for ALLOW and APPROVAL_REQUIRED, which the denial rule does not tell apart.
Decision == {"ALLOW", "DENY"}

Event == [session_id: SessionIds, agent_id: Agents, decision: Decision,
          sequence_number: Nat, agent_sequence: Nat, timestamp: Nat]

\* A finding is its identity: session_finding_id hashes these fields and two constants.
Finding == [session_id: SessionIds, agent_id: Agents, evidence: SUBSET Nat,
            recovery_generation: Nat]

Request == [pc: {"idle", "stamped", "recorded", "listed", "detected"},
            session_id: SessionIds \cup {NoSession}, agent_id: Agents \cup {NoAgent},
            decision: Decision, timestamp: Nat, baseline: Nat, generation: Nat,
            sequence_number: Nat, eligible: SUBSET Event, found: SUBSET Finding]

Idle == [pc |-> "idle", session_id |-> NoSession, agent_id |-> NoAgent,
         decision |-> "DENY", timestamp |-> 0, baseline |-> 0, generation |-> 0,
         sequence_number |-> 0, eligible |-> {}, found |-> {}]

TypeOK ==
  /\ now \in Nat
  /\ sessions \in [SessionIds -> Agents \cup {NoAgent}]
  /\ tombstones \in [SessionIds -> Agents \cup {NoAgent}]
  /\ events \subseteq Event
  /\ session_sequences \in [SessionIds -> Nat]
  /\ agent_sequences \in [Agents -> Nat]
  /\ findings \in Seq(Finding)
  /\ baselines \in [Agents -> Seq(Nat) \ {<<>>}]
  /\ worker \in [Workers -> Request]
  /\ reinstating \in [Agents -> SUBSET Nat]
  /\ recorded \subseteq Event

Init ==
  /\ now = 0
  /\ sessions = [s \in SessionIds |-> NoAgent]
  /\ tombstones = [s \in SessionIds |-> NoAgent]
  /\ events = {}
  /\ session_sequences = [s \in SessionIds |-> 0]
  /\ agent_sequences = [a \in Agents |-> 0]
  /\ findings = <<>>
  /\ baselines = [a \in Agents |-> <<0>>]
  /\ worker = [w \in Workers |-> Idle]
  /\ reinstating = [a \in Agents |-> {}]
  /\ recorded = {}

Active(s) == sessions[s] # NoAgent
Terminal(s) == tombstones[s] # NoAgent

RecoveryGeneration(a) == Len(baselines[a]) - 1

Disturbances ==
  now + Cardinality({s \in SessionIds : Terminal(s)})
      + Cardinality({p \in Agents \X (1 .. MaxDisturbances) :
                       p[2] <= RecoveryGeneration(p[1]) + Cardinality(reinstating[p[1]])})

Done(w) == worker' = [worker EXCEPT ![w] = Idle]

--------------------------------------------------------------------------------
(* Sessions.                                                                 *)

\* bind_or_create_session: refused for a terminal session and for another agent's.
BindOrCreateSession(s, a) ==
  /\ ~Terminal(s)
  /\ Active(s) => sessions[s] = a
  /\ sessions' = [sessions EXCEPT ![s] = a]

Mut_EndsWithoutTombstone(s) ==
  /\ Active(s)
  /\ sessions' = [sessions EXCEPT ![s] = NoAgent]
  /\ UNCHANGED tombstones

\* terminalize_session, whose caller names the owner it has read.
TerminalizeSession(s) ==
  /\ Active(s)
  /\ tombstones' = [tombstones EXCEPT ![s] = sessions[s]]
  /\ sessions' = [sessions EXCEPT ![s] = NoAgent]

\* end_session by the owner, or expire_idle_sessions for one of the sessions it listed: by the
\* time it is ended that session may be in use again, so any active session may end.
EndSession(s) ==
  /\ Disturbances < MaxDisturbances
  /\ TerminalizeSession(s)
  /\ UNCHANGED <<now, events, session_sequences, agent_sequences, findings, baselines, worker,
                 reinstating, recorded>>

--------------------------------------------------------------------------------
(* RuntimeService.execute, as far as sessions and the denial rule go.        *)

\* bind_or_validate, the decision of authorization, the enforcement snapshot (baseline and
\* generation in one read) and the event with its timestamp, still unnumbered.  A refused
\* binding is inert: it leaves an audit record and nothing here.
Bind(w, s, a) ==
  /\ worker[w].pc = "idle"
  /\ Cardinality(recorded) + Cardinality({v \in Workers : worker[v].pc = "stamped"}) < MaxEvents
  /\ BindOrCreateSession(s, a)
  /\ \E decision \in Decision :
       worker' = [worker EXCEPT ![w] =
                    [Idle EXCEPT !.pc = "stamped", !.session_id = s, !.agent_id = a,
                                 !.decision = decision, !.timestamp = now,
                                 !.baseline = baselines[a][Len(baselines[a])],
                                 !.generation = RecoveryGeneration(a)]]
  /\ UNCHANGED <<now, tombstones, events, session_sequences, agent_sequences, findings, baselines,
                 reinstating, recorded>>

\* The event of a request as the repository stores it.
NumberedEvent(w) ==
  [session_id |-> worker[w].session_id, agent_id |-> worker[w].agent_id,
   decision |-> worker[w].decision,
   sequence_number |-> session_sequences'[worker[w].session_id],
   agent_sequence |-> agent_sequences'[worker[w].agent_id],
   timestamp |-> worker[w].timestamp]

Mut_NumbersAfterTheSurvivors(s, a) ==
  LET Next1(S) == 1 + Cardinality(S)
  IN  /\ session_sequences' =
           [session_sequences EXCEPT ![s] = Next1({e \in events : e.session_id = s})]
      /\ agent_sequences' =
           [agent_sequences EXCEPT ![a] = Next1({e \in events : e.agent_id = a})]

\* Both positions come from counters that pruning does not touch.
AllocateSequences(s, a) ==
  /\ session_sequences' = [session_sequences EXCEPT ![s] = @ + 1]
  /\ agent_sequences' = [agent_sequences EXCEPT ![a] = @ + 1]

Mut_RetainsTheWindowOnly == Window

\* DetectionRetentionPolicy.total_retention_seconds.
TotalRetention == Window + Grace

\* prune_events.
Retained(S, cutoff) == {e \in S : e.timestamp >= cutoff}

Mut_TrustsTheBinding(w) ==
  LET s == worker[w].session_id
  IN  /\ worker[w].pc = "stamped"
      /\ AllocateSequences(s, worker[w].agent_id)
      /\ recorded' = recorded \cup {NumberedEvent(w)}
      /\ events' = Retained(events \cup {NumberedEvent(w)}, worker[w].timestamp - TotalRetention)
      /\ worker' = [worker EXCEPT ![w].pc = "recorded", ![w].sequence_number = session_sequences'[s]]
      /\ UNCHANGED <<now, sessions, tombstones, findings, baselines, reinstating>>

\* SessionService.record_event: the repository validates the session again and numbers the
\* event in one critical section; pruning, relative to the event's timestamp, follows in
\* another.
RecordEvent(w) ==
  LET s == worker[w].session_id
  IN  /\ worker[w].pc = "stamped"
      /\ ~Terminal(s)
      /\ sessions[s] = worker[w].agent_id
      /\ AllocateSequences(s, worker[w].agent_id)
      /\ recorded' = recorded \cup {NumberedEvent(w)}
      /\ events' = Retained(events \cup {NumberedEvent(w)}, worker[w].timestamp - TotalRetention)
      /\ worker' = [worker EXCEPT ![w].pc = "recorded", ![w].sequence_number = session_sequences'[s]]
      /\ UNCHANGED <<now, sessions, tombstones, findings, baselines, reinstating>>

\* record_event raises for a session that ended since it was bound.
RecordFails(w) ==
  /\ worker[w].pc = "stamped"
  /\ Terminal(worker[w].session_id)
  /\ Done(w)
  /\ UNCHANGED <<now, sessions, tombstones, events, session_sequences, agent_sequences, findings,
                 baselines, reinstating, recorded>>

InWindow(t, time) == time - Window <= t /\ t <= time

\* The events that the horizon query of a request selects from a set of events.
Eligible(w, S) ==
  {e \in S : /\ e.agent_id = worker[w].agent_id
             /\ e.agent_sequence > worker[w].baseline
             /\ InWindow(e.timestamp, worker[w].timestamp)}

\* list_eligible_events with AGENT scope at the timestamp of the request's own event.
ListEligibleEvents(w) ==
  /\ worker[w].pc = "recorded"
  /\ worker' = [worker EXCEPT ![w].pc = "listed", ![w].eligible = Eligible(w, events)]
  /\ UNCHANGED <<now, sessions, tombstones, events, session_sequences, agent_sequences, findings,
                 baselines, reinstating, recorded>>

\* The horizon cannot be read (SessionRepositoryError), or the findings cannot be written:
\* _refuse_horizon_unavailable and _refuse_evidence_recording end the request.
Refuse(w) ==
  /\ worker[w].pc \in {"recorded", "detected"}
  /\ Done(w)
  /\ UNCHANGED <<now, sessions, tombstones, events, session_sequences, agent_sequences, findings,
                 baselines, reinstating, recorded>>

Denials(w) == {e \in worker[w].eligible :
                 e.decision = "DENY" /\ InWindow(e.timestamp, worker[w].timestamp)}

DeniedSequences(w) == {e.agent_sequence : e \in Denials(w)}

\* The findings of the request's own session and generation that rest on a denial still in
\* the window.
Pinned(w) ==
  {i \in DOMAIN findings :
     /\ findings[i].session_id = worker[w].session_id
     /\ findings[i].agent_id = worker[w].agent_id
     /\ findings[i].recovery_generation = worker[w].generation
     /\ findings[i].evidence \cap DeniedSequences(w) # {}}

\* The n smallest of a set of positions.
First(n, S) == {x \in S : Cardinality({y \in S : y <= x}) <= n}

\* _crossing_evidence: the evidence pinned by the first such finding, or else the first
\* denials that reach the threshold.
CrossingEvidence(w) ==
  IF Pinned(w) # {}
  THEN UNION {findings[i].evidence : i \in First(1, Pinned(w))}
  ELSE First(Threshold, DeniedSequences(w))

\* The last denial in the order of the agent's sequence.
Latest(w) == {e \in Denials(w) : \A d \in Denials(w) : d.agent_sequence <= e.agent_sequence}

Mut_MoreThanTheThreshold(w) == Cardinality(Denials(w)) > Threshold

Crosses(w) == Cardinality(Denials(w)) >= Threshold

Mut_GenerationOfTheMoment(w) ==
  IF Crosses(w)
  THEN {[session_id |-> e.session_id, agent_id |-> worker[w].agent_id,
         evidence |-> CrossingEvidence(w),
         recovery_generation |-> RecoveryGeneration(worker[w].agent_id)] : e \in Latest(w)}
  ELSE {}

\* detect_excessive_denials, attributed to the session of the latest denial.
DetectExcessiveDenials(w) ==
  IF Crosses(w)
  THEN {[session_id |-> e.session_id, agent_id |-> worker[w].agent_id,
         evidence |-> CrossingEvidence(w),
         recovery_generation |-> worker[w].generation] : e \in Latest(w)}
  ELSE {}

Detect(w) ==
  /\ worker[w].pc = "listed"
  /\ worker' = [worker EXCEPT ![w].pc = "detected", ![w].found = DetectExcessiveDenials(w),
                              ![w].eligible = {}]
  /\ UNCHANGED <<now, sessions, tombstones, events, session_sequences, agent_sequences, findings,
                 baselines, reinstating, recorded>>

\* record_new_findings, under the agent's posture lock, which the coordinator may hold: a
\* finding whose identifier is stored is skipped.  What follows in the request is modelled in
\* Containment.
RecordNewFindings(w) ==
  /\ worker[w].pc = "detected"
  /\ reinstating[worker[w].agent_id] = {}
  /\ \/ \E f \in worker[w].found :
          /\ \A i \in DOMAIN findings : findings[i] # f
          /\ findings' = Append(findings, f)
     \/ /\ \A f \in worker[w].found : \E i \in DOMAIN findings : findings[i] = f
        /\ UNCHANGED findings
  /\ Done(w)
  /\ UNCHANGED <<now, sessions, tombstones, events, session_sequences, agent_sequences, baselines,
                 reinstating, recorded>>

--------------------------------------------------------------------------------
(* EnforcementCoordinator.reinstate of a suspended agent.  Which findings    *)
(* suspend an agent is not modelled here, so any agent may be suspended.     *)

\* current_agent_sequence, read under the agent's lock,
ReadWatermark(a) ==
  /\ reinstating[a] = {}
  /\ Disturbances < MaxDisturbances
  /\ reinstating' = [reinstating EXCEPT ![a] = {agent_sequences[a]}]
  /\ UNCHANGED <<now, sessions, tombstones, events, session_sequences, agent_sequences, findings,
                 baselines, worker, recorded>>

\* and committed by reinstate_agent as the baseline of the next recovery generation.
Reinstate(a) ==
  /\ \E watermark \in reinstating[a] :
       baselines' = [baselines EXCEPT ![a] = Append(@, watermark)]
  /\ reinstating' = [reinstating EXCEPT ![a] = {}]
  /\ UNCHANGED <<now, sessions, tombstones, events, session_sequences, agent_sequences, findings,
                 worker, recorded>>

\* Time, as long as no request overstays MaxLag between its timestamp and its detection.
Tick ==
  /\ now < MaxTime
  /\ Disturbances < MaxDisturbances
  /\ \A w \in Workers : worker[w].pc \in {"stamped", "recorded"} =>
                          now - worker[w].timestamp < MaxLag
  /\ now' = now + 1
  /\ UNCHANGED <<sessions, tombstones, events, session_sequences, agent_sequences, findings,
                 baselines, worker, reinstating, recorded>>

RequestStep(w) ==
  \/ \E s \in SessionIds, a \in Agents : Bind(w, s, a)
  \/ RecordEvent(w) \/ RecordFails(w) \/ ListEligibleEvents(w)
  \/ Refuse(w) \/ Detect(w) \/ RecordNewFindings(w)

Next ==
  \/ \E w \in Workers : RequestStep(w)
  \/ \E s \in SessionIds : EndSession(s)
  \/ \E a \in Agents : ReadWatermark(a) \/ Reinstate(a)
  \/ Tick

Spec == Init /\ [][Next]_vars

--------------------------------------------------------------------------------
(* Properties.                                                               *)

\* Evidence is attributed to one agent for good (M4-S-1 to M4-S-4): whoever bound a session
\* owns it while it is active and after it ended, so every event ever recorded in a session,
\* before or after any number of expiries and rebindings, is its one owner's.
Owner(s) == IF Terminal(s) THEN tombstones[s] ELSE sessions[s]

OwnershipIsFinal ==
  /\ \A s \in SessionIds : ~(Active(s) /\ Terminal(s))
  /\ \A e \in recorded : Owner(e.session_id) = e.agent_id

\* A session that has ended is sealed: a request that was bound before the end, and was
\* authorized under that binding, adds no event to it.
EndedSessionsAreSealed ==
  [][\A s \in SessionIds :
       Terminal(s) => {e \in events' : e.session_id = s} \subseteq events]_vars

\* Positions are never reused, also after pruning removed the events that held them: no two
\* events of an agent share an agent_sequence, no two of a session a sequence_number, and
\* the watermark a reinstatement reads covers every event recorded before it.
PositionsAreUnique ==
  /\ \A d, e \in recorded :
       \/ d = e
       \/ /\ d.agent_id = e.agent_id => d.agent_sequence # e.agent_sequence
          /\ d.session_id = e.session_id => d.sequence_number # e.sequence_number
  /\ \A e \in recorded : e.agent_sequence <= agent_sequences[e.agent_id]

\* "Full detection evaluation horizon is preserved" (M4-EVENT-1): a request that reads the
\* horizon finds every event ever recorded for its window, although later requests have
\* pruned behind its back, as long as it is no later than the grace period.
HorizonIsPreserved ==
  \A w \in Workers :
    worker[w].pc = "recorded" =>
      {e.agent_sequence : e \in Eligible(w, events)} =
      {e.agent_sequence : e \in Eligible(w, recorded)}

\* A denial that is at least the Threshold-th in its window, counting every session of the
\* agent and what was recorded before it, leaves its request with a finding that rests on a
\* denial of that window and belongs to the recovery generation the request saw.
CrossingIsReported ==
  [][\A w \in Workers :
       LET denials == {e \in Eligible(w, recorded) : e.decision = "DENY"}
           own == {e \in denials : e.session_id = worker[w].session_id
                                   /\ e.sequence_number = worker[w].sequence_number}
           before == {e \in denials : \A o \in own : e.agent_sequence <= o.agent_sequence}
       IN  RecordNewFindings(w) /\ own # {} /\ Cardinality(before) >= Threshold
           => \E i \in DOMAIN findings' :
                /\ findings'[i].agent_id = worker[w].agent_id
                /\ findings'[i].recovery_generation = worker[w].generation
                /\ findings'[i].evidence \cap {e.agent_sequence : e \in denials} # {}]_vars

\* What a reinstatement forgave does not count again: a finding of a recovery generation
\* rests only on events after the baseline of that generation, whatever reinstatements
\* happened while its request ran (DR-8(c): baseline and generation from one snapshot).
EvidenceIsAfterItsBaseline ==
  \A i \in DOMAIN findings :
    \A n \in findings[i].evidence :
      n > baselines[findings[i].agent_id][findings[i].recovery_generation + 1]

\* The episode rule: "A crossing remains the same occurrence while any of its pinned evidence
\* is still inside the evaluation window", so two findings of one session, agent and
\* recovery generation share no evidence.
EpisodesShareNoEvidence ==
  \A i, j \in DOMAIN findings :
    i # j /\ findings[i].agent_id = findings[j].agent_id
          /\ findings[i].session_id = findings[j].session_id
          /\ findings[i].recovery_generation = findings[j].recovery_generation
      => findings[i].evidence \cap findings[j].evidence = {}

================================================================================
