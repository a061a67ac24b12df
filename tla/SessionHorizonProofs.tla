-------------------------- MODULE SessionHorizonProofs --------------------------
(***************************************************************************)
(* Ownership, positions and the horizon, for any number of agents,         *)
(* sessions, requests and events, and any window and grace period.         *)
(***************************************************************************)
EXTENDS SessionHorizon, FiniteSetTheorems, WellFoundedInduction, TLAPS

\* A request that has begun has a session and an agent.
WorkersAreBound ==
  \A w \in Workers :
    worker[w].pc # "idle" => worker[w].session_id \in SessionIds /\ worker[w].agent_id \in Agents

Typed == TypeOK /\ WorkersAreBound

\* A worker without a request.
LEMMA IdleIsTyped == Idle \in Request
BY DEF Idle, Request, Decision

\* At first no session and no request exists.
LEMMA TypedInit == Init => Typed
BY IdleIsTyped DEF Init, Typed, TypeOK, WorkersAreBound, Idle

\* The evidence of a crossing is a set of positions.
LEMMA FoundIsTyped ==
  ASSUME Typed, NEW w \in Workers, worker[w].pc = "listed"
  PROVE  DetectExcessiveDenials(w) \subseteq Finding
<1>1. /\ worker[w].eligible \subseteq Event
      /\ worker[w].agent_id \in Agents
      /\ worker[w].generation \in Nat
  BY DEF Typed, TypeOK, WorkersAreBound, Request
<1>2. Denials(w) \subseteq Event
  BY <1>1 DEF Denials
<1>3. DeniedSequences(w) \subseteq Nat
  BY <1>2 DEF DeniedSequences, Event
<1>4. CrossingEvidence(w) \subseteq Nat
  <2>1. First(Threshold, DeniedSequences(w)) \subseteq Nat
    BY <1>3 DEF First
  <2>2. First(1, Pinned(w)) \subseteq DOMAIN findings
    BY DEF First, Pinned
  <2>3. \A i \in DOMAIN findings : findings[i].evidence \subseteq Nat
    <3>1. findings \in Seq(Finding)
      BY DEF Typed, TypeOK
    <3>2. \A i \in DOMAIN findings : findings[i] \in Finding
      BY <3>1
    <3> QED BY <3>2 DEF Finding
  <2>4. UNION {findings[i].evidence : i \in First(1, Pinned(w))} \subseteq Nat
    BY <2>2, <2>3
  <2> QED BY <2>1, <2>4 DEF CrossingEvidence
<1>5. \A e \in Latest(w) : e.session_id \in SessionIds
  BY <1>2 DEF Latest, Event
<1> QED BY <1>1, <1>4, <1>5 DEF DetectExcessiveDenials, Finding

\* What record_event appends is an event.
LEMMA NumberedIsTyped ==
  ASSUME Typed, NEW w \in Workers, worker[w].pc = "stamped",
         AllocateSequences(worker[w].session_id, worker[w].agent_id)
  PROVE  /\ NumberedEvent(w) \in Event
         /\ session_sequences' \in [SessionIds -> Nat]
         /\ agent_sequences' \in [Agents -> Nat]
         /\ session_sequences'[worker[w].session_id] = session_sequences[worker[w].session_id] + 1
         /\ agent_sequences'[worker[w].agent_id] = agent_sequences[worker[w].agent_id] + 1
<1>1. /\ worker[w].session_id \in SessionIds
      /\ worker[w].agent_id \in Agents
      /\ worker[w].decision \in Decision
      /\ worker[w].timestamp \in Nat
  BY DEF Typed, TypeOK, WorkersAreBound, Request
<1>2. /\ session_sequences \in [SessionIds -> Nat]
      /\ agent_sequences \in [Agents -> Nat]
  BY DEF Typed, TypeOK
<1>3. /\ session_sequences' \in [SessionIds -> Nat]
      /\ agent_sequences' \in [Agents -> Nat]
      /\ session_sequences'[worker[w].session_id] = session_sequences[worker[w].session_id] + 1
      /\ agent_sequences'[worker[w].agent_id] = agent_sequences[worker[w].agent_id] + 1
  BY <1>1, <1>2 DEF AllocateSequences
<1> QED BY <1>1, <1>3 DEF NumberedEvent, Event

\* Every step keeps the state well formed.
LEMMA TypedStep == Typed /\ [Next]_vars => Typed'
<1> SUFFICES ASSUME Typed, [Next]_vars
             PROVE  Typed'
  OBVIOUS
<1>0. worker \in [Workers -> Request]
  BY DEF Typed, TypeOK
<1>1. ASSUME NEW w \in Workers, NEW s \in SessionIds, NEW a \in Agents, Bind(w, s, a)
      PROVE  Typed'
  <2>1. PICK decision \in Decision :
          worker' = [worker EXCEPT ![w] =
                       [Idle EXCEPT !.pc = "stamped", !.session_id = s, !.agent_id = a,
                                    !.decision = decision, !.timestamp = now,
                                    !.baseline = baselines[a][Len(baselines[a])],
                                    !.generation = RecoveryGeneration(a)]]
    BY <1>1 DEF Bind
  <2>2. baselines[a] \in Seq(Nat) /\ baselines[a] # <<>>
    BY DEF Typed, TypeOK
  <2>3. Len(baselines[a]) \in Nat \ {0} /\ Len(baselines[a]) \in DOMAIN baselines[a]
    BY <2>2
  <2>4. /\ baselines[a][Len(baselines[a])] \in Nat
        /\ RecoveryGeneration(a) \in Nat
    BY <2>2, <2>3 DEF RecoveryGeneration
  <2>5. now \in Nat
    BY DEF Typed, TypeOK
  <2>6. [Idle EXCEPT !.pc = "stamped", !.session_id = s, !.agent_id = a, !.decision = decision,
                     !.timestamp = now, !.baseline = baselines[a][Len(baselines[a])],
                     !.generation = RecoveryGeneration(a)] \in Request
    BY <2>4, <2>5 DEF Idle, Request
  <2>7. worker' \in [Workers -> Request]
    BY <1>0, <2>1, <2>6
  <2>8. WorkersAreBound'
    BY <1>0, <2>1 DEF Typed, WorkersAreBound, Idle
  <2>9. sessions' \in [SessionIds -> Agents \cup {NoAgent}]
    BY <1>1 DEF Bind, BindOrCreateSession, Typed, TypeOK
  <2> QED BY <1>1, <2>7, <2>8, <2>9 DEF Bind, Typed, TypeOK
<1>2. ASSUME NEW w \in Workers, RecordEvent(w)
      PROVE  Typed'
  <2>1. /\ NumberedEvent(w) \in Event
        /\ session_sequences' \in [SessionIds -> Nat]
        /\ agent_sequences' \in [Agents -> Nat]
    BY <1>2, NumberedIsTyped DEF RecordEvent
  <2>2. worker[w].session_id \in SessionIds
    BY <1>2 DEF RecordEvent, Typed, WorkersAreBound
  <2>3. worker' = [worker EXCEPT ![w].pc = "recorded",
                                 ![w].sequence_number = session_sequences'[worker[w].session_id]]
    BY <1>2 DEF RecordEvent
  <2>4. worker' \in [Workers -> Request]
    <3> DEFINE next == [worker[w] EXCEPT !.pc = "recorded",
                          !.sequence_number = session_sequences'[worker[w].session_id]]
    <3>1. worker[w] \in Request /\ session_sequences'[worker[w].session_id] \in Nat
      BY <1>0, <2>1, <2>2
    <3>2. next \in Request
      BY <3>1 DEF Request
    <3>3. worker' = [worker EXCEPT ![w] = next]
      BY <1>0, <2>3
    <3> QED BY <1>0, <3>2, <3>3
  <2>5. WorkersAreBound'
    BY <1>0, <1>2, <2>3 DEF RecordEvent, Typed, WorkersAreBound, Request
  <2>6. recorded' \subseteq Event /\ events' \subseteq Event
    BY <1>2, <2>1 DEF RecordEvent, Retained, Typed, TypeOK
  <2> QED BY <1>2, <2>1, <2>4, <2>5, <2>6 DEF RecordEvent, Typed, TypeOK
<1>3. ASSUME NEW w \in Workers, Done(w)
      PROVE  worker' \in [Workers -> Request] /\ WorkersAreBound'
  BY <1>0, <1>3, IdleIsTyped DEF Done, Typed, WorkersAreBound, Idle
<1>4. ASSUME NEW w \in Workers, RecordFails(w) \/ Refuse(w)
      PROVE  Typed'
  BY <1>3, <1>4 DEF RecordFails, Refuse, Typed, TypeOK
<1>5. ASSUME NEW w \in Workers, ListEligibleEvents(w)
      PROVE  Typed'
  <2>1. Eligible(w, events) \subseteq Event
    BY DEF Eligible, Typed, TypeOK
  <2>2. worker' = [worker EXCEPT ![w].pc = "listed", ![w].eligible = Eligible(w, events)]
    BY <1>5 DEF ListEligibleEvents
  <2>3. worker' \in [Workers -> Request]
    <3> DEFINE next == [worker[w] EXCEPT !.pc = "listed", !.eligible = Eligible(w, events)]
    <3>1. worker[w] \in Request
      BY <1>0
    <3>2. next \in Request
      BY <2>1, <3>1 DEF Request
    <3>3. worker' = [worker EXCEPT ![w] = next]
      BY <1>0, <2>2
    <3> QED BY <1>0, <3>2, <3>3
  <2>4. WorkersAreBound'
    BY <1>0, <1>5, <2>2 DEF ListEligibleEvents, Typed, WorkersAreBound, Request
  <2> QED BY <1>5, <2>3, <2>4 DEF ListEligibleEvents, Typed, TypeOK
<1>6. ASSUME NEW w \in Workers, Detect(w)
      PROVE  Typed'
  <2>1. DetectExcessiveDenials(w) \subseteq Finding
    BY <1>6, FoundIsTyped DEF Detect
  <2>2. worker' = [worker EXCEPT ![w].pc = "detected", ![w].found = DetectExcessiveDenials(w),
                                 ![w].eligible = {}]
    BY <1>6 DEF Detect
  <2>3. worker' \in [Workers -> Request]
    <3> DEFINE next == [worker[w] EXCEPT !.pc = "detected", !.found = DetectExcessiveDenials(w),
                                         !.eligible = {}]
    <3>1. worker[w] \in Request
      BY <1>0
    <3>2. next \in Request
      BY <2>1, <3>1 DEF Request
    <3>3. worker' = [worker EXCEPT ![w] = next]
      BY <1>0, <2>2
    <3> QED BY <1>0, <3>2, <3>3
  <2>4. WorkersAreBound'
    BY <1>0, <1>6, <2>2 DEF Detect, Typed, WorkersAreBound, Request
  <2> QED BY <1>6, <2>3, <2>4 DEF Detect, Typed, TypeOK
<1>7. ASSUME NEW w \in Workers, RecordNewFindings(w)
      PROVE  Typed'
  <2>1. findings \in Seq(Finding) /\ worker[w].found \subseteq Finding
    BY <1>0 DEF Typed, TypeOK, Request
  <2>2. findings' \in Seq(Finding)
    BY <1>7, <2>1 DEF RecordNewFindings
  <2>3. worker' \in [Workers -> Request] /\ WorkersAreBound'
    BY <1>3, <1>7 DEF RecordNewFindings
  <2> QED BY <1>7, <2>2, <2>3 DEF RecordNewFindings, Typed, TypeOK
<1>8. ASSUME NEW s \in SessionIds, EndSession(s)
      PROVE  Typed'
  BY <1>8 DEF EndSession, TerminalizeSession, Typed, TypeOK, WorkersAreBound
<1>9. ASSUME NEW a \in Agents, ReadWatermark(a)
      PROVE  Typed'
  BY <1>9 DEF ReadWatermark, Typed, TypeOK, WorkersAreBound
<1>10. ASSUME NEW a \in Agents, Reinstate(a)
       PROVE  Typed'
  <2>1. PICK watermark \in reinstating[a] :
          baselines' = [baselines EXCEPT ![a] = Append(baselines[a], watermark)]
    BY <1>10 DEF Reinstate
  <2>2. watermark \in Nat /\ baselines[a] \in Seq(Nat)
    BY DEF Typed, TypeOK
  <2>3. Append(baselines[a], watermark) \in Seq(Nat) \ {<<>>}
    BY <2>2
  <2>4. baselines' \in [Agents -> Seq(Nat) \ {<<>>}]
    BY <2>1, <2>3 DEF Typed, TypeOK
  <2> QED BY <1>10, <2>4 DEF Reinstate, Typed, TypeOK, WorkersAreBound
<1>11. CASE Tick
  BY <1>11 DEF Tick, Typed, TypeOK, WorkersAreBound
<1>12. CASE UNCHANGED vars
  BY <1>12 DEF vars, Typed, TypeOK, WorkersAreBound
<1> QED BY <1>1, <1>2, <1>4, <1>5, <1>6, <1>7, <1>8, <1>9, <1>10, <1>11, <1>12
        DEF Next, RequestStep

\* The state stays well formed under any number of requests, sessions and reinstatements.
THEOREM TypeCorrect == Spec => []TypeOK
<1>1. Typed => TypeOK
  BY DEF Typed
<1> QED BY TypedInit, TypedStep, <1>1, PTL DEF Spec

--------------------------------------------------------------------------------
(* Ownership.                                                                *)

\* No step moves a session, or an event of it, to another agent.
LEMMA OwnershipStep ==
  Typed /\ OwnershipIsFinal /\ [Next]_vars => OwnershipIsFinal'
<1> SUFFICES ASSUME Typed, OwnershipIsFinal, [Next]_vars
             PROVE  OwnershipIsFinal'
  OBVIOUS
<1> USE NoneAssumption
<1>0. /\ sessions \in [SessionIds -> Agents \cup {NoAgent}]
      /\ tombstones \in [SessionIds -> Agents \cup {NoAgent}]
      /\ \A e \in recorded : e.session_id \in SessionIds /\ e.agent_id \in Agents
  BY DEF Typed, TypeOK, Event
<1>1. ASSUME NEW w \in Workers, NEW s \in SessionIds, NEW a \in Agents, Bind(w, s, a)
      PROVE  OwnershipIsFinal'
  <2>1. /\ ~Terminal(s)
        /\ Active(s) => sessions[s] = a
        /\ sessions' = [sessions EXCEPT ![s] = a]
        /\ UNCHANGED <<tombstones, recorded>>
    BY <1>1 DEF Bind, BindOrCreateSession
  <2>2. \A e \in recorded : e.session_id = s => sessions[s] = a /\ e.agent_id = a
    BY <1>0, <2>1 DEF OwnershipIsFinal, Owner, Active, Terminal
  <2> QED BY <1>0, <2>1, <2>2 DEF OwnershipIsFinal, Owner, Active, Terminal
<1>2. ASSUME NEW w \in Workers, RecordEvent(w)
      PROVE  OwnershipIsFinal'
  <2>1. /\ ~Terminal(worker[w].session_id)
        /\ sessions[worker[w].session_id] = worker[w].agent_id
        /\ recorded' = recorded \cup {NumberedEvent(w)}
        /\ UNCHANGED <<sessions, tombstones>>
    BY <1>2 DEF RecordEvent
  <2>2. /\ NumberedEvent(w).session_id = worker[w].session_id
        /\ NumberedEvent(w).agent_id = worker[w].agent_id
    BY DEF NumberedEvent
  <2> HIDE DEF NumberedEvent
  <2> QED BY <2>1, <2>2 DEF OwnershipIsFinal, Owner, Active, Terminal
<1>3. ASSUME NEW s \in SessionIds, EndSession(s)
      PROVE  OwnershipIsFinal'
  <2>1. /\ Active(s)
        /\ tombstones' = [tombstones EXCEPT ![s] = sessions[s]]
        /\ sessions' = [sessions EXCEPT ![s] = NoAgent]
        /\ UNCHANGED recorded
    BY <1>3 DEF EndSession, TerminalizeSession
  <2> QED BY <1>0, <2>1 DEF OwnershipIsFinal, Owner, Active, Terminal
<1>4. CASE UNCHANGED <<sessions, tombstones, recorded>>
  BY <1>4 DEF OwnershipIsFinal, Owner, Active, Terminal
<1> QED BY <1>1, <1>2, <1>3, <1>4
        DEF Next, RequestStep, vars, RecordFails, ListEligibleEvents, Refuse, Detect,
            RecordNewFindings, ReadWatermark, Reinstate, Tick

\* The attribution of evidence in SessionService is final: whatever ends, expires or tries to
\* rebind, an event belongs to the one agent that ever owned its session.
THEOREM OwnershipFinal == Spec => []OwnershipIsFinal
<1>1. Init => OwnershipIsFinal
  BY DEF Init, OwnershipIsFinal, Active, Terminal
<1> QED BY <1>1, TypedInit, TypedStep, OwnershipStep, PTL DEF Spec

--------------------------------------------------------------------------------
(* Positions.                                                                *)

\* No event holds a position its allocator has not yet handed out.
AllocatorsAreAhead ==
  \A e \in recorded : /\ e.agent_sequence <= agent_sequences[e.agent_id]
                      /\ e.sequence_number <= session_sequences[e.session_id]

\* An event is numbered beyond every event before it.
LEMMA PositionsStep ==
  Typed /\ PositionsAreUnique /\ AllocatorsAreAhead /\ [Next]_vars
    => PositionsAreUnique' /\ AllocatorsAreAhead'
<1> SUFFICES ASSUME Typed, PositionsAreUnique, AllocatorsAreAhead, [Next]_vars
             PROVE  PositionsAreUnique' /\ AllocatorsAreAhead'
  OBVIOUS
<1>1. ASSUME NEW w \in Workers, RecordEvent(w)
      PROVE  PositionsAreUnique' /\ AllocatorsAreAhead'
  <2> DEFINE s == worker[w].session_id
             a == worker[w].agent_id
             new == NumberedEvent(w)
  <2>1. /\ s \in SessionIds /\ a \in Agents
        /\ recorded' = recorded \cup {new}
        /\ session_sequences' = [session_sequences EXCEPT ![s] = session_sequences[s] + 1]
        /\ agent_sequences' = [agent_sequences EXCEPT ![a] = agent_sequences[a] + 1]
    BY <1>1 DEF RecordEvent, AllocateSequences, Typed, WorkersAreBound
  <2>2. /\ session_sequences \in [SessionIds -> Nat]
        /\ agent_sequences \in [Agents -> Nat]
    BY DEF Typed, TypeOK
  <2>3. /\ new.session_id = s /\ new.agent_id = a
        /\ new.sequence_number = session_sequences[s] + 1
        /\ new.agent_sequence = agent_sequences[a] + 1
    BY <2>1, <2>2 DEF NumberedEvent
  <2>4. \A e \in recorded : /\ e.session_id \in SessionIds /\ e.agent_id \in Agents
                            /\ e.sequence_number \in Nat /\ e.agent_sequence \in Nat
    BY DEF Typed, TypeOK, Event
  <2> HIDE DEF new, s, a
  <2>5. AllocatorsAreAhead'
    BY <2>1, <2>2, <2>3, <2>4 DEF AllocatorsAreAhead
  <2>6. \A e \in recorded : /\ e.agent_id = a => e.agent_sequence # new.agent_sequence
                            /\ e.session_id = s => e.sequence_number # new.sequence_number
    BY <2>1, <2>2, <2>3, <2>4 DEF AllocatorsAreAhead
  <2>7. PositionsAreUnique'
    BY <2>1, <2>3, <2>5, <2>6 DEF PositionsAreUnique, AllocatorsAreAhead
  <2> QED BY <2>5, <2>7
<1>2. CASE UNCHANGED <<session_sequences, agent_sequences, recorded>>
  BY <1>2 DEF PositionsAreUnique, AllocatorsAreAhead
<1> QED BY <1>1, <1>2
        DEF Next, RequestStep, vars, Bind, RecordFails, ListEligibleEvents, Refuse, Detect,
            RecordNewFindings, EndSession, ReadWatermark, Reinstate, Tick

\* The allocators of the session repository never hand out a position twice, however many
\* events have been pruned.
THEOREM PositionsUnique == Spec => []PositionsAreUnique
<1>1. Init => PositionsAreUnique /\ AllocatorsAreAhead
  BY DEF Init, PositionsAreUnique, AllocatorsAreAhead
<1> QED BY <1>1, TypedInit, TypedStep, PositionsStep, PTL DEF Spec

--------------------------------------------------------------------------------
(* The horizon.                                                              *)

\* What has been pruned is older than the retention period, and no request on its way to
\* the horizon is later than MaxLag.
PrunedIsOld ==
  /\ events \subseteq recorded
  /\ \A e \in recorded \ events : e.timestamp < now - TotalRetention
  /\ \A w \in Workers : worker[w].pc \in {"stamped", "recorded"} =>
                          now - MaxLag <= worker[w].timestamp /\ worker[w].timestamp <= now

\* Pruning relative to a request's timestamp removes nothing younger than the retention period.
LEMMA PrunedStep == Typed /\ PrunedIsOld /\ [Next]_vars => PrunedIsOld'
<1> SUFFICES ASSUME Typed, PrunedIsOld, [Next]_vars
             PROVE  PrunedIsOld'
  OBVIOUS
<1> USE HorizonAssumption
<1>0. /\ now \in Nat /\ MaxLag \in Nat /\ TotalRetention \in Nat
      /\ worker \in [Workers -> Request]
      /\ \A v \in Workers : worker[v].timestamp \in Nat
      /\ \A e \in recorded : e.timestamp \in Nat
  BY DEF Typed, TypeOK, Request, Event, TotalRetention
<1>1. ASSUME NEW w \in Workers, NEW s \in SessionIds, NEW a \in Agents, Bind(w, s, a)
      PROVE  PrunedIsOld'
  <2>1. /\ worker'[w].timestamp = now
        /\ \A v \in Workers \ {w} : worker'[v] = worker[v]
        /\ UNCHANGED <<now, events, recorded>>
    BY <1>0, <1>1 DEF Bind, Idle
  <2> QED BY <1>0, <2>1 DEF PrunedIsOld, TotalRetention
<1>2. ASSUME NEW w \in Workers, RecordEvent(w)
      PROVE  PrunedIsOld'
  <2> DEFINE new == NumberedEvent(w)
  <2>1. /\ worker[w].pc = "stamped"
        /\ recorded' = recorded \cup {new}
        /\ events' = Retained(events \cup {new}, worker[w].timestamp - TotalRetention)
        /\ UNCHANGED now
    BY <1>2 DEF RecordEvent
  <2>2. \A v \in Workers : /\ worker'[v].timestamp = worker[v].timestamp
                           /\ v # w => worker'[v].pc = worker[v].pc
    BY <1>0, <1>2 DEF RecordEvent, Request
  <2>3. worker[w].timestamp <= now /\ worker[w].timestamp \in Nat
    BY <1>0, <2>1 DEF PrunedIsOld
  <2>4. new.timestamp = worker[w].timestamp
    BY DEF NumberedEvent
  <2> HIDE DEF new
  <2>5. \A e \in recorded' \ events' : e.timestamp < now - TotalRetention
    <3> SUFFICES ASSUME NEW e \in recorded' \ events'
                 PROVE  e.timestamp < now - TotalRetention
      OBVIOUS
    <3>1. CASE e \in recorded \ events
      BY <3>1 DEF PrunedIsOld
    <3>2. CASE e \in events \cup {new}
      <4>1. e.timestamp \in Nat
        BY <1>0, <2>3, <2>4, <3>2 DEF PrunedIsOld
      <4>2. ~(e.timestamp >= worker[w].timestamp - TotalRetention)
        BY <2>1, <3>2 DEF Retained
      <4> QED BY <1>0, <2>3, <4>1, <4>2
    <3> QED BY <2>1, <3>1, <3>2
  <2>6. events' \subseteq recorded'
    BY <2>1 DEF Retained, PrunedIsOld
  <2>7. \A v \in Workers : worker'[v].pc \in {"stamped", "recorded"} =>
                             now - MaxLag <= worker'[v].timestamp /\ worker'[v].timestamp <= now
    BY <2>1, <2>2 DEF PrunedIsOld
  <2>8. TotalRetention' = TotalRetention
    BY DEF TotalRetention
  <2> QED BY <2>1, <2>5, <2>6, <2>7, <2>8 DEF PrunedIsOld
<1>3. CASE Tick
  BY <1>0, <1>3 DEF Tick, PrunedIsOld, TotalRetention
<1>4. ASSUME UNCHANGED <<now, events, recorded>>,
             \A v \in Workers : worker'[v].pc \in {"stamped", "recorded"} =>
                                  worker'[v] = worker[v]
      PROVE  PrunedIsOld'
  BY <1>4 DEF PrunedIsOld, TotalRetention
<1>5. ASSUME NEW w \in Workers,
             RecordFails(w) \/ Refuse(w) \/ ListEligibleEvents(w) \/ Detect(w) \/ RecordNewFindings(w)
      PROVE  PrunedIsOld'
  <2>1. \A v \in Workers : worker'[v].pc \in {"stamped", "recorded"} => worker'[v] = worker[v]
    BY <1>0, <1>5 DEF RecordFails, Refuse, ListEligibleEvents, Detect, RecordNewFindings, Done,
                      Idle, Request
  <2>2. UNCHANGED <<now, events, recorded>>
    BY <1>5 DEF RecordFails, Refuse, ListEligibleEvents, Detect, RecordNewFindings
  <2> QED BY <1>4, <2>1, <2>2
<1>6. CASE UNCHANGED <<now, events, recorded, worker>>
  BY <1>6 DEF PrunedIsOld, TotalRetention
<1> QED BY <1>1, <1>2, <1>3, <1>5, <1>6
        DEF Next, RequestStep, vars, EndSession, ReadWatermark, Reinstate

\* Within the grace period the query returns what was ever recorded for the window.
LEMMA HorizonIsWhole ==
  ASSUME MaxLag <= Grace, Typed, PrunedIsOld, NEW w \in Workers, worker[w].pc = "recorded"
  PROVE  Eligible(w, events) = Eligible(w, recorded)
<1> USE HorizonAssumption
<1>1. /\ now \in Nat /\ worker[w].timestamp \in Nat
      /\ \A e \in recorded : e.timestamp \in Nat
  BY DEF Typed, TypeOK, Request, Event
<1>2. \A e \in recorded \ events : ~InWindow(e.timestamp, worker[w].timestamp)
  BY <1>1 DEF PrunedIsOld, InWindow, TotalRetention
<1> QED BY <1>2 DEF Eligible, PrunedIsOld

\* M4-EVENT-1 for every window: as long as requests reach the horizon within the grace period,
\* SessionService.record_event has pruned nothing that a request still counts.
THEOREM HorizonPreserved ==
  ASSUME MaxLag <= Grace
  PROVE  Spec => []HorizonIsPreserved
<1>1. Init => PrunedIsOld
  BY DEF Init, PrunedIsOld, Idle
<1>2. Typed /\ PrunedIsOld => HorizonIsPreserved
  <2> SUFFICES ASSUME Typed, PrunedIsOld, NEW w \in Workers, worker[w].pc = "recorded"
               PROVE  Eligible(w, events) = Eligible(w, recorded)
    BY DEF HorizonIsPreserved
  <2> QED BY HorizonIsWhole
<1> QED BY <1>1, <1>2, TypedInit, TypedStep, PrunedStep, PTL DEF Spec

--------------------------------------------------------------------------------
(* Baselines.                                                                *)

\* The baseline a request holds is the one of the generation it holds, and everything it
\* has gathered is newer.
SnapshotsAgree ==
  \A w \in Workers :
    /\ worker[w].pc # "idle" =>
         /\ worker[w].generation + 1 \in DOMAIN baselines[worker[w].agent_id]
         /\ baselines[worker[w].agent_id][worker[w].generation + 1] = worker[w].baseline
    /\ \A e \in worker[w].eligible : e.agent_sequence > worker[w].baseline
    /\ \A f \in worker[w].found : /\ f.agent_id = worker[w].agent_id
                                  /\ f.recovery_generation = worker[w].generation
                                  /\ \A n \in f.evidence : n > worker[w].baseline

\* Findings name generations that exist.
GenerationsExist ==
  \A i \in DOMAIN findings :
    findings[i].recovery_generation + 1 \in DOMAIN baselines[findings[i].agent_id]

BaselineInv == SnapshotsAgree /\ GenerationsExist /\ EvidenceIsAfterItsBaseline

\* What detection finds is newer than the baseline of the request's snapshot.
LEMMA FoundIsAfterBaseline ==
  ASSUME Typed, BaselineInv, NEW w \in Workers, worker[w].pc = "listed",
         NEW f \in DetectExcessiveDenials(w)
  PROVE  /\ f.agent_id = worker[w].agent_id
         /\ f.recovery_generation = worker[w].generation
         /\ \A n \in f.evidence : n > worker[w].baseline
<1>1. /\ f.agent_id = worker[w].agent_id
      /\ f.recovery_generation = worker[w].generation
      /\ f.evidence = CrossingEvidence(w)
  BY DEF DetectExcessiveDenials
<1>2. \A n \in First(Threshold, DeniedSequences(w)) : n > worker[w].baseline
  BY DEF First, DeniedSequences, Denials, BaselineInv, SnapshotsAgree
<1>3. \A i \in First(1, Pinned(w)) : \A n \in findings[i].evidence : n > worker[w].baseline
  <2> SUFFICES ASSUME NEW i \in First(1, Pinned(w)), NEW n \in findings[i].evidence
               PROVE  n > worker[w].baseline
    OBVIOUS
  <2>1. /\ i \in DOMAIN findings
        /\ findings[i].agent_id = worker[w].agent_id
        /\ findings[i].recovery_generation = worker[w].generation
    BY DEF First, Pinned
  <2>2. n > baselines[findings[i].agent_id][findings[i].recovery_generation + 1]
    BY <2>1 DEF BaselineInv, EvidenceIsAfterItsBaseline
  <2>3. baselines[worker[w].agent_id][worker[w].generation + 1] = worker[w].baseline
    BY DEF BaselineInv, SnapshotsAgree
  <2> QED BY <2>1, <2>2, <2>3
<1>4. \A n \in CrossingEvidence(w) : n > worker[w].baseline
  BY <1>2, <1>3 DEF CrossingEvidence
<1> QED BY <1>1, <1>4

\* Every step keeps snapshots, generations and evidence in agreement.
LEMMA BaselineStep == Typed /\ BaselineInv /\ [Next]_vars => BaselineInv'
<1> SUFFICES ASSUME Typed, BaselineInv, [Next]_vars
             PROVE  BaselineInv'
  OBVIOUS
<1>0. /\ worker \in [Workers -> Request]
      /\ findings \in Seq(Finding)
      /\ baselines \in [Agents -> Seq(Nat) \ {<<>>}]
  BY DEF Typed, TypeOK
<1>1. ASSUME UNCHANGED <<findings, baselines>>, SnapshotsAgree'
      PROVE  BaselineInv'
  BY <1>1 DEF BaselineInv, GenerationsExist, EvidenceIsAfterItsBaseline
<1>2. ASSUME NEW w \in Workers, NEW s \in SessionIds, NEW a \in Agents, Bind(w, s, a)
      PROVE  BaselineInv'
  <2>1. /\ worker'[w].agent_id = a
        /\ worker'[w].baseline = baselines[a][Len(baselines[a])]
        /\ worker'[w].generation = Len(baselines[a]) - 1
        /\ worker'[w].eligible = {}
        /\ worker'[w].found = {}
        /\ \A v \in Workers \ {w} : worker'[v] = worker[v]
        /\ UNCHANGED <<findings, baselines>>
    BY <1>0, <1>2 DEF Bind, Idle, RecoveryGeneration
  <2>2. baselines[a] \in Seq(Nat) /\ baselines[a] # <<>>
    BY <1>0
  <2>3. /\ Len(baselines[a]) \in DOMAIN baselines[a]
        /\ (Len(baselines[a]) - 1) + 1 = Len(baselines[a])
    BY <2>2
  <2>4. SnapshotsAgree'
    BY <2>1, <2>3 DEF BaselineInv, SnapshotsAgree
  <2> QED BY <1>1, <2>1, <2>4
<1>3. ASSUME NEW w \in Workers, RecordEvent(w)
      PROVE  BaselineInv'
  <2>1. /\ worker[w].pc = "stamped"
        /\ \A v \in Workers \ {w} : worker'[v] = worker[v]
        /\ worker'[w].agent_id = worker[w].agent_id
        /\ worker'[w].generation = worker[w].generation
        /\ worker'[w].baseline = worker[w].baseline
        /\ worker'[w].eligible = worker[w].eligible
        /\ worker'[w].found = worker[w].found
        /\ UNCHANGED <<findings, baselines>>
    BY <1>0, <1>3 DEF RecordEvent, Request
  <2>2. SnapshotsAgree'
    BY <2>1 DEF BaselineInv, SnapshotsAgree
  <2> QED BY <1>1, <2>1, <2>2
<1>4. ASSUME NEW w \in Workers, Done(w), UNCHANGED baselines
      PROVE  SnapshotsAgree'
  <2>1. /\ \A v \in Workers \ {w} : worker'[v] = worker[v]
        /\ worker'[w].pc = "idle"
        /\ worker'[w].eligible = {}
        /\ worker'[w].found = {}
    BY <1>0, <1>4 DEF Done, Idle
  <2> QED BY <1>4, <2>1 DEF BaselineInv, SnapshotsAgree
<1>5. ASSUME NEW w \in Workers, RecordFails(w) \/ Refuse(w)
      PROVE  BaselineInv'
  BY <1>1, <1>4, <1>5 DEF RecordFails, Refuse
<1>6. ASSUME NEW w \in Workers, ListEligibleEvents(w)
      PROVE  BaselineInv'
  <2>1. /\ worker[w].pc = "recorded"
        /\ \A v \in Workers \ {w} : worker'[v] = worker[v]
        /\ worker'[w].agent_id = worker[w].agent_id
        /\ worker'[w].generation = worker[w].generation
        /\ worker'[w].baseline = worker[w].baseline
        /\ worker'[w].eligible = Eligible(w, events)
        /\ worker'[w].found = worker[w].found
        /\ UNCHANGED <<findings, baselines>>
    BY <1>0, <1>6 DEF ListEligibleEvents, Request
  <2>2. \A e \in Eligible(w, events) : e.agent_sequence > worker[w].baseline
    BY DEF Eligible
  <2>3. SnapshotsAgree'
    BY <2>1, <2>2 DEF BaselineInv, SnapshotsAgree
  <2> QED BY <1>1, <2>1, <2>3
<1>7. ASSUME NEW w \in Workers, Detect(w)
      PROVE  BaselineInv'
  <2>1. /\ worker[w].pc = "listed"
        /\ \A v \in Workers \ {w} : worker'[v] = worker[v]
        /\ worker'[w].agent_id = worker[w].agent_id
        /\ worker'[w].generation = worker[w].generation
        /\ worker'[w].baseline = worker[w].baseline
        /\ worker'[w].eligible = {}
        /\ worker'[w].found = DetectExcessiveDenials(w)
        /\ UNCHANGED <<findings, baselines>>
    BY <1>0, <1>7 DEF Detect, Request
  <2>2. \A f \in DetectExcessiveDenials(w) :
          /\ f.agent_id = worker[w].agent_id
          /\ f.recovery_generation = worker[w].generation
          /\ \A n \in f.evidence : n > worker[w].baseline
    BY <2>1, FoundIsAfterBaseline
  <2>3. SnapshotsAgree'
    BY <2>1, <2>2 DEF BaselineInv, SnapshotsAgree
  <2> QED BY <1>1, <2>1, <2>3
<1>8. ASSUME NEW w \in Workers, RecordNewFindings(w)
      PROVE  BaselineInv'
  <2>1. SnapshotsAgree' /\ UNCHANGED baselines
    BY <1>4, <1>8 DEF RecordNewFindings
  <2>2. CASE UNCHANGED findings
    BY <1>1, <2>1, <2>2
  <2>3. ASSUME NEW f \in worker[w].found, findings' = Append(findings, f)
        PROVE  BaselineInv'
    <3>1. /\ f.recovery_generation + 1 \in DOMAIN baselines[f.agent_id]
          /\ \A n \in f.evidence : n > baselines[f.agent_id][f.recovery_generation + 1]
      BY <1>8 DEF RecordNewFindings, BaselineInv, SnapshotsAgree
    <3>2. f \in Finding
      BY <1>0 DEF Request
    <3>3. \A i \in DOMAIN findings' :
            (i \in DOMAIN findings /\ findings'[i] = findings[i]) \/ findings'[i] = f
      BY <1>0, <2>3, <3>2
    <3> QED BY <2>1, <3>1, <3>3 DEF BaselineInv, GenerationsExist, EvidenceIsAfterItsBaseline
  <2> QED BY <1>8, <2>2, <2>3 DEF RecordNewFindings
<1>9. ASSUME NEW a \in Agents, Reinstate(a)
      PROVE  BaselineInv'
  <2>1. PICK watermark \in reinstating[a] :
          baselines' = [baselines EXCEPT ![a] = Append(baselines[a], watermark)]
    BY <1>9 DEF Reinstate
  <2>2. watermark \in Nat
    BY DEF Typed, TypeOK
  <2>3. \A b \in Agents, i \in Nat :
          i \in DOMAIN baselines[b] => i \in DOMAIN baselines'[b] /\ baselines'[b][i] = baselines[b][i]
    BY <1>0, <2>1, <2>2
  <2>4. \A i \in DOMAIN findings : /\ findings[i].agent_id \in Agents
                                   /\ findings[i].recovery_generation + 1 \in Nat
    <3>1. \A i \in DOMAIN findings : findings[i] \in Finding
      BY <1>0
    <3> QED BY <3>1 DEF Finding
  <2>5. \A w \in Workers : worker[w].pc # "idle" =>
                             worker[w].agent_id \in Agents /\ worker[w].generation + 1 \in Nat
    BY <1>0 DEF Typed, WorkersAreBound, Request
  <2>6. UNCHANGED <<findings, worker>>
    BY <1>9 DEF Reinstate
  <2>7. SnapshotsAgree'
    BY <2>3, <2>5, <2>6 DEF BaselineInv, SnapshotsAgree
  <2>8. GenerationsExist'
    BY <2>3, <2>4, <2>6 DEF BaselineInv, GenerationsExist
  <2>9. EvidenceIsAfterItsBaseline'
    BY <2>3, <2>4, <2>6 DEF BaselineInv, GenerationsExist, EvidenceIsAfterItsBaseline
  <2> QED BY <2>7, <2>8, <2>9 DEF BaselineInv
<1>10. CASE UNCHANGED <<findings, baselines, worker>>
  BY <1>1, <1>10 DEF BaselineInv, SnapshotsAgree
<1> QED BY <1>2, <1>3, <1>5, <1>6, <1>7, <1>8, <1>9, <1>10
        DEF Next, RequestStep, vars, EndSession, ReadWatermark, Tick

\* DR-8(c) of RuntimeService for any number of overlapping requests and reinstatements: no
\* finding counts an event from before the baseline of the generation it is recorded under.
THEOREM EvidenceAfterBaseline == Spec => []EvidenceIsAfterItsBaseline
<1>1. Init => BaselineInv
  BY DEF Init, BaselineInv, SnapshotsAgree, GenerationsExist, EvidenceIsAfterItsBaseline, Idle
<1>2. BaselineInv => EvidenceIsAfterItsBaseline
  BY DEF BaselineInv
<1> QED BY <1>1, <1>2, TypedInit, TypedStep, BaselineStep, PTL DEF Spec

--------------------------------------------------------------------------------
(* Sealed sessions.                                                          *)

\* SessionService.record_event adds nothing to a session that has ended, whatever request was
\* bound to it before the end.
THEOREM SessionsSealed == Spec => EndedSessionsAreSealed
<1>1. ASSUME Typed, [Next]_vars
      PROVE  \A s \in SessionIds :
               Terminal(s) => {e \in events' : e.session_id = s} \subseteq events
  <2>1. ASSUME NEW w \in Workers, RecordEvent(w)
        PROVE  \A s \in SessionIds :
                 Terminal(s) => {e \in events' : e.session_id = s} \subseteq events
    <3>1. /\ ~Terminal(worker[w].session_id)
          /\ events' \subseteq events \cup {NumberedEvent(w)}
      BY <2>1 DEF RecordEvent, Retained
    <3>2. NumberedEvent(w).session_id = worker[w].session_id
      BY DEF NumberedEvent
    <3> QED BY <3>1, <3>2
  <2>2. CASE UNCHANGED events
    BY <2>2
  <2> QED BY <1>1, <2>1, <2>2
          DEF Next, RequestStep, vars, Bind, RecordFails, ListEligibleEvents, Refuse, Detect,
              RecordNewFindings, EndSession, ReadWatermark, Reinstate, Tick
<1>2. Typed /\ [Next]_vars =>
        [\A s \in SessionIds :
           Terminal(s) => {e \in events' : e.session_id = s} \subseteq events]_vars
  BY <1>1
<1> QED BY <1>2, TypedInit, TypedStep, PTL DEF Spec, EndedSessionsAreSealed

--------------------------------------------------------------------------------
(* Crossings.                                                                *)

\* The denials in the window of a request, the one it recorded itself, and those up to it.
Denied(w) == {e \in Eligible(w, recorded) : e.decision = "DENY"}

Own(w) == {e \in Denied(w) : e.session_id = worker[w].session_id
                             /\ e.sequence_number = worker[w].sequence_number}

Before(w) == {e \in Denied(w) : \A o \in Own(w) : e.agent_sequence <= o.agent_sequence}

\* What a request knows of its crossing between its record and its findings.
CrossingOf(w) ==
  /\ worker[w].pc \in {"recorded", "listed", "detected"} =>
       worker[w].sequence_number <= session_sequences[worker[w].session_id]
  /\ worker[w].pc = "listed" =>
       /\ worker[w].eligible \subseteq Eligible(w, recorded)
       /\ Own(w) # {} => Before(w) \subseteq worker[w].eligible
  /\ worker[w].pc = "detected" =>
       /\ \A f \in worker[w].found :
            f.evidence \cap {e.agent_sequence : e \in Denied(w)} # {}
       /\ Own(w) # {} /\ Cardinality(Before(w)) >= Threshold => worker[w].found # {}

CrossingInv ==
  /\ IsFiniteSet(recorded)
  /\ \A w \in Workers : CrossingOf(w)

\* A set of naturals has a least element.
LEMMA Least ==
  ASSUME NEW S, S \subseteq Nat, S # {}
  PROVE  \E m \in S : \A k \in S : m <= k
<1> DEFINE R == {ss \in Nat \X Nat : ss[1] < ss[2]}
<1>1. IsWellFoundedOn(R, Nat)
  BY NatLessThanWellFounded DEF OpToRel
<1>2. PICK m \in S : \A y \in S : ~(<<y, m>> \in R)
  BY <1>1, WFMin
<1>3. ASSUME NEW k \in S PROVE m <= k
  <2>1. m \in Nat /\ k \in Nat
    OBVIOUS
  <2>2. <<k, m>> \in Nat \X Nat /\ <<k, m>>[1] = k /\ <<k, m>>[2] = m
    BY <2>1
  <2>3. k < m => <<k, m>> \in R
    BY <2>2
  <2>4. <<k, m>> \notin R
    BY <1>2
  <2> QED BY <2>1, <2>3, <2>4
<1> QED BY <1>3

\* A bounded set of naturals has a greatest element.
LEMMA Greatest ==
  ASSUME NEW S, S \subseteq Nat, S # {}, NEW b \in Nat, \A k \in S : k <= b
  PROVE  \E m \in S : \A k \in S : k <= m
<1> DEFINE D == {b - k : k \in S}
<1>1. D \subseteq Nat /\ D # {}
  <2>1. \A k \in S : b - k \in Nat
    OBVIOUS
  <2> QED BY <2>1
<1>2. PICK d \in D : \A c \in D : d <= c
  <2> HIDE DEF D
  <2> QED BY <1>1, Least
<1>3. PICK m \in S : d = b - m
  BY <1>2
<1>4. ASSUME NEW k \in S PROVE k <= m
  <2>1. b - k \in D
    OBVIOUS
  <2>2. b - m <= b - k
    BY <1>2, <1>3, <2>1
  <2> QED BY <2>2
<1> QED BY <1>4

\* The first elements of a set of positions include its least one.
LEMMA FirstIsNotEmpty ==
  ASSUME NEW S, S \subseteq Nat, S # {}, NEW n \in Nat \ {0}
  PROVE  First(n, S) # {}
<1>1. PICK m \in S : \A k \in S : m <= k
  BY Least
<1>2. {y \in S : y <= m} = {m}
  <2>1. \A y \in S : y <= m <=> y = m
    BY <1>1
  <2> QED BY <2>1
<1>3. Cardinality({m}) = 1
  BY FS_Singleton
<1>4. Cardinality({y \in S : y <= m}) <= n
  BY <1>2, <1>3
<1>5. m \in First(n, S)
  BY <1>4 DEF First
<1> QED BY <1>5

\* The evidence of a crossing meets the denials it was found among.
LEMMA EvidenceIsInTheWindow ==
  ASSUME Typed, NEW w \in Workers, Denials(w) # {}
  PROVE  CrossingEvidence(w) \cap DeniedSequences(w) # {}
<1>1. worker[w].eligible \subseteq Event
  BY DEF Typed, TypeOK, Request
<1>2. DeniedSequences(w) \subseteq Nat /\ DeniedSequences(w) # {}
  BY <1>1 DEF DeniedSequences, Denials, Event
<1>3. CASE Pinned(w) # {}
  <2>1. Pinned(w) \subseteq Nat
    <3>1. findings \in Seq(Finding)
      BY DEF Typed, TypeOK
    <3>2. DOMAIN findings \subseteq Nat
      BY <3>1
    <3> QED BY <3>2 DEF Pinned
  <2>2. First(1, Pinned(w)) # {}
    BY <1>3, <2>1, FirstIsNotEmpty
  <2>3. PICK i : i \in First(1, Pinned(w))
    BY <2>2
  <2>4. findings[i].evidence \cap DeniedSequences(w) # {}
    BY <2>3 DEF First, Pinned
  <2> QED BY <1>3, <2>3, <2>4 DEF CrossingEvidence
<1>4. CASE Pinned(w) = {}
  <2>1. Threshold \in Nat \ {0}
    BY HorizonAssumption
  <2>2. First(Threshold, DeniedSequences(w)) # {}
    BY <1>2, <2>1, FirstIsNotEmpty
  <2> QED BY <1>4, <2>2 DEF CrossingEvidence, First
<1> QED BY <1>3, <1>4

\* The latest of the denials exists: positions are bounded by the allocator of the agent.
LEMMA LatestExists ==
  ASSUME Typed, AllocatorsAreAhead, NEW w \in Workers, worker[w].pc = "listed",
         worker[w].eligible \subseteq Eligible(w, recorded), Denials(w) # {}
  PROVE  Latest(w) # {}
<1>1. /\ worker[w].eligible \subseteq Event /\ worker[w].agent_id \in Agents
      /\ agent_sequences \in [Agents -> Nat]
  BY DEF Typed, TypeOK, Request, WorkersAreBound
<1> DEFINE b == agent_sequences[worker[w].agent_id]
<1>2. b \in Nat
  BY <1>1
<1>3. /\ DeniedSequences(w) \subseteq Nat /\ DeniedSequences(w) # {}
      /\ \A k \in DeniedSequences(w) : k <= b
  BY <1>1 DEF DeniedSequences, Denials, Event, Eligible, AllocatorsAreAhead
<1>4. PICK m \in DeniedSequences(w) : \A k \in DeniedSequences(w) : k <= m
  <2> HIDE DEF b
  <2> QED BY <1>2, <1>3, Greatest
<1>5. PICK e \in Denials(w) : e.agent_sequence = m
  BY <1>4 DEF DeniedSequences
<1>6. e \in Latest(w)
  BY <1>4, <1>5 DEF Latest, DeniedSequences
<1> QED BY <1>6

\* A request that no step touches knows what it knew, as long as nothing is recorded.
LEMMA CrossingFrame ==
  ASSUME NEW v \in Workers, CrossingOf(v), worker'[v] = worker[v],
         UNCHANGED <<recorded, session_sequences>>
  PROVE  CrossingOf(v)'
BY DEF CrossingOf, Own, Before, Denied, Eligible

\* The request of somebody else is recorded after the denials that this one counts.
LEMMA CrossingGrows ==
  ASSUME Typed, AllocatorsAreAhead, NEW w \in Workers, RecordEvent(w),
         NEW v \in Workers, v # w, CrossingOf(v)
  PROVE  CrossingOf(v)'
<1> DEFINE new == NumberedEvent(w)
           s == worker[w].session_id
           a == worker[w].agent_id
<1>1. /\ worker \in [Workers -> Request] /\ session_sequences \in [SessionIds -> Nat]
      /\ agent_sequences \in [Agents -> Nat] /\ recorded \subseteq Event
      /\ s \in SessionIds /\ a \in Agents
  BY DEF RecordEvent, Typed, TypeOK, WorkersAreBound
<1>2. /\ recorded' = recorded \cup {new}
      /\ worker'[v] = worker[v]
      /\ AllocateSequences(s, a)
  BY <1>1 DEF RecordEvent
<1>3. /\ session_sequences' = [session_sequences EXCEPT ![s] = session_sequences[s] + 1]
      /\ agent_sequences' = [agent_sequences EXCEPT ![a] = agent_sequences[a] + 1]
  BY <1>2 DEF AllocateSequences
<1>4. /\ new.session_id = s /\ new.agent_id = a
      /\ new.sequence_number = session_sequences[s] + 1
      /\ new.agent_sequence = agent_sequences[a] + 1
  BY <1>1, <1>3 DEF NumberedEvent
<1> HIDE DEF new, s, a
<1>5. /\ Eligible(v, recorded) \subseteq Eligible(v, recorded)'
      /\ Eligible(v, recorded)' \subseteq Eligible(v, recorded) \cup {new}
  BY <1>2 DEF Eligible
<1>6. Denied(v) \subseteq Denied(v)' /\ Denied(v)' \subseteq Denied(v) \cup {new}
  BY <1>5 DEF Denied
<1>7. CASE worker[v].pc \notin {"recorded", "listed", "detected"}
  BY <1>2, <1>7 DEF CrossingOf
<1>8. CASE worker[v].pc \in {"recorded", "listed", "detected"}
  <2>1. /\ worker[v].session_id \in SessionIds /\ worker[v].sequence_number \in Nat
        /\ worker[v].agent_id \in Agents
    BY <1>1, <1>8 DEF Typed, WorkersAreBound, Request
  <2>2. worker[v].sequence_number <= session_sequences[worker[v].session_id]
    BY <1>8 DEF CrossingOf
  <2>3. worker'[v].sequence_number <= session_sequences'[worker'[v].session_id]
    BY <1>1, <1>2, <1>3, <2>1, <2>2
  <2>4. ~(new.session_id = worker[v].session_id /\ new.sequence_number = worker[v].sequence_number)
    BY <1>1, <1>4, <2>1, <2>2
  <2>5. Own(v)' = Own(v)
    BY <1>2, <1>6, <2>4 DEF Own
  <2>6. Own(v) # {} => Before(v)' = Before(v)
    <3> SUFFICES ASSUME NEW o \in Own(v) PROVE Before(v)' = Before(v)
      OBVIOUS
    <3>1. o \in recorded /\ o.agent_id = worker[v].agent_id
      BY DEF Own, Denied, Eligible
    <3>2. o.agent_sequence \in Nat /\ o.agent_sequence <= agent_sequences[worker[v].agent_id]
      BY <1>1, <3>1 DEF AllocatorsAreAhead, Event
    <3>3. new \in Denied(v)' => new.agent_id = worker[v].agent_id
      BY <1>2 DEF Denied, Eligible
    <3>4. new \in Denied(v)' => ~(new.agent_sequence <= o.agent_sequence)
      BY <1>1, <1>4, <3>2, <3>3
    <3>5. new \notin Before(v)'
      BY <2>5, <3>4 DEF Before
    <3>6. new \in Before(v) => new \in Denied(v)'
      BY <1>6 DEF Before
    <3>7. new \notin Before(v)
      BY <3>4, <3>6 DEF Before
    <3> QED BY <1>6, <2>5, <3>5, <3>7 DEF Before
  <2>7. worker[v].pc = "listed" =>
          /\ worker[v].eligible \subseteq Eligible(v, recorded)'
          /\ Own(v)' # {} => Before(v)' \subseteq worker[v].eligible
    BY <1>5, <2>5, <2>6 DEF CrossingOf
  <2>8. worker[v].pc = "detected" =>
          /\ \A f \in worker[v].found :
               f.evidence \cap {e.agent_sequence : e \in Denied(v)'} # {}
          /\ Own(v)' # {} /\ Cardinality(Before(v)') >= Threshold => worker[v].found # {}
    BY <1>6, <2>5, <2>6 DEF CrossingOf
  <2> QED BY <1>2, <2>3, <2>7, <2>8 DEF CrossingOf
<1> QED BY <1>7, <1>8

\* Detection finds the crossing among what was listed.
LEMMA CrossingIsFound ==
  ASSUME Typed, AllocatorsAreAhead, IsFiniteSet(recorded), NEW w \in Workers,
         worker[w].pc = "listed", CrossingOf(w)
  PROVE  /\ \A f \in DetectExcessiveDenials(w) :
              f.evidence \cap {e.agent_sequence : e \in Denied(w)} # {}
         /\ Own(w) # {} /\ Cardinality(Before(w)) >= Threshold =>
              DetectExcessiveDenials(w) # {}
<1>1. worker[w].eligible \subseteq Eligible(w, recorded)
  BY DEF CrossingOf
<1>2. Denials(w) \subseteq Denied(w)
  BY <1>1 DEF Denials, Denied
<1>3. DeniedSequences(w) \subseteq {e.agent_sequence : e \in Denied(w)}
  BY <1>2 DEF DeniedSequences
<1>4. ASSUME NEW f \in DetectExcessiveDenials(w)
      PROVE  f.evidence \cap {e.agent_sequence : e \in Denied(w)} # {}
  <2>1. f.evidence = CrossingEvidence(w) /\ Latest(w) # {}
    BY DEF DetectExcessiveDenials
  <2>2. Denials(w) # {}
    BY <2>1 DEF Latest
  <2>3. CrossingEvidence(w) \cap DeniedSequences(w) # {}
    BY <2>2, EvidenceIsInTheWindow
  <2> QED BY <1>3, <2>1, <2>3
<1>5. ASSUME Own(w) # {}, Cardinality(Before(w)) >= Threshold
      PROVE  DetectExcessiveDenials(w) # {}
  <2>1. Before(w) \subseteq worker[w].eligible
    BY <1>5 DEF CrossingOf
  <2>2. Before(w) \subseteq Denials(w)
    BY <2>1 DEF Before, Denied, Denials, Eligible
  <2>3. Denials(w) \subseteq recorded
    BY <1>2 DEF Denied, Eligible
  <2>4. IsFiniteSet(Denials(w)) /\ IsFiniteSet(Before(w))
    BY <2>2, <2>3, FS_Subset
  <2>5. /\ Cardinality(Before(w)) \in Nat /\ Cardinality(Denials(w)) \in Nat
        /\ Cardinality(Before(w)) <= Cardinality(Denials(w))
    BY <2>2, <2>4, FS_Subset, FS_CardinalityType
  <2>6. Threshold \in Nat \ {0}
    BY HorizonAssumption
  <2>7. Cardinality(Denials(w)) >= Threshold
    BY <1>5, <2>5, <2>6
  <2>8. Denials(w) # {}
    BY <2>6, <2>7, FS_EmptySet
  <2>9. Latest(w) # {}
    BY <1>1, <2>8, LatestExists
  <2> QED BY <2>7, <2>9 DEF DetectExcessiveDenials, Crosses
<1> QED BY <1>4, <1>5

\* Every step preserves what the requests know of their crossings.
LEMMA CrossingStep ==
  ASSUME MaxLag <= Grace
  PROVE  Typed /\ PrunedIsOld /\ AllocatorsAreAhead /\ CrossingInv /\ [Next]_vars => CrossingInv'
<1> SUFFICES ASSUME Typed, PrunedIsOld, AllocatorsAreAhead, CrossingInv, [Next]_vars
             PROVE  CrossingInv'
  OBVIOUS
<1>0. /\ worker \in [Workers -> Request] /\ IsFiniteSet(recorded)
      /\ \A v \in Workers : CrossingOf(v)
  BY DEF Typed, TypeOK, CrossingInv
<1>1. ASSUME NEW w \in Workers, \A v \in Workers \ {w} : worker'[v] = worker[v], CrossingOf(w)',
             UNCHANGED <<recorded, session_sequences>>
      PROVE  CrossingInv'
  BY <1>0, <1>1, CrossingFrame DEF CrossingInv
<1>2. ASSUME NEW w \in Workers, NEW s \in SessionIds, NEW a \in Agents, Bind(w, s, a)
      PROVE  CrossingInv'
  <2>1. /\ worker'[w].pc = "stamped"
        /\ \A v \in Workers \ {w} : worker'[v] = worker[v]
        /\ UNCHANGED <<recorded, session_sequences>>
    BY <1>0, <1>2 DEF Bind, Idle
  <2>2. CrossingOf(w)'
    BY <2>1 DEF CrossingOf
  <2> QED BY <1>1, <2>1, <2>2
<1>3. ASSUME NEW w \in Workers, RecordEvent(w)
      PROVE  CrossingInv'
  <2>1. /\ worker'[w].pc = "recorded"
        /\ worker'[w].session_id = worker[w].session_id
        /\ worker'[w].sequence_number = session_sequences'[worker[w].session_id]
        /\ recorded' = recorded \cup {NumberedEvent(w)}
    BY <1>0, <1>3 DEF RecordEvent, Request
  <2>2. session_sequences'[worker[w].session_id] \in Nat
    <3>1. worker[w].session_id \in SessionIds
      BY <1>3 DEF RecordEvent, Typed, WorkersAreBound
    <3>2. session_sequences' \in [SessionIds -> Nat]
      BY <1>3, NumberedIsTyped DEF RecordEvent
    <3> QED BY <3>1, <3>2
  <2>3. CrossingOf(w)'
    BY <2>1, <2>2 DEF CrossingOf
  <2>4. IsFiniteSet(recorded')
    <3> HIDE DEF NumberedEvent
    <3> QED BY <1>0, <2>1, FS_AddElement
  <2>5. \A v \in Workers \ {w} : CrossingOf(v)'
    BY <1>0, <1>3, CrossingGrows
  <2> QED BY <2>3, <2>4, <2>5 DEF CrossingInv
<1>4. ASSUME NEW w \in Workers, Done(w), UNCHANGED <<recorded, session_sequences>>
      PROVE  CrossingInv'
  <2>1. /\ \A v \in Workers \ {w} : worker'[v] = worker[v]
        /\ worker'[w].pc = "idle"
    BY <1>0, <1>4 DEF Done, Idle
  <2>2. CrossingOf(w)'
    BY <2>1 DEF CrossingOf
  <2> QED BY <1>1, <1>4, <2>1, <2>2
<1>5. ASSUME NEW w \in Workers, ListEligibleEvents(w)
      PROVE  CrossingInv'
  <2>1. /\ worker[w].pc = "recorded" /\ worker'[w].pc = "listed"
        /\ \A v \in Workers \ {w} : worker'[v] = worker[v]
        /\ worker'[w].agent_id = worker[w].agent_id
        /\ worker'[w].session_id = worker[w].session_id
        /\ worker'[w].sequence_number = worker[w].sequence_number
        /\ worker'[w].timestamp = worker[w].timestamp
        /\ worker'[w].baseline = worker[w].baseline
        /\ worker'[w].eligible = Eligible(w, events)
        /\ UNCHANGED <<recorded, session_sequences>>
    BY <1>0, <1>5 DEF ListEligibleEvents, Request
  <2>2. Eligible(w, events) = Eligible(w, recorded)
    BY <2>1, HorizonIsWhole
  <2>3. Eligible(w, recorded)' = Eligible(w, recorded)
    BY <2>1 DEF Eligible
  <2>4. Before(w)' \subseteq Eligible(w, recorded)'
    BY DEF Before, Denied
  <2>5. CrossingOf(w)'
    BY <1>0, <2>1, <2>2, <2>3, <2>4 DEF CrossingOf
  <2> QED BY <1>1, <2>1, <2>5
<1>6. ASSUME NEW w \in Workers, Detect(w)
      PROVE  CrossingInv'
  <2>1. /\ worker[w].pc = "listed" /\ worker'[w].pc = "detected"
        /\ \A v \in Workers \ {w} : worker'[v] = worker[v]
        /\ worker'[w].agent_id = worker[w].agent_id
        /\ worker'[w].session_id = worker[w].session_id
        /\ worker'[w].sequence_number = worker[w].sequence_number
        /\ worker'[w].timestamp = worker[w].timestamp
        /\ worker'[w].baseline = worker[w].baseline
        /\ worker'[w].found = DetectExcessiveDenials(w)
        /\ UNCHANGED <<recorded, session_sequences>>
    BY <1>0, <1>6 DEF Detect, Request
  <2>2. /\ Denied(w)' = Denied(w)
    BY <2>1 DEF Denied, Eligible
  <2>3. Own(w)' = Own(w)
    BY <2>1, <2>2 DEF Own
  <2>4. Before(w)' = Before(w)
    BY <2>2, <2>3 DEF Before
  <2>5. /\ \A f \in DetectExcessiveDenials(w) :
             f.evidence \cap {e.agent_sequence : e \in Denied(w)} # {}
        /\ Own(w) # {} /\ Cardinality(Before(w)) >= Threshold =>
             DetectExcessiveDenials(w) # {}
    BY <1>0, <2>1, CrossingIsFound
  <2>6. CrossingOf(w)'
    BY <1>0, <2>1, <2>2, <2>3, <2>4, <2>5 DEF CrossingOf
  <2> QED BY <1>1, <2>1, <2>6
<1>7. CASE UNCHANGED <<worker, recorded, session_sequences>>
  BY <1>0, <1>7, CrossingFrame DEF CrossingInv
<1> QED BY <1>2, <1>3, <1>4, <1>5, <1>6, <1>7
        DEF Next, RequestStep, vars, RecordFails, Refuse, RecordNewFindings, EndSession,
            ReadWatermark, Reinstate, Tick

\* detect_excessive_denials misses no crossing: for every threshold, window and number of
\* overlapping requests, as long as requests reach the horizon within the grace period, the
\* request of a denial that is at least the Threshold-th leaves a finding behind.
THEOREM CrossingsReported ==
  ASSUME MaxLag <= Grace
  PROVE  Spec => CrossingIsReported
<1> DEFINE Reported(w) ==
      RecordNewFindings(w) /\ Own(w) # {} /\ Cardinality(Before(w)) >= Threshold
        => \E i \in DOMAIN findings' :
             /\ findings'[i].agent_id = worker[w].agent_id
             /\ findings'[i].recovery_generation = worker[w].generation
             /\ findings'[i].evidence \cap {e.agent_sequence : e \in Denied(w)} # {}
<1>1. ASSUME Typed, SnapshotsAgree, CrossingInv, NEW w \in Workers PROVE Reported(w)
  <2> SUFFICES ASSUME RecordNewFindings(w), Own(w) # {}, Cardinality(Before(w)) >= Threshold
               PROVE  \E i \in DOMAIN findings' :
                        /\ findings'[i].agent_id = worker[w].agent_id
                        /\ findings'[i].recovery_generation = worker[w].generation
                        /\ findings'[i].evidence \cap {e.agent_sequence : e \in Denied(w)} # {}
    OBVIOUS
  <2>1. worker[w].pc = "detected"
    BY DEF RecordNewFindings
  <2>2. /\ worker[w].found # {}
        /\ \A f \in worker[w].found :
             /\ f.evidence \cap {e.agent_sequence : e \in Denied(w)} # {}
             /\ f.agent_id = worker[w].agent_id
             /\ f.recovery_generation = worker[w].generation
    BY <1>1, <2>1 DEF CrossingInv, CrossingOf, SnapshotsAgree
  <2>3. \E f \in worker[w].found, i \in DOMAIN findings' : findings'[i] = f
    <3>1. ASSUME NEW f \in worker[w].found, findings' = Append(findings, f)
          PROVE  f = findings'[Len(findings) + 1] /\ Len(findings) + 1 \in DOMAIN findings'
      <4>1. findings \in Seq(Finding) /\ f \in Finding
        BY <1>1 DEF Typed, TypeOK, Request
      <4> QED BY <3>1, <4>1
    <3>2. ASSUME \A f \in worker[w].found : \E i \in DOMAIN findings : findings[i] = f,
                 UNCHANGED findings
          PROVE  \E f \in worker[w].found, i \in DOMAIN findings' : findings'[i] = f
      BY <2>2, <3>2
    <3> QED BY <3>1, <3>2 DEF RecordNewFindings
  <2> QED BY <2>2, <2>3
<1>2. Typed /\ BaselineInv /\ CrossingInv /\ [Next]_vars =>
        [\A w \in Workers : Reported(w)]_vars
  BY <1>1 DEF BaselineInv
<1>3. Init => CrossingInv
  BY FS_EmptySet DEF Init, CrossingInv, CrossingOf, Idle
<1>4. Init => PrunedIsOld /\ AllocatorsAreAhead /\ PositionsAreUnique
  BY DEF Init, PrunedIsOld, AllocatorsAreAhead, PositionsAreUnique, Idle
<1>5. Init => BaselineInv
  BY DEF Init, BaselineInv, SnapshotsAgree, GenerationsExist, EvidenceIsAfterItsBaseline, Idle
<1>6. Spec => [][\A w \in Workers : Reported(w)]_vars
  <2> HIDE DEF Reported
  <2> QED BY <1>2, <1>3, <1>4, <1>5, TypedInit, TypedStep, PositionsStep, PrunedStep, BaselineStep,
             CrossingStep, PTL DEF Spec
<1>7. [][\A w \in Workers : Reported(w)]_vars <=> CrossingIsReported
  BY DEF CrossingIsReported, Own, Before, Denied
<1> QED BY <1>6, <1>7

================================================================================
