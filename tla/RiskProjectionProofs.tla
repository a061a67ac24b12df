------------------------- MODULE RiskProjectionProofs -------------------------
(***************************************************************************)
(* The projection equivalence, for any number of requests, findings and    *)
(* repairs.                                                                *)
(***************************************************************************)
EXTENDS RiskProjection, FiniteSetTheorems, TLAPS

Finding == [id : Ids, at : 0..MaxClock]

Counts == [Severity -> Nat]

Snapshots ==
  [taken : {TRUE}, base : Watermark, cursor : Nat, level : 0..3, sound : BOOLEAN]

\* The types of everything, the decisions included.
Types == TypeOK /\ decided \in [Requests -> Snapshots \cup {NoDecision}]

\* What the holder of the lock has recorded and not yet handed to the projection, and
\* how much of the evidence was handed over.
Pending == IF holder \in Requests THEN Len(batch[holder]) ELSE 0

Ingested == Len(findings) - Pending

\* The lock is held from the record to the release and over the rebuild, and what is
\* pending is the end of the store.
Locking ==
  \A r \in Requests :
    /\ pc[r] \in {"ingest", "rebuild"} <=> holder = r
    /\ pc[r] # "ingest" => batch[r] = <<>>
    /\ Len(batch[r]) <= Len(findings)
    /\ \A j \in 1..Len(batch[r]) : batch[r][j] = Len(findings) - Len(batch[r]) + j

\* Evidence is stored in the order of the clock, and the baseline is of the past.
Evidence ==
  /\ \A i, j \in DOMAIN findings : i <= j => findings[i].at <= findings[j].at
  /\ \A i \in DOMAIN findings : findings[i].at <= clock
  /\ baseline.seq <= Ingested
  /\ holder = OPERATOR => baseline.seq = Len(findings)

\* A HEALTHY projection has counted what its baseline leaves of the evidence handed to
\* it, or it has counted nothing yet and the next finding will not fit.
Healthy ==
  proj.state = "HEALTHY" =>
    /\ holder # OPERATOR => proj.base = baseline
    /\ ~lossy =>
         proj.counts =
           CountBySeverity(findings, PostBaseline(findings, proj.base) \cap (1..Ingested))
    /\ \/ proj.cursor = Ingested
       \/ proj.cursor = proj.base.seq /\ proj.counts = NoCounts

\* What a request recorded has been handed over when it decides.
Own(r) ==
  /\ mine[r] \subseteq 1..Len(findings)
  /\ pc[r] \in {"assess", "lock", "rebuild", "decided"} => mine[r] \subseteq 1..Ingested
  /\ decided[r].taken => pc[r] = "decided"
  /\ decided[r].taken /\ decided[r].sound => decided[r].level >= OwnLevel(r)

IInv == Types /\ Locking /\ Evidence /\ Healthy /\ \A r \in Requests : Own(r)

-----------------------------------------------------------------------------
(* Counting and scoring.                                                   *)

\* A store and the severities that it counts by.
LEMMA CountType ==
  ASSUME NEW fs, NEW is, IsFiniteSet(is)
  PROVE  CountBySeverity(fs, is) \in Counts
<1>1. ASSUME NEW s \in Severity
      PROVE  Cardinality({i \in is : SeverityOf[fs[i].id] = s}) \in Nat
  <2>1. {i \in is : SeverityOf[fs[i].id] = s} \in SUBSET is
    OBVIOUS
  <2> QED BY <2>1, FS_Subset, FS_CardinalityType
<1> QED BY <1>1 DEF CountBySeverity, Counts

\* Nothing counts for nothing.
LEMMA CountNothing ==
  ASSUME NEW fs
  PROVE  CountBySeverity(fs, {}) = NoCounts
<1>1. \A s \in Severity : {i \in {} : SeverityOf[fs[i].id] = s} = {}
  OBVIOUS
<1> QED BY <1>1, FS_EmptySet DEF CountBySeverity, NoCounts

\* One more finding adds one to its severity.
LEMMA CountOneMore ==
  ASSUME NEW fs, NEW is, IsFiniteSet(is), NEW i, i \notin is,
         SeverityOf[fs[i].id] \in Severity
  PROVE  CountBySeverity(fs, is \cup {i}) =
           [CountBySeverity(fs, is) EXCEPT ![SeverityOf[fs[i].id]] = @ + 1]
<1> DEFINE Those(S, s) == {k \in S : SeverityOf[fs[k].id] = s}
<1>1. ASSUME NEW s \in Severity
      PROVE  Cardinality(Those(is \cup {i}, s)) =
               IF s = SeverityOf[fs[i].id] THEN Cardinality(Those(is, s)) + 1
               ELSE Cardinality(Those(is, s))
  <2>1. IsFiniteSet(Those(is, s))
    <3>1. Those(is, s) \in SUBSET is
      OBVIOUS
    <3> QED BY <3>1, FS_Subset
  <2>2. CASE s = SeverityOf[fs[i].id]
    <3>1. Those(is \cup {i}, s) = Those(is, s) \cup {i} /\ i \notin Those(is, s)
      BY <2>2
    <3> HIDE DEF Those
    <3> QED BY <2>1, <2>2, <3>1, FS_AddElement
  <2>3. CASE s # SeverityOf[fs[i].id]
    <3>1. Those(is \cup {i}, s) = Those(is, s)
      BY <2>3
    <3> QED BY <2>3, <3>1
  <2> QED BY <2>2, <2>3
<1> QED BY <1>1 DEF CountBySeverity

\* More evidence counts for more of every severity.
LEMMA CountMonotone ==
  ASSUME NEW fs, NEW is, NEW js, IsFiniteSet(js), is \subseteq js, NEW s \in Severity
  PROVE  CountBySeverity(fs, is)[s] <= CountBySeverity(fs, js)[s]
<1> DEFINE Those(S) == {k \in S : SeverityOf[fs[k].id] = s}
<1>1. Those(js) \in SUBSET js /\ Those(is) \in SUBSET Those(js)
  OBVIOUS
<1>2. IsFiniteSet(Those(js))
  BY <1>1, FS_Subset
<1>3. Cardinality(Those(is)) <= Cardinality(Those(js))
  BY <1>1, <1>2, FS_Subset
<1> QED BY <1>3 DEF CountBySeverity

\* Only the findings that are counted matter.
LEMMA CountSame ==
  ASSUME NEW fs, NEW gs, NEW is, \A i \in is : gs[i] = fs[i]
  PROVE  CountBySeverity(gs, is) = CountBySeverity(fs, is)
<1>1. \A s \in Severity :
        {i \in is : SeverityOf[gs[i].id] = s} = {i \in is : SeverityOf[fs[i].id] = s}
  OBVIOUS
<1> QED BY <1>1 DEF CountBySeverity

\* The level is one of four and grows with the counts.
LEMMA LevelMonotone ==
  ASSUME NEW c \in Counts, NEW d \in Counts, \A s \in Severity : c[s] <= d[s]
  PROVE  /\ level_for_score(Score(c)) \in 0..3
         /\ level_for_score(Score(c)) <= level_for_score(Score(d))
<1>1. /\ c["LOW"] \in Nat /\ c["MEDIUM"] \in Nat /\ c["HIGH"] \in Nat /\ c["CRITICAL"] \in Nat
      /\ d["LOW"] \in Nat /\ d["MEDIUM"] \in Nat /\ d["HIGH"] \in Nat /\ d["CRITICAL"] \in Nat
      /\ c["LOW"] <= d["LOW"] /\ c["MEDIUM"] <= d["MEDIUM"]
      /\ c["HIGH"] <= d["HIGH"] /\ c["CRITICAL"] <= d["CRITICAL"]
  BY DEF Counts, Severity
<1>2. Score(c) \in Nat /\ Score(d) \in Nat /\ Score(c) <= Score(d)
  BY <1>1 DEF Score, SEVERITY_WEIGHTS
<1> HIDE DEF Score
<1> QED BY <1>2 DEF level_for_score

\* A level from part of the evidence is at most the level from all of it.
LEMMA LevelOfPart ==
  ASSUME NEW fs, NEW is, NEW js, IsFiniteSet(js), is \subseteq js
  PROVE  /\ level_for_score(Score(CountBySeverity(fs, is))) \in 0..3
         /\ level_for_score(Score(CountBySeverity(fs, is)))
              <= level_for_score(Score(CountBySeverity(fs, js)))
<1>1. IsFiniteSet(is)
  BY FS_Subset
<1> QED BY <1>1, CountType, CountMonotone, LevelMonotone

-----------------------------------------------------------------------------
(* What steps leave alone.                                                 *)

\* Nothing is pending but what the holder of the lock recorded.
PendingBound ==
  /\ Len(findings) \in Nat /\ DOMAIN findings = 1..Len(findings)
  /\ Ingested \in Nat /\ Ingested <= Len(findings)
  /\ holder \notin Requests => Ingested = Len(findings)
  /\ \A r \in Requests : pc[r] \in {"ingest", "rebuild"} =>
       Ingested = Len(findings) - Len(batch[r])
  /\ \A r \in Requests : pc[r] = "rebuild" => Ingested = Len(findings)

\* The lock discipline bounds what is pending.
LEMMA PendingFacts == Types /\ Locking => PendingBound
<1> SUFFICES ASSUME Types, Locking PROVE PendingBound
  OBVIOUS
<1>1. Len(findings) \in Nat /\ DOMAIN findings = 1..Len(findings)
  BY DEF Types, TypeOK
<1>2. \A r \in Requests : Len(batch[r]) \in Nat /\ Len(batch[r]) <= Len(findings)
  BY DEF Types, TypeOK, Locking
<1>3. Pending \in Nat /\ Pending <= Len(findings)
  BY <1>1, <1>2 DEF Pending
<1>4. \A r \in Requests : pc[r] \in {"ingest", "rebuild"} => Pending = Len(batch[r])
  BY DEF Pending, Locking
<1>5. \A r \in Requests : pc[r] = "rebuild" => Len(batch[r]) = 0
  <2>1. \A r \in Requests : pc[r] = "rebuild" => batch[r] = <<>>
    BY Zenon DEF Locking
  <2> QED BY <2>1
<1>6. holder \notin Requests => Pending = 0
  BY DEF Pending
<1>7. /\ Ingested \in Nat /\ Ingested <= Len(findings)
      /\ holder \notin Requests => Ingested = Len(findings)
  <2>1. \A l, n \in Nat : n <= l => l - n \in Nat /\ l - n <= l /\ (n = 0 => l - n = l)
    OBVIOUS
  <2> QED BY <1>1, <1>3, <1>6, <2>1, Zenon DEF Ingested
<1>8. \A r \in Requests : pc[r] \in {"ingest", "rebuild"} =>
        Ingested = Len(findings) - Len(batch[r])
  BY <1>4 DEF Ingested
<1>9. \A r \in Requests : pc[r] = "rebuild" => Ingested = Len(findings)
  BY <1>1, <1>2, <1>5, <1>8
<1> QED BY <1>1, <1>7, <1>8, <1>9 DEF PendingBound

\* ... in the next state too.
LEMMA PendingFactsNext == Types' /\ Locking' => PendingBound'
BY PendingFacts, PTL

\* A request is not affected by others, who only add evidence and hand it over.
LEMMA OwnFrame ==
  ASSUME IInv, Types', Locking', NEW q \in Requests,
         mine'[q] = mine[q], pc'[q] = pc[q], decided'[q] = decided[q],
         Len(findings) <= Len(findings'), Ingested <= Ingested',
         \A i \in 1..Len(findings) : findings'[i] = findings[i]
  PROVE  Own(q)'
<1>1. Own(q) /\ Len(findings) \in Nat /\ Ingested \in Nat
  BY PendingFacts DEF IInv, PendingBound
<1>2. Len(findings') \in Nat /\ Ingested' \in Nat
  BY PendingFactsNext DEF PendingBound
<1>3. 1..Len(findings) \subseteq 1..Len(findings') /\ 1..Ingested \subseteq 1..Ingested'
  BY <1>1, <1>2
<1>4. OwnLevel(q)' = OwnLevel(q)
  <2> DEFINE is(fs) == {i \in mine[q] : i > decided[q].base.seq /\ fs[i].at > decided[q].base.at}
  <2>1. is(findings') = is(findings)
    BY <1>1 DEF Own
  <2>2. \A i \in is(findings) : findings'[i] = findings[i]
    BY <1>1 DEF Own
  <2>3. CountBySeverity(findings', is(findings)) = CountBySeverity(findings, is(findings))
    BY <2>2, CountSame
  <2> QED BY <2>1, <2>3 DEF OwnLevel
<1> QED BY <1>1, <1>3, <1>4 DEF Own

\* A projection nobody touches still matches what was handed over.
LEMMA HealthyFrame ==
  ASSUME IInv, Types', Locking', UNCHANGED <<proj, lossy>>,
         baseline' = baseline \/ holder' = OPERATOR,
         holder' # OPERATOR => holder # OPERATOR,
         Ingested' = Ingested, Len(findings) <= Len(findings'),
         \A i \in 1..Len(findings) : findings'[i] = findings[i]
  PROVE  Healthy'
<1>1. /\ Len(findings) \in Nat /\ Ingested \in Nat /\ Ingested <= Len(findings)
      /\ DOMAIN findings = 1..Len(findings)
  BY PendingFacts DEF IInv, PendingBound
<1>2. Len(findings') \in Nat /\ DOMAIN findings' = 1..Len(findings')
  BY PendingFactsNext DEF PendingBound
<1>3. /\ 1..Ingested \subseteq DOMAIN findings /\ 1..Ingested \subseteq DOMAIN findings'
      /\ \A i \in 1..Ingested : findings'[i] = findings[i]
  BY <1>1, <1>2
<1>4. CountBySeverity(findings', PostBaseline(findings', proj.base) \cap (1..Ingested)) =
        CountBySeverity(findings, PostBaseline(findings, proj.base) \cap (1..Ingested))
  <2>1. PostBaseline(findings', proj.base) \cap (1..Ingested) =
          PostBaseline(findings, proj.base) \cap (1..Ingested)
    BY <1>3 DEF PostBaseline
  <2> QED BY <1>3, <2>1, CountSame
<1> QED BY <1>4 DEF IInv, Healthy

-----------------------------------------------------------------------------
(* Steps of a request outside the lock.                                    *)

\* A snapshot of a HEALTHY projection that lacks nothing ranks what the request recorded.
LEMMA SnapshotCounts ==
  ASSUME IInv, NEW r \in Requests, proj.state = "HEALTHY", mine[r] \subseteq 1..Ingested
  PROVE  /\ Snapshot(proj) \in Snapshots
         /\ Snapshot(proj).taken /\ Snapshot(proj).base = proj.base
         /\ Snapshot(proj).sound <=> ~lossy
         /\ ~lossy => Snapshot(proj).level >=
              level_for_score(Score(CountBySeverity(findings,
                {i \in mine[r] : i > proj.base.seq /\ findings[i].at > proj.base.at})))
<1>1. /\ Ingested \in Nat /\ Ingested <= Len(findings)
      /\ Len(findings) \in Nat /\ DOMAIN findings = 1..Len(findings)
  BY PendingFacts DEF IInv, PendingBound
<1>2. proj \in Projection /\ proj.counts \in Counts /\ proj.base \in Watermark
      /\ proj.cursor \in Nat /\ lossy \in BOOLEAN
  BY DEF IInv, Types, TypeOK, Projection, Counts
<1>3. level_for_score(Score(proj.counts)) \in 0..3
  <2>1. \A s \in Severity : proj.counts[s] <= proj.counts[s]
    BY <1>2 DEF Counts
  <2> QED BY <1>2, <2>1, LevelMonotone
<1>4. Snapshot(proj) \in Snapshots /\ Snapshot(proj).base = proj.base
      /\ Snapshot(proj).level = level_for_score(Score(proj.counts))
  BY <1>2, <1>3 DEF Snapshot, Snapshots
<1>5. Snapshot(proj).taken /\ (Snapshot(proj).sound <=> ~lossy)
  BY Zenon DEF Snapshot
<1>6. ASSUME ~lossy
      PROVE  level_for_score(Score(proj.counts)) >=
               level_for_score(Score(CountBySeverity(findings,
                 {i \in mine[r] : i > proj.base.seq /\ findings[i].at > proj.base.at})))
  <2> DEFINE is == {i \in mine[r] : i > proj.base.seq /\ findings[i].at > proj.base.at}
             js == PostBaseline(findings, proj.base) \cap (1..Ingested)
  <2>1. proj.counts = CountBySeverity(findings, js)
    BY <1>6 DEF IInv, Healthy
  <2>2. is \subseteq js
    BY <1>1 DEF PostBaseline
  <2>3. IsFiniteSet(js)
    <3>1. IsFiniteSet(1..Ingested) /\ js \in SUBSET (1..Ingested)
      BY <1>1, FS_Interval
    <3> QED BY <3>1, FS_Subset
  <2> HIDE DEF is, js
  <2>4. /\ level_for_score(Score(CountBySeverity(findings, is))) \in 0..3
        /\ level_for_score(Score(CountBySeverity(findings, is)))
             <= level_for_score(Score(CountBySeverity(findings, js)))
    BY <2>2, <2>3, LevelOfPart
  <2>5. level_for_score(Score(CountBySeverity(findings, js))) \in 0..3
    BY <1>3, <2>1
  <2> QED BY <2>1, <2>4, <2>5 DEF is
<1> QED BY <1>4, <1>5, <1>6

\* A step that touches neither the evidence nor the projection nor the lock.
LEMMA RequestOnly ==
  ASSUME IInv, NEW r \in Requests, NEW label \in {"start", "assess", "lock", "decided", "refused"},
         UNCHANGED <<clock, findings, baseline, proj, holder, batch, repairs, lossy>>,
         suspended' \in BOOLEAN, pc[r] \notin {"ingest", "rebuild"},
         pc' = [pc EXCEPT ![r] = label],
         mine' \in [Requests -> SUBSET Nat], mine'[r] \subseteq mine[r],
         decided' \in [Requests -> Snapshots \cup {NoDecision}],
         \A q \in Requests \ {r} : mine'[q] = mine[q] /\ decided'[q] = decided[q],
         label \in {"assess", "lock", "decided"} => mine[r] \subseteq 1..Ingested,
         decided'[r].taken => label = "decided",
         decided'[r].taken /\ decided'[r].sound => decided'[r].level >= OwnLevel(r)'
  PROVE  IInv'
<1>1. Types'
  BY DEF IInv, Types, TypeOK
<1>2. pc'[r] = label /\ \A q \in Requests \ {r} : pc'[q] = pc[q]
  BY DEF IInv, Types, TypeOK
<1>3. Locking'
  BY <1>2 DEF IInv, Locking
<1>4. Ingested' = Ingested /\ Len(findings') = Len(findings)
  BY DEF Ingested, Pending
<1>5. Ingested \in Nat /\ Len(findings) \in Nat
  BY PendingFacts DEF IInv, PendingBound
<1>6. Evidence'
  BY <1>4 DEF IInv, Evidence
<1>7. Healthy'
  BY <1>4 DEF IInv, Healthy
<1>8. Own(r)'
  BY <1>2, <1>4 DEF IInv, Own
<1>9. ASSUME NEW q \in Requests, q # r PROVE Own(q)'
  BY <1>1, <1>2, <1>3, <1>4, <1>5, <1>9, OwnFrame
<1> QED BY <1>1, <1>3, <1>6, <1>7, <1>8, <1>9 DEF IInv

\* A decision from a HEALTHY projection.
LEMMA DecideStep ==
  ASSUME IInv, NEW r \in Requests, pc[r] \in {"assess", "lock"}, proj.state = "HEALTHY",
         decided' = [decided EXCEPT ![r] = Snapshot(proj)],
         pc' = [pc EXCEPT ![r] = "decided"],
         UNCHANGED <<clock, findings, baseline, proj, holder, batch, mine, suspended, repairs, lossy>>
  PROVE  IInv'
<1>1. mine[r] \subseteq 1..Ingested
  BY DEF IInv, Own
<1>2. /\ Snapshot(proj) \in Snapshots
      /\ Snapshot(proj).taken /\ Snapshot(proj).base = proj.base
      /\ Snapshot(proj).sound <=> ~lossy
      /\ ~lossy => Snapshot(proj).level >=
           level_for_score(Score(CountBySeverity(findings,
             {i \in mine[r] : i > proj.base.seq /\ findings[i].at > proj.base.at})))
  BY <1>1, SnapshotCounts
<1>3. /\ decided'[r] = Snapshot(proj)
      /\ decided' \in [Requests -> Snapshots \cup {NoDecision}]
      /\ \A q \in Requests \ {r} : decided'[q] = decided[q]
  BY <1>2 DEF IInv, Types
<1>4. OwnLevel(r)' =
        level_for_score(Score(CountBySeverity(findings,
          {i \in mine[r] : i > proj.base.seq /\ findings[i].at > proj.base.at})))
  BY <1>2, <1>3 DEF OwnLevel
<1>5. decided'[r].taken /\ decided'[r].sound => decided'[r].level >= OwnLevel(r)'
  BY <1>2, <1>3, <1>4
<1>6. mine' \in [Requests -> SUBSET Nat] /\ suspended' \in BOOLEAN /\ mine' = mine
  BY DEF IInv, Types, TypeOK
<1> QED BY <1>1, <1>3, <1>5, <1>6, RequestOnly

\* The failed record, the unlocked look, the response and the refusal.
LEMMA OutsideSteps ==
  ASSUME IInv, NEW r \in Requests, RecordFails(r) \/ Peek(r) \/ Respond(r) \/ Refuse(r)
  PROVE  IInv'
<1>1. /\ mine \in [Requests -> SUBSET Nat] /\ suspended \in BOOLEAN
      /\ decided \in [Requests -> Snapshots \cup {NoDecision}]
      /\ pc[r] # "decided" => ~decided[r].taken
      /\ pc[r] = "assess" => mine[r] \subseteq 1..Ingested
  BY DEF IInv, Types, TypeOK, Own
<1>2. CASE RecordFails(r)
  BY <1>1, <1>2, RequestOnly DEF RecordFails
<1>3. CASE Peek(r)
  <2>1. CASE proj.state = "HEALTHY"
    BY <1>3, <2>1, DecideStep DEF Peek
  <2>2. CASE proj.state # "HEALTHY"
    BY <1>1, <1>3, <2>2, RequestOnly DEF Peek
  <2> QED BY <2>1, <2>2
<1>4. CASE Respond(r)
  <2>1. NoDecision.taken = FALSE
    BY DEF NoDecision
  <2>2. /\ decided' = [decided EXCEPT ![r] = NoDecision] /\ mine' = [mine EXCEPT ![r] = {}]
        /\ suspended' \in BOOLEAN /\ pc[r] = "decided" /\ pc' = [pc EXCEPT ![r] = "start"]
        /\ UNCHANGED <<clock, findings, baseline, proj, holder, batch, repairs, lossy>>
    BY <1>4 DEF Respond
  <2>3. ~decided'[r].taken
    BY <1>1, <2>1, <2>2
  <2>4. /\ decided' \in [Requests -> Snapshots \cup {NoDecision}]
        /\ mine' \in [Requests -> SUBSET Nat] /\ mine'[r] = {}
        /\ \A q \in Requests \ {r} : mine'[q] = mine[q] /\ decided'[q] = decided[q]
    BY <1>1, <2>2
  <2> QED BY <2>2, <2>3, <2>4, RequestOnly
<1>5. CASE Refuse(r)
  <2>1. /\ mine' = [mine EXCEPT ![r] = {}] /\ pc[r] = "refused" /\ pc' = [pc EXCEPT ![r] = "start"]
        /\ UNCHANGED <<clock, findings, baseline, proj, holder, batch, decided, suspended, repairs, lossy>>
    BY <1>5 DEF Refuse
  <2>2. /\ mine' \in [Requests -> SUBSET Nat] /\ mine'[r] = {}
        /\ \A q \in Requests \ {r} : mine'[q] = mine[q]
    BY <1>1, <2>1
  <2> QED BY <1>1, <2>1, <2>2, RequestOnly
<1> QED BY <1>2, <1>3, <1>4, <1>5

-----------------------------------------------------------------------------
(* Steps under the lock.                                                   *)

\* What is recorded is appended to the store, at the time of the clock.
LEMMA RecordAppends ==
  ASSUME IInv, NEW d \in Detections, findings' \in record_new_findings(d)
  PROVE  /\ findings' \in Seq(Finding) /\ Len(findings') \in Nat
         /\ DOMAIN findings' = 1..Len(findings') /\ Len(findings) <= Len(findings')
         /\ \A i \in 1..Len(findings) : findings'[i] = findings[i]
         /\ \A i \in 1..Len(findings') : i > Len(findings) => findings'[i].at = clock
<1>1. PICK fresh \in SetToSeqs(d \ Stored) :
        findings' = findings \o [i \in DOMAIN fresh |-> [id |-> fresh[i], at |-> clock]]
  BY DEF record_new_findings
<1>2. IsFiniteSet(d \ Stored)
  <2>1. IsFiniteSet(d) /\ d \ Stored \in SUBSET d
    BY DEF Detections
  <2> QED BY <2>1, FS_Subset
<1> DEFINE n == Cardinality(d \ Stored)
<1>3. n \in Nat
  BY <1>2, FS_CardinalityType
<1>4. fresh \in [1..n -> d \ Stored] /\ d \subseteq Ids
  BY DEF SetToSeqs, Detections
<1> HIDE DEF n
<1> DEFINE new == [i \in DOMAIN fresh |-> [id |-> fresh[i], at |-> clock]]
<1>5. clock \in 0..MaxClock /\ findings \in Seq(Finding)
  BY DEF IInv, Types, TypeOK, Finding
<1>6. new \in [1..n -> Finding] /\ \A i \in 1..n : new[i].at = clock
  BY <1>4, <1>5 DEF Finding
<1>7. new \in Seq(Finding) /\ Len(new) = n
  BY <1>3, <1>6
<1>8. findings' = findings \o new
  BY <1>1
<1> HIDE DEF new
<1>9. /\ findings' \in Seq(Finding) /\ Len(findings') = Len(findings) + n
      /\ Len(findings) \in Nat
  <2>1. \A s, t \in Seq(Finding) : s \o t \in Seq(Finding) /\ Len(s \o t) = Len(s) + Len(t)
    OBVIOUS
  <2>2. findings \o new \in Seq(Finding) /\ Len(findings \o new) = Len(findings) + Len(new)
    BY <1>5, <1>7, <2>1, Zenon
  <2>3. Len(findings) \in Nat
    BY <1>5
  <2> QED BY <1>7, <1>8, <2>2, <2>3, Zenon
<1>10. \A i \in 1..Len(findings) : findings'[i] = findings[i]
  BY <1>5, <1>7, <1>8, <1>9
<1>11. \A i \in 1..Len(findings') : i > Len(findings) =>
         i - Len(findings) \in 1..n /\ findings'[i] = new[i - Len(findings)]
  BY <1>3, <1>5, <1>7, <1>8, <1>9
<1> QED BY <1>3, <1>6, <1>9, <1>10, <1>11

\* Recorded evidence is pending for its request.
LEMMA RecordStep ==
  ASSUME IInv, NEW r \in Requests, Record(r)
  PROVE  IInv'
<1>1. PICK d \in Detections :
        /\ findings' \in record_new_findings(d)
        /\ batch' = [batch EXCEPT ![r] =
                       [k \in 1..(Len(findings') - Len(findings)) |-> Len(findings) + k]]
        /\ mine' = [mine EXCEPT ![r] = (Len(findings) + 1)..Len(findings')]
  BY DEF Record
<1>2. /\ pc[r] = "start" /\ holder = NoOne /\ holder' = r /\ pc' = [pc EXCEPT ![r] = "ingest"]
      /\ UNCHANGED <<clock, baseline, proj, decided, suspended, repairs, lossy>>
  BY DEF Record
<1>3. /\ findings' \in Seq(Finding) /\ Len(findings') \in Nat
      /\ DOMAIN findings' = 1..Len(findings') /\ Len(findings) <= Len(findings')
      /\ \A i \in 1..Len(findings) : findings'[i] = findings[i]
      /\ \A i \in 1..Len(findings') : i > Len(findings) => findings'[i].at = clock
  BY <1>1, RecordAppends
<1>4. /\ Len(findings) \in Nat /\ DOMAIN findings = 1..Len(findings)
      /\ Ingested = Len(findings)
  BY <1>2, PendingFacts, RiskAssumption DEF IInv, PendingBound
<1> DEFINE n == Len(findings') - Len(findings)
           new == [k \in 1..n |-> Len(findings) + k]
<1>5. n \in Nat
  BY <1>3, <1>4
<1>6. new \in Seq(Nat) /\ Len(new) = n /\ \A k \in 1..n : new[k] = Len(findings) + k
  <2> HIDE DEF n
  <2>1. new \in [1..n -> Nat]
    BY <1>4, <1>5
  <2> QED BY <1>5, <2>1
<1>7. batch' = [batch EXCEPT ![r] = new]
  BY <1>1
<1> HIDE DEF new
<1>8. /\ batch' \in [Requests -> Seq(Nat)] /\ batch'[r] = new
      /\ \A q \in Requests \ {r} : batch'[q] = batch[q]
  BY <1>6, <1>7 DEF IInv, Types, TypeOK
<1>9. /\ mine' \in [Requests -> SUBSET Nat] /\ mine'[r] = (Len(findings) + 1)..Len(findings')
      /\ \A q \in Requests \ {r} : mine'[q] = mine[q]
  BY <1>1, <1>3, <1>4 DEF IInv, Types, TypeOK
<1>10. pc'[r] = "ingest" /\ \A q \in Requests \ {r} : pc'[q] = pc[q]
  BY <1>2 DEF IInv, Types, TypeOK
<1>11. Types'
  BY <1>2, <1>3, <1>8, <1>9 DEF IInv, Types, TypeOK, Finding
<1>12. Locking'
  <2>1. ASSUME NEW q \in Requests, q # r
        PROVE  pc[q] \notin {"ingest", "rebuild"} /\ batch'[q] = <<>> /\ pc'[q] = pc[q]
    BY <1>2, <1>8, <1>10, <2>1, RiskAssumption DEF IInv, Locking
  <2>2. \A q \in Requests \ {r} : Len(batch'[q]) = 0
    BY <2>1
  <2>3. \A j \in 1..Len(batch'[r]) : batch'[r][j] = Len(findings') - Len(batch'[r]) + j
    <3>1. Len(batch'[r]) = n /\ \A j \in 1..n : batch'[r][j] = Len(findings) + j
      BY <1>6, <1>8
    <3>2. Len(findings') - n = Len(findings)
      BY <1>3, <1>4
    <3> QED BY <3>1, <3>2
  <2>4. Len(batch'[r]) <= Len(findings')
    BY <1>3, <1>4, <1>6, <1>8
  <2> QED BY <1>2, <1>3, <1>10, <2>1, <2>2, <2>3, <2>4 DEF Locking
<1>13. Ingested' = Len(findings)
  <2>1. Pending' = n
    BY <1>2, <1>6, <1>8 DEF Pending
  <2> QED BY <1>3, <1>4, <2>1 DEF Ingested
<1>14. Evidence'
  <2>1. /\ \A i, j \in 1..Len(findings) : i <= j => findings[i].at <= findings[j].at
        /\ \A i \in 1..Len(findings) : findings[i].at <= clock
        /\ clock \in Nat
    <3>1. clock \in Nat
      BY RiskAssumption DEF IInv, Types, TypeOK
    <3> QED BY <1>4, <3>1 DEF IInv, Evidence
  <2>2. \A i \in 1..Len(findings') : findings'[i].at <= clock
    BY <1>3, <1>4, <2>1
  <2>3. ASSUME NEW i \in 1..Len(findings'), NEW j \in 1..Len(findings'), i <= j
        PROVE  findings'[i].at <= findings'[j].at
    <3>1. CASE j \in 1..Len(findings)
      BY <1>3, <1>4, <2>1, <2>3, <3>1
    <3>2. CASE j > Len(findings)
      BY <1>3, <2>2, <3>2
    <3> QED BY <1>4, <3>1, <3>2
  <2>4. baseline'.seq <= Ingested' /\ holder' # OPERATOR
    BY <1>2, <1>4, <1>13, RiskAssumption DEF IInv, Evidence
  <2> QED BY <1>2, <1>3, <2>2, <2>3, <2>4 DEF Evidence
<1>15. Healthy'
  BY <1>2, <1>3, <1>4, <1>11, <1>12, <1>13, HealthyFrame, RiskAssumption
<1>16. Own(r)'
  <2>1. ~decided'[r].taken
    BY <1>2 DEF IInv, Own
  <2> QED BY <1>3, <1>4, <1>9, <1>10, <2>1 DEF Own
<1>17. ASSUME NEW q \in Requests, q # r PROVE Own(q)'
  <2>1. Ingested <= Ingested'
    BY <1>4, <1>13
  <2> QED BY <1>2, <1>3, <1>9, <1>10, <1>11, <1>12, <1>17, <2>1, OwnFrame
<1> QED BY <1>11, <1>12, <1>14, <1>15, <1>16, <1>17 DEF IInv

\* The oldest of the pending findings that end at l, and those that stay.
LEMMA PendingTail ==
  ASSUME NEW b \in Seq(Nat), b # <<>>, NEW l \in Nat, Len(b) <= l,
         \A j \in 1..Len(b) : b[j] = l - Len(b) + j
  PROVE  /\ Head(b) = l - Len(b) + 1 /\ l - Len(b) + 1 \in 1..l
         /\ Tail(b) \in Seq(Nat) /\ Len(Tail(b)) <= l
         /\ l - Len(Tail(b)) = l - Len(b) + 1
         /\ \A j \in 1..Len(Tail(b)) : Tail(b)[j] = l - Len(Tail(b)) + j
<1>1. Len(b) \in Nat /\ Len(b) > 0
  OBVIOUS
<1>2. Head(b) = b[1] /\ Tail(b) \in Seq(Nat) /\ Len(Tail(b)) = Len(b) - 1
  OBVIOUS
<1>3. \A j \in 1..(Len(b) - 1) : Tail(b)[j] = b[j + 1]
  OBVIOUS
<1>4. \A j \in 1..(Len(b) - 1) : b[j + 1] = l - Len(b) + (j + 1)
  BY <1>1
<1>5. \A n \in Nat : n > 0 /\ n <= l =>
        /\ l - (n - 1) = l - n + 1 /\ n - 1 <= l /\ l - n + 1 \in 1..l
        /\ \A j \in 1..(n - 1) : l - (n - 1) + j = l - n + (j + 1)
  OBVIOUS
<1> QED BY <1>1, <1>2, <1>3, <1>4, <1>5

\* What a finding of the store is.
LEMMA FindingType ==
  ASSUME Types, NEW i \in DOMAIN findings
  PROVE  /\ findings[i].at \in Int /\ findings[i].at >= 0
         /\ SeverityOf[findings[i].id] \in Severity
<1>1. findings \in Seq(Finding)
  BY DEF Types, TypeOK, Finding
<1>2. findings[i] \in Finding
  BY <1>1
<1> QED BY <1>2, RiskAssumption DEF Finding

\* The oldest pending finding is handed over, and it is the next one after those that
\* were.
LEMMA HandOver ==
  ASSUME IInv, NEW r \in Requests, pc[r] = "ingest", batch[r] # <<>>,
         batch' = [batch EXCEPT ![r] = Tail(@)], proj' \in Projection,
         UNCHANGED <<clock, findings, baseline, holder, pc, mine, decided, suspended, repairs, lossy>>
  PROVE  /\ Head(batch[r]) = Ingested + 1 /\ Ingested + 1 \in DOMAIN findings
         /\ Ingested' = Ingested + 1
         /\ Types' /\ Locking' /\ Evidence' /\ \A q \in Requests : Own(q)'
<1> DEFINE b == batch[r]
           l == Len(findings)
<1>1. /\ l \in Nat /\ DOMAIN findings = 1..l /\ Ingested = l - Len(b) /\ holder = r
      /\ Ingested \in Nat
  BY PendingFacts DEF IInv, PendingBound, Locking
<1>2. /\ b \in Seq(Nat) /\ b # <<>> /\ Len(b) <= l
      /\ \A j \in 1..Len(b) : b[j] = l - Len(b) + j
  BY DEF IInv, Types, TypeOK, Locking
<1>3. /\ Head(b) = l - Len(b) + 1 /\ l - Len(b) + 1 \in 1..l
      /\ Tail(b) \in Seq(Nat) /\ Len(Tail(b)) <= l
      /\ l - Len(Tail(b)) = l - Len(b) + 1
      /\ \A j \in 1..Len(Tail(b)) : Tail(b)[j] = l - Len(Tail(b)) + j
  BY <1>1, <1>2, PendingTail
<1>4. /\ batch' \in [Requests -> Seq(Nat)] /\ batch'[r] = Tail(b)
      /\ \A q \in Requests \ {r} : batch'[q] = batch[q]
  BY <1>3 DEF IInv, Types, TypeOK
<1>5. Types'
  BY <1>4 DEF IInv, Types, TypeOK
<1> HIDE DEF b
<1>6. Head(b) = Ingested + 1 /\ Ingested + 1 \in DOMAIN findings
  BY <1>1, <1>3
<1>7. Len(batch'[r]) <= l
      /\ \A j \in 1..Len(batch'[r]) : batch'[r][j] = l - Len(batch'[r]) + j
  BY <1>3, <1>4
<1>8. Locking'
  <2>1. ASSUME NEW q \in Requests, q # r
        PROVE  /\ pc'[q] \in {"ingest", "rebuild"} <=> holder' = q
               /\ pc'[q] # "ingest" => batch'[q] = <<>>
               /\ Len(batch'[q]) <= Len(findings')
               /\ \A j \in 1..Len(batch'[q]) : batch'[q][j] = Len(findings') - Len(batch'[q]) + j
    BY <1>4, <2>1 DEF IInv, Locking
  <2>2. pc'[r] = "ingest" /\ holder' = r /\ findings' = findings
    BY <1>1
  <2> QED BY <1>7, <2>1, <2>2 DEF Locking
<1>9. Ingested' = Ingested + 1
  <2>1. Pending = Len(b) /\ Pending' = Len(Tail(b))
    BY <1>1, <1>4 DEF Pending, b
  <2> QED BY <1>1, <1>3, <2>1 DEF Ingested
<1>10. Evidence'
  <2>1. baseline.seq <= Ingested /\ baseline.seq \in Nat
    BY DEF IInv, Evidence, Types, TypeOK, Watermark
  <2>2. baseline'.seq <= Ingested'
    BY <1>1, <1>9, <2>1
  <2> QED BY <2>2 DEF IInv, Evidence
<1>11. ASSUME NEW q \in Requests PROVE Own(q)'
  <2>1. Ingested <= Ingested' /\ Len(findings) <= Len(findings')
    BY <1>1, <1>9
  <2> QED BY <1>5, <1>8, <2>1, OwnFrame
<1> QED BY <1>5, <1>6, <1>8, <1>9, <1>10, <1>11 DEF b

\* A finding that fits is counted; one that does not turns the projection STALE.
LEMMA IngestStep ==
  ASSUME IInv, NEW r \in Requests, Ingest(r)
  PROVE  IInv'
<1> DEFINE i == Head(batch[r])
           sev == SeverityOf[findings[i].id]
<1>1. /\ pc[r] = "ingest" /\ batch[r] # <<>> /\ batch' = [batch EXCEPT ![r] = Tail(@)]
      /\ proj' = ingest_finding(proj, findings, i)
      /\ UNCHANGED <<clock, findings, baseline, holder, pc, mine, decided, suspended, repairs, lossy>>
  BY DEF Ingest
<1>2. holder = r /\ holder # OPERATOR
  BY <1>1, RiskAssumption DEF IInv, Locking
<1>3. i = Ingested + 1 /\ i \in DOMAIN findings
  <2>1. /\ batch[r] \in Seq(Nat) /\ Len(batch[r]) <= Len(findings)
        /\ \A j \in 1..Len(batch[r]) : batch[r][j] = Len(findings) - Len(batch[r]) + j
    BY DEF IInv, Types, TypeOK, Locking
  <2>2. /\ Ingested = Len(findings) - Len(batch[r]) /\ DOMAIN findings = 1..Len(findings)
        /\ Len(findings) \in Nat
    BY <1>1, PendingFacts DEF IInv, PendingBound
  <2>3. /\ Head(batch[r]) = Len(findings) - Len(batch[r]) + 1
        /\ Len(findings) - Len(batch[r]) + 1 \in 1..Len(findings)
    BY <1>1, <2>1, <2>2, PendingTail
  <2> QED BY <2>2, <2>3
<1>4. sev \in Severity /\ i \in Nat
  <2>1. i \in Nat
    BY <1>3, PendingFacts DEF IInv, PendingBound
  <2> QED BY <1>3, <2>1, FindingType DEF IInv
<1> HIDE DEF i, sev
<1>5. /\ proj \in Projection /\ proj.counts \in Counts /\ proj.base \in Watermark
      /\ proj.cursor \in Nat /\ proj.base.seq \in Nat
  BY DEF IInv, Types, TypeOK, Projection, Counts, Watermark
<1>6. \/ proj' = proj
      \/ proj' = [proj EXCEPT !.state = "STALE"]
      \/ /\ i = proj.cursor + 1 /\ i > proj.base.seq /\ findings[i].at > proj.base.at
         /\ proj' = [proj EXCEPT !.cursor = i, !.counts[sev] = @ + 1]
  <2>1. i <= proj.base.seq \/ i > proj.base.seq
    BY <1>4, <1>5
  <2>2. i <= proj.cursor \/ i > proj.cursor + 1 \/ i = proj.cursor + 1
    BY <1>4, <1>5
  <2>3. findings[i].at \in Int /\ proj.base.at \in Int
    BY <1>3, <1>5, FindingType, RiskAssumption DEF IInv, Watermark
  <2>4. findings[i].at <= proj.base.at \/ findings[i].at > proj.base.at
    BY <2>3
  <2> QED BY <1>1, <2>1, <2>2, <2>4 DEF ingest_finding, apply_finding, sev
<1>7. [proj EXCEPT !.state = "STALE"] \in Projection
  BY <1>5 DEF Projection
<1>8. [proj EXCEPT !.cursor = i, !.counts[sev] = @ + 1] \in Projection
  <2>1. [proj.counts EXCEPT ![sev] = @ + 1] \in Counts
    BY <1>4, <1>5 DEF Counts
  <2>2. [proj EXCEPT !.cursor = i, !.counts = [proj.counts EXCEPT ![sev] = @ + 1]] \in Projection
    BY <1>4, <1>5, <2>1 DEF Projection, Counts
  <2> QED BY <1>5, <2>2 DEF Projection
<1>9. proj' \in Projection
  BY <1>5, <1>6, <1>7, <1>8
<1>10. /\ Ingested' = Ingested + 1
       /\ Types' /\ Locking' /\ Evidence' /\ \A q \in Requests : Own(q)'
  BY <1>1, <1>9, HandOver
<1>11. Healthy'
  <2> SUFFICES ASSUME proj'.state = "HEALTHY" PROVE Healthy'
    BY DEF Healthy
  <2>1. proj' # [proj EXCEPT !.state = "STALE"]
    BY <1>5 DEF Projection
  <2>2. proj.state = "HEALTHY"
    BY <1>5, <1>6, <2>1 DEF Projection
  <2>3. /\ proj.base = baseline
        /\ \/ proj.cursor = Ingested
           \/ proj.cursor = proj.base.seq
        /\ Ingested \in Nat /\ baseline.seq <= Ingested
    BY <1>2, <2>2, PendingFacts DEF IInv, Healthy, Evidence, PendingBound
  <2>4. proj' # proj
    <3>1. i > proj.base.seq /\ i > proj.cursor
      BY <1>3, <1>5, <2>3
    <3>2. proj' = apply_finding(proj, findings, i)
      BY <1>1, <2>2 DEF ingest_finding
    <3>3. ~(i <= proj.base.seq \/ i <= proj.cursor)
      BY <1>4, <1>5, <3>1
    <3>4. \/ proj' = [proj EXCEPT !.state = "STALE"]
          \/ proj' = [proj EXCEPT !.cursor = i, !.counts[sev] = @ + 1]
      BY <3>2, <3>3 DEF apply_finding, sev
    <3>5. proj'.cursor = i
      BY <1>5, <2>1, <3>4 DEF Projection
    <3> QED BY <1>5, <1>4, <3>1, <3>5
  <2>5. /\ i = proj.cursor + 1 /\ i > proj.base.seq /\ findings[i].at > proj.base.at
        /\ proj'.cursor = i /\ proj'.base = proj.base
        /\ proj'.counts = [proj.counts EXCEPT ![sev] = @ + 1]
    BY <1>5, <1>6, <2>1, <2>4 DEF Projection
  <2>6. proj'.cursor = Ingested'
    BY <1>3, <1>10, <2>5
  <2>7. ASSUME ~lossy
        PROVE  proj'.counts =
                 CountBySeverity(findings, PostBaseline(findings, proj.base) \cap (1..(Ingested + 1)))
    <3> DEFINE is == PostBaseline(findings, proj.base) \cap (1..Ingested)
    <3>1. PostBaseline(findings, proj.base) \cap (1..(Ingested + 1)) = is \cup {i}
      BY <1>3, <2>3, <2>5 DEF PostBaseline
    <3>2. i \notin is
      BY <1>3, <2>3
    <3>3. IsFiniteSet(is)
      <4>1. IsFiniteSet(1..Ingested) /\ is \in SUBSET (1..Ingested)
        BY <2>3, FS_Interval
      <4> QED BY <4>1, FS_Subset
    <3>4. proj.counts = CountBySeverity(findings, is)
      BY <2>2, <2>7 DEF IInv, Healthy
    <3> HIDE DEF is
    <3>5. CountBySeverity(findings, is \cup {i}) = [CountBySeverity(findings, is) EXCEPT ![sev] = @ + 1]
      BY <1>4, <3>2, <3>3, CountOneMore DEF sev
    <3> QED BY <2>5, <3>1, <3>4, <3>5
  <2> QED BY <1>1, <1>10, <2>3, <2>5, <2>6, <2>7 DEF Healthy
<1> QED BY <1>10, <1>11 DEF IInv

\* A failed projection is STALE, or was never there.
LEMMA IngestFailsStep ==
  ASSUME IInv, NEW r \in Requests, IngestFails(r)
  PROVE  IInv'
<1>1. /\ pc[r] = "ingest" /\ batch[r] # <<>> /\ batch' = [batch EXCEPT ![r] = Tail(@)]
      /\ proj' = mark_stale(proj)
      /\ UNCHANGED <<clock, findings, baseline, holder, pc, mine, decided, suspended, repairs, lossy>>
  BY DEF IngestFails
<1>2. proj \in Projection
  BY DEF IInv, Types, TypeOK
<1>3. mark_stale(proj) \in Projection /\ mark_stale(proj).state # "HEALTHY"
  BY <1>2 DEF mark_stale, Projection
<1>4. Types' /\ Locking' /\ Evidence' /\ \A q \in Requests : Own(q)'
  BY <1>1, <1>3, HandOver
<1> QED BY <1>1, <1>3, <1>4 DEF IInv, Healthy

\* The lock changes hands while nothing is pending; only the request that moves, the
\* projection and the baseline may change with it.
LEMMA LockStep ==
  ASSUME IInv, UNCHANGED <<clock, findings, batch, mine>>,
         Types', Locking', Healthy', baseline'.seq <= Len(findings),
         holder' = OPERATOR => baseline'.seq = Len(findings),
         Ingested = Len(findings), Ingested' = Len(findings),
         \A q \in Requests : (pc'[q] = pc[q] /\ decided'[q] = decided[q]) \/ Own(q)'
  PROVE  IInv'
<1>1. Evidence'
  BY DEF IInv, Evidence
<1>2. Len(findings) \in Nat
  BY PendingFacts DEF IInv, PendingBound
<1>3. ASSUME NEW q \in Requests PROVE Own(q)'
  <2>1. Ingested <= Ingested' /\ Len(findings) <= Len(findings')
    BY <1>2
  <2> QED BY <2>1, OwnFrame
<1> QED BY <1>1, <1>3 DEF IInv

\* The release after the record, and after a rebuild that fails.
LEMMA ReleaseStep ==
  ASSUME IInv, NEW r \in Requests, Release(r) \/ RebuildFails(r)
  PROVE  IInv'
<1>1. PICK label \in {"assess", "refused"} :
        /\ holder' = NoOne /\ pc' = [pc EXCEPT ![r] = label]
        /\ pc[r] \in {"ingest", "rebuild"}
        /\ UNCHANGED <<clock, findings, baseline, proj, batch, mine, decided, suspended, repairs, lossy>>
  BY DEF Release, RebuildFails
<1>2. batch[r] = <<>> /\ holder = r
  BY DEF Release, RebuildFails, IInv, Locking
<1>3. Len(findings) \in Nat /\ Ingested = Len(findings) - Len(batch[r])
  BY <1>1, PendingFacts DEF IInv, PendingBound
<1>4. Ingested = Len(findings)
  BY <1>2, <1>3
<1>5. pc'[r] = label /\ \A q \in Requests \ {r} : pc'[q] = pc[q]
  BY <1>1 DEF IInv, Types, TypeOK
<1>6. Types'
  BY <1>1 DEF IInv, Types, TypeOK
<1>7. Locking'
  BY <1>1, <1>2, <1>5, RiskAssumption DEF IInv, Locking
<1>8. Ingested' = Len(findings)
  BY <1>1, <1>6, <1>7, PendingFactsNext, RiskAssumption DEF PendingBound
<1>9. Healthy'
  BY <1>1, <1>2, <1>3, <1>4, <1>6, <1>7, <1>8, HealthyFrame, RiskAssumption
<1>10. Own(r)'
  <2>1. mine[r] \subseteq 1..Len(findings) /\ ~decided[r].taken
    BY <1>1 DEF IInv, Own
  <2> QED BY <1>1, <1>8, <2>1 DEF Own
<1>11. baseline'.seq <= Len(findings) /\ holder' # OPERATOR
  BY <1>1, <1>4, RiskAssumption DEF IInv, Evidence
<1> QED BY <1>1, <1>4, <1>5, <1>6, <1>7, <1>8, <1>9, <1>10, <1>11, LockStep

\* An empty projection at the baseline is right when nothing was recorded since.
LEMMA EmptyProjection ==
  ASSUME Types, Types', Locking', baseline' \in Watermark, findings' = findings,
         Ingested' = Len(findings),
         proj' = NewAggregate(baseline'), lossy' \/ Len(findings) <= baseline'.seq
  PROVE  Healthy'
<1>1. /\ proj'.base = baseline' /\ proj'.cursor = proj'.base.seq /\ proj'.counts = NoCounts
  BY DEF NewAggregate
<1>2. baseline'.seq \in Nat /\ Len(findings) \in Nat /\ DOMAIN findings = 1..Len(findings)
  BY DEF Types, TypeOK, Watermark
<1>3. Len(findings) <= baseline'.seq => PostBaseline(findings', baseline') = {}
  BY <1>2 DEF PostBaseline
<1>4. ~lossy' =>
        proj'.counts = CountBySeverity(findings', PostBaseline(findings', proj'.base) \cap (1..Ingested'))
  BY <1>1, <1>3, CountNothing
<1> QED BY <1>1, <1>4 DEF Healthy

\* An empty projection has its type.
LEMMA EmptyType ==
  ASSUME NEW w \in Watermark
  PROVE  NewAggregate(w) \in Projection
<1>1. NoCounts \in [Severity -> Nat] /\ w.seq \in Nat
  BY DEF NoCounts, Watermark
<1> QED BY <1>1 DEF NewAggregate, Projection

\* The second look, under the lock.
LEMMA RecheckStep ==
  ASSUME IInv, NEW r \in Requests, LockAndRecheck(r)
  PROVE  IInv'
<1>1. CASE proj.state = "HEALTHY"
  BY <1>1, DecideStep DEF LockAndRecheck
<1>2. CASE proj.state # "HEALTHY"
  <2>1. /\ pc[r] = "lock" /\ holder = NoOne /\ holder' = r /\ pc' = [pc EXCEPT ![r] = "rebuild"]
        /\ proj' = IF proj.state = "UNINITIALIZED" THEN NewAggregate(baseline) ELSE proj
        /\ lossy' = (proj.state = "UNINITIALIZED" /\ Len(findings) > baseline.seq)
        /\ UNCHANGED <<clock, findings, baseline, batch, mine, decided, suspended, repairs>>
    BY <1>2 DEF LockAndRecheck
  <2>2. /\ Ingested = Len(findings) /\ Len(findings) \in Nat
        /\ baseline \in Watermark /\ baseline.seq \in Nat
    BY <2>1, PendingFacts, RiskAssumption DEF IInv, PendingBound, Types, TypeOK, Watermark
  <2>3. pc'[r] = "rebuild" /\ \A q \in Requests \ {r} : pc'[q] = pc[q]
    BY <2>1 DEF IInv, Types, TypeOK
  <2>4. Types'
    <3>1. proj' \in Projection
      BY <2>1, <2>2, EmptyType DEF IInv, Types, TypeOK
    <3>2. lossy' \in BOOLEAN
      BY <2>1
    <3> QED BY <2>1, <3>1, <3>2 DEF IInv, Types, TypeOK
  <2>5. Locking'
    BY <2>1, <2>3, RiskAssumption DEF IInv, Locking
  <2>6. Ingested' = Len(findings)
    BY <2>1, <2>3, <2>4, <2>5, PendingFactsNext DEF PendingBound
  <2>7. Healthy'
    <3>1. CASE proj.state = "UNINITIALIZED"
      <4>1. lossy' \/ Len(findings) <= baseline'.seq
        <5>1. Len(findings) > baseline.seq \/ Len(findings) <= baseline.seq
          BY <2>2
        <5> QED BY <2>1, <3>1, <5>1, Zenon
      <4> QED BY <2>1, <2>2, <2>4, <2>5, <2>6, <3>1, <4>1, EmptyProjection DEF IInv
    <3>2. CASE proj.state # "UNINITIALIZED"
      BY <1>2, <2>1, <3>2 DEF Healthy
    <3> QED BY <3>1, <3>2
  <2>8. Own(r)'
    <3>1. mine[r] \subseteq 1..Len(findings) /\ ~decided[r].taken
      BY <2>1 DEF IInv, Own
    <3> QED BY <2>1, <2>6, <3>1 DEF Own
  <2>9. baseline'.seq <= Len(findings) /\ holder' # OPERATOR
    BY <2>1, <2>2, RiskAssumption DEF IInv, Evidence
  <2> QED BY <2>1, <2>2, <2>3, <2>4, <2>5, <2>6, <2>7, <2>8, <2>9, LockStep
<1> QED BY <1>1, <1>2

\* The evidence after a baseline ends with the store: if there is any, the last finding
\* is part of it.
LEMMA LastIsKept ==
  ASSUME Types, Evidence, NEW w \in Watermark, PostBaseline(findings, w) # {}
  PROVE  Max(PostBaseline(findings, w)) = Len(findings)
<1> DEFINE kept == PostBaseline(findings, w)
           l == Len(findings)
<1>1. l \in Nat /\ DOMAIN findings = 1..l
  BY DEF Types, TypeOK
<1>2. PICK i \in kept : TRUE
  OBVIOUS
<1>3. i \in 1..l /\ i > w.seq /\ findings[i].at > w.at
  BY <1>1 DEF PostBaseline
<1>4. l \in 1..l /\ i <= l
  BY <1>1, <1>3
<1>5. findings[l].at > w.at
  <2>1. findings[i].at <= findings[l].at
    BY <1>1, <1>3, <1>4 DEF Evidence
  <2>2. findings[i].at \in Int /\ findings[l].at \in Int /\ w.at \in Int
    BY <1>1, <1>3, <1>4, FindingType, RiskAssumption DEF Watermark
  <2> QED BY <1>3, <2>1, <2>2
<1>6. w.seq \in Nat /\ l > w.seq
  BY <1>1, <1>3, <1>4 DEF Watermark
<1>7. l \in kept /\ \A j \in kept : l >= j /\ j \in 1..l
  BY <1>1, <1>4, <1>5, <1>6 DEF PostBaseline
<1> HIDE DEF kept
<1>8. Max(kept) \in kept /\ \A j \in kept : Max(kept) >= j
  BY <1>7 DEF Max
<1> QED BY <1>1, <1>7, <1>8 DEF kept

\* The rebuild counts all the evidence after the stored baseline.
LEMMA RebuildStep ==
  ASSUME IInv, NEW r \in Requests, Rebuild(r)
  PROVE  IInv'
<1> DEFINE kept == PostBaseline(findings, baseline)
<1>1. /\ pc[r] = "rebuild" /\ proj' = rebuild_from_findings(findings, baseline)
      /\ lossy' = FALSE /\ holder' = NoOne /\ pc' = [pc EXCEPT ![r] = "decided"]
      /\ decided' = [decided EXCEPT ![r] = [Snapshot(proj') EXCEPT !.sound = TRUE]]
      /\ UNCHANGED <<clock, findings, baseline, batch, mine, suspended, repairs>>
  BY DEF Rebuild
<1>2. /\ Ingested = Len(findings) /\ Len(findings) \in Nat /\ DOMAIN findings = 1..Len(findings)
      /\ holder = r /\ baseline \in Watermark /\ baseline.seq \in Nat
  BY <1>1, PendingFacts DEF IInv, PendingBound, Locking, Types, TypeOK, Watermark
<1>3. kept \in SUBSET (1..Len(findings)) /\ IsFiniteSet(kept)
  <2>1. IsFiniteSet(1..Len(findings)) /\ kept \in SUBSET (1..Len(findings))
    BY <1>2, FS_Interval DEF PostBaseline
  <2> QED BY <2>1, FS_Subset
<1>4. CountBySeverity(findings, kept) \in Counts
  BY <1>3, CountType
<1>5. /\ proj'.state = "HEALTHY" /\ proj'.base = baseline
      /\ proj'.counts = CountBySeverity(findings, kept)
      /\ proj'.cursor = IF kept = {} THEN baseline.seq ELSE Len(findings)
      /\ proj' \in Projection
  <2>1. kept # {} => Max(kept) = Len(findings)
    BY <1>2, LastIsKept DEF IInv
  <2> HIDE DEF kept
  <2>2. proj' = [state |-> "HEALTHY", base |-> baseline,
                 cursor |-> IF kept = {} THEN baseline.seq ELSE Len(findings),
                 counts |-> CountBySeverity(findings, kept)]
    BY <1>1, <2>1 DEF rebuild_from_findings, kept
  <2> QED BY <1>2, <1>4, <2>2 DEF Projection, Counts
<1>6. level_for_score(Score(proj'.counts)) \in 0..3
  <2>1. \A s \in Severity : proj'.counts[s] <= proj'.counts[s]
    BY <1>4, <1>5 DEF Counts
  <2> QED BY <1>4, <1>5, <2>1, LevelMonotone
<1> DEFINE snapshot == [Snapshot(proj') EXCEPT !.sound = TRUE]
<1>7. /\ snapshot \in Snapshots /\ snapshot.base = baseline
      /\ snapshot.level = level_for_score(Score(CountBySeverity(findings, kept)))
  <2>1. lossy \in BOOLEAN /\ proj'.cursor \in Nat
    BY <1>2, <1>5 DEF IInv, Types, TypeOK
  <2> QED BY <1>2, <1>5, <1>6, <2>1 DEF Snapshot, Snapshots
<1> HIDE DEF snapshot
<1>8. /\ decided'[r] = snapshot /\ decided' \in [Requests -> Snapshots \cup {NoDecision}]
      /\ \A q \in Requests \ {r} : decided'[q] = decided[q]
  BY <1>1, <1>7 DEF IInv, Types, snapshot
<1>9. pc'[r] = "decided" /\ \A q \in Requests \ {r} : pc'[q] = pc[q]
  BY <1>1 DEF IInv, Types, TypeOK
<1>10. Types'
  BY <1>1, <1>5, <1>8 DEF IInv, Types, TypeOK
<1>11. Locking'
  BY <1>1, <1>2, <1>9, RiskAssumption DEF IInv, Locking
<1>12. Ingested' = Len(findings)
  BY <1>1, <1>10, <1>11, PendingFactsNext, RiskAssumption DEF PendingBound
<1>13. Healthy'
  <2>1. kept \cap (1..Len(findings)) = kept
    BY <1>3
  <2>2. kept = {} => proj'.counts = NoCounts
    BY <1>5, CountNothing
  <2> HIDE DEF kept
  <2>3. PostBaseline(findings', proj'.base) = kept
    BY <1>1, <1>5 DEF kept
  <2> QED BY <1>1, <1>5, <1>12, <2>1, <2>2, <2>3 DEF Healthy
<1>14. Own(r)'
  <2> DEFINE is == {i \in mine[r] : i > baseline.seq /\ findings[i].at > baseline.at}
  <2>1. mine[r] \subseteq 1..Len(findings)
    BY DEF IInv, Own
  <2>2. is \subseteq kept
    BY <1>2, <2>1 DEF PostBaseline
  <2>3. OwnLevel(r)' = level_for_score(Score(CountBySeverity(findings, is)))
    BY <1>1, <1>7, <1>8 DEF OwnLevel
  <2> HIDE DEF is, kept
  <2>4. /\ level_for_score(Score(CountBySeverity(findings, is))) \in 0..3
        /\ level_for_score(Score(CountBySeverity(findings, is)))
             <= level_for_score(Score(CountBySeverity(findings, kept)))
    BY <1>3, <2>2, LevelOfPart
  <2>5. decided'[r].level >= OwnLevel(r)'
    BY <1>5, <1>6, <1>7, <1>8, <2>3, <2>4
  <2> QED BY <1>1, <1>9, <1>12, <2>1, <2>5 DEF Own
<1>15. baseline'.seq <= Len(findings) /\ holder' # OPERATOR
  BY <1>1, <1>2, RiskAssumption DEF IInv, Evidence
<1> QED BY <1>1, <1>2, <1>8, <1>9, <1>10, <1>11, <1>12, <1>13, <1>14, <1>15, LockStep

-----------------------------------------------------------------------------
(* The operator and the clock.                                             *)

\* The watermark of a reinstatement is the end of the store.
LEMMA CaptureIsEnd ==
  ASSUME Types, Evidence
  PROVE  capture_evidence_baseline_sequence(clock) = Len(findings)
<1> DEFINE upto == {i \in DOMAIN findings : findings[i].at <= clock}
           l == Len(findings)
<1>1. l \in Nat /\ DOMAIN findings = 1..l
  BY DEF Types, TypeOK
<1>2. upto = 1..l
  BY <1>1 DEF Evidence
<1> HIDE DEF upto, l
<1>3. CASE upto = {}
  <2>1. l = 0
    BY <1>1, <1>2, <1>3
  <2> QED BY <1>3, <2>1 DEF capture_evidence_baseline_sequence, upto, l
<1>4. CASE upto # {}
  <2>1. l \in upto /\ \A j \in upto : l >= j
    BY <1>1, <1>2, <1>4
  <2>2. Max(upto) \in upto /\ \A j \in upto : Max(upto) >= j
    BY <2>1 DEF Max
  <2>3. Max(upto) = l
    BY <1>1, <1>2, <2>1, <2>2
  <2> QED BY <1>4, <2>3 DEF capture_evidence_baseline_sequence, upto, l
<1> QED BY <1>3, <1>4

\* Reinstatement and repair.
LEMMA OperatorSteps ==
  ASSUME IInv, ReinstateCommit \/ ReinstateReset \/ Repair
  PROVE  IInv'
<1>1. /\ holder \notin Requests /\ holder' \notin Requests
      /\ UNCHANGED <<clock, findings, batch, mine, pc, decided>>
  BY RiskAssumption DEF ReinstateCommit, ReinstateReset, Repair
<1>2. /\ Ingested = Len(findings) /\ Len(findings) \in Nat
      /\ baseline \in Watermark /\ baseline.seq \in Nat /\ clock \in 0..MaxClock
      /\ baseline.seq <= Len(findings)
  BY <1>1, PendingFacts DEF IInv, PendingBound, Evidence, Types, TypeOK, Watermark
<1>3. Locking'
  BY <1>1 DEF IInv, Locking
<1>4. CASE ReinstateCommit
  <2>1. /\ baseline' = [at |-> clock, seq |-> Len(findings)] /\ holder' = OPERATOR
        /\ UNCHANGED <<proj, lossy, repairs>> /\ suspended' = FALSE
    BY <1>4, CaptureIsEnd DEF ReinstateCommit, IInv
  <2>2. Types'
    <3>1. baseline' \in Watermark
      BY <1>2, <2>1, RiskAssumption DEF Watermark
    <3> QED BY <1>1, <2>1, <3>1 DEF IInv, Types, TypeOK
  <2>3. Ingested' = Len(findings)
    BY <1>1, <1>3, <2>2, PendingFactsNext DEF PendingBound
  <2>4. Healthy'
    BY <1>1, <1>2, <1>3, <2>1, <2>2, <2>3, HealthyFrame
  <2>5. baseline'.seq = Len(findings) /\ baseline'.seq <= Len(findings)
    BY <1>2, <2>1
  <2> QED BY <1>1, <1>2, <1>3, <2>2, <2>3, <2>4, <2>5, LockStep
<1>5. CASE ReinstateReset \/ Repair
  <2>1. /\ proj' = NewAggregate(baseline) /\ baseline' = baseline /\ holder' = NoOne
        /\ suspended' = suspended /\ repairs' \in 0..MaxRepairs
        /\ lossy' \in BOOLEAN
    <3>1. CASE ReinstateReset
      BY <3>1 DEF ReinstateReset, reset_to_baseline, IInv, Types, TypeOK
    <3>2. CASE Repair
      <4>1. repairs \in 0..MaxRepairs /\ MaxRepairs \in Nat /\ repairs < MaxRepairs
        BY <3>2, RiskAssumption DEF Repair, IInv, Types, TypeOK
      <4>2. repairs + 1 \in 0..MaxRepairs
        BY <4>1
      <4> QED BY <3>2, <4>2 DEF Repair, reset_to_baseline
    <3> QED BY <1>5, <3>1, <3>2
  <2>2. lossy' \/ Len(findings) <= baseline'.seq
    <3>1. CASE ReinstateReset
      <4>1. baseline.seq = Len(findings)
        BY <3>1 DEF ReinstateReset, IInv, Evidence
      <4> QED BY <1>2, <2>1, <4>1
    <3>2. CASE Repair
      <4>1. Len(findings) > baseline.seq \/ Len(findings) <= baseline.seq
        BY <1>2
      <4> QED BY <2>1, <3>2, <4>1, Zenon DEF Repair
    <3> QED BY <1>5, <3>1, <3>2
  <2>3. Types'
    BY <1>1, <1>2, <2>1, EmptyType DEF IInv, Types, TypeOK
  <2>4. Ingested' = Len(findings)
    BY <1>1, <1>3, <2>3, PendingFactsNext DEF PendingBound
  <2>5. Healthy'
    BY <1>1, <1>2, <1>3, <2>1, <2>2, <2>3, <2>4, EmptyProjection DEF IInv
  <2>6. holder' # OPERATOR
    BY <2>1, RiskAssumption
  <2> QED BY <1>1, <1>2, <1>3, <2>1, <2>3, <2>4, <2>5, <2>6, LockStep
<1> QED BY <1>4, <1>5

\* Time passes.
LEMMA TickStep ==
  ASSUME IInv, Tick
  PROVE  IInv'
<1>1. clock' = clock + 1 /\ clock \in Nat /\ clock' \in 0..MaxClock
  BY RiskAssumption DEF Tick, IInv, Types, TypeOK
<1>2. UNCHANGED <<findings, baseline, proj, holder, pc, batch, mine, decided, suspended, repairs, lossy>>
  BY DEF Tick
<1>3. Types'
  BY <1>1, <1>2 DEF IInv, Types, TypeOK
<1>4. Ingested' = Ingested
  BY <1>2 DEF Ingested, Pending
<1>5. Evidence'
  <2>1. ASSUME NEW i \in DOMAIN findings PROVE findings[i].at <= clock'
    <3>1. findings[i].at \in Int /\ findings[i].at <= clock
      BY FindingType DEF IInv, Evidence
    <3> QED BY <1>1, <3>1
  <2> QED BY <1>2, <1>4, <2>1 DEF IInv, Evidence
<1>6. Locking' /\ Healthy' /\ \A q \in Requests : Own(q)'
  BY <1>2, <1>4 DEF IInv, Locking, Healthy, Own, OwnLevel
<1> QED BY <1>3, <1>5, <1>6 DEF IInv

-----------------------------------------------------------------------------
(* The theorems.                                                           *)

\* Every step keeps the invariant.
LEMMA NextIInv == IInv /\ [Next]_vars => IInv'
<1> SUFFICES ASSUME IInv, [Next]_vars PROVE IInv'
  OBVIOUS
<1>1. CASE UNCHANGED vars
  <2>1. UNCHANGED <<clock, findings, baseline, proj, holder, pc, batch, mine, decided, suspended,
                    repairs, lossy>>
    BY <1>1 DEF vars
  <2>2. Ingested' = Ingested
    BY <2>1 DEF Ingested, Pending
  <2>3. Types' /\ Locking' /\ Evidence' /\ Healthy'
    BY <2>1, <2>2 DEF IInv, Types, TypeOK, Locking, Evidence, Healthy
  <2>4. \A q \in Requests : Own(q)'
    BY <2>1, <2>2 DEF IInv, Own, OwnLevel
  <2> QED BY <2>3, <2>4 DEF IInv
<1>2. ASSUME NEW r \in Requests, Step(r) PROVE IInv'
  BY <1>2, RecordStep, IngestStep, IngestFailsStep, ReleaseStep, OutsideSteps, RecheckStep,
     RebuildStep DEF Step
<1>3. CASE ReinstateCommit \/ ReinstateReset \/ Repair
  BY <1>3, OperatorSteps
<1>4. CASE Tick
  BY <1>4, TickStep
<1> QED BY <1>1, <1>2, <1>3, <1>4 DEF Next

\* Without evidence and projection the invariant holds.
LEMMA InitIInv == Init => IInv
<1> SUFFICES ASSUME Init PROVE IInv
  OBVIOUS
<1>1. NoProjection \in Projection /\ NoBaseline \in Watermark
  <2>1. NoBaseline \in Watermark
    BY RiskAssumption DEF NoBaseline, Watermark
  <2>2. NoCounts \in [Severity -> Nat]
    BY DEF NoCounts
  <2> QED BY <2>1, <2>2 DEF NoProjection, Projection
<1>2. Types
  <2>1. /\ pc \in [Requests -> {"start"}] /\ batch \in [Requests -> Seq(Nat)]
        /\ mine \in [Requests -> SUBSET Nat] /\ decided \in [Requests -> {NoDecision}]
    BY DEF Init
  <2>2. clock \in 0..MaxClock /\ repairs \in 0..MaxRepairs
    BY RiskAssumption DEF Init
  <2>3. /\ findings \in Seq([id : Ids, at : 0..MaxClock]) /\ suspended \in BOOLEAN
        /\ lossy \in BOOLEAN /\ holder \in Requests \cup {OPERATOR, NoOne}
        /\ baseline \in Watermark /\ proj \in Projection
    <3>1. /\ findings = <<>> /\ suspended = FALSE /\ lossy = FALSE /\ holder = NoOne
          /\ baseline = NoBaseline /\ proj = NoProjection
      BY Zenon DEF Init
    <3>2. <<>> \in Seq([id : Ids, at : 0..MaxClock])
      OBVIOUS
    <3> QED BY <1>1, <3>1, <3>2, Zenon
  <2> QED BY <2>1, <2>2, <2>3 DEF Types, TypeOK
<1>3. Len(findings) = 0 /\ DOMAIN findings = {} /\ \A r \in Requests : Len(batch[r]) = 0
  BY DEF Init
<1>4. Locking
  BY <1>3, RiskAssumption DEF Init, Locking
<1>5. Ingested = 0
  BY <1>2, <1>3, <1>4, PendingFacts, RiskAssumption DEF Init, PendingBound
<1>6. Evidence
  BY <1>3, <1>5, RiskAssumption DEF Init, Evidence, NoBaseline
<1>7. Healthy
  BY DEF Init, Healthy, NoProjection
<1>8. \A r \in Requests : Own(r)
  BY DEF Init, Own, NoDecision
<1> QED BY <1>2, <1>4, <1>6, <1>7, <1>8 DEF IInv

\* Every reachable state satisfies the invariant.
THEOREM Invariance == Spec => []IInv
BY InitIInv, NextIInv, PTL DEF Spec

\* The store, the projection and the control state keep their types.
THEOREM TypeCorrect == Spec => []TypeOK
BY Invariance, PTL DEF IInv, Types

\* B-1: incremental application and rebuild agree, for any evidence and any schedule.
THEOREM ProjectionEquivalence == Spec => []HealthyMatchesRebuild
<1>1. IInv => HealthyMatchesRebuild
  <2> SUFFICES ASSUME IInv, holder = NoOne, proj.state = "HEALTHY", ~lossy
               PROVE  /\ proj.base = baseline
                      /\ proj.counts = CountBySeverity(findings, Enforceable)
    BY DEF HealthyMatchesRebuild
  <2>1. Ingested = Len(findings) /\ DOMAIN findings = 1..Len(findings)
    BY PendingFacts, RiskAssumption DEF IInv, PendingBound
  <2>2. /\ proj.base = baseline
        /\ proj.counts =
             CountBySeverity(findings, PostBaseline(findings, proj.base) \cap (1..Ingested))
    BY RiskAssumption DEF IInv, Healthy
  <2>3. PostBaseline(findings, baseline) \cap (1..Ingested) = Enforceable
    BY <2>1 DEF PostBaseline, Enforceable
  <2> QED BY <2>2, <2>3
<1> QED BY <1>1, Invariance, PTL

\* A HEALTHY projection has missed nothing or everything since its baseline.
THEOREM LagIsAllOrNothing == Spec => []LagIsTotal
<1>1. IInv => LagIsTotal
  <2>1. IInv /\ holder = NoOne => Ingested = Len(findings)
    BY PendingFacts, RiskAssumption DEF IInv, PendingBound
  <2> QED BY <2>1 DEF IInv, Healthy, LagIsTotal
<1> QED BY <1>1, Invariance, PTL

\* A request's decision never ranks its own evidence too low.
THEOREM DecisionsCountOwnFindings == Spec => []SoundDecisionCountsOwnFindings
<1>1. IInv => SoundDecisionCountsOwnFindings
  BY DEF IInv, Own, SoundDecisionCountsOwnFindings
<1> QED BY <1>1, Invariance, PTL

\* No session of an agent that was never reinstated outranks the agent.
THEOREM AgentOutranksSessions == Spec => []SessionNeverOutranksAgent
<1>1. IInv /\ HealthyMatchesRebuild => SessionNeverOutranksAgent
  <2> SUFFICES ASSUME IInv, HealthyMatchesRebuild, holder = NoOne, proj.state = "HEALTHY",
                      ~lossy, baseline = NoBaseline, NEW x \in Ids
               PROVE  level_for_score(Score(proj.counts)) >= assess_session(SessionOf[x])
    BY DEF SessionNeverOutranksAgent
  <2> DEFINE is == {i \in DOMAIN findings : SessionOf[findings[i].id] = SessionOf[x]}
  <2>1. proj.counts = CountBySeverity(findings, Enforceable)
    BY DEF HealthyMatchesRebuild
  <2>2. Len(findings) \in Nat /\ DOMAIN findings = 1..Len(findings)
    BY PendingFacts DEF IInv, PendingBound
  <2>3. ASSUME NEW i \in DOMAIN findings PROVE i \in Enforceable
    <3>1. findings[i].at \in Int /\ findings[i].at >= 0 /\ i > 0
      BY <2>2, FindingType DEF IInv
    <3> QED BY <3>1 DEF Enforceable, NoBaseline
  <2>4. is \subseteq Enforceable
    BY <2>3
  <2>5. IsFiniteSet(Enforceable)
    <3>1. IsFiniteSet(1..Len(findings)) /\ Enforceable \in SUBSET (1..Len(findings))
      BY <2>2, FS_Interval DEF Enforceable
    <3> QED BY <3>1, FS_Subset
  <2>6. assess_session(SessionOf[x]) = level_for_score(Score(CountBySeverity(findings, is)))
    BY DEF assess_session
  <2> HIDE DEF is
  <2>7. /\ level_for_score(Score(CountBySeverity(findings, is))) \in 0..3
        /\ level_for_score(Score(CountBySeverity(findings, is)))
             <= level_for_score(Score(CountBySeverity(findings, Enforceable)))
        /\ level_for_score(Score(CountBySeverity(findings, Enforceable))) \in 0..3
    BY <2>4, <2>5, LevelOfPart
  <2> QED BY <2>1, <2>6, <2>7
<1> QED BY <1>1, Invariance, ProjectionEquivalence, PTL

=============================================================================
