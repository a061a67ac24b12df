------------------------- MODULE LifecycleStoreProofs -------------------------
(***************************************************************************)
(* What the row locks and the compare-and-sets of the SQL repositories     *)
(* guarantee, for any number of processes and transitions.                 *)
(***************************************************************************)
EXTENDS LifecycleStore, FiniteSetTheorems, TLAPS

AdminStates == [state : {"NONE", "REGISTERED", "ACTIVE", "DISABLED"}, version : Nat]

EnfStates == [epoch : Nat, suspended : BOOLEAN, recovery_generation : Nat]

AdminEntries ==
  [by : Processes, from : {"NONE", "REGISTERED", "ACTIVE", "DISABLED"},
   to : {"NONE", "REGISTERED", "ACTIVE", "DISABLED"}, before : Nat, after : Nat]

EnfEntries == [by : Processes, action : {"SUSPEND", "REINSTATE"}, epoch : Nat]

\* The types of everything, the ledgers and what was read included.
Types ==
  /\ TypeOK
  /\ admin_ledger \in Seq(AdminEntries)
  /\ enf_ledger \in Seq(EnfEntries)
  /\ admin_read \in [Processes -> AdminStates]
  /\ enf_read \in [Processes -> EnfStates]

\* Which operation can be where, and which ones have read an administrative state.
Position(p) ==
  /\ pc[p] = "idle" <=> task[p] = "none"
  /\ pc[p] = "absent" => task[p] = "register"
  /\ pc[p] \in {"due", "permitted"} => task[p] \in DOMAIN Action
  /\ pc[p] \in {"read", "locked"} => task[p] \in DOMAIN Action \cup {"activate", "disable"}
  /\ task[p] \notin {"activate", "disable"} => admin_read[p] = NoAdministrativeState

\* A transaction about to write holds the lock of the row it compared, and the row
\* still is what the comparison saw.
Exclusive(p) ==
  /\ pc[p] = "locked" => holder["agents"] = p /\ agent
  /\ pc[p] = "writing" /\ task[p] = "register" => holder["agents"] = p /\ ~agent
  /\ pc[p] = "writing" /\ task[p] \in {"activate", "disable"} =>
       /\ holder["agents"] = p /\ agent
       /\ administrative = admin_read[p]
       /\ Target[task[p]] \in LEGAL_ADMINISTRATIVE_TRANSITIONS[administrative.state]
  /\ pc[p] = "writing" /\ task[p] \in DOMAIN Action =>
       holder["enforcement"] = p /\ enforcement = enf_read[p]
  /\ pc[p] = "writing" /\ task[p] \in DOMAIN Continuation =>
       holder["approval"] = p /\ approval = Continuation[task[p]][1]

\* What was read is the state of an earlier moment, the present one while the epoch is
\* the same, and whatever was recorded since then another process recorded.
Reads(p) ==
  pc[p] \in {"read", "locked", "writing"} =>
    /\ task[p] \in DOMAIN Action =>
         /\ enf_read[p].epoch <= enforcement.epoch
         /\ enf_read[p].epoch = enforcement.epoch => enf_read[p] = enforcement
         /\ \A i \in DOMAIN enf_ledger : i > enf_read[p].epoch => enf_ledger[i].by # p
    /\ task[p] \in {"activate", "disable"} =>
         \A i \in DOMAIN admin_ledger : i > admin_read[p].version => admin_ledger[i].by # p

\* Is the transition of the process in the ledger, at the place after what it read.
Recorded(p) ==
  IF task[p] \in DOMAIN Action
    THEN enf_read[p].epoch + 1 <= Len(enf_ledger) /\ enf_ledger[enf_read[p].epoch + 1].by = p
    ELSE admin_read[p].version + 1 <= Len(admin_ledger)
         /\ admin_ledger[admin_read[p].version + 1].by = p

Truthful(p) ==
  pc[p] = "answered" /\ task[p] \in DOMAIN Target \cup DOMAIN Action =>
    /\ answer[p] = "committed" => Recorded(p)
    /\ answer[p] = "lost" => ~Recorded(p)

Local(p) == Position(p) /\ Exclusive(p) /\ Reads(p) /\ Truthful(p)

IInv ==
  /\ Types
  /\ AdministrativeHistory /\ EnforcementHistory /\ ConsumedOnce
  /\ \A p \in Processes : Local(p)

-----------------------------------------------------------------------------
(* What a step leaves alone.                                               *)

\* The other processes stay where they are and keep the locks they hold.
Frame(p) ==
  \A q \in Processes \ {p} :
    /\ pc'[q] = pc[q] /\ task'[q] = task[q] /\ answer'[q] = answer[q]
    /\ admin_read'[q] = admin_read[q] /\ enf_read'[q] = enf_read[q]
    /\ \A row \in Rows : holder[row] = q => holder'[row] = q

\* The operations by the plane they belong to.
LEMMA Operations ==
  /\ DOMAIN Action = {"suspend", "reinstate"}
  /\ DOMAIN Target = {"register", "activate", "disable"}
  /\ DOMAIN Continuation = {"approve", "reject", "expire", "consume"}
  /\ Action["suspend"] = "SUSPEND" /\ Action["reinstate"] = "REINSTATE"
  /\ Target["register"] = "REGISTERED" /\ Target["activate"] = "ACTIVE"
  /\ Target["disable"] = "DISABLED"
BY DEF Action, Target, Continuation

\* The end of a transaction frees the locks of its process and no other.
LEMMA AnswerFrame ==
  ASSUME Types, NEW p \in Processes, NEW a, Answer(p, a),
         task' = task, admin_read' = admin_read, enf_read' = enf_read
  PROVE  /\ Frame(p)
         /\ holder' \in [Rows -> Processes \cup {None}]
         /\ pc' = [pc EXCEPT ![p] = "answered"]
         /\ answer' = [answer EXCEPT ![p] = a]
BY StoreAssumption DEF Types, TypeOK, Answer, ReleaseAll, Goto, Frame

\* A lock is taken from nobody.
LEMMA LockFrame ==
  ASSUME Types, NEW p \in Processes, NEW label, NEW row \in Rows, Lock(p, row), Goto(p, label),
         task' = task, admin_read' = admin_read, enf_read' = enf_read, answer' = answer
  PROVE  /\ Frame(p)
         /\ holder' \in [Rows -> Processes \cup {None}]
         /\ holder'[row] = p
BY StoreAssumption DEF Types, TypeOK, Lock, Goto, Frame

\* What nobody writes to stays as the other processes know it.
LEMMA QuietOthers ==
  ASSUME IInv, NEW p \in Processes, Frame(p), UNCHANGED data, NEW q \in Processes, q # p
  PROVE  Local(q)'
<1>1. /\ Local(q)
      /\ pc'[q] = pc[q] /\ task'[q] = task[q] /\ answer'[q] = answer[q]
      /\ admin_read'[q] = admin_read[q] /\ enf_read'[q] = enf_read[q]
      /\ \A row \in Rows : holder[row] = q => holder'[row] = q
  BY DEF IInv, Frame
<1>2. Position(q)' /\ Reads(q)' /\ Truthful(q)'
  BY <1>1 DEF Local, Position, Reads, Truthful, Recorded, data, planes
<1>3. Exclusive(q)'
  BY <1>1 DEF Local, Exclusive, Rows, data, planes
<1> QED BY <1>2, <1>3 DEF Local

-----------------------------------------------------------------------------
(* Steps that write nothing.                                               *)

\* Nothing stored changes, and the process is where its operation may be.
Quiet(p) == UNCHANGED <<data, claims>> /\ Frame(p) /\ Types' /\ Local(p)'

\* A step that writes nothing keeps the invariant.
LEMMA QuietStep ==
  ASSUME IInv, NEW p \in Processes, Quiet(p)
  PROVE  IInv'
<1>1. \A q \in Processes : Local(q)'
  BY QuietOthers DEF Quiet
<1>2. AdministrativeHistory' /\ EnforcementHistory' /\ ConsumedOnce'
  BY DEF IInv, Quiet, data, planes, AdministrativeHistory, EnforcementHistory, Reinstatements,
         ConsumedOnce
<1> QED BY <1>1, <1>2 DEF IInv, Quiet

\* An operation may be answered with anything but success while it has written nothing,
\* and with a lost update once it has locked what it had read.
LEMMA Unsuccessful ==
  ASSUME IInv, NEW p \in Processes,
         NEW a \in {"exists", "refused", "lost", "invalid", "unavailable"},
         pc[p] \notin {"idle", "answered"}, Answer(p, a),
         a = "lost" => pc[p] = "locked" \/ task[p] \in DOMAIN Continuation,
         UNCHANGED <<data, task, admin_read, enf_read, claims>>
  PROVE  Quiet(p)
<1>1. /\ Frame(p)
      /\ holder' \in [Rows -> Processes \cup {None}]
      /\ pc' = [pc EXCEPT ![p] = "answered"]
      /\ answer' = [answer EXCEPT ![p] = a]
  BY AnswerFrame DEF IInv
<1>2. Types'
  BY <1>1 DEF IInv, Types, TypeOK, data, planes
<1>3. pc'[p] = "answered" /\ answer'[p] = a /\ answer'[p] # "committed"
  BY <1>1 DEF IInv, Types, TypeOK
<1>4. Local(p)
  BY DEF IInv
<1>5. Position(p)' /\ Exclusive(p)' /\ Reads(p)'
  BY <1>3, <1>4 DEF Local, Position, Exclusive, Reads
<1>6. a = "lost" /\ task[p] \in DOMAIN Target \cup DOMAIN Action => ~Recorded(p)
  <2> SUFFICES ASSUME a = "lost", task[p] \in DOMAIN Target \cup DOMAIN Action
               PROVE  ~Recorded(p)
    OBVIOUS
  <2>1. pc[p] = "locked"
    BY Operations
  <2>2. CASE task[p] \in DOMAIN Action
    <3>1. enf_read[p].epoch \in Nat
      BY DEF IInv, Types, EnfStates
    <3>2. \A i \in DOMAIN enf_ledger : i > enf_read[p].epoch => enf_ledger[i].by # p
      BY <1>4, <2>1, <2>2 DEF Local, Reads
    <3>3. DOMAIN enf_ledger = 1..Len(enf_ledger) /\ Len(enf_ledger) \in Nat
      BY DEF IInv, Types
    <3> QED BY <2>2, <3>1, <3>2, <3>3 DEF Recorded
  <2>3. CASE task[p] \notin DOMAIN Action
    <3>1. admin_read[p].version \in Nat
      BY DEF IInv, Types, AdminStates
    <3>2. \A i \in DOMAIN admin_ledger : i > admin_read[p].version => admin_ledger[i].by # p
      BY <1>4, <2>1, <2>3 DEF Local, Reads, Position
    <3>3. DOMAIN admin_ledger = 1..Len(admin_ledger) /\ Len(admin_ledger) \in Nat
      BY DEF IInv, Types
    <3> QED BY <2>3, <3>1, <3>2, <3>3 DEF Recorded
  <2> QED BY <2>2, <2>3
<1>7. Truthful(p)'
  BY <1>3, <1>6 DEF Truthful, Recorded, data, planes
<1> QED BY <1>1, <1>2, <1>5, <1>7 DEF Quiet, Local

\* Taking up an operation and being done with one.
LEMMA TakeUp ==
  ASSUME IInv, NEW p \in Processes, Done(p) \/ \E t \in Tasks : Begin(p, t)
  PROVE  Quiet(p)
<1>1. Frame(p) /\ UNCHANGED <<data, claims>>
  BY DEF Begin, Done, Goto, Frame, IInv, Types, TypeOK
<1>2. "none" \notin Tasks /\ NoAdministrativeState \in AdminStates
      /\ NoEnforcementState \in EnfStates
  BY Operations
     DEF Tasks, NoAdministrativeState, NoEnforcementState, AdminStates, EnfStates
<1>3. Types'
  <2>1. CASE Done(p)
    BY <1>2, <2>1 DEF Done, Goto, IInv, Types, TypeOK, data, planes
  <2>2. CASE \E t \in Tasks : Begin(p, t)
    BY <2>2 DEF Begin, Goto, IInv, Types, TypeOK, data, planes
  <2> QED BY <2>1, <2>2
<1>4. CASE Done(p)
  <2>1. pc'[p] = "idle" /\ task'[p] = "none" /\ admin_read'[p] = NoAdministrativeState
    BY <1>4 DEF Done, Goto, IInv, Types, TypeOK
  <2> QED
    BY <1>1, <1>3, <2>1 DEF Quiet, Local, Position, Exclusive, Reads, Truthful
<1>5. ASSUME NEW t \in Tasks, Begin(p, t) PROVE Quiet(p)
  <2>1. pc'[p] = "begun" /\ task'[p] = t /\ t # "none"
    BY <1>2, <1>5 DEF Begin, Goto, IInv, Types, TypeOK
  <2>2. admin_read'[p] = NoAdministrativeState
    BY <1>5 DEF Begin, IInv, Local, Position
  <2> QED
    BY <1>1, <1>3, <2>1, <2>2 DEF Quiet, Local, Position, Exclusive, Reads, Truthful
<1> QED BY <1>4, <1>5

\* A process that gives up, or whose connection breaks.
LEMMA RollbackStep ==
  ASSUME IInv, NEW p \in Processes, Rollback(p)
  PROVE  Quiet(p)
BY Unsuccessful DEF Rollback

\* A process moves on without a lock and without a word to its caller.
LEMMA MoveOn ==
  ASSUME IInv, NEW p \in Processes,
         NEW label \in {"absent", "due", "permitted", "read"}, Goto(p, label),
         UNCHANGED <<data, holder, task, answer, claims>>,
         admin_read' \in [Processes -> AdminStates], enf_read' \in [Processes -> EnfStates],
         \A q \in Processes \ {p} :
           admin_read'[q] = admin_read[q] /\ enf_read'[q] = enf_read[q],
         Position(p)', Reads(p)'
  PROVE  Quiet(p)
<1>1. Frame(p)
  BY DEF Goto, Frame, IInv, Types, TypeOK
<1>2. Types'
  BY DEF Goto, IInv, Types, TypeOK, data, planes
<1>3. pc'[p] = label
  BY DEF Goto, IInv, Types, TypeOK
<1>4. Exclusive(p)' /\ Truthful(p)'
  BY <1>3 DEF Exclusive, Truthful
<1> QED BY <1>1, <1>2, <1>4 DEF Quiet, Local

\* The looks into the database that precede the writing transaction.
LEMMA Looks ==
  ASSUME IInv, NEW p \in Processes,
         CheckAbsent(p) \/ CheckEnforcement(p) \/ RecheckDisabled(p)
  PROVE  Quiet(p)
<1>1. CASE CheckAbsent(p)
  <2>1. CASE agent
    BY <1>1, <2>1, Unsuccessful DEF CheckAbsent
  <2>2. CASE ~agent
    <3>1. Goto(p, "absent") /\ UNCHANGED <<data, holder, task, answer, admin_read, enf_read, claims>>
          /\ task[p] = "register" /\ pc'[p] = "absent"
      BY <1>1, <2>2 DEF CheckAbsent, Goto, IInv, Types, TypeOK
    <3>2. Position(p)' /\ Reads(p)'
      BY <3>1 DEF Position, Reads, IInv, Local
    <3> QED BY <3>1, <3>2, MoveOn DEF IInv, Types
  <2> QED BY <2>1, <2>2
<1>2. CASE CheckEnforcement(p)
  <2>1. CASE Answer(p, "refused")
    BY <1>2, <2>1, Unsuccessful DEF CheckEnforcement
  <2>2. CASE Goto(p, "due") /\ UNCHANGED <<holder, answer>>
    <3>1. Goto(p, "due") /\ UNCHANGED <<data, holder, task, answer, admin_read, enf_read, claims>>
          /\ task[p] \in DOMAIN Action /\ pc'[p] = "due"
      BY <1>2, <2>2 DEF CheckEnforcement, Goto, IInv, Types, TypeOK
    <3>2. Position(p)' /\ Reads(p)'
      BY <3>1, Operations DEF Position, Reads, IInv, Local
    <3> QED BY <3>1, <3>2, MoveOn DEF IInv, Types
  <2> QED BY <1>2, <2>1, <2>2 DEF CheckEnforcement
<1>3. CASE RecheckDisabled(p)
  <2>1. CASE Answer(p, "refused")
    BY <1>3, <2>1, Unsuccessful DEF RecheckDisabled
  <2>2. CASE Goto(p, "permitted") /\ UNCHANGED <<holder, answer>>
    <3>1. Goto(p, "permitted")
          /\ UNCHANGED <<data, holder, task, answer, admin_read, enf_read, claims>>
          /\ pc[p] = "due" /\ pc'[p] = "permitted"
      BY <1>3, <2>2 DEF RecheckDisabled, Goto, IInv, Types, TypeOK
    <3>2. Position(p)' /\ Reads(p)'
      BY <3>1, Operations DEF Position, Reads, IInv, Local
    <3> QED BY <3>1, <3>2, MoveOn DEF IInv, Types
  <2> QED BY <1>3, <2>1, <2>2 DEF RecheckDisabled
<1> QED BY <1>1, <1>2, <1>3

\* What is read is the latest entry of the ledger: nothing was recorded since.
LEMMA ReadEnforcementStep ==
  ASSUME IInv, NEW p \in Processes, ReadEnforcement(p)
  PROVE  Quiet(p)
<1>1. /\ Goto(p, "read") /\ UNCHANGED <<data, holder, task, answer, admin_read, claims>>
      /\ pc[p] = "permitted" /\ pc'[p] = "read"
      /\ enf_read' = [enf_read EXCEPT ![p] = enforcement]
  BY DEF ReadEnforcement, Goto, IInv, Types, TypeOK
<1>2. /\ enf_read' \in [Processes -> EnfStates] /\ enf_read'[p] = enforcement
      /\ \A q \in Processes \ {p} : enf_read'[q] = enf_read[q]
  BY <1>1 DEF IInv, Types, TypeOK, EnfStates
<1>3. /\ enforcement.epoch \in Nat /\ Len(enf_ledger) = enforcement.epoch
      /\ DOMAIN enf_ledger = 1..enforcement.epoch
      /\ enforcement' = enforcement /\ enf_ledger' = enf_ledger
  BY <1>1 DEF IInv, Types, TypeOK, EnforcementHistory, data, planes
<1>4. task[p] \in DOMAIN Action /\ task'[p] = task[p]
  BY <1>1 DEF IInv, Local, Position
<1>5. Position(p)'
  BY <1>1, <1>4, Operations DEF Position, IInv, Local
<1>6. Reads(p)'
  BY <1>2, <1>3, <1>4, Operations DEF Reads
<1> QED BY <1>1, <1>2, <1>5, <1>6, MoveOn DEF IInv, Types

\* The same for the administrative plane.
LEMMA ReadAdministrativeStep ==
  ASSUME IInv, NEW p \in Processes, ReadAdministrative(p)
  PROVE  Quiet(p)
<1>1. CASE Answer(p, "refused") /\ UNCHANGED admin_read
  BY <1>1, Unsuccessful DEF ReadAdministrative
<1>2. CASE /\ admin_read' = [admin_read EXCEPT ![p] = administrative]
           /\ Goto(p, "read") /\ UNCHANGED <<holder, answer>>
  <2>1. /\ UNCHANGED <<data, holder, task, answer, enf_read, claims>>
        /\ task[p] \in {"activate", "disable"} /\ pc'[p] = "read"
    BY <1>2 DEF ReadAdministrative, Goto, IInv, Types, TypeOK
  <2>2. /\ admin_read' \in [Processes -> AdminStates] /\ admin_read'[p] = administrative
        /\ \A q \in Processes \ {p} : admin_read'[q] = admin_read[q]
    BY <1>2 DEF IInv, Types, TypeOK, AdminStates
  <2>3. /\ administrative.version \in Nat /\ DOMAIN admin_ledger = 1..administrative.version
        /\ admin_ledger' = admin_ledger
    BY <2>1 DEF IInv, Types, TypeOK, AdministrativeHistory, data, planes
  <2>4. Position(p)'
    BY <2>1, Operations DEF Position
  <2>5. Reads(p)'
    BY <2>1, <2>2, <2>3, Operations DEF Reads
  <2> QED BY <1>2, <2>1, <2>2, <2>4, <2>5, MoveOn DEF IInv, Types
<1> QED BY <1>1, <1>2 DEF ReadAdministrative

\* A process moves on with a lock.
LEMMA LockOn ==
  ASSUME IInv, NEW p \in Processes, NEW label \in {"locked", "writing"}, NEW row \in Rows,
         Lock(p, row), Goto(p, label),
         UNCHANGED <<data, task, admin_read, enf_read, answer, claims>>,
         pc[p] \in {"begun", "absent", "read", "locked"},
         label = "locked" => pc[p] = "read", Exclusive(p)',
         task[p] \in DOMAIN Action \cup {"activate", "disable"} => pc[p] \in {"read", "locked"}
  PROVE  Quiet(p)
<1>1. Frame(p) /\ holder' \in [Rows -> Processes \cup {None}]
  BY LockFrame DEF IInv
<1>2. Types'
  BY <1>1 DEF Goto, IInv, Types, TypeOK, data, planes
<1>3. pc'[p] = label
  BY DEF Goto, IInv, Types, TypeOK
<1>4. Position(p)'
  BY <1>3 DEF IInv, Local, Position
<1>5. Reads(p)'
  BY <1>3 DEF IInv, Local, Reads, data, planes
<1>6. Truthful(p)'
  BY <1>3 DEF Truthful
<1> QED BY <1>1, <1>2, <1>4, <1>5, <1>6 DEF Quiet, Local

\* The agents row is locked by an insertion that finds none and by a transition that
\* finds one.
LEMMA AgentLocks ==
  ASSUME IInv, NEW p \in Processes, InsertIdentity(p) \/ LockAgent(p)
  PROVE  Quiet(p)
<1>1. CASE Answer(p, "unavailable")
  BY <1>1, Unsuccessful DEF InsertIdentity, LockAgent
<1>2. CASE InsertIdentity(p) /\ ~agent
  <2>1. /\ Lock(p, "agents") /\ Goto(p, "writing") /\ pc[p] = "absent"
        /\ UNCHANGED <<data, task, admin_read, enf_read, answer, claims>>
    BY <1>2 DEF InsertIdentity
  <2>2. /\ pc'[p] = "writing" /\ holder'["agents"] = p /\ task'[p] = "register"
        /\ agent' = agent
    BY <2>1 DEF Lock, Goto, IInv, Types, TypeOK, Rows, Local, Position, data, planes
  <2>3. Exclusive(p)'
    BY <1>2, <2>2, Operations DEF Exclusive
  <2> QED BY <2>1, <2>2, <2>3, LockOn, Operations DEF Rows
<1>3. CASE LockAgent(p) /\ agent
  <2>1. /\ Lock(p, "agents") /\ Goto(p, "locked") /\ pc[p] = "read"
        /\ UNCHANGED <<data, task, admin_read, enf_read, answer, claims>>
    BY <1>3 DEF LockAgent
  <2>2. pc'[p] = "locked" /\ holder'["agents"] = p /\ agent' = agent
    BY <2>1 DEF Lock, Goto, IInv, Types, TypeOK, Rows, data, planes
  <2>3. Exclusive(p)'
    BY <1>3, <2>2 DEF Exclusive
  <2> QED BY <2>1, <2>3, LockOn DEF Rows
<1> QED BY <1>1, <1>2, <1>3 DEF InsertIdentity, LockAgent

\* The comparison of the administrative plane lets through only a transition from the
\* stored state.
LEMMA CompareAdministrativeStep ==
  ASSUME IInv, NEW p \in Processes, CompareAdministrative(p)
  PROVE  Quiet(p)
<1>1. CASE Answer(p, "lost") \/ Answer(p, "invalid")
  BY <1>1, Unsuccessful DEF CompareAdministrative
<1>2. CASE /\ administrative.version = admin_read[p].version
           /\ validate_transition_invariants(p)
           /\ Lock(p, "administrative") /\ Goto(p, "writing") /\ UNCHANGED answer
  <2>1. /\ pc[p] = "locked" /\ task[p] \in {"activate", "disable"}
        /\ UNCHANGED <<data, task, admin_read, enf_read, answer, claims>>
    BY <1>2 DEF CompareAdministrative
  <2>2. pc'[p] = "writing" /\ holder'["agents"] = holder["agents"] /\ task'[p] = task[p]
    BY <1>2, <2>1 DEF Lock, Goto, IInv, Types, TypeOK, Rows
  <2>3. holder["agents"] = p /\ agent
    BY <2>1 DEF IInv, Local, Exclusive
  <2>4. /\ administrative = admin_read[p]
        /\ Target[task[p]] \in LEGAL_ADMINISTRATIVE_TRANSITIONS[administrative.state]
    <3>1. administrative \in AdminStates /\ admin_read[p] \in AdminStates
      BY DEF IInv, Types, TypeOK, AdminStates
    <3>2. administrative.state = admin_read[p].state
      BY <1>2 DEF validate_transition_invariants, AdministrativeEntry
    <3>3. administrative = admin_read[p]
      BY <1>2, <3>1, <3>2 DEF AdminStates
    <3> QED BY <1>2, <3>3 DEF validate_transition_invariants, AdministrativeState
  <2>5. Exclusive(p)'
    BY <2>1, <2>2, <2>3, <2>4, Operations DEF Exclusive, data, planes
  <2> QED BY <1>2, <2>1, <2>5, LockOn DEF Rows
<1> QED BY <1>1, <1>2 DEF CompareAdministrative

\* The comparison of the enforcement plane lets through only a transition from the stored
\* state, although it compares no more than the epoch.
LEMMA CompareEnforcementStep ==
  ASSUME IInv, NEW p \in Processes, CompareEnforcement(p)
  PROVE  Quiet(p)
<1>1. CASE Answer(p, "lost") \/ Answer(p, "unavailable")
  BY <1>1, Unsuccessful DEF CompareEnforcement
<1>2. CASE /\ enforcement.epoch = enf_read[p].epoch
           /\ Lock(p, "enforcement") /\ Goto(p, "writing") /\ UNCHANGED answer
  <2>1. /\ pc[p] = "locked" /\ task[p] \in DOMAIN Action
        /\ UNCHANGED <<data, task, admin_read, enf_read, answer, claims>>
    BY <1>2 DEF CompareEnforcement
  <2>2. pc'[p] = "writing" /\ holder'["enforcement"] = p /\ task'[p] = task[p]
    BY <1>2, <2>1 DEF Lock, Goto, IInv, Types, TypeOK, Rows
  <2>3. enforcement = enf_read[p]
    BY <1>2, <2>1 DEF IInv, Local, Reads
  <2>4. Exclusive(p)'
    BY <2>1, <2>2, <2>3, Operations DEF Exclusive, data, planes
  <2> QED BY <1>2, <2>1, <2>4, LockOn DEF Rows
<1> QED BY <1>1, <1>2 DEF CompareEnforcement

\* The comparison of the approval lets through only a transition from the stored state.
LEMMA CompareContinuationStep ==
  ASSUME IInv, NEW p \in Processes, CompareContinuation(p)
  PROVE  Quiet(p)
<1>1. CASE Answer(p, "lost")
  BY <1>1, Unsuccessful DEF CompareContinuation
<1>2. CASE /\ approval = Continuation[task[p]][1]
           /\ Lock(p, "approval") /\ Goto(p, "writing") /\ UNCHANGED answer
  <2>1. /\ pc[p] = "begun" /\ task[p] \in DOMAIN Continuation
        /\ UNCHANGED <<data, task, admin_read, enf_read, answer, claims>>
    BY <1>2 DEF CompareContinuation
  <2>2. pc'[p] = "writing" /\ holder'["approval"] = p /\ task'[p] = task[p]
    BY <1>2, <2>1 DEF Lock, Goto, IInv, Types, TypeOK, Rows
  <2>3. Exclusive(p)'
    BY <1>2, <2>1, <2>2, Operations DEF Exclusive, data, planes
  <2> QED BY <1>2, <2>1, <2>3, LockOn, Operations DEF Rows
<1> QED BY <1>1, <1>2 DEF CompareContinuation

-----------------------------------------------------------------------------
(* Commits.                                                                *)

\* A commit answers its process, and a claim is counted for a consumption only.
LEMMA CommitFrame ==
  ASSUME Types, NEW p \in Processes, Commit(p), UNCHANGED <<task, admin_read, enf_read>>
  PROVE  /\ Frame(p)
         /\ holder' \in [Rows -> Processes \cup {None}]
         /\ pc' = [pc EXCEPT ![p] = "answered"] /\ pc'[p] = "answered"
         /\ answer' \in [Processes -> {"none", "exists", "refused", "lost", "invalid",
                                      "unavailable", "committed"}]
         /\ answer'[p] \in {"committed", "unavailable"}
         /\ claims' \in Nat
         /\ task[p] # "consume" => claims' = claims
         /\ claims' \in {claims, claims + 1}
<1>1. PICK a \in {"committed", "unavailable"} :
        /\ Answer(p, a)
        /\ claims' = IF a = "committed" /\ task[p] = "consume" THEN claims + 1 ELSE claims
  BY DEF Commit
<1>2. /\ Frame(p)
      /\ holder' \in [Rows -> Processes \cup {None}]
      /\ pc' = [pc EXCEPT ![p] = "answered"]
      /\ answer' = [answer EXCEPT ![p] = a]
  BY <1>1, AnswerFrame
<1> QED BY <1>1, <1>2 DEF Types, TypeOK

\* A new entry follows the last one of the administrative ledger.
LEMMA AdministrativeCommit ==
  ASSUME IInv, NEW p \in Processes, CommitRegistration(p) \/ WriteAdministrative(p)
  PROVE  IInv'
<1> DEFINE entry == AdministrativeEntry(p)
           state == AdministrativeState(p)
           n == Len(admin_ledger)
<1>1. /\ pc[p] = "writing" /\ task[p] \in {"register", "activate", "disable"}
      /\ administrative' = state /\ admin_ledger' = Append(admin_ledger, entry)
      /\ Commit(p) /\ UNCHANGED <<enforcement, enf_ledger, approval, task, admin_read, enf_read>>
  BY DEF CommitRegistration, WriteAdministrative
<1>2. Types /\ Local(p) /\ AdministrativeHistory
  BY DEF IInv
<1>3. agent' = TRUE /\ holder["agents"] = p
  BY <1>1, <1>2 DEF CommitRegistration, WriteAdministrative, Local, Exclusive, Types, TypeOK
<1>4. /\ Frame(p) /\ holder' \in [Rows -> Processes \cup {None}]
      /\ pc' = [pc EXCEPT ![p] = "answered"] /\ pc'[p] = "answered"
      /\ answer' \in [Processes -> {"none", "exists", "refused", "lost", "invalid",
                                   "unavailable", "committed"}]
      /\ answer'[p] \in {"committed", "unavailable"}
      /\ claims' = claims
  BY <1>1, <1>2, CommitFrame
<1>5. /\ n \in Nat /\ DOMAIN admin_ledger = 1..n /\ administrative.version = n
      /\ admin_ledger \in Seq(AdminEntries)
  BY <1>2 DEF Types, AdministrativeHistory
<1>6. /\ admin_read[p].version = n
      /\ admin_read[p].state = IF n = 0 THEN "NONE" ELSE admin_ledger[n].to
      /\ Target[task[p]] \in LEGAL_ADMINISTRATIVE_TRANSITIONS[admin_read[p].state]
  <2>1. CASE task[p] = "register"
    <3>1. ~agent /\ admin_read[p] = NoAdministrativeState
      BY <1>1, <1>2, <2>1 DEF Local, Exclusive, Position
    <3>2. n = 0
      BY <1>2, <1>5, <3>1 DEF AdministrativeHistory
    <3> QED
      BY <2>1, <3>1, <3>2 DEF NoAdministrativeState, Target, LEGAL_ADMINISTRATIVE_TRANSITIONS
  <2>2. CASE task[p] \in {"activate", "disable"}
    <3>1. /\ agent /\ administrative = admin_read[p]
          /\ Target[task[p]] \in LEGAL_ADMINISTRATIVE_TRANSITIONS[administrative.state]
      BY <1>1, <1>2, <2>2 DEF Local, Exclusive
    <3>2. n > 0 /\ admin_ledger[n].to = administrative.state
      BY <1>2, <1>5, <3>1 DEF AdministrativeHistory
    <3> QED BY <1>5, <3>1, <3>2
  <2> QED BY <1>1, <2>1, <2>2
<1>7. /\ entry.by = p /\ entry.from = admin_read[p].state /\ entry.to = Target[task[p]]
      /\ entry.before = n /\ entry.after = n + 1
      /\ state.state = Target[task[p]] /\ state.version = n + 1
      /\ entry \in AdminEntries /\ state \in AdminStates
  <2>1. admin_read[p] \in AdminStates
    BY <1>2 DEF Types
  <2>2. Target[task[p]] \in {"REGISTERED", "ACTIVE", "DISABLED"}
    BY <1>1, Operations
  <2> QED BY <1>5, <1>6, <2>1, <2>2
       DEF AdministrativeEntry, AdministrativeState, AdminEntries, AdminStates
<1> HIDE DEF entry, state
<1>8. /\ admin_ledger' \in Seq(AdminEntries) /\ Len(admin_ledger') = n + 1
      /\ DOMAIN admin_ledger' = 1..(n + 1)
      /\ \A i \in 1..n : admin_ledger'[i] = admin_ledger[i]
      /\ admin_ledger'[n + 1] = entry
  BY <1>1, <1>5, <1>7
<1> HIDE DEF n
<1>9. Types'
  BY <1>1, <1>2, <1>3, <1>4, <1>7, <1>8 DEF Types, TypeOK, AdminStates
<1>10. AdministrativeHistory'
  <2>1. Len(admin_ledger') = administrative'.version /\ administrative'.version > 0
    BY <1>1, <1>5, <1>7, <1>8
  <2>2. admin_ledger'[administrative'.version].to = administrative'.state
    BY <1>1, <1>7, <1>8
  <2>3. ASSUME NEW i \in DOMAIN admin_ledger'
        PROVE  /\ admin_ledger'[i].before = i - 1 /\ admin_ledger'[i].after = i
               /\ admin_ledger'[i].from = IF i = 1 THEN "NONE" ELSE admin_ledger'[i - 1].to
               /\ admin_ledger'[i].to \in LEGAL_ADMINISTRATIVE_TRANSITIONS[admin_ledger'[i].from]
    <3>1. CASE i \in 1..n
      <4>1. admin_ledger'[i] = admin_ledger[i]
            /\ (i # 1 => admin_ledger'[i - 1] = admin_ledger[i - 1])
        BY <1>5, <1>8, <3>1
      <4> QED BY <1>2, <1>5, <3>1, <4>1 DEF AdministrativeHistory
    <3>2. CASE i = n + 1
      <4>1. i # 1 => n # 0 /\ i - 1 = n /\ admin_ledger'[n] = admin_ledger[n]
        BY <1>5, <1>8, <3>2
      <4>2. i = 1 => n = 0
        BY <1>5, <3>2
      <4> QED BY <1>5, <1>6, <1>7, <1>8, <3>2, <4>1, <4>2
    <3> QED BY <1>5, <1>8, <3>1, <3>2
  <2> QED BY <1>3, <2>1, <2>2, <2>3 DEF AdministrativeHistory
<1>11. EnforcementHistory' /\ ConsumedOnce'
  BY <1>1, <1>4 DEF IInv, EnforcementHistory, Reinstatements, ConsumedOnce
<1>12. Local(p)'
  <2>1. Position(p)' /\ Exclusive(p)' /\ Reads(p)'
    BY <1>1, <1>2, <1>4 DEF Local, Position, Exclusive, Reads
  <2>2. Recorded(p)'
    BY <1>1, <1>5, <1>6, <1>7, <1>8, Operations DEF Recorded
  <2> QED BY <1>4, <2>1, <2>2 DEF Local, Truthful
<1>13. ASSUME NEW q \in Processes, q # p PROVE Local(q)'
  <2>1. /\ pc'[q] = pc[q] /\ task'[q] = task[q] /\ answer'[q] = answer[q]
        /\ admin_read'[q] = admin_read[q] /\ enf_read'[q] = enf_read[q]
        /\ \A row \in Rows : holder[row] = q => holder'[row] = q
        /\ Local(q)
    BY <1>4, <1>13 DEF Frame, IInv
  <2>2. Position(q)'
    BY <2>1 DEF Local, Position
  <2>3. Exclusive(q)'
    BY <1>1, <1>3, <1>13, <2>1 DEF Local, Exclusive, Rows
  <2>4. \A i \in 1..(n + 1) : admin_ledger'[i].by = q => i \in 1..n /\ admin_ledger[i].by = q
    BY <1>5, <1>7, <1>8, <1>13
  <2>5. Reads(q)'
    BY <1>1, <1>5, <1>8, <2>1, <2>4 DEF Local, Reads
  <2>6. Recorded(q)' <=> Recorded(q)
    <3>1. CASE task[q] \in DOMAIN Action
      BY <1>1, <2>1, <3>1 DEF Recorded
    <3>2. CASE task[q] \notin DOMAIN Action
      <4>1. admin_read[q].version \in Nat
        BY <1>2 DEF Types, AdminStates
      <4>2. Len(admin_ledger) = n
        BY DEF n
      <4> QED BY <1>5, <1>8, <2>1, <2>4, <3>2, <4>1, <4>2 DEF Recorded
    <3> QED BY <3>1, <3>2
  <2>7. Truthful(q)'
    BY <2>1, <2>6 DEF Local, Truthful
  <2> QED BY <2>2, <2>3, <2>5, <2>7 DEF Local
<1> QED BY <1>9, <1>10, <1>11, <1>12, <1>13 DEF IInv

\* One more reinstatement in the ledger is one more to count.
LEMMA CountReinstatements ==
  ASSUME NEW n \in Nat, NEW S \in SUBSET (1..n)
  PROVE  /\ Cardinality(S) \in Nat
         /\ Cardinality(S \cup {n + 1}) = Cardinality(S) + 1
<1>1. IsFiniteSet(1..n)
  BY FS_Interval
<1>2. IsFiniteSet(S)
  BY <1>1, FS_Subset
<1>3. n + 1 \notin S
  OBVIOUS
<1> QED BY <1>2, <1>3, FS_AddElement, FS_CardinalityType

\* A new entry follows the last one of the enforcement ledger, and state and ledger
\* agree on the epoch, the generation and the suspension.
LEMMA EnforcementCommit ==
  ASSUME IInv, NEW p \in Processes, WriteEnforcement(p)
  PROVE  IInv'
<1> DEFINE state == EnforcementState(p)
           entry == [by |-> p, action |-> Action[task[p]], epoch |-> state.epoch]
           n == Len(enf_ledger)
<1>1. /\ pc[p] = "writing" /\ task[p] \in {"suspend", "reinstate"}
      /\ task[p] \in DOMAIN Action
      /\ enforcement' = state /\ enf_ledger' = Append(enf_ledger, entry)
      /\ Commit(p)
      /\ UNCHANGED <<agent, administrative, admin_ledger, approval, task, admin_read, enf_read>>
  BY Operations DEF WriteEnforcement
<1>2. Types /\ Local(p) /\ EnforcementHistory
  BY DEF IInv
<1>3. holder["enforcement"] = p /\ enforcement = enf_read[p]
  BY <1>1, <1>2 DEF Local, Exclusive
<1>4. /\ Frame(p) /\ holder' \in [Rows -> Processes \cup {None}]
      /\ pc' = [pc EXCEPT ![p] = "answered"] /\ pc'[p] = "answered"
      /\ answer' \in [Processes -> {"none", "exists", "refused", "lost", "invalid",
                                   "unavailable", "committed"}]
      /\ answer'[p] \in {"committed", "unavailable"}
      /\ claims' = claims
  BY <1>1, <1>2, CommitFrame
<1>5. /\ n \in Nat /\ DOMAIN enf_ledger = 1..n /\ enforcement.epoch = n
      /\ enf_ledger \in Seq(EnfEntries) /\ enforcement \in EnfStates
  BY <1>2 DEF Types, TypeOK, EnfStates, EnforcementHistory
<1>6. /\ state.epoch = n + 1
      /\ state.recovery_generation =
           enforcement.recovery_generation + (IF task[p] = "reinstate" THEN 1 ELSE 0)
      /\ state \in EnfStates
  BY <1>3, <1>5 DEF EnforcementState, EnfStates
<1>7. state.suspended <=> task[p] = "suspend"
  BY Zenon DEF EnforcementState
<1>8. /\ entry.by = p /\ entry.epoch = n + 1 /\ entry.action = Action[task[p]]
      /\ entry.action = "SUSPEND" <=> task[p] = "suspend"
      /\ entry.action = "REINSTATE" <=> task[p] = "reinstate"
      /\ entry \in EnfEntries
  BY <1>1, <1>5, <1>6, Operations DEF EnfEntries
<1> HIDE DEF entry, state
<1>9. /\ enf_ledger' \in Seq(EnfEntries) /\ Len(enf_ledger') = n + 1
      /\ DOMAIN enf_ledger' = 1..(n + 1)
      /\ \A i \in 1..n : enf_ledger'[i] = enf_ledger[i]
      /\ enf_ledger'[n + 1] = entry
  BY <1>1, <1>5, <1>8
<1> HIDE DEF n
<1>10. Types'
  BY <1>1, <1>2, <1>4, <1>6, <1>9 DEF Types, TypeOK, EnfStates
<1>11. EnforcementHistory'
  <2>1. Len(enf_ledger') = enforcement'.epoch /\ enforcement'.epoch = n + 1
    BY <1>1, <1>6, <1>9
  <2>2. \A i \in DOMAIN enf_ledger' : enf_ledger'[i].epoch = i
    BY <1>2, <1>5, <1>8, <1>9 DEF EnforcementHistory
  <2>3. enforcement'.recovery_generation = Cardinality(Reinstatements')
    <3>1. Reinstatements \in SUBSET (1..n)
      BY <1>5 DEF Reinstatements
    <3>2. Reinstatements' =
            IF task[p] = "reinstate" THEN Reinstatements \cup {n + 1} ELSE Reinstatements
      BY <1>5, <1>8, <1>9 DEF Reinstatements
    <3>3. enforcement.recovery_generation = Cardinality(Reinstatements)
      BY <1>2 DEF EnforcementHistory
    <3>4. /\ Cardinality(Reinstatements) \in Nat
          /\ Cardinality(Reinstatements \cup {n + 1}) = Cardinality(Reinstatements) + 1
      BY <1>5, <3>1, CountReinstatements
    <3> QED BY <1>1, <1>6, <3>2, <3>3, <3>4
  <2>4. enforcement'.suspended <=>
          enforcement'.epoch > 0 /\ enf_ledger'[enforcement'.epoch].action = "SUSPEND"
    <3>1. enforcement'.epoch > 0
      BY <1>5, <2>1
    <3>2. enf_ledger'[enforcement'.epoch] = entry
      BY <1>9, <2>1
    <3>3. enforcement'.suspended <=> entry.action = "SUSPEND"
      BY <1>1, <1>7, <1>8, Zenon
    <3> QED BY <3>1, <3>2, <3>3, Zenon
  <2> QED BY <2>1, <2>2, <2>3, <2>4, Zenon DEF EnforcementHistory
<1>12. AdministrativeHistory' /\ ConsumedOnce'
  BY <1>1, <1>4 DEF IInv, AdministrativeHistory, ConsumedOnce
<1>13. Local(p)'
  <2>1. Position(p)' /\ Exclusive(p)' /\ Reads(p)'
    BY <1>1, <1>2, <1>4 DEF Local, Position, Exclusive, Reads
  <2>2. Recorded(p)'
    BY <1>1, <1>3, <1>5, <1>8, <1>9 DEF Recorded
  <2> QED BY <1>4, <2>1, <2>2 DEF Local, Truthful
<1>14. ASSUME NEW q \in Processes, q # p PROVE Local(q)'
  <2>1. /\ pc'[q] = pc[q] /\ task'[q] = task[q] /\ answer'[q] = answer[q]
        /\ admin_read'[q] = admin_read[q] /\ enf_read'[q] = enf_read[q]
        /\ \A row \in Rows : holder[row] = q => holder'[row] = q
        /\ Local(q)
    BY <1>4, <1>14 DEF Frame, IInv
  <2>2. Position(q)'
    BY <2>1 DEF Local, Position
  <2>3. Exclusive(q)'
    BY <1>1, <1>3, <1>14, <2>1 DEF Local, Exclusive, Rows
  <2>4. \A i \in 1..(n + 1) : enf_ledger'[i].by = q => i \in 1..n /\ enf_ledger[i].by = q
    BY <1>5, <1>8, <1>9, <1>14
  <2>5. enf_read[q].epoch \in Nat
    BY <1>2 DEF Types, EnfStates
  <2>6. Reads(q)'
    BY <1>1, <1>5, <1>6, <1>9, <2>1, <2>4, <2>5 DEF Local, Reads
  <2>7. Recorded(q)' <=> Recorded(q)
    <3>1. CASE task[q] \notin DOMAIN Action
      BY <1>1, <2>1, <3>1 DEF Recorded
    <3>2. CASE task[q] \in DOMAIN Action
      <4>1. Len(enf_ledger) = n
        BY DEF n
      <4> QED BY <1>5, <1>9, <2>1, <2>4, <2>5, <3>2, <4>1 DEF Recorded
    <3> QED BY <3>1, <3>2
  <2>8. Truthful(q)'
    BY <2>1, <2>7 DEF Local, Truthful
  <2> QED BY <2>2, <2>3, <2>6, <2>8 DEF Local
<1> QED BY <1>10, <1>11, <1>12, <1>13, <1>14 DEF IInv

\* Only one transition leaves each state of the approval, so the second to claim a
\* consumption would have to find it approved again.
LEMMA ApprovalCommit ==
  ASSUME IInv, NEW p \in Processes, CreateContinuation(p) \/ WriteContinuation(p)
  PROVE  IInv'
<1>1. CASE Answer(p, "unavailable") /\ UNCHANGED <<approval, claims>>
  <2>1. Quiet(p)
    BY <1>1, Unsuccessful DEF CreateContinuation, WriteContinuation, Commit, data
  <2> QED BY <2>1, QuietStep
<1>2. CASE ~(Answer(p, "unavailable") /\ UNCHANGED <<approval, claims>>)
  <2>1. /\ Commit(p) /\ UNCHANGED <<planes, task, admin_read, enf_read>>
        /\ \/ approval = "ABSENT" /\ approval' = "PENDING" /\ task[p] = "create"
              /\ holder["approval"] = None
           \/ /\ pc[p] = "writing" /\ task[p] \in DOMAIN Continuation
              /\ approval' = Continuation[task[p]][2]
    BY <1>2 DEF CreateContinuation, WriteContinuation
  <2>2. Types /\ Local(p) /\ ConsumedOnce
    BY DEF IInv
  <2>3. /\ Frame(p) /\ holder' \in [Rows -> Processes \cup {None}]
        /\ pc' = [pc EXCEPT ![p] = "answered"] /\ pc'[p] = "answered"
        /\ answer' \in [Processes -> {"none", "exists", "refused", "lost", "invalid",
                                     "unavailable", "committed"}]
        /\ claims' \in Nat
        /\ task[p] # "consume" => claims' = claims
        /\ claims' \in {claims, claims + 1}
    BY <2>1, <2>2, CommitFrame
  <2>4. /\ holder["approval"] \in {p, None}
        /\ approval # "CONSUMED" /\ approval' \in {"PENDING", "APPROVED", "REJECTED", "EXPIRED", "CONSUMED"}
        /\ task[p] = "consume" => approval' = "CONSUMED"
        /\ task[p] \notin DOMAIN Target \cup DOMAIN Action
    BY <2>1, <2>2, Operations DEF Local, Exclusive, Continuation
  <2>5. claims = 0 /\ claims' \in {0, 1} /\ (claims' = 1 => task[p] = "consume")
    BY <2>2, <2>3, <2>4 DEF ConsumedOnce, Types, TypeOK
  <2>6. ConsumedOnce'
    BY <2>4, <2>5 DEF ConsumedOnce
  <2>7. Types'
    BY <2>1, <2>2, <2>3, <2>4 DEF Types, TypeOK, planes
  <2>8. AdministrativeHistory' /\ EnforcementHistory'
    BY <2>1 DEF IInv, AdministrativeHistory, EnforcementHistory, Reinstatements, planes
  <2>9. Local(p)'
    BY <2>1, <2>2, <2>3, <2>4 DEF Local, Position, Exclusive, Reads, Truthful
  <2>10. ASSUME NEW q \in Processes, q # p PROVE Local(q)'
    <3>1. /\ pc'[q] = pc[q] /\ task'[q] = task[q] /\ answer'[q] = answer[q]
          /\ admin_read'[q] = admin_read[q] /\ enf_read'[q] = enf_read[q]
          /\ \A row \in Rows : holder[row] = q => holder'[row] = q
          /\ Local(q)
      BY <2>3, <2>10 DEF Frame, IInv
    <3>2. Position(q)' /\ Reads(q)' /\ Truthful(q)'
      BY <2>1, <3>1 DEF Local, Position, Reads, Truthful, Recorded, planes
    <3>3. Exclusive(q)'
      BY <2>1, <2>4, <2>10, <3>1, StoreAssumption DEF Local, Exclusive, Rows, planes
    <3> QED BY <3>2, <3>3 DEF Local
  <2> QED BY <2>6, <2>7, <2>8, <2>9, <2>10 DEF IInv
<1> QED BY <1>1, <1>2

-----------------------------------------------------------------------------
(* The theorems.                                                           *)

\* Every step keeps the invariant.
LEMMA NextIInv == IInv /\ [Next]_vars => IInv'
<1> SUFFICES ASSUME IInv, [Next]_vars PROVE IInv'
  OBVIOUS
<1>1. CASE UNCHANGED vars
  <2>1. UNCHANGED <<data, holder, pc, task, admin_read, enf_read, answer, claims>>
    BY <1>1 DEF vars
  <2>2. Types'
    BY <2>1 DEF IInv, Types, TypeOK, data, planes
  <2>3. AdministrativeHistory' /\ EnforcementHistory' /\ ConsumedOnce'
    BY <2>1 DEF IInv, data, planes, AdministrativeHistory, EnforcementHistory, Reinstatements,
                ConsumedOnce
  <2>4. \A q \in Processes : Local(q)'
    BY <2>1 DEF IInv, data, planes, Local, Position, Exclusive, Reads, Truthful, Recorded
  <2> QED BY <2>2, <2>3, <2>4 DEF IInv
<1>2. ASSUME NEW p \in Processes, Step(p) PROVE IInv'
  <2>1. CASE Done(p) \/ \E t \in Tasks : Begin(p, t)
    BY <2>1, TakeUp, QuietStep
  <2>2. CASE Rollback(p)
    BY <2>2, RollbackStep, QuietStep
  <2>3. CASE CheckAbsent(p) \/ CheckEnforcement(p) \/ RecheckDisabled(p)
    BY <2>3, Looks, QuietStep
  <2>4. CASE ReadEnforcement(p) \/ ReadAdministrative(p)
    BY <2>4, ReadEnforcementStep, ReadAdministrativeStep, QuietStep
  <2>5. CASE InsertIdentity(p) \/ LockAgent(p)
    BY <2>5, AgentLocks, QuietStep
  <2>6. CASE CompareAdministrative(p) \/ CompareEnforcement(p) \/ CompareContinuation(p)
    BY <2>6, CompareAdministrativeStep, CompareEnforcementStep, CompareContinuationStep, QuietStep
  <2>7. CASE CommitRegistration(p) \/ WriteAdministrative(p)
    BY <2>7, AdministrativeCommit
  <2>8. CASE WriteEnforcement(p)
    BY <2>8, EnforcementCommit
  <2>9. CASE CreateContinuation(p) \/ WriteContinuation(p)
    BY <2>9, ApprovalCommit
  <2> QED BY <1>2, <2>1, <2>2, <2>3, <2>4, <2>5, <2>6, <2>7, <2>8, <2>9 DEF Step
<1> QED BY <1>1, <1>2 DEF Next

\* The empty database satisfies the invariant.
LEMMA InitIInv == Init => IInv
<1> SUFFICES ASSUME Init PROVE IInv
  OBVIOUS
<1>1. Types
  <2>1. NoAdministrativeState \in AdminStates /\ NoEnforcementState \in EnfStates
    BY DEF AdminStates, EnfStates, NoAdministrativeState, NoEnforcementState
  <2>2. TypeOK
    <3>1. administrative \in AdminStates /\ enforcement \in EnfStates
      BY <2>1 DEF Init
    <3>2. /\ holder \in [Rows -> Processes \cup {None}]
          /\ pc \in [Processes -> {"idle"}] /\ task \in [Processes -> {"none"}]
          /\ answer \in [Processes -> {"none"}]
      BY DEF Init
    <3> QED BY <3>1, <3>2 DEF Init, TypeOK, AdminStates, EnfStates
  <2>3. /\ admin_ledger \in Seq(AdminEntries) /\ enf_ledger \in Seq(EnfEntries)
        /\ admin_read \in [Processes -> AdminStates] /\ enf_read \in [Processes -> EnfStates]
    BY <2>1 DEF Init
  <2> QED BY <2>2, <2>3 DEF Types
<1>2. AdministrativeHistory /\ ConsumedOnce
  BY DEF Init, AdministrativeHistory, NoAdministrativeState, ConsumedOnce
<1>3. EnforcementHistory
  <2>1. Reinstatements = {}
    BY DEF Init, Reinstatements
  <2>2. Cardinality(Reinstatements) = 0
    BY <2>1, FS_EmptySet
  <2> QED BY <2>2 DEF Init, EnforcementHistory, NoEnforcementState
<1>4. \A p \in Processes : Local(p)
  BY DEF Init, Local, Position, Exclusive, Reads, Truthful
<1> QED BY <1>1, <1>2, <1>3, <1>4 DEF IInv

\* Every reachable state satisfies the invariant.
THEOREM Invariance == Spec => []IInv
BY InitIInv, NextIInv, PTL DEF Spec

\* The rows and the control state of the processes keep their types.
THEOREM TypeCorrect == Spec => []TypeOK
BY Invariance, PTL DEF IInv, Types

\* However the processes interleave, fail and answer late, the administrative ledger
\* is a gapless legal history that ends in the stored state.
THEOREM AdministrativeLedgerIsHistory == Spec => []AdministrativeHistory
BY Invariance, PTL DEF IInv

\* No enforcement transition is lost or counted twice: epoch, generation and suspension
\* are those of the ledger.
THEOREM EnforcementLedgerIsHistory == Spec => []EnforcementHistory
BY Invariance, PTL DEF IInv

\* A transition reported as committed is recorded, one reported as lost is not.
THEOREM CallersAreToldTheTruth == Spec => []AnswersAreTrue
<1>1. IInv => AnswersAreTrue
  BY DEF IInv, Local, Truthful, Recorded, AnswersAreTrue
<1> QED BY <1>1, Invariance, PTL

\* An approval is claimed as consumed once at most.
THEOREM ApprovalConsumedOnce == Spec => []ConsumedOnce
BY Invariance, PTL DEF IInv

=============================================================================
