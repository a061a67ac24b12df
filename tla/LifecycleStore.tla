--------------------------- MODULE LifecycleStore ---------------------------
(***************************************************************************)
(* Several processes on one database.  Each runs AgentService over the SQL *)
(* repositories; the lock of the service is its process's own, so what     *)
(* keeps the two lifecycle planes of an agent and an approval right is the *)
(* row locking and the compare-and-set of the repositories.                *)
(*                                                                         *)
(* One agent and one approval: rows of other agents are never touched by   *)
(* the same transaction.  A transaction reads what is committed, waits for *)
(* row locks, and commits all of its writes or none; a process or its      *)
(* connection may fail at any point, also while the commit is answered.    *)
(***************************************************************************)
EXTENDS Integers, Sequences, FiniteSets

CONSTANTS
  Processes,  \* processes that share the database
  MaxEpoch,   \* bound on the enforcement transitions
  None        \* no process

ASSUME StoreAssumption == MaxEpoch \in Nat /\ None \notin Processes

VARIABLES
  agent,          \* is there an agents row
  administrative, \* the agent_administrative_state row; version 0 is no row
  admin_ledger,   \* agent_administrative_transitions, in commit order
  enforcement,    \* the agent_enforcement_state row; epoch 0 is no row
  enf_ledger,     \* agent_enforcement_transitions, in commit order
  approval,       \* state of the approval_continuations row, or "ABSENT"
  holder,         \* [Rows -> Processes or None]: who holds the row's lock
  pc,             \* where each process is
  task,           \* the operation it performs
  admin_read,     \* the administrative state it works from
  enf_read,       \* the enforcement state it works from
  answer,         \* what the operation told its caller
  claims          \* history: successful answers to a consumption of the approval

planes == <<agent, administrative, admin_ledger, enforcement, enf_ledger>>

data == <<planes, approval>>

vars == <<data, holder, pc, task, admin_read, enf_read, answer, claims>>

Rows == {"agents", "administrative", "enforcement", "approval"}

\* The administrative state an operation leads to, and what an approval operation
\* turns into what: ALLOWED_CONTINUATION_TRANSITIONS.
Target == [register |-> "REGISTERED", activate |-> "ACTIVE", disable |-> "DISABLED"]

Continuation ==
  [approve |-> <<"PENDING", "APPROVED">>, reject |-> <<"PENDING", "REJECTED">>,
   expire |-> <<"PENDING", "EXPIRED">>, consume |-> <<"APPROVED", "CONSUMED">>]

Action == [suspend |-> "SUSPEND", reinstate |-> "REINSTATE"]

Tasks == DOMAIN Target \cup DOMAIN Action \cup DOMAIN Continuation \cup {"create"}

LEGAL_ADMINISTRATIVE_TRANSITIONS ==
  [NONE |-> {"REGISTERED"}, REGISTERED |-> {"ACTIVE", "DISABLED"}, ACTIVE |-> {"DISABLED"},
   DISABLED |-> {}]

NoAdministrativeState == [state |-> "NONE", version |-> 0]

NoEnforcementState == [epoch |-> 0, suspended |-> FALSE, recovery_generation |-> 0]

Init ==
  /\ agent = FALSE
  /\ administrative = NoAdministrativeState /\ admin_ledger = <<>>
  /\ enforcement = NoEnforcementState /\ enf_ledger = <<>>
  /\ approval = "ABSENT"
  /\ holder = [row \in Rows |-> None]
  /\ pc = [p \in Processes |-> "idle"]
  /\ task = [p \in Processes |-> "none"]
  /\ admin_read = [p \in Processes |-> NoAdministrativeState]
  /\ enf_read = [p \in Processes |-> NoEnforcementState]
  /\ answer = [p \in Processes |-> "none"]
  /\ claims = 0

-----------------------------------------------------------------------------
(* Transactions.                                                           *)

Lock(p, row) == holder[row] = None /\ holder' = [holder EXCEPT ![row] = p]

ReleaseAll(p) == holder' = [row \in Rows |-> IF holder[row] = p THEN None ELSE holder[row]]

Goto(p, label) == pc' = [pc EXCEPT ![p] = label]

\* The transaction ends and the operation returns or raises.
Answer(p, a) ==
  /\ ReleaseAll(p)
  /\ answer' = [answer EXCEPT ![p] = a]
  /\ Goto(p, "answered")

\* Mutant: the commit's exception is swallowed.
Mut_Rollback(p) ==
  /\ pc[p] \notin {"idle", "answered"}
  /\ \E a \in {"unavailable", IF pc[p] = "writing" THEN "committed" ELSE "unavailable"} : Answer(p, a)
  /\ UNCHANGED <<data, task, admin_read, enf_read, claims>>

\* transactional_session: on any exception nothing is written.  Also what becomes of
\* the transaction when the process or its connection dies.
Rollback(p) ==
  /\ pc[p] \notin {"idle", "answered"}
  /\ Answer(p, "unavailable")
  /\ UNCHANGED <<data, task, admin_read, enf_read, claims>>

\* transactional_session: commit.  The answer may be lost although it took effect.
Commit(p) ==
  \E a \in {"committed", "unavailable"} :
    /\ Answer(p, a)
    /\ claims' = IF a = "committed" /\ task[p] = "consume" THEN claims + 1 ELSE claims

\* A process takes up an operation, and is done with one.
Begin(p, t) ==
  /\ pc[p] = "idle"
  /\ task' = [task EXCEPT ![p] = t]
  /\ Goto(p, "begun")
  /\ UNCHANGED <<data, holder, admin_read, enf_read, answer, claims>>

Done(p) ==
  /\ pc[p] = "answered"
  /\ Goto(p, "idle")
  /\ task' = [task EXCEPT ![p] = "none"]
  /\ answer' = [answer EXCEPT ![p] = "none"]
  /\ admin_read' = [admin_read EXCEPT ![p] = NoAdministrativeState]
  /\ enf_read' = [enf_read EXCEPT ![p] = NoEnforcementState]
  /\ UNCHANGED <<data, holder, claims>>

-----------------------------------------------------------------------------
(* Registration.                                                           *)

\* The first look into agents, in the transaction.
CheckAbsent(p) ==
  /\ pc[p] = "begun" /\ task[p] = "register"
  /\ IF agent THEN Answer(p, "exists")
     ELSE Goto(p, "absent") /\ UNCHANGED <<holder, answer>>
  /\ UNCHANGED <<data, task, admin_read, enf_read, claims>>

\* The flush of the identity row waits for another inserter and loses to its commit.
InsertIdentity(p) ==
  /\ pc[p] = "absent"
  /\ IF agent THEN Answer(p, "unavailable")
     ELSE Lock(p, "agents") /\ Goto(p, "writing") /\ UNCHANGED answer
  /\ UNCHANGED <<data, task, admin_read, enf_read, claims>>

\* The ledger entry and the state of a transition from what was read.
AdministrativeEntry(p) ==
  [by |-> p, from |-> admin_read[p].state, to |-> Target[task[p]],
   before |-> admin_read[p].version, after |-> admin_read[p].version + 1]

AdministrativeState(p) ==
  [state |-> Target[task[p]], version |-> admin_read[p].version + 1]

\* Mutant: the identity row is committed by itself, for the foreign keys.
Mut_CommitRegistration(p) ==
  /\ pc[p] = "writing" /\ task[p] = "register"
  /\ agent' = TRUE
  /\ IF agent
       THEN /\ administrative' = AdministrativeState(p)
            /\ admin_ledger' = Append(admin_ledger, AdministrativeEntry(p))
            /\ Commit(p)
       ELSE UNCHANGED <<administrative, admin_ledger, holder, pc, answer, claims>>
  /\ UNCHANGED <<enforcement, enf_ledger, approval, task, admin_read, enf_read>>

\* commit_registration: identity, state and ledger in one commit.
CommitRegistration(p) ==
  /\ pc[p] = "writing" /\ task[p] = "register"
  /\ agent' = TRUE
  /\ administrative' = AdministrativeState(p)
  /\ admin_ledger' = Append(admin_ledger, AdministrativeEntry(p))
  /\ Commit(p)
  /\ UNCHANGED <<enforcement, enf_ledger, approval, task, admin_read, enf_read>>

-----------------------------------------------------------------------------
(* Transitions of the two planes.                                          *)

\* suspend_agent and reinstate_agent look whether there is anything to do ...
CheckEnforcement(p) ==
  /\ pc[p] = "begun" /\ task[p] \in DOMAIN Action
  /\ LET due == IF task[p] = "suspend"
                  THEN ~enforcement.suspended /\ administrative.state # "DISABLED"
                  ELSE enforcement.suspended
     IN  IF agent /\ due THEN Goto(p, "due") /\ UNCHANGED <<holder, answer>>
         ELSE Answer(p, "refused")
  /\ UNCHANGED <<data, task, admin_read, enf_read, claims>>

\* ... and _transition asks the administrative plane again, for a suspension,
RecheckDisabled(p) ==
  /\ pc[p] = "due"
  /\ IF task[p] = "suspend" /\ administrative.state = "DISABLED"
       THEN Answer(p, "refused")
       ELSE Goto(p, "permitted") /\ UNCHANGED <<holder, answer>>
  /\ UNCHANGED <<data, task, admin_read, enf_read, claims>>

\* and then reads the enforcement state it works from.
ReadEnforcement(p) ==
  /\ pc[p] = "permitted"
  /\ enf_read' = [enf_read EXCEPT ![p] = enforcement]
  /\ Goto(p, "read")
  /\ UNCHANGED <<data, holder, task, admin_read, answer, claims>>

\* _administrative_transition: get_state and the service's own legality check.
ReadAdministrative(p) ==
  /\ pc[p] = "begun" /\ task[p] \in {"activate", "disable"}
  /\ IF agent /\ Target[task[p]] \in LEGAL_ADMINISTRATIVE_TRANSITIONS[administrative.state]
       THEN /\ admin_read' = [admin_read EXCEPT ![p] = administrative]
            /\ Goto(p, "read")
            /\ UNCHANGED <<holder, answer>>
       ELSE Answer(p, "refused") /\ UNCHANGED admin_read
  /\ UNCHANGED <<data, task, enf_read, claims>>

\* Both planes lock the agents row first.
LockAgent(p) ==
  /\ pc[p] = "read"
  /\ IF agent THEN Lock(p, "agents") /\ Goto(p, "locked") /\ UNCHANGED answer
     ELSE Answer(p, "unavailable")
  /\ UNCHANGED <<data, task, admin_read, enf_read, claims>>

\* _validate_transition_invariants on the row that is there.
validate_transition_invariants(p) ==
  /\ AdministrativeState(p).version = admin_read[p].version + 1
  /\ AdministrativeState(p).state \in LEGAL_ADMINISTRATIVE_TRANSITIONS[administrative.state]
  /\ AdministrativeEntry(p).from = administrative.state
  /\ AdministrativeEntry(p).before = administrative.version

\* The compare-and-set of SqlAdministrativeStateRepository.record_transition.
CompareAdministrative(p) ==
  /\ pc[p] = "locked" /\ task[p] \in {"activate", "disable"}
  /\ holder["administrative"] = None
  /\ IF administrative.version # admin_read[p].version THEN Answer(p, "lost")
     ELSE IF ~validate_transition_invariants(p) THEN Answer(p, "invalid")
     ELSE Lock(p, "administrative") /\ Goto(p, "writing") /\ UNCHANGED answer
  /\ UNCHANGED <<data, task, admin_read, enf_read, claims>>

WriteAdministrative(p) ==
  /\ pc[p] = "writing" /\ task[p] \in {"activate", "disable"}
  /\ administrative' = AdministrativeState(p)
  /\ admin_ledger' = Append(admin_ledger, AdministrativeEntry(p))
  /\ Commit(p)
  /\ UNCHANGED <<agent, enforcement, enf_ledger, approval, task, admin_read, enf_read>>

\* _transition: the new enforcement state from what was read.
EnforcementState(p) ==
  [epoch |-> enf_read[p].epoch + 1, suspended |-> task[p] = "suspend",
   recovery_generation |->
     enf_read[p].recovery_generation + (IF task[p] = "reinstate" THEN 1 ELSE 0)]

\* Mutant: only the offered epoch is compared with the expected one.
Mut_CompareEnforcement(p) ==
  /\ pc[p] = "locked" /\ task[p] \in DOMAIN Action
  /\ enforcement.epoch < MaxEpoch
  /\ IF EnforcementState(p).recovery_generation \notin
            {enforcement.recovery_generation, enforcement.recovery_generation + 1}
       THEN Answer(p, "unavailable")
     ELSE Lock(p, "enforcement") /\ Goto(p, "writing") /\ UNCHANGED answer
  /\ UNCHANGED <<data, task, admin_read, enf_read, claims>>

\* The compare-and-set of SqlEnforcementStateRepository.record_transition.
CompareEnforcement(p) ==
  /\ pc[p] = "locked" /\ task[p] \in DOMAIN Action
  /\ enforcement.epoch < MaxEpoch
  /\ holder["enforcement"] = None
  /\ IF enforcement.epoch # enf_read[p].epoch THEN Answer(p, "lost")
     ELSE IF EnforcementState(p).recovery_generation \notin
               {enforcement.recovery_generation, enforcement.recovery_generation + 1}
       THEN Answer(p, "unavailable")
     ELSE Lock(p, "enforcement") /\ Goto(p, "writing") /\ UNCHANGED answer
  /\ UNCHANGED <<data, task, admin_read, enf_read, claims>>

WriteEnforcement(p) ==
  /\ pc[p] = "writing" /\ task[p] \in DOMAIN Action
  /\ enforcement' = EnforcementState(p)
  /\ enf_ledger' = Append(enf_ledger,
       [by |-> p, action |-> Action[task[p]], epoch |-> EnforcementState(p).epoch])
  /\ Commit(p)
  /\ UNCHANGED <<agent, administrative, admin_ledger, approval, task, admin_read, enf_read>>

-----------------------------------------------------------------------------
(* The approval.                                                           *)

\* create_continuation: an identifier that is taken conflicts with the primary key.
CreateContinuation(p) ==
  /\ pc[p] = "begun" /\ task[p] = "create"
  /\ holder["approval"] = None
  /\ IF approval = "ABSENT" THEN approval' = "PENDING" /\ Commit(p)
     ELSE Answer(p, "unavailable") /\ UNCHANGED <<approval, claims>>
  /\ UNCHANGED <<planes, task, admin_read, enf_read>>

\* Mutant: the state is compared when the row is read, the lock is taken to write.
Mut_CompareContinuation(p) ==
  /\ pc[p] \in {"begun", "compared"} /\ task[p] \in DOMAIN Continuation
  /\ IF pc[p] = "compared"
       THEN Lock(p, "approval") /\ Goto(p, "writing") /\ UNCHANGED answer
     ELSE IF approval = Continuation[task[p]][1]
       THEN Goto(p, "compared") /\ UNCHANGED <<holder, answer>>
     ELSE Answer(p, "lost")
  /\ UNCHANGED <<data, task, admin_read, enf_read, claims>>

\* transition_continuation: lock the row, then compare its state with from_state.
CompareContinuation(p) ==
  /\ pc[p] = "begun" /\ task[p] \in DOMAIN Continuation
  /\ holder["approval"] = None
  /\ IF approval = Continuation[task[p]][1]
       THEN Lock(p, "approval") /\ Goto(p, "writing") /\ UNCHANGED answer
     ELSE Answer(p, "lost")
  /\ UNCHANGED <<data, task, admin_read, enf_read, claims>>

WriteContinuation(p) ==
  /\ pc[p] = "writing" /\ task[p] \in DOMAIN Continuation
  /\ approval' = Continuation[task[p]][2]
  /\ Commit(p)
  /\ UNCHANGED <<planes, task, admin_read, enf_read>>

Step(p) ==
  \/ \E t \in Tasks : Begin(p, t)
  \/ Done(p) \/ Rollback(p)
  \/ CheckAbsent(p) \/ InsertIdentity(p) \/ CommitRegistration(p)
  \/ CheckEnforcement(p) \/ RecheckDisabled(p) \/ ReadEnforcement(p)
  \/ ReadAdministrative(p) \/ LockAgent(p)
  \/ CompareAdministrative(p) \/ WriteAdministrative(p)
  \/ CompareEnforcement(p) \/ WriteEnforcement(p)
  \/ CreateContinuation(p) \/ CompareContinuation(p) \/ WriteContinuation(p)

Next == \E p \in Processes : Step(p)

Spec == Init /\ [][Next]_vars

-----------------------------------------------------------------------------
(* Properties.                                                             *)

TypeOK ==
  /\ agent \in BOOLEAN
  /\ administrative \in
       [state : {"NONE", "REGISTERED", "ACTIVE", "DISABLED"}, version : Nat]
  /\ enforcement \in [epoch : Nat, suspended : BOOLEAN, recovery_generation : Nat]
  /\ approval \in {"ABSENT", "PENDING", "APPROVED", "REJECTED", "EXPIRED", "CONSUMED"}
  /\ holder \in [Rows -> Processes \cup {None}]
  /\ pc \in [Processes -> {"idle", "begun", "absent", "due", "permitted", "read", "locked", "writing",
                           "answered"}]
  /\ task \in [Processes -> Tasks \cup {"none"}]
  /\ answer \in [Processes -> {"none", "exists", "refused", "lost", "invalid", "unavailable",
                               "committed"}]
  /\ claims \in Nat

\* The administrative ledger is the history of the administrative state: its entries
\* follow one another without a gap, a repetition or a step the graph does not allow,
\* from the registration to the stored state, and an agent is there exactly with its
\* state (record_transition and commit_registration of administrative_repository.py).
AdministrativeHistory ==
  /\ Len(admin_ledger) = administrative.version
  /\ agent <=> administrative.version > 0
  /\ \A i \in DOMAIN admin_ledger :
       /\ admin_ledger[i].before = i - 1 /\ admin_ledger[i].after = i
       /\ admin_ledger[i].from = IF i = 1 THEN "NONE" ELSE admin_ledger[i - 1].to
       /\ admin_ledger[i].to \in LEGAL_ADMINISTRATIVE_TRANSITIONS[admin_ledger[i].from]
  /\ agent => admin_ledger[administrative.version].to = administrative.state

Reinstatements == {i \in DOMAIN enf_ledger : enf_ledger[i].action = "REINSTATE"}

\* The enforcement ledger is the history of the enforcement state: every epoch once,
\* the recovery generation counts the reinstatements, as get_epoch does, and the last
\* entry says whether the agent is suspended.  No update of one process is lost to
\* another's (record_transition of enforcement_repository.py).
EnforcementHistory ==
  /\ Len(enf_ledger) = enforcement.epoch
  /\ \A i \in DOMAIN enf_ledger : enf_ledger[i].epoch = i
  /\ enforcement.recovery_generation = Cardinality(Reinstatements)
  /\ enforcement.suspended <=>
       /\ enforcement.epoch > 0
       /\ enf_ledger[enforcement.epoch].action = "SUSPEND"

\* What an operation reports is what the database holds: a transition reported as
\* committed is in the ledger at its place, one reported as a lost update is not, and
\* the next process cannot take its place (transactional_session).
AnswersAreTrue ==
  \A p \in Processes :
    LET a == admin_read[p].version + 1
        e == enf_read[p].epoch + 1
        recorded == IF task[p] \in DOMAIN Action
                      THEN e <= Len(enf_ledger) /\ enf_ledger[e].by = p
                      ELSE a <= Len(admin_ledger) /\ admin_ledger[a].by = p
    IN  pc[p] = "answered" /\ task[p] \in DOMAIN Target \cup DOMAIN Action =>
          /\ answer[p] = "committed" => recorded
          /\ answer[p] = "lost" => ~recorded

\* However many processes try, one at most is told that it consumed the approval, and
\* only when the approval was approved and is CONSUMED (approval_continuation.py,
\* "exactly one authorized execution attempt").
ConsumedOnce == claims <= 1 /\ (claims = 1 => approval = "CONSUMED")
=============================================================================
