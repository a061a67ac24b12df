---------------------------- MODULE ExecutionEvidence ----------------------------
(***************************************************************************)
(* Execution receipts: the executor that runs a claimed grant             *)
(* (ToolExecutor._run), the store it writes to (ExecutionEvidenceService)  *)
(* and the reconciler that resolves what nobody observed.  The store locks *)
(* itself, so each of its calls is one step; between two calls, executor   *)
(* and reconciler interleave freely.  An execution is known by the grant   *)
(* it claimed, which no other execution has (SingleUse of                  *)
(* ExecutionAuthority), and so is its receipt.                             *)
(***************************************************************************)
EXTENDS Integers, FiniteSets, Sequences

CONSTANTS
  Executions,          \* calls of _run, each with its grant and its fresh receipt id
  Timeouts,            \* declared_timeout_seconds the capabilities may declare
  Grace,               \* recovery_grace_seconds
  MaxTerminalReceipts, \* max_terminal_receipts of the retention policy
  MaxTime,             \* bound on the clock
  Faults               \* whether the store may raise and a worker may die

ASSUME EvidenceAssumption ==
  /\ Timeouts \subseteq Nat \ {0}
  /\ Grace \in Nat
  /\ MaxTerminalReceipts \in Nat \ {0}
  /\ MaxTime \in Nat
  /\ Faults \in BOOLEAN

VARIABLES
  now,               \* the clock, monotonic and UTC alike
  receipts,          \* _receipts
  grant_index,       \* keys of _grant_to_receipt
  monotonic_starts,  \* _monotonic_starts
  insertions,        \* how many receipts were ever inserted: the order of the dict
  reconciled_count,  \* _reconciled_unknown_count
  execution,         \* the local state of each call of _run
  reconciler,        \* the local state of reconcile_unresolved, and the receipts it logged
                     \* as failed
  trail              \* history: the statuses each execution's receipt went through

storeVars == <<receipts, grant_index, monotonic_starts, insertions, reconciled_count, trail>>
vars == <<now, storeVars, execution, reconciler>>

\* ALLOWED_TERMINAL_STATUSES: what an executor may record.  FAILED stands for FAILED, TIMEOUT
\* and INTERRUPTED, which executor and store treat alike.
ObservedStatus == {"SUCCEEDED", "FAILED"}

Receipt ==
  [receipt_id: Executions, status: {"STARTED", "UNKNOWN"} \cup ObservedStatus,
   started_at: Nat, declared_timeout: Nat, inserted: Nat,
   reason: {"NONE", "EXECUTION_TIMEOUT", "EVIDENCE_UNAVAILABLE"}, reconciled_at: Nat]

MonotonicStart == [receipt_id: Executions, at: Nat]

TypeOK ==
  /\ now \in Nat
  /\ receipts \subseteq Receipt
  /\ grant_index \subseteq Executions
  /\ monotonic_starts \subseteq MonotonicStart
  /\ insertions \in Nat
  /\ reconciled_count \in Nat
  /\ execution \in
       [Executions ->
          [pc: {"claimed", "entered", "running", "observed", "done", "lost"},
           started: Nat, timeout: Nat, outcome: ObservedStatus \cup {"NONE"},
           result: {"NONE", "output", "failure", "integrity_failure", "refused"}]]
  /\ reconciler \in
       [pc: {"idle", "clocked", "scanning", "resolving"}, at: Nat, listed: SUBSET Receipt,
        pending: SUBSET Receipt, current: SUBSET Receipt,
        reason: {"NONE", "EXECUTION_TIMEOUT", "EVIDENCE_UNAVAILABLE"}, raised: SUBSET Executions]
  /\ trail \in [Executions -> Seq({"STARTED", "UNKNOWN"} \cup ObservedStatus)]

Init ==
  /\ now = 0
  /\ receipts = {}
  /\ grant_index = {}
  /\ monotonic_starts = {}
  /\ insertions = 0
  /\ reconciled_count = 0
  /\ execution \in
       [Executions -> [pc: {"claimed"}, started: {0}, timeout: Timeouts, outcome: {"NONE"},
                       result: {"NONE"}]]
  /\ reconciler = [pc |-> "idle", at |-> 0, listed |-> {}, pending |-> {}, current |-> {},
                   reason |-> "NONE", raised |-> {}]
  /\ trail = [x \in Executions |-> <<>>]

--------------------------------------------------------------------------------
(* ExecutionEvidenceService.                                                 *)

\* Oldest first by started_at; sorted() is stable, so then by insertion.
Newer(q, r) ==
  q.started_at > r.started_at \/ (q.started_at = r.started_at /\ q.inserted > r.inserted)

\* _prune_terminal_locked: a terminal receipt stays while fewer than the bound are newer.
Retained(table) ==
  LET terminal == {r \in table : r.status # "STARTED"}
  IN  {r \in table : \/ r.status = "STARTED"
                     \/ Cardinality({q \in terminal : Newer(q, r)}) < MaxTerminalReceipts}

Open(table) == {r \in table : r.status = "STARTED"}

\* record_started.  A receipt or grant the store knows already is refused.
StoreStarted(x) ==
  /\ x \notin grant_index
  /\ receipts' = receipts \cup
       {[receipt_id |-> x, status |-> "STARTED", started_at |-> execution[x].started,
         declared_timeout |-> execution[x].timeout, inserted |-> insertions,
         reason |-> "NONE", reconciled_at |-> 0]}
  /\ grant_index' = grant_index \cup {x}
  /\ monotonic_starts' = monotonic_starts \cup
       {[receipt_id |-> x, at |-> execution[x].started]}
  /\ insertions' = insertions + 1
  /\ trail' = [trail EXCEPT ![x] = Append(@, "STARTED")]
  /\ UNCHANGED reconciled_count

Mut_BoundsReceiptsOnly(r, terminal) ==
  /\ receipts' = Retained((receipts \ {r}) \cup {terminal})
  /\ UNCHANGED <<grant_index, insertions>>
  /\ monotonic_starts' = {m \in monotonic_starts : m.receipt_id # r.receipt_id}
  /\ trail' = [trail EXCEPT ![r.receipt_id] = Append(@, terminal.status)]

\* The transition of an open receipt to a terminal one: its start is dropped, the store is
\* pruned, and what is evicted leaves every index.
StoreTerminal(r, terminal) ==
  LET retained == Retained((receipts \ {r}) \cup {terminal})
      ids == {q.receipt_id : q \in retained}
  IN  /\ receipts' = retained
      /\ grant_index' = grant_index \cap ids
      /\ monotonic_starts' =
           {m \in monotonic_starts : m.receipt_id \in ids \ {r.receipt_id}}
      /\ trail' = [trail EXCEPT ![r.receipt_id] = Append(@, terminal.status)]
      /\ UNCHANGED insertions

\* record_terminal, when it does not raise: from STARTED only.
RecordObserved(x, status) ==
  \E r \in Open(receipts) :
    /\ r.receipt_id = x
    /\ StoreTerminal(r, [r EXCEPT !.status = status])
    /\ UNCHANGED reconciled_count

Mut_ReconcilesAnyReceipt(x, reason) ==
  \E r \in receipts :
    /\ r.receipt_id = x
    /\ StoreTerminal(r, [r EXCEPT !.status = "UNKNOWN", !.reason = reason,
                                  !.reconciled_at = reconciler.at])
    /\ reconciled_count' = reconciled_count + 1

\* record_reconciled, when it does not raise; reconciled_at is the time the scan began.
RecordReconciled(x, reason) ==
  \E r \in Open(receipts) :
    /\ r.receipt_id = x
    /\ StoreTerminal(r, [r EXCEPT !.status = "UNKNOWN", !.reason = reason,
                                  !.reconciled_at = reconciler.at])
    /\ reconciled_count' = reconciled_count + 1

--------------------------------------------------------------------------------
(* ToolExecutor._run, after _verify_and_prepare claimed the grant.           *)

Become(x, pc, result) ==
  execution' = [execution EXCEPT ![x].pc = pc, ![x].result = result]

\* The clocks are read first.  (Bound: the deadline of every execution is within MaxTime.)
Enter(x) ==
  /\ execution[x].pc = "claimed"
  /\ now + execution[x].timeout + Grace <= MaxTime
  /\ execution' = [execution EXCEPT ![x].pc = "entered", ![x].started = now]
  /\ UNCHANGED <<now, storeVars, reconciler>>

\* STARTED is recorded before the sandbox runs; a store that raises refuses the execution.
RecordStarted(x) ==
  /\ execution[x].pc = "entered"
  /\ \/ StoreStarted(x) /\ Become(x, "running", "NONE")
     \/ Faults /\ Become(x, "done", "refused") /\ UNCHANGED storeVars
  /\ UNCHANGED <<now, reconciler>>

\* The sandbox returns or raises, at any time, and _run classifies what it saw.
Observe(x) ==
  /\ execution[x].pc = "running"
  /\ \E outcome \in ObservedStatus :
       execution' = [execution EXCEPT ![x].pc = "observed", ![x].outcome = outcome]
  /\ UNCHANGED <<now, storeVars, reconciler>>

Mut_OutputWithoutEvidence(x) ==
  /\ execution[x].pc = "observed"
  /\ \/ RecordObserved(x, execution[x].outcome)
     \/ /\ Faults \/ \A r \in Open(receipts) : r.receipt_id # x
        /\ UNCHANGED storeVars
  /\ Become(x, "done", IF execution[x].outcome = "SUCCEEDED" THEN "output" ELSE "failure")
  /\ UNCHANGED <<now, reconciler>>

\* _record_terminal and the result: output only for a success that was recorded.  A failure
\* stays a failure whether or not its evidence could be written.
RecordTerminal(x) ==
  LET succeeded == execution[x].outcome = "SUCCEEDED"
  IN  /\ execution[x].pc = "observed"
      /\ \/ /\ RecordObserved(x, execution[x].outcome)
            /\ Become(x, "done", IF succeeded THEN "output" ELSE "failure")
         \/ /\ Faults \/ \A r \in Open(receipts) : r.receipt_id # x
            /\ Become(x, "done", IF succeeded THEN "integrity_failure" ELSE "failure")
            /\ UNCHANGED storeVars
      /\ UNCHANGED <<now, reconciler>>

\* The worker dies with a BaseException, which nothing here catches.
LoseWorker(x) ==
  /\ Faults
  /\ execution[x].pc \in {"running", "observed"}
  /\ Become(x, "lost", "NONE")
  /\ UNCHANGED <<now, storeVars, reconciler>>

--------------------------------------------------------------------------------
(* ExecutionReconciler.reconcile_unresolved.                                 *)

\* The clock is read before the snapshot.
ReadClock ==
  /\ reconciler.pc = "idle"
  /\ reconciler' = [reconciler EXCEPT !.pc = "clocked", !.at = now]
  /\ UNCHANGED <<now, storeVars, execution>>

\* list_open.
Snapshot ==
  /\ reconciler.pc = "clocked"
  /\ reconciler' = [reconciler EXCEPT !.pc = "scanning", !.listed = Open(receipts),
                                          !.pending = Open(receipts)]
  /\ UNCHANGED <<now, storeVars, execution>>

Mut_DeadlineFromGraceOnly(r, start) == start + Grace

\* The two deadlines, from the limit the receipt declares.
ReconciliationDeadline(r, start) == start + r.declared_timeout + Grace

\* get_monotonic_start and the comparison with the clock that was read: a start that is gone
\* counts as missing timing evidence.
Examine ==
  /\ reconciler.pc = "scanning"
  /\ \E r \in reconciler.pending :
       LET starts == {m \in monotonic_starts : m.receipt_id = r.receipt_id}
           overdue == \E m \in starts : reconciler.at >= ReconciliationDeadline(r, m.at)
           rest == [reconciler EXCEPT !.pending = @ \ {r}]
       IN  reconciler' = IF starts = {}
                         THEN [rest EXCEPT !.pc = "resolving", !.current = {r},
                                           !.reason = "EVIDENCE_UNAVAILABLE"]
                         ELSE IF overdue
                         THEN [rest EXCEPT !.pc = "resolving", !.current = {r},
                                           !.reason = "EXECUTION_TIMEOUT"]
                         ELSE rest
  /\ UNCHANGED <<now, storeVars, execution>>

\* What follows the call of the store: on to the next receipt, with a note of one that raised.
NextReceipt(failed) ==
  [reconciler EXCEPT !.pc = "scanning", !.current = {}, !.reason = "NONE", !.raised = @ \cup failed]

\* Mutant: a store that raises ends the whole pass.
Mut_ResolveAborts ==
  /\ reconciler.pc = "resolving"
  /\ \E r \in reconciler.current :
       \/ /\ RecordReconciled(r.receipt_id, reconciler.reason)
          /\ reconciler' = NextReceipt({})
       \/ /\ \A q \in Open(receipts) : q.receipt_id # r.receipt_id
          /\ reconciler' = NextReceipt({})
          /\ UNCHANGED storeVars
       \/ /\ Faults
          /\ reconciler' = [NextReceipt({r.receipt_id}) EXCEPT !.pc = "idle"]
          /\ UNCHANGED storeVars
  /\ UNCHANGED <<now, execution>>

\* _reconcile_one: a receipt that was resolved or evicted meanwhile is passed over, and so is
\* one for which the store raises, which is logged.
Resolve ==
  /\ reconciler.pc = "resolving"
  /\ \E r \in reconciler.current :
       \/ /\ RecordReconciled(r.receipt_id, reconciler.reason)
          /\ reconciler' = NextReceipt({})
       \/ /\ \A q \in Open(receipts) : q.receipt_id # r.receipt_id
          /\ reconciler' = NextReceipt({})
          /\ UNCHANGED storeVars
       \/ /\ Faults
          /\ reconciler' = NextReceipt({r.receipt_id})
          /\ UNCHANGED storeVars
  /\ UNCHANGED <<now, execution>>

EndScan ==
  /\ reconciler.pc = "scanning"
  /\ reconciler.pending = {}
  /\ reconciler' = [reconciler EXCEPT !.pc = "idle", !.at = 0, !.listed = {}, !.raised = {}]
  /\ UNCHANGED <<now, storeVars, execution>>

Tick ==
  /\ now < MaxTime
  /\ now' = now + 1
  /\ UNCHANGED <<storeVars, execution, reconciler>>

ExecutorStep(x) == RecordStarted(x) \/ Observe(x) \/ RecordTerminal(x)

ReconcilerStep == ReadClock \/ Snapshot \/ Examine \/ Resolve \/ EndScan

Next ==
  \/ \E x \in Executions : Enter(x) \/ ExecutorStep(x) \/ LoseWorker(x)
  \/ ReconcilerStep
  \/ Tick

Spec == Init /\ [][Next]_vars

--------------------------------------------------------------------------------
(* Properties.                                                               *)

\* A receipt is resolved at most once, and to what was observed or to UNKNOWN: neither a
\* racing reconciliation nor a late executor turns one terminal status into another, and a
\* missing outcome never becomes success or failure (N3-4, N3-5, M4-7).
TrailsAreLegal ==
  \A x \in Executions :
    \/ trail[x] \in {<<>>, <<"STARTED">>, <<"STARTED", "UNKNOWN">>}
    \/ trail[x] = <<"STARTED", execution[x].outcome>>

\* Output is returned only for a success whose evidence was written, and a success whose
\* evidence was not is an integrity failure: whoever wins the race, executor and
\* receipt agree (section 12.1 of ADR-032).
OutputNeedsEvidence ==
  \A x \in Executions :
    execution[x].result \in {"output", "integrity_failure"} =>
      /\ execution[x].outcome = "SUCCEEDED"
      /\ execution[x].result = "output" <=> trail[x] = <<"STARTED", "SUCCEEDED">>

\* Reconciliation never invents a timeout: a receipt is UNKNOWN only once its own budget
\* and the grace have passed, and never for timing evidence lost to the race with the
\* executor that resolved it.
NoInventedTimeout ==
  \A r \in receipts :
    r.status = "UNKNOWN" =>
      /\ r.reason = "EXECUTION_TIMEOUT"
      /\ r.reconciled_at >= r.started_at + r.declared_timeout + Grace

\* The bound holds for the whole store, terminal receipts, grant index and start map, and
\* eviction never reaches an execution that is still unresolved.
StoreIsBounded ==
  /\ Cardinality({r \in receipts : r.status # "STARTED"}) <= MaxTerminalReceipts
  /\ grant_index = {r.receipt_id : r \in receipts}
  /\ {m.receipt_id : m \in monotonic_starts} = {r.receipt_id : r \in Open(receipts)}
  /\ \A x \in Executions :
       trail[x] = <<"STARTED">> => \E r \in Open(receipts) : r.receipt_id = x

Overdue(r) == reconciler.at >= r.started_at + r.declared_timeout + Grace

\* One pass of reconcile_unresolved is enough: when it returns, a receipt that was open at
\* its snapshot and overdue at its clock is resolved, by the pass or by its executor, or the
\* store raised for this very receipt.  Neither a failing receipt ("continuing batch" in
\* _reconcile_one) nor executors and evictions under way make it skip another one.
PassLeavesNothingOverdue ==
  [][reconciler.pc # "idle" /\ reconciler'.pc = "idle" =>
       \A r \in reconciler.listed \cap Open(receipts') :
         Overdue(r) => r.receipt_id \in reconciler.raised]_vars

================================================================================
