# TLA+ verification of the enterprise agent security platform

The platform sits between an AI agent and the tools it wants to call. Every
request is authorized, recorded, inspected and scored; a request that may run is
given a short-lived signed *execution grant*, and only a claimed grant reaches
the sandbox. An agent whose accumulated risk becomes critical is *contained*:
its authority is withdrawn and it is suspended until an administrator reinstates
it. This directory holds TLA+ models of the parts that decide this, TLC
configurations that check them on small instances, and TLAPS proofs.

Paths below are relative to the repository; the application is under `app/`.

## 1. The system

| Part | State it keeps | Operations | Talks to |
|---|---|---|---|
| **ExecutionAuthority** (`runtime/execution_authority.py`) | HMAC key and id of this process, outstanding grants, revoked grants, the planes that close an agent's gate | `issue`, `verify_grant`, `claim_grant`, `verify_and_consume`, `consume_grant`, `suspend_issuance`, `resume_issuance`, pruning | reads the enforcement epoch; called by RuntimeService, the executor and the coordinator. One RLock |
| **AgentService** (`services/agent_service.py`, `models/agent_administrative.py`, `models/agent_enforcement.py`, in-memory state repositories) | administrative state and version, enforcement epoch, suspension and recovery generation, one append-only ledger per plane | register, activate, disable, suspend, reinstate; status projection; lifecycle authorization | one RLock around read and compare-and-set |
| **RuntimeService** (`services/runtime_service.py`) | none of its own: locals of each request's thread | `execute`: bind session, authorize, record event, detect, record findings, assess, decide, issue, finalize, contain, audit | everything here |
| **EnforcementCoordinator** (`services/enforcement_coordinator.py`) | the per-agent lock while it runs | `reinstate`, `repair` | AgentService, risk projection, ExecutionAuthority, in that order |
| **ToolExecutor** (`runtime/tool_executor.py`) | locals of each execution | verify and claim the grant, record STARTED, run the sandbox, record the outcome | authority, evidence service, sandbox |
| **Evidence service and reconciler** (`services/execution_evidence_service.py`, `services/execution_reconciler.py`) | receipts, grant index, monotonic starts, count of reconciled receipts | `record_started`, `record_terminal`, `record_reconciled`, retention; `reconcile_unresolved`, `reconcile_on_startup` | executor and reconciler write the same receipts |
| **Sessions** (`services/session_service.py`, session repositories) | sessions, tombstones, events with session and agent sequence numbers | bind or create, record event, final decision once, end, idle expiry, pruning | RuntimeService, detection |
| **Findings and risk projection** (`services/findings_service.py`, `services/risk_aggregator.py`, `services/agent_risk_aggregate.py`) | findings, per-agent projection, cursor, watermark, staleness | record, apply, mark stale, rebuild, reset to baseline | RuntimeService, coordinator |
| **Detection** (`services/detection_service.py`, `detection/`) | none; reads an event horizon | denial-threshold crossings, content rules | sessions |
| **Tool registry, governance, policy, capability profiles** (`registry/tool_registry.py`, `services/tool_service.py`, `policy/policy_engine.py`, `runtime/capability_registry.py`) | descriptors by version, governance records by version, profiles by id | register, unregister, enable, disable, resolve, evaluate | RuntimeService before the grant, executor after it |
| **Filesystem identity** (`runtime/filesystem_resource_identity.py`, `tools/file_read_tool.py`) | none; reads the workspace | canonicalize, recheck before opening | RuntimeService, the file tool |
| **Process sandbox** (`runtime/sandbox/`, `models/execution_capability.py`) | a child process, its group, pipes and scratch directory; cached assessment of resource controls | `execute`; in the child `run_headless` and the two guards | executor |
| **SQL repositories** (`repositories/sql/`) | rows of both lifecycle planes, their ledgers, approvals, sessions, tools | transactions with row locks and compare-and-set | AgentService, SessionService, several processes |
| **Approval continuation** (`models/approval_continuation.py`, repositories) | continuation state | create, compare-and-set transitions | not wired into execution yet |
| **Telemetry, audit, API, configuration, scenario runner** | logs, wiring | projections and routes | call the parts above |

What is hard here:

* *Concurrency.* Requests run in a thread pool. Each component locks itself, but
  `RuntimeService.execute` holds no lock from one step to the next, and
  containment (`_suspend_agent`) does not take the per-agent lock that
  reinstatement holds.
* *Values that age.* A request reads the lifecycle, then the epoch, then the
  posture, and acts on each of them later. The reconciler works through a
  snapshot of receipts that executors are resolving.
* *Partial failure.* Reinstatement writes three stores in turn; a request ends
  early with an exception at several points; the evidence store may raise.
* *Time and restarts.* Grants expire, pruning forgets, a restart empties every
  in-memory table while callers still hold grants.
* *Configuration that moves.* Tools, profiles and the files of the workspace
  change while a request that was authorized on them is under way.
* *An untrusted child.* The sandboxed process may hang, die, flood its output or
  leave processes behind, at any point.
* *Several processes.* The services' locks are their process's own; on a shared
  database only row locks and compare-and-set remain, and a commit may take
  effect although its answer is lost.

`PROJECT.json` lists these hazards line by line with the properties aimed at
them.

### What would make each part correct

* Authority: a grant is worth one execution of exactly the authorized operation,
  within its TTL, in the process that issued it; behind a closed gate there is
  none; a refusal consumes nothing and gives the true reason.
* Lifecycle: the counters, the suspension and the ledgers tell one story; an
  agent that may execute was explicitly activated, never disabled, and every
  suspension was followed by a reinstatement.
* Requests and recovery: a suspended agent obtains and executes nothing; a
  response of SUSPEND_AGENT leads to a suspension; a reinstatement starts from a
  clean slate and can be completed after a failure.
* Evidence: a receipt is resolved at most once and truthfully; output is only
  returned for recorded success; the store is bounded without losing open
  receipts; a pass of the reconciler leaves nothing overdue.
* Sessions and detection: a session is one agent's for good and takes no event
  after its end; positions are never reused; a request sees all of its horizon;
  a crossing of the threshold is reported, once, and never on evidence that a
  reinstatement forgave.
* Findings and projection: the incremental posture equals the posture of a
  rebuild from the findings after the watermark, and a request is decided with
  its own findings.
* Tools and policy: what runs, with which capabilities and on which file, is
  what policy decided about.
* Sandbox: it returns, leaves nothing behind, reports what the tool did, and the
  tool stays within its capability set.
* Shared database: the ledgers are the history of the states, callers are told
  the truth, an approval is consumed once.

## 2. The modules

### ExecutionAuthority

One action per public method, each one hold of the RLock. `outstanding`,
`revoked` and `issuance_closed` are the dictionaries of the same names.
A grant is a record with its signature; the signature is the pair of key and
signed payload, which is what an HMAC with an unguessable random key amounts to.
The key is drawn per process, so `authority_id` stands for it. `Presentable` is
everything a caller might hand in: any grant it was ever given, or a copy with
any signed field altered but the capability and the issue time. `ClaimGrant`
covers both claim paths, `RefuseGrant` every way they raise after the
authenticity check; a refusal is not a no-op, because it prunes and drops an
expired grant. `Restart` is a new process: empty tables, epoch 0, new key, and
callers that still hold the old grants. `claims`, `claimed`, `withdrawn` and
`removed` are history variables.

### LifecyclePlanes and AgentLifecycle

LifecyclePlanes declares what the two repositories hold and states its
consistency; AgentLifecycle has the operations on the two planes and their
ledgers, and Containment shares the state. AgentService's RLock covers the
read and the compare-and-set of every operation, so the compare-and-set cannot
fail and each operation is one action. Suspending an agent that is suspended or
disabled is a no-op and appears as `NothingToSuspend`; `_transition` refuses a
disabled agent once more. Watermarks, actors,
reasons and timestamps are left out. One thing to know of the enforcement
ledger: `reinstate_agent` records new status ACTIVE for every agent, also for
one that is REGISTERED or DISABLED before and after.

### Containment

Composes both, through `INSTANCE`, with the request threads and the
administrative threads. A request goes through

    new -> authorized -> recorded -> detected -> assessed -> issued
        -> (closing -> suspending ->) done -> executed

with `refused` and `failed` on the way; each arrow is one access to shared state
and they interleave freely with those of other requests, of the coordinator, of
administration and of sessions that end. Policy may deny anything and allows
nothing that the lifecycle refuses. Detection may raise the posture by any
amount or leave it. The posture is a single level (LOW stands for LOW and
MEDIUM, which have no effect on the decision); `reset_to_baseline` sets it to
LOW or raises. The per-agent lock is `LockFree`: taken by the coordinator
throughout and needed by a request only to record findings. `raced` is a
history variable. What the level is made of is RiskProjection's
business, which tools are allowed is ToolGovernance's.

### ExecutionEvidence

The body of `_run` after the claim, the evidence store and the reconciler. Each
call to the store is one action. Receipts are known by the grant they were
claimed with, which is sound because a grant is claimed once (`SingleUse`,
proved). The two clocks, monotonic and UTC, advance together. `Faults` lets the
store raise and a worker die. Retention orders by start time, then by insertion,
as the stable sort does. FAILED stands for FAILED, TIMEOUT and INTERRUPTED. The
reconciler may begin a pass at any time, or never: **production code does not call
`reconcile_unresolved` at all** (`main.py` calls `reconcile_on_startup`, on an
empty store), so that every execution is resolved in the end is not claimed of
it. What is claimed is that a pass, once made, is complete
(`PassLeavesNothingOverdue`).

### SessionHorizon

Sessions, their events and the denial rule. `sessions`, `tombstones`, `events`,
`session_sequences` and `agent_sequences` are the dictionaries and the list of
the session repository; the SQL repository does the same in transactions that
lock the session row and the agent's counter. `baselines` holds the
`baseline_agent_sequence` of every recovery generation, `findings` the
EXCESSIVE_DENIALS findings in the order they were accepted, each of them being
what its identifier hashes. A request goes through

    idle -> stamped -> recorded -> listed -> detected -> idle

that is, bound and with its decision, enforcement snapshot and timestamp; event
recorded; horizon read; rule evaluated; findings accepted. It may fail when its
session ended, or be refused when the horizon or the findings store fails.
Binding, snapshot and timestamp are one action: a session that ends or a
reinstatement between them is as good as one just before or just after. So are
recording and the pruning that follows it, whose cutoff depends on the event's
timestamp alone; pruning later than that removes the same events.
Decisions are chosen freely. `EndSession` stands for both `end_session` and
`expire_idle_sessions`: the latter works from a snapshot, so the session it ends
may be in use, and the model lets any active session end. `ReadWatermark` and
`Reinstate` are the two halves of the coordinator's reinstatement that matter
here; events are recorded between them, findings are not, because of the lock.
`recorded`, every event ever recorded, is a history variable. Left out: idle
times, the final decision of an event, `create_session` and the explicit
`prune_events` (no production code calls the last two).

### RiskProjection

The risk posture of one agent. `findings` is the store, in which a finding's
position is its evidence sequence; `proj` is the agent's entry in
`RiskAggregator._projections` with its state, baseline, cursor and counts per
severity; `holder` is the per-agent lock. A request goes through

    start -> ingest -> assess -> (lock -> rebuild ->) decided -> start

Recording evidence and ingesting it happen under the lock, finding by finding,
and either may fail. The posture is then read WITHOUT the lock (`Peek`), as
`_assess_agent_posture` does, and only a posture that is not HEALTHY is looked
at again and rebuilt under it. `LockAndRecheck` and `Rebuild` are two steps
because `reconcile_agent` inserts a missing entry before it rebuilds it and the
reader in between does not need the lock. A detection is a set of up to
`MaxBatch` findings; those that are not stored yet are appended together, in any
order. The operator reinstates, in two steps,
or repairs. The clock never goes back but two readings may be equal, so findings
may carry the very time of the watermark. `lossy` is history: a HEALTHY entry
stands that was emptied past evidence, by `repair`, or by a first reconciliation
that has not finished or has failed. Restarts are not modelled: findings and
projection are both in memory and go together. `RecordFails` takes the evidence
write to fail before anything of the batch is stored: the loop of
`record_new_findings` only numbers, copies and assigns, but nothing would roll it
back. A store that failed half way would leave evidence that a HEALTHY posture
does not count until the next finding makes a gap.

### ToolGovernance

One tool family with all its versions, and a request that resolves a version,
checks that it is enabled, canonicalises its path and resource, is authorized,
obtains a grant, has the tool materialised, verified and claimed, and runs it:

    idle -> resolved -> checked -> bound -> authorized -> granted
         -> materialised -> prepared -> claimed -> ran

Each arrow reads one piece of shared configuration, and between any two of them
operators register, unregister, enable and disable versions, replace the
capability profile, and someone replaces entries of a workspace by files or
links. The versions' risks, the agent's tier, the profile's workspace and the
protected names decide what policy says. A profile stands for its digest. A path
is the name it spells; a link leads to another entry, out of the workspace or
nowhere, and `FollowLinks` follows it. Four things the code leaves open and the
model therefore shows:

* A version that is disabled between the check and the issuance still gets its
  grant. ADR-023 leaves outstanding grants alone when a tool is disabled, and
  nothing rechecks.
* A version that is unregistered and registered again may have another
  implementation when the grant is used; the version is pinned, its code is not.
* Between `resolve_for_execution` and the `open` that follows there is a window
  the repository names a non-goal; both are one step here.
* A grant bound to an explicit resource and no path is always refused by
  `verify_grant`, because the executor derives the resource from the path.

### ProcessSandbox

The supervisor thread of `ProcessToolExecutionSandbox.execute` and the child
process. The supervisor assesses the resource controls (or takes the cached
assessment), launches the child in its own group, writes the descriptor to its
stdin, loops over deadline, output and exit, and cleans up. The child reads its
input, dispatches, touches files and the network under the two guards, prints,
starts processes, ends and writes its result, and may stop or die at every step.
Descriptor and output are measured in units and pipes hold `PipeCapacity` of
them; stdout and stderr count as one pipe. `check_access` and
`check_destination` are the guards' rules over what they distinguish in a path or
a destination. The pipes are non-blocking and `read()` goes on as long as there is
more: `Drain` may be repeated any number of times before `CheckLimit` compares
what was read. `foreign` says that text the runner did not write is among it, in
which case parsing may find anything (`Parsed`).

The operating system is taken to do as it is told: a process that was sent
SIGKILL takes no further step, signalling the group succeeds (`_kill_process_group`
ignores a PermissionError), descendants stay in the group (one that calls
`setsid` leaves it), and the scratch directory can be removed (`rmtree` ignores
errors). `NothingOutlivesExecution` holds under these assumptions.

Observations:

* The descriptor is written with a blocking write before the loop that watches
  the deadline. `SandboxReturns` therefore has to except a descriptor larger
  than the pipe and a child that does not read it.
* A read of a pipe that is kept full never ends, and looks neither at the deadline
  nor at the limit, although the class promises a "Hard Wall-Clock Timeout" and
  output "capped during collection" (`process_sandbox.py:57-58`); the comment
  that reads "never hang if descendants hold pipes" (line 280) is true of silent
  holders only. A tool or a descendant that writes faster than the supervisor
  reads holds it; `SandboxReturns` has to except this too.
* Whatever is on stdout is parsed as the result, so a tool, or a process it
  started, that prints a payload of its own decides what is reported, and JSON
  that is no object raises. `ReportsWhatTheToolDid` speaks of tools that do not
  print; of the others only the limit holds.
* The network guard keeps the hosts and the ports of the listed destinations as
  two sets, so a listed host is reachable on the port of another, where ADR-032
  speaks of (host, port) tuples (line 244); `Confined` states hosts and ports
  apart. Names resolve to what the guard saw; resolution that changes afterwards
  is not modelled.
* The guards are audit hooks of the runner's interpreter: what a process started
  by the tool touches is not seen by them, and `Confined` speaks of the tool's own
  process only.

### LifecycleStore

Several processes, each with an AgentService of its own, over the SQL
repositories: read by read, lock by lock and commit by commit. A transaction
writes everything at its commit, `Rollback` is any failure before it, and a
commit may be answered with an error although it took effect. Both planes lock
the agents row first, then their own row, so no two transactions wait for each
other; approvals have a row of their own. `claims` counts the successful
answers to a consumption. The in-memory approval repository does the same
comparison under one lock. `suspend_agent` looks twice: with several processes
the state may change in between and a second SUSPEND is recorded, under an epoch
of its own, where the docstring says that a suspended agent "adds no second
transition". The composition check refuses the SQL enforcement repository, so no
deployment has this today. The module assumes what its database does: SELECT FOR
UPDATE locks the row, which SQLite ignores. Reads of one method that precede its
compare-and-set are one look where the compare-and-set works from the last of
them. A continuation is created PENDING; that the in-memory repository's `create`
overwrites a row of the same identifier is outside the model, where an approval is
created once.

### Proof modules

Each component module has a module `<Component>Proofs` that extends it and TLAPS
(section 5). The proofs about AgentLifecycle are in `ContainmentProofs`, which
reaches it through the instance `Lifecycle` of Containment: both extend
LifecyclePlanes and every parameter and variable stands for itself, so what is
proved of `Lifecycle!Spec` is proved of AgentLifecycle.

## 3. The runs

Passing runs:

| Run | What it shows |
|---|---|
| `authority` | The authority's guarantees whatever callers present and however issue, claim, suspension on either plane, expiry and restart interleave: 2 agents, 2 bindings, 2 grants, TTL 2, clock to 2, one restart. |
| `lifecycle` | Both planes, their counters and ledgers, over all operation sequences of 2 agents with up to 5 enforcement transitions each. |
| `containment` | 2 concurrent requests, an administrator with both recoveries, a session that may end: a suspended agent's gate is closed and it executes nothing, unless recovery reopened the gate during a containment (`raced`); only an ALLOW whose response is MONITOR executes; every interleaving is a behaviour of ExecutionAuthority and of AgentLifecycle; a response of SUSPEND_AGENT is followed by the suspension unless the session ended. |
| `sessions` | 2 requests at a time of 2 agents in 2 sessions, with sessions that end, time that passes and reinstatements: ownership and positions hold for good, ended sessions are sealed, no request loses part of its horizon to pruning, a denial that crosses the threshold leaves its request with a finding, and no finding rests on what a reinstatement forgave. |
| `evidence` | 2 executions, a faulty store, a reconciler that may run at any time: receipts resolve at most once and truthfully, the store is bounded without losing open receipts, and when a pass ends nothing that was overdue at its clock is still open, unless the store raised for that very receipt. |
| `projection` | 2 request threads that record and decide again and again, 3 findings of unlike severity in 2 sessions, failing projections and rebuilds, reinstatements and one repair: a HEALTHY posture counts exactly the evidence after the stored baseline, an emptied one cannot absorb later evidence, a request is decided with its own findings, and no session outranks its agent. The exceptions are the emptied entries marked `lossy`. |
| `tools` | 1 request against any 2 operations of operators and file system, from every initial registry, governance, profile and tier, with a LOW and a CRITICAL version, 2 profiles with a workspace each and a protected file: the granted profile and version are what runs, the file read is the one policy judged, and a version above the agent's tier never runs. |
| `sandbox` | 2 executions one after the other of 2 capability sets, on a platform that can or cannot establish the controls and may change: nothing outlives an execution, what is reported of a tool that does not print is what it did and no result is lost, required controls are in force when they were established and not only assessed, the tool's process reads, writes and connects only where its capability set allows, and the sandbox returns, with the two exceptions of section 2. |
| `store` | 2 processes, all operations on one agent and one approval, with crashes and lost answers: both ledgers are gapless histories of the stored states, answers are true, an approval is consumed once. |

Runs that end in a violation; each states what a comment or docstring of the
repository says, and the trace shows what the code does:

| Run | Statement | What happens |
|---|---|---|
| `suspended_obtains` | A suspended agent obtains no new authority. | A reinstatement has committed its transition and not yet called `resume_issuance`; a second request closes the gate and suspends again; `resume_issuance` then opens the gate of a suspended agent. A third request, authorized before the suspension and reading the epoch after it, is issued a grant. |
| `episodes` | A crossing remains the same occurrence while any of its pinned evidence is in the window. | The rule counts the agent's denials in all sessions, but `execute` hands it only the prior findings of the request's own session. After a crossing {1,2,3} and a denial 4 in one session, a request in another session, when 1 has left the window, sees no prior finding and reports {2,3,4} as a second crossing of the first session. |
| `projection_race` | B-1: a HEALTHY posture matches a deterministic rebuild. | Two requests record findings of an agent that has no projection yet. The first reconciles: `reconcile_agent` puts a new aggregate, which is born HEALTHY and empty, into the map, and rebuilds it afterwards. The second reads the posture in between, without the lock, takes it for healthy and is decided at LOW without the findings it has just recorded. If the rebuild fails the empty entry stays until the next finding reveals the gap. |

Further observations, which the modules exhibit and no run states:

* *A containment lost to the end of a session.* When the session ends between
  assessment and finalization, `update_event_final_decision` raises and
  `_suspend_agent` is never reached, although `runtime_service.py` calls
  containment "a state transition, not a recommendation". `ContainmentFollows`
  makes exactly this exception. No route ends sessions yet.
* *Suspended for forgiven evidence.* A request that assessed the old posture
  suspends the agent again after its reinstatement: the suspension is not
  compared with the epoch the request read.
* *A reinstatement that cannot be retried.* If the projection reset fails after
  `reinstate_agent` committed, the agent is ACTIVE behind a closed gate, and a
  retry is refused with AgentNotSuspendedError before `resume_issuance`. Only
  `repair` would help, and no route calls it.
* *Disablement keeps grants.* `disable_agent` never closes the gate on the
  administrative plane, although its docstring says it does; outstanding grants
  stay claimable until they expire. No route calls it yet.

`SuspendedMeansClosed` and `SuspendedExecutesNothing` state the sharpest
guarantee the code does give: the overlap with recovery in `suspended_obtains`
is the *only* way a suspended agent comes to an open gate.

### Bounds, and why they are enough

* *Authority.* Two grants and two agents are needed to confuse one with
  another; the clock reaches the expiry of an early grant and not that of a
  later one; one restart is enough to present an old grant to a new process. The
  theorems hold without these bounds.
* *Containment.* Agents do not interact, so one agent is enough, and one session
  shared by all requests is the worst case for ending it. Each request suspends
  at most once and each suspension is reinstated at most once, so `MaxEpoch` =
  2 x the number of requests never binds; liveness is not an artefact of it.
  Two requests show every pairwise race; `suspended_obtains` uses three,
  because the open gate needs two to contain and a third to profit.
  The clock is frozen: expiry only ever removes grants, and the authority run
  covers it.
* *Evidence.* A bound of one terminal receipt makes the second resolution evict
  the first receipt, also from under a reconciler that has it in its snapshot;
  timeouts 1 and 2 make the order of the deadlines differ from that of the
  starts; the clock reaches the deadline of every execution that enters
  (`Enter` is guarded by it), so every receipt can be found overdue.
* *Sessions.* `MaxEvents` bounds the events, `MaxTime` the clock and
  `MaxDisturbances` the seconds, ended sessions and reinstatements together. In
  `sessions` the threshold is 2, so that three events hold a crossing, one more
  denial and an event of the other agent; window and grace of one second make
  the clock outrun both. `MaxLag` is how late a request may be, from its
  timestamp to reading its horizon; the code does not bound it, and the grace
  period is there to absorb it, so the runs set it to the grace period and the
  theorems about the horizon assume it (with a lag of one second more, and a clock that
  allows it, TLC finds the horizon pruned).
  `episodes` uses the real threshold of 3 and needs one request at a time.
* *Projection.* Three findings let one thread leave evidence behind, another
  add to it and a third piece reveal the gap; the severities cross the
  thresholds singly and together. A clock to 2 puts evidence before, at and after
  a watermark (`MaxClock`); a batch of two is enough to fail in the middle.
  `MaxRepairs` is 1 because a repair only ever resets to the stored baseline.
  Threads begin again after a decision, so the run is bounded by the findings
  and not by requests. `projection_race` needs neither time nor repair.
* *Tools.* Requests share configuration and never write it, so one is enough;
  two operations (`MaxOps`) hold every replace-and-restore and every pair of a
  registry or profile change with a change of the workspace.
* *Sandbox.* `PipeCapacity` 1 with a descriptor of 1 or 2 units and a result of
  up to 3 puts both pipes at, below and above their limit; `MaxOutput` 2 lies
  below the largest result; `Timeout` 2 leaves room before and at the deadline;
  `MaxRuns` 2 is enough for a stale assessment. A reader with scratch space and
  a confined writer with the network exercise both halves of both guards.
* *Store.* Two processes suffice for every lost update; `MaxEpoch` 3 holds a
  suspension, a reinstatement and one more; the administrative plane and the
  approval are bounded by their own graphs.
* *Lifecycle.* Five transitions hold two full suspend/reinstate cycles and a
  third suspension.

Deadlock is not checked where the system may stop: all requests done, all
agents disabled or at the epoch bound, all events recorded, all executions
returned, processes waiting at the epoch bound.

The type invariants (`TypeOK`) are proved for every module and not listed in the
configurations.

### Fairness

* A thread that has begun runs on (`Containment!Fairness`): nothing in `execute`
  or the coordinator waits except for the per-agent lock, whose holder runs on
  as well. Nobody is obliged to begin a request or a recovery.
* `ProcessSandbox!Spec`: the supervisor thread goes on with its own steps and
  time passes; both are what an operating system gives a runnable thread. The
  child owes nothing, which is the point of the property.

No other specification has fairness: their properties say what may not happen.

## 4. Properties and mutants

Every property of a passing run has a mutant in `PROJECT.json`: a plausible slip
in one mapped definition (the operators called `Mut_...`, each just before the
definition it stands in for) under which TLC finds the property violated.

## 5. What is proved

Every safety property of the passing runs, action properties and refinements
included, is a theorem, for every value of the constants that the named
assumptions of the modules allow: any sets of agents, sessions, requests,
threads, processes, executions, tools, profiles and findings, any positive TTL,
any bounds. What the assumptions say beyond types: an agent exists
(`ContainmentAssumption`, the coordinator acts on one), a workspace has finitely
many entries (`ToolAssumption`), placeholders are distinct from what they stand
beside, and the static configuration is well formed (`ToolAssumption`,
`SandboxAssumption`, `RiskAssumption`).

All of the proofs have the same shape. An inductive invariant `IInv` collects the
property, the types, and what each thread may rely on between two of its steps;
the latter is a predicate of one thread (`Own(r)`, `Local(p)`), so that a step
has one proof for the thread that takes it and one frame lemma for all the
others. `NextIInv` goes through the actions, `Invariance` is `Spec => []IInv`,
and the properties follow. Each `IInv` was model-checked on the instance of its
run before it was proved.

* **`ExecutionAuthorityProofs`**: `TypeCorrect`, `GateIsTight`,
  `GrantsAreSingleUse`, `RevokedGrantsStayRevoked`, `ClaimsMatchIssuance`,
  `RefusalIsFree`. The invariant adds that every grant in circulation carries its
  issuer's signature over all its fields (`GrantsAreSigned`), that ids are unique
  and expiry is issue time plus TTL, and that an outstanding entry is backed by a
  grant of this process that was neither claimed nor revoked
  (`OutstandingIsBacked`), which is what makes a second claim, or a claim after
  revocation, impossible. `AuthenticIsGenuine` is the key lemma: what verifies was
  issued, so an altered copy never does.

* **`ContainmentProofs`**, first for the lifecycle planes: `LifecycleTypeCorrect`,
  `EpochsAccountForTransitions`, `DisablementIsFinal`. An enforcement transition
  moves epoch, ledger and generation together provided a suspension finds the
  agent clear and a reinstatement finds it suspended, which the guards of
  `suspend_agent` and `reinstate_agent` ensure. Then for the composition:
  `AuthorityRefinement` and `LifecycleRefinement` show, step by step
  (`AuthorityStep`, `LifecycleStep`), that requests, coordinator and
  administration use the two components as their specifications allow; hence
  both inductive invariants hold in the composition, and
  `ComponentsKeepTheirPromises` collects what that means. On them rest
  `SuspensionClosesTheGate`, `SuspensionStopsExecution`,
  `AuthorityFollowsDecision` and `TypeCorrect`. `SuspendedMeansClosed` needs one
  thing more: between the two halves of `_suspend_agent` the gate is closed or
  the containment was raced (`Own`). That a suspended agent claims nothing
  follows because an outstanding grant means an open gate (`GateIsTight`'s
  invariant, `ClaimedIsOutstanding`).

* **`SessionHorizonProofs`**: `TypeCorrect`, `OwnershipFinal`, `PositionsUnique`,
  `HorizonPreserved`, `EvidenceAfterBaseline`, `SessionsSealed`,
  `CrossingsReported`. The type invariant needs that a request which has begun is
  bound (`WorkersAreBound`). Positions are unique because both allocators are
  ahead of everything ever recorded (`AllocatorsAreAhead`). The horizon is
  preserved because whatever was pruned is older than window and grace, counted
  from now (`PrunedIsOld`), and a request reads no later than the grace period:
  `HorizonPreserved` and `CrossingsReported` assume `MaxLag <= Grace`. Baselines
  hold because a request's baseline is the one of the generation it carries, from
  snapshot to finding, whatever is reinstated meanwhile (`SnapshotsAgree`), and
  baselines are only ever appended (`GenerationsExist`). `CrossingsReported` has
  an invariant of its own (`CrossingInv`): what a request has listed includes every
  denial up to its own, whatever was pruned since, and what detection found for
  it rests on denials of that window and is not empty when there are enough of
  them, a counting argument over finite sets (`CrossingIsFound`).

* **`ExecutionEvidenceProofs`**: `TypeCorrect`, `ReceiptsResolveOnce`,
  `OutputIsEvidenced`, `TimeoutsAreReal`, `RetentionHolds`, `PassesAreComplete`. Stored receipt and
  trail agree (`Recorded`) and every place of the executor allows only certain
  trails (`Own`). The reconciler works from a snapshot: what it has read of a
  receipt is still all there is to know of it, or the receipt has been resolved
  meanwhile, in which case its write is refused (`Verdicts`). A pass is complete
  because what it listed and is still open and overdue lies before it, is in hand,
  or made the store raise (`Pass`). The bound needs that
  retention removes exactly the excess, by counting (`RetainedIsBounded`) with
  the order by start and insertion being total (`Keyed`).

* **`RiskProjectionProofs`**: `TypeCorrect`, `ProjectionEquivalence`,
  `LagIsAllOrNothing`, `DecisionsCountOwnFindings`, `AgentOutranksSessions`. The
  properties speak of moments when nobody holds the lock; the invariant
  (`Healthy`) says what holds inside it too: a HEALTHY projection has counted what
  its baseline leaves of the evidence handed to it so far, all but the pending
  end of the batch, or has counted nothing and its cursor will not fit the next
  finding. Findings are ordered by the clock (`Evidence`), so the baseline cuts
  the store at one place. Lemmas on counting by severity and on the monotonicity
  of the score carry the arithmetic.

* **`LifecycleStoreProofs`**: `TypeCorrect`, `AdministrativeLedgerIsHistory`,
  `EnforcementLedgerIsHistory`, `CallersAreToldTheTruth`, `ApprovalConsumedOnce`.
  A transaction that is about to write holds the lock of the row it compared and
  the row still is what the comparison saw (`Exclusive`); what was read without
  a lock is the state of an earlier moment, and everything recorded since then
  another process recorded (`Reads`), which is why a lost update is reported as
  one.

* **`ToolGovernanceProofs`**: `TypeCorrect`, `ExecutionPinned`,
  `PolicyReachesTheRead`, `VersionsWithinTier`. `Own` carries what each check
  established from the place where it was made to the run, over any number of
  operator steps in between: what was judged is in the grant, and from
  `prepared` on the capability set in hand is the granted one. The family's risk
  is the greatest of its versions', so a family within the tier has no version
  outside it.

* **`ProcessSandboxProofs`**: `TypeCorrect`, `ExecutionLeavesNothing`,
  `ReportsAreTrue`, `ControlsAreInForce`, `ToolsAreConfined`. The child may
  take any step the model gives it, at any time. It is there only between launch
  and return (`Processes`), so what it does changes no result; a result is
  decided once, and no success after an exception, and it is parsed only after the
  pipe was read empty behind the child's end (`Results`); payload that was not
  read is still in the pipe, and a child that ended by itself wrote all of it
  (`Payload`), so no result is lost; the scratch
  directory exists only if the capability set allows one (`Setting`), which the
  rules of the filesystem guard rely on (`GuardsConfine`).

Only model-checked:

* liveness, `ContainmentFollows` and `SandboxReturns`: this prover has no rules for fairness or ENABLED;
* the three statements that TLC refutes, which are false;
* that the properties can fail at all, by the mutants (section 4).

## 6. Not modelled, and why

* Text: content rules, the grammar of resource patterns, hashing, the parsing of
  paths and addresses. They have no state; where a decision depends on them the
  models choose freely or use the classes the code distinguishes.
* What the operating system does inside `setrlimit`, signals and sockets;
  ProcessSandbox has their outcomes.
* Telemetry and audit: no decision reads them. One race is known: an `emit` that
  has passed its check of `_running` may enqueue after the worker has gone, and
  the event is neither delivered nor counted as dropped.
* API parsing, tokens, configuration, the scenario runner: they call operations
  that are modelled.
* Reads for display, row-to-model conversion and the composition root.
* `reconcile_on_startup`: the store it runs on is empty.
* Sessions' final decision of an event and the idle time that selects a session
  for expiry.

## 7. Plan

1. **An abstract grant ledger** (issued, claimed, withdrawn) that
   ExecutionAuthority refines, so that clients are checked against the promise
   and not the tables, with the refinement proved as the two of Containment are.
2. **The evidence under the authority**: ExecutionEvidence takes the single use of
   a grant as given; a composition would prove that every receipt belongs to a
   claim.

## 8. Running

    tlc -config MCContainment.cfg MCContainment
    tlapm ContainmentProofs.tla

Each run's module and configuration are listed in `PROJECT.json` under `runs`,
with the source lines behind every definition under `map`.
