--------------------------- MODULE ProcessSandbox ---------------------------
(***************************************************************************)
(* ProcessToolExecutionSandbox: one supervisor thread that runs tools one  *)
(* after another, each in a child process with its own process group, and  *)
(* the child: runner, guards and packaged tool.                            *)
(*                                                                         *)
(* The child is not trusted to make progress: it may stop at any step, die *)
(* at any step, leave a descendant behind and print what it likes.  A      *)
(* process that was sent SIGKILL takes no further step and counts as dead. *)
(* Data is measured in units: of the descriptor written to stdin, and of   *)
(* output.  stdout and stderr count as one pipe.                           *)
(***************************************************************************)
EXTENDS Integers, FiniteSets

CONSTANTS
  Capabilities,  \* capability sets executions may be given
  Hosts,         \* host names or addresses
  Ports,         \* ports
  MaxRuns,       \* bound on executions
  PipeCapacity,  \* units a pipe holds
  MaxOutput,     \* max_output_bytes, in units
  MaxSize,       \* bound on the output of one execution
  Timeout        \* wall_clock_timeout_seconds, in ticks

Controls == {"memory", "cpu"}

\* FilesystemCapability: may the workspace be written, scratch space, and is access
\* limited to subpaths.
FilesystemCapability == [read_only : BOOLEAN, temp : BOOLEAN, subpaths : BOOLEAN]

\* NetworkCapability.  Its validator does not run on defaults, so mode and destinations
\* need not agree.
NetworkCapability ==
  [mode : {"disabled", "allowlist"}, destinations : SUBSET (Hosts \X Ports),
   bind : BOOLEAN, unix : BOOLEAN]

\* ResourceLimits: the controls that must be established.
ResourceLimits == [required : SUBSET Controls]

\* ExecutionCapabilities, with the size of the descriptor that carries the parameters.
Capability ==
  [filesystem : FilesystemCapability, network : NetworkCapability, resources : ResourceLimits,
   payload : Nat \ {0}]

ASSUME SandboxAssumption ==
  /\ Capabilities \subseteq Capability
  /\ MaxRuns \in Nat /\ MaxSize \in Nat \ {0} /\ MaxOutput \in Nat
  /\ PipeCapacity \in Nat \ {0} /\ Timeout \in Nat \ {0}

VARIABLES
  platform,   \* what setrlimit can establish on this platform
  cache,      \* _assessment_cache for the configured limits
  runs,       \* executions started
  sup,        \* where the supervisor is
  caps,       \* the capability set of the execution
  elapsed,    \* ticks since start_monotonic
  unsent,     \* units of the descriptor not yet written to stdin
  stdin,      \* units in the stdin pipe
  scratch,    \* the scratch directory exists
  inforce,    \* controls established in the child before exec
  child,      \* where the child is
  descendant, \* a process the tool started is alive in the group
  effect,     \* the access the tool has just performed
  handled,    \* how the tool ended
  left,       \* units of its result the child has still to write
  out,        \* units in the stdout and stderr pipes
  unread,     \* part of its result is in the pipe
  foreign,    \* the supervisor's stdout_chunks have text the runner did not write
  total,      \* total_output_bytes; MaxOutput + 1 stands for anything more
  result      \* what execute returns or raises

supervisorVars == <<platform, cache, runs, caps, scratch, inforce, total, result>>

vars == <<supervisorVars, sup, elapsed, unsent, stdin, child, descendant, effect, handled,
          left, out, unread, foreign>>

Outcome == {"ENFORCED", "UNSUPPORTED", "FAILED"}

NotProbed == [k \in Controls |-> "NOT_PROBED"]

NoCaps == [payload |-> 0]

NoEffect == [op |-> "none"]

Live == {"boot", "input", "dispatch", "running", "writing"}

-----------------------------------------------------------------------------
(* The guards.                                                             *)

\* Where a resolved path lies: under the scratch directory, the workspace, an allowed
\* subpath of it, above one, the interpreter's directories; and whether its name is
\* that of a sensitive file.
Target ==
  {t \in [scratch : BOOLEAN, workspace : BOOLEAN, sub : BOOLEAN, above : BOOLEAN,
          runtime : BOOLEAN, sensitive : BOOLEAN] :
     /\ t.sub \/ t.above => t.workspace
     /\ ~(t.sub /\ t.above)}

\* Mutant: the deny at the end of the read rules is missing.
Mut_check_access(d, t, write) ==
  LET f == d.filesystem
  IN  /\ ~t.sensitive
      /\ IF write
           THEN IF f.read_only THEN f.temp /\ d.scratch_dir /\ t.scratch
                ELSE (t.scratch /\ d.scratch_dir) \/ (t.workspace /\ (f.subpaths => t.sub))
           ELSE \/ d.scratch_dir /\ t.scratch
                \/ t.workspace => (f.subpaths => t.sub \/ t.above)

\* FilesystemSandboxGuard.check_access.  A workspace target that the subpaths exclude is
\* refused even inside the interpreter's directories.  The runner gives the guard no
\* platform_root, so that rule never applies; descriptors and /dev/null are no targets.
check_access(d, t, write) ==
  LET f == d.filesystem
  IN  /\ ~t.sensitive
      /\ IF write
           THEN IF f.read_only THEN f.temp /\ d.scratch_dir /\ t.scratch
                ELSE (t.scratch /\ d.scratch_dir) \/ (t.workspace /\ (f.subpaths => t.sub))
           ELSE \/ d.scratch_dir /\ t.scratch
                \/ t.workspace /\ (f.subpaths => t.sub \/ t.above)
                \/ ~t.workspace /\ t.runtime

\* A destination of a socket operation: a host name or an address, and whether the
\* address, or one the name resolves to, is restricted (loopback, metadata...).  For an
\* address, `host` is also a name it is an address of.
Destination == [named : BOOLEAN, restricted : BOOLEAN, resolves : BOOLEAN, host : Hosts, port : Ports]

\* NetworkSandboxGuard.__init__ keeps hosts and ports of the destinations apart.
Guard(n) ==
  [mode |-> n.mode, allowed_hosts |-> {d[1] : d \in n.destinations},
   allowed_ports |-> {d[2] : d \in n.destinations}, bind |-> n.bind, unix |-> n.unix]

\* NetworkSandboxGuard.check_destination.
check_destination(g, to) ==
  /\ g.mode = "allowlist"
  /\ to.port \in g.allowed_ports /\ to.host \in g.allowed_hosts
  /\ ~to.restricted
  /\ to.named => to.resolves

\* The accesses of a tool that the audit hooks see.
Access ==
  [op : {"open"}, target : Target, write : BOOLEAN]
    \cup [op : {"connect"}, to : Destination]
    \cup [op : {"bind", "unix"}]

\* FilesystemSandboxGuard.audit_hook and NetworkSandboxGuard.audit_hook.
audit_hook(d, a) ==
  CASE a.op = "open"    -> check_access(d, a.target, a.write)
    [] a.op = "connect" -> check_destination(Guard(d.network), a.to)
    [] a.op = "bind"    -> d.network.bind
    [] a.op = "unix"    -> d.network.unix

-----------------------------------------------------------------------------
(* The supervisor up to the launch.                                        *)

Init ==
  /\ platform \in [Controls -> Outcome]
  /\ cache = NotProbed
  /\ runs = 0
  /\ sup = "returned"
  /\ caps = NoCaps
  /\ elapsed = 0
  /\ unsent = 0
  /\ stdin = 0
  /\ scratch = FALSE
  /\ inforce = {}
  /\ child = "none"
  /\ descendant = FALSE
  /\ effect = NoEffect
  /\ handled = "no"
  /\ left = 0
  /\ out = 0
  /\ unread = FALSE
  /\ foreign = FALSE
  /\ total = 0
  /\ result = "none"

\* execute: refused without an implementation or a workspace; else the scratch
\* directory is made if the capabilities allow one.
Start(c) ==
  /\ sup = "returned" /\ runs < MaxRuns
  /\ runs' = runs + 1
  /\ caps' = c
  /\ elapsed' = 0 /\ total' = 0 /\ out' = 0 /\ stdin' = 0 /\ left' = 0
  /\ unsent' = c.payload
  /\ inforce' = {} /\ child' = "none" /\ effect' = NoEffect /\ handled' = "no"
  /\ unread' = FALSE /\ foreign' = FALSE
  /\ \/ sup' = "assessing" /\ scratch' = c.filesystem.temp /\ result' = "none"
     \/ sup' = "returned" /\ UNCHANGED scratch /\ result' = "unavailable"
  /\ UNCHANGED <<platform, cache, descendant>>

\* assess_resource_controls: the answer of the probe, or FAILED for every control when
\* the probe itself fails, is kept for good.
Assess ==
  /\ sup = "assessing"
  /\ IF cache # NotProbed THEN UNCHANGED cache
     ELSE \E answer \in {platform, [k \in Controls |-> "FAILED"]} : cache' = answer
  /\ sup' = "launching"
  /\ UNCHANGED <<platform, runs, caps, scratch, inforce, total, result, elapsed, unsent, stdin,
                 child, descendant, effect, handled, left, out, unread, foreign>>

\* The controls that stop a launch.
Blocking ==
  {k \in Controls : cache[k] = "FAILED" \/ (cache[k] = "UNSUPPORTED" /\ k \in caps.resources.required)}

Enforced == {k \in Controls : cache[k] = "ENFORCED"}

\* What setrlimit establishes now of what was assessed as enforceable.
Established == {k \in Enforced : platform[k] = "ENFORCED"}

\* Mutant: a control that cannot be established in the child is passed over.
Mut_Launch ==
  /\ sup = "launching"
  /\ \/ /\ Blocking = {}
        /\ inforce' = Established
        /\ child' = "boot"
        /\ sup' = "sending"
        /\ UNCHANGED <<scratch, result>>
     \/ /\ sup' = "returned" /\ result' = "unavailable" /\ scratch' = FALSE
        /\ UNCHANGED <<inforce, child>>
  /\ UNCHANGED <<platform, cache, runs, caps, total, elapsed, unsent, stdin, descendant, effect,
                 handled, left, out, unread, foreign>>

\* Popen: apply_resource_controls attempts what was assessed as enforceable, in the
\* child, and aborts the launch if the platform refuses it now; fork may fail too.
Launch ==
  /\ sup = "launching"
  /\ \/ /\ Blocking = {} /\ Established = Enforced
        /\ inforce' = Established
        /\ child' = "boot"
        /\ sup' = "sending"
        /\ UNCHANGED <<scratch, result>>
     \/ /\ sup' = "returned" /\ result' = "unavailable" /\ scratch' = FALSE
        /\ UNCHANGED <<inforce, child>>
  /\ UNCHANGED <<platform, cache, runs, caps, total, elapsed, unsent, stdin, descendant, effect,
                 handled, left, out, unread, foreign>>

-----------------------------------------------------------------------------
(* The supervisor from the launch to the result.                           *)

\* Everything in the process group gets SIGKILL.  Signalling is taken to succeed, and
\* descendants to stay in the group.
KillGroup ==
  /\ child' = IF child \in Live THEN "killed" ELSE child
  /\ descendant' = FALSE
  /\ effect' = NoEffect

Group == <<child, descendant, effect>>

\* The descriptor that crosses to the child: of the capability set, the filesystem and
\* network parts, and where the scratch directory is.
ToolExecutionDescriptor ==
  [filesystem |-> caps.filesystem, network |-> caps.network, scratch_dir |-> scratch]

\* proc.stdin.write, which blocks while the pipe is full, and close.  Writing to a child
\* that has died raises, and execute ends with that exception after its cleanup.
SendInput ==
  /\ sup = "sending"
  /\ \/ /\ child \in Live /\ unsent > 0 /\ stdin < PipeCapacity
        /\ unsent' = unsent - 1 /\ stdin' = stdin + 1
        /\ UNCHANGED <<sup, result>>
     \/ /\ unsent = 0
        /\ sup' = "loop"
        /\ UNCHANGED <<unsent, stdin, result>>
     \/ /\ child \notin Live /\ unsent > 0
        /\ sup' = "cleanup" /\ result' = "raised"
        /\ UNCHANGED <<unsent, stdin>>
  /\ UNCHANGED <<platform, cache, runs, caps, scratch, inforce, total, elapsed, Group, handled,
                 left, out, unread, foreign>>

\* The head of the loop at or after the deadline.
Expire ==
  /\ sup = "loop" /\ elapsed >= Timeout
  /\ KillGroup
  /\ sup' = "cleanup" /\ result' = "timeout"
  /\ UNCHANGED <<platform, cache, runs, caps, scratch, inforce, total, elapsed, unsent, stdin,
                 handled, left, out, unread, foreign>>

\* Before the deadline: select, and on to reading the pipes.
Select ==
  /\ sup = "loop" /\ elapsed < Timeout
  /\ sup' = "drain"
  /\ UNCHANGED <<supervisorVars, elapsed, unsent, stdin, Group, handled, left, out, unread, foreign>>

\* read() of a non-blocking pipe: it takes what is there and goes on as long as there is
\* more, whatever the time and however much it has.
Drain ==
  /\ sup \in {"drain", "rest"} /\ out > 0
  /\ total' = IF total + out > MaxOutput THEN MaxOutput + 1 ELSE total + out
  /\ out' = 0 /\ unread' = FALSE
  /\ UNCHANGED <<platform, cache, runs, caps, scratch, inforce, result, sup, elapsed, unsent,
                 stdin, Group, handled, left, foreign>>

\* The pipe is empty: what was read is held against the limit.
CheckLimit ==
  /\ sup \in {"drain", "rest"} /\ out = 0
  /\ IF total > MaxOutput
       THEN KillGroup /\ sup' = "cleanup" /\ result' = "exhausted"
       ELSE sup' = (IF sup = "drain" THEN "poll" ELSE "cleanup") /\ UNCHANGED <<Group, result>>
  /\ UNCHANGED <<platform, cache, runs, caps, scratch, inforce, total, elapsed, unsent, stdin,
                 handled, left, out, unread, foreign>>

\* Mutant: when the child is gone the loop ends, without a last look at the pipes.
Mut_PollOnly ==
  /\ sup = "poll"
  /\ sup' = IF child \in Live THEN "loop" ELSE "cleanup"
  /\ UNCHANGED <<supervisorVars, elapsed, unsent, stdin, Group, handled, left, out, unread, foreign>>

\* Mutant: the deadline is measured from the last iteration.
Mut_PollRearms ==
  /\ sup = "poll"
  /\ IF child \in Live THEN sup' = "loop" /\ elapsed' = 0
     ELSE sup' = "rest" /\ UNCHANGED elapsed
  /\ UNCHANGED <<supervisorVars, unsent, stdin, Group, handled, left, out, unread, foreign>>

\* proc.poll: once the child is gone, what is left in the pipes is read and compared.
Poll ==
  /\ sup = "poll"
  /\ sup' = IF child \in Live THEN "loop" ELSE "rest"
  /\ UNCHANGED <<supervisorVars, elapsed, unsent, stdin, Group, handled, left, out, unread, foreign>>

\* The outcomes of parsing stdout.  The runner's payload, alone and whole, says how the
\* tool ended; a part of it, or nothing, does not parse.  Text of another origin, before,
\* after or instead of the payload, may parse as a success, as a failure, or as JSON that
\* is no object, which raises.
Parsed ==
  IF foreign THEN {"success", "failure", "raised"}
  ELSE IF handled = "returned" /\ left = 0 /\ ~unread THEN {"success"} ELSE {"failure"}

\* Mutant: a child that has exited needs no cleanup.
Mut_Cleanup ==
  /\ sup = "cleanup"
  /\ IF child \in Live THEN KillGroup ELSE UNCHANGED Group
  /\ result' \in IF result = "none" THEN Parsed ELSE {result}
  /\ scratch' = FALSE
  /\ sup' = "returned"
  /\ UNCHANGED <<platform, cache, runs, caps, inforce, total, elapsed, unsent, stdin, handled,
                 left, out, unread, foreign>>

\* The finally blocks: the group is killed and the child reaped, the scratch directory
\* removed (rmtree is taken to succeed); without an exception the output is parsed.
Cleanup ==
  /\ sup = "cleanup"
  /\ KillGroup
  /\ result' \in IF result = "none" THEN Parsed ELSE {result}
  /\ scratch' = FALSE
  /\ sup' = "returned"
  /\ UNCHANGED <<platform, cache, runs, caps, inforce, total, elapsed, unsent, stdin, handled,
                 left, out, unread, foreign>>

-----------------------------------------------------------------------------
(* The child.                                                              *)

childStep == UNCHANGED <<supervisorVars, sup, elapsed, unsent>>

\* run_headless reads stdin to its end.
ReadInput ==
  /\ child \in {"boot", "input"}
  /\ IF stdin > 0 THEN stdin' = stdin - 1 /\ child' = "input"
     ELSE /\ sup \in {"loop", "drain", "poll"} /\ child = "input"
          /\ child' = "dispatch" /\ UNCHANGED stdin
  /\ childStep /\ UNCHANGED <<descendant, effect, handled, left, out, unread, foreign>>

\* The implementation is looked up and the guards are installed; a descriptor that does
\* not parse or names no packaged implementation gives an error payload.
Dispatch ==
  /\ child = "dispatch"
  /\ \/ child' = "running" /\ UNCHANGED <<handled, left>>
     \/ child' = "writing" /\ handled' = "raised" /\ left' = 1
  /\ childStep /\ UNCHANGED <<stdin, descendant, effect, out, unread, foreign>>

\* The tool touches a file or the network, with both guards active.  The PermissionError
\* of a refusal ends it, unless it catches it.
Touch(a) ==
  /\ child = "running"
  /\ IF audit_hook(ToolExecutionDescriptor, a)
       THEN effect' = a /\ UNCHANGED <<child, handled, left>>
       ELSE /\ effect' = NoEffect
            /\ \/ child' = "writing" /\ handled' = "raised" /\ left' = 1
               \/ UNCHANGED <<child, handled, left>>
  /\ childStep /\ UNCHANGED <<stdin, descendant, out, unread, foreign>>

\* Output that is not the payload.  On stderr, or as white space, it counts but does not
\* change what is parsed; after the last read it is lost.
PrintText ==
  /\ out < PipeCapacity /\ out' = out + 1
  /\ foreign' \in {foreign, foreign \/ sup # "cleanup"}

\* The tool starts a process, or prints.
Stray ==
  /\ child = "running"
  /\ \/ descendant' = TRUE /\ UNCHANGED <<out, foreign>>
     \/ PrintText /\ UNCHANGED descendant
  /\ childStep /\ UNCHANGED <<stdin, child, effect, handled, left, unread>>

\* The tool returns a result of some size, or raises.
EndTool ==
  /\ child = "running"
  /\ child' = "writing" /\ effect' = NoEffect
  /\ \/ handled' = "returned" /\ left' \in 1..MaxSize
     \/ handled' = "raised" /\ left' = 1
  /\ childStep /\ UNCHANGED <<stdin, descendant, out, unread, foreign>>

\* The payload is written as the pipe takes it; then the process exits.
WriteResult ==
  /\ child = "writing"
  /\ IF left > 0
       THEN /\ out < PipeCapacity /\ out' = out + 1
            /\ left' = left - 1 /\ unread' = TRUE /\ UNCHANGED child
       ELSE child' = "exited" /\ UNCHANGED <<out, left, unread>>
  /\ childStep /\ UNCHANGED <<stdin, descendant, effect, handled, foreign>>

\* The child ends without its payload: a limit, a signal, os._exit, a crash of the
\* interpreter, an exception that run_headless does not catch.
Die ==
  /\ child \in Live
  /\ child' = "died" /\ effect' = NoEffect
  /\ childStep /\ UNCHANGED <<stdin, descendant, handled, left, out, unread, foreign>>

\* A descendant writes to an inherited pipe, or ends.
Descend ==
  /\ descendant
  /\ \/ PrintText /\ UNCHANGED descendant
     \/ descendant' = FALSE /\ UNCHANGED <<out, foreign>>
  /\ childStep /\ UNCHANGED <<stdin, child, effect, handled, left, unread>>

Tick ==
  /\ sup # "returned" /\ elapsed < Timeout
  /\ elapsed' = elapsed + 1
  /\ UNCHANGED <<supervisorVars, sup, unsent, stdin, Group, handled, left, out, unread, foreign>>

\* The platform stops being able to establish a control (a lowered hard limit).
PlatformChanges ==
  /\ \E k \in Controls :
       platform[k] = "ENFORCED" /\ platform' = [platform EXCEPT ![k] = "FAILED"]
  /\ UNCHANGED <<cache, runs, caps, scratch, inforce, total, result, sup, elapsed, unsent, stdin,
                 Group, handled, left, out, unread, foreign>>

Supervise == Assess \/ Launch \/ SendInput \/ Expire \/ Select \/ Drain \/ CheckLimit \/ Poll
             \/ Cleanup

ChildNext ==
  \/ ReadInput \/ Dispatch \/ Stray \/ EndTool \/ WriteResult \/ Die \/ Descend
  \/ \E a \in Access : Touch(a)

Next == (\E c \in Capabilities : Start(c)) \/ Supervise \/ ChildNext \/ Tick \/ PlatformChanges

\* The supervisor thread runs and time passes; the child owes nothing.
Spec == Init /\ [][Next]_vars /\ WF_vars(Supervise) /\ WF_vars(Tick)

-----------------------------------------------------------------------------
(* Properties.                                                             *)

TypeOK ==
  /\ platform \in [Controls -> Outcome]
  /\ cache \in [Controls -> Outcome] \cup {NotProbed}
  /\ runs \in 0..MaxRuns
  /\ sup \in {"returned", "assessing", "launching", "sending", "loop", "drain", "poll", "rest",
              "cleanup"}
  /\ caps \in Capabilities \cup {NoCaps}
  /\ elapsed \in 0..Timeout
  /\ unsent \in Nat /\ left \in 0..MaxSize /\ total \in 0..(MaxOutput + 1)
  /\ stdin \in 0..PipeCapacity /\ out \in 0..PipeCapacity
  /\ scratch \in BOOLEAN /\ descendant \in BOOLEAN
  /\ unread \in BOOLEAN /\ foreign \in BOOLEAN
  /\ inforce \subseteq Controls
  /\ child \in Live \cup {"none", "exited", "died", "killed"}
  /\ effect \in Access \cup {NoEffect}
  /\ handled \in {"no", "returned", "raised"}
  /\ result \in {"none", "unavailable", "raised", "timeout", "exhausted", "success", "failure"}

\* Invariants 6 and 7 of ProcessToolExecutionSandbox: when execute returns or raises, no
\* process of the group is alive and the scratch directory is gone, whether the tool
\* returned, hung, flooded its output, died, or left a descendant that holds the pipes.
NothingOutlivesExecution ==
  sup = "returned" => child \notin Live /\ ~descendant /\ ~scratch

\* What execute reports of a tool that printed nothing itself is what the tool did: a
\* success is a result it returned, and a child that ended by itself is a failure only if
\* the tool raised, so that no result is lost between the last read and the exit.  A success
\* is never larger than the output limit.  Once the tool, or a process it started, has put
\* text of its own on stdout only the limit is left: that text is parsed like the payload.
ReportsWhatTheToolDid ==
  /\ result = "success" => total <= MaxOutput /\ (~foreign => handled = "returned" /\ left = 0)
  /\ result = "failure" /\ child = "exited" /\ ~foreign => handled = "raised"

\* No workload runs without the controls its profile requires having been established for
\* it, although the assessment may be of an earlier execution and the platform may have
\* changed since.
RequiredControlsInForce == child # "none" => caps.resources.required \subseteq inforce

\* Where a capability set lets the tool read and write: scratch space, if it was given
\* any; the workspace, to write only if it is not read-only, and only where the subpaths
\* lead; the interpreter's directories outside the workspace, to read; and never a
\* sensitive file.
Permitted(f, t, write) ==
  /\ ~t.sensitive
  /\ \/ f.temp /\ t.scratch
     \/ /\ t.workspace /\ (write => ~f.read_only)
        /\ f.subpaths => t.sub \/ (t.above /\ ~write)
     \/ ~write /\ t.runtime /\ ~t.workspace

\* What the tool's own process touched is within the capability set the execution was
\* given: files where Permitted says; of the network, if egress is allowed at all, listed
\* hosts on listed ports, and no restricted address, listed or not (filesystem.py and
\* network.py, check_access and check_destination, with what the descriptor carries).
Confined ==
  effect # NoEffect =>
    LET n == caps.network
    IN  CASE effect.op = "open" -> Permitted(caps.filesystem, effect.target, effect.write)
          [] effect.op = "connect" ->
               /\ n.mode = "allowlist" /\ ~effect.to.restricted
               /\ \E d \in n.destinations : d[1] = effect.to.host
               /\ \E d \in n.destinations : d[2] = effect.to.port
          [] effect.op = "bind" -> n.bind
          [] effect.op = "unix" -> n.unix

\* execute returns, even if the child hangs, unless one of two things happens for ever:
\* it is handing a descriptor larger than the pipe to a child that has stopped reading,
\* before the loop that watches the deadline; or it is in one read of a pipe that
\* somebody keeps filling, which looks neither at the deadline nor at the limit.
SandboxReturns ==
  \/ []<>(sup = "returned")
  \/ <>[](sup = "sending" /\ caps.payload > PipeCapacity /\ child \in {"boot", "input"})
  \/ (<>[](sup = "drain") \/ <>[](sup = "rest")) /\ []<>(out > 0)
=============================================================================
