------------------------ MODULE ProcessSandboxProofs ------------------------
(***************************************************************************)
(* The sandbox for any capability sets, pipe sizes, limits, timeouts and   *)
(* number of executions, with a child that may do anything the guards let  *)
(* it do, and die or hang at any step.                                     *)
(***************************************************************************)
EXTENDS ProcessSandbox, TLAPS

\* Before the launch there is no process, and after the return no trace.
Processes ==
  /\ sup \in {"assessing", "launching"} => child = "none" /\ ~descendant
  /\ NothingOutlivesExecution

\* While an execution lasts, its capability set is one of the configured ones, it has scratch
\* space only if they say so, and it is launched only once the controls were assessed.
Setting ==
  /\ sup # "returned" => caps \in Capabilities /\ (scratch => caps.filesystem.temp)
  /\ sup = "launching" => cache # NotProbed

\* A result is decided once: not before the cleanup, unless for a refusal.  If the output is
\* still to be parsed then, it is within the limit, the child is gone and the pipe was read
\* empty after its end.
Results ==
  /\ sup \in {"assessing", "launching", "sending", "loop", "drain", "poll", "rest"} =>
       result = "none"
  /\ sup = "rest" => child \notin Live
  /\ sup = "cleanup" => result \notin {"success", "failure"}
  /\ sup = "cleanup" /\ result = "none" => total <= MaxOutput /\ child \notin Live /\ ~unread
  /\ ReportsWhatTheToolDid

\* Payload that was not read is in the pipe, and a child that ended by itself wrote all of it.
Payload ==
  /\ unread => out > 0
  /\ child = "exited" => handled \in {"returned", "raised"} /\ left = 0
  /\ child = "writing" => handled \in {"returned", "raised"}

IInv == TypeOK /\ Processes /\ Setting /\ Results /\ Payload /\ RequiredControlsInForce
        /\ Confined

-----------------------------------------------------------------------------
(* The guards.                                                             *)

\* What an access may be, and what it is confined to, per kind of access.
Within(c, a) ==
  /\ a.op = "open" => Permitted(c.filesystem, a.target, a.write)
  /\ a.op = "connect" =>
       /\ c.network.mode = "allowlist" /\ ~a.to.restricted
       /\ \E d \in c.network.destinations : d[1] = a.to.host
       /\ \E d \in c.network.destinations : d[2] = a.to.port
  /\ a.op = "bind" => c.network.bind
  /\ a.op = "unix" => c.network.unix

\* An access is of one of these kinds, and none is the absence of one.
LEMMA AccessKinds ==
  ASSUME NEW a \in Access
  PROVE  a.op \in {"open", "connect", "bind", "unix"} /\ a # NoEffect
<1>1. a.op \in {"open", "connect", "bind", "unix"}
  BY DEF Access
<1>2. NoEffect.op = "none"
  BY DEF NoEffect
<1> QED BY <1>1, <1>2

\* What the guards let through is confined, given that the scratch directory exists only
\* where the capabilities allow one.
LEMMA GuardsConfine ==
  ASSUME NEW a \in Access, scratch => caps.filesystem.temp, audit_hook(ToolExecutionDescriptor, a)
  PROVE  Within(caps, a)
<1> DEFINE d == ToolExecutionDescriptor
<1>1. d.filesystem = caps.filesystem /\ d.network = caps.network /\ d.scratch_dir = scratch
  BY DEF ToolExecutionDescriptor
<1> HIDE DEF d
<1>2. audit_hook(d, a)
  BY DEF d
<1>3. a.op \in {"open", "connect", "bind", "unix"}
  BY AccessKinds
<1>4. CASE a.op = "open"
  <2>1. check_access(d, a.target, a.write)
    BY <1>2, <1>4 DEF audit_hook
  <2>2. /\ ~a.target.sensitive
        /\ IF a.write
             THEN IF caps.filesystem.read_only
                    THEN caps.filesystem.temp /\ scratch /\ a.target.scratch
                    ELSE \/ a.target.scratch /\ scratch
                         \/ a.target.workspace /\ (caps.filesystem.subpaths => a.target.sub)
             ELSE \/ scratch /\ a.target.scratch
                  \/ a.target.workspace
                       /\ (caps.filesystem.subpaths => a.target.sub \/ a.target.above)
                  \/ ~a.target.workspace /\ a.target.runtime
    BY <1>1, <2>1 DEF check_access
  <2> QED BY <1>4, <2>2 DEF Within, Permitted
<1>5. CASE a.op = "connect"
  <2>1. check_destination(Guard(d.network), a.to)
    BY <1>2, <1>5 DEF audit_hook
  <2>2. /\ caps.network.mode = "allowlist" /\ ~a.to.restricted
        /\ a.to.host \in {x[1] : x \in caps.network.destinations}
        /\ a.to.port \in {x[2] : x \in caps.network.destinations}
    BY <1>1, <2>1 DEF check_destination, Guard
  <2> QED BY <1>5, <2>2 DEF Within
<1>6. CASE a.op = "bind"
  <2>1. d.network.bind
    BY <1>2, <1>6 DEF audit_hook
  <2> QED BY <1>1, <1>6, <2>1 DEF Within
<1>7. CASE a.op = "unix"
  <2>1. d.network.unix
    BY <1>2, <1>7 DEF audit_hook
  <2> QED BY <1>1, <1>7, <2>1 DEF Within
<1> QED BY <1>3, <1>4, <1>5, <1>6, <1>7

\* The last access, if any, is within the capability set of the execution.
EffectWithin ==
  effect \in Access \cup {NoEffect} /\ (effect # NoEffect => Within(caps, effect))

\* The two ways of saying that an access is confined.
LEMMA ConfinedIsWithin == EffectWithin => Confined
<1> SUFFICES ASSUME effect \in Access, effect # NoEffect, Within(caps, effect)
             PROVE LET n == caps.network
                   IN  CASE effect.op = "open" ->
                              Permitted(caps.filesystem, effect.target, effect.write)
                         [] effect.op = "connect" ->
                              /\ n.mode = "allowlist" /\ ~effect.to.restricted
                              /\ \E d \in n.destinations : d[1] = effect.to.host
                              /\ \E d \in n.destinations : d[2] = effect.to.port
                         [] effect.op = "bind" -> n.bind
                         [] effect.op = "unix" -> n.unix
  BY DEF Confined, EffectWithin
<1>1. effect.op \in {"open", "connect", "bind", "unix"}
  BY AccessKinds
<1> QED BY <1>1 DEF Within

\* The same after a step.
LEMMA ConfinedNext == EffectWithin' => Confined'
  BY ConfinedIsWithin, PTL

\* Nothing is touched, or what was touched under the same capability set stays.
LEMMA ConfinedFrame ==
  ASSUME Confined, effect' = NoEffect \/ (effect' = effect /\ caps' = caps)
  PROVE  Confined'
BY DEF Confined

-----------------------------------------------------------------------------
(* The supervisor up to the launch.                                        *)

\* A new execution.
LEMMA StartStep == ASSUME IInv, NEW c \in Capabilities, Start(c) PROVE IInv'
<1>1. /\ TypeOK /\ sup = "returned" /\ child \notin Live /\ ~descendant /\ ~scratch
      /\ c \in Capability
  BY SandboxAssumption DEF IInv, Processes, NothingOutlivesExecution, Start
<1>2. /\ runs < MaxRuns /\ runs' = runs + 1 /\ caps' = c /\ elapsed' = 0 /\ total' = 0 /\ out' = 0
      /\ stdin' = 0 /\ left' = 0 /\ unsent' = c.payload /\ inforce' = {} /\ child' = "none"
      /\ effect' = NoEffect /\ handled' = "no" /\ unread' = FALSE /\ foreign' = FALSE
      /\ UNCHANGED <<platform, cache, descendant>>
      /\ \/ sup' = "assessing" /\ scratch' = c.filesystem.temp /\ result' = "none"
         \/ sup' = "returned" /\ scratch' = scratch /\ result' = "unavailable"
  BY DEF Start
<1>3. c.payload \in Nat /\ c.filesystem.temp \in BOOLEAN
  BY <1>1 DEF Capability, FilesystemCapability
<1>4. TypeOK'
  <2>1. scratch' \in BOOLEAN
    BY <1>1, <1>2, <1>3 DEF TypeOK
  <2>2. runs' \in 0..MaxRuns /\ elapsed' \in 0..Timeout /\ left' \in 0..MaxSize
        /\ stdin' \in 0..PipeCapacity /\ out' \in 0..PipeCapacity /\ unsent' \in Nat
        /\ total' \in 0..(MaxOutput + 1)
    BY <1>1, <1>2, <1>3, SandboxAssumption DEF TypeOK
  <2> QED BY <1>1, <1>2, <2>1, <2>2 DEF TypeOK
<1>5. Processes'
  BY <1>1, <1>2 DEF Processes, NothingOutlivesExecution, Live
<1>6. Setting'
  BY <1>2 DEF Setting
<1>7. Results' /\ Payload'
  BY <1>2 DEF Results, ReportsWhatTheToolDid, Payload
<1>8. RequiredControlsInForce' /\ Confined'
  BY <1>2 DEF RequiredControlsInForce, Confined
<1> QED BY <1>4, <1>5, <1>6, <1>7, <1>8 DEF IInv

\* The assessment, made or remembered.
LEMMA AssessStep == ASSUME IInv, Assess PROVE IInv'
<1>1. /\ TypeOK /\ Processes /\ Setting /\ Results /\ Payload /\ RequiredControlsInForce
      /\ Confined /\ sup = "assessing" /\ sup' = "launching"
      /\ UNCHANGED <<platform, runs, caps, scratch, inforce, total, result, elapsed, unsent, stdin,
                     child, descendant, effect, handled, left, out, unread, foreign>>
  BY DEF IInv, Assess
<1>2. cache' \in [Controls -> Outcome] /\ cache' # NotProbed
  <2>1. \A f \in [Controls -> Outcome] : f # NotProbed
    <3>1. "memory" \in Controls /\ NotProbed["memory"] = "NOT_PROBED"
      BY DEF NotProbed, Controls
    <3>2. \A f \in [Controls -> Outcome] : f["memory"] \in Outcome
      BY <3>1
    <3>3. "NOT_PROBED" \notin Outcome
      BY DEF Outcome
    <3> QED BY <3>1, <3>2, <3>3
  <2>2. [k \in Controls |-> "FAILED"] \in [Controls -> Outcome] /\ platform \in [Controls -> Outcome]
    BY <1>1 DEF TypeOK, Outcome
  <2>3. cache' \in [Controls -> Outcome]
    <3>1. CASE cache # NotProbed
      BY <1>1, <3>1 DEF Assess, TypeOK
    <3>2. CASE cache = NotProbed
      BY <2>2, <3>2 DEF Assess
    <3> QED BY <3>1, <3>2
  <2> QED BY <2>1, <2>3
<1>3. TypeOK'
  BY <1>1, <1>2 DEF TypeOK
<1>4. Processes' /\ Setting' /\ Results' /\ Payload'
  BY <1>1, <1>2 DEF Processes, NothingOutlivesExecution, Setting, Results,
                    ReportsWhatTheToolDid, Payload
<1>5. RequiredControlsInForce' /\ Confined'
  BY <1>1, ConfinedFrame DEF RequiredControlsInForce
<1> QED BY <1>3, <1>4, <1>5 DEF IInv

\* The launch, with every required control established, or its refusal.
LEMMA LaunchStep == ASSUME IInv, Launch PROVE IInv'
<1>1. /\ TypeOK /\ Processes /\ Setting /\ Results /\ Payload /\ RequiredControlsInForce
      /\ Confined /\ sup = "launching"
      /\ UNCHANGED <<platform, cache, runs, caps, total, elapsed, unsent, stdin, descendant, effect,
                     handled, left, out, unread, foreign>>
  BY DEF IInv, Launch
<1>2. /\ child = "none" /\ ~descendant /\ caps \in Capabilities /\ cache # NotProbed
      /\ result = "none" /\ (scratch => caps.filesystem.temp)
  BY <1>1 DEF Processes, Setting, Results
<1>3. Confined'
  BY <1>1, ConfinedFrame
<1>4. CASE /\ Blocking = {} /\ inforce' = Enforced /\ child' = "boot" /\ sup' = "sending"
           /\ UNCHANGED <<scratch, result>>
  <2>1. cache \in [Controls -> Outcome] /\ caps.resources.required \subseteq Controls
    BY <1>1, <1>2, SandboxAssumption DEF TypeOK, Capability, ResourceLimits
  <2>2. caps.resources.required \subseteq Enforced
    BY <1>4, <2>1 DEF Blocking, Enforced, Outcome
  <2>3. TypeOK'
    BY <1>1, <1>4 DEF TypeOK, Enforced, Live
  <2>4. Processes' /\ Setting' /\ Results' /\ Payload'
    BY <1>1, <1>2, <1>4 DEF Processes, NothingOutlivesExecution, Setting, Results,
                            ReportsWhatTheToolDid, Payload
  <2>5. RequiredControlsInForce'
    BY <1>1, <1>4, <2>2 DEF RequiredControlsInForce
  <2> QED BY <1>3, <2>3, <2>4, <2>5 DEF IInv
<1>5. CASE /\ sup' = "returned" /\ result' = "unavailable" /\ scratch' = FALSE
           /\ UNCHANGED <<inforce, child>>
  <2>1. TypeOK'
    BY <1>1, <1>5 DEF TypeOK
  <2>2. Processes' /\ Setting' /\ Results' /\ Payload'
    BY <1>1, <1>2, <1>5 DEF Processes, NothingOutlivesExecution, Setting, Results,
                            ReportsWhatTheToolDid, Payload, Live
  <2>3. RequiredControlsInForce'
    BY <1>1, <1>2, <1>5 DEF RequiredControlsInForce
  <2> QED BY <1>3, <2>1, <2>2, <2>3 DEF IInv
<1> QED BY <1>4, <1>5 DEF Launch

-----------------------------------------------------------------------------
(* The supervisor from the launch to the result.                           *)

\* A step of the supervisor between the launch and the return: the setting stays, and the
\* group is left alone or killed.
LEMMA SuperviseFrame ==
  ASSUME IInv, TypeOK', sup \in {"sending", "loop", "drain", "poll", "rest", "cleanup"},
         UNCHANGED <<platform, cache, runs, caps, inforce, handled, left>>,
         \/ /\ sup' \in {"sending", "loop", "drain", "poll", "rest", "cleanup"}
            /\ scratch' = scratch
            /\ UNCHANGED Group \/ KillGroup
         \/ sup' = "returned" /\ scratch' = FALSE /\ KillGroup,
         UNCHANGED <<out, unread>> \/ unread' = FALSE,
         Results'
  PROVE  IInv'
<1>1. TypeOK /\ Processes /\ Setting /\ Payload /\ RequiredControlsInForce /\ Confined
  BY DEF IInv
<1>2. /\ child' # "none" => child # "none"
      /\ child' \in {"exited", "writing"} => child' = child
  BY DEF Group, KillGroup, Live
<1>3. Processes'
  BY DEF Processes, NothingOutlivesExecution, KillGroup, Live
<1>4. Setting' /\ Payload'
  BY <1>1, <1>2 DEF Setting, Payload
<1>5. RequiredControlsInForce'
  BY <1>1, <1>2 DEF RequiredControlsInForce
<1>6. Confined'
  BY <1>1, ConfinedFrame DEF Group, KillGroup
<1> QED BY <1>3, <1>4, <1>5, <1>6 DEF IInv

\* Killing the group keeps the types of its members.
LEMMA KillType ==
  ASSUME TypeOK, KillGroup \/ UNCHANGED Group
  PROVE  /\ child' \in Live \cup {"none", "exited", "died", "killed"} /\ descendant' \in BOOLEAN
         /\ effect' \in Access \cup {NoEffect}
BY DEF TypeOK, KillGroup, Group

\* The descriptor goes to the child.
LEMMA SendInputStep == ASSUME IInv, SendInput PROVE IInv'
<1>1. /\ TypeOK /\ Results /\ sup = "sending"
      /\ UNCHANGED <<platform, cache, runs, caps, scratch, inforce, total, elapsed, Group, handled,
                     left, out, unread, foreign>>
  BY DEF IInv, SendInput
<1>2. \/ /\ unsent > 0 /\ stdin < PipeCapacity /\ unsent' = unsent - 1 /\ stdin' = stdin + 1
         /\ UNCHANGED <<sup, result>>
      \/ sup' = "loop" /\ UNCHANGED <<unsent, stdin, result>>
      \/ sup' = "cleanup" /\ result' = "raised" /\ UNCHANGED <<unsent, stdin>>
  BY DEF SendInput
<1>3. unsent' \in Nat /\ stdin' \in 0..PipeCapacity
  BY <1>1, <1>2, SandboxAssumption DEF TypeOK
<1>4. TypeOK'
  BY <1>1, <1>2, <1>3 DEF TypeOK, Group
<1>5. Results'
  BY <1>1, <1>2 DEF Results, ReportsWhatTheToolDid
<1>6. sup' \in {"loop", "cleanup", "sending"}
  BY <1>1, <1>2
<1> QED BY <1>1, <1>4, <1>5, <1>6, SuperviseFrame

\* The deadline.
LEMMA ExpireStep == ASSUME IInv, Expire PROVE IInv'
<1>1. /\ TypeOK /\ sup = "loop" /\ KillGroup /\ sup' = "cleanup" /\ result' = "timeout"
      /\ UNCHANGED <<platform, cache, runs, caps, scratch, inforce, total, elapsed, unsent, stdin,
                     handled, left, out, unread, foreign>>
  BY DEF IInv, Expire
<1>2. TypeOK'
  BY <1>1, KillType DEF TypeOK
<1>3. Results'
  BY <1>1 DEF Results, ReportsWhatTheToolDid
<1> QED BY <1>1, <1>2, <1>3, SuperviseFrame

\* The supervisor moves on to reading the pipes, or asks whether the child is still there.
LEMMA MoveStep == ASSUME IInv, Select \/ Poll PROVE IInv'
<1>1. /\ TypeOK /\ Results /\ sup \in {"loop", "poll"} /\ sup' \in {"drain", "loop", "rest"}
      /\ sup' = "rest" => child \notin Live
      /\ UNCHANGED <<platform, cache, runs, caps, scratch, inforce, total, result, elapsed, unsent,
                     stdin, Group, handled, left, out, unread, foreign>>
  BY DEF IInv, Select, Poll, supervisorVars
<1>2. TypeOK'
  BY <1>1 DEF TypeOK, Group
<1>3. Results'
  BY <1>1 DEF Results, ReportsWhatTheToolDid, Group
<1> QED BY <1>1, <1>2, <1>3, SuperviseFrame

\* Output is taken from the pipes.
LEMMA DrainStep == ASSUME IInv, Drain PROVE IInv'
<1>1. /\ TypeOK /\ Results /\ sup \in {"drain", "rest"} /\ out' = 0 /\ unread' = FALSE
      /\ total' = IF total + out > MaxOutput THEN MaxOutput + 1 ELSE total + out
      /\ UNCHANGED <<platform, cache, runs, caps, scratch, inforce, result, sup, elapsed, unsent,
                     stdin, Group, handled, left, foreign>>
  BY DEF IInv, Drain
<1>2. total' \in 0..(MaxOutput + 1) /\ out' \in 0..PipeCapacity
  BY <1>1, SandboxAssumption DEF TypeOK
<1>3. TypeOK'
  <2>1. unread' \in BOOLEAN /\ UNCHANGED <<child, descendant, effect>>
    BY <1>1 DEF Group
  <2> QED BY <1>1, <1>2, <2>1 DEF TypeOK
<1>4. Results'
  BY <1>1 DEF Results, ReportsWhatTheToolDid, Group
<1> QED BY <1>1, <1>3, <1>4, SuperviseFrame

\* With the pipe empty, the output is held against the limit.
LEMMA CheckLimitStep == ASSUME IInv, CheckLimit PROVE IInv'
<1>1. /\ TypeOK /\ Results /\ Payload /\ sup \in {"drain", "rest"} /\ out = 0 /\ result = "none"
      /\ UNCHANGED <<platform, cache, runs, caps, scratch, inforce, total, elapsed, unsent, stdin,
                     handled, left, out, unread, foreign>>
      /\ \/ KillGroup /\ sup' = "cleanup" /\ result' = "exhausted"
         \/ /\ ~(total > MaxOutput) /\ UNCHANGED <<Group, result>>
            /\ sup' = IF sup = "drain" THEN "poll" ELSE "cleanup"
  BY DEF IInv, CheckLimit, Results
<1>2. ~unread
  BY <1>1 DEF Payload
<1>3. sup' \in {"poll", "cleanup"} /\ (UNCHANGED Group \/ KillGroup) /\ result' \in {"none", "exhausted"}
  BY <1>1
<1>4. TypeOK'
  BY <1>1, <1>3, KillType DEF TypeOK
<1>5. Results'
  <2>1. sup' = "cleanup" /\ result' = "none" => total' <= MaxOutput
    BY <1>1, SandboxAssumption DEF TypeOK
  <2>2. sup' = "cleanup" /\ result' = "none" => child' \notin Live /\ ~unread'
    BY <1>1, <1>2 DEF Results, Group
  <2>3. sup' = "poll" => result' = "none"
    BY <1>1
  <2> QED BY <1>3, <2>1, <2>2, <2>3 DEF Results, ReportsWhatTheToolDid
<1> QED BY <1>1, <1>3, <1>4, <1>5, SuperviseFrame

\* The cleanup kills the group, removes the scratch directory and reads the result.
LEMMA CleanupStep == ASSUME IInv, Cleanup PROVE IInv'
<1>1. /\ TypeOK /\ Results /\ Payload /\ sup = "cleanup" /\ KillGroup
      /\ result' \in (IF result = "none" THEN Parsed ELSE {result}) /\ scratch' = FALSE
      /\ sup' = "returned"
      /\ UNCHANGED <<platform, cache, runs, caps, inforce, total, elapsed, unsent, stdin, handled,
                     left, out, unread, foreign>>
  BY DEF IInv, Cleanup
<1>2. CASE result = "none"
  <2>1. result' \in Parsed /\ total <= MaxOutput /\ child \notin Live /\ ~unread
    BY <1>1, <1>2 DEF Results
  <2>2. /\ result' \in {"success", "failure", "raised"}
        /\ ~foreign /\ result' = "success" => handled = "returned" /\ left = 0
        /\ ~foreign /\ result' = "failure" => ~(handled = "returned" /\ left = 0)
    BY <2>1 DEF Parsed
  <2>3. child' = child
    BY <1>1, <2>1 DEF KillGroup
  <2>4. TypeOK'
    BY <1>1, <2>2, KillType DEF TypeOK
  <2>5. ReportsWhatTheToolDid'
    BY <1>1, <2>1, <2>2, <2>3 DEF ReportsWhatTheToolDid, Payload
  <2>6. Results'
    BY <1>1, <2>5 DEF Results
  <2> QED BY <1>1, <2>4, <2>6, SuperviseFrame
<1>3. CASE result # "none"
  <2>1. result' = result /\ result \notin {"success", "failure"}
    BY <1>1, <1>3 DEF Results
  <2>2. TypeOK'
    BY <1>1, <2>1, KillType DEF TypeOK
  <2>3. Results'
    BY <1>1, <2>1 DEF Results, ReportsWhatTheToolDid
  <2> QED BY <1>1, <2>2, <2>3, SuperviseFrame
<1> QED BY <1>2, <1>3

-----------------------------------------------------------------------------
(* The child.                                                              *)

\* A step of the child or of a descendant happens while the execution lasts: nothing was
\* returned yet, and what the supervisor holds stays.
LEMMA ChildFrame ==
  ASSUME IInv, TypeOK', childStep, child \in Live \/ descendant,
         child' = child \/ (child \in Live /\ child' # "none"),
         unread' = unread \/ child \in Live, Payload', Confined'
  PROVE  IInv'
<1>1. TypeOK /\ Processes /\ Setting /\ Results /\ RequiredControlsInForce
  BY DEF IInv
<1>2. UNCHANGED <<platform, cache, runs, caps, scratch, inforce, total, result, sup>>
  BY DEF childStep, supervisorVars
<1>3. sup \in {"sending", "loop", "drain", "poll", "rest", "cleanup"}
  BY <1>1 DEF Processes, NothingOutlivesExecution, TypeOK, Live
<1>4. Processes'
  BY <1>2, <1>3 DEF Processes, NothingOutlivesExecution
<1>5. Setting'
  BY <1>1, <1>2 DEF Setting
<1>6. result \notin {"success", "failure"}
  BY <1>1, <1>3 DEF Results
<1>7. Results'
  BY <1>1, <1>2, <1>3, <1>6 DEF Results, ReportsWhatTheToolDid
<1>8. RequiredControlsInForce'
  BY <1>1, <1>2 DEF RequiredControlsInForce, Live
<1> QED BY <1>4, <1>5, <1>7, <1>8 DEF IInv

\* The child reads, starts the tool, ends it, writes its result or dies.
LEMMA ChildStep ==
  ASSUME IInv, ReadInput \/ Dispatch \/ EndTool \/ WriteResult \/ Die
  PROVE  IInv'
<1>1. /\ TypeOK /\ Payload /\ Confined /\ childStep /\ child \in Live
      /\ UNCHANGED <<descendant, foreign>>
      /\ effect' \in {effect, NoEffect}
      /\ UNCHANGED caps
  BY DEF IInv, ReadInput, Dispatch, EndTool, WriteResult, Die, Live, childStep, supervisorVars
<1>2. child' \in Live \cup {"exited", "died"} /\ handled' \in {"no", "returned", "raised"}
  BY <1>1 DEF TypeOK, ReadInput, Dispatch, EndTool, WriteResult, Die, Live
<1>3. stdin' \in 0..PipeCapacity
  BY <1>1, SandboxAssumption DEF TypeOK, ReadInput, Dispatch, EndTool, WriteResult, Die
<1>4. /\ left' \in 0..MaxSize /\ out' \in 0..PipeCapacity
      /\ unread' \in BOOLEAN
  <2>1. unread' \in BOOLEAN
    BY <1>1 DEF TypeOK, ReadInput, Dispatch, EndTool, WriteResult, Die
  <2>2. left' \in 0..MaxSize /\ out' \in 0..PipeCapacity
    BY <1>1, SandboxAssumption DEF TypeOK, ReadInput, Dispatch, EndTool, WriteResult, Die
  <2> QED BY <2>1, <2>2
<1>5. TypeOK'
  BY <1>1, <1>2, <1>3, <1>4 DEF TypeOK, childStep, supervisorVars
<1>6. Confined'
  BY <1>1, ConfinedFrame
<1>7. child' # "none"
  BY <1>2 DEF Live
<1>8. Payload'
  <2>1. CASE ReadInput \/ Dispatch \/ EndTool \/ Die
    BY <1>1, <2>1 DEF Payload, ReadInput, Dispatch, EndTool, Die
  <2>2. CASE WriteResult
    <3>1. CASE left > 0
      <4>1. out' > 0 /\ child' = "writing" /\ handled' = handled /\ child = "writing"
        BY <1>1, <2>2, <3>1, SandboxAssumption DEF WriteResult, TypeOK
      <4> QED BY <1>1, <4>1 DEF Payload
    <3>2. CASE ~(left > 0)
      <4>1. left = 0
        BY <1>1, <3>2, SandboxAssumption DEF TypeOK
      <4> QED BY <1>1, <2>2, <3>2, <4>1 DEF Payload, WriteResult
    <3> QED BY <3>1, <3>2
  <2> QED BY <2>1, <2>2
<1> QED BY <1>1, <1>5, <1>6, <1>7, <1>8, ChildFrame

\* The tool touches something the guards let through, or is stopped by them.
LEMMA TouchStep == ASSUME IInv, NEW a \in Access, Touch(a) PROVE IInv'
<1>1. /\ TypeOK /\ Setting /\ Processes /\ Payload /\ Confined /\ childStep /\ child = "running"
      /\ UNCHANGED <<stdin, descendant, out, unread, foreign, caps, scratch, sup>>
      /\ \/ /\ audit_hook(ToolExecutionDescriptor, a) /\ effect' = a
            /\ UNCHANGED <<child, handled, left>>
         \/ child' = "writing" /\ handled' = "raised" /\ left' = 1 /\ effect' = NoEffect
         \/ UNCHANGED <<child, handled, left>> /\ effect' = NoEffect
  BY DEF IInv, Touch, childStep, supervisorVars
<1>2. child' \in {"running", "writing"} /\ left' \in 0..MaxSize /\ effect' \in Access \cup {NoEffect}
      /\ handled' \in {"no", "returned", "raised"}
  BY <1>1, SandboxAssumption DEF TypeOK
<1>3. TypeOK'
  BY <1>1, <1>2 DEF TypeOK, childStep, supervisorVars, Live
<1>4. scratch => caps.filesystem.temp
  BY <1>1 DEF Setting, Processes, NothingOutlivesExecution, Live
<1>5. audit_hook(ToolExecutionDescriptor, a) => Within(caps, a)
  BY <1>4, GuardsConfine
<1>6. Confined'
  <2>1. CASE effect' = a /\ audit_hook(ToolExecutionDescriptor, a)
    <3>1. Within(caps', effect')
      BY <1>1, <1>5, <2>1
    <3>2. EffectWithin'
      BY <1>2, <3>1 DEF EffectWithin
    <3> QED BY <3>2, ConfinedNext
  <2>2. CASE effect' = NoEffect
    BY <1>1, <2>2, ConfinedFrame
  <2> QED BY <1>1, <2>1, <2>2
<1>7. child \in Live /\ child' # "none" /\ Payload'
  BY <1>1, <1>2 DEF Live, Payload
<1> QED BY <1>1, <1>3, <1>6, <1>7, ChildFrame

\* The tool or a descendant of it starts a process, prints or ends.  A descendant exists
\* only after a launch.
LEMMA StrayStep == ASSUME IInv, Stray \/ Descend PROVE IInv'
<1>1. /\ TypeOK /\ Processes /\ Payload /\ Confined /\ childStep
      /\ child = "running" \/ descendant
      /\ UNCHANGED <<stdin, child, effect, handled, left, unread, caps>>
  BY DEF IInv, Stray, Descend, childStep, supervisorVars
<1>2. descendant' \in BOOLEAN /\ foreign' \in BOOLEAN
  BY <1>1 DEF TypeOK, Stray, Descend, PrintText
<1>3. out' \in 0..PipeCapacity /\ out' \in {out, out + 1}
  BY <1>1, SandboxAssumption DEF TypeOK, Stray, Descend, PrintText
<1>4. TypeOK'
  BY <1>1, <1>2, <1>3 DEF TypeOK, childStep, supervisorVars
<1>5. Confined'
  BY <1>1, ConfinedFrame
<1>6. Payload'
  <2>1. out > 0 => out' > 0
    BY <1>1, <1>3, SandboxAssumption DEF TypeOK
  <2> QED BY <1>1, <2>1 DEF Payload
<1>7. (child \in Live \/ descendant) /\ child' = child /\ unread' = unread
  BY <1>1 DEF Live
<1> QED BY <1>1, <1>4, <1>5, <1>6, <1>7, ChildFrame

-----------------------------------------------------------------------------
(* Every step.                                                             *)

\* Time passes, the platform changes, or nothing does.
LEMMA EnvironmentStep ==
  ASSUME IInv, Tick \/ PlatformChanges \/ UNCHANGED vars
  PROVE  IInv'
<1>1. TypeOK /\ Processes /\ Setting /\ Results /\ Payload /\ RequiredControlsInForce /\ Confined
  BY DEF IInv
<1>2. UNCHANGED <<cache, runs, caps, scratch, inforce, total, result, sup, unsent, stdin,
                  child, descendant, effect, handled, left, out, unread, foreign>>
  BY DEF Tick, PlatformChanges, vars, supervisorVars, Group
<1>3. elapsed' \in 0..Timeout
  BY <1>1, SandboxAssumption DEF TypeOK, Tick, PlatformChanges, vars
<1>4. platform' \in [Controls -> Outcome]
  BY <1>1 DEF TypeOK, Tick, PlatformChanges, vars, supervisorVars, Outcome
<1>5. TypeOK'
  BY <1>1, <1>2, <1>3, <1>4 DEF TypeOK
<1>6. Processes' /\ Setting' /\ Results' /\ Payload'
  BY <1>1, <1>2 DEF Processes, NothingOutlivesExecution, Setting, Results,
                    ReportsWhatTheToolDid, Payload
<1>7. RequiredControlsInForce' /\ Confined'
  BY <1>1, <1>2, ConfinedFrame DEF RequiredControlsInForce
<1> QED BY <1>5, <1>6, <1>7 DEF IInv

\* Every step preserves the invariant.
LEMMA NextIInv == IInv /\ [Next]_vars => IInv'
<1> SUFFICES ASSUME IInv, [Next]_vars PROVE IInv'
  OBVIOUS
<1>1. CASE \E c \in Capabilities : Start(c)
  BY <1>1, StartStep
<1>2. CASE Supervise
  BY <1>2, AssessStep, LaunchStep, SendInputStep, ExpireStep, MoveStep, DrainStep,
     CheckLimitStep, CleanupStep
  DEF Supervise
<1>3. CASE ChildNext
  BY <1>3, ChildStep, TouchStep, StrayStep DEF ChildNext
<1>4. CASE Tick \/ PlatformChanges \/ UNCHANGED vars
  BY <1>4, EnvironmentStep
<1> QED BY <1>1, <1>2, <1>3, <1>4 DEF Next

\* The inductive invariant holds in every reachable state.
THEOREM Invariance == Spec => []IInv
<1>1. ASSUME Init PROVE IInv
  <2>1. runs \in 0..MaxRuns /\ elapsed \in 0..Timeout /\ left \in 0..MaxSize
        /\ stdin \in 0..PipeCapacity /\ out \in 0..PipeCapacity /\ unsent \in Nat
        /\ total \in 0..(MaxOutput + 1)
    BY <1>1, SandboxAssumption DEF Init
  <2>2. TypeOK
    BY <1>1, <2>1 DEF Init, TypeOK
  <2>3. Processes /\ Setting /\ Results /\ Payload
    BY <1>1 DEF Init, Processes, NothingOutlivesExecution, Live, Setting, Results,
                ReportsWhatTheToolDid, Payload
  <2>4. RequiredControlsInForce /\ Confined
    BY <1>1 DEF Init, RequiredControlsInForce, Confined
  <2> QED BY <2>2, <2>3, <2>4 DEF IInv
<1> QED BY <1>1, NextIInv, PTL DEF Spec

\* The variables of supervisor and child keep their types.
THEOREM TypeCorrect == Spec => []TypeOK
  BY Invariance, PTL DEF IInv

\* When execute returns or raises, no process of the group and no scratch directory is
\* left, whatever the child did and wherever it stopped.
THEOREM ExecutionLeavesNothing == Spec => []NothingOutlivesExecution
  BY Invariance, PTL DEF IInv, Processes

\* Unless the tool or a descendant wrote to stdout itself, a reported success is a result the
\* tool returned, read whole and within the output limit, and no result of a child that ended
\* by itself is lost between the last read of the loop and the exit.
THEOREM ReportsAreTrue == Spec => []ReportsWhatTheToolDid
  BY Invariance, PTL DEF IInv, Results

\* A child runs only under the controls its profile requires, each established for this
\* child, although the assessment is remembered across executions while the platform changes.
THEOREM ControlsAreInForce == Spec => []RequiredControlsInForce
  BY Invariance, PTL DEF IInv

\* Every file the tool's own process opens and every destination it connects to is one its
\* capability set permits; nothing outside workspace, scratch space and interpreter is read.
THEOREM ToolsAreConfined == Spec => []Confined
  BY Invariance, PTL DEF IInv

=============================================================================
