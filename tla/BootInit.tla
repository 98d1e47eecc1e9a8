------------------------------ MODULE BootInit ------------------------------
(***************************************************************************)
(* The boot graph of the init service (core/services/core/init): the        *)
(* services of the manifest are launched class by class, the CORE class is  *)
(* polled for readiness with a deadline per service, a required failure     *)
(* rolls back what was launched, and the lifecycle authority is handed to   *)
(* the supervisor.  NAMESVC and PROCESS_MANAGER are launched by the kernel  *)
(* (bootstrap_launch.c), all others by the process manager, whose spawn     *)
(* operation is modelled by what it leaves in the kernel.                   *)
(*                                                                         *)
(* One action is what init does between two system calls that another       *)
(* process can observe.  The children run beside it: each has one readiness *)
(* endpoint, which holds one message.                                       *)
(***************************************************************************)
EXTENDS Integers, Sequences, Functions

CONSTANTS
  Manifest,        \* the services in manifest order, a sequence without repetition
  Class,           \* boot class of a service: "CORE", "INFRA", "OPTIONAL", "LATE"
  Required,        \* the services whose policy is REQUIRED
  Deps,            \* the services a service depends on
  Bootstrap,       \* the services the kernel launches for init
  ProcessManager,  \* INIT_SVC_PROCESS_MANAGER, which launches the others
  Reporting,       \* the services that report BOUND and READY
  Supervisor,      \* INIT_SVC_SERVICEMGR
  Profiles,        \* the sets of services that filter_service may select
  HandoffRetries   \* handoff_retry_count of the profile

Services == Range(Manifest)

ASSUME ManifestAssumption ==
  /\ Manifest \in Seq(Services)
  /\ Class \in [Services -> {"CORE", "INFRA", "OPTIONAL", "LATE"}]
  /\ Deps \in [Services -> SUBSET Services]
  /\ Required \subseteq Services /\ Bootstrap \subseteq Services
  /\ Reporting \subseteq Services
  /\ Supervisor \in Services /\ ProcessManager \in Bootstrap
  /\ Profiles \subseteq SUBSET Services
  /\ HandoffRetries \in Nat
  \* the manifest has no cycle: every service stands behind its dependencies
  /\ \A i, j \in DOMAIN Manifest : Manifest[j] \in Deps[Manifest[i]] => j < i

VARIABLES
  state,     \* services[].state; "UNUSED" when the service is not selected, so
             \* that service_order is the manifest without the unused ones
  proc,      \* the kernel process of a service
  event,     \* the message in its readiness endpoint; "closed" without endpoint
  said,      \* the reports its process has sent
  late,      \* ready_deadline_ns has passed
  records,   \* the roll-back stack
  at,        \* where init is: its operation, the class, the services that the
             \* launch pass still has before it, the place in the manifest and
             \* the flag of the polling loop (place 0: outside of it)
  degraded,  \* outcome is DEGRADED
  safe,      \* outcome is SAFE_MODE
  tries,     \* hand-over attempts made
  result     \* what init_runtime_run returned; "NONE" before

vars == <<state, proc, event, said, late, records, at, degraded, safe,
          tries, result>>

States == {"UNUSED", "DECLARED", "WAITING", "SPAWNED", "BOUND", "READY", "FAILED", "DISABLED"}

Processes == {"none", "created", "running", "exited", "stopped", "gone"}

Events == {"none", "BOUND", "READY", "FAILED", "closed"}

Results == {"NONE", "FAILED", "RETAINED", "QUIESCENT", "HANDOFF_COMPLETE"}

Ops == {"select", "launch", "check", "poll", "deadline", "rollback", "reap", "handoff", "end"}

At(op, cls, todo, j) == [op |-> op, cls |-> cls, todo |-> todo, j |-> j, pending |-> FALSE]

Goto(op) == at' = At(op, at.cls, {}, 0)

Init ==
  /\ records = <<>>
  /\ state = [s \in Services |-> "UNUSED"]
  /\ proc = [s \in Services |-> "none"]
  /\ event = [s \in Services |-> "closed"]
  /\ said = [s \in Services |-> 0]
  /\ late = [s \in Services |-> FALSE]
  /\ at = At("select", "CORE", {}, 0)
  /\ degraded = FALSE /\ safe = FALSE /\ tries = 0 /\ result = "NONE"

-----------------------------------------------------------------------------
(* Selecting the manifest.                                                  *)

\* the services of a class that a launch pass looks at, in manifest order
ToLaunch(cls) == {s \in Services : Class[s] = cls /\ state[s] \in {"DECLARED", "WAITING"}}

LaunchClass(cls) == At("launch", cls, ToLaunch(cls), 0)

\* init_graph_validate, for a manifest that is itself well formed
Resolved(S) ==
  /\ \E s \in S : Class[s] = "CORE"
  /\ \A s \in S : Deps[s] \subseteq S

\* Return(r): init_runtime_run returns r
Return(r) == result' = r /\ Goto("end")

\* an unsafe kernel, or a graph that does not resolve, ends the boot at once
Select ==
  /\ at.op = "select"
  /\ \E S \in Profiles \union {{}} :
       IF Resolved(S)
       THEN /\ state' = [s \in Services |-> IF s \in S THEN "DECLARED" ELSE "UNUSED"]
            /\ at' = At("launch", "CORE", {s \in S : Class[s] = "CORE"}, 0)
            /\ UNCHANGED <<safe, result>>
       ELSE /\ safe' = TRUE
            /\ Return("FAILED")
            /\ UNCHANGED state
  /\ UNCHANGED <<proc, event, said, late, records, degraded, tries>>

-----------------------------------------------------------------------------
(* Launching the services of a class.                                       *)

DepsReady(s) == \A d \in Deps[s] : state[d] = "READY"

\* a launch pass is at service s
Launching(s) ==
  /\ at.op = "launch" /\ s \in at.todo
  /\ \E i \in DOMAIN Manifest : s = Manifest[i] /\ \A k \in 1..(i-1) : Manifest[k] \notin at.todo

NextService(s) == at' = [at EXCEPT !.todo = @ \ {s}]

LaunchWait(s) ==
  /\ Launching(s) /\ ~ DepsReady(s)
  /\ state' = [state EXCEPT ![s] = "WAITING"]
  /\ NextService(s)
  /\ UNCHANGED <<proc, event, said, late, records, degraded, safe, tries, result>>

\* The service runs.  When init cannot read the clock it counts as failed, and
\* its roll-back is recorded all the same.
Launched(s) ==
  /\ Launching(s) /\ DepsReady(s)
  /\ s \in Bootstrap \/ proc[ProcessManager] = "running"
  /\ proc' = [proc EXCEPT ![s] = "running"]
  /\ event' = [event EXCEPT ![s] = "none"]
  /\ \E clock \in BOOLEAN :
       state' = [state EXCEPT ![s] = IF clock THEN "SPAWNED" ELSE "FAILED"]
  /\ records' = Append(records, s)
  /\ NextService(s)
  /\ UNCHANGED <<said, late, degraded, safe, tries, result>>

\* What a launch that failed leaves of its process.  The kernel undoes its own
\* launch.  The process manager refuses before it has created a process; or a
\* later phase of its spawn fails, and the process, whose main thread exists,
\* cannot be reaped; or the process runs and the answer to init is lost.
Remains(s) ==
  IF s \in Bootstrap \/ proc[ProcessManager] /= "running"
  THEN {"none"} ELSE {"none", "created", "running"}

LaunchFailed(s) ==
  /\ Launching(s) /\ DepsReady(s)
  /\ \E left \in Remains(s) : proc' = [proc EXCEPT ![s] = left]
  /\ state' = [state EXCEPT ![s] = "FAILED"]
  /\ NextService(s)
  /\ UNCHANGED <<event, said, late, records, degraded, safe, tries, result>>

\* the part of the graph a class-wide question is asked about
InClass(cls) == {s \in Services : Class[s] = cls /\ state[s] /= "UNUSED"}

AnyFailed(cls) == \E s \in InClass(cls) : state[s] = "FAILED"

AnyRequiredFailed(cls) == \E s \in InClass(cls) \cap Required : state[s] = "FAILED"

AllBound(cls) == \A s \in InClass(cls) \cap Required : state[s] \in {"BOUND", "READY"}

AllReady(cls) == \A s \in InClass(cls) \cap Required : state[s] = "READY"

\* a required failure: the boot ends in safe mode, after the roll-back
Abandon == safe' = TRUE /\ Goto("rollback")

\* The end of a launch pass.  Within the CORE class init goes on where it
\* called the pass; the other classes are launched once and not polled.
LaunchEnd ==
  /\ at.op = "launch" /\ at.todo = {}
  /\ \/ /\ at.cls = "CORE"
        /\ at' = [at EXCEPT !.op = IF at.j = 0 THEN "check" ELSE "deadline"]
        /\ UNCHANGED <<safe, degraded>>
     \/ /\ at.cls = "INFRA" /\ AnyRequiredFailed("INFRA")
        /\ Abandon
        /\ UNCHANGED degraded
     \/ /\ at.cls = "INFRA" /\ ~ AnyRequiredFailed("INFRA")
        /\ degraded' = AnyFailed("INFRA")
        /\ at' = LaunchClass("OPTIONAL")
        /\ UNCHANGED safe
     \/ /\ at.cls = "OPTIONAL"
        /\ at' = LaunchClass("LATE")
        /\ UNCHANGED <<safe, degraded>>
     \/ /\ at.cls = "LATE"
        /\ degraded' = (degraded \/ AnyFailed("OPTIONAL") \/ AnyFailed("LATE"))
        /\ Goto("handoff")
        /\ UNCHANGED safe
  /\ UNCHANGED <<state, proc, event, said, late, records, tries, result>>

-----------------------------------------------------------------------------
(* converge_class for the CORE class.                                       *)

\* the end of converge_class and what init_runtime_run makes of it
CoreEnd ==
  IF AnyRequiredFailed("CORE") \/ ~ AllReady("CORE")
  THEN Abandon
  ELSE at' = LaunchClass("INFRA") /\ UNCHANGED safe

Check ==
  /\ at.op = "check"
  /\ IF AnyRequiredFailed("CORE") \/ AllReady("CORE")
     THEN CoreEnd
     ELSE at' = At("poll", "CORE", {}, 1) /\ UNCHANGED safe
  /\ UNCHANGED <<state, proc, event, said, late, records, degraded, tries, result>>

Pollable(s) == Class[s] = at.cls /\ state[s] \in {"SPAWNED", "BOUND"}

PollSkip ==
  /\ at.op = "poll" /\ at.j <= Len(Manifest)
  /\ ~ Pollable(Manifest[at.j])
  /\ at' = [at EXCEPT !.j = @ + 1]
  /\ UNCHANGED <<state, proc, event, said, late, records, degraded, safe, tries, result>>

\* init_service_apply_event; an event out of order fails the service
Applied(st, e) ==
  IF <<st, e>> \in {<<"SPAWNED", "BOUND">>, <<"BOUND", "READY">>} THEN e ELSE "FAILED"

\* Receive an event, or an error of the transport; an event is followed by a
\* launch pass, and then, as when nothing is there, the deadline is looked at.
PollEvent(s) ==
  /\ event[s] \in {"BOUND", "READY", "FAILED"}
  /\ state' = [state EXCEPT ![s] = Applied(@, event[s])]
  /\ event' = [event EXCEPT ![s] = "none"]
  /\ at' = [at EXCEPT !.op = "launch", !.todo = ToLaunch("CORE"), !.pending = TRUE]

PollNothing(s) ==
  /\ event[s] = "none"
  /\ at' = [at EXCEPT !.op = "deadline", !.pending = TRUE]
  /\ UNCHANGED <<state, event>>

PollError(s) ==
  /\ state' = [state EXCEPT ![s] = "FAILED"]
  /\ at' = [at EXCEPT !.op = "deadline", !.pending = TRUE]
  /\ UNCHANGED event

Poll ==
  /\ at.op = "poll" /\ at.j <= Len(Manifest)
  /\ LET s == Manifest[at.j] IN
       /\ Pollable(s)
       /\ PollEvent(s) \/ PollNothing(s) \/ PollError(s)
  /\ UNCHANGED <<proc, said, late, records, degraded, safe, tries, result>>

\* the deadline counts unless the service is READY
MissedBoundOnly(s) == late[s] /\ state[s] = "BOUND"

Missed(s) == late[s] /\ state[s] /= "READY"

Deadline ==
  /\ at.op = "deadline"
  /\ LET s == Manifest[at.j] IN
       state' = IF Missed(s) THEN [state EXCEPT ![s] = "FAILED"] ELSE state
  /\ at' = [at EXCEPT !.op = "poll", !.j = @ + 1]
  /\ UNCHANGED <<proc, event, said, late, records, degraded, safe, tries, result>>

\* The end of the polling loop.  With nothing to wait for, converge_class ends.
PollEnd ==
  /\ at.op = "poll" /\ at.j > Len(Manifest)
  /\ IF at.pending
     THEN at' = LaunchClass("CORE") /\ UNCHANGED safe
     ELSE CoreEnd
  /\ UNCHANGED <<state, proc, event, said, late, records, degraded, tries, result>>

-----------------------------------------------------------------------------
(* init_rollback_run.                                                       *)

TopFirst == Head(records)

Top == records[Len(records)]

Popped == SubSeq(records, 1, Len(records) - 1)

\* stub_rollback does nothing and succeeds
RollbackStub ==
  /\ at.op = "rollback" /\ records /= <<>> /\ Top \notin Bootstrap
  /\ records' = Popped
  /\ state' = [state EXCEPT ![Top] = "DISABLED"]
  /\ UNCHANGED <<proc, event, said, late, at, degraded, safe, tries, result>>

\* bharat_bootstrap_stop: TERMINATE, a yield, REAP.  The scheduler may refuse to
\* end a thread that it does not find, and the process cannot be destroyed while
\* one of its threads has not been reaped.
Terminate ==
  /\ at.op = "rollback" /\ records /= <<>> /\ Top \in Bootstrap
  /\ \/ /\ proc' = [proc EXCEPT ![Top] = "stopped"]
        /\ Goto("reap")
        /\ UNCHANGED <<state, records>>
     \/ /\ records' = Popped
        /\ state' = [state EXCEPT ![Top] = "FAILED"]
        /\ UNCHANGED <<proc, at>>
  /\ UNCHANGED <<event, said, late, degraded, safe, tries, result>>

\* the state a service is given for the answer to its compensation
CompensatedAlways(ok) == "DISABLED"

Compensated(ok) == IF ok THEN "DISABLED" ELSE "FAILED"

Reap ==
  /\ at.op = "reap"
  /\ \E ok \in BOOLEAN :
       /\ proc' = IF ok THEN [proc EXCEPT ![Top] = "gone"] ELSE proc
       /\ state' = [state EXCEPT ![Top] = Compensated(ok)]
  /\ records' = Popped
  /\ Goto("rollback")
  /\ UNCHANGED <<event, said, late, degraded, safe, tries, result>>

RollbackEnd ==
  /\ at.op = "rollback" /\ records = <<>>
  /\ Return("FAILED")
  /\ UNCHANGED <<state, proc, event, said, late, records, degraded, safe, tries>>

-----------------------------------------------------------------------------
(* The end of init_runtime_run.                                             *)

\* no supervisor in the graph: init keeps the lifecycle authority
Retain ==
  /\ at.op = "handoff" /\ state[Supervisor] = "UNUSED"
  /\ Return(IF degraded THEN "QUIESCENT" ELSE "RETAINED")
  /\ UNCHANGED <<state, proc, event, said, late, records, degraded, safe, tries>>

\* another attempt may follow this one
MoreTries == tries < HandoffRetries

\* One attempt of the hand-over.  The supervisor is not found, refuses, does not
\* answer, or accepts; only a refusal ends the retries early.
Handoff ==
  /\ at.op = "handoff" /\ state[Supervisor] /= "UNUSED"
  /\ tries' = tries + 1
  /\ \E answer \in {"ENOENT", "EPERM", "EIO", "OK"} :
       /\ answer = "OK" => proc[Supervisor] = "running"
       /\ \/ /\ answer = "OK"
             /\ Return(IF degraded THEN "FAILED" ELSE "HANDOFF_COMPLETE")
             /\ UNCHANGED degraded
          \/ /\ answer \in {"ENOENT", "EIO"} /\ MoreTries
             /\ UNCHANGED <<at, degraded, result>>
          \/ /\ answer = "ENOENT" /\ ~ MoreTries
             /\ Return("QUIESCENT")
             /\ degraded' = TRUE
          \/ /\ answer = "EPERM" \/ (answer = "EIO" /\ ~ MoreTries)
             /\ Return("FAILED")
             /\ UNCHANGED degraded
  /\ UNCHANGED <<state, proc, event, said, late, records, safe>>

-----------------------------------------------------------------------------
(* The children.                                                            *)

\* bharat_bootstrap_report: BOUND, then READY, or FAILED instead of either; the
\* call blocks while the endpoint holds a message
Report(s) ==
  /\ proc[s] = "running" /\ s \in Reporting /\ said[s] < 2
  /\ event[s] = "none"
  /\ \/ /\ event' = [event EXCEPT ![s] = IF said[s] = 0 THEN "BOUND" ELSE "READY"]
        /\ said' = [said EXCEPT ![s] = @ + 1]
        /\ UNCHANGED proc
     \/ /\ event' = [event EXCEPT ![s] = "FAILED"]
        /\ proc' = [proc EXCEPT ![s] = "exited"]
        /\ UNCHANGED said
  /\ UNCHANGED <<state, late, records, at, degraded, safe, tries, result>>

\* a process crashes, or returns because it could not report
Exit(s) ==
  /\ proc[s] = "running"
  /\ proc' = [proc EXCEPT ![s] = "exited"]
  /\ UNCHANGED <<state, event, said, late, records, at, degraded, safe, tries, result>>

\* the deadline of a service that is being waited for passes
Expire(s) ==
  /\ state[s] \in {"SPAWNED", "BOUND"} /\ ~ late[s]
  /\ late' = [late EXCEPT ![s] = TRUE]
  /\ UNCHANGED <<state, proc, event, said, records, at, degraded, safe, tries, result>>

Launch(s) == LaunchWait(s) \/ Launched(s) \/ LaunchFailed(s)

InitStep ==
  \/ Select \/ LaunchEnd \/ Check \/ PollSkip \/ Poll \/ Deadline \/ PollEnd
  \/ RollbackStub \/ Terminate \/ Reap \/ RollbackEnd \/ Retain \/ Handoff
  \/ \E s \in Services : Launch(s)

Next ==
  \/ InitStep
  \/ \E s \in Services : Report(s) \/ Exit(s) \/ Expire(s)

Spec == Init /\ [][Next]_vars

\* init's thread goes on, the clock does, and a running child that can report
\* does not wait for ever
FairSpec ==
  /\ Spec
  /\ WF_vars(InitStep)
  /\ \A s \in Services : WF_vars(Expire(s)) /\ WF_vars(Report(s))

-----------------------------------------------------------------------------
(* Properties.                                                              *)

\* Every variable has the values of its C counterpart.
TypeOK ==
  /\ records \in Seq(Services)
  /\ state \in [Services -> States]
  /\ proc \in [Services -> Processes]
  /\ event \in [Services -> Events]
  /\ said \in [Services -> 0..2] /\ late \in [Services -> BOOLEAN]
  /\ at \in [op : Ops, cls : {"CORE", "INFRA", "OPTIONAL", "LATE"},
             todo : SUBSET Services, j : 0..Len(Manifest)+1, pending : BOOLEAN]
  /\ degraded \in BOOLEAN /\ safe \in BOOLEAN
  /\ tries \in 0..HandoffRetries+1 /\ result \in Results

\* The fields have their types, and
\* a service that init counts as launched or READY stands on dependencies that
\* are READY: launching waits for their reports (deps_ready), READY is not taken
\* back while somebody depends on it, and a roll-back starts with the service
\* that was launched last.
DependenciesHeld ==
  TypeOK /\ \A s \in Services : state[s] \in {"SPAWNED", "BOUND", "READY"} =>
                        \A d \in Deps[s] : state[d] = "READY"

\* A boot that does not end as failed has a CORE class in which every required
\* service is READY because its own process said so, BOUND and READY, before its
\* deadline was found to have passed; no required service of any class is FAILED.
HealthyCore ==
  result \notin {"NONE", "FAILED"} =>
    /\ \A s \in InClass("CORE") \cap Required : state[s] = "READY" /\ said[s] = 2
    /\ \A s \in Required : state[s] /= "FAILED"

\* After a roll-back a service that the kernel launched for init is gone, or it is
\* FAILED: a compensation that did not succeed stays visible (init_rollback_run).
CompensationVisible ==
  safe /\ result = "FAILED" =>
    \A s \in Bootstrap : proc[s] \in {"none", "gone"} \/ state[s] = "FAILED"

\* The boot ends, whatever the children do: a silent one runs into its deadline,
\* and a wait without anything to wait for is left (converge_class).
BootEnds == <>(at.op = "end")

-----------------------------------------------------------------------------
(* What the documentation says and the code does not do.                    *)

\* A service that was rolled back does not run any more ("Rollback requests
\* termination/deferred reap; failed compensation reports FAILED",
\* docs/adr/ADR-036-bootstrap-service-readiness.md:81).  stub_rollback stops nothing.
DisabledStopped == \A s \in Services : state[s] = "DISABLED" => proc[s] \notin {"running", "created"}

\* A boot is reported as stable only when every required service is READY
\* ("Required failures stop graph progression and prevent healthy handoff
\* markers", ADR-036:80).  The INFRA class is launched and not polled.
RequiredReady ==
  result \in {"RETAINED", "HANDOFF_COMPLETE"} =>
    \A s \in Required : state[s] \in {"UNUSED", "READY"}

\* The failure of an optional service makes the boot degraded
\* (docs/adr/ADR-039-hybrid-shared-memory-multikernel-concurrency.md:96).  The
\* CORE class is not asked for optional failures.
OptionalRecorded ==
  result \in {"RETAINED", "HANDOFF_COMPLETE"} => \A s \in Services : state[s] /= "FAILED"

\* In a boot that does not fail, a child gets its reports through.  The CORE class
\* stops polling when its required services are READY, and an optional one then
\* blocks in its second report.
ReportsReturn ==
  \A s \in Reporting : (state[s] = "SPAWNED" /\ proc[s] = "running")
                         ~> (said[s] = 2 \/ proc[s] /= "running" \/ safe)
=============================================================================
