--------------------------- MODULE ServiceManager ---------------------------
(***************************************************************************)
(* The service supervisor (core/services/servicemgr) with its launcher,    *)
(* the process table of the process manager that the launcher calls        *)
(* (interface version 0 of process_manager.c), init, which hands the       *)
(* service graph over, and the service processes, which report their       *)
(* health.                                                                 *)
(*                                                                         *)
(* The supervisor is one event loop: a pass of servicemgr_check_health     *)
(* over the instances, one step each (the pass blocks in calls to the      *)
(* process manager), then one message.  A call may be lost, or carried out *)
(* without its answer arriving in time.  The code compares times with the  *)
(* present only, so a time is kept as its distance from it.                *)
(***************************************************************************)
EXTENDS Integers, Sequences, FiniteSets, FiniteSetsExt, Functions

CONSTANTS Setups,          \* instances: see SetupType
          MaxServices,     \* MAX_SERVICES
          MaxProcesses,    \* MAX_PROCESSES of the process manager
          HeartbeatTimeout, InitialBackoff, MaxBackoff, MaxRestarts,
          HandoffRetries,  \* handoff_retry_count of init's profile
          ExitReported     \* whether the exit of a process reaches its table

Policies == {"none", "always", "bounded"}
Health == {"DECLARED", "SPAWNED", "BOUND", "READY", "DEGRADED", "FAILED", "STOPPED"}
Records == [deps : SUBSET (1..MaxServices), policy : Policies, critical : BOOLEAN,
            deadline : 0..HeartbeatTimeout, limit : 0..MaxRestarts]

(* An instance: the graph init hands over, what may become of a call that  *)
(* is not answered, what is asked of the supervisor, and what the          *)
(* processes report.                                                       *)
SetupType(n) == [graph : [1..n -> [rec : Records, pid : Nat]],
                 losses : SUBSET {"lost", "silent"},
                 admin : SUBSET {"start", "stop", "register"}, reports : SUBSET Health]

ASSUME ServiceAssumption ==
    /\ {MaxServices, MaxProcesses, HeartbeatTimeout, InitialBackoff} \subseteq Nat \ {0}
    /\ MaxBackoff \in Nat /\ InitialBackoff <= MaxBackoff
    /\ {MaxRestarts, HandoffRetries} \subseteq Nat /\ ExitReported \in BOOLEAN
    /\ \A s \in Setups : s \in SetupType(Len(s.graph)) /\ Len(s.graph) \in 1..MaxServices

VARIABLES inst,         \* service_instances
          at,           \* position of the pass; 0: waiting for a message
          stab,         \* stable_reached, stable_window_active and the window
          handoff,      \* handoff_begun, handoff_committed, handoff_record_count
          env,          \* the instance
          init,         \* init: its position, attempts and lost calls
          proc,         \* process_table of the process manager
          alive,        \* processes that run
          who,          \* service and incarnation a process was started for
          mail,         \* health update of a process, on its way
          orphans,      \* processes whose start was never answered
          readied       \* processes that have reported READY

pm == <<proc, alive, who, orphans>>
vars == <<inst, at, stab, handoff, env, init, pm, mail, readied>>

graph == env.graph
Losses == env.losses
Ids == 1..MaxServices
Window == 2 * HeartbeatTimeout        \* STABILITY_WINDOW_NS
Active == {"STARTING", "RUNNING", "DEGRADED"}
States == Active \cup {"ABSENT", "CREATED", "STOPPING", "STOPPED", "FAILED", "BACKOFF"}

(* A process is named by the table that numbers it: init's children carry  *)
(* the kernel's numbers, the others the process manager's.  An instance    *)
(* holds the bare number.                                                  *)
KernelPids == (UNION {{s.graph[i].pid : i \in DOMAIN s.graph} : s \in Setups}) \ {0}
Procs == {<<"kernel", n>> : n \in KernelPids} \cup {<<"pm", n>> : n \in 1..MaxProcesses}
Nobody == [svc |-> 0, inc |-> 0]
NoMail == "none"

EmptyRec == [deps |-> {}, policy |-> "none", critical |-> FALSE, deadline |-> 0, limit |-> 0]
Instance(rec, state, pid, health) ==
    [state |-> state, pid |-> pid, inc |-> IF pid = 0 THEN 0 ELSE 1, health |-> health,
     stopreq |-> FALSE, age |-> 0, wait |-> 0, backoff |-> InitialBackoff,
     restarts |-> 0, rec |-> rec]
Absent == Instance(EmptyRec, "ABSENT", 0, "DECLARED")
Unstable == [reached |-> FALSE, active |-> FALSE, age |-> 0]
Present == {i \in Ids : inst[i].state # "ABSENT"}
Critical == {i \in Present : inst[i].rec.critical}

(* One type invariant.                                                     *)
TypeOK ==
    /\ inst \in [Ids -> [state : States, pid : KernelPids \cup 0..MaxProcesses,
                         inc : 0..MaxProcesses + 1, health : Health, stopreq : BOOLEAN,
                         age : 0..HeartbeatTimeout + 1, wait : 0..MaxBackoff, backoff : InitialBackoff..MaxBackoff,
                         restarts : 0..MaxRestarts, rec : Records]]
    /\ at \in 0..MaxServices + 1
    /\ stab \in [reached : BOOLEAN, active : BOOLEAN, age : 0..Window]
    /\ handoff \in [begun : BOOLEAN, committed : BOOLEAN, count : 0..MaxServices]
    /\ env \in Setups
    /\ init \in [next : 0..MaxServices + 1, tries : 0..HandoffRetries,
                 faults : 0..HandoffRetries + 1, result : {"busy", "complete", "failed"}]
    /\ proc \in [1..MaxProcesses -> {"FREE", "CREATED", "RUNNING", "STOPPING", "EXITED"}]
    /\ alive \subseteq Procs /\ orphans \subseteq Procs /\ readied \subseteq Procs
    /\ who \in [Procs -> [svc : 0..MaxServices, inc : 0..MaxProcesses + 1]]
    /\ mail \in [Procs -> Health \cup {NoMail}]

Init ==
    /\ inst = [i \in Ids |-> Absent] /\ at = 1 /\ stab = Unstable
    /\ handoff = [begun |-> FALSE, committed |-> FALSE, count |-> 0]
    /\ env \in Setups
    /\ init = [next |-> 0, tries |-> 0, faults |-> 0, result |-> "busy"]
    /\ proc = [n \in 1..MaxProcesses |-> "FREE"]
    /\ alive = {<<"kernel", graph[i].pid>> : i \in {j \in DOMAIN graph : graph[j].pid # 0}}
    /\ who = [q \in Procs |->
                IF q \in alive
                THEN [svc |-> CHOOSE i \in DOMAIN graph : q = <<"kernel", graph[i].pid>>, inc |-> 1]
                ELSE Nobody]
    /\ mail = [q \in Procs |-> NoMail]
    /\ orphans = {} /\ readied = {}

---------------------------------------------------------------------------
(* Shared pieces of the supervisor.                                        *)

(* set_state: a critical service that is not RUNNING ends stability.       *)
InvalidatedKeepsWindow(i) ==
    stab' = IF inst'[i].rec.critical /\ inst'[i].state # "RUNNING"
            THEN [stab EXCEPT !.reached = FALSE] ELSE stab
Invalidated(i) ==
    stab' = IF inst'[i].rec.critical /\ inst'[i].state # "RUNNING" THEN Unstable ELSE stab

(* The process manager's handlers for CREATE, START, STOP and QUERY; table *)
(* entries are never freed and numbers only grow, so the number is the     *)
(* slot.  A stop is refused unless the process is RUNNING.                 *)
CreateSlots == {n \in 1..MaxProcesses : /\ proc[n] = "FREE"
                                        /\ \A m \in 1..n - 1 : proc[m] # "FREE"}
StopOk(n) == n \in 1..MaxProcesses /\ proc[n] = "RUNNING"
QueryExited(n) == n \in 1..MaxProcesses /\ proc[n] = "EXITED"

(* pm_spawn: CREATE, then START.  If one of the two is not answered, what  *)
(* has been carried out stays: nothing, a process that is not started, or  *)
(* one that runs and that nobody knows.                                    *)
Started(i, n, inc) ==
    /\ proc' = [proc EXCEPT ![n] = "RUNNING"]
    /\ alive' = alive \cup {<<"pm", n>>}
    /\ who' = [who EXCEPT ![<<"pm", n>>] = [svc |-> i, inc |-> inc]]
NotStarted(fate) ==
    \/ (fate = "lost" \/ (fate = "answered" /\ CreateSlots = {})) /\ UNCHANGED pm
    \/ fate # "answered" /\ \E n \in CreateSlots : proc' = [proc EXCEPT ![n] = "CREATED"]
       /\ UNCHANGED <<alive, who, orphans>>
Spawn(i, r, fate) ==
    \/ /\ fate = "answered"
       /\ \E n \in CreateSlots :
            /\ Started(i, n, r.inc + 1)
            /\ inst' = [inst EXCEPT ![i] =
                          [r EXCEPT !.state = "STARTING", !.pid = n, !.inc = @ + 1,
                                    !.health = "SPAWNED", !.stopreq = FALSE, !.age = 0]]
       /\ UNCHANGED orphans
    \/ /\ \/ NotStarted(fate)
          \/ /\ fate = "silent"
             /\ \E n \in CreateSlots : /\ Started(i, n, r.inc + 1)
                                       /\ orphans' = orphans \cup {<<"pm", n>>}
       /\ inst' = [inst EXCEPT ![i] = [r EXCEPT !.state = "FAILED"]]

(* start_service, up to the call of the launcher.                          *)
StartableBesideProcess(r) ==
    /\ r.state \in {"CREATED", "STOPPED", "BACKOFF", "FAILED"}
    /\ \A d \in r.rec.deps : d \in Present /\ inst[d].state = "RUNNING"
StartableNoBackoff(r) ==
    /\ r.state \in {"CREATED", "STOPPED", "FAILED"} /\ r.pid = 0
    /\ \A d \in r.rec.deps : d \in Present /\ inst[d].state = "RUNNING"
Startable(r) ==
    /\ r.state \in {"CREATED", "STOPPED", "BACKOFF", "FAILED"}
    /\ r.pid = 0
    /\ \A d \in r.rec.deps : d \in Present /\ inst[d].state = "RUNNING"

---------------------------------------------------------------------------
(* servicemgr_check_health, one instance.                                  *)

(* The query that proves the exit of a process that was asked to stop.     *)
ExitProvedStopping(r) ==
    IF r.state # "STOPPING" THEN r
    ELSE [r EXCEPT !.pid = 0, !.stopreq = FALSE, !.state = "STOPPED"]
ExitProved(r) ==
    [r EXCEPT !.pid = 0, !.stopreq = FALSE,
              !.state = IF @ = "STOPPING" THEN "STOPPED" ELSE @]

(* Silence for longer than the time-out is a failure.  `age` is the time   *)
(* since last_start_ns while STARTING, since last_heartbeat_ns later.      *)
TimedStartingOnly(r) ==
    IF r.state = "STARTING" /\ r.age > HeartbeatTimeout
    THEN [r EXCEPT !.state = "FAILED", !.age = 0] ELSE r
Timed(r) ==
    LET limit == IF r.state = "STARTING" /\ r.rec.deadline # 0
                 THEN r.rec.deadline ELSE HeartbeatTimeout
    IN IF r.state \in Active /\ r.age > limit
       THEN [r EXCEPT !.state = "FAILED", !.age = 0] ELSE r

Retries(r) == \/ r.rec.policy = "always"
              \/ r.rec.policy = "bounded" /\ r.restarts < r.rec.limit

(* Back-off: the next attempt is `backoff` away, and the one after it      *)
(* twice as far, up to the maximum.  The count only matters up to a limit. *)
BackedOff(r) ==
    [r EXCEPT !.state = "BACKOFF", !.restarts = Min({@ + 1, MaxRestarts}),
              !.wait = r.backoff,
              !.backoff = IF @ > MaxBackoff \div 2 THEN MaxBackoff ELSE 2 * @]

Keep(i, r) == inst' = [inst EXCEPT ![i] = r] /\ UNCHANGED pm

(* The request to stop the process of a failed instance.                   *)
AskStop(i, r, fate) ==
    /\ inst' = [inst EXCEPT ![i] =
                  [r EXCEPT !.stopreq = fate = "answered" /\ StopOk(r.pid)]]
    /\ proc' = IF fate # "lost" /\ StopOk(r.pid)
               THEN [proc EXCEPT ![r.pid] = "STOPPING"] ELSE proc
    /\ UNCHANGED <<alive, who, orphans>>

(* A failed instance whose process is gone waits for its next attempt; one *)
(* that still has a process is asked to stop it and waits for the proof.   *)
Recover(i, r, fate) ==
    IF r.pid = 0 THEN Keep(i, BackedOff(r))
    ELSE IF r.stopreq THEN Keep(i, r)
    ELSE AskStop(i, r, fate)

CheckInstance(fate) ==
    /\ at \in Present
    /\ LET r0 == inst[at]
           r1 == IF /\ r0.stopreq /\ r0.pid # 0
                    /\ fate = "answered" /\ QueryExited(r0.pid)
                 THEN ExitProved(r0) ELSE r0
           r2 == Timed(r1)
       IN IF r2.state = "FAILED"
          THEN IF Retries(r2) THEN Recover(at, r2, fate) ELSE Keep(at, r2)
          ELSE IF r2.state = "BACKOFF" /\ r2.wait = 0 /\ Startable(r2)
          THEN Spawn(at, r2, fate)
          ELSE Keep(at, r2)
    /\ Invalidated(at)
    /\ at' = at + 1
    /\ UNCHANGED <<handoff, env, init, mail, readied>>

(* The end of the pass: the stability window.                              *)
CheckStability ==
    /\ at \notin Present /\ at # 0
    /\ at' = 0
    /\ stab' = IF ~handoff.committed \/ Critical = {}
                  \/ \E i \in Critical : inst[i].state # "RUNNING" THEN Unstable
               ELSE IF ~stab.active THEN [reached |-> FALSE, active |-> TRUE, age |-> 0]
               ELSE [stab EXCEPT !.reached = @ \/ stab.age >= Window]
    /\ UNCHANGED <<inst, handoff, env, init, pm, mail, readied>>

---------------------------------------------------------------------------
(* One message per turn of the loop.                                       *)
Turn == at = 0 /\ at' = 1

RecvNothing == Turn /\ UNCHANGED <<inst, stab, handoff, env, init, pm, mail, readied>>

(* servicemgr_handle_health_update.                                        *)
Legal(r, to) ==
    IF to = "STOPPED" THEN r.state = "STOPPING"
    ELSE \/ to = r.health \/ to = "FAILED"
         \/ <<r.health, to>> \in {<<"DECLARED", "SPAWNED">>, <<"SPAWNED", "BOUND">>,
              <<"BOUND", "READY">>, <<"READY", "DEGRADED">>, <<"DEGRADED", "READY">>}
StateFor(r, to) == CASE to = "READY" -> "RUNNING" [] to = "DEGRADED" -> "DEGRADED"
                     [] to = "FAILED" -> "FAILED" [] to = "STOPPED" -> "STOPPED"
                     [] OTHER -> r.state
AuthenticAny(r, q) == handoff.committed
Authentic(r, q) ==
    /\ r.pid = q[2] /\ r.inc = who[q].inc   \* sender, process and incarnation
    /\ handoff.committed                    \* boot_session_id is not zero
HealthUpdate(q) ==
    /\ mail[q] # NoMail
    /\ LET i == who[q].svc
           r == inst[i]
           to == mail[q]
       IN IF /\ i \in Present /\ Authentic(r, q) /\ Legal(r, to)
             /\ r.state \in Active \cup {"STOPPING"}
          THEN /\ inst' = [inst EXCEPT ![i] =
                             [r EXCEPT !.health = to, !.state = StateFor(r, to),
                                       !.age = IF StateFor(r, to) = "STARTING" THEN @ ELSE 0]]
               /\ Invalidated(i)
          ELSE UNCHANGED <<inst, stab>>
    /\ mail' = [mail EXCEPT ![q] = NoMail]
    /\ Turn /\ UNCHANGED <<handoff, env, init, pm, readied>>

(* servicemgr_handle_start: a service that is active already is left as it *)
(* is, and so is one that may not be started.                              *)
HandleStart(i, fate) ==
    /\ i \in Present /\ Startable(inst[i])
    /\ Spawn(i, inst[i], fate) /\ Invalidated(i)
    /\ Turn /\ UNCHANGED <<handoff, env, init, mail, readied>>

(* servicemgr_handle_stop.                                                 *)
HandleStop(i, fate) ==
    /\ i \in Present /\ inst[i].state \in Active /\ inst[i].pid # 0
    /\ LET ok == fate = "answered" /\ StopOk(inst[i].pid)
       IN /\ inst' = IF ok THEN [inst EXCEPT ![i].state = "STOPPING", ![i].stopreq = TRUE,
                                            ![i].age = 0]
                     ELSE inst
          /\ proc' = IF fate # "lost" /\ StopOk(inst[i].pid)
                     THEN [proc EXCEPT ![inst[i].pid] = "STOPPING"] ELSE proc
    /\ Invalidated(i)
    /\ Turn /\ UNCHANGED <<handoff, env, init, alive, who, orphans, mail, readied>>

(* servicemgr_handle_register: a new name gets the number after the last.  *)
HandleRegister(policy, critical) ==
    /\ Cardinality(Present) < MaxServices
    /\ inst' = [inst EXCEPT ![Cardinality(Present) + 1] =
                  Instance([EmptyRec EXCEPT !.policy = policy, !.critical = critical,
                                            !.limit = MaxRestarts],
                           "CREATED", 0, "DECLARED")]
    /\ Turn /\ UNCHANGED <<stab, handoff, env, init, pm, mail, readied>>

---------------------------------------------------------------------------
(* The hand-over.  init sends BEGIN, a record per service and COMMIT, each *)
(* as a call, and starts over when a call fails, up to its retries.        *)
Answered(fate, ok, next) ==
    init' = IF ok /\ fate = "answered" THEN next
            ELSE LET faults == init.faults + IF fate = "answered" THEN 0 ELSE 1 IN
                 IF init.tries < HandoffRetries
                 THEN [init EXCEPT !.next = 0, !.tries = @ + 1, !.faults = faults]
                 ELSE [init EXCEPT !.result = "failed", !.faults = faults]

(* servicemgr_stage_begin: the session must not be the active one.         *)
StageBeginKeepsCount(fate) ==
    /\ init.next = 0
    /\ LET ok == ~handoff.committed IN
       /\ handoff' = IF fate = "lost" THEN handoff
                     ELSE [handoff EXCEPT !.begun = ok]
       /\ Answered(fate, ok, [init EXCEPT !.next = 1])
    /\ UNCHANGED <<inst, stab>>
StageBegin(fate) ==
    /\ init.next = 0
    /\ LET ok == ~handoff.committed IN
       /\ handoff' = IF fate = "lost" THEN handoff
                     ELSE [handoff EXCEPT !.begun = ok, !.count = 0]
       /\ Answered(fate, ok, [init EXCEPT !.next = 1])
    /\ UNCHANGED <<inst, stab>>

(* servicemgr_stage_service: records arrive in order; anything wrong       *)
(* discards the stage.                                                     *)
StageService(fate) ==
    /\ init.next \in DOMAIN graph
    /\ LET ok == handoff.begun /\ handoff.count = init.next - 1 IN
       /\ handoff' = IF fate = "lost" THEN handoff
                     ELSE IF ok THEN [handoff EXCEPT !.count = @ + 1]
                     ELSE [handoff EXCEPT !.begun = FALSE, !.count = 0]
       /\ Answered(fate, ok, [init EXCEPT !.next = @ + 1])
    /\ UNCHANGED <<inst, stab>>

(* servicemgr_stage_commit: a graph with a missing or circular dependency  *)
(* is refused; an adopted process is STARTING until it reports.            *)
Resolves(g) ==
    \E order \in {f \in [DOMAIN g -> DOMAIN g] : IsInjective(f)} :
       \A i \in DOMAIN g : \A d \in g[i].rec.deps : d \in DOMAIN g /\ order[d] < order[i]
Adopted(g, i) ==
    IF g[i].pid = 0 THEN Instance(g[i].rec, "CREATED", 0, "DECLARED")
    ELSE Instance(g[i].rec, "STARTING", g[i].pid, "SPAWNED")
StageCommit(fate) ==
    /\ init.next = Len(graph) + 1
    /\ LET ok == handoff.begun /\ handoff.count = Len(graph) /\ Resolves(graph)
       IN /\ IF ok /\ fate # "lost"
             THEN /\ inst' = [i \in Ids |-> IF i \in DOMAIN graph THEN Adopted(graph, i)
                                            ELSE Absent]
                  /\ stab' = Unstable
             ELSE UNCHANGED <<inst, stab>>
          /\ handoff' = IF fate = "lost" THEN handoff
                        ELSE [begun |-> FALSE, count |-> 0,
                              committed |-> handoff.committed \/ ok]
          /\ Answered(fate, ok, [init EXCEPT !.result = "complete"])

Handover(fate) ==
    /\ init.result = "busy"
    /\ StageBegin(fate) \/ StageService(fate) \/ StageCommit(fate)
    /\ Turn /\ UNCHANGED <<env, pm, mail, readied>>

---------------------------------------------------------------------------
(* The processes and the clock.                                            *)

(* A process reports; its next report waits until this one is taken.       *)
Report(q, h) ==
    /\ q \in alive /\ mail[q] = NoMail
    /\ mail' = [mail EXCEPT ![q] = h]
    /\ readied' = IF h = "READY" THEN readied \cup {q} ELSE readied
    /\ UNCHANGED <<inst, at, stab, handoff, env, init, pm>>

(* A process ends, of itself or because it was asked to.                   *)
Exit(q) ==
    /\ q \in alive
    /\ alive' = alive \ {q}
    /\ proc' = IF ExitReported /\ q[1] = "pm" THEN [proc EXCEPT ![q[2]] = "EXITED"] ELSE proc
    /\ UNCHANGED <<inst, at, stab, handoff, env, init, who, orphans, mail, readied>>

(* Time passes while the loop waits.                                       *)
Older(t, cap) == Min({t + 1, cap})
Tick ==
    /\ at = 0
    /\ inst' = [i \in Ids |->
                  [inst[i] EXCEPT !.age = IF inst[i].state \in Active
                                          THEN Older(@, HeartbeatTimeout + 1) ELSE @,
                                  !.wait = Max({@ - 1, 0})]]
    /\ stab' = IF stab.active THEN [stab EXCEPT !.age = Older(@, Window)] ELSE stab
    /\ UNCHANGED <<at, handoff, env, init, pm, mail, readied>>

Fates == Losses \cup {"answered"}
Poll == CheckStability \/ RecvNothing \/ \E fate \in Fates : CheckInstance(fate)
Admin == /\ handoff.committed
         /\ \/ "start" \in env.admin /\ \E i \in Ids, fate \in Fates : HandleStart(i, fate)
            \/ "stop" \in env.admin /\ \E i \in Ids, fate \in Fates : HandleStop(i, fate)
            \/ "register" \in env.admin /\ \E p \in Policies, c \in BOOLEAN : HandleRegister(p, c)
Next ==
    \/ Poll \/ Admin \/ Tick
    \/ \E fate \in Fates : Handover(fate)
    \/ \E q \in Procs : HealthUpdate(q) \/ Exit(q) \/ \E h \in env.reports : Report(q, h)

Spec == Init /\ [][Next]_vars

(* The loop goes on, time passes, a process that was asked to stop ends,   *)
(* and a supervisor that keeps calling is answered at times.               *)
FairSpec ==
    /\ Spec /\ WF_vars(Poll) /\ SF_vars(Tick)
    /\ \A i \in Ids : SF_vars(at = i /\ CheckInstance("answered"))
    /\ \A n \in 1..MaxProcesses : WF_vars(proc[n] = "STOPPING" /\ Exit(<<"pm", n>>))

---------------------------------------------------------------------------
(* The fields have their types, and                                        *)
(* a service has at most one running process, apart from those whose start *)
(* was carried out and not answered: a replacement is spawned only when    *)
(* the exit of the old process was proved (servicemgr.c:332-360), whatever *)
(* stops, failures, lost answers and late reports come in between.         *)
OneProcess ==
    TypeOK /\ \A i \in Present :
       /\ Cardinality({q \in alive \ orphans : who[q].svc = i}) <= 1
       /\ inst[i].pid = 0 => ~\E q \in alive \ orphans : who[q].svc = i

(* A service counts as RUNNING only after its present process has itself   *)
(* reported READY: a report of an earlier incarnation, taken late, never   *)
(* makes its successor RUNNING (servicemgr.c:232-236).                     *)
RunningReported ==
    \A i \in Present : inst[i].state = "RUNNING" =>
       \E q \in readied \ orphans : /\ who[q] = [svc |-> i, inc |-> inst[i].inc]
                                   /\ inst[i].pid \in {0, q[2]}

(* STABLE is reached only after every critical service has been RUNNING    *)
(* without interruption for the whole window (servicemgr.c:76-80,378-388). *)
StableEarned ==
    /\ stab.reached => stab.active /\ stab.age = Window
    /\ stab.active => \A i \in Critical : inst[i].state \in {"RUNNING", "CREATED"}

(* A lost call costs init one attempt and no more: a new attempt is not    *)
(* refused because of what an earlier one has left behind, unless that one *)
(* was committed (servicemgr.c:391-420, init_runtime.c:401-404).           *)
RetryStartsAfresh ==
    init.result = "failed" => handoff.committed \/ init.faults > HandoffRetries

(* A process that ends is noticed: a service does not stay active without  *)
(* its process, though reports of the process may still be under way       *)
(* (servicemgr.c:338-344).                                                 *)
CrashNoticed ==
    \A i \in Ids :
       (/\ inst[i].state \in Active
        /\ ~\E q \in alive : q[2] = inst[i].pid /\ who[q] = [svc |-> i, inc |-> inst[i].inc])
       ~> inst[i].state \notin Active

(* An accepted stop is completed: once the process was asked to stop, its  *)
(* exit is proved and the instance lets go of it (servicemgr.c:327-337).   *)
StopCompletes ==
    \A i \in Ids : inst[i].stopreq ~> (inst[i].pid = 0 \/ ~inst[i].stopreq)

(* The restart of a service whose process is gone goes on until it is      *)
(* started, its retries are used up, or a dependency or the process table  *)
(* stands in the way (servicemgr.c:345-372).                               *)
RestartGoesOn ==
    \A i \in Ids :
       (\/ inst[i].state = "FAILED" /\ inst[i].pid = 0 /\ Retries(inst[i])
        \/ inst[i].state = "BACKOFF")
       ~> (\/ inst[i].state = "STARTING" \/ CreateSlots = {}
           \/ inst[i].state = "FAILED" /\ ~Retries(inst[i])
           \/ \E d \in inst[i].rec.deps : inst[d].state # "RUNNING")

(* A service that has failed and may be retried leaves FAILED: the         *)
(* supervisor "automatically restarts crashed services".                   *)
FailedRetried ==
    \A i \in Ids :
       (inst[i].state = "FAILED" /\ Retries(inst[i])) ~> inst[i].state # "FAILED"

(* A service that is being stopped ends up STOPPED or FAILED.              *)
StoppingEnds ==
    [][\A i \in Ids : inst[i].state = "STOPPING"
         => inst'[i].state \in {"STOPPING", "STOPPED", "FAILED"}]_vars

(* A restart never leaves two processes of a service, however calls fail.  *)
NoTwin == \A i \in Present : Cardinality({q \in alive : who[q].svc = i}) <= 1

(* init gives up the hand-over only if the supervisor has not taken over.  *)
HandoverAgreed == init.result = "failed" => ~handoff.committed

(* A process is asked to stop for the service it belongs to: while every   *)
(* call is answered, a STOPPING process is the one its own instance waits  *)
(* for.                                                                    *)
StopsOwn ==
    Losses = {} => \A n \in 1..MaxProcesses : proc[n] = "STOPPING" =>
       LET r == inst[who[<<"pm", n>>].svc] IN r.stopreq /\ r.pid = n
=============================================================================
