----------------------- MODULE ServiceManager_proofs -----------------------
(***************************************************************************)
(* The supervisor, for any service graphs, any number of services,         *)
(* processes, restarts and retries, and any times: one process per         *)
(* service, RUNNING and STABLE are earned, and a lost call of the          *)
(* hand-over costs one attempt.                                            *)
(***************************************************************************)
EXTENDS ServiceManager, FiniteSetTheorems, TLAPS

(* The numbers that the kernel gives to children of init are not numbers   *)
(* of the process manager.                                                 *)
NumbersApart == KernelPids \cap 1..MaxProcesses = {}

(* init hands over a graph that it has itself resolved (init_graph.c).     *)
GraphsResolve == \A s \in Setups : Resolves(s.graph)

Pids == KernelPids \cup 0..MaxProcesses
Incs == 0..MaxProcesses + 1
Whos == [svc : 0..MaxServices, inc : Incs]
PmStates == {"FREE", "CREATED", "RUNNING", "STOPPING", "EXITED"}
Insts == [state : States, pid : Pids, inc : Incs, health : Health, stopreq : BOOLEAN,
          age : 0..HeartbeatTimeout + 1, wait : 0..MaxBackoff,
          backoff : InitialBackoff..MaxBackoff, restarts : 0..MaxRestarts, rec : Records]

-----------------------------------------------------------------------------
(* Operators                                                               *)

(* The smaller and the larger of two numbers.                              *)
LEMMA MinOf ==
    ASSUME NEW a \in Int, NEW b \in Int
    PROVE  Min({a, b}) = IF a <= b THEN a ELSE b
<1>1. \E x \in {a, b} : \A y \in {a, b} : x <= y
  OBVIOUS
<1>2. Min({a, b}) \in {a, b} /\ \A y \in {a, b} : Min({a, b}) <= y
  BY <1>1, Zenon DEF Min
<1>3. PICK m : m = Min({a, b})
  BY Zenon
<1>4. m \in {a, b} /\ \A y \in {a, b} : m <= y
  BY <1>2, <1>3, Zenon
<1> QED
  BY <1>3, <1>4

(* The larger of two numbers.                                              *)
LEMMA MaxOf ==
    ASSUME NEW a \in Int, NEW b \in Int
    PROVE  Max({a, b}) = IF a >= b THEN a ELSE b
<1>1. \E x \in {a, b} : \A y \in {a, b} : x >= y
  OBVIOUS
<1>2. Max({a, b}) \in {a, b} /\ \A y \in {a, b} : Max({a, b}) >= y
  BY <1>1, Zenon DEF Max
<1>3. PICK m : m = Max({a, b})
  BY Zenon
<1>4. m \in {a, b} /\ \A y \in {a, b} : m >= y
  BY <1>2, <1>3, Zenon
<1> QED
  BY <1>3, <1>4

(* The sizes as the proofs need them.                                      *)
LEMMA Sizes ==
    /\ MaxServices \in Nat /\ MaxServices >= 1 /\ MaxProcesses \in Nat /\ MaxProcesses >= 1
    /\ HeartbeatTimeout \in Nat /\ HeartbeatTimeout >= 1
    /\ InitialBackoff \in Nat /\ InitialBackoff >= 1 /\ MaxBackoff \in Nat
    /\ InitialBackoff <= MaxBackoff
    /\ MaxRestarts \in Nat /\ HandoffRetries \in Nat /\ ExitReported \in BOOLEAN
BY ServiceAssumption

(* The graph of an instance.                                               *)
LEMMA Graphs ==
    ASSUME NEW s \in Setups
    PROVE  \E n \in 1..MaxServices :
             n = Len(s.graph) /\ s.graph \in [1..n -> [rec : Records, pid : Nat]]
BY ServiceAssumption, Zenon DEF SetupType

(* An instance as servicemgr_handle_register and servicemgr_stage_commit   *)
(* make it.                                                                *)
LEMMA InstanceTyped ==
    ASSUME NEW rec \in Records, NEW st \in States, NEW pid \in Pids, NEW h \in Health
    PROVE  /\ Instance(rec, st, pid, h) \in Insts
           /\ Instance(rec, st, pid, h).state = st /\ Instance(rec, st, pid, h).pid = pid
           /\ Instance(rec, st, pid, h).inc = IF pid = 0 THEN 0 ELSE 1
           /\ Instance(rec, st, pid, h).rec = rec
BY Sizes DEF Instance, Insts, Incs

(* An empty place of service_instances.                                    *)
LEMMA AbsentTyped == Absent \in Insts /\ Absent.state = "ABSENT" /\ Absent.inc = 0
<1>1. EmptyRec \in Records
  <2>1. {} \in SUBSET (1..MaxServices) /\ "none" \in Policies /\ FALSE \in BOOLEAN
    BY Zenon DEF Policies
  <2>2. 0 \in 0..HeartbeatTimeout /\ 0 \in 0..MaxRestarts
    BY Sizes
  <2> QED
    BY <2>1, <2>2, Zenon DEF EmptyRec, Records
<1>2. "ABSENT" \in States /\ 0 \in Pids /\ "DECLARED" \in Health
  BY Sizes DEF States, Pids, Health
<1> QED
  BY <1>1, <1>2, InstanceTyped DEF Absent

(* What a pass of servicemgr_check_health may make of an instance other    *)
(* than by a start: it may find that it has failed, and it may let go of   *)
(* the process.                                                            *)
Softened(r, s) ==
    /\ s \in Insts /\ s.inc = r.inc /\ s.rec = r.rec
    /\ (s.state = "ABSENT") <=> (r.state = "ABSENT")
    /\ (s.state = "RUNNING") => (r.state = "RUNNING")

(* The exit of a process lets go of it.                                    *)
LEMMA ExitProvedTyped ==
    ASSUME NEW r \in Insts
    PROVE  Softened(r, ExitProved(r)) /\ ExitProved(r).pid = 0
<1>1. PICK st : st = IF r.state = "STOPPING" THEN "STOPPED" ELSE r.state
  BY Zenon
<1>2. /\ st \in States /\ (st = "ABSENT" <=> r.state = "ABSENT")
      /\ st = "RUNNING" => r.state = "RUNNING"
  BY <1>1, Zenon DEF Insts, States, Active
<1>3. ExitProved(r) = [r EXCEPT !.pid = 0, !.stopreq = FALSE, !.state = st]
  BY <1>1, Zenon DEF ExitProved
<1>4. 0 \in Pids
  BY Sizes DEF Pids
<1> QED
  BY <1>2, <1>3, <1>4, Zenon DEF Insts, Softened

(* Silence makes an instance FAILED at most.                               *)
LEMMA TimedTyped ==
    ASSUME NEW r \in Insts
    PROVE  Softened(r, Timed(r)) /\ Timed(r).pid = r.pid
<1>1. Softened(r, r)
  BY Zenon DEF Softened
<1>2. CASE Timed(r) = r
  BY <1>1, <1>2, Zenon
<1>3. CASE Timed(r) = [r EXCEPT !.state = "FAILED", !.age = 0] /\ r.state \in Active
  <2>1. 0 \in 0..HeartbeatTimeout + 1 /\ "FAILED" \in States /\ r.state # "ABSENT"
    BY <1>3, Sizes DEF States, Active
  <2> QED
    BY <1>3, <2>1, Zenon DEF Insts, Softened
<1> QED
  BY <1>2, <1>3, Zenon DEF Timed

(* Back-off keeps the times and the count within their limits.             *)
LEMMA BackedOffTyped ==
    ASSUME NEW r \in Insts, r.state = "FAILED"
    PROVE  Softened(r, BackedOff(r)) /\ BackedOff(r).pid = r.pid
<1>0. r.restarts \in 0..MaxRestarts /\ r.backoff \in InitialBackoff..MaxBackoff
  BY Zenon DEF Insts
<1>1. PICK k : k = Min({r.restarts + 1, MaxRestarts})
  BY Zenon
<1>2. k \in 0..MaxRestarts
  BY <1>0, <1>1, MinOf, Sizes
<1>3. PICK b : b = IF r.backoff > MaxBackoff \div 2 THEN MaxBackoff ELSE 2 * r.backoff
  BY Zenon
<1>4. b \in InitialBackoff..MaxBackoff /\ r.backoff \in 0..MaxBackoff
  BY <1>0, <1>3, Sizes
<1>5. BackedOff(r) = [r EXCEPT !.state = "BACKOFF", !.restarts = k, !.wait = r.backoff, !.backoff = b]
  BY <1>1, <1>3, Zenon DEF BackedOff
<1>6. "BACKOFF" \in States
  BY Zenon DEF States
<1> QED
  BY <1>2, <1>4, <1>5, <1>6, ZenonT(30) DEF Insts, Softened

-----------------------------------------------------------------------------
(* The inductive invariant                                                 *)

TypedWorld ==
    /\ inst \in [Ids -> Insts] /\ env \in Setups
    /\ proc \in [1..MaxProcesses -> PmStates]
    /\ alive \subseteq Procs /\ orphans \subseteq Procs /\ readied \subseteq Procs
    /\ who \in [Procs -> Whos]
    /\ mail \in [Procs -> Health \cup {NoMail}]
(* A slot of the process table that was not started names no process, and  *)
(* a process that exited does not run; a READY on its way was sent.        *)
Table ==
    /\ \A n \in 1..MaxProcesses : proc[n] \in {"FREE", "CREATED"} =>
          /\ <<"pm", n>> \notin alive /\ <<"pm", n>> \notin orphans /\ <<"pm", n>> \notin readied
          /\ who[<<"pm", n>>] = Nobody
    /\ \A n \in 1..MaxProcesses : proc[n] = "EXITED" => <<"pm", n>> \notin alive
    /\ \A q \in Procs : mail[q] = "READY" => q \in readied

(* An incarnation costs a slot, so their number is bounded by the table.   *)
Used == {n \in 1..MaxProcesses : proc[n] # "FREE"}
Counted == \A i \in Ids : inst[i].inc <= 1 + Cardinality(Used)

(* Services are numbered without gaps, and there are none before the       *)
(* hand-over is committed; until then the only processes are init's.       *)
Before ==
    /\ \E n \in 0..MaxServices : Present = 1..n
    /\ ~handoff.committed =>
         /\ Present = {} /\ orphans = {} /\ \A n \in 1..MaxProcesses : proc[n] = "FREE"
         /\ \A q \in Procs : who[q].svc # 0 =>
               /\ who[q].inc = 1 /\ who[q].svc \in DOMAIN graph
               /\ q = <<"kernel", graph[who[q].svc].pid>>

(* Processes belong to services that exist.  An answered start is at most  *)
(* as recent as the instance; an unanswered one is not held by it.         *)
Belongs ==
    handoff.committed => \A q \in Procs : who[q].svc # 0 =>
       /\ who[q].svc \in Present
       /\ q \notin orphans => who[q].inc <= inst[who[q].svc].inc
       /\ q \in orphans => inst[who[q].svc].pid # q[2]

(* Two answered starts of a service have different incarnations.           *)
Unique == \A p, q \in Procs : p \notin orphans /\ q \notin orphans /\ who[p].svc # 0
              /\ who[p] = who[q] => p = q

(* A process that runs, other than an orphan, is held by its instance.     *)
Holder ==
    handoff.committed => \A q \in alive : q \notin orphans /\ who[q].svc # 0 =>
       who[q].inc = inst[who[q].svc].inc /\ inst[who[q].svc].pid = q[2]

(* init starts no orphans.                                                 *)
Orphaned == \A q \in orphans : \E n \in 1..MaxProcesses : q = <<"pm", n>>

World == TypedWorld /\ Table /\ Counted /\ Before /\ Belongs /\ Unique /\ Orphaned /\ RunningReported

-----------------------------------------------------------------------------
(* Steps that start no process                                             *)

(* An instance may turn RUNNING on the READY of its own process, and it    *)
(* lets go of a process only once its exit is proved.                      *)
Reported(j) == \E q \in readied : q \notin orphans
                  /\ who[q] = [svc |-> j, inc |-> inst[j].inc] /\ inst[j].pid = q[2]
Released(r, s) == s.pid = r.pid \/ (s.pid = 0 /\ QueryExited(r.pid))
Softer(j) ==
    /\ inst'[j].inc = inst[j].inc
    /\ (inst'[j].state = "ABSENT") <=> (inst[j].state = "ABSENT")
    /\ inst'[j].state = "RUNNING" => inst[j].state = "RUNNING" \/ Reported(j)
    /\ Released(inst[j], inst'[j])

(* What becomes of a slot of the process table.                            *)
Moved(n) ==
    \/ proc'[n] = proc[n]
    \/ proc[n] = "FREE" /\ proc'[n] = "CREATED"
    \/ proc[n] = "RUNNING" /\ proc'[n] = "STOPPING"
    \/ proc[n] \notin {"FREE", "CREATED"} /\ proc'[n] = "EXITED" /\ <<"pm", n>> \notin alive'

Calm ==
    /\ inst' \in [Ids -> Insts] /\ \A j \in Ids : Softer(j)
    /\ proc' \in [1..MaxProcesses -> PmStates] /\ \A n \in 1..MaxProcesses : Moved(n)
    /\ alive' \subseteq alive /\ who' = who /\ orphans' = orphans /\ env' = env
    /\ readied \subseteq readied' /\ readied' \subseteq readied \cup alive
    /\ mail' \in [Procs -> Health \cup {NoMail}]
    /\ \A q \in Procs : mail'[q] = "READY" => mail[q] = "READY" \/ q \in readied'
    /\ handoff'.committed = handoff.committed
    /\ ~handoff.committed => proc' = proc

(* A process has a number of the kernel or of the process manager, and 0   *)
(* is neither.                                                             *)
LEMMA ProcShape ==
    ASSUME NEW q \in Procs
    PROVE  /\ \/ \E n \in 1..MaxProcesses : q = <<"pm", n>>
              \/ \E n \in KernelPids : q = <<"kernel", n>>
           /\ q[2] # 0 /\ q[2] \in Pids
<1>1. CASE \E n \in 1..MaxProcesses : q = <<"pm", n>>
  <2>1. PICK n \in 1..MaxProcesses : q = <<"pm", n>>
    BY <1>1, Zenon
  <2>2. n # 0 /\ n \in 0..MaxProcesses
    BY Sizes
  <2>3. q[2] = n
    BY <2>1, Zenon
  <2> QED
    BY <1>1, <2>2, <2>3, Zenon DEF Pids
<1>2. CASE \E n \in KernelPids : q = <<"kernel", n>>
  <2>1. PICK n \in KernelPids : q = <<"kernel", n>>
    BY <1>2, Zenon
  <2>2. n # 0
    BY Zenon DEF KernelPids
  <2>3. q[2] = n
    BY <2>1, Zenon
  <2> QED
    BY <1>2, <2>2, <2>3, Zenon DEF Pids
<1> QED
  BY <1>1, <1>2, Zenon DEF Procs

(* Every slot of the process table can name a process.                     *)
LEMMA PmProc ==
    ASSUME NEW n \in 1..MaxProcesses
    PROVE  <<"pm", n>> \in Procs
BY Zenon DEF Procs

UsedFits ==
    /\ IsFiniteSet(Used) /\ Cardinality(Used) \in 0..MaxProcesses
    /\ \A n \in 1..MaxProcesses : proc[n] = "FREE" => Cardinality(Used) < MaxProcesses

(* The size of the part of the table that is used.                         *)
LEMMA UsedSize == UsedFits
<1>1. IsFiniteSet(1..MaxProcesses) /\ Cardinality(1..MaxProcesses) = MaxProcesses
  <2>1. MaxProcesses \in Int /\ 1 \in Int
    BY Sizes
  <2>2. IsFiniteSet(1..MaxProcesses)
        /\ Cardinality(1..MaxProcesses) = IF 1 > MaxProcesses THEN 0 ELSE MaxProcesses - 1 + 1
    BY <2>1, FS_Interval, Zenon
  <2> QED
    BY <2>2, Sizes
<1>2. Used \subseteq 1..MaxProcesses
  BY Zenon DEF Used
<1>3. /\ IsFiniteSet(Used) /\ Cardinality(Used) <= Cardinality(1..MaxProcesses)
      /\ Cardinality(Used) = Cardinality(1..MaxProcesses) => Used = 1..MaxProcesses
  BY <1>1, <1>2, FS_Subset, Zenon
<1>4. Cardinality(Used) \in Nat
  BY <1>3, FS_CardinalityType, Zenon
<1>5. \A n \in 1..MaxProcesses : proc[n] = "FREE" => Used # 1..MaxProcesses
  BY Zenon DEF Used
<1> QED
  BY <1>1, <1>3, <1>4, <1>5, Sizes DEF UsedFits
(* Services neither come nor go.                                           *)
LEMMA CalmPresent ==
    ASSUME Calm
    PROVE  Present' = Present /\ graph' = graph
BY Zenon DEF Calm, Softer, Present, Ids, graph

(* The table still describes its processes.                                *)
LEMMA CalmTable ==
    ASSUME World, Calm
    PROVE  TypedWorld' /\ Table' /\ Counted'
<1>1. TypedWorld'
  BY Zenon DEF World, TypedWorld, Calm
<1>2. ASSUME NEW n \in 1..MaxProcesses, proc'[n] \in {"FREE", "CREATED"}
      PROVE  /\ <<"pm", n>> \notin alive' /\ <<"pm", n>> \notin orphans' /\ <<"pm", n>> \notin readied'
             /\ who'[<<"pm", n>>] = Nobody
  <2>1. proc[n] \in {"FREE", "CREATED"}
    BY <1>2, Zenon DEF Calm, Moved
  <2>2. /\ <<"pm", n>> \notin alive /\ <<"pm", n>> \notin orphans /\ <<"pm", n>> \notin readied
        /\ who[<<"pm", n>>] = Nobody
    BY <2>1, Zenon DEF World, Table
  <2> QED
    BY <2>2, Zenon DEF Calm
<1>3. ASSUME NEW n \in 1..MaxProcesses, proc'[n] = "EXITED"
      PROVE  <<"pm", n>> \notin alive'
  <2>1. proc[n] = "EXITED" \/ <<"pm", n>> \notin alive'
    BY <1>3, Zenon DEF Calm, Moved
  <2> QED
    BY <2>1, Zenon DEF World, Table, Calm
<1>4. \A q \in Procs : mail'[q] = "READY" => q \in readied'
  BY Zenon DEF World, Table, Calm
<1>5. Used \subseteq Used'
  BY Zenon DEF Used, Calm, Moved
<1>6. Cardinality(Used) <= Cardinality(Used') /\ Cardinality(Used) \in Nat /\ Cardinality(Used') \in Nat
  <2>1. UsedFits'
    BY UsedSize, PTL
  <2> QED
    BY <1>5, <2>1, FS_Subset, FS_CardinalityType, Zenon DEF UsedFits
<1>7. Counted'
  <2> SUFFICES ASSUME NEW i \in Ids
               PROVE  inst'[i].inc <= 1 + Cardinality(Used')
    BY Zenon DEF Counted
  <2>1. inst'[i].inc = inst[i].inc
    BY Zenon DEF Calm, Softer
  <2>2. PICK k : k = inst[i].inc
    BY Zenon
  <2>3. k \in Incs /\ k <= 1 + Cardinality(Used)
    BY <2>2, Zenon DEF World, TypedWorld, Insts, Counted
  <2>4. k <= 1 + Cardinality(Used')
    BY <1>6, <2>3 DEF Incs
  <2> QED
    BY <2>1, <2>2, <2>4, Zenon
<1> QED
  BY <1>1, <1>2, <1>3, <1>4, <1>7, Zenon DEF Table

(* Processes stay with their services.                                     *)
LEMMA CalmBelongs ==
    ASSUME World, Calm
    PROVE  Before' /\ Belongs' /\ Unique' /\ Orphaned'
<1>1. Present' = Present /\ graph' = graph
  BY CalmPresent, Zenon
<1>2. Before'
  BY <1>1, Zenon DEF Before, World, Calm
<1>3. Unique' /\ Orphaned'
  BY Zenon DEF Unique, Orphaned, World, Calm
<1>4. Belongs'
  <2> SUFFICES ASSUME handoff.committed, NEW q \in Procs, who[q].svc # 0
               PROVE  /\ who[q].svc \in Present
                      /\ q \notin orphans => who[q].inc <= inst'[who[q].svc].inc
                      /\ q \in orphans => inst'[who[q].svc].pid # q[2]
    BY <1>1, Zenon DEF Belongs, Calm
  <2>1. PICK i : i = who[q].svc
    BY Zenon
  <2>2. i \in Present /\ i \in Ids
    BY <2>1, Zenon DEF World, Belongs, Present
  <2>3. /\ q \notin orphans => who[q].inc <= inst[i].inc
        /\ q \in orphans => inst[i].pid # q[2]
    BY <2>1, Zenon DEF World, Belongs
  <2>4. inst'[i].inc = inst[i].inc /\ (inst'[i].pid = inst[i].pid \/ inst'[i].pid = 0)
    BY <2>2, Zenon DEF Calm, Softer, Released
  <2>5. q[2] # 0
    BY ProcShape, Zenon
  <2> QED
    BY <2>1, <2>2, <2>3, <2>4, <2>5, Zenon
<1> QED
  BY <1>2, <1>3, <1>4, Zenon

(* A service is RUNNING because it was, or because its process has just    *)
(* reported.                                                               *)
LEMMA CalmReported ==
    ASSUME World, Calm
    PROVE  RunningReported'
<1> SUFFICES ASSUME NEW i \in Present, inst'[i].state = "RUNNING"
             PROVE  \E q \in readied' \ orphans' : /\ who'[q] = [svc |-> i, inc |-> inst'[i].inc]
                                                   /\ inst'[i].pid \in {0, q[2]}
  BY CalmPresent, Zenon DEF RunningReported
<1>1. i \in Ids
  BY Zenon DEF Present
<1>2. \E q \in readied : q \notin orphans /\ who[q] = [svc |-> i, inc |-> inst[i].inc]
                          /\ inst[i].pid \in {0, q[2]}
  <2>1. inst[i].state = "RUNNING" \/ Reported(i)
    BY <1>1, Zenon DEF Calm, Softer
  <2>2. CASE inst[i].state = "RUNNING"
    BY <2>2, Zenon DEF World, RunningReported
  <2>3. CASE Reported(i)
    BY <2>3, Zenon DEF Reported
  <2> QED
    BY <2>1, <2>2, <2>3, Zenon
<1>3. inst'[i].inc = inst[i].inc /\ (inst'[i].pid = inst[i].pid \/ inst'[i].pid = 0)
  BY <1>1, Zenon DEF Calm, Softer, Released
<1>4. PICK q \in readied : q \notin orphans /\ who[q] = [svc |-> i, inc |-> inst[i].inc]
                          /\ inst[i].pid \in {0, q[2]}
  BY <1>2, Zenon
<1>5. q \in readied' \ orphans'
  BY <1>4, Zenon DEF Calm
<1>6. who'[q] = [svc |-> i, inc |-> inst'[i].inc] /\ inst'[i].pid \in {0, q[2]}
  BY <1>3, <1>4, Zenon DEF Calm
<1> QED
  BY <1>5, <1>6, Zenon

(* A step that starts no process keeps the invariant,                      *)
LEMMA CalmWorld ==
    ASSUME World, Calm
    PROVE  World'
BY CalmTable, CalmBelongs, CalmReported, Zenon DEF World

(* A process that runs was not found to have exited.                       *)
LEMMA NotExited ==
    ASSUME NumbersApart, World, NEW q \in alive
    PROVE  ~QueryExited(q[2])
<1> SUFFICES ASSUME q[2] \in 1..MaxProcesses, proc[q[2]] = "EXITED"
             PROVE  FALSE
  BY Zenon DEF QueryExited
<1>1. q \in Procs
  BY Zenon DEF World, TypedWorld
<1>2. CASE \E n \in 1..MaxProcesses : q = <<"pm", n>>
  <2>1. PICK n \in 1..MaxProcesses : q = <<"pm", n>>
    BY <1>2, Zenon
  <2>2. q[2] = n
    BY <2>1, Zenon
  <2> QED
    BY <2>1, <2>2, Zenon DEF World, Table
<1>3. CASE \E n \in KernelPids : q = <<"kernel", n>>
  <2>1. PICK n \in KernelPids : q = <<"kernel", n>>
    BY <1>3, Zenon
  <2>2. q[2] = n
    BY <2>1, Zenon
  <2> QED
    BY <2>2, Zenon DEF NumbersApart
<1> QED
  BY <1>1, <1>2, <1>3, ProcShape, Zenon

(* and an instance does not let go of a process that runs.                 *)
LEMMA CalmHolder ==
    ASSUME NumbersApart, World, Holder, Calm
    PROVE  Holder'
<1> SUFFICES ASSUME handoff.committed, NEW q \in alive', q \notin orphans, who[q].svc # 0
             PROVE  who[q].inc = inst'[who[q].svc].inc /\ inst'[who[q].svc].pid = q[2]
  BY Zenon DEF Holder, Calm
<1>1. PICK i : i = who[q].svc
  BY Zenon
<1>2. q \in alive /\ q \in Procs
  BY Zenon DEF Calm, World, TypedWorld
<1>3. i \in Ids
  BY <1>1, <1>2, Zenon DEF World, Belongs, Present
<1>4. who[q].inc = inst[i].inc /\ inst[i].pid = q[2]
  BY <1>1, <1>2, Zenon DEF Holder
<1>5. inst'[i].inc = inst[i].inc /\ Released(inst[i], inst'[i])
  BY <1>3, Zenon DEF Calm, Softer
<1>6. ~QueryExited(q[2])
  BY <1>2, NotExited, Zenon
<1> QED
  BY <1>1, <1>4, <1>5, <1>6, Zenon DEF Released

-----------------------------------------------------------------------------
(* Steps that start a process, for an instance that holds none             *)

Launch(i, n, silent) ==
    /\ i \in Present /\ handoff.committed /\ n \in 1..MaxProcesses /\ proc[n] = "FREE"
    /\ inst[i].pid = 0 \/ QueryExited(inst[i].pid)
    /\ Started(i, n, inst[i].inc + 1)
    /\ inst' \in [Ids -> Insts] /\ \A j \in Ids : j # i => inst'[j] = inst[j]
    /\ inst'[i].state = IF silent THEN "FAILED" ELSE "STARTING"
    /\ inst'[i].pid = IF silent THEN 0 ELSE n
    /\ inst'[i].inc = IF silent THEN inst[i].inc ELSE inst[i].inc + 1
    /\ orphans' = IF silent THEN orphans \cup {<<"pm", n>>} ELSE orphans
    /\ mail' = mail /\ readied' = readied /\ handoff' = handoff /\ env' = env

(* There is a number for the incarnation.                                  *)
LEMMA FreeInc ==
    ASSUME World, NEW i \in Ids, NEW n \in 1..MaxProcesses, proc[n] = "FREE"
    PROVE  inst[i].inc \in Nat /\ inst[i].inc + 1 \in Incs
<1>1. PICK k : k = inst[i].inc
  BY Zenon
<1>2. k \in Incs /\ k <= 1 + Cardinality(Used)
  BY <1>1, Zenon DEF World, TypedWorld, Insts, Counted
<1>3. Cardinality(Used) \in 0..MaxProcesses /\ Cardinality(Used) < MaxProcesses
  BY UsedSize, Zenon DEF UsedFits
<1>4. k \in Nat /\ k + 1 \in Incs
  BY <1>2, <1>3, Sizes DEF Incs
<1> QED
  BY <1>1, <1>4, Zenon

(* The new process, and the others.                                        *)
Anew(i, n) ==
    /\ <<"pm", n>> \in Procs
    /\ who'[<<"pm", n>>] = [svc |-> i, inc |-> inst[i].inc + 1]
    /\ \A q \in Procs : q # <<"pm", n>> => who'[q] = who[q]
    /\ <<"pm", n>> \notin orphans /\ <<"pm", n>> \notin readied
    /\ i \in Ids /\ Present' = Present /\ inst[i].inc \in Nat /\ inst[i].inc + 1 \in Incs

(* The new process belongs to the instance; the others are not touched.    *)
LEMMA LaunchWho ==
    ASSUME World, NEW i, NEW n, NEW silent \in BOOLEAN, Launch(i, n, silent)
    PROVE  Anew(i, n)
<1>1. <<"pm", n>> \in Procs
  BY PmProc, Zenon DEF Launch
<1>2. who \in [Procs -> Whos] /\ inst \in [Ids -> Insts]
  BY Zenon DEF World, TypedWorld
<1>3. /\ who'[<<"pm", n>>] = [svc |-> i, inc |-> inst[i].inc + 1]
      /\ \A q \in Procs : q # <<"pm", n>> => who'[q] = who[q]
  BY <1>1, <1>2, Zenon DEF Launch, Started
<1>4. <<"pm", n>> \notin orphans /\ <<"pm", n>> \notin readied
  BY Zenon DEF Launch, World, Table
<1>5. i \in Ids /\ inst[i].state # "ABSENT"
  BY Zenon DEF Launch, Present
<1>6. inst'[i].state # "ABSENT"
  BY Zenon DEF Launch
<1>7. Present' = Present
  BY <1>5, <1>6, Zenon DEF Launch, Present, Ids
<1> QED
  BY <1>1, <1>3, <1>4, <1>5, <1>7, FreeInc, Zenon DEF Launch, Anew

(* A start takes a slot, which pays for the incarnation.                   *)
LEMMA LaunchTable ==
    ASSUME World, NEW i, NEW n, NEW silent \in BOOLEAN, Launch(i, n, silent)
    PROVE  TypedWorld' /\ Table' /\ Counted'
<1> DEFINE new == <<"pm", n>>
<1>1. /\ TypedWorld /\ n \in 1..MaxProcesses /\ proc[n] = "FREE" /\ i \in Ids /\ new \in Procs
      /\ proc' = [proc EXCEPT ![n] = "RUNNING"] /\ alive' = alive \cup {new}
      /\ who' = [who EXCEPT ![new] = [svc |-> i, inc |-> inst[i].inc + 1]]
  BY LaunchWho, Zenon DEF Anew, World, Launch, Started
<1>2. TypedWorld'
  <2>1. PICK w : w = [svc |-> i, inc |-> inst[i].inc + 1]
    BY Zenon
  <2>2. w \in Whos
    <3>1. inst[i].inc + 1 \in Incs
      BY LaunchWho, Zenon DEF Anew
    <3>2. i \in 0..MaxServices
      BY <1>1, Sizes DEF Ids
    <3> QED
      BY <2>1, <3>1, <3>2, Zenon DEF Whos
  <2>3. who' \in [Procs -> Whos]
    BY <1>1, <2>1, <2>2, Zenon DEF TypedWorld
  <2>4. proc' \in [1..MaxProcesses -> PmStates]
    BY <1>1, Zenon DEF TypedWorld, PmStates
  <2>5. alive' \subseteq Procs /\ orphans' \subseteq Procs
    BY <1>1, Zenon DEF TypedWorld, Launch
  <2> QED
    BY <1>1, <2>3, <2>4, <2>5, Zenon DEF TypedWorld, Launch
<1>3. \A m \in 1..MaxProcesses : m # n => proc'[m] = proc[m] /\ <<"pm", m>> # new
  BY <1>1, Zenon DEF TypedWorld
<1>4. proc'[n] = "RUNNING"
  BY <1>1, Zenon DEF TypedWorld
<1>5. ASSUME NEW m \in 1..MaxProcesses, proc'[m] \in {"FREE", "CREATED"}
      PROVE  /\ <<"pm", m>> \notin alive' /\ <<"pm", m>> \notin orphans' /\ <<"pm", m>> \notin readied'
             /\ who'[<<"pm", m>>] = Nobody
  <2>1. m # n
    BY <1>4, <1>5, Zenon
  <2>2. /\ <<"pm", m>> \notin alive /\ <<"pm", m>> \notin orphans /\ <<"pm", m>> \notin readied
        /\ who[<<"pm", m>>] = Nobody /\ <<"pm", m>> # new
    BY <1>3, <1>5, <2>1, Zenon DEF World, Table
  <2>3. who'[<<"pm", m>>] = who[<<"pm", m>>]
    BY <2>2, PmProc, LaunchWho, ZenonT(30) DEF Anew
  <2> QED
    BY <1>1, <2>2, <2>3, Zenon DEF Launch
<1>6. ASSUME NEW m \in 1..MaxProcesses, proc'[m] = "EXITED"
      PROVE  <<"pm", m>> \notin alive'
  <2>1. m # n
    BY <1>4, <1>6, Zenon
  <2> QED
    BY <1>1, <1>3, <1>6, <2>1, Zenon DEF World, Table
<1>7. \A q \in Procs : mail'[q] = "READY" => q \in readied'
  BY Zenon DEF World, Table, Launch
<1>8. Used' = Used \cup {n} /\ n \notin Used
  BY <1>1, <1>3, <1>4, Zenon DEF Used
<1>9. Cardinality(Used') = Cardinality(Used) + 1 /\ Cardinality(Used) \in Nat
  BY <1>8, UsedSize, FS_AddElement, FS_CardinalityType, Zenon DEF UsedFits
<1>10. Counted'
  <2> SUFFICES ASSUME NEW j \in Ids
               PROVE  inst'[j].inc <= 1 + Cardinality(Used')
    BY Zenon DEF Counted
  <2>1. PICK k : k = inst[j].inc
    BY Zenon
  <2>2. k \in Nat /\ k <= 1 + Cardinality(Used)
    BY <1>1, <2>1, FreeInc, Zenon DEF World, Counted
  <2>3. inst'[j].inc = k \/ inst'[j].inc = k + 1
    BY <2>1, Zenon DEF Launch
  <2> QED
    BY <1>9, <2>2, <2>3
<1> QED
  BY <1>2, <1>5, <1>6, <1>7, <1>10, Zenon DEF Table
(* The new process is as recent as its instance, or an orphan that is not  *)
(* held.                                                                   *)
LEMMA LaunchBelongs ==
    ASSUME World, NEW i, NEW n, NEW silent \in BOOLEAN, Launch(i, n, silent)
    PROVE  Before' /\ Belongs' /\ Orphaned'
<1> DEFINE new == <<"pm", n>>
<1>0. Anew(i, n)
  BY LaunchWho, Zenon
<1>1. /\ new \in Procs /\ who'[new] = [svc |-> i, inc |-> inst[i].inc + 1]
      /\ \A q \in Procs : q # new => who'[q] = who[q]
      /\ new \notin orphans
      /\ i \in Ids /\ Present' = Present /\ inst[i].inc \in Nat
  BY <1>0, Zenon DEF Anew
<1>2. Before'
  <2>1. handoff'.committed
    BY Zenon DEF Launch
  <2> QED
    BY <1>1, <2>1, Zenon DEF World, Before
<1>3. Orphaned'
  BY Zenon DEF World, Orphaned, Launch
<1>4. ASSUME NEW q \in Procs, who'[q].svc # 0
      PROVE  /\ who'[q].svc \in Present
             /\ q \notin orphans' => who'[q].inc <= inst'[who'[q].svc].inc
             /\ q \in orphans' => inst'[who'[q].svc].pid # q[2]
  <2>1. CASE q = new
    <3>1. who'[q].svc = i /\ who'[q].inc = inst[i].inc + 1
      BY <1>1, <2>1
    <3>2. q \notin orphans' => inst'[i].inc = inst[i].inc + 1
      BY <2>1, Zenon DEF Launch
    <3>3. q \in orphans' => inst'[i].pid = 0
      BY <1>1, <2>1, Zenon DEF Launch
    <3>4. inst[i].inc + 1 <= inst[i].inc + 1 /\ i \in Present
      BY <1>1 DEF Launch
    <3>5. q[2] # 0
      BY ProcShape, Zenon
    <3> QED
      BY <1>1, <3>1, <3>2, <3>3, <3>4, <3>5, Zenon
  <2>2. CASE q # new
    <3>1. who'[q] = who[q]
      BY <1>1, <2>2, Zenon
    <3>2. PICK j : j = who[q].svc
      BY Zenon
    <3>3. /\ j \in Present /\ j \in Ids
          /\ q \notin orphans => who[q].inc <= inst[j].inc
          /\ q \in orphans => inst[j].pid # q[2]
      BY <1>4, <3>1, <3>2, Zenon DEF World, Belongs, Launch, Present
    <3>4. q \in orphans' <=> q \in orphans
      BY <2>2, Zenon DEF Launch
    <3>5. CASE j # i
      <4>1. inst'[j] = inst[j]
        BY <3>3, <3>5, Zenon DEF Launch
      <4> QED
        BY <3>1, <3>2, <3>3, <3>4, <4>1, Zenon
    <3>6. CASE j = i
      <4>1. PICK k : k = inst[i].inc
        BY Zenon
      <4>2. PICK w : w = who[q].inc
        BY Zenon
      <4>3. k \in Nat /\ w \in Nat
        BY <1>1, <4>1, <4>2, Sizes DEF World, TypedWorld, Whos, Incs
      <4>4. inst'[i].inc = k \/ inst'[i].inc = k + 1
        BY <4>1, Zenon DEF Launch
      <4>5. w <= k => w <= inst'[i].inc
        BY <4>3, <4>4
      <4>6. q \in orphans => q[2] # n /\ q[2] # 0
        <5>1. q[2] # 0
          BY ProcShape, Zenon
        <5>2. ASSUME q \in orphans, q[2] = n
              PROVE  FALSE
          <6>1. PICK m \in 1..MaxProcesses : q = <<"pm", m>>
            BY <5>2, Zenon DEF World, Orphaned
          <6>2. q[2] = m
            BY <6>1, Zenon
          <6> QED
            BY <2>2, <5>2, <6>1, <6>2, Zenon
        <5> QED
          BY <5>1, <5>2, Zenon
      <4>7. inst'[i].pid = 0 \/ inst'[i].pid = n
        BY Zenon DEF Launch
      <4> QED
        BY <3>1, <3>2, <3>3, <3>4, <3>6, <4>1, <4>2, <4>5, <4>6, <4>7, Zenon
    <3> QED
      BY <3>5, <3>6, Zenon
  <2> QED
    BY <2>1, <2>2, Zenon
<1>5. Belongs'
  BY <1>1, <1>4, Zenon DEF Belongs
<1> QED
  BY <1>2, <1>3, <1>5, Zenon

(* No earlier start of the service has the new incarnation.                *)
LEMMA LaunchUnique ==
    ASSUME World, NEW i, NEW n, NEW silent \in BOOLEAN, Launch(i, n, silent)
    PROVE  Unique'
<1> DEFINE new == <<"pm", n>>
<1>1. /\ new \in Procs /\ who'[new] = [svc |-> i, inc |-> inst[i].inc + 1]
      /\ \A q \in Procs : q # new => who'[q] = who[q]
      /\ i \in Ids /\ inst[i].inc \in Nat
  <2>1. Anew(i, n)
    BY LaunchWho, Zenon
  <2> QED
    BY <2>1, Zenon DEF Anew
<1>0. i # 0
  BY <1>1, Sizes DEF Ids
<1>2. ASSUME NEW q \in Procs, q # new, q \notin orphans', who'[q] = who'[new]
      PROVE  FALSE
  <2>1. who[q] = [svc |-> i, inc |-> inst[i].inc + 1] /\ q \notin orphans
    BY <1>1, <1>2, Zenon DEF Launch
  <2>2. who[q].svc = i /\ who[q].inc = inst[i].inc + 1
    BY <2>1
  <2>3. who[q].inc <= inst[i].inc
    BY <1>0, <2>1, <2>2, Zenon DEF World, Belongs, Launch
  <2> QED
    BY <1>1, <2>2, <2>3
<1>3. ASSUME NEW p \in Procs, NEW q \in Procs, p \notin orphans', q \notin orphans',
             who'[p].svc # 0, who'[p] = who'[q]
      PROVE  p = q
  <2>1. p \notin orphans /\ q \notin orphans
    BY <1>3, Zenon DEF Launch
  <2>2. CASE p # new /\ q # new
    BY <1>1, <1>3, <2>1, <2>2, Zenon DEF World, Unique
  <2> QED
    BY <1>2, <1>3, <2>2, Zenon
<1> QED
  BY <1>3, Zenon DEF Unique

(* A start keeps the invariant,                                            *)
LEMMA LaunchWorld ==
    ASSUME World, NEW i, NEW n, NEW silent \in BOOLEAN, Launch(i, n, silent)
    PROVE  World'
<1>1. ASSUME NEW j \in Present, inst'[j].state = "RUNNING"
      PROVE  \E q \in readied' \ orphans' : /\ who'[q] = [svc |-> j, inc |-> inst'[j].inc]
                                            /\ inst'[j].pid \in {0, q[2]}
  <2>1. j # i
    BY <1>1, Zenon DEF Launch
  <2>2. inst'[j] = inst[j]
    BY <2>1, Zenon DEF Launch, Present
  <2>3. PICK q \in readied \ orphans : /\ who[q] = [svc |-> j, inc |-> inst[j].inc]
                                      /\ inst[j].pid \in {0, q[2]}
    BY <1>1, <2>2, Zenon DEF World, RunningReported
  <2>4. q # <<"pm", n>> /\ who'[q] = who[q]
    <3>1. q \in Procs
      BY <2>3, Zenon DEF World, TypedWorld
    <3> QED
      BY <2>3, <3>1, LaunchWho, Zenon DEF Anew
  <2>5. q \in readied' \ orphans'
    BY <2>3, <2>4, Zenon DEF Launch
  <2> QED
    BY <2>2, <2>3, <2>4, <2>5, Zenon
<1>2. RunningReported'
  <2>1. Present' = Present
    BY LaunchWho, Zenon DEF Anew
  <2> QED
    BY <1>1, <2>1, Zenon DEF RunningReported
<1> QED
  BY <1>2, LaunchTable, LaunchBelongs, LaunchUnique, Zenon DEF World

(* and no process of the service runs beside the new one: the instance     *)
(* held none.                                                              *)
LEMMA LaunchHolder ==
    ASSUME NumbersApart, World, Holder, NEW i, NEW n, NEW silent \in BOOLEAN, Launch(i, n, silent)
    PROVE  Holder'
<1> DEFINE new == <<"pm", n>>
<1>1. ASSUME NEW q \in alive', q \notin orphans', who'[q].svc # 0
      PROVE  who'[q].inc = inst'[who'[q].svc].inc /\ inst'[who'[q].svc].pid = q[2]
  <2>1. CASE q = new
    <3>1. ~silent
      BY <1>1, <2>1, Zenon DEF Launch
    <3>2. who'[q] = [svc |-> i, inc |-> inst[i].inc + 1]
      BY <2>1, LaunchWho, Zenon DEF Anew
    <3>3. inst'[i].pid = n /\ inst'[i].inc = inst[i].inc + 1
      BY <3>1, Zenon DEF Launch
    <3>4. who'[q].svc = i /\ who'[q].inc = inst[i].inc + 1 /\ q[2] = n
      BY <2>1, <3>2
    <3> QED
      BY <3>3, <3>4, Zenon
  <2>2. CASE q # new
    <3>1. q \in alive /\ q \in Procs /\ q \notin orphans /\ who'[q] = who[q]
      <4>1. q \in alive
        BY <2>2, Zenon DEF Launch, Started
      <4>2. q \in Procs
        BY <4>1, Zenon DEF World, TypedWorld
      <4>3. q \notin orphans
        BY <1>1, Zenon DEF Launch
      <4>4. Anew(i, n)
        BY LaunchWho, Zenon
      <4> QED
        BY <2>2, <4>1, <4>2, <4>3, <4>4, Zenon DEF Anew
    <3>2. PICK j : j = who[q].svc
      BY Zenon
    <3>3. who[q].inc = inst[j].inc /\ inst[j].pid = q[2] /\ j \in Ids
      BY <1>1, <3>1, <3>2, Zenon DEF Holder, Launch, World, Belongs, Present
    <3>4. j # i
      <4>1. ~QueryExited(q[2]) /\ q[2] # 0
        BY <3>1, NotExited, ProcShape, Zenon
      <4> QED
        BY <3>3, <4>1, Zenon DEF Launch
    <3>5. inst'[j] = inst[j]
      BY <3>3, <3>4, Zenon DEF Launch
    <3> QED
      BY <3>1, <3>2, <3>3, <3>5, Zenon
  <2> QED
    BY <2>1, <2>2, Zenon
<1> QED
  BY <1>1, Zenon DEF Holder
-----------------------------------------------------------------------------
(* The steps of the supervisor are of one kind or the other                *)

(* What an instance may become.                                            *)
Fits(i, s) ==
    /\ s \in Insts /\ s.inc = inst[i].inc
    /\ (s.state = "ABSENT") <=> (inst[i].state = "ABSENT")
    /\ s.state = "RUNNING" => inst[i].state = "RUNNING" \/ Reported(i)
    /\ Released(inst[i], s)
InstsFit == inst' \in [Ids -> Insts] /\ \A j \in Ids : Softer(j)
ProcsFit == proc' \in [1..MaxProcesses -> PmStates] /\ \A n \in 1..MaxProcesses : Moved(n)

(* Instances that are left alone,                                          *)
LEMMA SameInsts ==
    ASSUME World, inst' = inst
    PROVE  InstsFit
BY Zenon DEF World, TypedWorld, InstsFit, Softer, Released

(* or of which one changes.                                                *)
LEMMA OneInst ==
    ASSUME World, NEW i \in Ids, NEW s, Fits(i, s), inst' = [inst EXCEPT ![i] = s]
    PROVE  InstsFit
<1>1. inst \in [Ids -> Insts] /\ s \in Insts
  BY Zenon DEF World, TypedWorld, Fits
<1>2. inst' \in [Ids -> Insts] /\ inst'[i] = s /\ \A j \in Ids : j # i => inst'[j] = inst[j]
  BY <1>1, Zenon
<1>3. Softer(i)
  BY <1>2, Zenon DEF Fits, Softer
<1>4. \A j \in Ids : j # i => Softer(j)
  BY <1>2, Zenon DEF Softer, Released
<1> QED
  BY <1>2, <1>3, <1>4, Zenon DEF InstsFit

(* A failure, a time-out or a proof of exit is such a change.              *)
LEMMA SoftenedFits ==
    ASSUME NEW i, NEW s, Softened(inst[i], s), Released(inst[i], s)
    PROVE  Fits(i, s)
BY Zenon DEF Softened, Fits

(* A process table that is left alone,                                     *)
LEMMA SameProcs ==
    ASSUME World, proc' = proc
    PROVE  ProcsFit
BY Zenon DEF World, TypedWorld, ProcsFit, Moved

(* or in which one slot is taken or asked to stop.                         *)
LEMMA OneProc ==
    ASSUME World, NEW n \in 1..MaxProcesses, NEW st, proc' = [proc EXCEPT ![n] = st],
           (proc[n] = "FREE" /\ st = "CREATED") \/ (proc[n] = "RUNNING" /\ st = "STOPPING")
    PROVE  ProcsFit
<1>1. proc \in [1..MaxProcesses -> PmStates] /\ st \in PmStates
  BY Zenon DEF World, TypedWorld, PmStates
<1>2. /\ proc' \in [1..MaxProcesses -> PmStates] /\ proc'[n] = st
      /\ \A m \in 1..MaxProcesses : m # n => proc'[m] = proc[m]
  BY <1>1, Zenon
<1>3. Moved(n) /\ \A m \in 1..MaxProcesses : m # n => Moved(m)
  BY <1>2, Zenon DEF Moved
<1> QED
  BY <1>2, <1>3, Zenon DEF ProcsFit

(* A request to stop a process.                                            *)
LEMMA AskedProc ==
    ASSUME World, NEW n, NEW asked \in BOOLEAN,
           proc' = IF asked /\ StopOk(n) THEN [proc EXCEPT ![n] = "STOPPING"] ELSE proc
    PROVE  ProcsFit
<1>1. CASE asked /\ StopOk(n)
  BY <1>1, OneProc, Zenon DEF StopOk
<1>2. CASE ~(asked /\ StopOk(n))
  BY <1>2, SameProcs, Zenon
<1> QED
  BY <1>1, <1>2, Zenon

(* A step of the supervisor that changes only instances and slots.         *)
LEMMA CalmSupervisor ==
    ASSUME World, handoff.committed, InstsFit, ProcsFit,
           alive' = alive, who' = who, orphans' = orphans, env' = env, readied' = readied,
           mail' = mail, handoff' = handoff
    PROVE  Calm
BY Zenon DEF Calm, InstsFit, ProcsFit, World, TypedWorld

(* pm_spawn: not carried out, carried out, or carried out and not          *)
(* answered.                                                               *)
LEMMA SpawnKind ==
    ASSUME World, handoff.committed, NEW i \in Present, NEW r, NEW fate,
           Softened(inst[i], r), Released(inst[i], r), r.pid = 0, Spawn(i, r, fate),
           UNCHANGED <<mail, readied, handoff, env>>
    PROVE  Calm \/ \E n : Launch(i, n, TRUE) \/ Launch(i, n, FALSE)
<1>0. /\ i \in Ids /\ inst \in [Ids -> Insts] /\ r \in Insts /\ r.inc = inst[i].inc
      /\ inst[i].state # "ABSENT" /\ (inst[i].pid = 0 \/ QueryExited(inst[i].pid))
  BY Zenon DEF Softened, Present, World, TypedWorld, Released
<1>1. PICK s : s = [r EXCEPT !.state = "FAILED"]
  BY Zenon
<1>2. s \in Insts /\ s.inc = inst[i].inc /\ s.state = "FAILED" /\ s.pid = 0
  BY <1>0, <1>1, Zenon DEF Insts, States
<1>3. CASE NotStarted(fate) /\ inst' = [inst EXCEPT ![i] = s]
  <2>1. s.state # "ABSENT" /\ s.state # "RUNNING"
    BY <1>2, Zenon
  <2>2. Fits(i, s)
    BY <1>0, <1>2, <2>1, Zenon DEF Fits, Released
  <2>3. InstsFit
    BY <1>0, <1>3, <2>2, OneInst, Zenon
  <2>4. ProcsFit /\ alive' = alive /\ who' = who /\ orphans' = orphans
    <3>1. CASE UNCHANGED pm
      BY <3>1, SameProcs, Zenon DEF pm
    <3>2. CASE (\E n \in CreateSlots : proc' = [proc EXCEPT ![n] = "CREATED"])
               /\ UNCHANGED <<alive, who, orphans>>
      <4>1. PICK n \in CreateSlots : proc' = [proc EXCEPT ![n] = "CREATED"]
        BY <3>2, Zenon
      <4>2. n \in 1..MaxProcesses /\ proc[n] = "FREE"
        BY Zenon DEF CreateSlots
      <4>3. ProcsFit
        BY <4>1, <4>2, OneProc, Zenon
      <4> QED
        BY <3>2, <4>3, Zenon
    <3> QED
      BY <1>3, <3>1, <3>2, Zenon DEF NotStarted
  <2> QED
    BY <2>3, <2>4, CalmSupervisor, Zenon
<1>4. ASSUME NEW n \in CreateSlots, Started(i, n, r.inc + 1), orphans' = orphans \cup {<<"pm", n>>},
             inst' = [inst EXCEPT ![i] = s]
      PROVE  Launch(i, n, TRUE)
  <2>1. /\ inst' \in [Ids -> Insts] /\ inst'[i] = s /\ \A j \in Ids : j # i => inst'[j] = inst[j]
    BY <1>0, <1>2, <1>4, Zenon
  <2>2. n \in 1..MaxProcesses /\ proc[n] = "FREE"
    BY Zenon DEF CreateSlots
  <2> QED
    BY <1>0, <1>2, <1>4, <2>1, <2>2, Zenon DEF Launch
<1>5. ASSUME NEW n \in CreateSlots, Started(i, n, r.inc + 1), orphans' = orphans,
             inst' = [inst EXCEPT ![i] =
                        [r EXCEPT !.state = "STARTING", !.pid = n, !.inc = @ + 1,
                                  !.health = "SPAWNED", !.stopreq = FALSE, !.age = 0]]
      PROVE  Launch(i, n, FALSE)
  <2>1. n \in 1..MaxProcesses /\ proc[n] = "FREE"
    BY Zenon DEF CreateSlots
  <2>2. PICK k : k = r.inc + 1
    BY Zenon
  <2>3. k \in Incs
    BY <1>0, <2>1, <2>2, FreeInc, Zenon
  <2>4. PICK t : t = [r EXCEPT !.state = "STARTING", !.pid = n, !.inc = k,
                               !.health = "SPAWNED", !.stopreq = FALSE, !.age = 0]
    BY Zenon
  <2>5. "STARTING" \in States /\ n \in Pids /\ "SPAWNED" \in Health /\ 0 \in 0..HeartbeatTimeout + 1
    BY <2>1, Sizes DEF States, Active, Pids, Health
  <2>6. t \in Insts /\ t.inc = k /\ t.state = "STARTING" /\ t.pid = n
    BY <1>0, <2>3, <2>4, <2>5, Zenon DEF Insts
  <2>7. inst' = [inst EXCEPT ![i] = t]
    BY <1>5, <2>2, <2>4, Zenon
  <2>8. /\ inst' \in [Ids -> Insts] /\ inst'[i] = t /\ \A j \in Ids : j # i => inst'[j] = inst[j]
    BY <1>0, <2>6, <2>7, Zenon
  <2>9. /\ Started(i, n, inst[i].inc + 1) /\ orphans' = orphans
        /\ inst'[i].inc = inst[i].inc + 1 /\ inst'[i].state = "STARTING" /\ inst'[i].pid = n
    BY <1>0, <1>5, <2>2, <2>6, <2>8, Zenon
  <2> QED
    BY <1>0, <2>1, <2>8, <2>9, Zenon DEF Launch
<1> QED
  BY <1>1, <1>3, <1>4, <1>5, Zenon DEF Spawn
Kind == Calm \/ \E i, n : Launch(i, n, TRUE) \/ Launch(i, n, FALSE)

(* A supervised service exists only after the hand-over.                   *)
LEMMA PresentCommitted ==
    ASSUME World, NEW i \in Present
    PROVE  handoff.committed
BY Zenon DEF World, Before

(* One such change after another.                                          *)
LEMMA SoftenedTwice ==
    ASSUME NEW r, NEW s, NEW t, Softened(r, s), Softened(s, t)
    PROVE  Softened(r, t)
BY Zenon DEF Softened

(* servicemgr_check_health of one instance: a proof of exit and a time-    *)
(* out, then recovery, a start or nothing.                                 *)
LEMMA CheckKind ==
    ASSUME World, NEW fate, CheckInstance(fate)
    PROVE  Kind
<1>0. /\ at \in Present /\ at \in Ids /\ inst[at] \in Insts /\ handoff.committed
      /\ env' = env /\ readied' = readied /\ mail' = mail /\ handoff' = handoff
  BY PresentCommitted, Zenon DEF CheckInstance, World, TypedWorld, Present
<1>1. PICK r1 : r1 = IF /\ inst[at].stopreq /\ inst[at].pid # 0
                        /\ fate = "answered" /\ QueryExited(inst[at].pid)
                     THEN ExitProved(inst[at]) ELSE inst[at]
  BY Zenon
<1>2. Softened(inst[at], r1) /\ Released(inst[at], r1)
  <2>1. CASE r1 = inst[at]
    BY <1>0, <2>1, Zenon DEF Softened, Released
  <2>2. CASE r1 = ExitProved(inst[at]) /\ QueryExited(inst[at].pid)
    BY <1>0, <2>2, ExitProvedTyped, Zenon DEF Released
  <2> QED
    BY <1>1, <2>1, <2>2, Zenon
<1>3. PICK r : r = Timed(r1)
  BY Zenon
<1>4. Softened(inst[at], r) /\ Released(inst[at], r) /\ r \in Insts
  <2>1. Softened(r1, r) /\ r.pid = r1.pid
    BY <1>2, <1>3, TimedTyped, Zenon DEF Softened
  <2>2. Softened(inst[at], r)
    BY <1>2, <2>1, SoftenedTwice, Zenon
  <2> QED
    BY <1>2, <2>1, <2>2, Zenon DEF Released, Softened
<1>5. \/ r.state = "FAILED" /\ Recover(at, r, fate)
      \/ Keep(at, r)
      \/ Startable(r) /\ Spawn(at, r, fate)
  BY <1>1, <1>3, Zenon DEF CheckInstance
<1>6. ASSUME NEW s, Keep(at, s), Softened(inst[at], s), Released(inst[at], s)
      PROVE  Calm
  <2>1. InstsFit
    BY <1>0, <1>6, OneInst, SoftenedFits, Zenon DEF Keep
  <2>2. ProcsFit /\ alive' = alive /\ who' = who /\ orphans' = orphans
    BY <1>6, SameProcs, Zenon DEF Keep, pm
  <2> QED
    BY <1>0, <2>1, <2>2, CalmSupervisor, Zenon
<1>7. CASE Keep(at, r)
  BY <1>4, <1>6, <1>7, Zenon DEF Kind
<1>8. CASE r.state = "FAILED" /\ Recover(at, r, fate)
  <2>1. CASE Keep(at, BackedOff(r))
    <3>1. Softened(r, BackedOff(r)) /\ BackedOff(r).pid = r.pid
      BY <1>4, <1>8, BackedOffTyped, Zenon
    <3>2. Softened(inst[at], BackedOff(r)) /\ Released(inst[at], BackedOff(r))
      BY <1>4, <3>1, SoftenedTwice, Zenon DEF Released
    <3> QED
      BY <1>6, <2>1, <3>2, Zenon DEF Kind
  <2>2. CASE AskStop(at, r, fate)
    <3>1. PICK b \in BOOLEAN : b = (fate = "answered" /\ StopOk(r.pid))
      BY Zenon
    <3>2. PICK s : s = [r EXCEPT !.stopreq = b]
      BY Zenon
    <3>3. s \in Insts /\ s.pid = r.pid /\ s.inc = r.inc /\ s.rec = r.rec /\ s.state = r.state
      BY <1>4, <3>2, Zenon DEF Insts
    <3>4. Softened(inst[at], s) /\ Released(inst[at], s)
      BY <1>4, <3>3, Zenon DEF Softened, Released
    <3>5. inst' = [inst EXCEPT ![at] = s]
      BY <2>2, <3>1, <3>2, Zenon DEF AskStop
    <3>6. InstsFit
      BY <1>0, <3>4, <3>5, OneInst, SoftenedFits, Zenon
    <3>7. PICK a \in BOOLEAN : a = (fate # "lost")
      BY Zenon
    <3>8. ProcsFit
      BY <2>2, <3>7, AskedProc, Zenon DEF AskStop
    <3> QED
      BY <1>0, <2>2, <3>6, <3>8, CalmSupervisor, Zenon DEF AskStop, Kind
  <2>3. CASE Keep(at, r)
    BY <1>7, <2>3, Zenon
  <2> QED
    BY <1>8, <2>1, <2>2, <2>3, Zenon DEF Recover
<1>9. CASE Startable(r) /\ Spawn(at, r, fate)
  <2>1. r.pid = 0
    BY <1>9, Zenon DEF Startable
  <2>2. UNCHANGED <<mail, readied, handoff, env>>
    BY <1>0, Zenon
  <2> QED
    BY <1>0, <1>4, <1>9, <2>1, <2>2, SpawnKind, Zenon DEF Kind
<1> QED
  BY <1>5, <1>7, <1>8, <1>9, Zenon

(* servicemgr_handle_start.                                                *)
LEMMA StartKind ==
    ASSUME World, NEW i, NEW fate, HandleStart(i, fate)
    PROVE  Kind
<1>1. /\ i \in Present /\ handoff.committed /\ inst[i] \in Insts /\ inst[i].pid = 0
      /\ Spawn(i, inst[i], fate) /\ UNCHANGED <<mail, readied, handoff, env>>
  BY PresentCommitted, Zenon DEF HandleStart, Startable, World, TypedWorld, Present
<1>2. Softened(inst[i], inst[i]) /\ Released(inst[i], inst[i])
  BY <1>1, Zenon DEF Softened, Released
<1> QED
  BY <1>1, <1>2, SpawnKind, Zenon DEF Kind

(* servicemgr_handle_stop.                                                 *)
LEMMA StopKind ==
    ASSUME World, NEW i, NEW fate, HandleStop(i, fate)
    PROVE  Calm
<1>1. /\ i \in Present /\ i \in Ids /\ handoff.committed /\ inst \in [Ids -> Insts]
      /\ inst[i].state # "ABSENT"
      /\ UNCHANGED <<handoff, env, alive, who, orphans, mail, readied>>
  BY PresentCommitted, Zenon DEF HandleStop, World, TypedWorld, Present
<1>2. PICK a \in BOOLEAN : a = (fate # "lost")
  BY Zenon
<1>3. ProcsFit
  BY <1>2, AskedProc, Zenon DEF HandleStop
<1>4. PICK s : s = [inst[i] EXCEPT !.state = "STOPPING", !.stopreq = TRUE, !.age = 0]
  BY Zenon
<1>5. "STOPPING" \in States /\ 0 \in 0..HeartbeatTimeout + 1 /\ inst[i] \in Insts
  BY <1>1, Sizes DEF States
<1>6. s \in Insts /\ s.inc = inst[i].inc /\ s.pid = inst[i].pid /\ s.state = "STOPPING"
  BY <1>4, <1>5, Zenon DEF Insts
<1>7. Fits(i, s)
  <2>1. s.state # "ABSENT" /\ s.state # "RUNNING"
    BY <1>6, Zenon
  <2> QED
    BY <1>1, <1>6, <2>1, Zenon DEF Fits, Released
<1>8. inst' = inst \/ inst' = [inst EXCEPT ![i] = s]
  BY <1>1, <1>4, Zenon DEF HandleStop
<1>9. InstsFit
  BY <1>1, <1>7, <1>8, SameInsts, OneInst, Zenon
<1> QED
  BY <1>1, <1>3, <1>9, CalmSupervisor, Zenon
(* A report that is taken up is the report of the process that the         *)
(* instance holds.                                                         *)
LEMMA TakenReport ==
    ASSUME World, NEW q \in Procs, who[q].svc \in Present, Authentic(inst[who[q].svc], q),
           mail[q] = "READY"
    PROVE  Reported(who[q].svc)
<1>1. PICK i : i = who[q].svc
  BY Zenon
<1>2. i \in Ids /\ inst[i].pid = q[2] /\ inst[i].inc = who[q].inc /\ handoff.committed
  BY <1>1, Zenon DEF Authentic, Present
<1>3. i # 0
  BY <1>2, Sizes DEF Ids
<1>4. q \in readied
  BY Zenon DEF World, Table
<1>5. q \notin orphans
  BY <1>1, <1>2, <1>3, Zenon DEF World, Belongs
<1>6. who[q] = [svc |-> i, inc |-> inst[i].inc]
  <2>1. who[q] \in Whos
    BY Zenon DEF World, TypedWorld
  <2>2. who[q] = [svc |-> who[q].svc, inc |-> who[q].inc]
    BY <2>1, Zenon DEF Whos
  <2> QED
    BY <1>1, <1>2, <2>2, Zenon
<1> QED
  BY <1>1, <1>2, <1>4, <1>5, <1>6, Zenon DEF Reported

(* servicemgr_handle_health_update.                                        *)
LEMMA HealthKind ==
    ASSUME World, NEW q \in Procs, HealthUpdate(q)
    PROVE  Calm
<1>1. PICK i : i = who[q].svc
  BY Zenon
<1>2. PICK to : to = mail[q]
  BY Zenon
<1>3. /\ UNCHANGED <<handoff, env, pm, readied>> /\ mail' = [mail EXCEPT ![q] = NoMail]
      /\ mail \in [Procs -> Health \cup {NoMail}] /\ to \in Health
  BY <1>2, Zenon DEF HealthUpdate, World, TypedWorld
<1>4. /\ mail' \in [Procs -> Health \cup {NoMail}]
      /\ \A p \in Procs : mail'[p] = "READY" => mail[p] = "READY"
  <2>1. mail'[q] = NoMail /\ \A p \in Procs : p # q => mail'[p] = mail[p]
    BY <1>3, Zenon
  <2>2. NoMail # "READY"
    BY Zenon DEF NoMail
  <2> QED
    BY <1>3, <2>1, <2>2, Zenon
<1>5. ProcsFit /\ alive' = alive /\ who' = who /\ orphans' = orphans
  BY <1>3, SameProcs, Zenon DEF pm
<1>6. InstsFit
  <2>1. CASE inst' = inst
    BY <2>1, SameInsts, Zenon
  <2>2. CASE /\ i \in Present /\ Authentic(inst[i], q) /\ inst[i].state \in Active \cup {"STOPPING"}
             /\ inst' = [inst EXCEPT ![i] =
                   [inst[i] EXCEPT !.health = to, !.state = StateFor(inst[i], to),
                                   !.age = IF StateFor(inst[i], to) = "STARTING" THEN @ ELSE 0]]
    <3>1. i \in Ids /\ inst[i] \in Insts
      BY <2>2, Zenon DEF Present, World, TypedWorld
    <3>2. PICK st : st = StateFor(inst[i], to)
      BY Zenon
    <3>3. /\ st \in States /\ st # "ABSENT" /\ inst[i].state # "ABSENT"
          /\ st = "RUNNING" => to = "READY" \/ inst[i].state = "RUNNING"
      BY <2>2, <3>2, Zenon DEF StateFor, States, Active
    <3>4. PICK a : a = IF st = "STARTING" THEN inst[i].age ELSE 0
      BY Zenon
    <3>5. a \in 0..HeartbeatTimeout + 1
      BY <3>1, <3>4, Sizes DEF Insts
    <3>6. PICK s : s = [inst[i] EXCEPT !.health = to, !.state = st, !.age = a]
      BY Zenon
    <3>7. s \in Insts /\ s.inc = inst[i].inc /\ s.pid = inst[i].pid /\ s.state = st
      BY <1>3, <3>1, <3>3, <3>5, <3>6, Zenon DEF Insts
    <3>8. inst' = [inst EXCEPT ![i] = s]
      BY <2>2, <3>2, <3>4, <3>6, Zenon
    <3>9. to = "READY" => Reported(i)
      BY <1>1, <1>2, <2>2, TakenReport, Zenon
    <3>10. Fits(i, s)
      BY <3>3, <3>7, <3>9, Zenon DEF Fits, Released
    <3> QED
      BY <3>1, <3>8, <3>10, OneInst, Zenon
  <2> QED
    BY <1>1, <1>2, <2>1, <2>2, Zenon DEF HealthUpdate
<1> QED
  BY <1>3, <1>4, <1>5, <1>6, Zenon DEF Calm, InstsFit, ProcsFit, pm

(* A process reports.                                                      *)
LEMMA ReportKind ==
    ASSUME World, NEW q \in Procs, NEW h \in env.reports, Report(q, h)
    PROVE  Calm
<1>1. h \in Health
  <2>1. PICK n : env \in SetupType(n)
    BY ServiceAssumption, Zenon DEF World, TypedWorld
  <2>2. env.reports \in SUBSET Health
    BY <2>1, Zenon DEF SetupType
  <2> QED
    BY <2>2, Zenon
<1>2. /\ q \in alive /\ mail \in [Procs -> Health \cup {NoMail}] /\ mail' = [mail EXCEPT ![q] = h]
      /\ UNCHANGED <<inst, handoff, env, pm>>
      /\ readied' = IF h = "READY" THEN readied \cup {q} ELSE readied
  BY Zenon DEF Report, World, TypedWorld
<1>3. /\ mail' \in [Procs -> Health \cup {NoMail}] /\ mail'[q] = h
      /\ \A p \in Procs : p # q => mail'[p] = mail[p]
  BY <1>1, <1>2, Zenon
<1>4. \A p \in Procs : mail'[p] = "READY" => mail[p] = "READY" \/ p \in readied'
  BY <1>2, <1>3, Zenon
<1>5. readied \subseteq readied' /\ readied' \subseteq readied \cup alive
  BY <1>2, Zenon
<1>6. InstsFit /\ ProcsFit
  BY <1>2, SameInsts, SameProcs, Zenon DEF pm
<1> QED
  BY <1>2, <1>3, <1>4, <1>5, <1>6, Zenon DEF Calm, InstsFit, ProcsFit, pm

(* A process ends.                                                         *)
LEMMA ExitKind ==
    ASSUME World, NEW q \in Procs, Exit(q)
    PROVE  Calm
<1>1. /\ q \in alive /\ alive' = alive \ {q} /\ mail \in [Procs -> Health \cup {NoMail}]
      /\ UNCHANGED <<inst, handoff, env, who, orphans, mail, readied>>
      /\ proc' = IF ExitReported /\ q[1] = "pm" THEN [proc EXCEPT ![q[2]] = "EXITED"] ELSE proc
  BY Zenon DEF Exit, World, TypedWorld
<1>2. ProcsFit /\ (~handoff.committed => proc' = proc)
  <2>1. CASE proc' = proc
    BY <2>1, SameProcs, Zenon
  <2>2. CASE q[1] = "pm" /\ proc' = [proc EXCEPT ![q[2]] = "EXITED"]
    <3>1. PICK n \in 1..MaxProcesses : q = <<"pm", n>>
      <4>1. CASE \E n \in KernelPids : q = <<"kernel", n>>
        BY <2>2, <4>1
      <4> QED
        BY <4>1, ProcShape, Zenon
    <3>2. q[2] = n
      BY <3>1, Zenon
    <3>3. proc[n] \notin {"FREE", "CREATED"} /\ q \notin alive'
      BY <1>1, <3>1, Zenon DEF World, Table
    <3>4. handoff.committed
      BY <3>3, Zenon DEF World, Before
    <3>5. proc \in [1..MaxProcesses -> PmStates] /\ "EXITED" \in PmStates
      BY Zenon DEF World, TypedWorld, PmStates
    <3>6. /\ proc' \in [1..MaxProcesses -> PmStates] /\ proc'[n] = "EXITED"
          /\ \A m \in 1..MaxProcesses : m # n => proc'[m] = proc[m]
      BY <2>2, <3>2, <3>5, Zenon
    <3>7. Moved(n) /\ \A m \in 1..MaxProcesses : m # n => Moved(m)
      BY <3>1, <3>3, <3>6, Zenon DEF Moved
    <3> QED
      BY <3>4, <3>6, <3>7, Zenon DEF ProcsFit
  <2> QED
    BY <1>1, <2>1, <2>2, Zenon
<1>3. InstsFit
  BY <1>1, SameInsts, Zenon
<1> QED
  BY <1>1, <1>2, <1>3, Zenon DEF Calm, InstsFit, ProcsFit
(* Steps that leave the services and the processes alone.                  *)
LEMMA IdleKind ==
    ASSUME World, UNCHANGED <<inst, env, pm, mail, readied>>, handoff'.committed = handoff.committed
    PROVE  Calm
<1>1. InstsFit /\ ProcsFit /\ mail \in [Procs -> Health \cup {NoMail}]
  BY SameInsts, SameProcs, Zenon DEF pm, World, TypedWorld
<1> QED
  BY <1>1, Zenon DEF Calm, InstsFit, ProcsFit, pm

(* A moment later.                                                         *)
Aged(r) == [r EXCEPT !.age = IF r.state \in Active
                             THEN Older(@, HeartbeatTimeout + 1) ELSE @,
                     !.wait = Max({@ - 1, 0})]

(* Times stay within their bounds.                                         *)
LEMMA AgedTyped ==
    ASSUME NEW r \in Insts
    PROVE  /\ Aged(r) \in Insts /\ Aged(r).state = r.state /\ Aged(r).pid = r.pid
           /\ Aged(r).inc = r.inc /\ Aged(r).rec = r.rec
<1>1. r.age \in 0..HeartbeatTimeout + 1 /\ r.wait \in 0..MaxBackoff
  BY Zenon DEF Insts
<1>2. PICK w : w = Max({r.wait - 1, 0})
  BY Zenon
<1>3. w \in 0..MaxBackoff
  BY <1>1, <1>2, MaxOf, Sizes
<1>4. PICK a : a = IF r.state \in Active THEN Older(r.age, HeartbeatTimeout + 1) ELSE r.age
  BY Zenon
<1>5. a \in 0..HeartbeatTimeout + 1
  <2>1. Older(r.age, HeartbeatTimeout + 1) \in 0..HeartbeatTimeout + 1
    BY <1>1, MinOf, Sizes DEF Older
  <2> QED
    BY <1>1, <1>4, <2>1, Zenon
<1>6. Aged(r) = [r EXCEPT !.age = a, !.wait = w]
  BY <1>2, <1>4, Zenon DEF Aged
<1> QED
  BY <1>3, <1>5, <1>6, Zenon DEF Insts

(* Time passes.                                                            *)
LEMMA TickKind ==
    ASSUME World, Tick
    PROVE  Calm
<1>1. /\ inst \in [Ids -> Insts] /\ inst' = [i \in Ids |-> Aged(inst[i])]
      /\ UNCHANGED <<handoff, env, pm, mail, readied>> /\ mail \in [Procs -> Health \cup {NoMail}]
  BY Zenon DEF Tick, Aged, World, TypedWorld
<1>2. \A i \in Ids : inst'[i] = Aged(inst[i]) /\ inst[i] \in Insts
  BY <1>1, Zenon
<1>3. inst' \in [Ids -> Insts]
  BY <1>1, <1>2, AgedTyped, Zenon
<1>4. \A i \in Ids : Softer(i)
  BY <1>2, AgedTyped, Zenon DEF Softer, Released
<1>5. ProcsFit
  BY <1>1, SameProcs, Zenon DEF pm
<1> QED
  BY <1>1, <1>3, <1>4, <1>5, Zenon DEF Calm, ProcsFit, pm

-----------------------------------------------------------------------------
(* A registration                                                          *)

(* servicemgr_handle_register takes the first empty place.                 *)
LEMMA RegisterShape ==
    ASSUME World, NEW policy \in Policies, NEW critical \in BOOLEAN, HandleRegister(policy, critical)
    PROVE  \E n \in 0..MaxServices - 1 :
             /\ Present = 1..n /\ Present' = 1..n + 1 /\ n + 1 \in Ids
             /\ inst' \in [Ids -> Insts] /\ inst'[n + 1].state = "CREATED" /\ inst'[n + 1].inc = 0
             /\ \A j \in Ids : j # n + 1 => inst'[j] = inst[j]
<1>1. PICK n \in 0..MaxServices : Present = 1..n
  BY Zenon DEF World, Before
<1>2. Cardinality(1..n) = n
  <2>1. 1 \in Int /\ n \in Int
    BY <1>1
  <2>2. Cardinality(1..n) = IF 1 > n THEN 0 ELSE n - 1 + 1
    BY <2>1, FS_Interval, Zenon
  <2> QED
    BY <1>1, <2>2
<1>3. PICK m : m = n + 1
  BY Zenon
<1>4. PICK rec : rec = [EmptyRec EXCEPT !.policy = policy, !.critical = critical, !.limit = MaxRestarts]
  BY Zenon
<1>5. rec \in Records
  <2>1. {} \in SUBSET (1..MaxServices) /\ 0 \in 0..HeartbeatTimeout /\ MaxRestarts \in 0..MaxRestarts
    BY Sizes
  <2> QED
    BY <1>4, <2>1, Zenon DEF EmptyRec, Records
<1>6. PICK s : s = Instance(rec, "CREATED", 0, "DECLARED")
  BY Zenon
<1>7. s \in Insts /\ s.state = "CREATED" /\ s.inc = 0
  <2>1. "CREATED" \in States /\ 0 \in Pids /\ "DECLARED" \in Health
    BY Sizes DEF States, Pids, Health
  <2> QED
    BY <1>5, <1>6, <2>1, InstanceTyped
<1>8. Cardinality(Present) = n
  BY <1>1, <1>2, Zenon
<1>9. inst \in [Ids -> Insts] /\ inst' = [inst EXCEPT ![m] = s] /\ n < MaxServices
  BY <1>3, <1>4, <1>6, <1>8, Zenon DEF HandleRegister, World, TypedWorld
<1>10. m \in Ids /\ n \in 0..MaxServices - 1
  BY <1>1, <1>3, <1>9, Sizes DEF Ids
<1>11. inst' \in [Ids -> Insts] /\ inst'[m] = s /\ \A j \in Ids : j # m => inst'[j] = inst[j]
  BY <1>7, <1>9, <1>10, Zenon
<1>12. Present' = Present \cup {m}
  <2>1. inst'[m].state # "ABSENT"
    BY <1>7, <1>11, Zenon
  <2> QED
    BY <1>10, <1>11, <2>1, Zenon DEF Present, Ids
<1>13. Present' = 1..m
  BY <1>1, <1>3, <1>12
<1> QED
  BY <1>1, <1>3, <1>7, <1>10, <1>11, <1>13, Zenon

(* No process belongs to a place that was empty.                           *)
LEMMA RegisterWorld ==
    ASSUME World, handoff.committed, NEW policy \in Policies, NEW critical \in BOOLEAN,
           HandleRegister(policy, critical)
    PROVE  World' /\ (Holder => Holder')
<1>1. PICK n \in 0..MaxServices - 1 :
             /\ Present = 1..n /\ Present' = 1..n + 1 /\ n + 1 \in Ids
             /\ inst' \in [Ids -> Insts] /\ inst'[n + 1].state = "CREATED" /\ inst'[n + 1].inc = 0
             /\ \A j \in Ids : j # n + 1 => inst'[j] = inst[j]
  BY RegisterShape, Zenon
<1>2. UNCHANGED <<handoff, env, proc, alive, who, orphans, mail, readied>>
  BY Zenon DEF HandleRegister, pm
<1>3. PICK m : m = n + 1
  BY Zenon
<1>4. /\ m \in Ids /\ m \notin Present /\ m \in 0..MaxServices
      /\ Present \subseteq Present' /\ Present' \subseteq Present \cup {m}
  BY <1>1, <1>3, Sizes DEF Ids
<1>5. \A j \in Ids : j # m => inst'[j] = inst[j]
  BY <1>1, <1>3, Zenon
<1>6. \A j \in Present : j \in Ids /\ j # m /\ inst'[j] = inst[j]
  BY <1>4, <1>5, Zenon DEF Present
<1>7. TypedWorld' /\ Table' /\ Unique' /\ Orphaned'
  BY <1>1, <1>2, Zenon DEF World, TypedWorld, Table, Unique, Orphaned
<1>8. Used' = Used
  BY <1>2, Zenon DEF Used
<1>9. Counted'
  <2>1. Cardinality(Used) \in Nat
    BY UsedSize DEF UsedFits
  <2>2. inst'[m].inc <= 1 + Cardinality(Used)
    BY <1>1, <1>3, <2>1
  <2> QED
    BY <1>5, <1>8, <2>2, Zenon DEF World, Counted
<1>10. Before'
  BY <1>1, <1>2, <1>3, <1>4, Zenon DEF Before
<1>11. Belongs'
  BY <1>2, <1>4, <1>6, Zenon DEF World, Belongs
<1>12. RunningReported'
  <2>1. inst'[m].state # "RUNNING"
    BY <1>1, <1>3, Zenon
  <2> QED
    BY <1>2, <1>4, <1>6, <2>1, Zenon DEF World, RunningReported
<1>13. Holder => Holder'
  BY <1>2, <1>6, Zenon DEF World, TypedWorld, Belongs, Holder
<1> QED
  BY <1>7, <1>9, <1>10, <1>11, <1>12, <1>13, Zenon DEF World
-----------------------------------------------------------------------------
(* The hand-over                                                           *)

Inits == [next : 0..MaxServices + 1, tries : 0..HandoffRetries,
          faults : 0..HandoffRetries + 1, result : {"busy", "complete", "failed"}]
Handoffs == [begun : BOOLEAN, committed : BOOLEAN, count : 0..MaxServices]

(* init and the supervisor stay within the graph, a committed graph is not *)
(* staged again, and every fault has cost an attempt.                      *)
Staging ==
    /\ init \in Inits /\ handoff \in Handoffs
    /\ init.next <= Len(graph) + 1 /\ handoff.count <= Len(graph)
    /\ init.result = "busy" => init.faults <= init.tries
    /\ handoff.committed => ~handoff.begun

(* Before the hand-over is committed, only lost calls cost attempts, and   *)
(* the supervisor has staged what init has handed over in this one.        *)
Afresh ==
    ~handoff.committed =>
      /\ init.result = "busy" => /\ init.faults = init.tries
                                 /\ init.next >= 1 => handoff.begun /\ handoff.count = init.next - 1
      /\ init.result # "busy" => init.result = "failed" /\ init.faults = HandoffRetries + 1

(* An instance as the commit makes it from a record of the graph.          *)
LEMMA AdoptedTyped ==
    ASSUME NEW s \in Setups, NEW i \in DOMAIN s.graph
    PROVE  /\ Adopted(s.graph, i) \in Insts
           /\ Adopted(s.graph, i).state \in {"CREATED", "STARTING"}
           /\ Adopted(s.graph, i).pid = s.graph[i].pid
           /\ Adopted(s.graph, i).inc = IF s.graph[i].pid = 0 THEN 0 ELSE 1
<1>1. PICK n \in 1..MaxServices : s.graph \in [1..n -> [rec : Records, pid : Nat]]
  BY Graphs, Zenon
<1>2. PICK g : g = s.graph[i]
  BY Zenon
<1>3. g \in [rec : Records, pid : Nat]
  BY <1>1, <1>2, Zenon
<1>4. g.rec \in Records
  BY <1>3, Zenon
<1>5. g.pid \in Pids
  <2>1. g.pid # 0 => g.pid \in KernelPids
    <3>1. g.pid \in {s.graph[j].pid : j \in DOMAIN s.graph}
      BY <1>2, Zenon
    <3>2. g.pid \in UNION {{t.graph[j].pid : j \in DOMAIN t.graph} : t \in Setups}
      BY <3>1, Zenon
    <3> QED
      BY <3>2, Zenon DEF KernelPids
  <2>2. 0 \in Pids
    BY Sizes DEF Pids
  <2> QED
    BY <2>1, <2>2, Zenon DEF Pids
<1>6. {"CREATED", "STARTING"} \subseteq States /\ {"DECLARED", "SPAWNED"} \subseteq Health
  BY Zenon DEF States, Active, Health
<1>7. CASE g.pid = 0
  <2>1. PICK r : r = Instance(g.rec, "CREATED", g.pid, "DECLARED")
    BY Zenon
  <2>2. r \in Insts /\ r.state = "CREATED" /\ r.pid = g.pid /\ r.inc = 0
    BY <1>4, <1>5, <1>6, <1>7, <2>1, InstanceTyped
  <2>3. Adopted(s.graph, i) = r
    BY <1>2, <1>7, <2>1, Zenon DEF Adopted
  <2> QED
    BY <1>2, <1>7, <2>2, <2>3, Zenon
<1>8. CASE g.pid # 0
  <2>1. PICK r : r = Instance(g.rec, "STARTING", g.pid, "SPAWNED")
    BY Zenon
  <2>2. r \in Insts /\ r.state = "STARTING" /\ r.pid = g.pid /\ r.inc = 1
    BY <1>4, <1>5, <1>6, <1>8, <2>1, InstanceTyped
  <2>3. Adopted(s.graph, i) = r
    BY <1>2, <1>8, <2>1, Zenon DEF Adopted
  <2> QED
    BY <1>2, <1>8, <2>2, <2>3, Zenon
<1> QED
  BY <1>7, <1>8, Zenon

(* The commit adopts init's processes, each as the first incarnation of    *)
(* its service.                                                            *)
LEMMA AdoptWorld ==
    ASSUME World, ~handoff.committed, handoff'.committed,
           inst' = [i \in Ids |-> IF i \in DOMAIN graph THEN Adopted(graph, i) ELSE Absent],
           UNCHANGED <<env, pm, mail, readied>>
    PROVE  World' /\ Holder'
<1>1. PICK n \in 1..MaxServices : graph \in [1..n -> [rec : Records, pid : Nat]]
  BY Graphs, Zenon DEF graph, World, TypedWorld
<1>2. DOMAIN graph = 1..n /\ 1..n \subseteq Ids
  BY <1>1, Sizes DEF Ids
<1>3. \A i \in DOMAIN graph :
         /\ inst'[i] \in Insts /\ inst'[i].state \in {"CREATED", "STARTING"}
         /\ inst'[i].pid = graph[i].pid /\ inst'[i].inc = IF graph[i].pid = 0 THEN 0 ELSE 1
  BY <1>2, AdoptedTyped, Zenon DEF graph, World, TypedWorld
<1>4. \A i \in Ids : i \notin DOMAIN graph => inst'[i] = Absent
  BY Zenon
<1>5. inst' \in [Ids -> Insts]
  <2>1. \A i \in Ids : inst'[i] \in Insts
    BY <1>3, <1>4, AbsentTyped, Zenon
  <2> QED
    BY <2>1, Zenon
<1>6. Present' = 1..n
  <2>1. \A i \in DOMAIN graph : inst'[i].state # "ABSENT"
    BY <1>3, Zenon
  <2> QED
    BY <1>2, <1>4, <2>1, AbsentTyped, Zenon DEF Present, Ids
<1>7. /\ env' = env /\ proc' = proc /\ alive' = alive /\ who' = who /\ orphans' = orphans
      /\ mail' = mail /\ readied' = readied
  BY Zenon DEF pm
<1>8. TypedWorld' /\ Table' /\ Unique' /\ Orphaned'
  BY <1>5, <1>7, Zenon DEF World, TypedWorld, Table, Unique, Orphaned
<1>9. Counted'
  <2>1. UsedFits'
    BY UsedSize, PTL
  <2>2. Cardinality(Used') \in Nat
    BY <2>1 DEF UsedFits
  <2>3. \A i \in Ids : inst'[i].inc = 0 \/ inst'[i].inc = 1
    BY <1>3, <1>4, AbsentTyped, Zenon
  <2>4. \A i \in Ids : inst'[i].inc <= 1 + Cardinality(Used')
    BY <2>2, <2>3
  <2> QED
    BY <2>4, Zenon DEF Counted
<1>10. Before'
  <2>1. n \in 0..MaxServices
    BY <1>1
  <2> QED
    BY <1>6, <2>1, Zenon DEF Before
<1>11. ASSUME NEW q \in Procs, who[q].svc # 0
       PROVE  /\ q \notin orphans /\ who[q].svc \in Present'
              /\ who[q].inc = inst'[who[q].svc].inc /\ inst'[who[q].svc].pid = q[2]
              /\ who[q].inc = 1
  <2>1. PICK i : i = who[q].svc
    BY Zenon
  <2>2. /\ who[q].inc = 1 /\ i \in DOMAIN graph /\ q = <<"kernel", graph[i].pid>> /\ orphans = {}
    BY <1>11, <2>1, Zenon DEF World, Before
  <2>3. q[2] = graph[i].pid
    BY <2>2, Zenon
  <2>4. q[2] # 0
    BY ProcShape, Zenon
  <2>5. inst'[i].pid = q[2] /\ inst'[i].inc = 1
    BY <1>3, <2>2, <2>3, <2>4, Zenon
  <2> QED
    BY <1>2, <1>6, <2>1, <2>2, <2>5, Zenon
<1>12. Belongs'
  <2>1. 1 <= 1
    OBVIOUS
  <2> QED
    BY <1>7, <1>11, <2>1, Zenon DEF Belongs
<1>13. RunningReported'
  <2>1. \A i \in DOMAIN graph : inst'[i].state # "RUNNING"
    BY <1>3, Zenon
  <2> QED
    BY <1>2, <1>6, <2>1, Zenon DEF RunningReported
<1>14. Holder'
  <2> SUFFICES ASSUME NEW q \in alive, q \notin orphans, who[q].svc # 0
               PROVE  who[q].inc = inst'[who[q].svc].inc /\ inst'[who[q].svc].pid = q[2]
    BY <1>7, Zenon DEF Holder
  <2>1. q \in Procs
    BY Zenon DEF World, TypedWorld
  <2> QED
    BY <1>11, <2>1, Zenon
<1> QED
  BY <1>8, <1>9, <1>10, <1>12, <1>13, <1>14, Zenon DEF World
(* What a call of the hand-over makes of init: it goes on, starts over or  *)
(* gives up.                                                               *)
Lost(fate) == IF fate = "answered" THEN 0 ELSE 1
GoesOn(fate, ok, next) == ok /\ fate = "answered" /\ init' = next
StartsOver(fate, ok) ==
    /\ ~(ok /\ fate = "answered") /\ init.tries < HandoffRetries
    /\ init'.next = 0 /\ init'.tries = init.tries + 1 /\ init'.result = "busy"
    /\ init'.faults = init.faults + Lost(fate)
GivesUp(fate, ok) ==
    /\ ~(ok /\ fate = "answered") /\ init.tries = HandoffRetries
    /\ init'.next = init.next /\ init'.tries = init.tries /\ init'.result = "failed"
    /\ init'.faults = init.faults + Lost(fate)

(* A failed call costs an attempt; the faults stay within the attempts.    *)
LEMMA Attempts ==
    ASSUME Staging, init.result = "busy", NEW fate, NEW ok \in BOOLEAN, NEW next \in Inits,
           Answered(fate, ok, next)
    PROVE  init' \in Inits /\ (GoesOn(fate, ok, next) \/ StartsOver(fate, ok) \/ GivesUp(fate, ok))
<1>1. PICK f : f = init.faults + Lost(fate)
  BY Zenon
<1>2. /\ init.faults \in Nat /\ init.tries \in 0..HandoffRetries /\ init.faults <= init.tries
      /\ init \in Inits
  BY Sizes DEF Staging, Inits
<1>3. f \in 0..HandoffRetries + 1
  BY <1>1, <1>2, Sizes DEF Lost
<1>4. CASE ok /\ fate = "answered"
  BY <1>4, Zenon DEF Answered, GoesOn
<1>5. CASE ~(ok /\ fate = "answered") /\ init.tries < HandoffRetries
  <2>1. init' = [init EXCEPT !.next = 0, !.tries = @ + 1, !.faults = f]
    BY <1>1, <1>5, Zenon DEF Answered, Lost
  <2>2. init.tries + 1 \in 0..HandoffRetries /\ 0 \in 0..MaxServices + 1
    BY <1>2, <1>5, Sizes
  <2>3. init' \in Inits /\ init'.next = 0 /\ init'.tries = init.tries + 1 /\ init'.result = "busy"
        /\ init'.faults = f
    BY <1>2, <1>3, <2>1, <2>2, Zenon DEF Inits
  <2> QED
    BY <1>1, <1>5, <2>3, Zenon DEF StartsOver
<1>6. CASE ~(ok /\ fate = "answered") /\ ~(init.tries < HandoffRetries)
  <2>1. init' = [init EXCEPT !.result = "failed", !.faults = f]
    BY <1>1, <1>6, Zenon DEF Answered, Lost
  <2>2. init' \in Inits /\ init'.next = init.next /\ init'.tries = init.tries /\ init'.result = "failed"
        /\ init'.faults = f
    BY <1>2, <1>3, <2>1, Zenon DEF Inits
  <2>3. init.tries = HandoffRetries
    BY <1>2, <1>6, Sizes
  <2> QED
    BY <1>1, <1>6, <2>2, <2>3, Zenon DEF GivesUp
<1> QED
  BY <1>4, <1>5, <1>6, Zenon

(* The three calls of the hand-over, each with what it leaves in init and  *)
(* in the supervisor.                                                      *)
BeginStep(fate) ==
    \E ok \in BOOLEAN, next \in Inits :
       /\ init.next = 0 /\ ok = ~handoff.committed
       /\ next.next = 1 /\ next.tries = init.tries /\ next.faults = init.faults /\ next.result = "busy"
       /\ GoesOn(fate, ok, next) \/ StartsOver(fate, ok) \/ GivesUp(fate, ok)
       /\ init' \in Inits /\ handoff' \in Handoffs
       /\ IF fate = "lost" THEN handoff' = handoff
          ELSE /\ handoff'.begun = ok /\ handoff'.count = 0
               /\ handoff'.committed = handoff.committed
       /\ inst' = inst /\ stab' = stab
ServiceStep(fate) ==
    \E ok \in BOOLEAN, next \in Inits :
       /\ init.next \in 1..Len(graph) /\ ok = (handoff.begun /\ handoff.count = init.next - 1)
       /\ next.next = init.next + 1 /\ next.tries = init.tries /\ next.faults = init.faults
       /\ next.result = "busy"
       /\ GoesOn(fate, ok, next) \/ StartsOver(fate, ok) \/ GivesUp(fate, ok)
       /\ init' \in Inits /\ handoff' \in Handoffs
       /\ IF fate = "lost" THEN handoff' = handoff
          ELSE IF ok THEN /\ handoff'.begun = handoff.begun /\ handoff'.count = handoff.count + 1
                          /\ handoff'.committed = handoff.committed
          ELSE /\ handoff'.begun = FALSE /\ handoff'.count = 0
               /\ handoff'.committed = handoff.committed
       /\ inst' = inst /\ stab' = stab
CommitStep(fate) ==
    \E ok \in BOOLEAN, next \in Inits :
       /\ init.next = Len(graph) + 1
       /\ ok = (handoff.begun /\ handoff.count = Len(graph) /\ Resolves(graph))
       /\ next.next = init.next /\ next.tries = init.tries /\ next.faults = init.faults
       /\ next.result = "complete"
       /\ GoesOn(fate, ok, next) \/ StartsOver(fate, ok) \/ GivesUp(fate, ok)
       /\ init' \in Inits /\ handoff' \in Handoffs
       /\ IF fate = "lost" THEN handoff' = handoff
          ELSE /\ handoff'.begun = FALSE /\ handoff'.count = 0
               /\ handoff'.committed = (handoff.committed \/ ok)
       /\ IF ok /\ fate # "lost"
          THEN /\ inst' = [i \in Ids |-> IF i \in DOMAIN graph THEN Adopted(graph, i) ELSE Absent]
               /\ stab' = Unstable
          ELSE inst' = inst /\ stab' = stab

(* The length of the graph.                                                *)
LEMMA GraphLen ==
    ASSUME env \in Setups
    PROVE  Len(graph) \in 1..MaxServices /\ DOMAIN graph = 1..Len(graph)
<1>1. PICK n \in 1..MaxServices : n = Len(env.graph) /\ env.graph \in [1..n -> [rec : Records, pid : Nat]]
  BY Graphs, Zenon
<1> QED
  BY <1>1, Zenon DEF graph

(* servicemgr_stage_begin,                                                 *)
LEMMA BeginCall ==
    ASSUME Staging, env \in Setups, NEW fate, init.result = "busy", StageBegin(fate)
    PROVE  BeginStep(fate)
<1>1. PICK ok \in BOOLEAN : ok = ~handoff.committed
  BY Zenon
<1>2. PICK next : next = [init EXCEPT !.next = 1]
  BY Zenon
<1>3. /\ next \in Inits /\ next.next = 1 /\ next.tries = init.tries /\ next.faults = init.faults
      /\ next.result = "busy"
  <2>1. 1 \in 0..MaxServices + 1
    BY Sizes
  <2> QED
    BY <1>2, <2>1, Zenon DEF Staging, Inits
<1>4. /\ init.next = 0 /\ Answered(fate, ok, next) /\ inst' = inst /\ stab' = stab
      /\ handoff' = IF fate = "lost" THEN handoff ELSE [handoff EXCEPT !.begun = ok, !.count = 0]
  BY <1>1, <1>2, Zenon DEF StageBegin
<1>5. init' \in Inits /\ (GoesOn(fate, ok, next) \/ StartsOver(fate, ok) \/ GivesUp(fate, ok))
  BY <1>3, <1>4, Attempts, Zenon
<1>6. /\ handoff' \in Handoffs
      /\ IF fate = "lost" THEN handoff' = handoff
         ELSE /\ handoff'.begun = ok /\ handoff'.count = 0
              /\ handoff'.committed = handoff.committed
  <2>1. 0 \in 0..MaxServices /\ handoff \in Handoffs
    BY Sizes DEF Staging
  <2>2. PICK h : h = [handoff EXCEPT !.begun = ok, !.count = 0]
    BY Zenon
  <2>3. h \in Handoffs /\ h.begun = ok /\ h.count = 0 /\ h.committed = handoff.committed
    BY <2>1, <2>2, Zenon DEF Handoffs
  <2> QED
    BY <1>4, <2>1, <2>2, <2>3, Zenon
<1> QED
  BY <1>1, <1>3, <1>4, <1>5, <1>6, Zenon DEF BeginStep

(* servicemgr_stage_service,                                               *)
LEMMA ServiceCall ==
    ASSUME Staging, env \in Setups, NEW fate, init.result = "busy", StageService(fate)
    PROVE  ServiceStep(fate)
<1>0. Len(graph) \in 1..MaxServices /\ DOMAIN graph = 1..Len(graph) /\ init.next \in 1..Len(graph)
  BY GraphLen, Zenon DEF StageService
<1>1. PICK ok \in BOOLEAN : ok = (handoff.begun /\ handoff.count = init.next - 1)
  BY Zenon
<1>2. PICK next : next = [init EXCEPT !.next = @ + 1]
  BY Zenon
<1>3. /\ next \in Inits /\ next.next = init.next + 1 /\ next.tries = init.tries
      /\ next.faults = init.faults /\ next.result = "busy"
  <2>1. init.next + 1 \in 0..MaxServices + 1
    BY <1>0, Sizes
  <2> QED
    BY <1>2, <2>1, Zenon DEF Staging, Inits
<1>4. /\ Answered(fate, ok, next) /\ inst' = inst /\ stab' = stab
      /\ handoff' = IF fate = "lost" THEN handoff
                    ELSE IF ok THEN [handoff EXCEPT !.count = @ + 1]
                    ELSE [handoff EXCEPT !.begun = FALSE, !.count = 0]
  BY <1>1, <1>2, Zenon DEF StageService
<1>5. init' \in Inits /\ (GoesOn(fate, ok, next) \/ StartsOver(fate, ok) \/ GivesUp(fate, ok))
  BY <1>3, <1>4, Attempts, Zenon
<1>6. /\ handoff' \in Handoffs
      /\ IF fate = "lost" THEN handoff' = handoff
         ELSE IF ok THEN /\ handoff'.begun = handoff.begun /\ handoff'.count = handoff.count + 1
                         /\ handoff'.committed = handoff.committed
         ELSE /\ handoff'.begun = FALSE /\ handoff'.count = 0
              /\ handoff'.committed = handoff.committed
  <2>1. ok => handoff.count + 1 \in 0..MaxServices
    <3>1. ok => handoff.count = init.next - 1
      BY <1>1, Zenon
    <3>2. handoff.count = init.next - 1 => handoff.count + 1 \in 0..MaxServices
      BY <1>0, Sizes
    <3> QED
      BY <3>1, <3>2, Zenon
  <2>2. 0 \in 0..MaxServices
    BY Sizes
  <2> QED
    BY <1>4, <2>1, <2>2, Zenon DEF Staging, Handoffs
<1> QED
  BY <1>0, <1>1, <1>3, <1>4, <1>5, <1>6, Zenon DEF ServiceStep

(* and servicemgr_stage_commit, with what becomes of init.                 *)
LEMMA CommitCall ==
    ASSUME Staging, NEW fate, init.result = "busy", StageCommit(fate)
    PROVE  CommitStep(fate)
<1>1. PICK ok \in BOOLEAN : ok = (handoff.begun /\ handoff.count = Len(graph) /\ Resolves(graph))
  BY Zenon
<1>2. PICK next : next = [init EXCEPT !.result = "complete"]
  BY Zenon
<1>3. /\ next \in Inits /\ next.next = init.next /\ next.tries = init.tries
      /\ next.faults = init.faults /\ next.result = "complete"
  BY <1>2, Zenon DEF Staging, Inits
<1>4. /\ Answered(fate, ok, next) /\ init.next = Len(graph) + 1
      /\ handoff' = IF fate = "lost" THEN handoff
                    ELSE [begun |-> FALSE, count |-> 0, committed |-> handoff.committed \/ ok]
      /\ IF ok /\ fate # "lost"
         THEN /\ inst' = [i \in Ids |-> IF i \in DOMAIN graph THEN Adopted(graph, i) ELSE Absent]
              /\ stab' = Unstable
         ELSE inst' = inst /\ stab' = stab
  BY <1>1, <1>2, Zenon DEF StageCommit
<1>5. init' \in Inits /\ (GoesOn(fate, ok, next) \/ StartsOver(fate, ok) \/ GivesUp(fate, ok))
  BY <1>3, <1>4, Attempts, Zenon
<1>6. /\ handoff' \in Handoffs
      /\ IF fate = "lost" THEN handoff' = handoff
         ELSE /\ handoff'.begun = FALSE /\ handoff'.count = 0
              /\ handoff'.committed = (handoff.committed \/ ok)
  <2>1. (handoff.committed \/ ok) \in BOOLEAN /\ 0 \in 0..MaxServices
    BY Sizes
  <2> QED
    BY <1>4, <2>1, Zenon DEF Staging, Handoffs
<1> QED
  BY <1>1, <1>3, <1>4, <1>5, <1>6, Zenon DEF CommitStep
(* A call that changes a position or a count stays within the graph.       *)
LEMMA HandoverStaging ==
    ASSUME Staging, env \in Setups, NEW fate, Handover(fate)
    PROVE  Staging'
<1>0. /\ Len(graph) \in Nat /\ graph' = graph /\ init.result = "busy" /\ init \in Inits
      /\ handoff \in Handoffs
  <2>1. Len(graph) \in 1..MaxServices
    BY GraphLen, Zenon
  <2>2. Len(graph) \in Nat
    BY <2>1
  <2> QED
    BY <2>2, Zenon DEF Handover, graph, Staging
<1>1. PICK L : L = Len(graph)
  BY Zenon
<1>2. /\ L \in Nat /\ init.next <= L + 1 /\ handoff.count <= L /\ init.faults <= init.tries
      /\ init.next \in Nat /\ init.tries \in Nat /\ init.faults \in Nat /\ handoff.count \in Nat
      /\ handoff.committed => ~handoff.begun
  BY <1>0, <1>1, Sizes DEF Staging, Inits, Handoffs
<1>3. \A ok \in BOOLEAN : StartsOver(fate, ok) \/ GivesUp(fate, ok) =>
         /\ init'.next <= L + 1
         /\ init'.result = "busy" => init'.faults <= init'.tries
  BY <1>2 DEF StartsOver, GivesUp, Lost
<1>4. CASE BeginStep(fate)
  <2>1. PICK ok \in BOOLEAN, next \in Inits :
          /\ ok = ~handoff.committed /\ next.next = 1 /\ next.tries = init.tries
          /\ next.faults = init.faults
          /\ GoesOn(fate, ok, next) \/ StartsOver(fate, ok) \/ GivesUp(fate, ok)
          /\ init' \in Inits /\ handoff' \in Handoffs
          /\ \/ handoff' = handoff
             \/ handoff'.begun = ok /\ handoff'.count = 0 /\ handoff'.committed = handoff.committed
    BY <1>4, Zenon DEF BeginStep
  <2>2. init'.next <= L + 1 /\ (init'.result = "busy" => init'.faults <= init'.tries)
    <3>1. CASE GoesOn(fate, ok, next)
      BY <1>1, <1>2, <2>1, <3>1 DEF GoesOn
    <3>2. CASE StartsOver(fate, ok) \/ GivesUp(fate, ok)
      BY <1>3, <3>2, Zenon
    <3> QED
      BY <2>1, <3>1, <3>2, Zenon
  <2>3. handoff'.count <= L
    BY <1>2, <2>1
  <2>4. handoff'.committed => ~handoff'.begun
    BY <1>2, <2>1, Zenon
  <2> QED
    BY <1>0, <1>1, <2>1, <2>2, <2>3, <2>4, Zenon DEF Staging
<1>5. CASE ServiceStep(fate)
  <2>1. PICK ok \in BOOLEAN, next \in Inits :
          /\ init.next \in 1..Len(graph) /\ ok = (handoff.begun /\ handoff.count = init.next - 1)
          /\ next.next = init.next + 1 /\ next.tries = init.tries /\ next.faults = init.faults
          /\ GoesOn(fate, ok, next) \/ StartsOver(fate, ok) \/ GivesUp(fate, ok)
          /\ init' \in Inits /\ handoff' \in Handoffs
          /\ \/ handoff' = handoff
             \/ /\ ok /\ handoff'.begun = handoff.begun /\ handoff'.count = handoff.count + 1
                /\ handoff'.committed = handoff.committed
             \/ handoff'.begun = FALSE /\ handoff'.count = 0 /\ handoff'.committed = handoff.committed
    BY <1>5, Zenon DEF ServiceStep
  <2>2. init'.next <= L + 1 /\ (init'.result = "busy" => init'.faults <= init'.tries)
    <3>1. CASE GoesOn(fate, ok, next)
      BY <1>1, <1>2, <2>1, <3>1 DEF GoesOn
    <3>2. CASE StartsOver(fate, ok) \/ GivesUp(fate, ok)
      BY <1>3, <3>2, Zenon
    <3> QED
      BY <2>1, <3>1, <3>2, Zenon
  <2>3. handoff'.count <= L
    <3>1. ok => handoff.count = init.next - 1
      BY <2>1, Zenon
    <3>2. init.next \in 1..L
      BY <1>1, <2>1, Zenon
    <3> QED
      BY <1>2, <2>1, <3>1, <3>2
  <2>4. handoff'.committed => ~handoff'.begun
    BY <1>2, <2>1, Zenon
  <2> QED
    BY <1>0, <1>1, <2>1, <2>2, <2>3, <2>4, Zenon DEF Staging
<1>6. CASE CommitStep(fate)
  <2>1. PICK ok \in BOOLEAN, next \in Inits :
          /\ next.next = init.next /\ next.tries = init.tries /\ next.faults = init.faults
          /\ GoesOn(fate, ok, next) \/ StartsOver(fate, ok) \/ GivesUp(fate, ok)
          /\ init' \in Inits /\ handoff' \in Handoffs
          /\ \/ handoff' = handoff
             \/ handoff'.begun = FALSE /\ handoff'.count = 0
    BY <1>6, Zenon DEF CommitStep
  <2>2. init'.next <= L + 1 /\ (init'.result = "busy" => init'.faults <= init'.tries)
    <3>1. CASE GoesOn(fate, ok, next)
      BY <1>1, <1>2, <2>1, <3>1, Zenon DEF GoesOn
    <3>2. CASE StartsOver(fate, ok) \/ GivesUp(fate, ok)
      BY <1>3, <3>2, Zenon
    <3> QED
      BY <2>1, <3>1, <3>2, Zenon
  <2>3. handoff'.count <= L
    BY <1>2, <2>1
  <2>4. handoff'.committed => ~handoff'.begun
    BY <1>2, <2>1, Zenon
  <2> QED
    BY <1>0, <1>1, <2>1, <2>2, <2>3, <2>4, Zenon DEF Staging
<1> QED
  BY <1>0, <1>4, <1>5, <1>6, BeginCall, ServiceCall, CommitCall, Zenon DEF Handover
(* Only a commit that succeeds touches the services, and only once.        *)
LEMMA HandoverWorld ==
    ASSUME World, Staging, NEW fate, Handover(fate)
    PROVE  World' /\ (NumbersApart /\ Holder => Holder')
<1>1. /\ init.result = "busy" /\ UNCHANGED <<env, pm, mail, readied>>
      /\ handoff.committed => ~handoff.begun
  BY Zenon DEF Handover, Staging
<1>2. ASSUME inst' = inst, handoff'.committed = handoff.committed
      PROVE  World' /\ (NumbersApart /\ Holder => Holder')
  <2>1. Calm
    BY <1>1, <1>2, IdleKind, Zenon
  <2> QED
    BY <2>1, CalmWorld, CalmHolder, Zenon
<1>3. CASE BeginStep(fate)
  BY <1>2, <1>3, Zenon DEF BeginStep
<1>4. CASE ServiceStep(fate)
  BY <1>2, <1>4, Zenon DEF ServiceStep
<1>5. CASE CommitStep(fate)
  <2>1. PICK ok \in BOOLEAN :
          /\ ok => handoff.begun
          /\ IF fate = "lost" THEN handoff' = handoff
             ELSE handoff'.committed = (handoff.committed \/ ok)
          /\ IF ok /\ fate # "lost"
             THEN inst' = [i \in Ids |-> IF i \in DOMAIN graph THEN Adopted(graph, i) ELSE Absent]
             ELSE inst' = inst
    BY <1>5, Zenon DEF CommitStep
  <2>2. CASE ok /\ fate # "lost"
    <3>1. ~handoff.committed /\ handoff'.committed
      BY <1>1, <2>1, <2>2, Zenon
    <3> QED
      BY <1>1, <2>1, <2>2, <3>1, AdoptWorld, Zenon
  <2>3. CASE ~(ok /\ fate # "lost")
    <3>1. inst' = inst
      BY <2>1, <2>3, Zenon
    <3>2. CASE fate = "lost"
      BY <1>2, <2>1, <3>1, <3>2, Zenon
    <3>3. CASE ~ok /\ fate # "lost"
      <4>1. handoff.committed \in BOOLEAN
        BY Zenon DEF Staging, Handoffs
      <4>2. handoff'.committed = handoff.committed
        BY <2>1, <3>3, <4>1
      <4> QED
        BY <1>2, <3>1, <4>2, Zenon
    <3> QED
      BY <2>3, <3>2, <3>3, Zenon
  <2> QED
    BY <2>2, <2>3, Zenon
<1>6. env \in Setups
  BY Zenon DEF World, TypedWorld
<1> QED
  BY <1>1, <1>3, <1>4, <1>5, <1>6, BeginCall, ServiceCall, CommitCall, Zenon DEF Handover

(* Until the commit, a call is refused only if it was not answered.        *)
LEMMA HandoverAfresh ==
    ASSUME GraphsResolve, Staging, Afresh, env \in Setups, NEW fate, Handover(fate)
    PROVE  Afresh'
<1> SUFFICES ASSUME ~handoff'.committed
             PROVE  /\ init'.result = "busy" =>
                         /\ init'.faults = init'.tries
                         /\ init'.next >= 1 => handoff'.begun /\ handoff'.count = init'.next - 1
                    /\ init'.result # "busy" => init'.result = "failed" /\ init'.faults = HandoffRetries + 1
  BY Zenon DEF Afresh
<1>0. /\ init.result = "busy" /\ init \in Inits /\ handoff \in Handoffs
  BY Zenon DEF Handover, Staging
<1>1. /\ init.next \in Nat /\ init.tries \in Nat /\ init.faults \in Nat /\ handoff.count \in Nat
      /\ handoff.committed \in BOOLEAN /\ handoff.begun \in BOOLEAN
  BY <1>0, Sizes DEF Inits, Handoffs
<1>2. ASSUME ~handoff.committed
      PROVE  init.faults = init.tries /\ (init.next >= 1 => handoff.begun /\ handoff.count = init.next - 1)
  BY <1>0, <1>2, Zenon DEF Afresh
<1>3. ASSUME NEW ok \in BOOLEAN, ok, ~handoff.committed, StartsOver(fate, ok) \/ GivesUp(fate, ok)
      PROVE  /\ init'.result = "busy" =>
                  /\ init'.faults = init'.tries
                  /\ init'.next >= 1 => handoff'.begun /\ handoff'.count = init'.next - 1
             /\ init'.result # "busy" => init'.result = "failed" /\ init'.faults = HandoffRetries + 1
  <2>1. Lost(fate) = 1
    BY <1>3, Zenon DEF StartsOver, GivesUp, Lost
  <2>2. CASE StartsOver(fate, ok)
    BY <1>1, <1>2, <1>3, <2>1, <2>2 DEF StartsOver
  <2>3. CASE GivesUp(fate, ok)
    BY <1>1, <1>2, <1>3, <2>1, <2>3, Zenon DEF GivesUp
  <2> QED
    BY <1>3, <2>2, <2>3, Zenon
<1>4. CASE BeginStep(fate)
  <2>1. PICK ok \in BOOLEAN, next \in Inits :
          /\ ok = ~handoff.committed /\ next.next = 1 /\ next.tries = init.tries
          /\ next.faults = init.faults /\ next.result = "busy"
          /\ GoesOn(fate, ok, next) \/ StartsOver(fate, ok) \/ GivesUp(fate, ok)
          /\ IF fate = "lost" THEN handoff' = handoff
             ELSE handoff'.begun = ok /\ handoff'.count = 0 /\ handoff'.committed = handoff.committed
    BY <1>4, Zenon DEF BeginStep
  <2>2. ~handoff.committed /\ ok
    BY <2>1, Zenon
  <2>3. CASE GoesOn(fate, ok, next)
    <3>1. init' = next /\ fate = "answered"
      BY <2>3, Zenon DEF GoesOn
    <3>2. handoff'.begun = ok /\ handoff'.count = 0
      BY <2>1, <3>1, Zenon
    <3> QED
      BY <1>1, <1>2, <2>1, <2>2, <3>1, <3>2
  <2> QED
    BY <1>3, <2>1, <2>2, <2>3, Zenon
<1>5. CASE ServiceStep(fate)
  <2>1. PICK ok \in BOOLEAN, next \in Inits :
          /\ init.next \in 1..Len(graph) /\ ok = (handoff.begun /\ handoff.count = init.next - 1)
          /\ next.next = init.next + 1 /\ next.tries = init.tries /\ next.faults = init.faults
          /\ next.result = "busy"
          /\ GoesOn(fate, ok, next) \/ StartsOver(fate, ok) \/ GivesUp(fate, ok)
          /\ IF fate = "lost" THEN handoff' = handoff
             ELSE IF ok THEN /\ handoff'.begun = handoff.begun /\ handoff'.count = handoff.count + 1
                             /\ handoff'.committed = handoff.committed
             ELSE handoff'.committed = handoff.committed
    BY <1>5, Zenon DEF ServiceStep
  <2>2. ~handoff.committed
    BY <2>1, Zenon
  <2>3. init.next >= 1
    BY <1>1, <2>1
  <2>4. ok /\ handoff.begun /\ handoff.count = init.next - 1
    BY <1>2, <2>1, <2>2, <2>3, Zenon
  <2>5. CASE GoesOn(fate, ok, next)
    <3>1. init' = next /\ fate = "answered"
      BY <2>5, Zenon DEF GoesOn
    <3>2. handoff'.begun = handoff.begun /\ handoff'.count = handoff.count + 1
      BY <2>1, <2>4, <3>1, Zenon
    <3>3. handoff'.count = init'.next - 1 /\ init'.faults = init'.tries
      BY <1>1, <1>2, <2>1, <2>2, <2>4, <3>1, <3>2
    <3> QED
      BY <2>1, <2>4, <3>1, <3>2, <3>3, Zenon
  <2> QED
    BY <1>3, <2>1, <2>2, <2>4, <2>5, Zenon
<1>6. CASE CommitStep(fate)
  <2>1. PICK ok \in BOOLEAN, next \in Inits :
          /\ init.next = Len(graph) + 1
          /\ ok = (handoff.begun /\ handoff.count = Len(graph) /\ Resolves(graph))
          /\ GoesOn(fate, ok, next) \/ StartsOver(fate, ok) \/ GivesUp(fate, ok)
          /\ IF fate = "lost" THEN handoff' = handoff
             ELSE handoff'.committed = (handoff.committed \/ ok)
    BY <1>6, Zenon DEF CommitStep
  <2>2. ~handoff.committed
    BY <2>1, Zenon
  <2>3. Resolves(graph)
    BY Zenon DEF GraphsResolve, graph
  <2>4. PICK L : L = Len(graph)
    BY Zenon
  <2>5. L \in 1..MaxServices
    BY <2>4, GraphLen, Zenon
  <2>6. init.next = L + 1
    BY <2>1, <2>4, Zenon
  <2>7. init.next >= 1 /\ init.next - 1 = L
    BY <2>5, <2>6
  <2>8. handoff.begun /\ handoff.count = L
    BY <1>2, <2>2, <2>7, Zenon
  <2>9. ok
    BY <2>1, <2>3, <2>4, <2>8, Zenon
  <2>10. CASE GoesOn(fate, ok, next)
    <3>1. fate # "lost"
      BY <2>10, Zenon DEF GoesOn
    <3> QED
      BY <2>1, <2>9, <3>1, Zenon
  <2> QED
    BY <1>3, <2>1, <2>2, <2>9, <2>10, Zenon
<1> QED
  BY <1>0, <1>4, <1>5, <1>6, BeginCall, ServiceCall, CommitCall, Zenon DEF Handover
-----------------------------------------------------------------------------
(* The stability window                                                    *)

Stabs == [reached : BOOLEAN, active : BOOLEAN, age : 0..Window]
Loop == at \in 0..MaxServices + 1 /\ stab \in Stabs /\ StableEarned

(* invalidate_stability.                                                   *)
LEMMA UnstableTyped ==
    Unstable \in Stabs /\ Unstable.reached = FALSE /\ Unstable.active = FALSE
<1>1. 0 \in 0..Window
  BY Sizes DEF Window
<1> QED
  BY <1>1, Zenon DEF Unstable, Stabs

(* Without a window there is nothing to earn.                              *)
LEMMA UnstableEarned ==
    ASSUME stab' = Unstable
    PROVE  stab' \in Stabs /\ StableEarned'
BY UnstableTyped, Zenon DEF StableEarned

(* Nor if nothing changes.                                                 *)
LEMMA SameEarned ==
    ASSUME Loop, inst' = inst, stab' = stab
    PROVE  stab' \in Stabs /\ StableEarned'
BY Zenon DEF Loop, StableEarned, Critical, Present

(* set_state: what it does to one instance keeps what is said of all.      *)
OthersSame(i) == \A j \in Ids : j # i => inst'[j] = inst[j]

LEMMA OneEarned ==
    ASSUME Loop, NEW i, Invalidated(i), OthersSame(i)
    PROVE  stab' \in Stabs /\ StableEarned'
<1>1. CASE stab' = Unstable
  BY <1>1, UnstableEarned, Zenon
<1>2. CASE stab' = stab /\ ~(inst'[i].rec.critical /\ inst'[i].state # "RUNNING")
  <2>1. \A j \in Critical' : j # i => j \in Critical /\ inst'[j] = inst[j]
    BY Zenon DEF Critical, Present, OthersSame
  <2>2. \A j \in Critical' : inst'[j].rec.critical
    BY Zenon DEF Critical
  <2> QED
    BY <1>2, <2>1, <2>2, Zenon DEF Loop, StableEarned
<1> QED
  BY <1>1, <1>2, Zenon DEF Invalidated

(* The positions at which the loop turns.                                  *)
LEMMA AtTyped ==
    1 \in 0..MaxServices + 1 /\ 0 \in 0..MaxServices + 1
BY Sizes

OnlyOne(i) == \E s : inst' = [inst EXCEPT ![i] = s]

(* A change of one instance leaves the others alone.                       *)
LEMMA OnlyOneElse ==
    ASSUME World, NEW i, OnlyOne(i)
    PROVE  OthersSame(i)
BY Zenon DEF OnlyOne, OthersSame, World, TypedWorld

(* A start is one.                                                         *)
LEMMA SpawnOne ==
    ASSUME NEW i, NEW r, NEW fate, Spawn(i, r, fate)
    PROVE  OnlyOne(i)
BY Zenon DEF Spawn, OnlyOne

(* The pass over the instances,                                            *)
LEMMA CheckLoop ==
    ASSUME World, Loop, NEW fate, CheckInstance(fate)
    PROVE  Loop'
<1>1. inst \in [Ids -> Insts] /\ at \in Ids /\ Invalidated(at) /\ at' = at + 1
  BY Zenon DEF World, TypedWorld, CheckInstance, Present
<1>2. \E r : Recover(at, r, fate) \/ Keep(at, r) \/ Spawn(at, r, fate)
  BY Zenon DEF CheckInstance
<1>3. PICK r : Recover(at, r, fate) \/ Keep(at, r) \/ Spawn(at, r, fate)
  BY <1>2, Zenon
<1>4. OnlyOne(at)
  <2>1. CASE Spawn(at, r, fate)
    BY <2>1, SpawnOne, Zenon
  <2>2. CASE Keep(at, r)
    BY <2>2, Zenon DEF Keep, OnlyOne
  <2>3. CASE Recover(at, r, fate)
    BY <2>3, Zenon DEF Recover, Keep, AskStop, OnlyOne
  <2> QED
    BY <1>3, <2>1, <2>2, <2>3, Zenon
<1>5. at' \in 0..MaxServices + 1
  BY <1>1, Sizes DEF Ids
<1> QED
  BY <1>1, <1>4, <1>5, OnlyOneElse, OneEarned, Zenon DEF Loop

(* requests to start and to stop,                                          *)
LEMMA MessageLoop ==
    ASSUME World, Loop, NEW i, NEW fate, HandleStart(i, fate) \/ HandleStop(i, fate)
    PROVE  Loop'
<1>1. inst \in [Ids -> Insts] /\ Invalidated(i) /\ at' = 1
  BY Zenon DEF World, TypedWorld, HandleStart, HandleStop, Turn
<1>2. OthersSame(i)
  <2>1. CASE HandleStart(i, fate)
    <3>1. OnlyOne(i)
      BY <2>1, SpawnOne, Zenon DEF HandleStart
    <3> QED
      BY <3>1, OnlyOneElse, Zenon
  <2>2. CASE HandleStop(i, fate)
    BY <1>1, <2>2, Zenon DEF HandleStop, OthersSame
  <2> QED
    BY <2>1, <2>2, Zenon
<1> QED
  BY <1>1, <1>2, AtTyped, OneEarned, Zenon DEF Loop

(* and reports go through set_state.                                       *)
LEMMA HealthLoop ==
    ASSUME World, Loop, NEW q, HealthUpdate(q)
    PROVE  Loop'
<1>1. inst \in [Ids -> Insts] /\ at' = 1
  BY Zenon DEF World, TypedWorld, HealthUpdate, Turn
<1>2. CASE inst' = inst /\ stab' = stab
  BY <1>1, <1>2, AtTyped, SameEarned, Zenon DEF Loop
<1>3. CASE \E i, s : inst' = [inst EXCEPT ![i] = s] /\ Invalidated(i)
  <2>1. PICK i, s : inst' = [inst EXCEPT ![i] = s] /\ Invalidated(i)
    BY <1>3, Zenon
  <2>2. OthersSame(i)
    BY <1>1, <2>1, Zenon DEF OthersSame
  <2> QED
    BY <1>1, <2>1, <2>2, AtTyped, OneEarned, Zenon DEF Loop
<1> QED
  BY <1>2, <1>3, Zenon DEF HealthUpdate

(* A service that is registered while the window is open is CREATED.       *)
LEMMA RegisterLoop ==
    ASSUME World, Loop, NEW policy \in Policies, NEW critical \in BOOLEAN,
           HandleRegister(policy, critical)
    PROVE  Loop'
<1>1. PICK m : /\ inst'[m].state = "CREATED"
               /\ \A j \in Ids : j # m => inst'[j] = inst[j]
  BY RegisterShape, Zenon
<1>2. stab' = stab /\ at' = 1
  BY Zenon DEF HandleRegister, Turn
<1>3. \A j \in Critical' : j # m => j \in Critical /\ inst'[j] = inst[j]
  BY <1>1, Zenon DEF Critical, Present
<1>4. StableEarned'
  BY <1>1, <1>2, <1>3, Zenon DEF Loop, StableEarned
<1> QED
  BY <1>2, <1>4, AtTyped, Zenon DEF Loop

(* The age of the window grows up to its length.                           *)
LEMMA TickLoop ==
    ASSUME World, Loop, Tick
    PROVE  Loop'
<1>1. \A i \in Ids : inst'[i].state = inst[i].state /\ inst'[i].rec = inst[i].rec
  BY AgedTyped, Zenon DEF Tick, Aged, World, TypedWorld
<1>2. Critical' = Critical
  BY <1>1, Zenon DEF Critical, Present, Ids
<1>3. \A i \in Critical : i \in Ids
  BY Zenon DEF Critical, Present
<1>4. stab \in Stabs /\ at' = at
  BY Zenon DEF Loop, Tick
<1>5. CASE ~stab.active
  <2>1. stab' = stab
    BY <1>5, Zenon DEF Tick
  <2> QED
    BY <1>4, <1>5, <2>1, Zenon DEF Loop, StableEarned
<1>6. CASE stab.active
  <2>1. PICK a : a = Older(stab.age, Window)
    BY Zenon
  <2>2. Window \in Nat /\ stab.age \in 0..Window
    BY <1>4, Sizes DEF Window, Stabs
  <2>3. a \in 0..Window /\ (stab.age = Window => a = Window)
    BY <2>1, <2>2, MinOf DEF Older
  <2>4. stab' = [stab EXCEPT !.age = a]
    BY <1>6, <2>1, Zenon DEF Tick
  <2>5. stab' \in Stabs /\ stab'.active = stab.active /\ stab'.reached = stab.reached /\ stab'.age = a
    BY <1>4, <2>3, <2>4, Zenon DEF Stabs
  <2>6. StableEarned'
    BY <1>1, <1>2, <1>3, <1>6, <2>3, <2>5, Zenon DEF Loop, StableEarned
  <2> QED
    BY <1>4, <2>5, <2>6, Zenon DEF Loop
<1> QED
  BY <1>5, <1>6, Zenon

(* The end of the pass opens the window, keeps it or closes it.            *)
LEMMA StabilityLoop ==
    ASSUME Loop, CheckStability
    PROVE  Loop'
<1>1. at' = 0 /\ inst' = inst /\ stab \in Stabs
  BY Zenon DEF CheckStability, Loop
<1>2. Critical' = Critical
  BY <1>1, Zenon DEF Critical, Present
<1>3. CASE stab' = Unstable
  BY <1>1, <1>3, AtTyped, UnstableEarned, Zenon DEF Loop
<1>4. CASE stab' # Unstable
  <2>1. \A i \in Critical : inst[i].state = "RUNNING"
    BY <1>4, Zenon DEF CheckStability
  <2>2. \/ ~stab.active /\ stab' = [reached |-> FALSE, active |-> TRUE, age |-> 0]
        \/ stab.active /\ stab' = [stab EXCEPT !.reached = @ \/ stab.age >= Window]
    BY <1>4, Zenon DEF CheckStability
  <2>3. Window \in Nat /\ stab.age \in 0..Window
    BY <1>1, Sizes DEF Window, Stabs
  <2>4. stab' \in Stabs /\ (stab'.reached => stab'.active /\ stab'.age = Window)
    <3>1. CASE stab' = [reached |-> FALSE, active |-> TRUE, age |-> 0]
      <4>1. 0 \in 0..Window
        BY <2>3
      <4> QED
        BY <3>1, <4>1, Zenon DEF Stabs
    <3>2. CASE stab.active /\ stab' = [stab EXCEPT !.reached = @ \/ stab.age >= Window]
      <4>1. PICK b \in BOOLEAN : b = (stab.reached \/ stab.age >= Window)
        BY Zenon
      <4>2. stab' = [stab EXCEPT !.reached = b]
        BY <3>2, <4>1, Zenon
      <4>3. stab' \in Stabs /\ stab'.reached = b /\ stab'.active = stab.active /\ stab'.age = stab.age
        BY <1>1, <4>2, Zenon DEF Stabs
      <4>4. stab.age >= Window => stab.age = Window
        BY <2>3
      <4>5. stab.reached => stab.age = Window
        BY Zenon DEF Loop, StableEarned
      <4> QED
        BY <3>2, <4>1, <4>3, <4>4, <4>5, Zenon
    <3> QED
      BY <2>2, <3>1, <3>2, Zenon
  <2>5. StableEarned'
    BY <1>1, <1>2, <2>1, <2>4, Zenon DEF StableEarned
  <2> QED
    BY <1>1, <2>4, <2>5, AtTyped, Zenon DEF Loop
<1> QED
  BY <1>3, <1>4, Zenon

(* A commit closes the window.                                             *)
LEMMA HandoverLoop ==
    ASSUME World, Staging, Loop, NEW fate, Handover(fate)
    PROVE  Loop'
<1>1. at' = 1 /\ (stab' = Unstable \/ (inst' = inst /\ stab' = stab))
  BY Zenon DEF Handover, Turn, StageBegin, StageService, StageCommit
<1> QED
  BY <1>1, AtTyped, UnstableEarned, SameEarned, Zenon DEF Loop
-----------------------------------------------------------------------------
(* The first state, and every step                                         *)

IInv == World /\ Staging /\ Loop

(* init's processes at the start.                                          *)
LEMMA InitWho ==
    ASSUME Init
    PROVE  /\ alive \subseteq Procs /\ who \in [Procs -> Whos]
           /\ \A q \in Procs : who[q].svc # 0 =>
                 /\ who[q].inc = 1 /\ who[q].svc \in DOMAIN graph
                 /\ q = <<"kernel", graph[who[q].svc].pid>>
           /\ \A n \in 1..MaxProcesses : <<"pm", n>> \notin alive /\ who[<<"pm", n>>] = Nobody
<1>1. env \in Setups /\ alive = {<<"kernel", graph[i].pid>> : i \in {j \in DOMAIN graph : graph[j].pid # 0}}
  BY Zenon DEF Init
<1>2. Len(graph) \in 1..MaxServices /\ DOMAIN graph = 1..Len(graph)
  BY <1>1, GraphLen, Zenon
<1>3. \A q \in alive : \E i \in DOMAIN graph : q = <<"kernel", graph[i].pid>> /\ graph[i].pid \in KernelPids
  <2> SUFFICES ASSUME NEW i \in DOMAIN graph, graph[i].pid # 0
               PROVE  graph[i].pid \in KernelPids
    BY <1>1, Zenon
  <2>1. graph[i].pid \in {env.graph[j].pid : j \in DOMAIN env.graph}
    BY Zenon DEF graph
  <2>2. graph[i].pid \in UNION {{t.graph[j].pid : j \in DOMAIN t.graph} : t \in Setups}
    BY <1>1, <2>1, Zenon
  <2> QED
    BY <2>2, Zenon DEF KernelPids
<1>4. alive \subseteq Procs
  BY <1>3, Zenon DEF Procs
<1>5. ASSUME NEW q \in Procs
      PROVE  /\ who[q] \in Whos
             /\ q \notin alive => who[q] = Nobody
             /\ who[q].svc # 0 => /\ who[q].inc = 1 /\ who[q].svc \in DOMAIN graph
                                  /\ q = <<"kernel", graph[who[q].svc].pid>>
  <2>1. CASE q \in alive
    <3>1. PICK i : i = CHOOSE j \in DOMAIN graph : q = <<"kernel", graph[j].pid>>
      BY Zenon
    <3>2. i \in DOMAIN graph /\ q = <<"kernel", graph[i].pid>>
      BY <1>3, <2>1, <3>1, Zenon
    <3>3. who[q] = [svc |-> i, inc |-> 1]
      BY <2>1, <3>1, Zenon DEF Init
    <3>4. i \in 0..MaxServices /\ 1 \in Incs
      BY <1>2, <3>2, Sizes DEF Incs
    <3>5. who[q] \in Whos /\ who[q].svc = i /\ who[q].inc = 1
      BY <3>3, <3>4 DEF Whos
    <3> QED
      BY <2>1, <3>2, <3>5, Zenon
  <2>2. CASE q \notin alive
    <3>1. who[q] = Nobody
      BY <2>2, Zenon DEF Init
    <3>2. Nobody \in Whos /\ Nobody.svc = 0
      BY Sizes DEF Nobody, Whos, Incs
    <3> QED
      BY <3>1, <3>2, Zenon
  <2> QED
    BY <2>1, <2>2, Zenon
<1>6. who \in [Procs -> Whos]
  BY <1>5, Zenon DEF Init
<1>7. ASSUME NEW n \in 1..MaxProcesses
      PROVE  <<"pm", n>> \notin alive
  <2>1. \A m : <<"pm", n>> # <<"kernel", m>>
    BY Zenon
  <2> QED
    BY <1>3, <2>1, Zenon
<1> QED
  BY <1>4, <1>5, <1>6, <1>7, PmProc, Zenon

(* The services and processes at the start,                                *)
LEMMA InitWorld ==
    ASSUME Init
    PROVE  World /\ Holder
<1>1. /\ inst = [i \in Ids |-> Absent] /\ env \in Setups /\ ~handoff.committed
      /\ proc = [n \in 1..MaxProcesses |-> "FREE"] /\ mail = [q \in Procs |-> NoMail]
      /\ orphans = {} /\ readied = {}
  BY Zenon DEF Init
<1>2. \A i \in Ids : inst[i] = Absent
  BY <1>1, Zenon
<1>3. \A n \in 1..MaxProcesses : proc[n] = "FREE"
  BY <1>1, Zenon
<1>4. TypedWorld
  BY <1>1, <1>2, InitWho, AbsentTyped, Zenon DEF TypedWorld, PmStates
<1>5. Table
  <2>1. \A q \in Procs : mail[q] # "READY"
    BY <1>1, Zenon DEF NoMail
  <2>2. \A n \in 1..MaxProcesses : proc[n] # "EXITED"
    BY <1>3, Zenon
  <2>3. \A n \in 1..MaxProcesses : <<"pm", n>> \notin alive /\ who[<<"pm", n>>] = Nobody
    BY InitWho, Zenon
  <2> QED
    BY <1>1, <2>1, <2>2, <2>3, Zenon DEF Table
<1>6. Counted
  <2>1. Cardinality(Used) \in Nat
    BY UsedSize DEF UsedFits
  <2>2. 0 <= 1 + Cardinality(Used)
    BY <2>1
  <2> QED
    BY <1>2, <2>2, AbsentTyped, Zenon DEF Counted
<1>7. Present = {}
  BY <1>2, AbsentTyped, Zenon DEF Present
<1>8. Before
  <2>1. 1..0 = {} /\ 0 \in 0..MaxServices
    BY Sizes
  <2>2. \E n \in 0..MaxServices : Present = 1..n
    BY <1>7, <2>1, Zenon
  <2>3. \A q \in Procs : who[q].svc # 0 =>
                 /\ who[q].inc = 1 /\ who[q].svc \in DOMAIN graph
                 /\ q = <<"kernel", graph[who[q].svc].pid>>
    BY InitWho, Zenon
  <2> QED
    BY <1>1, <1>3, <1>7, <2>2, <2>3, Zenon DEF Before
<1>9. Unique
  <2>1. \A q \in Procs : who[q].svc # 0 => q = <<"kernel", graph[who[q].svc].pid>>
    BY InitWho, Zenon
  <2> QED
    BY <2>1, Zenon DEF Unique
<1>10. Belongs /\ Orphaned /\ Holder /\ RunningReported
  BY <1>1, <1>7, Zenon DEF Belongs, Orphaned, Holder, RunningReported
<1> QED
  BY <1>4, <1>5, <1>6, <1>8, <1>9, <1>10, Zenon DEF World

(* and the loop and the hand-over.                                         *)
LEMMA InitRest ==
    ASSUME Init
    PROVE  Staging /\ Loop /\ Afresh
<1>1. /\ at = 1 /\ stab = Unstable /\ env \in Setups
      /\ handoff = [begun |-> FALSE, committed |-> FALSE, count |-> 0]
      /\ init = [next |-> 0, tries |-> 0, faults |-> 0, result |-> "busy"]
  BY Zenon DEF Init
<1>2. Len(graph) \in 1..MaxServices
  BY <1>1, GraphLen, Zenon
<1>3. Staging
  BY <1>1, <1>2, Sizes DEF Staging, Inits, Handoffs
<1>4. Loop
  <2>1. stab \in Stabs /\ stab.reached = FALSE /\ stab.active = FALSE
    BY <1>1, UnstableTyped, Zenon
  <2> QED
    BY <1>1, <2>1, AtTyped, Zenon DEF Loop, StableEarned
<1>5. Afresh
  BY <1>1 DEF Afresh
<1> QED
  BY <1>3, <1>4, <1>5, Zenon

(* One step: the services and the processes, the loop, the hand-over.      *)
LEMMA KindWorld ==
    ASSUME World, Kind
    PROVE  World' /\ (NumbersApart /\ Holder => Holder')
<1>1. CASE Calm
  BY <1>1, CalmWorld, CalmHolder, Zenon
<1>2. ASSUME NEW i, NEW n, NEW silent \in BOOLEAN, Launch(i, n, silent)
      PROVE  World' /\ (NumbersApart /\ Holder => Holder')
  BY <1>2, LaunchWorld, LaunchHolder, Zenon
<1> QED
  BY <1>1, <1>2, Zenon DEF Kind

(* Every step keeps what is said of services and processes,                *)
LEMMA StepWorld ==
    ASSUME World, Staging, [Next]_vars
    PROVE  World' /\ (NumbersApart /\ Holder => Holder')
<1>1. ASSUME Calm
      PROVE  World' /\ (NumbersApart /\ Holder => Holder')
  BY <1>1, KindWorld, Zenon DEF Kind
<1>2. CASE Poll
  <2>1. CASE \E fate \in Fates : CheckInstance(fate)
    BY <2>1, CheckKind, KindWorld, Zenon
  <2>2. CASE CheckStability \/ RecvNothing
    <3>1. UNCHANGED <<inst, env, pm, mail, readied>> /\ handoff' = handoff
      BY <2>2, Zenon DEF CheckStability, RecvNothing
    <3> QED
      BY <1>1, <3>1, IdleKind, Zenon
  <2> QED
    BY <1>2, <2>1, <2>2, Zenon DEF Poll
<1>3. CASE Admin
  <2>1. CASE \E i \in Ids, fate \in Fates : HandleStart(i, fate)
    BY <2>1, StartKind, KindWorld, Zenon
  <2>2. CASE \E i \in Ids, fate \in Fates : HandleStop(i, fate)
    BY <1>1, <2>2, StopKind, Zenon
  <2>3. CASE \E p \in Policies, c \in BOOLEAN : HandleRegister(p, c)
    BY <1>3, <2>3, RegisterWorld, Zenon DEF Admin
  <2> QED
    BY <1>3, <2>1, <2>2, <2>3, Zenon DEF Admin
<1>4. CASE Tick
  BY <1>1, <1>4, TickKind, Zenon
<1>5. CASE \E fate \in Fates : Handover(fate)
  BY <1>5, HandoverWorld, Zenon
<1>6. CASE \E q \in Procs : HealthUpdate(q) \/ Exit(q) \/ \E h \in env.reports : Report(q, h)
  BY <1>1, <1>6, HealthKind, ExitKind, ReportKind, Zenon
<1>7. CASE UNCHANGED vars
  <2>1. UNCHANGED <<inst, env, pm, mail, readied>> /\ handoff' = handoff
    BY <1>7, Zenon DEF vars
  <2> QED
    BY <1>1, <2>1, IdleKind, Zenon
<1> QED
  BY <1>2, <1>3, <1>4, <1>5, <1>6, <1>7, Zenon DEF Next

(* and of the loop and the hand-over.                                      *)
LEMMA StepRest ==
    ASSUME World, Staging, Loop, [Next]_vars
    PROVE  Staging' /\ Loop' /\ (GraphsResolve /\ Afresh => Afresh')
<1>0. env \in Setups
  BY Zenon DEF World, TypedWorld
<1>1. ASSUME UNCHANGED <<handoff, env, init>>
      PROVE  Staging' /\ (GraphsResolve /\ Afresh => Afresh')
  BY <1>1, Zenon DEF Staging, Afresh, graph
<1>2. CASE Poll
  <2>1. CASE \E fate \in Fates : CheckInstance(fate)
    <3>1. UNCHANGED <<handoff, env, init>>
      BY <2>1, Zenon DEF CheckInstance
    <3> QED
      BY <1>1, <2>1, <3>1, CheckLoop, Zenon
  <2>2. CASE CheckStability
    BY <1>1, <2>2, StabilityLoop, Zenon DEF CheckStability
  <2>3. CASE RecvNothing
    <3>1. at' = 1 /\ inst' = inst /\ stab' = stab /\ UNCHANGED <<handoff, env, init>>
      BY <2>3, Zenon DEF RecvNothing, Turn
    <3> QED
      BY <1>1, <3>1, SameEarned, AtTyped, Zenon DEF Loop
  <2> QED
    BY <1>2, <2>1, <2>2, <2>3, Zenon DEF Poll
<1>3. CASE Admin
  <2>1. CASE \E i \in Ids, fate \in Fates : HandleStart(i, fate) \/ HandleStop(i, fate)
    <3>1. UNCHANGED <<handoff, env, init>>
      BY <2>1, Zenon DEF HandleStart, HandleStop
    <3> QED
      BY <1>1, <2>1, <3>1, MessageLoop, Zenon
  <2>2. CASE \E p \in Policies, c \in BOOLEAN : HandleRegister(p, c)
    <3>1. UNCHANGED <<handoff, env, init>>
      BY <2>2, Zenon DEF HandleRegister
    <3> QED
      BY <1>1, <2>2, <3>1, RegisterLoop, Zenon
  <2> QED
    BY <1>3, <2>1, <2>2, Zenon DEF Admin
<1>4. CASE Tick
  BY <1>1, <1>4, TickLoop, Zenon DEF Tick
<1>5. CASE \E fate \in Fates : Handover(fate)
  BY <1>0, <1>5, HandoverLoop, HandoverStaging, HandoverAfresh, Zenon
<1>6. CASE \E q \in Procs : HealthUpdate(q)
  <2>1. UNCHANGED <<handoff, env, init>>
    BY <1>6, Zenon DEF HealthUpdate
  <2> QED
    BY <1>1, <1>6, <2>1, HealthLoop, Zenon
<1>7. CASE UNCHANGED <<inst, at, stab, handoff, env, init>>
  BY <1>1, <1>7, SameEarned, Zenon DEF Loop
<1>8. CASE \E q \in Procs : Exit(q) \/ \E h \in env.reports : Report(q, h)
  BY <1>7, <1>8, Zenon DEF Exit, Report
<1>9. CASE UNCHANGED vars
  BY <1>7, <1>9, Zenon DEF vars
<1> QED
  BY <1>2, <1>3, <1>4, <1>5, <1>6, <1>8, <1>9, Zenon DEF Next

(* The types, as the model states them.                                    *)
LEMMA TypeOKHolds ==
    ASSUME IInv
    PROVE  TypeOK
BY Zenon DEF IInv, World, TypedWorld, Staging, Loop, TypeOK, Insts, Pids, Incs, Whos, PmStates,
    Stabs, Inits, Handoffs

(* Two processes of a service that run would be the same incarnation.      *)
LEMMA HolderOne ==
    ASSUME IInv, Holder
    PROVE  OneProcess
<1>1. ASSUME NEW i \in Present
      PROVE  /\ Cardinality({q \in alive \ orphans : who[q].svc = i}) <= 1
             /\ inst[i].pid = 0 => ~\E q \in alive \ orphans : who[q].svc = i
  <2> DEFINE S == {q \in alive \ orphans : who[q].svc = i}
  <2>1. handoff.committed /\ i \in Ids
    BY PresentCommitted, Zenon DEF IInv, Present
  <2>2. i # 0
    BY <2>1, Sizes DEF Ids
  <2>3. ASSUME NEW q \in S
        PROVE  /\ q \in Procs /\ q \notin orphans /\ who[q].svc = i /\ who[q].inc = inst[i].inc
               /\ inst[i].pid = q[2] /\ q[2] # 0 /\ who[q] \in Whos
    <3>1. q \in alive /\ q \notin orphans /\ who[q].svc = i
      BY Zenon
    <3>2. q \in Procs
      BY <3>1, Zenon DEF IInv, World, TypedWorld
    <3>3. who[q] \in Whos
      BY <3>2, Zenon DEF IInv, World, TypedWorld
    <3> QED
      BY <2>1, <2>2, <3>1, <3>2, <3>3, ProcShape, Zenon DEF Holder
  <2>4. ASSUME NEW p \in S, NEW q \in S
        PROVE  p = q
    <3>1. who[p] = [svc |-> i, inc |-> inst[i].inc] /\ who[q] = [svc |-> i, inc |-> inst[i].inc]
      BY <2>3, Zenon DEF Whos
    <3> QED
      BY <2>2, <2>3, <3>1, Zenon DEF IInv, World, Unique
  <2>5. Cardinality(S) <= 1
    <3>1. CASE S = {}
      BY <3>1, FS_EmptySet
    <3>2. CASE S # {}
      <4>1. PICK p : p \in S
        BY <3>2, Zenon
      <4>2. S = {p}
        BY <2>4, <4>1, Zenon
      <4>3. Cardinality({p}) = 1
        BY FS_Singleton, Zenon
      <4> QED
        BY <4>2, <4>3
    <3> QED
      BY <3>1, <3>2, Zenon
  <2>6. inst[i].pid = 0 => ~\E q \in alive \ orphans : who[q].svc = i
    BY <2>3, Zenon
  <2> QED
    BY <2>5, <2>6, Zenon
<1> QED
  BY <1>1, TypeOKHolds, Zenon DEF OneProcess

-----------------------------------------------------------------------------
(* The invariant that the theorems rest on.                                *)
LEMMA Supervised == Spec => []IInv
<1>1. Init => IInv
  BY InitWorld, InitRest, Zenon DEF IInv
<1>2. IInv /\ [Next]_vars => IInv'
  BY StepWorld, StepRest, Zenon DEF IInv
<1> QED
  BY <1>1, <1>2, PTL DEF Spec

(* When the kernel's numbers for init's children are not numbers of the    *)
(* process manager, no service ever has two running processes, apart from  *)
(* starts that were not answered: check_instance spawns a replacement only *)
(* when the exit of the old process was proved.                            *)
THEOREM OneProcessEach == NumbersApart => (Spec => []OneProcess)
<1> SUFFICES ASSUME NumbersApart
             PROVE  Spec => []OneProcess
  BY Zenon
<1>1. Init => Holder
  BY InitWorld, Zenon
<1>2. IInv /\ Holder /\ [Next]_vars => Holder'
  BY StepWorld, Zenon DEF IInv
<1>3. IInv /\ Holder => OneProcess
  BY HolderOne, Zenon
<1> QED
  BY <1>1, <1>2, <1>3, Supervised, PTL DEF Spec

(* servicemgr_handle_health_update makes a service RUNNING only on the     *)
(* READY of the process that it holds, whatever reports arrive late.       *)
THEOREM RunningEarned == Spec => []RunningReported
<1>1. IInv => RunningReported
  BY Zenon DEF IInv, World
<1> QED
  BY <1>1, Supervised, PTL

(* STABLE is reported only after a whole window in which every critical    *)
(* service was RUNNING: set_state ends the window on any other state.      *)
THEOREM StabilityEarned == Spec => []StableEarned
<1>1. IInv => StableEarned
  BY Zenon DEF IInv, Loop
<1> QED
  BY <1>1, Supervised, PTL

(* When init hands over graphs that it has resolved, it fails only after a *)
(* commit or after more lost calls than it has retries: stage_begin clears *)
(* whatever an earlier attempt has left.                                   *)
THEOREM RetriesSuffice == GraphsResolve => (Spec => []RetryStartsAfresh)
<1> SUFFICES ASSUME GraphsResolve
             PROVE  Spec => []RetryStartsAfresh
  BY Zenon
<1>1. Init => Afresh
  BY InitRest, Zenon
<1>2. IInv /\ Afresh /\ [Next]_vars => Afresh'
  BY StepRest, Zenon DEF IInv
<1>3. IInv /\ Afresh => RetryStartsAfresh
  <2>1. HandoffRetries + 1 > HandoffRetries
    BY Sizes
  <2>2. "failed" # "busy"
    BY Zenon
  <2> QED
    BY <2>1, <2>2, Zenon DEF Afresh, RetryStartsAfresh
<1> QED
  BY <1>1, <1>2, <1>3, Supervised, PTL DEF Spec
=============================================================================
