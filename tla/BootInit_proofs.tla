--------------------------- MODULE BootInit_proofs ---------------------------
(***************************************************************************)
(* The boot graph of init, for any manifest, any profiles and any number   *)
(* of retries: services stand on READY dependencies, a boot that ends well *)
(* has a READY core, and a compensation that failed stays visible.         *)
(***************************************************************************)
EXTENDS BootInit, TLAPS

(* The manifest requires no service of the classes that are launched after *)
(* the last look at required failures (init_manifest.c).                   *)
RequiredEarly == \A s \in Required : Class[s] \in {"CORE", "INFRA"}

-----------------------------------------------------------------------------
(* The inductive invariant                                                 *)

Up == {"SPAWNED", "BOUND", "READY"}
Fresh == {"DECLARED", "WAITING"}
Recorded(s) == \E i \in DOMAIN records : records[i] = s

(* The roll-back stack has every service that is up, once, and above all   *)
(* those it depends on.                                                    *)
Stacked ==
    /\ \A i, k \in DOMAIN records : records[i] = records[k] => i = k
    /\ \A i \in DOMAIN records : state[records[i]] \notin Fresh \cup {"UNUSED"}
    /\ \A s \in Services : state[s] \in Up => Recorded(s)
    /\ \A i \in DOMAIN records : \A d \in Deps[records[i]] :
          \E k \in DOMAIN records : k < i /\ records[k] = d
Standing == \A s \in Services : state[s] \in Up => \A d \in Deps[s] : state[d] = "READY"

(* What the kernel launched for init is gone, has failed, or can still be  *)
(* rolled back.                                                            *)
Tracked == \A s \in Bootstrap :
              proc[s] \in {"none", "gone"} \/ state[s] = "FAILED" \/ Recorded(s)

(* What init has heard was said.                                           *)
Heard ==
    \A s \in Services :
       /\ state[s] = "BOUND" \/ event[s] = "BOUND" => said[s] >= 1
       /\ state[s] = "READY" \/ event[s] = "READY" => said[s] = 2

(* Where init is.                                                          *)
Place ==
    /\ \A s \in at.todo : Class[s] = at.cls /\ state[s] \in Fresh
    /\ at.op # "launch" => at.todo = {}
    /\ at.op = "select" => /\ records = <<>> /\ result = "NONE"
                           /\ \A s \in Services : state[s] = "UNUSED" /\ proc[s] = "none"
    /\ at.op \in {"select", "check", "poll", "deadline"} => at.cls = "CORE"
    /\ at.op \in {"poll", "deadline"} => at.j >= 1
    /\ at.op \in {"launch", "deadline"} => at.j <= Len(Manifest)
    /\ at.op = "reap" => records # <<>>
    /\ at.op # "end" => tries <= HandoffRetries /\ result = "NONE"
    /\ safe => at.op \in {"rollback", "reap", "end"}
    /\ at.op = "end" /\ safe => records = <<>>

(* init leaves the CORE class only when its required services are READY,   *)
(* and the INFRA class only when no required one has failed.               *)
Beyond(classes) == (at.op = "launch" /\ at.cls \in classes) \/ at.op = "handoff"
                     \/ result \notin {"NONE", "FAILED"}
Passed ==
    /\ Beyond({"INFRA", "OPTIONAL", "LATE"}) => AllReady("CORE")
    /\ Beyond({"OPTIONAL", "LATE"}) => ~ AnyRequiredFailed("INFRA")

IInv == TypeOK /\ Stacked /\ Standing /\ Tracked /\ Heard /\ Place /\ Passed

-----------------------------------------------------------------------------
(* The books of init                                                       *)

Books == Stacked /\ Standing /\ Tracked /\ Heard

(* The parts of ManifestAssumption, one by one.                            *)
LEMMA Sizes ==
    /\ Manifest \in Seq(Services) /\ Len(Manifest) \in Nat
    /\ \A i \in 1..Len(Manifest) : Manifest[i] \in Services
    /\ Class \in [Services -> {"CORE", "INFRA", "OPTIONAL", "LATE"}]
    /\ Deps \in [Services -> SUBSET Services] /\ HandoffRetries \in Nat
    /\ Required \subseteq Services /\ Bootstrap \subseteq Services
<1>1. Manifest \in Seq(Services)
  BY ManifestAssumption, Zenon
<1>2. Len(Manifest) \in Nat /\ \A i \in 1..Len(Manifest) : Manifest[i] \in Services
  BY <1>1
<1> QED
  BY <1>1, <1>2, ManifestAssumption, Zenon

(* What a sequence of services gives the steps below.                      *)
LEMMA RecordsTyped ==
    ASSUME TypeOK
    PROVE  /\ records \in Seq(Services) /\ Len(records) \in Nat
           /\ DOMAIN records = 1..Len(records)
           /\ \A i \in DOMAIN records : records[i] \in Services
<1>1. records \in Seq(Services)
  BY Zenon DEF TypeOK
<1> QED
  BY <1>1

(* A step that leaves states, stack and reports alone, and brings no       *)
(* process of the kernel to life.                                          *)
LEMMA BooksKept ==
    ASSUME Books, UNCHANGED <<state, records, event, said>>,
           \A s \in Bootstrap : proc[s] \in {"none", "gone"} => proc'[s] = proc[s]
    PROVE  Books'
<1>1. Stacked' /\ Standing' /\ Heard'
  BY DEF Books, Stacked, Standing, Heard, Recorded
<1>2. Tracked'
  BY Zenon DEF Books, Tracked, Recorded
<1> QED
  BY <1>1, <1>2, Zenon DEF Books

(* The state of one service that is not READY turns to st.                 *)
Turned(s, st) ==
    /\ s \in Services /\ state[s] # "READY" /\ state' = [state EXCEPT ![s] = st]
    /\ records' = records /\ said' = said
    /\ st \in Up => state[s] \in Up
    /\ st \in Fresh \cup {"UNUSED"} => state[s] \in Fresh
    /\ state[s] = "FAILED" => st = "FAILED"
    /\ \A r \in Services : event'[r] = event[r] \/ event'[r] = "none"
    /\ \A r \in Bootstrap : proc'[r] = proc[r] \/ proc'[r] \in {"none", "gone"}
    /\ st = "BOUND" => said[s] >= 1
    /\ st = "READY" => said[s] = 2

(* A service changes its state outside the launch and the roll-back.       *)
LEMMA BooksTurned ==
    ASSUME TypeOK, Books, NEW s, NEW st, Turned(s, st)
    PROVE  Books'
<1>0. s \in Services /\ state'[s] = st /\ \A r \in Services : r # s => state'[r] = state[r]
  BY Zenon DEF Turned, TypeOK
<1>1. Stacked'
  <2>1. ASSUME NEW i \in DOMAIN records PROVE state'[records[i]] \notin Fresh \cup {"UNUSED"}
    <3>1. records[i] \in Services /\ state[records[i]] \notin Fresh \cup {"UNUSED"}
      BY RecordsTyped, Zenon DEF Books, Stacked
    <3>2. CASE records[i] = s
      BY <1>0, <3>1, <3>2 DEF Turned
    <3> QED
      BY <1>0, <3>1, <3>2, Zenon
  <2>2. ASSUME NEW r \in Services, state'[r] \in Up PROVE Recorded(r)'
    <3>1. state[r] \in Up
      BY <1>0, <2>2, Zenon DEF Turned
    <3> QED
      BY <3>1, Zenon DEF Books, Stacked, Turned, Recorded
  <2> QED
    BY <2>1, <2>2 DEF Books, Stacked, Turned
<1>2. Standing'
  <2>1. ASSUME NEW r \in Services, state'[r] \in Up, NEW d \in Deps[r]
        PROVE  state'[d] = "READY"
    <3>1. state[r] \in Up
      BY <1>0, <2>1, Zenon DEF Turned
    <3>2. state[d] = "READY" /\ d \in Services
      BY <3>1, Sizes, Zenon DEF Books, Standing
    <3> QED
      BY <3>2, <1>0, Zenon DEF Turned
  <2> QED
    BY <2>1, Zenon DEF Standing
<1>3. Tracked'
  <2>1. ASSUME NEW r \in Bootstrap, proc'[r] \notin {"none", "gone"}
        PROVE  state'[r] = "FAILED" \/ Recorded(r)'
    <3>1. proc'[r] = proc[r]
      BY <2>1, Zenon DEF Turned
    <3>2. state[r] = "FAILED" \/ Recorded(r)
      BY <2>1, <3>1, Zenon DEF Books, Tracked
    <3>3. state[r] = "FAILED" => state'[r] = "FAILED"
      BY <1>0, Sizes, Zenon DEF Turned
    <3> QED
      BY <3>2, <3>3, Zenon DEF Turned, Recorded
  <2> QED
    BY <2>1, Zenon DEF Tracked
<1>4. Heard'
  <2>1. ASSUME NEW r \in Services
        PROVE  /\ state'[r] = "BOUND" \/ event'[r] = "BOUND" => said'[r] >= 1
               /\ state'[r] = "READY" \/ event'[r] = "READY" => said'[r] = 2
    <3>1. CASE r = s
      BY <1>0, <3>1, Zenon DEF Turned, Books, Heard
    <3>2. CASE r # s
      BY <1>0, <3>2, Zenon DEF Turned, Books, Heard
    <3> QED
      BY <3>1, <3>2, Zenon
  <2> QED
    BY <2>1, Zenon DEF Heard
<1> QED
  BY <1>1, <1>2, <1>3, <1>4, Zenon DEF Books

(* A service that was launched goes on top of the stack, and all that it   *)
(* depends on are below.                                                   *)
LEMMA BooksLaunched ==
    ASSUME TypeOK, Books, NEW s \in Services, NEW st \in {"SPAWNED", "FAILED"},
           state[s] \in Fresh, DepsReady(s), state' = [state EXCEPT ![s] = st],
           records' = Append(records, s), said' = said,
           event' = [event EXCEPT ![s] = "none"], proc' = [proc EXCEPT ![s] = "running"]
    PROVE  Books'
<1>0. state'[s] = st /\ \A r \in Services : r # s => state'[r] = state[r]
  BY Zenon DEF TypeOK
<1>1. /\ records \in Seq(Services) /\ Len(records) \in Nat /\ DOMAIN records = 1..Len(records)
      /\ \A i \in DOMAIN records : records[i] \in Services
  BY RecordsTyped, Zenon
<1>2. /\ DOMAIN records' = 1..(Len(records) + 1) /\ records'[Len(records) + 1] = s
      /\ \A i \in DOMAIN records : records'[i] = records[i] /\ i \in DOMAIN records'
      /\ \A i \in DOMAIN records' : i \in DOMAIN records \/ i = Len(records) + 1
  BY <1>1
<1>3. \A i \in DOMAIN records : records[i] # s
  BY Zenon DEF Books, Stacked
<1>4. Recorded(s)' /\ \A r : Recorded(r) => Recorded(r)'
  <2>1. Len(records) + 1 \in DOMAIN records'
    BY <1>1, <1>2
  <2> QED
    BY <1>2, <2>1, Zenon DEF Recorded
<1>5. Stacked'
  <2>1. ASSUME NEW i \in DOMAIN records', NEW k \in DOMAIN records', records'[i] = records'[k]
        PROVE  i = k
    <3>1. CASE i \in DOMAIN records /\ k \in DOMAIN records
      <4>1. records[i] = records[k]
        BY <1>2, <2>1, <3>1, Zenon
      <4> QED
        BY <3>1, <4>1, Zenon DEF Books, Stacked
    <3>2. i \in DOMAIN records => records'[i] # s
      BY <1>2, <1>3, Zenon
    <3>3. k \in DOMAIN records => records'[k] # s
      BY <1>2, <1>3, Zenon
    <3> QED
      BY <1>2, <2>1, <3>1, <3>2, <3>3, Zenon
  <2>2. ASSUME NEW i \in DOMAIN records' PROVE state'[records'[i]] \notin Fresh \cup {"UNUSED"}
    <3>1. CASE i = Len(records) + 1
      BY <1>0, <1>2, <3>1, Zenon DEF Fresh
    <3>2. CASE i \in DOMAIN records
      <4>1. records[i] \in Services /\ records[i] # s /\ records'[i] = records[i]
        BY <1>1, <1>2, <1>3, <3>2, Zenon
      <4>2. state[records[i]] \notin Fresh \cup {"UNUSED"}
        BY <3>2, Zenon DEF Books, Stacked
      <4> QED
        BY <1>0, <4>1, <4>2, Zenon
    <3> QED
      BY <1>2, <3>1, <3>2, Zenon
  <2>3. ASSUME NEW r \in Services, state'[r] \in Up PROVE Recorded(r)'
    BY <1>0, <1>4, <2>3, Zenon DEF Books, Stacked
  <2>4. ASSUME NEW i \in DOMAIN records', NEW d \in Deps[records'[i]]
        PROVE  \E k \in DOMAIN records' : k < i /\ records'[k] = d
    <3>1. CASE i = Len(records) + 1
      <4>1. d \in Services /\ state[d] = "READY"
        BY <1>2, <3>1, Sizes, Zenon DEF DepsReady
      <4>2. PICK k \in DOMAIN records : records[k] = d
        BY <4>1, Zenon DEF Books, Stacked, Up, Recorded
      <4> QED
        BY <1>1, <1>2, <3>1, <4>2
    <3>2. CASE i \in DOMAIN records
      <4>1. PICK k \in DOMAIN records : k < i /\ records[k] = d
        BY <1>2, <3>2, Zenon DEF Books, Stacked
      <4> QED
        BY <1>2, <4>1, Zenon
    <3> QED
      BY <1>2, <3>1, <3>2, Zenon
  <2> QED
    BY <2>1, <2>2, <2>3, <2>4, Zenon DEF Stacked
<1>6. Standing'
  <2>1. ASSUME NEW r \in Services, state'[r] \in Up, NEW d \in Deps[r]
        PROVE  state'[d] = "READY"
    <3>1. state[d] = "READY"
      BY <1>0, <2>1, Zenon DEF DepsReady, Books, Standing
    <3>2. d \in Services /\ d # s
      BY <3>1, Sizes, Zenon DEF Fresh
    <3> QED
      BY <1>0, <3>1, <3>2, Zenon
  <2> QED
    BY <2>1, Zenon DEF Standing
<1>7. Tracked'
  <2>1. ASSUME NEW r \in Bootstrap
        PROVE  proc'[r] \in {"none", "gone"} \/ state'[r] = "FAILED" \/ Recorded(r)'
    <3>1. CASE r = s
      BY <1>4, <3>1, Zenon
    <3>2. CASE r # s
      <4>1. r \in Services /\ proc'[r] = proc[r]
        BY <3>2, Sizes, Zenon DEF TypeOK
      <4> QED
        BY <1>0, <1>4, <3>2, <4>1, Zenon DEF Books, Tracked
    <3> QED
      BY <3>1, <3>2, Zenon
  <2> QED
    BY <2>1, Zenon DEF Tracked
<1>8. Heard'
  <2>1. /\ event'[s] = "none" /\ \A r \in Services : r # s => event'[r] = event[r]
    BY Zenon DEF TypeOK
  <2>2. ASSUME NEW r \in Services
        PROVE  /\ state'[r] = "BOUND" \/ event'[r] = "BOUND" => said'[r] >= 1
               /\ state'[r] = "READY" \/ event'[r] = "READY" => said'[r] = 2
    <3>1. CASE r = s
      BY <1>0, <2>1, <3>1, Zenon
    <3>2. CASE r # s
      BY <1>0, <2>1, <3>2, Zenon DEF Books, Heard
    <3> QED
      BY <3>1, <3>2, Zenon
  <2> QED
    BY <2>2, Zenon DEF Heard
<1> QED
  BY <1>5, <1>6, <1>7, <1>8, Zenon DEF Books

(* The top of the stack is compensated: nothing that is up depends on it.  *)
LEMMA BooksPopped ==
    ASSUME TypeOK, Books, records # <<>>, NEW st \in {"DISABLED", "FAILED"},
           state' = [state EXCEPT ![Top] = st], records' = Popped,
           UNCHANGED <<event, said>>,
           \A r \in Bootstrap : proc'[r] = proc[r] \/ proc'[r] = "gone",
           st = "FAILED" \/ Top \notin Bootstrap \/ proc'[Top] = "gone"
    PROVE  Books'
<1>1. /\ records \in Seq(Services) /\ Len(records) \in Nat /\ DOMAIN records = 1..Len(records)
      /\ \A i \in DOMAIN records : records[i] \in Services
  BY RecordsTyped, Zenon
<1>2. Len(records) \in DOMAIN records /\ Top = records[Len(records)] /\ Top \in Services
  BY <1>1 DEF Top
<1>3. /\ DOMAIN records' = 1..(Len(records) - 1)
      /\ \A i \in DOMAIN records' : i \in DOMAIN records /\ records'[i] = records[i]
                                      /\ i # Len(records)
      /\ \A i \in DOMAIN records : i \in DOMAIN records' \/ i = Len(records)
  BY <1>1, <1>2 DEF Popped
<1>4. state'[Top] = st /\ \A r \in Services : r # Top => state'[r] = state[r]
  BY <1>2, Zenon DEF TypeOK
<1>5. \A i \in DOMAIN records' : records'[i] # Top
  BY <1>2, <1>3, Zenon DEF Books, Stacked
<1>6. \A r : Recorded(r) => r = Top \/ Recorded(r)'
  BY <1>2, <1>3, Zenon DEF Recorded
<1>7. ASSUME NEW i \in DOMAIN records, Top \in Deps[records[i]] PROVE FALSE
  <2>1. PICK k \in DOMAIN records : k < i /\ records[k] = Top
    BY <1>7, Zenon DEF Books, Stacked
  <2>2. k = Len(records)
    BY <1>2, <2>1, Zenon DEF Books, Stacked
  <2> QED
    BY <1>1, <2>1, <2>2
<1>8. Stacked'
  <2>1. ASSUME NEW i \in DOMAIN records', NEW k \in DOMAIN records', records'[i] = records'[k]
        PROVE  i = k
    BY <1>3, <2>1, Zenon DEF Books, Stacked
  <2>2. ASSUME NEW i \in DOMAIN records' PROVE state'[records'[i]] \notin Fresh \cup {"UNUSED"}
    <3>1. i \in DOMAIN records /\ records'[i] = records[i] /\ records'[i] # Top
      BY <1>3, <1>5, Zenon
    <3>2. records[i] \in Services /\ state[records[i]] \notin Fresh \cup {"UNUSED"}
      BY <1>1, <3>1, Zenon DEF Books, Stacked
    <3> QED
      BY <1>4, <3>1, <3>2, Zenon
  <2>3. ASSUME NEW r \in Services, state'[r] \in Up PROVE Recorded(r)'
    <3>1. r # Top
      BY <1>4, <2>3, Zenon DEF Up
    <3> QED
      BY <1>4, <1>6, <2>3, <3>1, Zenon DEF Books, Stacked
  <2>4. ASSUME NEW i \in DOMAIN records', NEW d \in Deps[records'[i]]
        PROVE  \E k \in DOMAIN records' : k < i /\ records'[k] = d
    <3>0. i \in DOMAIN records /\ d \in Deps[records[i]]
      BY <1>3, <2>4, Zenon
    <3>1. PICK k \in DOMAIN records : k < i /\ records[k] = d
      BY <3>0, Zenon DEF Books, Stacked
    <3>2. k \in DOMAIN records'
      BY <1>1, <1>3, <3>1
    <3> QED
      BY <1>3, <3>1, <3>2, Zenon
  <2> QED
    BY <2>1, <2>2, <2>3, <2>4, Zenon DEF Stacked
<1>9. Standing'
  <2>1. ASSUME NEW r \in Services, state'[r] \in Up, NEW d \in Deps[r]
        PROVE  state'[d] = "READY"
    <3>1. state[r] \in Up
      BY <1>4, <2>1, Zenon DEF Up
    <3>2. PICK i \in DOMAIN records : records[i] = r
      BY <3>1, Zenon DEF Books, Stacked, Recorded
    <3>3. state[d] = "READY" /\ d \in Services /\ d # Top
      BY <1>7, <3>1, <3>2, Sizes, Zenon DEF Books, Standing
    <3> QED
      BY <1>4, <3>3, Zenon
  <2> QED
    BY <2>1, Zenon DEF Standing
<1>10. Tracked'
  <2>1. ASSUME NEW r \in Bootstrap, proc'[r] \notin {"none", "gone"}
        PROVE  state'[r] = "FAILED" \/ Recorded(r)'
    <3>1. CASE r = Top
      BY <1>4, <2>1, <3>1, Zenon
    <3>2. CASE r # Top
      <4>1. proc'[r] = proc[r] /\ r \in Services
        BY <2>1, Sizes, Zenon
      <4> QED
        BY <1>4, <1>6, <2>1, <3>2, <4>1, Zenon DEF Books, Tracked
    <3> QED
      BY <3>1, <3>2, Zenon
  <2> QED
    BY <2>1, Zenon DEF Tracked
<1>11. Heard'
  <2>1. \A r \in Services : /\ state'[r] = "BOUND" => state[r] = "BOUND"
                            /\ state'[r] = "READY" => state[r] = "READY"
    BY <1>4, Zenon
  <2> QED
    BY <2>1, Zenon DEF Books, Heard
<1> QED
  BY <1>8, <1>9, <1>10, <1>11, Zenon DEF Books

-----------------------------------------------------------------------------
(* Steps that change no state of a service                                 *)

Classes == {"CORE", "INFRA", "OPTIONAL", "LATE"}
Places == [op : Ops, cls : Classes, todo : SUBSET Services, j : 0..Len(Manifest)+1,
           pending : BOOLEAN]

Is(p, op, cls, todo, j) ==
    p \in Places /\ p.op = op /\ p.cls = cls /\ p.todo = todo /\ p.j = j

(* A position that is written whole has what is written.                   *)
LEMMA AtTyped ==
    ASSUME NEW op \in Ops, NEW cls \in Classes, NEW todo \in SUBSET Services,
           NEW j \in 0..Len(Manifest)+1
    PROVE  Is(At(op, cls, todo, j), op, cls, todo, j)
BY Zenon DEF At, Places, Is

(* The pass of a class begins with the services that wait for it.          *)
LEMMA LaunchClassTyped ==
    ASSUME TypeOK, NEW cls \in Classes
    PROVE  /\ Is(LaunchClass(cls), "launch", cls, ToLaunch(cls), 0)
           /\ \A s \in ToLaunch(cls) : Class[s] = cls /\ state[s] \in Fresh
<1>1. "launch" \in Ops /\ 0 \in 0..Len(Manifest)+1 /\ ToLaunch(cls) \in SUBSET Services
  BY Sizes DEF Ops, ToLaunch
<1>2. \A s \in ToLaunch(cls) : Class[s] = cls /\ state[s] \in Fresh
  BY Zenon DEF ToLaunch, Fresh
<1> QED
  BY <1>1, <1>2, AtTyped, Zenon DEF LaunchClass

(* init_runtime_run goes on within its class.                              *)
LEMMA GotoTyped ==
    ASSUME TypeOK, NEW op \in Ops, Goto(op)
    PROVE  Is(at', op, at.cls, {}, 0)
<1>1. at.cls \in Classes /\ {} \in SUBSET Services /\ 0 \in 0..Len(Manifest)+1
  BY Sizes DEF TypeOK, Classes
<1> QED
  BY <1>1, AtTyped, Zenon DEF Goto

(* Where init goes while the services stay as they are: the conditions on  *)
(* a place.                                                                *)
Fits ==
    /\ at' \in Places
    /\ \A s \in at'.todo : Class[s] = at'.cls /\ state[s] \in Fresh
    /\ at'.op # "launch" => at'.todo = {}
    /\ at'.op # "select"
    /\ at'.op \in {"check", "poll", "deadline"} => at'.cls = "CORE"
    /\ at'.op \in {"poll", "deadline"} => at'.j >= 1
    /\ at'.op \in {"launch", "deadline"} => at'.j <= Len(Manifest)
    /\ at'.op = "reap" => records # <<>>
    /\ at'.op # "end" => tries' <= HandoffRetries /\ result' = "NONE"
    /\ safe' => at'.op \in {"rollback", "reap", "end"}
    /\ at'.op = "end" /\ safe' => records = <<>>
    /\ Beyond({"INFRA", "OPTIONAL", "LATE"})' => AllReady("CORE")
    /\ Beyond({"OPTIONAL", "LATE"})' => ~ AnyRequiredFailed("INFRA")
    /\ degraded' \in BOOLEAN /\ safe' \in BOOLEAN
    /\ tries' \in 0..HandoffRetries+1 /\ result' \in Results

(* A step that only moves init itself keeps the invariant if it fits.      *)
LEMMA Walks ==
    ASSUME IInv, Fits, UNCHANGED <<state, records, event, said, proc, late>>
    PROVE  IInv'
<1>1. TypeOK'
  BY Zenon DEF IInv, TypeOK, Fits, Places, Classes
<1>2. Books'
  BY BooksKept, Zenon DEF IInv, Books
<1>3. Place'
  BY Zenon DEF Fits, Place
<1>4. Passed'
  <2>1. (AllReady("CORE")' <=> AllReady("CORE")) /\ (AnyRequiredFailed("INFRA")' <=> AnyRequiredFailed("INFRA"))
    BY Zenon DEF AllReady, AnyRequiredFailed, InClass
  <2> QED
    BY <2>1, Zenon DEF Fits, Passed
<1> QED
  BY <1>1, <1>2, <1>3, <1>4, Zenon DEF IInv, Books

(* The types of init's own variables.                                      *)
LEMMA HereTyped ==
    ASSUME IInv
    PROVE  /\ at \in Places /\ at.j \in Nat /\ degraded \in BOOLEAN /\ safe \in BOOLEAN
           /\ tries \in 0..HandoffRetries+1 /\ result \in Results
BY Sizes DEF IInv, TypeOK, Places, Classes

(* The launch pass of a class ends; what comes next depends on the class.  *)
LEMMA StepLaunchEnd ==
    ASSUME IInv, LaunchEnd
    PROVE  IInv'
<1>0. TypeOK /\ Place /\ Passed /\ UNCHANGED <<state, proc, event, said, late, records, tries, result>>
  BY Zenon DEF IInv, LaunchEnd
<1>h. /\ at \in Places /\ at.j \in Nat /\ degraded \in BOOLEAN /\ safe \in BOOLEAN
      /\ tries \in 0..HandoffRetries+1 /\ result \in Results
  BY HereTyped, Zenon
<1>1. at.op = "launch" /\ at.todo = {} /\ result = "NONE" /\ ~ safe /\ tries <= HandoffRetries
  BY <1>0, <1>h, Zenon DEF LaunchEnd, Place
<1> SUFFICES Fits
  BY <1>0, Walks, Zenon
<1>2. CASE /\ at.cls = "CORE" /\ at' = [at EXCEPT !.op = IF at.j = 0 THEN "check" ELSE "deadline"]
           /\ UNCHANGED <<safe, degraded>>
  <2>1. PICK op \in {"check", "deadline"} : (at.j # 0 <=> op = "deadline") /\ at' = [at EXCEPT !.op = op]
    BY <1>2, Zenon
  <2>2. /\ at' \in Places /\ at'.op = op /\ at'.cls = "CORE" /\ at'.todo = {} /\ at'.j = at.j
    BY <1>1, <1>2, <1>h, <2>1, Zenon DEF Places, Ops
  <2>3. at.j <= Len(Manifest)
    BY <1>0, <1>1, Zenon DEF Place
  <2> QED
    BY <1>0, <1>1, <1>2, <1>h, <2>1, <2>2, <2>3 DEF Fits, Beyond
<1>3. CASE at.cls = "INFRA" /\ Abandon /\ UNCHANGED degraded
  <2>1. Is(at', "rollback", at.cls, {}, 0) /\ safe' = TRUE
    BY <1>0, <1>3, GotoTyped, Zenon DEF Ops, Abandon
  <2> QED
    BY <1>0, <1>1, <1>3, <1>h, <2>1, Zenon DEF Fits, Is, Beyond
<1>4. CASE /\ at.cls = "INFRA" /\ ~ AnyRequiredFailed("INFRA") /\ degraded' = AnyFailed("INFRA")
           /\ at' = LaunchClass("OPTIONAL") /\ UNCHANGED safe
  <2>1. /\ Is(at', "launch", "OPTIONAL", ToLaunch("OPTIONAL"), 0)
        /\ \A s \in ToLaunch("OPTIONAL") : Class[s] = "OPTIONAL" /\ state[s] \in Fresh
    BY <1>0, <1>4, LaunchClassTyped, Zenon DEF Classes
  <2>2. AllReady("CORE") /\ degraded' \in BOOLEAN
    BY <1>0, <1>1, <1>4, Zenon DEF Passed, Beyond, AnyFailed
  <2> QED
    BY <1>0, <1>1, <1>4, <1>h, <2>1, <2>2, Sizes DEF Fits, Is
<1>5. CASE /\ at.cls = "OPTIONAL" /\ at' = LaunchClass("LATE") /\ UNCHANGED <<safe, degraded>>
  <2>1. /\ Is(at', "launch", "LATE", ToLaunch("LATE"), 0)
        /\ \A s \in ToLaunch("LATE") : Class[s] = "LATE" /\ state[s] \in Fresh
    BY <1>0, <1>5, LaunchClassTyped, Zenon DEF Classes
  <2>2. AllReady("CORE") /\ ~ AnyRequiredFailed("INFRA")
    BY <1>0, <1>1, <1>5, Zenon DEF Passed, Beyond
  <2> QED
    BY <1>0, <1>1, <1>5, <1>h, <2>1, <2>2, Sizes DEF Fits, Is
<1>6. CASE /\ at.cls = "LATE" /\ degraded' = (degraded \/ AnyFailed("OPTIONAL") \/ AnyFailed("LATE"))
           /\ Goto("handoff") /\ UNCHANGED safe
  <2>1. Is(at', "handoff", at.cls, {}, 0)
    BY <1>0, <1>6, GotoTyped, Zenon DEF Ops
  <2>2. AllReady("CORE") /\ ~ AnyRequiredFailed("INFRA") /\ degraded' \in BOOLEAN
    BY <1>0, <1>1, <1>6, Zenon DEF Passed, Beyond, AnyFailed
  <2> QED
    BY <1>0, <1>1, <1>6, <1>h, <2>1, <2>2, Zenon DEF Fits, Is
<1> QED
  BY <1>2, <1>3, <1>4, <1>5, <1>6, Zenon DEF LaunchEnd

(* The end of converge_class.                                              *)
LEMMA EndsCore ==
    ASSUME IInv, CoreEnd, at.op \in {"check", "poll"},
           UNCHANGED <<state, proc, event, said, late, records, degraded, tries, result>>
    PROVE  IInv'
<1>0. TypeOK /\ Place /\ Passed
  BY Zenon DEF IInv
<1>h. /\ at \in Places /\ at.j \in Nat /\ degraded \in BOOLEAN /\ safe \in BOOLEAN
      /\ tries \in 0..HandoffRetries+1 /\ result \in Results
  BY HereTyped, Zenon
<1>1. result = "NONE" /\ ~ safe /\ tries <= HandoffRetries
  BY <1>0, Zenon DEF Place
<1> SUFFICES Fits
  BY Walks, Zenon
<1>2. CASE Abandon
  <2>1. Is(at', "rollback", at.cls, {}, 0) /\ safe' = TRUE
    BY <1>0, <1>2, GotoTyped, Zenon DEF Ops, Abandon
  <2> QED
    BY <1>1, <1>h, <2>1, Zenon DEF Fits, Is, Beyond
<1>3. CASE at' = LaunchClass("INFRA") /\ UNCHANGED safe /\ AllReady("CORE")
  <2>1. /\ Is(at', "launch", "INFRA", ToLaunch("INFRA"), 0)
        /\ \A s \in ToLaunch("INFRA") : Class[s] = "INFRA" /\ state[s] \in Fresh
    BY <1>0, <1>3, LaunchClassTyped, Zenon DEF Classes
  <2> QED
    BY <1>1, <1>3, <1>h, <2>1, Sizes DEF Fits, Is, Beyond
<1> QED
  BY <1>2, <1>3, Zenon DEF CoreEnd

(* init looks whether the CORE class is READY.                             *)
LEMMA StepCheck ==
    ASSUME IInv, Check
    PROVE  IInv'
<1>0. TypeOK /\ Place /\ Passed /\ UNCHANGED <<state, proc, event, said, late, records, degraded, tries, result>>
  BY Zenon DEF IInv, Check
<1>h. /\ at \in Places /\ at.j \in Nat /\ degraded \in BOOLEAN /\ safe \in BOOLEAN
      /\ tries \in 0..HandoffRetries+1 /\ result \in Results
  BY HereTyped, Zenon
<1>1. at.op = "check" /\ result = "NONE" /\ ~ safe /\ tries <= HandoffRetries
  BY <1>0, Zenon DEF Place, Check
<1>2. CASE CoreEnd
  BY <1>0, <1>1, <1>2, EndsCore, Zenon
<1>3. CASE at' = At("poll", "CORE", {}, 1) /\ UNCHANGED safe
  <2>1. Is(at', "poll", "CORE", {}, 1)
    BY <1>3, AtTyped, Sizes DEF Ops, Classes
  <2>2. Fits
    BY <1>0, <1>1, <1>3, <1>h, <2>1 DEF Fits, Is, Beyond
  <2> QED
    BY <1>0, <2>2, Walks, Zenon
<1> QED
  BY <1>2, <1>3, Zenon DEF Check

(* A service of the manifest that has nothing to poll is passed over.      *)
LEMMA StepPollSkip ==
    ASSUME IInv, PollSkip
    PROVE  IInv'
<1>0. /\ TypeOK /\ Place /\ Passed
      /\ UNCHANGED <<state, proc, event, said, late, records, degraded, safe, tries, result>>
  BY Zenon DEF IInv, PollSkip
<1>h. /\ at \in Places /\ at.j \in Nat /\ degraded \in BOOLEAN /\ safe \in BOOLEAN
      /\ tries \in 0..HandoffRetries+1 /\ result \in Results
  BY HereTyped, Zenon
<1>1. /\ at.op = "poll" /\ result = "NONE" /\ ~ safe /\ tries <= HandoffRetries
      /\ at.cls = "CORE" /\ at.j <= Len(Manifest)
      /\ at.todo = {}
  BY <1>0, Zenon DEF Place, PollSkip
<1>2. /\ at' \in Places /\ at'.op = "poll" /\ at'.cls = "CORE" /\ at'.todo = at.todo
      /\ at'.j = at.j + 1
  BY <1>1, <1>h, Sizes, SMTT(30) DEF PollSkip, Places
<1>3. Fits
  BY <1>0, <1>1, <1>2, <1>h DEF Fits, Beyond
<1> QED
  BY <1>0, <1>3, Walks, Zenon

(* A round of polling ends, and the deadlines are looked at.               *)
LEMMA StepPollEnd ==
    ASSUME IInv, PollEnd
    PROVE  IInv'
<1>0. /\ TypeOK /\ Place /\ Passed
      /\ UNCHANGED <<state, proc, event, said, late, records, degraded, tries, result>>
  BY Zenon DEF IInv, PollEnd
<1>h. /\ at \in Places /\ at.j \in Nat /\ degraded \in BOOLEAN /\ safe \in BOOLEAN
      /\ tries \in 0..HandoffRetries+1 /\ result \in Results
  BY HereTyped, Zenon
<1>1. at.op = "poll" /\ result = "NONE" /\ ~ safe /\ tries <= HandoffRetries
  BY <1>0, Zenon DEF Place, PollEnd
<1>2. CASE CoreEnd
  BY <1>0, <1>1, <1>2, EndsCore, Zenon
<1>3. CASE at' = LaunchClass("CORE") /\ UNCHANGED safe
  <2>1. /\ Is(at', "launch", "CORE", ToLaunch("CORE"), 0)
        /\ \A s \in ToLaunch("CORE") : Class[s] = "CORE" /\ state[s] \in Fresh
    BY <1>0, <1>3, LaunchClassTyped, Zenon DEF Classes
  <2>2. Fits
    BY <1>0, <1>1, <1>3, <1>h, <2>1, Sizes DEF Fits, Is, Beyond
  <2> QED
    BY <1>0, <2>2, Walks, Zenon
<1> QED
  BY <1>2, <1>3, Zenon DEF PollEnd

(* init_runtime_run returns from the roll-back or from the hand-over.      *)
LEMMA Returns ==
    ASSUME IInv, NEW r \in Results, Return(r), at.op \in {"rollback", "handoff"},
           at.op = "rollback" => records = <<>> /\ r = "FAILED",
           degraded' \in BOOLEAN, tries' \in 0..HandoffRetries+1,
           UNCHANGED <<state, proc, event, said, late, records, safe>>
    PROVE  IInv'
<1>0. TypeOK /\ Place /\ Passed /\ result' = r
  BY Zenon DEF IInv, Return
<1>h. safe \in BOOLEAN
  BY HereTyped, Zenon
<1>1. Is(at', "end", at.cls, {}, 0)
  BY <1>0, GotoTyped, Zenon DEF Ops, Return
<1>2. at.op = "handoff" => ~ safe /\ AllReady("CORE") /\ ~ AnyRequiredFailed("INFRA")
  BY <1>0, Zenon DEF Place, Passed, Beyond
<1>3. Fits
  BY <1>0, <1>1, <1>2, <1>h, Zenon DEF Fits, Is, Beyond
<1> QED
  BY <1>3, Walks, Zenon

(* The stack is empty: the roll-back is over.                              *)
LEMMA StepRollbackEnd ==
    ASSUME IInv, RollbackEnd
    PROVE  IInv'
<1>1. "FAILED" \in Results /\ degraded' \in BOOLEAN /\ tries' \in 0..HandoffRetries+1
  BY HereTyped, Zenon DEF RollbackEnd, Results
<1> QED
  BY <1>1, Returns, Zenon DEF RollbackEnd

(* init keeps running in place of the supervisor.                          *)
LEMMA StepRetain ==
    ASSUME IInv, Retain
    PROVE  IInv'
<1>1. PICK r \in Results : Return(r)
  BY Zenon DEF Retain, Results
<1>2. degraded' \in BOOLEAN /\ tries' \in 0..HandoffRetries+1 /\ at.op = "handoff"
  BY HereTyped, Zenon DEF Retain
<1>3. at.op # "rollback"
  BY <1>2, Zenon
<1> QED
  BY <1>1, <1>2, <1>3, Returns, Zenon DEF Retain

(* init tries to hand over to the supervisor.                              *)
LEMMA StepHandoff ==
    ASSUME IInv, Handoff
    PROVE  IInv'
<1>0. /\ TypeOK /\ Place /\ Passed /\ tries' = tries + 1 /\ at.op = "handoff"
      /\ UNCHANGED <<state, proc, event, said, late, records, safe>>
  BY Zenon DEF IInv, Handoff
<1>h. /\ at \in Places /\ at.j \in Nat /\ degraded \in BOOLEAN /\ safe \in BOOLEAN
      /\ tries \in 0..HandoffRetries+1 /\ result \in Results
  BY HereTyped, Zenon
<1>1. result = "NONE" /\ ~ safe /\ tries <= HandoffRetries /\ at.op # "rollback"
  BY <1>0, Zenon DEF Place
<1>2. tries' \in 0..HandoffRetries+1
  BY <1>0, <1>1, <1>h, Sizes
<1>3. CASE UNCHANGED <<at, degraded, result>> /\ MoreTries
  <2>1. tries' <= HandoffRetries
    BY <1>0, <1>3, <1>h, Sizes DEF MoreTries
  <2>2. Fits
    BY <1>0, <1>1, <1>2, <1>3, <1>h, <2>1, Zenon DEF Fits, Beyond, Place, Passed
  <2> QED
    BY <1>0, <2>2, Walks, Zenon
<1>4. CASE (\E r \in Results : Return(r)) /\ degraded' \in BOOLEAN
  BY <1>0, <1>1, <1>2, <1>4, Returns, Zenon
<1> QED
  BY <1>3, <1>4, <1>h, Zenon DEF Handoff, Results

-----------------------------------------------------------------------------
(* The children                                                            *)

(* A step of a child or of the clock.                                      *)
LEMMA Elsewhere ==
    ASSUME IInv, UNCHANGED <<state, records, at, degraded, safe, tries, result>>,
           TypeOK', Books', at.op = "select" => proc' = proc
    PROVE  IInv'
<1>1. Place'
  BY Zenon DEF IInv, Place
<1>2. Passed'
  BY Zenon DEF IInv, Passed, Beyond, AllReady, AnyRequiredFailed, InClass
<1> QED
  BY <1>1, <1>2, Zenon DEF IInv, Books

(* A process ends by itself.                                               *)
LEMMA StepExit ==
    ASSUME IInv, NEW s \in Services, Exit(s)
    PROVE  IInv'
<1>1. TypeOK'
  BY Zenon DEF IInv, TypeOK, Exit, Processes
<1>2. \A r \in Bootstrap : proc[r] \in {"none", "gone"} => proc'[r] = proc[r]
  BY Sizes, Zenon DEF IInv, TypeOK, Exit
<1>3. Books'
  BY <1>2, BooksKept, Zenon DEF IInv, Books, Exit
<1>4. at.op # "select"
  BY Zenon DEF IInv, Place, Exit
<1> QED
  BY <1>1, <1>3, <1>4, Elsewhere, Zenon DEF Exit

(* The readiness deadline of a service passes.                             *)
LEMMA StepExpire ==
    ASSUME IInv, NEW s \in Services, Expire(s)
    PROVE  IInv'
<1>1. TypeOK'
  BY Zenon DEF IInv, TypeOK, Expire
<1>2. Books'
  BY BooksKept, Zenon DEF IInv, Books, Expire
<1> QED
  BY <1>1, <1>2, Elsewhere, Zenon DEF Expire

(* A child reports readiness.                                              *)
LEMMA StepReport ==
    ASSUME IInv, NEW s \in Services, Report(s)
    PROVE  IInv'
<1>0. /\ TypeOK /\ Books /\ proc[s] = "running" /\ said[s] \in 0..2 /\ said[s] < 2
      /\ UNCHANGED <<state, late, records, at, degraded, safe, tries, result>>
  BY Zenon DEF IInv, Books, Report, TypeOK
<1>1. \A r \in Bootstrap : proc[r] \in {"none", "gone"} => proc'[r] = proc[r]
  BY <1>0, Sizes, Zenon DEF TypeOK, Report
<1>2. at.op # "select"
  BY <1>0, Zenon DEF IInv, Place
<1>3. PICK e : e = IF said[s] = 0 THEN "BOUND" ELSE "READY"
  BY Zenon
<1>4. CASE /\ event' = [event EXCEPT ![s] = e] /\ said' = [said EXCEPT ![s] = @ + 1]
           /\ UNCHANGED proc
  <2>1. e \in Events /\ said[s] + 1 \in 0..2
    BY <1>0, <1>3 DEF Events
  <2>2. TypeOK'
    BY <1>0, <1>4, <2>1, Zenon DEF TypeOK
  <2>3. Heard'
    BY <1>0, <1>3, <1>4 DEF TypeOK, Books, Heard
  <2>4. Stacked' /\ Standing' /\ Tracked'
    BY <1>0, <1>4 DEF Books, Stacked, Standing, Tracked, Recorded
  <2> QED
    BY <1>0, <1>2, <1>4, <2>2, <2>3, <2>4, Elsewhere, Zenon DEF Books
<1>5. CASE /\ event' = [event EXCEPT ![s] = "FAILED"] /\ proc' = [proc EXCEPT ![s] = "exited"]
           /\ UNCHANGED said
  <2>1. TypeOK'
    BY <1>0, <1>5, Zenon DEF TypeOK, Events, Processes
  <2>2. Heard'
    BY <1>0, <1>5, Zenon DEF TypeOK, Books, Heard
  <2>3. Stacked' /\ Standing'
    BY <1>0, <1>5 DEF Books, Stacked, Standing, Recorded
  <2>4. Tracked'
    BY <1>0, <1>1, <1>5, Zenon DEF Books, Tracked, Recorded
  <2> QED
    BY <1>0, <1>2, <2>1, <2>2, <2>3, <2>4, Elsewhere, Zenon DEF Books
<1> QED
  BY <1>3, <1>4, <1>5, Zenon DEF Report

-----------------------------------------------------------------------------
(* Launching                                                               *)

(* A launch pass has done with one service: it stays in its class, and the *)
(* services before it stay as they are.                                    *)
LEMMA LaunchPlace ==
    ASSUME IInv, NEW s \in Services, NEW st, Launching(s), NextService(s),
           state' = [state EXCEPT ![s] = st], UNCHANGED <<degraded, safe, tries, result>>
    PROVE  at' \in Places /\ Place' /\ Passed'
<1>0. TypeOK /\ Place /\ Passed /\ at.op = "launch" /\ s \in at.todo
  BY Zenon DEF IInv, Launching
<1>1. /\ Class[s] = at.cls /\ result = "NONE" /\ ~ safe /\ tries <= HandoffRetries
      /\ at.j <= Len(Manifest) /\ \A r \in at.todo : Class[r] = at.cls /\ state[r] \in Fresh
  BY <1>0, Zenon DEF Place
<1>2. /\ at' \in Places /\ at'.op = "launch" /\ at'.cls = at.cls /\ at'.j = at.j
      /\ at'.todo = at.todo \ {s}
  BY <1>0, HereTyped, Zenon DEF NextService, Places
<1>3. \A r \in Services : r # s => state'[r] = state[r]
  BY <1>0, Zenon DEF TypeOK
<1>4. Place'
  <2>1. \A r \in at'.todo : Class[r] = at'.cls /\ state'[r] \in Fresh
    BY <1>1, <1>2, <1>3, Zenon DEF Places
  <2> QED
    BY <1>1, <1>2, <2>1, Zenon DEF Place
<1>5. at.cls # "CORE" => (AllReady("CORE") => AllReady("CORE")')
  BY <1>1, <1>3, Sizes, Zenon DEF AllReady, InClass
<1>6. at.cls # "INFRA" => (~ AnyRequiredFailed("INFRA") => ~ AnyRequiredFailed("INFRA")')
  BY <1>1, <1>3, Sizes, Zenon DEF AnyRequiredFailed, InClass
<1>7. Passed'
  BY <1>0, <1>1, <1>2, <1>5, <1>6, Zenon DEF Passed, Beyond
<1> QED
  BY <1>2, <1>4, <1>7, Zenon

(* The launch of a service waits for its dependencies.                     *)
LEMMA StepLaunchWait ==
    ASSUME IInv, NEW s \in Services, LaunchWait(s)
    PROVE  IInv'
<1>0. /\ TypeOK /\ Books /\ state[s] \in Fresh /\ state' = [state EXCEPT ![s] = "WAITING"]
      /\ UNCHANGED <<proc, event, said, late, records, degraded, safe, tries, result>>
  BY Zenon DEF IInv, Books, LaunchWait, Launching, Place
<1>1. at' \in Places /\ Place' /\ Passed'
  BY <1>0, LaunchPlace, Zenon DEF LaunchWait
<1>2. TypeOK'
  BY <1>0, <1>1, Zenon DEF TypeOK, Places, Classes, States
<1>3. Turned(s, "WAITING")
  BY <1>0, Zenon DEF Turned, Fresh, Up
<1> QED
  BY <1>0, <1>1, <1>2, <1>3, BooksTurned, Zenon DEF IInv, Books

(* The launch of a service fails.                                          *)
LEMMA StepLaunchFailed ==
    ASSUME IInv, NEW s \in Services, LaunchFailed(s)
    PROVE  IInv'
<1>0. /\ TypeOK /\ Books /\ state[s] \in Fresh /\ state' = [state EXCEPT ![s] = "FAILED"]
      /\ UNCHANGED <<event, said, late, records, degraded, safe, tries, result>>
  BY Zenon DEF IInv, Books, LaunchFailed, Launching, Place
<1>1. at' \in Places /\ Place' /\ Passed'
  BY <1>0, LaunchPlace, Zenon DEF LaunchFailed
<1>2. PICK left \in Remains(s) : proc' = [proc EXCEPT ![s] = left]
  BY Zenon DEF LaunchFailed
<1>3. left \in Processes /\ (s \in Bootstrap => left = "none")
  BY Zenon DEF Remains, Processes
<1>4. TypeOK'
  BY <1>0, <1>1, <1>2, <1>3, Zenon DEF TypeOK, Places, Classes, States
<1>5. \A r \in Bootstrap : proc'[r] = proc[r] \/ proc'[r] \in {"none", "gone"}
  BY <1>0, <1>2, <1>3, Sizes, Zenon DEF TypeOK
<1>6. Turned(s, "FAILED")
  BY <1>0, <1>5, Zenon DEF Turned, Fresh, Up
<1> QED
  BY <1>0, <1>1, <1>4, <1>6, BooksTurned, Zenon DEF IInv, Books

(* A service is launched: its dependencies are READY.                      *)
LEMMA StepLaunched ==
    ASSUME IInv, NEW s \in Services, Launched(s)
    PROVE  IInv'
<1>0. /\ TypeOK /\ Books /\ state[s] \in Fresh /\ DepsReady(s)
      /\ records' = Append(records, s) /\ proc' = [proc EXCEPT ![s] = "running"]
      /\ event' = [event EXCEPT ![s] = "none"]
      /\ UNCHANGED <<said, late, degraded, safe, tries, result>>
  BY Zenon DEF IInv, Books, Launched, Launching, Place
<1>1. PICK st \in {"SPAWNED", "FAILED"} : state' = [state EXCEPT ![s] = st]
  BY Zenon DEF Launched
<1>2. at' \in Places /\ Place' /\ Passed'
  BY <1>0, <1>1, LaunchPlace, Zenon DEF Launched
<1>3. records' \in Seq(Services)
  BY <1>0, RecordsTyped
<1>4. TypeOK'
  BY <1>0, <1>1, <1>2, <1>3, Zenon DEF TypeOK, Places, Classes, States, Processes, Events
<1> QED
  BY <1>0, <1>1, <1>2, <1>4, BooksLaunched, Zenon DEF IInv, Books

-----------------------------------------------------------------------------
(* Polling                                                                 *)

(* A step of the polling loop that stays in the CORE class.                *)
LEMMA Polls ==
    ASSUME IInv, Books', at' \in Places, state' \in [Services -> States],
           event' \in [Services -> Events],
           at.op \in {"poll", "deadline"}, at'.op \in {"launch", "poll", "deadline"},
           at'.cls = at.cls, at'.j >= 1, at'.op # "poll" => at'.j <= Len(Manifest),
           \A r \in at'.todo : Class[r] = "CORE" /\ state'[r] \in Fresh,
           at'.op # "launch" => at'.todo = {},
           UNCHANGED <<proc, said, late, records, degraded, safe, tries, result>>
    PROVE  IInv'
<1>0. TypeOK /\ Place
  BY Zenon DEF IInv
<1>1. at.cls = "CORE" /\ result = "NONE" /\ ~ safe /\ tries <= HandoffRetries
  BY <1>0, Zenon DEF Place
<1>2. TypeOK'
  BY <1>0, Zenon DEF TypeOK, Places, Classes
<1>3. Place'
  BY <1>1, Zenon DEF Place
<1>4. Passed'
  BY <1>1, Zenon DEF Passed, Beyond
<1> QED
  BY <1>2, <1>3, <1>4, Zenon DEF IInv, Books

(* A service of the CORE class has missed its deadline, or has not.        *)
LEMMA StepDeadline ==
    ASSUME IInv, Deadline
    PROVE  IInv'
<1>0. /\ TypeOK /\ Books /\ Place /\ at.op = "deadline"
      /\ UNCHANGED <<proc, event, said, late, records, degraded, safe, tries, result>>
  BY Zenon DEF IInv, Books, Deadline
<1>1. /\ at \in Places /\ at.cls = "CORE" /\ at.j \in 1..Len(Manifest)
      /\ at.todo = {}
  BY <1>0, HereTyped, Sizes DEF Place, Places
<1>2. /\ at' \in Places /\ at'.op = "poll" /\ at'.cls = at.cls /\ at'.j = at.j + 1
      /\ at'.todo = {}
  <2>1. at' = [at EXCEPT !.op = "poll", !.j = @ + 1]
    BY Zenon DEF Deadline
  <2>2. at.j + 1 \in 0..Len(Manifest)+1 /\ "poll" \in Ops
    BY <1>1, Sizes DEF Ops
  <2> QED
    BY <1>1, <2>1, <2>2, Zenon DEF Places
<1>3. PICK s : s = Manifest[at.j]
  BY Zenon
<1>4. s \in Services
  BY <1>1, <1>3, Sizes, Zenon
<1>5. CASE state' = state
  <2>1. Books'
    BY <1>0, <1>5, BooksKept, Zenon
  <2> QED
    BY <1>0, <1>1, <1>2, <1>5, <2>1, Polls DEF TypeOK
<1>6. CASE Missed(s) /\ state' = [state EXCEPT ![s] = "FAILED"]
  <2>1. Turned(s, "FAILED")
    BY <1>0, <1>4, <1>6, Zenon DEF Turned, Missed, Up, Fresh
  <2>2. Books'
    BY <1>0, <2>1, BooksTurned, Zenon
  <2>3. state' \in [Services -> States] /\ event' \in [Services -> Events]
    BY <1>0, <1>6, Zenon DEF TypeOK, States
  <2> QED
    BY <1>0, <1>1, <1>2, <1>6, <2>2, <2>3, Polls
<1> QED
  BY <1>3, <1>5, <1>6, Zenon DEF Deadline

(* What init has received is applied to a service that it polls; READY is  *)
(* the answer of a BOUND one only.                                         *)
LEMMA StepPoll ==
    ASSUME IInv, Poll
    PROVE  IInv'
<1>0. /\ TypeOK /\ Books /\ Place /\ at.op = "poll"
      /\ UNCHANGED <<proc, said, late, records, degraded, safe, tries, result>>
  BY Zenon DEF IInv, Books, Poll
<1>1. at \in Places /\ at.cls = "CORE" /\ at.j \in 1..Len(Manifest) /\ at.todo = {}
  BY <1>0, HereTyped, Sizes DEF Place, Places, Poll
<1>2. PICK s \in Services : Pollable(s) /\ (PollEvent(s) \/ PollNothing(s) \/ PollError(s))
  BY <1>1, Sizes, Zenon DEF Poll
<1>3. state[s] \in {"SPAWNED", "BOUND"}
  BY <1>2, Zenon DEF Pollable
<1>4. ASSUME at' = [at EXCEPT !.op = "deadline", !.pending = TRUE]
      PROVE  /\ at' \in Places /\ at'.op = "deadline" /\ at'.cls = at.cls /\ at'.j = at.j
             /\ at'.todo = {}
  BY <1>1, <1>4, Zenon DEF Places, Ops
<1>5. CASE PollNothing(s)
  <2>1. state' = state /\ event' = event /\ at' = [at EXCEPT !.op = "deadline", !.pending = TRUE]
    BY <1>5, Zenon DEF PollNothing
  <2>2. Books'
    BY <1>0, <2>1, BooksKept, Zenon
  <2>3. state' \in [Services -> States] /\ event' \in [Services -> Events]
    BY <1>0, <2>1, Zenon DEF TypeOK
  <2> QED
    BY <1>0, <1>1, <1>4, <2>1, <2>2, <2>3, Polls
<1>6. CASE PollError(s)
  <2>1. /\ state' = [state EXCEPT ![s] = "FAILED"] /\ event' = event
        /\ at' = [at EXCEPT !.op = "deadline", !.pending = TRUE]
    BY <1>6, Zenon DEF PollError
  <2>2. Turned(s, "FAILED")
    BY <1>0, <1>3, <2>1, Zenon DEF Turned, Up, Fresh
  <2>3. Books'
    BY <1>0, <2>2, BooksTurned, Zenon
  <2>4. state' \in [Services -> States] /\ event' \in [Services -> Events]
    BY <1>0, <2>1, Zenon DEF TypeOK, States
  <2> QED
    BY <1>0, <1>1, <1>4, <2>1, <2>3, <2>4, Polls
<1>7. CASE PollEvent(s)
  <2>1. PICK st : st = Applied(state[s], event[s])
    BY Zenon
  <2>2. /\ state' = [state EXCEPT ![s] = st] /\ event' = [event EXCEPT ![s] = "none"]
        /\ at' = [at EXCEPT !.op = "launch", !.todo = ToLaunch("CORE"), !.pending = TRUE]
    BY <1>7, <2>1, Zenon DEF PollEvent
  <2>3. /\ st \in {"BOUND", "READY", "FAILED"}
        /\ st = "BOUND" => event[s] = "BOUND"
        /\ st = "READY" => event[s] = "READY"
    BY <1>3, <2>1, Zenon DEF Applied
  <2>4. \A r \in Services : event'[r] = event[r] \/ event'[r] = "none"
    BY <1>0, <2>2, Zenon DEF TypeOK
  <2>5. (st = "BOUND" => said[s] >= 1) /\ (st = "READY" => said[s] = 2)
    BY <1>0, <2>3, Zenon DEF Books, Heard
  <2>6. Turned(s, st)
    BY <1>0, <1>3, <2>2, <2>3, <2>4, <2>5, Zenon DEF Turned, Up, Fresh
  <2>7. Books'
    BY <1>0, <2>6, BooksTurned, Zenon
  <2>8. state' \in [Services -> States] /\ event' \in [Services -> Events]
    BY <1>0, <2>2, <2>3, Zenon DEF TypeOK, States, Events
  <2>9. /\ at' \in Places /\ at'.op = "launch" /\ at'.cls = at.cls /\ at'.j = at.j
        /\ at'.todo = ToLaunch("CORE")
    BY <1>1, <2>2, Zenon DEF Places, Ops, ToLaunch
  <2>10. \A r \in at'.todo : Class[r] = "CORE" /\ state'[r] \in Fresh
    BY <1>0, <1>3, <2>2, <2>9, Zenon DEF ToLaunch, TypeOK, Fresh
  <2> QED
    BY <1>0, <1>1, <2>7, <2>8, <2>9, <2>10, Polls
<1> QED
  BY <1>2, <1>5, <1>6, <1>7, Zenon

-----------------------------------------------------------------------------
(* Rolling back                                                            *)

(* One compensation is done with.                                          *)
LEMMA Compensates ==
    ASSUME IInv, records # <<>>, NEW st \in {"DISABLED", "FAILED"},
           state' = [state EXCEPT ![Top] = st], records' = Popped,
           proc' \in [Services -> Processes],
           \A r \in Bootstrap : proc'[r] = proc[r] \/ proc'[r] = "gone",
           st = "FAILED" \/ Top \notin Bootstrap \/ proc'[Top] = "gone",
           at.op \in {"rollback", "reap"}, at' \in Places, at'.op = "rollback",
           at'.todo = {}, UNCHANGED <<event, said, late, degraded, safe, tries, result>>
    PROVE  IInv'
<1>0. TypeOK /\ Books /\ Place
  BY Zenon DEF IInv, Books
<1>1. Books'
  BY <1>0, BooksPopped, Zenon
<1>2. result = "NONE" /\ tries <= HandoffRetries
  BY <1>0, Zenon DEF Place
<1>3. records' \in Seq(Services)
  <2>1. records \in Seq(Services) /\ Len(records) \in Nat
    BY <1>0, RecordsTyped, Zenon
  <2> QED
    BY <2>1 DEF Popped
<1>4. state' \in [Services -> States]
  BY <1>0, Zenon DEF TypeOK, States
<1>5. TypeOK'
  BY <1>0, <1>3, <1>4, Zenon DEF TypeOK, Places, Classes
<1>6. Place'
  BY <1>2, Zenon DEF Place
<1>7. Passed'
  BY <1>2, Zenon DEF Passed, Beyond
<1> QED
  BY <1>1, <1>5, <1>6, <1>7, Zenon DEF IInv, Books

(* A service without a process of init's own is compensated.               *)
LEMMA StepRollbackStub ==
    ASSUME IInv, RollbackStub
    PROVE  IInv'
<1>1. at' \in Places /\ at'.op = "rollback" /\ at'.todo = {} /\ proc' \in [Services -> Processes]
  BY HereTyped, Zenon DEF RollbackStub, IInv, Place, TypeOK
<1> QED
  BY <1>1, Compensates, Zenon DEF RollbackStub

(* The roll-back asks the kernel to end the process on top.                *)
LEMMA StepTerminate ==
    ASSUME IInv, Terminate
    PROVE  IInv'
<1>0. /\ TypeOK /\ Books /\ Place /\ Passed /\ at.op = "rollback" /\ records # <<>> /\ Top \in Bootstrap
      /\ UNCHANGED <<event, said, late, degraded, safe, tries, result>>
  BY Zenon DEF IInv, Books, Terminate
<1>h. /\ at \in Places /\ at.j \in Nat /\ degraded \in BOOLEAN /\ safe \in BOOLEAN
      /\ tries \in 0..HandoffRetries+1 /\ result \in Results
  BY HereTyped, Zenon
<1>1. CASE records' = Popped /\ state' = [state EXCEPT ![Top] = "FAILED"] /\ UNCHANGED <<proc, at>>
  <2>1. at' \in Places /\ at'.op = "rollback" /\ at'.todo = {} /\ proc' \in [Services -> Processes]
    BY <1>0, <1>1, <1>h, Zenon DEF Place, TypeOK
  <2> QED
    BY <1>0, <1>1, <2>1, Compensates, Zenon
<1>2. CASE proc' = [proc EXCEPT ![Top] = "stopped"] /\ Goto("reap") /\ UNCHANGED <<state, records>>
  <2>1. Is(at', "reap", at.cls, {}, 0)
    BY <1>0, <1>2, GotoTyped, Zenon DEF Ops
  <2>2. result = "NONE" /\ tries <= HandoffRetries
    BY <1>0, Zenon DEF Place
  <2>3. TypeOK'
    BY <1>0, <1>2, <2>1, Zenon DEF TypeOK, Is, Places, Classes, Processes
  <2>4. Place'
    BY <1>0, <1>2, <2>1, <2>2, Zenon DEF Place, Is
  <2>5. Passed'
    BY <1>0, <2>1, <2>2, Zenon DEF Passed, Is, Beyond
  <2>6. Stacked' /\ Standing' /\ Heard'
    BY <1>0, <1>2 DEF Books, Stacked, Standing, Heard, Recorded
  <2>7. Recorded(Top)
    <3>1. Len(records) \in DOMAIN records
      BY <1>0, RecordsTyped
    <3> QED
      BY <3>1, Zenon DEF Top, Recorded
  <2>8. Tracked'
    <3>1. \A r \in Bootstrap : r # Top => proc'[r] = proc[r]
      BY <1>0, <1>2, Sizes, Zenon DEF TypeOK
    <3>2. \A r : Recorded(r) => Recorded(r)'
      BY <1>2, Zenon DEF Recorded
    <3> QED
      BY <1>0, <1>2, <2>7, <3>1, <3>2, Zenon DEF Books, Tracked
  <2> QED
    BY <2>3, <2>4, <2>5, <2>6, <2>8, Zenon DEF IInv
<1> QED
  BY <1>1, <1>2, Zenon DEF Terminate

(* The kernel has been asked for the exit of the process on top.           *)
LEMMA StepReap ==
    ASSUME IInv, Reap
    PROVE  IInv'
<1>0. /\ TypeOK /\ Place /\ at.op = "reap" /\ records' = Popped
      /\ UNCHANGED <<event, said, late, degraded, safe, tries, result>>
  BY Zenon DEF IInv, Reap
<1>1. records # <<>>
  BY <1>0, Zenon DEF Place
<1>2. Is(at', "rollback", at.cls, {}, 0)
  BY <1>0, GotoTyped, Zenon DEF Ops, Reap
<1>3. PICK ok \in BOOLEAN : /\ proc' = IF ok THEN [proc EXCEPT ![Top] = "gone"] ELSE proc
                            /\ state' = [state EXCEPT ![Top] = Compensated(ok)]
  BY Zenon DEF Reap
<1>4. Top \in Services
  BY <1>0, <1>1, RecordsTyped DEF Top
<1>5. CASE ok
  <2>1. Compensated(ok) = "DISABLED" /\ proc' = [proc EXCEPT ![Top] = "gone"]
    BY <1>3, <1>5, Zenon DEF Compensated
  <2>2. /\ proc' \in [Services -> Processes] /\ proc'[Top] = "gone"
        /\ \A r \in Bootstrap : proc'[r] = proc[r] \/ proc'[r] = "gone"
    BY <1>0, <1>4, <2>1, Sizes, Zenon DEF TypeOK, Processes
  <2> QED
    BY <1>0, <1>1, <1>2, <1>3, <2>1, <2>2, Compensates, Zenon DEF Is
<1>6. CASE ~ ok
  <2>1. Compensated(ok) = "FAILED" /\ proc' = proc
    BY <1>3, <1>6, Zenon DEF Compensated
  <2>2. proc' \in [Services -> Processes]
    BY <1>0, <2>1, Zenon DEF TypeOK
  <2> QED
    BY <1>0, <1>1, <1>2, <1>3, <2>1, <2>2, Compensates, Zenon DEF Is
<1> QED
  BY <1>5, <1>6, Zenon

-----------------------------------------------------------------------------
(* The invariant holds                                                     *)

(* A profile selects services of the manifest.                             *)
LEMMA StepSelect ==
    ASSUME IInv, Select
    PROVE  IInv'
<1>0. /\ TypeOK /\ Books /\ Place /\ at.op = "select"
      /\ UNCHANGED <<proc, event, said, late, records, degraded, tries>>
  BY Zenon DEF IInv, Books, Select
<1>h. /\ at \in Places /\ at.j \in Nat /\ degraded \in BOOLEAN /\ safe \in BOOLEAN
      /\ tries \in 0..HandoffRetries+1 /\ result \in Results
  BY HereTyped, Zenon
<1>1. /\ records = <<>> /\ result = "NONE" /\ ~ safe /\ tries <= HandoffRetries
      /\ \A s \in Services : state[s] = "UNUSED" /\ proc[s] = "none"
  BY <1>0, Zenon DEF Place
<1>2. CASE safe' = TRUE /\ Return("FAILED") /\ UNCHANGED state
  <2>1. Is(at', "end", at.cls, {}, 0) /\ result' = "FAILED"
    BY <1>0, <1>2, GotoTyped, Zenon DEF Ops, Return
  <2>2. Fits
    BY <1>0, <1>1, <1>2, <1>h, <2>1, Zenon DEF Fits, Is, Beyond, Results
  <2> QED
    BY <1>0, <1>2, <2>2, Walks, Zenon
<1>3. ASSUME NEW S \in Profiles \union {{}},
             state' = [s \in Services |-> IF s \in S THEN "DECLARED" ELSE "UNUSED"],
             at' = At("launch", "CORE", {s \in S : Class[s] = "CORE"}, 0),
             UNCHANGED <<safe, result>>
      PROVE  IInv'
  <2>0. S \in SUBSET Services
    BY ManifestAssumption, Zenon
  <2>1. Is(at', "launch", "CORE", {s \in S : Class[s] = "CORE"}, 0)
    BY <1>3, <2>0, AtTyped, Sizes DEF Ops, Classes
  <2>2. state' \in [Services -> States] /\ \A s \in Services : state'[s] \in {"DECLARED", "UNUSED"}
    BY <1>3, Zenon DEF States
  <2>3. TypeOK'
    BY <1>0, <1>3, <1>h, <2>1, <2>2, Zenon DEF TypeOK, Is, Places, Classes
  <2>4. Stacked'
    BY <1>0, <1>1, <2>2 DEF Stacked, Up
  <2>5. Standing'
    BY <2>2, Zenon DEF Standing, Up
  <2>6. Tracked'
    BY <1>0, <1>1, Sizes, Zenon DEF Tracked
  <2>7. Heard'
    BY <1>0, <2>2, Zenon DEF Books, Heard
  <2>8. \A s \in at'.todo : Class[s] = at'.cls /\ state'[s] \in Fresh
    BY <1>3, <2>0, <2>1, Zenon DEF Is, Fresh
  <2>9. Place'
    BY <1>0, <1>1, <1>3, <2>1, <2>8, Sizes, SMTT(30) DEF Place, Is
  <2>10. Passed'
    BY <1>1, <1>3, <2>1, Zenon DEF Passed, Is, Beyond
  <2> QED
    BY <2>3, <2>4, <2>5, <2>6, <2>7, <2>9, <2>10, Zenon DEF IInv
<1> QED
  BY <1>2, <1>3, Zenon DEF Select

(* The invariant holds at the start.                                       *)
LEMMA Begins == Init => IInv
<1> SUFFICES ASSUME Init PROVE IInv
  BY Zenon
<1>1. Is(at, "select", "CORE", {}, 0)
  BY AtTyped, Sizes DEF Init, Ops, Classes
<1>2. TypeOK
  <2>1. degraded \in BOOLEAN /\ safe \in BOOLEAN /\ result \in Results
    BY Zenon DEF Init, Results
  <2>0. records \in Seq(Services) /\ tries \in 0..HandoffRetries+1
    BY Sizes DEF Init
  <2>2. /\ state \in [Services -> States] /\ proc \in [Services -> Processes]
        /\ event \in [Services -> Events] /\ said \in [Services -> 0..2] /\ late \in [Services -> BOOLEAN]
    BY DEF Init, States, Processes, Events
  <2> QED
    BY <1>1, <2>0, <2>1, <2>2, Zenon DEF TypeOK, Is, Places, Classes
<1>3. Stacked /\ Standing /\ Tracked /\ Heard
  BY Sizes DEF Init, Stacked, Standing, Tracked, Heard, Up
<1>4. Place
  BY <1>1, Sizes DEF Init, Place, Is
<1>5. Passed
  BY <1>1, Zenon DEF Init, Passed, Is, Beyond
<1> QED
  BY <1>2, <1>3, <1>4, <1>5, Zenon DEF IInv

(* Every step of init, of the children and of the clock keeps it.          *)
LEMMA Goes == IInv /\ [Next]_vars => IInv'
<1> SUFFICES ASSUME IInv, [Next]_vars PROVE IInv'
  BY Zenon
<1>1. CASE UNCHANGED vars
  <2>1. UNCHANGED <<state, proc, event, said, late, records, at, degraded, safe, tries, result>>
    BY <1>1, Zenon DEF vars
  <2>2. Books'
    BY <2>1, BooksKept, Zenon DEF IInv, Books
  <2>3. TypeOK'
    BY <2>1, Zenon DEF IInv, TypeOK
  <2> QED
    BY <2>1, <2>2, <2>3, Elsewhere, Zenon
<1>2. CASE InitStep
  BY <1>2, StepSelect, StepLaunchEnd, StepCheck, StepPollSkip, StepPoll, StepDeadline, StepPollEnd,
     StepRollbackStub, StepTerminate, StepReap, StepRollbackEnd, StepRetain, StepHandoff,
     StepLaunchWait, StepLaunched, StepLaunchFailed, Zenon DEF InitStep, Launch
<1>3. CASE \E s \in Services : Report(s) \/ Exit(s) \/ Expire(s)
  BY <1>3, StepReport, StepExit, StepExpire, Zenon
<1> QED
  BY <1>1, <1>2, <1>3, Zenon DEF Next

(* IInv is an invariant of the boot.                                       *)
LEMMA Booted == Spec => []IInv
BY Begins, Goes, PTL DEF Spec

(* A service that init counts as launched or READY stands on dependencies  *)
(* that are READY, through polling, deadlines and a roll-back that takes   *)
(* down the service launched last first (init_rollback_run).               *)
THEOREM StandsOnReady == Spec => []DependenciesHeld
<1>1. IInv => DependenciesHeld
  BY Zenon DEF IInv, Standing, Up, DependenciesHeld
<1> QED
  BY <1>1, Booted, PTL

(* If the manifest requires services of the CORE and INFRA classes only, a *)
(* boot that does not end as failed has a CORE class whose required        *)
(* services have themselves reported BOUND and READY, and no required      *)
(* service has failed (converge_class, init_runtime_run).                  *)
THEOREM CoreHealthy == RequiredEarly => (Spec => []HealthyCore)
<1> SUFFICES ASSUME RequiredEarly
             PROVE  Spec => []HealthyCore
  BY Zenon
<1>1. ASSUME IInv PROVE HealthyCore
  <2> SUFFICES ASSUME result \notin {"NONE", "FAILED"}
               PROVE  /\ \A s \in InClass("CORE") \cap Required : state[s] = "READY" /\ said[s] = 2
                      /\ \A s \in Required : state[s] # "FAILED"
    BY Zenon DEF HealthyCore
  <2>1. AllReady("CORE") /\ ~ AnyRequiredFailed("INFRA") /\ Heard
    BY <1>1, Zenon DEF IInv, Passed, Beyond
  <2>2. \A s \in InClass("CORE") \cap Required : state[s] = "READY" /\ said[s] = 2
    BY <2>1, Zenon DEF AllReady, Heard, InClass
  <2>3. ASSUME NEW s \in Required, state[s] = "FAILED" PROVE FALSE
    <3>1. s \in Services /\ state[s] # "UNUSED" /\ state[s] # "READY"
      BY <2>3, Sizes, Zenon
    <3>2. Class[s] # "CORE"
      BY <2>2, <3>1, Zenon DEF InClass
    <3>3. Class[s] # "INFRA"
      BY <2>1, <2>3, <3>1, Zenon DEF InClass, AnyRequiredFailed
    <3> QED
      BY <3>2, <3>3, Zenon DEF RequiredEarly
  <2> QED
    BY <2>2, <2>3, Zenon
<1> QED
  BY <1>1, Booted, PTL

(* After a roll-back what the kernel has launched for init is gone or is   *)
(* FAILED, whichever terminations and reaps have failed (bootstrap_stop,   *)
(* init_rollback_run).                                                     *)
THEOREM CompensationSeen == Spec => []CompensationVisible
<1>1. ASSUME IInv PROVE CompensationVisible
  <2> SUFFICES ASSUME safe, result = "FAILED", NEW s \in Bootstrap
               PROVE  proc[s] \in {"none", "gone"} \/ state[s] = "FAILED"
    BY Zenon DEF CompensationVisible
  <2>1. records = <<>>
    BY <1>1, Zenon DEF IInv, Place
  <2>2. ~ Recorded(s)
    BY <2>1 DEF Recorded
  <2> QED
    BY <1>1, <2>2, Zenon DEF IInv, Tracked
<1> QED
  BY <1>1, Booted, PTL
=============================================================================
