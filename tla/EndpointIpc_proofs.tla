------------------------- MODULE EndpointIpc_proofs -------------------------
(***************************************************************************)
(* The claim protocol and the life cycle of an endpoint slot, for any      *)
(* number of threads, any roles, any timeouts and any bound on the         *)
(* generations.  The conjunction IInv is inductive as it stands: a claim   *)
(* keeps the slot from being reclaimed, a reclaimed slot has no claim, and *)
(* the two together need the life cycle (a message is queued on a READY    *)
(* endpoint only) and the types.  From it follows what a step may never do *)
(* to the message of an endpoint.                                          *)
(* First come the operators of EndpointIpc (updates of the endpoint        *)
(* record, wait queues, the control state of a thread), then the           *)
(* operations on the lifetime of a slot (create, delegate and revoke with  *)
(* their reference hooks, close, cancel), then send and receive.           *)
(***************************************************************************)
EXTENDS EndpointIpc, FiniteSetTheorems, TLAPS

IInv == TypeOK /\ ClaimExclusive /\ LifeCycle

ClaimLabels == {"claimed", "commit"}

(* What LifeCycle says of an endpoint.                                     *)
LifeOK(e) ==
    /\ e.inUse <=> e.state # "FREE"
    /\ e.state = "READY" => e.recvRefs > 0
    /\ e.hasMsg = 1 => e.state = "READY"
    /\ e.hasMsg = 0 <=> e.msg = NoMsg

(* What ClaimExclusive says of an endpoint alone.                          *)
ClaimOK(e) ==
    /\ e.claims \in {0, 1}
    /\ e.hasMsg = 2 <=> e.claims = 1
    /\ e.claims = 1 => e.inUse

-----------------------------------------------------------------------------
(* Endpoint updates.                                                       *)

(* NoMsg is a message.                                                     *)
LEMMA NoMsgType == NoMsg \in Messages
  BY DEF NoMsg, Messages, Pointers

(* One field of an endpoint at a time.                                     *)
LEMMA EndpointFields ==
  ASSUME NEW e \in Endpoints
  PROVE  /\ \A x \in BOOLEAN : [e EXCEPT !.inUse = x] \in Endpoints
         /\ \A x \in {"FREE", "READY", "CLOSED"} : [e EXCEPT !.state = x] \in Endpoints
         /\ \A x \in Nat : [e EXCEPT !.gen = x] \in Endpoints
         /\ \A x \in Nat : [e EXCEPT !.sendRefs = x] \in Endpoints
         /\ \A x \in Nat : [e EXCEPT !.recvRefs = x] \in Endpoints
         /\ \A x \in Nat : [e EXCEPT !.claims = x] \in Endpoints
         /\ \A x \in 0 .. 2 : [e EXCEPT !.hasMsg = x] \in Endpoints
         /\ \A x \in Messages : [e EXCEPT !.msg = x] \in Endpoints
<1>1. \A x \in BOOLEAN : [e EXCEPT !.inUse = x] \in Endpoints
  BY Zenon DEF Endpoints
<1>2. \A x \in {"FREE", "READY", "CLOSED"} : [e EXCEPT !.state = x] \in Endpoints
  BY Zenon DEF Endpoints
<1>3. \A x \in Nat : [e EXCEPT !.gen = x] \in Endpoints
  BY Zenon DEF Endpoints
<1>4. \A x \in Nat : [e EXCEPT !.sendRefs = x] \in Endpoints
  BY Zenon DEF Endpoints
<1>5. \A x \in Nat : [e EXCEPT !.recvRefs = x] \in Endpoints
  BY Zenon DEF Endpoints
<1>6. \A x \in Nat : [e EXCEPT !.claims = x] \in Endpoints
  BY Zenon DEF Endpoints
<1>7. \A x \in 0 .. 2 : [e EXCEPT !.hasMsg = x] \in Endpoints
  BY Zenon DEF Endpoints
<1>8. \A x \in Messages : [e EXCEPT !.msg = x] \in Endpoints
  BY Zenon DEF Endpoints
<1> QED
  BY <1>1, <1>2, <1>3, <1>4, <1>5, <1>6, <1>7, <1>8, Zenon

(* The message and its mark change together.                               *)
LEMMA SetMsgType ==
  ASSUME NEW e \in Endpoints, NEW n \in 0 .. 2, NEW m \in Messages
  PROVE  [e EXCEPT !.hasMsg = n, !.msg = m] \in Endpoints
<1>1. [e EXCEPT !.hasMsg = n] \in Endpoints
  BY EndpointFields, Zenon
<1>2. [[e EXCEPT !.hasMsg = n] EXCEPT !.msg = m] \in Endpoints
  BY <1>1, EndpointFields, Zenon
<1> QED
  BY <1>2, Zenon

(* Clearing the message of an endpoint gives an endpoint.                  *)
LEMMA ClearMsgType ==
  ASSUME NEW e \in Endpoints
  PROVE  /\ ClearMsg(e) \in Endpoints
         /\ ClearMsg(e).hasMsg = 0 /\ ClearMsg(e).msg = NoMsg
         /\ ClearMsg(e).claims = e.claims /\ ClearMsg(e).inUse = e.inUse
         /\ ClearMsg(e).state = e.state /\ ClearMsg(e).recvRefs = e.recvRefs
         /\ ClearMsg(e).gen = e.gen
<1>1. ClearMsg(e) \in Endpoints
  <2>1. 0 \in 0 .. 2
    OBVIOUS
  <2>2. \A n \in 0 .. 2, m \in Messages : [e EXCEPT !.hasMsg = n, !.msg = m] \in Endpoints
    BY SetMsgType, Zenon
  <2>3. [e EXCEPT !.hasMsg = 0, !.msg = NoMsg] \in Endpoints
    BY <2>1, <2>2, NoMsgType, Zenon
  <2> QED
    BY <2>3, Zenon DEF ClearMsg
<1> QED
  BY <1>1, Zenon DEF ClearMsg, Endpoints

(* ipc_endpoint_try_reclaim_locked leaves a claimed slot alone and frees   *)
(* only what nobody refers to.                                             *)
LEMMA TryReclaimKeeps ==
  ASSUME NEW e \in Endpoints, NEW w, LifeOK(e), ClaimOK(e)
  PROVE  /\ TryReclaim(e, w) \in Endpoints
         /\ LifeOK(TryReclaim(e, w)) /\ ClaimOK(TryReclaim(e, w))
         /\ TryReclaim(e, w).claims = e.claims
<1>1. CASE TryReclaim(e, w) = e
  BY <1>1, Zenon
<1>2. CASE e.claims = 0 /\ TryReclaim(e, w) = Free([ClearMsg(e) EXCEPT !.gen = @ + 1])
  <2> DEFINE f == Free([ClearMsg(e) EXCEPT !.gen = @ + 1])
  <2>1. /\ f \in Endpoints
        /\ f.hasMsg = 0 /\ f.msg = NoMsg /\ f.claims = e.claims
        /\ f.inUse = FALSE /\ f.state = "FREE"
    <3> DEFINE c == ClearMsg(e)
               g == [c EXCEPT !.gen = @ + 1]
    <3>1. /\ c \in Endpoints /\ c.gen \in Nat
          /\ c.hasMsg = 0 /\ c.msg = NoMsg /\ c.claims = e.claims
      BY ClearMsgType, Zenon DEF Endpoints
    <3>2. /\ g \in Endpoints
          /\ g.hasMsg = 0 /\ g.msg = NoMsg /\ g.claims = e.claims
      <4> HIDE DEF c
      <4> QED BY <3>1, EndpointFields DEF Endpoints
    <3>3. /\ f = [[g EXCEPT !.inUse = FALSE] EXCEPT !.state = "FREE"]
      BY Zenon DEF Free
    <3>4. [g EXCEPT !.inUse = FALSE] \in Endpoints
      <4> HIDE DEF g
      <4> QED BY <3>2, EndpointFields, Zenon
    <3> HIDE DEF c, g, f
    <3>5. f \in Endpoints
      BY <3>3, <3>4, EndpointFields, Zenon
    <3> QED
      BY <3>2, <3>3, <3>5, Zenon DEF Endpoints
  <2> QED
    BY <1>2, <2>1 DEF LifeOK, ClaimOK
<1> QED
  BY <1>1, <1>2, Zenon DEF TryReclaim

(* Closing drops a queued message and leaves a claimed one.                *)
LEMMA ClosedKeeps ==
  ASSUME NEW e \in Endpoints, e.inUse, ClaimOK(e), e.hasMsg = 0 <=> e.msg = NoMsg
  PROVE  /\ Closed(e) \in Endpoints
         /\ LifeOK(Closed(e)) /\ ClaimOK(Closed(e))
         /\ Closed(e).claims = e.claims
<1>1. CASE e.hasMsg = 1
  <2>1. Closed(e) = [ClearMsg(e) EXCEPT !.state = "CLOSED"]
    BY <1>1, Zenon DEF Closed
  <2> QED
    BY <1>1, <2>1, ClearMsgType DEF LifeOK, ClaimOK, Endpoints
<1>2. CASE e.hasMsg # 1
  <2>1. Closed(e) = [e EXCEPT !.state = "CLOSED"]
    BY <1>2, Zenon DEF Closed
  <2> QED
    BY <1>2, <2>1 DEF LifeOK, ClaimOK, Endpoints
<1> QED
  BY <1>1, <1>2, Zenon

-----------------------------------------------------------------------------
(* Wait queues.                                                            *)

(* A list of threads has threads at its positions.                         *)
LEMMA ListElements ==
  ASSUME NEW p \in Lists
  PROVE  /\ Len(p) \in Nat
         /\ \A i \in 1 .. Len(p) : p[i] \in Threads
<1>1. PICK n \in 0 .. Cardinality(Threads) : p \in [1 .. n -> Threads]
  BY Zenon DEF Lists
<1>2. n \in Nat
  BY ThreadsAssumption, FS_CardinalityType
<1>3. p \in Seq(Threads) /\ Len(p) = n
  BY <1>1, <1>2
<1> QED
  BY <1>1, <1>2, <1>3, Zenon

(* What the operations of sched_wait.c and endpoint_ipc.c leave are wait   *)
(* queues.                                                                 *)
LEMMA QueueTypes ==
  ASSUME NEW w \in WaitQueues(Queues), NEW q \in Queues, NEW t \in Threads,
         NEW x \in Pointers
  PROVE  /\ InitQueues(w) \in WaitQueues(Queues)
         /\ Enqueue(w, q, t) \in WaitQueues(Queues)
         /\ Dequeue(w, q, x) \in WaitQueues(Queues)
         /\ ClearNext(w, t) \in WaitQueues(Queues)
<1>1. /\ w.head \in [Queues -> Pointers] /\ w.tail \in [Queues -> Pointers]
      /\ w.next \in [Threads -> Pointers]
      /\ NULL \in Pointers /\ t \in Pointers
      /\ x # NULL => x \in Threads
  BY Zenon DEF WaitQueues, Pointers
<1>2. \A h, l \in [Queues -> Pointers], n \in [Threads -> Pointers] :
         [head |-> h, tail |-> l, next |-> n] \in WaitQueues(Queues)
  BY Zenon DEF WaitQueues
<1>3. InitQueues(w) \in WaitQueues(Queues)
  BY <1>1, <1>2, Zenon DEF InitQueues
<1>4. Enqueue(w, q, t) \in WaitQueues(Queues)
  BY <1>1, <1>2, Zenon DEF Enqueue
<1>5. Dequeue(w, q, x) \in WaitQueues(Queues)
  BY <1>1, <1>2, Zenon DEF Dequeue
<1>6. ClearNext(w, t) \in WaitQueues(Queues)
  BY <1>1, <1>2, Zenon DEF ClearNext
<1> QED
  BY <1>3, <1>4, <1>5, <1>6, Zenon

(* So does draining a queue onto the wake list.                            *)
LEMMA DrainType ==
  ASSUME NEW w \in WaitQueues(Queues), NEW q \in Queues, NEW l \in Lists,
         NEW top \in Pointers
  PROVE  /\ Drain(w, q, l, top) \in WaitQueues(Queues)
         /\ DrainTop(l, top) \in Pointers
<1>1. /\ w.head \in [Queues -> Pointers] /\ w.tail \in [Queues -> Pointers]
      /\ w.next \in [Threads -> Pointers]
      /\ NULL \in Pointers
  BY Zenon DEF WaitQueues, Pointers
<1>2. \A i \in 1 .. Len(l) : l[i] \in Pointers
  BY ListElements, Zenon DEF Pointers
<1>3. Len(l) \in Nat
  BY ListElements, Zenon
<1> DEFINE Link(t) == IF \E i \in 2 .. Len(l) : l[i] = t
                      THEN l[(CHOOSE i \in 2 .. Len(l) : l[i] = t) - 1]
                      ELSE IF l # <<>> /\ l[1] = t THEN top
                      ELSE w.next[t]
<1>4. ASSUME NEW t \in Threads PROVE Link(t) \in Pointers
  <2>1. CASE \E i \in 2 .. Len(l) : l[i] = t
    <3> DEFINE j == CHOOSE i \in 2 .. Len(l) : l[i] = t
    <3>1. j \in 2 .. Len(l)
      BY <2>1, Zenon
    <3>2. j - 1 \in 1 .. Len(l)
      BY <3>1, <1>3
    <3>3. Link(t) = l[j - 1]
      BY <2>1, Zenon
    <3> QED
      BY <1>2, <3>2, <3>3, Zenon
  <2>2. CASE ~ \E i \in 2 .. Len(l) : l[i] = t
    BY <2>2, <1>1, Zenon
  <2> QED
    BY <2>1, <2>2, Zenon
<1>5. [t \in Threads |-> Link(t)] \in [Threads -> Pointers]
  BY <1>4, Zenon
<1>6. Drain(w, q, l, top) \in WaitQueues(Queues)
  <2>1. CASE w.head[q] = NULL
    BY <2>1, Zenon DEF Drain
  <2>2. CASE w.head[q] # NULL
    <3>1. Drain(w, q, l, top) = [head |-> [w.head EXCEPT ![q] = NULL],
                                 tail |-> [w.tail EXCEPT ![q] = NULL],
                                 next |-> [t \in Threads |-> Link(t)]]
      BY <2>2, Zenon DEF Drain
    <3> HIDE DEF Link
    <3> QED
      BY <1>1, <1>5, <3>1 DEF WaitQueues
  <2> QED
    BY <2>1, <2>2, Zenon
<1>7. DrainTop(l, top) \in Pointers
  <2>1. l # <<>> => Len(l) \in 1 .. Len(l)
    <3>1. PICK n \in 0 .. Cardinality(Threads) : l \in [1 .. n -> Threads]
      BY Zenon DEF Lists
    <3>2. n \in Nat
      BY ThreadsAssumption, FS_CardinalityType
    <3>3. l \in Seq(Threads)
      BY <3>1, <3>2
    <3> QED
      BY <3>3
  <2> QED
    BY <1>2, <2>1, Zenon DEF DrainTop
<1> QED
  BY <1>6, <1>7, Zenon

(* And ipc_wait_queue_remove.                                              *)
LEMMA RemoveType ==
  ASSUME NEW w \in WaitQueues(Queues), NEW q \in Queues, NEW p \in Lists,
         NEW t \in Threads
  PROVE  Remove(w, q, p, t) \in WaitQueues(Queues)
<1>1. /\ w.head \in [Queues -> Pointers] /\ w.tail \in [Queues -> Pointers]
      /\ w.next \in [Threads -> Pointers]
      /\ NULL \in Pointers
  BY Zenon DEF WaitQueues, Pointers
<1>2. \A i \in 1 .. Len(p) : p[i] \in Threads
  BY ListElements, Zenon
<1>3. Len(p) \in Nat
  BY ListElements, Zenon
<1> DEFINE Prev(i) == IF i = 1 THEN NULL ELSE p[i - 1]
           At(i) == [head |-> IF i = 1 THEN [w.head EXCEPT ![q] = w.next[t]] ELSE w.head,
                     tail |-> IF w.tail[q] = t THEN [w.tail EXCEPT ![q] = Prev(i)] ELSE w.tail,
                     next |-> IF i = 1 THEN [w.next EXCEPT ![t] = NULL]
                              ELSE [w.next EXCEPT ![Prev(i)] = w.next[t], ![t] = NULL]]
<1>4. ASSUME NEW i \in 1 .. Len(p) PROVE At(i) \in WaitQueues(Queues)
  <2>1. Prev(i) \in Pointers /\ (i # 1 => Prev(i) \in Threads)
    <3>1. CASE i = 1
      BY <3>1, <1>1, Zenon
    <3>2. CASE i # 1
      <4>1. i - 1 \in 1 .. Len(p)
        BY <3>2, <1>3
      <4> QED
        BY <3>2, <4>1, <1>2, Zenon DEF Pointers
    <3> QED
      BY <3>1, <3>2, Zenon
  <2> HIDE DEF Prev
  <2> QED
    BY <1>1, <2>1, Zenon DEF WaitQueues
<1>5. CASE \E i \in 1 .. Len(p) : p[i] = t
  <2> DEFINE j == CHOOSE i \in 1 .. Len(p) : p[i] = t
  <2>1. j \in 1 .. Len(p)
    BY <1>5, Zenon
  <2>2. Remove(w, q, p, t) = At(j)
    BY <1>5, Zenon DEF Remove
  <2> HIDE DEF At, j
  <2> QED
    BY <1>4, <2>1, <2>2, Zenon
<1>6. CASE ~ \E i \in 1 .. Len(p) : p[i] = t
  BY <1>6, Zenon DEF Remove
<1> QED
  BY <1>5, <1>6, Zenon

-----------------------------------------------------------------------------
(* Operations of a thread.                                                 *)

(* The records the actions store in op are operations.                     *)
LEMMA OperationType ==
  ASSUME NEW kind \in Kinds \cup {"none", "acquire", "release", "close", "cancel"},
         NEW which \in Kinds, NEW ref \in Nat, NEW todo \in Nat,
         NEW timeout \in {"zero", "finite", "never"},
         NEW flag \in BOOLEAN, NEW slots \in 0 .. 2
  PROVE  Operation(kind, which, ref, timeout, flag, slots, todo) \in Ops
  BY DEF Operation, Ops

(* The record of an operation without a message is an operation.           *)
LEMMA SimpleType ==
  ASSUME NEW kind \in Kinds \cup {"none", "acquire", "release", "close", "cancel"},
         NEW which \in Kinds, NEW ref \in Nat, NEW todo \in Nat
  PROVE  Simple(kind, which, ref, todo) \in Ops
  BY DEF Simple, Operation, Ops

(* A thread outside every operation has a well-formed record.              *)
LEMMA NoOpType == NoOp \in Ops
  BY SimpleType, Zenon DEF NoOp, Kinds

(* Return, Finish and WakeThenFinish keep the types of what they change,   *)
(* move no other thread and take no claim.                                 *)
LEMMA ReturnType ==
  ASSUME TypeOK, NEW t \in Threads, Return(t)
  PROVE  /\ pc' \in [Threads -> Labels] /\ op' \in [Threads -> Ops]
         /\ expired' \in [Threads -> BOOLEAN]
         /\ pc'[t] = "idle"
         /\ \A u \in Threads : u # t => pc'[u] = pc[u]
  BY NoOpType, Zenon DEF TypeOK, Return, Goto, Labels

(* What follows the last wakeup of an operation keeps the types.           *)
LEMMA FinishType ==
  ASSUME TypeOK, NEW t \in Threads, Finish(t)
  PROVE  /\ pc' \in [Threads -> Labels] /\ op' \in [Threads -> Ops]
         /\ expired' \in [Threads -> BOOLEAN]
         /\ pc'[t] \in {"idle", "drop", "hook"}
         /\ \A u \in Threads : u # t => pc'[u] = pc[u]
<1>1. CASE Goto(t, "drop") /\ UNCHANGED <<op, expired>>
  BY <1>1, Zenon DEF TypeOK, Goto, Labels
<1>2. CASE /\ op[t].todo > 1
           /\ op' = [op EXCEPT ![t].todo = @ - 1]
           /\ Goto(t, "hook")
           /\ UNCHANGED expired
  <2>1. op[t] \in Ops
    BY Zenon DEF TypeOK
  <2>2. op[t].todo - 1 \in Nat
    BY <1>2, <2>1 DEF Ops
  <2>3. [op[t] EXCEPT !.todo = @ - 1] \in Ops
    BY <2>1, <2>2, Zenon DEF Ops
  <2>4. op' \in [Threads -> Ops]
    BY <1>2, <2>3, Zenon DEF TypeOK
  <2> QED
    BY <1>2, <2>4, Zenon DEF TypeOK, Goto, Labels
<1>3. CASE Return(t)
  BY <1>3, ReturnType, Zenon
<1> QED
  BY <1>1, <1>2, <1>3, Zenon DEF Finish

(* Waking one thread, or nobody, before the end keeps the types.           *)
LEMMA WakeThenFinishType ==
  ASSUME TypeOK, NEW t \in Threads, NEW x \in Pointers, WakeThenFinish(t, x)
  PROVE  /\ pc' \in [Threads -> Labels] /\ op' \in [Threads -> Ops]
         /\ expired' \in [Threads -> BOOLEAN]
         /\ wakes' \in [Threads -> Pointers]
         /\ \A u \in Threads : pc'[u] = "wake" => wakes'[u] # NULL
         /\ pc'[t] \in {"idle", "drop", "hook", "wake"}
         /\ \A u \in Threads : u # t => pc'[u] = pc[u]
<1>1. CASE x = NULL
  <2>1. Finish(t) /\ wakes' = wakes
    BY <1>1, Zenon DEF WakeThenFinish
  <2> QED
    BY <2>1, FinishType, Zenon DEF TypeOK
<1>2. CASE x # NULL
  BY <1>2, ZenonT(30) DEF WakeThenFinish, TypeOK, Goto, Labels
<1> QED
  BY <1>1, <1>2, Zenon

-----------------------------------------------------------------------------
(* Steps.                                                                  *)

(* What the invariant says of the endpoint.                                *)
LEMMA EndpointOK ==
  ASSUME IInv
  PROVE  ep \in Endpoints /\ LifeOK(ep) /\ ClaimOK(ep)
  BY Zenon DEF IInv, TypeOK, LifeCycle, LifeOK, ClaimExclusive, ClaimOK

(* A step of t that neither takes nor resolves a claim keeps the claims.   *)
LEMMA Frame ==
  ASSUME IInv, NEW t \in Threads,
         LifeOK(ep'), ClaimOK(ep'), ep'.claims = ep.claims,
         \A u \in Threads : u # t => pc'[u] = pc[u],
         pc[t] \notin ClaimLabels, pc'[t] \notin ClaimLabels
  PROVE  ClaimExclusive' /\ LifeCycle'
<1>1. \A u \in Threads : pc'[u] \in ClaimLabels <=> pc[u] \in ClaimLabels
  BY Zenon
<1>2. LifeCycle'
  BY Zenon DEF LifeCycle, LifeOK
<1>3. ClaimExclusive'
  BY <1>1 DEF IInv, ClaimExclusive, ClaimOK, ClaimLabels
<1> QED
  BY <1>2, <1>3, Zenon

(* A step of t that leaves the endpoint alone.                             *)
LEMMA FrameUnchanged ==
  ASSUME IInv, NEW t \in Threads, ep' = ep,
         \A u \in Threads : u # t => pc'[u] = pc[u],
         pc[t] \in ClaimLabels <=> pc'[t] \in ClaimLabels
  PROVE  ClaimExclusive' /\ LifeCycle'
<1>1. \A u \in Threads : pc'[u] \in ClaimLabels <=> pc[u] \in ClaimLabels
  BY Zenon
<1> QED
  BY <1>1 DEF IInv, ClaimExclusive, LifeCycle, ClaimLabels

(* A step of t that only moves on or returns keeps the invariant.          *)
LEMMA MoveKeeps ==
  ASSUME IInv, NEW t \in Threads,
         UNCHANGED <<ep, wq, cap, blocked, reason, armed, wakes>>,
         pc' \in [Threads -> Labels], op' \in [Threads -> Ops],
         expired' \in [Threads -> BOOLEAN],
         \A u \in Threads : u # t => pc'[u] = pc[u],
         pc'[t] # "wake", pc[t] \in ClaimLabels <=> pc'[t] \in ClaimLabels
  PROVE  IInv'
<1>1. ClaimExclusive' /\ LifeCycle'
  BY FrameUnchanged, Zenon
<1> QED
  BY <1>1, Zenon DEF IInv, TypeOK

-----------------------------------------------------------------------------
(* The lifetime of an endpoint slot.                                       *)

(* ipc_endpoint_create *)
LEMMA CreateKeeps ==
  ASSUME IInv, NEW t \in Threads, Create(t)
  PROVE  IInv'
<1>1. ep \in Endpoints /\ ep.gen \in Nat /\ LifeOK(ep) /\ ClaimOK(ep)
  BY EndpointOK, Zenon DEF Endpoints
<1>2. ~ep.inUse /\ ep.state = "FREE" /\ ep.claims = 0 /\ pc' = pc
  BY <1>1, Zenon DEF Create, LifeOK, ClaimOK
<1>3. cap' \in [Threads -> [Kinds -> Capabilities]]
  BY <1>1 DEF Create, IInv, TypeOK, Capabilities, Pointers
<1>4. wq' \in WaitQueues(Queues)
  BY QueueTypes, Zenon DEF Create, IInv, TypeOK, Queues, Pointers
<1>5. ep' \in Endpoints /\ LifeOK(ep') /\ ClaimOK(ep') /\ ep'.claims = 0
  <2>1. CASE ep' = [inUse |-> TRUE, state |-> "READY", gen |-> ep.gen + 1,
                    sendRefs |-> 1, recvRefs |-> 1, claims |-> 0,
                    hasMsg |-> 0, msg |-> NoMsg]
    BY <1>1, <2>1, NoMsgType DEF Endpoints, LifeOK, ClaimOK
  <2>2. ASSUME NEW bumps \in {1, 2},
               ep' = [ClearMsg(ep) EXCEPT !.gen = @ + bumps, !.sendRefs = 0,
                                          !.recvRefs = 0, !.claims = 0]
        PROVE  ep' \in Endpoints /\ LifeOK(ep') /\ ClaimOK(ep') /\ ep'.claims = 0
    <3> DEFINE c == ClearMsg(ep)
               g == [c EXCEPT !.gen = @ + bumps]
               h == [g EXCEPT !.sendRefs = 0]
               i == [h EXCEPT !.recvRefs = 0]
    <3>1. /\ c \in Endpoints /\ c.gen \in Nat /\ c.hasMsg = 0 /\ c.msg = NoMsg
          /\ ~c.inUse /\ c.state = "FREE"
      BY <1>1, <1>2, ClearMsgType, Zenon DEF Endpoints
    <3>2. ep' = [i EXCEPT !.claims = 0]
      BY <2>2, Zenon
    <3> HIDE DEF c
    <3>3. /\ g \in Endpoints /\ g.hasMsg = 0 /\ g.msg = NoMsg
          /\ ~g.inUse /\ g.state = "FREE"
      BY <3>1, EndpointFields DEF Endpoints
    <3> HIDE DEF g
    <3>4. /\ h \in Endpoints /\ h.hasMsg = 0 /\ h.msg = NoMsg
          /\ ~h.inUse /\ h.state = "FREE"
      BY <3>3, EndpointFields DEF Endpoints
    <3> HIDE DEF h
    <3>5. /\ i \in Endpoints /\ i.hasMsg = 0 /\ i.msg = NoMsg
          /\ ~i.inUse /\ i.state = "FREE"
      BY <3>4, EndpointFields DEF Endpoints
    <3> HIDE DEF i
    <3>6. /\ ep' \in Endpoints /\ ep'.hasMsg = 0 /\ ep'.msg = NoMsg
          /\ ~ep'.inUse /\ ep'.state = "FREE" /\ ep'.claims = 0
      BY <3>2, <3>5, EndpointFields DEF Endpoints
    <3> QED
      BY <3>6 DEF LifeOK, ClaimOK
  <2> QED
    BY <2>1, <2>2, Zenon DEF Create
<1>6. ClaimExclusive' /\ LifeCycle'
  <2>1. pc[t] \notin ClaimLabels
    BY Zenon DEF Create, ClaimLabels
  <2> QED
    BY <1>2, <1>5, <2>1, Frame
<1> QED
  BY <1>3, <1>4, <1>5, <1>6 DEF IInv, TypeOK, Create

(* cap_table_delegate_local *)
LEMMA DelegateKeeps ==
  ASSUME IInv, NEW t \in Threads, NEW u \in Threads, NEW k \in Kinds, Delegate(t, u, k)
  PROVE  IInv'
<1>1. cap[t][k] \in Capabilities /\ cap[t][k].ref \in Nat
  BY DEF IInv, TypeOK, Capabilities
<1>2. cap' \in [Threads -> [Kinds -> Capabilities]]
  <2>1. [ref |-> cap[t][k].ref, parent |-> t] \in Capabilities
    BY <1>1, Zenon DEF Capabilities, Pointers
  <2> QED
    BY <2>1, Zenon DEF Delegate, IInv, TypeOK
<1>3. op' \in [Threads -> Ops]
  <2>1. Simple("acquire", k, cap[t][k].ref, 1) \in Ops
    BY <1>1, SimpleType
  <2> QED
    BY <2>1, Zenon DEF Delegate, IInv, TypeOK
<1>4. /\ pc' \in [Threads -> Labels] /\ pc[t] = "idle" /\ pc'[t] = "hook"
      /\ \A v \in Threads : v # t => pc'[v] = pc[v]
  BY Zenon DEF Delegate, Goto, IInv, TypeOK, Labels
<1>5. ClaimExclusive' /\ LifeCycle'
  BY <1>4, FrameUnchanged DEF Delegate, ClaimLabels
<1> QED
  BY <1>2, <1>3, <1>4, <1>5 DEF IInv, TypeOK, Delegate

(* cap_table_revoke *)
LEMMA RevokeKeeps ==
  ASSUME IInv, NEW t \in Threads, NEW k \in Kinds, Revoke(t, k)
  PROVE  IInv'
<1>1. cap[t][k] \in Capabilities /\ cap[t][k].ref \in Nat
  BY DEF IInv, TypeOK, Capabilities
<1>2. cap' \in [Threads -> [Kinds -> Capabilities]]
  <2>1. NoCap \in Capabilities
    BY Zenon DEF NoCap, Capabilities, Pointers
  <2> DEFINE C(u) == [cap[u] EXCEPT ![k] = IF u \in Derived(t, k) THEN NoCap ELSE @]
  <2>2. \A u \in Threads : C(u) \in [Kinds -> Capabilities]
    BY <2>1 DEF IInv, TypeOK
  <2>3. cap' = [u \in Threads |-> C(u)]
    BY Zenon DEF Revoke
  <2> HIDE DEF C
  <2> QED
    BY <2>2, <2>3, Zenon
<1>3. Cardinality(Derived(t, k)) \in Nat
  <2>1. Derived(t, k) \subseteq Threads
    BY Zenon DEF Derived
  <2> QED
    BY <2>1, ThreadsAssumption, FS_Subset, FS_CardinalityType, Zenon
<1>4. op' \in [Threads -> Ops]
  <2>1. Simple("release", k, cap[t][k].ref, Cardinality(Derived(t, k))) \in Ops
    BY <1>1, <1>3, SimpleType, Zenon
  <2> QED
    BY <2>1, Zenon DEF Revoke, IInv, TypeOK
<1>5. /\ pc' \in [Threads -> Labels] /\ pc[t] \in {"idle", "drop"} /\ pc'[t] = "hook"
      /\ \A v \in Threads : v # t => pc'[v] = pc[v]
  BY Zenon DEF Revoke, Goto, IInv, TypeOK, Labels
<1>6. ClaimExclusive' /\ LifeCycle'
  BY <1>5, FrameUnchanged, Zenon DEF Revoke, ClaimLabels
<1> QED
  BY <1>2, <1>4, <1>5, <1>6 DEF IInv, TypeOK, Revoke

(* cap_invoke, when the capability to drop is gone.                        *)
LEMMA DropFailsKeeps ==
  ASSUME IInv, NEW t \in Threads, DropFails(t)
  PROVE  IInv'
<1>1. TypeOK /\ Return(t) /\ pc[t] = "drop"
  BY DEF DropFails, IInv
<1> QED
  BY <1>1, ReturnType, MoveKeeps, Zenon DEF DropFails, ClaimLabels

(* endpoint_by_ref in the reference hooks.                                 *)
LEMMA HookResolveKeeps ==
  ASSUME IInv, NEW t \in Threads, HookResolve(t)
  PROVE  IInv'
<1>1. TypeOK /\ pc[t] = "hook"
  BY Zenon DEF HookResolve, IInv
<1>2. CASE Goto(t, "hooklock") /\ UNCHANGED <<op, expired>>
  <2>1. /\ pc' \in [Threads -> Labels] /\ pc'[t] = "hooklock"
        /\ \A u \in Threads : u # t => pc'[u] = pc[u]
    BY <1>1, <1>2 DEF Goto, TypeOK, Labels
  <2>2. op' \in [Threads -> Ops] /\ expired' \in [Threads -> BOOLEAN]
    BY <1>1, <1>2 DEF TypeOK
  <2> QED
    BY <1>1, <2>1, <2>2, MoveKeeps DEF HookResolve, ClaimLabels
<1>3. CASE Finish(t)
  BY <1>1, <1>3, FinishType, MoveKeeps DEF HookResolve, ClaimLabels
<1> QED
  BY <1>2, <1>3 DEF HookResolve

(* The reference hooks change a count, and close at zero.                  *)
LEMMA AcquireKeeps ==
  ASSUME IInv, NEW t \in Threads, Acquire(t)
  PROVE  IInv'
<1>1. TypeOK /\ Return(t) /\ pc[t] = "hooklock"
  BY Zenon DEF Acquire, IInv
<1>2. ep \in Endpoints /\ LifeOK(ep) /\ ClaimOK(ep)
  BY EndpointOK, Zenon
<1>3. ep' \in Endpoints /\ LifeOK(ep') /\ ClaimOK(ep') /\ ep'.claims = ep.claims
  <2>1. CASE ep' = ep
    BY <1>2, <2>1
  <2>2. CASE ep' = [ep EXCEPT !.sendRefs = @ + 1]
    BY <1>2, <2>2 DEF Endpoints, LifeOK, ClaimOK
  <2>3. CASE ep' = [ep EXCEPT !.recvRefs = @ + 1]
    BY <1>2, <2>3 DEF Endpoints, LifeOK, ClaimOK
  <2> QED
    BY <2>1, <2>2, <2>3, Zenon DEF Acquire
<1>4. ClaimExclusive' /\ LifeCycle'
  BY <1>1, <1>3, ReturnType, Frame, Zenon DEF ClaimLabels
<1> QED
  BY <1>1, <1>3, <1>4, ReturnType DEF IInv, TypeOK, Acquire

(* ipc_endpoint_release_send_cap: its close of a READY endpoint with no    *)
(* reference left is never reached.                                        *)
LEMMA ReleaseSendKeeps ==
  ASSUME IInv, NEW t \in Threads, ReleaseSend(t)
  PROVE  IInv'
<1>1. TypeOK /\ Finish(t) /\ pc[t] = "hooklock"
  BY DEF ReleaseSend, IInv
<1>2. ep \in Endpoints /\ LifeOK(ep) /\ ClaimOK(ep)
  BY EndpointOK, Zenon
<1> DEFINE e == [ep EXCEPT !.sendRefs = Dec(@)]
<1>3. e \in Endpoints /\ LifeOK(e) /\ ClaimOK(e) /\ e.claims = ep.claims
  <2>1. Dec(ep.sendRefs) \in Nat
    BY <1>2 DEF Dec, Endpoints
  <2>2. e \in Endpoints
    BY <1>2, <2>1, Zenon DEF Endpoints
  <2> QED
    BY <1>2, <2>2 DEF Endpoints, LifeOK, ClaimOK
<1>4. ~(e.sendRefs = 0 /\ e.recvRefs = 0 /\ e.state = "READY")
  BY <1>3 DEF LifeOK
<1>5. ep' = TryReclaim(e, wq)
  BY <1>4, Zenon DEF ReleaseSend
<1> HIDE DEF e
<1>6. ep' \in Endpoints /\ LifeOK(ep') /\ ClaimOK(ep') /\ ep'.claims = ep.claims
  BY <1>3, <1>5, TryReclaimKeeps, Zenon
<1>7. ClaimExclusive' /\ LifeCycle'
  BY <1>1, <1>6, FinishType, Frame, Zenon DEF ClaimLabels
<1> QED
  BY <1>1, <1>6, <1>7, FinishType DEF IInv, TypeOK, ReleaseSend

(* Closing and waking every waiter, with the references already adjusted.  *)
LEMMA CloseAndWakeKeeps ==
  ASSUME IInv, NEW t \in Threads, NEW e \in Endpoints,
         pc[t] \notin ClaimLabels, UNCHANGED <<cap, blocked>>,
         e.inUse, ClaimOK(e), e.hasMsg = 0 <=> e.msg = NoMsg, e.claims = ep.claims,
         CloseAndWake(t, e)
  PROVE  IInv'
<1> USE DEF IInv
<1>1. PICK s \in Lists, r \in Lists :
         LET w == Drain(wq, "senders", s, NULL)
             top == DrainTop(s, NULL)
             gone == {s[i] : i \in 1 .. Len(s)} \cup {r[i] : i \in 1 .. Len(r)}
         IN  /\ wq' = Drain(w, "receivers", r, top)
             /\ ep' = TryReclaim(Closed(e), wq')
             /\ reason' = [u \in Threads |-> IF u \in gone THEN "CLOSED" ELSE reason[u]]
             /\ armed' = [u \in Threads |-> armed[u] /\ u \notin gone]
             /\ WakeThenFinish(t, DrainTop(r, top))
  BY DEF CloseAndWake
<1> DEFINE w == Drain(wq, "senders", s, NULL)
           top == DrainTop(s, NULL)
<1>2. w \in WaitQueues(Queues) /\ top \in Pointers
  BY DrainType DEF TypeOK, Queues, Pointers
<1>3. wq' \in WaitQueues(Queues) /\ DrainTop(r, top) \in Pointers
  <2> HIDE DEF w, top
  <2>1. "receivers" \in Queues
    BY DEF Queues
  <2>2. wq' = Drain(w, "receivers", r, top)
    BY <1>1 DEF w, top
  <2> QED
    BY <1>2, <2>1, <2>2, DrainType
<1>4. ep' \in Endpoints /\ LifeOK(ep') /\ ClaimOK(ep') /\ ep'.claims = ep.claims
  BY <1>1, ClosedKeeps, TryReclaimKeeps, ZenonT(30)
<1>5. reason' \in [Threads -> Reasons] /\ armed' \in [Threads -> BOOLEAN]
  BY <1>1, Zenon DEF TypeOK, Reasons
<1>6. WakeThenFinish(t, DrainTop(r, top))
  BY <1>1, Zenon
<1> HIDE DEF top
<1>7. /\ pc' \in [Threads -> Labels] /\ op' \in [Threads -> Ops]
      /\ expired' \in [Threads -> BOOLEAN]
      /\ wakes' \in [Threads -> Pointers]
      /\ \A u \in Threads : pc'[u] = "wake" => wakes'[u] # NULL
      /\ pc'[t] \in {"idle", "drop", "hook", "wake"}
      /\ \A u \in Threads : u # t => pc'[u] = pc[u]
  BY <1>3, <1>6, WakeThenFinishType
<1>8. ClaimExclusive' /\ LifeCycle'
  BY <1>4, <1>7, Frame DEF ClaimLabels
<1> QED
  BY <1>3, <1>4, <1>5, <1>7, <1>8, SMTT(30) DEF TypeOK

(* ipc_endpoint_release_recv_cap *)
LEMMA ReleaseRecvKeeps ==
  ASSUME IInv, NEW t \in Threads, ReleaseRecv(t)
  PROVE  IInv'
<1>1. TypeOK /\ pc[t] = "hooklock" /\ UNCHANGED <<cap, blocked>>
  BY DEF ReleaseRecv, IInv
<1>2. ep \in Endpoints /\ LifeOK(ep) /\ ClaimOK(ep)
  BY EndpointOK, Zenon
<1> DEFINE e == [ep EXCEPT !.recvRefs = Dec(@)]
<1>3. Dec(ep.recvRefs) \in Nat
  BY <1>2 DEF Dec, Endpoints
<1>4. /\ e \in Endpoints /\ ClaimOK(e) /\ e.claims = ep.claims
      /\ e.state = ep.state /\ e.inUse = ep.inUse /\ e.hasMsg = ep.hasMsg /\ e.msg = ep.msg
  BY <1>2, <1>3, Zenon DEF Endpoints, ClaimOK
<1>5. CASE e.recvRefs = 0 /\ e.state = "READY"
  <2>1. CloseAndWake(t, e)
    BY <1>5, Zenon DEF ReleaseRecv
  <2>2. e.inUse /\ (e.hasMsg = 0 <=> e.msg = NoMsg)
    BY <1>2, <1>4, <1>5, ZenonT(30) DEF LifeOK
  <2> HIDE DEF e
  <2> QED
    BY <1>1, <1>4, <2>1, <2>2, CloseAndWakeKeeps, Zenon DEF ClaimLabels
<1>6. CASE ~(e.recvRefs = 0 /\ e.state = "READY")
  <2>1. /\ ep' = TryReclaim(e, wq) /\ Finish(t) /\ UNCHANGED <<wq, reason, armed, wakes>>
    BY <1>6 DEF ReleaseRecv
  <2>2. LifeOK(e)
    <3>1. e.recvRefs \in Nat
      BY <1>4, ZenonT(30) DEF Endpoints
    <3> QED
      BY <1>2, <1>4, <1>6, <3>1 DEF LifeOK
  <2> HIDE DEF e
  <2>3. ep' \in Endpoints /\ LifeOK(ep') /\ ClaimOK(ep') /\ ep'.claims = ep.claims
    BY <1>4, <2>1, <2>2, TryReclaimKeeps, ZenonT(30)
  <2>4. ClaimExclusive' /\ LifeCycle'
    BY <1>1, <2>1, <2>3, FinishType, Frame, SMTT(30) DEF ClaimLabels
  <2> QED
    BY <1>1, <2>1, <2>3, <2>4, FinishType, SMTT(30) DEF IInv, TypeOK
<1> QED
  BY <1>5, <1>6

(* ipc_endpoint_owner_close *)
LEMMA OwnerCloseKeeps ==
  ASSUME IInv, NEW t \in Threads, OwnerClose(t)
  PROVE  IInv'
<1>1. TypeOK /\ pc[t] = "idle" /\ cap[t]["receive"].ref \in Nat
  BY DEF OwnerClose, IInv, TypeOK, Capabilities, Kinds
<1>2. Simple("close", "receive", cap[t]["receive"].ref, 0) \in Ops
  BY <1>1, SimpleType, Zenon DEF Kinds
<1>3. op' \in [Threads -> Ops] /\ expired' \in [Threads -> BOOLEAN]
  BY <1>1, <1>2, Zenon DEF OwnerClose, TypeOK
<1>4. /\ pc' \in [Threads -> Labels] /\ pc'[t] \in {"lock", "drop"}
      /\ \A u \in Threads : u # t => pc'[u] = pc[u]
  BY <1>1, Zenon DEF OwnerClose, Goto, TypeOK, Labels
<1> QED
  BY <1>1, <1>3, <1>4, MoveKeeps, ZenonT(30) DEF OwnerClose, ClaimLabels

(* The locked part of ipc_endpoint_owner_close.                            *)
LEMMA OwnerCloseLockedKeeps ==
  ASSUME IInv, NEW t \in Threads, OwnerCloseLocked(t)
  PROVE  IInv'
<1>1. TypeOK /\ pc[t] = "lock" /\ UNCHANGED <<cap, blocked>>
  BY DEF OwnerCloseLocked, IInv
<1>2. ep \in Endpoints /\ LifeOK(ep) /\ ClaimOK(ep)
  BY EndpointOK, Zenon
<1>3. CASE ep.state = "READY"
  <2>1. CloseAndWake(t, ep) /\ ep.inUse /\ (ep.hasMsg = 0 <=> ep.msg = NoMsg)
    BY <1>2, <1>3, ZenonT(30) DEF OwnerCloseLocked, LifeOK
  <2> QED
    BY <1>1, <1>2, <2>1, CloseAndWakeKeeps DEF ClaimLabels
<1>4. CASE ep.state # "READY"
  <2>1. /\ ep' = TryReclaim(ep, wq) /\ Finish(t) /\ UNCHANGED <<wq, reason, armed, wakes>>
    BY <1>4 DEF OwnerCloseLocked
  <2>2. ep' \in Endpoints /\ LifeOK(ep') /\ ClaimOK(ep') /\ ep'.claims = ep.claims
    BY <1>2, <2>1, TryReclaimKeeps
  <2>3. ClaimExclusive' /\ LifeCycle'
    BY <1>1, <2>1, <2>2, FinishType, Frame DEF ClaimLabels
  <2> QED
    BY <1>1, <2>1, <2>2, <2>3, FinishType, ZenonT(30) DEF IInv, TypeOK
<1> QED
  BY <1>3, <1>4, Zenon

(* ipc_endpoint_cancel_waiter *)
LEMMA CancelKeeps ==
  ASSUME IInv, NEW t \in Threads, NEW u \in Threads, Cancel(t, u)
  PROVE  IInv'
<1>1. TypeOK /\ pc[t] = "idle" /\ UNCHANGED <<cap, blocked>>
  BY DEF Cancel, IInv
<1>2. ep \in Endpoints /\ LifeOK(ep) /\ ClaimOK(ep)
  BY EndpointOK, ZenonT(30)
<1>3. PICK s \in Lists, r \in Lists :
         LET Found(p) == \E i \in 1 .. Len(p) : p[i] = u
         IN  /\ wq' = IF Found(s) THEN Remove(wq, "senders", s, u)
                      ELSE Remove(wq, "receivers", r, u)
             /\ ep' = TryReclaim(ep, wq')
             /\ IF Found(s) \/ Found(r)
                THEN /\ reason' = [reason EXCEPT ![u] = "CANCELLED"]
                     /\ armed' = [armed EXCEPT ![u] = FALSE]
                     /\ Goto(t, "wake")
                     /\ wakes' = [wakes EXCEPT ![t] = u]
                     /\ op' = [op EXCEPT ![t] = Simple("cancel", "send", 0, 0)]
                     /\ UNCHANGED expired
                ELSE Return(t) /\ UNCHANGED <<reason, armed, wakes>>
  BY DEF Cancel, Chain
<1>4. wq' \in WaitQueues(Queues)
  <2>1. Remove(wq, "senders", s, u) \in WaitQueues(Queues)
    BY <1>1, RemoveType DEF TypeOK, Queues
  <2>2. Remove(wq, "receivers", r, u) \in WaitQueues(Queues)
    BY <1>1, RemoveType DEF TypeOK, Queues
  <2> QED
    BY <1>3, <2>1, <2>2, Zenon
<1>5. ep' \in Endpoints /\ LifeOK(ep') /\ ClaimOK(ep') /\ ep'.claims = ep.claims
  BY <1>2, <1>3, TryReclaimKeeps, ZenonT(30)
<1>6. CASE /\ reason' = [reason EXCEPT ![u] = "CANCELLED"]
           /\ armed' = [armed EXCEPT ![u] = FALSE]
           /\ Goto(t, "wake")
           /\ wakes' = [wakes EXCEPT ![t] = u]
           /\ op' = [op EXCEPT ![t] = Simple("cancel", "send", 0, 0)]
           /\ UNCHANGED expired
  <2>1. Simple("cancel", "send", 0, 0) \in Ops
    BY SimpleType DEF Kinds
  <2>2. op' \in [Threads -> Ops]
    BY <1>1, <1>6, <2>1 DEF TypeOK
  <2>3. reason' \in [Threads -> Reasons] /\ armed' \in [Threads -> BOOLEAN]
    BY <1>1, <1>6 DEF TypeOK, Reasons
  <2>4. /\ pc' \in [Threads -> Labels] /\ pc'[t] = "wake"
        /\ \A v \in Threads : v # t => pc'[v] = pc[v]
    BY <1>1, <1>6 DEF TypeOK, Goto, Labels
  <2>5. /\ wakes' \in [Threads -> Pointers]
        /\ \A v \in Threads : pc'[v] = "wake" => wakes'[v] # NULL
    BY <1>1, <1>6, <2>4, ThreadsAssumption, SMTT(30) DEF TypeOK, Pointers
  <2>6. ClaimExclusive' /\ LifeCycle'
    BY <1>1, <1>5, <2>4, Frame DEF ClaimLabels
  <2> QED
    BY <1>1, <1>4, <1>5, <1>6, <2>2, <2>3, <2>4, <2>5, <2>6, SMTT(30) DEF IInv, TypeOK
<1>7. CASE Return(t) /\ UNCHANGED <<reason, armed, wakes>>
  <2>1. ClaimExclusive' /\ LifeCycle'
    BY <1>1, <1>5, <1>7, ReturnType, Frame DEF ClaimLabels
  <2> QED
    BY <1>1, <1>4, <1>5, <1>7, <2>1, ReturnType, ZenonT(30) DEF IInv, TypeOK
<1> QED
  BY <1>3, <1>6, <1>7, ZenonT(30)

(* The entry and the check of a send or a receive.                         *)
LEMMA StartKeeps ==
  ASSUME IInv, NEW t \in Threads, StartSend(t) \/ StartReceive(t)
  PROVE  IInv'
<1>1. PICK k \in Kinds, d \in {"zero", "finite", "never"}, f \in BOOLEAN, n \in 0 .. 2 :
         Start(t, k, d, f, n)
  <2>1. CASE StartSend(t)
    <3>1. PICK m \in MsgKinds, d \in Timeouts : Start(t, "send", d, m.long, m.slots)
      BY <2>1, Zenon DEF StartSend
    <3>2. m.long \in BOOLEAN /\ m.slots \in 0 .. 2 /\ d \in {"zero", "finite", "never"}
      BY IpcAssumption, Zenon
    <3> QED
      BY <3>1, <3>2, Zenon DEF Kinds
  <2>2. CASE StartReceive(t)
    <3>1. PICK r \in RecvKinds, d \in Timeouts : Start(t, "receive", d, r.small, r.slots)
      BY <2>2, Zenon DEF StartReceive
    <3>2. r.small \in BOOLEAN /\ r.slots \in 0 .. 2 /\ d \in {"zero", "finite", "never"}
      BY IpcAssumption, Zenon
    <3> QED
      BY <3>1, <3>2, Zenon DEF Kinds
  <2> QED
    BY <2>1, <2>2, Zenon
<1>2. TypeOK /\ pc[t] = "idle" /\ cap[t][k].ref \in Nat
  BY <1>1, Zenon DEF Start, IInv, TypeOK, Capabilities
<1>3. CASE Resolves(cap[t][k].ref)
  <2>1. Operation(k, k, cap[t][k].ref, d, f, n, 0) \in Ops
    BY <1>2, OperationType, Zenon
  <2>2. op' \in [Threads -> Ops] /\ expired' \in [Threads -> BOOLEAN]
    BY <1>1, <1>2, <1>3, <2>1, Zenon DEF Start, TypeOK
  <2>3. /\ pc' \in [Threads -> Labels] /\ pc'[t] = "check"
        /\ \A u \in Threads : u # t => pc'[u] = pc[u]
    BY <1>1, <1>2, <1>3 DEF Start, Goto, TypeOK, Labels
  <2> QED
    BY <1>1, <1>2, <2>2, <2>3, MoveKeeps, Zenon DEF Start, ClaimLabels
<1>4. CASE ~Resolves(cap[t][k].ref)
  <2>1. Return(t)
    BY <1>1, <1>4, Zenon DEF Start
  <2> QED
    BY <1>1, <1>2, <2>1, ReturnType, MoveKeeps, Zenon DEF Start, ClaimLabels
<1> QED
  BY <1>3, <1>4, Zenon

(* The capability check before the endpoint lock.                          *)
LEMMA CheckKeeps ==
  ASSUME IInv, NEW t \in Threads, Check(t)
  PROVE  IInv'
<1>1. TypeOK /\ pc[t] = "check"
  BY Zenon DEF Check, IInv
<1>2. CASE Goto(t, "lock") /\ UNCHANGED <<op, expired>>
  <2>1. /\ pc' \in [Threads -> Labels] /\ pc'[t] = "lock"
        /\ \A u \in Threads : u # t => pc'[u] = pc[u]
    BY <1>1, <1>2, Zenon DEF Goto, TypeOK, Labels
  <2>2. op' \in [Threads -> Ops] /\ expired' \in [Threads -> BOOLEAN]
    BY <1>1, <1>2, Zenon DEF TypeOK
  <2> QED
    BY <1>1, <2>1, <2>2, MoveKeeps, Zenon DEF Check, ClaimLabels
<1>3. CASE Return(t)
  BY <1>1, <1>3, ReturnType, MoveKeeps, Zenon DEF Check, ClaimLabels
<1> QED
  BY <1>2, <1>3, Zenon DEF Check

(* Giving up or joining a wait queue leaves the endpoint alone.            *)
LEMMA WaitKeeps ==
  ASSUME IInv, NEW t \in Threads, pc[t] = "lock", op[t].kind \in Kinds,
         WaitOrGiveUp(t), UNCHANGED <<ep, cap, blocked, wakes>>
  PROVE  IInv'
<1>1. TypeOK
  BY Zenon DEF IInv
<1>2. CASE Return(t) /\ UNCHANGED <<wq, reason, armed>>
  BY <1>1, <1>2, ReturnType, MoveKeeps, Zenon DEF ClaimLabels
<1>3. CASE /\ reason' = [reason EXCEPT ![t] = "OK"]
           /\ armed' = [armed EXCEPT ![t] = op[t].timeout = "finite"]
           /\ wq' = Enqueue(wq, QueueOf(op[t].kind), t)
           /\ Goto(t, "block")
           /\ UNCHANGED <<op, expired>>
  <2>1. wq' \in WaitQueues(Queues)
    <3>1. QueueOf(op[t].kind) \in Queues /\ NULL \in Pointers
      BY Zenon DEF QueueOf, Queues, Pointers
    <3> QED
      BY <1>1, <1>3, <3>1, QueueTypes, Zenon DEF TypeOK
  <2>2. reason' \in [Threads -> Reasons] /\ armed' \in [Threads -> BOOLEAN]
    BY <1>1, <1>3, Zenon DEF TypeOK, Reasons
  <2>3. /\ pc' \in [Threads -> Labels] /\ pc'[t] = "block"
        /\ \A u \in Threads : u # t => pc'[u] = pc[u]
    BY <1>1, <1>3, Zenon DEF TypeOK, Goto, Labels
  <2>4. ClaimExclusive' /\ LifeCycle'
    BY <2>3, FrameUnchanged, Zenon DEF ClaimLabels
  <2> QED
    BY <1>1, <1>3, <2>1, <2>2, <2>3, <2>4, Zenon DEF IInv, TypeOK
<1> QED
  BY <1>2, <1>3, Zenon DEF WaitOrGiveUp

(* Waking the first BLOCKED thread of a queue.                             *)
LEMMA WakeOneType ==
  ASSUME IInv, NEW t \in Threads, NEW q \in Queues,
         \E p \in Chain(wq, q), x \in Pointers :
            /\ IsFirstBlocked(p, blocked, x)
            /\ wq' = Dequeue(wq, q, x)
            /\ WakeThenFinish(t, x)
  PROVE  /\ wq' \in WaitQueues(Queues)
         /\ pc' \in [Threads -> Labels] /\ op' \in [Threads -> Ops]
         /\ expired' \in [Threads -> BOOLEAN]
         /\ wakes' \in [Threads -> Pointers]
         /\ \A u \in Threads : pc'[u] = "wake" => wakes'[u] # NULL
         /\ pc'[t] \in {"idle", "drop", "hook", "wake"}
         /\ \A u \in Threads : u # t => pc'[u] = pc[u]
<1>1. PICK x \in Pointers : wq' = Dequeue(wq, q, x) /\ WakeThenFinish(t, x)
  BY Zenon
<1>2. TypeOK
  BY Zenon DEF IInv
<1>3. wq' \in WaitQueues(Queues)
  BY <1>1, <1>2, QueueTypes, Zenon DEF TypeOK
<1> QED
  BY <1>1, <1>2, <1>3, WakeThenFinishType, Zenon

(* The locked part of ipc_endpoint_send_ex *)
LEMMA SendLockedKeeps ==
  ASSUME IInv, NEW t \in Threads, SendLocked(t)
  PROVE  IInv'
<1>1. /\ TypeOK /\ pc[t] = "lock" /\ op[t].kind \in Kinds /\ op[t] \in Ops
      /\ UNCHANGED <<cap, blocked>>
  BY Zenon DEF SendLocked, IInv, TypeOK, Kinds
<1>2. CASE GiveUpClosed(t)
  BY <1>1, <1>2, ReturnType, MoveKeeps, Zenon DEF GiveUpClosed, ClaimLabels
<1>3. CASE ~Room /\ WaitOrGiveUp(t) /\ UNCHANGED <<ep, wakes>>
  BY <1>1, <1>3, WaitKeeps, Zenon
<1> DEFINE m == [from |-> t, ref |-> op[t].ref, long |-> op[t].flag, slots |-> op[t].slots]
<1>4. CASE /\ ep.state = "READY" /\ Room
           /\ ep' = [ep EXCEPT !.hasMsg = 1, !.msg = m]
           /\ \E p \in Chain(wq, "receivers"), x \in Pointers :
                 /\ IsFirstBlocked(p, blocked, x)
                 /\ wq' = Dequeue(wq, "receivers", x)
                 /\ WakeThenFinish(t, x)
           /\ UNCHANGED <<reason, armed>>
  <2>1. ep \in Endpoints /\ LifeOK(ep) /\ ClaimOK(ep) /\ ep.hasMsg = 0
    BY <1>4, EndpointOK, Zenon DEF Room
  <2>2. m \in Messages /\ m # NoMsg
    BY <1>1, ThreadsAssumption, Zenon DEF Ops, Messages, Pointers, NoMsg
  <2> HIDE DEF m
  <2>3. ep' \in Endpoints
    <3>1. \A n \in 0 .. 2, mm \in Messages :
             [ep EXCEPT !.hasMsg = n, !.msg = mm] \in Endpoints
      BY <2>1, SetMsgType, Zenon
    <3>2. 1 \in 0 .. 2
      OBVIOUS
    <3>3. [ep EXCEPT !.hasMsg = 1, !.msg = m] \in Endpoints
      BY <2>2, <3>1, <3>2, Zenon
    <3> QED
      BY <1>4, <3>3, Zenon
  <2>4. /\ ep'.hasMsg = 1 /\ ep'.msg = m /\ ep'.state = ep.state /\ ep'.inUse = ep.inUse
        /\ ep'.claims = ep.claims /\ ep'.recvRefs = ep.recvRefs
    BY <1>4, <2>1, Zenon DEF Endpoints
  <2>5. LifeOK(ep') /\ ClaimOK(ep')
    BY <1>4, <2>1, <2>2, <2>4 DEF LifeOK, ClaimOK
  <2>6. "receivers" \in Queues
    BY Zenon DEF Queues
  <2>7. /\ wq' \in WaitQueues(Queues)
        /\ pc' \in [Threads -> Labels] /\ op' \in [Threads -> Ops]
        /\ expired' \in [Threads -> BOOLEAN]
        /\ wakes' \in [Threads -> Pointers]
        /\ \A u \in Threads : pc'[u] = "wake" => wakes'[u] # NULL
        /\ pc'[t] \in {"idle", "drop", "hook", "wake"}
        /\ \A u \in Threads : u # t => pc'[u] = pc[u]
    BY <1>4, <2>6, WakeOneType, Zenon
  <2>8. ClaimExclusive' /\ LifeCycle'
    BY <1>1, <2>4, <2>5, <2>7, Frame, Zenon DEF ClaimLabels
  <2> QED
    BY <1>1, <1>4, <2>3, <2>7, <2>8, Zenon DEF IInv, TypeOK
<1> QED
  BY <1>2, <1>3, <1>4, Zenon DEF SendLocked

(* The first locked part of a receive: here a claim is taken.              *)
LEMMA ReceiveLockedKeeps ==
  ASSUME IInv, NEW t \in Threads, ReceiveLocked(t)
  PROVE  IInv'
<1>1. /\ TypeOK /\ pc[t] = "lock" /\ op[t].kind \in Kinds
      /\ UNCHANGED <<cap, blocked>>
  BY Zenon DEF ReceiveLocked, IInv, Kinds
<1>2. CASE GiveUpClosed(t)
  BY <1>1, <1>2, ReturnType, MoveKeeps, Zenon DEF GiveUpClosed, ClaimLabels
<1>3. CASE WaitOrGiveUp(t) /\ UNCHANGED <<ep, wakes>>
  BY <1>1, <1>3, WaitKeeps, Zenon
<1>4. CASE Return(t) /\ UNCHANGED <<ep, wq, reason, armed, wakes>>
  BY <1>1, <1>4, ReturnType, MoveKeeps, Zenon DEF ClaimLabels
<1>5. CASE /\ ep.state = "READY" /\ ep.hasMsg = 1
           /\ ep' = [ep EXCEPT !.hasMsg = 2, !.claims = @ + 1]
           /\ Goto(t, "claimed")
           /\ UNCHANGED <<op, expired, wq, reason, armed, wakes>>
  <2>1. ep \in Endpoints /\ LifeOK(ep) /\ ClaimOK(ep) /\ ep.claims = 0 /\ ep.inUse
    BY <1>5, EndpointOK DEF ClaimOK, LifeOK
  <2>2. ep' \in Endpoints
    <3> DEFINE h == [ep EXCEPT !.hasMsg = 2]
    <3>1. h \in Endpoints /\ h.claims = 0
      BY <2>1 DEF Endpoints
    <3>2. ep' = [h EXCEPT !.claims = @ + 1]
      BY <1>5, Zenon
    <3> HIDE DEF h
    <3> QED
      BY <3>1, <3>2 DEF Endpoints
  <2>3. /\ ep'.hasMsg = 2 /\ ep'.claims = 1 /\ ep'.inUse /\ ep'.state = ep.state
        /\ ep'.msg = ep.msg /\ ep'.recvRefs = ep.recvRefs
    BY <1>5, <2>1 DEF Endpoints
  <2>4. /\ pc' \in [Threads -> Labels] /\ pc'[t] = "claimed"
        /\ \A u \in Threads : u # t => pc'[u] = pc[u]
    BY <1>1, <1>5, Zenon DEF TypeOK, Goto, Labels
  <2>5. \A u \in Threads : pc[u] \notin ClaimLabels
    BY <2>1 DEF IInv, ClaimExclusive, ClaimLabels
  <2>6. \A u \in Threads : pc'[u] \in ClaimLabels <=> u = t
    BY <2>4, <2>5, Zenon DEF ClaimLabels
  <2>7. ClaimExclusive'
    BY <2>3, <2>6, Zenon DEF ClaimExclusive, ClaimLabels
  <2>8. LifeCycle'
    BY <1>5, <2>1, <2>3 DEF LifeCycle, LifeOK
  <2> QED
    BY <1>1, <1>5, <2>2, <2>4, <2>7, <2>8, Zenon DEF IInv, TypeOK
<1> QED
  BY <1>2, <1>3, <1>4, <1>5, Zenon DEF ReceiveLocked

(* sched_block, and the way back from it.                                  *)
LEMMA BlockKeeps ==
  ASSUME IInv, NEW t \in Threads, Block(t)
  PROVE  IInv'
<1>1. /\ pc' \in [Threads -> Labels] /\ pc[t] = "block" /\ pc'[t] = "asleep"
      /\ \A u \in Threads : u # t => pc'[u] = pc[u]
  BY Zenon DEF Block, Goto, IInv, TypeOK, Labels
<1>2. ClaimExclusive' /\ LifeCycle'
  BY <1>1, FrameUnchanged, Zenon DEF Block, ClaimLabels
<1> QED
  BY <1>1, <1>2, Zenon DEF IInv, TypeOK, Block

(* The return from sched_block.                                            *)
LEMMA AwakeKeeps ==
  ASSUME IInv, NEW t \in Threads, Awake(t)
  PROVE  IInv'
<1>1. TypeOK /\ pc[t] = "asleep" /\ UNCHANGED <<cap, blocked, reason, armed, wakes>>
  BY Zenon DEF Awake, IInv
<1>2. CASE Goto(t, "check") /\ UNCHANGED <<ep, wq, op, expired>>
  <2>1. /\ pc' \in [Threads -> Labels] /\ pc'[t] = "check"
        /\ \A u \in Threads : u # t => pc'[u] = pc[u]
    BY <1>1, <1>2, Zenon DEF Goto, TypeOK, Labels
  <2>2. op' \in [Threads -> Ops] /\ expired' \in [Threads -> BOOLEAN]
    BY <1>1, <1>2, Zenon DEF TypeOK
  <2> QED
    BY <1>1, <1>2, <2>1, <2>2, MoveKeeps, Zenon DEF ClaimLabels
<1>3. ASSUME NEW p \in Lists, wq' = Remove(wq, QueueOf(op[t].kind), p, t),
             ep' = TryReclaim(ep, wq'), Return(t)
      PROVE  IInv'
  <2>1. ep \in Endpoints /\ LifeOK(ep) /\ ClaimOK(ep)
    BY EndpointOK, Zenon
  <2>2. ep' \in Endpoints /\ LifeOK(ep') /\ ClaimOK(ep') /\ ep'.claims = ep.claims
    BY <1>3, <2>1, TryReclaimKeeps, Zenon
  <2>3. wq' \in WaitQueues(Queues)
    <3>1. QueueOf(op[t].kind) \in Queues
      BY Zenon DEF QueueOf, Queues
    <3> QED
      BY <1>1, <1>3, <3>1, RemoveType, Zenon DEF TypeOK
  <2>4. ClaimExclusive' /\ LifeCycle'
    BY <1>1, <1>3, <2>2, ReturnType, Frame, Zenon DEF ClaimLabels
  <2> QED
    BY <1>1, <1>3, <2>2, <2>3, <2>4, ReturnType, Zenon DEF IInv, TypeOK
<1> QED
  BY <1>2, <1>3, Zenon DEF Awake, Chain

(* Installing the capabilities of a claimed message keeps the claim.       *)
LEMMA InstallKeeps ==
  ASSUME IInv, NEW t \in Threads, Install(t)
  PROVE  IInv'
<1>1. TypeOK /\ pc[t] = "claimed" /\ op[t] \in Ops
  BY Zenon DEF Install, IInv, TypeOK
<1> DEFINE n == IF ep.msg.slots < op[t].slots THEN ep.msg.slots ELSE op[t].slots
<1>2. n \in 0 .. 2
  BY <1>1, Zenon DEF TypeOK, Endpoints, Messages, Ops
<1>3. ASSUME NEW i \in 0 .. 2, NEW r \in {"OK", "NO_RESOURCES", "STALE"}, Installed(t, i, r)
      PROVE  op' \in [Threads -> Ops]
  <2> DEFINE o == [op EXCEPT ![t].installed = i]
  <2>1. [op[t] EXCEPT !.installed = i] \in Ops
    BY <1>1, Zenon DEF Ops
  <2>2. o \in [Threads -> Ops]
    BY <1>1, <2>1, Zenon DEF TypeOK
  <2> HIDE DEF o
  <2>3. o[t] \in Ops
    BY <2>2, Zenon
  <2>4. [o[t] EXCEPT !.result = r] \in Ops
    BY <2>3, Zenon DEF Ops
  <2>5. [o EXCEPT ![t].result = r] \in [Threads -> Ops]
    BY <2>2, <2>4, Zenon
  <2> QED
    BY <1>3, <2>5, Zenon DEF o, Installed
<1>4. op' \in [Threads -> Ops]
  <2>1. 0 \in 0 .. 2
    OBVIOUS
  <2> HIDE DEF n
  <2> QED
    BY <1>2, <1>3, <2>1, Zenon DEF Install, n
<1>5. /\ pc' \in [Threads -> Labels] /\ pc'[t] = "commit"
      /\ \A u \in Threads : u # t => pc'[u] = pc[u]
  BY <1>1, Zenon DEF Install, Goto, TypeOK, Labels
<1>6. expired' \in [Threads -> BOOLEAN]
  BY <1>1, Zenon DEF Install, TypeOK
<1> QED
  BY <1>1, <1>4, <1>5, <1>6, MoveKeeps, Zenon DEF Install, ClaimLabels

(* The second locked part of a receive: here the claim is resolved.        *)
LEMMA CommitKeeps ==
  ASSUME IInv, NEW t \in Threads, Commit(t)
  PROVE  IInv'
<1>1. TypeOK /\ pc[t] = "commit" /\ UNCHANGED <<cap, blocked, reason, armed>>
  BY Zenon DEF Commit, IInv
<1>2. /\ ep \in Endpoints /\ LifeOK(ep) /\ ClaimOK(ep)
      /\ ep.claims = 1 /\ ep.hasMsg = 2 /\ ep.inUse
  BY <1>1, EndpointOK, Zenon DEF IInv, ClaimExclusive
<1>3. \A u \in Threads : u # t => pc[u] \notin ClaimLabels
  BY <1>1, Zenon DEF IInv, ClaimExclusive, ClaimLabels
<1> DEFINE e == [ep EXCEPT !.claims = Dec(@)]
<1>4. /\ e \in Endpoints /\ e.claims = 0 /\ e.inUse /\ e.state = ep.state
      /\ e.hasMsg = 2 /\ e.msg = ep.msg /\ e.recvRefs = ep.recvRefs
  BY <1>2 DEF Dec, Endpoints
<1>5. ClearMsg(e) \in Endpoints /\ LifeOK(ClearMsg(e)) /\ ClaimOK(ClearMsg(e))
      /\ ClearMsg(e).claims = 0
  <2> HIDE DEF e
  <2> QED
    BY <1>2, <1>4, ClearMsgType DEF LifeOK, ClaimOK
<1>6. ASSUME ep' \in Endpoints, LifeOK(ep'), ClaimOK(ep'), ep'.claims = 0,
             pc'[t] \notin ClaimLabels,
             \A u \in Threads : u # t => pc'[u] = pc[u]
      PROVE  ClaimExclusive' /\ LifeCycle'
  <2>1. \A u \in Threads : pc'[u] \notin ClaimLabels
    BY <1>3, <1>6, Zenon
  <2>2. ClaimExclusive'
    BY <1>6, <2>1 DEF ClaimExclusive, ClaimOK, ClaimLabels
  <2> QED
    BY <1>6, <2>2, Zenon DEF LifeCycle, LifeOK
<1>7. CASE /\ ep' = TryReclaim(ClearMsg(e), wq)
           /\ IF op[t].installed > 0
              THEN Goto(t, "rollback") /\ UNCHANGED <<op, expired>>
              ELSE Return(t)
           /\ UNCHANGED <<wq, wakes>>
  <2>1. ep' \in Endpoints /\ LifeOK(ep') /\ ClaimOK(ep') /\ ep'.claims = 0
    <3> HIDE DEF e
    <3> QED
      BY <1>5, <1>7, TryReclaimKeeps, Zenon
  <2>2. /\ pc' \in [Threads -> Labels] /\ op' \in [Threads -> Ops]
        /\ expired' \in [Threads -> BOOLEAN]
        /\ pc'[t] \in {"idle", "rollback"}
        /\ \A u \in Threads : u # t => pc'[u] = pc[u]
    <3>1. CASE Goto(t, "rollback") /\ UNCHANGED <<op, expired>>
      BY <1>1, <3>1, Zenon DEF TypeOK, Goto, Labels
    <3>2. CASE Return(t)
      BY <1>1, <3>2, ReturnType, Zenon
    <3> QED
      BY <1>7, <3>1, <3>2, Zenon
  <2>3. ClaimExclusive' /\ LifeCycle'
    BY <1>6, <2>1, <2>2, Zenon DEF ClaimLabels
  <2> QED
    BY <1>1, <1>7, <2>1, <2>2, <2>3, Zenon DEF IInv, TypeOK
<1>8. ASSUME NEW q \in Queues,
             ep.state = "READY", ep' = PutBack(e) \/ ep' = ClearMsg(e),
             \E p \in Chain(wq, q), x \in Pointers :
                /\ IsFirstBlocked(p, blocked, x)
                /\ wq' = Dequeue(wq, q, x)
                /\ WakeThenFinish(t, x)
      PROVE  IInv'
  <2> HIDE DEF e
  <2>1. ep' \in Endpoints /\ LifeOK(ep') /\ ClaimOK(ep') /\ ep'.claims = 0
    <3>1. CASE ep' = PutBack(e)
      <4>1. ep' \in Endpoints
        <5>1. ep' = [e EXCEPT !.hasMsg = 1]
          BY <3>1, Zenon DEF PutBack
        <5> QED
          BY <1>4, <5>1 DEF Endpoints
      <4>2. /\ ep'.hasMsg = 1 /\ ep'.claims = 0 /\ ep'.inUse /\ ep'.state = "READY"
            /\ ep'.msg = ep.msg /\ ep'.recvRefs = ep.recvRefs
        BY <1>4, <1>8, <3>1, Zenon DEF PutBack, Endpoints
      <4> QED
        BY <1>2, <1>8, <4>1, <4>2 DEF LifeOK, ClaimOK
    <3>2. CASE ep' = ClearMsg(e)
      BY <1>5, <3>2, Zenon
    <3> QED
      BY <1>8, <3>1, <3>2, Zenon
  <2>2. /\ wq' \in WaitQueues(Queues)
        /\ pc' \in [Threads -> Labels] /\ op' \in [Threads -> Ops]
        /\ expired' \in [Threads -> BOOLEAN]
        /\ wakes' \in [Threads -> Pointers]
        /\ \A u \in Threads : pc'[u] = "wake" => wakes'[u] # NULL
        /\ pc'[t] \in {"idle", "drop", "hook", "wake"}
        /\ \A u \in Threads : u # t => pc'[u] = pc[u]
    BY <1>8, WakeOneType, Zenon
  <2>3. ClaimExclusive' /\ LifeCycle'
    BY <1>6, <2>1, <2>2, Zenon DEF ClaimLabels
  <2> QED
    BY <1>1, <2>1, <2>2, <2>3, ZenonT(30) DEF IInv, TypeOK
<1>9. "senders" \in Queues /\ "receivers" \in Queues
  BY Zenon DEF Queues
<1> HIDE DEF e
<1> QED
  BY <1>7, <1>8, <1>9, Zenon DEF Commit, e

(* The rollback after a close.                                             *)
LEMMA RollbackKeeps ==
  ASSUME IInv, NEW t \in Threads, Rollback(t)
  PROVE  IInv'
<1>1. TypeOK /\ Return(t) /\ pc[t] = "rollback"
  BY Zenon DEF Rollback, IInv
<1> QED
  BY <1>1, ReturnType, MoveKeeps, Zenon DEF Rollback, ClaimLabels

(* sched_wakeup of one thread.                                             *)
LEMMA WakeKeeps ==
  ASSUME IInv, NEW t \in Threads, Wake(t)
  PROVE  IInv'
<1>1. TypeOK /\ pc[t] = "wake" /\ UNCHANGED <<ep, cap>>
  BY Zenon DEF Wake, IInv
<1> DEFINE x == wakes[t]
<1>2. x \in Threads /\ wq.next[x] \in Pointers
  BY <1>1, Zenon DEF TypeOK, Pointers, WaitQueues
<1>3. blocked' \subseteq Threads
  BY <1>1, Zenon DEF Wake, TypeOK
<1>4. reason' \in [Threads -> Reasons] /\ armed' \in [Threads -> BOOLEAN]
  <2>1. CASE op[t].kind \in Kinds
    BY <1>1, <2>1, ZenonT(30) DEF Wake, TypeOK, Reasons
  <2>2. CASE op[t].kind \notin Kinds
    BY <1>1, <2>2 DEF Wake, TypeOK
  <2> QED
    BY <2>1, <2>2
<1>5. wq' \in WaitQueues(Queues)
  <2>1. "senders" \in Queues /\ NULL \in Pointers
    BY Zenon DEF Queues, Pointers
  <2>2. ClearNext(wq, x) \in WaitQueues(Queues)
    BY <1>1, <1>2, <2>1, QueueTypes, Zenon DEF TypeOK
  <2>3. wq' = ClearNext(wq, x) \/ wq' = wq
    BY Zenon DEF Wake
  <2> QED
    BY <1>1, <2>2, <2>3 DEF TypeOK
<1>6. /\ pc' \in [Threads -> Labels] /\ op' \in [Threads -> Ops]
      /\ expired' \in [Threads -> BOOLEAN]
      /\ wakes' \in [Threads -> Pointers]
      /\ \A u \in Threads : pc'[u] = "wake" => wakes'[u] # NULL
      /\ pc'[t] \in {"idle", "drop", "hook", "wake"}
      /\ \A u \in Threads : u # t => pc'[u] = pc[u]
  <2>1. CASE /\ wq.next[x] # NULL
             /\ wakes' = [wakes EXCEPT ![t] = wq.next[x]]
             /\ UNCHANGED <<pc, op, expired>>
    BY <1>1, <1>2, <2>1 DEF TypeOK
  <2>2. CASE wakes' = [wakes EXCEPT ![t] = NULL] /\ Finish(t)
    <3>1. wakes' \in [Threads -> Pointers]
      BY <1>1, <2>2 DEF TypeOK, Pointers
    <3> QED
      BY <1>1, <2>2, <3>1, FinishType DEF TypeOK
  <2> QED
    BY <2>1, <2>2, Zenon DEF Wake
<1>7. ClaimExclusive' /\ LifeCycle'
  BY <1>1, <1>6, FrameUnchanged DEF ClaimLabels
<1> QED
  BY <1>1, <1>3, <1>4, <1>5, <1>6, <1>7, Zenon DEF IInv, TypeOK

(* The timeout sweep of the timer tick.                                    *)
LEMMA TimerTickKeeps ==
  ASSUME IInv, NEW t \in Threads, TimerTick(t)
  PROVE  IInv'
<1>1. TypeOK /\ UNCHANGED <<ep, cap, pc, op, wakes>>
  BY Zenon DEF TimerTick, IInv
<1>2. expired' \in [Threads -> BOOLEAN]
  BY <1>1, Zenon DEF TimerTick, TypeOK
<1>3. /\ wq' \in WaitQueues(Queues) /\ blocked' \subseteq Threads
      /\ reason' \in [Threads -> Reasons] /\ armed' \in [Threads -> BOOLEAN]
  <2>1. CASE t \in blocked /\ armed[t]
    <3>1. "senders" \in Queues /\ NULL \in Pointers
      BY Zenon DEF Queues, Pointers
    <3>2. ClearNext(wq, t) \in WaitQueues(Queues)
      BY <1>1, <3>1, QueueTypes, Zenon DEF TypeOK
    <3> QED
      BY <1>1, <2>1, <3>2, Zenon DEF TimerTick, TypeOK, Reasons
  <2>2. CASE ~(t \in blocked /\ armed[t])
    BY <1>1, <2>2, Zenon DEF TimerTick, TypeOK
  <2> QED
    BY <2>1, <2>2
<1>4. ClaimExclusive' /\ LifeCycle'
  BY <1>1, FrameUnchanged, Zenon
<1> QED
  BY <1>1, <1>2, <1>3, <1>4, ZenonT(30) DEF IInv, TypeOK

-----------------------------------------------------------------------------

(* In every reachable state of an endpoint slot the types hold, a message  *)
(* has at most one claimer, a claim keeps the slot in use, and the slot's  *)
(* state, references and message agree: whatever the number of threads and *)
(* however sends, receives, closes, releases, cancellations, timeouts and  *)
(* wakeups interleave.                                                     *)
THEOREM EndpointCorrect == Spec => [](TypeOK /\ ClaimExclusive /\ LifeCycle)
<1>1. Init => IInv
  <2> SUFFICES ASSUME Init PROVE IInv
    BY Zenon
  <2>1. /\ ep \in Endpoints /\ ep.inUse = FALSE /\ ep.state = "FREE" /\ ep.claims = 0
        /\ ep.hasMsg = 0 /\ ep.msg = NoMsg
    BY NoMsgType DEF Init, Endpoints
  <2>2. wq \in WaitQueues(Queues)
    BY Zenon DEF Init, Unlinked, WaitQueues, Pointers
  <2>3. cap \in [Threads -> [Kinds -> Capabilities]]
    BY Zenon DEF Init, NoCap, Capabilities, Pointers
  <2>4. op \in [Threads -> Ops]
    BY NoOpType, Zenon DEF Init
  <2>5. TypeOK
    BY <2>1, <2>2, <2>3, <2>4 DEF Init, TypeOK, Labels, Reasons, Pointers
  <2>6. ClaimExclusive
    <3>1. \A t \in Threads : pc[t] = "idle"
      BY Zenon DEF Init
    <3>2. {t \in Threads : pc[t] \in {"claimed", "commit"}} = {}
      BY <3>1, Zenon
    <3> QED
      BY <2>1, <3>2 DEF ClaimExclusive
  <2>7. LifeCycle
    BY <2>1 DEF LifeCycle
  <2> QED
    BY <2>5, <2>6, <2>7, Zenon DEF IInv
<1>2. IInv /\ [Next]_vars => IInv'
  <2> SUFFICES ASSUME IInv, [Next]_vars PROVE IInv'
    BY Zenon
  <2>1. ASSUME NEW t \in Threads, Step(t) PROVE IInv'
    <3>1. ASSUME NEW u \in Threads, Cancel(t, u) PROVE IInv'
      BY <3>1, CancelKeeps, Zenon
    <3>2. ASSUME NEW k \in Kinds, NEW u \in Threads, Delegate(t, u, k) PROVE IInv'
      BY <3>2, DelegateKeeps, Zenon
    <3>3. ASSUME NEW k \in Kinds, Revoke(t, k) PROVE IInv'
      BY <3>3, RevokeKeeps, Zenon
    <3> QED
      BY SMTT(30), <2>1, <3>1, <3>2, <3>3, CreateKeeps, DropFailsKeeps, HookResolveKeeps,
         AcquireKeeps, ReleaseSendKeeps, ReleaseRecvKeeps, OwnerCloseKeeps,
         OwnerCloseLockedKeeps, StartKeeps, CheckKeeps, SendLockedKeeps,
         ReceiveLockedKeeps, BlockKeeps, AwakeKeeps, InstallKeeps, CommitKeeps,
         RollbackKeeps, WakeKeeps
      DEF Step
  <2>2. ASSUME NEW t \in Threads, TimerTick(t) PROVE IInv'
    BY <2>2, TimerTickKeeps, Zenon
  <2>3. CASE UNCHANGED vars
    BY <2>3 DEF vars, IInv, TypeOK, ClaimExclusive, LifeCycle
  <2> QED
    BY <2>1, <2>2, <2>3 DEF Next
<1>3. IInv => TypeOK /\ ClaimExclusive /\ LifeCycle
  BY Zenon DEF IInv
<1> QED
  BY <1>1, <1>2, <1>3, PTL DEF Spec

-----------------------------------------------------------------------------
(* The message of an endpoint.                                             *)

(* The message of e is still there in f, unless it was queued and f is     *)
(* closed.                                                                 *)
Stays(e, f) ==
    /\ e.hasMsg = 1 => \/ f.msg = e.msg /\ f.hasMsg \in {1, 2}
                       \/ f.state # "READY"
    /\ e.hasMsg = 2 => f.msg = e.msg /\ f.hasMsg \in {1, 2}

(* Reclaiming spares a claimed message, and frees the slot.                *)
LEMMA TryReclaimStays ==
  ASSUME NEW e \in Endpoints, NEW w, ClaimOK(e)
  PROVE  Stays(e, TryReclaim(e, w))
<1>1. CASE TryReclaim(e, w) = e
  BY <1>1, Zenon DEF Stays
<1>2. CASE e.claims = 0 /\ e.state = "CLOSED" /\ TryReclaim(e, w) = Free([ClearMsg(e) EXCEPT !.gen = @ + 1])
  <2>1. e.hasMsg # 2
    BY <1>2 DEF ClaimOK
  <2>2. TryReclaim(e, w).state = "FREE"
    <3> DEFINE g == [ClearMsg(e) EXCEPT !.gen = @ + 1]
    <3>1. g.state = "CLOSED" /\ "state" \in DOMAIN g
      BY <1>2, Zenon DEF ClearMsg, Endpoints
    <3> HIDE DEF g
    <3> QED
      BY <1>2, <3>1, Zenon DEF Free, g
  <2> QED
    BY <2>1, <2>2, Zenon DEF Stays
<1> QED
  BY <1>1, <1>2, Zenon DEF TryReclaim

(* Closing drops a queued message only.                                    *)
LEMMA CloseAndWakeStays ==
  ASSUME NEW t \in Threads, NEW e \in Endpoints,
         e.inUse, ClaimOK(e), e.hasMsg = 0 <=> e.msg = NoMsg, CloseAndWake(t, e)
  PROVE  Stays(e, ep')
<1>1. ep' = TryReclaim(Closed(e), wq')
  BY Zenon DEF CloseAndWake
<1>2. Closed(e) \in Endpoints /\ ClaimOK(Closed(e)) /\ Closed(e).state = "CLOSED"
  BY ClosedKeeps, Zenon DEF Closed, ClearMsg, Endpoints
<1>3. ep' = Closed(e) \/ ep'.state = "FREE"
  <2> DEFINE c == Closed(e)
             g == [ClearMsg(c) EXCEPT !.gen = @ + 1]
  <2>1. g.state = "CLOSED" /\ "state" \in DOMAIN g
    <3> HIDE DEF c
    <3> QED
      BY <1>2, Zenon DEF ClearMsg, Endpoints, c
  <2> HIDE DEF c, g
  <2>2. Free(g).state = "FREE"
    BY <2>1, Zenon DEF Free
  <2> QED
    BY <1>1, <2>2, Zenon DEF TryReclaim, c, g
<1>4. CASE e.hasMsg = 1
  BY <1>2, <1>3, <1>4 DEF Stays
<1>5. CASE e.hasMsg = 2
  <2>1. Closed(e).msg = e.msg /\ Closed(e).hasMsg = 2
    BY <1>5 DEF Closed, Endpoints
  <2> QED
    BY <1>1, <1>2, <1>5, <2>1, TryReclaimStays DEF Stays
<1> QED
  BY <1>4, <1>5, ZenonT(30) DEF Stays

(* The steps that end references or the endpoint.                          *)
LEMMA ReleaseStays ==
  ASSUME IInv, NEW t \in Threads,
         ReleaseSend(t) \/ ReleaseRecv(t) \/ OwnerCloseLocked(t)
  PROVE  Stays(ep, ep')
<1>1. ep \in Endpoints /\ LifeOK(ep) /\ ClaimOK(ep)
  BY EndpointOK, Zenon
<1>2. ASSUME ReleaseSend(t) PROVE Stays(ep, ep')
  <2> DEFINE d == [ep EXCEPT !.sendRefs = Dec(@)]
             e == IF d.sendRefs = 0 /\ d.recvRefs = 0 /\ d.state = "READY"
                  THEN [d EXCEPT !.state = "CLOSED"] ELSE d
  <2>1. Dec(ep.sendRefs) \in Nat
    BY <1>1 DEF Dec, Endpoints
  <2>2. /\ d \in Endpoints /\ ClaimOK(d) /\ d.recvRefs = ep.recvRefs
        /\ d.state = ep.state /\ d.hasMsg = ep.hasMsg /\ d.msg = ep.msg
    BY <1>1, <2>1, Zenon DEF Endpoints, ClaimOK
  <2>3. e = d
    BY <1>1, <2>2 DEF LifeOK
  <2>4. ep' = TryReclaim(d, wq)
    BY <1>2, <2>3, Zenon DEF ReleaseSend
  <2> HIDE DEF d
  <2> QED
    BY <2>2, <2>4, TryReclaimStays, Zenon DEF Stays
<1>3. ASSUME ReleaseRecv(t) PROVE Stays(ep, ep')
  <2> DEFINE e == [ep EXCEPT !.recvRefs = Dec(@)]
  <2>1. Dec(ep.recvRefs) \in Nat
    BY <1>1 DEF Dec, Endpoints
  <2>2. /\ e \in Endpoints /\ ClaimOK(e) /\ e.inUse = ep.inUse
        /\ e.state = ep.state /\ e.hasMsg = ep.hasMsg /\ e.msg = ep.msg
    BY <1>1, <2>1, Zenon DEF Endpoints, ClaimOK
  <2>3. \/ e.state = "READY" /\ CloseAndWake(t, e)
        \/ ep' = TryReclaim(e, wq)
    BY <1>3, Zenon DEF ReleaseRecv
  <2> HIDE DEF e
  <2>4. CASE e.state = "READY" /\ CloseAndWake(t, e)
    <3>1. e.inUse /\ (e.hasMsg = 0 <=> e.msg = NoMsg)
      BY <1>1, <2>2, <2>4, Zenon DEF LifeOK
    <3> QED
      BY <2>2, <2>4, <3>1, CloseAndWakeStays, Zenon DEF Stays
  <2>5. CASE ep' = TryReclaim(e, wq)
    BY <2>2, <2>5, TryReclaimStays, Zenon DEF Stays
  <2> QED
    BY <2>3, <2>4, <2>5, Zenon
<1>4. ASSUME OwnerCloseLocked(t) PROVE Stays(ep, ep')
  <2>1. CASE ep.state = "READY" /\ CloseAndWake(t, ep)
    BY <1>1, <2>1, CloseAndWakeStays, Zenon DEF LifeOK
  <2>2. CASE ep' = TryReclaim(ep, wq)
    BY <1>1, <2>2, TryReclaimStays, Zenon
  <2> QED
    BY <1>4, <2>1, <2>2, Zenon DEF OwnerCloseLocked
<1> QED
  BY <1>2, <1>3, <1>4, Zenon

(* The other steps that change the endpoint, a commit aside.               *)
LEMMA OtherStays ==
  ASSUME IInv, NEW t \in Threads,
         \/ Create(t) \/ Acquire(t) \/ SendLocked(t) \/ ReceiveLocked(t) \/ Awake(t)
         \/ \E u \in Threads : Cancel(t, u)
  PROVE  Stays(ep, ep')
<1>1. ep \in Endpoints /\ LifeOK(ep) /\ ClaimOK(ep)
  BY EndpointOK, Zenon
<1>2. CASE Create(t)
  BY <1>1, <1>2 DEF Create, Stays, LifeOK, ClaimOK
<1>3. CASE Acquire(t)
  BY <1>1, <1>3 DEF Acquire, Stays, Endpoints
<1>4. CASE SendLocked(t)
  <2>1. ep' = ep \/ ep.hasMsg = 0
    BY <1>4, Zenon DEF SendLocked, GiveUpClosed, Room
  <2> QED
    BY <1>1, <2>1 DEF Stays, Endpoints
<1>5. CASE ReceiveLocked(t)
  <2>1. ep' = ep \/ (ep.hasMsg = 1 /\ ep' = [ep EXCEPT !.hasMsg = 2, !.claims = @ + 1])
    BY <1>5, Zenon DEF ReceiveLocked, GiveUpClosed
  <2> QED
    BY <1>1, <2>1, Zenon DEF Stays, Endpoints
<1>6. CASE Awake(t)
  <2>1. ep' = ep \/ ep' = TryReclaim(ep, wq')
    BY <1>6, Zenon DEF Awake
  <2>2. Stays(ep, ep)
    BY <1>1, Zenon DEF Stays, Endpoints
  <2> QED
    BY <1>1, <2>1, <2>2, TryReclaimStays, ZenonT(30)
<1>7. ASSUME NEW u \in Threads, Cancel(t, u) PROVE Stays(ep, ep')
  <2>1. ep' = TryReclaim(ep, wq')
    BY <1>7, ZenonT(30) DEF Cancel
  <2> QED
    BY <1>1, <2>1, TryReclaimStays, ZenonT(30)
<1> QED
  BY <1>2, <1>3, <1>4, <1>5, <1>6, <1>7, Zenon

(* A commit is the claimer's, and ends the claim.                          *)
LEMMA CommitEnds ==
  ASSUME IInv, NEW t \in Threads, Commit(t)
  PROVE  ep.hasMsg = 2 /\ pc[t] = "commit" /\ pc'[t] # "commit"
<1>1. TypeOK /\ pc[t] = "commit"
  BY Zenon DEF Commit, IInv
<1>2. ep.hasMsg = 2
  BY <1>1, Zenon DEF IInv, ClaimExclusive
<1>3. \/ Goto(t, "rollback") \/ Return(t)
      \/ \E x \in Pointers : WakeThenFinish(t, x)
  BY Zenon DEF Commit
<1>4. CASE Goto(t, "rollback")
  <2>1. pc'[t] = "rollback"
    BY <1>1, <1>4, Zenon DEF Goto, TypeOK
  <2> QED
    BY <1>1, <1>2, <2>1, Zenon
<1>5. CASE Return(t)
  <2>1. pc'[t] = "idle"
    BY <1>1, <1>5, ReturnType
  <2> QED
    BY <1>1, <1>2, <2>1, Zenon
<1>6. ASSUME NEW x \in Pointers, WakeThenFinish(t, x) PROVE pc'[t] # "commit"
  BY <1>1, <1>6, WakeThenFinishType
<1> QED
  BY <1>1, <1>2, <1>3, <1>4, <1>5, <1>6, Zenon

(* A queued message leaves only into a claim or because the endpoint       *)
(* closes, a claimed one only by its claimer, and a message that goes back *)
(* is the same, whatever the number of threads (ipc_endpoint_send_ex, the  *)
(* two locked parts of a receive, and every way of closing).               *)
THEOREM MessagesStay == Spec => MessageStable
<1> DEFINE Stable == /\ ep.hasMsg = 1 => \/ ep'.msg = ep.msg /\ ep'.hasMsg \in {1, 2}
                                         \/ ep'.state # "READY"
                     /\ ep.hasMsg = 2 => \/ ep'.msg = ep.msg /\ ep'.hasMsg \in {1, 2}
                                         \/ \E t \in Threads : pc[t] = "commit" /\ pc'[t] # "commit"
<1>1. IInv /\ [Next]_vars => [Stable]_vars
  <2> SUFFICES ASSUME IInv, Next PROVE Stable
    BY Zenon
  <2>1. PICK t \in Threads : Step(t) \/ TimerTick(t)
    BY Zenon DEF Next
  <2>2. CASE Commit(t)
    BY <2>2, CommitEnds
  <2>3. CASE Stays(ep, ep')
    BY <2>3, Zenon DEF Stays
  <2>4. CASE ep' = ep
    BY <2>4, Zenon DEF IInv, TypeOK, Endpoints
  <2>5. TimerTick(t) => ep' = ep
    BY ZenonT(30) DEF TimerTick
  <2>6. StartSend(t) \/ StartReceive(t) => ep' = ep
    BY ZenonT(30) DEF StartSend, StartReceive, Start
  <2>7. \/ DropFails(t) \/ HookResolve(t) \/ OwnerClose(t) \/ Check(t) \/ Block(t)
        \/ Install(t) \/ Rollback(t) \/ Wake(t)
        => ep' = ep
    BY ZenonT(30) DEF DropFails, HookResolve, OwnerClose, Check, Block, Install, Rollback, Wake
  <2>8. ASSUME NEW k \in Kinds, Revoke(t, k) \/ \E u \in Threads : Delegate(t, u, k)
        PROVE  ep' = ep
    BY <2>8, Zenon DEF Revoke, Delegate
  <2> HIDE DEF Stable
  <2> QED
    BY <2>1, <2>2, <2>3, <2>4, <2>5, <2>6, <2>7, <2>8, ReleaseStays, OtherStays, SMTT(30) DEF Step
<1>2. IInv <=> TypeOK /\ ClaimExclusive /\ LifeCycle
  BY Zenon DEF IInv
<1> QED
  BY <1>1, <1>2, EndpointCorrect, PTL DEF Spec, MessageStable
=============================================================================
