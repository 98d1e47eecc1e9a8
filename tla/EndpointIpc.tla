---------------------------- MODULE EndpointIpc ----------------------------
(***************************************************************************)
(* Synchronous endpoint IPC (endpoint_ipc.c): one slot of the endpoint     *)
(* pool through its incarnations, the threads that send to it, receive     *)
(* from it, close it, cancel each other's waits, and hand its capabilities *)
(* on, and the parts of the scheduler they block on (sched_block,          *)
(* sched_wakeup, the timeout sweep of the timer tick).                     *)
(*                                                                         *)
(* One action is one stretch of code that runs under a lock, or between    *)
(* two.  A thread is a process with a CSpace of its own: cap[t][k] is its  *)
(* capability of kind k, with the generation of the endpoint it names (0:  *)
(* there is none) and the thread it was delegated by.                      *)
(* The statistics counters, which no code reads, and the payload bytes are *)
(* left out; a message is who sent it, through which generation of the     *)
(* endpoint, whether it is long, and how many capabilities it carries.     *)
(***************************************************************************)
EXTENDS WaitQueue

CONSTANTS
    MayDo,      \* MayDo[t]: the operations thread t performs
    MsgKinds,   \* the [long, slots] a message may have
    RecvKinds,  \* the [small, slots] a receive may have: a buffer too small
                \* for a long message; the transfer slots it installs from
    Timeouts,   \* the timeouts in use, a subset of {"zero", "finite", "never"}
    MaxGen      \* bound on the generations of the slot

Kinds == {"send", "receive"}
Queues == {"senders", "receivers"}
Operations == Kinds \cup {"create", "delegate", "revoke", "close", "cancel"}

ASSUME IpcAssumption ==
    /\ MayDo \in [Threads -> SUBSET Operations]
    /\ MsgKinds \subseteq [long : BOOLEAN, slots : 0 .. 2]
    /\ RecvKinds \subseteq [small : BOOLEAN, slots : 0 .. 2]
    /\ Timeouts \subseteq {"zero", "finite", "never"}
    /\ MaxGen \in Nat

VARIABLES
    ep,        \* the endpoint slot
    wq,        \* its two wait queues
    cap,       \* the endpoint capabilities of every thread
    pc,        \* where in an operation a thread is
    op,        \* the operation's arguments and local variables
    blocked,   \* the threads in THREAD_STATE_BLOCKED
    reason,    \* thread->ipc_wakeup_reason
    armed,     \* thread->ipc_deadline_ticks > 0
    expired,   \* the deadline of the running operation has passed
    wakes      \* the thread a thread has dequeued and is about to wake

vars == <<ep, wq, cap, pc, op, blocked, reason, armed, expired, wakes>>

NoMsg == [from |-> NULL, ref |-> 0, long |-> FALSE, slots |-> 0]

Operation(kind, which, ref, timeout, flag, slots, todo) ==
    [kind |-> kind, which |-> which, ref |-> ref, timeout |-> timeout,
     flag |-> flag, slots |-> slots, todo |-> todo,
     installed |-> 0, result |-> "OK"]

(* An operation that neither waits nor transfers.                          *)
Simple(kind, which, ref, todo) == Operation(kind, which, ref, "zero", FALSE, 0, todo)

NoOp == Simple("none", "send", 0, 0)

NoCap == [ref |-> 0, parent |-> NULL]

QueueOf(kind) == IF kind = "send" THEN "senders" ELSE "receivers"

Free(e) == [e EXCEPT !.inUse = FALSE, !.state = "FREE"]

Init ==
    /\ ep = [inUse |-> FALSE, state |-> "FREE", gen |-> 0, sendRefs |-> 0,
             recvRefs |-> 0, claims |-> 0, hasMsg |-> 0, msg |-> NoMsg]
    /\ wq = Unlinked(Queues)
    /\ cap = [t \in Threads |-> [k \in Kinds |-> NoCap]]
    /\ pc = [t \in Threads |-> "idle"]
    /\ op = [t \in Threads |-> NoOp]
    /\ blocked = {}
    /\ reason = [t \in Threads |-> "OK"]
    /\ armed = [t \in Threads |-> FALSE]
    /\ expired = [t \in Threads |-> FALSE]
    /\ wakes = [t \in Threads |-> NULL]

-----------------------------------------------------------------------------
(* Endpoint helpers.                                                       *)

(* endpoint_by_ref: the slot, unless it is free or has moved on.           *)
Resolves(ref) == ep.inUse /\ ep.gen = ref

ClearMsg(e) == [e EXCEPT !.hasMsg = 0, !.msg = NoMsg]

(* Mutant: the slot is reclaimed under a receiver that holds a claim.      *)
TryReclaimClaimed(e, w) ==
    IF /\ e.inUse
       /\ e.state = "CLOSED"
       /\ e.sendRefs = 0 /\ e.recvRefs = 0
       /\ w.head["senders"] = NULL /\ w.head["receivers"] = NULL
    THEN Free([ClearMsg(e) EXCEPT !.gen = @ + 1])
    ELSE e

(* ipc_endpoint_try_reclaim_locked, given the queues w at that point.      *)
TryReclaim(e, w) ==
    IF /\ e.inUse
       /\ e.state = "CLOSED"
       /\ e.sendRefs = 0 /\ e.recvRefs = 0 /\ e.claims = 0
       /\ w.head["senders"] = NULL /\ w.head["receivers"] = NULL
    THEN Free([ClearMsg(e) EXCEPT !.gen = @ + 1])
    ELSE e

(* Mutant: closing keeps a queued message.                                 *)
ClosedKeepsMsg(e) == [e EXCEPT !.state = "CLOSED"]

(* The state both ways of closing leave: a queued message is dropped, a    *)
(* claimed one is left to its claimer.                                     *)
Closed(e) == [(IF e.hasMsg = 1 THEN ClearMsg(e) ELSE e) EXCEPT !.state = "CLOSED"]

Goto(t, l) == pc' = [pc EXCEPT ![t] = l]

(* The operation returns.  What it returns is not kept: no later step of   *)
(* the kernel depends on it.                                               *)
Return(t) ==
    /\ Goto(t, "idle")
    /\ op' = [op EXCEPT ![t] = NoOp]
    /\ expired' = [expired EXCEPT ![t] = FALSE]

(* A call on the endpoint is over.  BH_ENDPOINT_OP_CLOSE goes on with the  *)
(* revocation of the caller's own capability, a revocation with the next   *)
(* capability it frees.                                                    *)
Finish(t) ==
    \/ /\ op[t].kind = "close"
       /\ Goto(t, "drop")
       /\ UNCHANGED <<op, expired>>
    \/ /\ op[t].kind = "release" /\ op[t].todo > 1
       /\ op' = [op EXCEPT ![t].todo = @ - 1]
       /\ Goto(t, "hook")
       /\ UNCHANGED expired
    \/ /\ op[t].kind # "close"
       /\ op[t].kind = "release" => op[t].todo <= 1
       /\ Return(t)

(* Unlock, wake x and, in a close, the threads linked behind it.           *)
WakeThenFinish(t, x) ==
    IF x = NULL THEN Finish(t) /\ UNCHANGED wakes
    ELSE /\ Goto(t, "wake")
         /\ wakes' = [wakes EXCEPT ![t] = x]
         /\ UNCHANGED <<op, expired>>

(* The last part of ipc_endpoint_owner_close and of the release of the     *)
(* last receive reference: dequeue every waiter with IPC_ERR_CLOSED.       *)
CloseAndWake(t, e) ==
    \E p \in Chain(wq, "senders"), s, r \in Lists :
        LET w == Drain(wq, "senders", s, NULL)
            top == DrainTop(s, NULL)
            gone == {s[i] : i \in 1 .. Len(s)} \cup {r[i] : i \in 1 .. Len(r)}
        IN  /\ IsBlockedList(p, blocked, s)
            /\ \E p2 \in Chain(w, "receivers") : IsBlockedList(p2, blocked, r)
            /\ wq' = Drain(w, "receivers", r, top)
            /\ ep' = TryReclaim(Closed(e), wq')
            /\ reason' = [u \in Threads |-> IF u \in gone THEN "CLOSED" ELSE reason[u]]
            /\ armed' = [u \in Threads |-> armed[u] /\ u \notin gone]
            /\ WakeThenFinish(t, DrainTop(r, top))

-----------------------------------------------------------------------------
(* Capabilities for the endpoint.                                          *)

(* ipc_endpoint_create: a free slot gets a new generation, and the caller  *)
(* a send and a receive capability for it.  Either grant may fail, the     *)
(* second one after the first has taken its reference and given it back.   *)
Create(t) ==
    /\ pc[t] = "idle" /\ "create" \in MayDo[t]
    /\ ~ep.inUse /\ ep.gen + 2 <= MaxGen
    /\ \/ /\ cap[t] = [k \in Kinds |-> NoCap]
          /\ ep' = [inUse |-> TRUE, state |-> "READY", gen |-> ep.gen + 1,
                    sendRefs |-> 1, recvRefs |-> 1, claims |-> 0,
                    hasMsg |-> 0, msg |-> NoMsg]
          /\ cap' = [cap EXCEPT ![t] = [k \in Kinds |->
                                    [ref |-> ep.gen + 1, parent |-> NULL]]]
       \/ \E bumps \in {1, 2} :
              /\ ep' = [ClearMsg(ep) EXCEPT !.gen = @ + bumps, !.sendRefs = 0,
                                            !.recvRefs = 0, !.claims = 0]
              /\ UNCHANGED cap
    /\ wq' = InitQueues(wq)
    /\ UNCHANGED <<pc, op, blocked, reason, armed, expired, wakes>>

(* cap_table_delegate_local of an endpoint capability to thread u.  The    *)
(* reference is taken afterwards, outside the table locks.                 *)
Delegate(t, u, k) ==
    /\ pc[t] = "idle" /\ "delegate" \in MayDo[t]
    /\ cap[t][k].ref # 0 /\ cap[u][k].ref = 0
    /\ cap' = [cap EXCEPT ![u][k] = [ref |-> cap[t][k].ref, parent |-> t]]
    /\ Goto(t, "hook")
    /\ op' = [op EXCEPT ![t] = Simple("acquire", k, cap[t][k].ref, 1)]
    /\ UNCHANGED <<ep, wq, blocked, reason, armed, expired, wakes>>

(* The threads whose capability of kind k is that of t or derives from it. *)
Derived(t, k) ==
    {u \in Threads : \A S \in SUBSET Threads :
        (t \in S /\ \A v \in Threads : cap[v][k].parent \in S => v \in S) => u \in S}

(* cap_table_revoke of an endpoint capability: it and those derived from   *)
(* it stop being LIVE, then each is freed, and its reference released      *)
(* outside the table lock.                                                 *)
Revoke(t, k) ==
    /\ cap[t][k].ref # 0
    /\ \/ pc[t] = "idle" /\ "revoke" \in MayDo[t]
       \/ pc[t] = "drop" /\ k = "receive" /\ cap[t][k].ref = op[t].ref
    /\ cap' = [u \in Threads |-> [cap[u] EXCEPT ![k] = IF u \in Derived(t, k) THEN NoCap ELSE @]]
    /\ Goto(t, "hook")
    /\ op' = [op EXCEPT ![t] = Simple("release", k, cap[t][k].ref,
                                       Cardinality(Derived(t, k)))]
    /\ UNCHANGED <<ep, wq, blocked, reason, armed, expired, wakes>>

(* The close operation whose capability was revoked under it.              *)
DropFails(t) ==
    /\ pc[t] = "drop" /\ cap[t]["receive"].ref # op[t].ref
    /\ Return(t)
    /\ UNCHANGED <<ep, wq, cap, blocked, reason, armed, wakes>>

(* The reference hooks resolve the endpoint without its lock ...           *)
HookResolve(t) ==
    /\ pc[t] = "hook"
    /\ IF Resolves(op[t].ref)
       THEN Goto(t, "hooklock") /\ UNCHANGED <<op, expired>>
       ELSE Finish(t)
    /\ UNCHANGED <<ep, wq, cap, blocked, reason, armed, wakes>>

(* ... then take it.  An acquire counts only on a READY endpoint; the      *)
(* caller ignores what it returns.                                         *)
Acquire(t) ==
    /\ pc[t] = "hooklock" /\ op[t].kind = "acquire"
    /\ ep' = IF ~ep.inUse \/ ep.state # "READY" THEN ep
             ELSE IF op[t].which = "send" THEN [ep EXCEPT !.sendRefs = @ + 1]
             ELSE [ep EXCEPT !.recvRefs = @ + 1]
    /\ Return(t)
    /\ UNCHANGED <<wq, cap, blocked, reason, armed, wakes>>

Dec(n) == IF n > 0 THEN n - 1 ELSE 0

(* ipc_endpoint_release_send_cap: the last reference of both kinds closes. *)
ReleaseSend(t) ==
    /\ pc[t] = "hooklock" /\ op[t].kind = "release" /\ op[t].which = "send"
    /\ LET e == [ep EXCEPT !.sendRefs = Dec(@)]
       IN  ep' = TryReclaim(IF e.sendRefs = 0 /\ e.recvRefs = 0 /\ e.state = "READY"
                            THEN [e EXCEPT !.state = "CLOSED"] ELSE e, wq)
    /\ Finish(t)
    /\ UNCHANGED <<wq, cap, blocked, reason, armed, wakes>>

(* ipc_endpoint_release_recv_cap: the last receive reference closes the    *)
(* endpoint and wakes its waiters.                                         *)
ReleaseRecv(t) ==
    /\ pc[t] = "hooklock" /\ op[t].kind = "release" /\ op[t].which = "receive"
    /\ LET e == [ep EXCEPT !.recvRefs = Dec(@)]
       IN  IF e.recvRefs = 0 /\ e.state = "READY"
           THEN CloseAndWake(t, e)
           ELSE /\ ep' = TryReclaim(e, wq)
                /\ Finish(t)
                /\ UNCHANGED <<wq, reason, armed, wakes>>
    /\ UNCHANGED <<cap, blocked>>

(* ipc_endpoint_owner_close, on the owner's core: the lookup, then the     *)
(* locked part.  CLOSING is set and left within the locked part.           *)
OwnerClose(t) ==
    /\ pc[t] = "idle" /\ "close" \in MayDo[t]
    /\ cap[t]["receive"].ref # 0
    /\ op' = [op EXCEPT ![t] = Simple("close", "receive", cap[t]["receive"].ref, 0)]
    /\ Goto(t, IF Resolves(cap[t]["receive"].ref) THEN "lock" ELSE "drop")
    /\ UNCHANGED <<ep, wq, cap, blocked, reason, armed, expired, wakes>>

OwnerCloseLocked(t) ==
    /\ pc[t] = "lock" /\ op[t].kind = "close"
    /\ IF ep.state = "READY"
       THEN CloseAndWake(t, ep)
       ELSE /\ ep' = TryReclaim(ep, wq)
            /\ Finish(t)
            /\ UNCHANGED <<wq, reason, armed, wakes>>
    /\ UNCHANGED <<cap, blocked>>

(* ipc_endpoint_cancel_waiter and ipc_endpoint_cancel_all_for_thread of    *)
(* thread u, in whichever queue it is found.                               *)
Cancel(t, u) ==
    /\ pc[t] = "idle" /\ "cancel" \in MayDo[t] /\ ep.inUse
    /\ \E s \in Chain(wq, "senders"), r \in Chain(wq, "receivers") :
          LET Found(p) == \E i \in 1 .. Len(p) : p[i] = u
          IN  /\ wq' = IF Found(s) THEN Remove(wq, "senders", s, u)
                       ELSE Remove(wq, "receivers", r, u)
              /\ ep' = TryReclaim(ep, wq')
              /\ IF Found(s) \/ Found(r)
                 THEN /\ reason' = [reason EXCEPT ![u] = "CANCELLED"]
                      /\ armed' = [armed EXCEPT ![u] = FALSE]
                      /\ Goto(t, "wake")
                      /\ wakes' = [wakes EXCEPT ![t] = u]
                      /\ op' = [op EXCEPT ![t] = Simple("cancel", "send", 0, 0)]
                      /\ UNCHANGED expired
                 ELSE Return(t) /\ UNCHANGED <<reason, armed, wakes>>
    /\ UNCHANGED <<cap, blocked>>

-----------------------------------------------------------------------------
(* Send and receive.                                                       *)

(* Entry of ipc_endpoint_send_ex, ipc_endpoint_receive and                 *)
(* ipc_endpoint_receive_envelope: the capability is looked up and the      *)
(* endpoint resolved.                                                      *)
Start(t, k, timeout, flag, slots) ==
    /\ pc[t] = "idle" /\ k \in MayDo[t]
    /\ cap[t][k].ref # 0
    /\ IF Resolves(cap[t][k].ref)
       THEN /\ Goto(t, "check")
            /\ op' = [op EXCEPT ![t] = Operation(k, k, cap[t][k].ref, timeout,
                                                  flag, slots, 0)]
            /\ UNCHANGED expired
       ELSE Return(t)
    /\ UNCHANGED <<ep, wq, cap, blocked, reason, armed, wakes>>

StartSend(t) == \E m \in MsgKinds, d \in Timeouts : Start(t, "send", d, m.long, m.slots)

StartReceive(t) ==
    \E r \in RecvKinds, d \in Timeouts : Start(t, "receive", d, r.small, r.slots)

(* The head of the retry loop: the capability is looked up again, and a    *)
(* sender captures the capabilities it sends again, which may have been    *)
(* revoked meanwhile.                                                      *)
Check(t) ==
    /\ pc[t] = "check"
    /\ \/ /\ cap[t][op[t].which].ref = op[t].ref
          /\ Goto(t, "lock")
          /\ UNCHANGED <<op, expired>>
       \/ /\ cap[t][op[t].which].ref # op[t].ref
          /\ Return(t)
       \/ /\ op[t].kind = "send" /\ op[t].slots > 0
          /\ Return(t)
    /\ UNCHANGED <<ep, wq, cap, blocked, reason, armed, wakes>>

(* The slot cannot be used now: give up, or join the wait queue.           *)
WaitOrGiveUp(t) ==
    \/ /\ op[t].timeout = "zero"
       /\ Return(t)
       /\ UNCHANGED <<wq, reason, armed>>
    \/ /\ op[t].timeout = "finite" /\ expired[t]
       /\ Return(t)
       /\ UNCHANGED <<wq, reason, armed>>
    \/ /\ op[t].timeout = "never" \/ (op[t].timeout = "finite" /\ ~expired[t])
       /\ reason' = [reason EXCEPT ![t] = "OK"]
       /\ armed' = [armed EXCEPT ![t] = op[t].timeout = "finite"]
       /\ wq' = Enqueue(wq, QueueOf(op[t].kind), t)
       /\ Goto(t, "block")
       /\ UNCHANGED <<op, expired>>

GiveUpClosed(t) ==
    /\ ep.state # "READY"
    /\ Return(t)
    /\ UNCHANGED <<ep, wq, reason, armed, wakes>>

(* Mutant: a claimed message is taken for a consumed one.                  *)
RoomAfterClaim == ep.hasMsg # 1

(* A send may store its message.                                           *)
Room == ep.hasMsg = 0

(* The locked part of a send.  A message is stored and the first receiver  *)
(* that is BLOCKED dequeued, or the sender waits.                          *)
SendLocked(t) ==
    /\ pc[t] = "lock" /\ op[t].kind = "send"
    /\ \/ GiveUpClosed(t)
       \/ /\ ep.state = "READY" /\ Room
          /\ ep' = [ep EXCEPT !.hasMsg = 1,
                       !.msg = [from |-> t, ref |-> op[t].ref,
                                long |-> op[t].flag, slots |-> op[t].slots]]
          /\ \E p \in Chain(wq, "receivers"), x \in Pointers :
                /\ IsFirstBlocked(p, blocked, x)
                /\ wq' = Dequeue(wq, "receivers", x)
                /\ WakeThenFinish(t, x)
          /\ UNCHANGED <<reason, armed>>
       \/ /\ ep.state = "READY" /\ ~Room
          /\ WaitOrGiveUp(t)
          /\ UNCHANGED <<ep, wakes>>
    /\ UNCHANGED <<cap, blocked>>

(* The first locked part of a receive: a queued message that fits is       *)
(* claimed; one that does not fit stays.                                   *)
ReceiveLocked(t) ==
    /\ pc[t] = "lock" /\ op[t].kind = "receive"
    /\ \/ GiveUpClosed(t)
       \/ /\ ep.state = "READY" /\ ep.hasMsg = 1
          /\ IF ep.msg.long /\ op[t].flag
             THEN Return(t) /\ UNCHANGED ep
             ELSE /\ ep' = [ep EXCEPT !.hasMsg = 2, !.claims = @ + 1]
                  /\ Goto(t, "claimed")
                  /\ UNCHANGED <<op, expired>>
          /\ UNCHANGED <<wq, reason, armed, wakes>>
       \/ /\ ep.state = "READY" /\ ep.hasMsg # 1
          /\ WaitOrGiveUp(t)
          /\ UNCHANGED <<ep, wakes>>
    /\ UNCHANGED <<cap, blocked>>

(* sched_block, after the endpoint lock is released.                       *)
Block(t) ==
    /\ pc[t] = "block"
    /\ blocked' = blocked \cup {t}
    /\ Goto(t, "asleep")
    /\ UNCHANGED <<ep, wq, cap, op, reason, armed, expired, wakes>>

(* Back from sched_block.  Any reason but IPC_OK ends the operation.       *)
Awake(t) ==
    /\ pc[t] = "asleep" /\ t \notin blocked
    /\ IF reason[t] = "OK"
       THEN Goto(t, "check") /\ UNCHANGED <<ep, wq, op, expired>>
       ELSE /\ \E p \in Chain(wq, QueueOf(op[t].kind)) :
                 wq' = Remove(wq, QueueOf(op[t].kind), p, t)
            /\ ep' = TryReclaim(ep, wq')
            /\ Return(t)
    /\ UNCHANGED <<cap, blocked, reason, armed, wakes>>

Installed(t, n, r) == op' = [op EXCEPT ![t].installed = n, ![t].result = r]

(* bh_cap_transfer_install of the capabilities the claimed message carries,*)
(* without the endpoint lock.  The receiver's table may be full, or a      *)
(* source revoked; a failure at the second slot undoes the first.          *)
Install(t) ==
    /\ pc[t] = "claimed"
    /\ LET n == IF ep.msg.slots < op[t].slots THEN ep.msg.slots ELSE op[t].slots
       IN  \/ Installed(t, n, "OK")
           \/ n > 0 /\ Installed(t, 0, "NO_RESOURCES")
           \/ n > 0 /\ Installed(t, 0, "STALE")
    /\ Goto(t, "commit")
    /\ UNCHANGED <<ep, wq, cap, blocked, reason, armed, expired, wakes>>

(* Mutant: a message that could not be delivered stays claimed.            *)
PutBackForgotten(e) == e

(* The message of a claim that ran out of capability slots is queued again.*)
PutBack(e) == [e EXCEPT !.hasMsg = 1]

(* The second locked part of a receive.                                    *)
Commit(t) ==
    /\ pc[t] = "commit"
    /\ LET e == [ep EXCEPT !.claims = Dec(@)]
           WakeOne(q) ==
             /\ \E p \in Chain(wq, q), x \in Pointers :
                   /\ IsFirstBlocked(p, blocked, x)
                   /\ wq' = Dequeue(wq, q, x)
                   /\ WakeThenFinish(t, x)
       IN  \/ /\ ep.state # "READY"
              /\ ep' = TryReclaim(ClearMsg(e), wq)
              /\ IF op[t].installed > 0
                 THEN Goto(t, "rollback") /\ UNCHANGED <<op, expired>>
                 ELSE Return(t)
              /\ UNCHANGED <<wq, wakes>>
           \/ /\ ep.state = "READY" /\ op[t].result = "NO_RESOURCES"
              /\ ep' = PutBack(e)
              /\ WakeOne("receivers")
           \/ /\ ep.state = "READY" /\ op[t].result = "STALE"
              /\ ep' = ClearMsg(e)
              /\ WakeOne("senders")
           \/ /\ ep.state = "READY" /\ op[t].result = "OK"
              /\ ep' = ClearMsg(e)
              /\ WakeOne("senders")
    /\ UNCHANGED <<cap, blocked, reason, armed>>

(* The capabilities installed from a message of a closed endpoint are      *)
(* revoked again.                                                          *)
Rollback(t) ==
    /\ pc[t] = "rollback"
    /\ Return(t)
    /\ UNCHANGED <<ep, wq, cap, blocked, reason, armed, wakes>>

(* Wake a dequeued thread.  A send or a receive sets its reason here,      *)
(* after the unlock; sched_wakeup makes a BLOCKED thread runnable and does *)
(* nothing to any other.  A close reads the link to the next one first.    *)
Wake(t) ==
    /\ pc[t] = "wake"
    /\ LET x == wakes[t]
           closing == op[t].kind \in {"close", "release"}
       IN  /\ blocked' = blocked \ {x}
           /\ IF op[t].kind \in Kinds
              THEN /\ reason' = [reason EXCEPT ![x] = "OK"]
                   /\ armed' = [armed EXCEPT ![x] = FALSE]
              ELSE UNCHANGED <<reason, armed>>
           /\ wq' = IF closing THEN ClearNext(wq, x) ELSE wq
           /\ IF closing /\ wq.next[x] # NULL
              THEN /\ wakes' = [wakes EXCEPT ![t] = wq.next[x]]
                   /\ UNCHANGED <<pc, op, expired>>
              ELSE /\ wakes' = [wakes EXCEPT ![t] = NULL]
                   /\ Finish(t)
    /\ UNCHANGED <<ep, cap>>

(* The timer tick at or after the deadline of t's operation: a BLOCKED     *)
(* thread with an armed deadline gets the reason -3 and loses its link.    *)
TimerTick(t) ==
    /\ op[t].timeout = "finite" /\ (~expired[t] \/ (t \in blocked /\ armed[t]))
    /\ expired' = [expired EXCEPT ![t] = TRUE]
    /\ IF t \in blocked /\ armed[t]
       THEN /\ reason' = [reason EXCEPT ![t] = "WOULD_BLOCK"]
            /\ armed' = [armed EXCEPT ![t] = FALSE]
            /\ wq' = ClearNext(wq, t)
            /\ blocked' = blocked \ {t}
       ELSE UNCHANGED <<reason, armed, wq, blocked>>
    /\ UNCHANGED <<ep, cap, pc, op, wakes>>

-----------------------------------------------------------------------------

Step(t) ==
    \/ Create(t) \/ DropFails(t) \/ HookResolve(t) \/ Acquire(t)
    \/ ReleaseSend(t) \/ ReleaseRecv(t) \/ OwnerClose(t) \/ OwnerCloseLocked(t)
    \/ StartSend(t) \/ StartReceive(t) \/ Check(t) \/ SendLocked(t)
    \/ ReceiveLocked(t) \/ Block(t) \/ Awake(t) \/ Install(t) \/ Commit(t)
    \/ Rollback(t) \/ Wake(t)
    \/ \E u \in Threads : Cancel(t, u)
    \/ \E k \in Kinds : Revoke(t, k) \/ \E u \in Threads : Delegate(t, u, k)

Next == \E t \in Threads : Step(t) \/ TimerTick(t)

Spec == Init /\ [][Next]_vars

(* A thread that runs goes on with the operation it is in, and the timer   *)
(* ticks.  Nobody has to start an operation.                               *)
Fairness ==
    \A t \in Threads : /\ WF_vars(pc[t] # "idle" /\ Step(t))
                       /\ WF_vars(TimerTick(t))

FairSpec == Spec /\ Fairness

-----------------------------------------------------------------------------

Reasons == {"OK", "WOULD_BLOCK", "CLOSED", "CANCELLED"}

Messages == [from : Pointers, ref : Nat, long : BOOLEAN, slots : 0 .. 2]

Endpoints == [inUse : BOOLEAN, state : {"FREE", "READY", "CLOSED"}, gen : Nat,
              sendRefs : Nat, recvRefs : Nat, claims : Nat,
              hasMsg : 0 .. 2, msg : Messages]

Capabilities == [ref : Nat, parent : Pointers]

Labels == {"idle", "hook", "hooklock", "drop", "check", "lock", "block", "asleep",
           "claimed", "commit", "rollback", "wake"}

Ops == [kind : Kinds \cup {"none", "acquire", "release", "close", "cancel"},
        which : Kinds, ref : Nat, timeout : {"zero", "finite", "never"},
        flag : BOOLEAN, slots : 0 .. 2, installed : 0 .. 2,
        result : {"OK", "NO_RESOURCES", "STALE"}, todo : Nat]

(* The shape of the endpoint, of the wait queues and of the threads; a     *)
(* thread that is about to call sched_wakeup has a thread to call it for.  *)
TypeOK ==
    /\ ep \in Endpoints
    /\ wq \in WaitQueues(Queues)
    /\ cap \in [Threads -> [Kinds -> Capabilities]]
    /\ pc \in [Threads -> Labels]
    /\ op \in [Threads -> Ops]
    /\ blocked \subseteq Threads
    /\ reason \in [Threads -> Reasons]
    /\ armed \in [Threads -> BOOLEAN]
    /\ expired \in [Threads -> BOOLEAN]
    /\ wakes \in [Threads -> Pointers]
    /\ \A t \in Threads : pc[t] = "wake" => wakes[t] # NULL

(* A message has at most one claimer: has_msg is 2 exactly while some      *)
(* thread is between claiming the message and resolving the claim,         *)
(* active_claims counts that thread, and no close, cancel or reclaim in    *)
(* between frees or reuses the slot under it.                              *)
ClaimExclusive ==
    LET claimers == {t \in Threads : pc[t] \in {"claimed", "commit"}}
    IN  /\ \A t, u \in claimers : t = u
        /\ ep.claims = 1 <=> claimers # {}
        /\ ep.claims \in {0, 1}
        /\ ep.hasMsg = 2 <=> ep.claims = 1
        /\ ep.claims = 1 => ep.inUse

(* The life cycle of the slot: it is free exactly when it is not in use; a *)
(* READY endpoint has a receive reference, so that some receiver may still *)
(* come for what senders queue; a message is queued only on a READY one    *)
(* (both ways of closing drop it, and a failed install puts it back only   *)
(* while the endpoint is READY).                                           *)
LifeCycle ==
    /\ ep.inUse <=> ep.state # "FREE"
    /\ ep.state = "READY" => ep.recvRefs > 0
    /\ ep.hasMsg = 1 => ep.state = "READY"
    /\ ep.hasMsg = 0 <=> ep.msg = NoMsg

(* As long as the timer does not cut them, the wait queues are what their  *)
(* pointers suggest: the walks that run with the endpoint lock held end,   *)
(* the tail is the last thread of the walk, and whoever is linked waits in *)
(* an operation of that queue, so that no stale waiter is woken for a      *)
(* later operation.                                                        *)
WaitQueuesSound ==
    \A q \in Queues :
        \E p \in Chain(wq, q) :
            /\ wq.tail[q] = IF p = <<>> THEN NULL ELSE p[Len(p)]
            /\ \A i \in 1 .. Len(p) : /\ pc[p[i]] \in {"block", "asleep"}
                                      /\ QueueOf(op[p[i]].kind) = q

(* A message is never overwritten or dropped on a live endpoint: a queued  *)
(* one leaves only into a claim or because the endpoint closes, a claimed  *)
(* one only by its claimer, and going back to queued it is the same.       *)
MessageStable ==
    [][ /\ ep.hasMsg = 1 => \/ ep'.msg = ep.msg /\ ep'.hasMsg \in {1, 2}
                            \/ ep'.state # "READY"
        /\ ep.hasMsg = 2 => \/ ep'.msg = ep.msg /\ ep'.hasMsg \in {1, 2}
                            \/ \E t \in Threads : pc[t] = "commit" /\ pc'[t] # "commit"
      ]_vars

(* A finite wait that the timer ends reports IPC_ERR_TIMEOUT, not the      *)
(* IPC_ERR_WOULD_BLOCK of an operation that did not wait.                  *)
TimeoutReported ==
    [][\A t \in Threads :
          pc[t] = "asleep" /\ pc'[t] = "idle" => reason[t] # "WOULD_BLOCK"]_vars

(* The timer unlinks the thread it times out and no other: whoever else    *)
(* could be reached from the head of a wait queue still can be.            *)
TimeoutUnlinksOne ==
    [][\A t \in Threads : t \in blocked /\ TimerTick(t) =>
          \A q \in Queues : \A p \in Chain(wq, q) :
              \A i \in 1 .. Len(p) : p[i] # t =>
                  \E r \in Chain(wq', q) : \E j \in 1 .. Len(r) : r[j] = p[i]]_vars

Quiet == \A t \in Threads : pc[t] = "idle" \/ t \in blocked

(* The rendezvous is never missed: when every thread is idle or BLOCKED,   *)
(* no receiver is BLOCKED on an endpoint that has a message queued.        *)
Rendezvous ==
    Quiet /\ ep.hasMsg = 1 =>
        \A t \in blocked : op[t].kind = "receive" => op[t].ref # ep.gen

(* Every message was sent through a capability for the incarnation of the  *)
(* endpoint that holds it.                                                 *)
OwnIncarnation == ep.hasMsg # 0 => ep.msg.ref = ep.gen

(* The slot is reclaimed only when no capability names its incarnation and *)
(* no thread waits on it.                                                  *)
ReclaimSettled ==
    [][ep.inUse /\ ~ep'.inUse =>
        \A t \in Threads : /\ \A k \in Kinds : cap[t][k].ref # ep.gen
                           /\ t \in blocked => op[t].ref # ep.gen]_vars

(* A message that a receiver has claimed does not stay claimed.            *)
ClaimResolved == ep.hasMsg = 2 ~> ep.hasMsg # 2

(* A send or a receive with a finite timeout returns.                      *)
FiniteReturns == \A t \in Threads : op[t].timeout = "finite" ~> pc[t] = "idle"
=============================================================================
