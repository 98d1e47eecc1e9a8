---------------------------- MODULE TlbShootdown ----------------------------
(***************************************************************************)
(* Unmapping a page and invalidating it on the other cores:                *)
(* mm/tlb/tlb_shootdown.c, mm/tlb/tlb_pending.c, the system calls          *)
(* that map and unmap a memory object (native_syscall_handlers.c), and the *)
(* switch of address spaces (mm/vm/aspace/aspace_switch.c).                *)
(*                                                                         *)
(* Three ways to reach another core, by build and by what is linked:       *)
(*   "transport"  messages that may be lost, late and out of order;        *)
(*   "mailbox"    the legacy fallback, one slot per core that the target   *)
(*                reads without its lock, and one response slot per core;  *)
(*   "none"       no transport and no fallback.                            *)
(* A core makes one call at a time, so that it uses one pending slot.      *)
(***************************************************************************)
EXTENDS Integers, FiniteSets

CONSTANTS Cores, Pages, Aspaces,
          AspaceOf,   \* the address space of a page
          Setups,     \* records: mode, policy (of a failure) and the bounds
                      \* calls (per core), pages, movers (cores that switch
                      \* address spaces) and start (where a core begins)
          Retries,    \* BHARAT_TLB_MAX_RETRIES
          MaxGen,     \* bound: generations of a pending entry
          NONE

ASSUME TlbAssumption ==
    /\ AspaceOf \in [Pages -> Aspaces]
    /\ Retries \in Nat /\ MaxGen \in Nat
    /\ NONE \notin Pages \cup Cores \cup {"ok"}
    /\ \A s \in Setups : s.calls \in [Cores -> 0..MaxGen] /\ s.pages \subseteq Pages

VARIABLES env,        \* the build and the load: a member of Setups
          pte,        \* pages that are mapped
          mapped,     \* cpu_map_count of the page's object is not zero
          tlb,        \* translations a core has cached
          cur,        \* current_as_id
          sw,         \* where a core is in a switch of address spaces
          mask,       \* active_mask of an address space
          poisoned,   \* ASPACE_STATE_POISONED
          call,       \* the call of a core and its pending entry
          net,        \* messages under way
          mbox,       \* g_mm_mailboxes
          resp,       \* g_tlb_legacy_resps
          tgt         \* where a core is in handling its mailbox

space == <<pte, mapped, tlb, cur, sw, mask, poisoned>>
wires == <<net, mbox, resp, tgt>>
vars == <<env, space, call, wires>>

Ids == [from : Cores, gen : 1..MaxGen]
Messages == [kind : {"req"}, to : Cores, page : Pages, id : Ids]
            \cup [kind : {"rsp"}, to : Cores, core : Cores, id : Ids]
Calls == [pc : {"idle", "start", "send", "wait"}, page : Pages \cup {NONE},
          gen : 0..MaxGen, targets : SUBSET Cores, todo : SUBSET Cores,
          ack : SUBSET Cores, tries : 0..Retries, ret : {NONE, "ok", "error"}]

(* One type invariant: a pending entry never holds an acknowledgement of a *)
(* core that is not among its targets.                                     *)
TypeOK ==
    /\ env \in Setups
    /\ pte \subseteq Pages /\ mapped \subseteq Pages
    /\ tlb \in [Cores -> SUBSET Pages]
    /\ cur \in [Cores -> Aspaces]
    /\ sw \in [Cores -> {"no", "out", "set", "in"}]
    /\ mask \in [Aspaces -> SUBSET Cores]
    /\ poisoned \subseteq Aspaces
    /\ call \in [Cores -> Calls]
    /\ \A c \in Cores : call[c].ack \subseteq call[c].targets /\ c \notin call[c].targets
    /\ net \subseteq Messages
    /\ mbox \in [Cores -> [valid : BOOLEAN, lock : Cores \cup {NONE}, from : Cores \cup {NONE},
                           page : Pages \cup {NONE}, id : Ids \cup {NONE}]]
    /\ resp \in [Cores -> [valid : BOOLEAN, id : Ids \cup {NONE}, core : Cores \cup {NONE}]]
    /\ tgt \in [Cores -> [pc : {"idle", "seq", "id", "core", "clear"},
                          page : Pages \cup {NONE}, id : Ids \cup {NONE},
                          to : Cores \cup {NONE}]]

IdleCall == [pc |-> "idle", page |-> NONE, gen |-> 0, targets |-> {}, todo |-> {},
             ack |-> {}, tries |-> 0, ret |-> NONE]
IdleTgt == [pc |-> "idle", page |-> NONE, id |-> NONE, to |-> NONE]

(* All pages are mapped, and every core runs some address space.           *)
Init ==
    /\ env \in Setups
    /\ pte = env.pages /\ mapped = env.pages /\ poisoned = {}
    /\ tlb = [c \in Cores |-> {}]
    /\ cur \in {f \in [Cores -> Aspaces] : \A c \in Cores : f[c] \in env.start[c]}
    /\ sw = [c \in Cores |-> "no"]
    /\ mask = [a \in Aspaces |-> {c \in Cores : cur[c] = a}]
    /\ call = [c \in Cores |-> IdleCall]
    /\ net = {}
    /\ mbox = [c \in Cores |-> [valid |-> FALSE, lock |-> NONE, from |-> NONE,
                              page |-> NONE, id |-> NONE]]
    /\ resp = [c \in Cores |-> [valid |-> FALSE, id |-> NONE, core |-> NONE]]
    /\ tgt = [c \in Cores |-> IdleTgt]

-----------------------------------------------------------------------------
(* Running and switching address spaces                                    *)

(* What a core does when it is not in the middle of handling its mailbox.  *)
Free(c) == tgt[c].pc = "idle"
Running(c) == Free(c) /\ sw[c] = "no" /\ call[c].pc = "idle"
In(c, pc) == Free(c) /\ call[c].pc = pc

(* Messages are handled in a trap, in the wait of a call and just before   *)
(* the root is loaded; elsewhere interrupts are off.                       *)
Polls(c) == Free(c) /\ call[c].pc \in {"idle", "wait"} /\ sw[c] \in {"no", "in"}

(* The core runs and caches a mapped page of its address space.            *)
Touch(c, p) ==
    /\ Running(c) /\ cur[c] = AspaceOf[p]
    /\ p \in pte /\ p \notin tlb[c]
    /\ tlb' = [tlb EXCEPT ![c] = @ \cup {p}]
    /\ UNCHANGED <<env, pte, mapped, cur, sw, mask, poisoned, call, wires>>

(* mm_switch_active_aspace: the mask of the old one, current_as_id, the    *)
(* mask of the new one; then the root is loaded, which drops what is       *)
(* cached.  Activating a poisoned one fails and goes unnoticed.            *)
SwitchOut(c) ==
    /\ c \in env.movers /\ Running(c)
    /\ mask' = [mask EXCEPT ![cur[c]] = @ \ {c}]
    /\ sw' = [sw EXCEPT ![c] = "out"]
    /\ UNCHANGED <<env, pte, mapped, tlb, cur, poisoned, call, wires>>

SwitchSet(c, a) ==
    /\ Free(c) /\ sw[c] = "out" /\ a # cur[c]
    /\ cur' = [cur EXCEPT ![c] = a]
    /\ sw' = [sw EXCEPT ![c] = "set"]
    /\ UNCHANGED <<env, pte, mapped, tlb, mask, poisoned, call, wires>>

SwitchIn(c) ==
    /\ Free(c) /\ sw[c] = "set"
    /\ mask' = IF cur[c] \in poisoned THEN mask ELSE [mask EXCEPT ![cur[c]] = @ \cup {c}]
    /\ sw' = [sw EXCEPT ![c] = "in"]
    /\ UNCHANGED <<env, pte, mapped, tlb, cur, poisoned, call, wires>>

SwitchLoad(c) ==
    /\ Free(c) /\ sw[c] = "in"
    /\ tlb' = [tlb EXCEPT ![c] = {}]
    /\ sw' = [sw EXCEPT ![c] = "no"]
    /\ UNCHANGED <<env, pte, mapped, cur, mask, poisoned, call, wires>>

-----------------------------------------------------------------------------
(* The caller                                                              *)

Set(c, r) == call' = [call EXCEPT ![c] = r]

(* The entry is released; the result stays until the next call.            *)
Returned(c, ret) ==
    [IdleCall EXCEPT !.page = call[c].page, !.gen = call[c].gen, !.ret = ret]

(* bh_sys_hmem_unmap_cpu takes the lock of the object, removes the         *)
(* translation and calls tlb_invalidate_all.                               *)
Unmap(c, p) ==
    /\ Running(c) /\ call[c].gen < env.calls[c]
    /\ p \in pte
    /\ pte' = pte \ {p}
    /\ Set(c, [IdleCall EXCEPT !.pc = "start", !.page = p, !.gen = call[c].gen])
    /\ UNCHANGED <<env, mapped, tlb, cur, sw, mask, poisoned, wires>>

(* bh_sys_hmem_map_cpu.  What earlier calls returned for the page is       *)
(* history then.                                                           *)
Map(c, p) ==
    /\ env.calls[c] > 0 /\ Running(c) /\ p \in env.pages \ mapped
    /\ pte' = pte \cup {p}
    /\ mapped' = mapped \cup {p}
    /\ call' = [d \in Cores |-> IF call[d].page = p
                  THEN [IdleCall EXCEPT !.gen = call[d].gen] ELSE call[d]]
    /\ UNCHANGED <<env, tlb, cur, sw, mask, poisoned, wires>>

(* The end of a call: on success the local translation goes too; on        *)
(* failure the address space may be poisoned.  The system call does not    *)
(* look at the result, and counts the object as unmapped.                  *)
Succeed(c) ==
    /\ Set(c, Returned(c, "ok"))
    /\ mapped' = mapped \ {call[c].page}
    /\ tlb' = IF cur[c] = AspaceOf[call[c].page]
                THEN [tlb EXCEPT ![c] = @ \ {call[c].page}] ELSE tlb
    /\ UNCHANGED poisoned

Refuse(c) ==
    /\ Set(c, Returned(c, "error"))
    /\ mapped' = mapped \ {call[c].page}
    /\ UNCHANGED <<tlb, poisoned>>

Fail(c) ==
    /\ Set(c, Returned(c, "error"))
    /\ mapped' = mapped \ {call[c].page}
    /\ poisoned' = IF env.policy = "isolate" THEN poisoned \cup {AspaceOf[call[c].page]}
                                         ELSE poisoned
    /\ UNCHANGED tlb

(* vmm_send_tlb_invalidate_ex up to tlb_pending_alloc.  The mask is read   *)
(* once; the entry gets the next generation.                               *)
Start(c) ==
    LET as == AspaceOf[call[c].page]
        targets == mask[as] \ {c} IN
    /\ In(c, "start")
    /\ IF as \in poisoned THEN Refuse(c)
       ELSE IF targets = {} THEN Succeed(c)
       ELSE /\ Set(c, [call[c] EXCEPT !.pc = "send", !.gen = @ + 1,
                                      !.targets = targets, !.todo = targets])
            /\ UNCHANGED <<tlb, poisoned, mapped>>
    /\ UNCHANGED <<env, pte, cur, sw, mask, wires>>

Id(c) == [from |-> c, gen |-> call[c].gen]
Request(c, d) == [kind |-> "req", to |-> d, page |-> call[c].page, id |-> Id(c)]
Waiting(c) == [call[c] EXCEPT !.pc = "wait", !.todo = {}]

(* The dispatch loop over the cores still missing.                         *)
SendTransport(c) ==
    /\ In(c, "send") /\ env.mode = "transport"
    /\ net' = net \cup {Request(c, d) : d \in call[c].todo}
    /\ Set(c, Waiting(c))
    /\ UNCHANGED <<env, space, mbox, resp, tgt>>

SendNowhere(c) ==
    /\ In(c, "send") /\ env.mode = "none"
    /\ Fail(c)
    /\ UNCHANGED <<env, pte, cur, sw, mask, wires>>

(* tlb_send_via_mailbox_legacy, under the lock of the mailbox, which       *)
(* the reader does not take: the payload first, then seq and valid.        *)
SendPayload(c, d) ==
    /\ In(c, "send") /\ env.mode = "mailbox"
    /\ d \in call[c].todo /\ mbox[d].lock = NONE
    /\ \A e \in Cores : mbox[e].lock # c
    /\ mbox' = [mbox EXCEPT ![d] = [@ EXCEPT !.lock = c, !.from = c,
                                             !.page = call[c].page]]
    /\ UNCHANGED <<env, space, call, net, resp, tgt>>

SendSeq(c, d) ==
    /\ In(c, "send") /\ mbox[d].lock = c
    /\ mbox' = [mbox EXCEPT ![d] = [@ EXCEPT !.lock = NONE, !.id = Id(c),
                                             !.valid = TRUE]]
    /\ Set(c, [call[c] EXCEPT !.todo = @ \ {d}])
    /\ UNCHANGED <<env, space, net, resp, tgt>>

SendDone(c) ==
    /\ In(c, "send") /\ env.mode = "mailbox" /\ call[c].todo = {}
    /\ Set(c, Waiting(c))
    /\ UNCHANGED <<env, space, wires>>

(* The wait: complete, or the deadline passes first and the missing cores  *)
(* are asked again; after the last attempt the call fails.                 *)
CompleteAny(c) ==
    /\ In(c, "wait") /\ call[c].ack # {}
    /\ Succeed(c)
    /\ UNCHANGED <<env, pte, cur, sw, mask, wires>>

Complete(c) ==
    /\ In(c, "wait") /\ call[c].targets \subseteq call[c].ack
    /\ Succeed(c)
    /\ UNCHANGED <<env, pte, cur, sw, mask, wires>>

RetryForever(c) ==
    /\ In(c, "wait")
    /\ Set(c, [call[c] EXCEPT !.pc = "send", !.todo = call[c].targets \ call[c].ack])
    /\ UNCHANGED <<env, space, wires>>

Timeout(c) ==
    /\ In(c, "wait")
    /\ IF call[c].tries + 1 < Retries
         THEN /\ Set(c, [call[c] EXCEPT !.pc = "send", !.tries = @ + 1,
                                        !.todo = call[c].targets \ call[c].ack])
              /\ UNCHANGED <<tlb, poisoned, mapped>>
         ELSE Fail(c)
    /\ UNCHANGED <<env, pte, cur, sw, mask, wires>>

(* tlb_pending_ack on the core the answer is for.                          *)
AckedAnyGen(c, id, d) ==
    IF /\ call[c].pc \in {"send", "wait"} /\ id # NONE /\ id.from = c
       /\ d \in call[c].targets
      THEN [call EXCEPT ![c].ack = @ \cup {d}] ELSE call

Acked(c, id, d) ==
    IF /\ call[c].pc \in {"send", "wait"} /\ id # NONE /\ id = Id(c)
       /\ d \in call[c].targets
      THEN [call EXCEPT ![c].ack = @ \cup {d}] ELSE call

-----------------------------------------------------------------------------
(* The target: vmm_process_urpc_messages                                   *)

(* monitor_handle_tlb_invalidate: nothing to do for an address space that  *)
(* the core does not run.                                                  *)
Flushed(d, p) ==
    IF cur[d] = AspaceOf[p] THEN [tlb EXCEPT ![d] = @ \ {p}] ELSE tlb

ReceiveRequest(d, m) ==
    /\ m.kind = "req" /\ m.to = d /\ Polls(d)
    /\ tlb' = Flushed(d, m.page)
    /\ net' = (net \ {m}) \cup {[kind |-> "rsp", to |-> m.id.from, core |-> d, id |-> m.id]}
    /\ UNCHANGED <<env, pte, mapped, cur, sw, mask, poisoned, call, mbox, resp, tgt>>

ReceiveResponse(c, m) ==
    /\ m.kind = "rsp" /\ m.to = c /\ Polls(c)
    /\ net' = net \ {m}
    /\ call' = Acked(c, m.id, m.core)
    /\ UNCHANGED <<env, space, mbox, resp, tgt>>

Lose(m) ==
    /\ net' = net \ {m}
    /\ UNCHANGED <<env, space, call, mbox, resp, tgt>>

(* The mailbox: payload, seq, flush, tlb_send_completion, valid.  None of  *)
(* the reads takes the lock, so that a sender may come between.            *)
At(d, pc) == tgt[d].pc = pc
Go(d, r) == tgt' = [tgt EXCEPT ![d] = r]

ReadPayload(d) ==
    /\ Polls(d) /\ mbox[d].valid
    /\ Go(d, [tgt[d] EXCEPT !.pc = "seq", !.page = mbox[d].page])
    /\ UNCHANGED <<env, space, call, net, mbox, resp>>

ReadSeq(d) ==
    /\ At(d, "seq")
    /\ tlb' = Flushed(d, tgt[d].page)
    /\ Go(d, [tgt[d] EXCEPT !.pc = "id", !.id = mbox[d].id])
    /\ UNCHANGED <<env, pte, mapped, cur, sw, mask, poisoned, call, net, mbox, resp>>

RespondId(d) ==
    /\ At(d, "id")
    /\ resp' = [resp EXCEPT ![mbox[d].from].id = tgt[d].id]
    /\ Go(d, [tgt[d] EXCEPT !.pc = "core", !.to = mbox[d].from])
    /\ UNCHANGED <<env, space, call, net, mbox>>

RespondCore(d) ==
    /\ At(d, "core")
    /\ resp' = [resp EXCEPT ![tgt[d].to].core = d, ![tgt[d].to].valid = TRUE]
    /\ Go(d, [tgt[d] EXCEPT !.pc = "clear"])
    /\ UNCHANGED <<env, space, call, net, mbox>>

ClearMailbox(d) ==
    /\ At(d, "clear") /\ mbox[d].lock = NONE
    /\ mbox' = [mbox EXCEPT ![d].valid = FALSE]
    /\ Go(d, IdleTgt)
    /\ UNCHANGED <<env, space, call, net, resp>>

(* The caller's side: a valid response is taken and cleared.               *)
TakeResponse(c) ==
    /\ resp[c].valid /\ Polls(c)
    /\ call' = Acked(c, resp[c].id, resp[c].core)
    /\ resp' = [resp EXCEPT ![c].valid = FALSE]
    /\ UNCHANGED <<env, space, net, mbox, tgt>>

-----------------------------------------------------------------------------
Switch(c) ==
    \/ SwitchOut(c)
    \/ \E a \in Aspaces : SwitchSet(c, a)
    \/ SwitchIn(c)
    \/ SwitchLoad(c)

(* What a core goes on with on its own: its call, polling meanwhile.       *)
Progress(c) ==
    \/ Start(c)
    \/ SendTransport(c) \/ SendNowhere(c)
    \/ \E d \in Cores : SendPayload(c, d) \/ SendSeq(c, d)
    \/ SendDone(c)
    \/ Complete(c) \/ Timeout(c)

Handle(c) ==
    \/ \E m \in net : ReceiveRequest(c, m) \/ ReceiveResponse(c, m)
    \/ ReadPayload(c) \/ ReadSeq(c) \/ RespondId(c) \/ RespondCore(c)
    \/ ClearMailbox(c) \/ TakeResponse(c)

Next ==
    \/ \E c \in Cores : Switch(c) \/ Progress(c) \/ Handle(c)
    \/ \E c \in Cores, p \in Pages : Touch(c, p) \/ Unmap(c, p) \/ Map(c, p)
    \/ \E m \in net : Lose(m)

Spec == Init /\ [][Next]_vars

(* A core in a call goes on with it and its deadline passes; a core that   *)
(* has begun to handle its mailbox goes on.  Nothing is said of messages.  *)
Finish(c) == ReadSeq(c) \/ RespondId(c) \/ RespondCore(c) \/ ClearMailbox(c)
FairSpec == Spec /\ \A c \in Cores : WF_vars(Progress(c)) /\ WF_vars(Finish(c))

-----------------------------------------------------------------------------
(* A core can use a cached translation unless it is on its way to loading  *)
(* another address space.                                                  *)
Usable(c, p) == p \in tlb[c] /\ sw[c] = "no"

(* An acknowledgement that tlb_pending_ack has recorded means that this    *)
(* core no longer has the page of this very call: late answers of earlier  *)
(* calls and attempts do not count (T2).                                   *)
AckMeansFlushed ==
    \A c \in Cores : \A d \in call[c].ack : ~Usable(d, call[c].page)

(* The fields have their types, and where messages carry requests and      *)
(* answers, an acknowledgement means the same (tlb_pending_ack compares    *)
(* the generation of the entry).                                           *)
MessageAckMeansFlushed == TypeOK /\ (env.mode = "transport" => AckMeansFlushed)

(* When tlb_invalidate_all returns success, no core can use the page, not  *)
(* even one that has switched to the address space since the mask was      *)
(* read, or that acknowledged in the middle of a switch.                   *)
SuccessMeansGone ==
    env.mode # "mailbox" =>
      \A c \in Cores : call[c].ret = "ok" =>
        \A d \in Cores : ~Usable(d, call[c].page)

(* T1: an object that counts as unmapped can be used by no core, unless    *)
(* its address space has been isolated.                                    *)
UnmappedMeansGone ==
    \A p \in env.pages \ mapped :
      AspaceOf[p] \in poisoned \/ \A d \in Cores : ~Usable(d, p)

(* vm_debug_validate_active_tracking, which every switch of a debug build  *)
(* runs for all cores: a core's address space has the core in its mask.    *)
ActiveTracked == \A c \in Cores : c \in mask[cur[c]]

(* Every shootdown returns, whatever becomes of its messages, and although *)
(* two cores may each wait for the other.                                  *)
CallsReturn == \A c \in Cores : call[c].pc # "idle" ~> call[c].pc = "idle"
=============================================================================
