----------------------------- MODULE MpscQueue -----------------------------
(***************************************************************************)
(* The bounded lock-free queue of ds/bh_mpsc_queue.c, one action for each  *)
(* access to shared memory.  The command and completion rings of the       *)
(* scheduler (sched/sched_core.c:1005-1119) are the same algorithm.        *)
(*                                                                         *)
(* Positions and sequence numbers are integers modulo Modulus, which       *)
(* stands for 2^32; Start is the position at which an idle queue stands    *)
(* after any number of pushes and pops.  calls bounds the pushes, below    *)
(* the 2^31 that would have to overtake a single push for its comparison   *)
(* of positions to fail.                                                   *)
(***************************************************************************)
EXTENDS Integers, Sequences, FiniteSets

CONSTANTS Producers, NULL,
          Capacity,    \* q->capacity, a power of two
          Modulus,     \* 2^32
          Starts,      \* positions of an idle queue
          MaxCalls     \* bound: pushes of a producer

ASSUME MpscAssumption ==
    /\ Capacity \in Nat /\ Capacity >= 2
    /\ Modulus \in Nat /\ Modulus % 2 = 0
    /\ Modulus % Capacity = 0 /\ Modulus >= 4 * Capacity
    /\ Starts \subseteq 0 .. Modulus - 1
    /\ IsFiniteSet(Producers) /\ MaxCalls \in Nat
    /\ 2 * (MaxCalls * Cardinality(Producers) + Capacity) < Modulus
    /\ NULL \notin Producers

VARIABLES head, tail, seq, value,        \* the queue
          at, pos, arg, ret, calls,      \* the producers
          consumer, got                  \* the consumer and *out_value

queue == <<head, tail, seq, value>>
vars == <<queue, at, pos, arg, ret, calls, consumer, got>>

Positions == 0 .. Modulus - 1
Indices == 0 .. Capacity - 1
Values == Producers \X (1 .. MaxCalls)

At(k) == k % Modulus
SlotOf(k) == k % Capacity

(* (int32_t)(a - b) *)
Diff(a, b) ==
    LET d == At(a - b) IN IF d >= Modulus \div 2 THEN d - Modulus ELSE d

(* The position that slot i carries next in an idle queue at start.        *)
NextAt(start, i) == At(start + ((i - start) % Capacity))

(* bh_mpsc_queue_init, and any later idle moment                           *)
Init ==
    /\ head \in Starts
    /\ tail = head
    /\ seq = [i \in Indices |-> NextAt(head, i)]
    /\ value = [i \in Indices |-> NULL]
    /\ at = [p \in Producers |-> "idle"]
    /\ pos = [p \in Producers |-> 0]
    /\ arg = [p \in Producers |-> NULL]
    /\ ret = [p \in Producers |-> "none"]
    /\ calls = [p \in Producers |-> 0]
    /\ consumer = [at |-> "idle", value |-> NULL]
    /\ got = NULL

-----------------------------------------------------------------------------

PushCall(p, v) ==
    /\ at[p] = "idle"
    /\ arg' = [arg EXCEPT ![p] = v]
    /\ at' = [at EXCEPT ![p] = "load"]
    /\ UNCHANGED <<queue, pos, ret, consumer, got>>

PushLoad(p) ==
    /\ at[p] = "load"
    /\ pos' = [pos EXCEPT ![p] = head]
    /\ at' = [at EXCEPT ![p] = "test"]
    /\ UNCHANGED <<queue, arg, ret, calls, consumer, got>>

(* Mutant: a position that another producer has taken counts as full. *)
PushTestAnyDiff(p) ==
    /\ at[p] = "test"
    /\ LET d == Diff(seq[SlotOf(pos[p])], pos[p]) IN
       /\ at' = [at EXCEPT ![p] = IF d = 0 THEN "cas" ELSE "idle"]
       /\ ret' = IF d # 0 THEN [ret EXCEPT ![p] = "again"] ELSE ret
    /\ UNCHANGED <<queue, pos, arg, calls, consumer, got>>

(* diff == 0: ready to be written; diff < 0: full; diff > 0: an old pos    *)
PushTest(p) ==
    /\ at[p] = "test"
    /\ LET d == Diff(seq[SlotOf(pos[p])], pos[p]) IN
       /\ at' = [at EXCEPT ![p] = IF d = 0 THEN "cas"
                                  ELSE IF d < 0 THEN "idle" ELSE "load"]
       /\ ret' = IF d < 0 THEN [ret EXCEPT ![p] = "again"] ELSE ret
    /\ UNCHANGED <<queue, pos, arg, calls, consumer, got>>

(* Mutant: the reservation is a plain store. *)
PushReserveBlind(p) ==
    /\ at[p] = "cas"
    /\ head' = At(pos[p] + 1)
    /\ at' = [at EXCEPT ![p] = "write"]
    /\ UNCHANGED <<tail, seq, value, pos, arg, ret, calls, consumer, got>>

PushReserve(p) ==
    /\ at[p] = "cas" /\ head = pos[p]
    /\ head' = At(pos[p] + 1)
    /\ at' = [at EXCEPT ![p] = "write"]
    /\ UNCHANGED <<tail, seq, value, pos, arg, ret, calls, consumer, got>>

PushLost(p) ==
    /\ at[p] = "cas" /\ head # pos[p]
    /\ pos' = [pos EXCEPT ![p] = head]
    /\ at' = [at EXCEPT ![p] = "test"]
    /\ UNCHANGED <<queue, arg, ret, calls, consumer, got>>

PushWrite(p) ==
    /\ at[p] = "write"
    /\ value' = [value EXCEPT ![SlotOf(pos[p])] = arg[p]]
    /\ at' = [at EXCEPT ![p] = "publish"]
    /\ UNCHANGED <<head, tail, seq, pos, arg, ret, calls, consumer, got>>

(* Mutant: the release store leaves the sequence number of the lap. *)
PushPublishSame(p) ==
    /\ at[p] = "publish"
    /\ seq' = [seq EXCEPT ![SlotOf(pos[p])] = pos[p]]
    /\ at' = [at EXCEPT ![p] = "idle"]
    /\ ret' = [ret EXCEPT ![p] = "ok"]
    /\ UNCHANGED <<head, tail, value, pos, arg, calls, consumer, got>>

PushPublish(p) ==
    /\ at[p] = "publish"
    /\ seq' = [seq EXCEPT ![SlotOf(pos[p])] = At(pos[p] + 1)]
    /\ at' = [at EXCEPT ![p] = "idle"]
    /\ ret' = [ret EXCEPT ![p] = "ok"]
    /\ UNCHANGED <<head, tail, value, pos, arg, calls, consumer, got>>

(* A pop that finds diff # 0 returns K_ERR_AGAIN and changes nothing.      *)
PopTake ==
    /\ consumer.at = "idle"
    /\ Diff(seq[SlotOf(tail)], At(tail + 1)) = 0
    /\ tail' = At(tail + 1)
    /\ consumer' = [at |-> "release", value |-> value[SlotOf(tail)]]
    /\ UNCHANGED <<head, seq, value, at, pos, arg, ret, calls, got>>

PopRelease ==
    /\ consumer.at = "release"
    /\ seq' = [seq EXCEPT ![SlotOf(At(tail - 1))] = At(tail - 1 + Capacity)]
    /\ consumer' = [consumer EXCEPT !.at = "idle"]
    /\ got' = consumer.value
    /\ UNCHANGED <<head, tail, value, at, pos, arg, ret, calls>>

Push(p) ==
    \/ PushLoad(p)
    \/ PushTest(p)
    \/ PushReserve(p)
    \/ PushLost(p)
    \/ PushWrite(p)
    \/ PushPublish(p)

NewPush(p) ==
    /\ calls[p] < MaxCalls
    /\ calls' = [calls EXCEPT ![p] = @ + 1]
    /\ PushCall(p, <<p, calls[p] + 1>>)

Next ==
    \/ \E p \in Producers : NewPush(p) \/ Push(p)
    \/ PopTake
    \/ PopRelease

Spec == Init /\ [][Next]_vars

(* A producer inside a push goes on, and the consumer keeps polling.       *)
FairSpec ==
    /\ Spec
    /\ \A p \in Producers : WF_vars(Push(p))
    /\ WF_vars(PopTake \/ PopRelease)

-----------------------------------------------------------------------------

TypeOK ==
    /\ head \in Positions /\ tail \in Positions
    /\ seq \in [Indices -> Positions]
    /\ value \in [Indices -> Values \cup {NULL}]
    /\ at \in [Producers -> {"idle", "load", "test", "cas", "write", "publish"}]
    /\ pos \in [Producers -> Positions]
    /\ arg \in [Producers -> Values \cup {NULL}]
    /\ ret \in [Producers -> {"none", "ok", "again"}]
    /\ calls \in [Producers -> 0 .. MaxCalls]
    /\ consumer \in [at : {"idle", "release"}, value : Values \cup {NULL}]
    /\ got \in Values \cup {NULL}

(* The producers that have reserved a slot and not published it.           *)
Writing == {p \in Producers : at[p] \in {"write", "publish"}}

(* The oldest position whose slot has not been given back.                 *)
Oldest == IF consumer.at = "release" THEN At(tail - 1) ELSE tail

(* What position k holds: the published value, or what the producer that   *)
(* reserved it is about to publish.                                        *)
ValueAt(k) ==
    IF \E p \in Writing : pos[p] = k
    THEN arg[CHOOSE p \in Writing : pos[p] = k]
    ELSE value[SlotOf(k)]

Contents == [i \in 1 .. At(head - Oldest) |-> ValueAt(At(Oldest + i - 1))]

Outcome(p) ==
    CASE at[p] = "idle" -> ret[p]
      [] p \in Writing -> "ok"
      [] OTHER -> "busy"

Fifo == INSTANCE BoundedFifo
            WITH items <- Contents, outcome <- [p \in Producers |-> Outcome(p)]

(* bh_mpsc_queue_push and _pop implement a bounded FIFO: reservations are  *)
(* the order of delivery, across the wrap of the positions; a push is      *)
(* refused only while Capacity values are in the queue; a pop hands out    *)
(* the oldest value and never one that is reserved and not yet written.    *)
ImplementsFifo == Fifo!Spec

(* The fields have their types, and a slot that a producer has reserved is *)
(* its own until it publishes: no other producer writes it and the         *)
(* consumer does not read it (bh_mpsc_queue_push, bh_mpsc_queue_pop).      *)
SlotExclusive ==
    TypeOK /\ \A p \in Writing :
        /\ \A r \in Writing \ {p} : SlotOf(pos[r]) # SlotOf(pos[p])
        /\ consumer.at = "release" => SlotOf(pos[p]) # SlotOf(At(tail - 1))

(* Every value for which a push reserved a slot is handed out.             *)
Delivered ==
    \A p \in Producers : \A v \in Values :
        (p \in Writing /\ arg[p] = v) ~> (got = v)
=============================================================================
