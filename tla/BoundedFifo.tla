---------------------------- MODULE BoundedFifo ----------------------------
(***************************************************************************)
(* What bh_mpsc_queue.h promises: a bounded queue in which a push takes    *)
(* effect at one moment between its call and its return, is refused only   *)
(* while the queue is full, and a pop hands out the oldest value.          *)
(***************************************************************************)
EXTENDS Naturals, Sequences

CONSTANTS Producers, Values, Capacity, NULL

VARIABLES items,     \* the values in the queue, oldest first
          arg,       \* the value a producer pushes
          outcome,   \* "busy" during a push, then its result
          got        \* the value handed out last

vars == <<items, arg, outcome, got>>

Init ==
    /\ items = <<>>
    /\ arg = [p \in Producers |-> NULL]
    /\ outcome = [p \in Producers |-> "none"]
    /\ got = NULL

Call(p, v) ==
    /\ outcome[p] # "busy"
    /\ arg' = [arg EXCEPT ![p] = v]
    /\ outcome' = [outcome EXCEPT ![p] = "busy"]
    /\ UNCHANGED <<items, got>>

Put(p) ==
    /\ outcome[p] = "busy" /\ Len(items) < Capacity
    /\ items' = Append(items, arg[p])
    /\ outcome' = [outcome EXCEPT ![p] = "ok"]
    /\ UNCHANGED <<arg, got>>

Refuse(p) ==
    /\ outcome[p] = "busy" /\ Len(items) = Capacity
    /\ outcome' = [outcome EXCEPT ![p] = "again"]
    /\ UNCHANGED <<items, arg, got>>

Get ==
    /\ items # <<>>
    /\ got' = Head(items)
    /\ items' = Tail(items)
    /\ UNCHANGED <<arg, outcome>>

Next ==
    \/ \E p \in Producers :
          \/ \E v \in Values : Call(p, v)
          \/ Put(p)
          \/ Refuse(p)
    \/ Get

Spec == Init /\ [][Next]_vars
=============================================================================
