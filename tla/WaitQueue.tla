----------------------------- MODULE WaitQueue -----------------------------
(***************************************************************************)
(* wait_queue_t of the scheduler: a singly linked list of threads through  *)
(* thread->next_waiter with a head and a tail pointer, and the ordered     *)
(* removal endpoint_ipc.c adds to it.  The pointers are kept as pointers:  *)
(* the timer clears a next_waiter without taking the lock of the queue the *)
(* thread is linked in, so a queue is not always the list its head and     *)
(* tail suggest.                                                           *)
(*                                                                         *)
(* A value w describes the queues DOMAIN w.head:                           *)
(*   w.head[q], w.tail[q]  queue->head, queue->tail                        *)
(*   w.next[t]             t->next_waiter, shared by all queues            *)
(***************************************************************************)
EXTENDS Naturals, Sequences, FiniteSets

CONSTANTS Threads, NULL

ASSUME ThreadsAssumption == IsFiniteSet(Threads) /\ NULL \notin Threads

Pointers == Threads \cup {NULL}

WaitQueues(Queues) == [head : [Queues -> Pointers],
                       tail : [Queues -> Pointers],
                       next : [Threads -> Pointers]]

Unlinked(Queues) == [head |-> [q \in Queues |-> NULL],
                     tail |-> [q \in Queues |-> NULL],
                     next |-> [t \in Threads |-> NULL]]

(* Every list of distinct threads.                                         *)
Lists == UNION {{p \in [1 .. n -> Threads] :
                    \A i, j \in 1 .. n : i # j => p[i] # p[j]} :
                n \in 0 .. Cardinality(Threads)}

(* The list the walk from queue->head along next_waiter visits.  There is  *)
(* none when the pointers close a cycle: the walk would not end.           *)
Chain(w, q) ==
    {p \in Lists :
        /\ w.head[q] = IF p = <<>> THEN NULL ELSE p[1]
        /\ \A i \in 1 .. Len(p) :
              w.next[p[i]] = IF i = Len(p) THEN NULL ELSE p[i + 1]}

(* sched_wait_queue_init                                                   *)
InitQueues(w) == [head |-> [q \in DOMAIN w.head |-> NULL],
                  tail |-> [q \in DOMAIN w.tail |-> NULL],
                  next |-> w.next]

(* sched_wait_queue_enqueue                                                *)
Enqueue(w, q, t) ==
    LET empty == w.tail[q] = NULL
    IN  [head |-> IF empty THEN [w.head EXCEPT ![q] = t] ELSE w.head,
         tail |-> [w.tail EXCEPT ![q] = t],
         next |-> IF empty THEN [w.next EXCEPT ![t] = NULL]
                  ELSE [w.next EXCEPT ![t] = NULL, ![w.tail[q]] = t]]

(* x is what sched_wait_queue_dequeue returns for a queue whose walk is p: *)
(* the first thread that is BLOCKED, or NULL.                              *)
IsFirstBlocked(p, blocked, x) ==
    IF x = NULL THEN \A i \in 1 .. Len(p) : p[i] \notin blocked
    ELSE \E i \in 1 .. Len(p) :
            p[i] = x /\ x \in blocked /\ \A j \in 1 .. i - 1 : p[j] \notin blocked

(* Mutant: the last thread leaves and the tail still points to it.         *)
DequeueKeepsTail(w, q, x) ==
    LET rest == IF x = NULL THEN NULL ELSE w.next[x]
    IN  IF w.head[q] = NULL THEN w
        ELSE [head |-> [w.head EXCEPT ![q] = rest],
              tail |-> w.tail,
              next |-> IF x = NULL THEN w.next ELSE [w.next EXCEPT ![x] = NULL]]

(* The queue sched_wait_queue_dequeue leaves when it returns x.  Threads   *)
(* before x that are not BLOCKED are dropped with their links untouched;   *)
(* an empty queue keeps its tail.                                          *)
Dequeue(w, q, x) ==
    LET rest == IF x = NULL THEN NULL ELSE w.next[x]
    IN  IF w.head[q] = NULL THEN w
        ELSE [head |-> [w.head EXCEPT ![q] = rest],
              tail |-> IF rest = NULL THEN [w.tail EXCEPT ![q] = NULL] ELSE w.tail,
              next |-> IF x = NULL THEN w.next ELSE [w.next EXCEPT ![x] = NULL]]

(* l lists the BLOCKED threads of p in the order of p: what                *)
(* sched_wait_queue_dequeue returns, call after call, until it returns     *)
(* NULL.                                                                   *)
IsBlockedList(p, blocked, l) ==
    /\ {l[i] : i \in 1 .. Len(l)} = blocked \cap {p[i] : i \in 1 .. Len(p)}
    /\ \A i, j \in 1 .. Len(l), m, n \in 1 .. Len(p) :
          i < j /\ p[m] = l[i] /\ p[n] = l[j] => m < n

(* The queues after q has been dequeued to the end and every thread it     *)
(* returned pushed on the wake list top, which is linked through           *)
(* next_waiter too.  Both pointers of q are NULL then, unless it was empty *)
(* to begin with.                                                          *)
Drain(w, q, l, top) ==
    IF w.head[q] = NULL THEN w
    ELSE [head |-> [w.head EXCEPT ![q] = NULL],
          tail |-> [w.tail EXCEPT ![q] = NULL],
          next |-> [t \in Threads |->
                      IF \E i \in 2 .. Len(l) : l[i] = t
                      THEN l[(CHOOSE i \in 2 .. Len(l) : l[i] = t) - 1]
                      ELSE IF l # <<>> /\ l[1] = t THEN top
                      ELSE w.next[t]]]

DrainTop(l, top) == IF l = <<>> THEN top ELSE l[Len(l)]

(* ipc_wait_queue_remove, for a queue whose walk is p                      *)
Remove(w, q, p, t) ==
    LET At(i) ==
          LET prev == IF i = 1 THEN NULL ELSE p[i - 1]
          IN  [head |-> IF i = 1 THEN [w.head EXCEPT ![q] = w.next[t]] ELSE w.head,
               tail |-> IF w.tail[q] = t THEN [w.tail EXCEPT ![q] = prev] ELSE w.tail,
               next |-> IF i = 1 THEN [w.next EXCEPT ![t] = NULL]
                        ELSE [w.next EXCEPT ![prev] = w.next[t], ![t] = NULL]]
    IN  IF \E i \in 1 .. Len(p) : p[i] = t
        THEN At(CHOOSE i \in 1 .. Len(p) : p[i] = t)
        ELSE w

(* The queue after the timer has cleared t->next_waiter.                   *)
ClearNext(w, t) == [head |-> w.head, tail |-> w.tail,
                    next |-> [w.next EXCEPT ![t] = NULL]]
=============================================================================
