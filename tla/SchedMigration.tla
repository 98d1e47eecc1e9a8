--------------------------- MODULE SchedMigration ---------------------------
(***************************************************************************)
(* Run queues, commands between cores and thread migration:                *)
(* sched/sched_core.c, sched_migrate.c, sched_runqueue.c, sched_policy.c,  *)
(* sched_wait.c, sched_completion_protocol.c and parts of sched.c.         *)
(*                                                                         *)
(* A core runs its threads (at "run"), is between the check and the claim  *)
(* of sched_migrate_task ("migrate") or is in sched_reschedule ("poll"):   *)
(* it settles its finished commands, drains its command ring and picks the *)
(* next thread.  A command is a slot of the origin, an envelope in the     *)
(* target's ring, and a completion cell that the target stores into.       *)
(*                                                                         *)
(* The owner of a thread is always its home core: COMMIT_IDENTITY is the   *)
(* only step that would change it, and the owner submits that command to   *)
(* itself, which sched_remote_submit refuses.  The handlers of             *)
(* COMMIT_IDENTITY, ACTIVATE and QUERY_STATE and what follows their        *)
(* answers are therefore never reached, and are left out.                  *)
(***************************************************************************)
EXTENDS Integers, FiniteSetsExt, SequencesExt

CONSTANTS Cores, Threads, Home, Prio,
          Migrators,   \* the cores that call sched_migrate_task for a thread
          Wakers,      \* the cores that wake it; if none, it does not block
          Balancer,    \* the core whose tick calls sched_balance_once
          RingCap, EntityCap,
          Uses,        \* the outbound slots of a core; bound: uses of each
          MaxEpoch,    \* bound: migrations of each thread
          NONE

VARIABLES th,     \* thread and its entity
          rq,     \* run queue of a core
          resv,   \* entities reserved on a core for threads of other cores
          out,    \* outbound_cmds
          cell,   \* completions
          ring,   \* remote.cmd_ring
          ans,    \* a checked answer whose stores are still to come
          at

vars == <<th, rq, resv, out, cell, ring, ans, at>>

Idle == NONE
Epochs == 0..Max(Range(MaxEpoch))
Slots == [c \in Cores |-> DOMAIN Uses[c]]
Gens == 0..Max(UNION {Range(Uses[c]) : c \in Cores})
Types == {"reserve", "stage", "prepare", "wake", "steal"}
Terminal == {"acked", "failed", "timeout"}

Commands == [state : {"empty", "reserved", "pending"} \cup Terminal, gen : Gens,
             type : Types \cup {NONE}, thread : Threads \cup {NONE},
             epoch : Epochs, late : BOOLEAN]
Envelopes == [from : Cores, slot : UNION Range(Slots), gen : Gens, type : Types,
              thread : Threads \cup {NONE}, epoch : Epochs]

(* One type invariant: rings and lists stay within their pools.            *)
TypeOK ==
    /\ th \in [Threads -> [state : {"ready", "running", "blocked"},
                           onq : BOOLEAN,
                           m : {"none", "reserve", "prepared", "failed"},
                           epoch : Epochs, target : Cores]]
    /\ \A c \in Cores :
        /\ rq[c].ready \in Seq(Threads) /\ Len(rq[c].ready) <= Cardinality(Threads)
        /\ rq[c].bits \subseteq {Prio[t] : t \in Threads}
        /\ rq[c].count \in 0..Cardinality(Threads)
        /\ rq[c].current \in Threads \cup {Idle}
        /\ ring[c] \in Seq(Envelopes) /\ Len(ring[c]) <= RingCap
        /\ Cardinality({t \in Threads : resv[c][t].epoch # 0}) <= EntityCap
    /\ resv \in [Cores -> [Threads -> [epoch : Epochs, staged : BOOLEAN]]]
    /\ \A c \in Cores :
        /\ out[c] \in [Slots[c] -> Commands]
        /\ cell[c] \in [Slots[c] -> [state : {"empty", "armed", "published"},
                                     gen : Gens, kind : {"ack", "nack"}]]
    /\ ans \in [Cores -> [to : Cores, slot : UNION Range(Slots), gen : Gens,
                          kind : {"ack", "nack"}] \cup {NONE}]
    /\ at \in [Cores -> [pc : {"run", "poll", "migrate"},
                         thread : Threads \cup {NONE}, new : Cores \cup {NONE}]]

Run == [pc |-> "run", thread |-> NONE, new |-> NONE]
Released(gen) == [state |-> "empty", gen |-> gen, type |-> NONE,
                  thread |-> NONE, epoch |-> 0, late |-> FALSE]
HomeOf(c) == {t \in Threads : Home[t] = c}

(* Every thread has been created and enqueued on its home core.            *)
Init ==
    /\ th = [t \in Threads |-> [state |-> "ready", onq |-> TRUE, m |-> "none",
                                epoch |-> 0, target |-> Home[t]]]
    /\ rq = [c \in Cores |-> [ready |-> SetToSeq(HomeOf(c)),
                              bits |-> {Prio[t] : t \in HomeOf(c)},
                              count |-> Cardinality(HomeOf(c)),
                              current |-> Idle]]
    /\ resv = [c \in Cores |-> [t \in Threads |-> [epoch |-> 0, staged |-> FALSE]]]
    /\ out = [c \in Cores |-> [s \in Slots[c] |-> Released(0)]]
    /\ cell = [c \in Cores |-> [s \in Slots[c] |->
                                [state |-> "empty", gen |-> 0, kind |-> "ack"]]]
    /\ ring = [c \in Cores |-> <<>>]
    /\ ans = [c \in Cores |-> NONE]
    /\ at = [c \in Cores |-> Run]

-----------------------------------------------------------------------------
(* Run queues                                                              *)

Listed(t) == t \in Range(rq[Home[t]].ready)
WithPrio(q, p) == SelectSeq(q, LAMBDA t : Prio[t] = p)

(* Mutant: the count drops for the unlinked entity and is not raised for   *)
(* the linked one.                                                         *)
EnqueuedCountQ(q, t) ==
    [q EXCEPT !.ready = Append(Remove(@, t), t), !.bits = @ \cup {Prio[t]},
              !.count = IF th[t].onq THEN @ - 1 ELSE @ + 1]

(* sched_enqueue on the own core: unlink if is_on_runqueue, then link      *)
EnqueuedQ(q, t) ==
    [q EXCEPT !.ready = Append(Remove(@, t), t),
              !.bits = @ \cup {Prio[t]},
              !.count = IF th[t].onq THEN @ ELSE @ + 1]
EnqueuedT(r) == [r EXCEPT !.state = "ready", !.onq = TRUE]

(* list_del of a frozen entity; flag, count and bitmap stay                *)
FrozenQ(q, t) == [q EXCEPT !.ready = Remove(@, t)]

(* sched_ready_bitmap_clear_if_empty after taking t out                    *)
PickedQ(q, t) ==
    LET rest == Remove(q.ready, t) IN
    [q EXCEPT !.ready = rest,
              !.bits = IF WithPrio(rest, Prio[t]) = <<>> THEN @ \ {Prio[t]} ELSE @,
              !.count = @ - 1]

-----------------------------------------------------------------------------
(* Commands                                                                *)

Free(c) == {s \in Slots[c] : out[c][s].state = "empty" /\ out[c][s].gen < Uses[c][s]}

(* sched_allocate_outbound_cmd arms the cell of the lowest free slot, then *)
(* sched_remote_submit pushes the envelope.  Refused (own core, full ring) *)
(* the caller releases the slot, except the balancer: its slot then waits  *)
(* for nothing.                                                            *)
Submitted(c, n, type, t, epoch) ==
    LET s == Min(Free(c))
        g == out[c][s].gen + 1
        ok == n # c /\ Len(ring[n]) < RingCap
    IN [ok |-> ok,
        out |-> [out EXCEPT ![c][s] =
                    IF ~ ok /\ type # "steal" THEN Released(g)
                    ELSE [state |-> IF ok THEN "pending" ELSE "reserved",
                          gen |-> g, type |-> type, thread |-> t,
                          epoch |-> epoch, late |-> FALSE]],
        cell |-> [cell EXCEPT ![c][s] = [state |-> "armed", gen |-> g, kind |-> "ack"]],
        ring |-> IF ok THEN [ring EXCEPT ![n] = Append(@,
                     [from |-> c, slot |-> s, gen |-> g, type |-> type,
                      thread |-> t, epoch |-> epoch])] ELSE ring]

CanRun(c) == at[c].pc = "run" /\ \A s \in Slots[c] : out[c][s].state \notin Terminal

(* The call of an operation that sends a command and keeps nothing else    *)
Send(c, n, type, t, epoch) ==
    LET x == Submitted(c, n, type, t, epoch) IN
    /\ Free(c) # {}
    /\ out' = x.out /\ cell' = x.cell /\ ring' = x.ring

(* sched_wake_tid from the owner, and from another core                    *)
WakeLocal(c, t) ==
    /\ CanRun(c) /\ c \in Wakers[t] /\ c = Home[t]
    /\ th[t].state = "blocked"
    /\ rq' = [rq EXCEPT ![c] = EnqueuedQ(@, t)]
    /\ th' = [th EXCEPT ![t] = EnqueuedT(@)]
    /\ UNCHANGED <<resv, out, cell, ring, ans, at>>

WakeRemote(c, t) ==
    /\ CanRun(c) /\ c \in Wakers[t] /\ c # Home[t]
    /\ Send(c, Home[t], "wake", t, 0)
    /\ UNCHANGED <<th, rq, resv, ans, at>>

(* sched_balance_once: the request names the busiest core as its source    *)
Balance(c) ==
    /\ CanRun(c) /\ c = Balancer
    /\ \E busiest, idlest \in Cores :
        /\ \A d \in Cores : rq[idlest].count <= rq[d].count /\ rq[d].count <= rq[busiest].count
        /\ rq[busiest].count > rq[idlest].count + 1
        /\ Send(c, busiest, "steal", NONE, 0)
    /\ UNCHANGED <<th, rq, resv, ans, at>>

-----------------------------------------------------------------------------
(* sched_migrate_task                                                      *)

(* Mutant: migration_state is not looked at. *)
MigrateCheckAny(c, t, n) ==
    /\ CanRun(c) /\ c \in Migrators[t]
    /\ n # Home[t] /\ th[t].epoch < MaxEpoch[t]
    /\ at' = [at EXCEPT ![c] = [pc |-> "migrate", thread |-> t, new |-> n]]
    /\ UNCHANGED <<th, rq, resv, out, cell, ring, ans>>

MigrateCheck(c, t, n) ==
    /\ CanRun(c) /\ c \in Migrators[t]
    /\ th[t].m = "none" /\ n # Home[t] /\ th[t].epoch < MaxEpoch[t]
    /\ at' = [at EXCEPT ![c] = [pc |-> "migrate", thread |-> t, new |-> n]]
    /\ UNCHANGED <<th, rq, resv, out, cell, ring, ans>>

(* sched_migration_transition, as built with NDEBUG                        *)
Transition(m, expected, next) == IF m = expected THEN next ELSE m

(* The epoch is raised and the target stored before a slot is looked for.  *)
Migrate(c) ==
    LET t == at[c].thread
        n == at[c].new
        e == th[t].epoch + 1
        local == Home[t] = c
        x == Submitted(c, IF local THEN n ELSE Home[t],
                       IF local THEN "reserve" ELSE "prepare", t, e)
        claimed == Transition(th[t].m, "none", "reserve")
    IN
    /\ at[c].pc = "migrate" /\ th[t].epoch < MaxEpoch[t]
    /\ at' = [at EXCEPT ![c] = Run]
    /\ IF Free(c) = {}
       THEN /\ th' = [th EXCEPT ![t].epoch = e, ![t].target = n]
            /\ UNCHANGED <<out, cell, ring>>
       ELSE /\ th' = [th EXCEPT ![t].epoch = e, ![t].target = n,
                                ![t].m = IF x.ok THEN claimed
                                         ELSE Transition(claimed, "reserve", "none")]
            /\ out' = x.out /\ cell' = x.cell /\ ring' = x.ring
    /\ UNCHANGED <<rq, resv, ans>>

-----------------------------------------------------------------------------
(* sched_remote_cmd_poll_timeouts                                          *)

(* The deadline of a pending command passes.                               *)
Expire(c, s) ==
    /\ out[c][s].state = "pending" /\ ~ out[c][s].late
    /\ out' = [out EXCEPT ![c][s].late = TRUE]
    /\ UNCHANGED <<th, rq, resv, cell, ring, ans, at>>

Answered(c, s) ==
    /\ out[c][s].state = "pending" /\ cell[c][s].state = "published"
    /\ cell[c][s].gen = out[c][s].gen

(* Completions first, then deadlines                                       *)
Collect(c) ==
    /\ out' = [out EXCEPT ![c] = [s \in Slots[c] |->
                IF Answered(c, s)
                THEN [@[s] EXCEPT !.state = IF cell[c][s].kind = "ack" THEN "acked"
                                            ELSE "failed"]
                ELSE IF @[s].state = "pending" /\ @[s].late
                THEN [@[s] EXCEPT !.state = "timeout"]
                ELSE @[s]]]
    /\ cell' = [cell EXCEPT ![c] = [s \in Slots[c] |->
                IF Answered(c, s) THEN [@[s] EXCEPT !.state = "empty"] ELSE @[s]]]
    /\ UNCHANGED <<rq, resv, ring, ans>>

(* sched_on_timer_tick without a switch                                    *)
Tick(c) == CanRun(c) /\ Collect(c) /\ UNCHANGED <<th, at>>

(* sched_reschedule begins: preempted, or yielding                         *)
Reschedule(c) ==
    CanRun(c) /\ Collect(c) /\ at' = [at EXCEPT ![c].pc = "poll"] /\ UNCHANGED th

(* sched_block: the current thread is BLOCKED, then reschedules            *)
Block(c) ==
    /\ CanRun(c) /\ rq[c].current # Idle /\ Wakers[rq[c].current] # {}
    /\ th' = [th EXCEPT ![rq[c].current].state = "blocked"]
    /\ Collect(c)
    /\ at' = [at EXCEPT ![c].pc = "poll"]

Settling(c) == {s \in Slots[c] : out[c][s].state \in Terminal}

(* Mutant: a command that has no continuation keeps its slot. *)
SettleOtherKept(c) ==
    LET s == Min(Settling(c))
        cmd == out[c][s] IN
    /\ Settling(c) # {}
    /\ cmd.type \in {"reserve", "stage"} => th[cmd.thread].epoch # cmd.epoch
    /\ out' = [out EXCEPT ![c][s].state = "reserved"]
    /\ UNCHANGED <<th, rq, resv, cell, ring, ans, at>>

(* What follows the answer to command s: none of the types but RESERVE and *)
(* STAGE, and none for an older epoch.                                     *)
SettleOther(c) ==
    LET s == Min(Settling(c))
        cmd == out[c][s] IN
    /\ Settling(c) # {}
    /\ cmd.type \in {"reserve", "stage"} => th[cmd.thread].epoch # cmd.epoch
    /\ out' = [out EXCEPT ![c][s] = Released(@.gen)]
    /\ UNCHANGED <<th, rq, resv, cell, ring, ans, at>>

(* RESERVE: acknowledged, freeze the entity and send STAGE.  Without a     *)
(* slot or with a full ring the entity is enqueued again and the migration *)
(* has FAILED.                                                             *)
SettleReserve(c) ==
    LET s == Min(Settling(c))
        cmd == out[c][s]
        t == cmd.thread
        x == Submitted(c, th[t].target, "stage", t, cmd.epoch)
        sent == Free(c) # {} /\ x.ok
    IN
    /\ Settling(c) # {} /\ cmd.type = "reserve" /\ th[t].epoch = cmd.epoch
    /\ IF cmd.state = "acked"
       THEN /\ rq' = [rq EXCEPT ![c] = IF sent THEN FrozenQ(@, t) ELSE EnqueuedQ(@, t)]
            /\ th' = [th EXCEPT ![t] =
                 IF sent THEN [@ EXCEPT !.m = Transition(@, "reserve", "prepared")]
                 ELSE [EnqueuedT(@) EXCEPT !.m = Transition(@, "reserve", "failed")]]
            /\ IF Free(c) # {}
               THEN /\ out' = [x.out EXCEPT ![c][s] = Released(@.gen)]
                    /\ cell' = x.cell /\ ring' = x.ring
               ELSE /\ out' = [out EXCEPT ![c][s] = Released(@.gen)]
                    /\ UNCHANGED <<cell, ring>>
       ELSE /\ th' = [th EXCEPT ![t].m = Transition(@, "reserve", "none")]
            /\ out' = [out EXCEPT ![c][s] = Released(@.gen)]
            /\ UNCHANGED <<rq, cell, ring>>
    /\ UNCHANGED <<resv, ans, at>>

(* Mutant: STAGE that is refused or times out leaves the entity frozen. *)
SettleStageFrozen(c) ==
    LET s == Min(Settling(c))
        t == out[c][s].thread IN
    /\ Settling(c) # {} /\ out[c][s].type = "stage" /\ th[t].epoch = out[c][s].epoch
    /\ th' = [th EXCEPT ![t].m = "none"]
    /\ out' = [out EXCEPT ![c][s] = Released(@.gen)]
    /\ UNCHANGED <<rq, resv, cell, ring, ans, at>>

(* STAGE: the entity is enqueued again in every case.  Acknowledged, the   *)
(* owner submits COMMIT_IDENTITY to the home core, which is itself.        *)
SettleStage(c) ==
    LET s == Min(Settling(c))
        cmd == out[c][s]
        t == cmd.thread
        x == Submitted(c, Home[t], "commit", t, cmd.epoch)
    IN
    /\ Settling(c) # {} /\ cmd.type = "stage" /\ th[t].epoch = cmd.epoch
    /\ rq' = [rq EXCEPT ![c] = EnqueuedQ(@, t)]
    /\ th' = [th EXCEPT ![t] = [EnqueuedT(@) EXCEPT !.m =
                Transition(@, "prepared", IF cmd.state = "acked" THEN "failed" ELSE "none")]]
    /\ IF cmd.state = "acked" /\ Free(c) # {}
       THEN out' = [x.out EXCEPT ![c][s] = Released(@.gen)] /\ cell' = x.cell
       ELSE out' = [out EXCEPT ![c][s] = Released(@.gen)] /\ cell' = cell
    /\ UNCHANGED <<resv, ring, ans, at>>

-----------------------------------------------------------------------------
(* sched_reschedule: the command ring, then the next thread                *)

Draining(c) == at[c].pc = "poll" /\ Settling(c) = {} /\ ans[c] = NONE

(* One envelope is taken from the ring and answered: its validation, which *)
(* STEAL_REQ fails as it names another core as the target, and the checks  *)
(* of sched_completion_publish, whose stores follow in Publish.            *)
Take(c, types) ==
    /\ Draining(c) /\ ring[c] # <<>> /\ Head(ring[c]).type \in types
    /\ ring' = [ring EXCEPT ![c] = Tail(@)]
    /\ UNCHANGED <<th, rq, out, cell, at>>

Respond(c, kind) ==
    LET e == Head(ring[c])
        there == cell[e.from][e.slot] IN
    ans' = IF e.type # "steal" /\ there.state = "armed" /\ there.gen = e.gen
           THEN [ans EXCEPT ![c] = [to |-> e.from, slot |-> e.slot, gen |-> e.gen,
                                    kind |-> kind]]
           ELSE ans

(* A reservation conflicts with one of another epoch, or finds no entity.  *)
HandleReserve(c) ==
    LET e == Head(ring[c])
        held == {t \in Threads : resv[c][t].epoch # 0}
        ok == IF e.thread \in held THEN resv[c][e.thread].epoch = e.epoch
              ELSE Cardinality(held) < EntityCap
    IN
    /\ Take(c, {"reserve"})
    /\ Respond(c, IF ok THEN "ack" ELSE "nack")
    /\ resv' = IF ok THEN [resv EXCEPT ![c][e.thread].epoch = e.epoch] ELSE resv

(* An image is staged only on the reservation of its epoch.                *)
HandleStage(c) ==
    LET e == Head(ring[c])
        ok == resv[c][e.thread].epoch = e.epoch
    IN
    /\ Take(c, {"stage"})
    /\ Respond(c, IF ok THEN "ack" ELSE "nack")
    /\ resv' = IF ok THEN [resv EXCEPT ![c][e.thread].staged = TRUE] ELSE resv

(* WAKE looks at the state of the entity, which is READY from its creation *)
(* on and never set to BLOCKED: it is acknowledged and changes nothing.    *)
HandleWake(c) == Take(c, {"wake"}) /\ Respond(c, "ack") /\ UNCHANGED resv

(* PREPARE asks its own core for a migration to itself, which returns, as  *)
(* the sender's claim makes it return.  STEAL_REQ is dropped.              *)
HandleOther(c) ==
    /\ Take(c, {"prepare", "steal"})
    /\ Respond(c, "ack") /\ UNCHANGED resv

(* The stores.  If the cell was armed again in the meantime they land in   *)
(* it, and the kind may or may not survive the arming, which stores ACK.   *)
Publish(c) ==
    /\ ans[c] # NONE
    /\ LET a == ans[c]
           there == cell[a.to][a.slot] IN
       \E k \in {a.kind} \cup (IF there.gen = a.gen THEN {} ELSE {"ack"}) :
         cell' = [cell EXCEPT ![a.to][a.slot].state = "published",
                              ![a.to][a.slot].kind = k]
    /\ ans' = [ans EXCEPT ![c] = NONE]
    /\ UNCHANGED <<th, rq, resv, out, ring, at>>

(* sched_pick_next_ready and sched_switch_to.  A bit that is set for an    *)
(* empty list finds no thread, and the idle thread is next.                *)
Switch(c) ==
    LET q == rq[c]
        first == IF q.bits = {} THEN <<>> ELSE WithPrio(q.ready, Max(q.bits))
        next == IF first = <<>> THEN Idle ELSE Head(first)
        picked == IF next = Idle THEN q ELSE PickedQ(q, next)
        cur == q.current
        back == cur \notin {Idle, next} /\ th[cur].state = "running" /\ ~ th[cur].onq
    IN
    /\ Draining(c) /\ ring[c] = <<>>
    /\ rq' = [rq EXCEPT ![c] = [(IF back THEN EnqueuedQ(picked, cur) ELSE picked)
                                EXCEPT !.current = next]]
    /\ th' = [t \in Threads |->
                IF t = next
                THEN [th[t] EXCEPT !.onq = FALSE,
                                   !.state = IF next = cur THEN @ ELSE "running"]
                ELSE IF back /\ t = cur THEN EnqueuedT(th[t]) ELSE th[t]]
    /\ at' = [at EXCEPT ![c] = Run]
    /\ UNCHANGED <<resv, out, cell, ring, ans>>

-----------------------------------------------------------------------------

Step(c) ==
    \/ SettleOther(c) \/ SettleReserve(c) \/ SettleStage(c)
    \/ HandleReserve(c) \/ HandleStage(c) \/ HandleWake(c) \/ HandleOther(c)
    \/ Publish(c) \/ Switch(c) \/ Migrate(c)

Next ==
    \E c \in Cores :
        \/ Step(c) \/ Tick(c) \/ Reschedule(c) \/ Block(c) \/ Balance(c)
        \/ \E s \in Slots[c] : Expire(c, s)
        \/ \E t \in Threads :
            \/ WakeLocal(c, t) \/ WakeRemote(c, t)
            \/ \E n \in Cores : MigrateCheck(c, t, n)

Spec == Init /\ [][Next]_vars

(* A core goes on with what it has begun, its timer ticks and preempts,    *)
(* and deadlines pass.                                                     *)
Fairness ==
    \A c \in Cores : /\ WF_vars(Step(c))
                     /\ WF_vars(Reschedule(c))
                     /\ \A s \in Slots[c] : WF_vars(Expire(c, s))
FairSpec == Spec /\ Fairness

-----------------------------------------------------------------------------

(* The fields have their types, and                                        *)
(* a thread is linked at most once, on its owner's list only, and the list *)
(* walks of sched_reschedule see what is linked: is_on_runqueue is set for *)
(* every linked entity, its bit is set, and the count is the number of     *)
(* set flags, whatever migrations, rollbacks and wake-ups have done.       *)
QueueSound ==
    TypeOK /\ \A c \in Cores :
        /\ \A i, j \in DOMAIN rq[c].ready : i # j => rq[c].ready[i] # rq[c].ready[j]
        /\ \A t \in Range(rq[c].ready) :
            Home[t] = c /\ th[t].onq /\ Prio[t] \in rq[c].bits
        /\ rq[c].count = Cardinality({t \in HomeOf(c) : th[t].onq})

(* A migration that its owner coordinates is waited for by exactly one     *)
(* command of its epoch, so that its outcome is settled once: nothing else *)
(* would end it, and with one claim per thread nothing else does.          *)
Coordinated ==
    \A t \in Threads :
        th[t].m = "prepared" \/ (th[t].m = "reserve" /\ Migrators[t] = {Home[t]}) =>
          Cardinality({s \in Slots[Home[t]] :
            /\ out[Home[t]][s].thread = t /\ out[Home[t]][s].epoch = th[t].epoch
            /\ out[Home[t]][s].type = IF th[t].m = "reserve" THEN "reserve" ELSE "stage"})
          = 1

(* A thread frozen off its ready list gets back on it, whatever the target *)
(* answers, when no answer comes, and when slots and rings are exhausted.  *)
FrozenReturns ==
    \A t \in Threads : (th[t].onq /\ ~ Listed(t)) ~> Listed(t)

(* Every command that was submitted is released: answered, refused or      *)
(* timed out.                                                              *)
CommandsReleased ==
    \A c \in Cores : \A s \in Slots[c] :
        out[c][s].state = "pending" ~> out[c][s].state = "empty"

-----------------------------------------------------------------------------
(* What the documents say and the code does not do; see the README.        *)

(* A READY thread is on a run queue, or has it coming from a migration: it *)
(* carries is_on_runqueue unless it is the core's current thread.          *)
RunnableOwned ==
    \A t \in Threads :
        th[t].state = "ready" /\ ~ th[t].onq => rq[Home[t]].current = t

(* A bit of ready_bitmap is set only for a list that is not empty, as      *)
(* sched_validate_rq demands.                                              *)
BitmapExact ==
    \A c \in Cores : \A p \in rq[c].bits : WithPrio(rq[c].ready, p) # <<>>

(* The owner that handles SCHED_REMOTE_WAKE for a BLOCKED thread makes it  *)
(* READY.                                                                  *)
RemoteWakeWakes ==
    [][\A c \in Cores :
        ring[c] # <<>> /\ ring'[c] = Tail(ring[c]) /\ Head(ring[c]).type = "wake"
          => th'[Head(ring[c]).thread].state # "blocked"]_vars

(* An answer that passed the checks of sched_completion_publish is stored  *)
(* in the cell of the command it answers, not of a later one.              *)
CompletionBound ==
    \A c \in Cores :
        ans[c] # NONE => cell[ans[c].to][ans[c].slot].gen = ans[c].gen

(* sched_migration_transition finds the state that the check found.        *)
ClaimHeld ==
    \A c \in Cores : at[c].pc = "migrate" => th[at[c].thread].m = "none"

(* The balancer's refused command does not keep its slot.                  *)
NoSlotLost == \A c \in Cores : \A s \in Slots[c] : out[c][s].state # "reserved"
=============================================================================
