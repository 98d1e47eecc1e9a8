--------------------------- MODULE CapTransaction ---------------------------
(***************************************************************************)
(* Capability tables and the transactions that carry a delegation or a     *)
(* revocation to another core (src/cap: cap_cspace.c, cap_revoke.c,        *)
(* cap_dispatch.c, cap_internal.h).                                        *)
(*                                                                         *)
(* entry[t][s] is slot s of CSpace t, with the links of the derivation     *)
(* tree; tx[c][x] is slot x of core c's transaction table; inbox[c] holds  *)
(* the uRPC messages sent to core c.  A thread runs one operation at a     *)
(* time on its home core; hand[c] is the request core c's message handler  *)
(* has accepted and not yet carried out.  One action is one section under  *)
(* a CSpace lock, or the code between two; REVOKE_PREPARE, which locks the *)
(* CSpaces of its core one after the other, is one action.                 *)
(*                                                                         *)
(* A CSpace that is created again has another cspace_id, so it is another  *)
(* member of Tables.  Rights, object types and the endpoint reference      *)
(* hooks are left out (EndpointIpc has the hooks).  anc is auxiliary: the  *)
(* identities of the capabilities an entry was derived from.  late is set  *)
(* at the start: whether a deadline may pass before the answer comes.      *)
(***************************************************************************)
EXTENDS Integers, Sequences, FiniteSets

CONSTANTS Threads, Cores, Tables, NULL,
          Home,        \* the core a thread runs on
          Owner,       \* the owner_core of a CSpace
          Registered,  \* the CSpaces that exist at the start
          Granted,     \* those that have a root capability then, in slot 0
          MayDo,       \* the operations a thread asks for
          Late,        \* the choices of late: whether deadlines can pass
          NumSlots,    \* entries of a CSpace
          NumTx,       \* BH_CAP_TX_PER_CORE
          InboxSize,   \* messages a core's ring holds
          MaxGen,      \* bound: generations of an entry, two for each life
          MaxTx        \* bound: generations of a transaction slot

ASSUME CapAssumption ==
    /\ Home \in [Threads -> Cores] /\ Owner \in [Tables -> Cores]
    /\ Granted \subseteq Registered /\ Registered \subseteq Tables /\ NULL \notin Tables
    /\ Late \subseteq BOOLEAN
    /\ NumSlots \in Nat \ {0} /\ NumTx \in Nat /\ InboxSize \in Nat
    /\ MaxGen \in Nat /\ MaxTx \in Nat

VARIABLES registry, entry, tx, inbox, hand, pc, loc, pinned, late

vars == <<registry, entry, tx, inbox, hand, pc, loc, pinned, late>>

Slots == 0 .. NumSlots - 1
TxSlots == 0 .. NumTx - 1

(* A bh_cap_locator_t; its owner_core is Owner[tab].                       *)
Locator(t, s, g, ep) == [tab |-> t, slot |-> s, gen |-> g, epoch |-> ep]

Entry(st, g, up, down, nxt, ep, an) ==
    [state |-> st, gen |-> g, parent |-> up, child |-> down, next |-> nxt,
     epoch |-> ep, pins |-> 0, anc |-> an]

NoEntry == Entry("FREE", 0, NULL, NULL, NULL, 0, {})

RootEntry(g) == Entry("LIVE", g, NULL, NULL, NULL, 0, {})

(* A transaction as cap_tx_alloc leaves it.                                *)
NewTx(st, g) ==
    [state |-> st, gen |-> g, src |-> NULL, dst |-> NULL, srcChild |-> NULL,
     target |-> NULL, epoch |-> 0, targets |-> {}, acks |-> {}, failed |-> FALSE,
     remote |-> NULL, anc |-> {}]

NoLoc == [tab |-> NULL, slot |-> 0, gen |-> 0, dst |-> NULL, tx |-> 0,
          cur |-> NULL, down |-> TRUE, next |-> NULL, up |-> NULL]

Init ==
    /\ registry = [t \in Tables |-> IF t \in Registered THEN "up" ELSE "unborn"]
    /\ entry = [t \in Tables |-> [s \in Slots |->
                   IF t \in Granted /\ s = 0 THEN RootEntry(1) ELSE NoEntry]]
    /\ tx = [c \in Cores |-> [x \in TxSlots |-> NewTx("FREE", 0)]]
    /\ inbox = [c \in Cores |-> <<>>]
    /\ hand = [c \in Cores |-> NULL]
    /\ pc = [h \in Threads |-> "idle"]
    /\ loc = [h \in Threads |-> NoLoc]
    /\ pinned = [h \in Threads |-> NULL]
    /\ late \in Late

-----------------------------------------------------------------------------
(* Helpers                                                                 *)

(* cap_locator_resolve_table *)
ResolvesTable(l) == l # NULL /\ registry[l.tab] = "up"

At(l) == entry[l.tab][l.slot]

InUse(e) == e.state # "FREE"

(* The entry is the one the locator was made for.                          *)
Current(l) == InUse(At(l)) /\ At(l).gen = l.gen

Identity(t, s) == <<t, s, entry[t][s].gen>>

Set(t, s, e) == entry' = [entry EXCEPT ![t][s] = e]

Goto(h, l) == pc' = [pc EXCEPT ![h] = l]

Return(h) == Goto(h, "idle") /\ loc' = [loc EXCEPT ![h] = NoLoc]

(* A revocation that stops here reports what its last line computes.       *)
Stop(h) == Goto(h, "done") /\ UNCHANGED loc

(* urpc_bootstrap_send: a message to a full ring is dropped.               *)
Sent(box, c, m) == IF Len(box[c]) < InboxSize
                   THEN [box EXCEPT ![c] = Append(@, m)] ELSE box

Request(c, x, g, o) == [kind |-> "req", origin |-> c, slot |-> x, gen |-> g, op |-> o]

Ack(m, c, bad) == [kind |-> "ack", origin |-> m.origin, slot |-> m.slot,
                   gen |-> m.gen, from |-> c, failed |-> bad]

(* cap_tx_alloc takes the first slot that is free, committed or aborted.   *)
Reusable(x) == x.state \in {"FREE", "COMMITTED", "ABORTED"}

TxFor(c, x) ==
    /\ x \in TxSlots /\ Reusable(tx[c][x])
    /\ \A y \in 0 .. x - 1 : ~Reusable(tx[c][y])
    /\ tx[c][x].gen < MaxTx

(* The transaction of thread h, and a change of its state.                 *)
Mine(h) == tx[Home[h]][loc[h].tx]

SetTx(h, r) == tx' = [tx EXCEPT ![Home[h]][loc[h].tx] = r]

SetTxState(h, st) == SetTx(h, [Mine(h) EXCEPT !.state = st])

(* A free slot of a CSpace (bh_id_allocator_alloc; IdAllocator has the     *)
(* order in which it looks); one that has had MaxGen generations counts as *)
(* taken.                                                                  *)
FreeSlot(t, s) == ~InUse(entry[t][s]) /\ entry[t][s].gen < MaxGen

Full(t) == \A s \in Slots : ~FreeSlot(t, s)

(* What cap_table_revoke and a rollback leave of an entry.                 *)
Cleared(e) == Entry("FREE", e.gen + 1, NULL, NULL, NULL, e.epoch, {})

-----------------------------------------------------------------------------
(* Tables, grants and pins                                                 *)

(* cap_table_create *)
CreateTable(h, t) ==
    /\ pc[h] = "idle" /\ "create" \in MayDo[h]
    /\ registry[t] = "unborn" /\ Owner[t] = Home[h]
    /\ registry' = [registry EXCEPT ![t] = "up"]
    /\ UNCHANGED <<entry, tx, inbox, hand, pc, loc, pinned>>

(* cap_table_destroy, of a CSpace no operation of another thread is in.    *)
DestroyTable(h, t) ==
    /\ pc[h] = "idle" /\ "destroy" \in MayDo[h]
    /\ registry[t] = "up" /\ Owner[t] = Home[h]
    /\ \A u \in Threads : loc[u].tab # t /\ loc[u].dst # t
    /\ registry' = [registry EXCEPT ![t] = "gone"]
    /\ entry' = [entry EXCEPT ![t] = [s \in Slots |->
                    IF @[s].state = "LIVE" THEN [@[s] EXCEPT !.state = "FREE"] ELSE @[s]]]
    /\ UNCHANGED <<tx, inbox, hand, pc, loc, pinned>>

(* cap_table_grant *)
Grant(h, t) ==
    /\ pc[h] = "idle" /\ "grant" \in MayDo[h]
    /\ registry[t] = "up" /\ Owner[t] = Home[h]
    /\ \E s \in Slots :
          /\ FreeSlot(t, s)
          /\ Set(t, s, RootEntry(entry[t][s].gen + 1))
    /\ UNCHANGED <<registry, tx, inbox, hand, pc, loc, pinned>>

(* cap_validate_and_pin *)
Pin(h, t, s) ==
    /\ pc[h] = "idle" /\ "pin" \in MayDo[h]
    /\ registry[t] = "up" /\ Owner[t] = Home[h] /\ entry[t][s].state = "LIVE"
    /\ Set(t, s, [entry[t][s] EXCEPT !.pins = @ + 1])
    /\ pinned' = [pinned EXCEPT ![h] = Identity(t, s)]
    /\ Goto(h, "pinned")
    /\ UNCHANGED <<registry, tx, inbox, hand, loc>>

(* cap_unpin knows the slot, not the generation that was pinned.           *)
Unpin(h) ==
    /\ pc[h] = "pinned"
    /\ LET t == pinned[h][1]  s == pinned[h][2]
       IN  Set(t, s, IF InUse(entry[t][s]) /\ entry[t][s].pins > 0
                     THEN [entry[t][s] EXCEPT !.pins = @ - 1] ELSE entry[t][s])
    /\ pinned' = [pinned EXCEPT ![h] = NULL]
    /\ Goto(h, "idle")
    /\ UNCHANGED <<registry, tx, inbox, hand, loc>>

-----------------------------------------------------------------------------
(* Delegation                                                              *)

(* cap_table_delegate_local: both CSpaces are locked.                      *)
DelegateLocal(h, src, s, dst) ==
    /\ pc[h] = "idle" /\ "delegate" \in MayDo[h]
    /\ Owner[src] = Home[h] /\ Owner[dst] = Home[h]
    /\ registry[src] = "up" /\ registry[dst] = "up"
    /\ entry[src][s].state = "LIVE"
    /\ \E d \in Slots :
          LET p == entry[src][s]
              g == entry[dst][d].gen + 1
              e == Entry("LIVE", g, Locator(src, s, p.gen, p.epoch), NULL, p.child,
                         p.epoch, p.anc \cup {Identity(src, s)})
          IN  /\ FreeSlot(dst, d)
              /\ entry' = [[entry EXCEPT ![dst][d] = e]
                              EXCEPT ![src][s].child = Locator(dst, d, g, p.epoch)]
    /\ UNCHANGED <<registry, tx, inbox, hand, pc, loc, pinned>>

(* cap_table_delegate to another core: the source is checked and recorded  *)
(* in a transaction under the lock of its CSpace ...                       *)
DelegateStart(h, src, s, dst) ==
    /\ pc[h] = "idle" /\ "delegate" \in MayDo[h]
    /\ Owner[src] = Home[h] /\ Owner[dst] # Home[h]
    /\ registry[src] = "up" /\ registry[dst] = "up"
    /\ entry[src][s].state = "LIVE"
    /\ \E x \in TxSlots :
          LET p == entry[src][s]
          IN  /\ TxFor(Home[h], x)
              /\ tx' = [tx EXCEPT ![Home[h]][x] =
                    [NewTx("PREPARED", @.gen + 1) EXCEPT
                        !.src = Locator(src, s, p.gen, p.epoch), !.dst = dst,
                        !.srcChild = p.child, !.epoch = p.epoch,
                        !.targets = {Owner[dst]}, !.anc = p.anc \cup {Identity(src, s)}]]
              /\ loc' = [loc EXCEPT ![h] =
                    [NoLoc EXCEPT !.tab = src, !.slot = s, !.gen = p.gen, !.dst = dst, !.tx = x]]
    /\ Goto(h, "publish")
    /\ UNCHANGED <<registry, entry, inbox, hand, pinned>>

(* ... published, and the request is sent ...                              *)
Publish(h) ==
    /\ pc[h] = "publish"
    /\ LET c == Owner[loc[h].dst]
           m == Request(Home[h], loc[h].tx, Mine(h).gen, "DELEGATE")
       IN  IF Len(inbox[c]) < InboxSize
           THEN /\ inbox' = Sent(inbox, c, m)
                /\ SetTxState(h, "PUBLISHED")
                /\ Goto(h, "wait")
           ELSE SetTxState(h, "ABORTED") /\ Goto(h, "release") /\ UNCHANGED inbox
    /\ UNCHANGED <<registry, entry, hand, loc, pinned>>

(* ... until every target has acknowledged it ...                          *)
AckedByAll(h) == Cores \subseteq Mine(h).acks
Acked(h) == Mine(h).targets \subseteq Mine(h).acks

DelegateAcked(h) ==
    /\ pc[h] = "wait" /\ Acked(h)
    /\ IF Mine(h).failed
       THEN SetTxState(h, "ABORTED") /\ Goto(h, "release")
       ELSE Goto(h, "commit") /\ UNCHANGED tx
    /\ UNCHANGED <<registry, entry, inbox, hand, loc, pinned>>

(* ... or the deadline has passed.                                         *)
DelegateTimeout(h) ==
    /\ late /\ pc[h] = "wait" /\ ~Acked(h)
    /\ SetTxState(h, "ABORTED")
    /\ Goto(h, "abort")
    /\ UNCHANGED <<registry, entry, inbox, hand, loc, pinned>>

(* The new capability becomes the first child of its source, if that is    *)
(* still what it was.                                                      *)
DelegateCommit(h) ==
    /\ pc[h] = "commit"
    /\ LET t == loc[h].tab  s == loc[h].slot
           kept == /\ entry[t][s].state = "LIVE" /\ Mine(h).src # NULL
                   /\ entry[t][s].gen = Mine(h).src.gen
           r == Mine(h).remote
       IN  IF kept
           THEN /\ Set(t, s, [entry[t][s] EXCEPT !.child =
                       IF r = NULL THEN NULL
                       ELSE Locator(loc[h].dst, r.slot, r.gen, Mine(h).epoch)])
                /\ SetTxState(h, "COMMITTED")
                /\ Goto(h, "release")
           ELSE SetTxState(h, "ABORTED") /\ Goto(h, "abort") /\ UNCHANGED entry
    /\ UNCHANGED <<registry, inbox, hand, loc, pinned>>

(* An aborted delegation sends a rollback with the generation it finds.    *)
DelegateAbort(h) ==
    /\ pc[h] = "abort"
    /\ inbox' = Sent(inbox, Owner[loc[h].dst],
                     Request(Home[h], loc[h].tx, Mine(h).gen, "ROLLBACK"))
    /\ Goto(h, "release")
    /\ UNCHANGED <<registry, entry, tx, hand, loc, pinned>>

(* cap_tx_release, at the end of an operation.                             *)
Release(h) ==
    /\ pc[h] = "release"
    /\ SetTxState(h, "FREE")
    /\ Return(h)
    /\ UNCHANGED <<registry, entry, inbox, hand, pinned>>

-----------------------------------------------------------------------------
(* Revocation                                                              *)

(* cap_table_revoke takes a transaction and marks the root ...             *)
RevokeStart(h, t, s) ==
    /\ pc[h] = "idle" /\ "revoke" \in MayDo[h]
    /\ registry[t] = "up" /\ Owner[t] = Home[h] /\ InUse(entry[t][s])
    /\ \E x \in TxSlots :
          /\ TxFor(Home[h], x)
          /\ tx' = [tx EXCEPT ![Home[h]][x] = NewTx("PREPARED", @.gen + 1)]
          /\ loc' = [loc EXCEPT ![h] = [NoLoc EXCEPT !.tab = t, !.slot = s,
                        !.gen = entry[t][s].gen, !.tx = x, !.up = entry[t][s].parent]]
    /\ Set(t, s, [entry[t][s] EXCEPT !.state = "REVOKING"])
    /\ Goto(h, "unlink")
    /\ UNCHANGED <<registry, inbox, hand, pinned>>

Root(h) == Locator(loc[h].tab, loc[h].slot, loc[h].gen, 0)

IsRootSlot(h, l) == l.tab = loc[h].tab /\ l.slot = loc[h].slot

(* The list of siblings from locator l on, as a function of the position:  *)
(* NULL once it ends or enters a CSpace that is gone.                      *)
MaxSiblings == Cardinality(Tables) * NumSlots

Siblings(l) ==
    LET f[i \in 0 .. MaxSiblings] ==
            LET m == IF i = 0 THEN l ELSE IF f[i - 1] = NULL THEN NULL ELSE At(f[i - 1]).next
            IN  IF ResolvesTable(m) THEN m ELSE NULL
    IN  f

(* The link to the root, in its parent or in the sibling before it, is led *)
(* past it.                                                                *)
RelinkParent(up, r, before) == Set(up.tab, up.slot, [At(up) EXCEPT !.child = At(r).next])
RelinkNothing(up, r, before) == UNCHANGED entry
Relink(up, r, before) ==
    IF before = NULL
    THEN Set(up.tab, up.slot, [At(up) EXCEPT !.child = At(r).next])
    ELSE Set(before.tab, before.slot, [At(before) EXCEPT !.next = At(r).next])

(* ... unlinks it from its siblings, with all their CSpaces locked: the    *)
(* list is read to its end first, to know which these are ...              *)
Unlink(h) ==
    /\ pc[h] = "unlink"
    /\ LET up == loc[h].up
           r == Root(h)
           sib == Siblings(At(up).child)
           IsRoot(i) == sib[i] # NULL /\ IsRootSlot(h, sib[i]) /\ sib[i].gen = r.gen
           Found == {i \in 0 .. MaxSiblings : IsRoot(i) /\ \A j \in 0 .. i - 1 : ~IsRoot(j)}
       IN  /\ ResolvesTable(up) /\ Current(up) => sib[MaxSiblings] = NULL
           /\ IF ResolvesTable(up) /\ Current(up) /\ Current(r) /\ Found # {}
              THEN \E i \in Found : Relink(up, r, IF i = 0 THEN NULL ELSE sib[i - 1])
              ELSE UNCHANGED entry
    /\ loc' = [loc EXCEPT ![h].cur = Root(h), ![h].up = NULL]
    /\ Goto(h, "mark")
    /\ UNCHANGED <<registry, tx, inbox, hand, pinned>>

(* ... and walks down the tree, marking; a stale link ends the revocation. *)
Mark(h) ==
    /\ pc[h] = "mark"
    /\ LET l == loc[h].cur
           e == At(l)
           Walk(m, to) == loc' = [loc EXCEPT ![h].cur = m] /\ Goto(h, to)
       IN  IF ~ResolvesTable(l)
           THEN Goto(h, "epoch") /\ UNCHANGED <<entry, tx, loc>>
           ELSE IF ~Current(l)
           THEN SetTxState(h, "ABORTED") /\ Goto(h, "release") /\ UNCHANGED <<entry, loc>>
           ELSE /\ Set(l.tab, l.slot, [e EXCEPT !.state = "REVOKING"])
                /\ IF e.child # NULL THEN Walk(e.child, "mark")
                   ELSE IF e.next # NULL /\ ~IsRootSlot(h, l) THEN Walk(e.next, "mark")
                   ELSE Walk(e.parent, "climb")
                /\ UNCHANGED tx
    /\ UNCHANGED <<registry, inbox, hand, pinned>>

(* The way up, to the next sibling of an ancestor or to the root.          *)
Climb(h) ==
    /\ pc[h] = "climb"
    /\ LET l == loc[h].cur
       IN  IF ~ResolvesTable(l) \/ IsRootSlot(h, l) \/ ~Current(l)
           THEN Goto(h, "epoch") /\ UNCHANGED loc
           ELSE IF At(l).next # NULL
           THEN Goto(h, "mark") /\ loc' = [loc EXCEPT ![h].cur = At(l).next]
           ELSE UNCHANGED pc /\ loc' = [loc EXCEPT ![h].cur = At(l).parent]
    /\ UNCHANGED <<registry, entry, tx, inbox, hand, pinned>>

(* The epoch of the root goes up before the other cores are told.          *)
RevokePublish(h) ==
    /\ pc[h] = "epoch"
    /\ LET r == Root(h)
           ep == IF Current(r) THEN At(r).epoch + 1 ELSE 0
       IN  /\ IF Current(r)
              THEN Set(r.tab, r.slot, [At(r) EXCEPT !.epoch = ep]) ELSE UNCHANGED entry
           /\ SetTx(h, [Mine(h) EXCEPT !.state = "PUBLISHED", !.target = r, !.epoch = ep,
                           !.targets = Cores \ {Home[h]}, !.acks = {}, !.failed = FALSE])
    /\ Goto(h, "prepare")
    /\ UNCHANGED <<registry, inbox, hand, loc, pinned>>

RevokePrepare(h) ==
    /\ pc[h] = "prepare"
    /\ inbox' = [c \in Cores |->
          IF c \in Mine(h).targets
          THEN Sent(inbox, c, Request(Home[h], loc[h].tx, Mine(h).gen, "PREPARE"))[c]
          ELSE inbox[c]]
    /\ Goto(h, "await")
    /\ UNCHANGED <<registry, entry, tx, hand, loc, pinned>>

(* All cores have answered: the transaction is over ...                    *)
RevokeAcked(h) ==
    /\ pc[h] = "await" /\ Acked(h)
    /\ SetTxState(h, "COMMITTED")
    /\ Goto(h, "retire")
    /\ UNCHANGED <<registry, entry, inbox, hand, loc, pinned>>

(* ... and, its slot released, the tree is freed from the leaves up.       *)
Retire(h) ==
    /\ pc[h] = "retire"
    /\ SetTxState(h, "FREE")
    /\ loc' = [loc EXCEPT ![h].cur = Root(h), ![h].down = TRUE]
    /\ Goto(h, "free")
    /\ UNCHANGED <<registry, entry, inbox, hand, pinned>>

(* One has not: the root is quarantined.                                   *)
RevokeTimeout(h) ==
    /\ late /\ pc[h] = "await" /\ ~Acked(h)
    /\ SetTxState(h, "ABORTED")
    /\ Goto(h, "quarantine")
    /\ UNCHANGED <<registry, entry, inbox, hand, loc, pinned>>

QuarantineUndone(h) ==
    /\ pc[h] = "quarantine"
    /\ SetTxState(h, "FREE")
    /\ Set(loc[h].tab, loc[h].slot, [At(Root(h)) EXCEPT !.state = "LIVE"])
    /\ Return(h)
    /\ UNCHANGED <<registry, inbox, hand, pinned>>
Quarantine(h) ==
    /\ pc[h] = "quarantine"
    /\ SetTxState(h, "FREE")
    /\ LET r == Root(h)
       IN  IF Current(r) THEN Set(r.tab, r.slot, [At(r) EXCEPT !.state = "QUARANTINED"])
           ELSE UNCHANGED entry
    /\ Return(h)
    /\ UNCHANGED <<registry, inbox, hand, pinned>>

(* A node is freed on the way up; nxt and up are the links it had.         *)
FreeNodeAlone(h, l, nxt, up) ==
    /\ Set(l.tab, l.slot, Cleared(At(l)))
    /\ IF IsRootSlot(h, l) THEN Stop(h)
       ELSE /\ loc' = [loc EXCEPT ![h].cur = up, ![h].down = FALSE,
                                  ![h].next = NULL, ![h].up = NULL]
            /\ Goto(h, "free")
FreeNode(h, l, nxt, up) ==
    /\ Set(l.tab, l.slot, Cleared(At(l)))
    /\ IF IsRootSlot(h, l) THEN Stop(h)
       ELSE /\ loc' = [loc EXCEPT ![h].cur = IF nxt # NULL THEN nxt ELSE up,
                                  ![h].down = nxt # NULL,
                                  ![h].next = NULL, ![h].up = NULL]
            /\ Goto(h, "free")

PinnedTwice(e) == e.pins > 1
Pinned(e) == e.pins # 0

FreeWalk(h) ==
    /\ pc[h] = "free"
    /\ LET l == loc[h].cur
           e == At(l)
       IN  IF ~ResolvesTable(l) \/ ~Current(l)
           THEN Stop(h) /\ UNCHANGED entry
           ELSE IF loc[h].down /\ e.child # NULL
           THEN UNCHANGED <<entry, pc>> /\ loc' = [loc EXCEPT ![h].cur = e.child]
           ELSE IF Pinned(e)
           THEN /\ UNCHANGED entry /\ Goto(h, "drain")
                /\ loc' = [loc EXCEPT ![h].next = e.next, ![h].up = e.parent]
           ELSE FreeNode(h, l, e.next, e.parent)
    /\ UNCHANGED <<registry, tx, inbox, hand, pinned>>

(* Waiting for the pins of a node: it goes with the links read before.     *)
Drained(h) ==
    /\ pc[h] = "drain"
    /\ LET l == loc[h].cur
       IN  IF ~Current(l) THEN Stop(h) /\ UNCHANGED entry
           ELSE At(l).pins = 0 /\ FreeNode(h, l, loc[h].next, loc[h].up)
    /\ UNCHANGED <<registry, tx, inbox, hand, pinned>>

PinTimeout(h) ==
    /\ late /\ pc[h] = "drain"
    /\ LET l == loc[h].cur
       IN  /\ Current(l) /\ At(l).pins # 0
           /\ Set(l.tab, l.slot, [At(l) EXCEPT !.state = "QUARANTINED"])
    /\ Return(h)
    /\ UNCHANGED <<registry, tx, inbox, hand, pinned>>

(* The last line reads the state of the transaction it has released.       *)
Succeeds(h) == Mine(h).state # "ABORTED"

RevokeDone(h) ==
    /\ pc[h] = "done"
    /\ Return(h)
    /\ UNCHANGED <<registry, entry, tx, inbox, hand, pinned>>

-----------------------------------------------------------------------------
(* Messages                                                                *)

TxOf(m) == tx[m.origin][m.slot]

AcceptsAnyGen(m) == TxOf(m).state \in {"PUBLISHED", "ABORTED"}
Accepts(m) == TxOf(m).gen = m.gen /\ TxOf(m).state \in {"PUBLISHED", "ABORTED"}

(* The start of cap_handle_tx_req: the request is checked, without a lock. *)
ReceiveRequest(c) ==
    /\ hand[c] = NULL /\ inbox[c] # <<>> /\ Head(inbox[c]).kind = "req"
    /\ inbox' = [inbox EXCEPT ![c] = Tail(@)]
    /\ hand' = [hand EXCEPT ![c] = IF Accepts(Head(inbox[c])) THEN Head(inbox[c]) ELSE NULL]
    /\ UNCHANGED <<registry, entry, tx, pc, loc, pinned>>

(* cap_handle_tx_ack *)
ReceiveAck(c) ==
    /\ hand[c] = NULL /\ inbox[c] # <<>> /\ Head(inbox[c]).kind = "ack"
    /\ inbox' = [inbox EXCEPT ![c] = Tail(@)]
    /\ LET m == Head(inbox[c])
           r == TxOf(m)
       IN  IF Accepts(m) /\ m.from \in r.targets \ r.acks
           THEN tx' = [tx EXCEPT ![m.origin][m.slot] =
                          [r EXCEPT !.acks = @ \cup {m.from}, !.failed = @ \/ m.failed]]
           ELSE UNCHANGED tx
    /\ UNCHANGED <<registry, entry, hand, pc, loc, pinned>>

(* Every request ends with an acknowledgement to the core it came from.    *)
Answer(c, bad) ==
    /\ inbox' = Sent(inbox, hand[c].origin, Ack(hand[c], c, bad))
    /\ hand' = [hand EXCEPT ![c] = NULL]
    /\ UNCHANGED <<registry, pc, loc, pinned>>

(* The capability is installed from what the transaction holds now.        *)
HandleDelegate(c) ==
    /\ hand[c] # NULL /\ hand[c].op = "DELEGATE"
    /\ LET m == hand[c]
           r == TxOf(m)
       IN  IF r.dst = NULL \/ registry[r.dst] # "up" \/ Owner[r.dst] # c \/ Full(r.dst)
           THEN Answer(c, TRUE) /\ UNCHANGED <<entry, tx>>
           ELSE \E d \in Slots :
                   LET g == entry[r.dst][d].gen + 1
                   IN  /\ FreeSlot(r.dst, d)
                       /\ Set(r.dst, d, Entry("LIVE", g, r.src, NULL, r.srcChild, r.epoch, r.anc))
                       /\ tx' = [tx EXCEPT ![m.origin][m.slot].remote = [slot |-> d, gen |-> g]]
                       /\ Answer(c, FALSE)

HandleRollback(c) ==
    /\ hand[c] # NULL /\ hand[c].op = "ROLLBACK"
    /\ LET r == TxOf(hand[c])
           l == Locator(r.dst, r.remote.slot, r.remote.gen, 0)
       IN  IF r.remote # NULL /\ r.dst # NULL /\ registry[r.dst] = "up" /\ Current(l)
           THEN Set(l.tab, l.slot, Cleared(At(l)))
           ELSE UNCHANGED entry
    /\ Answer(c, FALSE)
    /\ UNCHANGED tx

(* The children of the target are the entries whose parent link has its    *)
(* core, slot and generation: the CSpace is not compared.                  *)
ChildOf(e, origin, r) ==
    /\ e.parent # NULL /\ r.target # NULL
    /\ Owner[e.parent.tab] = origin
    /\ e.parent.slot = r.target.slot /\ e.parent.gen = r.target.gen
    /\ r.epoch >= e.parent.epoch

HandlePrepare(c) ==
    /\ hand[c] # NULL /\ hand[c].op = "PREPARE"
    /\ LET r == TxOf(hand[c])
           Hit(t, e) == /\ registry[t] = "up" /\ Owner[t] = c /\ e.state = "LIVE"
                        /\ ChildOf(e, hand[c].origin, r)
       IN  entry' = [t \in Tables |-> [s \in Slots |->
                        IF Hit(t, entry[t][s])
                        THEN [entry[t][s] EXCEPT !.state = "REVOKING"] ELSE entry[t][s]]]
    /\ Answer(c, FALSE)
    /\ UNCHANGED tx

-----------------------------------------------------------------------------

Call(h) ==
    \/ \E t \in Tables : CreateTable(h, t) \/ DestroyTable(h, t) \/ Grant(h, t)
    \/ \E t \in Tables, s \in Slots : Pin(h, t, s) \/ RevokeStart(h, t, s)
    \/ \E t, d \in Tables, s \in Slots : DelegateLocal(h, t, s, d) \/ DelegateStart(h, t, s, d)

Continue(h) ==
    \/ Publish(h) \/ DelegateAcked(h) \/ DelegateTimeout(h) \/ DelegateCommit(h)
    \/ DelegateAbort(h) \/ Release(h)
    \/ Unlink(h) \/ Mark(h) \/ Climb(h) \/ RevokePublish(h) \/ RevokePrepare(h)
    \/ RevokeAcked(h) \/ RevokeTimeout(h) \/ Quarantine(h) \/ Retire(h) \/ FreeWalk(h)
    \/ Drained(h) \/ PinTimeout(h) \/ RevokeDone(h) \/ Unpin(h)

Handle(c) ==
    ReceiveRequest(c) \/ ReceiveAck(c) \/ HandleDelegate(c) \/ HandleRollback(c)
        \/ HandlePrepare(c)

Next == \/ \E h \in Threads : Call(h) /\ UNCHANGED late
        \/ \E h \in Threads : Continue(h) /\ UNCHANGED late
        \/ \E c \in Cores : Handle(c) /\ UNCHANGED late

Spec == Init /\ [][Next]_vars

(* Operations and handlers go on; deadlines pass.                          *)
FairSpec == Spec /\ (\A h \in Threads : WF_vars(Continue(h) /\ UNCHANGED late))
                 /\ (\A c \in Cores : WF_vars(Handle(c) /\ UNCHANGED late))

-----------------------------------------------------------------------------
(* Properties                                                              *)

(* Every field keeps its type: locators name slots of CSpaces, messages    *)
(* and transactions the parts of the protocol.                             *)
Locators == [tab : Tables, slot : Slots, gen : Nat, epoch : Nat] \cup {NULL}
Identities == Tables \X Slots \X Nat
Entries == [state : {"FREE", "LIVE", "REVOKING", "QUARANTINED"}, gen : Nat,
            parent : Locators, child : Locators, next : Locators, epoch : Nat,
            pins : Nat, anc : SUBSET Identities]
Remotes == [slot : Slots, gen : Nat] \cup {NULL}
Transactions == [state : {"FREE", "PREPARED", "PUBLISHED", "COMMITTED", "ABORTED"},
                 gen : Nat, src : Locators, dst : Tables \cup {NULL}, srcChild : Locators,
                 target : Locators, epoch : Nat, targets : SUBSET Cores, acks : SUBSET Cores,
                 failed : BOOLEAN, remote : Remotes, anc : SUBSET Identities]
Requests == [kind : {"req"}, origin : Cores, slot : TxSlots, gen : Nat,
             op : {"DELEGATE", "ROLLBACK", "PREPARE"}]
Acks == [kind : {"ack"}, origin : Cores, slot : TxSlots, gen : Nat, from : Cores,
         failed : BOOLEAN]
Labels == {"idle", "pinned", "publish", "wait", "commit", "abort", "release", "unlink",
           "mark", "climb", "epoch", "prepare", "await", "quarantine", "retire", "free", "drain", "done"}
Locals == [tab : Tables \cup {NULL}, slot : Slots \cup {0}, gen : Nat, dst : Tables \cup {NULL},
           tx : TxSlots \cup {0}, cur : Locators, down : BOOLEAN, next : Locators, up : Locators]

TypeOK ==
    /\ registry \in [Tables -> {"unborn", "up", "gone"}]
    /\ \A t \in Tables, s \in Slots : entry[t][s] \in Entries
    /\ \A c \in Cores, x \in TxSlots : tx[c][x] \in Transactions
    /\ \A c \in Cores : inbox[c] \in Seq(Requests \cup Acks)
    /\ hand \in [Cores -> Requests \cup {NULL}]
    /\ pc \in [Threads -> Labels]
    /\ loc \in [Threads -> Locals]
    /\ pinned \in [Threads -> Identities \cup {NULL}]
    /\ late \in BOOLEAN

Derived(t, s, id) == InUse(entry[t][s]) /\ id \in entry[t][s].anc

(* A revocation that reports success leaves no live capability derived     *)
(* from the one it revoked (cap_table_revoke).                             *)
RevokeComplete ==
    \A h \in Threads : pc[h] = "done" /\ Succeeds(h) =>
        \A t \in Tables, s \in Slots :
            Derived(t, s, <<loc[h].tab, loc[h].slot, loc[h].gen>>)
                => entry[t][s].state # "LIVE"

(* A destroyed CSpace cuts the lists that led through it.                  *)
NoneDestroyed == \A t \in Tables : registry[t] # "gone"

(* When every answer comes in time and no CSpace has been destroyed it     *)
(* leaves none at all (the freeing walk of cap_table_revoke).              *)
RevokeFrees == NoneDestroyed =>
    \A h \in Threads : pc[h] = "done" /\ Succeeds(h) =>
        \A t \in Tables, s \in Slots : ~Derived(t, s, <<loc[h].tab, loc[h].slot, loc[h].gen>>)

(* A capability leaves LIVE only because it or one it derives from is      *)
(* being revoked, its delegation is rolled back, or its CSpace goes        *)
(* (cap_table_revoke, REVOKE_PREPARE).                                     *)
RevokeOnlyDerived ==
    [][\A t \in Tables, s \in Slots :
          entry[t][s].state = "LIVE" /\ entry'[t][s].state = "REVOKING" =>
              \/ \E h \in Threads : pc[h] = "idle" /\ pc'[h] = "unlink"
              \/ \E h \in Threads : /\ pc[h] # "idle"
                                    /\ <<loc[h].tab, loc[h].slot, loc[h].gen>> \in
                                          entry[t][s].anc \cup {Identity(t, s)}]_vars

(* Lists of siblings end, so the walks along them do (the scan of          *)
(* cap_table_revoke, which does not compare generations).                  *)
ListsEnd == \A t \in Tables, s \in Slots :
                InUse(entry[t][s]) => Siblings(entry[t][s].child)[MaxSiblings] = NULL

(* While a thread holds a pin the entry it pinned is neither freed nor     *)
(* reused (cap_validate_and_pin, the drain of cap_table_revoke).           *)
PinProtects ==
    \A h \in Threads : pinned[h] # NULL =>
        LET p == pinned[h] IN InUse(entry[p[1]][p[2]]) /\ entry[p[1]][p[2]].gen = p[3]

(* The states of a transaction that the steps of its owner leave.           *)
TxState(l) == CASE l = "publish" -> {"PREPARED"}
                [] l \in {"wait", "commit", "await", "prepare"} -> {"PUBLISHED"}
                [] l \in {"abort", "quarantine"} -> {"ABORTED"}
                [] l = "retire" -> {"COMMITTED"}
                [] l = "release" -> {"ABORTED", "COMMITTED"}
                [] l \in {"unlink", "mark", "climb", "epoch"} -> {"PREPARED"}
                [] OTHER -> {"FREE", "PREPARED", "PUBLISHED", "COMMITTED", "ABORTED"}

(* A transaction in flight belongs to one thread, which finds it in the    *)
(* state its own steps left (cap_tx_alloc, cap_tx_release).                *)
TxExclusive == \A h \in Threads : Mine(h).state \in TxState(pc[h])

(* The fields have their types, and                                        *)
(* a delegation to another core that reports success has linked the        *)
(* capability this very transaction installed (cap_table_delegate,         *)
(* cap_handle_tx_ack: an answer is bound to its request).                  *)
AckBound ==
    TypeOK /\ \A h \in Threads : pc[h] = "release" /\ Mine(h).state = "COMMITTED" =>
        LET c == entry[loc[h].tab][loc[h].slot].child
        IN  /\ c # NULL /\ c.tab = loc[h].dst
            /\ Current(c) /\ At(c).parent = Mine(h).src

(* What a revocation has touched is not usable again in its generation,    *)
(* whichever way the revocation ends (K_ERR_TIMEOUT fails closed).         *)
FailsClosed ==
    [][\A t \in Tables, s \in Slots :
          InUse(entry[t][s]) /\ entry[t][s].state # "LIVE" /\ entry'[t][s].gen = entry[t][s].gen
              => entry'[t][s].state # "LIVE"]_vars

(* No operation runs and no message is under way.                          *)
Settled == /\ \A h \in Threads : pc[h] \in {"idle", "pinned"}
           /\ \A c \in Cores : hand[c] = NULL /\ inbox[c] = <<>>

(* A revocation of some other capability finds this one.                   *)
Listed(t, s) ==
    \E u \in Tables, v \in Slots : InUse(entry[u][v]) /\
        LET sib == Siblings(entry[u][v].child)
        IN  \E i \in 0 .. MaxSiblings : sib[i] # NULL /\ sib[i].tab = t /\ sib[i].slot = s
                                         /\ sib[i].gen = entry[t][s].gen

(* A delegation that has failed leaves no usable capability behind once    *)
(* its messages are dealt with (cap_table_delegate, ROLLBACK).             *)
NoOrphan ==
    Settled /\ NoneDestroyed => \A t \in Tables, s \in Slots :
        LET e == entry[t][s]
        IN  registry[t] = "up" /\ e.state = "LIVE" /\ e.parent # NULL
              /\ ResolvesTable(e.parent) /\ Current(e.parent) => Listed(t, s)

(* A first child is a capability that exists, once the operations are over *)
(* (cap_table_delegate, cap_table_revoke).                                 *)
NoDangling ==
    Settled /\ NoneDestroyed => \A t \in Tables, s \in Slots :
        LET e == entry[t][s]
        IN  registry[t] = "up" /\ InUse(e) /\ e.child # NULL /\ ResolvesTable(e.child)
              => Current(e.child)

(* The derivation tree of CSpaces that come and go stays linked: live      *)
(* children are listed, first children exist, and sibling lists end        *)
(* (cap_table_delegate_local, cap_table_revoke, cap_table_destroy).        *)
TreeLinked == NoOrphan /\ NoDangling /\ ListsEnd

(* As long as answers come in time: a successful revocation on any core    *)
(* frees everything that derives from what it revoked (the freeing walk of *)
(* cap_table_revoke over links into CSpaces of other cores), a delegation  *)
(* to another core is linked or has left nothing there (the commit of      *)
(* cap_table_delegate), sibling lists end ...                              *)
PromptTree == ~late => RevokeFrees /\ NoOrphan /\ ListsEnd

(* ... and a pinned entry of another core is neither freed nor reused      *)
(* (cap_validate_and_pin, the drain of cap_table_revoke).                  *)
PromptPinProtects == ~late => PinProtects

(* Every operation returns (the walks of cap_table_revoke end, the waits   *)
(* have deadlines).                                                        *)
Returns == \A h \in Threads : pc[h] \notin {"idle", "pinned"} ~> pc[h] \in {"idle", "pinned"}
=============================================================================
