-------------------------- MODULE CapTables_proofs --------------------------
(***************************************************************************)
(* Proofs about the capability tables: for any number of cores, CSpaces    *)
(* and threads, what a revocation has touched does not become usable again *)
(* in its generation, whichever way the revocation ends; and the allocator *)
(* of a CSpace's slots counts right and finds a slot when there is one.    *)
(***************************************************************************)
EXTENDS CapTransaction, IdAllocator, FiniteSetTheorems, WellFoundedInduction, TLAPS

-----------------------------------------------------------------------------
(* The inductive invariant of the tables and transactions                  *)

(* The types, of the functions too.                                        *)
Typed ==
    /\ registry \in [Tables -> {"unborn", "up", "gone"}]
    /\ entry \in [Tables -> [Slots -> Entries]]
    /\ tx \in [Cores -> [TxSlots -> Transactions]]
    /\ inbox \in [Cores -> Seq(Requests \cup Acks)]
    /\ hand \in [Cores -> Requests \cup {NULL}]
    /\ pc \in [Threads -> Labels] /\ loc \in [Threads -> Locals]
    /\ pinned \in [Threads -> Identities \cup {NULL}]
    /\ late \in BOOLEAN

(* A thread in an operation knows its capability and its transaction, and  *)
(* the CSpace it delegates to.                                             *)
PlacedAt(l, r) ==
    l \notin {"idle", "pinned"} =>
      /\ r.tab \in Tables /\ r.slot \in Slots /\ r.tx \in TxSlots
      /\ l \in {"publish", "wait", "commit", "abort"} => r.dst \in Tables

Placed == \A h \in Threads : PlacedAt(pc[h], loc[h])

IInv == Typed /\ Placed

(* What may become of an entry: one that a revocation has touched is not   *)
(* LIVE again in its generation.                                           *)
Becomes(e, f) ==
    /\ f \in Entries
    /\ InUse(e) /\ e.state # "LIVE" /\ f.gen = e.gen => f.state # "LIVE"

EntriesGo ==
    /\ entry' \in [Tables -> [Slots -> Entries]]
    /\ \A t \in Tables, s \in Slots : Becomes(entry[t][s], entry'[t][s])

(* What a step does.                                                       *)
Goes == EntriesGo /\ Typed' /\ Placed'

-----------------------------------------------------------------------------
(* Entries                                                                 *)

(* The sizes.                                                              *)
LEMMA Sizes ==
    /\ NumSlots \in Nat /\ NumSlots > 0 /\ NumTx \in Nat /\ MaxGen \in Nat /\ MaxTx \in Nat
    /\ InboxSize \in Nat /\ 0 \in Slots /\ Slots \subseteq Nat
BY CapAssumption DEF Slots

(* The cores of threads and CSpaces.                                       *)
LEMMA Homes ==
    /\ \A h \in Threads : Home[h] \in Cores
    /\ \A t \in Tables : Owner[t] \in Cores
    /\ NULL \notin Tables
BY CapAssumption, Zenon

(* Locators.                                                               *)
LEMMA LocatorIs ==
    ASSUME NEW t \in Tables, NEW s \in Slots, NEW g \in Nat, NEW ep \in Nat
    PROVE  /\ Locator(t, s, g, ep) \in Locators /\ NULL \in Locators
           /\ Locator(t, s, g, ep).tab = t /\ Locator(t, s, g, ep).slot = s
           /\ Locator(t, s, g, ep).gen = g /\ Locator(t, s, g, ep).epoch = ep
BY DEF Locator, Locators

(* The fields of a locator.                                                *)
LEMMA LocatorHas ==
    ASSUME NEW l \in Locators, l # NULL
    PROVE  l.tab \in Tables /\ l.slot \in Slots /\ l.gen \in Nat /\ l.epoch \in Nat
BY DEF Locators

(* The fields of an entry.                                                 *)
LEMMA EntryHas ==
    ASSUME NEW e \in Entries
    PROVE  /\ e.state \in {"FREE", "LIVE", "REVOKING", "QUARANTINED"}
           /\ e.gen \in Nat /\ e.epoch \in Nat /\ e.pins \in Nat
           /\ e.parent \in Locators /\ e.child \in Locators /\ e.next \in Locators
           /\ e.anc \in SUBSET Identities
BY DEF Entries

(* A new life of a slot, of either kind, has another generation.           *)
LEMMA NewLife ==
    ASSUME NEW e \in Entries, NEW st \in {"FREE", "LIVE"}, NEW up \in Locators,
           NEW nxt \in Locators, NEW ep \in Nat, NEW an \in SUBSET Identities
    PROVE  Becomes(e, Entry(st, e.gen + 1, up, NULL, nxt, ep, an))
<1>1. e.gen \in Nat /\ e.gen + 1 \in Nat /\ e.gen + 1 # e.gen
  BY EntryHas
<1>2. NULL \in Locators
  BY DEF Locators
<1>3. Entry(st, e.gen + 1, up, NULL, nxt, ep, an) \in Entries
  BY <1>1, <1>2 DEF Entry, Entries
<1>4. Entry(st, e.gen + 1, up, NULL, nxt, ep, an).gen = e.gen + 1
  BY DEF Entry
<1> QED
  BY <1>1, <1>3, <1>4, Zenon DEF Becomes

(* A slot is cleared.                                                      *)
LEMMA ClearedLife == ASSUME NEW e \in Entries PROVE Becomes(e, Cleared(e))
<1>1. e.epoch \in Nat /\ NULL \in Locators /\ {} \in SUBSET Identities
  BY EntryHas DEF Locators
<1> QED
  BY <1>1, NewLife, Zenon DEF Cleared

(* A root capability.                                                      *)
LEMMA RootLife == ASSUME NEW e \in Entries PROVE Becomes(e, RootEntry(e.gen + 1))
<1>1. 0 \in Nat /\ NULL \in Locators /\ {} \in SUBSET Identities
  BY DEF Locators
<1> QED
  BY <1>1, NewLife, Zenon DEF RootEntry

(* Links, epoch and pins of an entry change, or a revocation touches it.   *)
LEMMA SameLife ==
    ASSUME NEW e \in Entries
    PROVE  /\ Becomes(e, e)
           /\ \A l \in Locators : Becomes(e, [e EXCEPT !.child = l])
           /\ \A l \in Locators : Becomes(e, [e EXCEPT !.next = l])
           /\ \A n \in Nat : Becomes(e, [e EXCEPT !.epoch = n])
           /\ \A n \in Nat : Becomes(e, [e EXCEPT !.pins = n])
           /\ \A st \in {"FREE", "REVOKING", "QUARANTINED"} :
                Becomes(e, [e EXCEPT !.state = st])
<1>1. Becomes(e, e)
  BY Zenon DEF Becomes
<1>2. ASSUME NEW l \in Locators PROVE Becomes(e, [e EXCEPT !.child = l])
  BY DEF Becomes, Entries
<1>3. ASSUME NEW l \in Locators PROVE Becomes(e, [e EXCEPT !.next = l])
  BY DEF Becomes, Entries
<1>4. ASSUME NEW n \in Nat PROVE Becomes(e, [e EXCEPT !.epoch = n])
  BY DEF Becomes, Entries
<1>5. ASSUME NEW n \in Nat PROVE Becomes(e, [e EXCEPT !.pins = n])
  BY DEF Becomes, Entries
<1>6. ASSUME NEW st \in {"FREE", "REVOKING", "QUARANTINED"}
      PROVE  Becomes(e, [e EXCEPT !.state = st])
  BY DEF Becomes, Entries
<1> QED
  BY <1>1, <1>2, <1>3, <1>4, <1>5, <1>6, Zenon

(* One entry changes, or none.                                             *)
LEMMA SetGoes ==
    ASSUME Typed, NEW t, NEW s, NEW f,
           t \in Tables /\ s \in Slots => Becomes(entry[t][s], f),
           entry' = [entry EXCEPT ![t][s] = f]
    PROVE  EntriesGo
<1>1. entry \in [Tables -> [Slots -> Entries]]
  BY Zenon DEF Typed
<1>2. t \in Tables /\ s \in Slots => f \in Entries
  BY Zenon DEF Becomes
<1>3. entry' \in [Tables -> [Slots -> Entries]]
  BY <1>1, <1>2, Zenon
<1>4. \A u \in Tables, v \in Slots :
        entry'[u][v] = IF u = t /\ v = s THEN f ELSE entry[u][v]
  BY <1>1
<1>5. \A u \in Tables, v \in Slots : Becomes(entry[u][v], entry[u][v])
  BY <1>1, SameLife, Zenon
<1> QED
  BY <1>3, <1>4, <1>5, Zenon DEF EntriesGo

(* No entry changes.                                                       *)
LEMMA StayGoes ==
    ASSUME Typed, entry' = entry
    PROVE  EntriesGo
<1>1. entry \in [Tables -> [Slots -> Entries]]
  BY Zenon DEF Typed
<1> QED
  BY <1>1, SameLife, Zenon DEF EntriesGo

-----------------------------------------------------------------------------
(* Transactions, messages and threads                                      *)

(* The fields of a transaction.                                            *)
LEMMA TransactionHas ==
    ASSUME NEW r \in Transactions
    PROVE  /\ r.gen \in Nat /\ r.epoch \in Nat /\ r.src \in Locators
           /\ r.dst \in Tables \cup {NULL} /\ r.srcChild \in Locators
           /\ r.remote \in Remotes /\ r.targets \in SUBSET Cores /\ r.acks \in SUBSET Cores
           /\ r.failed \in BOOLEAN /\ r.anc \in SUBSET Identities
BY DEF Transactions

(* The states of a transaction.                                            *)
LEMMA TxStates ==
    ASSUME NEW r \in Transactions,
           NEW st \in {"FREE", "PREPARED", "PUBLISHED", "COMMITTED", "ABORTED"}
    PROVE  [r EXCEPT !.state = st] \in Transactions
BY DEF Transactions

(* A new transaction.                                                      *)
LEMMA NewTxIs == ASSUME NEW g \in Nat PROVE NewTx("PREPARED", g + 1) \in Transactions
<1>1. NULL \in Locators /\ NULL \in Remotes
  BY DEF Locators, Remotes
<1> QED
  BY <1>1 DEF NewTx, Transactions

(* One transaction changes, or none.                                       *)
LEMMA SetTxTyped ==
    ASSUME Typed, NEW c, NEW x, NEW r,
           c \in Cores /\ x \in TxSlots => r \in Transactions,
           tx' = [tx EXCEPT ![c][x] = r]
    PROVE  tx' \in [Cores -> [TxSlots -> Transactions]]
<1>1. tx \in [Cores -> [TxSlots -> Transactions]]
  BY Zenon DEF Typed
<1> QED
  BY <1>1, Zenon

(* The transaction of a thread in an operation.                            *)
LEMMA MineTyped ==
    ASSUME IInv, NEW h \in Threads, pc[h] \notin {"idle", "pinned"}
    PROVE  /\ Mine(h) \in Transactions /\ loc[h] \in Locals
           /\ loc[h].tab \in Tables /\ loc[h].slot \in Slots /\ loc[h].tx \in TxSlots
           /\ pc[h] \in {"publish", "wait", "commit", "abort"} => loc[h].dst \in Tables
<1>1. /\ tx \in [Cores -> [TxSlots -> Transactions]] /\ loc \in [Threads -> Locals]
      /\ Home[h] \in Cores /\ PlacedAt(pc[h], loc[h])
  BY Homes, Zenon DEF IInv, Typed, Placed
<1>2. /\ loc[h].tab \in Tables /\ loc[h].slot \in Slots /\ loc[h].tx \in TxSlots
      /\ pc[h] \in {"publish", "wait", "commit", "abort"} => loc[h].dst \in Tables
  BY <1>1, Zenon DEF PlacedAt
<1> QED
  BY <1>1, <1>2, Zenon DEF Mine

(* The state of a thread's transaction changes.                            *)
LEMMA SetStateTyped ==
    ASSUME IInv, NEW h \in Threads, pc[h] \notin {"idle", "pinned"},
           NEW st \in {"FREE", "PREPARED", "PUBLISHED", "COMMITTED", "ABORTED"},
           SetTxState(h, st)
    PROVE  tx' \in [Cores -> [TxSlots -> Transactions]]
<1>1. [Mine(h) EXCEPT !.state = st] \in Transactions
  BY MineTyped, TxStates, Zenon
<1>2. tx' = [tx EXCEPT ![Home[h]][loc[h].tx] = [Mine(h) EXCEPT !.state = st]] /\ Typed
  BY Zenon DEF SetTxState, SetTx, IInv
<1> QED
  BY <1>1, <1>2, SetTxTyped, Zenon

(* A request.                                                              *)
LEMMA RequestIs ==
    ASSUME NEW c \in Cores, NEW x \in TxSlots, NEW g \in Nat,
           NEW o \in {"DELEGATE", "ROLLBACK", "PREPARE"}
    PROVE  Request(c, x, g, o) \in Requests
BY DEF Request, Requests

(* An answer.                                                              *)
LEMMA AckIs ==
    ASSUME NEW m \in Requests, NEW c \in Cores, NEW bad \in BOOLEAN
    PROVE  Ack(m, c, bad) \in Acks
BY DEF Ack, Acks, Requests

(* A message is put into a ring or dropped.                                *)
LEMMA SentTyped ==
    ASSUME Typed, NEW c, NEW m \in Requests \cup Acks
    PROVE  Sent(inbox, c, m) \in [Cores -> Seq(Requests \cup Acks)]
<1>1. inbox \in [Cores -> Seq(Requests \cup Acks)]
  BY Zenon DEF Typed
<1>2. c \in Cores => Append(inbox[c], m) \in Seq(Requests \cup Acks)
  BY <1>1
<1>3. [inbox EXCEPT ![c] = Append(@, m)] \in [Cores -> Seq(Requests \cup Acks)]
  BY <1>1, <1>2, Zenon
<1> QED
  BY <1>1, <1>3, Zenon DEF Sent

(* A message is taken from a ring.                                         *)
LEMMA TakenTyped ==
    ASSUME Typed, NEW c \in Cores, inbox[c] # << >>
    PROVE  /\ [inbox EXCEPT ![c] = Tail(@)] \in [Cores -> Seq(Requests \cup Acks)]
           /\ Head(inbox[c]) \in Requests \cup Acks
<1>1. inbox \in [Cores -> Seq(Requests \cup Acks)]
  BY Zenon DEF Typed
<1>2. inbox[c] \in Seq(Requests \cup Acks)
  BY <1>1, Zenon
<1>3. Tail(inbox[c]) \in Seq(Requests \cup Acks) /\ Head(inbox[c]) \in Requests \cup Acks
  BY <1>2
<1> QED
  BY <1>1, <1>3, Zenon

(* A thread moves on, with other locals ...                                *)
LEMMA Moves ==
    ASSUME IInv, NEW h \in Threads, NEW l \in Labels, NEW r \in Locals, PlacedAt(l, r),
           pc' = [pc EXCEPT ![h] = l], loc' = [loc EXCEPT ![h] = r]
    PROVE  pc' \in [Threads -> Labels] /\ loc' \in [Threads -> Locals] /\ Placed'
<1>1. pc \in [Threads -> Labels] /\ loc \in [Threads -> Locals] /\ Placed
  BY Zenon DEF IInv, Typed
<1>2. pc' \in [Threads -> Labels] /\ loc' \in [Threads -> Locals]
  BY <1>1, Zenon
<1>3. \A k \in Threads : /\ pc'[k] = IF k = h THEN l ELSE pc[k]
                         /\ loc'[k] = IF k = h THEN r ELSE loc[k]
  BY <1>1, Zenon
<1> QED
  BY <1>1, <1>2, <1>3, Zenon DEF Placed

(* ... or the same.                                                        *)
LEMMA Goto1 ==
    ASSUME IInv, NEW h \in Threads, NEW l \in Labels, PlacedAt(l, loc[h]),
           Goto(h, l), loc' = loc
    PROVE  pc' \in [Threads -> Labels] /\ loc' \in [Threads -> Locals] /\ Placed'
<1>1. pc \in [Threads -> Labels] /\ loc \in [Threads -> Locals] /\ Placed
  BY Zenon DEF IInv, Typed
<1>2. pc' = [pc EXCEPT ![h] = l]
  BY Zenon DEF Goto
<1>3. pc' \in [Threads -> Labels] /\ loc' \in [Threads -> Locals]
  BY <1>1, <1>2, Zenon
<1>4. \A k \in Threads : pc'[k] = IF k = h THEN l ELSE pc[k]
  BY <1>1, <1>2, Zenon
<1> QED
  BY <1>1, <1>3, <1>4, Zenon DEF Placed

(* No thread moves.                                                        *)
LEMMA NoMove ==
    ASSUME IInv, pc' = pc, loc' = loc
    PROVE  pc' \in [Threads -> Labels] /\ loc' \in [Threads -> Locals] /\ Placed'
BY Zenon DEF IInv, Typed, Placed

(* The locals of a thread that is in no operation.                         *)
LEMMA NoLocIs == NoLoc \in Locals /\ "idle" \in Labels /\ "pinned" \in Labels
<1>1. NULL \in Locators
  BY DEF Locators
<1> QED
  BY <1>1, Sizes DEF NoLoc, Locals, Labels

(* The call is over.                                                       *)
LEMMA Returned ==
    ASSUME IInv, NEW h \in Threads, Return(h)
    PROVE  pc' \in [Threads -> Labels] /\ loc' \in [Threads -> Locals] /\ Placed'
<1>1. pc' = [pc EXCEPT ![h] = "idle"] /\ loc' = [loc EXCEPT ![h] = NoLoc]
  BY Zenon DEF Return, Goto
<1>2. PlacedAt("idle", NoLoc)
  BY Zenon DEF PlacedAt
<1> QED
  BY <1>1, <1>2, NoLocIs, Moves, Zenon

-----------------------------------------------------------------------------
(* Steps of a thread that starts a call                                    *)

(* What the parts of a step amount to.                                     *)
LEMMA Together ==
    ASSUME IInv, EntriesGo, Placed', late' = late,
           pc' \in [Threads -> Labels], loc' \in [Threads -> Locals],
           registry' = registry \/ registry' \in [Tables -> {"unborn", "up", "gone"}],
           tx' = tx \/ tx' \in [Cores -> [TxSlots -> Transactions]],
           inbox' = inbox \/ inbox' \in [Cores -> Seq(Requests \cup Acks)],
           hand' = hand \/ hand' \in [Cores -> Requests \cup {NULL}],
           pinned' = pinned \/ pinned' \in [Threads -> Identities \cup {NULL}]
    PROVE  Goes
BY Zenon DEF IInv, Typed, Goes, EntriesGo

(* The entries.                                                            *)
LEMMA EntryIs ==
    ASSUME Typed, NEW t \in Tables, NEW s \in Slots
    PROVE  entry[t][s] \in Entries /\ Identity(t, s) \in Identities
<1>1. entry[t][s] \in Entries
  BY Zenon DEF Typed
<1>2. entry[t][s].gen \in Nat
  BY <1>1, EntryHas, Zenon
<1> QED
  BY <1>1, <1>2 DEF Identity, Identities

(* A CSpace is created ...                                                 *)
LEMMA CreateTableStep ==
    ASSUME IInv, NEW h \in Threads, NEW t \in Tables, CreateTable(h, t), late' = late
    PROVE  Goes
<1>1. registry \in [Tables -> {"unborn", "up", "gone"}] /\ Typed
  BY Zenon DEF IInv, Typed
<1>2. registry' = [registry EXCEPT ![t] = "up"] /\ entry' = entry /\ tx' = tx
      /\ inbox' = inbox /\ hand' = hand /\ pc' = pc /\ loc' = loc /\ pinned' = pinned
  BY Zenon DEF CreateTable
<1>3. registry' \in [Tables -> {"unborn", "up", "gone"}]
  BY <1>1, <1>2
<1> QED
  BY <1>1, <1>2, <1>3, StayGoes, NoMove, Together, Zenon

(* ... and destroyed.                                                      *)
LEMMA DestroyTableStep ==
    ASSUME IInv, NEW h \in Threads, NEW t \in Tables, DestroyTable(h, t), late' = late
    PROVE  Goes
<1> DEFINE Gone(e) == IF e.state = "LIVE" THEN [e EXCEPT !.state = "FREE"] ELSE e
<1>1. /\ registry \in [Tables -> {"unborn", "up", "gone"}] /\ Typed
      /\ entry \in [Tables -> [Slots -> Entries]]
  BY Zenon DEF IInv, Typed
<1>2. registry' = [registry EXCEPT ![t] = "gone"] /\ tx' = tx
      /\ inbox' = inbox /\ hand' = hand /\ pc' = pc /\ loc' = loc /\ pinned' = pinned
  BY Zenon DEF DestroyTable
<1>3. registry' \in [Tables -> {"unborn", "up", "gone"}]
  BY <1>1, <1>2
<1>4. entry' = [entry EXCEPT ![t] = [s \in Slots |-> Gone(entry[t][s])]]
  BY DEF DestroyTable
<1>5. ASSUME NEW e \in Entries PROVE Becomes(e, Gone(e))
  BY SameLife, Zenon
<1>6. \A e \in Entries : Gone(e) \in Entries
  BY <1>5, Zenon DEF Becomes
<1> HIDE DEF Gone
<1>7. [s \in Slots |-> Gone(entry[t][s])] \in [Slots -> Entries]
  BY <1>1, <1>6
<1>8. entry' \in [Tables -> [Slots -> Entries]]
  BY <1>1, <1>4, <1>7, Zenon
<1>9. \A u \in Tables, s \in Slots :
        entry'[u][s] = IF u = t THEN Gone(entry[u][s]) ELSE entry[u][s]
  BY <1>1, <1>4
<1>10. \A u \in Tables, s \in Slots : entry[u][s] \in Entries
  BY <1>1, Zenon
<1>11. ASSUME NEW u \in Tables, NEW s \in Slots PROVE Becomes(entry[u][s], entry'[u][s])
  <2>1. Becomes(entry[u][s], Gone(entry[u][s])) /\ Becomes(entry[u][s], entry[u][s])
    BY <1>5, <1>10, SameLife, Zenon
  <2> QED
    BY <1>9, <2>1, Zenon
<1>12. EntriesGo
  BY <1>8, <1>11, Zenon DEF EntriesGo
<1> QED
  BY <1>2, <1>3, <1>12, NoMove, Together, Zenon

(* A root capability is granted.                                           *)
LEMMA GrantStep ==
    ASSUME IInv, NEW h \in Threads, NEW t \in Tables, Grant(h, t), late' = late
    PROVE  Goes
<1>1. PICK s \in Slots : entry' = [entry EXCEPT ![t][s] = RootEntry(entry[t][s].gen + 1)]
  BY Zenon DEF Grant, Set
<1>2. registry' = registry /\ tx' = tx
      /\ inbox' = inbox /\ hand' = hand /\ pc' = pc /\ loc' = loc /\ pinned' = pinned
  BY Zenon DEF Grant
<1>3. Typed /\ Becomes(entry[t][s], RootEntry(entry[t][s].gen + 1))
  BY EntryIs, RootLife, Zenon DEF IInv
<1>4. EntriesGo
  BY <1>1, <1>3, SetGoes, Zenon
<1> QED
  BY <1>2, <1>4, NoMove, Together, Zenon

(* A capability is pinned ...                                              *)
LEMMA PinStep ==
    ASSUME IInv, NEW h \in Threads, NEW t \in Tables, NEW s \in Slots, Pin(h, t, s), late' = late
    PROVE  Goes
<1>1. entry' = [entry EXCEPT ![t][s] = [entry[t][s] EXCEPT !.pins = entry[t][s].pins + 1]]
  BY Zenon DEF Pin, Set
<1>2. registry' = registry /\ tx' = tx
      /\ inbox' = inbox /\ hand' = hand /\ Goto(h, "pinned") /\ loc' = loc
      /\ pinned' = [pinned EXCEPT ![h] = Identity(t, s)]
  BY Zenon DEF Pin
<1>3. Typed /\ entry[t][s] \in Entries /\ Identity(t, s) \in Identities
      /\ pinned \in [Threads -> Identities \cup {NULL}]
  BY EntryIs, Zenon DEF IInv, Typed
<1>4. entry[t][s].pins + 1 \in Nat
  BY <1>3, EntryHas
<1>5. EntriesGo
  BY <1>1, <1>3, <1>4, SameLife, SetGoes, Zenon
<1>6. pinned' \in [Threads -> Identities \cup {NULL}]
  BY <1>2, <1>3, Zenon
<1>7. PlacedAt("pinned", loc[h])
  BY Zenon DEF PlacedAt
<1> QED
  BY <1>2, <1>5, <1>6, <1>7, NoLocIs, Goto1, Together, Zenon

(* ... and unpinned.                                                       *)
LEMMA UnpinStep ==
    ASSUME IInv, NEW h \in Threads, Unpin(h), late' = late
    PROVE  Goes
<1>1. PICK t, s : entry' = [entry EXCEPT ![t][s] =
         IF InUse(entry[t][s]) /\ entry[t][s].pins > 0
         THEN [entry[t][s] EXCEPT !.pins = entry[t][s].pins - 1] ELSE entry[t][s]]
  BY Zenon DEF Unpin, Set
<1>2. registry' = registry /\ tx' = tx
      /\ inbox' = inbox /\ hand' = hand /\ Goto(h, "idle") /\ loc' = loc
      /\ pinned' = [pinned EXCEPT ![h] = NULL]
  BY Zenon DEF Unpin
<1>3. Typed /\ pinned \in [Threads -> Identities \cup {NULL}]
  BY Zenon DEF IInv, Typed
<1>4. ASSUME NEW n \in Nat, n > 0 PROVE n - 1 \in Nat
  BY <1>4
<1>5. ASSUME t \in Tables, s \in Slots
      PROVE  Becomes(entry[t][s],
                     IF InUse(entry[t][s]) /\ entry[t][s].pins > 0
                     THEN [entry[t][s] EXCEPT !.pins = entry[t][s].pins - 1] ELSE entry[t][s])
  <2>1. entry[t][s] \in Entries
    BY <1>3, <1>5, EntryIs, Zenon
  <2>2. entry[t][s].pins \in Nat
    BY <2>1, EntryHas, Zenon
  <2>3. CASE entry[t][s].pins > 0
    <3>1. entry[t][s].pins - 1 \in Nat
      BY <2>2, <2>3, <1>4, Zenon
    <3> QED
      BY <2>1, <3>1, SameLife, Zenon
  <2>4. CASE ~(entry[t][s].pins > 0)
    BY <2>1, <2>4, SameLife, Zenon
  <2> QED
    BY <2>3, <2>4, Zenon
<1>6. EntriesGo
  BY <1>1, <1>3, <1>5, SetGoes, Zenon
<1>7. pinned' \in [Threads -> Identities \cup {NULL}]
  BY <1>2, <1>3, Zenon
<1>8. PlacedAt("idle", loc[h])
  BY Zenon DEF PlacedAt
<1> QED
  BY <1>2, <1>6, <1>7, <1>8, NoLocIs, Goto1, Together, Zenon

(* A capability is delegated on one core.                                  *)
LEMMA DelegateLocalStep ==
    ASSUME IInv, NEW h \in Threads, NEW src \in Tables, NEW s \in Slots, NEW dst \in Tables,
           DelegateLocal(h, src, s, dst), late' = late
    PROVE  Goes
<1> DEFINE p == entry[src][s]
           Child(g) == Entry("LIVE", g, Locator(src, s, p.gen, p.epoch), NULL, p.child,
                             p.epoch, p.anc \cup {Identity(src, s)})
<1>1. PICK d \in Slots :
         /\ FreeSlot(dst, d)
         /\ entry' = [[entry EXCEPT ![dst][d] = Child(entry[dst][d].gen + 1)]
                         EXCEPT ![src][s].child = Locator(dst, d, entry[dst][d].gen + 1, p.epoch)]
  BY Zenon DEF DelegateLocal
<1>2. registry' = registry /\ tx' = tx /\ p.state = "LIVE"
      /\ inbox' = inbox /\ hand' = hand /\ pc' = pc /\ loc' = loc /\ pinned' = pinned
  BY Zenon DEF DelegateLocal
<1>3. Typed /\ p \in Entries /\ entry[dst][d] \in Entries /\ Identity(src, s) \in Identities
      /\ entry \in [Tables -> [Slots -> Entries]]
  BY EntryIs, Zenon DEF IInv, Typed
<1>4. p.gen \in Nat /\ p.epoch \in Nat /\ p.child \in Locators /\ p.anc \in SUBSET Identities
      /\ entry[dst][d].gen \in Nat
  BY <1>3, EntryHas, Zenon
<1>5. entry[dst][d].gen + 1 \in Nat /\ p.anc \cup {Identity(src, s)} \in SUBSET Identities
  BY <1>3, <1>4
<1> DEFINE l == Locator(dst, d, entry[dst][d].gen + 1, p.epoch)
           e == Child(entry[dst][d].gen + 1)
<1>6. l \in Locators /\ Locator(src, s, p.gen, p.epoch) \in Locators
  BY <1>4, <1>5, LocatorIs, Zenon
<1>7. Becomes(entry[dst][d], e)
  BY <1>3, <1>4, <1>5, <1>6, NewLife, Zenon
<1>8. Becomes(p, [p EXCEPT !.child = l])
  BY <1>3, <1>6, SameLife, Zenon
<1>9. ~(dst = src /\ d = s)
  BY <1>1, <1>2, Zenon DEF FreeSlot, InUse
<1>10. entry' = [[entry EXCEPT ![dst][d] = e] EXCEPT ![src][s].child = l]
  BY <1>1, Zenon
<1>11. PICK f : f = e
  BY Zenon
<1>12. PICK m : m = l
  BY Zenon
<1>13. entry' = [[entry EXCEPT ![dst][d] = f] EXCEPT ![src][s].child = m]
  BY <1>10, <1>11, <1>12, Zenon
<1>14. Becomes(entry[dst][d], f) /\ Becomes(entry[src][s], [entry[src][s] EXCEPT !.child = m])
  BY <1>7, <1>8, <1>11, <1>12, Zenon
<1>15. f \in Entries /\ [entry[src][s] EXCEPT !.child = m] \in Entries
  BY <1>14, Zenon DEF Becomes
<1> HIDE DEF e, l, p
<1>16. PICK E : E = [entry EXCEPT ![dst][d] = f]
  BY Zenon
<1>17. /\ E \in [Tables -> [Slots -> Entries]]
       /\ \A u \in Tables, v \in Slots :
            E[u][v] = IF u = dst /\ v = d THEN f ELSE entry[u][v]
  BY <1>3, <1>15, <1>16
<1>18. entry' = [E EXCEPT ![src][s] = [entry[src][s] EXCEPT !.child = m]]
  <2>1. E[src][s] = entry[src][s]
    BY <1>9, <1>17, Zenon
  <2>2. entry' = [E EXCEPT ![src][s].child = m]
    BY <1>13, <1>16, Zenon
  <2> QED
    BY <2>1, <2>2
<1>19. PICK q : q = [entry[src][s] EXCEPT !.child = m]
  BY Zenon
<1>20. entry' = [E EXCEPT ![src][s] = q] /\ q \in Entries
  BY <1>15, <1>18, <1>19, Zenon
<1>21. entry' \in [Tables -> [Slots -> Entries]]
  BY <1>17, <1>20, Zenon
<1>22. \A u \in Tables, v \in Slots :
         entry'[u][v] = IF u = src /\ v = s THEN q ELSE E[u][v]
  BY <1>17, <1>20
<1>23. ASSUME NEW u \in Tables, NEW v \in Slots PROVE Becomes(entry[u][v], entry'[u][v])
  <2>1. CASE u = src /\ v = s
    BY <2>1, <1>14, <1>19, <1>22, Zenon
  <2>2. CASE ~(u = src /\ v = s) /\ u = dst /\ v = d
    BY <2>2, <1>14, <1>17, <1>22, Zenon
  <2>3. CASE ~(u = src /\ v = s) /\ ~(u = dst /\ v = d)
    <3>1. entry'[u][v] = E[u][v]
      BY <2>3, <1>22, Zenon
    <3>2. E[u][v] = IF u = dst /\ v = d THEN f ELSE entry[u][v]
      BY <1>17, Zenon
    <3>3. entry'[u][v] = entry[u][v]
      BY <2>3, <3>1, <3>2, SMTT(20)
    <3> QED
      BY <3>3, <1>3, EntryIs, SameLife, Zenon
  <2> QED
    BY <2>1, <2>2, <2>3, Zenon
<1>24. EntriesGo
  BY <1>21, <1>23, Zenon DEF EntriesGo
<1> QED
  BY <1>2, <1>24, NoMove, Together, Zenon

(* The transaction of a new operation.                                     *)
LEMMA TxForIs ==
    ASSUME Typed, NEW c \in Cores, NEW x \in TxSlots
    PROVE  tx[c][x].gen \in Nat /\ NewTx("PREPARED", tx[c][x].gen + 1) \in Transactions
<1>1. tx[c][x] \in Transactions
  BY Zenon DEF Typed
<1>2. tx[c][x].gen \in Nat
  BY <1>1, TransactionHas, Zenon
<1> QED
  BY <1>2, NewTxIs, Zenon

(* A delegation to another core begins.                                    *)
LEMMA DelegateStartStep ==
    ASSUME IInv, NEW h \in Threads, NEW src \in Tables, NEW s \in Slots, NEW dst \in Tables,
           DelegateStart(h, src, s, dst), late' = late
    PROVE  Goes
<1> DEFINE p == entry[src][s]
           T(n) == [n EXCEPT !.src = Locator(src, s, p.gen, p.epoch), !.dst = dst,
                        !.srcChild = p.child, !.epoch = p.epoch,
                        !.targets = {Owner[dst]}, !.anc = p.anc \cup {Identity(src, s)}]
           L(x) == [NoLoc EXCEPT !.tab = src, !.slot = s, !.gen = p.gen, !.dst = dst, !.tx = x]
<1>1. PICK x \in TxSlots :
         /\ tx' = [tx EXCEPT ![Home[h]][x] = T(NewTx("PREPARED", tx[Home[h]][x].gen + 1))]
         /\ loc' = [loc EXCEPT ![h] = L(x)]
  BY Zenon DEF DelegateStart
<1>2. registry' = registry /\ entry' = entry
      /\ inbox' = inbox /\ hand' = hand /\ Goto(h, "publish") /\ pinned' = pinned
  BY Zenon DEF DelegateStart
<1>3. Typed /\ p \in Entries /\ Identity(src, s) \in Identities /\ Home[h] \in Cores
      /\ Owner[dst] \in Cores
  BY EntryIs, Homes, Zenon DEF IInv
<1>4. p.gen \in Nat /\ p.epoch \in Nat /\ p.child \in Locators /\ p.anc \in SUBSET Identities
  BY <1>3, EntryHas, Zenon
<1>5. Locator(src, s, p.gen, p.epoch) \in Locators
  BY <1>4, LocatorIs, Zenon
<1>6. p.anc \cup {Identity(src, s)} \in SUBSET Identities /\ {Owner[dst]} \in SUBSET Cores
  BY <1>3, <1>4
<1>7. ASSUME NEW n \in Transactions PROVE T(n) \in Transactions
  <2> HIDE DEF p
  <2> QED
    BY <1>4, <1>5, <1>6, Zenon DEF Transactions
<1>8. tx' \in [Cores -> [TxSlots -> Transactions]]
  <2>1. T(NewTx("PREPARED", tx[Home[h]][x].gen + 1)) \in Transactions
    BY <1>3, <1>7, TxForIs, Zenon
  <2> QED
    BY <1>1, <1>3, <2>1, SetTxTyped, Zenon
<1>9. L(x) \in Locals /\ PlacedAt("publish", L(x))
  <2> HIDE DEF p
  <2>1. NoLoc \in Locals
    BY NoLocIs, Zenon
  <2>2. L(x) \in Locals
    BY <2>1, <1>4, Zenon DEF Locals
  <2>3. L(x).tab = src /\ L(x).slot = s /\ L(x).tx = x /\ L(x).dst = dst
    BY DEF NoLoc
  <2> QED
    BY <2>2, <2>3, Zenon DEF PlacedAt
<1>10. "publish" \in Labels /\ pc' = [pc EXCEPT ![h] = "publish"]
  BY <1>2 DEF Labels, Goto
<1>11. EntriesGo
  BY <1>2, <1>3, StayGoes, Zenon
<1> QED
  BY <1>1, <1>2, <1>8, <1>9, <1>10, <1>11, Moves, Together, Zenon

(* A revocation begins.                                                    *)
LEMMA RevokeStartStep ==
    ASSUME IInv, NEW h \in Threads, NEW t \in Tables, NEW s \in Slots,
           RevokeStart(h, t, s), late' = late
    PROVE  Goes
<1> DEFINE p == entry[t][s]
           L(x) == [NoLoc EXCEPT !.tab = t, !.slot = s, !.gen = p.gen, !.tx = x, !.up = p.parent]
<1>1. PICK x \in TxSlots :
         /\ tx' = [tx EXCEPT ![Home[h]][x] = NewTx("PREPARED", tx[Home[h]][x].gen + 1)]
         /\ loc' = [loc EXCEPT ![h] = L(x)]
  BY Zenon DEF RevokeStart
<1>2. registry' = registry /\ entry' = [entry EXCEPT ![t][s] = [p EXCEPT !.state = "REVOKING"]]
      /\ inbox' = inbox /\ hand' = hand /\ Goto(h, "unlink") /\ pinned' = pinned
  BY Zenon DEF RevokeStart, Set
<1>3. Typed /\ p \in Entries /\ Home[h] \in Cores
  BY EntryIs, Homes, Zenon DEF IInv
<1>4. p.gen \in Nat /\ p.parent \in Locators
  BY <1>3, EntryHas, Zenon
<1>5. tx' \in [Cores -> [TxSlots -> Transactions]]
  BY <1>1, <1>3, TxForIs, SetTxTyped, Zenon
<1>6. L(x) \in Locals /\ PlacedAt("unlink", L(x))
  <2> HIDE DEF p
  <2>1. NoLoc \in Locals
    BY NoLocIs, Zenon
  <2>2. L(x) \in Locals
    BY <2>1, <1>4, Zenon DEF Locals
  <2>3. L(x).tab = t /\ L(x).slot = s /\ L(x).tx = x
    BY DEF NoLoc
  <2> QED
    BY <2>2, <2>3, Zenon DEF PlacedAt
<1>7. "unlink" \in Labels /\ pc' = [pc EXCEPT ![h] = "unlink"]
  BY <1>2 DEF Labels, Goto
<1>8. EntriesGo
  BY <1>2, <1>3, SameLife, SetGoes, Zenon
<1> QED
  BY <1>1, <1>2, <1>5, <1>6, <1>7, <1>8, Moves, Together, Zenon

-----------------------------------------------------------------------------
(* Steps of a delegation                                                   *)

(* Locals that differ in what a walk changes.                              *)
Walked(r, q) == q \in Locals /\ q.tab = r.tab /\ q.slot = r.slot /\ q.tx = r.tx

(* A thread in an operation moves on, with other locals of its own ...     *)
LEMMA Walks ==
    ASSUME IInv, NEW h \in Threads, pc[h] \notin {"idle", "pinned"}, NEW l \in Labels,
           l \notin {"publish", "wait", "commit", "abort"}, NEW r, Walked(loc[h], r), Goto(h, l), loc' = [loc EXCEPT ![h] = r]
    PROVE  pc' \in [Threads -> Labels] /\ loc' \in [Threads -> Locals] /\ Placed'
<1>1. loc[h].tab \in Tables /\ loc[h].slot \in Slots /\ loc[h].tx \in TxSlots
  BY MineTyped, Zenon
<1>2. PlacedAt(l, r) /\ r \in Locals
  BY <1>1, Zenon DEF PlacedAt, Walked
<1>3. pc' = [pc EXCEPT ![h] = l]
  BY Zenon DEF Goto
<1> QED
  BY <1>2, <1>3, Moves, Zenon

(* ... or with the same.                                                   *)
LEMMA GoesOn ==
    ASSUME IInv, NEW h \in Threads, pc[h] \notin {"idle", "pinned"}, NEW l \in Labels,
           l \in {"publish", "wait", "commit", "abort"} =>
                pc[h] \in {"publish", "wait", "commit", "abort"},
           Goto(h, l), loc' = loc
    PROVE  pc' \in [Threads -> Labels] /\ loc' \in [Threads -> Locals] /\ Placed'
<1>1. /\ loc[h].tab \in Tables /\ loc[h].slot \in Slots /\ loc[h].tx \in TxSlots
      /\ pc[h] \in {"publish", "wait", "commit", "abort"} => loc[h].dst \in Tables
  BY MineTyped, Zenon
<1>2. PlacedAt(l, loc[h])
  BY <1>1, Zenon DEF PlacedAt
<1> QED
  BY <1>2, Goto1, Zenon

(* A message about the transaction of a thread.                            *)
LEMMA MessageIs ==
    ASSUME IInv, NEW h \in Threads, pc[h] \notin {"idle", "pinned"},
           NEW o \in {"DELEGATE", "ROLLBACK", "PREPARE"}, NEW c
    PROVE  /\ Request(Home[h], loc[h].tx, Mine(h).gen, o) \in Requests
           /\ Sent(inbox, c, Request(Home[h], loc[h].tx, Mine(h).gen, o))
                 \in [Cores -> Seq(Requests \cup Acks)]
<1>1. Mine(h) \in Transactions /\ loc[h].tx \in TxSlots /\ Home[h] \in Cores /\ Typed
  BY MineTyped, Homes, Zenon DEF IInv
<1>2. Mine(h).gen \in Nat
  BY <1>1, TransactionHas, Zenon
<1>3. Request(Home[h], loc[h].tx, Mine(h).gen, o) \in Requests
  BY <1>1, <1>2, RequestIs, Zenon
<1>4. Request(Home[h], loc[h].tx, Mine(h).gen, o) \in Requests \cup Acks
  BY <1>3, Zenon
<1> QED
  BY <1>1, <1>3, <1>4, SentTyped, Zenon

(* The request is published and sent ...                                   *)
LEMMA PublishStep ==
    ASSUME IInv, NEW h \in Threads, Publish(h), late' = late
    PROVE  Goes
<1>1. /\ pc[h] = "publish" /\ registry' = registry /\ entry' = entry /\ hand' = hand
      /\ loc' = loc /\ pinned' = pinned
      /\ \/ /\ inbox' = Sent(inbox, Owner[loc[h].dst],
                             Request(Home[h], loc[h].tx, Mine(h).gen, "DELEGATE"))
            /\ SetTxState(h, "PUBLISHED") /\ Goto(h, "wait")
         \/ SetTxState(h, "ABORTED") /\ Goto(h, "release") /\ inbox' = inbox
  BY Zenon DEF Publish
<1>2. pc[h] \notin {"idle", "pinned"} /\ "wait" \in Labels /\ "release" \in Labels
  BY <1>1 DEF Labels
<1>3. EntriesGo
  BY <1>1, StayGoes, Zenon DEF IInv
<1>4. tx' \in [Cores -> [TxSlots -> Transactions]]
  BY <1>1, <1>2, SetStateTyped, Zenon
<1>5. inbox' = inbox \/ inbox' \in [Cores -> Seq(Requests \cup Acks)]
  BY <1>1, <1>2, MessageIs, Zenon
<1>6. pc' \in [Threads -> Labels] /\ loc' \in [Threads -> Locals] /\ Placed'
  BY <1>1, <1>2, GoesOn, Zenon
<1> QED
  BY <1>1, <1>3, <1>4, <1>5, <1>6, Together, Zenon

(* ... acknowledged ...                                                    *)
LEMMA DelegateAckedStep ==
    ASSUME IInv, NEW h \in Threads, DelegateAcked(h), late' = late
    PROVE  Goes
<1>1. /\ pc[h] = "wait" /\ registry' = registry /\ entry' = entry /\ hand' = hand
      /\ loc' = loc /\ pinned' = pinned /\ inbox' = inbox
      /\ \/ SetTxState(h, "ABORTED") /\ Goto(h, "release")
         \/ Goto(h, "commit") /\ tx' = tx
  BY Zenon DEF DelegateAcked
<1>2. pc[h] \notin {"idle", "pinned"} /\ "commit" \in Labels /\ "release" \in Labels
  BY <1>1 DEF Labels
<1>3. EntriesGo
  BY <1>1, StayGoes, Zenon DEF IInv
<1>4. tx' = tx \/ tx' \in [Cores -> [TxSlots -> Transactions]]
  BY <1>1, <1>2, SetStateTyped, Zenon
<1>5. pc' \in [Threads -> Labels] /\ loc' \in [Threads -> Locals] /\ Placed'
  BY <1>1, <1>2, GoesOn, Zenon
<1> QED
  BY <1>1, <1>3, <1>4, <1>5, Together, Zenon

(* ... or not in time.                                                     *)
LEMMA DelegateTimeoutStep ==
    ASSUME IInv, NEW h \in Threads, DelegateTimeout(h), late' = late
    PROVE  Goes
<1>1. /\ pc[h] = "wait" /\ registry' = registry /\ entry' = entry /\ hand' = hand
      /\ loc' = loc /\ pinned' = pinned /\ inbox' = inbox
      /\ SetTxState(h, "ABORTED") /\ Goto(h, "abort")
  BY Zenon DEF DelegateTimeout
<1>2. pc[h] \notin {"idle", "pinned"} /\ "abort" \in Labels
  BY <1>1 DEF Labels
<1>3. EntriesGo
  BY <1>1, StayGoes, Zenon DEF IInv
<1>4. tx' \in [Cores -> [TxSlots -> Transactions]]
  BY <1>1, <1>2, SetStateTyped, Zenon
<1>5. pc' \in [Threads -> Labels] /\ loc' \in [Threads -> Locals] /\ Placed'
  BY <1>1, <1>2, GoesOn, Zenon
<1> QED
  BY <1>1, <1>3, <1>4, <1>5, Together, Zenon

(* The new capability is linked to its source.                             *)
LEMMA DelegateCommitStep ==
    ASSUME IInv, NEW h \in Threads, DelegateCommit(h), late' = late
    PROVE  Goes
<1> DEFINE e == entry[loc[h].tab][loc[h].slot]
           r == Mine(h).remote
           k == IF r = NULL THEN NULL ELSE Locator(loc[h].dst, r.slot, r.gen, Mine(h).epoch)
<1>1. /\ pc[h] = "commit" /\ registry' = registry /\ hand' = hand
      /\ loc' = loc /\ pinned' = pinned /\ inbox' = inbox
      /\ \/ /\ entry' = [entry EXCEPT ![loc[h].tab][loc[h].slot] = [e EXCEPT !.child = k]]
            /\ SetTxState(h, "COMMITTED") /\ Goto(h, "release")
         \/ SetTxState(h, "ABORTED") /\ Goto(h, "abort") /\ entry' = entry
  BY Zenon DEF DelegateCommit, Set
<1>2. pc[h] \notin {"idle", "pinned"} /\ "abort" \in Labels /\ "release" \in Labels
  BY <1>1 DEF Labels
<1>3. /\ Mine(h) \in Transactions /\ Typed /\ e \in Entries /\ loc[h].dst \in Tables
  BY <1>1, <1>2, MineTyped, EntryIs, Zenon DEF IInv
<1>4. r \in Remotes /\ Mine(h).epoch \in Nat
  BY <1>3, TransactionHas, Zenon
<1>5. r # NULL => r.slot \in Slots /\ r.gen \in Nat
  BY <1>4 DEF Remotes
<1>6. k \in Locators
  <2>1. NULL \in Locators
    BY DEF Locators
  <2>2. CASE r = NULL
    BY <2>1, <2>2, Zenon
  <2>3. CASE r # NULL
    <3>1. Locator(loc[h].dst, r.slot, r.gen, Mine(h).epoch) \in Locators
      BY <2>3, <1>3, <1>4, <1>5, LocatorIs, Zenon
    <3> QED
      BY <2>3, <3>1, Zenon
  <2> QED
    BY <2>2, <2>3, Zenon
<1>7. Becomes(e, [e EXCEPT !.child = k])
  BY <1>3, <1>6, SameLife, Zenon
<1> HIDE DEF k
<1>8. EntriesGo
  BY <1>1, <1>3, <1>7, SetGoes, StayGoes, Zenon
<1>9. tx' \in [Cores -> [TxSlots -> Transactions]]
  BY <1>1, <1>2, SetStateTyped, Zenon
<1>10. pc' \in [Threads -> Labels] /\ loc' \in [Threads -> Locals] /\ Placed'
  BY <1>1, <1>2, GoesOn, Zenon
<1> QED
  BY <1>1, <1>8, <1>9, <1>10, Together, Zenon

(* A delegation is rolled back.                                            *)
LEMMA DelegateAbortStep ==
    ASSUME IInv, NEW h \in Threads, DelegateAbort(h), late' = late
    PROVE  Goes
<1>1. /\ pc[h] = "abort" /\ registry' = registry /\ entry' = entry /\ hand' = hand
      /\ loc' = loc /\ pinned' = pinned /\ tx' = tx /\ Goto(h, "release")
      /\ inbox' = Sent(inbox, Owner[loc[h].dst],
                       Request(Home[h], loc[h].tx, Mine(h).gen, "ROLLBACK"))
  BY Zenon DEF DelegateAbort
<1>2. pc[h] \notin {"idle", "pinned"} /\ "release" \in Labels
  BY <1>1 DEF Labels
<1>3. EntriesGo
  BY <1>1, StayGoes, Zenon DEF IInv
<1>4. inbox' \in [Cores -> Seq(Requests \cup Acks)]
  BY <1>1, <1>2, MessageIs, Zenon
<1>5. pc' \in [Threads -> Labels] /\ loc' \in [Threads -> Locals] /\ Placed'
  BY <1>1, <1>2, GoesOn, Zenon
<1> QED
  BY <1>1, <1>3, <1>4, <1>5, Together, Zenon

(* The transaction is released.                                            *)
LEMMA ReleaseStep ==
    ASSUME IInv, NEW h \in Threads, Release(h), late' = late
    PROVE  Goes
<1>1. /\ pc[h] = "release" /\ registry' = registry /\ entry' = entry /\ hand' = hand
      /\ pinned' = pinned /\ inbox' = inbox /\ SetTxState(h, "FREE") /\ Return(h)
  BY Zenon DEF Release
<1>2. EntriesGo
  BY <1>1, StayGoes, Zenon DEF IInv
<1>3. tx' \in [Cores -> [TxSlots -> Transactions]]
  BY <1>1, SetStateTyped, Zenon
<1> QED
  BY <1>1, <1>2, <1>3, Returned, Together, Zenon

-----------------------------------------------------------------------------
(* Steps of a revocation                                                   *)

(* A locator in use names an entry.                                        *)
LEMMA AtIs ==
    ASSUME Typed, NEW l \in Locators, l # NULL
    PROVE  At(l) \in Entries /\ l.tab \in Tables /\ l.slot \in Slots
<1>1. l.tab \in Tables /\ l.slot \in Slots
  BY LocatorHas, Zenon
<1> QED
  BY <1>1, EntryIs, Zenon DEF At

(* The root of a thread's revocation.                                      *)
LEMMA RootIs ==
    ASSUME IInv, NEW h \in Threads, pc[h] \notin {"idle", "pinned"}
    PROVE  Root(h) \in Locators /\ At(Root(h)) \in Entries
           /\ Root(h).tab = loc[h].tab /\ Root(h).slot = loc[h].slot
<1>1. loc[h].tab \in Tables /\ loc[h].slot \in Slots /\ loc[h] \in Locals /\ Typed
  BY MineTyped, Zenon DEF IInv
<1>2. loc[h].gen \in Nat /\ 0 \in Nat
  BY <1>1 DEF Locals
<1>3. /\ Root(h) \in Locators /\ Root(h).tab = loc[h].tab /\ Root(h).slot = loc[h].slot
  <2>1. PICK t \in Tables, s \in Slots, g \in Nat :
           loc[h].tab = t /\ loc[h].slot = s /\ loc[h].gen = g
    BY <1>1, <1>2, Zenon
  <2>2. Root(h) = Locator(t, s, g, 0)
    BY <2>1, Zenon DEF Root
  <2>3. Locator(t, s, g, 0) \in Locators
    BY <1>2 DEF Locator, Locators
  <2>4. Locator(t, s, g, 0).tab = t /\ Locator(t, s, g, 0).slot = s
    BY DEF Locator
  <2> QED
    BY <2>1, <2>2, <2>3, <2>4, Zenon
<1>4. At(Root(h)) \in Entries
  BY <1>1, <1>3, EntryIs, Zenon DEF At
<1> QED
  BY <1>3, <1>4, Zenon

(* One entry gets another life, links or state, if it is one.              *)
LEMMA AtGoes ==
    ASSUME Typed, NEW l, NEW f, Set(l.tab, l.slot, f),
           At(l) \in Entries => Becomes(At(l), f)
    PROVE  EntriesGo
<1>1. entry' = [entry EXCEPT ![l.tab][l.slot] = f]
  BY Zenon DEF Set
<1>2. ASSUME l.tab \in Tables, l.slot \in Slots PROVE Becomes(entry[l.tab][l.slot], f)
  BY <1>2, EntryIs, Zenon DEF At
<1> QED
  BY <1>1, <1>2, SetGoes, Zenon

(* The link to the root is led past it.                                    *)
LEMMA RelinkGoes ==
    ASSUME Typed, NEW up, NEW r, NEW before, At(r) \in Entries, Relink(up, r, before)
    PROVE  EntriesGo
<1>1. At(r).next \in Locators
  BY EntryHas, Zenon
<1>2. CASE before = NULL
  <2>1. Set(up.tab, up.slot, [At(up) EXCEPT !.child = At(r).next])
    BY <1>2, Zenon DEF Relink
  <2>2. At(up) \in Entries => Becomes(At(up), [At(up) EXCEPT !.child = At(r).next])
    BY <1>1, SameLife, Zenon
  <2> QED
    BY <2>1, <2>2, AtGoes, Zenon
<1>3. CASE before # NULL
  <2>1. Set(before.tab, before.slot, [At(before) EXCEPT !.next = At(r).next])
    BY <1>3, Zenon DEF Relink
  <2>2. At(before) \in Entries => Becomes(At(before), [At(before) EXCEPT !.next = At(r).next])
    BY <1>1, SameLife, Zenon
  <2> QED
    BY <2>1, <2>2, AtGoes, Zenon
<1> QED
  BY <1>2, <1>3, Zenon

(* The locals of a thread.                                                 *)
LEMMA LocalHas ==
    ASSUME IInv, NEW h \in Threads
    PROVE  /\ loc \in [Threads -> Locals] /\ loc[h] \in Locals /\ pc \in [Threads -> Labels]
           /\ loc[h].cur \in Locators /\ loc[h].down \in BOOLEAN
           /\ loc[h].next \in Locators /\ loc[h].up \in Locators
<1>1. loc \in [Threads -> Locals] /\ loc[h] \in Locals /\ pc \in [Threads -> Labels]
  BY Zenon DEF IInv, Typed
<1> QED
  BY <1>1 DEF Locals

(* The root is unlinked from its siblings ...                              *)
LEMMA UnlinkStep ==
    ASSUME IInv, NEW h \in Threads, Unlink(h), late' = late
    PROVE  Goes
<1>1. /\ pc[h] = "unlink" /\ registry' = registry /\ tx' = tx /\ inbox' = inbox
      /\ hand' = hand /\ pinned' = pinned /\ pc' = [pc EXCEPT ![h] = "mark"]
      /\ loc' = [loc EXCEPT ![h].cur = Root(h), ![h].up = NULL]
  BY Zenon DEF Unlink, Goto
<1>2. entry' = entry \/ \E before : Relink(loc[h].up, Root(h), before)
  BY Zenon DEF Unlink
<1>3. Root(h) \in Locators /\ At(Root(h)) \in Entries /\ Typed
  BY <1>1, RootIs, Zenon DEF IInv
<1>4. EntriesGo
  BY <1>2, <1>3, StayGoes, RelinkGoes, Zenon
<1>5. PICK r : r = [loc[h] EXCEPT !.cur = Root(h), !.up = NULL]
  BY Zenon
<1>6. NULL \in Locators /\ "mark" \in Labels
  BY DEF Locators, Labels
<1>7. Walked(loc[h], r)
  BY <1>3, <1>5, <1>6, LocalHas, Zenon DEF Walked, Locals
<1>8. loc' = [loc EXCEPT ![h] = r]
  BY <1>1, <1>5, LocalHas, Zenon
<1>9. pc' \in [Threads -> Labels] /\ loc' \in [Threads -> Locals] /\ Placed'
  BY <1>1, <1>6, <1>7, <1>8, Walks, Zenon DEF Goto
<1> QED
  BY <1>1, <1>4, <1>9, Together, Zenon

(* A walk to another entry, with the other locals as they are.             *)
LEMMA WalksAlong ==
    ASSUME IInv, NEW h \in Threads, pc[h] \notin {"idle", "pinned"},
           NEW l \in {"mark", "climb", "free"}, NEW c \in Locators,
           pc' = [pc EXCEPT ![h] = l], loc' = [loc EXCEPT ![h].cur = c]
    PROVE  pc' \in [Threads -> Labels] /\ loc' \in [Threads -> Locals] /\ Placed'
<1>1. PICK r : r = [loc[h] EXCEPT !.cur = c]
  BY Zenon
<1>2. Walked(loc[h], r)
  BY <1>1, LocalHas, Zenon DEF Walked, Locals
<1>3. loc' = [loc EXCEPT ![h] = r]
  BY <1>1, Zenon
<1>4. l \in Labels /\ l \notin {"publish", "wait", "commit", "abort"} /\ Goto(h, l)
  BY DEF Labels, Goto
<1> QED
  BY <1>2, <1>3, <1>4, Walks, Zenon

(* ... the tree is marked on the way down ...                              *)
LEMMA MarkStep ==
    ASSUME IInv, NEW h \in Threads, Mark(h), late' = late
    PROVE  Goes
<1> DEFINE l == loc[h].cur
           Walk(m, to) == loc' = [loc EXCEPT ![h].cur = m] /\ Goto(h, to)
<1>1. /\ pc[h] = "mark" /\ registry' = registry /\ inbox' = inbox
      /\ hand' = hand /\ pinned' = pinned
      /\ \/ Goto(h, "epoch") /\ entry' = entry /\ tx' = tx /\ loc' = loc
         \/ SetTxState(h, "ABORTED") /\ Goto(h, "release") /\ entry' = entry /\ loc' = loc
         \/ /\ l # NULL /\ Set(l.tab, l.slot, [At(l) EXCEPT !.state = "REVOKING"])
            /\ Walk(At(l).child, "mark") \/ Walk(At(l).next, "mark") \/ Walk(At(l).parent, "climb")
            /\ tx' = tx
  BY Zenon DEF Mark, ResolvesTable
<1>2. "epoch" \in Labels /\ "release" \in Labels /\ Typed /\ l \in Locators
      /\ pc[h] \notin {"idle", "pinned"}
  BY <1>1, LocalHas, Zenon DEF Labels, IInv
<1>3. CASE Goto(h, "epoch") /\ entry' = entry /\ tx' = tx /\ loc' = loc
  <2>1. pc' \in [Threads -> Labels] /\ loc' \in [Threads -> Locals] /\ Placed'
    BY <1>2, <1>3, GoesOn, Zenon
  <2>2. EntriesGo
    BY <1>2, <1>3, StayGoes, Zenon
  <2> QED
    BY <1>1, <1>3, <2>1, <2>2, Together, Zenon
<1>4. CASE SetTxState(h, "ABORTED") /\ Goto(h, "release") /\ entry' = entry /\ loc' = loc
  <2>1. pc' \in [Threads -> Labels] /\ loc' \in [Threads -> Locals] /\ Placed'
    BY <1>2, <1>4, GoesOn, Zenon
  <2>2. EntriesGo
    BY <1>2, <1>4, StayGoes, Zenon
  <2>3. tx' \in [Cores -> [TxSlots -> Transactions]]
    BY <1>2, <1>4, SetStateTyped, Zenon
  <2> QED
    BY <1>1, <1>4, <2>1, <2>2, <2>3, Together, Zenon
<1>5. CASE /\ l # NULL /\ Set(l.tab, l.slot, [At(l) EXCEPT !.state = "REVOKING"])
           /\ Walk(At(l).child, "mark") \/ Walk(At(l).next, "mark") \/ Walk(At(l).parent, "climb")
           /\ tx' = tx
  <2>1. At(l) \in Entries
    BY <1>2, <1>5, AtIs, Zenon
  <2>2. At(l).child \in Locators /\ At(l).next \in Locators /\ At(l).parent \in Locators
    BY <2>1, EntryHas, Zenon
  <2>3. Becomes(At(l), [At(l) EXCEPT !.state = "REVOKING"])
    BY <2>1, SameLife, Zenon
  <2>4. EntriesGo
    BY <1>2, <1>5, <2>3, AtGoes, Zenon
  <2>5. PICK c \in Locators, to \in {"mark", "climb", "free"} :
          pc' = [pc EXCEPT ![h] = to] /\ loc' = [loc EXCEPT ![h].cur = c]
    BY <1>5, <2>2, Zenon DEF Goto
  <2>6. pc' \in [Threads -> Labels] /\ loc' \in [Threads -> Locals] /\ Placed'
    BY <1>2, <2>5, WalksAlong, Zenon
  <2> QED
    BY <1>1, <1>5, <2>4, <2>6, Together, Zenon
<1> QED
  BY <1>1, <1>3, <1>4, <1>5, Zenon

(* ... and climbed again.                                                  *)
LEMMA ClimbStep ==
    ASSUME IInv, NEW h \in Threads, Climb(h), late' = late
    PROVE  Goes
<1> DEFINE l == loc[h].cur
<1>1. /\ pc[h] = "climb" /\ registry' = registry /\ inbox' = inbox /\ entry' = entry
      /\ hand' = hand /\ pinned' = pinned /\ tx' = tx
      /\ \/ Goto(h, "epoch") /\ loc' = loc
         \/ l # NULL /\ Goto(h, "mark") /\ loc' = [loc EXCEPT ![h].cur = At(l).next]
         \/ l # NULL /\ pc' = pc /\ loc' = [loc EXCEPT ![h].cur = At(l).parent]
  BY Zenon DEF Climb, ResolvesTable
<1>2. "epoch" \in Labels /\ Typed /\ l \in Locators /\ pc \in [Threads -> Labels]
      /\ pc[h] \notin {"idle", "pinned"}
  BY <1>1, LocalHas, Zenon DEF Labels, IInv
<1>3. EntriesGo
  BY <1>1, <1>2, StayGoes, Zenon
<1>4. pc = [pc EXCEPT ![h] = "climb"]
  BY <1>1, <1>2
<1>5. l # NULL => At(l).next \in Locators /\ At(l).parent \in Locators
  BY <1>2, AtIs, EntryHas, Zenon
<1>6. \/ Goto(h, "epoch") /\ loc' = loc
      \/ \E c \in Locators, to \in {"mark", "climb", "free"} :
            pc' = [pc EXCEPT ![h] = to] /\ loc' = [loc EXCEPT ![h].cur = c]
  <2>1. CASE Goto(h, "epoch") /\ loc' = loc
    BY <2>1, Zenon
  <2>2. CASE l # NULL /\ Goto(h, "mark") /\ loc' = [loc EXCEPT ![h].cur = At(l).next]
    BY <2>2, <1>5, Zenon DEF Goto
  <2>3. CASE l # NULL /\ pc' = pc /\ loc' = [loc EXCEPT ![h].cur = At(l).parent]
    BY <2>3, <1>4, <1>5, Zenon
  <2> QED
    BY <1>1, <2>1, <2>2, <2>3, Zenon
<1>7. pc' \in [Threads -> Labels] /\ loc' \in [Threads -> Locals] /\ Placed'
  BY <1>2, <1>6, GoesOn, WalksAlong, Zenon
<1> QED
  BY <1>1, <1>3, <1>7, Together, Zenon

(* The epoch of the root goes up ...                                       *)
LEMMA RevokePublishStep ==
    ASSUME IInv, NEW h \in Threads, RevokePublish(h), late' = late
    PROVE  Goes
<1>1. /\ pc[h] = "epoch" /\ registry' = registry /\ inbox' = inbox
      /\ hand' = hand /\ pinned' = pinned /\ loc' = loc /\ Goto(h, "prepare")
  BY Zenon DEF RevokePublish
<1>2. Root(h) \in Locators /\ At(Root(h)) \in Entries /\ Typed /\ Mine(h) \in Transactions
  BY <1>1, RootIs, MineTyped, Zenon DEF IInv
<1>3. At(Root(h)).epoch \in Nat
  BY <1>2, EntryHas, Zenon
<1>4. PICK ep \in Nat :
        /\ \/ Set(Root(h).tab, Root(h).slot, [At(Root(h)) EXCEPT !.epoch = ep])
           \/ entry' = entry
        /\ SetTx(h, [Mine(h) EXCEPT !.state = "PUBLISHED", !.target = Root(h), !.epoch = ep,
                        !.targets = Cores \ {Home[h]}, !.acks = {}, !.failed = FALSE])
  <2>1. 0 \in Nat /\ At(Root(h)).epoch + 1 \in Nat
    BY <1>3
  <2>2. CASE Current(Root(h))
    BY <2>1, <2>2, Zenon DEF RevokePublish
  <2>3. CASE ~Current(Root(h))
    BY <2>1, <2>3, Zenon DEF RevokePublish
  <2> QED
    BY <2>2, <2>3, Zenon
<1>5. Becomes(At(Root(h)), [At(Root(h)) EXCEPT !.epoch = ep])
  BY <1>2, SameLife, Zenon
<1>6. EntriesGo
  BY <1>2, <1>4, <1>5, AtGoes, StayGoes, Zenon
<1>7. PICK r : r = [Mine(h) EXCEPT !.state = "PUBLISHED", !.target = Root(h), !.epoch = ep,
                        !.targets = Cores \ {Home[h]}, !.acks = {}, !.failed = FALSE]
  BY Zenon
<1>8. Cores \ {Home[h]} \in SUBSET Cores /\ {} \in SUBSET Cores
  BY Zenon
<1>9. r \in Transactions
  BY <1>2, <1>7, <1>8, Zenon DEF Transactions
<1>10. tx' \in [Cores -> [TxSlots -> Transactions]]
  BY <1>2, <1>4, <1>7, <1>9, SetTxTyped, Zenon DEF SetTx
<1>11. pc[h] \notin {"idle", "pinned"} /\ "prepare" \in Labels
  BY <1>1 DEF Labels
<1>12. pc' \in [Threads -> Labels] /\ loc' \in [Threads -> Locals] /\ Placed'
  BY <1>1, <1>11, GoesOn, Zenon
<1> QED
  BY <1>1, <1>6, <1>10, <1>12, Together, Zenon

(* ... the other cores are told ...                                        *)
LEMMA RevokePrepareStep ==
    ASSUME IInv, NEW h \in Threads, RevokePrepare(h), late' = late
    PROVE  Goes
<1> DEFINE S(c) == Sent(inbox, c, Request(Home[h], loc[h].tx, Mine(h).gen, "PREPARE"))
<1>1. /\ pc[h] = "prepare" /\ registry' = registry /\ entry' = entry /\ tx' = tx
      /\ hand' = hand /\ pinned' = pinned /\ loc' = loc /\ Goto(h, "await")
      /\ inbox' = [c \in Cores |-> IF c \in Mine(h).targets THEN S(c)[c] ELSE inbox[c]]
  BY Zenon DEF RevokePrepare
<1>2. pc[h] \notin {"idle", "pinned"} /\ "await" \in Labels
  BY <1>1 DEF Labels
<1>3. EntriesGo
  BY <1>1, StayGoes, Zenon DEF IInv
<1>4. \A c \in Cores : S(c) \in [Cores -> Seq(Requests \cup Acks)]
  BY <1>2, MessageIs, Zenon
<1>5. inbox \in [Cores -> Seq(Requests \cup Acks)]
  BY Zenon DEF IInv, Typed
<1> HIDE DEF S
<1>6. \A c \in Cores : S(c)[c] \in Seq(Requests \cup Acks) /\ inbox[c] \in Seq(Requests \cup Acks)
  BY <1>4, <1>5, Zenon
<1>7. inbox' \in [Cores -> Seq(Requests \cup Acks)]
  BY <1>1, <1>6, Zenon
<1>8. pc' \in [Threads -> Labels] /\ loc' \in [Threads -> Locals] /\ Placed'
  BY <1>1, <1>2, GoesOn, Zenon
<1> QED
  BY <1>1, <1>3, <1>7, <1>8, Together, Zenon

(* ... have answered ...                                                   *)
LEMMA RevokeAckedStep ==
    ASSUME IInv, NEW h \in Threads, RevokeAcked(h), late' = late
    PROVE  Goes
<1>1. /\ pc[h] = "await" /\ registry' = registry /\ entry' = entry /\ hand' = hand
      /\ loc' = loc /\ pinned' = pinned /\ inbox' = inbox
      /\ SetTxState(h, "COMMITTED") /\ Goto(h, "retire")
  BY Zenon DEF RevokeAcked
<1>2. pc[h] \notin {"idle", "pinned"} /\ "retire" \in Labels
  BY <1>1 DEF Labels
<1>3. EntriesGo
  BY <1>1, StayGoes, Zenon DEF IInv
<1>4. tx' \in [Cores -> [TxSlots -> Transactions]]
  BY <1>1, <1>2, SetStateTyped, Zenon
<1>5. pc' \in [Threads -> Labels] /\ loc' \in [Threads -> Locals] /\ Placed'
  BY <1>1, <1>2, GoesOn, Zenon
<1> QED
  BY <1>1, <1>3, <1>4, <1>5, Together, Zenon

(* ... or not in time ...                                                  *)
LEMMA RevokeTimeoutStep ==
    ASSUME IInv, NEW h \in Threads, RevokeTimeout(h), late' = late
    PROVE  Goes
<1>1. /\ pc[h] = "await" /\ registry' = registry /\ entry' = entry /\ hand' = hand
      /\ loc' = loc /\ pinned' = pinned /\ inbox' = inbox
      /\ SetTxState(h, "ABORTED") /\ Goto(h, "quarantine")
  BY Zenon DEF RevokeTimeout
<1>2. pc[h] \notin {"idle", "pinned"} /\ "quarantine" \in Labels
  BY <1>1 DEF Labels
<1>3. EntriesGo
  BY <1>1, StayGoes, Zenon DEF IInv
<1>4. tx' \in [Cores -> [TxSlots -> Transactions]]
  BY <1>1, <1>2, SetStateTyped, Zenon
<1>5. pc' \in [Threads -> Labels] /\ loc' \in [Threads -> Locals] /\ Placed'
  BY <1>1, <1>2, GoesOn, Zenon
<1> QED
  BY <1>1, <1>3, <1>4, <1>5, Together, Zenon

(* ... and the root is quarantined then.                                   *)
LEMMA QuarantineStep ==
    ASSUME IInv, NEW h \in Threads, Quarantine(h), late' = late
    PROVE  Goes
<1>1. /\ pc[h] = "quarantine" /\ registry' = registry /\ hand' = hand
      /\ pinned' = pinned /\ inbox' = inbox /\ SetTxState(h, "FREE") /\ Return(h)
      /\ \/ Set(Root(h).tab, Root(h).slot, [At(Root(h)) EXCEPT !.state = "QUARANTINED"])
         \/ entry' = entry
  BY Zenon DEF Quarantine
<1>2. At(Root(h)) \in Entries /\ Typed
  BY <1>1, RootIs, Zenon DEF IInv
<1>3. Becomes(At(Root(h)), [At(Root(h)) EXCEPT !.state = "QUARANTINED"])
  BY <1>2, SameLife, Zenon
<1>4. EntriesGo
  BY <1>1, <1>2, <1>3, AtGoes, StayGoes, Zenon
<1>5. tx' \in [Cores -> [TxSlots -> Transactions]]
  BY <1>1, SetStateTyped, Zenon
<1> QED
  BY <1>1, <1>4, <1>5, Returned, Together, Zenon

(* The slot of the transaction is released before the tree is freed ...    *)
LEMMA RetireStep ==
    ASSUME IInv, NEW h \in Threads, Retire(h), late' = late
    PROVE  Goes
<1>1. /\ pc[h] = "retire" /\ registry' = registry /\ entry' = entry /\ inbox' = inbox
      /\ hand' = hand /\ pinned' = pinned /\ Goto(h, "free") /\ SetTxState(h, "FREE")
      /\ loc' = [loc EXCEPT ![h].cur = Root(h), ![h].down = TRUE]
  BY Zenon DEF Retire
<1>2. EntriesGo
  BY <1>1, StayGoes, Zenon DEF IInv
<1>3. tx' \in [Cores -> [TxSlots -> Transactions]] /\ Root(h) \in Locators
  BY <1>1, SetStateTyped, RootIs, Zenon
<1>4. PICK r : r = [loc[h] EXCEPT !.cur = Root(h), !.down = TRUE]
  BY Zenon
<1>5. Walked(loc[h], r)
  BY <1>3, <1>4, LocalHas, Zenon DEF Walked, Locals
<1>6. loc' = [loc EXCEPT ![h] = r]
  BY <1>1, <1>4, LocalHas, Zenon
<1>7. "free" \in Labels
  BY DEF Labels
<1>8. pc' \in [Threads -> Labels] /\ loc' \in [Threads -> Locals] /\ Placed'
  BY <1>1, <1>5, <1>6, <1>7, Walks, Zenon
<1> QED
  BY <1>1, <1>2, <1>3, <1>8, Together, Zenon

(* ... a node of it goes ...                                               *)
LEMMA FreeNodeGoes ==
    ASSUME IInv, NEW h \in Threads, pc[h] \notin {"idle", "pinned"}, NEW l,
           NEW nxt \in Locators, NEW up \in Locators, FreeNode(h, l, nxt, up)
    PROVE  /\ EntriesGo
           /\ pc' \in [Threads -> Labels] /\ loc' \in [Threads -> Locals] /\ Placed'
<1> DEFINE to == IF nxt # NULL THEN nxt ELSE up
<1>1. Typed /\ Set(l.tab, l.slot, Cleared(At(l)))
  BY Zenon DEF IInv, FreeNode
<1>2. EntriesGo
  BY <1>1, ClearedLife, AtGoes, Zenon
<1>3. \/ Stop(h)
      \/ /\ loc' = [loc EXCEPT ![h].cur = to, ![h].down = nxt # NULL,
                               ![h].next = NULL, ![h].up = NULL]
         /\ Goto(h, "free")
  BY Zenon DEF FreeNode
<1>4. "free" \in Labels /\ "done" \in Labels
  BY DEF Labels
<1>5. CASE Stop(h)
  <2>1. Goto(h, "done") /\ loc' = loc
    BY <1>5, Zenon DEF Stop
  <2> QED
    BY <1>2, <1>4, <2>1, GoesOn, Zenon
<1>6. CASE /\ loc' = [loc EXCEPT ![h].cur = to, ![h].down = nxt # NULL,
                                 ![h].next = NULL, ![h].up = NULL]
           /\ Goto(h, "free")
  <2>1. PICK c, b : c = to /\ b = (nxt # NULL)
    BY Zenon
  <2>2. c \in Locators /\ b \in BOOLEAN
    BY <2>1, Zenon
  <2>3. loc' = [loc EXCEPT ![h].cur = c, ![h].down = b, ![h].next = NULL, ![h].up = NULL]
    BY <1>6, <2>1, Zenon
  <2>4. PICK r : r = [loc[h] EXCEPT !.cur = c, !.down = b, !.next = NULL, !.up = NULL]
    BY Zenon
  <2>5. NULL \in Locators
    BY DEF Locators
  <2>6. Walked(loc[h], r)
    BY <2>2, <2>4, <2>5, LocalHas, Zenon DEF Walked, Locals
  <2>7. loc' = [loc EXCEPT ![h] = r]
    BY <2>3, <2>4, LocalHas, Zenon
  <2> QED
    BY <1>2, <1>4, <1>6, <2>6, <2>7, Walks, Zenon
<1> QED
  BY <1>3, <1>5, <1>6, Zenon

(* ... on a walk from the leaves up ...                                    *)
LEMMA FreeWalkStep ==
    ASSUME IInv, NEW h \in Threads, FreeWalk(h), late' = late
    PROVE  Goes
<1> DEFINE l == loc[h].cur
           e == At(l)
<1>1. /\ pc[h] = "free" /\ registry' = registry /\ inbox' = inbox /\ tx' = tx
      /\ hand' = hand /\ pinned' = pinned
      /\ \/ Stop(h) /\ entry' = entry
         \/ l # NULL /\ entry' = entry /\ pc' = pc /\ loc' = [loc EXCEPT ![h].cur = e.child]
         \/ /\ l # NULL /\ entry' = entry /\ Goto(h, "drain")
            /\ loc' = [loc EXCEPT ![h].next = e.next, ![h].up = e.parent]
         \/ l # NULL /\ FreeNode(h, l, e.next, e.parent)
  BY Zenon DEF FreeWalk, ResolvesTable
<1>2. Typed /\ l \in Locators /\ pc \in [Threads -> Labels]
  BY LocalHas, Zenon DEF IInv
<1>3. l # NULL => e.child \in Locators /\ e.next \in Locators /\ e.parent \in Locators
  BY <1>2, AtIs, EntryHas, Zenon
<1>4. pc[h] \notin {"idle", "pinned"} /\ "drain" \in Labels /\ "done" \in Labels
  BY <1>1 DEF Labels
<1> DEFINE Moved == pc' \in [Threads -> Labels] /\ loc' \in [Threads -> Locals] /\ Placed'
<1> HIDE DEF e
<1>5. EntriesGo /\ Moved
  <2>1. CASE Stop(h) /\ entry' = entry
    <3>1. Goto(h, "done") /\ loc' = loc
      BY <2>1, Zenon DEF Stop
    <3> QED
      BY <1>2, <1>4, <2>1, <3>1, GoesOn, StayGoes, Zenon
  <2>2. CASE l # NULL /\ entry' = entry /\ pc' = pc /\ loc' = [loc EXCEPT ![h].cur = e.child]
    <3>1. pc' = [pc EXCEPT ![h] = "free"]
      BY <1>1, <1>2, <2>2
    <3> QED
      BY <1>2, <1>3, <1>4, <2>2, <3>1, WalksAlong, StayGoes, Zenon
  <2>3. CASE /\ l # NULL /\ entry' = entry /\ Goto(h, "drain")
             /\ loc' = [loc EXCEPT ![h].next = e.next, ![h].up = e.parent]
    <3>1. PICK r : r = [loc[h] EXCEPT !.next = e.next, !.up = e.parent]
      BY Zenon
    <3>2. Walked(loc[h], r)
      BY <1>3, <2>3, <3>1, LocalHas, Zenon DEF Walked, Locals
    <3>3. loc' = [loc EXCEPT ![h] = r]
      BY <2>3, <3>1, LocalHas, Zenon
    <3>4. Moved
      BY <1>4, <2>3, <3>2, <3>3, Walks, Zenon
    <3> QED
      BY <1>2, <2>3, <3>4, StayGoes, Zenon
  <2>4. CASE l # NULL /\ FreeNode(h, l, e.next, e.parent)
    BY <1>3, <1>4, <2>4, FreeNodeGoes, Zenon
  <2> QED
    BY <1>1, <2>1, <2>2, <2>3, <2>4, Zenon
<1> QED
  BY <1>1, <1>5, Together, Zenon

(* ... waiting for pins ...                                                *)
LEMMA DrainedStep ==
    ASSUME IInv, NEW h \in Threads, Drained(h), late' = late
    PROVE  Goes
<1>1. /\ pc[h] = "drain" /\ registry' = registry /\ inbox' = inbox /\ tx' = tx
      /\ hand' = hand /\ pinned' = pinned
      /\ \/ Stop(h) /\ entry' = entry
         \/ FreeNode(h, loc[h].cur, loc[h].next, loc[h].up)
  BY Zenon DEF Drained
<1>2. Typed /\ loc[h].next \in Locators /\ loc[h].up \in Locators
  BY LocalHas, Zenon DEF IInv
<1>3. pc[h] \notin {"idle", "pinned"} /\ "done" \in Labels
  BY <1>1 DEF Labels
<1>4. EntriesGo /\ pc' \in [Threads -> Labels] /\ loc' \in [Threads -> Locals] /\ Placed'
  <2>1. CASE Stop(h) /\ entry' = entry
    <3>1. Goto(h, "done") /\ loc' = loc
      BY <2>1, Zenon DEF Stop
    <3> QED
      BY <1>2, <1>3, <2>1, <3>1, GoesOn, StayGoes, Zenon
  <2>2. CASE FreeNode(h, loc[h].cur, loc[h].next, loc[h].up)
    BY <1>2, <1>3, <2>2, FreeNodeGoes, Zenon
  <2> QED
    BY <1>1, <2>1, <2>2, Zenon
<1> QED
  BY <1>1, <1>4, Together, Zenon

(* ... which may not go in time.                                           *)
LEMMA PinTimeoutStep ==
    ASSUME IInv, NEW h \in Threads, PinTimeout(h), late' = late
    PROVE  Goes
<1> DEFINE l == loc[h].cur
<1>1. /\ registry' = registry /\ inbox' = inbox /\ tx' = tx
      /\ hand' = hand /\ pinned' = pinned /\ Return(h)
      /\ Set(l.tab, l.slot, [At(l) EXCEPT !.state = "QUARANTINED"])
  BY Zenon DEF PinTimeout
<1>2. At(l) \in Entries => Becomes(At(l), [At(l) EXCEPT !.state = "QUARANTINED"])
  BY SameLife, Zenon
<1>3. EntriesGo
  BY <1>1, <1>2, AtGoes, Zenon DEF IInv
<1> QED
  BY <1>1, <1>3, Returned, Together, Zenon

(* The revocation returns.                                                 *)
LEMMA RevokeDoneStep ==
    ASSUME IInv, NEW h \in Threads, RevokeDone(h), late' = late
    PROVE  Goes
<1>1. /\ registry' = registry /\ inbox' = inbox /\ tx' = tx /\ entry' = entry
      /\ hand' = hand /\ pinned' = pinned /\ Return(h)
  BY Zenon DEF RevokeDone
<1>2. EntriesGo
  BY <1>1, StayGoes, Zenon DEF IInv
<1> QED
  BY <1>1, <1>2, Returned, Together, Zenon

-----------------------------------------------------------------------------
(* Steps of a core's message handler                                       *)

(* The request in hand, and its transaction.                               *)
LEMMA InHand ==
    ASSUME IInv, NEW c \in Cores, hand[c] # NULL
    PROVE  /\ hand[c] \in Requests /\ hand[c].origin \in Cores /\ hand[c].slot \in TxSlots
           /\ TxOf(hand[c]) \in Transactions
<1>1. hand \in [Cores -> Requests \cup {NULL}] /\ tx \in [Cores -> [TxSlots -> Transactions]]
  BY Zenon DEF IInv, Typed
<1>2. hand[c] \in Requests
  BY <1>1, Zenon
<1>3. hand[c].origin \in Cores /\ hand[c].slot \in TxSlots
  BY <1>2 DEF Requests
<1> QED
  BY <1>1, <1>2, <1>3, Zenon DEF TxOf

(* A request is accepted or not ...                                        *)
LEMMA ReceiveRequestStep ==
    ASSUME IInv, NEW c \in Cores, ReceiveRequest(c), late' = late
    PROVE  Goes
<1>1. /\ inbox[c] # << >> /\ Head(inbox[c]).kind = "req"
      /\ inbox' = [inbox EXCEPT ![c] = Tail(inbox[c])]
      /\ registry' = registry /\ entry' = entry /\ tx' = tx /\ pc' = pc /\ loc' = loc
      /\ pinned' = pinned
      /\ \E m \in {Head(inbox[c]), NULL} : hand' = [hand EXCEPT ![c] = m]
  BY Zenon DEF ReceiveRequest
<1>2. Typed /\ hand \in [Cores -> Requests \cup {NULL}]
  BY Zenon DEF IInv, Typed
<1>3. inbox' \in [Cores -> Seq(Requests \cup Acks)] /\ Head(inbox[c]) \in Requests \cup Acks
  BY <1>1, <1>2, TakenTyped, Zenon
<1>4. Head(inbox[c]) \in Requests
  <2>1. PICK m : m = Head(inbox[c])
    BY Zenon
  <2>2. m \in Requests \cup Acks /\ m.kind = "req"
    BY <1>1, <1>3, <2>1, Zenon
  <2>3. m \in Requests
    BY <2>2 DEF Acks
  <2> QED
    BY <2>1, <2>3, Zenon
<1>5. hand' \in [Cores -> Requests \cup {NULL}]
  BY <1>1, <1>2, <1>4, Zenon
<1>6. EntriesGo
  BY <1>1, <1>2, StayGoes, Zenon
<1> QED
  BY <1>1, <1>3, <1>5, <1>6, NoMove, Together, Zenon

(* ... and so is an answer.                                                *)
LEMMA ReceiveAckStep ==
    ASSUME IInv, NEW c \in Cores, ReceiveAck(c), late' = late
    PROVE  Goes
<1> DEFINE m == Head(inbox[c])
           r == TxOf(m)
<1>1. /\ inbox[c] # << >> /\ m.kind = "ack"
      /\ inbox' = [inbox EXCEPT ![c] = Tail(inbox[c])]
      /\ registry' = registry /\ entry' = entry /\ hand' = hand /\ pc' = pc /\ loc' = loc
      /\ pinned' = pinned
      /\ \/ tx' = [tx EXCEPT ![m.origin][m.slot] =
                      [r EXCEPT !.acks = r.acks \cup {m.from}, !.failed = r.failed \/ m.failed]]
         \/ tx' = tx
  BY Zenon DEF ReceiveAck
<1>2. Typed /\ tx \in [Cores -> [TxSlots -> Transactions]]
  BY Zenon DEF IInv, Typed
<1>3. inbox' \in [Cores -> Seq(Requests \cup Acks)] /\ m \in Requests \cup Acks
  BY <1>1, <1>2, TakenTyped, Zenon
<1>4. PICK n : n = m
  BY Zenon
<1>5. n \in Requests \cup Acks /\ n.kind = "ack"
  BY <1>1, <1>3, <1>4, Zenon
<1>6. n.origin \in Cores /\ n.slot \in TxSlots /\ n.from \in Cores /\ n.failed \in BOOLEAN
  BY <1>5 DEF Acks, Requests
<1>7. PICK q : q = TxOf(n)
  BY Zenon
<1>8. q \in Transactions
  BY <1>2, <1>6, <1>7, Zenon DEF TxOf
<1>9. q.acks \in SUBSET Cores /\ q.failed \in BOOLEAN
  BY <1>8, TransactionHas, Zenon
<1>10. PICK a, b : a = q.acks \cup {n.from} /\ b = (q.failed \/ n.failed)
  BY Zenon
<1>11. a \in SUBSET Cores /\ b \in BOOLEAN
  BY <1>6, <1>9, <1>10, Zenon
<1>12. [q EXCEPT !.acks = a, !.failed = b] \in Transactions
  BY <1>8, <1>11, Zenon DEF Transactions
<1>13. tx' = tx \/ tx' = [tx EXCEPT ![n.origin][n.slot] = [q EXCEPT !.acks = a, !.failed = b]]
  BY <1>1, <1>4, <1>7, <1>10, Zenon
<1>14. tx' = tx \/ tx' \in [Cores -> [TxSlots -> Transactions]]
  BY <1>2, <1>12, <1>13, SetTxTyped, Zenon
<1>15. EntriesGo
  BY <1>1, <1>2, StayGoes, Zenon
<1> QED
  BY <1>1, <1>3, <1>14, <1>15, NoMove, Together, Zenon

(* The request in hand is answered.                                        *)
LEMMA Answered ==
    ASSUME IInv, NEW c \in Cores, hand[c] # NULL, NEW bad \in BOOLEAN, Answer(c, bad)
    PROVE  /\ registry' = registry /\ pinned' = pinned
           /\ inbox' \in [Cores -> Seq(Requests \cup Acks)]
           /\ hand' \in [Cores -> Requests \cup {NULL}]
           /\ pc' \in [Threads -> Labels] /\ loc' \in [Threads -> Locals] /\ Placed'
<1>1. /\ registry' = registry /\ pinned' = pinned /\ pc' = pc /\ loc' = loc
      /\ inbox' = Sent(inbox, hand[c].origin, Ack(hand[c], c, bad))
      /\ hand' = [hand EXCEPT ![c] = NULL]
  BY Zenon DEF Answer
<1>2. Typed /\ hand \in [Cores -> Requests \cup {NULL}] /\ hand[c] \in Requests
  BY InHand, Zenon DEF IInv, Typed
<1>3. Ack(hand[c], c, bad) \in Acks
  BY <1>2, AckIs, Zenon
<1>4. inbox' \in [Cores -> Seq(Requests \cup Acks)]
  BY <1>1, <1>2, <1>3, SentTyped, Zenon
<1>5. hand' \in [Cores -> Requests \cup {NULL}]
  BY <1>1, <1>2, Zenon
<1> QED
  BY <1>1, <1>4, <1>5, NoMove, Zenon

(* A capability is installed ...                                           *)
LEMMA HandleDelegateStep ==
    ASSUME IInv, NEW c \in Cores, HandleDelegate(c), late' = late
    PROVE  Goes
<1>1. hand[c] # NULL
  BY Zenon DEF HandleDelegate
<1>2. PICK r : r = TxOf(hand[c])
  BY Zenon
<1>3. \/ Answer(c, TRUE) /\ entry' = entry /\ tx' = tx
      \/ /\ r.dst # NULL
         /\ \E d \in Slots :
              /\ Set(r.dst, d, Entry("LIVE", entry[r.dst][d].gen + 1, r.src, NULL, r.srcChild,
                                     r.epoch, r.anc))
              /\ tx' = [tx EXCEPT ![hand[c].origin][hand[c].slot].remote =
                                     [slot |-> d, gen |-> entry[r.dst][d].gen + 1]]
              /\ Answer(c, FALSE)
  BY <1>2, Zenon DEF HandleDelegate
<1>4. /\ Typed /\ r \in Transactions
      /\ hand[c].origin \in Cores /\ hand[c].slot \in TxSlots
  BY <1>1, <1>2, InHand, Zenon DEF IInv
<1>5. CASE Answer(c, TRUE) /\ entry' = entry /\ tx' = tx
  <2>1. EntriesGo
    BY <1>4, <1>5, StayGoes, Zenon
  <2> QED
    BY <1>1, <1>5, <2>1, Answered, Together, Zenon
<1>6. ASSUME r.dst # NULL, NEW d \in Slots,
             Set(r.dst, d, Entry("LIVE", entry[r.dst][d].gen + 1, r.src, NULL, r.srcChild,
                                 r.epoch, r.anc)),
             tx' = [tx EXCEPT ![hand[c].origin][hand[c].slot].remote =
                                 [slot |-> d, gen |-> entry[r.dst][d].gen + 1]],
             Answer(c, FALSE)
      PROVE  Goes
  <2>1. /\ r.dst \in Tables /\ r.src \in Locators /\ r.srcChild \in Locators
        /\ r.epoch \in Nat /\ r.anc \in SUBSET Identities
    BY <1>4, <1>6, TransactionHas, Zenon
  <2>2. PICK e : e = entry[r.dst][d]
    BY Zenon
  <2>3. e \in Entries
    BY <1>4, <2>1, <2>2, EntryIs, Zenon
  <2>4. Becomes(e, Entry("LIVE", e.gen + 1, r.src, NULL, r.srcChild, r.epoch, r.anc))
    BY <2>1, <2>3, NewLife, Zenon
  <2>5. PICK f : f = Entry("LIVE", e.gen + 1, r.src, NULL, r.srcChild, r.epoch, r.anc)
    BY Zenon
  <2>6. Becomes(entry[r.dst][d], f) /\ entry' = [entry EXCEPT ![r.dst][d] = f]
    BY <1>6, <2>2, <2>4, <2>5, Zenon DEF Set
  <2>7. EntriesGo
    BY <1>4, <2>6, SetGoes, Zenon
  <2>8. PICK g : g = e.gen + 1
    BY Zenon
  <2>9. g \in Nat
    BY <2>3, <2>8, EntryHas
  <2>10. [slot |-> d, gen |-> g] \in Remotes
    BY <2>9 DEF Remotes
  <2>11. [r EXCEPT !.remote = [slot |-> d, gen |-> g]] \in Transactions
    BY <1>4, <2>10, Zenon DEF Transactions
  <2>12. tx' = [tx EXCEPT ![hand[c].origin][hand[c].slot] =
                    [r EXCEPT !.remote = [slot |-> d, gen |-> g]]]
    BY <1>2, <1>6, <2>2, <2>8, Zenon DEF TxOf
  <2>13. tx' \in [Cores -> [TxSlots -> Transactions]]
    BY <1>4, <2>11, <2>12, SetTxTyped, Zenon
  <2> QED
    BY <1>1, <1>6, <2>7, <2>13, Answered, Together, Zenon
<1> QED
  BY <1>3, <1>5, <1>6, Zenon

(* ... or taken back.                                                      *)
LEMMA HandleRollbackStep ==
    ASSUME IInv, NEW c \in Cores, HandleRollback(c), late' = late
    PROVE  Goes
<1>1. hand[c] # NULL /\ Answer(c, FALSE) /\ tx' = tx
      /\ (entry' = entry \/ \E l : Set(l.tab, l.slot, Cleared(At(l))))
  BY Zenon DEF HandleRollback
<1>2. Typed
  BY Zenon DEF IInv
<1>3. EntriesGo
  BY <1>1, <1>2, ClearedLife, AtGoes, StayGoes, Zenon
<1> QED
  BY <1>1, <1>3, Answered, Together, Zenon

(* The children of a capability that another core revokes are marked.      *)
LEMMA HandlePrepareStep ==
    ASSUME IInv, NEW c \in Cores, HandlePrepare(c), late' = late
    PROVE  Goes
<1> DEFINE Hit(t, e) == /\ registry[t] = "up" /\ Owner[t] = c /\ e.state = "LIVE"
                        /\ ChildOf(e, hand[c].origin, TxOf(hand[c]))
<1>1. /\ hand[c] # NULL /\ Answer(c, FALSE) /\ tx' = tx
      /\ entry' = [t \in Tables |-> [s \in Slots |->
                      IF Hit(t, entry[t][s])
                      THEN [entry[t][s] EXCEPT !.state = "REVOKING"] ELSE entry[t][s]]]
  BY Zenon DEF HandlePrepare
<1>2. Typed
  BY Zenon DEF IInv
<1> HIDE DEF Hit
<1>3. ASSUME NEW t \in Tables, NEW s \in Slots
      PROVE  Becomes(entry[t][s], entry'[t][s])
  <2>1. entry[t][s] \in Entries
    BY <1>2, EntryIs, Zenon
  <2>2. entry'[t][s] = entry[t][s] \/ entry'[t][s] = [entry[t][s] EXCEPT !.state = "REVOKING"]
    BY <1>1, Zenon
  <2> QED
    BY <2>1, <2>2, SameLife, Zenon
<1>4. \A t \in Tables, s \in Slots : entry'[t][s] \in Entries
  BY <1>3, Zenon DEF Becomes
<1>5. entry' = [t \in Tables |-> [s \in Slots |-> entry'[t][s]]]
  BY <1>1
<1>6. entry' \in [Tables -> [Slots -> Entries]]
  BY <1>4, <1>5
<1>7. EntriesGo
  BY <1>3, <1>6, Zenon DEF EntriesGo
<1> QED
  BY <1>1, <1>7, Answered, Together, Zenon

-----------------------------------------------------------------------------
(* The theorems                                                            *)

(* At the start every entry is free or a root.                             *)
LEMMA InitSound == ASSUME Init PROVE IInv
<1>1. NULL \in Locators /\ NULL \in Remotes /\ 0 \in Nat /\ 1 \in Nat
  BY DEF Locators, Remotes
<1>2. RootEntry(1) \in Entries /\ NoEntry \in Entries
  BY <1>1 DEF RootEntry, NoEntry, Entry, Entries
<1>3. NewTx("FREE", 0) \in Transactions
  BY <1>1 DEF NewTx, Transactions
<1>4. entry \in [Tables -> [Slots -> Entries]]
  <2>1. \A t \in Tables, s \in Slots :
          (IF t \in Granted /\ s = 0 THEN RootEntry(1) ELSE NoEntry) \in Entries
    BY <1>2, Zenon
  <2> QED
    BY <2>1, Zenon DEF Init
<1>5. tx \in [Cores -> [TxSlots -> Transactions]]
  BY <1>3, Zenon DEF Init
<1>6. inbox \in [Cores -> Seq(Requests \cup Acks)]
  <2>1. << >> \in Seq(Requests \cup Acks)
    OBVIOUS
  <2> QED
    BY <2>1, Zenon DEF Init
<1>7. /\ registry \in [Tables -> {"unborn", "up", "gone"}]
      /\ hand \in [Cores -> Requests \cup {NULL}]
      /\ pinned \in [Threads -> Identities \cup {NULL}]
  BY Zenon DEF Init
<1>8. late \in BOOLEAN
  BY CapAssumption, Zenon DEF Init
<1>9. pc \in [Threads -> Labels] /\ loc \in [Threads -> Locals]
  BY NoLocIs, Zenon DEF Init
<1>10. \A h \in Threads : pc[h] = "idle"
  BY Zenon DEF Init
<1>11. Placed
  BY <1>10, Zenon DEF Placed, PlacedAt
<1> QED
  BY <1>4, <1>5, <1>6, <1>7, <1>8, <1>9, <1>11, Zenon DEF IInv, Typed

(* Every step, of a thread or a handler.                                   *)
LEMMA CallStep ==
    ASSUME IInv, NEW h \in Threads, Call(h), late' = late
    PROVE  Goes
<1>1. \/ \E t \in Tables : CreateTable(h, t) \/ DestroyTable(h, t) \/ Grant(h, t)
      \/ \E t \in Tables, s \in Slots : Pin(h, t, s) \/ RevokeStart(h, t, s)
      \/ \E t, d \in Tables, s \in Slots : DelegateLocal(h, t, s, d) \/ DelegateStart(h, t, s, d)
  BY Zenon DEF Call
<1>2. ASSUME NEW t \in Tables, CreateTable(h, t) \/ DestroyTable(h, t) \/ Grant(h, t)
      PROVE  Goes
  BY <1>2, CreateTableStep, DestroyTableStep, GrantStep, Zenon
<1>3. ASSUME NEW t \in Tables, NEW s \in Slots, Pin(h, t, s) \/ RevokeStart(h, t, s)
      PROVE  Goes
  BY <1>3, PinStep, RevokeStartStep, Zenon
<1>4. ASSUME NEW t \in Tables, NEW d \in Tables, NEW s \in Slots,
             DelegateLocal(h, t, s, d) \/ DelegateStart(h, t, s, d)
      PROVE  Goes
  BY <1>4, DelegateLocalStep, DelegateStartStep, Zenon
<1> QED
  BY <1>1, <1>2, <1>3, <1>4, Zenon

(* Operations go on.                                                       *)
LEMMA ContinueStep ==
    ASSUME IInv, NEW h \in Threads, Continue(h), late' = late
    PROVE  Goes
<1>1. \/ Publish(h) \/ DelegateAcked(h) \/ DelegateTimeout(h) \/ DelegateCommit(h)
      \/ DelegateAbort(h) \/ Release(h)
      \/ Unlink(h) \/ Mark(h) \/ Climb(h) \/ RevokePublish(h) \/ RevokePrepare(h)
      \/ RevokeAcked(h) \/ RevokeTimeout(h) \/ Quarantine(h) \/ Retire(h) \/ FreeWalk(h)
      \/ Drained(h) \/ PinTimeout(h) \/ RevokeDone(h) \/ Unpin(h)
  BY Zenon DEF Continue
<1>2. CASE \/ Publish(h) \/ DelegateAcked(h) \/ DelegateTimeout(h) \/ DelegateCommit(h)
           \/ DelegateAbort(h) \/ Release(h)
  BY <1>2, PublishStep, DelegateAckedStep, DelegateTimeoutStep, DelegateCommitStep,
     DelegateAbortStep, ReleaseStep, Zenon
<1>3. CASE Unlink(h) \/ Mark(h) \/ Climb(h) \/ RevokePublish(h) \/ RevokePrepare(h)
  BY <1>3, UnlinkStep, MarkStep, ClimbStep, RevokePublishStep, RevokePrepareStep, Zenon
<1>4. CASE RevokeAcked(h) \/ RevokeTimeout(h) \/ Quarantine(h) \/ Retire(h) \/ FreeWalk(h)
  BY <1>4, RevokeAckedStep, RevokeTimeoutStep, QuarantineStep, RetireStep, FreeWalkStep, Zenon
<1>5. CASE Drained(h) \/ PinTimeout(h) \/ RevokeDone(h) \/ Unpin(h)
  BY <1>5, DrainedStep, PinTimeoutStep, RevokeDoneStep, UnpinStep, Zenon
<1> QED
  BY <1>1, <1>2, <1>3, <1>4, <1>5, Zenon

(* Messages are handled.                                                   *)
LEMMA HandleStep ==
    ASSUME IInv, NEW c \in Cores, Handle(c), late' = late
    PROVE  Goes
BY ReceiveRequestStep, ReceiveAckStep, HandleDelegateStep, HandleRollbackStep,
   HandlePrepareStep, Zenon DEF Handle

(* What any step does.                                                     *)
LEMMA NextGoes == ASSUME IInv, [Next]_vars PROVE Goes
<1>1. CASE Next
  <2>1. ASSUME NEW h \in Threads, Call(h), late' = late PROVE Goes
    BY <2>1, CallStep, Zenon
  <2>2. ASSUME NEW h \in Threads, Continue(h), late' = late PROVE Goes
    BY <2>2, ContinueStep, Zenon
  <2>3. ASSUME NEW c \in Cores, Handle(c), late' = late PROVE Goes
    BY <2>3, HandleStep, Zenon
  <2> QED
    BY <1>1, <2>1, <2>2, <2>3, Zenon DEF Next
<1>2. CASE UNCHANGED vars
  <2>1. /\ registry' = registry /\ entry' = entry /\ tx' = tx /\ inbox' = inbox
        /\ hand' = hand /\ pc' = pc /\ loc' = loc /\ pinned' = pinned /\ late' = late
    BY <1>2, Zenon DEF vars
  <2>2. EntriesGo
    BY <2>1, StayGoes, Zenon DEF IInv
  <2> QED
    BY <2>1, <2>2, NoMove, Together, Zenon
<1> QED
  BY <1>1, <1>2, Zenon

(* Fields keep their types: in particular every link, every message and    *)
(* every transaction names a CSpace and a slot that exist, for any number  *)
(* of cores, CSpaces, threads and late answers.                            *)
THEOREM FieldsTyped == Spec => []TypeOK
<1>1. Init => IInv
  BY InitSound, Zenon
<1>2. IInv /\ [Next]_vars => IInv'
  BY NextGoes, Zenon DEF Goes, IInv
<1>3. IInv => TypeOK
  BY Zenon DEF IInv, Typed, TypeOK
<1> QED
  BY <1>1, <1>2, <1>3, PTL DEF Spec

(* What cap_table_revoke or a REVOKE_PREPARE has touched does not become   *)
(* usable again in its generation, whichever way the revocation ends and   *)
(* whatever late or repeated messages the handlers still carry out.        *)
THEOREM RevokedStaysClosed == Spec => FailsClosed
<1>1. Init => IInv
  BY InitSound, Zenon
<1>2. IInv /\ [Next]_vars => IInv'
  BY NextGoes, Zenon DEF Goes, IInv
<1>3. IInv /\ [Next]_vars =>
        [\A t \in Tables, s \in Slots :
           InUse(entry[t][s]) /\ entry[t][s].state # "LIVE" /\ entry'[t][s].gen = entry[t][s].gen
              => entry'[t][s].state # "LIVE"]_vars
  BY NextGoes, Zenon DEF Goes, EntriesGo, Becomes
<1> QED
  BY <1>1, <1>2, <1>3, PTL DEF Spec, FailsClosed

-----------------------------------------------------------------------------
(* The allocator that hands out the slots of a CSpace                      *)

(* The inductive invariant: the types and the exact count.                 *)
Counted == AllocatorTypeOK /\ CountExact

(* The set of identifiers is finite, and so is every bitmap.               *)
LEMMA IdsFinite == IsFiniteSet(Ids) /\ Cardinality(Ids) = Capacity
<1>1. 0 \in Int /\ Capacity - 1 \in Int
  BY CapacityAssumption
<1>2. IsFiniteSet(0 .. Capacity - 1)
      /\ Cardinality(0 .. Capacity - 1)
           = IF 0 > Capacity - 1 THEN 0 ELSE (Capacity - 1) - 0 + 1
  BY <1>1, FS_Interval
<1> QED BY <1>2, CapacityAssumption DEF Ids

(* In every reachable state of bh_id_allocator the fields have their types *)
(* and allocated_count is the number of bits set, for every capacity.      *)
THEOREM AllocatorCorrect == AllocatorSpec => [](AllocatorTypeOK /\ CountExact)
<1>1. AllocatorInit => Counted
  BY CapacityAssumption, FS_EmptySet
     DEF AllocatorInit, Counted, AllocatorTypeOK, CountExact, Ids
<1>2. Counted /\ [AllocatorNext]_allocator_vars => Counted'
  <2> SUFFICES ASSUME Counted, [AllocatorNext]_allocator_vars PROVE Counted'
    OBVIOUS
  <2>0. IsFiniteSet(bitmap) /\ Cardinality(bitmap) \in Nat
    BY IdsFinite, FS_Subset, FS_CardinalityType DEF Counted, AllocatorTypeOK
  <2>1. ASSUME NEW id \in Ids, Alloc(id) PROVE Counted'
    <3>1. bitmap' \subseteq Ids /\ id \notin bitmap
      BY <2>1, ZenonT(30) DEF Alloc, FirstFree, Counted, AllocatorTypeOK
    <3>2. next_hint' \in Ids
      BY <2>1, CapacityAssumption DEF Alloc, Ids
    <3>3. allocated_count' \in 0 .. Capacity
      BY <2>1, CapacityAssumption DEF Alloc, Counted, AllocatorTypeOK
    <3>4. Cardinality(bitmap') = Cardinality(bitmap) + 1
      BY <2>0, <2>1, <3>1, FS_AddElement DEF Alloc
    <3> QED BY <2>1, <3>1, <3>2, <3>3, <3>4 DEF Alloc, Counted, AllocatorTypeOK, CountExact
  <2>2. ASSUME NEW id \in Ids, Free(id) PROVE Counted'
    <3>1. Cardinality(bitmap') = Cardinality(bitmap) - 1
      BY <2>0, <2>2, FS_RemoveElement, ZenonT(30) DEF Free
    <3>2. Cardinality(bitmap') \in Nat
      BY <2>0, <2>2, FS_RemoveElement, FS_CardinalityType DEF Free
    <3> QED BY <2>2, <3>1, <3>2, CapacityAssumption
            DEF Free, Counted, AllocatorTypeOK, CountExact
  <2>3. CASE UNCHANGED allocator_vars
    BY <2>3 DEF allocator_vars, Counted, AllocatorTypeOK, CountExact
  <2> QED BY <2>1, <2>2, <2>3 DEF AllocatorNext
<1>3. Counted => AllocatorTypeOK /\ CountExact
  BY DEF Counted
<1> QED BY <1>1, <1>2, <1>3, PTL DEF AllocatorSpec
(* Counting on from an identifier by less than a round.                    *)
LEMMA Round ==
    ASSUME NEW n \in Nat, n < 2 * Capacity
    PROVE  n % Capacity = IF n < Capacity THEN n ELSE n - Capacity
<1>1. ASSUME NEW m \in Nat, m < Capacity PROVE m % Capacity = m
  BY <1>1, CapacityAssumption, SMTT(30)
<1>2. ASSUME NEW m \in Nat, m < Capacity PROVE (m + Capacity) % Capacity = m
  BY <1>2, CapacityAssumption, SMTT(30)
<1>3. CASE n < Capacity
  BY <1>1, <1>3
<1>4. CASE n >= Capacity
  <2>1. PICK m \in Nat : m = n - Capacity
    BY <1>4, CapacityAssumption
  <2>2. m < Capacity /\ n = m + Capacity
    BY <2>1, CapacityAssumption
  <2> QED
    BY <1>2, <1>4, <2>1, <2>2, CapacityAssumption
<1> QED
  BY <1>3, <1>4, CapacityAssumption

(* The scan visits every identifier.                                       *)
LEMMA ScanMeets ==
    ASSUME NEW h \in Ids, NEW x \in Ids
    PROVE  \E j \in Ids : x = (h + j) % Capacity
<1>1. CASE x >= h
  <2>1. x - h \in Ids /\ h + (x - h) = x
    BY <1>1, CapacityAssumption DEF Ids
  <2>2. x % Capacity = x
    BY Round, CapacityAssumption DEF Ids
  <2> QED
    BY <2>1, <2>2
<1>2. CASE x < h
  <2>1. PICK j \in Ids : j = x + Capacity - h
    BY <1>2, CapacityAssumption DEF Ids
  <2>2. h + j = x + Capacity /\ h + j \in Nat /\ h + j < 2 * Capacity /\ h + j >= Capacity
    BY <2>1, CapacityAssumption DEF Ids
  <2>3. (h + j) % Capacity = (h + j) - Capacity
    BY <2>2, Round, CapacityAssumption
  <2> QED
    BY <2>1, <2>2, <2>3, CapacityAssumption DEF Ids
<1> QED
  BY <1>1, <1>2, CapacityAssumption DEF Ids

(* bh_id_allocator_alloc hands an identifier out twice in a row only if no *)
(* other one is free: the scan, which starts behind it, comes to it last.  *)
(* The hint needs no invariant but its type.                               *)
THEOREM NextFit == AllocatorSpec => LastNotReusedFirst
<1> DEFINE Fits == \A id \in Ids :
        (id \in bitmap' \ bitmap /\ (id + 1) % Capacity = next_hint)
        => Ids \ bitmap = {id}
<1>1. Counted /\ [AllocatorNext]_allocator_vars => [Fits]_allocator_vars
  <2> SUFFICES ASSUME Counted, AllocatorNext, NEW id \in Ids, id \in bitmap', id \notin bitmap,
                      (id + 1) % Capacity = next_hint
               PROVE  Ids \ bitmap = {id}
    OBVIOUS
  <2>1. FirstFree(id)
    BY DEF AllocatorNext, Alloc, Free
  <2>2. PICK i \in Ids : /\ id = (next_hint + i) % Capacity
                         /\ \A j \in 0 .. i - 1 : (next_hint + j) % Capacity \in bitmap
    BY <2>1 DEF FirstFree
  <2>3. next_hint \in Ids
    BY DEF Counted, AllocatorTypeOK
  <2>4. i = Capacity - 1
    <3>1. id + 1 \in Nat /\ id + 1 < 2 * Capacity /\ next_hint + i \in Nat
          /\ next_hint + i < 2 * Capacity
      BY <2>3, CapacityAssumption DEF Ids
    <3>2. PICK n \in Nat : n = id + 1
      BY <3>1
    <3>3. n % Capacity = IF n < Capacity THEN n ELSE n - Capacity
      BY <3>1, <3>2, Round
    <3>4. n % Capacity = next_hint
      BY <3>2, Zenon
    <3>5. id = IF next_hint + i < Capacity THEN next_hint + i ELSE next_hint + i - Capacity
      BY <2>2, <3>1, Round, CapacityAssumption
    <3> QED
      BY <2>3, <3>2, <3>3, <3>4, <3>5, CapacityAssumption DEF Ids
  <2>5. ASSUME NEW x \in Ids, x # id PROVE x \in bitmap
    <3>1. PICK j \in Ids : x = (next_hint + j) % Capacity
      BY <2>3, ScanMeets
    <3>2. j # i
      BY <2>2, <2>5, <3>1
    <3>3. j \in 0 .. i - 1
      BY <2>4, <3>2, CapacityAssumption DEF Ids
    <3> QED
      BY <2>2, <3>1, <3>3
  <2> QED
    BY <2>5
<1>2. AllocatorSpec => []Counted
  BY AllocatorCorrect, PTL DEF Counted
<1> QED
  BY <1>1, <1>2, PTL DEF AllocatorSpec, LastNotReusedFirst

(* A set of natural numbers has a least element.                           *)
LEMMA Least ==
    ASSUME NEW S \in SUBSET Nat, S # {}
    PROVE  \E i \in S : \A j \in S : i <= j
<1> DEFINE Less == {ss \in Nat \X Nat : ss[1] < ss[2]}
<1>1. IsWellFoundedOn(Less, Nat)
  BY NatLessThanWellFounded DEF OpToRel
<1>2. \A i, j \in Nat : <<j, i>> \in Less <=> j < i
  OBVIOUS
<1> HIDE DEF Less
<1>3. PICK i \in S : \A j \in S : <<j, i>> \notin Less
  BY <1>1, WFMin, ZenonT(30)
<1>4. ASSUME NEW j \in S PROVE i <= j
  <2>1. i \in Nat /\ j \in Nat
    OBVIOUS
  <2>2. ~(j < i)
    BY <1>2, <1>3, <2>1, Zenon
  <2> QED
    BY <2>1, <2>2
<1> QED
  BY <1>4

(* While the cached count is below the capacity, the scan stops at an      *)
(* identifier.                                                             *)
LEMMA ScanStops ==
    ASSUME Counted, allocated_count < Capacity
    PROVE  \E id \in Ids : FirstFree(id)
<1> DEFINE Clear == {j \in Ids : (next_hint + j) % Capacity \notin bitmap}
<1>1. bitmap # Ids
  BY IdsFinite, CapacityAssumption DEF Counted, AllocatorTypeOK, CountExact
<1>2. PICK x \in Ids : x \notin bitmap
  BY <1>1 DEF Counted, AllocatorTypeOK
<1>3. \E j \in Ids : x = (next_hint + j) % Capacity
  BY ScanMeets DEF Counted, AllocatorTypeOK
<1>4. Clear \in SUBSET Nat /\ Clear # {}
  BY <1>2, <1>3, CapacityAssumption DEF Ids
<1>5. PICK i \in Clear : \A j \in Clear : i <= j
  BY <1>4, Least, ZenonT(30)
<1>6. (next_hint + i) % Capacity \in Ids
  BY CapacityAssumption DEF Counted, AllocatorTypeOK, Ids
<1>7. \A j \in 0 .. i - 1 : (next_hint + j) % Capacity \in bitmap
  BY <1>5, CapacityAssumption DEF Ids
<1> QED
  BY <1>5, <1>6, <1>7 DEF FirstFree

(* The answer K_ERR_PMM_EXHAUSTED behind the loop of bh_id_allocator_alloc *)
(* is never given: whenever the count lets a call pass its early return,   *)
(* the scan finds an identifier.                                           *)
AllocSucceeds == allocated_count < Capacity => \E id \in Ids : FirstFree(id)

(* The same, in every reachable state and for every capacity.              *)
THEOREM AllocFinds == AllocatorSpec => []AllocSucceeds
<1>1. Counted => AllocSucceeds
  BY ScanStops DEF AllocSucceeds
<1>2. AllocatorSpec => []Counted
  BY AllocatorCorrect, PTL DEF Counted
<1> QED
  BY <1>1, <1>2, PTL
=============================================================================
