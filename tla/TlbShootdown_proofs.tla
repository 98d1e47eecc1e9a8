------------------------ MODULE TlbShootdown_proofs -------------------------
(***************************************************************************)
(* For any number of cores, pages, address spaces, retries and calls: the  *)
(* fields have their types, an acknowledgement that came as a message      *)
(* means that the core cannot use the page, and a shootdown that returns   *)
(* success leaves no core that can.                                        *)
(* The first part is about types: what each step stores, and that a call   *)
(* under way has its page to itself.  The second follows translations, the *)
(* third messages, acknowledgements and results.                           *)
(***************************************************************************)
EXTENDS TlbShootdown, TLAPS

(* A call that is under way has its page out of the page table, and no     *)
(* other call has the same one; its generation fits; only a pending entry  *)
(* holds acknowledgements.                                                 *)
Busy(c) == call[c].pc # "idle"
Pending(c) == call[c].pc \in {"send", "wait"}

CallSound(c) ==
    /\ call[c].page \notin pte
    /\ Busy(c) => /\ call[c].page \in Pages /\ call[c].page \in mapped
                  /\ sw[c] = "no" /\ call[c].ret = NONE
    /\ call[c].pc = "start" => call[c].gen < MaxGen
    /\ Pending(c) => call[c].gen >= 1
    /\ ~Pending(c) => call[c].ack = {}

Typed ==
    /\ TypeOK /\ pte \subseteq mapped
    /\ \A c \in Cores : CallSound(c)
    /\ \A c, d \in Cores : c # d /\ Busy(c) /\ Busy(d) => call[c].page # call[d].page

(* A core that is not in the middle of a switch caches only pages of the   *)
(* address space it runs, and is in the mask of that, unless it is         *)
(* poisoned.                                                               *)
Local ==
    /\ \A d \in Cores : sw[d] = "no" => \A p \in tlb[d] : cur[d] = AspaceOf[p]
    /\ \A d \in Cores : sw[d] \in {"no", "in"} => d \in mask[cur[d]] \/ cur[d] \in poisoned

(* Without the fallback its slots stay empty.                              *)
Quiet ==
    \A d \in Cores : /\ mbox[d].lock = NONE /\ ~mbox[d].valid
                     /\ ~resp[d].valid /\ tgt[d].pc = "idle"

Gone(p) == \A d \in Cores : ~Usable(d, p)

(* A message of the present generation is about the page of the call; one  *)
(* of a later generation does not exist.                                   *)
Faithful(m) ==
    /\ m.id.gen <= call[m.id.from].gen
    /\ \A c \in Cores : Pending(c) /\ m.id = Id(c) =>
         /\ m.kind = "req" => m.page = call[c].page
         /\ m.kind = "rsp" => ~Usable(m.core, call[c].page)

(* The cores that a pending call does not ask cannot use its page.         *)
Spared(c) == \A d \in Cores \ (call[c].targets \cup {c}) : ~Usable(d, call[c].page)

(* Messages, acknowledgements and results agree with what is cached.       *)
Answers ==
    /\ \A m \in net : Faithful(m)
    /\ AckMeansFlushed
    /\ \A c \in Cores : Pending(c) => Spared(c)
    /\ \A c \in Cores : call[c].ret = "ok" => Gone(call[c].page)

Sound == Local /\ (env.mode # "mailbox" => Quiet /\ Answers)

IInv == Typed /\ Sound

-----------------------------------------------------------------------------
(* Types                                                                   *)

Mailboxes == [valid : BOOLEAN, lock : Cores \cup {NONE}, from : Cores \cup {NONE},
              page : Pages \cup {NONE}, id : Ids \cup {NONE}]
Responses == [valid : BOOLEAN, id : Ids \cup {NONE}, core : Cores \cup {NONE}]
Handlers == [pc : {"idle", "seq", "id", "core", "clear"}, page : Pages \cup {NONE},
             id : Ids \cup {NONE}, to : Cores \cup {NONE}]

(* The slots of the mailbox, by the sets above.                            *)
LEMMA WireTypes ==
    TypeOK => /\ mbox \in [Cores -> Mailboxes] /\ resp \in [Cores -> Responses]
              /\ tgt \in [Cores -> Handlers]
BY Zenon DEF TypeOK, Mailboxes, Responses, Handlers

(* The values that a call starts from, in each phase.                      *)
LEMMA IdleTyped ==
    /\ IdleCall \in Calls /\ IdleCall.pc = "idle" /\ IdleCall.ack = {}
    /\ IdleCall.page = NONE /\ IdleCall.targets = {} /\ IdleCall.ret = NONE
    /\ IdleTgt \in Handlers
    /\ IdleTgt.pc = "idle"
BY TlbAssumption DEF IdleCall, IdleTgt, Calls, Handlers

(* The invariant holds at the start.                                       *)
LEMMA InitTyped == Init => IInv
<1> SUFFICES ASSUME Init PROVE IInv
  BY Zenon
<1>1. env \in Setups /\ env.pages \subseteq Pages
  BY TlbAssumption, Zenon DEF Init
<1>2. call \in [Cores -> Calls] /\ \A c \in Cores : call[c] = IdleCall
  BY IdleTyped, Zenon DEF Init
<1>3. cur \in [Cores -> Aspaces] /\ mask \in [Aspaces -> SUBSET Cores]
  BY Zenon DEF Init
<1>4. tgt \in [Cores -> Handlers]
      /\ \A d \in Cores : tgt[d].pc = "idle"
  BY IdleTyped, Zenon DEF Init
<1>5. TypeOK
  BY <1>1, <1>2, <1>3, <1>4, IdleTyped, Zenon DEF Init, TypeOK, Handlers
<1>6. Typed
  BY <1>1, <1>2, <1>5, IdleTyped, TlbAssumption, Zenon DEF Typed, CallSound, Busy, Pending, Init
<1>7. Local
  BY <1>3, Zenon DEF Init, Local
<1>8. Quiet /\ net = {} /\ \A c \in Cores : ~Pending(c)
  BY <1>2, <1>4, IdleTyped, Zenon DEF Init, Quiet, Pending
<1>9. Answers
  BY <1>2, <1>8, IdleTyped, TlbAssumption, Zenon DEF Answers, AckMeansFlushed
<1> QED
  BY <1>6, <1>7, <1>8, <1>9, Zenon DEF IInv, Sound

(* Storing a record in the entry of a core keeps the table of calls typed, *)
(* and the conditions on the other entries.                                *)
LEMMA SetTyped ==
    ASSUME Typed, NEW c \in Cores, NEW r \in Calls, Set(c, r),
           r.ack \subseteq r.targets, c \notin r.targets
    PROVE  /\ call' \in [Cores -> Calls]
           /\ \A d \in Cores : call'[d].ack \subseteq call'[d].targets /\ d \notin call'[d].targets
           /\ call'[c] = r
           /\ \A d \in Cores \ {c} : call'[d] = call[d]
BY Zenon DEF Set, Typed, TypeOK

(* What an entry becomes when its call ends.                               *)
LEMMA ReturnedTyped ==
    ASSUME Typed, NEW c \in Cores, NEW ret \in {"ok", "error"}
    PROVE  /\ Returned(c, ret) \in Calls
           /\ Returned(c, ret).pc = "idle" /\ Returned(c, ret).ack = {}
           /\ Returned(c, ret).targets = {}
           /\ Returned(c, ret).page = call[c].page
           /\ Returned(c, ret).gen = call[c].gen
           /\ Returned(c, ret).ret = ret
<1>1. call[c] \in Calls
  BY Zenon DEF Typed, TypeOK
<1> QED
  BY <1>1, IdleTyped, Zenon DEF Returned, Calls, IdleCall

(* The end of a call keeps the types, whatever its outcome: the page is    *)
(* that of no other call.                                                  *)
LEMMA EndTyped ==
    ASSUME Typed, NEW c \in Cores, Busy(c), NEW ret \in {"ok", "error"},
           Set(c, Returned(c, ret)), mapped' = mapped \ {call[c].page},
           tlb' \in [Cores -> SUBSET Pages], poisoned' \subseteq Aspaces,
           UNCHANGED <<env, pte, cur, sw, mask, wires>>
    PROVE  Typed'
<1>1. /\ call' \in [Cores -> Calls]
      /\ \A d \in Cores : call'[d].ack \subseteq call'[d].targets /\ d \notin call'[d].targets
      /\ call'[c] = Returned(c, ret)
      /\ \A d \in Cores \ {c} : call'[d] = call[d]
  BY ReturnedTyped, SetTyped, Zenon
<1>2. TypeOK'
  BY <1>1, Zenon DEF Typed, TypeOK, wires
<1>3. \A d \in Cores : CallSound(d)'
  BY <1>1, ReturnedTyped DEF Typed, CallSound, Busy, Pending
<1>4. \A d, e \in Cores : d # e /\ Busy(d)' /\ Busy(e)' => call'[d].page # call'[e].page
  BY <1>1, ReturnedTyped DEF Typed, Busy
<1> QED
  BY <1>2, <1>3, <1>4, Zenon DEF Typed, CallSound

(* Switching address spaces is for a core without a call.                  *)
LEMMA SwitchTyped ==
    ASSUME Typed, NEW c \in Cores, Switch(c)
    PROVE  Typed'
<1>1. UNCHANGED <<env, pte, mapped, poisoned, call, wires>>
  BY Zenon DEF Switch, SwitchOut, SwitchSet, SwitchIn, SwitchLoad
<1>2. ~Busy(c)
  BY Zenon DEF Switch, SwitchOut, SwitchSet, SwitchIn, SwitchLoad, Running, Typed, CallSound, Busy
<1>3. sw' \in [Cores -> {"no", "out", "set", "in"}] /\ \A d \in Cores \ {c} : sw'[d] = sw[d]
  BY DEF Switch, SwitchOut, SwitchSet, SwitchIn, SwitchLoad, Typed, TypeOK
<1>4. tlb' \in [Cores -> SUBSET Pages] /\ cur' \in [Cores -> Aspaces]
  BY DEF Switch, SwitchOut, SwitchSet, SwitchIn, SwitchLoad, Typed, TypeOK
<1>5. mask' \in [Aspaces -> SUBSET Cores]
  BY DEF Switch, SwitchOut, SwitchSet, SwitchIn, SwitchLoad, Typed, TypeOK
<1>6. TypeOK'
  BY <1>1, <1>3, <1>4, <1>5, Zenon DEF Typed, TypeOK, wires
<1> QED
  BY <1>1, <1>2, <1>3, <1>6, Zenon DEF Typed, CallSound, Busy, Pending

(* A core caches a translation.                                            *)
LEMMA TouchTyped ==
    ASSUME Typed, NEW c \in Cores, NEW p \in Pages, Touch(c, p)
    PROVE  Typed'
<1>1. tlb' \in [Cores -> SUBSET Pages]
  BY Zenon DEF Touch, Typed, TypeOK
<1>2. TypeOK'
  BY <1>1, Zenon DEF Touch, Typed, TypeOK, wires
<1> QED
  BY <1>2, Zenon DEF Touch, Typed, CallSound, Busy, Pending

(* An unmap starts a call for a page that no other call is about.          *)
LEMMA UnmapTyped ==
    ASSUME Typed, NEW c \in Cores, NEW p \in Pages, Unmap(c, p)
    PROVE  Typed' /\ call'[c].pc = "start" /\ call'[c].page = p /\ call'[c].ack = {}
           /\ call'[c].gen = call[c].gen /\ call'[c].ret = NONE
           /\ \A d \in Cores \ {c} : call'[d] = call[d]
<1>1. call[c] \in Calls /\ call[c].gen \in 0..MaxGen /\ call[c].gen < MaxGen
  <2>1. env.calls[c] \in 0..MaxGen
    BY TlbAssumption DEF Typed, TypeOK
  <2> QED
    BY <2>1, TlbAssumption DEF Typed, TypeOK, Calls, Unmap
<1>2. PICK g \in 0..MaxGen : g = call[c].gen
  BY <1>1, Zenon
<1>3. PICK r : r = [IdleCall EXCEPT !.pc = "start", !.page = p, !.gen = g]
  BY Zenon
<1>4. /\ r \in Calls /\ r.pc = "start" /\ r.page = p /\ r.gen = g /\ r.ack = {}
      /\ r.targets = {} /\ r.ret = NONE
  <2>1. r = [pc |-> "start", page |-> p, gen |-> g, targets |-> {}, todo |-> {},
             ack |-> {}, tries |-> 0, ret |-> NONE]
    BY <1>3, Zenon DEF IdleCall
  <2> QED
    BY <2>1, TlbAssumption DEF Calls
<1>5. Set(c, r)
  BY <1>2, <1>3, Zenon DEF Unmap
<1>6. /\ call' \in [Cores -> Calls]
      /\ \A d \in Cores : call'[d].ack \subseteq call'[d].targets /\ d \notin call'[d].targets
      /\ call'[c] = r
      /\ \A d \in Cores \ {c} : call'[d] = call[d]
  BY <1>4, <1>5, SetTyped, Zenon
<1>7. TypeOK'
  BY <1>6, Zenon DEF Unmap, Typed, TypeOK, wires
<1>8. /\ p \in mapped /\ \A d \in Cores : call[d].page # p
      /\ sw[c] = "no" /\ pte' = pte \ {p} /\ UNCHANGED <<mapped, sw>>
  BY Zenon DEF Unmap, Running, Typed, CallSound
<1>9. \A d \in Cores : CallSound(d)'
  BY <1>1, <1>2, <1>4, <1>6, <1>8 DEF Typed, CallSound, Busy, Pending
<1>10. \A d, e \in Cores : d # e /\ Busy(d)' /\ Busy(e)' => call'[d].page # call'[e].page
  BY <1>4, <1>6, <1>8 DEF Typed, Busy
<1> QED
  BY <1>2, <1>4, <1>6, <1>7, <1>8, <1>9, <1>10, Zenon DEF Typed

(* Mapping a page again forgets what earlier calls returned for it; no     *)
(* call on it is under way.                                                *)
LEMMA MapTyped ==
    ASSUME Typed, NEW c \in Cores, NEW p \in Pages, Map(c, p)
    PROVE  /\ Typed'
           /\ \A d \in Cores : IF call[d].page = p
                THEN /\ ~Busy(d) /\ call'[d].pc = "idle" /\ call'[d].page = NONE
                     /\ call'[d].gen = call[d].gen /\ call'[d].ack = {}
                     /\ call'[d].ret = NONE
                ELSE call'[d] = call[d]
<1>1. \A d \in Cores : call[d] \in Calls /\ call[d].gen \in 0..MaxGen
  BY Zenon DEF Typed, TypeOK, Calls
<1>2. ASSUME NEW d \in Cores, call[d].page = p
      PROVE  /\ ~Busy(d) /\ call'[d] \in Calls /\ call'[d].pc = "idle"
             /\ call'[d].page = NONE /\ call'[d].gen = call[d].gen
             /\ call'[d].ack = {} /\ call'[d].ret = NONE /\ call'[d].targets = {}
  <2>1. call'[d] = [IdleCall EXCEPT !.gen = call[d].gen]
    BY <1>2, Zenon DEF Map
  <2>2. PICK g \in 0..MaxGen : g = call[d].gen
    BY <1>1, Zenon
  <2>3. call'[d] = [IdleCall EXCEPT !.gen = g]
    BY <2>1, <2>2, Zenon
  <2>4. call'[d] = [pc |-> "idle", page |-> NONE, gen |-> g, targets |-> {}, todo |-> {},
                    ack |-> {}, tries |-> 0, ret |-> NONE]
    BY <2>3, Zenon DEF IdleCall
  <2>5. ~Busy(d)
    BY <1>2, Zenon DEF Map, Typed, CallSound
  <2> QED
    BY <2>2, <2>4, <2>5, TlbAssumption DEF Calls
<1>3. \A d \in Cores : call[d].page # p => call'[d] = call[d]
  BY Zenon DEF Map
<1>4. call' \in [Cores -> Calls]
  <2>1. \A d \in Cores : call'[d] \in Calls
    BY <1>1, <1>2, <1>3, Zenon
  <2>2. \E f : call' = [d \in Cores |-> f[d]]
    <3>1. call' = [d \in Cores |-> call'[d]]
      BY Zenon DEF Map
    <3> QED BY <3>1, Zenon
  <2> QED
    BY <2>1, <2>2, Zenon
<1>5. p \notin mapped /\ pte' = pte \cup {p} /\ mapped' = mapped \cup {p} /\ UNCHANGED sw
  BY Zenon DEF Map
<1>6. \A d \in Cores : call'[d].ack \subseteq call'[d].targets /\ d \notin call'[d].targets
  BY <1>2, <1>3, Zenon DEF Typed, TypeOK
<1>7. TypeOK'
  BY <1>4, <1>5, <1>6 DEF Map, Typed, TypeOK, wires
<1>8. \A d \in Cores : CallSound(d)'
  <2>1. NONE \notin pte'
    BY <1>5, TlbAssumption, Zenon DEF Typed, TypeOK
  <2> QED
    BY <1>2, <1>3, <1>5, <2>1 DEF Typed, CallSound, Busy, Pending
<1>9. \A d, e \in Cores : d # e /\ Busy(d)' /\ Busy(e)' => call'[d].page # call'[e].page
  BY <1>2, <1>3 DEF Typed, Busy
<1>10. pte' \subseteq mapped'
  BY <1>5, Zenon DEF Typed
<1>11. Typed'
  BY <1>7, <1>8, <1>9, <1>10, Zenon DEF Typed
<1> QED
  BY <1>2, <1>3, <1>11, Zenon

(* A pending entry stays one: its fields change, not its page.             *)
LEMMA PendingTyped ==
    ASSUME Typed, NEW c \in Cores, Busy(c), NEW r \in Calls, Set(c, r),
           r.pc \in {"send", "wait"}, r.page = call[c].page, r.ret = call[c].ret,
           r.ack \subseteq r.targets, c \notin r.targets, r.gen >= 1,
           UNCHANGED <<env, pte, mapped, cur, sw, mask, poisoned, tlb, resp, tgt>>,
           net' \subseteq Messages,
           mbox' \in [Cores -> Mailboxes]
    PROVE  Typed' /\ call'[c] = r /\ \A d \in Cores \ {c} : call'[d] = call[d]
<1>1. /\ call' \in [Cores -> Calls]
      /\ \A d \in Cores : call'[d].ack \subseteq call'[d].targets /\ d \notin call'[d].targets
      /\ call'[c] = r
      /\ \A d \in Cores \ {c} : call'[d] = call[d]
  BY SetTyped, Zenon
<1>2. TypeOK'
  BY <1>1, Zenon DEF Typed, TypeOK, Mailboxes
<1>3. \A d \in Cores : CallSound(d)'
  BY <1>1, SMTT(30) DEF Typed, CallSound, Busy, Pending
<1>4. \A d, e \in Cores : d # e /\ Busy(d)' /\ Busy(e)' => call'[d].page # call'[e].page
  BY <1>1 DEF Typed, Busy
<1> QED
  BY <1>1, <1>2, <1>3, <1>4, Zenon DEF Typed

(* What the end of a call does to the rest.                                *)
LEMMA SucceedTyped ==
    ASSUME Typed, NEW c \in Cores, Busy(c), Succeed(c),
           UNCHANGED <<env, pte, cur, sw, mask, wires>>
    PROVE  Typed'
<1>1. tlb' \in [Cores -> SUBSET Pages] /\ poisoned' \subseteq Aspaces
  BY Zenon DEF Succeed, Typed, TypeOK
<1> QED
  BY <1>1, EndTyped, Zenon DEF Succeed

(* A call that fails or is refused.                                        *)
LEMMA FailTyped ==
    ASSUME Typed, NEW c \in Cores, Busy(c), Fail(c) \/ Refuse(c),
           UNCHANGED <<env, pte, cur, sw, mask, wires>>
    PROVE  Typed'
<1>1. AspaceOf[call[c].page] \in Aspaces
  BY TlbAssumption, Zenon DEF Typed, CallSound
<1>2. tlb' \in [Cores -> SUBSET Pages] /\ poisoned' \subseteq Aspaces
  BY <1>1, Zenon DEF Fail, Refuse, Typed, TypeOK
<1> QED
  BY <1>2, EndTyped, Zenon DEF Fail, Refuse

(* A call that is not over by then gets a pending entry with the cores of  *)
(* the mask as its targets.                                                *)
LEMMA StartTyped ==
    ASSUME Typed, NEW c \in Cores, Start(c)
    PROVE  /\ Typed'
           /\ \/ Refuse(c)
              \/ Succeed(c) /\ mask[AspaceOf[call[c].page]] \subseteq {c}
                            /\ AspaceOf[call[c].page] \notin poisoned
              \/ /\ AspaceOf[call[c].page] \notin poisoned /\ UNCHANGED <<tlb, poisoned, mapped>>
                 /\ call'[c].pc = "send" /\ call'[c].page = call[c].page
                 /\ call'[c].gen = call[c].gen + 1 /\ call'[c].ret = NONE
                 /\ call'[c].targets = mask[AspaceOf[call[c].page]] \ {c}
                 /\ call'[c].ack = {}
                 /\ \A d \in Cores \ {c} : call'[d] = call[d]
<1>1. /\ call[c] \in Calls /\ Busy(c) /\ call[c].pc = "start" /\ call[c].gen \in 0..MaxGen - 1
      /\ call[c].ack = {} /\ call[c].ret = NONE /\ call[c].page \in Pages
      /\ call[c].targets \subseteq Cores
  BY TlbAssumption DEF Start, In, Typed, TypeOK, CallSound, Busy, Pending, Calls
<1>2. PICK a \in Aspaces : a = AspaceOf[call[c].page]
  BY <1>1, TlbAssumption, Zenon
<1>3. PICK T \in SUBSET Cores : T = mask[a] \ {c}
  BY Zenon DEF Typed, TypeOK
<1>4. UNCHANGED <<env, pte, cur, sw, mask, wires>>
  BY Zenon DEF Start
<1>5. CASE a \in poisoned
  <2>1. Refuse(c)
    BY <1>2, <1>5, Zenon DEF Start
  <2> QED
    BY <1>1, <1>4, <2>1, FailTyped, Zenon
<1>6. CASE a \notin poisoned /\ T = {}
  <2>1. Succeed(c)
    BY <1>2, <1>3, <1>6, Zenon DEF Start
  <2>2. mask[AspaceOf[call[c].page]] \subseteq {c}
    BY <1>2, <1>3, <1>6, Zenon DEF Typed, TypeOK
  <2> QED
    BY <1>1, <1>2, <1>4, <1>6, <2>1, <2>2, SucceedTyped, Zenon
<1>7. CASE a \notin poisoned /\ T # {}
  <2>1. PICK r : r = [call[c] EXCEPT !.pc = "send", !.gen = @ + 1, !.targets = T, !.todo = T]
    BY Zenon
  <2>2. Set(c, r) /\ UNCHANGED <<tlb, poisoned, mapped>>
    BY <1>2, <1>3, <1>7, <2>1, Zenon DEF Start
  <2>3. /\ r \in Calls /\ r.pc = "send" /\ r.page = call[c].page /\ r.gen = call[c].gen + 1
        /\ r.targets = T /\ r.ack = {} /\ r.ret = NONE
    <3>1. PICK x \in Calls : x = call[c]
      BY <1>1, Zenon
    <3>2. PICK g \in 0..MaxGen : g = x.gen + 1
      BY <1>1, <3>1, TlbAssumption
    <3>3. r = [x EXCEPT !.pc = "send", !.gen = g, !.targets = T, !.todo = T]
      BY <2>1, <3>1, <3>2, Zenon
    <3>4. /\ r \in Calls /\ r.pc = "send" /\ r.page = x.page /\ r.gen = g
          /\ r.targets = T /\ r.ack = x.ack /\ r.ret = x.ret
      BY <3>3, Zenon DEF Calls
    <3> QED
      BY <1>1, <3>1, <3>2, <3>4, Zenon
  <2>4. r.gen >= 1 /\ c \notin r.targets
    BY <1>1, <1>3, <2>3
  <2>5. net' \subseteq Messages
        /\ mbox' \in [Cores -> Mailboxes]
    BY <1>4, WireTypes, Zenon DEF Typed, TypeOK, wires
  <2>6. Typed' /\ call'[c] = r /\ \A d \in Cores \ {c} : call'[d] = call[d]
    <3>1. UNCHANGED <<env, pte, mapped, cur, sw, mask, poisoned, tlb, resp, tgt>>
      BY <1>4, <2>2, Zenon DEF wires
    <3>2. r.ack \subseteq r.targets /\ r.pc \in {"send", "wait"} /\ r.ret = call[c].ret
      BY <1>1, <2>3, Zenon
    <3> QED
      BY <1>1, <2>2, <2>3, <2>4, <2>5, <3>1, <3>2, PendingTyped, Zenon
  <2> QED
    BY <1>2, <1>3, <1>7, <2>2, <2>3, <2>6, Zenon
<1> QED
  BY <1>5, <1>6, <1>7, Zenon

(* The request that a pending call sends to a target.                      *)
LEMMA RequestTyped ==
    ASSUME Typed, NEW c \in Cores, Pending(c), NEW d \in Cores
    PROVE  /\ Id(c) \in Ids /\ Id(c).from = c /\ Id(c).gen = call[c].gen
           /\ Request(c, d) \in Messages /\ Request(c, d).id = Id(c)
           /\ Request(c, d).kind = "req" /\ Request(c, d).page = call[c].page
<1>1. call[c].gen \in 1..MaxGen /\ call[c].page \in Pages
  BY TlbAssumption DEF Typed, TypeOK, CallSound, Busy, Pending, Calls
<1>2. PICK g \in 1..MaxGen : g = call[c].gen
  BY <1>1, Zenon
<1>3. Id(c) = [from |-> c, gen |-> g]
  BY <1>2, Zenon DEF Id
<1>4. PICK i \in Ids : i = Id(c) /\ i.from = c /\ i.gen = g
  BY <1>3 DEF Ids
<1>5. Request(c, d) = [kind |-> "req", to |-> d, page |-> call[c].page, id |-> i]
  BY <1>4, Zenon DEF Request
<1> QED
  BY <1>1, <1>2, <1>4, <1>5 DEF Messages

(* Going over to the wait, or back to sending.                             *)
LEMMA WaitingTyped ==
    ASSUME Typed, NEW c \in Cores, Pending(c)
    PROVE  /\ Waiting(c) \in Calls /\ Waiting(c).pc = "wait"
           /\ Waiting(c).page = call[c].page /\ Waiting(c).gen = call[c].gen
           /\ Waiting(c).targets = call[c].targets /\ Waiting(c).ack = call[c].ack
           /\ Waiting(c).ret = call[c].ret
<1>1. call[c] \in Calls
  BY Zenon DEF Typed, TypeOK
<1> QED
  BY <1>1, Zenon DEF Waiting, Calls

(* The dispatch of the requests.                                           *)
LEMMA SendTyped ==
    ASSUME Typed, NEW c \in Cores, SendTransport(c) \/ SendDone(c)
    PROVE  /\ Typed' /\ Pending(c) /\ call'[c].pc = "wait"
           /\ call'[c].page = call[c].page /\ call'[c].gen = call[c].gen
           /\ call'[c].targets = call[c].targets /\ call'[c].ack = call[c].ack
           /\ call'[c].ret = call[c].ret
           /\ \A d \in Cores \ {c} : call'[d] = call[d]
<1>1. Pending(c) /\ Busy(c) /\ Set(c, Waiting(c))
  BY Zenon DEF SendTransport, SendDone, In, Pending, Busy
<1>2. UNCHANGED <<env, pte, mapped, cur, sw, mask, poisoned, tlb, resp, tgt>> /\ mbox' = mbox
  BY Zenon DEF SendTransport, SendDone, space, wires
<1>3. net' \subseteq Messages
  <2>1. CASE SendTransport(c)
    <3>1. \A d \in call[c].todo : d \in Cores
      BY Zenon DEF Typed, TypeOK, Calls
    <3>2. \A d \in call[c].todo : Request(c, d) \in Messages
      BY <1>1, <3>1, RequestTyped, Zenon
    <3> QED
      BY <2>1, <3>2 DEF SendTransport, Typed, TypeOK
  <2>2. CASE SendDone(c)
    BY <2>2, Zenon DEF SendDone, wires, Typed, TypeOK
  <2> QED
    BY <2>1, <2>2, Zenon
<1>4. mbox' \in [Cores -> Mailboxes]
  BY <1>2, WireTypes, Zenon DEF Typed
<1>5. PICK r \in Calls :
        /\ Set(c, r) /\ r.pc = "wait" /\ r.page = call[c].page /\ r.gen = call[c].gen
        /\ r.targets = call[c].targets /\ r.ack = call[c].ack /\ r.ret = call[c].ret
  BY <1>1, WaitingTyped, Zenon
<1>6. r.ack \subseteq r.targets /\ c \notin r.targets /\ r.gen >= 1
  BY <1>1, <1>5, Zenon DEF Typed, TypeOK, CallSound
<1>7. Typed' /\ call'[c] = r /\ \A d \in Cores \ {c} : call'[d] = call[d]
  BY <1>1, <1>2, <1>3, <1>4, <1>5, <1>6, PendingTyped
<1> QED
  BY <1>1, <1>5, <1>7, Zenon

(* A new attempt, or the end of the call.                                  *)
LEMMA TimeoutTyped ==
    ASSUME Typed, NEW c \in Cores, Timeout(c)
    PROVE  /\ Typed' /\ Pending(c)
           /\ \/ Fail(c)
              \/ /\ call'[c].pc = "send" /\ UNCHANGED <<tlb, poisoned, mapped>>
                 /\ call'[c].page = call[c].page /\ call'[c].gen = call[c].gen
                 /\ call'[c].targets = call[c].targets /\ call'[c].ack = call[c].ack
                 /\ call'[c].ret = call[c].ret
                 /\ \A d \in Cores \ {c} : call'[d] = call[d]
<1>1. Pending(c) /\ Busy(c) /\ UNCHANGED <<env, pte, cur, sw, mask, wires>>
  BY Zenon DEF Timeout, In, Pending, Busy
<1>2. CASE call[c].tries + 1 < Retries
  <2>1. PICK x \in Calls : x = call[c]
    BY Zenon DEF Typed, TypeOK
  <2>2. PICK n \in 0..Retries : n = x.tries + 1
    BY <1>2, <2>1, TlbAssumption DEF Calls
  <2>3. PICK T \in SUBSET Cores : T = x.targets \ x.ack
    BY Zenon DEF Calls
  <2>4. PICK r : r = [x EXCEPT !.pc = "send", !.tries = n, !.todo = T]
    BY Zenon
  <2>5. Set(c, r) /\ UNCHANGED <<tlb, poisoned, mapped>>
    BY <1>2, <2>1, <2>2, <2>3, <2>4, Zenon DEF Timeout
  <2>6. /\ r \in Calls /\ r.pc = "send" /\ r.page = x.page /\ r.gen = x.gen
        /\ r.targets = x.targets /\ r.ack = x.ack /\ r.ret = x.ret
    BY <2>4, ZenonT(30) DEF Calls
  <2>7. r.ack \subseteq r.targets /\ c \notin r.targets /\ r.gen >= 1
    BY <1>1, <2>1, <2>6, Zenon DEF Typed, TypeOK, CallSound
  <2>8. net' \subseteq Messages
        /\ mbox' \in [Cores -> Mailboxes]
    BY <1>1, WireTypes, Zenon DEF Typed, TypeOK, wires
  <2>9. UNCHANGED <<env, pte, mapped, cur, sw, mask, poisoned, tlb, resp, tgt>>
    BY <1>1, <2>5, Zenon DEF wires
  <2>10. Typed' /\ call'[c] = r /\ \A d \in Cores \ {c} : call'[d] = call[d]
    BY <1>1, <2>1, <2>5, <2>6, <2>7, <2>8, <2>9, PendingTyped, Zenon
  <2> QED
    BY <1>1, <2>1, <2>5, <2>6, <2>10, Zenon
<1>3. CASE ~(call[c].tries + 1 < Retries)
  <2>1. Fail(c)
    BY <1>3, Zenon DEF Timeout
  <2> QED
    BY <1>1, <2>1, FailTyped, Zenon
<1> QED
  BY <1>2, <1>3, Zenon

(* A call that is complete, or that has no way to send.                    *)
LEMMA EndingTyped ==
    ASSUME Typed, NEW c \in Cores, Complete(c) \/ SendNowhere(c)
    PROVE  Typed' /\ Pending(c)
<1>1. Pending(c) /\ Busy(c) /\ UNCHANGED <<env, pte, cur, sw, mask, wires>>
  BY Zenon DEF Complete, SendNowhere, In, Pending, Busy
<1>2. Succeed(c) \/ Fail(c)
  BY Zenon DEF Complete, SendNowhere
<1> QED
  BY <1>1, <1>2, SucceedTyped, FailTyped, Zenon

(* An answer changes the acknowledgements of a pending entry, if anything. *)
LEMMA AckedTyped ==
    ASSUME Typed, NEW c \in Cores, NEW id, NEW d, call' = Acked(c, id, d),
           UNCHANGED <<env, pte, mapped, tlb, cur, sw, mask, poisoned, mbox, tgt>>,
           net' \subseteq Messages,
           resp' \in [Cores -> Responses]
    PROVE  /\ Typed'
           /\ \A e \in Cores \ {c} : call'[e] = call[e]
           /\ call'[c].pc = call[c].pc /\ call'[c].page = call[c].page
           /\ call'[c].gen = call[c].gen /\ call'[c].targets = call[c].targets
           /\ call'[c].ret = call[c].ret
           /\ \A e \in call'[c].ack : e \in call[c].ack \/ (e = d /\ Pending(c) /\ id = Id(c))
<1>1. call[c] \in Calls /\ call[c].ack \subseteq call[c].targets /\ c \notin call[c].targets
  BY Zenon DEF Typed, TypeOK
<1>2. CASE call[c].pc \in {"send", "wait"} /\ id # NONE /\ id = Id(c) /\ d \in call[c].targets
  <2>1. PICK x \in Calls : x = call[c]
    BY <1>1, Zenon
  <2>2. PICK A \in SUBSET Cores : A = x.ack \cup {d} /\ A \subseteq x.targets
    <3>1. x.targets \subseteq Cores /\ x.ack \cup {d} \subseteq x.targets
      BY <1>1, <1>2, <2>1, Zenon DEF Calls
    <3> QED BY <3>1, Zenon
  <2>3. PICK r : r = [x EXCEPT !.ack = A]
    BY Zenon
  <2>4. /\ r \in Calls /\ r.pc = x.pc /\ r.page = x.page /\ r.gen = x.gen
        /\ r.targets = x.targets /\ r.ack = A /\ r.ret = x.ret
    BY <2>3, Zenon DEF Calls
  <2>5. call' = [call EXCEPT ![c].ack = @ \cup {d}]
    BY <1>2, Zenon DEF Acked
  <2>6. Set(c, r)
    <3>1. r = [call[c] EXCEPT !.ack = @ \cup {d}]
      BY <2>1, <2>2, <2>3, Zenon
    <3> QED
      BY <2>5, <3>1, Zenon DEF Set
  <2>7. /\ call' \in [Cores -> Calls]
        /\ \A e \in Cores : call'[e].ack \subseteq call'[e].targets /\ e \notin call'[e].targets
        /\ call'[c] = r
        /\ \A e \in Cores \ {c} : call'[e] = call[e]
    BY <1>1, <2>1, <2>2, <2>4, <2>6, SetTyped, Zenon
  <2>8. TypeOK'
    BY <2>7, Zenon DEF Typed, TypeOK, Responses
  <2>9. \A e \in Cores : CallSound(e)'
    BY <1>2, <2>1, <2>4, <2>7, SMTT(30) DEF Typed, CallSound, Busy, Pending
  <2>10. \A e, f \in Cores : e # f /\ Busy(e)' /\ Busy(f)' => call'[e].page # call'[f].page
    BY <2>1, <2>4, <2>7, SMTT(30) DEF Typed, Busy
  <2>11. Typed'
    BY <2>8, <2>9, <2>10, SMTT(30) DEF Typed
  <2> QED
    BY <1>2, <2>1, <2>2, <2>4, <2>7, <2>11, ZenonT(30) DEF Pending
<1>3. CASE ~(call[c].pc \in {"send", "wait"} /\ id # NONE /\ id = Id(c) /\ d \in call[c].targets)
  <2>1. call' = call
    BY <1>3, Zenon DEF Acked
  <2>2. TypeOK'
    BY <2>1, Zenon DEF Typed, TypeOK, Responses
  <2> QED
    BY <2>1, <2>2 DEF Typed, CallSound, Busy, Pending
<1> QED
  BY <1>2, <1>3, Zenon

(* The mailbox, its responses, and messages without an effect on calls.    *)
LEMMA WireTyped ==
    ASSUME Typed, UNCHANGED <<env, pte, mapped, cur, sw, mask, poisoned, call>>,
           tlb' \in [Cores -> SUBSET Pages], net' \subseteq Messages,
           mbox' \in [Cores -> Mailboxes],
           resp' \in [Cores -> Responses],
           tgt' \in [Cores -> Handlers]
    PROVE  Typed'
<1>1. TypeOK'
  BY Zenon DEF Typed, TypeOK, Mailboxes, Responses, Handlers
<1> QED
  BY <1>1, Zenon DEF Typed, CallSound, Busy, Pending

(* A flush leaves a set of pages.                                          *)
LEMMA FlushedTyped ==
    ASSUME Typed, NEW d \in Cores, NEW p
    PROVE  Flushed(d, p) \in [Cores -> SUBSET Pages]
BY Zenon DEF Flushed, Typed, TypeOK

(* The fields of a message.                                                *)
LEMMA MessageTyped ==
    ASSUME Typed, NEW m \in net
    PROVE  /\ m.kind \in {"req", "rsp"} /\ m.id \in Ids /\ m.to \in Cores
           /\ m.id.from \in Cores /\ m.id.gen \in 1..MaxGen
           /\ m.kind = "req" => m.page \in Pages
           /\ m.kind = "rsp" => m.core \in Cores
<1>1. m \in Messages
  BY Zenon DEF Typed, TypeOK
<1>2. m.kind \in {"req", "rsp"} /\ m.id \in Ids /\ m.to \in Cores
      /\ (m.kind = "req" => m.page \in Pages) /\ (m.kind = "rsp" => m.core \in Cores)
  BY <1>1, Zenon DEF Messages
<1> QED
  BY <1>2, Zenon DEF Ids

(* A target handles a request.                                             *)
LEMMA ReceiveTyped ==
    ASSUME Typed, NEW d \in Cores, NEW m \in net, ReceiveRequest(d, m)
    PROVE  /\ Typed'
           /\ \E r \in Messages : /\ r.kind = "rsp" /\ r.core = d /\ r.id = m.id
                                  /\ net' = (net \ {m}) \cup {r}
<1>1. PICK r : r = [kind |-> "rsp", to |-> m.id.from, core |-> d, id |-> m.id]
  BY Zenon
<1>2. r \in Messages /\ r.kind = "rsp" /\ r.core = d /\ r.id = m.id
  BY <1>1, MessageTyped, Zenon DEF Messages
<1>3. net' = (net \ {m}) \cup {r}
  BY <1>1, Zenon DEF ReceiveRequest
<1>4. net' \subseteq Messages
  BY <1>2, <1>3, Zenon DEF Typed, TypeOK
<1>5. tlb' \in [Cores -> SUBSET Pages]
  BY FlushedTyped, Zenon DEF ReceiveRequest
<1>6. Typed'
  BY <1>4, <1>5, WireTyped, WireTypes, Zenon DEF ReceiveRequest, Typed
<1> QED
  BY <1>2, <1>3, <1>6, Zenon

(* A message is lost.                                                      *)
LEMMA LoseTyped ==
    ASSUME Typed, NEW m \in net, Lose(m)
    PROVE  Typed'
BY WireTyped, WireTypes, Zenon DEF Lose, space, Typed, TypeOK

(* Handling the mailbox.                                                   *)
Mailbox(d) ==
    ReadPayload(d) \/ ReadSeq(d) \/ RespondId(d) \/ RespondCore(d) \/ ClearMailbox(d)

(* Reading the mailbox in two parts and answering in three.                *)
LEMMA MailboxTyped ==
    ASSUME Typed, NEW d \in Cores, Mailbox(d)
    PROVE  Typed'
<1>1. UNCHANGED <<env, pte, mapped, cur, sw, mask, poisoned, call, net>>
  BY Zenon DEF Mailbox, ReadPayload, ReadSeq, RespondId, RespondCore, ClearMailbox, space
<1>2. tlb' \in [Cores -> SUBSET Pages]
  BY FlushedTyped
     DEF Mailbox, ReadPayload, ReadSeq, RespondId, RespondCore, ClearMailbox, space, Typed, TypeOK
<1>3. mbox[d] \in Mailboxes /\ tgt[d] \in Handlers
  BY WireTypes, Zenon DEF Typed
<1>4. mbox' \in [Cores -> Mailboxes]
  <2>1. CASE ClearMailbox(d)
    <3>1. PICK x : x = [mbox[d] EXCEPT !.valid = FALSE]
      BY Zenon
    <3>2. x \in Mailboxes
      BY <1>3, <3>1, Zenon DEF Mailboxes
    <3>3. mbox' = [mbox EXCEPT ![d] = x]
      BY <2>1, <3>1, Zenon DEF ClearMailbox
    <3> QED
      BY <3>2, <3>3, WireTypes, Zenon DEF Typed
  <2> QED
    BY <2>1, WireTypes, Zenon DEF Mailbox, ReadPayload, ReadSeq, RespondId, RespondCore, Typed
<1>5. resp' \in [Cores -> Responses]
  <2>1. ASSUME NEW c \in Cores, NEW i \in Ids \cup {NONE}
        PROVE  /\ [resp[c] EXCEPT !.id = i] \in Responses
               /\ [resp[c] EXCEPT !.core = d, !.valid = TRUE] \in Responses
    <3>1. resp[c] \in Responses
      BY WireTypes, Zenon DEF Typed
    <3> QED
      BY <3>1, Zenon DEF Responses
  <2>2. CASE RespondId(d)
    <3>1. \A c \in Cores : resp'[c] = IF c = mbox[d].from THEN [resp[c] EXCEPT !.id = tgt[d].id]
                                      ELSE resp[c]
      BY <2>2, WireTypes, Zenon DEF RespondId, Typed
    <3>2. tgt[d].id \in Ids \cup {NONE}
      BY <1>3, Zenon DEF Handlers
    <3>3. \A c \in Cores : resp'[c] \in Responses
      BY <2>1, <3>1, <3>2, WireTypes, Zenon DEF Typed
    <3>4. resp' = [c \in Cores |-> resp'[c]]
      BY <2>2, WireTypes, Zenon DEF RespondId, Typed
    <3> QED
      BY <3>3, <3>4, Zenon
  <2>3. CASE RespondCore(d)
    <3>1. \A c \in Cores : resp'[c] = IF c = tgt[d].to
                                      THEN [resp[c] EXCEPT !.core = d, !.valid = TRUE]
                                      ELSE resp[c]
      BY <2>3, WireTypes, Zenon DEF RespondCore, Typed
    <3>2. \A c \in Cores : resp'[c] \in Responses
      BY <2>1, <3>1, WireTypes, Zenon DEF Typed
    <3>3. resp' = [c \in Cores |-> resp'[c]]
      BY <2>3, WireTypes, Zenon DEF RespondCore, Typed
    <3> QED
      BY <3>2, <3>3, Zenon
  <2> QED
    BY <2>2, <2>3, WireTypes, Zenon DEF Mailbox, ReadPayload, ReadSeq, ClearMailbox, Typed
<1>6. tgt' \in [Cores -> Handlers]
  <2>1. PICK r : Go(d, r)
    BY Zenon DEF Mailbox, ReadPayload, ReadSeq, RespondId, RespondCore, ClearMailbox
  <2>2. tgt'[d] \in Handlers
    <3>1. CASE ReadPayload(d)
      BY <1>3, <3>1, WireTypes, Zenon DEF ReadPayload, Go, Handlers, Mailboxes, Typed
    <3>2. CASE ReadSeq(d)
      BY <1>3, <3>2, WireTypes, Zenon DEF ReadSeq, Go, Handlers, Mailboxes, Typed
    <3>3. CASE RespondId(d)
      BY <1>3, <3>3, WireTypes, Zenon DEF RespondId, Go, Handlers, Mailboxes, Typed
    <3>4. CASE RespondCore(d)
      BY <1>3, <3>4, WireTypes, Zenon DEF RespondCore, Go, Handlers, Typed
    <3>5. CASE ClearMailbox(d)
      BY <3>5, IdleTyped, WireTypes, Zenon DEF ClearMailbox, Go, Typed
    <3> QED
      BY <3>1, <3>2, <3>3, <3>4, <3>5, Zenon DEF Mailbox
  <2> QED
    BY <2>1, <2>2, WireTypes, Zenon DEF Go, Typed
<1>7. net' \subseteq Messages
  BY <1>1, Zenon DEF Typed, TypeOK
<1> QED
  BY <1>1, <1>2, <1>4, <1>5, <1>6, <1>7, WireTyped

(* Writing the mailbox of a target in two parts.                           *)
LEMMA PostTyped ==
    ASSUME Typed, NEW c \in Cores, NEW d \in Cores, SendPayload(c, d) \/ SendSeq(c, d)
    PROVE  Typed'
<1>0. PICK b \in Mailboxes : b = mbox[d]
  BY WireTypes, Zenon DEF Typed
<1>1. CASE SendPayload(c, d)
  <2>1. PICK p \in Pages \cup {NONE} : p = call[c].page
    BY Zenon DEF Typed, TypeOK, Calls
  <2>2. PICK x : x = [b EXCEPT !.lock = c, !.from = c, !.page = p]
    BY Zenon
  <2>3. x \in Mailboxes
    BY <2>2, Zenon DEF Mailboxes
  <2>4. mbox' = [mbox EXCEPT ![d] = x]
    BY <1>0, <1>1, <2>1, <2>2, Zenon DEF SendPayload
  <2>5. mbox' \in [Cores -> Mailboxes]
    BY <2>3, <2>4, WireTypes, Zenon DEF Typed
  <2> QED
    BY <1>1, <2>5, WireTyped, WireTypes, SMTT(30) DEF SendPayload, space, Typed, TypeOK
<1>2. CASE SendSeq(c, d)
  <2>1. Pending(c) /\ Busy(c)
    BY <1>2, Zenon DEF SendSeq, In, Pending, Busy
  <2>2. PICK i \in Ids : i = Id(c)
    BY <2>1, RequestTyped, Zenon
  <2>3. mbox' \in [Cores -> Mailboxes]
    <3>1. PICK x : x = [b EXCEPT !.lock = NONE, !.id = i, !.valid = TRUE]
      BY Zenon
    <3>2. x \in Mailboxes
      BY <3>1, Zenon DEF Mailboxes
    <3>3. mbox' = [mbox EXCEPT ![d] = x]
      BY <1>0, <1>2, <2>2, <3>1, SMTT(30) DEF SendSeq
    <3> QED
      BY <3>2, <3>3, WireTypes, Zenon DEF Typed
  <2>4. PICK x \in Calls : x = call[c]
    BY Zenon DEF Typed, TypeOK
  <2>5. PICK r : r = [x EXCEPT !.todo = @ \ {d}]
    BY Zenon
  <2>6. Set(c, r)
    BY <1>2, <2>4, <2>5, Zenon DEF SendSeq
  <2>7. /\ r \in Calls /\ r.pc = x.pc /\ r.page = x.page /\ r.gen = x.gen
        /\ r.targets = x.targets /\ r.ack = x.ack /\ r.ret = x.ret
    BY <2>5, Zenon DEF Calls
  <2>8. r.ack \subseteq r.targets /\ c \notin r.targets /\ r.gen >= 1 /\ r.pc \in {"send", "wait"}
    BY <2>1, <2>4, <2>7 DEF Typed, TypeOK, CallSound, Pending
  <2>9. net' \subseteq Messages
        /\ UNCHANGED <<env, pte, mapped, cur, sw, mask, poisoned, tlb, resp, tgt>>
    BY <1>2, Zenon DEF SendSeq, space, Typed, TypeOK
  <2> QED
    BY <2>1, <2>3, <2>4, <2>6, <2>7, <2>8, <2>9, PendingTyped
<1> QED
  BY <1>1, <1>2, Zenon

(* A caller takes an answer from the transport,                            *)
LEMMA AnswerTyped ==
    ASSUME Typed, NEW c \in Cores, NEW m \in net, ReceiveResponse(c, m)
    PROVE  Typed'
<1>1. net' \subseteq Messages /\ UNCHANGED <<env, pte, mapped, tlb, cur, sw, mask, poisoned, mbox, tgt>>
  BY Zenon DEF ReceiveResponse, space, Typed, TypeOK
<1>2. resp' \in [Cores -> Responses]
  BY WireTypes, Zenon DEF ReceiveResponse, Typed
<1> QED
  BY <1>1, <1>2, AckedTyped, ZenonT(30) DEF ReceiveResponse

(* or from its response slot.                                              *)
LEMMA TakeTyped ==
    ASSUME Typed, NEW c \in Cores, TakeResponse(c)
    PROVE  Typed'
<1>1. net' \subseteq Messages /\ UNCHANGED <<env, pte, mapped, tlb, cur, sw, mask, poisoned, mbox, tgt>>
  BY Zenon DEF TakeResponse, space, Typed, TypeOK
<1>2. resp' \in [Cores -> Responses]
  <2>1. PICK x : x = [resp[c] EXCEPT !.valid = FALSE]
    BY Zenon
  <2>2. x \in Responses
    BY <2>1, WireTypes, Zenon DEF Responses, Typed
  <2>3. resp' = [resp EXCEPT ![c] = x]
    BY <2>1, Zenon DEF TakeResponse
  <2> QED
    BY <2>2, <2>3, WireTypes, Zenon DEF Typed
<1> QED
  BY <1>1, <1>2, AckedTyped, Zenon DEF TakeResponse

-----------------------------------------------------------------------------
(* Translations                                                            *)

(* What every step does but a switch and a touch: what is cached shrinks,  *)
(* what is poisoned grows, and no core moves.                              *)
Shrinks ==
    /\ UNCHANGED <<cur, sw, mask>> /\ poisoned \subseteq poisoned'
    /\ \A d \in Cores : tlb'[d] \subseteq tlb[d]

(* The three ends of tlb_shootdown only drop translations.                 *)
LEMMA EndShrinks ==
    ASSUME Typed, NEW c \in Cores, Succeed(c) \/ Refuse(c) \/ Fail(c), UNCHANGED <<cur, sw, mask>>
    PROVE  Shrinks
BY DEF Succeed, Refuse, Fail, Shrinks, Typed, TypeOK

(* So do the steps of a caller,                                            *)
LEMMA ProgressShrinks ==
    ASSUME Typed, NEW c \in Cores, Progress(c)
    PROVE  Shrinks
<1>1. CASE Start(c)
  BY <1>1, EndShrinks, Zenon DEF Start, Shrinks
<1>2. CASE SendTransport(c) \/ SendDone(c) \/ \E d \in Cores : SendPayload(c, d) \/ SendSeq(c, d)
  BY <1>2, Zenon DEF SendTransport, SendDone, SendPayload, SendSeq, Shrinks, space
<1>3. CASE SendNowhere(c) \/ Complete(c)
  BY <1>3, EndShrinks, Zenon DEF SendNowhere, Complete
<1>4. CASE Timeout(c)
  BY <1>4, EndShrinks, Zenon DEF Timeout, Shrinks
<1> QED
  BY <1>1, <1>2, <1>3, <1>4, Zenon DEF Progress

(* a flush,                                                                *)
LEMMA FlushedShrinks ==
    ASSUME Typed, NEW d \in Cores, NEW p, tlb' = Flushed(d, p),
           UNCHANGED <<cur, sw, mask, poisoned>>
    PROVE  Shrinks
BY Zenon DEF Flushed, Shrinks, Typed, TypeOK

(* the steps of a target,                                                  *)
LEMMA HandleShrinks ==
    ASSUME Typed, NEW c \in Cores, Handle(c)
    PROVE  Shrinks
<1>1. CASE \E m \in net : ReceiveRequest(c, m)
  BY <1>1, FlushedShrinks, Zenon DEF ReceiveRequest
<1>2. CASE ReadSeq(c)
  BY <1>2, FlushedShrinks, Zenon DEF ReadSeq
<1>3. CASE UNCHANGED space
  BY <1>3, Zenon DEF space, Shrinks
<1> QED
  BY <1>1, <1>2, <1>3, Zenon
     DEF Handle, ReceiveResponse, ReadPayload, RespondId, RespondCore, ClearMailbox, TakeResponse

(* and those of the system calls and of the transport.                     *)
LEMMA OtherShrinks ==
    ASSUME Typed, \/ \E c \in Cores, p \in Pages : Unmap(c, p) \/ Map(c, p)
                  \/ \E m \in net : Lose(m)
                  \/ UNCHANGED vars
    PROVE  Shrinks
BY Zenon DEF Unmap, Map, Lose, vars, space, Shrinks

(* A translation that a core cannot use becomes usable only by a touch,    *)
(* for which the page must be mapped: loading another address space drops  *)
(* what is cached.                                                         *)
LEMMA StaysGone ==
    ASSUME Typed, [Next]_vars, NEW d \in Cores, NEW p, p \notin pte, ~Usable(d, p)
    PROVE  ~Usable(d, p)'
<1>1. CASE Shrinks
  BY <1>1, Zenon DEF Shrinks, Usable
<1>2. CASE \E c \in Cores : Switch(c)
  BY <1>2 DEF Switch, SwitchOut, SwitchSet, SwitchIn, SwitchLoad, Usable, Typed, TypeOK
<1>3. CASE \E c \in Cores, q \in Pages : Touch(c, q)
  BY <1>3 DEF Touch, Usable, Typed, TypeOK
<1> QED
  BY <1>1, <1>2, <1>3, ProgressShrinks, HandleShrinks, OtherShrinks, Zenon DEF Next

(* A switch takes its core out of the mask and back in around the time at  *)
(* which another address space is loaded.                                  *)
LEMMA StaysLocal ==
    ASSUME Typed, Local, [Next]_vars
    PROVE  Local'
<1>1. CASE Shrinks
  BY <1>1, Zenon DEF Shrinks, Local
<1>2. ASSUME NEW c \in Cores, Switch(c) PROVE Local'
  <2>1. CASE SwitchOut(c)
    BY <2>1, Zenon DEF SwitchOut, Local, Typed, TypeOK
  <2>2. CASE \E a \in Aspaces : SwitchSet(c, a)
    BY <2>2 DEF SwitchSet, Local, Typed, TypeOK
  <2>3. CASE SwitchIn(c)
    BY <2>3, Zenon DEF SwitchIn, Local, Typed, TypeOK
  <2>4. CASE SwitchLoad(c)
    BY <2>4, Zenon DEF SwitchLoad, Local, Typed, TypeOK
  <2> QED
    BY <1>2, <2>1, <2>2, <2>3, <2>4, Zenon DEF Switch
<1>3. CASE \E c \in Cores, q \in Pages : Touch(c, q)
  BY <1>3 DEF Touch, Local, Typed, TypeOK
<1> QED
  BY <1>1, <1>2, <1>3, ProgressShrinks, HandleShrinks, OtherShrinks, Zenon DEF Next

-----------------------------------------------------------------------------
(* Acknowledgements                                                        *)

(* A step that makes no entry pending, takes acknowledgements and results  *)
(* only for pages that are gone, and adds only faithful messages.          *)
LEMMA Carry ==
    ASSUME Typed, Answers, [Next]_vars, Typed',
           \A e \in Cores : call'[e].gen = call[e].gen,
           \A e \in Cores : Pending(e)' => /\ Pending(e) /\ call'[e].page = call[e].page
                                           /\ call'[e].targets = call[e].targets,
           \A e \in Cores : \A d \in call'[e].ack :
               d \in call[e].ack \/ ~Usable(d, call[e].page)',
           \A e \in Cores : call'[e].ret = "ok" =>
               \/ call[e].ret = "ok" /\ call'[e].page = call[e].page
               \/ Gone(call[e].page)',
           \A m \in net' : m \in net \/ Faithful(m)'
    PROVE  Answers'
<1>1. ASSUME NEW d \in Cores, NEW e \in Cores, ~Usable(d, call[e].page),
             call'[e].page = call[e].page
      PROVE  ~Usable(d, call[e].page)'
  <2>1. PICK p : p = call[e].page
    BY Zenon
  <2>2. p \notin pte /\ ~Usable(d, p)
    BY <1>1, <2>1, Zenon DEF Typed, CallSound
  <2>3. ~Usable(d, p)'
    BY <2>2, StaysGone, Zenon
  <2> QED
    BY <1>1, <2>1, <2>3, Zenon DEF Usable
<1>2. AckMeansFlushed'
  <2> SUFFICES ASSUME NEW e \in Cores, NEW d \in call'[e].ack
               PROVE  ~Usable(d, call[e].page)'
    BY Zenon DEF AckMeansFlushed
  <2>1. d \in Cores /\ Pending(e)'
    BY Zenon DEF Typed, TypeOK, CallSound, Calls
  <2>2. CASE d \in call[e].ack
    BY <1>1, <2>1, <2>2, Zenon DEF Answers, AckMeansFlushed
  <2> QED
    BY <2>2, Zenon
<1>3. ASSUME NEW e \in Cores, Pending(e)' PROVE Spared(e)'
  <2>1. Spared(e) /\ call'[e].page = call[e].page /\ call'[e].targets = call[e].targets
    BY <1>3, Zenon DEF Answers
  <2> QED
    BY <1>1, <2>1, Zenon DEF Spared
<1>4. ASSUME NEW e \in Cores, call'[e].ret = "ok" PROVE Gone(call[e].page)'
  <2>1. CASE call[e].ret = "ok" /\ call'[e].page = call[e].page
    BY <1>1, <2>1, Zenon DEF Answers, Gone
  <2> QED
    BY <1>4, <2>1, Zenon
<1>5. ASSUME NEW m \in net, m \in net' PROVE Faithful(m)'
  <2>1. Faithful(m) /\ m.id.from \in Cores
    BY MessageTyped, Zenon DEF Answers
  <2>2. m.id.gen <= call'[m.id.from].gen
    BY <2>1, Zenon DEF Faithful
  <2>3. ASSUME NEW c \in Cores, Pending(c)', m.id = Id(c)'
        PROVE  /\ m.kind = "req" => m.page = call'[c].page
               /\ m.kind = "rsp" => ~Usable(m.core, call[c].page)'
    <3>1. Pending(c) /\ call'[c].page = call[c].page /\ m.id = Id(c)
      BY <2>3, Zenon DEF Id
    <3> QED
      BY <1>1, <2>1, <3>1, MessageTyped, Zenon DEF Faithful
  <2> QED
    BY <2>2, <2>3, Zenon DEF Faithful
<1>6. \A m \in net' : Faithful(m)'
  BY <1>5, Zenon
<1> QED
  BY <1>2, <1>3, <1>4, <1>6, Zenon DEF Answers

(* A step that leaves the calls alone and adds no message.                 *)
LEMMA Idling ==
    ASSUME Typed, Answers, [Next]_vars, Typed', call' = call, net' \subseteq net
    PROVE  Answers'
BY Carry, Zenon DEF Pending

(* On success, the page is gone: from the cores asked because they         *)
(* answered, from the others because they were spared, from the caller by  *)
(* its own flush.                                                          *)
LEMMA SuccessGone ==
    ASSUME Typed, Local, NEW c \in Cores, Busy(c), Succeed(c), UNCHANGED <<cur, sw, mask>>,
           \A d \in Cores \ {c} : ~Usable(d, call[c].page)
    PROVE  Gone(call[c].page)'
<1>1. \A d \in Cores \ {c} : ~(call[c].page \in tlb'[d] /\ sw'[d] = "no")
  BY Zenon DEF Succeed, Usable, Typed, TypeOK
<1>2. ~(call[c].page \in tlb'[c] /\ sw'[c] = "no")
  BY Zenon DEF Succeed, Local, Typed, TypeOK
<1>3. call'[c].page = call[c].page
  <2>1. call'[c] = Returned(c, "ok")
    BY Zenon DEF Succeed, Set, Typed, TypeOK
  <2> QED
    BY <2>1, ReturnedTyped
<1> QED
  BY <1>1, <1>2, <1>3, Zenon DEF Gone, Usable

(* A call that returns.                                                    *)
LEMMA EndAnswers ==
    ASSUME Typed, Answers, [Next]_vars, Typed', NEW c \in Cores, NEW ret \in {"ok", "error"},
           Set(c, Returned(c, ret)), net' = net, ret = "ok" => Gone(call[c].page)'
    PROVE  Answers'
<1>1. call'[c] = Returned(c, ret) /\ \A d \in Cores \ {c} : call'[d] = call[d]
  BY ZenonT(30) DEF Set, Typed, TypeOK
<1>2. /\ call'[c].pc = "idle" /\ call'[c].ack = {} /\ call'[c].gen = call[c].gen
      /\ call'[c].ret = ret
  BY <1>1, ReturnedTyped
<1>3. \A e \in Cores : call'[e].gen = call[e].gen
  BY <1>1, <1>2, Zenon
<1>4. \A e \in Cores : Pending(e)' => /\ Pending(e) /\ call'[e].page = call[e].page
                                      /\ call'[e].targets = call[e].targets
  BY <1>1, <1>2, Zenon DEF Pending
<1>5. \A e \in Cores : \A d \in call'[e].ack : d \in call[e].ack
  BY <1>1, <1>2, Zenon
<1>6. \A e \in Cores : call'[e].ret = "ok" =>
        (call[e].ret = "ok" /\ call'[e].page = call[e].page) \/ Gone(call[e].page)'
  BY <1>1, <1>2, Zenon
<1> QED
  BY <1>3, <1>4, <1>5, <1>6, Carry, Zenon

(* The first request of a call has a generation that no message carries,   *)
(* and a core outside of the mask does not run the address space.          *)
LEMMA StartAnswers ==
    ASSUME Typed, Local, Answers, [Next]_vars, Typed', NEW c \in Cores, Start(c)
    PROVE  Answers'
<1>0. Busy(c) /\ ~Pending(c) /\ net' = net /\ UNCHANGED <<pte, cur, sw, mask>>
      /\ call[c].page \in Pages /\ call[c].gen \in Nat
  BY TlbAssumption DEF Start, In, Busy, Pending, wires, Typed, TypeOK, CallSound, Calls
<1>1. CASE Refuse(c)
  BY <1>0, <1>1, EndAnswers, Zenon DEF Refuse
<1>2. ASSUME AspaceOf[call[c].page] \notin poisoned,
             NEW d \in Cores \ {c}, d \notin mask[AspaceOf[call[c].page]]
      PROVE  ~Usable(d, call[c].page)
  BY <1>2, Zenon DEF Usable, Local
<1>3. CASE Succeed(c) /\ mask[AspaceOf[call[c].page]] \subseteq {c}
                      /\ AspaceOf[call[c].page] \notin poisoned
  <2>1. Gone(call[c].page)'
    BY <1>0, <1>2, <1>3, SuccessGone, Zenon
  <2> QED
    BY <1>0, <1>3, <2>1, EndAnswers, Zenon DEF Succeed
<1>4. CASE /\ AspaceOf[call[c].page] \notin poisoned /\ UNCHANGED <<tlb, poisoned, mapped>>
           /\ call'[c].pc = "send" /\ call'[c].page = call[c].page
           /\ call'[c].gen = call[c].gen + 1 /\ call'[c].ret = NONE
           /\ call'[c].targets = mask[AspaceOf[call[c].page]] \ {c}
           /\ call'[c].ack = {}
           /\ \A d \in Cores \ {c} : call'[d] = call[d]
  <2>1. \A d \in Cores : \A p : Usable(d, p)' <=> Usable(d, p)
    BY <1>0, <1>4, Zenon DEF Usable
  <2>2. ASSUME NEW m \in net PROVE Faithful(m)'
    <3>1. Faithful(m) /\ m.id.from \in Cores /\ m.id.gen \in Nat
      BY MessageTyped, SMTT(30) DEF Answers
    <3>2. call[m.id.from].gen \in Nat /\ m.id.gen <= call[m.id.from].gen
      BY <3>1, TlbAssumption, SMTT(30) DEF Faithful, Typed, TypeOK, Calls
    <3>3. m.id.gen <= call'[m.id.from].gen
      BY <1>0, <1>4, <3>1, <3>2, SMTT(30)
    <3>4. m.id # Id(c)'
      <4>1. Id(c)'.from = c /\ Id(c)'.gen = call[c].gen + 1
        BY <1>4, ZenonT(30) DEF Id
      <4> QED
        BY <1>0, <3>1, <3>2, <4>1
    <3>5. ASSUME NEW e \in Cores, Pending(e)', m.id = Id(e)'
          PROVE  /\ m.kind = "req" => m.page = call'[e].page
                 /\ m.kind = "rsp" => ~Usable(m.core, call[e].page)'
      <4>1. e # c
        BY <3>4, <3>5, Zenon
      <4>2. call'[e] = call[e] /\ Pending(e) /\ m.id = Id(e)
        BY <1>4, <3>5, <4>1, Zenon DEF Pending, Id
      <4>3. /\ m.kind = "req" => m.page = call[e].page
            /\ m.kind = "rsp" => ~Usable(m.core, call[e].page)
        BY <3>1, <4>2, Zenon DEF Faithful
      <4> QED
        BY <2>1, <4>2, <4>3, MessageTyped, Zenon DEF Usable
    <3> QED
      BY <3>3, <3>5, Zenon DEF Faithful
  <2>3. AckMeansFlushed'
    BY <1>0, <1>4, Zenon DEF Answers, AckMeansFlushed, Usable
  <2>4. \A e \in Cores : Pending(e)' => Spared(e)'
    <3>1. Spared(c)'
      BY <1>0, <1>2, <1>4, ZenonT(30) DEF Spared, Usable
    <3>2. ASSUME NEW e \in Cores \ {c}, Pending(e)' PROVE Spared(e)'
      BY <1>0, <1>4, <3>2, Zenon DEF Answers, Spared, Usable, Pending
    <3> QED
      BY <3>1, <3>2, Zenon
  <2>5. \A e \in Cores : call'[e].ret = "ok" => Gone(call[e].page)'
    BY <1>0, <1>4, TlbAssumption DEF Answers, Gone, Usable
  <2> QED
    BY <1>0, <2>2, <2>3, <2>4, <2>5, Zenon DEF Answers
<1> QED
  BY <1>1, <1>3, <1>4, StartTyped, Zenon

(* A request that is sent is about the page of the call.                   *)
LEMMA SendAnswers ==
    ASSUME Typed, Answers, [Next]_vars, Typed', NEW c \in Cores, SendTransport(c)
    PROVE  Answers'
<1>1. /\ Pending(c) /\ call'[c].pc = "wait"
      /\ call'[c].page = call[c].page /\ call'[c].gen = call[c].gen
      /\ call'[c].targets = call[c].targets /\ call'[c].ack = call[c].ack
      /\ call'[c].ret = call[c].ret
      /\ \A d \in Cores \ {c} : call'[d] = call[d]
  BY SendTyped, Zenon
<1>2. ASSUME NEW m \in net', m \notin net PROVE Faithful(m)'
  <2>1. PICK d \in call[c].todo : m = Request(c, d)
    BY <1>2, Zenon DEF SendTransport
  <2>2. d \in Cores
    BY Zenon DEF Typed, TypeOK, Calls
  <2>3. m.id = Id(c) /\ m.kind = "req" /\ m.page = call[c].page
        /\ Id(c).from = c /\ Id(c).gen = call[c].gen
    BY <1>1, <2>1, <2>2, RequestTyped, ZenonT(30)
  <2>4. m.id.gen <= call'[m.id.from].gen
    BY <1>1, <2>3, TlbAssumption DEF Typed, TypeOK, Calls
  <2>5. \A e \in Cores : m.id = Id(e)' => e = c
    BY <2>3 DEF Id
  <2> QED
    BY <1>1, <2>3, <2>4, <2>5, Zenon DEF Faithful
<1>3. \A e \in Cores : call'[e].gen = call[e].gen
  BY <1>1, Zenon
<1>4. \A e \in Cores : Pending(e)' => /\ Pending(e) /\ call'[e].page = call[e].page
                                      /\ call'[e].targets = call[e].targets
  BY <1>1, Zenon DEF Pending
<1>5. \A e \in Cores : \A d \in call'[e].ack : d \in call[e].ack
  BY <1>1, Zenon
<1>6. \A e \in Cores : call'[e].ret = "ok" =>
        call[e].ret = "ok" /\ call'[e].page = call[e].page
  BY <1>1, Zenon
<1> QED
  BY <1>2, <1>3, <1>4, <1>5, <1>6, Carry, Zenon

(* A deadline that passes starts another attempt, with the same entry, or  *)
(* ends the call.                                                          *)
LEMMA TimeoutAnswers ==
    ASSUME Typed, Answers, [Next]_vars, Typed', NEW c \in Cores, Timeout(c)
    PROVE  Answers'
<1>0. net' = net
  BY Zenon DEF Timeout, wires
<1>1. CASE Fail(c)
  BY <1>0, <1>1, EndAnswers, Zenon DEF Fail
<1>2. CASE /\ call'[c].pc = "send" /\ UNCHANGED <<tlb, poisoned, mapped>>
           /\ call'[c].page = call[c].page /\ call'[c].gen = call[c].gen
           /\ call'[c].targets = call[c].targets /\ call'[c].ack = call[c].ack
           /\ call'[c].ret = call[c].ret
           /\ \A d \in Cores \ {c} : call'[d] = call[d]
  <2>1. \A e \in Cores : call'[e].gen = call[e].gen
    BY <1>2, Zenon
  <2>2. \A e \in Cores : Pending(e)' => /\ Pending(e) /\ call'[e].page = call[e].page
                                        /\ call'[e].targets = call[e].targets
    BY <1>2, TimeoutTyped, Zenon DEF Pending
  <2>3. \A e \in Cores : \A d \in call'[e].ack : d \in call[e].ack
    BY <1>2, Zenon
  <2>4. \A e \in Cores : call'[e].ret = "ok" =>
          call[e].ret = "ok" /\ call'[e].page = call[e].page
    BY <1>2, Zenon
  <2> QED
    BY <1>0, <2>1, <2>2, <2>3, <2>4, Carry, Zenon
<1> QED
  BY <1>1, <1>2, TimeoutTyped, Zenon

(* A call is complete when all cores it asked have answered.               *)
LEMMA CompleteAnswers ==
    ASSUME Typed, Local, Answers, [Next]_vars, Typed', NEW c \in Cores, Complete(c)
    PROVE  Answers'
<1>1. /\ Busy(c) /\ Pending(c) /\ Succeed(c) /\ net' = net /\ UNCHANGED <<cur, sw, mask>>
      /\ call[c].targets \subseteq call[c].ack
  BY Zenon DEF Complete, In, Busy, Pending, wires
<1>2. \A d \in Cores \ {c} : ~Usable(d, call[c].page)
  BY <1>1, Zenon DEF Answers, AckMeansFlushed, Spared
<1>3. Gone(call[c].page)'
  BY <1>1, <1>2, SuccessGone, Zenon
<1> QED
  BY <1>1, <1>3, EndAnswers, Zenon DEF Succeed

(* The new call of a core is not pending yet.                              *)
LEMMA UnmapAnswers ==
    ASSUME Typed, Answers, [Next]_vars, Typed', NEW c \in Cores, NEW p \in Pages, Unmap(c, p)
    PROVE  Answers'
<1>1. /\ call'[c].pc = "start" /\ call'[c].ack = {} /\ call'[c].gen = call[c].gen
      /\ call'[c].ret = NONE /\ \A d \in Cores \ {c} : call'[d] = call[d]
  BY UnmapTyped, Zenon
<1>2. net' = net
  BY Zenon DEF Unmap, wires
<1>3. \A e \in Cores : Pending(e)' => /\ Pending(e) /\ call'[e].page = call[e].page
                                      /\ call'[e].targets = call[e].targets
  BY <1>1, Zenon DEF Pending
<1>4. \A e \in Cores : call'[e].gen = call[e].gen
  BY <1>1, Zenon
<1>5. \A e \in Cores : \A d \in call'[e].ack : d \in call[e].ack
  BY <1>1, Zenon
<1>6. \A e \in Cores : call'[e].ret = "ok" =>
        call[e].ret = "ok" /\ call'[e].page = call[e].page
  BY <1>1, TlbAssumption
<1> QED
  BY <1>2, <1>3, <1>4, <1>5, <1>6, Carry, Zenon

(* Mapping a page again: the results about it no longer count.             *)
LEMMA MapAnswers ==
    ASSUME Typed, Answers, [Next]_vars, Typed', NEW c \in Cores, NEW p \in Pages, Map(c, p)
    PROVE  Answers'
<1>1. \A d \in Cores : IF call[d].page = p
                THEN /\ ~Busy(d) /\ call'[d].pc = "idle" /\ call'[d].page = NONE
                     /\ call'[d].gen = call[d].gen /\ call'[d].ack = {}
                     /\ call'[d].ret = NONE
                ELSE call'[d] = call[d]
  BY MapTyped
<1>2. net' = net
  BY Zenon DEF Map, wires
<1>3. \A e \in Cores : Pending(e)' => /\ Pending(e) /\ call'[e].page = call[e].page
                                      /\ call'[e].targets = call[e].targets
  BY <1>1, Zenon DEF Pending
<1>4. \A e \in Cores : call'[e].gen = call[e].gen
  BY <1>1, Zenon
<1>5. \A e \in Cores : \A d \in call'[e].ack : d \in call[e].ack
  BY <1>1, Zenon
<1>6. \A e \in Cores : call'[e].ret = "ok" =>
        call[e].ret = "ok" /\ call'[e].page = call[e].page
  BY <1>1, TlbAssumption, Zenon
<1> QED
  BY <1>2, <1>3, <1>4, <1>5, <1>6, Carry, Zenon

(* The answer to a request of the present generation follows the flush; a  *)
(* core that runs another address space has nothing of the page, unless it *)
(* is about to load one.                                                   *)
LEMMA RequestAnswers ==
    ASSUME Typed, Local, Answers, [Next]_vars, Typed', NEW d \in Cores, NEW m \in net,
           ReceiveRequest(d, m)
    PROVE  Answers'
<1>1. PICK r \in Messages : /\ r.kind = "rsp" /\ r.core = d /\ r.id = m.id
                            /\ net' = (net \ {m}) \cup {r}
  BY ReceiveTyped, Zenon
<1>2. call' = call /\ m.kind = "req" /\ UNCHANGED <<cur, sw>> /\ tlb' = Flushed(d, m.page)
  BY Zenon DEF ReceiveRequest
<1>3. ~(m.page \in tlb'[d] /\ sw'[d] = "no")
  BY <1>2, ZenonT(30) DEF Flushed, Local, Typed, TypeOK
<1>4. Faithful(r)'
  <2>1. r.id.gen <= call'[r.id.from].gen
    BY <1>1, <1>2, Zenon DEF Answers, Faithful
  <2>2. \A c \in Cores : Pending(c)' /\ r.id = Id(c)' => ~Usable(r.core, call[c].page)'
    BY <1>1, <1>2, <1>3, Zenon DEF Answers, Faithful, Pending, Id, Usable
  <2> QED
    BY <1>1, <2>1, <2>2, Zenon DEF Faithful
<1> QED
  BY <1>1, <1>2, <1>4, Carry, Zenon DEF Pending

(* tlb_pending_ack takes an answer of the present generation.              *)
LEMMA ResponseAnswers ==
    ASSUME Typed, Answers, [Next]_vars, Typed', NEW c \in Cores, NEW m \in net,
           ReceiveResponse(c, m)
    PROVE  Answers'
<1>1. /\ call' = Acked(c, m.id, m.core) /\ net' \subseteq net /\ m.kind = "rsp"
      /\ UNCHANGED <<env, pte, mapped, tlb, cur, sw, mask, poisoned, mbox, tgt, resp>>
  BY Zenon DEF ReceiveResponse, space
<1>2. net' \subseteq Messages /\ resp' \in [Cores -> Responses]
  BY <1>1, WireTypes, Zenon DEF Typed, TypeOK
<1>3. /\ \A e \in Cores \ {c} : call'[e] = call[e]
      /\ call'[c].pc = call[c].pc /\ call'[c].page = call[c].page
      /\ call'[c].gen = call[c].gen /\ call'[c].targets = call[c].targets
      /\ call'[c].ret = call[c].ret
      /\ \A e \in call'[c].ack : e \in call[c].ack \/ (e = m.core /\ Pending(c) /\ m.id = Id(c))
  BY <1>1, <1>2, AckedTyped, Zenon
<1>4. \A e \in Cores : \A d \in call'[e].ack : d \in call[e].ack \/ ~Usable(d, call[e].page)'
  <2>1. ASSUME Pending(c), m.id = Id(c) PROVE ~Usable(m.core, call[c].page)'
    BY <1>1, <1>3, <2>1, Zenon DEF Answers, Faithful, Usable
  <2> QED
    BY <1>3, <2>1, Zenon
<1>5. \A e \in Cores : call'[e].gen = call[e].gen
  BY <1>3, Zenon
<1>6. \A e \in Cores : Pending(e)' => /\ Pending(e) /\ call'[e].page = call[e].page
                                      /\ call'[e].targets = call[e].targets
  BY <1>3, Zenon DEF Pending
<1>7. \A e \in Cores : call'[e].ret = "ok" =>
        call[e].ret = "ok" /\ call'[e].page = call[e].page
  BY <1>3, Zenon
<1> QED
  BY <1>1, <1>4, <1>5, <1>6, <1>7, Carry, Zenon

-----------------------------------------------------------------------------
(* The steps together                                                      *)

(* Every step keeps the types and what belongs to a call.                  *)
LEMMA NextTyped == Typed /\ [Next]_vars => Typed'
<1> SUFFICES ASSUME Typed, [Next]_vars PROVE Typed'
  BY Zenon
<1>1. ASSUME NEW c \in Cores, Progress(c) PROVE Typed'
  BY <1>1, StartTyped, SendTyped, PostTyped, EndingTyped, TimeoutTyped, Zenon DEF Progress
<1>2. ASSUME NEW c \in Cores, Handle(c) PROVE Typed'
  BY <1>2, ReceiveTyped, AnswerTyped, MailboxTyped, TakeTyped, Zenon DEF Handle, Mailbox
<1>3. CASE UNCHANGED vars
  <2>1. TypeOK'
    BY <1>3, Zenon DEF Typed, TypeOK, vars, space, wires
  <2> QED
    BY <1>3, <2>1, Zenon DEF Typed, CallSound, Busy, Pending, vars, space, wires
<1> QED
  BY <1>1, <1>2, <1>3, SwitchTyped, TouchTyped, UnmapTyped, MapTyped, LoseTyped, Zenon DEF Next

(* Without the fallback nothing fills its slots.                           *)
LEMMA StaysQuiet ==
    ASSUME Typed, Quiet, env.mode # "mailbox", [Next]_vars
    PROVE  /\ UNCHANGED <<env, mbox, resp, tgt>>
           /\ \A c \in Cores : ~Mailbox(c) /\ ~TakeResponse(c) /\ ~SendDone(c)
           /\ \A c, d \in Cores : ~SendPayload(c, d) /\ ~SendSeq(c, d)
<1>1. \A c \in Cores : ~Mailbox(c) /\ ~TakeResponse(c) /\ ~SendDone(c)
  BY Zenon DEF Mailbox, ReadPayload, ReadSeq, RespondId, RespondCore, ClearMailbox, At, TakeResponse,
         SendDone, Quiet
<1>2. \A c, d \in Cores : ~SendPayload(c, d) /\ ~SendSeq(c, d)
  BY TlbAssumption, Zenon DEF SendPayload, SendSeq, Quiet
<1>3. ASSUME NEW c \in Cores, Progress(c) PROVE UNCHANGED <<env, mbox, resp, tgt>>
  BY <1>1, <1>2, <1>3, Zenon DEF Progress, Start, SendTransport, SendNowhere, Complete, Timeout, wires
<1>4. ASSUME NEW c \in Cores, Handle(c) PROVE UNCHANGED <<env, mbox, resp, tgt>>
  BY <1>1, <1>4, Zenon DEF Handle, Mailbox, ReceiveRequest, ReceiveResponse
<1>5. ASSUME NEW c \in Cores, Switch(c) PROVE UNCHANGED <<env, mbox, resp, tgt>>
  BY <1>5, Zenon DEF Switch, SwitchOut, SwitchSet, SwitchIn, SwitchLoad, wires
<1>6. ASSUME NEW c \in Cores, NEW p \in Pages, Touch(c, p) \/ Unmap(c, p) \/ Map(c, p)
      PROVE  UNCHANGED <<env, mbox, resp, tgt>>
  BY <1>6, Zenon DEF Touch, Unmap, Map, wires
<1>7. ASSUME NEW m \in net, Lose(m) PROVE UNCHANGED <<env, mbox, resp, tgt>>
  BY <1>7, Zenon DEF Lose
<1> QED
  BY <1>1, <1>2, <1>3, <1>4, <1>5, <1>6, <1>7, Zenon DEF Next, vars, wires

(* Every step keeps messages, acknowledgements and results true, where no  *)
(* mailbox is used.                                                        *)
LEMMA NextAnswers ==
    ASSUME Typed, Local, Quiet, Answers, env.mode # "mailbox", [Next]_vars, Typed'
    PROVE  Answers'
<1>1. ASSUME NEW c \in Cores, Progress(c) PROVE Answers'
  <2>1. CASE SendNowhere(c)
    BY <2>1, EndAnswers, Zenon DEF SendNowhere, Fail, wires
  <2> QED
    BY <1>1, <2>1, StaysQuiet, StartAnswers, SendAnswers, CompleteAnswers, TimeoutAnswers, Zenon
       DEF Progress
<1>2. ASSUME NEW c \in Cores, Handle(c) PROVE Answers'
  BY <1>2, StaysQuiet, RequestAnswers, ResponseAnswers, Zenon DEF Handle, Mailbox
<1>3. ASSUME NEW c \in Cores, Switch(c) PROVE Answers'
  BY <1>3, Idling, Zenon DEF Switch, SwitchOut, SwitchSet, SwitchIn, SwitchLoad, wires
<1>4. ASSUME NEW c \in Cores, NEW p \in Pages, Touch(c, p) \/ Unmap(c, p) \/ Map(c, p)
      PROVE  Answers'
  BY <1>4, Idling, UnmapAnswers, MapAnswers, Zenon DEF Touch, wires
<1>5. CASE \E m \in net : Lose(m)
  BY <1>5, Idling, Zenon DEF Lose
<1>6. CASE UNCHANGED vars
  BY <1>6, Idling, Zenon DEF vars, wires
<1> QED
  BY <1>1, <1>2, <1>3, <1>4, <1>5, <1>6, Zenon DEF Next

(* The inductive step.                                                     *)
LEMMA NextInductive == IInv /\ [Next]_vars => IInv'
<1> SUFFICES ASSUME IInv, [Next]_vars PROVE IInv'
  BY Zenon
<1>1. Typed'
  BY NextTyped, Zenon DEF IInv
<1>2. Local'
  BY StaysLocal, Zenon DEF IInv, Sound
<1>3. ASSUME env.mode # "mailbox" PROVE Quiet' /\ Answers' /\ env' = env
  BY <1>1, <1>3, StaysQuiet, NextAnswers DEF IInv, Sound, Quiet
<1>4. env' = env
  BY ZenonT(30) DEF Next, Progress, Handle, Switch, SwitchOut, SwitchSet, SwitchIn, SwitchLoad, Start,
         SendTransport, SendNowhere, SendPayload, SendSeq, SendDone, Complete, Timeout,
         ReceiveRequest, ReceiveResponse, ReadPayload, ReadSeq, RespondId, RespondCore,
         ClearMailbox, TakeResponse, Touch, Unmap, Map, Lose, vars
<1> QED
  BY <1>1, <1>2, <1>3, <1>4, Zenon DEF IInv, Sound

(* In every reachable state of tlb_shootdown.c, for any number of cores,   *)
(* pages, address spaces, retries and calls: the fields have their types,  *)
(* and where messages carry requests and answers, a core whose             *)
(* acknowledgement tlb_pending_ack has recorded cannot use the page.       *)
THEOREM AcknowledgedFlushed == Spec => []MessageAckMeansFlushed
<1>1. IInv => MessageAckMeansFlushed
  BY Zenon DEF IInv, Typed, Sound, Answers, MessageAckMeansFlushed
<1> QED
  BY <1>1, InitTyped, NextInductive, PTL DEF Spec

(* And a shootdown over messages, or without a way to send any, that       *)
(* returns success leaves no core that can use the page, as long as        *)
(* nobody maps it again.                                                   *)
THEOREM SuccessGoneEverywhere == Spec => []SuccessMeansGone
<1>1. IInv => SuccessMeansGone
  BY Zenon DEF IInv, Sound, Answers, Gone, SuccessMeansGone
<1> QED
  BY <1>1, InitTyped, NextInductive, PTL DEF Spec
=============================================================================
