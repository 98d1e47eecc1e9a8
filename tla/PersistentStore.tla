-------------------------- MODULE PersistentStore ---------------------------
(***************************************************************************)
(* The two persistent stores of core/stacks/storage/persistent on a block  *)
(* device with a volatile write cache: the configuration store             *)
(* (config_store.c: a selector and two slots) and the event log            *)
(* (event_log.c: a ring of records).  The machine may lose power between   *)
(* any two requests; what has not been flushed is then kept, lost or torn, *)
(* sector by sector.  A request may fail.                                  *)
(*                                                                         *)
(* A store owns its device, and which of the two is looked at is chosen in *)
(* Init.  A call is its plan of write, flush and read-back requests; reads *)
(* at its start change nothing and are part of the step that begins it.    *)
(* Checksums and the AEAD tag tell a torn sector from a whole one.         *)
(***************************************************************************)
EXTENDS Integers, Sequences

CONSTANTS Kinds,       \* the stores looked at: "config", "log"
          Sectors,     \* max_sectors of the log
          MaxIssued,   \* bound: writes or appends begun
          MaxFormats,  \* bound: calls of the init functions
          MaxFails,    \* bound: requests that fail
          SkipReads    \* whether reads of the recovery scan may fail

ASSUME StoreAssumption ==
    /\ Kinds \subseteq {"config", "log"} /\ SkipReads \in BOOLEAN
    /\ Sectors \in Nat \ {0} /\ {MaxIssued, MaxFormats, MaxFails} \subseteq Nat

VARIABLES kind,
          media, cache,              \* sectors: after a power loss, and as read
          plan,                      \* requests of the call still to be made
          call,                      \* what the call is, and its record
          next_sequence, next_sector, recovered,  \* g_next_*, g_recovered
          issued, formats, fails,    \* counters
          acked,                     \* records whose call returned success; of the
                                     \* log, those whose sector is not due again
          skipped                    \* a recovery scan has missed a sector

device == <<media, cache>>
log == <<next_sequence, next_sector, recovered>>
vars == <<kind, device, plan, call, log, issued, formats, fails, acked, skipped>>

Lbas == IF kind = "config" THEN {0, 1, 2} ELSE 0..Sectors
Zero == [is |-> "zero"]
Torn == [is |-> "torn"]
Super == [is |-> "super"]
Selector(slot, gen) == [is |-> "sel", slot |-> slot, gen |-> gen]
Record(seq, val) == [is |-> "rec", seq |-> seq, val |-> val]
Idle == [is |-> "idle"]

Contents == {Zero, Torn, Super}
            \cup [is : {"sel"}, slot : {1, 2}, gen : 1..MaxIssued + 1]
            \cup [is : {"rec"}, seq : 1..MaxIssued + 1, val : 1..MaxIssued]
Records == {c \in Contents : c.is = "rec"}
Requests == [op : {"write", "verify"}, lba : 0..Sectors + 2, data : Contents]
            \cup {[op |-> "flush"]}

(* One type invariant.                                                     *)
TypeOK ==
    /\ kind \in Kinds
    /\ media \in [Lbas -> Contents] /\ cache \in [Lbas -> Contents]
    /\ plan \in Seq(Requests)
    /\ call \in Records \cup {Idle, [is |-> "format"]}
    /\ plan # << >> => call # Idle
    /\ next_sequence \in 1..MaxIssued + 1 /\ next_sector \in 1..Sectors
    /\ recovered \in BOOLEAN /\ skipped \in BOOLEAN
    /\ issued \in 0..MaxIssued /\ formats \in 0..MaxFormats /\ fails \in 0..MaxFails
    /\ acked \subseteq Records

Write(lba, data) == [op |-> "write", lba |-> lba, data |-> data]
Verify(lba, data) == [op |-> "verify", lba |-> lba, data |-> data]
Flush == [op |-> "flush"]

(* A blank device.                                                         *)
Init ==
    /\ kind \in Kinds
    /\ media = [l \in Lbas |-> Zero] /\ cache = media
    /\ plan = << >> /\ call = Idle
    /\ next_sequence = 1 /\ next_sector = 1 /\ recovered = FALSE
    /\ issued = 0 /\ formats = 0 /\ fails = 0
    /\ acked = {} /\ skipped = FALSE

-----------------------------------------------------------------------------
(* The configuration store                                                 *)

(* The selector, or the default when it does not check.                    *)
Sel == IF cache[0].is = "sel" THEN cache[0] ELSE Selector(1, 1)
Inactive(slot) == 3 - slot

(* config_store_init *)
ConfigFormat ==
    << Write(0, Selector(1, 1)), Write(1, Zero), Write(2, Zero), Flush >>

(* config_store_write: the inactive slot, flush, read it back, the         *)
(* selector, flush.                                                        *)
ConfigPlanNoFlush(slot, gen, rec) ==
    << Write(slot, rec), Verify(slot, rec), Write(0, Selector(slot, gen)), Flush >>

ConfigPlan(slot, gen, rec) ==
    << Write(slot, rec), Flush, Verify(slot, rec),
       Write(0, Selector(slot, gen)), Flush >>

ConfigWrite ==
    LET gen == Sel.gen + 1
        rec == Record(gen, issued + 1) IN
    /\ kind = "config" /\ call = Idle /\ issued < MaxIssued /\ formats > 0
    /\ plan' = ConfigPlan(Inactive(Sel.slot), gen, rec)
    /\ call' = rec
    /\ issued' = issued + 1
    /\ UNCHANGED <<kind, device, log, formats, fails, acked, skipped>>

(* config_store_read: what it would return.                                *)
ReadOk == cache[0].is = "sel" /\ cache[Sel.slot].is = "rec"
ReadValue == cache[Sel.slot].val

-----------------------------------------------------------------------------
(* The event log                                                           *)

(* event_log_init *)
LogFormat ==
    [i \in 1..Sectors + 2 |-> IF i = 1 THEN Write(0, Super)
                              ELSE IF i = Sectors + 2 THEN Flush ELSE Write(i - 1, Zero)]

After(sector) == IF sector = Sectors THEN 1 ELSE sector + 1

(* event_log_recover: the newest whole record among the sectors that can   *)
(* be read, and the place behind it.                                       *)
RecoverFirst(seen) ==
    LET whole == {i \in seen : cache[i].is = "rec"}
        last == CHOOSE i \in whole : \A j \in whole : i <= j IN
    IF whole = {} THEN [seq |-> 1, sector |-> 1]
                  ELSE [seq |-> cache[last].seq + 1, sector |-> After(last)]

Recover(seen) ==
    LET whole == {i \in seen : cache[i].is = "rec"}
        last == CHOOSE i \in whole : \A j \in whole : cache[j].seq <= cache[i].seq IN
    IF whole = {} THEN [seq |-> 1, sector |-> 1]
                  ELSE [seq |-> cache[last].seq + 1, sector |-> After(last)]

LogRecover(seen) ==
    /\ kind = "log" /\ call = Idle /\ cache[0] = Super
    /\ next_sequence' = Recover(seen).seq
    /\ next_sector' = Recover(seen).sector
    /\ recovered' = TRUE
    /\ skipped' = (skipped \/ seen # 1..Sectors)
    /\ UNCHANGED <<kind, device, plan, call, issued, formats, fails, acked>>

(* event_log_append, which recovers first if nobody has.                   *)
LogAppend(seen) ==
    LET at == IF recovered THEN [seq |-> next_sequence, sector |-> next_sector]
                           ELSE Recover(seen)
        rec == Record(at.seq, issued + 1) IN
    /\ kind = "log" /\ call = Idle /\ issued < MaxIssued
    /\ IF recovered THEN seen = 1..Sectors ELSE cache[0] = Super
    /\ plan' = << Write(at.sector, rec), Flush >>
    /\ call' = rec
    /\ issued' = issued + 1
    /\ next_sequence' = at.seq /\ next_sector' = at.sector
    /\ recovered' = TRUE
    /\ skipped' = (skipped \/ seen # 1..Sectors)
    /\ acked' = {r \in acked : r.seq > at.seq - Sectors}
    /\ UNCHANGED <<kind, device, formats, fails>>

-----------------------------------------------------------------------------
(* Calls, requests and the device                                          *)

(* config_store_init and event_log_init give up what the device held.      *)
Format ==
    /\ call = Idle /\ formats < MaxFormats
    /\ plan' = IF kind = "config" THEN ConfigFormat ELSE LogFormat
    /\ call' = [is |-> "format"]
    /\ formats' = formats + 1
    /\ acked' = {}
    /\ IF kind = "log"
         THEN next_sequence' = 1 /\ next_sector' = 1 /\ recovered' = TRUE
         ELSE UNCHANGED log
    /\ UNCHANGED <<kind, device, issued, fails, skipped>>

(* sync_block_io succeeds.                                                 *)
Request ==
    LET r == Head(plan) IN
    /\ plan # << >>
    /\ r.op = "verify" => cache[r.lba] = r.data
    /\ cache' = IF r.op = "write" THEN [cache EXCEPT ![r.lba] = r.data] ELSE cache
    /\ media' = IF r.op = "flush" THEN cache ELSE media
    /\ plan' = Tail(plan)
    /\ UNCHANGED <<kind, call, log, issued, formats, fails, acked, skipped>>

(* sync_block_io fails or times out, and the call returns the error.  A    *)
(* write may or may not have been carried out.                             *)
Fail ==
    LET r == Head(plan) IN
    /\ plan # << >> /\ fails < MaxFails
    /\ \/ UNCHANGED cache
       \/ r.op = "write" /\ cache' = [cache EXCEPT ![r.lba] = r.data]
    /\ plan' = << >> /\ call' = Idle
    /\ fails' = fails + 1
    /\ UNCHANGED <<kind, media, log, issued, formats, acked, skipped>>

(* The call returns success.  The log moves on.                            *)
Return ==
    /\ call # Idle /\ plan = << >>
    /\ call' = Idle
    /\ acked' = IF call.is = "rec" THEN acked \cup {call} ELSE acked
    /\ IF kind = "log" /\ call.is = "rec"
         THEN /\ next_sequence' = next_sequence + 1
              /\ next_sector' = After(next_sector)
              /\ UNCHANGED recovered
         ELSE UNCHANGED log
    /\ UNCHANGED <<kind, device, plan, issued, formats, fails, skipped>>

(* The device writes a cached sector to the medium on its own.             *)
WriteBack(l) ==
    /\ media[l] # cache[l]
    /\ media' = [media EXCEPT ![l] = cache[l]]
    /\ UNCHANGED <<kind, cache, plan, call, log, issued, formats, fails, acked, skipped>>

(* The power fails: sectors that are not flushed are as before or torn,    *)
(* and the variables of the stores start again.                            *)
PowerLoss(torn) ==
    /\ \A l \in torn : media[l] # cache[l]
    /\ media' = [l \in Lbas |-> IF l \in torn THEN Torn ELSE media[l]]
    /\ cache' = media'
    /\ plan' = << >> /\ call' = Idle
    /\ next_sequence' = 1 /\ next_sector' = 1 /\ recovered' = FALSE
    /\ UNCHANGED <<kind, issued, formats, fails, acked, skipped>>

Seen == IF SkipReads THEN SUBSET (1..Sectors) ELSE {1..Sectors}

Next ==
    \/ Format \/ ConfigWrite
    \/ \E seen \in Seen : LogRecover(seen) \/ LogAppend(seen)
    \/ Request \/ Fail \/ Return
    \/ \E l \in Lbas : WriteBack(l)
    \/ \E torn \in SUBSET Lbas : PowerLoss(torn)

Spec == Init /\ [][Next]_vars

-----------------------------------------------------------------------------
(* As long as the selector checks, a configuration that was written can be *)
(* read, wherever the power was lost before.                               *)
Readable == kind = "config" /\ acked # {} /\ cache[0].is = "sel" => ReadOk

(* The fields have their types, and                                        *)
(* a read of the configuration that succeeds returns the newest value      *)
(* whose write returned success, or a later one that was interrupted:      *)
(* never an older one, whatever failed and wherever the power was lost.    *)
(* Where no request has failed it does succeed, unless the selector itself *)
(* is torn.                                                                *)
OldOrNew ==
    /\ TypeOK
    /\ kind = "config" /\ ReadOk => \A r \in acked : ReadValue >= r.val
    /\ fails = 0 => Readable

(* Every record whose append returned success is in the log until an       *)
(* append begins that takes its sector, Sectors records later, and no      *)
(* other record gets its sequence number (event_log_recover finds the      *)
(* place to go on, whatever failed and wherever the power was lost).       *)
Retained == kind = "log" => \A r \in acked : \E i \in 1..Sectors : cache[i] = r

(* The same where no scan has missed a sector: event_log_recover goes on   *)
(* when it cannot read one, and may then start again too early.            *)
RetainedUnlessSkipped == ~skipped => Retained
=============================================================================
