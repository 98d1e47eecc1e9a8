----------------------- MODULE PersistentStore_proofs -----------------------
(***************************************************************************)
(* For any number of sectors, calls, failing requests and power losses:    *)
(* what config_store.c reads is the newest value that was written or a     *)
(* later one, and event_log.c keeps what it has appended.                  *)
(***************************************************************************)
EXTENDS PersistentStore, WellFoundedInduction, TLAPS

-----------------------------------------------------------------------------
(* The inductive invariant                                                 *)

(* The sector of the record with a sequence number.                        *)
Place(seq) == ((seq - 1) % Sectors) + 1

(* What a sector may hold: numbers that have been given out, records of    *)
(* the log in their places.                                                *)
Sound(k, given, l, c) ==
    /\ c.is = "sel" => k = "config" /\ c.gen <= given + 1
    /\ c.is = "rec" => /\ c.val <= given
                       /\ k = "log" => c.seq <= given /\ l = Place(c.seq)

Sounds ==
    \A l \in Lbas : Sound(kind, issued, l, media[l]) /\ Sound(kind, issued, l, cache[l])

(* What remains of the full plan when n of its requests are done.          *)
Rest(rest, full, n) ==
    /\ n \in 0..Len(full) /\ Len(rest) = Len(full) - n
    /\ \A i \in 1..Len(full) - n : rest[i] = full[i + n]

(* A selector, flushed or not, names the slot.                             *)
Names(c, slot) == c.is = "sel" /\ c.slot = slot
Named(slot) == Names(media[0], slot) \/ Names(cache[0], slot)

(* config_store_write: the slot is written and flushed before the selector *)
(* names it.  Without failures the slot is not in use before that.         *)
ConfigAt(slot, n) ==
    /\ Rest(plan, ConfigPlan(slot, call.seq, call), n)
    /\ n >= 1 => cache[slot] = call
    /\ n >= 2 => media[slot] = call
    /\ n >= 4 => cache[0] = Selector(slot, call.seq)
    /\ n = 5 => media = cache
    /\ fails = 0 /\ n < 4 => media[0] = cache[0] /\ ~ Named(slot)

ConfigCall ==
    kind = "config" =>
      /\ call.is = "rec" => /\ call.seq <= issued + 1
                            /\ \E slot \in {1, 2}, n \in 0..5 : ConfigAt(slot, n)
      /\ call.is = "format" =>
           \E n \in 0..4 : Rest(plan, ConfigFormat, n) /\ (n = 4 => media = cache)
      /\ call.is = "idle" /\ fails = 0 => media = cache

(* event_log_append: a record in the place of its number, then a flush.    *)
LogPlan(rec) == << Write(Place(rec.seq), rec), Flush >>

LogAt(n) ==
    /\ Rest(plan, LogPlan(call), n)
    /\ n >= 1 => cache[Place(call.seq)] = call
    /\ n = 2 => media[Place(call.seq)] = call

Harmless(r) == r.op = "write" => r.lba \in 0..Sectors /\ r.data \in {Super, Zero}

LogCall ==
    kind = "log" =>
      /\ next_sector = Place(next_sequence) /\ next_sequence <= issued + 1
      /\ call.is = "rec" => /\ recovered /\ call.seq = next_sequence /\ call.seq <= issued
                            /\ \E n \in 0..2 : LogAt(n)
      /\ call.is = "format" => \A i \in 1..Len(plan) : Harmless(plan[i])

(* The values of the calls so far, and what a format gives up.             *)
Dated ==
    /\ call.is = "rec" => call.val = issued
    /\ \A r \in acked : r.val <= issued /\ (call.is = "rec" => r.val < issued)
    /\ call.is = "format" => acked = {}

(* A slot that a selector names holds nothing older than what was          *)
(* acknowledged.  Without failures it holds a record, which is flushed.    *)
NotOlder(c, kept) == c.is = "rec" => \A r \in kept : c.val >= r.val

Current ==
    kind = "config" => \A slot \in {1, 2} : Named(slot) =>
      /\ NotOlder(media[slot], acked) /\ NotOlder(cache[slot], acked)
      /\ fails = 0 /\ acked # {} => media[slot] = cache[slot] /\ media[slot].is = "rec"

(* An acknowledged record is in its place, on the medium too, and its      *)
(* number is below the next one, by less than the number of sectors while  *)
(* an append is on its way.                                                *)
KeptOne(r) ==
    /\ cache[Place(r.seq)] = r /\ media[Place(r.seq)] = r
    /\ recovered => r.seq < next_sequence
    /\ call.is = "rec" => r.seq > call.seq - Sectors

Kept == kind = "log" /\ ~ skipped => \A r \in acked : KeptOne(r)

IInv == TypeOK /\ Sounds /\ ConfigCall /\ LogCall /\ Dated /\ Current /\ Kept

-----------------------------------------------------------------------------
(* Arithmetic                                                              *)

(* The bounds are natural numbers.                                         *)
LEMMA Sizes ==
    /\ Sectors \in Nat /\ Sectors > 0
    /\ MaxIssued \in Nat /\ MaxFormats \in Nat /\ MaxFails \in Nat
    /\ SkipReads \in BOOLEAN
<1>1. Sectors \in Nat \ {0} /\ {MaxIssued, MaxFormats, MaxFails} \subseteq Nat
  BY StoreAssumption, Zenon
<1> QED
  BY <1>1, StoreAssumption

(* Division with remainder.                                                *)
LEMMA Division ==
    ASSUME NEW c \in Nat, c > 0, NEW x \in Int
    PROVE  x % c \in 0..c - 1 /\ x \div c \in Int /\ x = c * (x \div c) + (x % c)
OBVIOUS

(* A number between 0 and c - 1 is its own remainder.                      *)
LEMMA Remainder ==
    ASSUME NEW c \in Nat, c > 0, NEW q \in Int, NEW r \in 0..c - 1
    PROVE  (c * q + r) % c = r
OBVIOUS

(* Sequence numbers have places among the sectors.                         *)
LEMMA PlaceTyped ==
    ASSUME NEW q \in Int
    PROVE  Place(q) \in 1..Sectors /\ Place(1) = 1
<1>1. (q - 1) % Sectors \in 0..Sectors - 1
  BY Division, Sizes
<1>2. 0 % Sectors = 0
  <2>1. (Sectors * 0 + 0) % Sectors = 0
    BY Remainder, Sizes
  <2> QED
    BY <2>1, Sizes
<1> QED
  BY <1>1, <1>2, Sizes DEF Place

(* event_log_append and event_log_recover go from place to place as the    *)
(* numbers do.                                                             *)
LEMMA PlaceNext ==
    ASSUME NEW q \in Int
    PROVE  Place(q + 1) = After(Place(q))
<1>0. q - 1 \in Int
  OBVIOUS
<1>1. PICK d \in Int, r \in 0..Sectors - 1 : q - 1 = Sectors * d + r /\ r = (q - 1) % Sectors
  BY <1>0, Division, Sizes, Zenon
<1>2. CASE r < Sectors - 1
  <2>1. r + 1 \in 0..Sectors - 1 /\ q = Sectors * d + (r + 1)
    BY <1>1, <1>2, Sizes
  <2>2. q % Sectors = r + 1
    BY <2>1, Remainder, Sizes
  <2> QED
    BY <1>1, <1>2, <2>2, Sizes DEF Place, After
<1>3. CASE r = Sectors - 1
  <2>1. q = Sectors * (d + 1) + 0 /\ d + 1 \in Int
    BY <1>1, <1>3, Sizes
  <2>2. q % Sectors = 0
    BY <2>1, Remainder, Sizes
  <2> QED
    BY <1>1, <1>3, <2>2, Sizes DEF Place, After
<1> QED
  BY <1>2, <1>3, Sizes

(* Numbers less than the number of sectors apart have different places.    *)
LEMMA PlacesApart ==
    ASSUME NEW p \in Int, NEW q \in Int, p < q, q - p < Sectors
    PROVE  Place(p) # Place(q)
<1> SUFFICES ASSUME Place(p) = Place(q) PROVE FALSE
  BY Zenon
<1>0. p - 1 \in Int /\ q - 1 \in Int
  OBVIOUS
<1>1. PICK d \in Int, r \in 0..Sectors - 1 : p - 1 = Sectors * d + r /\ r = (p - 1) % Sectors
  BY <1>0, Division, Sizes, Zenon
<1>2. PICK e \in Int, s \in 0..Sectors - 1 : q - 1 = Sectors * e + s /\ s = (q - 1) % Sectors
  BY <1>0, Division, Sizes, Zenon
<1>3. r = s
  BY <1>1, <1>2 DEF Place
<1>4. q - p = Sectors * (e - d)
  BY <1>1, <1>2, <1>3, Sizes
<1>5. PICK z \in Int : z = e - d
  BY <1>1, <1>2
<1>6. Sectors * z > 0 /\ Sectors * z < Sectors
  BY <1>4, <1>5
<1>7. ~ z >= 1 /\ ~ z <= 0
  BY <1>5, <1>6, Sizes
<1> QED
  BY <1>5, <1>7

(* A set of natural numbers has a least element.                           *)
LEMMA Least ==
    ASSUME NEW S \in SUBSET Nat, S # {}
    PROVE  \E i \in S : \A j \in S : i <= j
<1> DEFINE Less == {ss \in Nat \X Nat : ss[1] < ss[2]}
<1>1. IsWellFoundedOn(Less, Nat)
  BY NatLessThanWellFounded DEF OpToRel
<1>2. \A i, j \in Nat : <<j, i>> \in Less <=> j < i
  OBVIOUS
<1> HIDE DEF Less
<1>3. PICK i \in S : \A j \in S : <<j, i>> \notin Less
  BY <1>1, WFMin, ZenonT(30)
<1>4. ASSUME NEW j \in S PROVE i <= j
  <2>1. i \in Nat /\ j \in Nat
    OBVIOUS
  <2>2. ~ (j < i)
    BY <1>2, <1>3, <2>1, Zenon
  <2> QED
    BY <2>1, <2>2
<1> QED
  BY <1>4, Zenon

(* Of finitely many numbers, or of numbers below a bound, one is highest.  *)
LEMMA Highest ==
    ASSUME NEW T, T # {}, NEW f, NEW m \in Nat, \A i \in T : f[i] \in 0..m
    PROVE  \E i \in T : \A j \in T : f[j] <= f[i]
<1> DEFINE S == {m - f[i] : i \in T}
<1>1. S \in SUBSET Nat /\ S # {}
  OBVIOUS
<1>2. PICK k \in S : \A j \in S : k <= j
  BY <1>1, Least, Zenon
<1>3. PICK i \in T : k = m - f[i]
  BY <1>2
<1>4. ASSUME NEW j \in T PROVE f[j] <= f[i]
  <2>1. m - f[j] \in S
    BY <1>4, Zenon
  <2>2. m - f[i] <= m - f[j]
    BY <1>2, <1>3, <2>1, Zenon
  <2> QED
    BY <2>2
<1> QED
  BY <1>4, Zenon

-----------------------------------------------------------------------------
(* Contents, requests and plans                                            *)

(* The fields of what a sector holds.                                      *)
LEMMA ContentIs ==
    ASSUME NEW c \in Contents
    PROVE  /\ c.is \in {"zero", "torn", "super", "sel", "rec"}
           /\ c.is = "sel" => c.slot \in {1, 2} /\ c.gen \in 1..MaxIssued + 1
           /\ c.is = "rec" => /\ c.seq \in 1..MaxIssued + 1 /\ c.val \in 1..MaxIssued
                              /\ c \in Records
<1>1. CASE c \in {Zero, Torn, Super}
  BY <1>1 DEF Zero, Torn, Super
<1>2. CASE c \in [is : {"sel"}, slot : {1, 2}, gen : 1..MaxIssued + 1]
  BY <1>2
<1>3. CASE c \in [is : {"rec"}, seq : 1..MaxIssued + 1, val : 1..MaxIssued]
  BY <1>3 DEF Records
<1> QED
  BY <1>1, <1>2, <1>3, Zenon DEF Contents

(* Sectors without a number.                                               *)
LEMMA Plain ==
    /\ {Zero, Torn, Super} \subseteq Contents
    /\ Zero.is = "zero" /\ Torn.is = "torn" /\ Super.is = "super"
    /\ Idle.is = "idle" /\ [is |-> "format"].is = "format"
BY DEF Contents, Zero, Torn, Super, Idle

(* A selector.                                                             *)
LEMMA SelectorIs ==
    ASSUME NEW slot \in {1, 2}, NEW gen \in 1..MaxIssued + 1
    PROVE  /\ Selector(slot, gen) \in Contents /\ Selector(slot, gen).is = "sel"
           /\ Selector(slot, gen).slot = slot /\ Selector(slot, gen).gen = gen
BY DEF Contents, Selector

(* A record.                                                               *)
LEMMA RecordIs ==
    ASSUME NEW q \in 1..MaxIssued + 1, NEW v \in 1..MaxIssued
    PROVE  /\ Record(q, v) \in Records /\ Record(q, v).is = "rec"
           /\ Record(q, v).seq = q /\ Record(q, v).val = v
BY DEF Records, Contents, Record

(* What a record is known to have.                                         *)
LEMMA RecordHas ==
    ASSUME NEW r \in Records
    PROVE  r \in Contents /\ r.is = "rec" /\ r.seq \in 1..MaxIssued + 1 /\ r.val \in 1..MaxIssued
BY ContentIs, Zenon DEF Records

(* The three kinds of call.                                                *)
LEMMA CallIs ==
    ASSUME TypeOK
    PROVE  /\ call.is \in {"rec", "idle", "format"}
           /\ call.is = "rec" <=> call \in Records
           /\ call.is = "idle" <=> call = Idle
<1>1. call \in Records \/ call = Idle \/ call = [is |-> "format"]
  BY Zenon DEF TypeOK
<1>2. CASE call \in Records
  BY <1>2, RecordHas, Plain
<1>3. CASE call = Idle
  BY <1>3, RecordHas, Plain
<1>4. CASE call = [is |-> "format"]
  BY <1>4, RecordHas, Plain
<1> QED
  BY <1>1, <1>2, <1>3, <1>4, Zenon

(* Requests.                                                               *)
LEMMA RequestIs ==
    ASSUME NEW l \in 0..Sectors + 2, NEW c \in Contents
    PROVE  /\ Write(l, c) \in Requests /\ Write(l, c).op = "write"
           /\ Write(l, c).lba = l /\ Write(l, c).data = c
           /\ Verify(l, c) \in Requests /\ Verify(l, c).op = "verify"
           /\ Flush \in Requests /\ Flush.op = "flush"
BY DEF Requests, Write, Verify, Flush

(* config_store_write, request by request.                                 *)
LEMMA ConfigPlanIs ==
    ASSUME NEW slot \in {1, 2}, NEW gen \in 1..MaxIssued + 1, NEW rec \in Contents
    PROVE  LET full == ConfigPlan(slot, gen, rec) IN
           /\ full \in Seq(Requests) /\ Len(full) = 5
           /\ full[1] = Write(slot, rec) /\ full[2] = Flush /\ full[3] = Verify(slot, rec)
           /\ full[4] = Write(0, Selector(slot, gen)) /\ full[5] = Flush
<1>1. slot \in 0..Sectors + 2 /\ 0 \in 0..Sectors + 2 /\ Selector(slot, gen) \in Contents
  BY Sizes, SelectorIs
<1>2. /\ Write(slot, rec) \in Requests /\ Verify(slot, rec) \in Requests
      /\ Write(0, Selector(slot, gen)) \in Requests /\ Flush \in Requests
  BY <1>1, RequestIs, Zenon
<1> QED
  BY <1>2 DEF ConfigPlan

(* config_store_init, request by request.                                  *)
LEMMA ConfigFormatIs ==
    /\ ConfigFormat \in Seq(Requests) /\ Len(ConfigFormat) = 4
    /\ \A i \in 1..3 : /\ ConfigFormat[i].op = "write" /\ ConfigFormat[i].lba \in {0, 1, 2}
                       /\ ConfigFormat[i].data \in {Selector(1, 1), Zero}
    /\ ConfigFormat[4] = Flush
<1>1. 0 \in 0..Sectors + 2 /\ 1 \in 0..Sectors + 2 /\ 2 \in 0..Sectors + 2
  BY Sizes
<1>2. 1 \in 1..MaxIssued + 1
  BY Sizes
<1>3. Selector(1, 1) \in Contents /\ Zero \in Contents
  BY <1>2, SelectorIs, Plain, Zenon
<1>4. /\ Write(0, Selector(1, 1)) \in Requests /\ Write(1, Zero) \in Requests
      /\ Write(2, Zero) \in Requests /\ Flush \in Requests
  BY <1>1, <1>3, RequestIs, Zenon
<1>5. /\ ConfigFormat \in Seq(Requests) /\ Len(ConfigFormat) = 4
      /\ ConfigFormat[1] = Write(0, Selector(1, 1)) /\ ConfigFormat[2] = Write(1, Zero)
      /\ ConfigFormat[3] = Write(2, Zero) /\ ConfigFormat[4] = Flush
  BY <1>4 DEF ConfigFormat
<1>6. \A i \in 1..3 : i = 1 \/ i = 2 \/ i = 3
  OBVIOUS
<1> QED
  BY <1>5, <1>6 DEF Write

(* event_log_append.                                                       *)
LEMMA LogPlanIs ==
    ASSUME NEW rec \in Records
    PROVE  /\ LogPlan(rec) \in Seq(Requests) /\ Len(LogPlan(rec)) = 2
           /\ LogPlan(rec)[1] = Write(Place(rec.seq), rec) /\ LogPlan(rec)[2] = Flush
<1>1. Place(rec.seq) \in 0..Sectors + 2 /\ rec \in Contents
  BY RecordHas, PlaceTyped, Sizes
<1>2. Write(Place(rec.seq), rec) \in Requests /\ Flush \in Requests
  BY <1>1, RequestIs, Zenon
<1> QED
  BY <1>2 DEF LogPlan

(* event_log_init.                                                         *)
LEMMA LogFormatIs ==
    /\ LogFormat \in Seq(Requests)
    /\ \A i \in 1..Len(LogFormat) : Harmless(LogFormat[i])
<1>1. ASSUME NEW i \in 1..Sectors + 2
      PROVE  /\ LogFormat[i] \in Requests
             /\ Harmless(LogFormat[i])
  <2>1. /\ LogFormat[i] = IF i = 1 THEN Write(0, Super)
                          ELSE IF i = Sectors + 2 THEN Flush ELSE Write(i - 1, Zero)
    BY <1>1, Zenon DEF LogFormat
  <2>2. 0 \in 0..Sectors + 2 /\ i - 1 \in 0..Sectors + 2
    BY Sizes
  <2>3. i # Sectors + 2 => i - 1 \in 0..Sectors
    BY Sizes
  <2>4. Write(0, Super) \in Requests /\ Flush \in Requests /\ Write(i - 1, Zero) \in Requests
    BY <2>2, RequestIs, Plain, Zenon
  <2>5. LogFormat[i] \in Requests
    BY <2>1, <2>4, Zenon
  <2>6. Harmless(LogFormat[i])
    <3>1. 0 \in 0..Sectors /\ (i # Sectors + 2 => i - 1 \in 0..Sectors)
      BY <2>3, Sizes
    <3>2. Write(0, Super).lba = 0 /\ Write(0, Super).data = Super
      BY DEF Write
    <3>3. Write(i - 1, Zero).lba = i - 1 /\ Write(i - 1, Zero).data = Zero
      BY DEF Write
    <3>4. Flush.op # "write"
      BY DEF Flush
    <3> QED
      BY <2>1, <3>1, <3>2, <3>3, <3>4, Zenon DEF Harmless
  <2> QED
    BY <2>5, <2>6, Zenon
<1>2. DOMAIN LogFormat = 1..Sectors + 2 /\ Sectors + 2 \in Nat
  BY Sizes DEF LogFormat
<1>3. LogFormat \in [1..Sectors + 2 -> Requests]
  BY <1>1, <1>2 DEF LogFormat
<1>4. LogFormat \in Seq(Requests) /\ Len(LogFormat) = Sectors + 2
  BY <1>2, <1>3
<1> QED
  BY <1>1, <1>4, Zenon

(* The next request of a plan, and what remains when it is done.           *)
LEMMA RestStep ==
    ASSUME TypeOK, NEW full \in Seq(Requests), NEW n, Rest(plan, full, n)
    PROVE  /\ plan = << >> <=> n = Len(full)
           /\ plan # << >> => /\ n + 1 \in 1..Len(full) /\ Head(plan) = full[n + 1]
                              /\ plan' = Tail(plan) => Rest(plan', full, n + 1)
<1>1. plan \in Seq(Requests) /\ n \in 0..Len(full) /\ Len(plan) = Len(full) - n
  BY Zenon DEF TypeOK, Rest
<1>2. plan = << >> <=> n = Len(full)
  BY <1>1
<1>3. ASSUME plan # << >>
      PROVE  /\ n + 1 \in 1..Len(full) /\ Head(plan) = full[n + 1]
             /\ plan' = Tail(plan) => Rest(plan', full, n + 1)
  <2>1. n + 1 \in 1..Len(full) /\ 1 \in 1..Len(full) - n /\ Head(plan) = plan[1]
    BY <1>1, <1>2, <1>3
  <2>2. Head(plan) = full[n + 1]
    BY <1>1, <2>1 DEF Rest
  <2>3. ASSUME plan' = Tail(plan) PROVE Rest(plan', full, n + 1)
    <3>1. /\ Len(plan') = Len(full) - (n + 1)
          /\ \A i \in 1..Len(full) - (n + 1) : plan'[i] = plan[i + 1]
      BY <1>1, <1>2, <1>3, <2>3
    <3>2. ASSUME NEW i \in 1..Len(full) - (n + 1) PROVE plan'[i] = full[i + (n + 1)]
      <4>1. i + 1 \in 1..Len(full) - n /\ (i + 1) + n = i + (n + 1)
        BY <1>1
      <4> QED
        BY <3>1, <4>1 DEF Rest
    <3> QED
      BY <1>1, <2>1, <3>1, <3>2 DEF Rest
  <2> QED
    BY <2>1, <2>2, <2>3, Zenon
<1> QED
  BY <1>2, <1>3, Zenon

(* The plan at the beginning of a call.                                    *)
LEMMA RestAll ==
    ASSUME NEW full \in Seq(Requests), plan' = full
    PROVE  Rest(plan', full, 0)
BY DEF Rest

-----------------------------------------------------------------------------
(* Sectors                                                                 *)

(* The sectors of a device.                                                *)
LEMMA LbasAre ==
    ASSUME TypeOK
    PROVE  /\ kind \in {"config", "log"} /\ 0 \in Lbas
           /\ kind = "config" => Lbas = {0, 1, 2}
           /\ kind = "log" => Lbas = 0..Sectors
           /\ kind' = kind => Lbas' = Lbas
           /\ issued \in Nat /\ fails \in Nat
<1>1. kind \in {"config", "log"}
  BY StoreAssumption, Zenon DEF TypeOK
<1>2. 0 \in 0..Sectors
  BY Sizes
<1>3. issued \in Nat /\ fails \in Nat
  BY Sizes DEF TypeOK
<1> QED
  BY <1>1, <1>2, <1>3, Zenon DEF Lbas

(* The records of the log are behind its superblock.                       *)
LEMMA SectorLba == ASSUME NEW i \in 1..Sectors PROVE i \in 0..Sectors
BY Sizes

(* A record of the log has a sector.                                       *)
LEMMA PlaceLba ==
    ASSUME TypeOK, kind = "log", NEW q \in Int
    PROVE  Place(q) \in Lbas
<1>1. Place(q) \in 1..Sectors
  BY PlaceTyped, Zenon
<1>2. Place(q) \in 0..Sectors
  BY <1>1, SectorLba, Zenon
<1> QED
  BY <1>2, LbasAre, Zenon

(* Numbers that have been given out stay so.                               *)
LEMMA SoundLater ==
    ASSUME NEW k, NEW n \in Nat, NEW m \in Nat, n <= m, NEW l, NEW c \in Contents,
           Sound(k, n, l, c)
    PROVE  Sound(k, m, l, c)
BY ContentIs, Sizes DEF Sound

(* A step that leaves the device as it is.                                 *)
LEMMA SoundsLater ==
    ASSUME TypeOK, Sounds, UNCHANGED <<kind, device>>, issued' \in Nat, issued <= issued'
    PROVE  Sounds'
<1>1. /\ kind' = kind /\ media' = media /\ cache' = cache /\ Lbas' = Lbas
      /\ issued \in Nat
  BY LbasAre, Zenon DEF device
<1>2. ASSUME NEW l \in Lbas
      PROVE  Sound(kind', issued', l, media'[l]) /\ Sound(kind', issued', l, cache'[l])
  <2>1. /\ Sound(kind, issued, l, media[l]) /\ Sound(kind, issued, l, cache[l])
        /\ media[l] \in Contents /\ cache[l] \in Contents
    BY Zenon DEF Sounds, TypeOK
  <2> QED
    BY <1>1, <2>1, SoundLater, Zenon
<1> QED
  BY <1>1, <1>2, Zenon DEF Sounds

(* Sectors that settle: a cached sector reaches the medium, or is lost or  *)
(* torn; what was flushed stays as it is.                                  *)
Settled ==
    /\ kind' = kind /\ issued' = issued /\ acked' = acked /\ skipped' = skipped
    /\ fails' = 0 => fails = 0
    /\ call' = call \/ call'.is = "idle"
    /\ recovered' => recovered /\ next_sequence' = next_sequence
    /\ media' \in [Lbas -> Contents] /\ cache' \in [Lbas -> Contents]
    /\ \A l \in Lbas :
         /\ media'[l] \in {media[l], cache[l], Torn}
         /\ cache'[l] \in {media[l], cache[l], Torn}
         /\ media[l] = cache[l] => media'[l] = media[l] /\ cache'[l] = media[l]

(* What is torn is neither a selector nor a record.                        *)
LEMMA TornIsNothing ==
    /\ \A k, n, l : Sound(k, n, l, Torn)
    /\ \A S : NotOlder(Torn, S)
    /\ \A slot : ~ Names(Torn, slot)
BY Plain, Zenon DEF Sound, NotOlder, Names

(* The numbers in sectors that settle are still ones that were given out.  *)
LEMMA SettledSounds ==
    ASSUME TypeOK, Sounds, Settled
    PROVE  Sounds'
<1>1. Lbas' = Lbas /\ kind' = kind /\ issued' = issued
  BY LbasAre, Zenon DEF Settled
<1>2. ASSUME NEW l \in Lbas
      PROVE  Sound(kind', issued', l, media'[l]) /\ Sound(kind', issued', l, cache'[l])
  <2>1. Sound(kind, issued, l, media[l]) /\ Sound(kind, issued, l, cache[l])
    BY Zenon DEF Sounds
  <2>2. /\ media'[l] \in {media[l], cache[l], Torn}
        /\ cache'[l] \in {media[l], cache[l], Torn}
    BY Zenon DEF Settled
  <2>3. Sound(kind, issued, l, Torn)
    BY TornIsNothing, Zenon
  <2>4. Sound(kind, issued, l, media'[l]) /\ Sound(kind, issued, l, cache'[l])
    BY <2>1, <2>2, <2>3, Zenon
  <2> QED
    BY <1>1, <2>4, Zenon
<1> QED
  BY <1>1, <1>2, Zenon DEF Sounds

(* A selector that settles names a slot that was named before, and the     *)
(* slot is not older than it was.                                          *)
LEMMA SettledCurrent ==
    ASSUME TypeOK, Current, Settled
    PROVE  Current'
<1>1. /\ kind' = kind /\ acked' = acked /\ (fails' = 0 => fails = 0)
  BY Zenon DEF Settled
<1>2. ASSUME kind = "config", NEW slot \in {1, 2},
             Names(media'[0], slot) \/ Names(cache'[0], slot)
      PROVE  /\ NotOlder(media'[slot], acked) /\ NotOlder(cache'[slot], acked)
             /\ fails' = 0 /\ acked # {} =>
                  media'[slot] = cache'[slot] /\ media'[slot].is = "rec"
  <2>1. 0 \in Lbas /\ slot \in Lbas
    BY <1>2, LbasAre, Zenon
  <2>2. /\ media'[0] \in {media[0], cache[0], Torn}
        /\ cache'[0] \in {media[0], cache[0], Torn}
    BY <2>1, Zenon DEF Settled
  <2>3. Named(slot)
    BY <1>2, <2>2, TornIsNothing, Zenon DEF Named
  <2>4. /\ NotOlder(media[slot], acked) /\ NotOlder(cache[slot], acked)
        /\ NotOlder(Torn, acked)
        /\ fails = 0 /\ acked # {} =>
             media[slot] = cache[slot] /\ media[slot].is = "rec"
    BY <1>2, <2>3, TornIsNothing, Zenon DEF Current
  <2>5. /\ media'[slot] \in {media[slot], cache[slot], Torn}
        /\ cache'[slot] \in {media[slot], cache[slot], Torn}
        /\ media[slot] = cache[slot] =>
             media'[slot] = media[slot] /\ cache'[slot] = media[slot]
    BY <2>1, Zenon DEF Settled
  <2>6. NotOlder(media'[slot], acked) /\ NotOlder(cache'[slot], acked)
    BY <2>4, <2>5, Zenon
  <2> QED
    BY <1>1, <2>4, <2>5, <2>6, Zenon
<1> QED
  BY <1>1, <1>2, Zenon DEF Current, Named

(* A record that is kept was flushed and is where it was.                  *)
LEMMA SettledKept ==
    ASSUME TypeOK, Kept, Settled
    PROVE  Kept'
<1>1. /\ kind' = kind /\ acked' = acked /\ skipped' = skipped
      /\ call' = call \/ call'.is = "idle"
      /\ recovered' => recovered /\ next_sequence' = next_sequence
  BY Zenon DEF Settled
<1>2. ASSUME kind = "log", ~ skipped, NEW r \in acked PROVE KeptOne(r)'
  <2>1. KeptOne(r)
    BY <1>2, Zenon DEF Kept
  <2>2. r.seq \in Int
    BY RecordHas, Sizes DEF TypeOK
  <2>3. Place(r.seq) \in Lbas
    BY <1>2, <2>2, PlaceLba, Zenon
  <2>4. cache[Place(r.seq)] = r /\ media[Place(r.seq)] = r
    BY <2>1, Zenon DEF KeptOne
  <2>5. media'[Place(r.seq)] = r /\ cache'[Place(r.seq)] = r
    BY <2>3, <2>4, Zenon DEF Settled
  <2>6. recovered' => r.seq < next_sequence'
    BY <1>1, <2>1, Zenon DEF KeptOne
  <2>7. call'.is = "rec" => r.seq > call'.seq - Sectors
    <3>1. "rec" # "idle"
      OBVIOUS
    <3> QED
      BY <1>1, <2>1, <3>1, Zenon DEF KeptOne
  <2> QED
    BY <2>5, <2>6, <2>7 DEF KeptOne, Place
<1> QED
  BY <1>1, <1>2, Zenon DEF Kept

-----------------------------------------------------------------------------
(* Writes                                                                  *)

(* The requests of config_store_write that write.                          *)
LEMMA ConfigWrites ==
    ASSUME TypeOK, call.is = "rec", NEW slot \in {1, 2}, NEW n, ConfigAt(slot, n),
           plan # << >>, Head(plan).op = "write"
    PROVE  \/ n = 0 /\ Head(plan).lba = slot /\ Head(plan).data = call
           \/ n = 3 /\ Head(plan).lba = 0 /\ Head(plan).data = Selector(slot, call.seq)
<1>1. call \in Records /\ call \in Contents /\ call.seq \in 1..MaxIssued + 1
  BY CallIs, RecordHas, Zenon
<1>2. PICK full : full = ConfigPlan(slot, call.seq, call)
  BY Zenon
<1>3. /\ full \in Seq(Requests) /\ Len(full) = 5
      /\ full[1] = Write(slot, call) /\ full[2] = Flush /\ full[3] = Verify(slot, call)
      /\ full[4] = Write(0, Selector(slot, call.seq)) /\ full[5] = Flush
  BY <1>1, <1>2, ConfigPlanIs, Zenon
<1>4. Rest(plan, full, n)
  BY <1>2, Zenon DEF ConfigAt
<1>5. n + 1 \in 1..Len(full) /\ Head(plan) = full[n + 1]
  BY <1>3, <1>4, RestStep, Zenon
<1>6. n = 0 \/ n = 1 \/ n = 2 \/ n = 3 \/ n = 4
  BY <1>3, <1>4, <1>5 DEF Rest
<1>7. /\ Flush.op # "write" /\ Verify(slot, call).op # "write"
      /\ Write(slot, call).lba = slot /\ Write(slot, call).data = call
      /\ Write(0, Selector(slot, call.seq)).lba = 0
      /\ Write(0, Selector(slot, call.seq)).data = Selector(slot, call.seq)
  BY DEF Flush, Verify, Write
<1> QED
  BY <1>3, <1>5, <1>6, <1>7

(* The requests of event_log_append that write.                            *)
LEMMA LogWrites ==
    ASSUME TypeOK, call.is = "rec", NEW n, LogAt(n), plan # << >>, Head(plan).op = "write"
    PROVE  n = 0 /\ Head(plan).lba = Place(call.seq) /\ Head(plan).data = call
<1>1. call \in Records
  BY CallIs, Zenon
<1>2. PICK full : full = LogPlan(call)
  BY Zenon
<1>3. /\ full \in Seq(Requests) /\ Len(full) = 2
      /\ full[1] = Write(Place(call.seq), call) /\ full[2] = Flush
  BY <1>1, <1>2, LogPlanIs, Zenon
<1>4. Rest(plan, full, n)
  BY <1>2, Zenon DEF LogAt
<1>5. n + 1 \in 1..Len(full) /\ Head(plan) = full[n + 1]
  BY <1>3, <1>4, RestStep, Zenon
<1>6. n = 0 \/ n = 1
  BY <1>3, <1>4, <1>5 DEF Rest
<1>7. /\ Flush.op # "write" /\ Write(Place(call.seq), call).lba = Place(call.seq)
      /\ Write(Place(call.seq), call).data = call
  BY DEF Flush, Write
<1> QED
  BY <1>3, <1>5, <1>6, <1>7

(* The requests of config_store_init that write.                           *)
LEMMA FormatWrites ==
    ASSUME TypeOK, NEW n, Rest(plan, ConfigFormat, n), plan # << >>, Head(plan).op = "write"
    PROVE  /\ Head(plan).lba \in {0, 1, 2}
           /\ Head(plan).data \in {Selector(1, 1), Zero}
<1>1. n + 1 \in 1..4 /\ Head(plan) = ConfigFormat[n + 1]
  BY ConfigFormatIs, RestStep, Zenon
<1>2. n + 1 # 4
  BY <1>1, ConfigFormatIs DEF Flush
<1>3. n + 1 \in 1..3
  BY <1>1, <1>2
<1> QED
  BY <1>1, <1>3, ConfigFormatIs, Zenon

(* Every write of a plan goes to a sector of the device, and puts numbers  *)
(* there that have been given out.                                         *)
LEMMA WritesSound ==
    ASSUME IInv, plan # << >>, Head(plan).op = "write"
    PROVE  /\ Head(plan).lba \in Lbas /\ Head(plan).data \in Contents
           /\ Sound(kind, issued, Head(plan).lba, Head(plan).data)
<1>1. TypeOK /\ ConfigCall /\ LogCall /\ Dated
  BY Zenon DEF IInv
<1>2. kind \in {"config", "log"} /\ issued \in Nat
  BY <1>1, LbasAre, Zenon
<1>3. call.is \in {"rec", "format"}
  BY <1>1, CallIs, Zenon DEF TypeOK
<1>4. \A l : Sound(kind, issued, l, Zero) /\ Sound(kind, issued, l, Super)
  BY Plain, Zenon DEF Sound
<1>5. 1 \in 1..MaxIssued + 1
  BY Sizes
<1>6. CASE kind = "config" /\ call.is = "rec"
  <2>1. PICK slot \in {1, 2}, n \in 0..5 : ConfigAt(slot, n)
    BY <1>1, <1>6, Zenon DEF ConfigCall
  <2>2. \/ n = 0 /\ Head(plan).lba = slot /\ Head(plan).data = call
        \/ n = 3 /\ Head(plan).lba = 0 /\ Head(plan).data = Selector(slot, call.seq)
    BY <1>1, <1>6, <2>1, ConfigWrites, Zenon
  <2>3. /\ call \in Contents /\ call.is = "rec" /\ call.seq \in 1..MaxIssued + 1
        /\ call.seq <= issued + 1 /\ call.val = issued
    BY <1>1, <1>6, CallIs, RecordHas, Zenon DEF ConfigCall, Dated
  <2>4. /\ Selector(slot, call.seq) \in Contents /\ Selector(slot, call.seq).is = "sel"
        /\ Selector(slot, call.seq).gen = call.seq
    BY <2>3, SelectorIs, Zenon
  <2>5. Sound(kind, issued, slot, call)
    BY <1>2, <1>6, <2>3 DEF Sound
  <2>6. Sound(kind, issued, 0, Selector(slot, call.seq))
    BY <1>6, <2>3, <2>4 DEF Sound
  <2>7. 0 \in Lbas /\ slot \in Lbas
    BY <1>1, <1>6, LbasAre, Zenon
  <2> QED
    BY <2>2, <2>3, <2>4, <2>5, <2>6, <2>7, Zenon
<1>7. CASE kind = "config" /\ call.is = "format"
  <2>1. PICK n \in 0..4 : Rest(plan, ConfigFormat, n)
    BY <1>1, <1>7, Zenon DEF ConfigCall
  <2>2. Head(plan).lba \in {0, 1, 2} /\ Head(plan).data \in {Selector(1, 1), Zero}
    BY <1>1, <2>1, FormatWrites, Zenon
  <2>3. /\ Selector(1, 1) \in Contents /\ Selector(1, 1).is = "sel"
        /\ Selector(1, 1).gen = 1 /\ Zero \in Contents
    BY <1>5, SelectorIs, Plain, Zenon
  <2>4. Sound(kind, issued, Head(plan).lba, Selector(1, 1))
    BY <1>2, <1>7, <2>3 DEF Sound
  <2> QED
    BY <1>1, <1>4, <1>7, <2>2, <2>3, <2>4, LbasAre, Zenon
<1>8. CASE kind = "log" /\ call.is = "rec"
  <2>1. PICK n \in 0..2 : LogAt(n)
    BY <1>1, <1>8, Zenon DEF LogCall
  <2>2. Head(plan).lba = Place(call.seq) /\ Head(plan).data = call
    BY <1>1, <1>8, <2>1, LogWrites, Zenon
  <2>3. /\ call \in Contents /\ call.is = "rec" /\ call.seq \in 1..MaxIssued + 1
        /\ call.seq <= issued /\ call.val = issued
    BY <1>1, <1>8, CallIs, RecordHas, Zenon DEF LogCall, Dated
  <2>4. call.seq \in Int
    BY <2>3, Sizes
  <2>5. Place(call.seq) \in Lbas
    BY <1>1, <1>8, <2>4, PlaceLba, Zenon
  <2>6. Sound(kind, issued, Place(call.seq), call)
    BY <1>2, <1>8, <2>3 DEF Sound
  <2> QED
    BY <2>2, <2>3, <2>5, <2>6, Zenon
<1>9. CASE kind = "log" /\ call.is = "format"
  <2>1. 1 \in 1..Len(plan) /\ Head(plan) = plan[1]
    BY <1>1 DEF TypeOK
  <2>2. Harmless(Head(plan))
    BY <1>1, <1>9, <2>1, Zenon DEF LogCall
  <2>3. Head(plan).lba \in Lbas /\ Head(plan).data \in {Super, Zero}
    BY <1>1, <1>9, <2>2, LbasAre, Zenon DEF Harmless
  <2>4. Super \in Contents /\ Zero \in Contents
    BY Plain, Zenon
  <2> QED
    BY <1>4, <2>3, <2>4, Zenon
<1> QED
  BY <1>2, <1>3, <1>6, <1>7, <1>8, <1>9, Zenon

(* The first request of the plan reaches the cache.                        *)
Landed ==
    /\ kind' = kind /\ issued' = issued /\ acked' = acked /\ skipped' = skipped
    /\ fails' = 0 => fails = 0
    /\ call' = call \/ call'.is = "idle"
    /\ recovered' = recovered /\ next_sequence' = next_sequence
    /\ plan # << >> /\ Head(plan).op = "write"
    /\ media' = media /\ cache' = [cache EXCEPT ![Head(plan).lba] = Head(plan).data]

(* The cache after a write.                                                *)
LEMMA LandedCache ==
    ASSUME IInv, Landed
    PROVE  /\ media' = media /\ cache' \in [Lbas -> Contents]
           /\ \A l \in Lbas : cache'[l] = IF l = Head(plan).lba THEN Head(plan).data
                                                                 ELSE cache[l]
<1>1. Head(plan).lba \in Lbas /\ Head(plan).data \in Contents
  BY WritesSound, Zenon DEF Landed
<1>2. cache \in [Lbas -> Contents] /\ media' = media
  BY Zenon DEF IInv, TypeOK, Landed
<1>3. cache' = [cache EXCEPT ![Head(plan).lba] = Head(plan).data]
  BY Zenon DEF Landed
<1> QED
  BY <1>1, <1>2, <1>3, Zenon

(* A write puts down numbers that were given out.                          *)
LEMMA LandedSounds ==
    ASSUME IInv, Landed
    PROVE  Sounds'
<1>1. Lbas' = Lbas /\ kind' = kind /\ issued' = issued /\ media' = media /\ Sounds
  BY LbasAre, Zenon DEF Landed, IInv
<1>2. Sound(kind, issued, Head(plan).lba, Head(plan).data)
  BY WritesSound, Zenon DEF Landed
<1>3. ASSUME NEW l \in Lbas
      PROVE  Sound(kind', issued', l, media'[l]) /\ Sound(kind', issued', l, cache'[l])
  <2>1. Sound(kind, issued, l, media[l]) /\ Sound(kind, issued, l, cache[l])
    BY <1>1, Zenon DEF Sounds
  <2>2. cache'[l] = IF l = Head(plan).lba THEN Head(plan).data ELSE cache[l]
    BY LandedCache, Zenon
  <2>3. Sound(kind, issued, l, cache'[l])
    BY <1>2, <2>1, <2>2, Zenon
  <2> QED
    BY <1>1, <2>1, <2>3, Zenon
<1> QED
  BY <1>1, <1>3, Zenon DEF Sounds

(* The value of the call is newer than what was acknowledged.              *)
LEMMA CallNewest ==
    ASSUME TypeOK, Dated, call.is = "rec"
    PROVE  NotOlder(call, acked) /\ call.val = issued
<1>1. ASSUME NEW r \in acked PROVE call.val >= r.val
  <2>1. call.val = issued /\ r.val < issued /\ issued \in Nat
    BY LbasAre, Zenon DEF Dated
  <2>2. r.val \in 1..MaxIssued
    BY RecordHas, Zenon DEF TypeOK
  <2> QED
    BY <2>1, <2>2, Sizes
<1> QED
  BY <1>1, Zenon DEF NotOlder, Dated

(* A write of the configuration store goes to the slot that is not in use, *)
(* or it is the selector of a slot that holds the new record.              *)
LEMMA LandedCurrent ==
    ASSUME IInv, Landed
    PROVE  Current'
<1>1. /\ kind' = kind /\ acked' = acked /\ (fails' = 0 => fails = 0) /\ media' = media
      /\ plan # << >> /\ Head(plan).op = "write"
  BY Zenon DEF Landed
<1>2. TypeOK /\ ConfigCall /\ Dated /\ Current
  BY Zenon DEF IInv
<1>3. CASE kind = "log"
  BY <1>1, <1>3 DEF Current
<1>4. CASE acked = {}
  BY <1>1, <1>4, Zenon DEF Current, NotOlder
<1>5. CASE kind = "config" /\ acked # {}
  <2>1. call.is = "rec"
    BY <1>1, <1>2, <1>5, CallIs, Zenon DEF TypeOK, Dated
  <2>2. PICK at \in {1, 2}, n \in 0..5 : ConfigAt(at, n)
    BY <1>2, <1>5, <2>1, Zenon DEF ConfigCall
  <2>3. NotOlder(call, acked)
    BY <1>2, <2>1, CallNewest, Zenon
  <2>4. /\ 0 \in Lbas /\ 1 \in Lbas /\ 2 \in Lbas /\ 0 # 1 /\ 0 # 2 /\ 1 # 2
    BY <1>2, <1>5, LbasAre
  <2>5. ASSUME NEW slot \in {1, 2}, Names(media'[0], slot) \/ Names(cache'[0], slot)
        PROVE  /\ NotOlder(media'[slot], acked) /\ NotOlder(cache'[slot], acked)
               /\ fails' = 0 => media'[slot] = cache'[slot] /\ media'[slot].is = "rec"
    <3>1. slot \in Lbas /\ at \in Lbas /\ slot # 0 /\ at # 0
      BY <2>4, Zenon
    <3>2. Named(slot) => /\ NotOlder(media[slot], acked) /\ NotOlder(cache[slot], acked)
                         /\ fails = 0 => media[slot] = cache[slot] /\ media[slot].is = "rec"
      BY <1>2, <1>5, Zenon DEF Current
    <3>3. CASE n = 0 /\ Head(plan).lba = at /\ Head(plan).data = call
      <4>1. cache'[0] = cache[0]
        BY <2>4, <3>1, <3>3, LandedCache, Zenon
      <4>2. Named(slot)
        BY <1>1, <2>5, <4>1, Zenon DEF Named
      <4>3. cache'[slot] = IF slot = at THEN call ELSE cache[slot]
        BY <3>1, <3>3, LandedCache, Zenon
      <4>4. fails = 0 => ~ Named(at)
        <5>1. 0 < 4
          OBVIOUS
        <5> QED
          BY <2>2, <3>3, <5>1, Zenon DEF ConfigAt
      <4> QED
        BY <1>1, <2>3, <3>2, <4>2, <4>3, <4>4, Zenon
    <3>4. CASE n = 3 /\ Head(plan).lba = 0 /\ Head(plan).data = Selector(at, call.seq)
      <4>1. cache'[slot] = cache[slot] /\ cache'[0] = Selector(at, call.seq)
        BY <2>4, <3>1, <3>4, LandedCache, Zenon
      <4>2. Selector(at, call.seq).slot = at
        BY DEF Selector
      <4>3. media[at] = call /\ cache[at] = call
        <5>1. 3 >= 1 /\ 3 >= 2
          OBVIOUS
        <5> QED
          BY <2>2, <3>4, <5>1, Zenon DEF ConfigAt
      <4>4. Named(slot) \/ slot = at
        BY <1>1, <2>5, <4>1, <4>2, Zenon DEF Named, Names
      <4> QED
        BY <1>1, <2>1, <2>3, <3>2, <4>1, <4>3, <4>4, Zenon
    <3> QED
      BY <1>1, <1>2, <2>1, <2>2, <3>3, <3>4, ConfigWrites, Zenon
  <2> QED
    BY <1>1, <1>5, <2>5, Zenon DEF Current, Named
<1> QED
  BY <1>2, <1>3, <1>4, <1>5, LbasAre, Zenon

(* An append writes to none of the sectors of the records that are kept.   *)
LEMMA LandedKept ==
    ASSUME IInv, Landed
    PROVE  Kept'
<1>1. /\ kind' = kind /\ acked' = acked /\ skipped' = skipped /\ media' = media
      /\ call' = call \/ call'.is = "idle"
      /\ recovered' = recovered /\ next_sequence' = next_sequence
      /\ plan # << >> /\ Head(plan).op = "write"
  BY Zenon DEF Landed
<1>2. TypeOK /\ LogCall /\ Dated /\ Kept
  BY Zenon DEF IInv
<1>3. ASSUME kind = "log", ~ skipped, NEW r \in acked PROVE KeptOne(r)'
  <2>1. KeptOne(r)
    BY <1>2, <1>3, Zenon DEF Kept
  <2>2. r.seq \in Int
    BY <1>2, RecordHas, Sizes DEF TypeOK
  <2>3. Place(r.seq) \in Lbas
    BY <1>2, <1>3, <2>2, PlaceLba, Zenon
  <2>4. call.is = "rec"
    BY <1>1, <1>2, <1>3, CallIs, Zenon DEF TypeOK, Dated
  <2>5. /\ call.seq \in 1..MaxIssued + 1 /\ call.seq = next_sequence /\ recovered
    BY <1>2, <1>3, <2>4, CallIs, RecordHas, Zenon DEF LogCall
  <2>6. r.seq < call.seq /\ r.seq > call.seq - Sectors
    BY <2>1, <2>4, <2>5, Zenon DEF KeptOne
  <2>7. call.seq \in Int /\ call.seq - r.seq < Sectors
    BY <2>2, <2>5, <2>6, Sizes
  <2>8. Place(r.seq) # Place(call.seq)
    BY <2>2, <2>6, <2>7, PlacesApart, Zenon
  <2>9. PICK n \in 0..2 : LogAt(n)
    BY <1>2, <1>3, <2>4, Zenon DEF LogCall
  <2>10. Head(plan).lba = Place(call.seq)
    BY <1>1, <1>2, <2>4, <2>9, LogWrites, Zenon
  <2>11. cache'[Place(r.seq)] = cache[Place(r.seq)]
    BY <2>3, <2>8, <2>10, LandedCache, Zenon
  <2>12. media'[Place(r.seq)] = r /\ cache'[Place(r.seq)] = r
    BY <1>1, <2>1, <2>11, Zenon DEF KeptOne
  <2>13. recovered' => r.seq < next_sequence'
    BY <1>1, <2>1, Zenon DEF KeptOne
  <2>14. call'.is = "rec" => r.seq > call'.seq - Sectors
    <3>1. "rec" # "idle"
      OBVIOUS
    <3> QED
      BY <1>1, <2>1, <3>1, Zenon DEF KeptOne
  <2> QED
    BY <2>12, <2>13, <2>14 DEF KeptOne, Place
<1> QED
  BY <1>1, <1>3, Zenon DEF Kept

-----------------------------------------------------------------------------
(* The requests                                                            *)

(* A flush, a read back and a failing request that wrote nothing.          *)
LEMMA SettledIs ==
    ASSUME TypeOK, cache' = cache, media' = media \/ media' = cache,
           UNCHANGED <<kind, issued, acked, skipped, log>>,
           fails' = 0 => fails = 0, call' = call \/ call' = Idle
    PROVE  Settled
<1>1. media \in [Lbas -> Contents] /\ cache \in [Lbas -> Contents]
  BY Zenon DEF TypeOK
<1>2. call' = call \/ call'.is = "idle"
  BY Plain, Zenon
<1> QED
  BY <1>1, <1>2, Zenon DEF Settled, log

(* Calls end, and the counters stay.                                       *)
LEMMA TypeStays ==
    ASSUME TypeOK, media' \in [Lbas -> Contents], cache' \in [Lbas -> Contents],
           plan' \in Seq(Requests), call' = call \/ (plan' = << >> /\ call' = Idle),
           plan' # << >> => plan # << >>, fails' \in 0..MaxFails,
           kind' = kind, issued' = issued, acked' = acked, skipped' = skipped,
           UNCHANGED log, formats' = formats
    PROVE  TypeOK'
<1>1. Lbas' = Lbas
  BY LbasAre, Zenon
<1> QED
  BY <1>1, Zenon DEF TypeOK, log

(* What becomes of the device when a request succeeds.                     *)
LEMMA RequestDevice ==
    ASSUME IInv, Request
    PROVE  TypeOK' /\ Sounds' /\ Current' /\ Kept' /\ Dated'
<1>1. TypeOK /\ Sounds /\ Current /\ Kept /\ Dated
  BY Zenon DEF IInv
<1>2. /\ plan # << >> /\ plan' = Tail(plan)
      /\ kind' = kind /\ call' = call /\ UNCHANGED log /\ issued' = issued
      /\ formats' = formats /\ fails' = fails /\ acked' = acked /\ skipped' = skipped
      /\ cache' = IF Head(plan).op = "write"
                    THEN [cache EXCEPT ![Head(plan).lba] = Head(plan).data] ELSE cache
      /\ media' = IF Head(plan).op = "flush" THEN cache ELSE media
  BY Zenon DEF Request
<1>3. "write" # "flush"
  OBVIOUS
<1>4. Dated'
  BY <1>1, <1>2, Zenon DEF Dated
<1>5. plan' \in Seq(Requests)
  BY <1>1, <1>2 DEF TypeOK
<1>6. /\ fails' \in 0..MaxFails /\ media \in [Lbas -> Contents]
      /\ cache \in [Lbas -> Contents]
  BY <1>1, <1>2, Zenon DEF TypeOK
<1>7. ASSUME media' \in [Lbas -> Contents], cache' \in [Lbas -> Contents] PROVE TypeOK'
  <2>1. /\ kind' = kind /\ call' = call /\ UNCHANGED log /\ issued' = issued
        /\ formats' = formats /\ acked' = acked /\ skipped' = skipped /\ plan # << >>
    BY <1>2, Zenon
  <2> QED
    BY <1>1, <1>5, <1>6, <1>7, <2>1, TypeStays, Zenon
<1>8. CASE Head(plan).op = "write"
  <2>1. Landed
    BY <1>2, <1>3, <1>8, Zenon DEF Landed, log
  <2>2. TypeOK'
    <3>1. media' \in [Lbas -> Contents] /\ cache' \in [Lbas -> Contents]
      BY <1>6, <2>1, LandedCache, Zenon
    <3> QED
      BY <1>7, <3>1, Zenon
  <2> QED
    BY <1>4, <2>1, <2>2, LandedSounds, LandedCurrent, LandedKept, Zenon
<1>9. CASE Head(plan).op # "write"
  <2>1. cache' = cache /\ (media' = media \/ media' = cache)
    BY <1>2, <1>9, Zenon
  <2>2. Settled
    BY <1>1, <1>2, <2>1, SettledIs, Zenon
  <2>3. TypeOK'
    <3>1. media' \in [Lbas -> Contents] /\ cache' \in [Lbas -> Contents]
      BY <2>2, Zenon DEF Settled
    <3> QED
      BY <1>7, <3>1, Zenon
  <2> QED
    BY <1>1, <1>4, <2>2, <2>3, SettledSounds, SettledCurrent, SettledKept, Zenon
<1> QED
  BY <1>8, <1>9, Zenon

(* The steps of config_store_write.                                        *)
LEMMA ConfigGoesOn ==
    ASSUME IInv, Request, kind = "config", call.is = "rec",
           NEW slot \in {1, 2}, NEW n \in 0..5, ConfigAt(slot, n)
    PROVE  ConfigAt(slot, n + 1)' /\ n + 1 \in 0..5
<1>1. TypeOK
  BY Zenon DEF IInv
<1>2. /\ plan # << >> /\ plan' = Tail(plan) /\ call' = call /\ fails' = fails
      /\ cache' = IF Head(plan).op = "write"
                    THEN [cache EXCEPT ![Head(plan).lba] = Head(plan).data] ELSE cache
      /\ media' = IF Head(plan).op = "flush" THEN cache ELSE media
  BY Zenon DEF Request
<1>3. call \in Contents /\ call.seq \in 1..MaxIssued + 1
  BY <1>1, CallIs, RecordHas, Zenon
<1>4. PICK full : full = ConfigPlan(slot, call.seq, call)
  BY Zenon
<1>5. /\ full \in Seq(Requests) /\ Len(full) = 5
      /\ full[1] = Write(slot, call) /\ full[2] = Flush /\ full[3] = Verify(slot, call)
      /\ full[4] = Write(0, Selector(slot, call.seq)) /\ full[5] = Flush
  BY <1>3, <1>4, ConfigPlanIs, Zenon
<1>6. Rest(plan, full, n)
  BY <1>4, Zenon DEF ConfigAt
<1>7. n + 1 \in 1..Len(full) /\ Head(plan) = full[n + 1] /\ Rest(plan', full, n + 1)
  BY <1>1, <1>2, <1>5, <1>6, RestStep, Zenon
<1>8. full = ConfigPlan(slot, call'.seq, call')
  BY <1>2, <1>4, Zenon
<1>9. n = 0 \/ n = 1 \/ n = 2 \/ n = 3 \/ n = 4
  BY <1>5, <1>7
<1>10. /\ n >= 1 => cache[slot] = call
       /\ n >= 2 => media[slot] = call
       /\ n >= 4 => cache[0] = Selector(slot, call.seq)
       /\ fails = 0 /\ n < 4 => media[0] = cache[0] /\ ~ Named(slot)
  BY Zenon DEF ConfigAt
<1>11. /\ Flush.op = "flush" /\ Verify(slot, call).op = "verify"
       /\ Write(slot, call).op = "write" /\ Write(slot, call).lba = slot
       /\ Write(slot, call).data = call
       /\ Write(0, Selector(slot, call.seq)).op = "write"
       /\ Write(0, Selector(slot, call.seq)).lba = 0
       /\ Write(0, Selector(slot, call.seq)).data = Selector(slot, call.seq)
  BY DEF Flush, Verify, Write
<1>12. /\ slot \in Lbas /\ 0 \in Lbas /\ slot # 0 /\ cache \in [Lbas -> Contents]
  BY <1>1, LbasAre DEF TypeOK
<1>13. CASE n = 0
  <2>1. Head(plan) = Write(slot, call)
    BY <1>5, <1>7, <1>13
  <2>2. cache' = [cache EXCEPT ![slot] = call] /\ media' = media
    BY <1>2, <1>11, <2>1, Zenon
  <2>3. cache'[slot] = call' /\ cache'[0] = cache[0]
    BY <1>2, <1>12, <2>2, Zenon
  <2>4. fails' = 0 => media'[0] = cache'[0] /\ ~ Names(media'[0], slot) /\ ~ Names(cache'[0], slot)
    BY <1>2, <1>10, <1>13, <2>2, <2>3 DEF Named
  <2> QED
    BY <1>7, <1>8, <1>13, <2>3, <2>4 DEF ConfigAt, Named
<1>14. CASE n = 1
  <2>1. Head(plan) = Flush
    BY <1>5, <1>7, <1>14
  <2>2. cache' = cache /\ media' = cache
    BY <1>2, <1>11, <2>1, Zenon
  <2>3. cache'[slot] = call' /\ media'[slot] = call'
    BY <1>2, <1>10, <1>14, <2>2
  <2>4. fails' = 0 => media'[0] = cache'[0] /\ ~ Names(media'[0], slot) /\ ~ Names(cache'[0], slot)
    BY <1>2, <1>10, <1>14, <2>2 DEF Named
  <2> QED
    BY <1>7, <1>8, <1>14, <2>3, <2>4 DEF ConfigAt, Named
<1>15. CASE n = 2
  <2>1. Head(plan) = Verify(slot, call)
    BY <1>5, <1>7, <1>15
  <2>2. cache' = cache /\ media' = media
    BY <1>2, <1>11, <2>1, Zenon
  <2>3. cache'[slot] = call' /\ media'[slot] = call'
    BY <1>2, <1>10, <1>15, <2>2
  <2>4. fails' = 0 => media'[0] = cache'[0] /\ ~ Names(media'[0], slot) /\ ~ Names(cache'[0], slot)
    BY <1>2, <1>10, <1>15, <2>2 DEF Named
  <2> QED
    BY <1>7, <1>8, <1>15, <2>3, <2>4 DEF ConfigAt, Named
<1>16. CASE n = 3
  <2>1. Head(plan) = Write(0, Selector(slot, call.seq))
    BY <1>5, <1>7, <1>16
  <2>2. cache' = [cache EXCEPT ![0] = Selector(slot, call.seq)] /\ media' = media
    BY <1>2, <1>11, <2>1, Zenon
  <2>3. cache'[0] = Selector(slot, call'.seq) /\ cache'[slot] = cache[slot]
    BY <1>2, <1>12, <2>2, Zenon
  <2>4. cache'[slot] = call' /\ media'[slot] = call'
    BY <1>2, <1>10, <1>16, <2>2, <2>3
  <2> QED
    BY <1>7, <1>8, <1>16, <2>3, <2>4 DEF ConfigAt
<1>17. CASE n = 4
  <2>1. Head(plan) = Flush
    BY <1>5, <1>7, <1>17
  <2>2. cache' = cache /\ media' = cache
    BY <1>2, <1>11, <2>1, Zenon
  <2>3. cache'[slot] = call' /\ media'[slot] = call' /\ cache'[0] = Selector(slot, call'.seq)
    BY <1>2, <1>10, <1>17, <2>2
  <2> QED
    BY <1>7, <1>8, <1>17, <2>2, <2>3 DEF ConfigAt
<1> QED
  BY <1>9, <1>13, <1>14, <1>15, <1>16, <1>17

(* The steps of event_log_append.                                          *)
LEMMA LogGoesOn ==
    ASSUME IInv, Request, kind = "log", call.is = "rec", NEW n \in 0..2, LogAt(n)
    PROVE  LogAt(n + 1)' /\ n + 1 \in 0..2
<1>1. TypeOK
  BY Zenon DEF IInv
<1>2. /\ plan # << >> /\ plan' = Tail(plan) /\ call' = call
      /\ cache' = IF Head(plan).op = "write"
                    THEN [cache EXCEPT ![Head(plan).lba] = Head(plan).data] ELSE cache
      /\ media' = IF Head(plan).op = "flush" THEN cache ELSE media
  BY Zenon DEF Request
<1>3. call \in Records /\ call.seq \in Int
  BY <1>1, CallIs, RecordHas, Sizes
<1>4. PICK full : full = LogPlan(call)
  BY Zenon
<1>5. PICK at : at = Place(call.seq)
  BY Zenon
<1>6. /\ full \in Seq(Requests) /\ Len(full) = 2 /\ full[1] = Write(at, call)
      /\ full[2] = Flush
  BY <1>3, <1>4, <1>5, LogPlanIs, Zenon
<1>7. Rest(plan, full, n)
  BY <1>4, Zenon DEF LogAt
<1>8. n + 1 \in 1..Len(full) /\ Head(plan) = full[n + 1] /\ Rest(plan', full, n + 1)
  BY <1>1, <1>2, <1>6, <1>7, RestStep, Zenon
<1>9. full = LogPlan(call') /\ at = Place(call'.seq)
  BY <1>2, <1>4, <1>5, Zenon
<1>10. n = 0 \/ n = 1
  BY <1>6, <1>8
<1>11. n >= 1 => cache[at] = call
  BY <1>5, Zenon DEF LogAt
<1>12. /\ Flush.op = "flush" /\ "flush" # "write" /\ Write(at, call).op = "write"
       /\ Write(at, call).lba = at /\ Write(at, call).data = call
  BY DEF Flush, Write
<1>13. at \in Lbas /\ cache \in [Lbas -> Contents]
  BY <1>1, <1>3, <1>5, PlaceLba, Zenon DEF TypeOK
<1>14. CASE n = 0
  <2>1. Head(plan) = Write(at, call)
    BY <1>6, <1>8, <1>14
  <2>2. cache' = [cache EXCEPT ![at] = call]
    BY <1>2, <1>12, <2>1, Zenon
  <2>3. cache'[at] = call'
    BY <1>2, <1>13, <2>2, Zenon
  <2> QED
    BY <1>8, <1>9, <1>14, <2>3 DEF LogAt
<1>15. CASE n = 1
  <2>1. Head(plan) = Flush
    BY <1>6, <1>8, <1>15
  <2>2. cache' = cache /\ media' = cache
    BY <1>2, <1>12, <2>1, Zenon
  <2>3. cache'[at] = call' /\ media'[at] = call'
    BY <1>2, <1>11, <1>15, <2>2
  <2> QED
    BY <1>8, <1>9, <1>15, <2>3 DEF LogAt
<1> QED
  BY <1>10, <1>14, <1>15

(* The steps of config_store_init: a flush at the end.                     *)
LEMMA FormatGoesOn ==
    ASSUME IInv, Request, NEW n \in 0..4, Rest(plan, ConfigFormat, n)
    PROVE  /\ Rest(plan', ConfigFormat, n + 1) /\ n + 1 \in 0..4
           /\ n + 1 = 4 => media' = cache'
<1>1. TypeOK
  BY Zenon DEF IInv
<1>2. /\ plan # << >> /\ plan' = Tail(plan)
      /\ cache' = IF Head(plan).op = "write"
                    THEN [cache EXCEPT ![Head(plan).lba] = Head(plan).data] ELSE cache
      /\ media' = IF Head(plan).op = "flush" THEN cache ELSE media
  BY Zenon DEF Request
<1>3. /\ n + 1 \in 1..Len(ConfigFormat) /\ Head(plan) = ConfigFormat[n + 1]
      /\ Rest(plan', ConfigFormat, n + 1)
  BY <1>1, <1>2, ConfigFormatIs, RestStep, Zenon
<1>4. n + 1 \in 0..4
  BY <1>3, ConfigFormatIs
<1>5. ASSUME n + 1 = 4 PROVE media' = cache'
  <2>1. Head(plan) = Flush
    BY <1>3, <1>5, ConfigFormatIs, Zenon
  <2>2. Flush.op = "flush" /\ "flush" # "write"
    BY DEF Flush
  <2> QED
    BY <1>2, <2>1, <2>2, Zenon
<1> QED
  BY <1>3, <1>4, <1>5, Zenon

(* A request that succeeds.                                                *)
LEMMA RequestStep ==
    ASSUME IInv, Request
    PROVE  IInv'
<1>1. TypeOK' /\ Sounds' /\ Current' /\ Kept' /\ Dated'
  BY RequestDevice, Zenon
<1>2. TypeOK /\ ConfigCall /\ LogCall
  BY Zenon DEF IInv
<1>3. /\ kind' = kind /\ call' = call /\ issued' = issued /\ plan # << >>
      /\ recovered' = recovered /\ next_sequence' = next_sequence
      /\ next_sector' = next_sector /\ plan' = Tail(plan)
  BY Zenon DEF Request, log
<1>4. call.is \in {"rec", "format"} /\ "idle" \notin {"rec", "format"}
  BY <1>2, <1>3, CallIs DEF TypeOK
<1>5. ConfigCall'
  <2> SUFFICES ASSUME kind = "config" PROVE ConfigCall'
    BY <1>3, Zenon DEF ConfigCall
  <2>1. ASSUME call.is = "rec"
        PROVE  call.seq <= issued + 1 /\ \E slot \in {1, 2}, n \in 0..5 : ConfigAt(slot, n)'
    <3>1. PICK slot \in {1, 2}, n \in 0..5 : ConfigAt(slot, n)
      BY <1>2, <2>1, Zenon DEF ConfigCall
    <3>2. ConfigAt(slot, n + 1)' /\ n + 1 \in 0..5
      BY <2>1, <3>1, ConfigGoesOn, Zenon
    <3>3. PICK m \in 0..5 : m = n + 1
      BY <3>2, Zenon
    <3>4. ConfigAt(slot, m)'
      BY <3>2, <3>3 DEF ConfigAt, Rest, Named
    <3> QED
      BY <1>2, <2>1, <3>4, Zenon DEF ConfigCall
  <2>2. ASSUME call.is = "format"
        PROVE  \E n \in 0..4 : Rest(plan', ConfigFormat, n) /\ (n = 4 => media' = cache')
    <3>1. PICK n \in 0..4 : Rest(plan, ConfigFormat, n)
      BY <1>2, <2>2, Zenon DEF ConfigCall
    <3> QED
      BY <3>1, FormatGoesOn, Zenon
  <2> QED
    BY <1>3, <1>4, <2>1, <2>2, Zenon DEF ConfigCall
<1>6. LogCall'
  <2> SUFFICES ASSUME kind = "log" PROVE LogCall'
    BY <1>3, Zenon DEF LogCall
  <2>1. ASSUME call.is = "rec" PROVE \E n \in 0..2 : LogAt(n)'
    <3>1. PICK n \in 0..2 : LogAt(n)
      BY <1>2, <2>1, Zenon DEF LogCall
    <3>2. LogAt(n + 1)' /\ n + 1 \in 0..2
      BY <2>1, <3>1, LogGoesOn, Zenon
    <3>3. PICK m \in 0..2 : m = n + 1
      BY <3>2, Zenon
    <3>4. LogAt(m)'
      BY <3>2, <3>3 DEF LogAt, Rest
    <3> QED
      BY <3>4, Zenon
  <2>2. ASSUME call.is = "format" PROVE \A i \in 1..Len(plan') : Harmless(plan'[i])
    <3>1. ASSUME NEW i \in 1..Len(plan') PROVE Harmless(plan'[i])
      <4>1. i + 1 \in 1..Len(plan) /\ plan'[i] = plan[i + 1]
        BY <1>2, <1>3 DEF TypeOK
      <4> QED
        BY <1>2, <2>2, <4>1, Zenon DEF LogCall
    <3> QED
      BY <3>1, Zenon
  <2>3. next_sector' = Place(next_sequence)' /\ next_sequence' <= issued' + 1
    BY <1>2, <1>3 DEF LogCall, Place
  <2> QED
    BY <1>2, <1>3, <2>1, <2>2, <2>3, Zenon DEF LogCall
<1> QED
  BY <1>1, <1>5, <1>6, Zenon DEF IInv

(* A request that fails: the call is over, with its write done or not.     *)
LEMMA FailStep ==
    ASSUME IInv, Fail
    PROVE  IInv'
<1>1. TypeOK /\ Sounds /\ Current /\ Kept /\ Dated /\ LogCall
  BY Zenon DEF IInv
<1>2. /\ plan # << >> /\ fails < MaxFails /\ plan' = << >> /\ call' = Idle
      /\ fails' = fails + 1 /\ media' = media
      /\ \/ cache' = cache
         \/ /\ Head(plan).op = "write"
            /\ cache' = [cache EXCEPT ![Head(plan).lba] = Head(plan).data]
      /\ kind' = kind /\ UNCHANGED log /\ issued' = issued /\ formats' = formats
      /\ acked' = acked /\ skipped' = skipped
  BY Zenon DEF Fail
<1>3. fails' \in 0..MaxFails /\ fails' # 0
  BY <1>1, <1>2, Sizes DEF TypeOK
<1>4. call'.is = "idle" /\ "idle" # "rec" /\ "idle" # "format"
  BY <1>2, Plain
<1>5. plan' \in Seq(Requests)
  BY <1>2
<1>6. ASSUME media' \in [Lbas -> Contents], cache' \in [Lbas -> Contents] PROVE TypeOK'
  <2>1. /\ kind' = kind /\ call' = Idle /\ plan' = << >> /\ UNCHANGED log
        /\ issued' = issued /\ formats' = formats /\ acked' = acked /\ skipped' = skipped
    BY <1>2, Zenon
  <2> QED
    BY <1>1, <1>3, <1>5, <1>6, <2>1, TypeStays, Zenon
<1>7. TypeOK' /\ Sounds' /\ Current' /\ Kept'
  <2>1. CASE cache' = cache
    <3>1. Settled
      BY <1>1, <1>2, <1>3, <2>1, SettledIs, Zenon
    <3>2. media' \in [Lbas -> Contents] /\ cache' \in [Lbas -> Contents]
      BY <3>1, Zenon DEF Settled
    <3> QED
      BY <1>1, <1>6, <3>1, <3>2, SettledSounds, SettledCurrent, SettledKept, Zenon
  <2>2. CASE /\ Head(plan).op = "write"
             /\ cache' = [cache EXCEPT ![Head(plan).lba] = Head(plan).data]
    <3>1. Landed
      BY <1>2, <1>3, <1>4, <2>2, Zenon DEF Landed, log
    <3>2. media' \in [Lbas -> Contents] /\ cache' \in [Lbas -> Contents]
      BY <1>1, <3>1, LandedCache, Zenon DEF TypeOK
    <3> QED
      BY <1>6, <3>1, <3>2, LandedSounds, LandedCurrent, LandedKept, Zenon
  <2> QED
    BY <1>2, <2>1, <2>2, Zenon
<1>8. ConfigCall'
  BY <1>3, <1>4, Zenon DEF ConfigCall
<1>9. LogCall'
  <2>1. next_sector' = next_sector /\ next_sequence' = next_sequence
    BY <1>2, Zenon DEF log
  <2> QED
    BY <1>1, <1>2, <1>4, <2>1 DEF LogCall, Place
<1>10. Dated'
  BY <1>1, <1>2, <1>4, Zenon DEF Dated
<1> QED
  BY <1>7, <1>8, <1>9, <1>10, Zenon DEF IInv

-----------------------------------------------------------------------------
(* The device                                                              *)

(* A cached sector reaches the medium.                                     *)
LEMMA WriteBackStep ==
    ASSUME IInv, NEW l \in Lbas, WriteBack(l)
    PROVE  IInv'
<1>1. TypeOK /\ Sounds /\ Current /\ Kept /\ Dated /\ ConfigCall /\ LogCall
  BY Zenon DEF IInv
<1>2. /\ media[l] # cache[l] /\ media' = [media EXCEPT ![l] = cache[l]]
      /\ cache' = cache /\ plan' = plan /\ call' = call /\ fails' = fails
      /\ kind' = kind /\ UNCHANGED log /\ issued' = issued /\ formats' = formats
      /\ acked' = acked /\ skipped' = skipped
  BY Zenon DEF WriteBack
<1>3. media \in [Lbas -> Contents] /\ cache \in [Lbas -> Contents] /\ fails \in 0..MaxFails
  BY <1>1, Zenon DEF TypeOK
<1>4. media' \in [Lbas -> Contents] /\ cache' \in [Lbas -> Contents]
  BY <1>2, <1>3
<1>5. \A i \in Lbas : media'[i] = IF i = l THEN cache[i] ELSE media[i]
  BY <1>2, <1>3
<1>6. Settled
  BY <1>2, <1>4, <1>5, Zenon DEF Settled, log
<1>7. TypeOK'
  <2>1. plan \in Seq(Requests)
    BY <1>1, Zenon DEF TypeOK
  <2> QED
    BY <1>1, <1>2, <1>3, <1>4, <2>1, TypeStays, Zenon
<1>8. ConfigCall'
  <2> SUFFICES ASSUME kind = "config" PROVE ConfigCall'
    BY <1>2, Zenon DEF ConfigCall
  <2>1. media # cache
    BY <1>2, Zenon
  <2>2. ASSUME call.is = "rec"
        PROVE  /\ call.seq <= issued + 1
               /\ \E slot \in {1, 2}, n \in 0..5 : ConfigAt(slot, n)'
    <3>1. PICK slot \in {1, 2}, n \in 0..5 : ConfigAt(slot, n)
      BY <1>1, <2>2, Zenon DEF ConfigCall
    <3>2. slot \in Lbas /\ 0 \in Lbas
      BY <1>1, LbasAre, Zenon
    <3>3. media'[slot] \in {media[slot], cache[slot]} /\ media'[0] \in {media[0], cache[0]}
      BY <1>5, <3>2, Zenon
    <3>4. n # 5
      BY <2>1, <3>1, Zenon DEF ConfigAt
    <3>5. n >= 1 => cache'[slot] = call'
      BY <1>2, <3>1, Zenon DEF ConfigAt
    <3>6. n >= 2 => media'[slot] = call'
      <4>1. n >= 2 => n >= 1
        OBVIOUS
      <4> QED
        BY <1>2, <3>1, <3>3, <4>1, Zenon DEF ConfigAt
    <3>7. n >= 4 => cache'[0] = Selector(slot, call'.seq)
      BY <1>2, <3>1, Zenon DEF ConfigAt
    <3>8. fails' = 0 /\ n < 4 =>
            media'[0] = cache'[0] /\ ~ Names(media'[0], slot) /\ ~ Names(cache'[0], slot)
      BY <1>2, <3>1, <3>3, Zenon DEF ConfigAt, Named
    <3>9. Rest(plan', ConfigPlan(slot, call'.seq, call'), n)
      BY <1>2, <3>1, Zenon DEF ConfigAt
    <3>10. ConfigAt(slot, n)'
      BY <3>4, <3>5, <3>6, <3>7, <3>8, <3>9 DEF ConfigAt, Named
    <3> QED
      BY <1>1, <2>2, <3>10, Zenon DEF ConfigCall
  <2>3. ASSUME call.is = "format"
        PROVE  \E n \in 0..4 : Rest(plan', ConfigFormat, n) /\ (n = 4 => media' = cache')
    BY <1>1, <1>2, <2>1, <2>3, Zenon DEF ConfigCall
  <2>4. ~ (call.is = "idle" /\ fails = 0)
    BY <1>1, <2>1, Zenon DEF ConfigCall
  <2> QED
    BY <1>2, <2>2, <2>3, <2>4, Zenon DEF ConfigCall
<1>9. LogCall'
  <2> SUFFICES ASSUME kind = "log" PROVE LogCall'
    BY <1>2, Zenon DEF LogCall
  <2>1. /\ recovered' = recovered /\ next_sequence' = next_sequence
        /\ next_sector' = next_sector
    BY <1>2, Zenon DEF log
  <2>2. ASSUME call.is = "rec" PROVE \E n \in 0..2 : LogAt(n)'
    <3>1. PICK n \in 0..2 : LogAt(n)
      BY <1>1, <2>2, Zenon DEF LogCall
    <3>2. call.seq \in Int
      BY <1>1, <2>2, CallIs, RecordHas, Sizes
    <3>3. PICK at : at = Place(call.seq)
      BY Zenon
    <3>4. at \in Lbas
      BY <1>1, <3>2, <3>3, PlaceLba, Zenon
    <3>5. /\ n >= 1 => cache'[at] = call'
          /\ n = 2 => media'[at] = call'
      <4>1. n = 2 => n >= 1
        OBVIOUS
      <4>2. (n >= 1 => cache[at] = call) /\ (n = 2 => media[at] = call)
        BY <3>1, <3>3, Zenon DEF LogAt
      <4> QED
        BY <1>2, <1>5, <3>4, <4>1, <4>2, Zenon
    <3>6. at = Place(call'.seq) /\ Rest(plan', LogPlan(call'), n)
      BY <1>2, <3>1, <3>3, Zenon DEF LogAt
    <3> QED
      BY <3>5, <3>6, Zenon DEF LogAt
  <2> QED
    BY <1>1, <1>2, <2>1, <2>2, Zenon DEF LogCall
<1>10. Dated'
  BY <1>1, <1>2, Zenon DEF Dated
<1> QED
  BY <1>1, <1>6, <1>7, <1>8, <1>9, <1>10, SettledSounds, SettledCurrent,
     SettledKept, Zenon DEF IInv

(* The power fails.                                                        *)
LEMMA PowerLossStep ==
    ASSUME IInv, NEW torn \in SUBSET Lbas, PowerLoss(torn)
    PROVE  IInv'
<1>1. TypeOK /\ Sounds /\ Current /\ Kept /\ Dated
  BY Zenon DEF IInv
<1>2. /\ \A l \in torn : media[l] # cache[l]
      /\ media' = [l \in Lbas |-> IF l \in torn THEN Torn ELSE media[l]]
      /\ cache' = media' /\ plan' = << >> /\ call' = Idle
      /\ next_sequence' = 1 /\ next_sector' = 1 /\ recovered' = FALSE
      /\ kind' = kind /\ issued' = issued /\ formats' = formats /\ fails' = fails
      /\ acked' = acked /\ skipped' = skipped
  BY Zenon DEF PowerLoss
<1>3. media \in [Lbas -> Contents] /\ Torn \in Contents /\ Lbas' = Lbas
  BY <1>1, <1>2, Plain, LbasAre, Zenon DEF TypeOK
<1>4. media' \in [Lbas -> Contents] /\ cache' \in [Lbas -> Contents]
  BY <1>2, <1>3
<1>5. \A l \in Lbas : media'[l] = IF l \in torn THEN Torn ELSE media[l]
  BY <1>2, Zenon
<1>6. call'.is = "idle" /\ "idle" # "rec" /\ "idle" # "format"
  BY <1>2, Plain
<1>7. Settled
  <2>1. ASSUME NEW l \in Lbas
        PROVE  /\ media'[l] \in {media[l], cache[l], Torn}
               /\ cache'[l] \in {media[l], cache[l], Torn}
               /\ media[l] = cache[l] => media'[l] = media[l] /\ cache'[l] = media[l]
    BY <1>2, <1>5, Zenon
  <2> QED
    BY <1>2, <1>4, <1>6, <2>1, Zenon DEF Settled
<1>8. TypeOK'
  <2>1. 1 \in 1..MaxIssued + 1 /\ 1 \in 1..Sectors /\ plan' \in Seq(Requests)
    BY <1>2, Sizes
  <2> QED
    BY <1>1, <1>2, <1>3, <1>4, <2>1, Zenon DEF TypeOK
<1>9. ConfigCall'
  BY <1>2, <1>6, Zenon DEF ConfigCall
<1>10. LogCall'
  <2>1. next_sequence' <= issued' + 1 /\ next_sector' = 1
    BY <1>1, <1>2, LbasAre
  <2>2. Place(1) = 1
    BY PlaceTyped
  <2> QED
    BY <1>2, <1>6, <2>1, <2>2, Zenon DEF LogCall
<1>11. Dated'
  BY <1>1, <1>2, <1>6, Zenon DEF Dated
<1> QED
  BY <1>1, <1>7, <1>8, <1>9, <1>10, <1>11, SettledSounds, SettledCurrent,
     SettledKept, Zenon DEF IInv

-----------------------------------------------------------------------------
(* The calls                                                               *)

(* A call whose plan is done: the store is as the call wants it.           *)
LEMMA Done ==
    ASSUME IInv, plan = << >>, call # Idle
    PROVE  /\ call.is \in {"rec", "format"}
           /\ kind = "config" => media = cache
           /\ kind = "config" /\ call.is = "rec" =>
                \E slot \in {1, 2} : cache[0] = Selector(slot, call.seq) /\ cache[slot] = call
           /\ kind = "log" /\ call.is = "rec" =>
                cache[Place(call.seq)] = call /\ media[Place(call.seq)] = call
<1>1. TypeOK /\ ConfigCall /\ LogCall
  BY Zenon DEF IInv
<1>2. call.is \in {"rec", "format"}
  BY <1>1, CallIs, Zenon
<1>3. ASSUME kind = "config", call.is = "rec"
      PROVE  /\ media = cache
             /\ \E slot \in {1, 2} : cache[0] = Selector(slot, call.seq) /\ cache[slot] = call
  <2>1. PICK slot \in {1, 2}, n \in 0..5 : ConfigAt(slot, n)
    BY <1>1, <1>3, Zenon DEF ConfigCall
  <2>2. call \in Contents /\ call.seq \in 1..MaxIssued + 1
    BY <1>1, <1>3, CallIs, RecordHas, Zenon
  <2>3. PICK full : full = ConfigPlan(slot, call.seq, call)
    BY Zenon
  <2>4. full \in Seq(Requests) /\ Len(full) = 5
    BY <2>2, <2>3, ConfigPlanIs, Zenon
  <2>5. Rest(plan, full, n)
    BY <2>1, <2>3, Zenon DEF ConfigAt
  <2>6. n = 5
    BY <1>1, <2>4, <2>5, RestStep, Zenon
  <2>7. 5 >= 4 /\ 5 >= 1
    OBVIOUS
  <2> QED
    BY <2>1, <2>6, <2>7, Zenon DEF ConfigAt
<1>4. ASSUME kind = "config", call.is = "format" PROVE media = cache
  <2>1. PICK n \in 0..4 : Rest(plan, ConfigFormat, n) /\ (n = 4 => media = cache)
    BY <1>1, <1>4, Zenon DEF ConfigCall
  <2> QED
    BY <1>1, <2>1, ConfigFormatIs, RestStep, Zenon
<1>5. ASSUME kind = "log", call.is = "rec"
      PROVE  cache[Place(call.seq)] = call /\ media[Place(call.seq)] = call
  <2>1. PICK n \in 0..2 : LogAt(n)
    BY <1>1, <1>5, Zenon DEF LogCall
  <2>2. call \in Records
    BY <1>1, <1>5, CallIs, Zenon
  <2>3. PICK full : full = LogPlan(call)
    BY Zenon
  <2>4. full \in Seq(Requests) /\ Len(full) = 2
    BY <2>2, <2>3, LogPlanIs, Zenon
  <2>5. Rest(plan, full, n)
    BY <2>1, <2>3, Zenon DEF LogAt
  <2>6. n = 2
    BY <1>1, <2>4, <2>5, RestStep, Zenon
  <2>7. 2 >= 1
    OBVIOUS
  <2> QED
    BY <2>1, <2>6, <2>7, Zenon DEF LogAt
<1> QED
  BY <1>2, <1>3, <1>4, <1>5, Zenon

(* A call returns success.                                                 *)
LEMMA ReturnStep ==
    ASSUME IInv, Return
    PROVE  IInv'
<1>1. TypeOK /\ Sounds /\ Current /\ Kept /\ Dated /\ ConfigCall /\ LogCall
  BY Zenon DEF IInv
<1>2. /\ call # Idle /\ plan = << >> /\ call' = Idle
      /\ acked' = IF call.is = "rec" THEN acked \cup {call} ELSE acked
      /\ IF kind = "log" /\ call.is = "rec"
           THEN /\ next_sequence' = next_sequence + 1
                /\ next_sector' = After(next_sector) /\ recovered' = recovered
           ELSE /\ next_sequence' = next_sequence
                /\ next_sector' = next_sector /\ recovered' = recovered
      /\ kind' = kind /\ media' = media /\ cache' = cache /\ plan' = plan
      /\ issued' = issued /\ formats' = formats /\ fails' = fails /\ skipped' = skipped
  BY Zenon DEF Return, device, log
<1>3. call'.is = "idle" /\ "idle" # "rec" /\ "idle" # "format" /\ "config" # "log"
  BY <1>2, Plain
<1>4. Lbas' = Lbas /\ issued \in Nat /\ issued <= issued
  BY <1>1, <1>2, LbasAre
<1>5. call.is = "rec" => call \in Records
  BY <1>1, CallIs, Zenon
<1>6. kind = "log" /\ call.is = "rec" =>
        /\ next_sector = Place(next_sequence) /\ recovered
        /\ call.seq = next_sequence /\ next_sequence <= issued
  BY <1>1, Zenon DEF LogCall
<1>7. next_sequence \in 1..MaxIssued + 1 /\ issued \in 0..MaxIssued /\ next_sector \in 1..Sectors
  BY <1>1, Zenon DEF TypeOK
<1>8. kind = "log" /\ call.is = "rec" =>
        /\ next_sequence' \in 1..MaxIssued + 1 /\ next_sequence' <= issued + 1
        /\ next_sector' = Place(next_sequence + 1) /\ next_sector' \in 1..Sectors
        /\ next_sequence < next_sequence'
  <2>1. next_sequence \in Int
    BY <1>7, Sizes
  <2>2. After(Place(next_sequence)) = Place(next_sequence + 1)
    BY <2>1, PlaceNext, Zenon
  <2>3. next_sequence + 1 \in Int
    BY <2>1
  <2>4. Place(next_sequence + 1) \in 1..Sectors
    BY <2>3, PlaceTyped, Zenon
  <2>5. next_sequence <= issued => /\ next_sequence + 1 \in 1..MaxIssued + 1
                                   /\ next_sequence + 1 <= issued + 1
                                   /\ next_sequence < next_sequence + 1
    BY <1>7, Sizes
  <2> QED
    BY <1>2, <1>6, <2>2, <2>4, <2>5, Zenon
<1>9. TypeOK'
  <2>1. acked' \subseteq Records
    BY <1>1, <1>2, <1>5, Zenon DEF TypeOK
  <2>2. /\ next_sequence' \in 1..MaxIssued + 1 /\ next_sector' \in 1..Sectors
        /\ recovered' \in BOOLEAN
    BY <1>1, <1>2, <1>7, <1>8, Zenon DEF TypeOK
  <2> QED
    BY <1>1, <1>2, <1>4, <2>1, <2>2, Zenon DEF TypeOK
<1>10. Sounds'
  BY <1>1, <1>2, <1>4, Zenon DEF Sounds
<1>11. ConfigCall'
  BY <1>2, <1>3, Done, Zenon DEF ConfigCall
<1>12. LogCall'
  <2>1. kind = "log" => next_sector' = Place(next_sequence') /\ next_sequence' <= issued' + 1
    BY <1>1, <1>2, <1>8, Zenon DEF LogCall
  <2> QED
    BY <1>2, <1>3, <2>1, Zenon DEF LogCall
<1>13. Dated'
  <2>1. call.is = "rec" => call.val <= issued
    BY <1>1, <1>4, Zenon DEF Dated
  <2> QED
    BY <1>1, <1>2, <1>3, <2>1, Zenon DEF Dated
<1>14. Current'
  <2>1. CASE kind = "log"
    BY <1>2, <1>3, <2>1, Zenon DEF Current
  <2>2. CASE call.is # "rec"
    BY <1>1, <1>2, <2>2, Zenon DEF Current, Named
  <2>3. CASE kind = "config" /\ call.is = "rec"
    <3>1. PICK at \in {1, 2} : cache[0] = Selector(at, call.seq) /\ cache[at] = call
      BY <1>2, <2>3, Done, Zenon
    <3>2. media = cache
      BY <1>2, <2>3, Done, Zenon
    <3>3. Selector(at, call.seq).slot = at
      BY DEF Selector
    <3>4. NotOlder(call, acked)
      BY <1>1, <2>3, CallNewest, Zenon
    <3>5. call.val >= call.val
      BY <1>1, <1>4, <2>3 DEF Dated
    <3>6. NotOlder(call, acked')
      BY <1>2, <2>3, <3>4, <3>5, Zenon DEF NotOlder
    <3>7. ASSUME NEW slot \in {1, 2}, Names(media'[0], slot) \/ Names(cache'[0], slot)
          PROVE  slot = at
      BY <1>2, <3>1, <3>2, <3>3, <3>7, Zenon DEF Names
    <3> QED
      BY <1>2, <2>3, <3>1, <3>2, <3>6, <3>7, Zenon DEF Current, Named
  <2> QED
    BY <1>1, <2>1, <2>2, <2>3, LbasAre, Zenon
<1>15. Kept'
  <2>1. ASSUME kind = "log", ~ skipped, NEW r \in acked' PROVE KeptOne(r)'
    <3>1. CASE r \in acked
      <4>1. KeptOne(r)
        BY <1>1, <2>1, <3>1, Zenon DEF Kept
      <4>2. r.seq \in 1..MaxIssued + 1
        BY <1>1, <3>1, RecordHas, Zenon DEF TypeOK
      <4>3. r.seq < next_sequence /\ next_sequence < next_sequence' => r.seq < next_sequence'
        BY <1>2, <1>7, <4>2, Sizes
      <4>4. recovered' => r.seq < next_sequence'
        BY <1>2, <1>8, <2>1, <4>1, <4>3, Zenon DEF KeptOne
      <4> QED
        BY <1>2, <1>3, <4>1, <4>4, Zenon DEF KeptOne
    <3>2. CASE r = call /\ call.is = "rec"
      <4>1. cache[Place(r.seq)] = r /\ media[Place(r.seq)] = r
        BY <1>2, <2>1, <3>2, Done, Zenon
      <4>2. r.seq < next_sequence'
        BY <1>6, <1>8, <2>1, <3>2, Zenon
      <4> QED
        BY <1>2, <1>3, <4>1, <4>2, Zenon DEF KeptOne
    <3> QED
      BY <1>2, <2>1, <3>1, <3>2, Zenon
  <2> QED
    BY <1>2, <2>1, Zenon DEF Kept
<1> QED
  BY <1>9, <1>10, <1>11, <1>12, <1>13, <1>14, <1>15, Zenon DEF IInv

(* config_store_init or event_log_init begins.                             *)
LEMMA FormatStep ==
    ASSUME IInv, Format
    PROVE  IInv'
<1>1. TypeOK /\ Sounds /\ LogCall
  BY Zenon DEF IInv
<1>2. /\ call = Idle /\ formats < MaxFormats /\ formats' = formats + 1
      /\ plan' = IF kind = "config" THEN ConfigFormat ELSE LogFormat
      /\ call' = [is |-> "format"] /\ acked' = {}
      /\ IF kind = "log"
           THEN next_sequence' = 1 /\ next_sector' = 1 /\ recovered' = TRUE
           ELSE /\ next_sequence' = next_sequence
                /\ next_sector' = next_sector /\ recovered' = recovered
      /\ kind' = kind /\ media' = media /\ cache' = cache /\ issued' = issued
      /\ fails' = fails /\ skipped' = skipped
  BY Zenon DEF Format, device, log
<1>3. /\ call'.is = "format" /\ call' # Idle /\ "format" # "rec" /\ "format" # "idle"
      /\ "config" # "log"
  BY <1>2, Plain
<1>4. Lbas' = Lbas /\ issued \in Nat
  BY <1>1, <1>2, LbasAre, Zenon
<1>5. TypeOK'
  <2>1. formats' \in 0..MaxFormats
    BY <1>1, <1>2, Sizes DEF TypeOK
  <2>2. plan' \in Seq(Requests)
    BY <1>2, ConfigFormatIs, LogFormatIs, Zenon
  <2>3. 1 \in 1..MaxIssued + 1 /\ 1 \in 1..Sectors
    BY Sizes
  <2> QED
    BY <1>1, <1>2, <1>3, <1>4, <2>1, <2>2, <2>3, Zenon DEF TypeOK
<1>6. Sounds'
  BY <1>1, <1>2, <1>4, Zenon DEF Sounds
<1>7. ConfigCall'
  <2>1. kind = "config" => Rest(plan', ConfigFormat, 0)
    BY <1>2, ConfigFormatIs, RestAll, Zenon
  <2>2. 0 \in 0..4 /\ 0 # 4
    OBVIOUS
  <2> QED
    BY <1>2, <1>3, <2>1, <2>2, Zenon DEF ConfigCall
<1>8. LogCall'
  <2>1. 1 <= issued + 1 /\ Place(1) = 1
    BY <1>4, PlaceTyped
  <2>2. kind = "log" => \A i \in 1..Len(plan') : Harmless(plan'[i])
    BY <1>2, <1>3, LogFormatIs, Zenon
  <2> QED
    BY <1>2, <1>3, <2>1, <2>2, Zenon DEF LogCall
<1>9. Dated'
  BY <1>2, <1>3, Zenon DEF Dated
<1>10. Current'
  BY <1>2, Zenon DEF Current, NotOlder
<1>11. Kept'
  BY <1>2, Zenon DEF Kept
<1> QED
  BY <1>5, <1>6, <1>7, <1>8, <1>9, <1>10, <1>11, Zenon DEF IInv

(* The selector that config_store_write goes by.                           *)
LEMMA SelIs ==
    ASSUME TypeOK, Sounds, kind = "config"
    PROVE  /\ Sel.slot \in {1, 2} /\ Sel.gen \in 1..issued + 1
           /\ \A slot : Names(cache[0], slot) => slot = Sel.slot
<1>1. 0 \in Lbas /\ issued \in Nat
  BY LbasAre, Zenon
<1>2. cache[0] \in Contents /\ Sound(kind, issued, 0, cache[0])
  BY <1>1, Zenon DEF TypeOK, Sounds
<1>3. CASE cache[0].is = "sel"
  <2>1. /\ cache[0].slot \in {1, 2} /\ cache[0].gen \in 1..MaxIssued + 1
        /\ cache[0].gen <= issued + 1
    BY <1>2, <1>3, ContentIs, Zenon DEF Sound
  <2>2. cache[0].gen \in 1..issued + 1
    BY <1>1, <2>1, Sizes
  <2> QED
    BY <1>3, <2>1, <2>2, Zenon DEF Sel, Names
<1>4. CASE cache[0].is # "sel"
  <2>1. Selector(1, 1).slot = 1 /\ Selector(1, 1).gen = 1
    BY DEF Selector
  <2>2. 1 \in 1..issued + 1
    BY <1>1
  <2> QED
    BY <1>4, <2>1, <2>2, Zenon DEF Sel, Names
<1> QED
  BY <1>3, <1>4, Zenon

(* config_store_write begins.                                              *)
LEMMA ConfigWriteStep ==
    ASSUME IInv, ConfigWrite
    PROVE  IInv'
<1>1. TypeOK /\ Sounds /\ ConfigCall /\ Dated /\ Current
  BY Zenon DEF IInv
<1>2. PICK gen : gen = Sel.gen + 1
  BY Zenon
<1>3. PICK slot : slot = Inactive(Sel.slot)
  BY Zenon
<1>4. PICK rec : rec = Record(gen, issued + 1)
  BY Zenon
<1>5. /\ kind = "config" /\ call = Idle /\ issued < MaxIssued
      /\ plan' = ConfigPlan(slot, gen, rec) /\ call' = rec /\ issued' = issued + 1
      /\ kind' = kind /\ media' = media /\ cache' = cache
      /\ next_sequence' = next_sequence /\ next_sector' = next_sector
      /\ recovered' = recovered /\ formats' = formats /\ fails' = fails
      /\ acked' = acked /\ skipped' = skipped
  BY <1>2, <1>3, <1>4, Zenon DEF ConfigWrite, device, log
<1>6. Sel.slot \in {1, 2} /\ Sel.gen \in 1..issued + 1 /\ issued \in Nat /\ Lbas' = Lbas
  BY <1>1, <1>5, SelIs, LbasAre, Zenon
<1>7. /\ gen \in 1..MaxIssued + 1 /\ gen <= issued' + 1 /\ issued' \in 0..MaxIssued
      /\ issued' \in Nat /\ issued' \in 1..MaxIssued /\ issued <= issued'
  BY <1>2, <1>5, <1>6, Sizes
<1>8. slot \in {1, 2} /\ slot # Sel.slot
  BY <1>3, <1>6 DEF Inactive
<1>9. /\ rec \in Records /\ rec \in Contents /\ rec.is = "rec" /\ rec.seq = gen
      /\ rec.val = issued'
  BY <1>4, <1>5, <1>7, RecordIs, RecordHas, Zenon
<1>10. plan' \in Seq(Requests) /\ Len(plan') = 5
  BY <1>5, <1>7, <1>8, <1>9, ConfigPlanIs, Zenon
<1>11. call'.is = "rec" /\ call' # Idle /\ "rec" # "idle" /\ "rec" # "format" /\ "config" # "log"
  BY <1>5, <1>9, Plain
<1>12. TypeOK'
  BY <1>1, <1>5, <1>6, <1>7, <1>9, <1>10, <1>11, Zenon DEF TypeOK
<1>13. Sounds'
  BY <1>1, <1>5, <1>7, SoundsLater, Zenon DEF device
<1>14. ConfigCall'
  <2>1. Rest(plan', ConfigPlan(slot, gen, rec), 0)
    BY <1>5, <1>10, RestAll, Zenon
  <2>2. fails = 0 => media = cache
    BY <1>1, <1>5, Plain, Zenon DEF ConfigCall
  <2>3. fails' = 0 => /\ media'[0] = cache'[0]
                      /\ ~ Names(media'[0], slot) /\ ~ Names(cache'[0], slot)
    BY <1>1, <1>5, <1>8, <2>2, SelIs, Zenon
  <2>4. ~ (0 >= 1) /\ ~ (0 >= 2) /\ ~ (0 >= 4) /\ 0 # 5 /\ 0 \in 0..5
    OBVIOUS
  <2>5. ConfigAt(slot, 0)'
    BY <1>5, <1>9, <2>1, <2>3, <2>4, Zenon DEF ConfigAt, Named
  <2>6. call'.seq <= issued' + 1
    BY <1>5, <1>7, <1>9, Zenon
  <2> QED
    BY <1>8, <1>11, <2>4, <2>5, <2>6, Zenon DEF ConfigCall
<1>15. LogCall'
  BY <1>5, <1>11, Zenon DEF LogCall
<1>16. Dated'
  <2>1. ASSUME NEW r \in acked PROVE r.val <= issued' /\ r.val < issued'
    <3>1. r.val <= issued /\ r.val \in 1..MaxIssued
      BY <1>1, RecordHas, Zenon DEF Dated, TypeOK
    <3> QED
      BY <1>5, <1>6, <3>1, Sizes
  <2> QED
    BY <1>5, <1>9, <1>11, <2>1, Zenon DEF Dated
<1>17. Current'
  BY <1>1, <1>5, Zenon DEF Current, Named
<1>18. Kept'
  BY <1>5, <1>11, Zenon DEF Kept
<1> QED
  BY <1>12, <1>13, <1>14, <1>15, <1>16, <1>17, <1>18, Zenon DEF IInv

(* event_log_recover finds a number that was given out, its place, and,    *)
(* when it has read every sector, nothing newer in the log.                *)
LEMMA RecoverIs ==
    ASSUME TypeOK, Sounds, kind = "log", NEW seen \in SUBSET (1..Sectors)
    PROVE  /\ Recover(seen).seq \in 1..issued + 1
           /\ Recover(seen).sector = Place(Recover(seen).seq)
           /\ \A i \in seen : cache[i].is = "rec" => cache[i].seq < Recover(seen).seq
<1> DEFINE whole == {i \in seen : cache[i].is = "rec"}
           seq == [i \in whole |-> cache[i].seq]
           Top(i) == \A j \in whole : cache[j].seq <= cache[i].seq
           last == CHOOSE i \in whole : Top(i)
<1>1. issued \in Nat
  BY LbasAre, Zenon
<1>2. ASSUME NEW i \in whole
      PROVE  cache[i].seq \in 1..issued /\ i = Place(cache[i].seq)
  <2>1. i \in 1..Sectors /\ cache[i].is = "rec"
    BY Zenon
  <2>2. i \in Lbas
    BY <2>1, SectorLba, LbasAre, Zenon
  <2>3. cache[i] \in Contents /\ Sound(kind, issued, i, cache[i])
    BY <2>2, Zenon DEF TypeOK, Sounds
  <2>4. /\ cache[i].seq \in 1..MaxIssued + 1 /\ cache[i].seq <= issued
        /\ i = Place(cache[i].seq)
    BY <2>1, <2>3, ContentIs, Zenon DEF Sound
  <2>5. cache[i].seq \in 1..issued
    BY <1>1, <2>4, Sizes
  <2> QED
    BY <2>4, <2>5, Zenon
<1>3. CASE whole = {}
  <2>1. Recover(seen) = [seq |-> 1, sector |-> 1]
    BY <1>3, Zenon DEF Recover
  <2>2. Recover(seen).seq = 1 /\ Recover(seen).sector = 1
    BY <2>1
  <2>3. 1 \in 1..issued + 1 /\ Place(1) = 1
    BY <1>1, PlaceTyped
  <2> QED
    BY <1>3, <2>2, <2>3, Zenon
<1>4. CASE whole # {}
  <2>1. \E i \in whole : Top(i)
    <3>1. \A i \in whole : seq[i] \in 0..issued /\ seq[i] = cache[i].seq
      BY <1>1, <1>2
    <3>2. \E i \in whole : \A j \in whole : seq[j] <= seq[i]
      <4> HIDE DEF whole, seq
      <4> QED
        BY <1>1, <1>4, <3>1, Highest, Zenon
    <3> QED
      BY <3>1, <3>2, Zenon
  <2>2. last \in whole /\ Top(last)
    <3> HIDE DEF whole, Top
    <3> QED
      BY <2>1, Zenon
  <2>3. Recover(seen) = [seq |-> cache[last].seq + 1, sector |-> After(last)]
    BY <1>4, Zenon DEF Recover
  <2>4. PICK q \in 1..issued : q = cache[last].seq /\ last = Place(q)
    BY <1>2, <2>2, Zenon
  <2>5. Recover(seen).seq = q + 1 /\ Recover(seen).sector = After(Place(q))
    <3> HIDE DEF last
    <3> QED
      BY <2>3, <2>4
  <2>6. q \in Int /\ q + 1 \in 1..issued + 1
    BY <1>1
  <2>7. After(Place(q)) = Place(q + 1)
    BY <2>6, PlaceNext, Zenon
  <2>8. ASSUME NEW i \in whole PROVE cache[i].seq < q + 1
    <3>1. cache[i].seq \in 1..issued /\ cache[i].seq <= q
      BY <1>2, <2>2, <2>4, Zenon
    <3> QED
      BY <1>1, <2>6, <3>1
  <2> QED
    BY <2>5, <2>6, <2>7, <2>8, Zenon
<1> QED
  BY <1>3, <1>4, Zenon

(* A scan: the sectors it may miss.                                        *)
LEMMA SeenIs ==
    ASSUME NEW seen \in Seen
    PROVE  seen \in SUBSET (1..Sectors)
BY Zenon DEF Seen

(* Where a log that has read every sector goes on is behind every record   *)
(* that is kept.                                                           *)
LEMMA RecoverAfter ==
    ASSUME IInv, kind = "log", ~ skipped, NEW r \in acked
    PROVE  r.seq < Recover(1..Sectors).seq /\ (recovered => r.seq < next_sequence)
<1>1. TypeOK /\ Sounds /\ KeptOne(r)
  BY Zenon DEF IInv, Kept
<1>2. r.is = "rec" /\ r.seq \in 1..MaxIssued + 1
  BY <1>1, RecordHas, Zenon DEF TypeOK
<1>3. r.seq \in Int
  BY <1>2, Sizes
<1>4. Place(r.seq) \in 1..Sectors
  BY <1>3, PlaceTyped, Zenon
<1>5. cache[Place(r.seq)] = r
  BY <1>1, Zenon DEF KeptOne
<1> QED
  BY <1>1, <1>2, <1>4, <1>5, RecoverIs, Zenon DEF KeptOne

(* event_log_recover.                                                      *)
LEMMA LogRecoverStep ==
    ASSUME IInv, NEW seen \in Seen, LogRecover(seen)
    PROVE  IInv'
<1>1. TypeOK /\ Sounds /\ Kept /\ Dated
  BY Zenon DEF IInv
<1>2. PICK q : q = Recover(seen).seq
  BY Zenon
<1>3. /\ kind = "log" /\ call = Idle /\ next_sequence' = q
      /\ next_sector' = Recover(seen).sector /\ recovered' = TRUE
      /\ skipped' = (skipped \/ seen # 1..Sectors)
      /\ kind' = kind /\ media' = media /\ cache' = cache /\ plan' = plan
      /\ call' = call /\ issued' = issued /\ formats' = formats
      /\ fails' = fails /\ acked' = acked
  BY <1>2, Zenon DEF LogRecover, device
<1>4. q \in 1..issued + 1 /\ next_sector' = Place(q)
  BY <1>1, <1>2, <1>3, SeenIs, RecoverIs, Zenon
<1>5. /\ call'.is = "idle" /\ "idle" # "rec" /\ "idle" # "format" /\ "config" # "log"
  BY <1>3, Plain
<1>6. issued \in 0..MaxIssued /\ Lbas' = Lbas
  BY <1>1, <1>3, LbasAre, Zenon DEF TypeOK
<1>7. q \in 1..MaxIssued + 1 /\ q <= issued + 1 /\ q \in Int
  BY <1>4, <1>6, Sizes
<1>8. TypeOK'
  <2>1. Place(q) \in 1..Sectors /\ (skipped \/ seen # 1..Sectors) \in BOOLEAN
    BY <1>7, PlaceTyped, Zenon
  <2> QED
    BY <1>1, <1>3, <1>4, <1>6, <1>7, <2>1, Zenon DEF TypeOK
<1>9. Sounds'
  BY <1>1, <1>3, <1>6, Zenon DEF Sounds
<1>10. ConfigCall' /\ Current'
  BY <1>3, <1>5, Zenon DEF ConfigCall, Current
<1>11. LogCall'
  BY <1>3, <1>4, <1>5, <1>7, Zenon DEF LogCall
<1>12. Dated'
  BY <1>1, <1>3, Zenon DEF Dated
<1>13. Kept'
  <2>1. ASSUME ~ skipped', NEW r \in acked PROVE KeptOne(r)'
    <3>1. ~ skipped /\ seen = 1..Sectors
      BY <1>3, <2>1, Zenon
    <3>2. r.seq < q
      BY <1>2, <1>3, <3>1, RecoverAfter, Zenon
    <3>3. KeptOne(r)
      BY <1>1, <1>3, <3>1, Zenon DEF Kept
    <3> QED
      BY <1>3, <1>5, <3>2, <3>3, Zenon DEF KeptOne
  <2> QED
    BY <1>3, <2>1, Zenon DEF Kept
<1> QED
  BY <1>8, <1>9, <1>10, <1>11, <1>12, <1>13, Zenon DEF IInv

(* event_log_append begins.                                                *)
LEMMA LogAppendStep ==
    ASSUME IInv, NEW seen \in Seen, LogAppend(seen)
    PROVE  IInv'
<1>1. TypeOK /\ Sounds /\ Kept /\ Dated /\ LogCall
  BY Zenon DEF IInv
<1>2. PICK at : at = IF recovered THEN [seq |-> next_sequence, sector |-> next_sector]
                                  ELSE Recover(seen)
  BY Zenon
<1>3. PICK rec : rec = Record(at.seq, issued + 1)
  BY Zenon
<1>4. /\ kind = "log" /\ call = Idle /\ issued < MaxIssued
      /\ recovered => seen = 1..Sectors
      /\ plan' = << Write(at.sector, rec), Flush >> /\ call' = rec
      /\ issued' = issued + 1 /\ next_sequence' = at.seq /\ next_sector' = at.sector
      /\ recovered' = TRUE /\ skipped' = (skipped \/ seen # 1..Sectors)
      /\ acked' = {r \in acked : r.seq > at.seq - Sectors}
      /\ kind' = kind /\ media' = media /\ cache' = cache /\ formats' = formats
      /\ fails' = fails
  BY <1>2, <1>3, Zenon DEF LogAppend, device
<1>5. issued \in 0..MaxIssued /\ Lbas' = Lbas
  BY <1>1, <1>4, LbasAre, Zenon DEF TypeOK
<1>6. recovered => at.seq = next_sequence /\ at.sector = next_sector
  BY <1>2
<1>7. at.seq \in 1..issued + 1 /\ at.sector = Place(at.seq)
  <2>1. CASE recovered
    <3>1. /\ next_sector = Place(next_sequence) /\ next_sequence <= issued + 1
          /\ next_sequence \in 1..MaxIssued + 1
      BY <1>1, <1>4, Zenon DEF LogCall, TypeOK
    <3>2. next_sequence \in 1..issued + 1
      BY <1>5, <3>1, Sizes
    <3> QED
      BY <1>6, <2>1, <3>1, <3>2, Zenon
  <2>2. CASE ~ recovered
    BY <1>1, <1>2, <1>4, <2>2, SeenIs, RecoverIs, Zenon
  <2> QED
    BY <2>1, <2>2, Zenon
<1>8. /\ at.seq \in 1..MaxIssued + 1 /\ at.seq <= issued' /\ at.seq <= issued' + 1
      /\ at.seq \in Int /\ issued' \in 0..MaxIssued /\ issued' \in 1..MaxIssued
      /\ issued \in Nat /\ issued' \in Nat /\ issued <= issued'
  BY <1>4, <1>5, <1>7, Sizes
<1>9. /\ rec \in Records /\ rec.is = "rec" /\ rec.seq = at.seq /\ rec.val = issued'
  BY <1>3, <1>4, <1>8, RecordIs, Zenon
<1>10. plan' = LogPlan(rec)
  BY <1>4, <1>7, <1>9, Zenon DEF LogPlan
<1>11. LogPlan(rec) \in Seq(Requests)
  BY <1>9, LogPlanIs, Zenon
<1>12. /\ call'.is = "rec" /\ call' # Idle /\ "rec" # "idle" /\ "rec" # "format"
       /\ "config" # "log"
  BY <1>4, <1>9, Plain
<1>13. TypeOK'
  <2>1. Place(at.seq) \in 1..Sectors /\ (skipped \/ seen # 1..Sectors) \in BOOLEAN
    BY <1>8, PlaceTyped, Zenon
  <2>2. acked' \subseteq Records
    BY <1>1, <1>4, Zenon DEF TypeOK
  <2> QED
    BY <1>1, <1>4, <1>5, <1>7, <1>8, <1>9, <1>10, <1>11, <1>12, <2>1, <2>2, Zenon DEF TypeOK
<1>14. Sounds'
  BY <1>1, <1>4, <1>8, SoundsLater, Zenon DEF device
<1>15. ConfigCall' /\ Current'
  BY <1>4, <1>12, Zenon DEF ConfigCall, Current
<1>16. LogCall'
  <2>1. Rest(plan', LogPlan(rec), 0)
    BY <1>10, <1>11, RestAll, Zenon
  <2>2. ~ (0 >= 1) /\ 0 # 2 /\ 0 \in 0..2
    OBVIOUS
  <2>3. LogAt(0)'
    BY <1>4, <2>1, <2>2, Zenon DEF LogAt
  <2> QED
    BY <1>4, <1>7, <1>8, <1>9, <1>12, <2>2, <2>3, Zenon DEF LogCall
<1>17. Dated'
  <2>1. ASSUME NEW r \in acked' PROVE r.val <= issued' /\ r.val < issued'
    <3>1. r \in acked
      BY <1>4, Zenon
    <3>2. r.val <= issued /\ r.val \in 1..MaxIssued
      BY <1>1, <3>1, RecordHas, Zenon DEF Dated, TypeOK
    <3> QED
      BY <1>4, <1>5, <3>2, Sizes
  <2> QED
    BY <1>4, <1>9, <1>12, <2>1, Zenon DEF Dated
<1>18. Kept'
  <2>1. ASSUME ~ skipped', NEW r \in acked' PROVE KeptOne(r)'
    <3>1. ~ skipped /\ seen = 1..Sectors /\ r \in acked /\ r.seq > at.seq - Sectors
      BY <1>4, <2>1, Zenon
    <3>2. r.seq < at.seq
      BY <1>2, <1>4, <1>6, <3>1, RecoverAfter, Zenon
    <3>3. KeptOne(r)
      BY <1>1, <1>4, <3>1, Zenon DEF Kept
    <3> QED
      BY <1>4, <1>9, <3>1, <3>2, <3>3, Zenon DEF KeptOne
  <2> QED
    BY <1>4, <2>1, Zenon DEF Kept
<1> QED
  BY <1>13, <1>14, <1>15, <1>16, <1>17, <1>18, Zenon DEF IInv

-----------------------------------------------------------------------------
(* The theorems                                                            *)

(* A blank device.                                                         *)
LEMMA Begins == Init => IInv
<1> SUFFICES ASSUME Init PROVE IInv
  BY Zenon
<1>1. /\ kind \in Kinds /\ media = [l \in Lbas |-> Zero] /\ cache = media
      /\ plan = << >> /\ call = Idle
      /\ next_sequence = 1 /\ next_sector = 1 /\ recovered = FALSE
      /\ issued = 0 /\ formats = 0 /\ fails = 0 /\ acked = {} /\ skipped = FALSE
  BY Zenon DEF Init
<1>2. call.is = "idle" /\ "idle" # "rec" /\ "idle" # "format"
  BY <1>1, Plain
<1>3. media \in [Lbas -> Contents]
  BY <1>1, Plain
<1>4. /\ 1 \in 1..MaxIssued + 1 /\ 1 \in 1..Sectors /\ << >> \in Seq(Requests)
      /\ 0 \in 0..MaxIssued /\ 0 \in 0..MaxFormats /\ 0 \in 0..MaxFails
      /\ 1 <= 0 + 1
  BY Sizes
<1>5. TypeOK
  BY <1>1, <1>3, <1>4, Zenon DEF TypeOK
<1>6. Sounds
  BY <1>1, Plain, Zenon DEF Sounds, Sound
<1>7. ConfigCall
  BY <1>1, <1>2, Zenon DEF ConfigCall
<1>8. LogCall
  <2>1. Place(1) = 1
    BY PlaceTyped
  <2> QED
    BY <1>1, <1>2, <1>4, <2>1, Zenon DEF LogCall
<1>9. Dated /\ Current /\ Kept
  BY <1>1, <1>2, Zenon DEF Dated, Current, NotOlder, Kept
<1> QED
  BY <1>5, <1>6, <1>7, <1>8, <1>9, Zenon DEF IInv

(* Every step keeps the invariant.                                         *)
LEMMA GoesOn == IInv /\ [Next]_vars => IInv'
<1> SUFFICES ASSUME IInv, [Next]_vars PROVE IInv'
  BY Zenon
<1>1. CASE Format
  BY <1>1, FormatStep, Zenon
<1>2. CASE ConfigWrite
  BY <1>2, ConfigWriteStep, Zenon
<1>3. ASSUME NEW seen \in Seen, LogRecover(seen) PROVE IInv'
  BY <1>3, LogRecoverStep, Zenon
<1>4. ASSUME NEW seen \in Seen, LogAppend(seen) PROVE IInv'
  BY <1>4, LogAppendStep, Zenon
<1>5. CASE Request
  BY <1>5, RequestStep, Zenon
<1>6. CASE Fail
  BY <1>6, FailStep, Zenon
<1>7. CASE Return
  BY <1>7, ReturnStep, Zenon
<1>8. ASSUME NEW l \in Lbas, WriteBack(l) PROVE IInv'
  BY <1>8, WriteBackStep, Zenon
<1>9. ASSUME NEW torn \in SUBSET Lbas, PowerLoss(torn) PROVE IInv'
  BY <1>9, PowerLossStep, Zenon
<1>10. CASE UNCHANGED vars
  <2>1. /\ kind' = kind /\ media' = media /\ cache' = cache /\ plan' = plan
        /\ call' = call /\ next_sequence' = next_sequence
        /\ next_sector' = next_sector /\ recovered' = recovered
        /\ issued' = issued /\ formats' = formats /\ fails' = fails
        /\ acked' = acked /\ skipped' = skipped
    BY <1>10, Zenon DEF vars, device, log
  <2>2. Lbas' = Lbas
    BY <2>1, Zenon DEF Lbas
  <2>3. TypeOK' /\ Sounds'
    BY <2>1, <2>2, Zenon DEF IInv, TypeOK, Sounds
  <2>4. ConfigCall'
    BY <2>1, Zenon DEF IInv, ConfigCall, ConfigAt, Named
  <2>5. LogCall' /\ Dated' /\ Kept'
    BY <2>1, Zenon DEF IInv, LogCall, LogAt, Dated, Kept, KeptOne
  <2>6. Current'
    BY <2>1, Zenon DEF IInv, Current, Named
  <2> QED
    BY <2>3, <2>4, <2>5, <2>6, Zenon DEF IInv
<1> QED
  BY <1>1, <1>2, <1>3, <1>4, <1>5, <1>6, <1>7, <1>8, <1>9, <1>10, Zenon DEF Next

(* The invariant holds always.                                             *)
LEMMA Holds == Spec => []IInv
BY Begins, GoesOn, PTL DEF Spec

(* What config_store_read returns.                                         *)
LEMMA ReadsCurrent == IInv => OldOrNew
<1> SUFFICES ASSUME IInv PROVE OldOrNew
  BY Zenon
<1>1. TypeOK /\ Sounds /\ Current
  BY Zenon DEF IInv
<1>2. ASSUME kind = "config", cache[0].is = "sel"
      PROVE  /\ NotOlder(cache[Sel.slot], acked)
             /\ fails = 0 /\ acked # {} => cache[Sel.slot].is = "rec"
  <2>1. Sel.slot \in {1, 2}
    BY <1>1, <1>2, SelIs, Zenon
  <2>2. Named(Sel.slot)
    BY <1>2, Zenon DEF Named, Names, Sel
  <2> QED
    BY <1>1, <1>2, <2>1, <2>2, Zenon DEF Current
<1>3. kind = "config" /\ ReadOk => \A r \in acked : ReadValue >= r.val
  BY <1>2, Zenon DEF ReadOk, ReadValue, NotOlder
<1>4. fails = 0 => Readable
  BY <1>2, Zenon DEF Readable, ReadOk
<1> QED
  BY <1>1, <1>3, <1>4, Zenon DEF OldOrNew

(* A read of the configuration returns the newest value whose              *)
(* config_store_write returned success, or a later one that was            *)
(* interrupted, for any number of writes, init calls, failing requests and *)
(* power losses; where no request has failed and the selector is whole     *)
(* there is one to read.                                                   *)
THEOREM ConfigOldOrNew == Spec => []OldOrNew
BY Holds, ReadsCurrent, PTL

(* What event_log_append has appended is found.                            *)
LEMMA FindsKept == IInv => RetainedUnlessSkipped
<1> SUFFICES ASSUME IInv, ~ skipped, kind = "log", NEW r \in acked
             PROVE  \E i \in 1..Sectors : cache[i] = r
  BY Zenon DEF RetainedUnlessSkipped, Retained
<1>1. r.seq \in 1..MaxIssued + 1
  BY RecordHas, Zenon DEF IInv, TypeOK
<1>2. r.seq \in Int
  BY <1>1, Sizes
<1>3. Place(r.seq) \in 1..Sectors
  BY <1>2, PlaceTyped, Zenon
<1>4. cache[Place(r.seq)] = r
  BY Zenon DEF IInv, Kept, KeptOne
<1> QED
  BY <1>3, <1>4, Zenon

(* A record whose event_log_append returned success is in the log until an *)
(* append begins that takes its sector, for any size of the ring and any   *)
(* number of appends, failing requests and power losses, as long as every  *)
(* scan of event_log_recover has read every sector.                        *)
THEOREM LogRetained == Spec => []RetainedUnlessSkipped
BY Holds, FindsKept, PTL
=============================================================================
