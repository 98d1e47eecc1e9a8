-------------------------- MODULE MpscQueue_proofs --------------------------
(***************************************************************************)
(* For any number of producers, any capacity and any position at which the *)
(* counters wrap: a reserved slot is its producer's own, and the queue     *)
(* implements BoundedFifo.                                                 *)
(***************************************************************************)
EXTENDS MpscQueue, FiniteSetTheorems, TLAPS

-----------------------------------------------------------------------------
(* Arithmetic modulo c.                                                    *)

(* Division with remainder.                                                *)
LEMMA Division ==
    ASSUME NEW c \in Nat, c > 0, NEW x \in Int
    PROVE  /\ x % c \in 0 .. c - 1
           /\ x \div c \in Int
           /\ x = c * (x \div c) + (x % c)
OBVIOUS

(* A number between 0 and c - 1 is its own remainder.                      *)
LEMMA Remainder ==
    ASSUME NEW c \in Nat, c > 0, NEW q \in Int, NEW r \in 0 .. c - 1
    PROVE  (c * q + r) % c = r
OBVIOUS

(* Multiples of c do not count.                                            *)
LEMMA ModMultiple ==
    ASSUME NEW c \in Nat, c > 0, NEW x \in Int, NEW z \in Int
    PROVE  (x + c * z) % c = x % c
<1>1. PICK q \in Int, r \in 0 .. c - 1 : x = c * q + r /\ r = x % c
  BY Division, Zenon
<1>2. x + c * z = c * (q + z) + r
  BY <1>1
<1>3. q + z \in Int
  BY <1>1
<1>4. (c * (q + z) + r) % c = r
  BY <1>3, Remainder, Zenon
<1> QED
  BY <1>1, <1>2, <1>4, Zenon

(* Numbers less than c apart are told apart.                               *)
LEMMA ModNear ==
    ASSUME NEW c \in Nat, c > 0, NEW x \in Int, NEW y \in Int,
           x % c = y % c, x - y < c, y - x < c
    PROVE  x = y
<1>1. PICK q \in Int, r \in 0 .. c - 1 : x = c * q + r /\ r = x % c
  BY Division, Zenon
<1>2. PICK s \in Int : y = c * s + r
  BY <1>1, Division, ZenonT(30)
<1>3. x - y = c * (q - s)
  BY <1>1, <1>2
<1>4. PICK d \in Int : d = q - s
  BY <1>1, <1>2
<1>5. c * d < c /\ c * d > -c
  BY <1>3, <1>4
<1>6. d = 0
  <2>1. ~ d >= 1
    BY <1>4, <1>5
  <2>2. ~ d <= -1
    BY <1>4, <1>5
  <2> QED
    BY <1>4, <2>1, <2>2
<1> QED
  BY <1>1, <1>2, <1>4, <1>6

(* Remainders may be taken before or after a sum or a difference.          *)
LEMMA ModSum ==
    ASSUME NEW c \in Nat, c > 0, NEW x \in Int, NEW y \in Int
    PROVE  /\ ((x % c) + y) % c = (x + y) % c
           /\ ((x % c) - (y % c)) % c = (x - y) % c
<1>1. PICK q \in Int, r \in 0 .. c - 1 : x = c * q + r /\ r = x % c
  BY Division, Zenon
<1>2. PICK s \in Int, t \in 0 .. c - 1 : y = c * s + t /\ t = y % c
  BY Division, ZenonT(30)
<1>3. x + y = (r + y) + c * q /\ r + y \in Int
  BY <1>1
<1>4. ((r + y) + c * q) % c = (r + y) % c
  BY <1>1, <1>3, ModMultiple, ZenonT(30)
<1>5. x - y = (r - t) + c * (q - s) /\ r - t \in Int /\ q - s \in Int
  BY <1>1, <1>2
<1>6. ((r - t) + c * (q - s)) % c = (r - t) % c
  BY <1>5, ModMultiple, Zenon
<1> QED
  BY <1>1, <1>2, <1>3, <1>4, <1>5, <1>6, Zenon

-----------------------------------------------------------------------------
(* Positions, slots and differences.                                       *)

(* The sizes as the arithmetic below needs them.                           *)
LEMMA Sizes ==
    /\ Capacity \in Nat /\ Capacity >= 2 /\ Capacity > 0
    /\ Modulus \in Nat /\ Modulus > 0 /\ Capacity < Modulus
BY MpscAssumption

(* Wrapping gives a position,                                              *)
LEMMA AtPosition == \A x \in Int : At(x) \in Positions
BY Sizes, Division, Zenon DEF At, Positions

(* leaves a position as it is,                                             *)
LEMMA AtSelf == \A x \in Positions : At(x) = x
BY Sizes DEF At, Positions

(* may be done before a sum                                                *)
LEMMA AtSum == \A x, y \in Int : At(At(x) + y) = At(x + y)
BY Sizes, ModSum, ZenonT(30) DEF At

(* or a difference,                                                        *)
LEMMA AtDiff == \A x, y \in Int : At(At(x) - At(y)) = At(x - y)
BY Sizes, ModSum, ZenonT(30) DEF At

(* and tells numbers apart that are less than a round from each other.     *)
LEMMA AtNear ==
    ASSUME NEW x \in Int, NEW y \in Int, At(x) = At(y),
           x - y < Modulus, y - x < Modulus
    PROVE  x = y
BY Sizes, ModNear, ZenonT(30) DEF At

(* A number has a slot,                                                    *)
LEMMA SlotIndex == \A x \in Int : SlotOf(x) \in Indices
BY Sizes, Division, Zenon DEF SlotOf, Indices

(* and numbers less than a round of the ring from each other have          *)
(* different ones.                                                         *)
LEMMA SlotNear ==
    ASSUME NEW x \in Int, NEW y \in Int, SlotOf(x) = SlotOf(y),
           x - y < Capacity, y - x < Capacity
    PROVE  x = y
BY Sizes, ModNear, ZenonT(30) DEF SlotOf

(* A position has the slot of the number that it stands for.               *)
LEMMA SlotAt == \A x \in Int : SlotOf(At(x)) = SlotOf(x)
<1> SUFFICES ASSUME NEW x \in Int PROVE SlotOf(At(x)) = SlotOf(x)
  BY Zenon
<1>1. PICK m \in Int : Modulus = Capacity * m
  <2>1. Modulus = Capacity * (Modulus \div Capacity) + (Modulus % Capacity)
    BY Sizes, Division
  <2>2. Modulus \div Capacity \in Int
    BY Sizes, Division
  <2>3. Modulus % Capacity = 0
    BY MpscAssumption, Zenon
  <2> QED
    BY <2>1, <2>2, <2>3, Sizes
<1>2. PICK q \in Int, r \in 0 .. Modulus - 1 : x = Modulus * q + r /\ r = At(x)
  BY Sizes, Division, ZenonT(30) DEF At
<1>3. x = r + Capacity * (m * q)
  BY <1>1, <1>2, Sizes
<1>4. m * q \in Int /\ r \in Int
  BY <1>1, <1>2
<1>5. (r + Capacity * (m * q)) % Capacity = r % Capacity
  BY <1>4, Sizes, ModMultiple, ZenonT(30)
<1> QED
  BY <1>2, <1>3, <1>5, Zenon DEF SlotOf

(* The slots of Capacity positions in a row are all the slots.             *)
LEMMA SlotCovered ==
    ASSUME NEW o \in Int, NEW y \in Int
    PROVE  \E x \in o .. o + Capacity - 1 : SlotOf(x) = SlotOf(y)
<1>0. PICK d \in Int : d = y - o
  OBVIOUS
<1>1. PICK q \in Int, r \in 0 .. Capacity - 1 : d = Capacity * q + r
  BY Sizes, Division, ZenonT(30)
<1>2. o + r = y + Capacity * (-q) /\ -q \in Int
  BY <1>0, <1>1, Sizes
<1>3. (y + Capacity * (-q)) % Capacity = y % Capacity
  BY <1>2, Sizes, ModMultiple, ZenonT(30)
<1>4. SlotOf(o + r) = SlotOf(y)
  BY <1>2, <1>3, Zenon DEF SlotOf
<1>5. o + r \in o .. o + Capacity - 1
  BY <1>1, Sizes
<1> QED
  BY <1>4, <1>5, Zenon

(* The next lap reuses the slot.                                           *)
LEMMA SlotLap == \A x \in Int : SlotOf(x + Capacity) = SlotOf(x)
<1> SUFFICES ASSUME NEW x \in Int PROVE SlotOf(x + Capacity) = SlotOf(x)
  BY Zenon
<1>1. PICK one \in Int : one = 1
  OBVIOUS
<1>2. (x + Capacity * one) % Capacity = x % Capacity
  BY Sizes, ModMultiple, ZenonT(30)
<1>3. x + Capacity * one = x + Capacity
  BY <1>1, Sizes
<1> QED
  BY <1>2, <1>3, Zenon DEF SlotOf

(* (int32_t)(a - b) is the difference while that is small.                 *)
LEMMA DiffNear ==
    ASSUME NEW x \in Int, NEW y \in Int,
           2 * (x - y) < Modulus, 2 * (y - x) < Modulus
    PROVE  Diff(At(x), At(y)) = x - y
<1>1. At(At(x) - At(y)) = At(x - y)
  BY AtDiff, Zenon
<1>2. At(x - y) = IF x >= y THEN x - y ELSE x - y + Modulus
  <2>1. CASE x >= y
    BY <2>1, AtSelf, Sizes DEF Positions
  <2>2. CASE x < y
    <3>1. At(x - y + Modulus) = x - y + Modulus
      BY <2>2, AtSelf, Sizes DEF Positions
    <3>2. (x - y + Modulus * 1) % Modulus = (x - y) % Modulus
      BY Sizes, ModMultiple
    <3> QED
      BY <2>2, <3>1, <3>2, Sizes DEF At
  <2> QED
    BY <2>1, <2>2
<1>3. PICK h \in Nat : Modulus = 2 * h /\ Modulus \div 2 = h
  BY MpscAssumption
<1> QED
  BY <1>1, <1>2, <1>3 DEF Diff

-----------------------------------------------------------------------------
(* The inductive invariant.  The positions of the queue are numbers modulo *)
(* Modulus; it says that they stand for numbers b <= t <= h that never     *)
(* wrap: b the position of the idle queue, h of head, t of tail, k[p] of   *)
(* pos[p].  R is the set of values for which a slot has been reserved: no  *)
(* more than Values, so that what a stale pos lags behind stays small.     *)

(* The oldest number whose slot has not been given back.                   *)
Eldest(t) == IF consumer.at = "release" THEN t - 1 ELSE t

(* The producers that have read head.                                      *)
Placed == {p \in Producers : at[p] \in {"test", "cas", "write", "publish"}}

(* Every reservation was for a value of its own.                           *)
Counted(b, h, R) ==
    /\ R \subseteq Values
    /\ h = b + Cardinality(R)
    /\ \A v \in R : v[2] <= calls[v[1]]
    /\ \A p \in Producers : at[p] \in {"load", "test", "cas"} =>
           arg[p] = <<p, calls[p]>> /\ arg[p] \in Values \ R

(* Where the queue and its producers stand.                                *)
Standing(b, h, t, k) ==
    /\ b <= Eldest(t) /\ t <= h /\ h <= Eldest(t) + Capacity
    /\ head = At(h) /\ tail = At(t)
    /\ \A p \in Placed : pos[p] = At(k[p]) /\ b <= k[p] /\ k[p] <= h
    /\ \A p \in Writing : t <= k[p] /\ k[p] < h
    /\ \A p \in Writing : \A r \in Writing \ {p} : k[r] # k[p]
    /\ \A p \in Producers :
           at[p] = "cas" /\ k[p] = h => h < Eldest(t) + Capacity

(* A slot carries the next number if its value is published, and its own   *)
(* number if it is free or being written.                                  *)
Marked(h, t, k) ==
    \A x \in Eldest(t) .. Eldest(t) + Capacity - 1 :
        seq[SlotOf(x)] = IF x < h /\ \A p \in Writing : k[p] # x
                         THEN At(x + 1) ELSE At(x)

(* What has been copied and not yet handed over.                           *)
Copied(t) ==
    /\ \A p \in Producers : at[p] = "publish" => value[SlotOf(pos[p])] = arg[p]
    /\ consumer.at = "release" => consumer.value = value[SlotOf(t - 1)]

Unwrapped(b, h, t, k, R) ==
    /\ Counted(b, h, R)
    /\ Standing(b, h, t, k)
    /\ Marked(h, t, k)
    /\ Copied(t)

Numbered ==
    \E b \in Nat, h \in Nat, t \in Nat, k \in [Producers -> Nat], R \in SUBSET Values :
        Unwrapped(b, h, t, k, R)

IInv == TypeOK /\ Numbered

-----------------------------------------------------------------------------

(* Fewer reservations than half the positions.                             *)
LEMMA Few ==
    ASSUME NEW R \in SUBSET Values
    PROVE  /\ IsFiniteSet(R) /\ Cardinality(R) \in Nat
           /\ 2 * (Cardinality(R) + Capacity) < Modulus
<1>1. IsFiniteSet(1 .. MaxCalls) /\ Cardinality(1 .. MaxCalls) = MaxCalls
  BY FS_Interval, MpscAssumption
<1>2. /\ IsFiniteSet(Values)
      /\ Cardinality(Values) = Cardinality(Producers) * MaxCalls
  BY <1>1, FS_Product, MpscAssumption, Zenon DEF Values
<1>3. IsFiniteSet(R) /\ Cardinality(R) <= Cardinality(Values)
  BY <1>2, FS_Subset, Zenon
<1>4. /\ Cardinality(R) \in Nat /\ Cardinality(Values) \in Nat
      /\ Cardinality(Producers) \in Nat
  BY <1>2, <1>3, FS_CardinalityType, MpscAssumption, Zenon
<1>5. Cardinality(R) <= MaxCalls * Cardinality(Producers)
  BY <1>2, <1>3, <1>4, MpscAssumption
<1> QED
  BY <1>3, <1>4, <1>5, MpscAssumption

(* The fields of an idle queue have their types.                           *)
LEMMA InitTyped == Init => TypeOK
<1> SUFFICES ASSUME Init PROVE TypeOK
  BY Zenon
<1>1. head \in Positions
  BY MpscAssumption, Zenon DEF Init, Positions
<1>2. \A i \in Indices : NextAt(head, i) \in Positions
  <2> SUFFICES ASSUME NEW i \in Indices PROVE NextAt(head, i) \in Positions
    BY Zenon
  <2>1. PICK d \in Int : d = i - head
    BY <1>1, Sizes DEF Indices, Positions
  <2>2. PICK e \in Int : e = d % Capacity
    BY Sizes, Division
  <2> QED
    BY <1>1, <2>1, <2>2, AtPosition, Sizes DEF NextAt, Positions
<1>3. calls \in [Producers -> 0 .. MaxCalls] /\ pos \in [Producers -> Positions]
  BY MpscAssumption, Sizes DEF Init, Positions
<1> QED
  BY <1>1, <1>2, <1>3, Zenon DEF Init, TypeOK

(* Every access to shared memory keeps the types.                          *)
LEMMA NextTyped == TypeOK /\ [Next]_vars => TypeOK'
<1> SUFFICES ASSUME TypeOK, [Next]_vars PROVE TypeOK'
  BY Zenon
<1> USE DEF TypeOK
<1>0. head \in Int /\ tail \in Int /\ \A p \in Producers : pos[p] \in Int
  BY Sizes DEF Positions
<1>1. ASSUME NEW p \in Producers, NewPush(p) PROVE TypeOK'
  <2>1. PICK n \in 1 .. MaxCalls : n = calls[p] + 1
    BY <1>1, MpscAssumption DEF NewPush
  <2>2. <<p, n>> \in Values
    BY Zenon DEF Values
  <2>3. calls' \in [Producers -> 0 .. MaxCalls]
    BY <1>1, <2>1, MpscAssumption DEF NewPush
  <2>4. arg' = [arg EXCEPT ![p] = <<p, n>>]
    BY <1>1, <2>1, Zenon DEF NewPush, PushCall
  <2>5. arg' \in [Producers -> Values \cup {NULL}]
    BY <2>2, <2>4, Zenon
  <2> QED
    BY <1>1, <2>3, <2>5, Zenon DEF NewPush, PushCall, queue
<1>2. ASSUME NEW p \in Producers, PushLoad(p) PROVE TypeOK'
  BY <1>2, Zenon DEF PushLoad, queue
<1>3. ASSUME NEW p \in Producers, PushTest(p) PROVE TypeOK'
  BY <1>3, Zenon DEF PushTest, queue
<1>4. ASSUME NEW p \in Producers, PushReserve(p) PROVE TypeOK'
  BY <1>0, <1>4, AtPosition DEF PushReserve
<1>5. ASSUME NEW p \in Producers, PushLost(p) PROVE TypeOK'
  BY <1>5, Zenon DEF PushLost, queue
<1>6. ASSUME NEW p \in Producers, PushWrite(p) PROVE TypeOK'
  BY <1>6, ZenonT(30) DEF PushWrite
<1>7. ASSUME NEW p \in Producers, PushPublish(p) PROVE TypeOK'
  <2>0. PICK y \in Int : y = pos[p] + 1
    BY <1>0
  <2>1. PICK x \in Positions : x = At(pos[p] + 1)
    BY <2>0, AtPosition, Zenon
  <2>2. seq' = [seq EXCEPT ![SlotOf(pos[p])] = x]
    BY <1>7, <2>1, Zenon DEF PushPublish
  <2> QED
    BY <1>7, <2>2, ZenonT(30) DEF PushPublish
<1>8. CASE PopTake
  <2>1. PICK v \in Values \cup {NULL} : v = value[SlotOf(tail)]
    BY <1>0, SlotIndex, Zenon
  <2>2. tail' \in Positions
    BY <1>0, <1>8, AtPosition DEF PopTake
  <2>3. consumer' = [at |-> "release", value |-> v]
    BY <1>8, <2>1, Zenon DEF PopTake
  <2> QED
    BY <1>8, <2>2, <2>3 DEF PopTake
<1>9. CASE PopRelease
  <2>1. At(tail - 1 + Capacity) \in Positions
    BY <1>0, AtPosition, Sizes
  <2> QED
    BY <1>9, <2>1, ZenonT(30) DEF PopRelease
<1>10. CASE UNCHANGED vars
  BY <1>10, Zenon DEF vars, queue
<1> QED
  BY <1>1, <1>2, <1>3, <1>4, <1>5, <1>6, <1>7, <1>8, <1>9, <1>10, ZenonT(30) DEF Next, Push

(* An idle queue, at the start.                                            *)
LEMMA InitNumbered == Init => Numbered
<1> SUFFICES ASSUME Init PROVE Numbered
  BY Zenon
<1>0. TypeOK
  BY InitTyped, Zenon
<1>1. head \in Nat /\ head \in Positions
  BY <1>0, Sizes DEF TypeOK, Positions
<1>2. PICK k \in [Producers -> Nat] : k = [p \in Producers |-> 0]
  BY ZenonT(30)
<1>3. PICK R \in SUBSET Values : R = {}
  BY ZenonT(30)
<1>4. Writing = {} /\ Placed = {}
  BY Zenon DEF Init, Writing, Placed
<1>5. Counted(head, head, R)
  <2>1. Cardinality(R) = 0
    BY <1>3, FS_EmptySet, Zenon
  <2> QED
    BY <1>1, <1>3, <2>1 DEF Counted, Init
<1>6. Eldest(head) = head
  BY Zenon DEF Eldest, Init
<1>7. Standing(head, head, head, k)
  BY <1>1, <1>4, <1>6, AtSelf, Sizes DEF Standing, Init
<1>8. Marked(head, head, k)
  <2> SUFFICES ASSUME NEW x \in head .. head + Capacity - 1
               PROVE  seq[SlotOf(x)] = At(x)
    BY <1>1, <1>6, Sizes DEF Marked
  <2>0. x \in Int
    BY <1>1, Sizes
  <2>1. PICK q \in Int, i \in 0 .. Capacity - 1 : x = Capacity * q + i /\ i = SlotOf(x)
    BY <2>0, Sizes, Division, Zenon DEF SlotOf
  <2>2. PICK d \in 0 .. Capacity - 1 : d = x - head
    BY <1>1, Sizes
  <2>3. i - head = d + Capacity * (-q) /\ -q \in Int /\ d \in Int
    <3>1. PICK n \in Int : n = Capacity * q /\ Capacity * (-q) = -n
      BY Sizes
    <3>2. x = n + i
      BY <2>1, <3>1, Zenon
    <3> QED
      BY <1>1, <2>0, <2>2, <3>1, <3>2, Sizes
  <2>4. (d + Capacity * (-q)) % Capacity = d % Capacity
    BY <2>3, Sizes, ModMultiple, Zenon
  <2>5. d % Capacity = d
    BY Sizes
  <2>6. (i - head) % Capacity = d
    BY <2>3, <2>4, <2>5, Zenon
  <2>7. NextAt(head, i) = At(head + d)
    BY <2>6, Zenon DEF NextAt
  <2>8. head + d = x
    BY <1>1, <2>0, <2>2
  <2>9. i \in Indices
    BY Zenon DEF Indices
  <2> QED
    BY <2>1, <2>7, <2>8, <2>9, Zenon DEF Init
<1>9. Copied(head)
  BY Zenon DEF Copied, Init
<1> QED
  BY <1>1, <1>5, <1>7, <1>8, <1>9, Zenon DEF Numbered, Unwrapped

-----------------------------------------------------------------------------
(* One lemma for each step: which numbers it moves.                        *)

(* Everything a comparison of positions meets is close together.           *)
LEMMA Close ==
    ASSUME NEW b \in Nat, NEW h \in Nat, NEW t \in Nat,
           NEW k \in [Producers -> Nat], NEW R \in SUBSET Values,
           Unwrapped(b, h, t, k, R)
    PROVE  /\ Eldest(t) \in Int /\ b <= Eldest(t) /\ Eldest(t) <= t
           /\ t <= h /\ h <= Eldest(t) + Capacity
           /\ 2 * (h - b + Capacity) < Modulus
           /\ Writing \subseteq Placed /\ Placed \subseteq Producers
<1>1. h = b + Cardinality(R) /\ Cardinality(R) \in Nat
  BY Few, Zenon DEF Unwrapped, Counted
<1>2. 2 * (h - b + Capacity) < Modulus
  BY <1>1, Few, Sizes
<1>3. /\ Eldest(t) \in Int /\ b <= Eldest(t) /\ Eldest(t) <= t
      /\ t <= h /\ h <= Eldest(t) + Capacity
  BY DEF Unwrapped, Standing, Eldest
<1> QED
  BY <1>2, <1>3, Zenon DEF Writing, Placed

(* A call takes a value that no slot was reserved for.                     *)
LEMMA CallNumbered ==
    ASSUME TypeOK, NEW b \in Nat, NEW h \in Nat, NEW t \in Nat,
           NEW k \in [Producers -> Nat], NEW R \in SUBSET Values,
           Unwrapped(b, h, t, k, R), NEW p \in Producers, NewPush(p)
    PROVE  Unwrapped(b, h, t, k, R)'
<1>1. /\ at[p] = "idle" /\ at' = [at EXCEPT ![p] = "load"]
      /\ arg' = [arg EXCEPT ![p] = <<p, calls[p] + 1>>]
      /\ calls' = [calls EXCEPT ![p] = calls[p] + 1] /\ calls[p] < MaxCalls
      /\ UNCHANGED <<head, tail, seq, value, pos, consumer>>
  BY Zenon DEF NewPush, PushCall, queue
<1>2. Writing' = Writing /\ Placed' = Placed /\ Eldest(t)' = Eldest(t)
  BY <1>1, Zenon DEF Writing, Placed, Eldest, TypeOK
<1>3. PICK n \in 1 .. MaxCalls : n = calls[p] + 1
  BY <1>1, MpscAssumption DEF TypeOK
<1>4. <<p, n>> \in Values \ R
  <2>1. <<p, n>> \in Values
    BY Zenon DEF Values
  <2>2. ASSUME <<p, n>> \in R PROVE FALSE
    <3>1. n <= calls[p]
      BY <2>2, Zenon DEF Unwrapped, Counted
    <3> QED
      BY <1>3, <3>1 DEF TypeOK
  <2> QED
    BY <2>1, <2>2, Zenon
<1>5. Counted(b, h, R)'
  <2>1. \A v \in R : v[2] <= calls'[v[1]]
    <3> SUFFICES ASSUME NEW v \in R PROVE v[2] <= calls'[v[1]]
      BY Zenon
    <3>1. v[1] \in Producers /\ v[2] \in 1 .. MaxCalls
      BY Zenon DEF Values
    <3>2. v[2] <= calls[v[1]]
      BY Zenon DEF Unwrapped, Counted
    <3> QED
      BY <1>1, <3>1, <3>2, MpscAssumption DEF TypeOK
  <2>2. ASSUME NEW q \in Producers, at'[q] \in {"load", "test", "cas"}
        PROVE  arg'[q] = <<q, calls'[q]>> /\ arg'[q] \in Values \ R
    <3>1. CASE q = p
      <4>1. arg'[p] = <<p, n>> /\ calls'[p] = n
        BY <1>1, <1>3, Zenon DEF TypeOK
      <4> QED
        BY <1>4, <3>1, <4>1, Zenon
    <3>2. CASE q # p
      <4>1. at'[q] = at[q] /\ arg'[q] = arg[q] /\ calls'[q] = calls[q]
        BY <1>1, <3>2, Zenon DEF TypeOK
      <4> QED
        BY <2>2, <4>1, Zenon DEF Unwrapped, Counted
    <3> QED
      BY <3>1, <3>2, Zenon
  <2> QED
    BY <2>1, <2>2, Zenon DEF Unwrapped, Counted
<1>6. Standing(b, h, t, k)'
  <2>1. \A q \in Producers : at'[q] = "cas" => at[q] = "cas"
    BY <1>1, Zenon DEF TypeOK
  <2> QED
    BY <1>1, <1>2, <2>1, Zenon DEF Unwrapped, Standing
<1>7. Marked(h, t, k)'
  BY <1>1, <1>2, Zenon DEF Unwrapped, Marked
<1>8. Copied(t)'
  <2>1. \A q \in Producers : at'[q] = "publish" => at[q] = "publish" /\ arg'[q] = arg[q]
    BY <1>1, Zenon DEF TypeOK
  <2> QED
    BY <1>1, <2>1, Zenon DEF Unwrapped, Copied
<1> QED
  BY <1>5, <1>6, <1>7, <1>8, Zenon DEF Unwrapped

(* Reading head, at first or after a lost reservation.                     *)
LEMMA LoadNumbered ==
    ASSUME TypeOK, NEW b \in Nat, NEW h \in Nat, NEW t \in Nat,
           NEW k \in [Producers -> Nat], NEW R \in SUBSET Values,
           Unwrapped(b, h, t, k, R), NEW p \in Producers, PushLoad(p) \/ PushLost(p)
    PROVE  Unwrapped(b, h, t, [k EXCEPT ![p] = h], R)'
<1>1. /\ at[p] \in {"load", "cas"} /\ at' = [at EXCEPT ![p] = "test"]
      /\ pos' = [pos EXCEPT ![p] = head]
      /\ UNCHANGED <<head, tail, seq, value, arg, calls, consumer>>
  BY Zenon DEF PushLoad, PushLost, queue
<1>2. Writing' = Writing /\ Placed' = Placed \cup {p} /\ Eldest(t)' = Eldest(t) /\ p \notin Writing
  BY <1>1, ZenonT(30) DEF Writing, Placed, Eldest, TypeOK
<1>3. PICK m \in [Producers -> Nat] : m = [k EXCEPT ![p] = h]
  BY ZenonT(30)
<1>4. m[p] = h /\ \A q \in Producers \ {p} : m[q] = k[q]
  BY <1>3, Zenon
<1>5. b <= h /\ Placed \subseteq Producers /\ Writing \subseteq Producers
  BY Close DEF Placed, Writing
<1>6. Counted(b, h, R)'
  <2>1. \A q \in Producers : at'[q] \in {"load", "test", "cas"} => at[q] \in {"load", "test", "cas"}
    BY <1>1, Zenon DEF TypeOK
  <2> QED
    BY <1>1, <2>1, Zenon DEF Unwrapped, Counted
<1>7. Standing(b, h, t, m)'
  <2>1. ASSUME NEW q \in Placed'
        PROVE  pos'[q] = At(m[q]) /\ b <= m[q] /\ m[q] <= h
    <3>1. CASE q = p
      BY <1>1, <1>4, <1>5, <3>1 DEF Unwrapped, Standing, TypeOK
    <3>2. CASE q # p
      <4>1. q \in Placed /\ q \in Producers
        BY <1>2, <1>5, <2>1, <3>2, Zenon
      <4>2. pos'[q] = pos[q] /\ m[q] = k[q]
        BY <1>1, <1>4, <3>2, <4>1, Zenon DEF TypeOK
      <4> QED
        BY <4>1, <4>2, Zenon DEF Unwrapped, Standing
    <3> QED
      BY <3>1, <3>2, Zenon
  <2>2. \A q \in Writing : m[q] = k[q]
    BY <1>2, <1>4, <1>5, Zenon
  <2>3. ASSUME NEW q \in Producers, at'[q] = "cas" PROVE at[q] = "cas" /\ m[q] = k[q]
    BY <1>1, <1>4, <2>3, Zenon DEF TypeOK
  <2> QED
    BY <1>1, <1>2, <2>1, <2>2, <2>3, Zenon DEF Unwrapped, Standing
<1>8. Marked(h, t, m)'
  <2>2. \A q \in Writing : m[q] = k[q]
    BY <1>2, <1>4, <1>5, Zenon
  <2> QED
    BY <1>1, <1>2, <2>2, Zenon DEF Unwrapped, Marked
<1>9. Copied(t)'
  <2>1. \A q \in Producers : at'[q] = "publish" => at[q] = "publish" /\ pos'[q] = pos[q]
    BY <1>1, Zenon DEF TypeOK
  <2> QED
    BY <1>1, <2>1, Zenon DEF Unwrapped, Copied
<1> QED
  BY <1>3, <1>6, <1>7, <1>8, <1>9, Zenon DEF Unwrapped

(* What the comparison in bh_mpsc_queue_push finds out: diff < 0 means a   *)
(* full queue, and diff == 0 that the slot of a pos that is still head is  *)
(* free.                                                                   *)
LEMMA Verdict ==
    ASSUME TypeOK, NEW b \in Nat, NEW h \in Nat, NEW t \in Nat,
           NEW k \in [Producers -> Nat], NEW R \in SUBSET Values,
           Unwrapped(b, h, t, k, R), NEW p \in Producers, at[p] = "test"
    PROVE  LET d == Diff(seq[SlotOf(pos[p])], pos[p]) IN
           /\ d \in Int
           /\ d < 0 => h = Eldest(t) + Capacity
           /\ d = 0 /\ k[p] = h => h < Eldest(t) + Capacity
<1>1. pos[p] = At(k[p]) /\ b <= k[p] /\ k[p] <= h /\ k[p] \in Int
  BY DEF Unwrapped, Standing, Placed
<1>2. PICK o \in Int : o = Eldest(t)
  BY Close, Zenon
<1>3. PICK x \in o .. o + Capacity - 1 : SlotOf(x) = SlotOf(k[p])
  BY <1>1, <1>2, SlotCovered, ZenonT(30)
<1>4. x \in Int
  BY <1>2, <1>3, Sizes
<1>5. SlotOf(pos[p]) = SlotOf(x)
  BY <1>1, <1>3, SlotAt, Zenon
<1>6. PICK y \in Int : y \in {x, x + 1} /\ seq[SlotOf(x)] = At(y)
  BY <1>2, <1>3, <1>4 DEF Unwrapped, Marked
<1>7. b <= o /\ h <= o + Capacity /\ o <= h /\ 2 * (h - b + Capacity) < Modulus
  BY <1>2, Close
<1>8. 2 * (y - k[p]) < Modulus /\ 2 * (k[p] - y) < Modulus
  BY <1>1, <1>2, <1>3, <1>4, <1>6, <1>7, Sizes
<1>9. Diff(seq[SlotOf(pos[p])], pos[p]) = y - k[p]
  BY <1>1, <1>5, <1>6, <1>8, DiffNear, Zenon
<1>10. k[p] - x < Capacity /\ x - k[p] < Capacity => x = k[p]
  BY <1>1, <1>3, <1>4, SlotNear, Zenon
<1>11. y - k[p] < 0 => h = o + Capacity
  BY <1>1, <1>3, <1>4, <1>6, <1>7, <1>10, Sizes
<1>12. y - k[p] = 0 /\ k[p] = h => h < o + Capacity
  BY <1>1, <1>3, <1>4, <1>6, <1>7, <1>10, Sizes
<1> QED
  BY <1>1, <1>2, <1>6, <1>9, <1>11, <1>12, SMTT(30)

(* The comparison of the sequence number lets a push go on to its          *)
(* reservation only if there was room at the position it has read.         *)
LEMMA TestNumbered ==
    ASSUME TypeOK, NEW b \in Nat, NEW h \in Nat, NEW t \in Nat,
           NEW k \in [Producers -> Nat], NEW R \in SUBSET Values,
           Unwrapped(b, h, t, k, R), NEW p \in Producers, PushTest(p)
    PROVE  Unwrapped(b, h, t, k, R)'
<1> DEFINE d == Diff(seq[SlotOf(pos[p])], pos[p])
<1>1. /\ at[p] = "test"
      /\ at' = [at EXCEPT ![p] = IF d = 0 THEN "cas" ELSE IF d < 0 THEN "idle" ELSE "load"]
      /\ UNCHANGED <<head, tail, seq, value, pos, arg, calls, consumer>>
  BY Zenon DEF PushTest, queue
<1>2. d = 0 /\ k[p] = h => h < Eldest(t) + Capacity
  BY <1>1, Verdict, Zenon
<1> HIDE DEF d
<1>3. Eldest(t)' = Eldest(t)
  BY <1>1, Zenon DEF Eldest
<1>4. Writing' = Writing /\ Placed' \subseteq Placed /\ Writing \subseteq Placed
  BY <1>1, Zenon DEF Writing, Placed, TypeOK
<1>5. Counted(b, h, R)'
  <2>1. \A q \in Producers : at'[q] \in {"load", "test", "cas"} => at[q] \in {"load", "test", "cas"}
    BY <1>1, Zenon DEF TypeOK
  <2> QED
    BY <1>1, <2>1, Zenon DEF Unwrapped, Counted
<1>6. Standing(b, h, t, k)'
  <2>1. ASSUME NEW q \in Producers, at'[q] = "cas", k[q] = h
        PROVE  h < Eldest(t) + Capacity
    <3>1. CASE q = p
      <4>1. d = 0
        BY <1>1, <2>1, <3>1, Zenon DEF TypeOK
      <4> QED
        BY <1>2, <2>1, <3>1, <4>1, Zenon
    <3>2. CASE q # p
      <4>1. at[q] = "cas"
        BY <1>1, <2>1, <3>2, Zenon DEF TypeOK
      <4> QED
        BY <2>1, <4>1, Zenon DEF Unwrapped, Standing
    <3> QED
      BY <3>1, <3>2, Zenon
  <2> QED
    BY <1>1, <1>3, <1>4, <2>1, Zenon DEF Unwrapped, Standing
<1>7. Marked(h, t, k)'
  BY <1>1, <1>3, <1>4, Zenon DEF Unwrapped, Marked
<1>8. Copied(t)'
  <2>1. \A q \in Producers : at'[q] = "publish" => at[q] = "publish"
    BY <1>1, Zenon DEF TypeOK
  <2> QED
    BY <1>1, <2>1, Zenon DEF Unwrapped, Copied
<1> QED
  BY <1>5, <1>6, <1>7, <1>8, Zenon DEF Unwrapped

(* A successful reservation was for the number that head stands for.       *)
LEMMA ReserveHead ==
    ASSUME TypeOK, NEW b \in Nat, NEW h \in Nat, NEW t \in Nat,
           NEW k \in [Producers -> Nat], NEW R \in SUBSET Values,
           Unwrapped(b, h, t, k, R), NEW p \in Producers, PushReserve(p)
    PROVE  k[p] = h /\ h < Eldest(t) + Capacity
<1>1. at[p] = "cas" /\ head = pos[p]
  BY Zenon DEF PushReserve
<1>2. pos[p] = At(k[p]) /\ b <= k[p] /\ k[p] <= h /\ k[p] \in Int /\ head = At(h)
  BY <1>1 DEF Unwrapped, Standing, Placed
<1>3. h - b + Capacity < Modulus
  BY Close, Sizes
<1>4. h - k[p] < Modulus /\ k[p] - h < Modulus
  BY <1>2, <1>3, Sizes
<1>5. k[p] = h
  <2>1. PICK x \in Int : x = k[p]
    BY <1>2, Zenon
  <2>2. At(x) = At(h) /\ h \in Int /\ h - x < Modulus /\ x - h < Modulus
    BY <1>1, <1>2, <1>4, <2>1
  <2>3. x = h
    BY <2>2, AtNear, Zenon
  <2> QED
    BY <2>1, <2>3, Zenon
<1> QED
  BY <1>1, <1>5, Zenon DEF Unwrapped, Standing

(* A successful compare-and-exchange reserves the next position, for a     *)
(* value of its own.                                                       *)
LEMMA ReserveNumbered ==
    ASSUME TypeOK, NEW b \in Nat, NEW h \in Nat, NEW t \in Nat,
           NEW k \in [Producers -> Nat], NEW R \in SUBSET Values,
           Unwrapped(b, h, t, k, R), NEW p \in Producers, PushReserve(p)
    PROVE  \E v \in Values : Unwrapped(b, h + 1, t, k, R \cup {v})'
<1>1. /\ at[p] = "cas" /\ head' = At(pos[p] + 1)
      /\ at' = [at EXCEPT ![p] = "write"]
      /\ UNCHANGED <<tail, seq, value, pos, arg, calls, consumer>>
  BY Zenon DEF PushReserve
<1>2. k[p] = h /\ h < Eldest(t) + Capacity /\ pos[p] = At(h)
  BY <1>1, ReserveHead DEF Unwrapped, Standing, Placed
<1>3. Eldest(t)' = Eldest(t)
  BY <1>1, Zenon DEF Eldest
<1>4. /\ Writing' = Writing \cup {p} /\ p \notin Writing /\ Writing \subseteq Producers
      /\ Placed' = Placed /\ Placed \subseteq Producers
  BY <1>1, ZenonT(30) DEF Writing, Placed, TypeOK
<1>5. PICK v \in Values : v = arg[p] /\ v \notin R /\ v = <<p, calls[p]>>
  BY <1>1, ZenonT(30) DEF Unwrapped, Counted
<1>6. Counted(b, h + 1, R \cup {v})'
  <2>1. Cardinality(R \cup {v}) = Cardinality(R) + 1 /\ Cardinality(R) \in Nat
    BY <1>5, Few, FS_AddElement, Zenon
  <2>2. h + 1 = b + Cardinality(R \cup {v})
    BY <2>1 DEF Unwrapped, Counted
  <2>3. \A u \in R \cup {v} : u[2] <= calls[u[1]]
    BY <1>5 DEF Unwrapped, Counted, TypeOK
  <2>4. ASSUME NEW q \in Producers, at'[q] \in {"load", "test", "cas"}
        PROVE  arg[q] = <<q, calls[q]>> /\ arg[q] \in Values \ (R \cup {v})
    <3>1. q # p /\ at[q] \in {"load", "test", "cas"}
      BY <1>1, <2>4, Zenon DEF TypeOK
    <3>2. arg[q] = <<q, calls[q]>> /\ arg[q] \in Values \ R
      BY <3>1, Zenon DEF Unwrapped, Counted
    <3>3. arg[q] # v
      BY <1>5, <3>1, <3>2, SMTT(30)
    <3> QED
      BY <3>2, <3>3, Zenon
  <2> QED
    BY <1>1, <2>2, <2>3, <2>4, Zenon DEF Counted
<1>7. Standing(b, h + 1, t, k)'
  <2>1. head' = At(h + 1)
    BY <1>1, <1>2, AtSum
  <2>2. \A q \in Producers : at'[q] = "cas" => at[q] = "cas"
    BY <1>1, Zenon DEF TypeOK
  <2>3. \A q \in Producers : at'[q] = "cas" => k[q] # h + 1
    BY <2>2 DEF Unwrapped, Standing, Placed
  <2>4. \A q \in Writing : k[q] < h /\ t <= k[q]
    BY Zenon DEF Unwrapped, Standing
  <2>5. b <= Eldest(t) /\ t <= h /\ h + 1 <= Eldest(t) + Capacity
    BY <1>2, Close, Sizes, SMTT(30)
  <2>6. \A q \in Placed : pos[q] = At(k[q]) /\ b <= k[q] /\ k[q] <= h + 1
    BY <1>4 DEF Unwrapped, Standing
  <2>7. \A q \in Writing' : t <= k[q] /\ k[q] < h + 1
    BY <1>2, <1>4, <2>4, <2>5, SMTT(30)
  <2>8. \A q \in Writing' : \A r \in Writing' \ {q} : k[r] # k[q]
    BY <1>2, <1>4, <2>4, SMTT(30) DEF Unwrapped, Standing
  <2>9. tail' = At(t) /\ pos' = pos /\ t <= h + 1
    BY <1>1, <2>5, SMTT(30) DEF Unwrapped, Standing
  <2> QED
    BY <1>3, <1>4, <2>1, <2>3, <2>5, <2>6, <2>7, <2>8, <2>9, Zenon DEF Standing
<1>8. Marked(h + 1, t, k)'
  <2> SUFFICES ASSUME NEW x \in Eldest(t) .. Eldest(t) + Capacity - 1
               PROVE  seq[SlotOf(x)] = IF x < h + 1 /\ \A q \in Writing' : k[q] # x
                                       THEN At(x + 1) ELSE At(x)
    BY <1>1, <1>3, Zenon DEF Marked
  <2>1. seq[SlotOf(x)] = IF x < h /\ \A q \in Writing : k[q] # x THEN At(x + 1) ELSE At(x)
    BY Zenon DEF Unwrapped, Marked
  <2>2. x \in Int
    BY Close, Sizes
  <2> QED
    BY <1>2, <1>4, <2>1, <2>2
<1>9. Copied(t)'
  <2>1. \A q \in Producers : at'[q] = "publish" => at[q] = "publish"
    BY <1>1, Zenon DEF TypeOK
  <2> QED
    BY <1>1, <2>1, Zenon DEF Unwrapped, Copied
<1> QED
  BY <1>6, <1>7, <1>8, <1>9, Zenon DEF Unwrapped

(* A reserved slot is its producer's own.                                  *)
LEMMA SlotsApart ==
    ASSUME NEW b \in Nat, NEW h \in Nat, NEW t \in Nat,
           NEW k \in [Producers -> Nat], NEW R \in SUBSET Values,
           Unwrapped(b, h, t, k, R), NEW p \in Writing
    PROVE  /\ SlotOf(pos[p]) = SlotOf(k[p])
           /\ k[p] \in Int /\ Eldest(t) <= k[p] /\ k[p] < h
           /\ \A x \in Eldest(t) .. Eldest(t) + Capacity - 1 :
                  SlotOf(x) = SlotOf(pos[p]) => x = k[p]
           /\ \A q \in Writing : SlotOf(pos[q]) = SlotOf(pos[p]) => q = p
           /\ consumer.at = "release" => SlotOf(pos[p]) # SlotOf(t - 1)
<1>1. PICK o \in Int : o = Eldest(t) /\ o <= t /\ h <= o + Capacity
  BY Close, Zenon
<1>2. \A q \in Writing :
          /\ k[q] \in Int /\ o <= k[q] /\ t <= k[q] /\ k[q] < h
          /\ SlotOf(pos[q]) = SlotOf(k[q])
  BY <1>1, Close, SlotAt DEF Unwrapped, Standing
<1>3. \A x \in o .. o + Capacity - 1 : SlotOf(x) = SlotOf(pos[p]) => x = k[p]
  <2> SUFFICES ASSUME NEW x \in o .. o + Capacity - 1, SlotOf(x) = SlotOf(k[p])
               PROVE  x = k[p]
    BY <1>2, Zenon
  <2>1. x \in Int /\ x - k[p] < Capacity /\ k[p] - x < Capacity
    BY <1>1, <1>2, Sizes
  <2> QED
    BY <1>2, <2>1, SlotNear, Zenon
<1>4. ASSUME NEW q \in Writing, SlotOf(pos[q]) = SlotOf(pos[p]) PROVE q = p
  <2>1. k[q] \in o .. o + Capacity - 1
    BY <1>1, <1>2, Sizes
  <2>2. k[q] = k[p]
    BY <1>2, <1>3, <1>4, <2>1, Zenon
  <2> QED
    BY <2>2, Zenon DEF Unwrapped, Standing
<1>5. ASSUME consumer.at = "release" PROVE SlotOf(pos[p]) # SlotOf(t - 1)
  <2>1. t - 1 = o
    BY <1>1, <1>5, Zenon DEF Eldest
  <2>2. t - 1 \in o .. o + Capacity - 1 /\ t - 1 # k[p]
    BY <1>1, <1>2, <2>1, Sizes, SMTT(30)
  <2> QED
    BY <1>3, <2>2, Zenon
<1> QED
  BY <1>1, <1>2, <1>3, <1>4, <1>5, Zenon

(* Filling a reserved slot.                                                *)
LEMMA WriteNumbered ==
    ASSUME TypeOK, NEW b \in Nat, NEW h \in Nat, NEW t \in Nat,
           NEW k \in [Producers -> Nat], NEW R \in SUBSET Values,
           Unwrapped(b, h, t, k, R), NEW p \in Producers, PushWrite(p)
    PROVE  Unwrapped(b, h, t, k, R)'
<1>1. /\ at[p] = "write" /\ at' = [at EXCEPT ![p] = "publish"]
      /\ value' = [value EXCEPT ![SlotOf(pos[p])] = arg[p]]
      /\ UNCHANGED <<head, tail, seq, pos, arg, calls, consumer>>
  BY Zenon DEF PushWrite
<1>2. Writing' = Writing /\ Placed' = Placed /\ Eldest(t)' = Eldest(t) /\ p \in Writing
  BY <1>1, Zenon DEF Writing, Placed, Eldest, TypeOK
<1>3. Counted(b, h, R)'
  <2>1. \A q \in Producers : at'[q] \in {"load", "test", "cas"} => at[q] \in {"load", "test", "cas"}
    BY <1>1, Zenon DEF TypeOK
  <2> QED
    BY <1>1, <2>1, Zenon DEF Unwrapped, Counted
<1>4. Standing(b, h, t, k)'
  <2>1. \A q \in Producers : at'[q] = "cas" => at[q] = "cas"
    BY <1>1, Zenon DEF TypeOK
  <2> QED
    BY <1>1, <1>2, <2>1, ZenonT(30) DEF Unwrapped, Standing
<1>5. Marked(h, t, k)'
  BY <1>1, <1>2, ZenonT(30) DEF Unwrapped, Marked
<1>6. Copied(t)'
  <2>1. \A q \in Writing : SlotOf(pos[q]) = SlotOf(pos[p]) => q = p
    BY <1>2, SlotsApart, Zenon
  <2>2. ASSUME NEW q \in Producers, at'[q] = "publish"
        PROVE  value'[SlotOf(pos[q])] = arg[q]
    <3>1. CASE q = p
      <4>1. SlotOf(pos[p]) \in Indices
        BY SlotIndex, Sizes, SMTT(30) DEF TypeOK, Positions
      <4> QED
        BY <1>1, <3>1, <4>1, Zenon DEF TypeOK
    <3>2. CASE q # p
      <4>1. at[q] = "publish" /\ q \in Writing
        BY <1>1, <2>2, <3>2, Zenon DEF TypeOK, Writing
      <4>2. SlotOf(pos[q]) # SlotOf(pos[p])
        BY <2>1, <3>2, <4>1, Zenon
      <4>3. value'[SlotOf(pos[q])] = value[SlotOf(pos[q])]
        BY <1>1, <4>2, SlotIndex, Sizes, SMTT(30) DEF TypeOK, Positions
      <4> QED
        BY <4>1, <4>3, Zenon DEF Unwrapped, Copied
    <3> QED
      BY <3>1, <3>2, Zenon
  <2>3. ASSUME consumer.at = "release" PROVE consumer.value = value'[SlotOf(t - 1)]
    <3>1. SlotOf(pos[p]) # SlotOf(t - 1)
      BY <1>2, <2>3, SlotsApart
    <3>2. value'[SlotOf(t - 1)] = value[SlotOf(t - 1)]
      BY <1>1, <3>1, SlotIndex, SMTT(30) DEF TypeOK
    <3> QED
      BY <2>3, <3>2, Zenon DEF Unwrapped, Copied
  <2> QED
    BY <1>1, <2>2, <2>3, Zenon DEF Copied
<1> QED
  BY <1>3, <1>4, <1>5, <1>6, Zenon DEF Unwrapped

(* Publishing it: its sequence number becomes the next position.           *)
LEMMA PublishNumbered ==
    ASSUME TypeOK, NEW b \in Nat, NEW h \in Nat, NEW t \in Nat,
           NEW k \in [Producers -> Nat], NEW R \in SUBSET Values,
           Unwrapped(b, h, t, k, R), NEW p \in Producers, PushPublish(p)
    PROVE  Unwrapped(b, h, t, k, R)'
<1>1. /\ at[p] = "publish" /\ at' = [at EXCEPT ![p] = "idle"]
      /\ seq' = [seq EXCEPT ![SlotOf(pos[p])] = At(pos[p] + 1)]
      /\ UNCHANGED <<head, tail, value, pos, arg, calls, consumer>>
  BY Zenon DEF PushPublish
<1>2. /\ Writing' = Writing \ {p} /\ Placed' = Placed \ {p}
      /\ p \in Writing /\ p \in Placed /\ Eldest(t)' = Eldest(t)
  BY <1>1, Zenon DEF Writing, Placed, Eldest, TypeOK
<1>3. Counted(b, h, R)'
  <2>1. \A q \in Producers : at'[q] \in {"load", "test", "cas"} => at[q] \in {"load", "test", "cas"}
    BY <1>1, Zenon DEF TypeOK
  <2> QED
    BY <1>1, <2>1, Zenon DEF Unwrapped, Counted
<1>4. Standing(b, h, t, k)'
  <2>1. \A q \in Producers : at'[q] = "cas" => at[q] = "cas"
    BY <1>1, Zenon DEF TypeOK
  <2> QED
    BY <1>1, <1>2, <2>1, Zenon DEF Unwrapped, Standing
<1>5. Marked(h, t, k)'
  <2>1. pos[p] = At(k[p]) /\ k[p] \in Int /\ k[p] < h
    BY <1>2 DEF Unwrapped, Standing
  <2>2. PICK y \in Positions : y = At(pos[p] + 1) /\ y = At(k[p] + 1)
    <3>1. PICK z \in Int : z = k[p] + 1
      BY <2>1
    <3>2. At(At(k[p]) + 1) = At(k[p] + 1)
      BY <2>1, AtSum
    <3> QED
      BY <2>1, <3>1, <3>2, AtPosition, Zenon
  <2>3. seq' = [seq EXCEPT ![SlotOf(pos[p])] = y]
    BY <1>1, <2>2, Zenon
  <2> SUFFICES ASSUME NEW x \in Eldest(t) .. Eldest(t) + Capacity - 1
               PROVE  seq'[SlotOf(x)] = IF x < h /\ \A q \in Writing' : k[q] # x
                                        THEN At(x + 1) ELSE At(x)
    BY <1>2, Zenon DEF Marked
  <2>4. seq[SlotOf(x)] = IF x < h /\ \A q \in Writing : k[q] # x THEN At(x + 1) ELSE At(x)
    BY Zenon DEF Unwrapped, Marked
  <2>5. x \in Int /\ SlotOf(x) \in Indices
    BY Close, Sizes, SlotIndex
  <2>6. CASE x = k[p]
    <3>1. SlotOf(x) = SlotOf(pos[p])
      BY <1>2, <2>6, SlotsApart, SMTT(30)
    <3>2. seq'[SlotOf(x)] = y
      BY <2>3, <2>5, <3>1, Zenon DEF TypeOK
    <3>3. \A q \in Writing' : k[q] # x
      BY <1>2, <2>6, Zenon DEF Unwrapped, Standing
    <3> QED
      BY <2>1, <2>2, <2>6, <3>2, <3>3, Zenon
  <2>7. CASE x # k[p]
    <3>1. SlotOf(x) # SlotOf(pos[p])
      BY <1>2, <2>7, SlotsApart
    <3>2. seq'[SlotOf(x)] = seq[SlotOf(x)]
      BY <2>3, <2>5, <3>1, Zenon DEF TypeOK
    <3>3. (\A q \in Writing' : k[q] # x) <=> (\A q \in Writing : k[q] # x)
      BY <1>2, <2>7, Zenon
    <3> QED
      BY <2>4, <3>2, <3>3
  <2> QED
    BY <2>6, <2>7, Zenon
<1>6. Copied(t)'
  <2>1. \A q \in Producers : at'[q] = "publish" => at[q] = "publish"
    BY <1>1, Zenon DEF TypeOK
  <2> QED
    BY <1>1, <2>1, Zenon DEF Unwrapped, Copied
<1> QED
  BY <1>3, <1>4, <1>5, <1>6, Zenon DEF Unwrapped

(* A pop goes on only with a value that has been published.                *)
LEMMA TakeReady ==
    ASSUME TypeOK, NEW b \in Nat, NEW h \in Nat, NEW t \in Nat,
           NEW k \in [Producers -> Nat], NEW R \in SUBSET Values,
           Unwrapped(b, h, t, k, R), PopTake
    PROVE  /\ Eldest(t) = t /\ t < h /\ \A p \in Writing : k[p] # t
           /\ SlotOf(tail) = SlotOf(t)
<1>1. consumer.at = "idle" /\ Diff(seq[SlotOf(tail)], At(tail + 1)) = 0
  BY Zenon DEF PopTake
<1>2. Eldest(t) = t
  BY <1>1, Zenon DEF Eldest
<1>3. tail = At(t) /\ SlotOf(tail) = SlotOf(t)
  BY SlotAt DEF Unwrapped, Standing
<1>4. At(tail + 1) = At(t + 1)
  BY <1>3, AtSum
<1>5. t \in Eldest(t) .. Eldest(t) + Capacity - 1
  BY <1>2, Sizes
<1>6. ASSUME ~ (t < h /\ \A p \in Writing : k[p] # t) PROVE FALSE
  <2>1. seq[SlotOf(t)] = At(t)
    BY <1>5, <1>6, Zenon DEF Unwrapped, Marked
  <2>2. PICK u \in Int : u = t + 1
    OBVIOUS
  <2>3. Diff(At(t), At(u)) = t - u
    BY <2>2, DiffNear, MpscAssumption
  <2>4. Diff(At(t), At(u)) = 0
    BY <1>1, <1>3, <1>4, <2>1, <2>2, Zenon
  <2> QED
    BY <2>2, <2>3, <2>4
<1> QED
  BY <1>2, <1>3, <1>6, Zenon

(* Reading the oldest slot and moving the tail.                            *)
LEMMA TakeNumbered ==
    ASSUME TypeOK, NEW b \in Nat, NEW h \in Nat, NEW t \in Nat,
           NEW k \in [Producers -> Nat], NEW R \in SUBSET Values,
           Unwrapped(b, h, t, k, R), PopTake
    PROVE  Unwrapped(b, h, t + 1, k, R)'
<1>1. /\ tail' = At(tail + 1)
      /\ consumer' = [at |-> "release", value |-> value[SlotOf(tail)]]
      /\ UNCHANGED <<head, seq, value, at, pos, arg, calls>>
  BY Zenon DEF PopTake
<1>2. Eldest(t) = t /\ t < h /\ SlotOf(tail) = SlotOf(t) /\ \A p \in Writing : k[p] # t
  BY TakeReady
<1>3. PICK u \in Nat : u = t + 1
  OBVIOUS
<1>4. consumer'.at = "release" /\ consumer'.value = value[SlotOf(t)]
  BY <1>1, <1>2, Zenon
<1>5. Eldest(u)' = Eldest(t) /\ u - 1 = t
  BY <1>2, <1>3, <1>4 DEF Eldest
<1>6. Writing' = Writing /\ Placed' = Placed
  BY <1>1, Zenon DEF Writing, Placed
<1>7. Counted(b, h, R)'
  BY <1>1, Zenon DEF Unwrapped, Counted
<1>8. Standing(b, h, u, k)'
  <2>1. tail' = At(u)
    BY <1>1, <1>3, AtSum DEF Unwrapped, Standing
  <2>2. u <= h
    BY <1>2, <1>3, SMTT(30)
  <2>3. \A p \in Writing : u <= k[p] /\ k[p] < h
    BY <1>2, <1>3, Close, SMTT(30) DEF Unwrapped, Standing
  <2> QED
    BY <1>1, <1>5, <1>6, <2>1, <2>2, <2>3, ZenonT(30) DEF Unwrapped, Standing
<1>9. Marked(h, u, k)'
  BY <1>1, <1>5, <1>6, Zenon DEF Unwrapped, Marked
<1>10. Copied(u)'
  BY <1>1, <1>4, <1>5, Zenon DEF Unwrapped, Copied
<1> QED
  BY <1>3, <1>7, <1>8, <1>9, <1>10, ZenonT(30) DEF Unwrapped

(* Giving the slot back for the next round.                                *)
LEMMA ReleaseNumbered ==
    ASSUME TypeOK, NEW b \in Nat, NEW h \in Nat, NEW t \in Nat,
           NEW k \in [Producers -> Nat], NEW R \in SUBSET Values,
           Unwrapped(b, h, t, k, R), PopRelease
    PROVE  Unwrapped(b, h, t, k, R)'
<1>1. /\ consumer.at = "release" /\ consumer' = [consumer EXCEPT !.at = "idle"]
      /\ seq' = [seq EXCEPT ![SlotOf(At(tail - 1))] = At(tail - 1 + Capacity)]
      /\ UNCHANGED <<head, tail, value, at, pos, arg, calls>>
  BY Zenon DEF PopRelease
<1>2. Eldest(t) = t - 1 /\ Eldest(t)' = t /\ consumer'.at = "idle"
  BY <1>1, Zenon DEF Eldest, TypeOK
<1>3. Writing' = Writing /\ Placed' = Placed
  BY <1>1, Zenon DEF Writing, Placed
<1>4. tail = At(t)
  BY Zenon DEF Unwrapped, Standing
<1>5. b <= t - 1 /\ h <= t - 1 + Capacity
  BY <1>2, Close
<1>6. Counted(b, h, R)'
  BY <1>1, Zenon DEF Unwrapped, Counted
<1>7. Standing(b, h, t, k)'
  <2>1. b <= t /\ t <= h /\ h <= t + Capacity
    BY <1>5, Close, Sizes
  <2>2. ASSUME NEW p \in Producers, at[p] = "cas", k[p] = h PROVE h < t + Capacity
    BY <1>5, Sizes
  <2> QED
    BY <1>1, <1>2, <1>3, <2>1, <2>2, ZenonT(30) DEF Unwrapped, Standing
<1>8. Marked(h, t, k)'
  <2>1. PICK s \in Int : s = t - 1
    OBVIOUS
  <2>2. SlotOf(At(tail - 1)) = SlotOf(s) /\ SlotOf(s) \in Indices
    <3>1. At(At(t) + (-1)) = At(t + (-1))
      BY AtSum
    <3>2. At(t) + (-1) = At(t) - 1 /\ t + (-1) = s
      BY <2>1, AtPosition, Sizes, Zenon DEF Positions
    <3> QED
      BY <1>4, <3>1, <3>2, SlotAt, SlotIndex, Zenon
  <2>3. PICK y \in Positions : y = At(tail - 1 + Capacity) /\ y = At(s + Capacity)
    <3>1. PICK c \in Int, z \in Int : c = Capacity - 1 /\ z = t + c
      BY Sizes
    <3>2. At(At(t) + c) = At(t + c)
      BY <3>1, AtSum
    <3>3. At(t) + c = tail - 1 + Capacity /\ z = s + Capacity
      BY <1>4, <2>1, <3>1, AtPosition, Sizes DEF Positions
    <3> QED
      BY <3>1, <3>2, <3>3, AtPosition, Zenon
  <2>4. seq' = [seq EXCEPT ![SlotOf(s)] = y]
    BY <1>1, <2>2, <2>3, ZenonT(30)
  <2> SUFFICES ASSUME NEW x \in t .. t + Capacity - 1
               PROVE  seq'[SlotOf(x)] = IF x < h /\ \A q \in Writing : k[q] # x
                                        THEN At(x + 1) ELSE At(x)
    BY <1>2, <1>3, Zenon DEF Marked
  <2>5. x \in Int /\ SlotOf(x) \in Indices
    BY Sizes, SlotIndex
  <2>6. CASE x = s + Capacity
    <3>1. SlotOf(x) = SlotOf(s)
      BY <2>6, SlotLap, Zenon
    <3>2. seq'[SlotOf(x)] = y
      BY <2>4, <2>5, <3>1, Zenon DEF TypeOK
    <3>3. ~ x < h
      BY <1>5, <2>1, <2>6
    <3> QED
      BY <2>3, <2>6, <3>2, <3>3, Zenon
  <2>7. CASE x # s + Capacity
    <3>1. x \in Eldest(t) .. Eldest(t) + Capacity - 1
      BY <1>2, <2>1, <2>5, <2>7, Sizes, SMTT(30)
    <3>2. x - s < Capacity /\ s - x < Capacity /\ x # s
      BY <2>1, <2>5, <2>7, Sizes
    <3>3. SlotOf(x) # SlotOf(s)
      BY <2>5, <3>2, SlotNear, Zenon
    <3>4. seq'[SlotOf(x)] = seq[SlotOf(x)]
      BY <2>4, <2>5, <3>3 DEF TypeOK
    <3> QED
      BY <3>1, <3>4, Zenon DEF Unwrapped, Marked
  <2> QED
    BY <2>6, <2>7, Zenon
<1>9. Copied(t)'
  BY <1>1, <1>2, Zenon DEF Unwrapped, Copied
<1> QED
  BY <1>6, <1>7, <1>8, <1>9, Zenon DEF Unwrapped

(* Every step keeps the numbers.                                           *)
LEMMA NextNumbered == TypeOK /\ Numbered /\ [Next]_vars => Numbered'
<1> SUFFICES ASSUME TypeOK, Numbered, [Next]_vars PROVE Numbered'
  BY Zenon
<1>1. PICK b \in Nat, h \in Nat, t \in Nat, k \in [Producers -> Nat], R \in SUBSET Values :
          Unwrapped(b, h, t, k, R)
  BY Zenon DEF Numbered
<1>2. \A i \in Nat, j \in Nat, m \in [Producers -> Nat], S \in SUBSET Values :
          Unwrapped(b, i, j, m, S)' => Numbered'
  BY Zenon DEF Numbered
<1>3. ASSUME NEW p \in Producers, NewPush(p) \/ Push(p) PROVE Numbered'
  <2>1. CASE NewPush(p)
    BY <1>1, <1>2, <2>1, CallNumbered
  <2>2. CASE PushLoad(p) \/ PushLost(p)
    <3>1. [k EXCEPT ![p] = h] \in [Producers -> Nat]
      BY Zenon
    <3>2. Unwrapped(b, h, t, [k EXCEPT ![p] = h], R)'
      BY <1>1, <2>2, LoadNumbered, ZenonT(30)
    <3> QED
      BY <1>2, <3>1, <3>2, Zenon
  <2>3. CASE PushTest(p)
    BY <1>1, <1>2, <2>3, TestNumbered
  <2>4. CASE PushReserve(p)
    <3>1. PICK v \in Values : Unwrapped(b, h + 1, t, k, R \cup {v})'
      BY <1>1, <2>4, ReserveNumbered, ZenonT(30)
    <3>2. h + 1 \in Nat /\ R \cup {v} \in SUBSET Values
      OBVIOUS
    <3> QED
      BY <1>2, <3>1, <3>2, Zenon
  <2>5. CASE PushWrite(p)
    <3>1. Unwrapped(b, h, t, k, R)'
      BY <1>1, <2>5, WriteNumbered, SMTT(30)
    <3> QED
      BY <1>2, <3>1, Zenon
  <2>6. CASE PushPublish(p)
    <3>1. Unwrapped(b, h, t, k, R)'
      BY <1>1, <2>6, PublishNumbered, SMTT(30)
    <3> QED
      BY <1>2, <3>1, Zenon
  <2> QED
    BY <1>3, <2>1, <2>2, <2>3, <2>4, <2>5, <2>6, SMTT(30) DEF Push
<1>4. CASE PopTake
  <2>1. Unwrapped(b, h, t + 1, k, R)' /\ t + 1 \in Nat
    BY <1>1, <1>4, TakeNumbered
  <2> QED
    BY <1>2, <2>1, Zenon
<1>5. CASE PopRelease
  BY <1>1, <1>2, <1>5, ReleaseNumbered
<1>6. CASE UNCHANGED vars
  <2>1. Unwrapped(b, h, t, k, R)'
    BY <1>1, <1>6 DEF Unwrapped, Counted, Standing, Marked, Copied, Placed, Writing,
                      Eldest, vars, queue
  <2> QED
    BY <1>2, <2>1, Zenon
<1> QED
  BY <1>3, <1>4, <1>5, <1>6, Zenon DEF Next

(* Hence the positions stand for numbers that do not wrap, in every        *)
(* reachable state.                                                        *)
LEMMA Inductive == Spec => []IInv
<1>1. Init => IInv
  BY InitTyped, InitNumbered, Zenon DEF IInv
<1>2. IInv /\ [Next]_vars => IInv'
  BY NextTyped, NextNumbered, Zenon DEF IInv
<1> QED
  BY <1>1, <1>2, PTL DEF Spec

(* Different numbers less than a round apart have different slots.         *)
LEMMA Exclusive == IInv => SlotExclusive
<1> SUFFICES ASSUME TypeOK, Numbered PROVE SlotExclusive
  BY Zenon DEF IInv
<1>1. PICK b \in Nat, h \in Nat, t \in Nat, k \in [Producers -> Nat], R \in SUBSET Values :
          Unwrapped(b, h, t, k, R)
  BY Zenon DEF Numbered
<1>2. SlotOf(At(tail - 1)) = SlotOf(t - 1)
  <2>1. At(At(t) + (-1)) = At(t + (-1)) /\ tail = At(t)
    BY <1>1, AtSum DEF Unwrapped, Standing
  <2>2. At(t) + (-1) = At(t) - 1 /\ t + (-1) = t - 1
    BY AtPosition, Sizes, Zenon DEF Positions
  <2> QED
    BY <2>1, <2>2, SlotAt, SMTT(30)
<1> QED
  BY <1>1, <1>2, SlotsApart DEF SlotExclusive

(* A slot of the ring that bh_mpsc_queue_push has reserved with its        *)
(* compare-and-swap is written by no other producer, and is not the one    *)
(* that bh_mpsc_queue_pop reads and gives back, until it is published.     *)
THEOREM SlotsOwned == Spec => []SlotExclusive
<1> QED
  BY Inductive, Exclusive, PTL

-----------------------------------------------------------------------------
(* The refinement of BoundedFifo.                                          *)

(* What position x of the queue holds.                                     *)
Read(x) == ValueAt(At(x))

(* Places of the queue: o is the number of the oldest, n how many.         *)
Span(h, t, o, n) == o = Eldest(t) /\ n = h - o

(* The values in the queue, by the numbers of their positions.             *)
Reads(h, k, o, n) ==
    /\ Contents \in [1 .. n -> Values \cup {NULL}]
    /\ \A i \in 1 .. n : Contents[i] = Read(o + i - 1)
    /\ \A x \in o .. h - 1 :
          /\ \A p \in Writing : k[p] = x => Read(x) = arg[p]
          /\ (\A p \in Writing : k[p] # x) => Read(x) = value[SlotOf(x)]

ContentsRead ==
    \A b \in Nat, h \in Nat, t \in Nat, k \in [Producers -> Nat], R \in SUBSET Values,
       o \in Int, n \in Nat :
        TypeOK /\ Unwrapped(b, h, t, k, R) /\ Span(h, t, o, n) => Reads(h, k, o, n)

(* The contents of the queue are what its positions hold.                  *)
LEMMA ReadWhat == ContentsRead
<1> SUFFICES ASSUME NEW b \in Nat, NEW h \in Nat, NEW t \in Nat,
                    NEW k \in [Producers -> Nat], NEW R \in SUBSET Values,
                    NEW o \in Int, NEW n \in Nat,
                    TypeOK, Unwrapped(b, h, t, k, R), o = Eldest(t), n = h - o
             PROVE  Reads(h, k, o, n)
  BY Zenon DEF ContentsRead, Span
<1>1. /\ o <= t /\ t <= h /\ h <= o + Capacity /\ b <= o
      /\ 2 * (h - b + Capacity) < Modulus
  BY Close, Zenon
<1>2. Oldest = At(o)
  <2>1. At(At(t) + (-1)) = At(t + (-1)) /\ tail = At(t)
    BY AtSum DEF Unwrapped, Standing
  <2>2. At(t) + (-1) = At(t) - 1 /\ t + (-1) = t - 1
    BY AtPosition, Sizes, Zenon DEF Positions
  <2> QED
    BY <1>1, <2>1, <2>2, Zenon DEF Oldest, Eldest
<1>3. At(head - Oldest) = n
  <2>1. At(At(h) - At(o)) = At(h - o) /\ head = At(h)
    BY AtDiff DEF Unwrapped, Standing
  <2>2. n \in Positions
    BY <1>1, Sizes DEF Positions
  <2>3. At(n) = n
    BY <2>2, AtSelf, Zenon
  <2> QED
    BY <1>2, <2>1, <2>2, <2>3, Zenon
<1>4. \A i \in 1 .. n : At(Oldest + i - 1) = At(o + i - 1)
  <2> SUFFICES ASSUME NEW i \in 1 .. n PROVE At(Oldest + i - 1) = At(o + i - 1)
    BY Zenon
  <2>1. PICK j \in Int : j = i - 1
    BY <1>1
  <2>2. At(At(o) + j) = At(o + j)
    BY AtSum, Zenon
  <2>3. At(o) + j = At(o) + i - 1 /\ o + j = o + i - 1
    BY <1>1, <2>1, AtPosition, Sizes, Zenon DEF Positions
  <2> QED
    BY <1>2, <2>2, <2>3, Zenon
<1>5. Contents = [i \in 1 .. n |-> Read(o + i - 1)]
  BY <1>3, <1>4, Zenon DEF Contents, Read
<1>6. ASSUME NEW x \in o .. h - 1
      PROVE  /\ Read(x) \in Values \cup {NULL}
             /\ \A p \in Writing : k[p] = x => Read(x) = arg[p]
             /\ (\A p \in Writing : k[p] # x) => Read(x) = value[SlotOf(x)]
  <2>1. x \in Int /\ SlotOf(x) \in Indices /\ SlotOf(At(x)) = SlotOf(x)
    BY <1>1, SlotIndex, SlotAt
  <2>2. \A p \in Writing : p \in Producers /\ arg[p] \in Values \cup {NULL}
    BY Zenon DEF Writing, TypeOK
  <2>3. \A p \in Writing : pos[p] = At(x) <=> k[p] = x
    <3> SUFFICES ASSUME NEW p \in Writing PROVE pos[p] = At(x) <=> k[p] = x
      BY Zenon
    <3>1. PICK y \in Int : y = k[p] /\ b <= y /\ y <= h /\ pos[p] = At(y)
      BY Close, SMTT(30) DEF Unwrapped, Standing
    <3>2. x - y < Modulus /\ y - x < Modulus
      BY <1>1, <2>1, <3>1, Sizes
    <3>3. At(y) = At(x) => y = x
      BY <2>1, <3>2, AtNear, Zenon
    <3> QED
      BY <3>1, <3>3, Zenon
  <2>4. ASSUME NEW p \in Writing, k[p] = x PROVE Read(x) = arg[p]
    <3>1. \A q \in Writing : pos[q] = At(x) <=> q = p
      BY <2>3, <2>4, Zenon DEF Unwrapped, Standing
    <3>2. (CHOOSE q \in Writing : pos[q] = At(x)) = p
      BY <3>1, Zenon
    <3> QED
      BY <3>1, <3>2, Zenon DEF Read, ValueAt
  <2>5. ASSUME \A p \in Writing : k[p] # x PROVE Read(x) = value[SlotOf(x)]
    BY <2>1, <2>3, <2>5, ZenonT(30) DEF Read, ValueAt
  <2>6. value[SlotOf(x)] \in Values \cup {NULL}
    BY <2>1, Zenon DEF TypeOK
  <2> QED
    BY <2>2, <2>4, <2>5, <2>6
<1>7. \A i \in 1 .. n : Read(o + i - 1) \in Values \cup {NULL}
  <2> SUFFICES ASSUME NEW i \in 1 .. n PROVE Read(o + i - 1) \in Values \cup {NULL}
    BY Zenon
  <2>1. o + i - 1 \in o .. h - 1
    OBVIOUS
  <2> QED
    BY <1>6, <2>1, Zenon
<1> QED
  BY <1>5, <1>6, <1>7, Zenon DEF Reads

(* The same after a step.                                                  *)
LEMMA ReadNext == ContentsRead'
BY ReadWhat, PTL

(* A function on 1 .. n is a sequence of length n.                         *)
LEMMA SeqOfFunction ==
    ASSUME NEW S, NEW n \in Nat, NEW f \in [1 .. n -> S]
    PROVE  f \in Seq(S) /\ Len(f) = n
OBVIOUS

(* A sequence that is one longer is the shorter one with its last element  *)
(* appended.                                                               *)
LEMMA SeqAppended ==
    ASSUME NEW S, NEW n \in Nat, NEW f \in [1 .. n -> S], NEW g \in [1 .. n + 1 -> S],
           \A i \in 1 .. n : g[i] = f[i]
    PROVE  g = Append(f, g[n + 1])
<1>1. PICK e \in S : e = g[n + 1]
  OBVIOUS
<1>2. f \in Seq(S) /\ Len(f) = n
  BY SeqOfFunction
<1>3. PICK a : a = Append(f, e)
  BY Zenon
<1>4. a \in Seq(S) /\ Len(a) = n + 1 /\ DOMAIN a = 1 .. n + 1 /\ a[n + 1] = e
  BY <1>1, <1>2, <1>3
<1>5. \A i \in 1 .. n : a[i] = f[i]
  BY <1>1, <1>2, <1>3
<1>6. a \in [1 .. n + 1 -> S]
  BY <1>4
<1>7. \A i \in 1 .. n + 1 : g[i] = a[i]
  BY <1>1, <1>4, <1>5
<1>8. g = a
  BY <1>6, <1>7
<1> QED
  BY <1>1, <1>3, <1>8, Zenon

(* A sequence that is one shorter and follows the same elements from the   *)
(* second on is the tail.                                                  *)
LEMMA SeqTailed ==
    ASSUME NEW S, NEW n \in Nat, NEW f \in [1 .. n + 1 -> S], NEW g \in [1 .. n -> S],
           \A i \in 1 .. n : g[i] = f[i + 1]
    PROVE  f # <<>> /\ Head(f) = f[1] /\ g = Tail(f)
<1>1. f \in Seq(S) /\ Len(f) = n + 1
  BY SeqOfFunction
<1>2. f # <<>> /\ Head(f) = f[1]
  BY <1>1
<1>3. PICK a : a = Tail(f)
  BY Zenon
<1>4. a \in Seq(S) /\ Len(a) = n /\ DOMAIN a = 1 .. n
  BY <1>1, <1>2, <1>3
<1>5. \A i \in 1 .. n : a[i] = f[i + 1]
  BY <1>1, <1>2, <1>3
<1>6. a \in [1 .. n -> S]
  BY <1>4
<1>7. g = a
  BY <1>5, <1>6
<1> QED
  BY <1>2, <1>3, <1>7, Zenon

-----------------------------------------------------------------------------
(* The steps of the queue as steps of the FIFO.                            *)

(* A producer's outcome, by the place in bh_mpsc_queue_push.               *)
OutcomesKnown == TypeOK => \A p \in Producers :
    /\ at[p] = "idle" => Outcome(p) = ret[p] /\ ret[p] # "busy"
    /\ at[p] \in {"write", "publish"} => Outcome(p) = "ok"
    /\ at[p] \in {"load", "test", "cas"} => Outcome(p) = "busy"

(* What a push in progress amounts to: it has succeeded once its slot is   *)
(* reserved.                                                               *)
LEMMA Outcomes == OutcomesKnown
BY Zenon DEF OutcomesKnown, Outcome, Writing, TypeOK

(* The same after a step.                                                  *)
LEMMA OutcomesNext == OutcomesKnown'
BY Outcomes, PTL

(* The same values in the same places.                                     *)
LEMMA ContentsSame ==
    ASSUME TypeOK, NEW b \in Nat, NEW h \in Nat, NEW t \in Nat,
           NEW k \in [Producers -> Nat], NEW R \in SUBSET Values,
           Unwrapped(b, h, t, k, R), TypeOK',
           NEW u \in Nat, NEW m \in [Producers -> Nat], NEW S \in SUBSET Values,
           Unwrapped(b, h, u, m, S)', Eldest(u)' = Eldest(t),
           \A x \in Eldest(t) .. h - 1 : Read(x)' = Read(x)
    PROVE  Contents' = Contents
<1>1. PICK o \in Int, n \in Nat : o = Eldest(t) /\ n = h - o
  BY Close
<1>2. Span(h, t, o, n) /\ Span(h, u, o, n)'
  BY <1>1, Zenon DEF Span
<1>3. Reads(h, k, o, n) /\ Reads(h, m, o, n)'
  BY <1>2, ReadWhat, ReadNext, Zenon DEF ContentsRead
<1>4. /\ Contents \in [1 .. n -> Values \cup {NULL}]
      /\ \A i \in 1 .. n : Contents[i] = Read(o + i - 1)
  BY <1>3, Zenon DEF Reads
<1>5. /\ Contents' \in [1 .. n -> Values \cup {NULL}]
      /\ \A i \in 1 .. n : Contents'[i] = Read(o + i - 1)'
  BY <1>3, Zenon DEF Reads
<1>6. \A i \in 1 .. n : o + i - 1 \in o .. h - 1
  BY <1>1
<1>7. \A i \in 1 .. n : Contents'[i] = Contents[i]
  BY <1>1, <1>4, <1>5, <1>6, Zenon
<1> QED
  BY <1>4, <1>5, <1>7

(* So after a step that neither reserves, publishes nor gives back.        *)
LEMMA ContentsKept ==
    ASSUME TypeOK, NEW b \in Nat, NEW h \in Nat, NEW t \in Nat,
           NEW k \in [Producers -> Nat], NEW R \in SUBSET Values,
           Unwrapped(b, h, t, k, R), TypeOK',
           NEW u \in Nat, NEW m \in [Producers -> Nat], NEW S \in SUBSET Values,
           Unwrapped(b, h, u, m, S)', Eldest(u)' = Eldest(t),
           Writing' = Writing,
           \A q \in Writing : m[q] = k[q] /\ arg'[q] = arg[q],
           \A x \in Eldest(t) .. h - 1 : (\A q \in Writing : k[q] # x) =>
               value'[SlotOf(x)] = value[SlotOf(x)]
    PROVE  Contents' = Contents
<1>0. PICK o \in Int, n \in Nat : o = Eldest(t) /\ n = h - o
  BY Close
<1>1. o = Eldest(t) /\ Span(h, t, o, n) /\ Span(h, u, o, n)'
  BY <1>0, Zenon DEF Span
<1>2. Reads(h, k, o, n) /\ Reads(h, m, o, n)'
  BY <1>1, ReadWhat, ReadNext, Zenon DEF ContentsRead
<1>3. ASSUME NEW x \in o .. h - 1 PROVE Read(x)' = Read(x)
  <2>1. /\ \A q \in Writing : k[q] = x => Read(x) = arg[q]
        /\ (\A q \in Writing : k[q] # x) => Read(x) = value[SlotOf(x)]
    BY <1>2, Zenon DEF Reads
  <2>2. /\ \A q \in Writing' : m[q] = x => Read(x)' = arg'[q]
        /\ (\A q \in Writing' : m[q] # x) => Read(x)' = value'[SlotOf(x)]
    BY <1>2, Zenon DEF Reads
  <2>3. CASE \A q \in Writing : k[q] # x
    <3>1. Read(x) = value[SlotOf(x)]
      BY <2>1, <2>3, Zenon
    <3>2. \A q \in Writing' : m[q] # x
      BY <2>3, Zenon
    <3>3. Read(x)' = value'[SlotOf(x)]
      BY <2>2, <3>2, Zenon
    <3> QED
      BY <1>1, <2>3, <3>1, <3>3, SMTT(30)
  <2>4. CASE \E q \in Writing : k[q] = x
    <3>1. PICK q \in Writing : k[q] = x
      BY <2>4, Zenon
    <3>2. Read(x) = arg[q]
      BY <2>1, <3>1, Zenon
    <3>3. q \in Writing' /\ m[q] = x
      BY <3>1, Zenon
    <3>4. Read(x)' = arg'[q]
      BY <2>2, <3>3, Zenon
    <3> QED
      BY <3>2, <3>4, Zenon
  <2> QED
    BY <2>3, <2>4, Zenon
<1> QED
  BY <1>1, <1>3, ContentsSame, Zenon

(* The call of bh_mpsc_queue_push.                                         *)
LEMMA CallStep ==
    ASSUME TypeOK, TypeOK', NEW b \in Nat, NEW h \in Nat, NEW t \in Nat,
           NEW k \in [Producers -> Nat], NEW R \in SUBSET Values,
           Unwrapped(b, h, t, k, R), NEW p \in Producers, NewPush(p)
    PROVE  \E v \in Values : Fifo!Call(p, v)
<1>1. /\ at[p] = "idle" /\ at' = [at EXCEPT ![p] = "load"]
      /\ arg' = [arg EXCEPT ![p] = <<p, calls[p] + 1>>] /\ calls[p] < MaxCalls
      /\ UNCHANGED <<value, ret, consumer, got>>
  BY Zenon DEF NewPush, PushCall, queue
<1>2. Unwrapped(b, h, t, k, R)'
  BY CallNumbered, Zenon
<1>3. /\ Writing' = Writing /\ Eldest(t)' = Eldest(t)
      /\ \A q \in Writing : arg'[q] = arg[q]
  BY <1>1, ZenonT(30) DEF Writing, Eldest, TypeOK
<1>4. Contents' = Contents
  BY <1>1, <1>2, <1>3, ContentsKept, ZenonT(30)
<1>5. PICK n \in 1 .. MaxCalls : n = calls[p] + 1
  BY <1>1, MpscAssumption DEF TypeOK
<1>6. <<p, n>> \in Values
  BY Zenon DEF Values
<1>7. Outcome(p) # "busy" /\ Outcome(p)' = "busy"
  BY <1>1, Outcomes, OutcomesNext, Zenon DEF OutcomesKnown, TypeOK
<1>8. \A q \in Producers \ {p} : Outcome(q)' = Outcome(q)
  BY <1>1, <1>3, Zenon DEF Outcome, TypeOK
<1>9. [q \in Producers |-> Outcome(q)]'
         = [[q \in Producers |-> Outcome(q)] EXCEPT ![p] = "busy"]
  BY <1>7, <1>8, ZenonT(30)
<1>10. Fifo!Call(p, <<p, n>>)
  BY <1>1, <1>4, <1>5, <1>7, <1>9, Zenon DEF Fifo!Call
<1> QED
  BY <1>6, <1>10, Zenon

(* A push that has yet to reserve changes nothing that the FIFO sees.      *)
LEMMA LoadStep ==
    ASSUME TypeOK, TypeOK', NEW b \in Nat, NEW h \in Nat, NEW t \in Nat,
           NEW k \in [Producers -> Nat], NEW R \in SUBSET Values,
           Unwrapped(b, h, t, k, R), NEW p \in Producers, PushLoad(p) \/ PushLost(p)
    PROVE  UNCHANGED Fifo!vars
<1>1. /\ at[p] \in {"load", "cas"} /\ at' = [at EXCEPT ![p] = "test"]
      /\ UNCHANGED <<value, arg, ret, consumer, got>>
  BY Zenon DEF PushLoad, PushLost, queue
<1>2. PICK m \in [Producers -> Nat] : m = [k EXCEPT ![p] = h]
  BY ZenonT(30)
<1>3. Unwrapped(b, h, t, m, R)'
  BY <1>2, LoadNumbered, ZenonT(30)
<1>4. Writing' = Writing /\ Eldest(t)' = Eldest(t) /\ p \notin Writing /\ Writing \subseteq Producers
  BY <1>1, ZenonT(30) DEF Writing, Eldest, TypeOK
<1>5. \A q \in Writing : m[q] = k[q] /\ arg'[q] = arg[q]
  BY <1>1, <1>2, <1>4, Zenon
<1>6. Contents' = Contents
  BY <1>1, <1>3, <1>4, <1>5, ContentsKept, SMTT(30)
<1>7. Outcome(p) = "busy" /\ Outcome(p)' = "busy"
  BY <1>1, Outcomes, OutcomesNext, Zenon DEF OutcomesKnown, TypeOK
<1>8. \A q \in Producers \ {p} : Outcome(q)' = Outcome(q)
  BY <1>1, <1>4 DEF Outcome, TypeOK
<1>9. [q \in Producers |-> Outcome(q)]' = [q \in Producers |-> Outcome(q)]
  BY <1>7, <1>8, Zenon
<1> QED
  BY <1>1, <1>6, <1>9 DEF Fifo!vars

(* A push is refused only when the queue is full.                          *)
LEMMA TestStep ==
    ASSUME TypeOK, TypeOK', NEW b \in Nat, NEW h \in Nat, NEW t \in Nat,
           NEW k \in [Producers -> Nat], NEW R \in SUBSET Values,
           Unwrapped(b, h, t, k, R), NEW p \in Producers, PushTest(p)
    PROVE  Fifo!Refuse(p) \/ UNCHANGED Fifo!vars
<1>1. PICK d \in Int : d = Diff(seq[SlotOf(pos[p])], pos[p])
  BY Verdict, Zenon DEF PushTest
<1>2. /\ at[p] = "test"
      /\ at' = [at EXCEPT ![p] = IF d = 0 THEN "cas" ELSE IF d < 0 THEN "idle" ELSE "load"]
      /\ ret' = IF d < 0 THEN [ret EXCEPT ![p] = "again"] ELSE ret
      /\ UNCHANGED <<value, arg, consumer, got>>
  BY <1>1, Zenon DEF PushTest, queue
<1>3. Unwrapped(b, h, t, k, R)'
  BY TestNumbered, Zenon
<1>4. Writing' = Writing /\ Eldest(t)' = Eldest(t)
  BY <1>2, ZenonT(30) DEF Writing, Eldest, TypeOK
<1>5. Contents' = Contents
  BY <1>2, <1>3, <1>4, ContentsKept, Zenon
<1>6. Outcome(p) = "busy"
  BY <1>2, Outcomes, Zenon DEF OutcomesKnown
<1>7. \A q \in Producers \ {p} : Outcome(q)' = Outcome(q)
  BY <1>2, <1>4 DEF Outcome, TypeOK
<1>8. CASE d < 0
  <2>1. at'[p] = "idle" /\ ret'[p] = "again"
    BY <1>2, <1>8 DEF TypeOK
  <2>2. Outcome(p)' = "again"
    BY <2>1, OutcomesNext, Zenon DEF OutcomesKnown
  <2>3. [q \in Producers |-> Outcome(q)]'
           = [[q \in Producers |-> Outcome(q)] EXCEPT ![p] = "again"]
    BY <1>7, <2>2, ZenonT(30)
  <2>4. Len(Contents) = Capacity
    <3>1. h = Eldest(t) + Capacity
      BY <1>1, <1>2, <1>8, Verdict, Zenon
    <3>2. PICK o \in Int : Span(h, t, o, Capacity)
      BY <3>1, Close, Sizes, SMTT(30) DEF Span
    <3>3. Reads(h, k, o, Capacity)
      BY <3>2, Sizes, ReadWhat, Zenon DEF ContentsRead
    <3>4. PICK f \in [1 .. Capacity -> Values \cup {NULL}] : f = Contents
      BY <3>3, Zenon DEF Reads
    <3> QED
      BY <3>4, SeqOfFunction, Sizes, Zenon
  <2> QED
    BY <1>2, <1>5, <1>6, <2>3, <2>4, Zenon DEF Fifo!Refuse
<1>9. CASE ~ d < 0
  <2>1. at'[p] \in {"cas", "load"} /\ ret' = ret
    BY <1>2, <1>9, SMTT(30) DEF TypeOK
  <2>2. Outcome(p)' = "busy"
    BY <2>1, OutcomesNext, Zenon DEF OutcomesKnown
  <2>3. [q \in Producers |-> Outcome(q)]' = [q \in Producers |-> Outcome(q)]
    BY <1>6, <1>7, <2>2, SMTT(30)
  <2> QED
    BY <1>2, <1>5, <2>3, SMTT(30) DEF Fifo!vars
<1> QED
  BY <1>8, <1>9, Zenon

(* The reservation is the moment at which a value enters the queue.        *)
LEMMA PutStep ==
    ASSUME TypeOK, TypeOK', NEW b \in Nat, NEW h \in Nat, NEW t \in Nat,
           NEW k \in [Producers -> Nat], NEW R \in SUBSET Values,
           Unwrapped(b, h, t, k, R), NEW p \in Producers, PushReserve(p)
    PROVE  Fifo!Put(p)
<1>1. /\ at[p] = "cas" /\ at' = [at EXCEPT ![p] = "write"]
      /\ UNCHANGED <<tail, value, pos, arg, ret, consumer, got>>
  BY Zenon DEF PushReserve
<1>2. k[p] = h /\ h < Eldest(t) + Capacity
  BY ReserveHead, Zenon
<1>3. PICK v \in Values : Unwrapped(b, h + 1, t, k, R \cup {v})'
  BY ReserveNumbered, ZenonT(30)
<1>4. PICK i \in Nat, S \in SUBSET Values : i = h + 1 /\ S = R \cup {v}
  <2>1. h + 1 \in Nat /\ R \cup {v} \in SUBSET Values
    OBVIOUS
  <2> QED
    BY <2>1, Zenon
<1>5. Unwrapped(b, i, t, k, S)'
  BY <1>3, <1>4, Zenon
<1>6. Writing' = Writing \cup {p} /\ p \notin Writing /\ Eldest(t)' = Eldest(t)
  <2>1. at'[p] = "write" /\ \A q \in Producers \ {p} : at'[q] = at[q]
    BY <1>1 DEF TypeOK
  <2>2. Writing' = Writing \cup {p} /\ p \notin Writing
    BY <1>1, <2>1, Zenon DEF Writing
  <2> QED
    BY <1>1, <2>2, Zenon DEF Eldest
<1>7. PICK o \in Int, n \in Nat : o = Eldest(t) /\ o <= h /\ n = h - o /\ n < Capacity
  BY <1>2, Close, Sizes, SMTT(30)
<1>8. Span(h, t, o, n) /\ Span(i, t, o, n + 1)'
  BY <1>4, <1>6, <1>7, SMTT(30) DEF Span
<1>9. Reads(h, k, o, n) /\ Reads(i, k, o, n + 1)'
  BY <1>5, <1>8, ReadWhat, ReadNext DEF ContentsRead
<1>10. /\ Contents \in [1 .. n -> Values \cup {NULL}]
       /\ \A j \in 1 .. n : Contents[j] = Read(o + j - 1)
       /\ \A x \in o .. h - 1 :
             /\ \A q \in Writing : k[q] = x => Read(x) = arg[q]
             /\ (\A q \in Writing : k[q] # x) => Read(x) = value[SlotOf(x)]
  BY <1>9, Zenon DEF Reads
<1>11. /\ Contents' \in [1 .. n + 1 -> Values \cup {NULL}]
       /\ \A j \in 1 .. n + 1 : Contents'[j] = Read(o + j - 1)'
       /\ \A x \in o .. i - 1 :
             /\ \A q \in Writing' : k[q] = x => Read(x)' = arg'[q]
             /\ (\A q \in Writing' : k[q] # x) => Read(x)' = value'[SlotOf(x)]
  BY <1>9, Zenon DEF Reads
<1>12. ASSUME NEW x \in o .. h - 1 PROVE Read(x)' = Read(x)
  <2>1. x \in o .. i - 1 /\ k[p] # x
    BY <1>2, <1>4, <1>7, SMTT(30)
  <2>2. CASE \A q \in Writing : k[q] # x
    <3>1. \A q \in Writing' : k[q] # x
      BY <1>6, <2>1, <2>2, Zenon
    <3>2. Read(x) = value[SlotOf(x)] /\ Read(x)' = value'[SlotOf(x)]
      BY <1>10, <1>11, <2>1, <2>2, <3>1, ZenonT(30)
    <3> QED
      BY <1>1, <3>2, Zenon
  <2>3. CASE \E q \in Writing : k[q] = x
    <3>1. PICK q \in Writing : k[q] = x
      BY <2>3, Zenon
    <3>2. Read(x) = arg[q] /\ Read(x)' = arg'[q]
      BY <1>6, <1>10, <1>11, <2>1, <3>1, ZenonT(30)
    <3> QED
      BY <1>1, <3>2, Zenon
  <2> QED
    BY <2>2, <2>3, Zenon
<1>13. Read(h)' = arg[p]
  <2>1. h \in o .. i - 1 /\ p \in Writing'
    BY <1>4, <1>6, <1>7, SMTT(30)
  <2> QED
    BY <1>1, <1>2, <1>11, <2>1, SMTT(30)
<1>14. Contents' = Append(Contents, arg[p])
  <2>1. \A j \in 1 .. n : o + j - 1 \in o .. h - 1
    BY <1>7, SMTT(30)
  <2>2. ASSUME NEW j \in 1 .. n PROVE Contents'[j] = Contents[j]
    <3>1. j \in 1 .. n + 1
      BY SMT
    <3>2. Read(o + j - 1)' = Read(o + j - 1)
      BY <1>12, <2>1, Zenon
    <3> QED
      BY <1>10, <1>11, <3>1, <3>2, Zenon
  <2>3. o + (n + 1) - 1 = h
    BY <1>7, SMTT(30)
  <2>4. Contents'[n + 1] = arg[p]
    <3>1. n + 1 \in 1 .. n + 1
      BY SMT
    <3>2. Contents'[n + 1] = Read(o + (n + 1) - 1)'
      BY <1>11, <3>1, Zenon
    <3>3. Read(o + (n + 1) - 1)' = Read(h)'
      BY <2>3, ZenonT(30)
    <3> QED
      BY <1>13, <3>2, <3>3, Zenon
  <2>5. Contents' = Append(Contents, Contents'[n + 1])
    BY <1>10, <1>11, <2>2, SeqAppended, SMTT(30)
  <2> QED
    BY <2>4, <2>5, Zenon
<1>15. Len(Contents) < Capacity
  <2>1. Len(Contents) = n
    BY <1>10, SeqOfFunction, Zenon
  <2> QED
    BY <1>7, <2>1, Zenon
<1>16. Outcome(p) = "busy" /\ Outcome(p)' = "ok"
  BY <1>1, Outcomes, OutcomesNext, SMTT(30) DEF OutcomesKnown, TypeOK
<1>17. \A q \in Producers \ {p} : Outcome(q)' = Outcome(q)
  BY <1>1, <1>6, SMTT(30) DEF Outcome, TypeOK
<1>18. [q \in Producers |-> Outcome(q)]'
          = [[q \in Producers |-> Outcome(q)] EXCEPT ![p] = "ok"]
  BY <1>16, <1>17, ZenonT(30)
<1> QED
  BY <1>1, <1>14, <1>15, <1>16, <1>18, SMTT(30) DEF Fifo!Put

(* Filling a reserved slot changes nothing of the FIFO: the value counts   *)
(* since the reservation.                                                  *)
LEMMA WriteStep ==
    ASSUME TypeOK, TypeOK', NEW b \in Nat, NEW h \in Nat, NEW t \in Nat,
           NEW k \in [Producers -> Nat], NEW R \in SUBSET Values,
           Unwrapped(b, h, t, k, R), NEW p \in Producers, PushWrite(p)
    PROVE  UNCHANGED Fifo!vars
<1>1. /\ at[p] = "write" /\ at' = [at EXCEPT ![p] = "publish"]
      /\ value' = [value EXCEPT ![SlotOf(pos[p])] = arg[p]]
      /\ UNCHANGED <<arg, ret, consumer, got>>
  BY Zenon DEF PushWrite
<1>2. Unwrapped(b, h, t, k, R)'
  BY WriteNumbered, Zenon
<1>3. Writing' = Writing /\ Eldest(t)' = Eldest(t) /\ p \in Writing
  BY <1>1, Zenon DEF Writing, Eldest, TypeOK
<1>4. PICK o \in Int : o = Eldest(t) /\ h <= o + Capacity
  BY Close, Zenon
<1>5. ASSUME NEW x \in o .. h - 1, \A q \in Writing : k[q] # x
      PROVE  value'[SlotOf(x)] = value[SlotOf(x)]
  <2>1. x \in o .. o + Capacity - 1 /\ x \in Int
    BY <1>4, Sizes, SMTT(30)
  <2>2. SlotOf(x) # SlotOf(pos[p])
    BY <1>3, <1>4, <1>5, <2>1, SlotsApart, SMTT(30)
  <2>3. SlotOf(x) \in Indices
    BY <2>1, SlotIndex, Zenon
  <2> QED
    BY <1>1, <2>2, <2>3, Zenon DEF TypeOK
<1>6. Contents' = Contents
  BY <1>1, <1>2, <1>3, <1>4, <1>5, ContentsKept, Zenon
<1>7. Outcome(p) = "ok" /\ Outcome(p)' = "ok"
  BY <1>1, Outcomes, OutcomesNext, Zenon DEF OutcomesKnown, TypeOK
<1>8. \A q \in Producers \ {p} : Outcome(q)' = Outcome(q)
  BY <1>1, <1>3, SMTT(30) DEF Outcome, TypeOK
<1>9. [q \in Producers |-> Outcome(q)]' = [q \in Producers |-> Outcome(q)]
  BY <1>7, <1>8, Zenon
<1> QED
  BY <1>1, <1>6, <1>9, Zenon DEF Fifo!vars

(* What is published is what the reservation promised.                     *)
LEMMA PublishStep ==
    ASSUME TypeOK, TypeOK', NEW b \in Nat, NEW h \in Nat, NEW t \in Nat,
           NEW k \in [Producers -> Nat], NEW R \in SUBSET Values,
           Unwrapped(b, h, t, k, R), NEW p \in Producers, PushPublish(p)
    PROVE  UNCHANGED Fifo!vars
<1>1. /\ at[p] = "publish" /\ at' = [at EXCEPT ![p] = "idle"]
      /\ ret' = [ret EXCEPT ![p] = "ok"]
      /\ UNCHANGED <<value, pos, arg, consumer, got>>
  BY Zenon DEF PushPublish
<1>2. Unwrapped(b, h, t, k, R)'
  BY PublishNumbered, Zenon
<1>3. Writing' = Writing \ {p} /\ Eldest(t)' = Eldest(t) /\ p \in Writing
  BY <1>1, ZenonT(30) DEF Writing, Eldest, TypeOK
<1>4. PICK o \in Int, n \in Nat : o = Eldest(t) /\ Span(h, t, o, n) /\ Span(h, t, o, n)'
  BY <1>3, Close, SMTT(30) DEF Span
<1>5. Reads(h, k, o, n) /\ Reads(h, k, o, n)'
  BY <1>2, <1>4, ReadWhat, ReadNext, SMTT(30) DEF ContentsRead
<1>6. ASSUME NEW x \in o .. h - 1 PROVE Read(x)' = Read(x)
  <2>1. /\ \A q \in Writing : k[q] = x => Read(x) = arg[q]
        /\ (\A q \in Writing : k[q] # x) => Read(x) = value[SlotOf(x)]
    BY <1>5, Zenon DEF Reads
  <2>2. /\ \A q \in Writing' : k[q] = x => Read(x)' = arg'[q]
        /\ (\A q \in Writing' : k[q] # x) => Read(x)' = value'[SlotOf(x)]
    BY <1>5, ZenonT(30) DEF Reads
  <2>3. CASE k[p] = x
    <3>1. \A q \in Writing' : k[q] # x
      BY <1>3, <2>3, SMTT(30) DEF Unwrapped, Standing
    <3>2. SlotOf(x) = SlotOf(pos[p])
      BY <1>3, <2>3, SlotsApart, SMTT(30)
    <3>3. value[SlotOf(pos[p])] = arg[p]
      BY <1>1, Zenon DEF Unwrapped, Copied
    <3> QED
      BY <1>1, <1>3, <2>1, <2>2, <2>3, <3>1, <3>2, <3>3, SMTT(30)
  <2>4. CASE \A q \in Writing : k[q] # x
    BY <1>1, <1>3, <2>1, <2>2, <2>4, Zenon
  <2>5. CASE \E q \in Writing' : k[q] = x
    BY <1>1, <1>3, <2>1, <2>2, <2>5, Zenon
  <2> QED
    BY <1>3, <2>3, <2>4, <2>5, SMTT(30)
<1>7. Contents' = Contents
  BY <1>2, <1>3, <1>4, <1>6, ContentsSame, Zenon
<1>8. Outcome(p) = "ok" /\ Outcome(p)' = "ok"
  BY <1>1, Outcomes, OutcomesNext, Zenon DEF OutcomesKnown, TypeOK
<1>9. \A q \in Producers \ {p} : Outcome(q)' = Outcome(q)
  BY <1>1, <1>3, SMTT(30) DEF Outcome, TypeOK
<1>10. [q \in Producers |-> Outcome(q)]' = [q \in Producers |-> Outcome(q)]
  BY <1>8, <1>9, Zenon
<1> QED
  BY <1>1, <1>7, <1>10, Zenon DEF Fifo!vars

(* Reading the oldest slot changes nothing of the FIFO, until the slot is  *)
(* given back.                                                             *)
LEMMA TakeStep ==
    ASSUME TypeOK, TypeOK', NEW b \in Nat, NEW h \in Nat, NEW t \in Nat,
           NEW k \in [Producers -> Nat], NEW R \in SUBSET Values,
           Unwrapped(b, h, t, k, R), PopTake
    PROVE  UNCHANGED Fifo!vars
<1>1. /\ consumer' = [at |-> "release", value |-> value[SlotOf(tail)]]
      /\ UNCHANGED <<value, at, arg, ret, got>>
  BY Zenon DEF PopTake
<1>2. PICK u \in Nat : u = t + 1 /\ Eldest(u)' = Eldest(t)
  BY <1>1, TakeReady DEF Eldest
<1>3. Unwrapped(b, h, u, k, R)'
  <2>1. Unwrapped(b, h, t + 1, k, R)'
    BY TakeNumbered, Zenon
  <2> QED
    BY <1>2, <2>1, ZenonT(30)
<1>4. Writing' = Writing /\ \A q \in Producers : Outcome(q)' = Outcome(q)
  BY <1>1, Zenon DEF Writing, Outcome
<1>5. Contents' = Contents
  BY <1>1, <1>2, <1>3, <1>4, ContentsKept, Zenon
<1>6. [q \in Producers |-> Outcome(q)]' = [q \in Producers |-> Outcome(q)]
  BY <1>4, Zenon
<1> QED
  BY <1>1, <1>5, <1>6, Zenon DEF Fifo!vars

(* Giving the slot back is the moment at which a value leaves the queue.   *)
LEMMA GetStep ==
    ASSUME TypeOK, TypeOK', NEW b \in Nat, NEW h \in Nat, NEW t \in Nat,
           NEW k \in [Producers -> Nat], NEW R \in SUBSET Values,
           Unwrapped(b, h, t, k, R), PopRelease
    PROVE  Fifo!Get
<1>1. /\ consumer.at = "release" /\ consumer' = [consumer EXCEPT !.at = "idle"]
      /\ got' = consumer.value
      /\ UNCHANGED <<value, at, pos, arg, ret>>
  BY Zenon DEF PopRelease
<1>2. Unwrapped(b, h, t, k, R)'
  BY ReleaseNumbered, Zenon
<1>3. Eldest(t) = t - 1 /\ Eldest(t)' = t
  BY <1>1, Zenon DEF Eldest, TypeOK
<1>4. Writing' = Writing /\ \A q \in Producers : Outcome(q)' = Outcome(q)
  BY <1>1, Zenon DEF Writing, Outcome
<1>5. PICK o \in Int, n \in Nat : o = t - 1 /\ n = h - t
  BY Close
<1>6. Span(h, t, o, n + 1) /\ Span(h, t, t, n)' /\ t \in Int /\ n + 1 \in Nat
  BY <1>3, <1>5, SMTT(30) DEF Span
<1>7. Reads(h, k, o, n + 1) /\ Reads(h, k, t, n)'
  BY <1>2, <1>6, ReadWhat, ReadNext, SMTT(30) DEF ContentsRead
<1>8. /\ Contents \in [1 .. n + 1 -> Values \cup {NULL}]
      /\ \A i \in 1 .. n + 1 : Contents[i] = Read(o + i - 1)
      /\ \A x \in o .. h - 1 :
            /\ \A q \in Writing : k[q] = x => Read(x) = arg[q]
            /\ (\A q \in Writing : k[q] # x) => Read(x) = value[SlotOf(x)]
  BY <1>7, Zenon DEF Reads
<1>9. /\ Contents' \in [1 .. n -> Values \cup {NULL}]
      /\ \A i \in 1 .. n : Contents'[i] = Read(t + i - 1)'
      /\ \A x \in t .. h - 1 :
            /\ \A q \in Writing' : k[q] = x => Read(x)' = arg'[q]
            /\ (\A q \in Writing' : k[q] # x) => Read(x)' = value'[SlotOf(x)]
  BY <1>7, ZenonT(30) DEF Reads
<1>10. ASSUME NEW x \in t .. h - 1 PROVE Read(x)' = Read(x)
  <2>1. x \in o .. h - 1
    BY <1>5
  <2>2. CASE \A q \in Writing : k[q] # x
    BY <1>1, <1>4, <1>8, <1>9, <2>1, <2>2, SMTT(30)
  <2>3. CASE \E q \in Writing : k[q] = x
    <3>1. PICK q \in Writing : k[q] = x
      BY <2>3, Zenon
    <3>2. Read(x) = arg[q] /\ Read(x)' = arg'[q]
      BY <1>4, <1>8, <1>9, <2>1, <3>1, ZenonT(30)
    <3> QED
      BY <1>1, <3>2, Zenon
  <2> QED
    BY <2>2, <2>3, Zenon
<1>11. \A i \in 1 .. n : Contents'[i] = Contents[i + 1]
  <2> SUFFICES ASSUME NEW i \in 1 .. n PROVE Contents'[i] = Contents[i + 1]
    BY Zenon
  <2>1. PICK x \in t .. h - 1, j \in 1 .. n + 1 : x = t + i - 1 /\ j = i + 1 /\ x = o + j - 1
    BY <1>5, SMTT(30)
  <2>2. Contents'[i] = Read(x)'
    BY <1>9, <2>1, Zenon
  <2>3. Contents[j] = Read(x)
    BY <1>8, <2>1, Zenon
  <2> QED
    BY <1>10, <2>1, <2>2, <2>3, SMTT(30)
<1>12. Contents # <<>> /\ Head(Contents) = Contents[1] /\ Contents' = Tail(Contents)
  <2>1. PICK S : S = Values \cup {NULL}
    BY Zenon
  <2>2. PICK f \in [1 .. n + 1 -> S], g \in [1 .. n -> S] : f = Contents /\ g = Contents'
    BY <1>8, <1>9, <2>1, Zenon
  <2>3. \A i \in 1 .. n : g[i] = f[i + 1]
    BY <1>11, <2>2, Zenon
  <2>4. f # <<>> /\ Head(f) = f[1] /\ g = Tail(f)
    BY <2>3, SeqTailed, SMTT(30)
  <2> QED
    BY <2>2, <2>4, Zenon
<1>13. Contents[1] = got'
  <2>1. o \in o .. h - 1 /\ o + 1 - 1 = o /\ 1 \in 1 .. n + 1
    BY <1>5
  <2>2. Contents[1] = Read(o)
    BY <1>8, <2>1, ZenonT(30)
  <2>3. \A q \in Writing : k[q] # o
    BY <1>5, Close DEF Unwrapped, Standing
  <2>4. Read(o) = value[SlotOf(o)]
    BY <1>8, <2>1, <2>3, Zenon
  <2>5. consumer.value = value[SlotOf(o)]
    BY <1>1, <1>5, Zenon DEF Unwrapped, Copied
  <2> QED
    BY <1>1, <2>2, <2>4, <2>5, Zenon
<1>14. [q \in Producers |-> Outcome(q)]' = [q \in Producers |-> Outcome(q)]
  BY <1>4, Zenon
<1> QED
  BY <1>1, <1>12, <1>13, <1>14, SMTT(30) DEF Fifo!Get

(* An idle queue is an empty FIFO.                                         *)
LEMMA InitFifo == Init => Fifo!Init
<1> SUFFICES ASSUME Init PROVE Fifo!Init
  BY Zenon
<1>1. Contents = <<>>
  <2>1. At(head - Oldest) = 0
    <3>1. head \in Int /\ Oldest = head
      BY InitTyped, Sizes, SMTT(30) DEF Init, Oldest, TypeOK, Positions
    <3>2. head - Oldest = 0 /\ 0 \in Positions
      BY <3>1, Sizes, SMTT(30) DEF Positions
    <3> QED
      BY <3>2, AtSelf, Zenon
  <2> QED
    BY <2>1 DEF Contents
<1>2. [p \in Producers |-> Outcome(p)] = [p \in Producers |-> "none"]
  <2>1. \A p \in Producers : Outcome(p) = "none"
    BY InitTyped, Outcomes, Zenon DEF OutcomesKnown, Init
  <2> QED
    BY <2>1, Zenon
<1> QED
  BY <1>1, <1>2, Zenon DEF Init, Fifo!Init

(* Every step of push and pop is a step of the FIFO or leaves it as it is. *)
LEMMA NextFifo == IInv /\ IInv' /\ [Next]_vars => [Fifo!Next]_(Fifo!vars)
<1> SUFFICES ASSUME IInv, IInv', [Next]_vars PROVE Fifo!Next \/ UNCHANGED Fifo!vars
  BY Zenon
<1>1. PICK b \in Nat, h \in Nat, t \in Nat, k \in [Producers -> Nat], R \in SUBSET Values :
          Unwrapped(b, h, t, k, R)
  BY Zenon DEF IInv, Numbered
<1>2. TypeOK /\ TypeOK'
  BY Zenon DEF IInv
<1>3. ASSUME NEW p \in Producers, NewPush(p) PROVE Fifo!Next
  BY <1>1, <1>2, <1>3, CallStep, Zenon DEF Fifo!Next
<1>4. ASSUME NEW p \in Producers, Push(p) PROVE Fifo!Next \/ UNCHANGED Fifo!vars
  <2>1. CASE PushLoad(p) \/ PushLost(p)
    BY <1>1, <1>2, <2>1, LoadStep, Zenon
  <2>2. CASE PushTest(p)
    BY <1>1, <1>2, <2>2, TestStep, SMTT(30) DEF Fifo!Next
  <2>3. CASE PushReserve(p)
    BY <1>1, <1>2, <2>3, PutStep, SMTT(30) DEF Fifo!Next
  <2>4. CASE PushWrite(p)
    BY <1>1, <1>2, <2>4, WriteStep, SMTT(30)
  <2>5. CASE PushPublish(p)
    BY <1>1, <1>2, <2>5, PublishStep, SMTT(30)
  <2> QED
    BY <1>4, <2>1, <2>2, <2>3, <2>4, <2>5, ZenonT(30) DEF Push
<1>5. CASE PopTake
  BY <1>1, <1>2, <1>5, TakeStep, SMTT(30)
<1>6. CASE PopRelease
  BY <1>1, <1>2, <1>6, GetStep, SMTT(30) DEF Fifo!Next
<1>7. CASE UNCHANGED vars
  <2>1. Contents' = Contents /\ \A q \in Producers : Outcome(q)' = Outcome(q)
    BY <1>7 DEF vars, queue, Contents, Oldest, ValueAt, Writing, Outcome
  <2>2. [q \in Producers |-> Outcome(q)]' = [q \in Producers |-> Outcome(q)]
    BY <2>1, Zenon
  <2> QED
    BY <1>7, <2>1, <2>2, SMTT(30) DEF vars, Fifo!vars
<1> QED
  BY <1>3, <1>4, <1>5, <1>6, <1>7, ZenonT(30) DEF Next

(* bh_mpsc_queue_push and bh_mpsc_queue_pop implement BoundedFifo: a value *)
(* enters the queue with its reservation and leaves it with the release of *)
(* its slot, in the same order; K_ERR_AGAIN is returned to a push only     *)
(* while Capacity values are in the queue; no pop sees a slot that is      *)
(* reserved and not yet written, also when the positions wrap.             *)
THEOREM QueueIsFifo == Spec => ImplementsFifo
<1>1. Init => Fifo!Init
  BY InitFifo, Zenon
<1>2. IInv /\ IInv' /\ [Next]_vars => [Fifo!Next]_(Fifo!vars)
  BY NextFifo, Zenon
<1> QED
  BY <1>1, <1>2, Inductive, PTL DEF Spec, ImplementsFifo, Fifo!Spec
=============================================================================
