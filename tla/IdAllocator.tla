---------------------------- MODULE IdAllocator ----------------------------
(***************************************************************************)
(* bh_id_allocator: a next-fit allocator of the identifiers 0..Capacity-1. *)
(* Every CSpace owns one; it hands out the slots of the capability table.  *)
(* The bitmap is the set of allocated identifiers.                         *)
(***************************************************************************)
EXTENDS Naturals, FiniteSets

CONSTANT Capacity

ASSUME CapacityAssumption == Capacity \in Nat \ {0}

VARIABLES bitmap, next_hint, allocated_count

allocator_vars == <<bitmap, next_hint, allocated_count>>

Ids == 0 .. Capacity - 1

AllocatorInit ==
    /\ bitmap = {}
    /\ next_hint = 0
    /\ allocated_count = 0

(* Mutant: the scan starts at zero instead of at next_hint.                *)
FirstFit(id) ==
    /\ id \in Ids \ bitmap
    /\ \A j \in 0 .. id - 1 : j \in bitmap

(* The identifier the scan of bh_id_allocator_alloc stops at: the first    *)
(* clear bit at or after next_hint, wrapping round.                        *)
FirstFree(id) ==
    /\ id \in Ids \ bitmap
    /\ \E i \in Ids :
        /\ id = (next_hint + i) % Capacity
        /\ \A j \in 0 .. i - 1 : (next_hint + j) % Capacity \in bitmap

(* A full table returns K_ERR_PMM_EXHAUSTED and changes nothing.           *)
Alloc(id) ==
    /\ allocated_count < Capacity
    /\ FirstFree(id)
    /\ bitmap' = bitmap \cup {id}
    /\ allocated_count' = allocated_count + 1
    /\ next_hint' = (id + 1) % Capacity

(* Mutant: the bit is not tested, so a double free is counted twice.       *)
FreeUnchecked(id) ==
    /\ allocated_count > 0
    /\ bitmap' = bitmap \ {id}
    /\ allocated_count' = allocated_count - 1
    /\ UNCHANGED next_hint

(* A free of a clear bit returns K_ERR_ALREADY_EXISTS and changes nothing. *)
Free(id) ==
    /\ id \in bitmap
    /\ bitmap' = bitmap \ {id}
    /\ allocated_count' = allocated_count - 1
    /\ UNCHANGED next_hint

AllocatorNext == \E id \in Ids : Alloc(id) \/ Free(id)

AllocatorSpec == AllocatorInit /\ [][AllocatorNext]_allocator_vars

-----------------------------------------------------------------------------

(* The shape of the state: the bitmap has Capacity bits and next_hint is   *)
(* an index into it.                                                       *)
AllocatorTypeOK ==
    /\ bitmap \subseteq Ids
    /\ next_hint \in Ids
    /\ allocated_count \in 0 .. Capacity

(* allocated_count, which bh_id_allocator_alloc consults before it scans,  *)
(* is the number of bits set: the early exhaustion return and the scan     *)
(* never disagree, through any sequence of allocs and (double) frees.      *)
CountExact == allocated_count = Cardinality(bitmap)

(* Next-fit: the identifier handed out last is not handed out again by the *)
(* next bh_id_allocator_alloc unless it is the only one free, so a slot    *)
(* freed by a revoke is not the first one a grant takes.                   *)
LastNotReusedFirst ==
    [][ \A id \in Ids :
          (id \in bitmap' \ bitmap /\ (id + 1) % Capacity = next_hint)
          => Ids \ bitmap = {id} ]_allocator_vars
=============================================================================
