----------------------------- MODULE MCSpinlock -----------------------------
(* Spinlock for TLC: two CPUs (the boot processor has APIC id 0) and the   *)
(* two locks the kernel nests, a vmm's lock around the physical            *)
(* allocator's (vmm_alloc_at calls kalloc with vmm->lock held).            *)
EXTENDS Spinlock

CONSTANTS vmm_lock, phys_alloc_lock

MCRank == [l \in {vmm_lock, phys_alloc_lock} |-> IF l = vmm_lock THEN 1 ELSE 2]
=============================================================================
