---------------------------- MODULE MemoryLayout ----------------------------
(***************************************************************************)
(* The page arithmetic of arch/x86-64/memory_layout.h.                     *)
(***************************************************************************)
EXTENDS Integers

CONSTANT PAGE_SIZE

ASSUME PageSizeAssumption == PAGE_SIZE \in Nat /\ PAGE_SIZE > 1

\* The first and the last address of the page that holds a.
PAGE_START(a) == a - (a % PAGE_SIZE)
PAGE_END(a) == PAGE_START(a) + PAGE_SIZE - 1

=============================================================================
