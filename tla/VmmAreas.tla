------------------------------ MODULE VmmAreas ------------------------------
(***************************************************************************)
(* The memory areas of one address space, memory/vmm.c: where              *)
(* vmm_alloc_at puts a new area, which slot of which container describes   *)
(* it, what vmm_free_area takes out, and what get_memory_area finds.  The  *)
(* page tables below are the subject of AddressSpace.                      *)
(*                                                                         *)
(* The list first_area .. current_area is kept as a sequence: a new area   *)
(* always goes behind current_area, and current_area is always the last.   *)
(***************************************************************************)
EXTENDS MemoryLayout, Sequences

CONSTANTS
  start, end,          \* the arguments of vmm_init
  Sizes,               \* the sizes callers ask for
  Bases,               \* the addresses they ask for, 0 for any
  ITEM_PER_CONTAINER,
  MaxContainers        \* bound: containers one address space may use up

ASSUME VmmAreasAssumption ==
  /\ start \in Nat /\ end \in Nat
  /\ Sizes \subseteq Nat \ {0}
  /\ Bases \subseteq Nat
  /\ ITEM_PER_CONTAINER \in Nat \ {0}
  /\ MaxContainers \in Nat

VARIABLES
  areas,         \* the list of areas, first_area first, current_area last
  current_addr,  \* the last address of the area allocated last
  containers,    \* how many containers there are; the last is current_container
  current_index  \* the next slot of current_container

areasVars == <<areas, current_addr, containers, current_index>>

-----------------------------------------------------------------------------

vmm_data_start == IF PAGE_START(start) = 0 THEN PAGE_SIZE ELSE PAGE_START(start)
vmm_data_end == PAGE_END(end) + 1

\* vmm_init.
AreasInit ==
  /\ areas = <<>>
  /\ current_addr = 0
  /\ containers = 0
  /\ current_index = 0

\* The first address behind everything allocated so far.
low_bound ==
  IF areas = <<>> THEN vmm_data_start ELSE PAGE_END(current_addr) + 1

\* BUG: an explicit base is taken without asking whether it is free.
foundAtBase(base) == IF base # 0 THEN PAGE_START(base) ELSE low_bound

found(base) ==
  IF low_bound < PAGE_START(base) THEN PAGE_START(base) ELSE low_bound

length(sz) == PAGE_END(sz - 1)

\* BUG: only the start of the area is compared with the end.
FitsStartOnly(base, sz) == found(base) <= vmm_data_end

Fits(base, sz) == found(base) + length(sz) <= vmm_data_end

NewArea(base, sz) ==
  [start |-> found(base), size |-> length(sz) + 1,
   slot |-> IF containers = 0 \/ current_index = ITEM_PER_CONTAINER
            THEN <<containers + 1, 0>> ELSE <<containers, current_index>>]

\* BUG: current_index is not advanced.
VmmAllocAtSameSlot(base, sz) ==
  /\ Fits(base, sz)
  /\ LET new == NewArea(base, sz) IN
       /\ new.slot[1] <= MaxContainers
       /\ areas' = Append(areas, new)
       /\ current_addr' = new.start + new.size - 1
       /\ containers' = new.slot[1]
       /\ current_index' = new.slot[2]

\* vmm_alloc_at, and vmm_alloc with base 0, when the area fits behind the last.
VmmAllocAt(base, sz) ==
  /\ Fits(base, sz)
  /\ LET new == NewArea(base, sz) IN
       /\ new.slot[1] <= MaxContainers
       /\ areas' = Append(areas, new)
       /\ current_addr' = new.start + new.size - 1
       /\ containers' = new.slot[1]
       /\ current_index' = new.slot[2] + 1

\* vmm_alloc_at when the area does not: the gaps are searched and the result of
\* the search is thrown away (found = 0).
VmmAllocFails(base, sz) == ~Fits(base, sz) /\ UNCHANGED areasVars

\* BUG: current_addr goes down by what is freed, wherever that lies.
VmmFreeAreaLowers(k) ==
  /\ areas' = [i \in 1 .. Len(areas) - 1 |-> IF i < k THEN areas[i] ELSE areas[i + 1]]
  /\ current_addr' = current_addr - areas[k].size
  /\ UNCHANGED <<containers, current_index>>

\* vmm_free_area on the k-th area: current_area moves back if it was the last;
\* neither current_addr nor the slots do.
VmmFreeArea(k) ==
  /\ areas' = [i \in 1 .. Len(areas) - 1 |-> IF i < k THEN areas[i] ELSE areas[i + 1]]
  /\ UNCHANGED <<current_addr, containers, current_index>>

AreasNext ==
  \/ \E base \in Bases, sz \in Sizes : VmmAllocAt(base, sz) \/ VmmAllocFails(base, sz)
  \/ \E k \in 1 .. Len(areas) : VmmFreeArea(k)

AreasSpec == AreasInit /\ [][AreasNext]_areasVars

-----------------------------------------------------------------------------
(* get_memory_area: nothing above current_addr is looked for in the list.  *)

Contains(a, va) == a.start <= va /\ va < a.start + a.size

get_memory_area(va) ==
  IF va > current_addr THEN {}
  ELSE {i \in 1 .. Len(areas) :
          /\ Contains(areas[i], va)
          /\ \A j \in 1 .. i - 1 : ~Contains(areas[j], va)}

-----------------------------------------------------------------------------
(* Properties.                                                             *)

Area == [start : Nat, size : Nat, slot : Nat \X Nat]

\* The state is well typed.
AreasTypeOK ==
  /\ areas \in Seq(Area)
  /\ current_addr \in Nat
  /\ containers \in Nat
  /\ current_index \in 0 .. ITEM_PER_CONTAINER

\* The areas lie one behind the other in list order, none overlapping another,
\* whatever was allocated at fixed addresses and freed in between.
AreasDisjoint ==
  \A i, j \in 1 .. Len(areas) : i < j =>
    areas[i].start + areas[i].size <= areas[j].start

\* Every area consists of whole pages between vmm_data_start and vmm_data_end,
\* the bounds vmm_init computes.
AreasInBounds ==
  \A i \in 1 .. Len(areas) :
    /\ areas[i].start % PAGE_SIZE = 0 /\ areas[i].size % PAGE_SIZE = 0
    /\ areas[i].size > 0
    /\ vmm_data_start <= areas[i].start
    /\ areas[i].start + areas[i].size <= vmm_data_end

\* No area reaches past the region the address space was given: end, which both
\* kvminit and create_process pass as the first address behind the free region
\* of the memory layout, lies in none of them.
AreasInRegion ==
  \A i \in 1 .. Len(areas) : areas[i].start + areas[i].size <= end

\* The shortcut of get_memory_area hides no area: current_addr, which freeing
\* never lowers and allocating in an empty address space resets, bounds them all.
BelowCurrentAddr ==
  \A i \in 1 .. Len(areas) : areas[i].start + areas[i].size - 1 <= current_addr

\* get_memory_area finds the area of every allocated address, and only that.
LookupRight ==
  \A va \in 0 .. vmm_data_end :
    get_memory_area(va) = {i \in 1 .. Len(areas) : Contains(areas[i], va)}

\* No two areas are described by the same slot, and every slot is one that its
\* container has: a new container is begun exactly when the last is full.
SlotsDistinct ==
  /\ \A i \in 1 .. Len(areas) :
       /\ areas[i].slot[1] \in 1 .. containers
       /\ areas[i].slot[2] \in 0 .. ITEM_PER_CONTAINER - 1
       /\ areas[i].slot[1] = containers => areas[i].slot[2] < current_index
  /\ \A i, j \in 1 .. Len(areas) : areas[i].slot = areas[j].slot => i = j

\* What vmm_alloc_at and vmm_free_area preserve together.
AreasInv ==
  /\ AreasTypeOK
  /\ AreasDisjoint
  /\ AreasInBounds
  /\ BelowCurrentAddr
  /\ SlotsDistinct

=============================================================================
