---------------------------- MODULE AddressSpace ----------------------------
(***************************************************************************)
(* Page tables and the memory behind the areas of an address space: the    *)
(* second half of vm.c and of memory/vmm.c.  Where areas lie is the        *)
(* subject of VmmAreas, which shows that they never overlap; here an area  *)
(* is any range of free pages, and what counts is the memory that its      *)
(* description takes: a slot of a container, and a new container when the  *)
(* last is full.  The page allocator is the PagePool that                  *)
(* PhysicalAllocator implements; frames are only ever compared, so kalloc  *)
(* may as well return the smallest free one.                               *)
(*                                                                         *)
(* A table has FAN entries instead of 512, a walk LEVELS levels instead of *)
(* four.  Only the contents of tables are kept: what a page holds that was *)
(* freed or is mapped as data is chosen where it is first read.            *)
(***************************************************************************)
EXTENDS Integers, FiniteSets, FiniteSetsExt

CONSTANTS
  Frames,         \* the page frames of the allocator
  Devices,        \* frames of memory mapped devices
  KernelRoot,     \* the frame of kernel_pml4, which the allocator never had
  Users, Kernel,  \* user address spaces, kernel_vmm
  FAN, LEVELS,
  ITEM_PER_CONTAINER,
  nx_flag_enabled,  \* whether the processor knows the XD bit
  Pages,          \* the virtual pages areas can use
  Region,         \* which of them each address space has
  Flags           \* the flags its areas are given, sets of "write" and "exec"

Levels == 0 .. LEVELS - 1

\* How many pages an entry of a table of level l stands for.
span[l \in 0 .. LEVELS] == IF l = 0 THEN 1 ELSE FAN * span[l - 1]

\* The virtual pages there are.
Addresses == 0 .. span[LEVELS] - 1

ASSUME AddressSpaceAssumption ==
  /\ FAN \in Nat \ {0} /\ LEVELS \in Nat \ {0}
  /\ ITEM_PER_CONTAINER \in Nat \ {0}
  /\ Pages \subseteq Addresses /\ \A v \in Users \cup {Kernel} : Region[v] \subseteq Pages
  /\ IsFiniteSet(Frames) /\ Frames \subseteq Nat \ {0} /\ Devices \subseteq Nat \ {0}
  /\ KernelRoot \in Nat \ ({0} \cup Frames \cup Devices)
  /\ Frames \cap Devices = {}
  /\ Kernel \notin Users

VARIABLES
  free,       \* the free frames
  mem,        \* the entries of every frame that is a table
  root,       \* root_pagetable of each address space, 0 if it does not exist
  containers, \* the frames of its containers, root_container to current_container
  current_index,  \* the next slot of current_container
  next,       \* what current_container holds for the next container
  areas,      \* its areas
  wild,       \* a physical address outside the allocator's was given to kfree
  halted      \* panic

slotVars == <<containers, current_index, next>>
vars == <<free, mem, root, slotVars, areas, wild, halted>>

Vmms == Users \cup {Kernel}
Index == 0 .. FAN - 1
Tables == Frames \cup {KernelRoot}

Entry(present, pa, flags) == [present |-> present, pa |-> pa, flags |-> flags]
Blank == Entry(FALSE, 0, {})
EmptyTable == [i \in Index |-> Blank]
Areas == [first : Pages, last : Pages, flags : UNION {Flags[v] : v \in Vmms}, is_mmio : BOOLEAN]
Allowing(a, flags) ==
  [first |-> a.first, last |-> a.last, flags |-> flags, is_mmio |-> a.is_mmio]
PagesOf(a) == {va \in Pages : a.first <= va /\ va <= a.last}

Init ==
  /\ free = Frames
  /\ mem = [f \in Tables |-> EmptyTable]
  /\ root = [v \in Vmms |-> IF v = Kernel THEN KernelRoot ELSE 0]
  /\ containers = [v \in Vmms |-> {}]
  /\ current_index = [v \in Vmms |-> 0]
  /\ next = [v \in Vmms |-> 0]
  /\ areas = [v \in Vmms |-> {}]
  /\ wild = FALSE
  /\ halted = FALSE

-----------------------------------------------------------------------------
(* The page allocator, as operators on the set of free frames.             *)

kalloc(fs) == IF fs = {} THEN 0 ELSE Min(fs)

\* kfree leaves a frame alone that is free already.  The index of an address
\* below the first page wraps around to one far behind the bitmap: see wild.
kfree(fs, frames) == fs \cup (frames \cap Frames)

\* m without the tables given.
Forget(m, frames) == [f \in Tables |-> IF f \in frames THEN EmptyTable ELSE m[f]]

-----------------------------------------------------------------------------
(* walk, mappages, updatepages, unmappages.                                *)

VA2INDEX(va, level) == (va \div span[level]) % FAN

\* The memory with one entry of one table written.
Set(m, table, i, e) == [m EXCEPT ![table] = [@ EXCEPT ![i] = e]]

\* walk without alloc: the tables met on the way to the one of level 0, which
\* describes va; 0 from where one is missing.
walked(m, r, va) ==
  LET table[l \in Levels] ==
        IF l = LEVELS - 1 THEN r
        ELSE LET up == table[l + 1]
                 e == m[up][VA2INDEX(va, l + 1)]
             IN  IF up # 0 /\ e.present THEN e.pa ELSE 0
  IN  table

walk(m, r, va) == walked(m, r, va)[0]

\* walk with alloc: missing tables are allocated and cleared.  If the memory runs
\* out on the way, those already linked stay.
Found(table, m, fs) == [table |-> table, mem |-> m, free |-> fs]

descend(s, i) ==
  LET new == kalloc(s.free) IN
  IF s.table = 0 THEN s
  ELSE IF s.mem[s.table][i].present THEN Found(s.mem[s.table][i].pa, s.mem, s.free)
  ELSE IF new = 0 THEN Found(0, s.mem, s.free)
  ELSE Found(new, [Set(s.mem, s.table, i, Entry(TRUE, new, {})) EXCEPT ![new] = EmptyTable],
             s.free \ {new})

walked_alloc(m, fs, r, va) ==
  LET step[l \in Levels] ==
        IF l = LEVELS - 1 THEN Found(r, m, fs) ELSE descend(step[l + 1], VA2INDEX(va, l + 1))
  IN  step

walk_alloc(m, fs, r, va) == walked_alloc(m, fs, r, va)[0]

\* mappages for one page: table is 0 if a table is missing or the page is mapped.
mappages(m, fs, r, va, pa, flags) ==
  LET s == walk_alloc(m, fs, r, va)
      i == VA2INDEX(va, 0)
  IN  IF s.table = 0 THEN s
      ELSE IF s.mem[s.table][i].present THEN Found(0, s.mem, s.free)
      ELSE Found(s.table, Set(s.mem, s.table, i, Entry(TRUE, pa, flags)), s.free)

\* The descriptors that unmappages meets.
Descriptors(m, r, a) ==
  {<<walk(m, r, va), VA2INDEX(va, 0)>> : va \in {va \in PagesOf(a) : walk(m, r, va) # 0}}

\* updatepages stops at the first page whose table is missing, and rewrites the
\* flags of descriptors that are not present too.
updatepages(m, r, a, flags) ==
  LET before == {va \in PagesOf(a) :
                   \A w \in PagesOf(a) : w <= va => walk(m, r, w) # 0}
      met == {<<walk(m, r, va), VA2INDEX(va, 0)>> : va \in before}
  IN  [f \in Tables |-> [i \in Index |->
         IF <<f, i>> \in met THEN Entry(m[f][i].present, m[f][i].pa, flags) ELSE m[f][i]]]

\* BUG: the present bit is left.
unmappedPresent(m, r, a) == m

\* unmappages: what a descriptor points to is given to kfree whether or not the
\* descriptor is present, and only the present bit is cleared.
unmapped(m, r, a) ==
  LET met == Descriptors(m, r, a) IN
  [f \in Tables |-> [i \in Index |->
     IF <<f, i>> \in met THEN Entry(FALSE, m[f][i].pa, m[f][i].flags) ELSE m[f][i]]]

given(m, r, a) == {m[d[1]][d[2]].pa : d \in Descriptors(m, r, a)}

-----------------------------------------------------------------------------
(* memory/vmm.c.  The operations of one address space.                     *)

Exists(v) == root[v] # 0
FreePages(v) == Region[v] \ UNION {PagesOf(a) : a \in areas[v]}

Descriptor(v, va) ==
  LET t == walk(mem, root[v], va) IN IF t = 0 THEN Blank ELSE mem[t][VA2INDEX(va, 0)]

\* vmm_create: the page of the root is not cleared, and holds what it held.
VmmCreate(v, held) ==
  LET r == kalloc(free) IN
  /\ ~Exists(v)
  /\ r # 0
  /\ root' = [root EXCEPT ![v] = r]
  /\ mem' = [mem EXCEPT ![r] = held]
  /\ free' = free \ {r}
  /\ UNCHANGED <<slotVars, areas, wild, halted>>

\* The next area needs a new container.
Full(v) == containers[v] = {} \/ current_index[v] = ITEM_PER_CONTAINER

Rest(v) == IF Full(v) THEN free \ {kalloc(free)} ELSE free

\* vmm_alloc_at, as far as memory goes.  The page of a new container is not cleared
\* either: its next is the word that the page held there.
NewArea(v, a, held) ==
  /\ Exists(v)
  /\ a.first <= a.last /\ a.flags \in Flags[v]
  /\ PagesOf(a) \subseteq FreePages(v)
  /\ areas' = [areas EXCEPT ![v] = @ \cup {a}]
  /\ containers' = [containers EXCEPT ![v] = IF Full(v) THEN @ \cup {kalloc(free)} ELSE @]
  /\ current_index' = [current_index EXCEPT ![v] = IF Full(v) THEN 1 ELSE @ + 1]
  /\ next' = [next EXCEPT ![v] = IF Full(v) THEN held ELSE @]

\* vmm_alloc.  The slot in the container was never cleared, so is_mmio is what
\* the page held before.
VmmAlloc(v, a, held) ==
  /\ NewArea(v, a, held)
  /\ free' = Rest(v)
  /\ UNCHANGED <<mem, root, wild, halted>>

\* What code can do with a page, and whether a descriptor with these flags lets it.
Accesses == {"read", "write", "exec"}
Grants(flags, access) ==
  access = "read" \/ access \in flags \/ (access = "exec" /\ ~nx_flag_enabled)

\* The error code of a page fault says that the page is present, or that it was met
\* by an instruction fetch, which processors with the XD bit report.
Unresolvable(v, va, access) ==
  Descriptor(v, va).present \/ (access = "exec" /\ nx_flag_enabled)

\* What get_memory_area finds for an address of an area.
AreaOf(v, va) == CHOOSE a \in areas[v] : va \in PagesOf(a)

\* A page fault, and its handler interrupt_dispatch: on_demand_allocation if the error
\* code allows it, and panic if it does not, if the page is in no area, or if it
\* cannot be mapped.
PageFault(v, va, access) ==
  LET found == ~Unresolvable(v, va, access) /\ \E a \in areas[v] : va \in PagesOf(a)
      s == mappages(mem, free \ {kalloc(free)}, root[v], va, kalloc(free), AreaOf(v, va).flags)
  IN  /\ Exists(v)
      /\ ~(Descriptor(v, va).present /\ Grants(Descriptor(v, va).flags, access))
      /\ mem' = IF found THEN s.mem ELSE mem
      /\ free' = IF found THEN s.free ELSE free
      /\ halted' = ~(found /\ s.table # 0)
      /\ UNCHANGED <<root, slotVars, areas, wild>>

\* BUG: the pages that are mapped already keep their flags.
UpdateAreaOnly(v, a, flags) ==
  /\ a \in areas[v]
  /\ areas' = [areas EXCEPT ![v] = (@ \ {a}) \cup {Allowing(a, flags)}]
  /\ UNCHANGED <<mem, free, root, slotVars, wild, halted>>

\* update_area_access.
UpdateArea(v, a, flags) ==
  /\ a \in areas[v]
  /\ areas' = [areas EXCEPT ![v] = (@ \ {a}) \cup {Allowing(a, flags)}]
  /\ mem' = updatepages(mem, root[v], a, flags)
  /\ UNCHANGED <<free, root, slotVars, wild, halted>>

\* BUG: the frames of a device are freed like others.
VmmFreeAreaDevice(v, a) ==
  LET frames == given(mem, root[v], a) IN
  /\ a \in areas[v]
  /\ areas' = [areas EXCEPT ![v] = @ \ {a}]
  /\ mem' = unmapped(mem, root[v], a)
  /\ free' = kfree(free, frames)
  /\ wild' = (wild \/ frames \ Frames # {})
  /\ UNCHANGED <<root, slotVars, halted>>

\* vmm_free_area, called by vmm_free, unmap_mmio and destroy_thread.
VmmFreeArea(v, a) ==
  LET frames == IF a.is_mmio THEN {} ELSE given(mem, root[v], a) IN
  /\ a \in areas[v]
  /\ areas' = [areas EXCEPT ![v] = @ \ {a}]
  /\ mem' = unmapped(mem, root[v], a)
  /\ free' = kfree(free, frames)
  /\ wild' = (wild \/ frames \ Frames # {})
  /\ UNCHANGED <<root, slotVars, halted>>

\* map_mmio of one page; an area whose mapping fails stays.
MapMmio(v, a, dev, held) ==
  LET s == mappages(mem, Rest(v), root[v], a.first, dev, a.flags) IN
  /\ a.is_mmio /\ a.first = a.last /\ "exec" \notin a.flags
  /\ NewArea(v, a, held)
  /\ mem' = s.mem
  /\ free' = s.free
  /\ UNCHANGED <<root, wild, halted>>

\* The tables of an address space, as the processor finds them.
TablesOf(v) == (UNION {{walked(mem, root[v], va)[l] : l \in Levels} : va \in Addresses}) \ {0}

\* What the list of containers may go on with behind current_container, whose next
\* was never written: nothing if it is NULL, else that page and those behind it.
Behind(word) ==
  IF word = 0 THEN {{}} ELSE {pages \in SUBSET (Frames \cup Devices) : word \in pages}

\* vmm_destroy: every area is unmapped and its frames freed, then the pages of the list
\* of containers and the root; nobody frees the tables in between.
VmmDestroy(v, behind) ==
  LET frames == (UNION {given(mem, root[v], a) : a \in areas[v]}) \cup containers[v] \cup behind IN
  /\ v \in Users /\ Exists(v)
  /\ free' = kfree(free, frames \cup {root[v]})
  /\ mem' = Forget(mem, TablesOf(v))
  /\ wild' = (wild \/ frames \ Frames # {})
  /\ root' = [root EXCEPT ![v] = 0]
  /\ containers' = [containers EXCEPT ![v] = {}]
  /\ current_index' = [current_index EXCEPT ![v] = 0]
  /\ next' = [next EXCEPT ![v] = 0]
  /\ areas' = [areas EXCEPT ![v] = {}]
  /\ UNCHANGED halted

-----------------------------------------------------------------------------
(* Callers that keep to what the functions silently rely on.               *)

\* Every page of the area was used.
Touched(v, a) == \A va \in PagesOf(a) : Descriptor(v, va).present

\* The pages of the area were used from its start, as create_process does when it
\* copies a segment into it.
TouchedFromStart(v, a) ==
  \A va, w \in PagesOf(a) : w < va /\ Descriptor(v, va).present => Descriptor(v, w).present

\* There is memory for a page, or a container, and all the tables above a page.
Enough == Cardinality(free) >= LEVELS

\* Code uses a page of an area as the area allows, and executes it only after it was
\* written, as the code of a program is.
Permitted(v, a, va, access) ==
  /\ Grants(a.flags, access)
  /\ access = "exec" => Descriptor(v, va).present

Careful ==
  /\ ~halted
  /\ \/ \E v \in Users : VmmCreate(v, EmptyTable)
     \/ \E v \in Vmms : Enough /\ \E a \in Areas : VmmAlloc(v, a, 0)
     \/ \E v \in Vmms : Enough /\ \E a \in areas[v] : \E va \in PagesOf(a), access \in Accesses :
          Permitted(v, a, va, access) /\ PageFault(v, va, access)
     \/ \E v \in Vmms : \E a \in areas[v], flags \in Flags[v] :
          TouchedFromStart(v, a) /\ UpdateArea(v, a, flags)
     \/ \E v \in Vmms : \E a \in areas[v] : Touched(v, a) /\ VmmFreeArea(v, a)
     \/ Enough /\ \E a \in Areas, dev \in Devices : MapMmio(Kernel, a, dev, 0)
     \/ \E v \in Users : /\ \A a \in areas[v] : Touched(v, a)
                         /\ \E behind \in Behind(next[v]) : VmmDestroy(v, behind)

Spec == Init /\ [][Careful]_vars

\* Areas may be freed at any time.
Untouched ==
  /\ ~halted /\ ~wild
  /\ \/ Careful
     \/ \E v \in Vmms : \E a \in areas[v] : VmmFreeArea(v, a)

SpecUntouched == Init /\ [][Untouched]_vars

\* The page of a container may hold any word where its next will be.
Uncleared ==
  /\ ~halted /\ ~wild
  /\ \/ Careful
     \/ \E v \in Vmms : Enough /\ \E a \in Areas, held \in Frames : VmmAlloc(v, a, held)

SpecUncleared == Init /\ [][Uncleared]_vars

-----------------------------------------------------------------------------
(* Properties.                                                             *)

\* Everything that refers to a frame, in pairs of the reference and the frame.
Uses ==
  LET tables == UNION {TablesOf(v) : v \in Vmms} IN
  {<<<<"entry", x[1], x[2]>>, mem[x[1]][x[2]].pa>> :
     x \in {x \in tables \X Index : mem[x[1]][x[2]].present}}
  \cup {<<<<"root", v>>, root[v]>> : v \in Vmms}
  \cup {<<<<"free", f>>, f>> : f \in free}
  \cup UNION {{<<<<"container", v, f>>, f>> : f \in containers[v]} : v \in Vmms}

\* No frame has two uses: it is not free and in use, not mapped twice or in two
\* address spaces, and no page table can be reached as data.
Isolation ==
  LET frames == {u \in Uses : u[2] \in Frames}
  IN  Cardinality({u[2] : u \in frames}) = Cardinality(frames)

\* Only pages of areas are mapped, each with the access that its area has now: a
\* page mapped before update_area_access was called does not keep the old one.
AccessAgrees ==
  \A v \in Vmms, va \in Addresses :
    Exists(v) /\ Descriptor(v, va).present =>
      \E a \in areas[v] : va \in PagesOf(a) /\ Descriptor(v, va).flags = a.flags

\* kfree is given no address outside the allocator's memory, not by the walk over the
\* containers either, and no access that an area allows ends in panic.
NeverWild == ~wild /\ ~halted

=============================================================================
