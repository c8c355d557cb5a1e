------------------------- MODULE AddressSpaceProofs -------------------------
(***************************************************************************)
(* Proofs about AddressSpace: every step keeps the forest of page tables   *)
(* that PageTableProofs describes, and what the runs check follows.        *)
(***************************************************************************)
EXTENDS PageTableProofs

-----------------------------------------------------------------------------
(* The steps.                                                              *)

\* vmm_alloc_at takes a frame for the container, and marks free pages.
LEMMA NewAreaKeeps ==
  ASSUME NEW m, NEW rt, NEW fr, NEW ct, NEW ar, NEW T, NEW vm, NEW lv, NEW pg,
         Holds(m, rt, fr, ct, ar, T, vm, lv, pg), fr # {}, NEW v \in Vmms, rt[v] # 0,
         NEW a \in Areas, PagesOf(a) \cap UNION {PagesOf(b) : b \in ar[v]} = {},
         NEW full \in BOOLEAN, NEW fr2, fr2 = (IF full THEN fr \ {kalloc(fr)} ELSE fr),
         NEW ct2, ct2 = [ct EXCEPT ![v] = IF full THEN @ \cup {kalloc(fr)} ELSE @],
         NEW ar2, ar2 = [ar EXCEPT ![v] = @ \cup {a}]
  PROVE  Holds(m, rt, fr2, ct2, ar2, T, vm, lv, pg)
<1> DEFINE k == kalloc(fr)
<1>1. k \in fr /\ k \in Frames /\ k # 0 /\ k \notin T
  BY kallocIs, Zenon DEF Holds, Pool
<1> HIDE DEF k
<1>2. /\ DOMAIN ct2 = Vmms /\ \A u \in Vmms : u # v => ct2[u] = ct[u]
      /\ full => ct2[v] = ct[v] \cup {k} /\ fr2 = fr \ {k}
      /\ ~full => ct2[v] = ct[v] /\ fr2 = fr
  BY Zenon DEF Holds, Pool, k
<1>3. /\ DOMAIN ar2 = Vmms /\ \A u \in Vmms : u # v => ar2[u] = ar[u]
      /\ ar2[v] = ar[v] \cup {a}
  BY Zenon DEF Holds, Spaces
<1>4. \A f : f \in fr2 => f \in fr
  BY <1>2, Zenon
<1>5. Pool(T, fr2, ct2)
  <2>1. \A u, w \in Vmms : \A f \in ct2[u] : f \in ct2[w] => u = w
    BY <1>1, <1>2 DEF Holds, Pool
  <2>2. \A u \in Vmms : \A f \in ct2[u] : f \in Frames /\ f \notin fr2 /\ f \notin T
    BY <1>1, <1>2 DEF Holds, Pool
  <2> QED
    BY <1>2, <1>4, <2>1, <2>2, Zenon DEF Holds, Pool
<1>6. Backed(m, T, vm, lv, pg, fr2, ct2, ar2)
  <2> SUFFICES ASSUME NEW t \in T, NEW i \in Index, lv[t] = 0, m[t][i].present
               PROVE  /\ m[t][i].pa \in Frames =>
                           /\ m[t][i].pa \notin fr2 /\ m[t][i].pa \notin T
                           /\ \A u \in Vmms : m[t][i].pa \notin ct2[u]
                      /\ \E b \in ar2[vm[t]], w \in Pages :
                           /\ w \in PagesOf(b) /\ Same(w, pg[t], 0) /\ VA2INDEX(w, 0) = i
                           /\ m[t][i].flags = b.flags
                           /\ \/ m[t][i].pa \in Frames
                              \/ m[t][i].pa \in Devices /\ vm[t] = Kernel /\ b.is_mmio
    BY Zenon DEF Backed
  <2>1. m[t][i].pa \in Frames =>
          m[t][i].pa \notin fr /\ m[t][i].pa \notin T /\ \A u \in Vmms : m[t][i].pa \notin ct[u]
    BY Zenon DEF Holds, Backed
  <2>2. PICK b \in ar[vm[t]], w \in Pages :
           /\ w \in PagesOf(b) /\ Same(w, pg[t], 0) /\ VA2INDEX(w, 0) = i
           /\ m[t][i].flags = b.flags
           /\ m[t][i].pa \in Frames \/ (m[t][i].pa \in Devices /\ vm[t] = Kernel /\ b.is_mmio)
    BY Zenon DEF Holds, Backed
  <2>3. b \in ar2[vm[t]]
    <3>1. vm[t] \in Vmms
      BY Zenon DEF Holds, Forest, Places
    <3> QED
      BY <1>3, <3>1, Zenon
  <2>4. m[t][i].pa \in Frames => m[t][i].pa \notin fr2 /\ \A u \in Vmms : m[t][i].pa \notin ct2[u]
    BY <1>1, <1>2, <1>4, <2>1, SMTT(20)
  <2> QED
    BY <2>1, <2>2, <2>3, <2>4, Zenon
<1>7. Spaces(rt, ct2, ar2)
  <2>1. \A u \in Vmms : rt[u] = 0 => ct2[u] = {} /\ ar2[u] = {}
    BY <1>2, <1>3, Zenon DEF Holds, Spaces
  <2>2. \A u \in Vmms : ar2[u] \subseteq Areas
    BY <1>3, Zenon DEF Holds, Spaces
  <2>3. ASSUME NEW u \in Vmms, NEW b \in ar2[u], NEW c \in ar2[u], NEW w \in Pages,
               w \in PagesOf(b), w \in PagesOf(c)
        PROVE  b = c
    <3>1. CASE b \in ar[u] /\ c \in ar[u]
      BY <2>3, <3>1, Zenon DEF Holds, Spaces
    <3>2. CASE ~(b \in ar[u] /\ c \in ar[u])
      BY <1>3, <2>3, <3>2
    <3> QED
      BY <3>1, <3>2, Zenon
  <2> QED
    BY <1>3, <2>1, <2>2, <2>3 DEF Holds, Spaces
<1> QED
  BY <1>5, <1>6, <1>7, Zenon DEF Holds


LEMMA EnoughIs ==
  ASSUME free \in SUBSET Frames, Enough
  PROVE  /\ free # {} /\ Cardinality(free) >= LEVELS - 1
         /\ \A k \in free : Cardinality(free \ {k}) >= LEVELS - 1
<1>1. IsFiniteSet(free) /\ Cardinality(free) \in Nat /\ LEVELS \in Nat /\ LEVELS > 0
  <2>1. IsFiniteSet(free)
    BY AddressSpaceAssumption, FS_Subset, Zenon
  <2> QED
    BY <2>1, FS_CardinalityType, Sizes
<1>2. Cardinality(free) >= LEVELS
  BY Zenon DEF Enough
<1>3. free # {}
  BY <1>1, <1>2, FS_EmptySet
<1>4. ASSUME NEW k \in free PROVE Cardinality(free \ {k}) >= LEVELS - 1
  <2>1. Cardinality(free \ {k}) = Cardinality(free) - 1
    BY <1>1, FS_RemoveElement, Zenon
  <2> QED
    BY <1>1, <1>2, <2>1
<1> QED
  BY <1>1, <1>2, <1>3, <1>4

\* A container that is clean has no next.
LEMMA NextStays ==
  ASSUME IInv, NEW v \in Vmms, NEW a, NewArea(v, a, 0)
  PROVE  next' = next
<1>1. next = [u \in Vmms |-> 0] /\ next' = [next EXCEPT ![v] = IF Full(v) THEN 0 ELSE @]
  BY Zenon DEF IInv, NewArea
<1> QED
  BY <1>1

LEMMA VmmAllocKeeps ==
  ASSUME IInv, NEW v \in Vmms, Enough, NEW a \in Areas, VmmAlloc(v, a, 0)
  PROVE  IInv'
<1>1. PICK T, vm, lv, pg : Holds(mem, root, free, containers, areas, T, vm, lv, pg)
  BY Zenon DEF IInv, Sound
<1>2. free # {}
  BY <1>1, EnoughIs, Zenon DEF Holds, Pool
<1>3. root[v] # 0 /\ PagesOf(a) \cap UNION {PagesOf(b) : b \in areas[v]} = {}
  BY Zenon DEF VmmAlloc, NewArea, Exists, FreePages
<1>4. /\ free' = (IF Full(v) THEN free \ {kalloc(free)} ELSE free)
      /\ containers' = [containers EXCEPT ![v] = IF Full(v) THEN @ \cup {kalloc(free)} ELSE @]
      /\ areas' = [areas EXCEPT ![v] = @ \cup {a}]
      /\ mem' = mem /\ root' = root /\ wild' = wild /\ halted' = halted
  BY Zenon DEF VmmAlloc, NewArea, Rest
<1>5. PICK full \in BOOLEAN : full = Full(v)
  BY Zenon DEF Full
<1>6. Holds(mem, root, free', containers', areas', T, vm, lv, pg)
  BY <1>1, <1>2, <1>3, <1>4, <1>5, NewAreaKeeps, Zenon
<1>7. next' = next
  BY NextStays, Zenon DEF VmmAlloc
<1> QED
  BY <1>4, <1>6, <1>7, Zenon DEF IInv, Sound

LEMMA PagesOfIs == \A a : \A va \in PagesOf(a) : va \in Pages /\ va \in Addresses /\ va \in Int
<1>1. \A a : \A va \in PagesOf(a) : va \in Pages
  BY Zenon DEF PagesOf
<1>2. \A va \in Pages : va \in Addresses
  BY AddressSpaceAssumption, Zenon
<1>3. \A va \in Addresses : va \in Int
  BY SpanIs DEF Addresses
<1> QED
  BY <1>1, <1>2, <1>3, Zenon

\* A page that is present has the access of its area.
LEMMA AgreesIs == IInv => AccessAgrees
<1> SUFFICES ASSUME IInv, NEW v \in Vmms, NEW va \in Addresses,
                    Descriptor(v, va).present
             PROVE  \E a \in areas[v] :
                      va \in PagesOf(a) /\ Descriptor(v, va).flags = a.flags
  BY Zenon DEF AccessAgrees
<1>1. PICK T, vm, lv, pg : Holds(mem, root, free, containers, areas, T, vm, lv, pg)
  BY Zenon DEF IInv, Sound
<1>2. PICK t : t = walk(mem, root[v], va)
  BY Zenon
<1>3. t # 0 /\ Descriptor(v, va) = mem[t][VA2INDEX(va, 0)]
  BY <1>2, Zenon DEF Descriptor, Blank, Entry
<1>4. At(T, vm, lv, pg, v, va, 0, t)
  BY <1>1, <1>2, <1>3, DescriptorIs, Zenon DEF Holds
<1>5. Allows(areas, v, va, mem[t][VA2INDEX(va, 0)])
  BY <1>1, <1>3, <1>4, PresentIs, Zenon
<1> QED
  BY <1>3, <1>5, Zenon DEF Allows

\* A fault by an access that the area permits: the page is not there yet.
LEMMA FaultInArea ==
  ASSUME IInv, NEW v \in Vmms, NEW a \in areas[v], NEW va \in PagesOf(a),
         NEW access \in Accesses, Permitted(v, a, va, access), PageFault(v, va, access)
  PROVE  ~Descriptor(v, va).present /\ AreaOf(v, va) = a
<1>1. va \in Pages /\ va \in Addresses
  BY PagesOfIs, Zenon
<1>2. \A b \in areas[v] : va \in PagesOf(b) => b = a
  BY <1>1, Zenon DEF IInv, Sound, Holds, Spaces
<1>3. AreaOf(v, va) = a
  BY <1>2 DEF AreaOf
<1>4. ASSUME Descriptor(v, va).present PROVE FALSE
  <2>1. Exists(v) /\ ~Grants(Descriptor(v, va).flags, access) /\ Grants(a.flags, access)
    BY <1>4, Zenon DEF PageFault, Permitted
  <2>2. PICK b \in areas[v] : va \in PagesOf(b) /\ Descriptor(v, va).flags = b.flags
    BY <1>1, <1>4, <2>1, AgreesIs, Zenon DEF AccessAgrees
  <2> QED
    BY <1>2, <2>1, <2>2, Zenon
<1> QED
  BY <1>3, <1>4, Zenon

\* A page fault takes a frame that has no other use, and never fails.
LEMMA PageFaultKeeps ==
  ASSUME IInv, NEW v \in Vmms, Enough, NEW a \in areas[v], NEW va \in PagesOf(a),
         NEW access \in Accesses, Permitted(v, a, va, access), PageFault(v, va, access)
  PROVE  IInv'
<1>1. PICK T, vm, lv, pg : Holds(mem, root, free, containers, areas, T, vm, lv, pg)
  BY Zenon DEF IInv, Sound
<1>2. PICK k : k = kalloc(free)
  BY Zenon
<1>3. PICK fr : fr = free \ {k}
  BY Zenon
<1>4. k \in free /\ k \in Frames /\ Cardinality(fr) >= LEVELS - 1
  BY <1>1, <1>2, <1>3, EnoughIs, kallocIs, Zenon DEF Holds, Pool
<1>5. Holds(mem, root, fr, containers, areas, T, vm, lv, pg)
  <2>1. Pool(T, fr, containers)
    BY <1>1, <1>3, Zenon DEF Holds, Pool
  <2>2. Backed(mem, T, vm, lv, pg, fr, containers, areas)
    BY <1>1, <1>3 DEF Holds, Backed
  <2> QED
    BY <1>1, <2>1, <2>2, Zenon DEF Holds
<1>6. Unused(mem, T, lv, fr, containers, k)
  <2>1. k \notin T /\ \A u \in Vmms : k \notin containers[u]
    BY <1>1, <1>4, AddressSpaceAssumption, SMTT(20) DEF Holds, Pool
  <2>2. \A t \in T, i \in Index : lv[t] = 0 /\ mem[t][i].present => mem[t][i].pa # k
    BY <1>1, <1>4 DEF Holds, Backed
  <2> QED
    BY <1>3, <1>4, <2>1, <2>2, Zenon DEF Unused
<1>7. Mappable(mem, T, lv, fr, containers, v, a, k)
  BY <1>6, Zenon DEF Mappable
<1>8. root[v] # 0
  BY <1>1, Zenon DEF Holds, Spaces
<1>9. ~Descriptor(v, va).present /\ AreaOf(v, va) = a
  BY FaultInArea, Zenon
<1>14. Unmapped(mem, root[v], va)
  BY <1>9, Zenon DEF Unmapped, Descriptor
<1>15. /\ ~Unresolvable(v, va, access)
       /\ \E b \in areas[v] : va \in PagesOf(b)
  BY <1>9, Zenon DEF Unresolvable, Permitted
<1>10. PICK s : s = mappages(mem, fr, root[v], va, k, a.flags)
  BY Zenon
<1>11. s.table # 0 /\ Sound(s.mem, root, s.free, containers, areas)
  BY <1>4, <1>5, <1>7, <1>8, <1>10, <1>14, MapKeeps, Zenon
<1>12. /\ mem' = s.mem /\ free' = s.free /\ halted' = (s.table = 0) /\ next' = next
       /\ root' = root /\ containers' = containers /\ areas' = areas /\ wild' = wild
  BY <1>2, <1>3, <1>9, <1>10, <1>15, Zenon DEF PageFault, slotVars
<1>13. ~halted'
  BY <1>11, <1>12, Zenon
<1> QED
  BY <1>11, <1>12, <1>13, Zenon DEF IInv

\* A device is only mapped in an area of the kernel that is marked as one of a device.
LEMMA MapMmioKeeps ==
  ASSUME IInv, Enough, NEW a \in Areas, NEW dev \in Devices, MapMmio(Kernel, a, dev, 0)
  PROVE  IInv'
<1>1. PICK T, vm, lv, pg : Holds(mem, root, free, containers, areas, T, vm, lv, pg)
  BY Zenon DEF IInv, Sound
<1>2. Kernel \in Vmms
  BY Zenon DEF Vmms
<1>3. PICK fr : fr = Rest(Kernel)
  BY Zenon
<1>4. free # {} /\ Cardinality(fr) >= LEVELS - 1
  BY <1>1, <1>3, EnoughIs, kallocIs, Zenon DEF Holds, Pool, Rest
<1>5. root[Kernel] # 0 /\ PagesOf(a) \cap UNION {PagesOf(b) : b \in areas[Kernel]} = {}
  BY Zenon DEF MapMmio, NewArea, Exists, FreePages
<1>6. /\ fr = (IF Full(Kernel) THEN free \ {kalloc(free)} ELSE free)
      /\ containers' = [containers EXCEPT ![Kernel] = IF Full(Kernel) THEN @ \cup {kalloc(free)} ELSE @]
      /\ areas' = [areas EXCEPT ![Kernel] = @ \cup {a}]
  BY <1>3, Zenon DEF MapMmio, NewArea, Rest
<1>7. Holds(mem, root, fr, containers', areas', T, vm, lv, pg)
  <2>1. PICK full \in BOOLEAN : full = Full(Kernel)
    BY Zenon DEF Full
  <2> QED
    BY <1>1, <1>2, <1>4, <1>5, <1>6, <2>1, NewAreaKeeps, Zenon
<1>8. a.first \in PagesOf(a) /\ a.first \in Addresses /\ a.is_mmio
  <2>1. a.first = a.last /\ a.is_mmio
    BY Zenon DEF MapMmio
  <2>2. a.first \in Pages
    BY Zenon DEF Areas
  <2>3. a.first \in Addresses
    BY <2>2, AddressSpaceAssumption, Zenon
  <2>4. a.first \in Int
    BY <2>3, SpanIs DEF Addresses
  <2> QED
    BY <2>1, <2>2, <2>3, <2>4 DEF PagesOf
<1>9. PICK va : va = a.first
  BY Zenon
<1>10. Unmapped(mem, root[Kernel], va)
  <2> SUFFICES ASSUME NEW t, t = walk(mem, root[Kernel], va), t # 0, mem[t][VA2INDEX(va, 0)].present
               PROVE  FALSE
    BY Zenon DEF Unmapped
  <2>1. At(T, vm, lv, pg, Kernel, va, 0, t)
    BY <1>1, <1>2, <1>8, <1>9, DescriptorIs, Zenon DEF Holds
  <2>2. Allows(areas, Kernel, va, mem[t][VA2INDEX(va, 0)])
    BY <1>1, <1>2, <1>8, <1>9, <2>1, PresentIs, Zenon
  <2>3. \E b \in areas[Kernel] : va \in PagesOf(b)
    BY <2>2, Zenon DEF Allows
  <2> QED
    BY <1>5, <1>8, <1>9, <2>3, Zenon
<1>11. Mappable(mem, T, lv, fr, containers', Kernel, a, dev)
  BY <1>8, Zenon DEF Mappable
<1>12. a \in areas'[Kernel]
  BY <1>1, <1>2, <1>6, Zenon DEF Holds, Spaces
<1>13. PICK s : s = mappages(mem, fr, root[Kernel], va, dev, a.flags)
  BY Zenon
<1>14. Sound(s.mem, root, s.free, containers', areas')
  BY <1>2, <1>4, <1>5, <1>7, <1>8, <1>9, <1>10, <1>11, <1>12, <1>13, MapKeeps, Zenon
<1>15. mem' = s.mem /\ free' = s.free /\ root' = root /\ wild' = wild /\ halted' = halted
  BY <1>3, <1>9, <1>13, Zenon DEF MapMmio
<1>16. next' = next
  BY <1>2, NextStays, Zenon DEF MapMmio
<1> QED
  BY <1>14, <1>15, <1>16, Zenon DEF IInv


LEMMA InitKeeps == Init => IInv
<1> SUFFICES ASSUME Init PROVE IInv
  BY Zenon
<1> DEFINE T == {KernelRoot}
           vm == [t \in T |-> Kernel]
           lv == [t \in T |-> LEVELS - 1]
           pg == [t \in T |-> 0]
<1>1. 0 \in Addresses /\ Kernel \in Vmms /\ KernelRoot # 0 /\ KernelRoot \notin Frames
  BY SpanIs, AddressSpaceAssumption DEF Addresses, Vmms
<1>2. /\ DOMAIN root = Vmms /\ root[Kernel] = KernelRoot
      /\ \A v \in Vmms : v # Kernel => root[v] = 0
  BY <1>1, Zenon DEF Init
<1>3. Memory(mem) /\ \A t \in T : mem[t] = EmptyTable
  BY EmptyIs, Zenon DEF Init, Memory, Tables
<1>4. Places(T, vm, lv, pg)
  BY <1>1, Sizes, Zenon DEF Places, Tables
<1>5. \A t \in T : vm[t] = Kernel /\ lv[t] = LEVELS - 1 /\ t = KernelRoot
  BY Zenon
<1> HIDE DEF vm, lv, pg
<1>6. Roots(T, vm, lv, root)
  BY <1>1, <1>2, <1>5, Zenon DEF Roots
<1>7. OneEach(T, vm, lv, pg)
  BY Zenon DEF OneEach
<1>8. Children(mem, T, vm, lv, pg)
  BY <1>3, EmptyIs, Zenon DEF Children
<1>9. Parents(mem, T, vm, lv, pg)
  BY <1>5, Zenon DEF Parents
<1>10. Backed(mem, T, vm, lv, pg, free, containers, areas) /\ Once(mem, T, lv)
  BY <1>3, EmptyIs DEF Backed, Once
<1>11. Pool(T, free, containers)
  BY <1>1, Zenon DEF Init, Pool
<1>12. Spaces(root, containers, areas)
  BY <1>2, Zenon DEF Init, Spaces
<1>13. Holds(mem, root, free, containers, areas, T, vm, lv, pg)
  BY <1>3, <1>4, <1>6, <1>7, <1>8, <1>9, <1>10, <1>11, <1>12, Zenon DEF Holds, Forest
<1> QED
  BY <1>13, Zenon DEF IInv, Sound, Init

\* The root of a new address space is cleared memory: it maps nothing.
LEMMA VmmCreateKeeps ==
  ASSUME IInv, NEW v \in Users, VmmCreate(v, EmptyTable)
  PROVE  IInv'
<1>1. PICK T, vm, lv, pg : Holds(mem, root, free, containers, areas, T, vm, lv, pg)
  BY Zenon DEF IInv, Sound
<1>2. PICK r : r = kalloc(free)
  BY Zenon
<1>3. /\ root[v] = 0 /\ r # 0 /\ root' = [root EXCEPT ![v] = r] /\ free' = free \ {r}
      /\ mem' = [mem EXCEPT ![r] = EmptyTable]
      /\ containers' = containers /\ next' = next /\ areas' = areas /\ wild' = wild /\ halted' = halted
  BY <1>2, Zenon DEF VmmCreate, Exists, slotVars
<1>4. r \in free /\ r \in Frames /\ r \in Tables /\ r \notin T /\ \A u \in Vmms : r \notin containers[u]
  BY <1>1, <1>2, <1>3, kallocIs, AddressSpaceAssumption DEF Holds, Pool, Tables
<1>5. v \in Vmms /\ v # Kernel /\ 0 \in Addresses
  BY AddressSpaceAssumption, SpanIs DEF Vmms, Addresses
<1> DEFINE T2 == T \cup {r}
           vm2 == More(vm, T, r, v)
           lv2 == More(lv, T, r, LEVELS - 1)
           pg2 == More(pg, T, r, 0)
<1>6. \A t \in T : vm2[t] = vm[t] /\ lv2[t] = lv[t] /\ pg2[t] = pg[t] /\ t # r
  BY <1>4, Zenon DEF More
<1>7. vm2[r] = v /\ lv2[r] = LEVELS - 1 /\ pg2[r] = 0
  BY Zenon DEF More
<1>8. Places(T2, vm2, lv2, pg2)
  BY <1>1, <1>4, <1>5, Sizes, Zenon DEF Holds, Forest, Places, More
<1> HIDE DEF vm2, lv2, pg2
<1>9. /\ Memory(mem') /\ mem'[r] = EmptyTable /\ \A t \in T : mem'[t] = mem[t]
  BY <1>1, <1>3, <1>4, <1>6, EmptyIs, Zenon DEF Holds, Forest, Memory, Places
<1>10. DOMAIN root' = Vmms /\ root'[v] = r /\ \A u \in Vmms : u # v => root'[u] = root[u]
  BY <1>1, <1>3, <1>5, Zenon DEF Holds, Spaces
<1>11. \A t \in T : vm[t] \in Vmms /\ vm[t] # v
  BY <1>1, <1>3, Zenon DEF Holds, Forest, Places, Roots
<1>12. Roots(T2, vm2, lv2, root')
  <2>0. Roots(T, vm, lv, root)
    BY <1>1, Zenon DEF Holds, Forest
  <2>1. \A u \in Vmms : root'[u] # 0 =>
          root'[u] \in T2 /\ vm2[root'[u]] = u /\ lv2[root'[u]] = LEVELS - 1
    BY <1>6, <1>7, <1>10, <2>0 DEF Roots
  <2>2. \A t \in T2 : root'[vm2[t]] # 0 /\ (lv2[t] = LEVELS - 1 => root'[vm2[t]] = t)
    <3> TAKE t \in T2
    <3>1. CASE t \in T
      BY <1>6, <1>10, <1>11, <2>0, <3>1 DEF Roots
    <3>2. CASE t = r
      BY <1>3, <1>7, <1>10, <3>2, Zenon
    <3> QED
      BY <3>1, <3>2, Zenon
  <2> QED
    BY <2>1, <2>2, Zenon DEF Roots
<1>13. OneEach(T2, vm2, lv2, pg2)
  <2>1. OneEach(T, vm, lv, pg)
    BY <1>1, Zenon DEF Holds, Forest
  <2> QED
    BY <1>6, <1>7, <1>11, <2>1 DEF OneEach
<1>14. \A t, c \in T, j \in Index : Child(vm2, lv2, pg2, t, j, c) <=> Child(vm, lv, pg, t, j, c)
  BY <1>6, Zenon DEF Child
<1>15. Children(mem', T2, vm2, lv2, pg2)
  <2> SUFFICES ASSUME NEW t \in T2, NEW j \in Index, lv2[t] # 0, mem'[t][j].present
               PROVE  mem'[t][j].pa \in T2 /\ Child(vm2, lv2, pg2, t, j, mem'[t][j].pa)
    BY Zenon DEF Children
  <2>1. t \in T /\ lv[t] # 0 /\ mem'[t] = mem[t] /\ mem[t][j].present
    BY <1>6, <1>9, EmptyIs, Zenon
  <2>2. mem[t][j].pa \in T /\ Child(vm, lv, pg, t, j, mem[t][j].pa)
    BY <1>1, <2>1, Zenon DEF Holds, Forest, Children
  <2> QED
    BY <1>14, <2>1, <2>2, Zenon
<1>16. Parents(mem', T2, vm2, lv2, pg2)
  <2> SUFFICES ASSUME NEW c \in T2, lv2[c] # LEVELS - 1
               PROVE  \E t \in T2, j \in Index :
                        Child(vm2, lv2, pg2, t, j, c) /\ mem'[t][j].present /\ mem'[t][j].pa = c
    BY DEF Parents
  <2>1. c \in T /\ lv[c] # LEVELS - 1
    BY <1>6, <1>7, Zenon
  <2>2. PICK t \in T, j \in Index :
           Child(vm, lv, pg, t, j, c) /\ mem[t][j].present /\ mem[t][j].pa = c
    BY <1>1, <2>1, Zenon DEF Holds, Forest, Parents
  <2> QED
    BY <1>9, <1>14, <2>1, <2>2, Zenon
<1>17. ASSUME NEW t \in T2, NEW i \in Index, mem'[t][i].present
       PROVE  t \in T /\ lv2[t] = lv[t] /\ vm2[t] = vm[t] /\ pg2[t] = pg[t] /\ mem'[t] = mem[t]
  BY <1>6, <1>9, <1>17, EmptyIs, Zenon
<1>18. Once(mem', T2, lv2)
  <2>1. Once(mem, T, lv)
    BY <1>1, Zenon DEF Holds
  <2> QED
    BY <1>17, <2>1 DEF Once
<1>19. Backed(mem', T2, vm2, lv2, pg2, free', containers, areas)
  <2> SUFFICES ASSUME NEW t \in T2, NEW i \in Index, lv2[t] = 0, mem'[t][i].present
               PROVE  /\ mem'[t][i].pa \in Frames =>
                           /\ mem'[t][i].pa \notin free' /\ mem'[t][i].pa \notin T2
                           /\ \A u \in Vmms : mem'[t][i].pa \notin containers[u]
                      /\ \E b \in areas[vm2[t]], w \in Pages :
                           /\ w \in PagesOf(b) /\ Same(w, pg2[t], 0) /\ VA2INDEX(w, 0) = i
                           /\ mem'[t][i].flags = b.flags
                           /\ \/ mem'[t][i].pa \in Frames
                              \/ mem'[t][i].pa \in Devices /\ vm2[t] = Kernel /\ b.is_mmio
    BY DEF Backed
  <2>1. /\ t \in T /\ lv[t] = 0 /\ vm2[t] = vm[t] /\ pg2[t] = pg[t] /\ mem'[t] = mem[t]
        /\ mem[t][i].present
    BY <1>17, Zenon
  <2>2. mem[t][i].pa \in Frames =>
          /\ mem[t][i].pa \notin free /\ mem[t][i].pa \notin T
          /\ \A u \in Vmms : mem[t][i].pa \notin containers[u]
    BY <1>1, <2>1, Zenon DEF Holds, Backed
  <2>3. \E b \in areas[vm[t]], w \in Pages :
           /\ w \in PagesOf(b) /\ Same(w, pg[t], 0) /\ VA2INDEX(w, 0) = i
           /\ mem[t][i].flags = b.flags
           /\ mem[t][i].pa \in Frames \/ (mem[t][i].pa \in Devices /\ vm[t] = Kernel /\ b.is_mmio)
    BY <1>1, <2>1, Zenon DEF Holds, Backed
  <2> QED
    BY <1>3, <1>4, <2>1, <2>2, <2>3
<1>20. Pool(T2, free', containers)
  BY <1>1, <1>3, <1>4, Zenon DEF Holds, Pool
<1>21. Spaces(root', containers, areas)
  <2>1. Spaces(root, containers, areas) /\ Kernel \in Vmms
    BY <1>1, Zenon DEF Holds, Vmms
  <2> QED
    BY <1>3, <1>5, <1>10, <2>1, Zenon DEF Spaces
<1>22. Holds(mem', root', free', containers', areas', T2, vm2, lv2, pg2)
  BY <1>3, <1>8, <1>9, <1>12, <1>13, <1>15, <1>16, <1>18, <1>19, <1>20, <1>21, Zenon DEF Holds, Forest
<1> QED
  BY <1>3, <1>22, Zenon DEF IInv, Sound


LEMMA AllowingIs ==
  ASSUME NEW a \in Areas, NEW v \in Vmms, NEW flags \in Flags[v]
  PROVE  /\ Allowing(a, flags) \in Areas /\ PagesOf(Allowing(a, flags)) = PagesOf(a)
         /\ Allowing(a, flags).flags = flags /\ Allowing(a, flags).is_mmio = a.is_mmio
<1>1. Allowing(a, flags) \in Areas
  BY Zenon DEF Areas, Allowing
<1>2. Allowing(a, flags).first = a.first /\ Allowing(a, flags).last = a.last
  BY Zenon DEF Allowing
<1>3. PagesOf(Allowing(a, flags)) = PagesOf(a)
  BY <1>2, Zenon DEF PagesOf
<1> QED
  BY <1>1, <1>3, Zenon DEF Allowing

\* update_area_access reaches every page of the area that is present, and no other.
LEMMA UpdateAreaKeeps ==
  ASSUME IInv, NEW v \in Vmms, NEW flags \in Flags[v], NEW a \in areas[v],
         TouchedFromStart(v, a), UpdateArea(v, a, flags)
  PROVE  IInv'
<1>1. PICK T, vm, lv, pg : Holds(mem, root, free, containers, areas, T, vm, lv, pg)
  BY Zenon DEF IInv, Sound
<1>2. a \in Areas
  BY <1>1, Zenon DEF Holds, Spaces
<1>3. PICK b : /\ b = Allowing(a, flags) /\ b \in Areas /\ PagesOf(b) = PagesOf(a)
               /\ b.flags = flags /\ b.is_mmio = a.is_mmio
  BY <1>2, AllowingIs, Zenon
<1> DEFINE before == {va \in PagesOf(a) :
                        \A w \in PagesOf(a) : w <= va => walk(mem, root[v], w) # 0}
           met == {<<walk(mem, root[v], va), VA2INDEX(va, 0)>> : va \in before}
<1>4. /\ mem' = updatepages(mem, root[v], a, flags)
      /\ areas' = [areas EXCEPT ![v] = (@ \ {a}) \cup {b}]
      /\ free' = free /\ root' = root /\ containers' = containers
      /\ next' = next /\ wild' = wild /\ halted' = halted
  BY <1>3, Zenon DEF UpdateArea, slotVars
<1>5. mem' = [f \in Tables |-> [i \in Index |->
                IF <<f, i>> \in met THEN Entry(mem[f][i].present, mem[f][i].pa, flags)
                ELSE mem[f][i]]]
  BY <1>4, Zenon DEF updatepages
<1>6. \A va \in PagesOf(a) : va \in Pages /\ va \in Addresses /\ va \in Int
  BY PagesOfIs, Zenon
<1>7. ASSUME NEW t, NEW i, <<t, i>> \in met
      PROVE  \E va \in PagesOf(a) : At(T, vm, lv, pg, v, va, 0, t) /\ i = VA2INDEX(va, 0)
  <2>1. PICK va \in before : t = walk(mem, root[v], va) /\ i = VA2INDEX(va, 0)
    BY <1>7, Zenon
  <2>2. va \in PagesOf(a) /\ t # 0
    BY <1>6, <2>1
  <2> QED
    BY <1>1, <1>6, <2>1, <2>2, DescriptorIs, Zenon DEF Holds
<1> HIDE DEF met
<1>8. Memory(mem')
  BY <1>5, Zenon DEF Memory
<1>9. ASSUME NEW t \in Tables, NEW i \in Index
      PROVE  /\ <<t, i>> \notin met => mem'[t][i] = mem[t][i]
             /\ mem'[t][i].pa = mem[t][i].pa
             /\ mem'[t][i].present => mem[t][i].present
             /\ <<t, i>> \in met => mem'[t][i].flags = flags
  <2>1. CASE <<t, i>> \in met
    <3>1. mem'[t][i] = Entry(mem[t][i].present, mem[t][i].pa, flags)
      BY <1>5, <2>1, Zenon
    <3> QED
      BY <2>1, <3>1, EntryIs
  <2>2. CASE <<t, i>> \notin met
    BY <1>5, <2>2, Zenon
  <2> QED
    BY <2>1, <2>2, Zenon
<1>10. T \subseteq Tables
  BY <1>1, Zenon DEF Holds, Forest, Places
<1>11. Forest(mem', T, vm, lv, pg, root)
  <2>1. \A t \in T, i \in Index : lv[t] # 0 => mem'[t][i] = mem[t][i]
    BY <1>7, <1>9, <1>10, Zenon DEF At
  <2>2. Forest(mem, T, vm, lv, pg, root) /\ Memory(mem') /\ UpperKept(mem, mem', T, lv)
    BY <1>1, <1>8, <2>1, Zenon DEF Holds, UpperKept
  <2> QED
    BY <2>2, LeafChange, Zenon
<1>12. /\ DOMAIN areas' = Vmms /\ \A u \in Vmms : u # v => areas'[u] = areas[u]
       /\ areas'[v] = (areas[v] \ {a}) \cup {b}
  BY <1>1, <1>4, Zenon DEF Holds, Spaces
<1>13. Once(mem', T, lv)
  <2>1. \A t \in T, i \in Index :
          mem'[t][i].pa = mem[t][i].pa /\ (mem'[t][i].present => mem[t][i].present)
    BY <1>9, <1>10, Zenon
  <2>2. Once(mem, T, lv)
    BY <1>1, Zenon DEF Holds
  <2> QED
    BY <2>1, <2>2 DEF Once
<1>14. Backed(mem', T, vm, lv, pg, free, containers, areas')
  <2> SUFFICES ASSUME NEW t \in T, NEW i \in Index, lv[t] = 0, mem'[t][i].present
               PROVE  /\ mem'[t][i].pa \in Frames =>
                           /\ mem'[t][i].pa \notin free /\ mem'[t][i].pa \notin T
                           /\ \A u \in Vmms : mem'[t][i].pa \notin containers[u]
                      /\ \E c \in areas'[vm[t]], w \in Pages :
                           /\ w \in PagesOf(c) /\ Same(w, pg[t], 0) /\ VA2INDEX(w, 0) = i
                           /\ mem'[t][i].flags = c.flags
                           /\ \/ mem'[t][i].pa \in Frames
                              \/ mem'[t][i].pa \in Devices /\ vm[t] = Kernel /\ c.is_mmio
    BY Zenon DEF Backed
  <2>1. mem[t][i].present /\ mem'[t][i].pa = mem[t][i].pa /\ vm[t] \in Vmms
    BY <1>1, <1>9, <1>10, Zenon DEF Holds, Forest, Places
  <2>2. mem[t][i].pa \in Frames =>
          /\ mem[t][i].pa \notin free /\ mem[t][i].pa \notin T
          /\ \A u \in Vmms : mem[t][i].pa \notin containers[u]
    BY <1>1, <2>1, Zenon DEF Holds, Backed
  <2>3. PICK c \in areas[vm[t]], w \in Pages :
           /\ w \in PagesOf(c) /\ Same(w, pg[t], 0) /\ VA2INDEX(w, 0) = i
           /\ mem[t][i].flags = c.flags
           /\ mem[t][i].pa \in Frames \/ (mem[t][i].pa \in Devices /\ vm[t] = Kernel /\ c.is_mmio)
    BY <1>1, <2>1, Zenon DEF Holds, Backed
  <2>4. CASE vm[t] = v /\ c = a
    <3>1. At(T, vm, lv, pg, v, w, 0, t) /\ w \in Addresses /\ w \in Int
      BY <1>6, <2>3, <2>4, Zenon DEF At
    <3>2. walk(mem, root[v], w) = t /\ t # 0
      BY <1>1, <1>10, <3>1, DescriptorIs, NoTable, Zenon DEF Holds
    <3>3. Descriptor(v, w).present
      BY <2>1, <2>3, <3>2, Zenon DEF Descriptor
    <3>4. ASSUME NEW x \in PagesOf(a), x <= w PROVE walk(mem, root[v], x) # 0
      <4>1. Descriptor(v, x).present
        <5>1. CASE x = w
          BY <3>3, <5>1, Zenon
        <5>2. CASE x # w
          <6>1. x < w
            BY <1>6, <3>1, <3>4, <5>2
          <6> QED
            BY <2>3, <2>4, <3>3, <6>1, Zenon DEF TouchedFromStart
        <5> QED
          BY <5>1, <5>2, Zenon
      <4> QED
        BY <4>1, Zenon DEF Descriptor, Blank, Entry
    <3>5. <<t, i>> \in met
      BY <2>3, <2>4, <3>2, <3>4, Zenon DEF met
    <3>6. mem'[t][i].flags = flags
      BY <1>9, <1>10, <3>5, Zenon
    <3> QED
      BY <1>3, <1>12, <2>1, <2>2, <2>3, <2>4, <3>6, Zenon
  <2>5. CASE ~(vm[t] = v /\ c = a)
    <3>1. <<t, i>> \notin met
      <4> SUFFICES ASSUME <<t, i>> \in met PROVE FALSE
        BY Zenon
      <4>1. PICK x \in PagesOf(a) : At(T, vm, lv, pg, v, x, 0, t) /\ i = VA2INDEX(x, 0)
        BY <1>7
      <4>2. vm[t] = v /\ Same(x, pg[t], 0) /\ x \in Addresses /\ w \in Addresses
        BY <1>6, <4>1, AddressSpaceAssumption, Zenon DEF At
      <4>3. x = w
        BY <2>3, <4>1, <4>2, OnePage, Zenon
      <4>4. a = c
        BY <1>1, <2>3, <4>1, <4>2, <4>3, Zenon DEF Holds, Spaces
      <4> QED
        BY <2>5, <4>2, <4>4, Zenon
    <3>2. mem'[t][i] = mem[t][i]
      BY <1>9, <1>10, <3>1, Zenon
    <3>3. c \in areas'[vm[t]]
      BY <1>12, <2>1, <2>5, Zenon
    <3> QED
      BY <2>2, <2>3, <3>2, <3>3, Zenon
  <2> QED
    BY <2>4, <2>5, Zenon
<1>15. Spaces(root, containers, areas')
  <2>1. \A u \in Vmms : root[u] = 0 => containers[u] = {} /\ areas'[u] = {}
    BY <1>1, <1>12, Zenon DEF Holds, Spaces
  <2>2. \A u \in Vmms : areas'[u] \subseteq Areas
    BY <1>1, <1>3, <1>12, Zenon DEF Holds, Spaces
  <2>3. ASSUME NEW u \in Vmms, NEW c \in areas'[u], NEW d \in areas'[u], NEW w \in Pages,
               w \in PagesOf(c), w \in PagesOf(d)
        PROVE  c = d
    <3>1. CASE u # v
      BY <1>1, <1>12, <2>3, <3>1, Zenon DEF Holds, Spaces
    <3>2. CASE u = v
      BY <1>1, <1>3, <1>12, <2>3, <3>2, Zenon DEF Holds, Spaces
    <3> QED
      BY <3>1, <3>2, Zenon
  <2> QED
    BY <1>1, <1>12, <2>1, <2>2, <2>3, Zenon DEF Holds, Spaces
<1>16. Holds(mem', root', free', containers', areas', T, vm, lv, pg)
  BY <1>1, <1>4, <1>11, <1>13, <1>14, <1>15, Zenon DEF Holds
<1> QED
  BY <1>4, <1>16, Zenon DEF IInv, Sound


\* What unmappages gives to kfree was mapped in that area, once.
LEMMA GivenIs ==
  ASSUME NEW T, NEW vm, NEW lv, NEW pg,
         Holds(mem, root, free, containers, areas, T, vm, lv, pg),
         NEW v \in Vmms, NEW a \in areas[v], Touched(v, a), NEW f \in given(mem, root[v], a)
  PROVE  /\ \E t \in T, i \in Index :
              /\ vm[t] = v /\ lv[t] = 0 /\ mem[t][i].present /\ mem[t][i].pa = f
              /\ <<t, i>> \in Descriptors(mem, root[v], a)
         /\ f \in Frames \/ (f \in Devices /\ v = Kernel /\ a.is_mmio)
<1>1. PICK d \in Descriptors(mem, root[v], a) : f = mem[d[1]][d[2]].pa
  BY Zenon DEF given
<1>2. PICK va \in PagesOf(a) :
        walk(mem, root[v], va) # 0 /\ d = <<walk(mem, root[v], va), VA2INDEX(va, 0)>>
  BY <1>1, Zenon DEF Descriptors
<1>3. va \in Pages /\ va \in Addresses
  BY PagesOfIs, Zenon
<1>4. PICK t, i : t = walk(mem, root[v], va) /\ i = VA2INDEX(va, 0)
  BY Zenon
<1>5. t # 0 /\ d = <<t, i>> /\ f = mem[t][i].pa /\ <<t, i>> \in Descriptors(mem, root[v], a)
  BY <1>1, <1>2, <1>4, Zenon
<1>6. At(T, vm, lv, pg, v, va, 0, t) /\ i \in Index
  BY <1>3, <1>4, <1>5, DescriptorIs, Zenon DEF Holds
<1>7. mem[t][i].present
  BY <1>4, <1>5, Zenon DEF Touched, Descriptor
<1>8. PICK b \in areas[v] :
        /\ va \in PagesOf(b)
        /\ mem[t][i].pa \in Frames \/ (mem[t][i].pa \in Devices /\ v = Kernel /\ b.is_mmio)
  <2>1. mem[t][VA2INDEX(va, 0)].present
    BY <1>4, <1>7, Zenon
  <2>2. Allows(areas, v, va, mem[t][VA2INDEX(va, 0)])
    BY <1>3, <1>6, <2>1, PresentIs, Zenon
  <2>3. Allows(areas, v, va, mem[t][i])
    BY <1>4, <2>2, Zenon
  <2> QED
    BY <2>3, Zenon DEF Allows
<1>9. b = a
  BY <1>3, <1>8, Zenon DEF Holds, Spaces
<1> QED
  BY <1>5, <1>6, <1>7, <1>8, <1>9, Zenon DEF At

LEMMA VmmFreeAreaKeeps ==
  ASSUME IInv, NEW v \in Vmms, NEW a \in areas[v], Touched(v, a), VmmFreeArea(v, a)
  PROVE  IInv'
<1>1. PICK T, vm, lv, pg : Holds(mem, root, free, containers, areas, T, vm, lv, pg)
  BY Zenon DEF IInv, Sound
<1>2. PICK frames : frames = (IF a.is_mmio THEN {} ELSE given(mem, root[v], a))
  BY Zenon
<1>3. PICK met : met = Descriptors(mem, root[v], a)
  BY Zenon
<1>4. /\ mem' = unmapped(mem, root[v], a) /\ areas' = [areas EXCEPT ![v] = @ \ {a}]
      /\ free' = free \cup (frames \cap Frames) /\ wild' = (wild \/ frames \ Frames # {})
      /\ root' = root /\ containers' = containers /\ next' = next /\ halted' = halted
  BY <1>2, Zenon DEF VmmFreeArea, kfree, slotVars
<1>5. mem' = [f \in Tables |-> [i \in Index |->
                IF <<f, i>> \in met THEN Entry(FALSE, mem[f][i].pa, mem[f][i].flags)
                ELSE mem[f][i]]]
  BY <1>3, <1>4, Zenon DEF unmapped
<1>6. Memory(mem')
  BY <1>5, Zenon DEF Memory
<1>7. ASSUME NEW t \in Tables, NEW i \in Index
      PROVE  /\ <<t, i>> \notin met => mem'[t][i] = mem[t][i]
             /\ <<t, i>> \in met => ~mem'[t][i].present
  BY <1>5, Zenon DEF Entry
<1>8. ASSUME NEW t, NEW i, <<t, i>> \in met
      PROVE  \E va \in PagesOf(a) : At(T, vm, lv, pg, v, va, 0, t) /\ i = VA2INDEX(va, 0)
  <2>1. PICK va \in PagesOf(a) :
          walk(mem, root[v], va) # 0 /\ t = walk(mem, root[v], va) /\ i = VA2INDEX(va, 0)
    BY <1>3, <1>8, Zenon DEF Descriptors
  <2> QED
    BY <1>1, <2>1, PagesOfIs, DescriptorIs, Zenon DEF Holds
<1>9. T \subseteq Tables
  BY <1>1, Zenon DEF Holds, Forest, Places
<1>10. Forest(mem', T, vm, lv, pg, root)
  <2>1. \A t \in T, i \in Index : lv[t] # 0 => mem'[t][i] = mem[t][i]
    BY <1>7, <1>8, <1>9, Zenon DEF At
  <2>2. Forest(mem, T, vm, lv, pg, root) /\ Memory(mem') /\ UpperKept(mem, mem', T, lv)
    BY <1>1, <1>6, <2>1, Zenon DEF Holds, UpperKept
  <2> QED
    BY <2>2, LeafChange, Zenon
<1>11. /\ DOMAIN areas' = Vmms /\ \A u \in Vmms : u # v => areas'[u] = areas[u]
       /\ areas'[v] = areas[v] \ {a}
  BY <1>1, <1>4, Zenon DEF Holds, Spaces
<1>12. ASSUME NEW t \in T, NEW i \in Index, mem'[t][i].present
       PROVE  <<t, i>> \notin met /\ mem'[t][i] = mem[t][i]
  BY <1>7, <1>9, <1>12, Zenon
<1>13. Once(mem', T, lv)
  <2>1. Once(mem, T, lv)
    BY <1>1, Zenon DEF Holds
  <2>2. \A t \in T, i \in Index : mem'[t][i].present => mem'[t][i] = mem[t][i]
    BY <1>12, Zenon
  <2> QED
    BY <2>1, <2>2 DEF Once
<1>14. ASSUME NEW f \in frames
       PROVE  /\ f \in Frames
              /\ \E t \in T, i \in Index : /\ lv[t] = 0 /\ mem[t][i].present /\ mem[t][i].pa = f
                                          /\ <<t, i>> \in met
  <2>1. ~a.is_mmio /\ f \in given(mem, root[v], a)
    BY <1>2, Zenon
  <2>2. /\ \E t \in T, i \in Index :
             /\ vm[t] = v /\ lv[t] = 0 /\ mem[t][i].present /\ mem[t][i].pa = f
             /\ <<t, i>> \in Descriptors(mem, root[v], a)
        /\ f \in Frames \/ (f \in Devices /\ v = Kernel /\ a.is_mmio)
    BY <1>1, <2>1, GivenIs, Zenon
  <2> QED
    BY <1>3, <2>1, <2>2, Zenon
<1>15. ~wild'
  BY <1>4, <1>14, Zenon DEF IInv
<1>16. Backed(mem', T, vm, lv, pg, free', containers, areas')
  <2> SUFFICES ASSUME NEW t \in T, NEW i \in Index, lv[t] = 0, mem'[t][i].present
               PROVE  /\ mem'[t][i].pa \in Frames =>
                           /\ mem'[t][i].pa \notin free' /\ mem'[t][i].pa \notin T
                           /\ \A u \in Vmms : mem'[t][i].pa \notin containers[u]
                      /\ \E c \in areas'[vm[t]], w \in Pages :
                           /\ w \in PagesOf(c) /\ Same(w, pg[t], 0) /\ VA2INDEX(w, 0) = i
                           /\ mem'[t][i].flags = c.flags
                           /\ \/ mem'[t][i].pa \in Frames
                              \/ mem'[t][i].pa \in Devices /\ vm[t] = Kernel /\ c.is_mmio
    BY DEF Backed
  <2>1. mem'[t][i] = mem[t][i] /\ mem[t][i].present /\ <<t, i>> \notin met /\ vm[t] \in Vmms
    BY <1>1, <1>12, Zenon DEF Holds, Forest, Places
  <2>2. mem[t][i].pa \in Frames =>
          /\ mem[t][i].pa \notin free /\ mem[t][i].pa \notin T
          /\ \A u \in Vmms : mem[t][i].pa \notin containers[u]
    BY <1>1, <2>1, Zenon DEF Holds, Backed
  <2>3. mem[t][i].pa \notin frames
    <3> SUFFICES ASSUME mem[t][i].pa \in frames PROVE FALSE
      BY Zenon
    <3>1. PICK u \in T, j \in Index :
             /\ lv[u] = 0 /\ mem[u][j].present /\ mem[u][j].pa = mem[t][i].pa /\ <<u, j>> \in met
      BY <1>14, Zenon
    <3>2. mem[t][i].pa \in Frames
      BY <1>14, Zenon
    <3>3. t = u /\ i = j
      BY <1>1, <2>1, <3>1, <3>2 DEF Holds, Once
    <3> QED
      BY <2>1, <3>1, <3>3, Zenon
  <2>4. PICK c \in areas[vm[t]], w \in Pages :
           /\ w \in PagesOf(c) /\ Same(w, pg[t], 0) /\ VA2INDEX(w, 0) = i
           /\ mem[t][i].flags = c.flags
           /\ mem[t][i].pa \in Frames \/ (mem[t][i].pa \in Devices /\ vm[t] = Kernel /\ c.is_mmio)
    BY <1>1, <2>1, Zenon DEF Holds, Backed
  <2>5. ~(vm[t] = v /\ c = a)
    <3> SUFFICES ASSUME vm[t] = v, c = a PROVE FALSE
      BY Zenon
    <3>1. At(T, vm, lv, pg, v, w, 0, t) /\ w \in Addresses
      BY <2>4, AddressSpaceAssumption, Zenon DEF At
    <3>2. walk(mem, root[v], w) = t /\ t # 0
      BY <1>1, <1>9, <3>1, DescriptorIs, NoTable, Zenon DEF Holds
    <3>3. <<t, i>> \in met
      BY <1>3, <2>4, <3>2, Zenon DEF Descriptors
    <3> QED
      BY <2>1, <3>3, Zenon
  <2>6. c \in areas'[vm[t]]
    BY <1>11, <2>1, <2>5, Zenon
  <2>7. mem[t][i].pa \in Frames => mem[t][i].pa \notin free'
    BY <1>4, <2>2, <2>3, Zenon
  <2> QED
    BY <2>1, <2>2, <2>4, <2>6, <2>7, ZenonT(30)
<1>17. Pool(T, free', containers)
  <2>1. ASSUME NEW f \in frames PROVE f \notin T /\ \A u \in Vmms : f \notin containers[u]
    <3>1. PICK t \in T, i \in Index : lv[t] = 0 /\ mem[t][i].present /\ mem[t][i].pa = f
      BY <1>14, Zenon
    <3>2. f \in Frames
      BY <1>14, Zenon
    <3> QED
      BY <1>1, <3>1, <3>2, Zenon DEF Holds, Backed
  <2> QED
    BY <1>1, <1>4, <2>1, Zenon DEF Holds, Pool
<1>18. Spaces(root, containers, areas')
  <2>1. \A u \in Vmms : \A c \in areas'[u] : c \in areas[u]
    BY <1>11, Zenon
  <2>2. \A u \in Vmms : root[u] = 0 => containers[u] = {} /\ areas'[u] = {}
    BY <1>1, <2>1, Zenon DEF Holds, Spaces
  <2> QED
    BY <1>1, <1>11, <2>1, <2>2, Zenon DEF Holds, Spaces
<1>19. Holds(mem', root', free', containers', areas', T, vm, lv, pg)
  BY <1>4, <1>10, <1>13, <1>16, <1>17, <1>18, Zenon DEF Holds
<1> QED
  BY <1>4, <1>15, <1>19, Zenon DEF IInv, Sound


\* The tables of the address space go, the places of the others stay; what is freed
\* is what it used.
LEMMA VmmDestroyKeeps ==
  ASSUME IInv, NEW v \in Users, \A a \in areas[v] : Touched(v, a),
         NEW behind \in Behind(next[v]), VmmDestroy(v, behind)
  PROVE  IInv'
<1>1. PICK T, vm, lv, pg : Holds(mem, root, free, containers, areas, T, vm, lv, pg)
  BY Zenon DEF IInv, Sound
<1>2. PICK frames : frames = UNION {given(mem, root[v], a) : a \in areas[v]}
  BY Zenon
<1>3. v \in Vmms /\ v # Kernel /\ root[v] # 0
  BY AddressSpaceAssumption, Zenon DEF Vmms, VmmDestroy, Exists
<1>0. behind = {}
  BY <1>3, Zenon DEF IInv, Behind
<1>4. /\ free' = free \cup ((frames \cup containers[v] \cup {root[v]}) \cap Frames)
      /\ mem' = Forget(mem, TablesOf(v)) /\ wild' = (wild \/ (frames \cup containers[v]) \ Frames # {})
      /\ root' = [root EXCEPT ![v] = 0] /\ containers' = [containers EXCEPT ![v] = {}]
      /\ areas' = [areas EXCEPT ![v] = {}] /\ halted' = halted /\ next' = [next EXCEPT ![v] = 0]
  <2>1. frames \cup containers[v] \cup behind = frames \cup containers[v]
    BY <1>0, Zenon
  <2> QED
    BY <1>2, <2>1, Zenon DEF VmmDestroy, kfree
<1>5. ASSUME NEW f \in frames
      PROVE  /\ f \in Frames
             /\ \E t \in T, i \in Index :
                  vm[t] = v /\ lv[t] = 0 /\ mem[t][i].present /\ mem[t][i].pa = f
  <2>1. PICK a \in areas[v] : f \in given(mem, root[v], a)
    BY <1>2, Zenon
  <2>2. /\ \E t \in T, i \in Index :
             /\ vm[t] = v /\ lv[t] = 0 /\ mem[t][i].present /\ mem[t][i].pa = f
             /\ <<t, i>> \in Descriptors(mem, root[v], a)
        /\ f \in Frames \/ (f \in Devices /\ v = Kernel /\ a.is_mmio)
    BY <1>1, <1>3, <2>1, GivenIs, Zenon
  <2> QED
    BY <1>3, <2>2, Zenon
<1>6. ~wild' /\ next' = next
  <2>1. containers[v] \subseteq Frames
    BY <1>1, <1>3, Zenon DEF Holds, Pool
  <2>2. next' = next
    BY <1>4 DEF IInv
  <2> QED
    BY <1>4, <1>5, <2>1, <2>2, Zenon DEF IInv
<1> DEFINE T2 == {t \in T : vm[t] # v}
           vm2 == [t \in T2 |-> vm[t]]
           lv2 == [t \in T2 |-> lv[t]]
           pg2 == [t \in T2 |-> pg[t]]
<1>7. TablesOf(v) = {t \in T : vm[t] = v}
  BY <1>1, <1>3, TablesOfIs DEF Holds
<1>8. Memory(mem') /\ \A t \in T2 : mem'[t] = mem[t]
  <2>1. mem' = [f \in Tables |-> IF f \in TablesOf(v) THEN EmptyTable ELSE mem[f]]
    BY <1>4, Zenon DEF Forget
  <2>2. T \subseteq Tables /\ Memory(mem)
    BY <1>1, Zenon DEF Holds, Forest, Places
  <2>3. Memory(mem')
    BY <2>1, <2>2, EmptyIs, Zenon DEF Memory
  <2> QED
    BY <1>7, <2>1, <2>2, <2>3, Zenon
<1>9. Places(T2, vm2, lv2, pg2)
  BY <1>1, Zenon DEF Holds, Forest, Places
<1>10. \A t \in T2 : /\ vm2[t] = vm[t] /\ lv2[t] = lv[t] /\ pg2[t] = pg[t]
                     /\ t \in T /\ vm[t] # v /\ vm[t] \in Vmms
  BY <1>1, Zenon DEF Holds, Forest, Places
<1>11. \A t \in T : vm[t] # v => t \in T2
  BY Zenon
<1> HIDE DEF vm2, lv2, pg2, T2
<1>12. /\ DOMAIN root' = Vmms /\ root'[v] = 0 /\ \A u \in Vmms : u # v => root'[u] = root[u]
       /\ DOMAIN containers' = Vmms /\ containers'[v] = {}
       /\ \A u \in Vmms : u # v => containers'[u] = containers[u]
       /\ DOMAIN areas' = Vmms /\ areas'[v] = {} /\ \A u \in Vmms : u # v => areas'[u] = areas[u]
  BY <1>1, <1>3, <1>4, Zenon DEF Holds, Spaces, Pool
<1>13. Roots(T2, vm2, lv2, root')
  <2>0. Roots(T, vm, lv, root)
    BY <1>1, Zenon DEF Holds, Forest
  <2>1. \A u \in Vmms : root'[u] # 0 =>
          root'[u] \in T2 /\ vm2[root'[u]] = u /\ lv2[root'[u]] = LEVELS - 1
    BY <1>10, <1>11, <1>12, <2>0 DEF Roots
  <2>2. \A t \in T2 : root'[vm2[t]] # 0 /\ (lv2[t] = LEVELS - 1 => root'[vm2[t]] = t)
    BY <1>10, <1>12, <2>0 DEF Roots
  <2> QED
    BY <2>1, <2>2, Zenon DEF Roots
<1>14. OneEach(T2, vm2, lv2, pg2)
  <2>1. OneEach(T, vm, lv, pg)
    BY <1>1, Zenon DEF Holds, Forest
  <2> QED
    <3>1. SUFFICES ASSUME NEW t \in T2, NEW u \in T2, vm2[t] = vm2[u] /\ lv2[t] = lv2[u],
                          Same(pg2[t], pg2[u], lv2[t])
                   PROVE  t = u
      BY Zenon DEF OneEach
    <3>2. t \in T /\ u \in T /\ vm[t] = vm[u] /\ lv[t] = lv[u] /\ Same(pg[t], pg[u], lv[t])
      BY <1>10, <3>1, Zenon
    <3> QED
      BY <2>1, <3>2, Zenon DEF OneEach
<1>15. \A t, c \in T2, j \in Index : Child(vm2, lv2, pg2, t, j, c) <=> Child(vm, lv, pg, t, j, c)
  BY <1>10, Zenon DEF Child
<1>16. Children(mem', T2, vm2, lv2, pg2)
  <2> SUFFICES ASSUME NEW t \in T2, NEW j \in Index, lv2[t] # 0, mem'[t][j].present
               PROVE  mem'[t][j].pa \in T2 /\ Child(vm2, lv2, pg2, t, j, mem'[t][j].pa)
    BY Zenon DEF Children
  <2>1. t \in T /\ vm[t] # v /\ lv[t] # 0 /\ mem'[t] = mem[t] /\ mem[t][j].present
    BY <1>8, <1>10, Zenon
  <2>2. mem[t][j].pa \in T /\ Child(vm, lv, pg, t, j, mem[t][j].pa)
    BY <1>1, <2>1, Zenon DEF Holds, Forest, Children
  <2>3. mem[t][j].pa \in T2
    BY <1>11, <2>1, <2>2, Zenon DEF Child
  <2> QED
    BY <1>15, <2>1, <2>2, <2>3, Zenon
<1>17. Parents(mem', T2, vm2, lv2, pg2)
  <2> SUFFICES ASSUME NEW c \in T2, lv2[c] # LEVELS - 1
               PROVE  \E t \in T2, j \in Index :
                        Child(vm2, lv2, pg2, t, j, c) /\ mem'[t][j].present /\ mem'[t][j].pa = c
    BY Zenon DEF Parents
  <2>1. c \in T /\ vm[c] # v /\ lv[c] # LEVELS - 1
    BY <1>10, Zenon
  <2>2. PICK t \in T, j \in Index :
           Child(vm, lv, pg, t, j, c) /\ mem[t][j].present /\ mem[t][j].pa = c
    BY <1>1, <2>1, Zenon DEF Holds, Forest, Parents
  <2>3. t \in T2
    BY <1>11, <2>1, <2>2, Zenon DEF Child
  <2> QED
    BY <1>8, <1>15, <2>2, <2>3, Zenon
<1>18. Once(mem', T2, lv2)
  <2>1. Once(mem, T, lv)
    BY <1>1, Zenon DEF Holds
  <2> QED
    BY <1>8, <1>10, <2>1 DEF Once
<1>19. ASSUME NEW t \in T, NEW i \in Index, vm[t] # v, lv[t] = 0, mem[t][i].present,
              mem[t][i].pa \in Frames
       PROVE  mem[t][i].pa \notin free'
  <2>1. /\ mem[t][i].pa \notin free /\ mem[t][i].pa \notin T
        /\ \A u \in Vmms : mem[t][i].pa \notin containers[u]
    BY <1>1, <1>19, Zenon DEF Holds, Backed
  <2>2. mem[t][i].pa \notin frames
    <3> SUFFICES ASSUME mem[t][i].pa \in frames PROVE FALSE
      BY Zenon
    <3>1. PICK u \in T, j \in Index :
             vm[u] = v /\ lv[u] = 0 /\ mem[u][j].present /\ mem[u][j].pa = mem[t][i].pa
      BY <1>5, Zenon
    <3>2. t = u
      BY <1>1, <1>19, <3>1, Zenon DEF Holds, Once
    <3> QED
      BY <1>19, <3>1, <3>2, Zenon
  <2>3. root[v] \in T
    BY <1>1, <1>3, Zenon DEF Holds, Forest, Roots
  <2> QED
    BY <1>3, <1>4, <2>1, <2>2, <2>3, Zenon
<1>20. Backed(mem', T2, vm2, lv2, pg2, free', containers', areas')
  <2> SUFFICES ASSUME NEW t \in T2, NEW i \in Index, lv2[t] = 0, mem'[t][i].present
               PROVE  /\ mem'[t][i].pa \in Frames =>
                           /\ mem'[t][i].pa \notin free' /\ mem'[t][i].pa \notin T2
                           /\ \A u \in Vmms : mem'[t][i].pa \notin containers'[u]
                      /\ \E b \in areas'[vm2[t]], w \in Pages :
                           /\ w \in PagesOf(b) /\ Same(w, pg2[t], 0) /\ VA2INDEX(w, 0) = i
                           /\ mem'[t][i].flags = b.flags
                           /\ \/ mem'[t][i].pa \in Frames
                              \/ mem'[t][i].pa \in Devices /\ vm2[t] = Kernel /\ b.is_mmio
    BY Zenon DEF Backed
  <2>1. /\ t \in T /\ lv[t] = 0 /\ vm2[t] = vm[t] /\ pg2[t] = pg[t] /\ mem'[t] = mem[t]
        /\ mem[t][i].present /\ vm[t] # v /\ vm[t] \in Vmms
    BY <1>8, <1>10, Zenon
  <2>2. mem[t][i].pa \in Frames =>
          /\ mem[t][i].pa \notin T
          /\ \A u \in Vmms : mem[t][i].pa \notin containers[u]
    BY <1>1, <2>1, Zenon DEF Holds, Backed
  <2>3. \E b \in areas[vm[t]], w \in Pages :
           /\ w \in PagesOf(b) /\ Same(w, pg[t], 0) /\ VA2INDEX(w, 0) = i
           /\ mem[t][i].flags = b.flags
           /\ mem[t][i].pa \in Frames \/ (mem[t][i].pa \in Devices /\ vm[t] = Kernel /\ b.is_mmio)
    BY <1>1, <2>1, Zenon DEF Holds, Backed
  <2>4. mem[t][i].pa \in Frames => /\ mem[t][i].pa \notin free' /\ mem[t][i].pa \notin T2
                                   /\ \A u \in Vmms : mem[t][i].pa \notin containers'[u]
    BY <1>10, <1>12, <1>19, <2>1, <2>2, AddressSpaceAssumption
  <2>5. areas'[vm[t]] = areas[vm[t]]
    BY <1>12, <2>1, Zenon
  <2> QED
    BY <2>1, <2>3, <2>4, <2>5
<1>21. Pool(T2, free', containers')
  <2>1. ASSUME NEW f \in frames PROVE f \notin T /\ \A u \in Vmms : f \notin containers[u]
    <3>1. PICK t \in T, i \in Index : lv[t] = 0 /\ mem[t][i].present /\ mem[t][i].pa = f
      BY <1>5, Zenon
    <3>2. f \in Frames
      BY <1>5, Zenon
    <3> QED
      BY <1>1, <3>1, <3>2, Zenon DEF Holds, Backed
  <2>2. root[v] \in T /\ vm[root[v]] = v
    BY <1>1, <1>3, Zenon DEF Holds, Forest, Roots
  <2>3. free' \subseteq Frames /\ free' \cap T2 = {}
    <3>1. free \subseteq Frames /\ free \cap T = {} /\ \A f \in containers[v] : f \notin T
      BY <1>1, <1>3, Zenon DEF Holds, Pool
    <3>2. 0 \notin Frames
      BY AddressSpaceAssumption, Zenon
    <3>3. root[v] \notin T2 /\ \A f \in T2 : f \in T
      BY <1>10, <2>2, Zenon
    <3> QED
      BY <1>4, <2>1, <3>1, <3>2, <3>3, Zenon
  <2>4. ASSUME NEW u \in Vmms, NEW f \in containers'[u]
        PROVE  f \in Frames /\ f \notin free' /\ f \notin T2
    <3>1. u # v /\ f \in containers[u]
      BY <1>12, <2>4, Zenon
    <3>2. f \in Frames /\ f \notin free /\ f \notin T /\ f \notin containers[v]
      BY <1>1, <1>3, <2>4, <3>1, Zenon DEF Holds, Pool
    <3>3. f \notin frames /\ f # root[v]
      BY <2>1, <2>2, <3>1, <3>2, Zenon
    <3> QED
      BY <1>4, <1>10, <3>2, <3>3, Zenon
  <2>5. \A u, w \in Vmms : \A f \in containers'[u] : f \in containers'[w] => u = w
    <3>1. \A u, w \in Vmms : \A f \in containers[u] : f \in containers[w] => u = w
      BY <1>1, Zenon DEF Holds, Pool
    <3> QED
      BY <1>12, <3>1, Zenon
  <2> QED
    BY <1>12, <2>3, <2>4, <2>5, Zenon DEF Pool
<1>22. Spaces(root', containers', areas')
  <2>1. Spaces(root, containers, areas) /\ Kernel \in Vmms
    BY <1>1, Zenon DEF Holds, Vmms
  <2>2. \A u \in Vmms : root'[u] = 0 => containers'[u] = {} /\ areas'[u] = {}
    BY <1>12, <2>1, Zenon DEF Spaces
  <2>3. \A u \in Vmms : \A a \in areas'[u] : a \in areas[u]
    BY <1>12, Zenon
  <2>4. root'[Kernel] = KernelRoot
    BY <1>3, <1>12, <2>1, Zenon DEF Spaces
  <2> QED
    BY <1>12, <2>1, <2>2, <2>3, <2>4 DEF Spaces
<1>23. Holds(mem', root', free', containers', areas', T2, vm2, lv2, pg2)
  BY <1>8, <1>9, <1>13, <1>14, <1>16, <1>17, <1>18, <1>20, <1>21, <1>22, Zenon DEF Holds, Forest
<1> QED
  BY <1>4, <1>6, <1>23, Zenon DEF IInv, Sound


LEMMA CarefulKeeps == IInv /\ [Careful]_vars => IInv'
<1> SUFFICES ASSUME IInv, [Careful]_vars PROVE IInv'
  BY Zenon
<1>1. CASE UNCHANGED vars
  <2>1. /\ mem' = mem /\ root' = root /\ free' = free /\ containers' = containers
        /\ next' = next /\ areas' = areas /\ wild' = wild /\ halted' = halted
    BY <1>1, Zenon DEF vars, slotVars
  <2> QED
    BY <2>1, Zenon DEF IInv
<1>2. CASE Careful
  <2>1. CASE \E v \in Users : VmmCreate(v, EmptyTable)
    BY <2>1, VmmCreateKeeps, Zenon
  <2>2. CASE \E v \in Vmms : Enough /\ \E a \in Areas : VmmAlloc(v, a, 0)
    BY <2>2, VmmAllocKeeps, Zenon
  <2>3. CASE \E v \in Vmms : Enough /\ \E a \in areas[v] : \E va \in PagesOf(a), access \in Accesses :
               Permitted(v, a, va, access) /\ PageFault(v, va, access)
    BY <2>3, PageFaultKeeps, Zenon
  <2>4. CASE \E v \in Vmms : \E a \in areas[v], flags \in Flags[v] :
               TouchedFromStart(v, a) /\ UpdateArea(v, a, flags)
    BY <2>4, UpdateAreaKeeps, Zenon
  <2>5. CASE \E v \in Vmms : \E a \in areas[v] : Touched(v, a) /\ VmmFreeArea(v, a)
    BY <2>5, VmmFreeAreaKeeps, Zenon
  <2>6. CASE Enough /\ \E a \in Areas, dev \in Devices : MapMmio(Kernel, a, dev, 0)
    BY <2>6, MapMmioKeeps, Zenon
  <2>7. CASE \E v \in Users : /\ \A a \in areas[v] : Touched(v, a)
                            /\ \E behind \in Behind(next[v]) : VmmDestroy(v, behind)
    BY <2>7, VmmDestroyKeeps, Zenon
  <2> QED
    BY <1>2, <2>1, <2>2, <2>3, <2>4, <2>5, <2>6, <2>7, Zenon DEF Careful
<1> QED
  BY <1>1, <1>2, Zenon

-----------------------------------------------------------------------------
(* No frame has two uses.                                                  *)

\* A reference and the frame it refers to, from the page tables, the roots, the
\* containers or the free frames.
LEMMA UsesAre ==
  ASSUME NEW T, NEW vm, NEW lv, NEW pg,
         Holds(mem, root, free, containers, areas, T, vm, lv, pg), NEW u \in Uses
  PROVE  \/ \E t \in T, i \in Index :
              mem[t][i].present /\ u = <<<<"entry", t, i>>, mem[t][i].pa>>
         \/ \E v \in Vmms : u = <<<<"root", v>>, root[v]>>
         \/ \E v \in Vmms : \E f \in containers[v] : u = <<<<"container", v, f>>, f>>
         \/ u[2] \in free /\ u = <<<<"free", u[2]>>, u[2]>>
<1> DEFINE tables == UNION {TablesOf(v) : v \in Vmms}
           entries == {<<<<"entry", x[1], x[2]>>, mem[x[1]][x[2]].pa>> :
                         x \in {x \in tables \X Index : mem[x[1]][x[2]].present}}
<1>1. tables \subseteq T
  BY TablesOfIs DEF Holds
<1> HIDE DEF tables
<1>2. CASE u \in entries
  <2>1. PICK x \in tables \X Index :
          mem[x[1]][x[2]].present /\ u = <<<<"entry", x[1], x[2]>>, mem[x[1]][x[2]].pa>>
    BY <1>2, Zenon
  <2>2. x[1] \in T /\ x[2] \in Index
    BY <1>1, <2>1, Zenon
  <2> QED
    BY <2>1, <2>2, Zenon
<1>3. CASE u \in {<<<<"root", v>>, root[v]>> : v \in Vmms}
  BY <1>3, Zenon
<1>4. CASE u \in UNION {{<<<<"container", v, f>>, f>> : f \in containers[v]} : v \in Vmms}
  BY <1>4, Zenon
<1>5. CASE u \in {<<<<"free", f>>, f>> : f \in free}
  <2>1. PICK f \in free : u = <<<<"free", f>>, f>>
    BY <1>5, Zenon
  <2>2. u[2] = f
    BY <2>1, Zenon
  <2> QED
    BY <2>1, <2>2, Zenon
<1>6. Uses = entries \cup {<<<<"root", v>>, root[v]>> : v \in Vmms}
                 \cup {<<<<"free", f>>, f>> : f \in free}
                 \cup UNION {{<<<<"container", v, f>>, f>> : f \in containers[v]} : v \in Vmms}
  BY Zenon DEF Uses, tables
<1> QED
  BY <1>2, <1>3, <1>4, <1>5, <1>6, Zenon

\* The use of a frame is where the places say.
LEMMA OneUse ==
  ASSUME NEW T, NEW vm, NEW lv, NEW pg,
         Holds(mem, root, free, containers, areas, T, vm, lv, pg),
         NEW x \in Uses, NEW y \in Uses, x[2] = y[2], x[2] \in Frames
  PROVE  x = y
<1>1. PICK f \in Frames : x[2] = f /\ y[2] = f
  BY Zenon
<1> DEFINE Data(t, i) == t \in T /\ i \in Index /\ lv[t] = 0 /\ mem[t][i].present /\ mem[t][i].pa = f
           Table(t, i) == t \in T /\ i \in Index /\ lv[t] # 0 /\ mem[t][i].present /\ mem[t][i].pa = f
           Kind(u) == \/ \E t, i : Data(t, i) /\ u = <<<<"entry", t, i>>, f>>
                      \/ \E t, i : Table(t, i) /\ u = <<<<"entry", t, i>>, f>>
                      \/ \E v \in Vmms : root[v] = f /\ u = <<<<"root", v>>, f>>
                      \/ \E v \in Vmms : f \in containers[v] /\ u = <<<<"container", v, f>>, f>>
                      \/ f \in free /\ u = <<<<"free", f>>, f>>
<1>2. ASSUME NEW u \in Uses, u[2] = f PROVE Kind(u)
  <2>1. CASE \E t \in T, i \in Index :
               mem[t][i].present /\ u = <<<<"entry", t, i>>, mem[t][i].pa>>
    <3>1. PICK t \in T, i \in Index :
             mem[t][i].present /\ u = <<<<"entry", t, i>>, mem[t][i].pa>>
      BY <2>1, Zenon
    <3>2. mem[t][i].pa = f
      BY <1>2, <3>1
    <3> QED
      BY <3>1, <3>2, Zenon
  <2>2. CASE \E v \in Vmms : u = <<<<"root", v>>, root[v]>>
    <3>1. PICK v \in Vmms : u = <<<<"root", v>>, root[v]>>
      BY <2>2, Zenon
    <3>2. root[v] = f
      BY <1>2, <3>1
    <3> QED
      BY <3>1, <3>2, Zenon
  <2>3. CASE \E v \in Vmms : \E g \in containers[v] : u = <<<<"container", v, g>>, g>>
    <3>1. PICK v \in Vmms : \E g \in containers[v] : u = <<<<"container", v, g>>, g>>
      BY <2>3, Zenon
    <3>2. PICK g \in containers[v] : u = <<<<"container", v, g>>, g>>
      BY <3>1, Zenon
    <3>3. g = f
      BY <1>2, <3>2
    <3> QED
      BY <3>2, <3>3, Zenon
  <2>4. CASE u[2] \in free /\ u = <<<<"free", u[2]>>, u[2]>>
    BY <1>2, <2>4, Zenon
  <2> QED
    BY <2>1, <2>2, <2>3, <2>4, UsesAre
<1>3. 0 # f
  BY AddressSpaceAssumption, Zenon
<1>4. \A t, i : Data(t, i) => f \notin free /\ f \notin T /\ \A v \in Vmms : f \notin containers[v]
  <2>1. Backed(mem, T, vm, lv, pg, free, containers, areas)
    BY Zenon DEF Holds
  <2> QED
    BY <2>1 DEF Backed
<1>5. \A t, i : Table(t, i) => f \in T /\ Child(vm, lv, pg, t, i, f)
  BY Zenon DEF Holds, Forest, Children
<1>6. \A v \in Vmms : root[v] = f => f \in T /\ vm[f] = v /\ lv[f] = LEVELS - 1
  <2>1. Roots(T, vm, lv, root)
    BY Zenon DEF Holds, Forest
  <2> QED
    <3>1. \A v \in Vmms : root[v] # 0 => root[v] \in T /\ vm[root[v]] = v /\ lv[root[v]] = LEVELS - 1
      BY <2>1, Zenon DEF Roots
    <3>2. SUFFICES ASSUME NEW v \in Vmms, root[v] = f
                   PROVE  f \in T /\ vm[f] = v /\ lv[f] = LEVELS - 1
      BY Zenon
    <3>3. root[v] # 0
      BY <1>3, <3>2, Zenon
    <3> QED
      BY <3>1, <3>2, <3>3, Zenon
<1>7. \A v \in Vmms : f \in containers[v] => f \notin T /\ f \notin free
  BY <1>3, Zenon DEF Holds, Pool
<1>8. f \in free => f \notin T
  BY Zenon DEF Holds, Pool
<1>9. \A t, i, u, j : Data(t, i) /\ Data(u, j) => t = u /\ i = j
  BY DEF Holds, Once
<1>10. \A t, i, u, j : Table(t, i) /\ Table(u, j) => t = u /\ i = j
  <2> SUFFICES ASSUME NEW t, NEW i, NEW u, NEW j, Table(t, i), Table(u, j) PROVE t = u /\ i = j
    OBVIOUS
  <2>1. Child(vm, lv, pg, t, i, f) /\ Child(vm, lv, pg, u, j, f)
    BY <1>5, Zenon
  <2>2. vm[t] = vm[u] /\ lv[t] = lv[u] /\ i = j /\ lv[t] \in Levels
    BY <2>1, Zenon DEF Child, Holds, Forest, Places
  <2>3. Same(pg[t], pg[u], lv[t])
    BY <2>1, <2>2, SameIs, Zenon DEF Child
  <2> QED
    BY <2>2, <2>3, Zenon DEF Holds, Forest, OneEach
<1>11. \A t, i : Table(t, i) => lv[f] # LEVELS - 1
  <2> SUFFICES ASSUME NEW t, NEW i, Table(t, i), lv[f] = LEVELS - 1 PROVE FALSE
    BY Zenon
  <2>1. lv[t] = lv[f] + 1 /\ lv[t] \in Levels
    BY <1>5, Zenon DEF Child, Holds, Forest, Places
  <2> QED
    BY <2>1, Sizes
<1>12. \A v, w \in Vmms : f \in containers[v] /\ f \in containers[w] => v = w
  BY <1>3, Zenon DEF Holds, Pool
<1>13. Kind(x) /\ Kind(y)
  BY <1>1, <1>2, Zenon
<1> HIDE DEF Data, Table
<1>14. CASE \E t, i : Data(t, i) /\ x = <<<<"entry", t, i>>, f>>
  BY <1>4, <1>5, <1>6, <1>9, <1>13, <1>14, Zenon
<1>15. CASE \E t, i : Table(t, i) /\ x = <<<<"entry", t, i>>, f>>
  BY <1>4, <1>5, <1>6, <1>7, <1>8, <1>10, <1>11, <1>13, <1>15, Zenon
<1>16. CASE \E v \in Vmms : root[v] = f /\ x = <<<<"root", v>>, f>>
  BY <1>4, <1>6, <1>7, <1>8, <1>11, <1>13, <1>16, Zenon
<1>17. CASE \E v \in Vmms : f \in containers[v] /\ x = <<<<"container", v, f>>, f>>
  BY <1>4, <1>5, <1>6, <1>7, <1>12, <1>13, <1>17, Zenon
<1>18. CASE f \in free /\ x = <<<<"free", f>>, f>>
  BY <1>4, <1>5, <1>6, <1>7, <1>8, <1>13, <1>18, Zenon
<1> QED
  BY <1>13, <1>14, <1>15, <1>16, <1>17, <1>18, Zenon


-----------------------------------------------------------------------------
(* Theorems.                                                               *)

\* The page tables that vm.c and vmm.c build are always a forest: every table has
\* one place, walk finds exactly the table of the place it looks for, the frames
\* in the last level belong to areas, and the other frames to the allocator.
THEOREM TablesInvariance == Spec => []IInv
<1>1. Init => IInv
  BY InitKeeps, Zenon
<1>2. IInv /\ [Careful]_vars => IInv'
  BY CarefulKeeps, Zenon
<1> QED
  BY <1>1, <1>2, PTL DEF Spec

\* vmm_free_area and vmm_destroy, which follows the list of containers, give kfree only
\* frames of the allocator, and no access that an area allows ends in panic, as long as
\* there are frames left, areas are freed once all their pages are there, and the pages
\* of containers are clean.
THEOREM MemoryNeverWild == Spec => []NeverWild
<1>1. IInv => NeverWild
  BY Zenon DEF IInv, NeverWild
<1> QED
  BY <1>1, TablesInvariance, PTL

\* Whatever has been mapped, unmapped and given another access, a page that is
\* present in an address space lies in one of its areas, and has the access that
\* update_area_access gave this area last.
THEOREM MemoryAccessAgrees == Spec => []AccessAgrees
  BY AgreesIs, TablesInvariance, PTL

\* Every frame has at most one use at any time: kalloc never hands out a frame
\* that an entry, a root or a container still refers to, two address spaces never
\* share a page, and no page table is mapped as data.
THEOREM MemoryIsolation == Spec => []Isolation
<1>1. IInv => Isolation
  <2> SUFFICES ASSUME IInv PROVE Isolation
    BY Zenon
  <2> DEFINE frames == {u \in Uses : u[2] \in Frames}
             image == {u[2] : u \in frames}
             f == [u \in frames |-> u[2]]
  <2>1. PICK T, vm, lv, pg : Holds(mem, root, free, containers, areas, T, vm, lv, pg)
    BY Zenon DEF IInv, Sound
  <2>2. \A x, y \in frames : x[2] = y[2] => x = y
    BY <2>1, OneUse, Zenon
  <2>3. IsFiniteSet(image)
    <3>1. image \in SUBSET Frames
      BY Zenon
    <3> QED
      BY <3>1, FS_Subset, AddressSpaceAssumption, Zenon
  <2>4. f \in Injection(frames, image) /\ f \in Surjection(frames, image)
    <3>1. f \in [frames -> image] /\ \A u \in frames : f[u] = u[2]
      BY Zenon
    <3>2. \A w \in image : \E u \in frames : f[u] = w
      BY Zenon
    <3> HIDE DEF frames, image, f
    <3> QED
      BY <2>2, <3>1, <3>2 DEF Injection, IsInjective, Surjection
  <2> HIDE DEF f
  <2>5. Cardinality(frames) = Cardinality(image)
    BY <2>3, <2>4, FS_Injection, Zenon
  <2> QED
    BY <2>5, Zenon DEF Isolation
<1> QED
  BY <1>1, TablesInvariance, PTL

=============================================================================
