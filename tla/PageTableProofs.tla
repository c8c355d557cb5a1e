-------------------------- MODULE PageTableProofs --------------------------
(***************************************************************************)
(* Lemmas about the operators of AddressSpace, for any number of frames,   *)
(* address spaces, entries and levels.  The tables of all address spaces   *)
(* form a forest: every table has one place in it.  Nothing in the state   *)
(* says which, so the invariant states that there is such an assignment of *)
(* places, and the proofs carry it along: here through walk, mappages and  *)
(* what is read from tables, in AddressSpaceProofs from step to step.      *)
(***************************************************************************)
EXTENDS AddressSpace, FiniteSetTheorems, WellFoundedInduction, NaturalsInduction, TLAPS

\* The walks to va and to w use the same table of level l.
Same(va, w, l) == \A k \in Levels : k > l => VA2INDEX(va, k) = VA2INDEX(w, k)

-----------------------------------------------------------------------------
(* T are the tables linked; the table t has its place in the address space *)
(* vm[t], at level lv[t], where the walk to the page pg[t] finds it.       *)

Places(T, vm, lv, pg) ==
  T \subseteq Tables /\ vm \in [T -> Vmms] /\ lv \in [T -> Levels] /\ pg \in [T -> Addresses]

Roots(T, vm, lv, rt) ==
  /\ \A v \in Vmms : rt[v] # 0 => rt[v] \in T /\ vm[rt[v]] = v /\ lv[rt[v]] = LEVELS - 1
  /\ \A t \in T : rt[vm[t]] # 0 /\ (lv[t] = LEVELS - 1 => rt[vm[t]] = t)

\* No two tables have one place.
OneEach(T, vm, lv, pg) ==
  \A t, u \in T : vm[t] = vm[u] /\ lv[t] = lv[u] /\ Same(pg[t], pg[u], lv[t]) => t = u

\* The place of c is the one that entry i of t leads to.
Child(vm, lv, pg, t, i, c) ==
  /\ vm[c] = vm[t] /\ lv[t] = lv[c] + 1
  /\ Same(pg[c], pg[t], lv[t]) /\ VA2INDEX(pg[c], lv[t]) = i

Children(m, T, vm, lv, pg) ==
  \A t \in T, i \in Index : lv[t] # 0 /\ m[t][i].present =>
    m[t][i].pa \in T /\ Child(vm, lv, pg, t, i, m[t][i].pa)

Parents(m, T, vm, lv, pg) ==
  \A c \in T : lv[c] # LEVELS - 1 =>
    \E t \in T, i \in Index : Child(vm, lv, pg, t, i, c) /\ m[t][i].present /\ m[t][i].pa = c

Memory(m) == DOMAIN m = Tables /\ \A t \in Tables : DOMAIN m[t] = Index

Forest(m, T, vm, lv, pg, rt) ==
  /\ Memory(m) /\ Places(T, vm, lv, pg)
  /\ Roots(T, vm, lv, rt) /\ OneEach(T, vm, lv, pg)
  /\ Children(m, T, vm, lv, pg) /\ Parents(m, T, vm, lv, pg)

-----------------------------------------------------------------------------
(* What the tables of level 0 map, and the frames that are none of theirs. *)

\* A mapped page belongs to an area, has its access, and its frame has no other use.
Backed(m, T, vm, lv, pg, fr, ct, ar) ==
  \A t \in T, i \in Index : lv[t] = 0 /\ m[t][i].present =>
    /\ m[t][i].pa \in Frames =>
         m[t][i].pa \notin fr /\ m[t][i].pa \notin T /\ \A v \in Vmms : m[t][i].pa \notin ct[v]
    /\ \E a \in ar[vm[t]], va \in Pages :
         /\ va \in PagesOf(a) /\ Same(va, pg[t], 0) /\ VA2INDEX(va, 0) = i
         /\ m[t][i].flags = a.flags
         /\ m[t][i].pa \in Frames \/ (m[t][i].pa \in Devices /\ vm[t] = Kernel /\ a.is_mmio)

Once(m, T, lv) ==
  \A t, u \in T, i, j \in Index :
    /\ lv[t] = 0 /\ lv[u] = 0 /\ m[t][i].present /\ m[u][j].present
    /\ m[t][i].pa = m[u][j].pa /\ m[t][i].pa \in Frames
    => t = u /\ i = j

Pool(T, fr, ct) ==
  /\ fr \subseteq Frames /\ fr \cap T = {} /\ DOMAIN ct = Vmms
  /\ \A v \in Vmms : \A f \in ct[v] : f \in Frames /\ f \notin fr /\ f \notin T
  /\ \A v, w \in Vmms : \A f \in ct[v] : f \in ct[w] => v = w

Spaces(rt, ct, ar) ==
  /\ DOMAIN rt = Vmms /\ DOMAIN ar = Vmms /\ rt[Kernel] = KernelRoot
  /\ \A v \in Vmms : rt[v] = 0 => ct[v] = {} /\ ar[v] = {}
  /\ \A v \in Vmms : ar[v] \subseteq Areas
  /\ \A v \in Vmms : \A a, b \in ar[v], va \in Pages :
       va \in PagesOf(a) /\ va \in PagesOf(b) => a = b

Holds(m, rt, fr, ct, ar, T, vm, lv, pg) ==
  /\ Forest(m, T, vm, lv, pg, rt)
  /\ Backed(m, T, vm, lv, pg, fr, ct, ar) /\ Once(m, T, lv)
  /\ Pool(T, fr, ct) /\ Spaces(rt, ct, ar)

\* The places can be assigned.
Sound(m, rt, fr, ct, ar) == \E T, vm, lv, pg : Holds(m, rt, fr, ct, ar, T, vm, lv, pg)

\* What every step preserves.
IInv ==
  /\ ~wild /\ ~halted /\ next = [v \in Vmms |-> 0]
  /\ Sound(mem, root, free, containers, areas)

-----------------------------------------------------------------------------
(* Numbers.                                                                *)

LEMMA Sizes ==
  /\ FAN \in Nat \ {0} /\ LEVELS \in Nat \ {0} /\ Levels = 0 .. LEVELS - 1
  /\ 0 \in Levels /\ LEVELS - 1 \in Levels /\ Levels \subseteq Nat
  BY AddressSpaceAssumption DEF Levels

LEMMA LeastOf ==
  ASSUME NEW S, S \subseteq Nat, S # {}
  PROVE  \E n \in S : \A k \in S : n <= k
<1>1. PICK n \in S : \A k \in S : ~(<<k, n>> \in OpToRel(<, Nat))
  BY NatLessThanWellFounded, WFMin, Zenon
<1>2. ASSUME NEW k \in S PROVE n <= k
  <2>1. ~(k < n)
    BY <1>1, Zenon DEF OpToRel
  <2> QED
    BY <2>1
<1> QED
  BY <1>2, Zenon

\* A set with 0 that has n + 1 where it has n is Nat...
LEMMA Upwards ==
  ASSUME NEW S \in SUBSET Nat, 0 \in S, \A n \in S : n + 1 \in S
  PROVE  \A n \in Nat : n \in S
<1> SUFFICES ASSUME NEW n \in Nat, n \notin S PROVE FALSE
  BY Zenon
<1> DEFINE B == Nat \ S
<1>1. PICK b \in B : \A k \in B : b <= k
  BY LeastOf, Zenon
<1>2. b # 0 /\ b - 1 \in Nat /\ b - 1 \notin B
  BY <1>1
<1>3. b - 1 + 1 \in S
  BY <1>2, Zenon
<1> QED
  BY <1>1, <1>3

\* ... and one with N that has l where it has l + 1, all up to N.
LEMMA Downwards ==
  ASSUME NEW N \in Nat, NEW S, N \in S, \A l \in 0 .. N : l # N /\ l + 1 \in S => l \in S
  PROVE  \A l \in 0 .. N : l \in S
<1> DEFINE R == {n \in Nat : n > N \/ N - n \in S}
<1>1. 0 \in R
  OBVIOUS
<1>2. ASSUME NEW n \in R PROVE n + 1 \in R
  <2>1. CASE n + 1 > N
    BY <2>1
  <2>2. CASE ~(n + 1 > N)
    <3>1. PICK l \in 0 .. N : l = N - (n + 1) /\ l + 1 = N - n /\ l # N
      BY <2>2
    <3>2. l + 1 \in S
      BY <2>2, <3>1
    <3> QED
      BY <3>1, <3>2
  <2> QED
    BY <2>1, <2>2, Zenon
<1>3. \A n \in Nat : n \in R
  <2> HIDE DEF R
  <2>1. R \in SUBSET Nat
    BY Zenon DEF R
  <2> QED
    BY <1>1, <1>2, <2>1, Upwards, Zenon
<1>4. ASSUME NEW l \in 0 .. N PROVE l \in S
  <2>1. PICK n \in Nat : n = N - l /\ ~(n > N) /\ N - n = l
    OBVIOUS
  <2> QED
    BY <1>3, <2>1, Zenon
<1> QED
  BY <1>4, Zenon

\* What span computes.
LEMMA SpanIs ==
  /\ span[0] = 1
  /\ \A l \in Levels : span[l] \in Nat \ {0} /\ span[l + 1] = FAN * span[l]
  /\ span[LEVELS] \in Nat \ {0}
<1> USE Sizes
<1> DEFINE Computes(f, n) ==
             /\ f \in [0 .. n -> Nat \ {0}] /\ f[0] = 1
             /\ \A l \in 0 .. n : l # 0 => f[l] = FAN * f[l - 1]
           S == {n \in Nat : \E f : Computes(f, n)}
<1>1. 0 \in S
  <2>1. Computes([l \in 0 .. 0 |-> 1], 0)
    OBVIOUS
  <2> QED
    BY <2>1, Zenon
<1>2. ASSUME NEW n \in S PROVE n + 1 \in S
  <2>1. PICK f : Computes(f, n)
    BY Zenon
  <2> DEFINE g == [l \in 0 .. n + 1 |-> IF l = n + 1 THEN FAN * f[n] ELSE f[l]]
  <2>2. f[n] \in Nat \ {0} /\ FAN * f[n] \in Nat \ {0}
    BY <2>1
  <2>3. g \in [0 .. n + 1 -> Nat \ {0}] /\ g[0] = 1
    BY <2>1, <2>2
  <2>4. ASSUME NEW l \in 0 .. n + 1, l # 0 PROVE g[l] = FAN * g[l - 1]
    <3>1. CASE l = n + 1
      <4>1. g[l] = FAN * f[n] /\ l - 1 = n /\ g[n] = f[n]
        BY <3>1
      <4> QED
        BY <4>1, Zenon
    <3>2. CASE l # n + 1
      <4>1. l \in 0 .. n /\ l - 1 \in 0 .. n + 1 /\ l - 1 # n + 1
        BY <2>4, <3>2
      <4>2. g[l] = f[l] /\ g[l - 1] = f[l - 1]
        BY <4>1
      <4> QED
        BY <2>1, <2>4, <4>1, <4>2, Zenon
    <3> QED
      BY <3>1, <3>2, Zenon
  <2>5. \E h : Computes(h, n + 1)
    <3> HIDE DEF g
    <3>1. Computes(g, n + 1)
      BY <2>3, <2>4, Zenon
    <3> QED
      BY <3>1, Zenon
  <2>6. n + 1 \in Nat
    OBVIOUS
  <2> HIDE DEF Computes
  <2> QED
    BY <2>5, <2>6, Zenon
<1>3. LEVELS \in S
  <2>1. S \in SUBSET Nat
    BY Zenon
  <2> HIDE DEF S
  <2> QED
    BY <1>1, <1>2, <2>1, Upwards, Zenon
<1>4. PICK f : Computes(f, LEVELS)
  BY <1>3, Zenon
<1>5. f = [l \in 0 .. LEVELS |-> IF l = 0 THEN 1 ELSE FAN * f[l - 1]]
  BY <1>4, Zenon
<1>6. span = [l \in 0 .. LEVELS |-> IF l = 0 THEN 1 ELSE FAN * span[l - 1]]
  BY <1>5, Zenon DEF span
<1>7. span[0] = 1 /\ \A l \in Levels : span[l + 1] = FAN * span[l]
  <2>1. ASSUME NEW l \in Levels PROVE span[l + 1] = FAN * span[l]
    <3>1. l + 1 \in 0 .. LEVELS /\ l + 1 # 0 /\ l + 1 - 1 = l
      OBVIOUS
    <3> QED
      BY <1>6, <3>1
  <2>2. span[0] = 1
    BY <1>6
  <2> QED
    BY <2>1, <2>2, Zenon
<1> DEFINE P == {n \in Nat : n > LEVELS \/ span[n] \in Nat \ {0}}
<1>8. ASSUME NEW n \in P PROVE n + 1 \in P
  <2>1. CASE n + 1 > LEVELS
    BY <2>1
  <2>2. CASE ~(n + 1 > LEVELS)
    <3>1. n \in Levels /\ span[n] \in Nat \ {0}
      BY <2>2
    <3> QED
      BY <1>7, <3>1
  <2> QED
    BY <2>1, <2>2, Zenon
<1>9. \A n \in Nat : n \in P
  <2>1. 0 \in P /\ P \in SUBSET Nat
    BY <1>7
  <2> HIDE DEF P
  <2> QED
    BY <1>8, <2>1, Upwards, Zenon
<1> QED
  BY <1>7, <1>9


LEMMA DivMod ==
  ASSUME NEW n \in Nat \ {0}, NEW a \in Nat
  PROVE  /\ a \div n \in Nat
         /\ a % n \in 0 .. n - 1
         /\ a = (a \div n) * n + (a % n)
  OBVIOUS

LEMMA Quotient ==
  ASSUME NEW n \in Nat \ {0}, NEW q \in Nat, NEW r \in 0 .. n - 1, NEW a \in Nat, a = q * n + r
  PROVE  a \div n = q
<1>1. PICK p \in Nat, s \in 0 .. n - 1 : a \div n = p /\ a = p * n + s
  BY DivMod
<1>2. (p - q) * n = r - s
  BY <1>1
<1>3. ~(p > q)
  <2> SUFFICES ASSUME p > q PROVE FALSE
    BY Zenon
  <2>1. PICK d \in Nat : d = p - q - 1
    OBVIOUS
  <2>2. d * n + n = r - s /\ d * n >= 0
    BY <1>2, <2>1
  <2> QED
    BY <2>2
<1>4. ~(p < q)
  <2> SUFFICES ASSUME p < q PROVE FALSE
    BY Zenon
  <2>1. PICK d \in Nat : d = q - p - 1
    OBVIOUS
  <2>2. d * n + n = s - r /\ d * n >= 0
    BY <1>2, <2>1
  <2> QED
    BY <2>2
<1> QED
  BY <1>1, <1>3, <1>4

LEMMA DivDiv ==
  ASSUME NEW a \in Nat, NEW b \in Nat \ {0}, NEW c \in Nat \ {0}
  PROVE  (a \div b) \div c = a \div (c * b)
<1>1. PICK q \in Nat, r \in 0 .. b - 1 : a \div b = q /\ a = q * b + r
  BY DivMod
<1>2. PICK p \in Nat, s \in 0 .. c - 1 : q \div c = p /\ q = p * c + s
  BY DivMod
<1>3. PICK n \in Nat \ {0} : n = c * b
  OBVIOUS
<1>4. PICK x \in Nat : x = s * b
  OBVIOUS
<1>5. x <= n - b
  <2>1. PICK d \in Nat : d = c - 1 - s
    OBVIOUS
  <2>2. d * b \in Nat /\ n = d * b + b + x
    BY <1>3, <1>4, <2>1
  <2> QED
    BY <2>2
<1>6. a = p * n + (x + r)
  BY <1>1, <1>2, <1>3, <1>4
<1>7. x + r \in 0 .. n - 1
  BY <1>5
<1>8. a \div n = p
  <2>1. PICK y \in 0 .. n - 1 : y = x + r
    BY <1>7, Zenon
  <2>2. a = p * n + y
    BY <1>6, <2>1, Zenon
  <2> QED
    BY <2>2, Quotient
<1> QED
  BY <1>1, <1>2, <1>3, <1>8, Zenon

LEMMA IndexIs == \A va \in Addresses, l \in Levels : VA2INDEX(va, l) \in Index
<1> SUFFICES ASSUME NEW va \in Addresses, NEW l \in Levels PROVE VA2INDEX(va, l) \in Index
  BY Zenon
<1>1. va \in Nat /\ span[l] \in Nat \ {0}
  BY SpanIs DEF Addresses
<1>2. va \div span[l] \in Nat
  BY <1>1, DivMod, Zenon
<1> QED
  BY <1>2, DivMod, Sizes, Zenon DEF VA2INDEX, Index

\* The indexes of an address on all levels determine it.
LEMMA IndexesApart ==
  ASSUME NEW va \in Addresses, NEW w \in Addresses,
         \A l \in Levels : VA2INDEX(va, l) = VA2INDEX(w, l)
  PROVE  va = w
<1> DEFINE S == {l \in 0 .. LEVELS : va \div span[l] = w \div span[l]}
<1>1. va \in Nat /\ w \in Nat
  BY SpanIs DEF Addresses
<1>2. LEVELS \in S
  <2>1. PICK n \in Nat \ {0} : n = span[LEVELS]
    BY SpanIs, Zenon
  <2>2. va \in 0 .. n - 1 /\ w \in 0 .. n - 1
    BY <2>1, Zenon DEF Addresses
  <2>3. va \div n = 0 /\ w \div n = 0
    BY <2>2
  <2> QED
    BY <2>1, <2>3, Sizes
<1>3. ASSUME NEW l \in 0 .. LEVELS, l # LEVELS, l + 1 \in S PROVE l \in S
  <2>1. l \in Levels
    BY <1>3, Sizes
  <2>2. PICK n \in Nat \ {0} : n = span[l]
    BY <2>1, SpanIs, Zenon
  <2>3. PICK p \in Nat, q \in Nat : p = va \div n /\ q = w \div n
    BY <1>1, DivMod, Zenon
  <2>4. p \div FAN = va \div (FAN * n) /\ q \div FAN = w \div (FAN * n)
    <3>1. p \div FAN = va \div (FAN * n)
      BY <1>1, <2>3, DivDiv, Sizes, Zenon
    <3>2. q \div FAN = w \div (FAN * n)
      BY <1>1, <2>3, DivDiv, Sizes, Zenon
    <3> QED
      BY <3>1, <3>2, Zenon
  <2>5. span[l + 1] = FAN * n
    BY <2>1, <2>2, SpanIs, Zenon
  <2>6. p \div FAN = q \div FAN
    BY <1>3, <2>4, <2>5, Zenon
  <2>7. p % FAN = q % FAN
    BY <2>1, <2>2, <2>3, Zenon DEF VA2INDEX
  <2>8. p = (p \div FAN) * FAN + (p % FAN) /\ q = (q \div FAN) * FAN + (q % FAN)
    BY DivMod, Sizes, Zenon
  <2>9. p = q
    BY <2>6, <2>7, <2>8, Zenon
  <2> QED
    BY <2>2, <2>3, <2>9, Zenon
<1>4. 0 \in S
  <2>1. LEVELS \in Nat /\ 0 \in 0 .. LEVELS
    BY Sizes
  <2> HIDE DEF S
  <2> QED
    BY <1>2, <1>3, <2>1, Downwards, Zenon
<1> QED
  BY <1>1, <1>4, SpanIs


\* kalloc returns a free frame if there is one.
LEMMA kallocIs ==
  ASSUME NEW fs \in SUBSET Frames
  PROVE  (fs = {} /\ kalloc(fs) = 0) \/ (fs # {} /\ kalloc(fs) \in fs /\ kalloc(fs) # 0)
<1>1. fs \subseteq Nat \ {0}
  BY AddressSpaceAssumption, Zenon
<1>2. CASE fs # {}
  <2>1. \E n \in fs : \A k \in fs : n <= k
    BY <1>1, <1>2, LeastOf, Zenon
  <2>2. Min(fs) \in fs
    BY <2>1, Zenon DEF Min
  <2> QED
    BY <1>1, <1>2, <2>2, Zenon DEF kalloc
<1> QED
  BY <1>2, Zenon DEF kalloc

-----------------------------------------------------------------------------
(* walk without alloc.                                                     *)

\* The table of level l that the table up of the level above leads va to.
Below(m, va, l, up) ==
  IF up # 0 /\ m[up][VA2INDEX(va, l + 1)].present THEN m[up][VA2INDEX(va, l + 1)].pa ELSE 0

\* What walked computes.
LEMMA WalkedIs ==
  ASSUME NEW m, NEW r, NEW va
  PROVE  /\ walked(m, r, va)[LEVELS - 1] = r
         /\ \A l \in Levels : l # LEVELS - 1 =>
              walked(m, r, va)[l] = Below(m, va, l, walked(m, r, va)[l + 1])
<1> DEFINE Step(f, l) == IF l = LEVELS - 1 THEN r ELSE Below(m, va, l, f[l + 1])
           Computes(f, k) == f = [l \in Levels |-> f[l]] /\ \A l \in Levels : l >= k => f[l] = Step(f, l)
           S == {k \in Levels : \E f : Computes(f, k)}
<1>1. LEVELS - 1 \in S
  <2> DEFINE g == [l \in Levels |-> r]
  <2>1. Computes(g, LEVELS - 1)
    BY Sizes
  <2>2. \E f : Computes(f, LEVELS - 1)
    <3> HIDE DEF g, Computes
    <3> QED
      BY <2>1, Zenon
  <2> HIDE DEF Computes
  <2> QED
    BY <2>2, Sizes, Zenon
<1>2. ASSUME NEW k \in 0 .. LEVELS - 1, k # LEVELS - 1, k + 1 \in S PROVE k \in S
  <2>1. PICK f : Computes(f, k + 1)
    BY <1>2, Zenon
  <2> DEFINE g == [l \in Levels |-> IF l = k THEN Step(f, k) ELSE f[l]]
  <2>2. ASSUME NEW l \in Levels, l >= k PROVE g[l] = Step(g, l)
    <3>1. l \in Nat /\ k \in Nat /\ LEVELS \in Nat
      BY Sizes, Zenon
    <3>2. l # LEVELS - 1 => l + 1 \in Levels /\ l + 1 # k
      BY <2>2, <3>1, Sizes
    <3>3. Step(g, l) = Step(f, l)
      <4> HIDE DEF Below
      <4>1. l # LEVELS - 1 => g[l + 1] = f[l + 1]
        BY <3>2, Zenon
      <4> HIDE DEF g
      <4> QED
        BY <4>1, Zenon
    <3>4. CASE l = k
      <4> HIDE DEF Step
      <4> QED
        BY <3>3, <3>4, Zenon
    <3>5. CASE l # k
      <4>1. l >= k + 1
        BY <2>2, <3>1, <3>5
      <4>2. f[l] = Step(f, l)
        BY <2>1, <4>1, Zenon
      <4> HIDE DEF Step
      <4> QED
        BY <3>3, <3>5, <4>2, Zenon
    <3> QED
      BY <3>4, <3>5, Zenon
  <2>3. \E h : Computes(h, k)
    <3>1. g = [l \in Levels |-> g[l]]
      BY Zenon
    <3> HIDE DEF g, Step
    <3> WITNESS g
    <3> QED
      BY <2>2, <3>1, Zenon
  <2>4. k \in Levels
    BY Sizes, Zenon
  <2> HIDE DEF Computes
  <2> QED
    BY <2>3, <2>4, Zenon
<1>3. 0 \in S
  <2>1. LEVELS - 1 \in Nat /\ 0 \in 0 .. LEVELS - 1
    BY Sizes, Zenon
  <2> HIDE DEF S
  <2> QED
    BY <1>1, <1>2, <2>1, Downwards, Zenon
<1>4. PICK f : Computes(f, 0)
  BY <1>3, Zenon
<1>5. f = [l \in Levels |-> Step(f, l)]
  <2>1. \A l \in Levels : l >= 0
    BY Sizes
  <2> HIDE DEF Step
  <2>2. f = [l \in Levels |-> f[l]] /\ \A l \in Levels : f[l] = Step(f, l)
    BY <1>4, <2>1, Zenon
  <2> QED
    BY <2>2, Zenon
<1>6. walked(m, r, va) = [l \in Levels |-> Step(walked(m, r, va), l)]
  BY <1>5, Zenon DEF walked, Below
<1> QED
  BY <1>6, Sizes, Zenon


LEMMA SameIs ==
  ASSUME NEW l \in Levels
  PROVE  /\ \A x : Same(x, x, l)
         /\ \A x, y : Same(x, y, l) => Same(y, x, l)
         /\ \A x, y, z : Same(x, y, l) /\ Same(y, z, l) => Same(x, z, l)
  BY Zenon DEF Same

\* From level to level.
LEMMA SameNext ==
  ASSUME NEW l \in Levels, l # LEVELS - 1, NEW x, NEW y
  PROVE  Same(x, y, l) <=> Same(x, y, l + 1) /\ VA2INDEX(x, l + 1) = VA2INDEX(y, l + 1)
<1>1. PICK n \in Levels : n = l + 1
  BY Sizes
<1>2. \A k \in Levels : k > l <=> k > n \/ k = n
  BY <1>1, Sizes
<1> HIDE DEF VA2INDEX
<1>3. Same(x, y, l) <=> Same(x, y, n) /\ VA2INDEX(x, n) = VA2INDEX(y, n)
  BY <1>2, Zenon DEF Same
<1> QED
  BY <1>1, <1>3, Zenon

LEMMA SameTop == \A x, y : Same(x, y, LEVELS - 1)
<1>1. \A k \in Levels : ~(k > LEVELS - 1)
  BY Sizes
<1> QED
  BY <1>1, Zenon DEF Same

\* t is the table of level l for va in the address space v.
At(T, vm, lv, pg, v, va, l, t) ==
  t \in T /\ vm[t] = v /\ lv[t] = l /\ Same(va, pg[t], l)

LEMMA NoTable == 0 \notin Tables /\ \A T : T \subseteq Tables => 0 \notin T
  BY AddressSpaceAssumption, Zenon DEF Tables

\* A walk finds the table of each level, and all of them.
LEMMA WalkIs ==
  ASSUME NEW m, NEW T, NEW vm, NEW lv, NEW pg, NEW rt, Forest(m, T, vm, lv, pg, rt),
         NEW v \in Vmms, NEW va \in Addresses
  PROVE  \A l \in Levels :
           /\ walked(m, rt[v], va)[l] # 0 => At(T, vm, lv, pg, v, va, l, walked(m, rt[v], va)[l])
           /\ \A t : At(T, vm, lv, pg, v, va, l, t) => walked(m, rt[v], va)[l] = t
<1> DEFINE w == walked(m, rt[v], va)
           A(l, t) == At(T, vm, lv, pg, v, va, l, t)
           S == {l \in Levels : (w[l] # 0 => A(l, w[l])) /\ \A t : A(l, t) => w[l] = t}
<1>1. /\ w[LEVELS - 1] = rt[v]
      /\ \A l \in Levels : l # LEVELS - 1 => w[l] = Below(m, va, l, w[l + 1])
  BY WalkedIs
<1> HIDE DEF w
<1>2. LEVELS - 1 \in S
  BY <1>1, Sizes, SameTop, Zenon DEF Forest, Roots, At
<1>3. ASSUME NEW l \in 0 .. LEVELS - 1, l # LEVELS - 1, l + 1 \in S PROVE l \in S
  <2>1. PICK n \in Levels : n = l + 1 /\ n \in S /\ n # 0 /\ l \in Levels /\ n - 1 = l
    BY <1>3, Sizes
  <2>2. w[l] = Below(m, va, l, w[n])
    BY <1>1, <1>3, <2>1, Zenon
  <2>3. ASSUME w[l] # 0 PROVE A(l, w[l])
    <3>1. /\ w[n] # 0 /\ A(n, w[n])
          /\ m[w[n]][VA2INDEX(va, n)].present /\ m[w[n]][VA2INDEX(va, n)].pa = w[l]
      BY <2>1, <2>2, <2>3, Zenon DEF Below
    <3>2. VA2INDEX(va, n) \in Index
      BY <2>1, IndexIs, Zenon
    <3>3. w[l] \in T /\ Child(vm, lv, pg, w[n], VA2INDEX(va, n), w[l])
      BY <2>1, <3>1, <3>2, Zenon DEF Forest, Children, At
    <3>4. lv[w[l]] = l
      <4>1. n = lv[w[l]] + 1 /\ lv[w[l]] \in Levels
        BY <3>1, <3>3, Zenon DEF Child, At, Forest, Places
      <4> QED
        BY <2>1, <4>1, Sizes
    <3>5. Same(va, pg[w[l]], n) /\ VA2INDEX(va, n) = VA2INDEX(pg[w[l]], n)
      <4>1. /\ Same(va, pg[w[n]], n) /\ Same(pg[w[l]], pg[w[n]], n)
            /\ VA2INDEX(va, n) = VA2INDEX(pg[w[l]], n)
        BY <3>1, <3>3, Zenon DEF Child, At
      <4> QED
        BY <2>1, <4>1, SameIs, Zenon
    <3>6. Same(va, pg[w[l]], l)
      BY <1>3, <2>1, <3>5, SameNext, Zenon
    <3> QED
      BY <3>1, <3>3, <3>4, <3>6, Zenon DEF At, Child
  <2>4. ASSUME NEW t, A(l, t) PROVE w[l] = t
    <3>1. t \in T /\ vm[t] = v /\ lv[t] = l /\ Same(va, pg[t], l)
      BY <2>4, Zenon DEF At
    <3>2. PICK p \in T, i \in Index : Child(vm, lv, pg, p, i, t) /\ m[p][i].present /\ m[p][i].pa = t
      BY <1>3, <3>1, Zenon DEF Forest, Parents
    <3>3. Same(va, pg[t], n) /\ VA2INDEX(va, n) = VA2INDEX(pg[t], n)
      BY <1>3, <2>1, <3>1, SameNext
    <3>4. vm[p] = v /\ lv[p] = n /\ Same(pg[t], pg[p], n) /\ VA2INDEX(pg[t], n) = i
      BY <2>1, <3>1, <3>2, Zenon DEF Child
    <3>5. A(n, p)
      BY <3>3, <3>4, SameIs, Zenon DEF At
    <3>6. w[n] = p /\ p # 0
      BY <2>1, <3>5, NoTable, Zenon DEF Forest, Places
    <3> QED
      BY <2>1, <2>2, <3>2, <3>3, <3>4, <3>6, Zenon DEF Below
  <2> QED
    BY <2>1, <2>3, <2>4, Zenon
<1>4. \A l \in Levels : l \in S
  <2>1. LEVELS - 1 \in Nat /\ Levels = 0 .. LEVELS - 1
    BY Sizes, Zenon
  <2> HIDE DEF S
  <2> QED
    BY <1>2, <1>3, <2>1, Downwards, Zenon
<1> QED
  BY <1>4, Zenon DEF w


LEMMA TablesOfIs ==
  ASSUME NEW T, NEW vm, NEW lv, NEW pg, Forest(mem, T, vm, lv, pg, root), NEW v \in Vmms
  PROVE  TablesOf(v) = {t \in T : vm[t] = v}
<1>1. ASSUME NEW t \in TablesOf(v) PROVE t \in T /\ vm[t] = v
  <2>1. PICK va \in Addresses, l \in Levels : t = walked(mem, root[v], va)[l] /\ t # 0
    BY Zenon DEF TablesOf
  <2> QED
    BY <2>1, WalkIs DEF At
<1>2. ASSUME NEW t \in T, vm[t] = v PROVE t \in TablesOf(v)
  <2>1. lv[t] \in Levels /\ pg[t] \in Addresses /\ t # 0
    BY NoTable, Zenon DEF Forest, Places
  <2>2. At(T, vm, lv, pg, v, pg[t], lv[t], t)
    BY <1>2, <2>1, SameIs, Zenon DEF At
  <2>3. walked(mem, root[v], pg[t])[lv[t]] = t
    BY <2>1, <2>2, WalkIs
  <2> QED
    BY <2>1, <2>3 DEF TablesOf
<1> QED
  BY <1>1, <1>2, Zenon

-----------------------------------------------------------------------------
(* Writing tables.                                                         *)

LEMMA EntryIs ==
  ASSUME NEW present, NEW pa, NEW flags
  PROVE  /\ Entry(present, pa, flags).present = present
         /\ Entry(present, pa, flags).pa = pa /\ Entry(present, pa, flags).flags = flags
  BY Zenon DEF Entry

LEMMA EmptyIs == DOMAIN EmptyTable = Index /\ \A i \in Index : ~EmptyTable[i].present
  BY Zenon DEF EmptyTable, Blank, Entry

LEMMA Cells ==
  ASSUME NEW m, Memory(m), NEW t \in Tables, NEW i \in Index, NEW e
  PROVE  /\ Memory(Set(m, t, i, e))
         /\ Set(m, t, i, e)[t][i] = e
         /\ \A j \in Index : j # i => Set(m, t, i, e)[t][j] = m[t][j]
         /\ \A u \in Tables : u # t => Set(m, t, i, e)[u] = m[u]
  BY Zenon DEF Memory, Set

\* A function with one more value.
More(f, T, new, x) == [t \in T \cup {new} |-> IF t = new THEN x ELSE f[t]]

\* Linking a new table where there was none.
LEMMA AddTable ==
  ASSUME NEW m, NEW T, NEW vm, NEW lv, NEW pg, NEW rt, Forest(m, T, vm, lv, pg, rt),
         NEW l \in Levels, l # LEVELS - 1, NEW p \in T, lv[p] = l + 1,
         NEW va \in Addresses, Same(va, pg[p], l + 1), ~m[p][VA2INDEX(va, l + 1)].present,
         NEW new \in Frames, new \notin T, NEW m2, Memory(m2),
         m2[p][VA2INDEX(va, l + 1)] = Entry(TRUE, new, {}), m2[new] = EmptyTable,
         \A j \in Index : j # VA2INDEX(va, l + 1) => m2[p][j] = m[p][j],
         \A t \in T : t # p => m2[t] = m[t]
  PROVE  Forest(m2, T \cup {new}, More(vm, T, new, vm[p]), More(lv, T, new, l),
                More(pg, T, new, va), rt)
<1> DEFINE T2 == T \cup {new}
           vm2 == More(vm, T, new, vm[p])
           lv2 == More(lv, T, new, l)
           pg2 == More(pg, T, new, va)
<1>1. PICK n \in Levels, i \in Index : n = l + 1 /\ i = VA2INDEX(va, n) /\ n # 0
  BY Sizes, IndexIs
<1>2. /\ p \in T /\ lv[p] = n /\ Same(va, pg[p], n) /\ ~m[p][i].present
      /\ m2[p][i].present /\ m2[p][i].pa = new /\ \A j \in Index : j # i => m2[p][j] = m[p][j]
  BY <1>1 DEF Entry
<1>3. \A t \in T : vm2[t] = vm[t] /\ lv2[t] = lv[t] /\ pg2[t] = pg[t] /\ t # new
  BY Zenon DEF More
<1>4. vm2[new] = vm[p] /\ lv2[new] = l /\ pg2[new] = va
  BY Zenon DEF More
<1>5. Places(T2, vm2, lv2, pg2)
  BY Zenon DEF Places, Forest, Tables, More
<1> HIDE DEF vm2, lv2, pg2
<1>6. Roots(T2, vm2, lv2, rt)
  BY <1>3, <1>4 DEF Forest, Roots
<1>7. ASSUME NEW u \in T, vm[u] = vm[p], lv[u] = l, Same(va, pg[u], l) PROVE FALSE
  <2>1. PICK q \in T, j \in Index : Child(vm, lv, pg, q, j, u) /\ m[q][j].present
    BY <1>7, Zenon DEF Forest, Parents
  <2>2. Same(va, pg[u], n) /\ VA2INDEX(va, n) = VA2INDEX(pg[u], n)
    BY <1>1, <1>7, SameNext
  <2>3. vm[q] = vm[p] /\ lv[q] = n /\ Same(pg[u], pg[q], n) /\ j = i
    BY <1>1, <1>7, <2>1, <2>2, Zenon DEF Child
  <2>4. q = p
    BY <1>2, <2>2, <2>3, SameIs DEF Forest, OneEach
  <2> QED
    BY <1>2, <2>1, <2>3, <2>4, Zenon
<1>8. OneEach(T2, vm2, lv2, pg2)
  <2> SUFFICES ASSUME NEW t \in T2, NEW u \in T2, vm2[t] = vm2[u], lv2[t] = lv2[u],
                      Same(pg2[t], pg2[u], lv2[t])
               PROVE  t = u
    BY Zenon DEF OneEach
  <2>1. CASE t \in T /\ u \in T
    BY <1>3, <2>1 DEF Forest, OneEach
  <2>2. CASE t = new /\ u \in T
    BY <1>3, <1>4, <1>7, <2>2
  <2>3. CASE u = new /\ t \in T
    <3>1. vm[t] = vm[p] /\ lv[t] = l /\ Same(pg[t], va, l)
      BY <1>3, <1>4, <2>3, Zenon
    <3>2. Same(va, pg[t], l)
      BY <3>1, SameIs, Zenon
    <3> QED
      BY <1>7, <2>3, <3>1, <3>2, Zenon
  <2> QED
    BY <2>1, <2>2, <2>3, Zenon
<1>9. Child(vm2, lv2, pg2, p, i, new)
  BY <1>1, <1>2, <1>3, <1>4 DEF Child
<1>10. \A t, c \in T, j \in Index : Child(vm2, lv2, pg2, t, j, c) <=> Child(vm, lv, pg, t, j, c)
  BY <1>3 DEF Child
<1>11. Children(m2, T2, vm2, lv2, pg2)
  <2> SUFFICES ASSUME NEW t \in T2, NEW j \in Index, lv2[t] # 0, m2[t][j].present
               PROVE  m2[t][j].pa \in T2 /\ Child(vm2, lv2, pg2, t, j, m2[t][j].pa)
    BY Zenon DEF Children
  <2>1. CASE t = new
    BY <2>1, EmptyIs, Zenon
  <2>2. CASE t = p /\ j = i
    BY <1>2, <1>9, <2>2
  <2>3. CASE t # new /\ ~(t = p /\ j = i)
    <3>1. t \in T /\ m2[t][j] = m[t][j] /\ lv[t] # 0
      BY <1>2, <1>3, <2>3
    <3>2. m[t][j].pa \in T /\ Child(vm, lv, pg, t, j, m[t][j].pa)
      BY <3>1, Zenon DEF Forest, Children
    <3> QED
      BY <1>10, <3>1, <3>2, Zenon
  <2> QED
    BY <2>1, <2>2, <2>3, Zenon
<1>12. Parents(m2, T2, vm2, lv2, pg2)
  <2> SUFFICES ASSUME NEW c \in T2, lv2[c] # LEVELS - 1
               PROVE  \E t \in T2, j \in Index :
                        Child(vm2, lv2, pg2, t, j, c) /\ m2[t][j].present /\ m2[t][j].pa = c
    BY Zenon DEF Parents
  <2>1. CASE c = new
    BY <1>2, <1>9, <2>1
  <2>2. CASE c \in T
    <3>1. PICK t \in T, j \in Index : Child(vm, lv, pg, t, j, c) /\ m[t][j].present /\ m[t][j].pa = c
      BY <1>3, <2>2 DEF Forest, Parents
    <3>2. m2[t][j] = m[t][j]
      BY <1>2, <3>1, Zenon
    <3> QED
      BY <1>10, <2>2, <3>1, <3>2, Zenon
  <2> QED
    BY <2>1, <2>2, Zenon
<1> QED
  BY <1>5, <1>6, <1>8, <1>11, <1>12, Zenon DEF Forest, vm2, lv2, pg2


-----------------------------------------------------------------------------
(* walk with alloc, and mappages.                                          *)

\* What walked_alloc computes.
LEMMA AllocatedIs ==
  ASSUME NEW m, NEW fs, NEW r, NEW va
  PROVE  /\ walked_alloc(m, fs, r, va)[LEVELS - 1] = Found(r, m, fs)
         /\ \A l \in Levels : l # LEVELS - 1 =>
              walked_alloc(m, fs, r, va)[l] =
                descend(walked_alloc(m, fs, r, va)[l + 1], VA2INDEX(va, l + 1))
<1> DEFINE Step(f, l) == IF l = LEVELS - 1 THEN Found(r, m, fs)
                         ELSE descend(f[l + 1], VA2INDEX(va, l + 1))
           Computes(f, k) == f = [l \in Levels |-> f[l]] /\ \A l \in Levels : l >= k => f[l] = Step(f, l)
           S == {k \in Levels : \E f : Computes(f, k)}
<1>1. LEVELS - 1 \in S
  <2> DEFINE g == [l \in Levels |-> Found(r, m, fs)]
  <2>1. Computes(g, LEVELS - 1)
    BY Sizes
  <2>2. \E f : Computes(f, LEVELS - 1)
    <3> HIDE DEF g, Computes
    <3> QED
      BY <2>1, Zenon
  <2> HIDE DEF Computes
  <2> QED
    BY <2>2, Sizes, Zenon
<1>2. ASSUME NEW k \in 0 .. LEVELS - 1, k # LEVELS - 1, k + 1 \in S PROVE k \in S
  <2>1. PICK f : Computes(f, k + 1)
    BY <1>2, Zenon
  <2> DEFINE g == [l \in Levels |-> IF l = k THEN Step(f, k) ELSE f[l]]
  <2>2. ASSUME NEW l \in Levels, l >= k PROVE g[l] = Step(g, l)
    <3>1. l \in Nat /\ k \in Nat /\ LEVELS \in Nat
      BY Sizes, Zenon
    <3>2. l # LEVELS - 1 => l + 1 \in Levels /\ l + 1 # k
      BY <2>2, <3>1, Sizes
    <3>3. Step(g, l) = Step(f, l)
      <4>1. l # LEVELS - 1 => g[l + 1] = f[l + 1]
        BY <3>2, Zenon
      <4> HIDE DEF g
      <4> QED
        BY <4>1, Zenon
    <3>4. CASE l = k
      <4> HIDE DEF Step
      <4> QED
        BY <3>3, <3>4, Zenon
    <3>5. CASE l # k
      <4>1. l >= k + 1
        BY <2>2, <3>1, <3>5
      <4>2. f[l] = Step(f, l)
        BY <2>1, <4>1, Zenon
      <4> HIDE DEF Step
      <4> QED
        BY <3>3, <3>5, <4>2, Zenon
    <3> QED
      BY <3>4, <3>5, Zenon
  <2>3. \E h : Computes(h, k)
    <3>1. g = [l \in Levels |-> g[l]]
      BY Zenon
    <3> HIDE DEF g, Step
    <3> WITNESS g
    <3> QED
      BY <2>2, <3>1, Zenon
  <2>4. k \in Levels
    BY Sizes, Zenon
  <2> HIDE DEF Computes
  <2> QED
    BY <2>3, <2>4, Zenon
<1>3. 0 \in S
  <2>1. LEVELS - 1 \in Nat /\ 0 \in 0 .. LEVELS - 1
    BY Sizes, Zenon
  <2> HIDE DEF S
  <2> QED
    BY <1>1, <1>2, <2>1, Downwards, Zenon
<1>4. PICK f : Computes(f, 0)
  BY <1>3, Zenon
<1>5. f = [l \in Levels |-> Step(f, l)]
  <2>1. \A l \in Levels : l >= 0
    BY Sizes
  <2> HIDE DEF Step
  <2>2. f = [l \in Levels |-> f[l]] /\ \A l \in Levels : f[l] = Step(f, l)
    BY <1>4, <2>1, Zenon
  <2> QED
    BY <2>2, Zenon
<1>6. walked_alloc(m, fs, r, va) = [l \in Levels |-> Step(walked_alloc(m, fs, r, va), l)]
  BY <1>5, Zenon DEF walked_alloc
<1> QED
  BY <1>6, Sizes, Zenon


\* T2 and its places are T and its places with tables added that were free: nothing
\* is mapped that was not before.
Grown(m, T, vm, lv, pg, rt, fs, m2, T2, vm2, lv2, pg2, fs2) ==
  /\ Forest(m2, T2, vm2, lv2, pg2, rt)
  /\ T \subseteq T2 /\ T2 \ T \subseteq fs /\ fs2 = fs \ (T2 \ T)
  /\ \A t \in T : vm2[t] = vm[t] /\ lv2[t] = lv[t] /\ pg2[t] = pg[t]
  /\ \A t \in T : lv[t] = 0 => m2[t] = m[t]
  /\ \A t \in T2 \ T : lv2[t] = 0 => m2[t] = EmptyTable

LEMMA FoundIs ==
  ASSUME NEW t, NEW m, NEW fs
  PROVE  Found(t, m, fs).table = t /\ Found(t, m, fs).mem = m /\ Found(t, m, fs).free = fs
  BY Zenon DEF Found

\* s is what walk with alloc has when it is at the table of level l: there is
\* memory for the tables still to come.
Reached(m, T, vm, lv, pg, rt, fs, v, va, l, s) ==
  \E T2, vm2, lv2, pg2 :
    /\ Grown(m, T, vm, lv, pg, rt, fs, s.mem, T2, vm2, lv2, pg2, s.free)
    /\ Cardinality(s.free) >= l /\ At(T2, vm2, lv2, pg2, v, va, l, s.table)

\* One level down.
LEMMA DescendKeeps ==
  ASSUME NEW m, NEW T, NEW vm, NEW lv, NEW pg, NEW rt, NEW fs \in SUBSET Frames, fs \cap T = {},
         NEW v \in Vmms, NEW va \in Addresses, NEW l \in Levels, l # LEVELS - 1, NEW s,
         Reached(m, T, vm, lv, pg, rt, fs, v, va, l + 1, s)
  PROVE  Reached(m, T, vm, lv, pg, rt, fs, v, va, l, descend(s, VA2INDEX(va, l + 1)))
<1>0. PICK T2, vm2, lv2, pg2, t2, m2, fs2 :
        /\ s.table = t2 /\ s.mem = m2 /\ s.free = fs2
        /\ Grown(m, T, vm, lv, pg, rt, fs, m2, T2, vm2, lv2, pg2, fs2)
        /\ Cardinality(fs2) >= l + 1 /\ At(T2, vm2, lv2, pg2, v, va, l + 1, t2)
  BY Zenon DEF Reached
<1>1. PICK n \in Levels, i \in Index : n = l + 1 /\ i = VA2INDEX(va, n) /\ n # 0 /\ n - 1 = l
  <2>1. l + 1 \in Levels /\ l + 1 # 0 /\ (l + 1) - 1 = l
    BY Sizes
  <2>2. VA2INDEX(va, l + 1) \in Index
    BY <2>1, IndexIs, Zenon
  <2> QED
    BY <2>1, <2>2, Zenon
<1>2. t2 \in T2 /\ t2 \in Tables /\ t2 # 0 /\ vm2[t2] = v /\ lv2[t2] = n /\ Same(va, pg2[t2], n)
  BY <1>0, <1>1, NoTable DEF At, Grown, Forest, Places
<1>3. IsFiniteSet(fs2) /\ fs2 \subseteq Frames /\ Cardinality(fs2) \in Nat /\ l \in Nat
  BY AddressSpaceAssumption, FS_Subset, FS_CardinalityType, Sizes, <1>0, Zenon DEF Grown
<1>4. Forest(m2, T2, vm2, lv2, pg2, rt)
  BY <1>0, Zenon DEF Grown
<1>5. CASE m2[t2][i].present
  <2> DEFINE c == m2[t2][i].pa
  <2>1. c \in T2 /\ Child(vm2, lv2, pg2, t2, i, c)
    BY <1>1, <1>2, <1>4, <1>5, Zenon DEF Forest, Children
  <2> HIDE DEF c
  <2>2. lv2[c] = l
    <3>1. n = lv2[c] + 1 /\ lv2[c] \in Levels
      BY <1>2, <1>4, <2>1, Zenon DEF Child, Forest, Places
    <3> QED
      BY <1>1, <3>1, Sizes
  <2>3. Same(va, pg2[c], n) /\ VA2INDEX(va, n) = VA2INDEX(pg2[c], n)
    BY <1>1, <1>2, <2>1, SameIs DEF Child
  <2>4. Same(va, pg2[c], l)
    BY <1>1, <2>3, SameNext, Zenon
  <2>5. At(T2, vm2, lv2, pg2, v, va, l, c)
    BY <1>2, <2>1, <2>2, <2>4, Zenon DEF At, Child
  <2>6. descend(s, i) = Found(c, m2, fs2)
    BY <1>0, <1>2, <1>5, Zenon DEF descend, c
  <2>7. Cardinality(fs2) >= l
    BY <1>0, <1>3
  <2>8. PICK d : d = descend(s, i) /\ d.table = c /\ d.mem = m2 /\ d.free = fs2
    BY <2>6, FoundIs
  <2>9. Reached(m, T, vm, lv, pg, rt, fs, v, va, l, d)
    BY <1>0, <2>5, <2>7, <2>8, Zenon DEF Reached
  <2> QED
    BY <1>1, <2>8, <2>9, Zenon
<1>6. CASE ~m2[t2][i].present
  <2> DEFINE new == kalloc(fs2)
             m3 == [Set(m2, t2, i, Entry(TRUE, new, {})) EXCEPT ![new] = EmptyTable]
             T3 == T2 \cup {new}
             vm3 == More(vm2, T2, new, vm2[t2])
             lv3 == More(lv2, T2, new, l)
             pg3 == More(pg2, T2, new, va)
             fs3 == fs2 \ {new}
  <2>1. fs2 # {}
    BY <1>0, <1>3, FS_EmptySet
  <2>2. new \in fs2 /\ new # 0
    BY <1>3, <2>1, kallocIs, Zenon
  <2>3. new \in Frames /\ new \in Tables /\ new \in fs /\ new \notin T2 /\ new # t2
    BY <1>0, <1>2, <1>3, <2>2, Zenon DEF Grown, Tables
  <2>4. descend(s, i) = Found(new, m3, fs3)
    BY <1>0, <1>2, <1>6, <2>2, Zenon DEF descend
  <2>5. /\ Memory(m3) /\ m3[t2][i] = Entry(TRUE, new, {}) /\ m3[new] = EmptyTable
        /\ \A j \in Index : j # i => m3[t2][j] = m2[t2][j]
        /\ \A t \in T2 : t # t2 => m3[t] = m2[t]
    <3> HIDE DEF new
    <3>0. PICK e : e = Entry(TRUE, new, {})
      BY Zenon
    <3> DEFINE n2 == Set(m2, t2, i, e)
    <3>1. /\ Memory(n2) /\ n2[t2][i] = e
          /\ \A j \in Index : j # i => n2[t2][j] = m2[t2][j]
          /\ \A u \in Tables : u # t2 => n2[u] = m2[u]
      <4>1. Memory(m2)
        BY <1>4, Zenon DEF Forest
      <4> QED
        BY <1>2, <4>1, Cells
    <3>2. m3 = [n2 EXCEPT ![new] = EmptyTable]
      BY <3>0, Zenon
    <3> HIDE DEF n2, m3
    <3>3. /\ Memory(m3) /\ m3[new] = EmptyTable
          /\ \A u \in Tables : u # new => m3[u] = n2[u]
      BY <2>3, <3>1, <3>2, EmptyIs, Zenon DEF Memory
    <3>4. T2 \subseteq Tables
      BY <1>4, Zenon DEF Forest, Places
    <3> QED
      BY <1>2, <2>3, <3>0, <3>1, <3>3, <3>4, Zenon
  <2> HIDE DEF new, m3
  <2>6. Forest(m3, T3, vm3, lv3, pg3, rt)
    <3>1. /\ lv2[t2] = l + 1 /\ Same(va, pg2[t2], l + 1) /\ ~m2[t2][VA2INDEX(va, l + 1)].present
          /\ m3[t2][VA2INDEX(va, l + 1)] = Entry(TRUE, new, {})
          /\ \A j \in Index : j # VA2INDEX(va, l + 1) => m3[t2][j] = m2[t2][j]
      BY <1>1, <1>2, <1>6, <2>5
    <3> QED
      BY <1>2, <1>4, <2>3, <2>5, <3>1, AddTable, Zenon
  <2>7. \A t \in T2 : vm3[t] = vm2[t] /\ lv3[t] = lv2[t] /\ pg3[t] = pg2[t]
    BY <2>3, Zenon DEF More
  <2>8. vm3[new] = v /\ lv3[new] = l /\ pg3[new] = va
    BY <1>2, Zenon DEF More
  <2> HIDE DEF vm3, lv3, pg3
  <2>9. T \subseteq T3 /\ T3 \ T \subseteq fs /\ fs3 = fs \ (T3 \ T)
    BY <1>0, <2>3, Zenon DEF Grown
  <2>10. \A t \in T : vm3[t] = vm[t] /\ lv3[t] = lv[t] /\ pg3[t] = pg[t]
    <3>1. \A t \in T : t \in T2 /\ vm2[t] = vm[t] /\ lv2[t] = lv[t] /\ pg2[t] = pg[t]
      BY <1>0, Zenon DEF Grown
    <3> QED
      BY <2>7, <3>1, Zenon
  <2>11. ASSUME NEW t \in T, lv[t] = 0 PROVE m3[t] = m[t]
    <3>1. t \in T2 /\ lv2[t] = 0 /\ m2[t] = m[t]
      BY <1>0, <2>11, Zenon DEF Grown
    <3> QED
      BY <1>1, <1>2, <2>5, <3>1, Zenon
  <2>12. ASSUME NEW t \in T3 \ T, lv3[t] = 0 PROVE m3[t] = EmptyTable
    <3>1. CASE t = new
      BY <2>5, <3>1, Zenon
    <3>2. CASE t # new
      <4>1. t \in T2 \ T /\ lv2[t] = 0
        BY <2>7, <2>12, <3>2, Zenon
      <4>2. m2[t] = EmptyTable
        BY <1>0, <4>1, Zenon DEF Grown
      <4> QED
        BY <1>1, <1>2, <2>5, <4>1, <4>2, Zenon
    <3> QED
      BY <3>1, <3>2, Zenon
  <2>13. Grown(m, T, vm, lv, pg, rt, fs, m3, T3, vm3, lv3, pg3, fs3)
    BY <2>6, <2>9, <2>10, <2>11, <2>12, Zenon DEF Grown
  <2>14. Cardinality(fs3) >= l
    <3>1. Cardinality(fs3) = Cardinality(fs2) - 1
      BY <1>3, <2>2, FS_RemoveElement, Zenon
    <3> QED
      BY <1>0, <1>3, <3>1
  <2>15. At(T3, vm3, lv3, pg3, v, va, l, new)
    BY <2>8, SameIs, Zenon DEF At
  <2>16. PICK d : d = descend(s, i) /\ d.table = new /\ d.mem = m3 /\ d.free = fs3
    BY <2>4, FoundIs
  <2> HIDE DEF fs3, T3
  <2>17. Reached(m, T, vm, lv, pg, rt, fs, v, va, l, d)
    BY <2>13, <2>14, <2>15, <2>16, Zenon DEF Reached
  <2> QED
    BY <1>1, <2>16, <2>17, Zenon
<1> QED
  BY <1>5, <1>6, Zenon


\* With enough memory, walk with alloc ends at the table of level 0.
LEMMA AllocWalk ==
  ASSUME NEW m, NEW T, NEW vm, NEW lv, NEW pg, NEW rt, Forest(m, T, vm, lv, pg, rt),
         NEW fs \in SUBSET Frames, fs \cap T = {}, Cardinality(fs) >= LEVELS - 1,
         NEW v \in Vmms, rt[v] # 0, NEW va \in Addresses
  PROVE  Reached(m, T, vm, lv, pg, rt, fs, v, va, 0, walk_alloc(m, fs, rt[v], va))
<1> DEFINE w == walked_alloc(m, fs, rt[v], va)
           S == {l \in Levels : Reached(m, T, vm, lv, pg, rt, fs, v, va, l, w[l])}
<1>1. /\ w[LEVELS - 1] = Found(rt[v], m, fs)
      /\ \A l \in Levels : l # LEVELS - 1 => w[l] = descend(w[l + 1], VA2INDEX(va, l + 1))
  BY AllocatedIs
<1> HIDE DEF w
<1>2. LEVELS - 1 \in S
  <2>1. Grown(m, T, vm, lv, pg, rt, fs, m, T, vm, lv, pg, fs)
    BY Zenon DEF Grown
  <2>2. At(T, vm, lv, pg, v, va, LEVELS - 1, rt[v])
    BY SameTop, Zenon DEF At, Forest, Roots
  <2>3. PICK d : d = w[LEVELS - 1] /\ d.table = rt[v] /\ d.mem = m /\ d.free = fs
    BY <1>1, FoundIs
  <2>4. Reached(m, T, vm, lv, pg, rt, fs, v, va, LEVELS - 1, d)
    BY <2>1, <2>2, <2>3, Zenon DEF Reached
  <2> QED
    BY <2>3, <2>4, Sizes, Zenon
<1>3. ASSUME NEW l \in 0 .. LEVELS - 1, l # LEVELS - 1, l + 1 \in S PROVE l \in S
  <2>1. l \in Levels
    BY Sizes, Zenon
  <2>2. Reached(m, T, vm, lv, pg, rt, fs, v, va, l + 1, w[l + 1])
    BY <1>3, Zenon
  <2>3. Reached(m, T, vm, lv, pg, rt, fs, v, va, l, descend(w[l + 1], VA2INDEX(va, l + 1)))
    BY <1>3, <2>1, <2>2, DescendKeeps, Zenon
  <2> QED
    BY <1>1, <1>3, <2>1, <2>3, Zenon
<1>4. 0 \in S
  <2>1. LEVELS - 1 \in Nat /\ 0 \in 0 .. LEVELS - 1
    BY Sizes, Zenon
  <2> HIDE DEF S
  <2> QED
    BY <1>2, <1>3, <2>1, Downwards, Zenon
<1>5. walk_alloc(m, fs, rt[v], va) = w[0]
  BY Zenon DEF walk_alloc, w
<1> QED
  BY <1>4, <1>5, Zenon

\* The descriptor of va is not present.
Unmapped(m, r, va) == walk(m, r, va) # 0 => ~m[walk(m, r, va)][VA2INDEX(va, 0)].present

\* s is what mappages returns if it succeeds: tables, and one descriptor.
Mapped(m, T, vm, lv, pg, rt, fs, v, va, pa, flags, s) ==
  \E m2, T2, vm2, lv2, pg2, e :
    /\ Grown(m, T, vm, lv, pg, rt, fs, m2, T2, vm2, lv2, pg2, s.free)
    /\ At(T2, vm2, lv2, pg2, v, va, 0, s.table)
    /\ s.mem = Set(m2, s.table, VA2INDEX(va, 0), e)
    /\ e.present /\ e.pa = pa /\ e.flags = flags

LEMMA MappedIs ==
  ASSUME NEW m, NEW T, NEW vm, NEW lv, NEW pg, NEW rt, Forest(m, T, vm, lv, pg, rt),
         NEW fs \in SUBSET Frames, fs \cap T = {}, Cardinality(fs) >= LEVELS - 1,
         NEW v \in Vmms, rt[v] # 0, NEW va \in Addresses, Unmapped(m, rt[v], va),
         NEW pa, NEW flags
  PROVE  Mapped(m, T, vm, lv, pg, rt, fs, v, va, pa, flags, mappages(m, fs, rt[v], va, pa, flags))
<1>w. PICK s : walk_alloc(m, fs, rt[v], va) = s
  BY Zenon
<1>r. PICK T2, vm2, lv2, pg2 :
         /\ Grown(m, T, vm, lv, pg, rt, fs, s.mem, T2, vm2, lv2, pg2, s.free)
         /\ At(T2, vm2, lv2, pg2, v, va, 0, s.table)
  <2>1. Reached(m, T, vm, lv, pg, rt, fs, v, va, 0, walk_alloc(m, fs, rt[v], va))
    BY AllocWalk, Zenon
  <2>2. Reached(m, T, vm, lv, pg, rt, fs, v, va, 0, s)
    BY <1>w, <2>1, Zenon
  <2> QED
    BY <2>2, Zenon DEF Reached
<1>s. PICK t2, m2, fs2 : s.table = t2 /\ s.mem = m2 /\ s.free = fs2
  BY Zenon
<1>1. /\ walk_alloc(m, fs, rt[v], va) = s /\ s.table = t2 /\ s.mem = m2 /\ s.free = fs2
      /\ Grown(m, T, vm, lv, pg, rt, fs, m2, T2, vm2, lv2, pg2, fs2)
      /\ At(T2, vm2, lv2, pg2, v, va, 0, t2)
  BY <1>w, <1>r, <1>s, Zenon
<1>2. t2 # 0 /\ t2 \in T2
  BY <1>1, NoTable, Zenon DEF At, Grown, Forest, Places
<1>3. PICK i \in Index : i = VA2INDEX(va, 0)
  BY IndexIs, Sizes, Zenon
<1>4. ~m2[t2][i].present
  <2>1. CASE t2 \in T
    <3>1. At(T, vm, lv, pg, v, va, 0, t2) /\ m2[t2] = m[t2]
      BY <1>1, <2>1, Zenon DEF At, Grown
    <3>2. walk(m, rt[v], va) = t2
      BY <3>1, WalkIs, Sizes DEF walk
    <3> QED
      BY <1>2, <1>3, <3>1, <3>2, Zenon DEF Unmapped
  <2>2. CASE t2 \notin T
    <3>1. m2[t2] = EmptyTable
      BY <1>1, <1>2, <2>2, Zenon DEF At, Grown
    <3> QED
      BY <3>1, EmptyIs, Zenon
  <2> QED
    BY <2>1, <2>2, Zenon
<1>5. PICK e : e = Entry(TRUE, pa, flags) /\ e.present /\ e.pa = pa /\ e.flags = flags
  <2>1. Entry(TRUE, pa, flags).present
    BY Zenon DEF Entry
  <2>2. Entry(TRUE, pa, flags).pa = pa /\ Entry(TRUE, pa, flags).flags = flags
    BY Zenon DEF Entry
  <2> QED
    BY <2>1, <2>2, Zenon
<1>6. PICK m3 : m3 = Set(m2, t2, i, e)
  BY Zenon
<1>7. mappages(m, fs, rt[v], va, pa, flags) = Found(t2, m3, fs2)
  BY <1>1, <1>2, <1>3, <1>4, <1>5, <1>6, Zenon DEF mappages
<1>8. e.present /\ e.pa = pa /\ e.flags = flags
  BY <1>5, Zenon
<1>9. PICK d : /\ d = mappages(m, fs, rt[v], va, pa, flags)
               /\ d.table = t2 /\ d.mem = m3 /\ d.free = fs2
  BY <1>7, FoundIs, SMTT(20)
<1>10. Mapped(m, T, vm, lv, pg, rt, fs, v, va, pa, flags, d)
  BY <1>1, <1>3, <1>6, <1>8, <1>9, Zenon DEF Mapped
<1> QED
  BY <1>9, <1>10, Zenon


\* m2 has the entries of m above the last level.
UpperKept(m, m2, T, lv) == \A t \in T, i \in Index : lv[t] # 0 => m2[t][i] = m[t][i]

\* Writing descriptors of level 0 keeps the tables.
LEMMA LeafChange ==
  ASSUME NEW m, NEW T, NEW vm, NEW lv, NEW pg, NEW rt, Forest(m, T, vm, lv, pg, rt),
         NEW m2, Memory(m2), UpperKept(m, m2, T, lv)
  PROVE  Forest(m2, T, vm, lv, pg, rt)
<1>0. \A t \in T, i \in Index : lv[t] # 0 => m2[t][i] = m[t][i]
  BY Zenon DEF UpperKept
<1>1. Children(m2, T, vm, lv, pg)
  BY <1>0 DEF Forest, Children
<1>2. Parents(m2, T, vm, lv, pg)
  <2> SUFFICES ASSUME NEW c \in T, lv[c] # LEVELS - 1
               PROVE  \E t \in T, i \in Index :
                        Child(vm, lv, pg, t, i, c) /\ m2[t][i].present /\ m2[t][i].pa = c
    BY Zenon DEF Parents
  <2>1. PICK t \in T, i \in Index : Child(vm, lv, pg, t, i, c) /\ m[t][i].present /\ m[t][i].pa = c
    BY Zenon DEF Forest, Parents
  <2>2. lv[t] # 0
    <3>1. lv[t] = lv[c] + 1 /\ lv[c] \in Levels
      BY <2>1, Zenon DEF Child, Forest, Places
    <3> QED
      BY <3>1, Sizes
  <2> QED
    BY <1>0, <2>1, <2>2, Zenon
<1> QED
  BY <1>1, <1>2, Zenon DEF Forest

\* The frame pa has no use.
Unused(m, T, lv, fr, ct, pa) ==
  /\ pa \in Frames /\ pa \notin fr /\ pa \notin T /\ \A v \in Vmms : pa \notin ct[v]
  /\ \A t \in T, i \in Index : lv[t] = 0 /\ m[t][i].present => m[t][i].pa # pa

\* pa may be mapped in an area a of v.
Mappable(m, T, lv, fr, ct, v, a, pa) ==
  Unused(m, T, lv, fr, ct, pa) \/ (pa \in Devices /\ v = Kernel /\ a.is_mmio)

\* A mapping made by mappages.
LEMMA MapKeeps ==
  ASSUME NEW m, NEW rt, NEW fr, NEW ct, NEW ar, NEW T, NEW vm, NEW lv, NEW pg,
         Holds(m, rt, fr, ct, ar, T, vm, lv, pg), Cardinality(fr) >= LEVELS - 1,
         NEW v \in Vmms, rt[v] # 0, NEW a \in ar[v], NEW va \in PagesOf(a), Unmapped(m, rt[v], va),
         NEW pa, Mappable(m, T, lv, fr, ct, v, a, pa)
  PROVE  LET s == mappages(m, fr, rt[v], va, pa, a.flags)
         IN  s.table # 0 /\ Sound(s.mem, rt, s.free, ct, ar)
<1> SUFFICES ASSUME NEW s, s = mappages(m, fr, rt[v], va, pa, a.flags)
             PROVE  s.table # 0 /\ Sound(s.mem, rt, s.free, ct, ar)
  BY Zenon
<1>1. va \in Pages /\ va \in Addresses
  BY AddressSpaceAssumption, Zenon DEF PagesOf
<1>2. Forest(m, T, vm, lv, pg, rt) /\ fr \in SUBSET Frames /\ fr \cap T = {}
  BY Zenon DEF Holds, Pool
<1>m. PICK m2, T2, vm2, lv2, pg2, x :
         /\ Grown(m, T, vm, lv, pg, rt, fr, m2, T2, vm2, lv2, pg2, s.free)
         /\ At(T2, vm2, lv2, pg2, v, va, 0, s.table)
         /\ s.mem = Set(m2, s.table, VA2INDEX(va, 0), x)
         /\ x.present /\ x.pa = pa /\ x.flags = a.flags
  <2>1. PICK flags : flags = a.flags
    BY Zenon
  <2>2. Mapped(m, T, vm, lv, pg, rt, fr, v, va, pa, flags, mappages(m, fr, rt[v], va, pa, flags))
    BY <1>1, <1>2, MappedIs, Zenon
  <2>3. Mapped(m, T, vm, lv, pg, rt, fr, v, va, pa, a.flags, s)
    BY <2>1, <2>2, Zenon
  <2> QED
    BY <2>3, Zenon DEF Mapped
<1>s. PICK t2, fs2, m3 : s.table = t2 /\ s.mem = m3 /\ s.free = fs2
  BY Zenon
<1>3. /\ s.table = t2 /\ s.mem = m3 /\ s.free = fs2
      /\ Grown(m, T, vm, lv, pg, rt, fr, m2, T2, vm2, lv2, pg2, fs2)
      /\ At(T2, vm2, lv2, pg2, v, va, 0, t2)
      /\ \E e : /\ m3 = Set(m2, t2, VA2INDEX(va, 0), e)
               /\ e.present /\ e.pa = pa /\ e.flags = a.flags
  BY <1>m, <1>s, Zenon
<1>4. PICK i \in Index : i = VA2INDEX(va, 0)
  BY <1>1, IndexIs, Sizes, Zenon
<1>5. /\ t2 \in T2 /\ t2 \in Tables /\ t2 # 0 /\ vm2[t2] = v /\ lv2[t2] = 0 /\ Same(va, pg2[t2], 0)
      /\ Memory(m2)
  BY <1>3, NoTable, Zenon DEF At, Grown, Forest, Places
<1>6. /\ Memory(m3) /\ m3[t2][i].present /\ m3[t2][i].pa = pa /\ m3[t2][i].flags = a.flags
      /\ \A j \in Index : j # i => m3[t2][j] = m2[t2][j]
      /\ \A u \in Tables : u # t2 => m3[u] = m2[u]
  <2>1. PICK e : m3 = Set(m2, t2, VA2INDEX(va, 0), e) /\ e.present /\ e.pa = pa /\ e.flags = a.flags
    BY <1>3, Zenon
  <2>2. m3 = Set(m2, t2, i, e)
    BY <1>4, <2>1, Zenon
  <2> QED
    BY <1>5, <2>1, <2>2, Cells
<1>7. T2 \subseteq Tables
  BY <1>3, Zenon DEF Grown, Forest, Places
<1>8. Forest(m3, T2, vm2, lv2, pg2, rt)
  <2>1. \A t \in T2, j \in Index : lv2[t] # 0 => m3[t][j] = m2[t][j]
    BY <1>5, <1>6, <1>7, Zenon
  <2>2. Forest(m2, T2, vm2, lv2, pg2, rt) /\ Memory(m3) /\ UpperKept(m2, m3, T2, lv2)
    BY <1>3, <1>6, <2>1, Zenon DEF Grown, UpperKept
  <2> QED
    BY <2>2, LeafChange, Zenon
\* What is mapped now was mapped before, or is the new page.
<1>9. ASSUME NEW t \in T2, NEW j \in Index, lv2[t] = 0, m3[t][j].present, ~(t = t2 /\ j = i)
      PROVE  t \in T /\ lv[t] = 0 /\ m3[t][j] = m[t][j] /\ vm2[t] = vm[t] /\ pg2[t] = pg[t]
  <2>1. m3[t][j] = m2[t][j]
    BY <1>6, <1>7, <1>9, Zenon
  <2>2. t \in T
    BY <1>3, <1>9, <2>1, EmptyIs, Zenon DEF Grown
  <2> QED
    BY <1>3, <1>9, <2>1, <2>2, Zenon DEF Grown
<1>10. \A f : f \in T2 => f \in T \/ f \in fr
  BY <1>3, Zenon DEF Grown
<1>11. \A f : f \in fs2 => f \in fr /\ f \notin T2
  BY <1>2, <1>3, Zenon DEF Grown
<1>12. Backed(m3, T2, vm2, lv2, pg2, fs2, ct, ar)
  <2> SUFFICES ASSUME NEW t \in T2, NEW j \in Index, lv2[t] = 0, m3[t][j].present
               PROVE  /\ m3[t][j].pa \in Frames =>
                           /\ m3[t][j].pa \notin fs2 /\ m3[t][j].pa \notin T2
                           /\ \A u \in Vmms : m3[t][j].pa \notin ct[u]
                      /\ \E b \in ar[vm2[t]], w \in Pages :
                           /\ w \in PagesOf(b) /\ Same(w, pg2[t], 0) /\ VA2INDEX(w, 0) = j
                           /\ m3[t][j].flags = b.flags
                           /\ \/ m3[t][j].pa \in Frames
                              \/ m3[t][j].pa \in Devices /\ vm2[t] = Kernel /\ b.is_mmio
    BY Zenon DEF Backed
  <2>1. CASE t = t2 /\ j = i
    <3>1. pa \in Frames => pa \notin fs2 /\ pa \notin T2 /\ \A u \in Vmms : pa \notin ct[u]
      BY <1>10, <1>11, AddressSpaceAssumption, Zenon DEF Unused, Mappable
    <3>2. pa \in Frames \/ (pa \in Devices /\ v = Kernel /\ a.is_mmio)
      BY Zenon DEF Unused, Mappable
    <3> QED
      BY <1>1, <1>4, <1>5, <1>6, <2>1, <3>1, <3>2, Zenon
  <2>2. CASE ~(t = t2 /\ j = i)
    <3>1. t \in T /\ lv[t] = 0 /\ m3[t][j] = m[t][j] /\ vm2[t] = vm[t] /\ pg2[t] = pg[t]
      BY <1>9, <2>2, Zenon
    <3>2. m[t][j].pa \in Frames =>
            /\ m[t][j].pa \notin fr /\ m[t][j].pa \notin T /\ \A u \in Vmms : m[t][j].pa \notin ct[u]
      BY <3>1, Zenon DEF Holds, Backed
    <3>3. \E b \in ar[vm[t]], w \in Pages :
             /\ w \in PagesOf(b) /\ Same(w, pg[t], 0) /\ VA2INDEX(w, 0) = j
             /\ m[t][j].flags = b.flags
             /\ m[t][j].pa \in Frames \/ (m[t][j].pa \in Devices /\ vm[t] = Kernel /\ b.is_mmio)
      BY <3>1, Zenon DEF Holds, Backed
    <3> QED
      BY <1>10, <1>11, <3>1, <3>2, <3>3, Zenon
  <2> QED
    BY <2>1, <2>2, Zenon
<1>13. Once(m3, T2, lv2)
  <2> SUFFICES ASSUME NEW t \in T2, NEW u \in T2, NEW j \in Index, NEW k \in Index,
                      lv2[t] = 0, lv2[u] = 0, m3[t][j].present, m3[u][k].present,
                      m3[t][j].pa = m3[u][k].pa, m3[t][j].pa \in Frames
               PROVE  t = u /\ j = k
    BY Zenon DEF Once
  <2>1. CASE ~(t = t2 /\ j = i) /\ ~(u = t2 /\ k = i)
    <3>1. t \in T /\ lv[t] = 0 /\ m3[t][j] = m[t][j]
      BY <1>9, <2>1, Zenon
    <3>2. u \in T /\ lv[u] = 0 /\ m3[u][k] = m[u][k]
      BY <1>9, <2>1, Zenon
    <3>3. /\ m[t][j].present /\ m[u][k].present /\ m[t][j].pa = m[u][k].pa
          /\ m[t][j].pa \in Frames
      BY <3>1, <3>2, Zenon
    <3>4. Once(m, T, lv)
      BY Zenon DEF Holds
    <3> QED
      BY <3>1, <3>2, <3>3, <3>4 DEF Once
  <2>2. pa \in Frames => Unused(m, T, lv, fr, ct, pa)
    BY AddressSpaceAssumption, Zenon DEF Mappable
  <2>3. CASE (t = t2 /\ j = i) /\ ~(u = t2 /\ k = i)
    <3>1. u \in T /\ lv[u] = 0 /\ m[u][k].present /\ m[u][k].pa = pa /\ pa \in Frames
      BY <1>6, <1>9, <2>3, Zenon
    <3> QED
      BY <2>2, <3>1, Zenon DEF Unused
  <2>4. CASE ~(t = t2 /\ j = i) /\ (u = t2 /\ k = i)
    <3>1. t \in T /\ lv[t] = 0 /\ m[t][j].present /\ m[t][j].pa = pa /\ pa \in Frames
      BY <1>6, <1>9, <2>4, Zenon
    <3> QED
      BY <2>2, <3>1, Zenon DEF Unused
  <2> QED
    BY <2>1, <2>3, <2>4, Zenon
<1>14. Pool(T2, fs2, ct)
  BY <1>2, <1>10, <1>11, Zenon DEF Holds, Pool
<1>15. Holds(m3, rt, fs2, ct, ar, T2, vm2, lv2, pg2)
  BY <1>8, <1>12, <1>13, <1>14, Zenon DEF Holds
<1> QED
  BY <1>3, <1>5, <1>15, Zenon DEF Sound


-----------------------------------------------------------------------------
(* What is mapped.                                                         *)

\* Two pages with one table and one index are one page.
LEMMA OnePage ==
  ASSUME NEW va \in Addresses, NEW w \in Addresses, NEW p, Same(va, p, 0), Same(w, p, 0),
         VA2INDEX(va, 0) = VA2INDEX(w, 0)
  PROVE  va = w
<1>1. \A l \in Levels : l = 0 \/ l > 0
  BY Sizes
<1>2. \A l \in Levels : VA2INDEX(va, l) = VA2INDEX(w, l)
  BY <1>1, Zenon DEF Same
<1> QED
  BY <1>2, IndexesApart, Zenon

\* The descriptor of a page lies in the table of level 0 of its address space.
LEMMA DescriptorIs ==
  ASSUME NEW m, NEW T, NEW vm, NEW lv, NEW pg, NEW rt, Forest(m, T, vm, lv, pg, rt),
         NEW v \in Vmms, NEW va \in Addresses
  PROVE  /\ VA2INDEX(va, 0) \in Index
         /\ walk(m, rt[v], va) # 0 => At(T, vm, lv, pg, v, va, 0, walk(m, rt[v], va))
         /\ \A t : At(T, vm, lv, pg, v, va, 0, t) => walk(m, rt[v], va) = t
<1>1. 0 \in Levels /\ walk(m, rt[v], va) = walked(m, rt[v], va)[0]
  BY Sizes, Zenon DEF walk
<1>2. /\ walked(m, rt[v], va)[0] # 0 => At(T, vm, lv, pg, v, va, 0, walked(m, rt[v], va)[0])
      /\ \A t : At(T, vm, lv, pg, v, va, 0, t) => walked(m, rt[v], va)[0] = t
  BY <1>1, WalkIs
<1> QED
  BY <1>1, <1>2, IndexIs, Zenon

\* An area of v has the page va, and e may be the descriptor of the page.
Allows(ar, v, va, e) ==
  \E a \in ar[v] :
    /\ va \in PagesOf(a) /\ e.flags = a.flags
    /\ e.pa \in Frames \/ (e.pa \in Devices /\ v = Kernel /\ a.is_mmio)

\* A page that is present belongs to an area, and the area has its access.
LEMMA PresentIs ==
  ASSUME NEW m, NEW rt, NEW fr, NEW ct, NEW ar, NEW T, NEW vm, NEW lv, NEW pg,
         Holds(m, rt, fr, ct, ar, T, vm, lv, pg), NEW v \in Vmms, NEW va \in Addresses,
         NEW t, At(T, vm, lv, pg, v, va, 0, t), m[t][VA2INDEX(va, 0)].present
  PROVE  Allows(ar, v, va, m[t][VA2INDEX(va, 0)])
<1>1. PICK i \in Index : i = VA2INDEX(va, 0)
  BY IndexIs, Sizes, Zenon
<1>2. t \in T /\ vm[t] = v /\ lv[t] = 0 /\ Same(va, pg[t], 0) /\ m[t][i].present
  BY <1>1, Zenon DEF At
<1>3. PICK a \in ar[v], w \in Pages :
         /\ w \in PagesOf(a) /\ Same(w, pg[t], 0) /\ VA2INDEX(w, 0) = i
         /\ m[t][i].flags = a.flags
         /\ m[t][i].pa \in Frames \/ (m[t][i].pa \in Devices /\ vm[t] = Kernel /\ a.is_mmio)
  BY <1>2, Zenon DEF Holds, Backed
<1>4. w = va
  BY <1>1, <1>2, <1>3, OnePage, AddressSpaceAssumption, Zenon
<1>5. Allows(ar, v, va, m[t][i])
  BY <1>2, <1>3, <1>4, Zenon DEF Allows
<1> QED
  BY <1>1, <1>5, Zenon

=============================================================================
