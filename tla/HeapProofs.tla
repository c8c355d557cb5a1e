----------------------------- MODULE HeapProofs -----------------------------
(***************************************************************************)
(* Proofs about Heap, for every size of the area, all sizes that callers   *)
(* ask for and every sequence of calls: the nodes tile the area, every     *)
(* block is the inside of a node of its own, and no words are lost.        *)
(*                                                                         *)
(* The nodes are found by following pointers through words that callers    *)
(* could have overwritten.  The invariant says instead that there is a set *)
(* of nodes, laid out behind one another, whose insides are the blocks;    *)
(* NodesAre shows that the pointers lead to exactly that set.              *)
(***************************************************************************)
EXTENDS Heap, WellFoundedInduction, NaturalsInduction, TLAPS

\* The nodes N of h lie behind one another from 0 to the end of the area, each ends where
\* its next begins, and no prev points behind its node.
Laid(h, N) ==
  /\ 0 \in N
  /\ \A n \in N :
       /\ n \in Nat /\ n + HDR <= WORDS
       /\ size(h, n) \in Nat /\ status(h, n) \in {FREE, USED}
       /\ next(h, n) = NULL \/ next(h, n) \in N
       /\ n + HDR + size(h, n) = IF next(h, n) = NULL THEN WORDS ELSE next(h, n)
       /\ prev(h, n) = NULL \/ (prev(h, n) \in Nat /\ prev(h, n) + HDR <= n)
  /\ \A n, m \in N : n < m => n + HDR + size(h, n) <= m

\* The blocks bs are the insides of the nodes in use, one each.
Owned(h, N, bs) ==
  /\ bs \subseteq Int \X Nat
  /\ \A b \in bs :
       /\ b[1] - HDR \in N
       /\ b[2] <= size(h, b[1] - HDR)
       /\ status(h, b[1] - HDR) = USED
  /\ \A b, d \in bs : b[1] = d[1] => b = d
  /\ \A n \in N : status(h, n) = USED => \E b \in bs : b[1] = n + HDR

Sound(h, N, bs) == h \in [Addresses -> Int] /\ Laid(h, N) /\ Owned(h, N, bs)

\* The inductive invariant.
HeapInv == halted \in BOOLEAN /\ (~halted => \E N : Sound(mem, N, blocks))

\* A set of natural numbers has a least element...
LEMMA LeastIn ==
  ASSUME NEW S, S \subseteq Nat, S # {}
  PROVE  \E n \in S : \A k \in S : n <= k
<1>1. PICK n \in S : \A k \in S : ~(<<k, n>> \in OpToRel(<, Nat))
  BY NatLessThanWellFounded, WFMin, Zenon
<1>2. ASSUME NEW k \in S PROVE n <= k
  <2>1. ~(k < n)
    BY <1>1, Zenon DEF OpToRel
  <2> QED
    BY <2>1
<1> QED
  BY <1>2, Zenon

\* ... and a bounded one a greatest.
LEMMA GreatestIn ==
  ASSUME NEW M \in Nat, NEW S, S \subseteq 0 .. M, S # {}
  PROVE  \E n \in S : \A k \in S : k <= n
<1> DEFINE R == {x \in Nat : M - x \in S}
<1>1. R # {}
  <2>1. PICK k \in S : k \in 0 .. M
    BY Zenon
  <2>2. M - k \in Nat /\ M - (M - k) = k
    BY <2>1
  <2> QED
    BY <2>1, <2>2, Zenon
<1>2. PICK x \in R : \A y \in R : x <= y
  BY <1>1, LeastIn, Zenon
<1>3. ASSUME NEW k \in S PROVE k <= M - x
  <2>1. k \in 0 .. M
    BY Zenon
  <2>2. M - k \in R
    BY <2>1
  <2> QED
    BY <1>2, <2>1, <2>2
<1> QED
  BY <1>2, <1>3, Zenon

\* Induction up to a bound, for the members of a set.
LEMMA EachUpTo ==
  ASSUME NEW M \in Nat, NEW S, 0 \in S, \A k \in 0 .. M : k # M /\ k \in S => k + 1 \in S
  PROVE  \A k \in 0 .. M : k \in S
<1> SUFFICES ASSUME NEW z \in 0 .. M, z \notin S PROVE FALSE
  BY Zenon
<1> DEFINE B == (0 .. M) \ S
<1>1. B \subseteq Nat /\ B # {}
  OBVIOUS
<1>2. PICK x \in B : \A k \in B : x <= k
  <2> HIDE DEF B
  <2> QED
    BY <1>1, LeastIn, Zenon
<1>3. x # 0 /\ x - 1 \in 0 .. M /\ x - 1 # M /\ x - 1 + 1 = x
  BY <1>2
<1>4. x - 1 \in S
  <2>1. ~(x <= x - 1)
    BY <1>3
  <2> QED
    BY <1>2, <1>3, <2>1, Zenon
<1> QED
  BY <1>2, <1>3, <1>4, Zenon

\* How many headers the area has room for: Chain, which takes that many steps, comes to
\* the end of every list whose nodes are apart.
LEMMA Room ==
  /\ WORDS \in Nat /\ WORDS > HDR /\ MOST \in Nat
  /\ HDR * MOST <= WORDS /\ WORDS < HDR * MOST + HDR
  BY HeapAssumption DEF MOST, HDR

\* What Chain computes.
LEMMA ChainIs ==
  ASSUME NEW h
  PROVE  /\ Chain(h)[0] = 0
         /\ \A k \in 0 .. MOST : k # MOST =>
              Chain(h)[k + 1] = IF Chain(h)[k] = NULL THEN NULL ELSE next(h, Chain(h)[k])
<1> DEFINE Dom == 0 .. MOST
           After(p) == IF p = NULL THEN NULL ELSE next(h, p)
           Step(f, k) == IF k = 0 THEN 0 ELSE After(f[k - 1])
           Computes(f, k) ==
             f = [l \in Dom |-> f[l]] /\ \A l \in Dom : l <= k => f[l] = Step(f, l)
           S == {k \in Dom : \E f : Computes(f, k)}
<1>1. 0 \in S
  <2> DEFINE g == [l \in Dom |-> 0]
  <2>1. \A l \in Dom : l <= 0 => l = 0 /\ g[l] = 0
    BY Room
  <2>2. Computes(g, 0)
    <3> HIDE DEF After
    <3> QED
      BY <2>1, Zenon
  <2>3. \E f : Computes(f, 0)
    <3> HIDE DEF g, Computes
    <3> QED
      BY <2>2, Zenon
  <2>4. 0 \in Dom
    BY Room
  <2> HIDE DEF Computes
  <2> QED
    BY <2>3, <2>4, Zenon
<1>2. ASSUME NEW k \in 0 .. MOST, k # MOST, k \in S PROVE k + 1 \in S
  <2>1. PICK f : Computes(f, k)
    BY <1>2, Zenon
  <2> DEFINE g == [l \in Dom |-> IF l = k + 1 THEN After(f[k]) ELSE f[l]]
  <2>2. ASSUME NEW l \in Dom, l <= k + 1 PROVE g[l] = Step(g, l)
    <3>1. l \in Nat /\ k \in Nat /\ k + 1 # 0 /\ k + 1 - 1 = k /\ k \in Dom
      BY Room
    <3>2. l # 0 => l - 1 \in Dom /\ l - 1 # k + 1
      BY <2>2, <3>1, Room
    <3>3. Step(g, l) = Step(f, l)
      <4> HIDE DEF After
      <4>1. l # 0 => g[l - 1] = f[l - 1]
        BY <3>2, Zenon
      <4> HIDE DEF g
      <4> QED
        BY <4>1, Zenon
    <3>4. CASE l = k + 1
      <4>1. g[l] = Step(f, l)
        <5>1. l # 0 /\ l - 1 = k
          BY <3>1, <3>4
        <5> HIDE DEF After
        <5> QED
          BY <3>4, <5>1, Zenon
      <4> HIDE DEF Step, g
      <4> QED
        BY <3>3, <4>1, Zenon
    <3>5. CASE l # k + 1
      <4>1. l <= k
        BY <2>2, <3>1, <3>5
      <4>2. f[l] = Step(f, l) /\ g[l] = f[l]
        BY <2>1, <3>5, <4>1, Zenon
      <4> HIDE DEF Step, g
      <4> QED
        BY <3>3, <4>2, Zenon
    <3> QED
      BY <3>4, <3>5, Zenon
  <2>3. \E x : Computes(x, k + 1)
    <3>1. g = [l \in Dom |-> g[l]]
      BY Zenon
    <3> HIDE DEF g, Step
    <3>2. Computes(g, k + 1)
      BY <2>2, <3>1, Zenon
    <3> HIDE DEF Computes
    <3> QED
      BY <3>2, Zenon
  <2>4. k + 1 \in Dom
    BY <1>2, Room
  <2> HIDE DEF Computes
  <2> QED
    BY <2>3, <2>4, Zenon
<1>3. MOST \in S
  <2>1. MOST \in Nat /\ MOST \in 0 .. MOST
    BY Room
  <2> HIDE DEF S
  <2> QED
    BY <1>1, <1>2, <2>1, EachUpTo, Zenon
<1>4. PICK f : Computes(f, MOST)
  BY <1>3, Zenon
<1>5. f = [k \in Dom |-> Step(f, k)]
  <2>1. \A k \in Dom : k <= MOST
    BY Room
  <2> HIDE DEF Step
  <2>2. f = [k \in Dom |-> f[k]] /\ \A k \in Dom : f[k] = Step(f, k)
    BY <1>4, <2>1, Zenon
  <2> QED
    BY <2>2, Zenon
<1>6. Chain(h) = [k \in Dom |-> Step(Chain(h), k)]
  BY <1>5, Zenon DEF Chain
<1>7. Chain(h)[0] = 0
  <2>1. 0 \in Dom
    BY Room
  <2> QED
    BY <1>6, <2>1, Zenon
<1>8. ASSUME NEW k \in Dom, k # MOST PROVE Chain(h)[k + 1] = After(Chain(h)[k])
  <2>1. PICK j \in Dom : j = k + 1 /\ j # 0 /\ j - 1 = k
    BY <1>8, Room
  <2> HIDE DEF After
  <2>2. Chain(h)[j] = After(Chain(h)[j - 1])
    BY <1>6, <2>1, Zenon
  <2> QED
    BY <2>1, <2>2, Zenon
<1> QED
  BY <1>7, <1>8, Zenon

\* Two nodes keep off each other's words, and each has its header within the area.
LEMMA Apart ==
  ASSUME NEW h, NEW N, Laid(h, N), NEW n \in N, NEW m \in N
  PROVE  /\ n \in Nat /\ n + HDR + size(h, n) <= WORDS
         /\ n < m => n + HDR + size(h, n) <= m
         /\ next(h, n) # NULL => next(h, n) \in N /\ next(h, n) = n + HDR + size(h, n)
         /\ n < m => next(h, n) # NULL
<1>1. /\ n \in Nat /\ n + HDR <= WORDS /\ size(h, n) \in Nat
      /\ next(h, n) = NULL \/ next(h, n) \in N
      /\ n + HDR + size(h, n) = IF next(h, n) = NULL THEN WORDS ELSE next(h, n)
      /\ n < m => n + HDR + size(h, n) <= m
  BY Zenon DEF Laid
<1>2. next(h, n) # NULL => next(h, n) \in Nat /\ next(h, n) + HDR <= WORDS
  BY Zenon DEF Laid
<1>3. m \in Nat /\ m + HDR <= WORDS
  BY Zenon DEF Laid
<1> QED
  BY <1>1, <1>2, <1>3, Room DEF HDR

\* The nodes that the pointers lead to are the nodes that are laid out...
LEMMA NodesAre ==
  ASSUME NEW h, NEW N, Laid(h, N)
  PROVE  Nodes(h) = N
<1> DEFINE c == Chain(h)
           Dom == 0 .. MOST
<1>1. /\ c[0] = 0
      /\ \A k \in Dom : k # MOST => c[k + 1] = IF c[k] = NULL THEN NULL ELSE next(h, c[k])
  BY ChainIs, Zenon
<1> HIDE DEF c
<1>2. N \subseteq Nat /\ 0 \in N /\ \A n \in N : n + HDR <= WORDS
  BY Zenon DEF Laid
<1> DEFINE P(k) == c[k] = NULL \/ (c[k] \in N /\ c[k] >= HDR * k)
           S == {k \in Nat : P(k)}
<1>3. \A k \in Dom : P(k)
  <2>1. 0 \in S
    BY <1>1, <1>2 DEF HDR
  <2>2. ASSUME NEW k \in Dom, k # MOST, k \in S PROVE k + 1 \in S
    <3>1. k \in Nat /\ k + 1 \in Nat
      BY Room
    <3>2. c[k + 1] = IF c[k] = NULL THEN NULL ELSE next(h, c[k])
      BY <1>1, <2>2, Zenon
    <3>3. CASE c[k] = NULL
      BY <3>1, <3>2, <3>3, Zenon
    <3>4. CASE c[k] # NULL
      <4>1. PICK n \in N : n = c[k] /\ n >= HDR * k
        BY <2>2, <3>4, Zenon
      <4>2. n \in Nat /\ size(h, n) \in Nat
        BY Zenon DEF Laid
      <4>3. next(h, n) # NULL => next(h, n) \in N /\ next(h, n) = n + HDR + size(h, n)
        BY Apart, Zenon
      <4>4. next(h, n) # NULL => next(h, n) >= HDR * (k + 1)
        BY <3>1, <4>1, <4>2, <4>3 DEF HDR
      <4> QED
        BY <3>1, <3>2, <3>4, <4>1, <4>3, <4>4, Zenon
    <3> QED
      BY <3>3, <3>4, Zenon
  <2>3. \A k \in 0 .. MOST : k \in S
    <3>1. MOST \in Nat
      BY Room, Zenon
    <3> HIDE DEF S
    <3> QED
      BY <2>1, <2>2, <3>1, EachUpTo, Zenon
  <2> QED
    BY <2>3, Zenon
<1>4. ASSUME NEW n \in N PROVE \E k \in Dom : c[k] = n
  <2> DEFINE B == {x \in N : ~\E k \in Dom : c[k] = x}
  <2> SUFFICES ASSUME n \in B PROVE FALSE
    BY Zenon
  <2>1. PICK x \in B : \A y \in B : x <= y
    <3>1. B \subseteq Nat /\ B # {}
      BY <1>2, Zenon
    <3> HIDE DEF B
    <3> QED
      BY <3>1, LeastIn, Zenon
  <2>2. x \in N /\ x \in Nat /\ x # 0
    <3>1. 0 \in Dom
      BY Room
    <3> QED
      BY <1>1, <1>2, <3>1, Zenon
  <2> DEFINE L == {y \in N : y < x}
  <2>3. PICK m \in L : \A y \in L : y <= m
    <3>1. L \subseteq 0 .. x /\ 0 \in L
      <4>1. ASSUME NEW y \in L PROVE y \in 0 .. x
        <5>1. y \in Nat /\ y < x /\ x \in Nat
          BY <1>2, <2>2, Zenon
        <5> QED
          BY <5>1
      <4>2. 0 < x
        BY <2>2
      <4> QED
        BY <1>2, <4>1, <4>2, Zenon
    <3> HIDE DEF L
    <3> QED
      BY <2>2, <3>1, GreatestIn, Zenon
  <2>4. m \in N /\ m \in Nat /\ m < x
    BY <1>2, Zenon
  <2>5. next(h, m) = x
    <3>1. /\ next(h, m) \in N /\ next(h, m) = m + HDR + size(h, m)
          /\ m + HDR + size(h, m) <= x /\ next(h, m) # NULL
      BY <2>2, <2>4, Apart, Zenon
    <3>2. size(h, m) \in Nat /\ next(h, m) \in Nat
      BY <1>2, <2>4, <3>1, Zenon DEF Laid
    <3>3. next(h, m) < x => next(h, m) <= m
      BY <2>3, <3>1, Zenon
    <3> QED
      BY <2>2, <2>4, <3>1, <3>2, <3>3 DEF HDR
  <2>6. PICK k \in Dom : c[k] = m
    <3>1. m \notin B
      BY <2>1, <2>2, <2>4
    <3> QED
      BY <2>4, <3>1, Zenon
  <2>7. c[k] # NULL /\ m >= HDR * k
    <3>1. m # NULL
      BY <2>4 DEF NULL
    <3> QED
      BY <1>3, <2>6, <3>1, Zenon
  <2>8. k # MOST /\ k + 1 \in Dom
    <3>1. x + HDR <= WORDS /\ m + HDR <= x
      <4>1. m + HDR + size(h, m) <= x /\ size(h, m) \in Nat
        BY <2>2, <2>4, Apart, Zenon DEF Laid
      <4>2. x + HDR <= WORDS
        BY <1>2, <2>2, Zenon
      <4> QED
        BY <2>2, <2>4, <4>1, <4>2 DEF HDR
    <3> QED
      BY <2>2, <2>4, <2>7, <3>1, Room DEF HDR
  <2>9. c[k + 1] = x
    BY <1>1, <2>5, <2>6, <2>7, <2>8, Zenon
  <2> QED
    BY <2>1, <2>8, <2>9, Zenon
<1>5. \A n \in N : n # NULL
  BY <1>2 DEF NULL
<1>6. Nodes(h) = {c[k] : k \in Dom} \ {NULL}
  BY Zenon DEF Nodes, c
<1> QED
  BY <1>3, <1>4, <1>5, <1>6, Zenon

\* ... and the search of alloc ends at one of them.
LEMMA SearchIs ==
  ASSUME NEW h, NEW N, Laid(h, N), NEW sz
  PROVE  Search(h, sz) \in N
<1> DEFINE c == Chain(h)
           Dom == 0 .. MOST
           Ends == {k \in Dom : c[k] # NULL /\ (Fits(h, c[k], sz) \/ next(h, c[k]) = NULL)}
<1>1. {c[k] : k \in Dom} \ {NULL} = N
  BY NodesAre, Zenon DEF Nodes
<1>2. N \subseteq 0 .. WORDS /\ 0 \in N
  <2>1. 0 \in N /\ \A n \in N : n \in Nat /\ n + HDR <= WORDS
    BY Zenon DEF Laid
  <2> QED
    BY <2>1, Room DEF HDR
<1>3. PICK m \in N : \A n \in N : n <= m
  <2>1. WORDS \in Nat
    BY Room, Zenon
  <2> QED
    BY <1>2, <2>1, GreatestIn, Zenon
<1>4. next(h, m) = NULL
  <2> SUFFICES ASSUME next(h, m) # NULL PROVE FALSE
    BY Zenon
  <2>1. next(h, m) \in N /\ next(h, m) = m + HDR + size(h, m)
    BY Apart, Zenon
  <2>2. m \in Nat /\ size(h, m) \in Nat /\ next(h, m) <= m
    BY <1>3, <2>1, Zenon DEF Laid
  <2> QED
    BY <2>1, <2>2 DEF HDR
<1>5. PICK k \in Dom : c[k] = m /\ c[k] # NULL
  BY <1>1, Zenon
<1>6. Ends \subseteq Nat /\ k \in Ends
  <2>1. Dom \subseteq Nat
    BY Room
  <2> HIDE DEF c
  <2> QED
    BY <1>4, <1>5, <2>1, Zenon
<1>7. \E l \in Ends : \A j \in Ends : l <= j
  <2> HIDE DEF Ends
  <2> QED
    BY <1>6, LeastIn, Zenon
<1> DEFINE e == CHOOSE l \in Ends : \A j \in Ends : l <= j
<1>8. e \in Ends
  <2> HIDE DEF Ends
  <2> QED
    BY <1>7, Zenon
<1>9. Search(h, sz) = c[e]
  BY Zenon DEF Search
<1> HIDE DEF e, c
<1> QED
  BY <1>1, <1>8, <1>9, Zenon

-----------------------------------------------------------------------------
(* The changes that alloc, realloc and free are made of.                   *)

\* g is h with the node n split: it keeps a words, and a free node gets the rest.
IsSplit(h, g, N, n, a) ==
  LET r == n + HDR + a IN
  /\ g \in [Addresses -> Int]
  /\ g[n] = a /\ g[n + 1] = h[n + 1] /\ g[n + 2] = h[n + 2] /\ g[n + 3] = r
  /\ g[r] = h[n] - a - HDR /\ g[r + 1] = FREE /\ g[r + 2] = n /\ g[r + 3] = h[n + 3]
  /\ \A m \in N \ {n} :
       /\ g[m] = h[m] /\ g[m + 1] = h[m + 1] /\ g[m + 3] = h[m + 3]
       /\ g[m + 2] = h[m + 2] \/ (g[m + 2] = r /\ r + HDR <= m)

\* g is h with the node behind n joined to it.
IsJoin(h, g, N, n) ==
  LET m == h[n + 3] IN
  /\ g \in [Addresses -> Int]
  /\ g[n] = h[n] + h[m] + HDR /\ g[n + 1] = h[n + 1] /\ g[n + 2] = h[n + 2] /\ g[n + 3] = h[m + 3]
  /\ \A k \in N \ {n, m} :
       /\ g[k] = h[k] /\ g[k + 1] = h[k + 1] /\ g[k + 3] = h[k + 3]
       /\ g[k + 2] = h[k + 2] \/ (g[k + 2] = n /\ n + HDR <= k)

\* The words of a node.
LEMMA NodeIs ==
  ASSUME NEW h, NEW N, Laid(h, N), NEW n \in N
  PROVE  /\ n \in Nat /\ h[n] \in Nat /\ h[n + 1] \in {FREE, USED}
         /\ n + 4 + h[n] <= WORDS
         /\ h[n + 3] = NULL => n + 4 + h[n] = WORDS
         /\ h[n + 3] # NULL => h[n + 3] \in N /\ h[n + 3] \in Nat /\ n + 4 + h[n] = h[n + 3]
         /\ h[n + 2] = NULL \/ (h[n + 2] \in Nat /\ h[n + 2] + 4 <= n)
         /\ \A m \in N : m \in Nat /\ (n < m => n + 4 + h[n] <= m /\ h[n + 3] # NULL)
<1>1. /\ n \in Nat /\ h[n] \in Nat /\ h[n + 1] \in {FREE, USED}
      /\ h[n + 3] = NULL \/ h[n + 3] \in N
      /\ n + HDR + h[n] = IF h[n + 3] = NULL THEN WORDS ELSE h[n + 3]
      /\ h[n + 2] = NULL \/ (h[n + 2] \in Nat /\ h[n + 2] + HDR <= n)
  BY Zenon DEF Laid, size, status, prev, next
<1>2. /\ n + HDR + h[n] <= WORDS
      /\ \A m \in N : n < m => n + HDR + h[n] <= m /\ h[n + 3] # NULL
  BY Apart, Zenon DEF size, next
<1>3. \A m \in N : m \in Nat
  BY Zenon DEF Laid
<1>4. HDR = 4
  BY DEF HDR
<1> QED
  BY <1>1, <1>2, <1>3, <1>4, Zenon

\* The two parts of a split node are laid out as the one was...
LEMMA SplitLaid ==
  ASSUME NEW h, NEW g, NEW N, Laid(h, N), NEW n \in N, NEW a \in Nat, a + HDR <= h[n],
         IsSplit(h, g, N, n, a)
  PROVE  Laid(g, N \cup {n + HDR + a})
<1>0. HDR = 4
  BY DEF HDR
<1>1. PICK r : r = n + 4 + a
  BY Zenon
<1>2. /\ g[n] = a /\ g[n + 1] = h[n + 1] /\ g[n + 2] = h[n + 2] /\ g[n + 3] = r
      /\ g[r] = h[n] - a - 4 /\ g[r + 1] = FREE /\ g[r + 2] = n /\ g[r + 3] = h[n + 3]
  BY <1>0, <1>1, Zenon DEF IsSplit
<1>3. \A m \in N \ {n} :
        /\ g[m] = h[m] /\ g[m + 1] = h[m + 1] /\ g[m + 3] = h[m + 3]
        /\ g[m + 2] = h[m + 2] \/ (g[m + 2] = r /\ r + 4 <= m)
  BY <1>0, <1>1, Zenon DEF IsSplit
<1>4. /\ n \in Nat /\ h[n] \in Nat /\ h[n + 1] \in {FREE, USED}
      /\ n + 4 + h[n] <= WORDS /\ WORDS \in Nat
      /\ h[n + 3] = NULL => n + 4 + h[n] = WORDS
      /\ h[n + 3] # NULL => h[n + 3] \in N /\ h[n + 3] \in Nat /\ n + 4 + h[n] = h[n + 3]
      /\ h[n + 2] = NULL \/ (h[n + 2] \in Nat /\ h[n + 2] + 4 <= n)
  BY NodeIs, Room, Zenon
<1>5. r \in Nat /\ r # NULL /\ a + 4 <= h[n]
  BY <1>0, <1>1, <1>4 DEF NULL
<1> DEFINE M == N \cup {r}
           Good(m) ==
             /\ m \in Nat /\ m + 4 <= WORDS
             /\ g[m] \in Nat /\ g[m + 1] \in {FREE, USED}
             /\ g[m + 3] = NULL \/ g[m + 3] \in M
             /\ m + 4 + g[m] = IF g[m + 3] = NULL THEN WORDS ELSE g[m + 3]
             /\ g[m + 2] = NULL \/ (g[m + 2] \in Nat /\ g[m + 2] + 4 <= m)
<1>6. Good(n)
  BY <1>1, <1>2, <1>4, <1>5
<1>7. Good(r)
  <2>1. /\ g[r] \in Nat /\ r + 4 + g[r] = n + 4 + h[n] /\ r + 4 <= WORDS
        /\ g[r + 2] \in Nat /\ g[r + 2] + 4 <= r
    BY <1>1, <1>2, <1>4, <1>5
  <2> QED
    BY <1>2, <1>4, <1>5, <2>1, Zenon
<1>8. ASSUME NEW m \in N, m # n PROVE Good(m)
  <2>1. /\ m \in Nat /\ h[m] \in Nat /\ h[m + 1] \in {FREE, USED}
        /\ m + 4 + h[m] <= WORDS /\ WORDS \in Nat
        /\ h[m + 3] = NULL => m + 4 + h[m] = WORDS
        /\ h[m + 3] # NULL => h[m + 3] \in N /\ m + 4 + h[m] = h[m + 3]
        /\ h[m + 2] = NULL \/ (h[m + 2] \in Nat /\ h[m + 2] + 4 <= m)
    BY NodeIs, Room, Zenon
  <2>2. /\ g[m] = h[m] /\ g[m + 1] = h[m + 1] /\ g[m + 3] = h[m + 3]
        /\ g[m + 2] = h[m + 2] \/ (g[m + 2] = r /\ r + 4 <= m)
    BY <1>3, <1>8, Zenon
  <2>3. m + 4 <= WORDS
    BY <2>1
  <2> QED
    BY <1>5, <2>1, <2>2, <2>3, Zenon
<1>9. ASSUME NEW l \in M, NEW m \in M, l < m PROVE l + 4 + g[l] <= m
  <2>1. m \in N => m \in Nat /\ (n < m => n + 4 + h[n] <= m)
    BY NodeIs, Zenon
  <2>2. m = r \/ m \in N
    BY Zenon
  <2>3. CASE l = n
    BY <1>1, <1>2, <1>4, <1>5, <1>9, <2>1, <2>2, <2>3
  <2>4. CASE l = r
    BY <1>1, <1>2, <1>4, <1>5, <1>9, <2>1, <2>2, <2>4
  <2>5. CASE l \in N /\ l # n
    <3>1. /\ l \in Nat /\ h[l] \in Nat /\ g[l] = h[l]
          /\ l < n => l + 4 + h[l] <= n
          /\ n < l => n + 4 + h[n] <= l
          /\ m \in N => l + 4 + h[l] <= m
      BY <1>3, <1>9, <2>5, NodeIs, Zenon
    <3> QED
      BY <1>1, <1>4, <1>5, <1>9, <2>2, <2>5, <3>1
  <2> QED
    BY <2>3, <2>4, <2>5, Zenon
<1>10. 0 \in M
  BY Zenon DEF Laid
<1>11. \A m \in M : Good(m)
  <2> HIDE DEF Good
  <2> QED
    BY <1>6, <1>7, <1>8, Zenon
<1>12. n + HDR + a = r
  BY <1>0, <1>1, Zenon
<1>13. Laid(g, M)
  <2> HIDE DEF M
  <2> QED
    BY <1>0, <1>9, <1>10, <1>11, Zenon DEF Laid, size, status, prev, next
<1> QED
  BY <1>12, <1>13, Zenon

\* ... and the blocks stay in their nodes.
LEMMA SplitOwned ==
  ASSUME NEW h, NEW g, NEW N, Laid(h, N), NEW n \in N, NEW a \in Nat, a + HDR <= h[n],
         IsSplit(h, g, N, n, a), NEW bs, Owned(h, N, bs),
         \A b \in bs : b[1] = n + HDR => b[2] <= a
  PROVE  Owned(g, N \cup {n + HDR + a}, bs)
<1>0. HDR = 4
  BY DEF HDR
<1>1. PICK r : r = n + 4 + a
  BY Zenon
<1>2. g[n] = a /\ g[n + 1] = h[n + 1] /\ g[r + 1] = FREE
  BY <1>0, <1>1, Zenon DEF IsSplit
<1>3. \A m \in N \ {n} : g[m] = h[m] /\ g[m + 1] = h[m + 1]
  BY <1>0, <1>1, Zenon DEF IsSplit
<1>4. ASSUME NEW b \in bs
      PROVE  b[1] - 4 \in N /\ b[2] <= g[b[1] - 4] /\ g[b[1] - 4 + 1] = USED
  <2>1. b[1] - 4 \in N /\ b[2] <= h[b[1] - 4] /\ h[b[1] - 4 + 1] = USED /\ b[1] \in Int
    BY <1>0, Zenon DEF Owned, size, status
  <2>2. CASE b[1] - 4 = n
    <3>1. b[1] = n + 4
      BY <2>1, <2>2
    <3> QED
      BY <1>0, <1>2, <2>1, <2>2, <3>1, Zenon
  <2>3. CASE b[1] - 4 # n
    BY <1>3, <2>1, <2>3, Zenon
  <2> QED
    BY <2>2, <2>3, Zenon
<1>5. ASSUME NEW m \in N \cup {r}, g[m + 1] = USED PROVE \E b \in bs : b[1] = m + 4
  <2>1. m # r
    BY <1>2, <1>5 DEF FREE, USED
  <2>2. m \in N /\ h[m + 1] = USED
    BY <1>2, <1>3, <1>5, <2>1, Zenon
  <2> QED
    BY <1>0, <2>2, Zenon DEF Owned, status
<1>6. bs \subseteq Int \X Nat /\ \A b, d \in bs : b[1] = d[1] => b = d
  BY Zenon DEF Owned
<1> QED
  BY <1>0, <1>1, <1>4, <1>5, <1>6, Zenon DEF Owned, size, status

\* A node that takes in its next is laid out as the two were...
LEMMA JoinLaid ==
  ASSUME NEW h, NEW g, NEW N, Laid(h, N), NEW n \in N, h[n + 3] # NULL, IsJoin(h, g, N, n)
  PROVE  Laid(g, N \ {h[n + 3]})
<1>0. HDR = 4
  BY DEF HDR
<1>1. PICK m : m = h[n + 3]
  BY Zenon
<1>2. g[n] = h[n] + h[m] + 4 /\ g[n + 1] = h[n + 1] /\ g[n + 2] = h[n + 2] /\ g[n + 3] = h[m + 3]
  BY <1>0, <1>1, Zenon DEF IsJoin
<1>3. \A k \in N \ {n, m} :
        /\ g[k] = h[k] /\ g[k + 1] = h[k + 1] /\ g[k + 3] = h[k + 3]
        /\ g[k + 2] = h[k + 2] \/ (g[k + 2] = n /\ n + 4 <= k)
  BY <1>0, <1>1, Zenon DEF IsJoin
<1>4. /\ n \in Nat /\ h[n] \in Nat /\ h[n + 1] \in {FREE, USED}
      /\ m \in N /\ m \in Nat /\ n + 4 + h[n] = m
      /\ h[n + 2] = NULL \/ (h[n + 2] \in Nat /\ h[n + 2] + 4 <= n)
  BY <1>1, NodeIs, Zenon
<1>5. /\ h[m] \in Nat /\ m + 4 + h[m] <= WORDS /\ WORDS \in Nat
      /\ h[m + 3] = NULL => m + 4 + h[m] = WORDS
      /\ h[m + 3] # NULL => h[m + 3] \in N /\ h[m + 3] \in Nat /\ m + 4 + h[m] = h[m + 3]
  <2>1. m \in N
    BY <1>4, Zenon
  <2>2. WORDS \in Nat
    BY Room, Zenon
  <2>3. /\ h[m] \in Nat /\ m + 4 + h[m] <= WORDS
        /\ h[m + 3] = NULL => m + 4 + h[m] = WORDS
        /\ h[m + 3] # NULL => h[m + 3] \in N /\ h[m + 3] \in Nat /\ m + 4 + h[m] = h[m + 3]
    BY <2>1, NodeIs, Zenon
  <2> QED
    BY <2>2, <2>3, Zenon
<1> DEFINE M == N \ {m}
           Good(k) ==
             /\ k \in Nat /\ k + 4 <= WORDS
             /\ g[k] \in Nat /\ g[k + 1] \in {FREE, USED}
             /\ g[k + 3] = NULL \/ g[k + 3] \in M
             /\ k + 4 + g[k] = IF g[k + 3] = NULL THEN WORDS ELSE g[k + 3]
             /\ g[k + 2] = NULL \/ (g[k + 2] \in Nat /\ g[k + 2] + 4 <= k)
<1>6. Good(n)
  <2>1. /\ g[n] \in Nat /\ n + 4 + g[n] = m + 4 + h[m] /\ n + 4 <= WORDS
        /\ h[m + 3] # NULL => h[m + 3] # m
    BY <1>2, <1>4, <1>5
  <2> QED
    BY <1>2, <1>4, <1>5, <2>1, Zenon
<1>7. ASSUME NEW k \in N, k # n, k # m PROVE Good(k)
  <2>1. /\ k \in Nat /\ h[k] \in Nat /\ h[k + 1] \in {FREE, USED}
        /\ k + 4 + h[k] <= WORDS
        /\ h[k + 3] = NULL => k + 4 + h[k] = WORDS
        /\ h[k + 3] # NULL => h[k + 3] \in N /\ k + 4 + h[k] = h[k + 3]
        /\ h[k + 2] = NULL \/ (h[k + 2] \in Nat /\ h[k + 2] + 4 <= k)
        /\ k < n => k + 4 + h[k] <= n
        /\ m < k => m + 4 + h[m] <= k
        /\ n < k => n + 4 + h[n] <= k
    BY <1>4, NodeIs, Zenon
  <2>2. /\ g[k] = h[k] /\ g[k + 1] = h[k + 1] /\ g[k + 3] = h[k + 3]
        /\ g[k + 2] = h[k + 2] \/ (g[k + 2] = n /\ n + 4 <= k)
    BY <1>3, <1>7, Zenon
  <2>3. k + 4 <= WORDS /\ k + 4 + h[k] # m
    BY <1>4, <1>5, <1>7, <2>1
  <2> QED
    BY <1>4, <2>1, <2>2, <2>3, Zenon
<1>8. ASSUME NEW l \in M, NEW k \in M, l < k PROVE l + 4 + g[l] <= k
  <2>1. /\ l \in N /\ l \in Nat /\ l + 4 + h[l] <= k
        /\ k \in N /\ k \in Nat /\ (m < k => m + 4 + h[m] <= k) /\ k # m
    BY <1>4, <1>8, NodeIs, Zenon
  <2>2. CASE l = n
    BY <1>2, <1>4, <1>5, <1>8, <2>1, <2>2
  <2>3. CASE l # n
    BY <1>3, <2>1, <2>3, Zenon
  <2> QED
    BY <2>2, <2>3, Zenon
<1>9. 0 \in M
  <2>1. m # 0
    BY <1>4
  <2> QED
    BY <2>1, Zenon DEF Laid
<1>10. \A k \in M : Good(k)
  <2> HIDE DEF Good
  <2> QED
    BY <1>6, <1>7, Zenon
<1>11. Laid(g, M)
  <2> HIDE DEF M
  <2> QED
    BY <1>0, <1>8, <1>9, <1>10, Zenon DEF Laid, size, status, prev, next
<1> QED
  BY <1>1, <1>11, Zenon

\* ... and the blocks stay in their nodes if the next was free.
LEMMA JoinOwned ==
  ASSUME NEW h, NEW g, NEW N, Laid(h, N), NEW n \in N, h[n + 3] # NULL, IsJoin(h, g, N, n),
         NEW bs, Owned(h, N, bs), h[h[n + 3] + 1] = FREE
  PROVE  Owned(g, N \ {h[n + 3]}, bs)
<1>0. HDR = 4
  BY DEF HDR
<1>1. PICK m : m = h[n + 3]
  BY Zenon
<1>2. g[n] = h[n] + h[m] + 4 /\ g[n + 1] = h[n + 1] /\ h[m + 1] = FREE
  BY <1>0, <1>1, Zenon DEF IsJoin
<1>3. \A k \in N \ {n, m} : g[k] = h[k] /\ g[k + 1] = h[k + 1]
  BY <1>0, <1>1, Zenon DEF IsJoin
<1>4. n \in Nat /\ h[n] \in Nat /\ h[m] \in Nat /\ m \in N
  BY <1>1, NodeIs, Zenon
<1>5. ASSUME NEW b \in bs
      PROVE  b[1] - 4 \in N \ {m} /\ b[2] <= g[b[1] - 4] /\ g[b[1] - 4 + 1] = USED
  <2>1. b[1] - 4 \in N /\ b[2] <= h[b[1] - 4] /\ h[b[1] - 4 + 1] = USED /\ b[2] \in Nat
    BY <1>0, Zenon DEF Owned, size, status
  <2>2. b[1] - 4 # m
    BY <1>2, <2>1 DEF FREE, USED
  <2>3. CASE b[1] - 4 = n
    <3>1. b[2] <= h[n] + h[m] + 4
      BY <1>4, <2>1, <2>3
    <3> QED
      BY <1>2, <2>1, <2>2, <2>3, <3>1, Zenon
  <2>4. CASE b[1] - 4 # n
    BY <1>3, <2>1, <2>2, <2>4, Zenon
  <2> QED
    BY <2>3, <2>4, Zenon
<1>6. ASSUME NEW k \in N \ {m}, g[k + 1] = USED PROVE \E b \in bs : b[1] = k + 4
  <2>1. h[k + 1] = USED
    BY <1>2, <1>3, <1>6, Zenon
  <2> QED
    BY <1>0, <2>1, Zenon DEF Owned, status
<1>7. bs \subseteq Int \X Nat /\ \A b, d \in bs : b[1] = d[1] => b = d
  BY Zenon DEF Owned
<1> QED
  BY <1>0, <1>1, <1>5, <1>6, <1>7, Zenon DEF Owned, size, status

\* The headers of the nodes are words of the area, and no two of them overlap.
LEMMA HeadersOff ==
  ASSUME NEW h, NEW N, Laid(h, N), NEW n \in N, NEW m \in N, n # m
  PROVE  n \in Nat /\ m \in Nat /\ (n + 4 <= m \/ m + 4 <= n)
<1>1. /\ n \in Nat /\ h[n] \in Nat /\ m \in Nat /\ h[m] \in Nat
      /\ n < m => n + 4 + h[n] <= m
      /\ m < n => m + 4 + h[m] <= n
  BY NodeIs, Zenon
<1> QED
  BY <1>1

\* A node keeps off the words of every other.
LEMMA HeadersApart ==
  ASSUME NEW h, NEW N, Laid(h, N), NEW n \in N
  PROVE  /\ n \in Nat
         /\ n \in Addresses /\ n + 1 \in Addresses /\ n + 2 \in Addresses /\ n + 3 \in Addresses
         /\ \A m \in N : m \in Nat /\ (m = n \/ m + 4 + h[m] <= n \/ n + 4 + h[n] <= m)
<1>1. n \in Nat /\ h[n] \in Nat /\ n + 4 + h[n] <= WORDS /\ WORDS \in Nat
  BY NodeIs, Room, Zenon
<1>2. \A m \in N : m \in Nat /\ (n < m => n + 4 + h[n] <= m) /\ (m < n => m + 4 + h[m] <= n)
  BY NodeIs, Zenon
<1>3. n \in Addresses /\ n + 1 \in Addresses /\ n + 2 \in Addresses /\ n + 3 \in Addresses
  BY <1>1 DEF Addresses
<1>4. ASSUME NEW m \in N PROVE m \in Nat /\ (m = n \/ m + 4 + h[m] <= n \/ n + 4 + h[n] <= m)
  <2>1. m \in Nat /\ (m = n \/ m < n \/ n < m)
    BY <1>1, <1>2
  <2> QED
    BY <1>2, <2>1, Zenon
<1> QED
  BY <1>1, <1>3, <1>4, Zenon

\* The headers of N are those of h but for what status says, ...
HeadersKept(h, g, N) ==
  \A m \in N : /\ g[m] = h[m] /\ g[m + 1] \in {FREE, USED}
               /\ g[m + 2] = h[m + 2] /\ g[m + 3] = h[m + 3]

\* ... or all its words but the status of n.
Marked(h, g, n) ==
  /\ g \in [Addresses -> Int]
  /\ g[n + 1] = FREE \/ g[n + 1] = USED
  /\ \A w \in Addresses : w # n + 1 => g[w] = h[w]

\* The sizes are those of h, and every status but that of n.
StatusKept(h, g, N, n) == \A m \in N : g[m] = h[m] /\ (m # n => g[m + 1] = h[m + 1])

\* The layout is a matter of the headers alone...
LEMMA LaidKeeps ==
  ASSUME NEW h, NEW g, NEW N, Laid(h, N), HeadersKept(h, g, N)
  PROVE  Laid(g, N)
  BY Zenon DEF HeadersKept, Laid, size, status, prev, next

\* ... and the owners of the nodes one of sizes and statuses.
LEMMA OwnedKeeps ==
  ASSUME NEW h, NEW g, NEW N, NEW bs, Owned(h, N, bs),
         \A m \in N : g[m] = h[m] /\ g[m + 1] = h[m + 1]
  PROVE  Owned(g, N, bs)
  BY Zenon DEF Owned, size, status

\* What the caller writes into its block.
LEMMA FilledSound ==
  ASSUME NEW h, NEW N, NEW bs, Sound(h, N, bs), NEW n \in N, NEW sz \in Nat, sz <= h[n]
  PROVE  Sound(Filled(h, n + HDR, sz), N, bs)
<1> DEFINE g == Filled(h, n + HDR, sz)
<1>0. h \in [Addresses -> Int] /\ Laid(h, N) /\ Owned(h, N, bs)
  BY Zenon DEF Sound
<1>1. g = [w \in Addresses |-> IF n + 4 <= w /\ w < n + 4 + sz THEN -2 ELSE h[w]]
  BY DEF Filled, HDR, DATA
<1>2. g \in [Addresses -> Int]
  BY <1>0, <1>1
<1>3. ASSUME NEW m \in N
      PROVE  g[m] = h[m] /\ g[m + 1] = h[m + 1] /\ g[m + 2] = h[m + 2] /\ g[m + 3] = h[m + 3]
  <2>1. /\ m \in Nat /\ n \in Nat
        /\ m \in Addresses /\ m + 1 \in Addresses /\ m + 2 \in Addresses /\ m + 3 \in Addresses
        /\ m = n \/ m + 4 + h[m] <= n \/ n + 4 + h[n] <= m
    BY <1>0, HeadersApart, Zenon
  <2>2. h[m] \in Nat /\ h[n] \in Nat /\ h[m + 1] \in {FREE, USED}
    BY <1>0, NodeIs, Zenon
  <2>3. ASSUME NEW w \in Addresses, w \in {m, m + 1, m + 2, m + 3} PROVE g[w] = h[w]
    <3>1. ~(n + 4 <= w /\ w < n + 4 + sz)
      BY <2>1, <2>2, <2>3
    <3> HIDE DEF g
    <3> QED
      BY <1>1, <3>1, Zenon
  <2> HIDE DEF g
  <2> QED
    BY <2>1, <2>3, Zenon
<1>4. \A m \in N : h[m + 1] \in {FREE, USED}
  BY <1>0, NodeIs, Zenon
<1> HIDE DEF g
<1>7. HeadersKept(h, g, N)
  BY <1>3, <1>4, Zenon DEF HeadersKept
<1>5. Laid(g, N)
  BY <1>0, <1>7, LaidKeeps, Zenon
<1>6. Owned(g, N, bs)
  BY <1>0, <1>3, OwnedKeeps, Zenon
<1> QED
  BY <1>2, <1>5, <1>6, Zenon DEF Sound, g

\* The change of the status of a node.
LEMMA MarkedIs ==
  ASSUME NEW h, NEW N, Laid(h, N), NEW n \in N,
         NEW g, Marked(h, g, n)
  PROVE  Laid(g, N) /\ StatusKept(h, g, N, n)
<1>1. n \in Nat /\ n + 1 \in Addresses
  BY HeadersApart, Zenon
<1>4. ASSUME NEW m \in N
      PROVE  /\ g[m] = h[m] /\ (m # n => g[m + 1] = h[m + 1])
             /\ g[m + 2] = h[m + 2] /\ g[m + 3] = h[m + 3]
  <2>1. /\ m \in Nat
        /\ m \in Addresses /\ m + 1 \in Addresses /\ m + 2 \in Addresses /\ m + 3 \in Addresses
        /\ m = n \/ m + 4 + h[m] <= n \/ n + 4 + h[n] <= m
    BY HeadersApart, Zenon
  <2>2. h[m] \in Nat /\ h[n] \in Nat
    BY NodeIs, Zenon
  <2>3. m # n + 1 /\ (m # n => m + 1 # n + 1) /\ m + 2 # n + 1 /\ m + 3 # n + 1
    BY <1>1, <2>1, <2>2
  <2> QED
    BY <2>1, <2>3, Zenon DEF Marked
<1>5. HeadersKept(h, g, N)
  <2>1. \A m \in N : h[m + 1] \in {FREE, USED}
    BY NodeIs, Zenon
  <2> QED
    BY <1>4, <2>1, Zenon DEF HeadersKept, Marked
<1>6. Laid(g, N)
  BY <1>5, LaidKeeps, Zenon
<1> QED
  BY <1>4, <1>6, Zenon DEF StatusKept

\* A free node becomes that of a new block...
LEMMA UsedSound ==
  ASSUME NEW h, NEW N, NEW bs, Sound(h, N, bs), NEW n \in N, h[n + 1] = FREE,
         NEW sz \in Nat, sz <= h[n]
  PROVE  Sound([h EXCEPT ![n + 1] = USED], N, bs \cup {<<n + HDR, sz>>})
<1>0. HDR = 4
  BY DEF HDR
<1>1. h \in [Addresses -> Int] /\ Laid(h, N) /\ Owned(h, N, bs)
  BY Zenon DEF Sound
<1>10. PICK g : g = [h EXCEPT ![n + 1] = USED]
  BY Zenon
<1>11. PICK b0 : b0 = <<n + 4, sz>>
  BY Zenon
<1> DEFINE cs == bs \cup {b0}
<1>2. /\ g \in [Addresses -> Int] /\ Laid(g, N) /\ g[n + 1] = USED
      /\ \A m \in N : g[m] = h[m] /\ (m # n => g[m + 1] = h[m + 1])
  <2>1. n \in Nat /\ n + 1 \in Addresses
    BY <1>1, HeadersApart, Zenon
  <2>2. g \in [Addresses -> Int] /\ g[n + 1] = USED
    BY <1>1, <1>10, <2>1 DEF USED
  <2>3. Marked(h, g, n)
    <3>1. \A w \in Addresses : w # n + 1 => g[w] = h[w]
      BY <1>1, <1>10, <2>1, Zenon
    <3> QED
      BY <2>2, <3>1, Zenon DEF Marked
  <2>4. Laid(g, N) /\ StatusKept(h, g, N, n)
    BY <1>1, <2>3, MarkedIs, Zenon
  <2> QED
    BY <2>2, <2>4, Zenon DEF StatusKept
<1>3. n \in Nat
  BY <1>1, NodeIs, Zenon
<1>4. b0[1] - 4 = n /\ b0[1] = n + 4 /\ b0[2] = sz
  BY <1>3, <1>11
<1>12. b0 \in Int \X Nat
  BY <1>3, <1>11
<1>5. \A b \in bs :
        b[1] - 4 \in N /\ b[2] <= h[b[1] - 4] /\ h[b[1] - 4 + 1] = USED /\ b[1] - 4 # n
  <2>1. FREE # USED
    BY DEF FREE, USED
  <2> QED
    BY <1>0, <1>1, <2>1, Zenon DEF Owned, size, status
<1>6. ASSUME NEW b \in cs
      PROVE  b[1] - 4 \in N /\ b[2] <= g[b[1] - 4] /\ g[b[1] - 4 + 1] = USED
  <2>1. CASE b \in bs
    <3>1. b[1] - 4 \in N /\ b[2] <= h[b[1] - 4] /\ h[b[1] - 4 + 1] = USED /\ b[1] - 4 # n
      BY <1>5, <2>1, Zenon
    <3> QED
      BY <1>2, <3>1, Zenon
  <2>2. CASE b = b0
    <3>1. b[1] - 4 = n /\ b[2] = sz
      BY <1>4, <2>2, Zenon
    <3> QED
      BY <1>2, <3>1, Zenon
  <2> QED
    BY <2>1, <2>2, Zenon
<1>7. cs \subseteq Int \X Nat /\ \A b, d \in cs : b[1] = d[1] => b = d
  <2>1. bs \subseteq Int \X Nat /\ \A b, d \in bs : b[1] = d[1] => b = d
    BY <1>1, Zenon DEF Owned
  <2>2. \A b \in bs : b[1] # b0[1]
    BY <1>4, <1>5, Zenon
  <2> QED
    BY <1>12, <2>1, <2>2, Zenon
<1>8. ASSUME NEW m \in N, g[m + 1] = USED PROVE \E b \in cs : b[1] = m + 4
  <2>1. CASE m = n
    BY <1>4, <2>1, Zenon
  <2>2. CASE m # n
    BY <1>0, <1>1, <1>2, <1>8, <2>2, Zenon DEF Owned, status
  <2> QED
    BY <2>1, <2>2, Zenon
<1> HIDE DEF cs
<1>9. Owned(g, N, cs)
  BY <1>0, <1>6, <1>7, <1>8, Zenon DEF Owned, size, status
<1> QED
  BY <1>0, <1>2, <1>9, <1>10, <1>11, Zenon DEF Sound, cs

\* ... and the node of a block a free one.
LEMMA ReleasedSound ==
  ASSUME NEW h, NEW N, NEW bs, Sound(h, N, bs), NEW b0 \in bs
  PROVE  /\ b0[1] - HDR \in N /\ b0[1] - HDR \in Nat
         /\ Sound([h EXCEPT ![b0[1] - HDR + 1] = FREE], N, bs \ {b0})
<1>0. HDR = 4
  BY DEF HDR
<1>1. h \in [Addresses -> Int] /\ Laid(h, N) /\ Owned(h, N, bs)
  BY Zenon DEF Sound
<1>2. PICK n : n = b0[1] - 4
  BY Zenon
<1>3. n \in N /\ n \in Nat /\ b0[1] \in Int
  BY <1>0, <1>1, <1>2, NodeIs, Zenon DEF Owned
<1>10. PICK g : g = [h EXCEPT ![n + 1] = FREE]
  BY Zenon
<1> DEFINE cs == bs \ {b0}
<1>4. /\ g \in [Addresses -> Int] /\ Laid(g, N) /\ g[n + 1] = FREE
      /\ \A m \in N : g[m] = h[m] /\ (m # n => g[m + 1] = h[m + 1])
  <2>1. n \in Nat /\ n + 1 \in Addresses
    BY <1>1, <1>3, HeadersApart, Zenon
  <2>2. g \in [Addresses -> Int] /\ g[n + 1] = FREE
    BY <1>1, <1>10, <2>1 DEF FREE
  <2>3. Marked(h, g, n)
    <3>1. \A w \in Addresses : w # n + 1 => g[w] = h[w]
      BY <1>1, <1>10, <2>1, Zenon
    <3> QED
      BY <2>2, <3>1, Zenon DEF Marked
  <2>4. Laid(g, N) /\ StatusKept(h, g, N, n)
    BY <1>1, <1>3, <2>3, MarkedIs, Zenon
  <2> QED
    BY <2>2, <2>4, Zenon DEF StatusKept
<1>5. ASSUME NEW b \in cs
      PROVE  b[1] - 4 \in N /\ b[2] <= g[b[1] - 4] /\ g[b[1] - 4 + 1] = USED
  <2>1. /\ b[1] - 4 \in N /\ b[2] <= h[b[1] - 4] /\ h[b[1] - 4 + 1] = USED
        /\ b[1] # b0[1] /\ b[1] \in Int
    BY <1>0, <1>1, Zenon DEF Owned, size, status
  <2>2. b[1] - 4 # n
    BY <1>2, <1>3, <2>1
  <2> QED
    BY <1>4, <2>1, <2>2, Zenon
<1>6. cs \subseteq Int \X Nat /\ \A b, d \in cs : b[1] = d[1] => b = d
  BY <1>1, Zenon DEF Owned
<1>7. ASSUME NEW m \in N, g[m + 1] = USED PROVE \E b \in cs : b[1] = m + 4
  <2>1. m # n
    BY <1>4, <1>7 DEF FREE, USED
  <2>2. PICK b \in bs : b[1] = m + 4
    BY <1>0, <1>1, <1>4, <1>7, <2>1, Zenon DEF Owned, status
  <2>3. m \in Nat
    BY <1>1, NodeIs, Zenon
  <2>4. b # b0
    BY <1>2, <1>3, <2>1, <2>2, <2>3
  <2> QED
    BY <2>2, <2>4, Zenon DEF StatusKept
<1> HIDE DEF cs
<1>8. Owned(g, N, cs)
  BY <1>0, <1>5, <1>6, <1>7, Zenon DEF Owned, size, status
<1> QED
  BY <1>0, <1>2, <1>3, <1>4, <1>8, <1>10, Zenon DEF Sound, cs

\* A block gets another size that its node has room for.
LEMMA ResizedOwned ==
  ASSUME NEW h, NEW N, NEW bs, Owned(h, N, bs), NEW b0 \in bs, NEW sz \in Nat,
         sz <= h[b0[1] - HDR]
  PROVE  Owned(h, N, (bs \ {b0}) \cup {<<b0[1], sz>>})
<1> DEFINE d0 == <<b0[1], sz>>
           cs == (bs \ {b0}) \cup {d0}
<1>1. b0[1] \in Int /\ b0[1] - HDR \in N /\ status(h, b0[1] - HDR) = USED
  BY Zenon DEF Owned
<1>2. d0[1] = b0[1] /\ d0[2] = sz /\ d0 \in Int \X Nat
  BY <1>1
<1> HIDE DEF d0
<1>3. \A b \in cs : b[1] - HDR \in N /\ b[2] <= h[b[1] - HDR] /\ status(h, b[1] - HDR) = USED
  BY <1>1, <1>2, Zenon DEF Owned, size
<1>4. cs \subseteq Int \X Nat /\ \A b, d \in cs : b[1] = d[1] => b = d
  BY <1>2, Zenon DEF Owned
<1>5. \A m \in N : status(h, m) = USED => \E b \in cs : b[1] = m + HDR
  <2>1. \A m \in N : status(h, m) = USED => \E b \in bs : b[1] = m + HDR
    BY Zenon DEF Owned
  <2> QED
    BY <1>2, <2>1, Zenon
<1> HIDE DEF cs
<1>6. Owned(h, N, cs)
  BY <1>3, <1>4, <1>5, Zenon DEF Owned, size
<1> QED
  BY <1>6, Zenon DEF cs, d0

-----------------------------------------------------------------------------
(* The calls.                                                              *)

\* What lies before the node n is as in h.
LeftKept(h, g, N, M, n) ==
  /\ g[n + 1] = h[n + 1] /\ g[n + 2] = h[n + 2]
  /\ \A w \in Addresses : w < n => g[w] = h[w]
  /\ \A q \in N : q < n => q \in M

\* The words that a join of n with the node behind it writes...
JoinWords(h, g, n) ==
  LET m == h[n + 3]
      q == h[m + 3]
  IN  /\ g \in [Addresses -> Int]
      /\ g[n] = h[n] + h[m] + 4 /\ g[n + 3] = q
      /\ q # NULL => g[q + 2] = h[q + 2] \/ g[q + 2] = n
      /\ \A w \in Addresses : w # n /\ w # n + 3 /\ (q = NULL \/ w # q + 2) => g[w] = h[w]

\* The writes by which merge_right joins two nodes keep the heap sound...
LEMMA JoinSound ==
  ASSUME NEW h, NEW N, NEW bs, Sound(h, N, bs), NEW n \in N, h[n + 3] # NULL,
         h[h[n + 3] + 1] = FREE, NEW g, JoinWords(h, g, n)
  PROVE  /\ Sound(g, N \ {h[n + 3]}, bs) /\ n \in N \ {h[n + 3]}
         /\ LeftKept(h, g, N, N \ {h[n + 3]}, n)
<1>0. h \in [Addresses -> Int] /\ Laid(h, N) /\ Owned(h, N, bs)
  BY Zenon DEF Sound
<1>1. PICK m : m = h[n + 3]
  BY Zenon
<1>2. PICK q : q = h[m + 3]
  BY Zenon
<1>3. n \in Nat /\ h[n] \in Nat /\ m \in N /\ m \in Nat /\ n + 4 + h[n] = m
  BY <1>0, <1>1, NodeIs, Zenon
<1>4. n \in Addresses /\ n + 1 \in Addresses /\ n + 2 \in Addresses /\ n + 3 \in Addresses
  BY <1>0, HeadersApart, Zenon
<1>5. h[m] \in Nat /\ (q # NULL => q \in N /\ q \in Nat /\ m + 4 + h[m] = q)
  <2>1. m \in N /\ Laid(h, N)
    BY <1>0, <1>3, Zenon
  <2> QED
    BY <1>2, <2>1, NodeIs, Zenon
<1>6. /\ g \in [Addresses -> Int] /\ g[n] = h[n] + h[m] + 4 /\ g[n + 3] = q
      /\ q # NULL => g[q + 2] = h[q + 2] \/ g[q + 2] = n
  BY <1>1, <1>2, Zenon DEF JoinWords
<1>7. \A w \in Addresses : w # n /\ w # n + 3 /\ (q = NULL \/ w # q + 2) => g[w] = h[w]
  BY <1>1, <1>2, Zenon DEF JoinWords
<1>8. g[n + 1] = h[n + 1] /\ g[n + 2] = h[n + 2]
  <2>1. /\ n + 1 # n /\ n + 1 # n + 3 /\ (q = NULL \/ n + 1 # q + 2)
        /\ n + 2 # n /\ n + 2 # n + 3 /\ (q = NULL \/ n + 2 # q + 2)
    BY <1>3, <1>5
  <2> QED
    BY <1>4, <1>7, <2>1, Zenon
<1>9. ASSUME NEW k \in N, k # n, k # m
      PROVE  /\ g[k] = h[k] /\ g[k + 1] = h[k + 1] /\ g[k + 3] = h[k + 3]
             /\ g[k + 2] = h[k + 2] \/ (g[k + 2] = n /\ n + 4 <= k)
  <2>1. /\ k \in Nat
        /\ k \in Addresses /\ k + 1 \in Addresses /\ k + 2 \in Addresses /\ k + 3 \in Addresses
    BY <1>0, HeadersApart, Zenon
  <2>2. k + 4 <= n \/ n + 4 <= k
    BY <1>0, <1>9, HeadersOff, Zenon
  <2>3. q # NULL /\ k # q => k + 4 <= q \/ q + 4 <= k
    BY <1>0, <1>5, HeadersOff, Zenon
  <2>4. /\ k # n /\ k + 1 # n /\ k + 2 # n /\ k + 3 # n
        /\ k # n + 3 /\ k + 1 # n + 3 /\ k + 2 # n + 3 /\ k + 3 # n + 3
    BY <1>3, <2>1, <2>2
  <2>5. q # NULL => k # q + 2 /\ k + 1 # q + 2 /\ (k # q => k + 2 # q + 2) /\ k + 3 # q + 2
    BY <1>5, <2>1, <2>3
  <2>6. q # NULL /\ k = q => n + 4 <= k
    BY <1>3, <1>5
  <2>7. g[k] = h[k] /\ g[k + 1] = h[k + 1] /\ g[k + 3] = h[k + 3]
    BY <1>7, <2>1, <2>4, <2>5, Zenon
  <2>8. CASE q # NULL /\ k = q
    BY <1>6, <2>6, <2>7, <2>8, Zenon
  <2>9. CASE ~(q # NULL /\ k = q)
    BY <1>7, <2>1, <2>4, <2>5, <2>7, <2>9, Zenon
  <2> QED
    BY <2>8, <2>9, Zenon
<1>10. IsJoin(h, g, N, n)
  <2>1. HDR = 4
    BY DEF HDR
  <2> QED
    BY <1>1, <1>2, <1>6, <1>8, <1>9, <2>1, Zenon DEF IsJoin
<1>11. Sound(g, N \ {m}, bs)
  BY <1>0, <1>1, <1>6, <1>10, JoinLaid, JoinOwned, Zenon DEF Sound
<1>12. n \in N \ {m}
  BY <1>3
<1>13. LeftKept(h, g, N, N \ {m}, n)
  <2>1. ASSUME NEW w \in Addresses, w < n PROVE g[w] = h[w]
    <3>1. w # n /\ w # n + 3 /\ (q = NULL \/ w # q + 2)
      BY <1>3, <1>5, <2>1 DEF Addresses
    <3> QED
      BY <1>7, <3>1, Zenon
  <2>2. ~(m < n)
    BY <1>3
  <2> QED
    BY <1>8, <2>1, <2>2, Zenon DEF LeftKept
<1> QED
  BY <1>1, <1>11, <1>12, <1>13, Zenon

\* ... so merge_right does, whichever of its conditions fail.
LEMMA MergeRightSound ==
  ASSUME NEW h, NEW N, NEW bs, Sound(h, N, bs), NEW n \in N
  PROVE  \E M : /\ Sound(merge_right(h, n), M, bs) /\ n \in M
                /\ LeftKept(h, merge_right(h, n), N, M, n)
<1>0. h \in [Addresses -> Int] /\ Laid(h, N) /\ Owned(h, N, bs)
  BY Zenon DEF Sound
<1>1. PICK m : m = h[n + 3]
  BY Zenon
<1> DEFINE Merges == m # NULL /\ h[m + 1] = FREE /\ n + HDR + h[n] = m
<1>2. CASE ~Merges
  <2>1. merge_right(h, n) = h
    BY <1>1, <1>2, Zenon DEF merge_right, size, status, next
  <2> QED
    BY <2>1, Zenon DEF LeftKept
<1>3. CASE Merges
  <2>1. PICK q : q = h[m + 3]
    BY Zenon
  <2>2. PICK h1 : h1 = IF q # NULL THEN [h EXCEPT ![q + 2] = n] ELSE h
    BY Zenon
  <2>3. PICK g : g = [h1 EXCEPT ![n + 3] = q, ![n] = @ + h[m] + HDR]
    BY Zenon
  <2>4. merge_right(h, n) = g
    BY <1>1, <1>3, <2>1, <2>2, <2>3, Zenon DEF merge_right, size, status, next
  <2>5. /\ n \in Nat /\ h[n] \in Nat /\ m \in N /\ m \in Nat /\ n + 4 + h[n] = m
        /\ n \in Addresses /\ n + 3 \in Addresses
    <3>1. m # NULL
      BY <1>3, Zenon
    <3>2. n \in Nat /\ h[n] \in Nat /\ m \in N /\ m \in Nat /\ n + 4 + h[n] = m
      BY <1>0, <1>1, <3>1, NodeIs, Zenon
    <3>3. n \in Addresses /\ n + 3 \in Addresses
      BY <1>0, HeadersApart, Zenon
    <3> QED
      BY <3>2, <3>3, Zenon
  <2>6. /\ h[m] \in Nat
        /\ q # NULL => q \in N /\ q \in Nat /\ m + 4 + h[m] = q
    <3>1. m \in N /\ Laid(h, N)
      BY <1>0, <2>5, Zenon
    <3> QED
      BY <2>1, <3>1, NodeIs, Zenon
  <2>7. q # NULL => q + 2 \in Addresses
    BY <1>0, <2>6, HeadersApart, Zenon
  <2>8. /\ h1 \in [Addresses -> Int]
        /\ q # NULL => h1[q + 2] = n
        /\ \A w \in Addresses : (q = NULL \/ w # q + 2) => h1[w] = h[w]
    <3>1. CASE q = NULL
      BY <1>0, <2>2, <3>1, Zenon
    <3>2. CASE q # NULL
      <4>1. h1 = [h EXCEPT ![q + 2] = n]
        BY <2>2, <3>2, Zenon
      <4> QED
        BY <1>0, <2>5, <2>7, <3>2, <4>1, SMT
    <3> QED
      BY <3>1, <3>2, Zenon
  <2>9. h1[n] = h[n] /\ q \in Int /\ (q # NULL => q + 2 # n /\ q + 2 # n + 3)
    <3>1. q # NULL => n # q + 2 /\ q + 2 # n + 3
      BY <2>5, <2>6
    <3>2. q \in Int
      BY <2>6 DEF NULL
    <3> QED
      BY <2>5, <2>8, <3>1, <3>2, Zenon
  <2>10. /\ g \in [Addresses -> Int]
         /\ g[n] = h[n] + h[m] + 4 /\ g[n + 3] = q
         /\ \A w \in Addresses : w # n /\ w # n + 3 => g[w] = h1[w]
    BY <2>3, <2>5, <2>6, <2>8, <2>9, SMT DEF HDR
  <2>11. \A w \in Addresses : w # n /\ w # n + 3 /\ (q = NULL \/ w # q + 2) => g[w] = h[w]
    BY <2>8, <2>10, Zenon
  <2>12. q # NULL => g[q + 2] = n
    BY <2>7, <2>8, <2>9, <2>10, Zenon
  <2>13. JoinWords(h, g, n)
    BY <1>1, <2>1, <2>10, <2>11, <2>12, Zenon DEF JoinWords
  <2>14. h[n + 3] # NULL /\ h[h[n + 3] + 1] = FREE
    BY <1>1, <1>3, Zenon
  <2> QED
    BY <2>4, <2>13, <2>14, JoinSound, Zenon
<1> QED
  BY <1>2, <1>3, Zenon

\* The words that a split of n writes.
SplitWords(h, g, n, a) ==
  LET r == n + 4 + a
      q == h[n + 3]
  IN  /\ g \in [Addresses -> Int]
      /\ g[n] = a /\ g[n + 3] = r
      /\ g[r] = h[n] - a - 4 /\ g[r + 1] = FREE /\ g[r + 2] = n /\ g[r + 3] = q
      /\ q # NULL => g[q + 2] = h[q + 2] \/ g[q + 2] = r
      /\ \A w \in Addresses :
           w # n /\ w # n + 3 /\ ~(r <= w /\ w <= r + 3) /\ (q = NULL \/ w # q + 2) => g[w] = h[w]

\* The writes that split a node whose block is short enough keep the heap sound.
LEMMA SplitSound ==
  ASSUME NEW h, NEW N, NEW bs, Sound(h, N, bs), NEW n \in N, NEW a \in Nat, a + 4 <= h[n],
         \A b \in bs : b[1] = n + HDR => b[2] <= a,
         NEW g, SplitWords(h, g, n, a)
  PROVE  Sound(g, N \cup {n + 4 + a}, bs)
<1>0. h \in [Addresses -> Int] /\ Laid(h, N) /\ Owned(h, N, bs)
  BY Zenon DEF Sound
<1>1. PICK r : r = n + 4 + a
  BY Zenon
<1>2. PICK q : q = h[n + 3]
  BY Zenon
<1>3. n \in Nat /\ h[n] \in Nat /\ (q # NULL => q \in N /\ q \in Nat /\ n + 4 + h[n] = q)
  BY <1>0, <1>2, NodeIs, Zenon
<1>4. n + 1 \in Addresses /\ n + 2 \in Addresses
  BY <1>0, HeadersApart, Zenon
<1>5. /\ g \in [Addresses -> Int] /\ g[n] = a /\ g[n + 3] = r
      /\ g[r] = h[n] - a - 4 /\ g[r + 1] = FREE /\ g[r + 2] = n /\ g[r + 3] = q
      /\ q # NULL => g[q + 2] = h[q + 2] \/ g[q + 2] = r
  BY <1>1, <1>2, Zenon DEF SplitWords
<1>6. \A w \in Addresses :
        w # n /\ w # n + 3 /\ ~(r <= w /\ w <= r + 3) /\ (q = NULL \/ w # q + 2) => g[w] = h[w]
  BY <1>1, <1>2, Zenon DEF SplitWords
<1>7. g[n + 1] = h[n + 1] /\ g[n + 2] = h[n + 2]
  <2>1. /\ n + 1 # n /\ n + 1 # n + 3 /\ ~(r <= n + 1) /\ (q = NULL \/ n + 1 # q + 2)
        /\ n + 2 # n /\ n + 2 # n + 3 /\ ~(r <= n + 2) /\ (q = NULL \/ n + 2 # q + 2)
    BY <1>1, <1>3
  <2> QED
    BY <1>4, <1>6, <2>1, Zenon
<1>8. ASSUME NEW k \in N, k # n
      PROVE  /\ g[k] = h[k] /\ g[k + 1] = h[k + 1] /\ g[k + 3] = h[k + 3]
             /\ g[k + 2] = h[k + 2] \/ (g[k + 2] = r /\ r + 4 <= k)
  <2>1. /\ k \in Nat
        /\ k \in Addresses /\ k + 1 \in Addresses /\ k + 2 \in Addresses /\ k + 3 \in Addresses
    BY <1>0, HeadersApart, Zenon
  <2>2. (k + 4 + h[k] <= n \/ n + 4 + h[n] <= k) /\ h[k] \in Nat
    <3>1. k + 4 + h[k] <= n \/ n + 4 + h[n] <= k
      BY <1>0, <1>8, HeadersApart, Zenon
    <3>2. h[k] \in Nat
      BY <1>0, NodeIs, Zenon
    <3> QED
      BY <3>1, <3>2, Zenon
  <2>3. q # NULL /\ k # q => k + 4 <= q \/ q + 4 <= k
    BY <1>0, <1>3, HeadersOff, Zenon
  <2>4. k + 4 <= n \/ r + 4 <= k
    BY <1>1, <1>3, <2>1, <2>2
  <2>5. /\ k # n /\ k + 1 # n /\ k + 2 # n /\ k + 3 # n
        /\ k # n + 3 /\ k + 1 # n + 3 /\ k + 2 # n + 3 /\ k + 3 # n + 3
    BY <1>1, <1>3, <2>1, <2>4
  <2>6. /\ ~(r <= k /\ k <= r + 3) /\ ~(r <= k + 1 /\ k + 1 <= r + 3)
        /\ ~(r <= k + 2 /\ k + 2 <= r + 3) /\ ~(r <= k + 3 /\ k + 3 <= r + 3)
    BY <1>1, <1>3, <2>1, <2>4
  <2>7. q # NULL => k # q + 2 /\ k + 1 # q + 2 /\ (k # q => k + 2 # q + 2) /\ k + 3 # q + 2
    BY <1>3, <2>1, <2>3
  <2>8. g[k] = h[k] /\ g[k + 1] = h[k + 1] /\ g[k + 3] = h[k + 3]
    BY <1>6, <2>1, <2>5, <2>6, <2>7, Zenon
  <2>9. q # NULL /\ k = q => r + 4 <= k
    BY <1>1, <1>3
  <2>10. CASE q # NULL /\ k = q
    BY <1>5, <2>8, <2>9, <2>10, Zenon
  <2>11. CASE ~(q # NULL /\ k = q)
    BY <1>6, <2>1, <2>5, <2>6, <2>7, <2>8, <2>11, Zenon
  <2> QED
    BY <2>10, <2>11, Zenon
<1>9. HDR = 4
  BY DEF HDR
<1>10. IsSplit(h, g, N, n, a) /\ a + HDR <= h[n]
  BY <1>1, <1>2, <1>5, <1>7, <1>8, <1>9, Zenon DEF IsSplit
<1>11. Laid(g, N \cup {n + HDR + a})
  BY <1>0, <1>10, SplitLaid, Zenon
<1>12. Owned(g, N \cup {n + HDR + a}, bs)
  BY <1>0, <1>10, SplitOwned, Zenon
<1> QED
  BY <1>5, <1>9, <1>11, <1>12, Zenon DEF Sound

\* f is h with a header at r.
HeaderAt(h, f, r, sz, st, pv, nx) ==
  /\ f \in [Addresses -> Int]
  /\ f[r] = sz /\ f[r + 1] = st /\ f[r + 2] = pv /\ f[r + 3] = nx
  /\ \A w \in Addresses : ~(r <= w /\ w <= r + 3) => f[w] = h[w]

\* What is where a header was written.
LEMMA HeaderIs ==
  ASSUME NEW h \in [Addresses -> Int], NEW r \in Nat, r + 4 <= WORDS,
         NEW sz \in Int, NEW st \in Int, NEW pv \in Int, NEW nx \in Int
  PROVE  HeaderAt(h, Header(h, r, sz, st, pv, nx), r, sz, st, pv, nx)
<1>0. PICK f : f = Header(h, r, sz, st, pv, nx)
  BY Zenon
<1>1. r \in Addresses /\ r + 1 \in Addresses /\ r + 2 \in Addresses /\ r + 3 \in Addresses
  BY Room DEF Addresses
<1>2. f = [h EXCEPT ![r] = sz, ![r + 1] = st, ![r + 2] = pv, ![r + 3] = nx]
  BY <1>0, Zenon DEF Header
<1>3. f \in [Addresses -> Int]
  BY <1>1, <1>2
<1>4. f[r] = sz /\ f[r + 1] = st /\ f[r + 2] = pv /\ f[r + 3] = nx
  BY <1>1, <1>2
<1>5. ASSUME NEW w \in Addresses, ~(r <= w /\ w <= r + 3) PROVE f[w] = h[w]
  <2>1. w # r /\ w # r + 1 /\ w # r + 2 /\ w # r + 3
    BY <1>5 DEF Addresses
  <2> QED
    BY <1>2, <2>1
<1> QED
  BY <1>0, <1>3, <1>4, <1>5, Zenon DEF HeaderAt

\* What alloc does to the heap.
LEMMA TakeSound ==
  ASSUME NEW h, NEW N, NEW bs, Sound(h, N, bs), NEW n \in N, NEW sz \in Nat, Fits(h, n, sz)
  PROVE  \E M : /\ Sound(Take(h, n, sz), M, bs \cup {<<n + HDR, sz>>}) /\ n \in M
                /\ sz <= Take(h, n, sz)[n]
<1>0. h \in [Addresses -> Int] /\ Laid(h, N) /\ Owned(h, N, bs)
  BY Zenon DEF Sound
<1>1. PICK q : q = h[n + 3]
  BY Zenon
<1>2. /\ n \in Nat /\ h[n] \in Nat /\ h[n + 1] \in {FREE, USED} /\ n + 4 + h[n] <= WORDS
      /\ q # NULL => q \in N /\ q \in Nat /\ n + 4 + h[n] = q
  BY <1>0, <1>1, NodeIs, Zenon
<1>3. h[n + 1] = FREE
  BY <1>2, Zenon DEF Fits, status
<1>4. sz <= h[n]
  <2>1. ~(h[n] < sz)
    BY Zenon DEF Fits, size
  <2> QED
    BY <1>2, <2>1
<1>5. n \in Addresses /\ n + 1 \in Addresses /\ n + 3 \in Addresses
  BY <1>0, HeadersApart, Zenon
<1>6. PICK h1, M : /\ Sound(h1, M, bs) /\ n \in M /\ h1[n + 1] = FREE /\ sz <= h1[n]
                   /\ Take(h, n, sz) = [h1 EXCEPT ![n + 1] = USED]
  <2>1. CASE ~(h[n] > sz + HDR)
    <3>1. Take(h, n, sz) = [h EXCEPT ![n + 1] = USED]
      BY <2>1, Zenon DEF Take, size
    <3> QED
      BY <1>3, <1>4, <3>1, Zenon
  <2>2. CASE h[n] > sz + HDR
    <3>1. PICK r \in Nat : r = n + HDR + sz /\ r = n + 4 + sz
      BY <1>2 DEF HDR
    <3>2. PICK s \in Int : s = h[n] - sz - HDR /\ s = h[n] - sz - 4
      BY <1>2 DEF HDR
    <3>3. PICK f : f = Header(h, r, s, FREE, n, q)
      BY Zenon
    <3>4. PICK h1 : h1 = [f EXCEPT ![n + 3] = r, ![n] = sz]
      BY Zenon
    <3>5. Take(h, n, sz) = [h1 EXCEPT ![n + 1] = USED]
      BY <1>1, <2>2, <3>1, <3>2, <3>3, <3>4, Zenon DEF Take, size, next
    <3>6. /\ f \in [Addresses -> Int]
          /\ f[r] = s /\ f[r + 1] = FREE /\ f[r + 2] = n /\ f[r + 3] = q
          /\ \A w \in Addresses : ~(r <= w /\ w <= r + 3) => f[w] = h[w]
      <4>1. FREE \in Int /\ n \in Int /\ q \in Int
        BY <1>2 DEF FREE, NULL
      <4>2. r + 4 <= WORDS
        BY <1>2, <2>2, <3>1, Room DEF HDR
      <4>3. QED
        <5>1. HeaderAt(h, Header(h, r, s, FREE, n, q), r, s, FREE, n, q)
          BY <1>0, <4>1, <4>2, HeaderIs, Zenon
        <5> QED
          BY <3>3, <5>1, Zenon DEF HeaderAt
    <3>7. /\ h1 \in [Addresses -> Int] /\ h1[n] = sz /\ h1[n + 3] = r
          /\ \A w \in Addresses : w # n /\ w # n + 3 => h1[w] = f[w]
      BY <1>2, <1>5, <3>4, <3>6
    <3>8. /\ r \in Addresses /\ r + 1 \in Addresses /\ r + 2 \in Addresses /\ r + 3 \in Addresses
          /\ r # n /\ r + 1 # n /\ r + 2 # n /\ r + 3 # n
          /\ r # n + 3 /\ r + 1 # n + 3 /\ r + 2 # n + 3 /\ r + 3 # n + 3
      BY <1>2, <2>2, <3>1, Room DEF Addresses, HDR
    <3>9. h1[r] = s /\ h1[r + 1] = FREE /\ h1[r + 2] = n /\ h1[r + 3] = q
      BY <3>6, <3>7, <3>8, Zenon
    <3>10. \A w \in Addresses : w # n /\ w # n + 3 /\ ~(r <= w /\ w <= r + 3) => h1[w] = h[w]
      BY <3>6, <3>7, Zenon
    <3>11. q # NULL => h1[q + 2] = h[q + 2]
      <4>1. q # NULL => q + 2 \in Addresses
        BY <1>0, <1>2, HeadersApart, Zenon
      <4>2. q # NULL => q + 2 # n /\ q + 2 # n + 3 /\ ~(q + 2 <= r + 3)
        BY <1>2, <2>2, <3>1 DEF HDR
      <4> QED
        BY <3>10, <4>1, <4>2, Zenon
    <3>12. SplitWords(h, h1, n, sz)
      BY <1>1, <3>1, <3>2, <3>7, <3>9, <3>10, <3>11, Zenon DEF SplitWords
    <3>13. sz + 4 <= h[n]
      BY <1>2, <2>2 DEF HDR
    <3>14. \A b \in bs : b[1] # n + HDR
      <4>1. \A b \in bs : b[1] \in Int /\ h[b[1] - HDR + 1] = USED
        BY <1>0, Zenon DEF Owned, status
      <4>2. ASSUME NEW b \in bs, b[1] = n + HDR PROVE FALSE
        <5>1. b[1] - HDR = n
          BY <1>2, <4>2 DEF HDR
        <5>2. FREE = USED
          BY <1>3, <4>1, <5>1, Zenon
        <5> QED
          BY <5>2 DEF FREE, USED
      <4> QED
        BY <4>2, Zenon
    <3>15. Sound(h1, N \cup {n + 4 + sz}, bs)
      BY <3>12, <3>13, <3>14, SplitSound, Zenon
    <3>16. h1[n + 1] = FREE
      <4>1. n + 1 # n /\ n + 1 # n + 3 /\ ~(r <= n + 1)
        BY <1>2, <3>1
      <4> QED
        BY <1>3, <1>5, <3>10, <4>1, Zenon
    <3>17. sz <= h1[n]
      BY <3>7
    <3> QED
      BY <3>5, <3>15, <3>16, <3>17, Zenon
  <2> QED
    BY <2>1, <2>2, Zenon
<1>7. Sound(Take(h, n, sz), M, bs \cup {<<n + HDR, sz>>})
  <2>1. Sound(h1, M, bs) /\ n \in M /\ h1[n + 1] = FREE /\ sz <= h1[n]
    BY <1>6, Zenon
  <2>2. Sound([h1 EXCEPT ![n + 1] = USED], M, bs \cup {<<n + HDR, sz>>})
    BY <2>1, UsedSound, Zenon
  <2> QED
    BY <1>6, <2>2, Zenon
<1>8. Take(h, n, sz)[n] = h1[n]
  <2>1. n # n + 1 /\ h1 \in [Addresses -> Int]
    BY <1>2, <1>6 DEF Sound
  <2> QED
    BY <1>5, <1>6, <2>1, SMT
<1> QED
  BY <1>6, <1>7, <1>8, Zenon

\* What free does to the heap of a caller whose left node is intact.
LEMMA FreeSound ==
  ASSUME NEW h, NEW N, NEW bs, Sound(h, N, bs), NEW b0 \in bs, NEW cs,
         LeftIntact(h, cs, b0[1] - HDR), ~FreeFaults(h, b0[1] - HDR)
  PROVE  \E M : Sound(free(h, b0[1] - HDR), M, bs \ {b0})
<1>0. h \in [Addresses -> Int] /\ Laid(h, N) /\ Owned(h, N, bs)
  BY Zenon DEF Sound
<1>1. PICK n : n = b0[1] - HDR
  BY Zenon
<1>2. PICK h0 : h0 = [h EXCEPT ![n + 1] = FREE]
  BY Zenon
<1>3. n \in N /\ n \in Nat /\ Sound(h0, N, bs \ {b0})
  <2>1. /\ b0[1] - HDR \in N /\ b0[1] - HDR \in Nat
        /\ Sound([h EXCEPT ![b0[1] - HDR + 1] = FREE], N, bs \ {b0})
    BY ReleasedSound, Zenon
  <2> QED
    BY <1>1, <1>2, <2>1, Zenon
<1>4. h[n + 1] = USED
  BY <1>0, <1>1, Zenon DEF Owned, status
<1>5. n \in Addresses /\ n + 1 \in Addresses /\ n + 2 \in Addresses
  BY <1>0, <1>3, HeadersApart, Zenon
<1>6. /\ h0 \in [Addresses -> Int] /\ h0[n + 1] = FREE /\ h0[n + 2] = h[n + 2]
      /\ \A w \in Addresses : w < n => h0[w] = h[w]
  <2>1. h0 \in [Addresses -> Int]
    BY <1>3, Zenon DEF Sound
  <2>2. h0[n + 1] = FREE /\ \A w \in Addresses : w # n + 1 => h0[w] = h[w]
    BY <1>0, <1>2, <1>5, Zenon
  <2>3. n + 2 # n + 1 /\ \A w \in Addresses : w < n => w # n + 1
    BY <1>3 DEF Addresses
  <2> QED
    BY <1>5, <2>1, <2>2, <2>3, Zenon
<1>7. PICK h1, M : /\ h1 = Freed(h, n) /\ Sound(h1, M, bs \ {b0}) /\ n \in M
                   /\ LeftKept(h0, h1, N, M, n)
  <2>1. \E M : /\ Sound(merge_right(h0, n), M, bs \ {b0}) /\ n \in M
               /\ LeftKept(h0, merge_right(h0, n), N, M, n)
    BY <1>3, MergeRightSound, Zenon
  <2>2. Freed(h, n) = merge_right(h0, n)
    BY <1>2, Zenon DEF Freed
  <2> QED
    BY <2>1, <2>2, Zenon
<1>8. /\ h1[n + 1] = FREE /\ h1[n + 2] = h[n + 2]
      /\ \A w \in Addresses : w < n => h1[w] = h[w]
      /\ \A q \in N : q < n => q \in M
  BY <1>6, <1>7, Zenon DEF LeftKept
<1>9. CASE ~MergesLeft(h1, n)
  <2>1. free(h, n) = h1
    BY <1>4, <1>7, <1>9, Zenon DEF free, status
  <2> QED
    BY <1>1, <1>7, <2>1, Zenon
<1>10. CASE MergesLeft(h1, n)
  <2>1. PICK p : p = h[n + 2]
    BY Zenon
  <2>2. p # NULL /\ h1[p + 1] = FREE /\ p + h1[p] + HDR = n
    BY <1>8, <1>10, <2>1, Zenon DEF MergesLeft, prev, status, size
  <2>3. p \in Nat /\ p + 4 <= n
    BY <1>0, <1>3, <2>1, <2>2, NodeIs, Zenon
  <2>4. p \in Addresses /\ p < n /\ p + 3 \in Addresses
    BY <1>3, <1>5, <2>3, Room DEF Addresses
  <2>5. h1[p] = h[p] /\ h1[p] \in Int
    BY <1>0, <1>8, <2>4, Zenon
  <2>6. p \in N
    <3>1. p + HDR + h[p] = n
      BY <2>2, <2>3, <2>5 DEF HDR
    <3>2. p \in Nodes(h)
      BY <1>1, <2>1, <2>2, <3>1, Zenon DEF LeftIntact, prev, size
    <3> QED
      BY <1>0, <3>2, NodesAre, Zenon
  <2>7. h1 \in [Addresses -> Int] /\ Laid(h1, M) /\ p \in M
    BY <1>7, <1>8, <2>4, <2>6, Zenon DEF Sound
  <2>8. PICK q : q = h1[n + 3]
    BY Zenon
  <2>9. q # NULL
    BY <1>1, <1>4, <1>7, <1>10, <2>8, Zenon DEF FreeFaults, status, next
  <2>10. q \in M /\ q \in Nat /\ n + 4 + h1[n] = q /\ h1[n] \in Nat
    BY <1>7, <2>7, <2>8, <2>9, NodeIs, Zenon
  <2>11. h1[p] \in Nat /\ h1[p + 3] = n
    <3>1. /\ h1[p] \in Nat
          /\ p < n => h1[p + 3] # NULL
          /\ h1[p + 3] # NULL => p + 4 + h1[p] = h1[p + 3]
      BY <1>7, <2>7, NodeIs, Zenon
    <3>2. h1[p + 3] = p + 4 + h1[p]
      BY <2>4, <3>1, Zenon
    <3> QED
      BY <2>2, <2>3, <3>1, <3>2 DEF HDR
  <2>12. q + 2 \in Addresses
    <3>1. q \in M /\ Laid(h1, M)
      BY <2>7, <2>10, Zenon
    <3> QED
      BY <3>1, HeadersApart, Zenon
  <2>13. PICK g : g = [[h1 EXCEPT ![p + 3] = q] EXCEPT ![q + 2] = p, ![p] = @ + h1[n] + HDR]
    BY Zenon
  <2>14. free(h, n) = g
    <3>1. free(h, n) = merge_left(h1, n)
      BY <1>4, <1>7, <1>10, Zenon DEF free, status
    <3>2. merge_left(h1, n) = g
      BY <1>8, <2>1, <2>8, <2>9, <2>13, Zenon DEF merge_left, prev, next, size
    <3> QED
      BY <3>1, <3>2, Zenon
  <2>15. JoinWords(h1, g, p)
    <3>1. p # p + 3 /\ p # q + 2 /\ p + 3 # q + 2
      BY <1>3, <2>3, <2>10
    <3>2. PICK f : f = [h1 EXCEPT ![p + 3] = q]
      BY Zenon
    <3>3. /\ f \in [Addresses -> Int] /\ f[p] = h1[p] /\ f[p + 3] = q
          /\ \A w \in Addresses : w # p + 3 => f[w] = h1[w]
      BY <2>4, <2>7, <2>10, <3>1, <3>2, SMT
    <3>4. g = [f EXCEPT ![q + 2] = p, ![p] = @ + h1[n] + HDR]
      BY <2>13, <3>2, Zenon
    <3>5. /\ g \in [Addresses -> Int] /\ g[p] = h1[p] + h1[n] + 4 /\ g[q + 2] = p
          /\ \A w \in Addresses : w # p /\ w # q + 2 => g[w] = f[w]
      BY <2>3, <2>4, <2>10, <2>11, <2>12, <3>1, <3>3, <3>4, SMT DEF HDR
    <3>6. g[p + 3] = q
      BY <2>3, <2>4, <3>1, <3>3, <3>5, Zenon
    <3>7. \A w \in Addresses : w # p /\ w # p + 3 /\ w # q + 2 => g[w] = h1[w]
      BY <3>3, <3>5, Zenon
    <3> QED
      BY <2>8, <2>9, <2>11, <3>5, <3>6, <3>7, Zenon DEF JoinWords
  <2>16. h1[p + 3] # NULL /\ h1[h1[p + 3] + 1] = FREE
    <3>1. n # NULL
      BY <1>3 DEF NULL
    <3> QED
      BY <1>8, <2>11, <3>1, Zenon
  <2>17. Sound(g, M \ {h1[p + 3]}, bs \ {b0})
    BY <1>7, <2>7, <2>15, <2>16, JoinSound, Zenon
  <2> QED
    BY <1>1, <2>14, <2>17, Zenon
<1> QED
  BY <1>9, <1>10, Zenon

\* A block of n is no longer than a.
NoLonger(bs, n, a) == \A b \in bs : b[1] = n + HDR => b[2] <= a

\* What realloc does to a block that gets shorter by a header or more...
LEMMA ShrunkSound ==
  ASSUME NEW h, NEW N, NEW bs, Sound(h, N, bs), NEW n \in N, NEW sz \in Nat, sz + 4 <= h[n],
         NoLonger(bs, n, sz)
  PROVE  \E M : Sound(Shrunk(h, n, sz), M, bs) /\ n \in M /\ sz <= Shrunk(h, n, sz)[n]
<1>0. h \in [Addresses -> Int] /\ Laid(h, N) /\ Owned(h, N, bs)
  BY Zenon DEF Sound
<1>1. PICK q : q = h[n + 3]
  BY Zenon
<1>2. /\ n \in Nat /\ h[n] \in Nat /\ n + 4 + h[n] <= WORDS
      /\ q # NULL => q \in N /\ q \in Nat /\ n + 4 + h[n] = q
  BY <1>0, <1>1, NodeIs, Zenon
<1>3. n \in Addresses /\ n + 3 \in Addresses
  BY <1>0, HeadersApart, Zenon
<1>4. PICK r \in Nat : r = n + HDR + sz /\ r = n + 4 + sz
  BY <1>2 DEF HDR
<1>5. PICK s \in Int : s = h[n] - sz - HDR /\ s = h[n] - sz - 4
  BY <1>2 DEF HDR
<1>6. PICK h1 : h1 = Header(h, r, s, FREE, n, q)
  BY Zenon
<1>7. PICK h2 : h2 = IF q # NULL THEN [h1 EXCEPT ![q + 2] = r] ELSE h1
  BY Zenon
<1>8. PICK h3 : h3 = [h2 EXCEPT ![n] = sz, ![n + 3] = r]
  BY Zenon
<1>9. Shrunk(h, n, sz) = merge_right(h3, r)
  BY <1>1, <1>4, <1>5, <1>6, <1>7, <1>8, Zenon DEF Shrunk, size, next
<1>10. /\ h1 \in [Addresses -> Int]
       /\ h1[r] = s /\ h1[r + 1] = FREE /\ h1[r + 2] = n /\ h1[r + 3] = q
       /\ \A w \in Addresses : ~(r <= w /\ w <= r + 3) => h1[w] = h[w]
  <2>1. FREE \in Int /\ n \in Int /\ q \in Int
    BY <1>2 DEF FREE, NULL
  <2>2. r + 4 <= WORDS
    BY <1>2, <1>4, Room
  <2>3. HeaderAt(h, Header(h, r, s, FREE, n, q), r, s, FREE, n, q)
    BY <1>0, <2>1, <2>2, HeaderIs, Zenon
  <2> QED
    BY <1>6, <2>3, Zenon DEF HeaderAt
<1>11. q # NULL => q + 2 \in Addresses
  BY <1>0, <1>2, HeadersApart, Zenon
<1>12. /\ h2 \in [Addresses -> Int]
       /\ q # NULL => h2[q + 2] = r
       /\ \A w \in Addresses : (q = NULL \/ w # q + 2) => h2[w] = h1[w]
  <2>1. CASE q = NULL
    BY <1>7, <1>10, <2>1, Zenon
  <2>2. CASE q # NULL
    <3>1. h2 = [h1 EXCEPT ![q + 2] = r]
      BY <1>7, <2>2, Zenon
    <3> QED
      BY <1>10, <1>11, <2>2, <3>1, SMT
  <2> QED
    BY <2>1, <2>2, Zenon
<1>13. /\ h3 \in [Addresses -> Int] /\ h3[n] = sz /\ h3[n + 3] = r
       /\ \A w \in Addresses : w # n /\ w # n + 3 => h3[w] = h2[w]
  BY <1>2, <1>3, <1>8, <1>12, SMT
<1>14. /\ r \in Addresses /\ r + 1 \in Addresses /\ r + 2 \in Addresses /\ r + 3 \in Addresses
       /\ r # n /\ r + 1 # n /\ r + 2 # n /\ r + 3 # n
       /\ r # n + 3 /\ r + 1 # n + 3 /\ r + 2 # n + 3 /\ r + 3 # n + 3
  BY <1>2, <1>4, Room DEF Addresses
<1>15. q # NULL => /\ q + 2 # n /\ q + 2 # n + 3
                   /\ q + 2 # r /\ q + 2 # r + 1 /\ q + 2 # r + 2 /\ q + 2 # r + 3
  BY <1>2, <1>4
<1>16. h3[r] = s /\ h3[r + 1] = FREE /\ h3[r + 2] = n /\ h3[r + 3] = q
  <2>1. \A w \in Addresses : w # n /\ w # n + 3 /\ (q = NULL \/ w # q + 2) => h3[w] = h1[w]
    BY <1>12, <1>13, Zenon
  <2> QED
    BY <1>10, <1>14, <1>15, <2>1, Zenon
<1>17. \A w \in Addresses :
         w # n /\ w # n + 3 /\ ~(r <= w /\ w <= r + 3) /\ (q = NULL \/ w # q + 2) => h3[w] = h[w]
  BY <1>10, <1>12, <1>13, Zenon
<1>18. q # NULL => h3[q + 2] = r
  BY <1>11, <1>12, <1>13, <1>15, Zenon
<1>19. SplitWords(h, h3, n, sz)
  <2>1. r = n + 4 + sz /\ h3[r] = h[n] - sz - 4
    BY <1>4, <1>5, <1>16, Zenon
  <2> QED
    BY <1>1, <1>13, <1>16, <1>17, <1>18, <2>1, Zenon DEF SplitWords
<1>20. Sound(h3, N \cup {r}, bs)
  <2>1. r = n + 4 + sz
    BY <1>4, Zenon
  <2>2. Sound(h3, N \cup {n + 4 + sz}, bs)
    BY <1>19, SplitSound, Zenon DEF NoLonger
  <2> QED
    BY <2>1, <2>2, Zenon
<1>21. r \in N \cup {r}
  BY Zenon
<1>22. PICK M : /\ Sound(merge_right(h3, r), M, bs)
                /\ LeftKept(h3, merge_right(h3, r), N \cup {r}, M, r)
  BY <1>20, <1>21, MergeRightSound, Zenon
<1>23. n < r /\ sz <= sz
  BY <1>2, <1>4
<1>24. n \in M /\ merge_right(h3, r)[n] = sz
  BY <1>3, <1>13, <1>22, <1>23, Zenon DEF LeftKept
<1> QED
  BY <1>9, <1>22, <1>23, <1>24, Zenon

\* Grown write by write, with the node m behind n and the place r of its new header given.
GrownSize(h, n, m, r, sz) == [h EXCEPT ![r] = h[n] + h[m] - sz]
GrownNext(h, m, r) == [h EXCEPT ![r + 3] = h[m + 3]]
GrownLinks(h, n, r, sz) == [h EXCEPT ![r + 2] = n, ![n + 3] = r, ![n] = sz]
GrownPrev(h, r) == IF h[r + 3] # NULL THEN [h EXCEPT ![h[r + 3] + 2] = r] ELSE h
GrownAt(h, n, m, r, sz) ==
  GrownPrev(GrownLinks(GrownNext(GrownSize([h EXCEPT ![r + 1] = FREE], n, m, r, sz), m, r),
                       n, r, sz), r)

\* ... and to one that grows in place.
LEMMA GrownSound ==
  ASSUME NEW h, NEW N, NEW bs, Sound(h, N, bs), NEW b0 \in bs, NEW n, n = b0[1] - HDR,
         NEW sz \in Nat, CanGrow(h, n, sz), sz = h[n] \/ sz >= h[n] + 4
  PROVE  \E M : /\ Sound(Grown(h, n, sz), M, (bs \ {b0}) \cup {<<b0[1], sz>>}) /\ n \in M
                /\ sz <= Grown(h, n, sz)[n]
<1>0. h \in [Addresses -> Int] /\ Laid(h, N) /\ Owned(h, N, bs)
  BY Zenon DEF Sound
<1>1. n \in N /\ b0[1] \in Int
  BY <1>0, Zenon DEF Owned
<1>2. PICK m : m = h[n + 3]
  BY Zenon
<1>3. m # NULL /\ h[m + 1] = FREE /\ h[m] + h[n] >= sz
  BY <1>2, Zenon DEF CanGrow, size, status, next
<1>4. n \in Nat /\ h[n] \in Nat /\ m \in N /\ m \in Nat /\ n + 4 + h[n] = m
  <2>1. Laid(h, N) /\ n \in N /\ m # NULL
    BY <1>0, <1>1, <1>3, Zenon
  <2> QED
    BY <1>2, <2>1, NodeIs, Zenon
<1>5. PICK q : q = h[m + 3]
  BY Zenon
<1>6. /\ h[m] \in Nat /\ m + 4 + h[m] <= WORDS /\ q \in Int
      /\ q # NULL => q \in N /\ q \in Nat /\ m + 4 + h[m] = q
  <2>1. /\ h[m] \in Nat /\ m + 4 + h[m] <= WORDS
        /\ q # NULL => q \in N /\ q \in Nat /\ m + 4 + h[m] = q
    <3>1. m \in N /\ Laid(h, N)
      BY <1>0, <1>4, Zenon
    <3> QED
      BY <1>5, <3>1, NodeIs, Zenon
  <2>2. q \in Int
    BY <2>1 DEF NULL
  <2> QED
    BY <2>1, <2>2, Zenon
<1>7. n \in Addresses /\ n + 3 \in Addresses /\ m \in Addresses /\ m + 3 \in Addresses
  <2>1. m \in N /\ Laid(h, N)
    BY <1>0, <1>4, Zenon
  <2>2. m \in Addresses /\ m + 3 \in Addresses
    BY <2>1, HeadersApart, Zenon
  <2>3. n \in Addresses /\ n + 3 \in Addresses
    BY <1>4, <1>6, Room DEF Addresses
  <2> QED
    BY <2>2, <2>3, Zenon
<1>8. PICK r \in Nat : r = n + HDR + sz /\ r = n + 4 + sz
  BY <1>4 DEF HDR
<1>9. /\ r = m \/ r >= m + 4
      /\ r + 4 <= m + 4 + h[m]
      /\ r \in Addresses /\ r + 1 \in Addresses /\ r + 2 \in Addresses /\ r + 3 \in Addresses
  <2>1. (r = m \/ r >= m + 4) /\ r + 4 <= m + 4 + h[m]
    BY <1>3, <1>4, <1>6, <1>8
  <2> QED
    BY <1>4, <1>6, <2>1, Room DEF Addresses
\* The heap with the two nodes joined.
<1>10. PICK j : j = [h EXCEPT ![n] = h[n] + h[m] + 4, ![n + 3] = q]
  BY Zenon
<1>11. /\ j \in [Addresses -> Int] /\ j[n] = h[n] + h[m] + 4 /\ j[n + 3] = q
       /\ \A w \in Addresses : w # n /\ w # n + 3 => j[w] = h[w]
  BY <1>0, <1>4, <1>6, <1>7, <1>10, SMT
<1>12. Sound(j, N \ {m}, bs) /\ n \in N \ {m}
  <2>1. q # NULL => j[q + 2] = h[q + 2]
    <3>1. q # NULL => q + 2 \in Addresses
      BY <1>0, <1>6, HeadersApart, Zenon
    <3>2. q # NULL => q + 2 # n /\ q + 2 # n + 3
      BY <1>4, <1>6
    <3> QED
      BY <1>11, <3>1, <3>2, Zenon
  <2>2. JoinWords(h, j, n)
    BY <1>2, <1>5, <1>11, <2>1, Zenon DEF JoinWords
  <2>3. h[n + 3] # NULL /\ h[h[n + 3] + 1] = FREE
    BY <1>2, <1>3, Zenon
  <2> QED
    BY <1>1, <1>2, <2>2, <2>3, JoinSound, Zenon
<1>13. PICK cs : cs = (bs \ {b0}) \cup {<<b0[1], sz>>}
  BY Zenon
<1>14. Sound(j, N \ {m}, cs)
  <2>1. sz <= j[n]
    BY <1>3, <1>4, <1>6, <1>11
  <2>2. Owned(j, N \ {m}, bs) /\ sz <= j[b0[1] - HDR]
    BY <1>12, <2>1, Zenon DEF Sound
  <2>3. Owned(j, N \ {m}, (bs \ {b0}) \cup {<<b0[1], sz>>})
    BY <2>2, ResizedOwned, Zenon
  <2> QED
    BY <1>12, <1>13, <2>3, Zenon DEF Sound
\* realloc's writes.
<1>15. PICK h1 : h1 = [h EXCEPT ![r + 1] = FREE]
  BY Zenon
<1>16. PICK h2 : h2 = [h1 EXCEPT ![r] = h1[n] + h1[m] - sz]
  BY Zenon
<1>17. PICK h3 : h3 = [h2 EXCEPT ![r + 3] = h2[m + 3]]
  BY Zenon
<1>18. PICK h4 : h4 = [h3 EXCEPT ![r + 2] = n, ![n + 3] = r, ![n] = sz]
  BY Zenon
<1>19. PICK g : g = IF h4[r + 3] # NULL THEN [h4 EXCEPT ![h4[r + 3] + 2] = r] ELSE h4
  BY Zenon
<1>20. Grown(h, n, sz) = g
  <2>1. r = n + HDR + sz /\ m = next(h, n)
    BY <1>2, <1>8, Zenon DEF next
  <2>2. Grown(h, n, sz) = GrownAt(h, n, next(h, n), n + HDR + sz, sz)
    BY Zenon DEF Grown, GrownAt, GrownSize, GrownNext, GrownLinks, GrownPrev, size, next
  <2>3. Grown(h, n, sz) = GrownAt(h, n, m, r, sz)
    BY <2>1, <2>2, Zenon
  <2>4. GrownAt(h, n, m, r, sz) = g
    <3>1. h2 = GrownSize(h1, n, m, r, sz)
      BY <1>16, Zenon DEF GrownSize
    <3>2. h3 = GrownNext(h2, m, r)
      BY <1>17, Zenon DEF GrownNext
    <3>3. h4 = GrownLinks(h3, n, r, sz)
      BY <1>18, Zenon DEF GrownLinks
    <3>4. g = GrownPrev(h4, r)
      BY <1>19, Zenon DEF GrownPrev
    <3> QED
      BY <1>15, <3>1, <3>2, <3>3, <3>4, Zenon DEF GrownAt
  <2> QED
    BY <2>3, <2>4, Zenon
<1>21. /\ h1 \in [Addresses -> Int] /\ h1[n] = h[n] /\ h1[m] = h[m] /\ h1[m + 3] = q
       /\ h1[r + 1] = FREE
       /\ \A w \in Addresses : w # r + 1 => h1[w] = h[w]
  <2>1. n # r + 1 /\ m # r + 1 /\ m + 3 # r + 1
    BY <1>4, <1>8, <1>9
  <2>2. FREE \in Int
    BY DEF FREE
  <2>3. h1 \in [Addresses -> Int] /\ h1[r + 1] = FREE
    BY <1>0, <1>9, <1>15, <2>2, SMT
  <2>4. \A w \in Addresses : w # r + 1 => h1[w] = h[w]
    BY <1>0, <1>9, <1>15, Zenon
  <2> QED
    BY <1>5, <1>7, <2>1, <2>3, <2>4, Zenon
<1>22. PICK s \in Int : s = h1[n] + h1[m] - sz /\ s = h[n] + h[m] - sz
  BY <1>4, <1>6, <1>21
<1>23. /\ h2 \in [Addresses -> Int] /\ h2[r] = s /\ h2[r + 1] = FREE /\ h2[m + 3] = q
       /\ \A w \in Addresses : w # r /\ w # r + 1 => h2[w] = h[w]
  <2>1. h2 = [h1 EXCEPT ![r] = s]
    BY <1>16, <1>22, Zenon
  <2>2. r + 1 # r /\ m + 3 # r
    BY <1>4, <1>8, <1>9
  <2>3. h2 \in [Addresses -> Int] /\ h2[r] = s
    BY <1>9, <1>21, <2>1, SMT
  <2>4. \A w \in Addresses : w # r => h2[w] = h1[w]
    BY <1>9, <1>21, <2>1, Zenon
  <2> QED
    BY <1>7, <1>9, <1>21, <2>2, <2>3, <2>4, Zenon
<1>24. /\ h3 \in [Addresses -> Int] /\ h3[r] = s /\ h3[r + 1] = FREE /\ h3[r + 3] = q
       /\ \A w \in Addresses : w # r /\ w # r + 1 /\ w # r + 3 => h3[w] = h[w]
  <2>1. h3 = [h2 EXCEPT ![r + 3] = q]
    BY <1>17, <1>23, Zenon
  <2>2. r # r + 3 /\ r + 1 # r + 3
    BY <1>9
  <2>3. h3 \in [Addresses -> Int] /\ h3[r + 3] = q
    BY <1>6, <1>9, <1>23, <2>1, SMT
  <2>4. \A w \in Addresses : w # r + 3 => h3[w] = h2[w]
    BY <1>9, <1>23, <2>1, Zenon
  <2> QED
    BY <1>9, <1>23, <2>2, <2>3, <2>4, Zenon
<1>25. /\ h4 \in [Addresses -> Int] /\ h4[r + 2] = n /\ h4[n + 3] = r /\ h4[n] = sz
       /\ \A w \in Addresses : w # r + 2 /\ w # n + 3 /\ w # n => h4[w] = h3[w]
  <2>1. r + 2 # n + 3 /\ r + 2 # n /\ n + 3 # n
    BY <1>4, <1>8
  <2> QED
    BY <1>4, <1>7, <1>9, <1>18, <1>24, <2>1, SMT
<1>26. /\ h4[r] = s /\ h4[r + 1] = FREE /\ h4[r + 3] = q
       /\ \A w \in Addresses : w # n /\ w # n + 3 /\ ~(r <= w /\ w <= r + 3) => h4[w] = h[w]
  <2>1. /\ r # r + 2 /\ r # n + 3 /\ r # n /\ r + 1 # r + 2 /\ r + 1 # n + 3 /\ r + 1 # n
        /\ r + 3 # r + 2 /\ r + 3 # n + 3 /\ r + 3 # n
    BY <1>4, <1>8
  <2>2. \A w \in Addresses :
          ~(r <= w /\ w <= r + 3) => w # r /\ w # r + 1 /\ w # r + 2 /\ w # r + 3
    BY DEF Addresses
  <2> QED
    BY <1>9, <1>24, <1>25, <2>1, <2>2, Zenon
<1>27. /\ g \in [Addresses -> Int]
       /\ q # NULL => g[q + 2] = r
       /\ \A w \in Addresses : (q = NULL \/ w # q + 2) => g[w] = h4[w]
  <2>1. CASE q = NULL
    BY <1>19, <1>25, <1>26, <2>1, Zenon
  <2>2. CASE q # NULL
    <3>1. g = [h4 EXCEPT ![q + 2] = r]
      BY <1>19, <1>26, <2>2, Zenon
    <3>2. q + 2 \in Addresses
      BY <1>0, <1>6, <2>2, HeadersApart, Zenon
    <3> QED
      BY <1>25, <2>2, <3>1, <3>2, SMT
  <2> QED
    BY <2>1, <2>2, Zenon
<1>28. q # NULL => /\ n # q + 2 /\ n + 3 # q + 2
                   /\ r # q + 2 /\ r + 1 # q + 2 /\ r + 2 # q + 2 /\ r + 3 # q + 2
  BY <1>4, <1>6, <1>8, <1>9
<1>29. /\ g[n] = sz /\ g[n + 3] = r
       /\ g[r] = s /\ g[r + 1] = FREE /\ g[r + 2] = n /\ g[r + 3] = q
  BY <1>7, <1>9, <1>25, <1>26, <1>27, <1>28, Zenon
<1>30. SplitWords(j, g, n, sz)
  <2>1. \A w \in Addresses :
          w # n /\ w # n + 3 /\ ~(r <= w /\ w <= r + 3) /\ (q = NULL \/ w # q + 2) => g[w] = j[w]
    BY <1>11, <1>26, <1>27, Zenon
  <2>2. s = j[n] - sz - 4
    BY <1>4, <1>6, <1>11, <1>22
  <2> QED
    BY <1>8, <1>11, <1>27, <1>29, <2>1, <2>2, Zenon DEF SplitWords
<1>31. Sound(g, (N \ {m}) \cup {n + 4 + sz}, cs)
  <2>1. sz + 4 <= j[n]
    BY <1>3, <1>4, <1>6, <1>11
  <2>2. NoLonger(cs, n, sz)
    <3>1. ASSUME NEW b \in cs, b[1] = n + HDR PROVE b[2] <= sz
      <4>1. PICK d : d = <<b0[1], sz>>
        BY Zenon
      <4>2. d \in cs
        BY <1>13, <4>1, Zenon
      <4>3. n + HDR = b0[1] /\ d[1] = b0[1] /\ d[2] = sz /\ sz <= sz
        BY <1>1, <4>1 DEF HDR
      <4>4. b = d
        BY <1>14, <3>1, <4>2, <4>3, Zenon DEF Sound, Owned
      <4> QED
        BY <4>3, <4>4, Zenon
    <3> QED
      BY <3>1, Zenon DEF NoLonger
  <2> QED
    BY <1>12, <1>14, <1>30, <2>1, <2>2, SplitSound, Zenon DEF NoLonger
<1>32. sz <= g[n]
  BY <1>29
<1> QED
  BY <1>12, <1>13, <1>20, <1>31, <1>32, Zenon

-----------------------------------------------------------------------------

\* What alloc and the writing of its caller leave.
LEMMA GivenSound ==
  ASSUME NEW h, NEW N, NEW bs, Sound(h, N, bs), NEW sz \in Nat, Fits(h, Search(h, sz), sz)
  PROVE  \E M : Sound(Given(h, sz), M, bs \cup {<<Search(h, sz) + HDR, sz>>})
<1>1. PICK n : n = Search(h, sz)
  BY Zenon
<1>2. Laid(h, N)
  BY Zenon DEF Sound
<1>3. n \in N
  BY <1>1, <1>2, SearchIs, Zenon
<1>4. Fits(h, n, sz)
  BY <1>1, Zenon
<1>5. PICK M : /\ Sound(Take(h, n, sz), M, bs \cup {<<n + HDR, sz>>}) /\ n \in M
               /\ sz <= Take(h, n, sz)[n]
  BY <1>3, <1>4, TakeSound, Zenon
<1>6. Sound(Filled(Take(h, n, sz), n + HDR, sz), M, bs \cup {<<n + HDR, sz>>})
  BY <1>5, FilledSound, Zenon
<1> QED
  BY <1>1, <1>6, Zenon DEF Given

\* realloc to fewer words keeps the heap sound, with or without a split.
LEMMA ShrinksSound ==
  ASSUME NEW h, NEW N, NEW bs, Sound(h, N, bs), NEW b \in bs, NEW sz \in Nat,
         sz < h[b[1] - HDR]
  PROVE  LET n == b[1] - HDR IN
         \E M : Sound(Filled(IF size(h, n) - sz < HDR THEN h ELSE Shrunk(h, n, sz), b[1], sz), M,
                      (bs \ {b}) \cup {<<b[1], sz>>})
<1>0. h \in [Addresses -> Int] /\ Laid(h, N) /\ Owned(h, N, bs)
  BY Zenon DEF Sound
<1>1. b[1] - HDR \in N /\ b[1] \in Int
  BY <1>0, Zenon DEF Owned
<1>2. PICK n \in N : n = b[1] - HDR
  BY <1>1, Zenon
<1>3. n \in Nat /\ h[n] \in Nat
  BY <1>0, <1>2, NodeIs, Zenon
<1>4. b[1] = n + HDR
  BY <1>1, <1>2 DEF HDR
<1>5. sz < h[n]
  BY <1>2, Zenon
<1>6. sz <= h[n]
  BY <1>3, <1>5
<1>7. PICK cs : cs = (bs \ {b}) \cup {<<b[1], sz>>}
  BY Zenon
<1>8. Sound(h, N, cs)
  <2>1. sz <= h[b[1] - HDR]
    BY <1>2, <1>6, Zenon
  <2>2. Owned(h, N, (bs \ {b}) \cup {<<b[1], sz>>})
    BY <1>0, <2>1, ResizedOwned, Zenon
  <2> QED
    BY <1>0, <1>7, <2>2, Zenon DEF Sound
<1>9. NoLonger(cs, n, sz)
  <2>1. ASSUME NEW d \in cs, d[1] = n + HDR PROVE d[2] <= sz
    <3>1. PICK e : e = <<b[1], sz>>
      BY Zenon
    <3>2. e \in cs
      BY <1>7, <3>1, Zenon
    <3>3. e[1] = b[1] /\ e[2] = sz /\ sz <= sz
      BY <3>1
    <3>4. d = e
      BY <1>4, <1>8, <2>1, <3>2, <3>3, Zenon DEF Sound, Owned
    <3> QED
      BY <3>3, <3>4, Zenon
  <2> QED
    BY <2>1, Zenon DEF NoLonger
<1>10. PICK g : g = IF h[n] - sz < HDR THEN h ELSE Shrunk(h, n, sz)
  BY Zenon
<1>11. \E M : Sound(g, M, cs) /\ n \in M /\ sz <= g[n]
  <2>1. CASE h[n] - sz < HDR
    BY <1>6, <1>8, <1>10, <2>1, Zenon
  <2>2. CASE ~(h[n] - sz < HDR)
    <3>1. sz + 4 <= h[n]
      BY <1>3, <2>2 DEF HDR
    <3>2. \E M : Sound(Shrunk(h, n, sz), M, cs) /\ n \in M /\ sz <= Shrunk(h, n, sz)[n]
      BY <1>8, <1>9, <3>1, ShrunkSound, Zenon
    <3> QED
      BY <1>10, <2>2, <3>2, Zenon
  <2> QED
    BY <2>1, <2>2, Zenon
<1>12. \E M : Sound(Filled(g, n + HDR, sz), M, cs)
  BY <1>11, FilledSound, Zenon
<1> QED
  BY <1>2, <1>4, <1>7, <1>10, <1>12, Zenon DEF size

\* realloc in place keeps it sound if the block grows by a header or not at all.
LEMMA GrowsSound ==
  ASSUME NEW h, NEW N, NEW bs, Sound(h, N, bs), NEW b \in bs, NEW sz \in Nat,
         CanGrow(h, b[1] - HDR, sz), sz >= h[b[1] - HDR],
         sz - h[b[1] - HDR] \notin 1 .. HDR - 1
  PROVE  \E M : Sound(Filled(Grown(h, b[1] - HDR, sz), b[1], sz), M,
                      (bs \ {b}) \cup {<<b[1], sz>>})
<1>0. Laid(h, N) /\ Owned(h, N, bs)
  BY Zenon DEF Sound
<1>1. b[1] - HDR \in N /\ b[1] \in Int
  BY <1>0, Zenon DEF Owned
<1>2. PICK n \in N : n = b[1] - HDR
  BY <1>1, Zenon
<1>3. n \in Nat /\ h[n] \in Nat
  BY <1>0, <1>2, NodeIs, Zenon
<1>4. b[1] = n + HDR
  BY <1>1, <1>2 DEF HDR
<1>5. CanGrow(h, n, sz) /\ sz >= h[n] /\ sz - h[n] \notin 1 .. HDR - 1
  BY <1>2, Zenon
<1>6. sz = h[n] \/ sz >= h[n] + 4
  BY <1>3, <1>5 DEF HDR
<1>7. PICK M : /\ Sound(Grown(h, n, sz), M, (bs \ {b}) \cup {<<b[1], sz>>}) /\ n \in M
               /\ sz <= Grown(h, n, sz)[n]
  BY <1>2, <1>5, <1>6, GrownSound, Zenon
<1>8. Sound(Filled(Grown(h, n, sz), n + HDR, sz), M, (bs \ {b}) \cup {<<b[1], sz>>})
  BY <1>7, FilledSound, Zenon
<1> QED
  BY <1>2, <1>4, <1>8, Zenon

\* realloc to another node, which allocates, copies and frees, keeps it sound.
LEMMA MovesSound ==
  ASSUME NEW h, NEW N, NEW bs, Sound(h, N, bs), NEW b \in bs, NEW sz \in Nat,
         Fits(h, Search(h, sz), sz), NEW cs, LeftIntact(Given(h, sz), cs, b[1] - HDR),
         ~FreeFaults(Given(h, sz), b[1] - HDR)
  PROVE  \E M : Sound(free(Given(h, sz), b[1] - HDR), M,
                      (bs \ {b}) \cup {<<Search(h, sz) + HDR, sz>>})
<1>0. Laid(h, N) /\ Owned(h, N, bs)
  BY Zenon DEF Sound
<1>1. PICK n : n = Search(h, sz)
  BY Zenon
<1>2. PICK d : d = <<n + HDR, sz>>
  BY Zenon
<1>3. \E M : Sound(Given(h, sz), M, bs \cup {d})
  BY <1>1, <1>2, GivenSound, Zenon
<1>4. b \in bs \cup {d}
  BY Zenon
<1>5. \E M : Sound(free(Given(h, sz), b[1] - HDR), M, (bs \cup {d}) \ {b})
  BY <1>3, <1>4, FreeSound, Zenon
<1>6. b # d
  <2>1. SUFFICES ASSUME b = d PROVE FALSE
    BY Zenon
  <2>2. n \in N
    BY <1>0, <1>1, SearchIs, Zenon
  <2>3. n \in Nat
    BY <1>0, <2>2, NodeIs, Zenon
  <2>4. b[1] - HDR = n
    BY <1>2, <2>1, <2>3 DEF HDR
  <2>5. h[n + 1] = USED
    BY <1>0, <2>4, Zenon DEF Owned, status
  <2>6. Fits(h, n, sz)
    BY <1>1, Zenon
  <2> QED
    BY <2>5, <2>6, Zenon DEF Fits, status
<1>7. (bs \cup {d}) \ {b} = (bs \ {b}) \cup {d}
  BY <1>6, Zenon
<1> QED
  BY <1>1, <1>2, <1>5, <1>7, Zenon

\* The invariant holds in every state: init_heap makes it true, and every call of alloc,
\* free and realloc keeps it.
THEOREM HeapInvariance == HeapSpec => []HeapInv
<1>1. HeapInit => HeapInv
  <2>1. SUFFICES ASSUME HeapInit PROVE \E N : Sound(mem, N, blocks)
    BY Zenon DEF HeapInit, HeapInv
  <2>2. PICK f : f = [i \in Addresses |-> DATA]
    BY Zenon
  <2>3. f \in [Addresses -> Int]
    BY <2>2 DEF DATA
  <2>4. WORDS - HDR \in Nat /\ WORDS - HDR \in Int /\ 0 \in Nat /\ 0 + 4 <= WORDS
        /\ FREE \in Int /\ NULL \in Int /\ 0 + HDR <= WORDS /\ 0 + HDR + (WORDS - HDR) = WORDS
    BY Room DEF HDR, FREE, NULL
  <2>5. HeaderAt(f, Header(f, 0, WORDS - HDR, FREE, NULL, NULL), 0, WORDS - HDR, FREE, NULL, NULL)
    BY <2>3, <2>4, HeaderIs, Zenon
  <2>6. /\ mem \in [Addresses -> Int] /\ mem[0] = WORDS - HDR /\ mem[0 + 1] = FREE
        /\ mem[0 + 2] = NULL /\ mem[0 + 3] = NULL
    <3>1. mem = Header(f, 0, WORDS - HDR, FREE, NULL, NULL)
      BY <2>1, <2>2, Zenon DEF HeapInit
    <3>2. HeaderAt(f, mem, 0, WORDS - HDR, FREE, NULL, NULL)
      BY <2>5, <3>1, Zenon
    <3> QED
      BY <3>2, Zenon DEF HeaderAt
  <2>7. Laid(mem, {0})
    <3>1. ~(0 < 0)
      OBVIOUS
    <3> QED
      BY <2>4, <2>6, <3>1, Zenon DEF Laid, size, status, prev, next
  <2>8. FREE # USED
    BY DEF FREE, USED
  <2>9. Owned(mem, {0}, {})
    BY <2>6, <2>8, Zenon DEF Owned, status
  <2>10. blocks = {}
    BY <2>1, Zenon DEF HeapInit
  <2> QED
    BY <2>6, <2>7, <2>9, <2>10, Zenon DEF Sound
<1>2. HeapInv /\ [HeapNext]_heapVars => HeapInv'
  <2>1. SUFFICES ASSUME HeapInv, [HeapNext]_heapVars PROVE HeapInv'
    BY Zenon
  <2>2. CASE UNCHANGED heapVars
    BY <2>1, <2>2, Zenon DEF HeapInv, heapVars
  <2>3. ASSUME HeapNext PROVE HeapInv'
    <3>1. ~halted /\ halted \in BOOLEAN
      BY <2>1, <2>3, Zenon DEF HeapNext, HeapInv
    <3>2. PICK N : Sound(mem, N, blocks)
      BY <2>1, <3>1, Zenon DEF HeapInv
    <3>3. \A sz \in Sizes : sz \in Nat
      BY HeapAssumption
    <3>4. ASSUME NEW sz \in Sizes, Alloc(sz) PROVE HeapInv'
      <4>1. Fits(mem, Search(mem, sz), sz)
        BY <3>4, Zenon DEF Alloc
      <4>2. \E M : Sound(Given(mem, sz), M, blocks \cup {<<Search(mem, sz) + HDR, sz>>})
        BY <3>2, <3>3, <4>1, GivenSound, Zenon
      <4> QED
        BY <3>1, <3>4, <4>2, Zenon DEF Alloc, HeapInv
    <3>5. ASSUME NEW b \in blocks, LeftIntact(mem, blocks, b[1] - HDR), Free(b) PROVE HeapInv'
      <4>1. halted' \in BOOLEAN
        BY <3>5, Zenon DEF Free, FreeFaults
      <4>2. ASSUME ~halted' PROVE \E M : Sound(mem', M, blocks')
        <5>1. ~FreeFaults(mem, b[1] - HDR)
          BY <3>5, <4>2, Zenon DEF Free
        <5>2. \E M : Sound(free(mem, b[1] - HDR), M, blocks \ {b})
          BY <3>2, <3>5, <5>1, FreeSound, Zenon
        <5> QED
          BY <3>5, <5>2, Zenon DEF Free
      <4> QED
        BY <4>1, <4>2, Zenon DEF HeapInv
    <3>6. ASSUME NEW b \in blocks, NEW sz \in Sizes, ReallocShrinks(b, sz) PROVE HeapInv'
      <4>1. sz < mem[b[1] - HDR]
        BY <3>6, Zenon DEF ReallocShrinks, size
      <4> QED
        BY <3>1, <3>2, <3>3, <3>6, <4>1, ShrinksSound, Zenon DEF ReallocShrinks, HeapInv
    <3>7. ASSUME NEW b \in blocks, NEW sz \in Sizes, GrowsEnough(b, sz), ReallocGrows(b, sz)
          PROVE  HeapInv'
      <4>1. /\ sz >= mem[b[1] - HDR] /\ CanGrow(mem, b[1] - HDR, sz)
            /\ sz - mem[b[1] - HDR] \notin 1 .. HDR - 1
        BY <3>7, Zenon DEF ReallocGrows, GrowsEnough, size
      <4>2. \E M : Sound(Filled(Grown(mem, b[1] - HDR, sz), b[1], sz), M,
                         (blocks \ {b}) \cup {<<b[1], sz>>})
        BY <3>2, <3>3, <4>1, GrowsSound, Zenon
      <4> QED
        BY <3>1, <3>7, <4>2, Zenon DEF ReallocGrows, HeapInv
    <3>8. ASSUME NEW b \in blocks, NEW sz \in Sizes, ReallocMoves(b, sz),
                 LeftIntact(Given(mem, sz), blocks', b[1] - HDR)
          PROVE  HeapInv'
      <4>1. halted' \in BOOLEAN
        BY <3>8, Zenon DEF ReallocMoves, FreeFaults
      <4>2. ASSUME ~halted' PROVE \E M : Sound(mem', M, blocks')
        <5>1. ~FreeFaults(Given(mem, sz), b[1] - HDR) /\ Fits(mem, Search(mem, sz), sz)
          BY <3>8, <4>2, Zenon DEF ReallocMoves
        <5>2. \E M : Sound(free(Given(mem, sz), b[1] - HDR), M,
                           (blocks \ {b}) \cup {<<Search(mem, sz) + HDR, sz>>})
          BY <3>2, <3>3, <3>8, <5>1, MovesSound, Zenon
        <5> QED
          BY <3>8, <5>2, Zenon DEF ReallocMoves
      <4> QED
        BY <4>1, <4>2, Zenon DEF HeapInv
    <3>9. ASSUME NEW b \in blocks, NEW sz \in Sizes, ReallocFails(b, sz) PROVE HeapInv'
      BY <3>9, Zenon DEF ReallocFails, HeapInv
    <3> QED
      BY <2>3, <3>4, <3>5, <3>6, <3>7, <3>8, <3>9, Zenon DEF HeapNext
  <2> QED
    BY <2>1, <2>2, <2>3, Zenon
<1> QED
  BY <1>1, <1>2, PTL DEF HeapSpec

\* The nodes always lie one behind the other and make up the whole area of the heap.
THEOREM HeapTiled == HeapSpec => []Tiled
<1>1. HeapInv => Tiled
  <2>1. SUFFICES ASSUME HeapInv, ~halted
                 PROVE  \A n \in Nodes(mem) :
                          /\ size(mem, n) >= 0
                          /\ n + HDR + size(mem, n) =
                               IF next(mem, n) = NULL THEN WORDS ELSE next(mem, n)
    BY Zenon DEF Tiled
  <2>2. PICK N : Sound(mem, N, blocks)
    BY <2>1, Zenon DEF HeapInv
  <2>3. Laid(mem, N) /\ Nodes(mem) = N
    BY <2>2, NodesAre, Zenon DEF Sound
  <2>4. \A x \in Nat : x >= 0
    OBVIOUS
  <2> QED
    BY <2>3, <2>4, Zenon DEF Laid
<1> QED
  BY <1>1, HeapInvariance, PTL

\* Every block is always the inside of a node in use, and of no other block's node.
THEOREM HeapBlocksIntact == HeapSpec => []BlocksIntact
<1>1. HeapInv => BlocksIntact
  <2>1. SUFFICES ASSUME HeapInv, ~halted
                 PROVE  /\ \A b \in blocks : /\ b[1] - HDR \in Nodes(mem)
                                             /\ size(mem, b[1] - HDR) >= b[2]
                                             /\ status(mem, b[1] - HDR) = USED
                        /\ \A b, d \in blocks : b[1] = d[1] => b = d
    BY Zenon DEF BlocksIntact
  <2>2. PICK N : Sound(mem, N, blocks)
    BY <2>1, Zenon DEF HeapInv
  <2>3. Owned(mem, N, blocks) /\ Nodes(mem) = N
    BY <2>2, NodesAre, Zenon DEF Sound
  <2>4. \A x, y : x >= y <=> y <= x
    OBVIOUS
  <2> QED
    BY <2>3, <2>4, Zenon DEF Owned
<1> QED
  BY <1>1, HeapInvariance, PTL

\* Every node in use is always that of a block a caller has.
THEOREM HeapNothingLost == HeapSpec => []NothingLost
<1>1. HeapInv => NothingLost
  <2>1. SUFFICES ASSUME HeapInv, ~halted
                 PROVE  \A n \in Nodes(mem) :
                          status(mem, n) = USED => \E b \in blocks : b[1] = n + HDR
    BY Zenon DEF NothingLost
  <2>2. PICK N : Sound(mem, N, blocks)
    BY <2>1, Zenon DEF HeapInv
  <2>3. Owned(mem, N, blocks) /\ Nodes(mem) = N
    BY <2>2, NodesAre, Zenon DEF Sound
  <2> QED
    BY <2>3, Zenon DEF Owned
<1> QED
  BY <1>1, HeapInvariance, PTL

=============================================================================
