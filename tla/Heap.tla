-------------------------------- MODULE Heap --------------------------------
(***************************************************************************)
(* The kernel heap, memory/heap.c: one list of nodes, each a header and    *)
(* the bytes behind it.  Memory is an array of words and a header occupies *)
(* the first HDR words of its node, in the order of struct heap_node, so   *)
(* that what a caller writes, and a header written in the wrong place, can *)
(* hit a header as in C.  Callers write over all of what they were given.  *)
(* The heap has the area it was initialised with: kernel_vmm has no more    *)
(* to give, and an alloc for which no node is large enough returns NULL.    *)
(***************************************************************************)
EXTENDS Integers, FiniteSets, Sequences

CONSTANTS
  WORDS,   \* size of the area that init_heap is given
  Sizes    \* sizes callers ask for

ASSUME HeapAssumption ==
  WORDS \in Nat /\ WORDS > 4 /\ Sizes \subseteq Nat \ {0}

VARIABLES
  mem,     \* the words; node 0 is kernel_heap
  blocks,  \* the blocks callers have, as <<address, size>>
  halted   \* a page fault that on_demand_allocation cannot resolve

heapVars == <<mem, blocks, halted>>

Addresses == 0 .. WORDS - 1

HDR == 4
FREE == 0
USED == 1
NULL == -1
DATA == -2   \* a word written by a caller

size(h, n) == h[n]
status(h, n) == h[n + 1]
prev(h, n) == h[n + 2]
next(h, n) == h[n + 3]

\* h with the header of n rewritten.
Header(h, n, sz, st, pv, nx) ==
  [h EXCEPT ![n] = sz, ![n + 1] = st, ![n + 2] = pv, ![n + 3] = nx]

Filled(h, at, sz) == [i \in Addresses |-> IF at <= i /\ i < at + sz THEN DATA ELSE h[i]]

\* init_heap.
HeapInit ==
  /\ mem = Header([i \in Addresses |-> DATA], 0, WORDS - HDR, FREE, NULL, NULL)
  /\ blocks = {}
  /\ halted = FALSE

-----------------------------------------------------------------------------

MOST == WORDS \div HDR   \* headers that fit in the area

\* The nodes in the order of their next pointers, from kernel_heap on; NULL behind the
\* last one.
Chain(h) ==
  LET node[k \in 0 .. MOST] ==
        IF k = 0 THEN 0
        ELSE IF node[k - 1] = NULL THEN NULL ELSE next(h, node[k - 1])
  IN  node

Nodes(h) == {Chain(h)[k] : k \in 0 .. MOST} \ {NULL}

Fits(h, n, sz) == ~(status(h, n) = USED \/ size(h, n) < sz)

\* The node at which the search of alloc ends: the first that fits, or the last one.
Search(h, sz) ==
  LET c == Chain(h)
      Ends == {k \in 0 .. MOST : c[k] # NULL /\ (Fits(h, c[k], sz) \/ next(h, c[k]) = NULL)}
  IN  c[CHOOSE k \in Ends : \A j \in Ends : k <= j]

\* BUG: the node is not marked as used.
TakeUnmarked(h, cur, sz) ==
  LET rest == cur + HDR + sz IN
  IF size(h, cur) > sz + HDR
  THEN [Header(h, rest, size(h, cur) - sz - HDR, FREE, cur, next(h, cur))
          EXCEPT ![cur + 3] = rest, ![cur] = sz]
  ELSE h

\* The rest of alloc once the node is found: what is left is split off, but the
\* node that follows it keeps its prev.
Take(h, cur, sz) ==
  LET rest == cur + HDR + sz
      h1 == IF size(h, cur) > sz + HDR
            THEN [Header(h, rest, size(h, cur) - sz - HDR, FREE, cur, next(h, cur))
                    EXCEPT ![cur + 3] = rest, ![cur] = sz]
            ELSE h
  IN  [h1 EXCEPT ![cur + 1] = USED]

\* alloc, and what the caller writes.
Given(h, sz) ==
  LET cur == Search(h, sz) IN Filled(Take(h, cur, sz), cur + HDR, sz)

\* BUG: the words of the header that disappears are not counted.
merge_rightShort(h, n) ==
  LET m == next(h, n)
      h1 == IF next(h, m) # NULL THEN [h EXCEPT ![next(h, m) + 2] = n] ELSE h
  IN  IF m # NULL /\ status(h, m) = FREE /\ n + HDR + size(h, n) = m
      THEN [h1 EXCEPT ![n + 3] = next(h, m), ![n] = @ + size(h, m)]
      ELSE h

merge_right(h, n) ==
  LET m == next(h, n)
      h1 == IF next(h, m) # NULL THEN [h EXCEPT ![next(h, m) + 2] = n] ELSE h
  IN  IF m # NULL /\ status(h, m) = FREE /\ n + HDR + size(h, n) = m
      THEN [h1 EXCEPT ![n + 3] = next(h, m), ![n] = @ + size(h, m) + HDR]
      ELSE h

\* free up to the merge with the left node.
Freed(h, n) == merge_right([h EXCEPT ![n + 1] = FREE], n)

\* Whether free goes on to merge with the left node.
MergesLeft(h, n) ==
  LET p == prev(h, n) IN
  p # NULL /\ status(h, p) = FREE /\ p + size(h, p) + HDR = n

\* The merge with the left node.  Whether there is a node that follows is not asked: if
\* there is none, the second write faults and the third is not reached.
merge_left(h, n) ==
  LET p == prev(h, n)
      h1 == [h EXCEPT ![p + 3] = next(h, n)]
  IN  IF next(h, n) = NULL THEN h1
      ELSE [h1 EXCEPT ![next(h, n) + 2] = p, ![p] = @ + size(h, n) + HDR]

free(h, n) ==
  LET h1 == Freed(h, n) IN
  IF status(h, n) # USED THEN h
  ELSE IF MergesLeft(h1, n) THEN merge_left(h1, n) ELSE h1

\* free writes through the next pointer of a node that has none.
FreeFaults(h, n) ==
  LET h1 == Freed(h, n) IN status(h, n) = USED /\ MergesLeft(h1, n) /\ next(h1, n) = NULL

-----------------------------------------------------------------------------
(* realloc.                                                                *)

\* The split of a node of which sz words are kept.
Shrunk(h, n, sz) ==
  LET freed == n + HDR + sz
      h1 == Header(h, freed, size(h, n) - sz - HDR, FREE, n, next(h, n))
      h2 == IF next(h, n) # NULL THEN [h1 EXCEPT ![next(h, n) + 2] = freed] ELSE h1
  IN  merge_right([h2 EXCEPT ![n] = sz, ![n + 3] = freed], freed)

CanGrow(h, n, sz) ==
  LET m == next(h, n) IN
  /\ m # NULL
  /\ status(h, m) = FREE
  /\ n + HDR + size(h, n) = m
  /\ size(h, m) + size(h, n) >= sz

\* The node takes in words of the free one behind it.  The new header of that one is
\* written before the last word of the old is read.
Grown(h, n, sz) ==
  LET m == next(h, n)
      right == n + HDR + sz
      h1 == [h EXCEPT ![right + 1] = FREE]
      h2 == [h1 EXCEPT ![right] = size(h1, n) + size(h1, m) - sz]
      h3 == [h2 EXCEPT ![right + 3] = next(h2, m)]
      h4 == [h3 EXCEPT ![right + 2] = n, ![n + 3] = right, ![n] = sz]
  IN  IF next(h4, right) # NULL THEN [h4 EXCEPT ![next(h4, right) + 2] = right] ELSE h4

-----------------------------------------------------------------------------
(* Calls.  A caller writes over what it is given.                          *)

Alloc(sz) ==
  LET cur == Search(mem, sz) IN
  /\ Fits(mem, cur, sz)
  /\ mem' = Given(mem, sz)
  /\ blocks' = blocks \cup {<<cur + HDR, sz>>}
  /\ UNCHANGED halted

\* free(ptr), or realloc(ptr, 0), by the caller that has the block.
Free(b) ==
  LET n == b[1] - HDR IN
  /\ mem' = free(mem, n)
  /\ blocks' = blocks \ {b}
  /\ halted' = FreeFaults(mem, n)

ReallocShrinks(b, sz) ==
  LET n == b[1] - HDR IN
  /\ sz < size(mem, n)
  /\ mem' = Filled(IF size(mem, n) - sz < HDR THEN mem ELSE Shrunk(mem, n, sz), b[1], sz)
  /\ blocks' = (blocks \ {b}) \cup {<<b[1], sz>>}
  /\ UNCHANGED halted

ReallocGrows(b, sz) ==
  LET n == b[1] - HDR IN
  /\ sz >= size(mem, n)
  /\ CanGrow(mem, n, sz)
  /\ mem' = Filled(Grown(mem, n, sz), b[1], sz)
  /\ blocks' = (blocks \ {b}) \cup {<<b[1], sz>>}
  /\ UNCHANGED halted

\* BUG: the old block is not freed.
ReallocMovesOnly(b, sz) ==
  LET n == b[1] - HDR
      cur == Search(mem, sz)
      h == Given(mem, sz)
  IN  /\ sz >= size(mem, n)
      /\ ~CanGrow(mem, n, sz)
      /\ Fits(mem, cur, sz)
      /\ mem' = h
      /\ blocks' = (blocks \ {b}) \cup {<<cur + HDR, sz>>}
      /\ UNCHANGED halted

ReallocMoves(b, sz) ==
  LET n == b[1] - HDR
      cur == Search(mem, sz)
      h == Given(mem, sz)
  IN  /\ sz >= size(mem, n)
      /\ ~CanGrow(mem, n, sz)
      /\ Fits(mem, cur, sz)
      /\ mem' = free(h, n)
      /\ halted' = FreeFaults(h, n)
      /\ blocks' = (blocks \ {b}) \cup {<<cur + HDR, sz>>}

\* There is no room for the block: memmove writes to NULL.
ReallocFails(b, sz) ==
  LET n == b[1] - HDR IN
  /\ sz >= size(mem, n)
  /\ ~CanGrow(mem, n, sz)
  /\ ~Fits(mem, Search(mem, sz), sz)
  /\ halted' = TRUE
  /\ UNCHANGED <<mem, blocks>>

-----------------------------------------------------------------------------
(* Callers that keep to what the heap silently relies on.                  *)

\* The left node that free will look at, in h and with the blocks bs, is still a header,
\* or at least nothing that a caller writes or that ends where n begins.
LeftIntact(h, bs, n) ==
  LET p == prev(h, n) IN
  p # NULL /\ p \notin Nodes(h) =>
    /\ p + HDR + size(h, p) # n
    /\ \A b \in bs : b[1] + b[2] <= p \/ p + HDR <= b[1]

\* A block grows by at least a header, as the arrays of threads do.
GrowsEnough(b, sz) == sz - size(mem, b[1] - HDR) \notin 1 .. HDR - 1

HeapNext ==
  /\ ~halted
  /\ \/ \E sz \in Sizes : Alloc(sz)
     \/ \E b \in blocks : LeftIntact(mem, blocks, b[1] - HDR) /\ Free(b)
     \/ \E b \in blocks, sz \in Sizes :
          \/ ReallocShrinks(b, sz) \/ ReallocFails(b, sz)
          \/ GrowsEnough(b, sz) /\ ReallocGrows(b, sz)
          \/ ReallocMoves(b, sz) /\ LeftIntact(Given(mem, sz), blocks', b[1] - HDR)

HeapSpec == HeapInit /\ [][HeapNext]_heapVars

-----------------------------------------------------------------------------
(* Properties, of a heap that no fault has stopped in the middle of a call. *)

\* The nodes of the list lie one behind the other and make up the whole heap: no
\* split or merge loses words or makes two nodes overlap.
Tiled ==
  ~halted => \A n \in Nodes(mem) :
    /\ size(mem, n) >= 0
    /\ n + HDR + size(mem, n) = IF next(mem, n) = NULL THEN WORDS ELSE next(mem, n)

\* Every block a caller has is the inside of a node of its own that is in use: what
\* callers write never hits a header or another block, whatever was freed, split,
\* merged or moved before.
BlocksIntact ==
  ~halted =>
    /\ \A b \in blocks :
         LET n == b[1] - HDR IN
         n \in Nodes(mem) /\ size(mem, n) >= b[2] /\ status(mem, n) = USED
    /\ \A b, d \in blocks : b[1] = d[1] => b = d

\* Every node in use is that of a block: free, and realloc when it moves a block,
\* give all words back.
NothingLost ==
  ~halted => \A n \in Nodes(mem) :
    status(mem, n) = USED => \E b \in blocks : b[1] = n + HDR

=============================================================================
