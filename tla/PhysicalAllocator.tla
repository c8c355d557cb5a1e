------------------------- MODULE PhysicalAllocator -------------------------
(***************************************************************************)
(* The physical page allocator, arch/x86-64/memory/physical_allocator.c:   *)
(* a free list threaded through the free pages and a bitmap with one bit   *)
(* per page, both behind phys_alloc_lock.  CPUs call kalloc and kfree at   *)
(* any time; what they do under the lock is a step of its own per shared   *)
(* word, and kfree reads the bitmap before it takes the lock.  The lock is *)
(* the one the module Mutex specifies; the list is the one List specifies. *)
(***************************************************************************)
EXTENDS MemoryLayout, Sequences

CONSTANTS
  Cpus,
  NoCpu,      \* the owner of a free lock
  ram_start,  \* ram_available->start, as kvminit computes it
  ram_size    \* ram_available->size

ASSUME PhysicalAllocatorAssumption ==
  /\ NoCpu \notin Cpus
  /\ ram_start \in Nat
  /\ ram_size \in Nat

VARIABLES
  free_lst,  \* addresses of the free pages, the next one to hand out first
  alloc,     \* alloc[i]: the bit of page i
  lock,      \* the CPU that holds phys_alloc_lock, or NoCpu
  pc,        \* pc[c]: where c is in kalloc or kfree
  page,      \* page[c]: the local variable page (kalloc) or addr (kfree)
  used       \* the pages whose address some caller of kalloc still has

vars == <<free_lst, alloc, lock, pc, page, used>>

-----------------------------------------------------------------------------
(* Addresses and page numbers.                                             *)

base == PAGE_END(ram_start) + 1
page_count == ram_size \div PAGE_SIZE
alloc_size == ((page_count - 1) \div 8) + 1

page_index(a) == (PAGE_START(a) - base) \div PAGE_SIZE
addr(i) == base + i * PAGE_SIZE

\* The first page after the ones that hold the bitmap.
first_free == page_index(base + alloc_size - 1) + 1

Bits == 0 .. 8 * alloc_size - 1
Pool == {addr(i) : i \in first_free .. page_count - 1}

-----------------------------------------------------------------------------

\* init_phys_allocator, called once before any other CPU runs.
Init ==
  /\ free_lst = [k \in 1 .. page_count - first_free |-> addr(first_free + k - 1)]
  /\ alloc = [i \in Bits |-> i < first_free \/ i >= page_count]
  /\ lock = NoCpu
  /\ pc = [c \in Cpus |-> "idle"]
  /\ page = [c \in Cpus |-> 0]
  /\ used = {}

-----------------------------------------------------------------------------
(* kalloc.                                                                 *)

Kalloc(c) ==
  /\ pc[c] = "idle"
  /\ lock = NoCpu
  /\ lock' = c
  /\ pc' = [pc EXCEPT ![c] = "pop"]
  /\ UNCHANGED <<free_lst, alloc, page, used>>

\* The list is empty: kalloc returns 0.
KallocEmpty(c) ==
  /\ pc[c] = "pop"
  /\ free_lst = <<>>
  /\ lock' = NoCpu
  /\ pc' = [pc EXCEPT ![c] = "idle"]
  /\ UNCHANGED <<free_lst, alloc, page, used>>

\* BUG: the list is left as it is.
KallocPeek(c) ==
  /\ pc[c] = "pop"
  /\ free_lst # <<>>
  /\ page' = [page EXCEPT ![c] = Head(free_lst)]
  /\ pc' = [pc EXCEPT ![c] = "set"]
  /\ UNCHANGED <<free_lst, alloc, lock, used>>

KallocPop(c) ==
  /\ pc[c] = "pop"
  /\ free_lst # <<>>
  /\ page' = [page EXCEPT ![c] = Head(free_lst)]
  /\ free_lst' = Tail(free_lst)
  /\ pc' = [pc EXCEPT ![c] = "set"]
  /\ UNCHANGED <<alloc, lock, used>>

\* bit_set, release, and the return of the page to the caller.
KallocSet(c) ==
  /\ pc[c] = "set"
  /\ alloc' = [alloc EXCEPT ![page_index(page[c])] = TRUE]
  /\ lock' = NoCpu
  /\ used' = used \cup {page[c]}
  /\ page' = [page EXCEPT ![c] = 0]
  /\ pc' = [pc EXCEPT ![c] = "idle"]
  /\ UNCHANGED free_lst

-----------------------------------------------------------------------------
(* kfree.                                                                  *)

\* BUG: the test of the bit is inverted.
KfreeTestInverted(c, a) ==
  /\ pc[c] = "idle"
  /\ \/ /\ ~alloc[page_index(PAGE_START(a))]
        /\ page' = [page EXCEPT ![c] = PAGE_START(a)]
        /\ pc' = [pc EXCEPT ![c] = "acquire"]
     \/ /\ alloc[page_index(PAGE_START(a))]
        /\ UNCHANGED <<page, pc>>
  /\ UNCHANGED <<free_lst, alloc, lock>>

\* kfree(a) up to the lock: a call whose page has its bit clear returns.
KfreeTest(c, a) ==
  /\ pc[c] = "idle"
  /\ \/ /\ alloc[page_index(PAGE_START(a))]
        /\ page' = [page EXCEPT ![c] = PAGE_START(a)]
        /\ pc' = [pc EXCEPT ![c] = "acquire"]
     \/ /\ ~alloc[page_index(PAGE_START(a))]
        /\ UNCHANGED <<page, pc>>
  /\ UNCHANGED <<free_lst, alloc, lock>>

\* A caller that has the page gives it up by the call.
Kfree(c, a) ==
  /\ a \in used
  /\ used' = used \ {a}
  /\ KfreeTest(c, a)

KfreeAcquire(c) ==
  /\ pc[c] = "acquire"
  /\ lock = NoCpu
  /\ lock' = c
  /\ pc' = [pc EXCEPT ![c] = "push"]
  /\ UNCHANGED <<free_lst, alloc, page, used>>

KfreePush(c) ==
  /\ pc[c] = "push"
  /\ free_lst' = <<page[c]>> \o free_lst
  /\ pc' = [pc EXCEPT ![c] = "clear"]
  /\ UNCHANGED <<alloc, lock, page, used>>

\* bit_clear and release.
KfreeClear(c) ==
  /\ pc[c] = "clear"
  /\ alloc' = [alloc EXCEPT ![page_index(page[c])] = FALSE]
  /\ lock' = NoCpu
  /\ page' = [page EXCEPT ![c] = 0]
  /\ pc' = [pc EXCEPT ![c] = "idle"]
  /\ UNCHANGED <<free_lst, used>>

-----------------------------------------------------------------------------

Step(c) ==
  \/ Kalloc(c) \/ KallocEmpty(c) \/ KallocPop(c) \/ KallocSet(c)
  \/ KfreeAcquire(c) \/ KfreePush(c) \/ KfreeClear(c)

Next == \E c \in Cpus : Step(c) \/ \E a \in used : Kfree(c, a)

Spec == Init /\ [][Next]_vars

-----------------------------------------------------------------------------
(* Properties.                                                             *)

Labels == {"idle", "pop", "set", "acquire", "push", "clear"}
Locked == {"pop", "set", "push", "clear"}

\* The pages in the hands of a kalloc or a kfree: popped and not yet returned,
\* or given up and not yet pushed.
Carrying(c) == pc[c] \in {"set", "acquire", "push"}

Listed(a) == \E k \in 1 .. Len(free_lst) : free_lst[k] = a

\* The state is well typed: every address kept is that of a page of the pool,
\* never one of the bitmap's own pages.
TypeOK ==
  /\ free_lst \in Seq(Pool)
  /\ alloc \in [Bits -> BOOLEAN]
  /\ lock \in Cpus \cup {NoCpu}
  /\ pc \in [Cpus -> Labels]
  /\ page \in [Cpus -> Pool \cup {0}]
  /\ \A c \in Cpus : Carrying(c) \/ pc[c] = "clear" => page[c] \in Pool
  /\ used \subseteq Pool

\* The list holds every page at most once.
FreedOnce ==
  \A j, k \in 1 .. Len(free_lst) : free_lst[j] = free_lst[k] => j = k

\* A page is in one place at a time: in the list once, or with a caller of
\* kalloc, or in the hands of one kalloc or kfree.  Nothing kalloc returns is
\* in use already, however the calls of several CPUs interleave.
Exclusive ==
  /\ FreedOnce
  /\ \A a \in used : ~Listed(a)
  /\ \A c \in Cpus : Carrying(c) => page[c] \notin used /\ ~Listed(page[c])
  /\ \A c, d \in Cpus : Carrying(c) /\ Carrying(d) /\ page[c] = page[d] => c = d

\* No page gets lost: the early returns of kfree and kalloc, and the order of
\* list and bitmap updates, leave every page in the list, in use or in the
\* hands of a call.
NoLeak ==
  \A a \in Pool : Listed(a) \/ a \in used \/ \E c \in Cpus : Carrying(c) /\ page[c] = a

\* The bitmap says of a page that it is free exactly when the list holds it,
\* but for the page between the two updates of the CPU that has the lock.
BitmapAgrees ==
  \A i \in first_free .. page_count - 1 :
    ~alloc[i] <=>
      \/ Listed(addr(i)) /\ \A c \in Cpus : pc[c] = "clear" => page[c] # addr(i)
      \/ \E c \in Cpus : pc[c] = "set" /\ page[c] = addr(i)

\* The bits that belong to no page of the pool stay set: kfree can never put
\* the bitmap's own pages, or what lies behind the last page, into the list.
ReservedStaySet ==
  \A i \in Bits : i < first_free \/ i >= page_count => alloc[i]

\* phys_alloc_lock is held by the CPU that is in a critical section, if any.
LockOwner == \A c \in Cpus : pc[c] \in Locked <=> lock = c

\* The page being freed is in the list between the push and the clear.
ClearingListed == \A c \in Cpus : pc[c] = "clear" => Listed(page[c]) /\ page[c] \notin used

\* The above together, at every step of kalloc and kfree: what makes the list and
\* the bitmap agree whenever nobody holds the lock.
IInv ==
  /\ TypeOK
  /\ LockOwner
  /\ Exclusive
  /\ NoLeak
  /\ ClearingListed
  /\ BitmapAgrees
  /\ ReservedStaySet

\* What kalloc and kfree promise, for any number of CPUs: see PagePool.
PagePool == INSTANCE PagePool
  WITH Pages <- Pool,
       free <- {free_lst[k] : k \in 1 .. Len(free_lst)},
       inUse <- used \cup {page[c] : c \in {d \in Cpus : Carrying(d)}}

\* The allocator implements the page pool: the page a kalloc takes out was
\* free, and is no longer; a page a kfree puts back was not.
ImplementsPool == PagePool!Spec

=============================================================================
