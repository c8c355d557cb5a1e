# Verification of colibri_os

TLA+ models of the x86-64 kernel of colibri_os, the TLC runs that check them on
small instances, and TLAPS proofs of the properties that matter most for every
instance. `PROJECT.json` is the index: components, runs, what each definition
models (`map`), mutants, findings, hazards and theorems. Paths below are relative
to `src/kernel/` unless they say otherwise.

## The system

| Part | Source | Module | State of the model |
|---|---|---|---|
| Spinlocks, `push_off`/`pop_off` | `synchronization/spinlock.c`, `kernel.c` | `Spinlock` (abstract: `Mutex`) | complete |
| Page allocator | `arch/x86-64/memory/physical_allocator.c` | `PhysicalAllocator` (abstract: `PagePool`) | complete |
| Intrusive lists | `list.c` | `List` (abstract: `Deque`) | complete |
| Memory areas of an address space | `memory/vmm.c` | `VmmAreas` | complete |
| Page tables, address spaces, page faults | `arch/x86-64/memory/vm.c`, `memory/vmm.c` | `AddressSpace` | operations atomic; no TLB |
| Kernel heap | `memory/heap.c` | `Heap` | without growth |
| Run queue | `scheduler/rb_tree.c` | `RbTree` (abstract: `RunQueue`) | complete |
| Processes, threads, scheduler | `process.c`, `scheduler/*.c` | `Scheduler` | one CPU, enough memory |
| Terminal, keyboard | `tty.c`, `driver/keyboard/` | `Tty` (abstract: `Screen`) | complete |
| Interrupt dispatch | `arch/x86-64/interrupt/interrupt_handler.c` | an action of the component each case calls | partly |
| Processor start-up | `arch/x86-64/boot.S`, `ap_init.S`, `core_startup.c` | `Startup` | complete; descriptor tables and mode switches are single steps |
| Timers | `arch/x86-64/timer/` | `Timers` | without `arm_hpet_timer`, since `arm_timer` is only called with `local` set |
| APIC, IO APIC | `arch/x86-64/apic.c`, `ioapic.c` | what start-up, timers and tables use of them | partly |
| Multiboot and ACPI tables | `multiboot.c`, `acpi.c`, `ioapic.c`, `vm.c` | `BootTables` | descriptors of revision 0 |
| C library | `src/libc/` | `Libc` | what the kernel calls, without output |
| ELF reader, logging and serial port, i386 | | none | see "Not modelled" |

How they interact. The firmware starts one processor, which reads the tables of the
loader and the firmware (`BootTables`) and starts the others with messages that it
spaces with delays (`Startup`, `Timers`); each ends in `main`, arms its timer and
idles. From then on a CPU runs kernel code or a thread. Interrupts and page faults
enter `interrupt_dispatch`: a page fault calls `on_demand_allocation`, which looks
up an area (`VmmAreas`), takes a page (`PhysicalAllocator`) and maps it
(`AddressSpace`); the keyboard writes to the terminal (`Tty`); the APIC timer calls
`schedule` (`Scheduler`), which works on the run queue (`RbTree`) and frees dead
threads into the heap (`Heap`). Locks are taken by `vmm_alloc_at`, `kalloc`, `kfree`,
the numbering of processes and threads, the start of processors and the serial port.
They nest: `vmm_alloc_at` calls `kalloc` with its own lock held, and the serial port
may be written with any held. The heap, the scheduler, the process list, the page
tables and the terminal have no lock.

The composition follows the abstract specifications. `Spinlock` implements `Mutex`,
the lock that `PhysicalAllocator` acquires in one step. `List` implements `Deque`,
the sequence that `PhysicalAllocator` has for its free list. `PhysicalAllocator`
implements `PagePool`, the set of frames `AddressSpace` allocates from. `VmmAreas`
shows that areas never overlap, so `AddressSpace` lets an area be any free range.
`RbTree` implements `RunQueue`, the queue that `Scheduler` picks from.
`Startup` takes `core_running_lock` in one step, as `Mutex` allows. `Timers` shows that
an armed timer does raise its interrupt (`Interrupted`), which `Scheduler` assumes of
an armed timer, and `Startup` that the IDT and the local APIC are there when it does.
`MemoryLayout` has the page arithmetic the memory modules share.

## State and actions

* `Spinlock`. Per lock `held` and `cpu_id`; per CPU `int_on`, `push_off_count`, the
  processor's interrupt flag, a program counter inside `acquire`, `release`,
  `push_off` or `pop_off`, what the code has entered and not left (`owned`), and the
  frames of suspended code. Every access to a shared word is an action. `Interrupt`
  needs the flag set, `PageFault` does not; both push a frame and clear the flag,
  `Iret` restores it. Panics are final states of a CPU.
* `PhysicalAllocator`. `free_lst`, the bitmap `alloc`, the lock and, per CPU, where
  it is in `kalloc` or `kfree` and with which page. The initial state is computed
  from the RAM as `init_phys_allocator` does. `KfreeTest` reads the bitmap before
  the lock, as the code does.
* `List`. `next` and `prev` of every cell, and the ghost `content`. `Overwrite` lets
  the owner of an unlinked cell write anything into it.
* `VmmAreas`. The areas in list order with start, size and slot, `current_addr`, and
  the containers in use. `VmmAllocFails` is the path that ends with `found = 0`.
* `AddressSpace`. The contents of page tables, of any number of levels and entries, and
  the free frames; of each address space the root, the containers, the next slot, what
  the last container holds for its `next`, and the areas, with `is_mmio` being whatever
  the slot held. `PageFault` is an access that the descriptor does not grant, with the
  handler: `on_demand_allocation`, or one of the panics of `interrupt_dispatch`.
  `VmmDestroy` frees the containers, and goes on from `next` if that is not NULL
  (`Behind`). `wild` records a `kfree` of an address outside the allocator's memory and
  `halted` a panic.
* `Heap`. An array of words that holds headers and the data of callers alike; a
  header written or read in the wrong place has the effect it has in C. The search of
  `alloc` follows `next` (`Chain`). A `free` that writes through NULL does what comes
  before that write and halts; the properties are about heaps that have not halted.
* `RbTree`. One record with all pointers and colours; each C function is an operator
  that follows the assignments in order, and a read through NULL stops TLC.
* `Scheduler`. Processes with their thread arrays, thread states and vruntimes, the
  queue and `cfs.running`, and of the CPU the thread, `vmm`, `cr3` and whether the
  one-shot timer is armed. The three paths through `schedule` are three disjuncts.
* `Tty`. `tty_buffer`, the cursor, what is on the framebuffer, the retries of
  `init_keyboard`, the scancode set it ends with, and the state of the scancode decoder:
  of `last_scancode` only whether it was the prefix `0xE0`, which is all the code asks.
* `Startup`. Per processor a program counter from `_start` or the trampoline to the
  passes of an idle CPU through `schedule`; `kernel_status`, with `core_running++` as a
  load and a store; the lock; what the page tables map, which processors have set NXE,
  loaded the IDT and enabled their local APIC; the count of `push_off`; the one `tss`. A
  first STARTUP message may be lost. There is no clock: any processor may be late.
* `Timers`. The HPET's counter and the phases of the HPET and of each local APIC timer,
  which `Instant` advances between any two instructions, the shared `period`, and per
  CPU the locals of `sleep_polled_hpet` and `arm_apic_timer`, the LVT mask, the current
  count, and whether the interrupt is pending. The divisions are those of the code. For
  the properties only, `slept` counts the ticks of a delay and `ran` the instants since
  a timer was set.
* `Libc`, `BootTables`. Operators without state: the loops of the C functions as
  recursion or folds, and beside each a definition of what it is to return, which looks
  at the arguments as a whole.

Definitions whose comment begins with BUG are the mutants: plausible errors, part of
no specification, which `PROJECT.json` pairs with the property that catches them.

## Runs

| Run | Instance | Shows |
|---|---|---|
| `spinlock` | 2 CPUs, 2 nested locks, 1 handler on each CPU | `MutualExclusion`, `HolderUninterruptible`, refinement of `Mutex`, `SpinningProgress` |
| `spinlock_pop_off` | the same | violated: `PopOffAssertion` |
| `parts`, page allocator | 3 CPUs, 4 pages to hand out | `Exclusive`, `NoLeak`, refinement of `PagePool` |
| `parts`, run queue | 10 entities with different keys | `RedBlack`, refinement of `RunQueue` |
| `parts`, lists | a head and 3 cells | `Linked`, refinement of `Deque` |
| `parts`, areas | 7 pages, areas of 1 or 2 pages anywhere or at a fixed address, 2 slots to a container, 4 containers | areas disjoint, with slots of their own, found by `get_memory_area` |
| `areas_region` | the same without fixed addresses | violated: `AreasInRegion` |
| `parts`, terminal | 3 rows of 3 columns, 9 scancodes: letters, enter, backspace, a release, the prefix, keys without a character | `NothingLeftOver`, `DisplayShowsText`, refinement of `Screen` |
| `parts`, functions | 47,000 arguments, see below | `MovesRight`, `StringsRight`, `PrintsRight`, `TablesRead` |
| `address_space` | the kernel with 1 page and a user with 2, 7 frames, 1 device, 2-entry tables on 2 levels, 2 slots to a container, areas of the user that may be executed or written | `Isolation`, `NeverWild`, `AccessAgrees` |
| `address_space_stale` | the same with 6 frames, areas freed at any time | violated: `Isolation` |
| `address_space_container` | the same with 6 frames, containers on pages with any contents | violated: `Isolation` |
| `heap` | 24 words, blocks of 1, 4 and 8 | `Tiled`, `BlocksIntact`, `NothingLost` |
| `rb_tree_find` | 5 entities, some with equal keys | violated: `RemoveFinds` |
| `scheduler` | 2 processes, 3 threads | `Accounted`, `OwnAddressSpace`, `NoStarvation`, `DeadCollected` |
| `startup` | 3 processors, any of which boots, with the NX flag | `OneBootProcessor`, `Reachable`, `InterruptsFindHandlers`, `CountRight`, `AllArrive` |
| `timers` | 1 CPU, ticks of 4 instants and a counter of 6 values, cycles of 3 instants and timers that count to 14, a calibration of 23 instants | `SleepsLongEnough`, `NeverEarly`, `Interrupted` |

`parts` is one run of `MCParts` over the components that need no other to be checked:
each behaviour is about one of them.

Why the bounds are enough to meet the interesting cases:

* `spinlock`: two CPUs are needed for a race and two locks for nesting; one frame
  lets a handler run inside every step of the code it suspends. The proofs remove
  all of these bounds.
* `parts`, page allocator: three CPUs let one hold the lock, one wait in `kfree` past
  its test of the bitmap and one in `kalloc`; four pages are few enough for the list to
  run empty.
* `parts`, areas: more areas than slots of one container, sizes below, at and above a
  page, fixed addresses below and above `current_addr`, and an address space that
  fills up.
* `address_space`: the two pages of the user lie in different tables, so that an area may
  have a page whose table is missing. Seven frames are what the kernel and the user need
  to have a page mapped at the same time (a container, a table and a page, and a root
  for the user), and so few that freed ones come back as tables, containers and pages of
  the other address space. Two slots make second containers.
* `heap`: four small blocks fill it; the sizes are such that a node is split, is
  taken whole because no header fits behind it, grows in place, shrinks or moves.
* `parts`, run queue: ten is the smallest number for which the loop of
  `balance_tree_remove` comes round.
* `scheduler`: three threads in two processes, so that a switch may stay in a
  process, leave it, or end it. `MaxGap` cuts the distance between neighbouring
  vruntimes to 4 where one step adds up to 3: only the order, and that a key is
  overtaken after finitely many steps, is kept.
* `parts`, terminal: three rows are the fewest in which a backspace meets a row that is
  neither first nor second, and three columns the fewest with one that is not at an edge.
* `parts`, functions: memories of five bytes with every source, destination and
  length up to three, so that regions overlap both ways and strings end before, at and
  behind the limit; every int of 8 bits in three bases, the least one included; every
  format of up to four characters; up to four tags or MADT entries with sizes on and
  off the multiples of 8, more modules and processors than there is room for; up to
  three memory map entries; both root descriptors, present or not, valid or not.
* `startup`: three processors let two race for the count while the third, which may have
  a smaller or a larger id than they, still sends messages or is long done.
* `timers`: delays of one and five ticks reach past the end of a counter of six values
  from some start and not from others. The calibration and the delays are whole numbers
  of neither ticks nor cycles, and the clocks start in every phase, so that a
  calibration loses parts of its first and last tick and of a cycle, and finds periods
  that are shorter and longer than the true one. The longest count is exceeded by the
  calibration of a CPU that reads late, and by a slice divided by a short period. There
  is one CPU: CPUs share only `period` and the IDT entry, what another one writes into
  `period` obeys the same bounds, and the proofs of `SleepsLongEnough` and `NeverEarly`
  are for any set of them. `Interrupted` is only checked for one.

Deadlock is checked except where the model may stop: after a panic (`Spinlock`,
`AddressSpace`, `Heap`), for a function that has returned (`MCParts`) and when the
containers are used up, of which the code never gives one back (`VmmAreas`, bound
`MaxContainers`).

### Fairness

`SpinningProgress` uses `FairSpec` of `Spinlock`: a CPU in the middle of `acquire`,
`release`, `push_off` or `pop_off` goes on, and a handler with nothing left to
release returns (weak fairness; nothing stops a processor); code between `acquire`
and `release` gets to its release although page faults suspend it again and again
(strong fairness; critical sections are straight-line code). Nothing is assumed of
`test_and_set`, which is not fair between CPUs: so it is not claimed that every CPU
gets its lock, only that some CPU does.

`NoStarvation` and `DeadCollected` use weak fairness of `Schedule`, which needs the
timer armed: every path through `schedule` arms it, and threads and `idle` run with
interrupts on. Nothing is assumed of threads or of the creation of processes.

`AllArrive` uses weak fairness of each processor: one that was started executes its next
instruction. The lock needs no more, since each processor takes it once.

`Interrupted` uses weak fairness of the clock and of each CPU outside of the two loops of
`sleep_polled_hpet`, and strong fairness of leaving these: the counter passes through the
values that end a loop again and again, and a CPU that polls without a pause is not
always too late for them. Since a tick is much longer than a poll, the real machine does
better than that.

## Obligations

Some of the code holds its promises only for callers, or in circumstances, that it
does not ask for. The passing runs state those as guards of the next-state relation.
Each is a place where the code goes wrong, met while modelling it; some are kept as
runs (next section), the others can be had by dropping the guard.

* `Spinlock`: locks are taken in the order of `Rank`. The kernel nests
  `phys_alloc_lock` inside the lock of an address space, and the lock of the serial
  port inside any.
* `PhysicalAllocator`: a page is given to `kfree` once. Two calls for one page both
  pass the test at line 124, which comes before the lock.
* `AddressSpace`, an area is freed only when all its pages have been used:
  `unmappages` (`vm.c:205`) passes the `phys_addr` of every descriptor to `kfree`,
  present or not. For a page never used that is 0, outside the bitmap.
* `AddressSpace`, there is memory for a page and its tables (`Enough`):
  `on_demand_allocation` (`vmm.c:242`) does not look at what `kalloc` returns, and
  maps frame 0.
* `AddressSpace`, the page of a new root or container is clean: neither `vmm_create`
  (`vmm.c:255`) nor `vmm_alloc_at` (`vmm.c:117`) clears it.
* `AddressSpace`, code accesses a page as its area allows, and does not execute it before
  it was written (`Permitted`): a fetch from a page that is not mapped yet, which a
  processor with the XD bit reports as one, is a panic (`interrupt_handler.c:20`), as is
  every access that a present page forbids.
* `AddressSpace`, the access of an area is changed only if it is mapped from its
  start without holes, as `create_process` does: `updatepages` stops at the first
  missing table (`vm.c:184`).
* `Heap`, the left node that `free` reads is one of the list, or else is neither in the
  data of a caller nor says that it ends where the freed node begins (`LeftIntact`): a
  split leaves `prev` of the following node on the old node (`heap.c:59`), which may be
  merged into another later. In no state of the run `heap` does the header of a node that
  is no more say that it ends there; the proof has it as an assumption about the call.
* `Heap`, a block that grows grows by at least a header (`GrowsEnough`): the new header is
  written over the old one before that is read (`heap.c:119`).
* `Heap`, there is no growth: a node made of a new area is a header longer than the
  area (`heap.c:42`).
* `RbTree`, keys differ (`parts`), see below.
* `Startup`, APIC ids lie below `MAX_CORES` and the loop of `init_ap` reaches the ones
  below `core_available` only (`core_startup.c:35`): `AllArrive` is about those. The
  timer's first interrupt, 100 ms after `main`, finds the `tss` made.
* `Startup`, the keyboard's interrupt goes to the processor 0 (`core_startup.c:157`);
  that the terminal exists by then is shown if that is the boot processor.
* `Startup`, every processor has a local APIC whose registers can be mapped: neither
  caller of `enable_lapic` looks at the 1 that it returns where not (`apic.c:119`, `140`).
* `Timers`, the assumptions on the constants (`TimersAssumption`): a delay is shorter
  than the counter is long, which a 32-bit HPET does not promise; the calibration, of
  5 ms, is longer than two ticks and a cycle, ends before the timer has counted down and
  finds a period that is not 0; no slice is shorter than the longest period it finds.
  None of these ties the clocks to each other.
* `Timers`, the leaf 0x15 of `cpuid` is complete where it exists: the code divides by an
  `ecx` that may be 0 (`apic_timer.c:33`).
* `BootTables`, root descriptors are of revision 0: the loop over the bytes of another
  one has no end (`acpi.c:49`).
* `Tty`, no backspace at the start of the third row or a later one (`Misplaced`):
  the row above is looked up with `TERMINAL_WIDTH - 1` instead of `+ 1`
  (`tty.c:150`).

Modelled as it is, and without a property because the code does not keep it:

* CPU 0 may panic in `acquire` with "already holding" for a lock another CPU is
  releasing: `release` sets `cpu_id` to 0 before it clears `held` (`spinlock.c:11`,
  `44`).
* A handler that releases a lock turns interrupts on (`kernel.c:36`).
* A RAM that starts at a page boundary loses its first page, and the allocator has
  one behind its end (`physical_allocator.c:80`).
* `vmm_alloc_at` never uses a gap (`vmm.c:99`).
* `vmm_destroy` does not free the page tables between root and pages (`vmm.c:277`).
* Two idle CPUs may end up on one stack: each saves its own in the only `tss` and reads
  it back later (`scheduler.c:42`). `Startup` reaches this with `UpdateRsp0` and
  `GetRsp0`; `TODO.md` has the TSS of several processors as open.
* `period` is set before entry 0x40 of the IDT, which all CPUs share: another CPU may find
  the period, arm its timer and be interrupted while the entry is still empty
  (`apic_timer.c:44`). `Timers` has both steps, `period` and `handler`.
* `exec_start_time` is only ever set to 0, so that `vruntime` grows by the uptime
  (`cfs.c:22`).
* The RAM entry that `kvminit` uses is the longest, which need not be the one the
  kernel lies in (`vm.c:66`).
* `free` of the last node behind a free one writes through NULL (`heap.c:150`), and
  so does a `realloc` that finds no memory (`heap.c:114`).

## Disagreements kept as runs

* `spinlock_pop_off`. `pop_off` asserts "cpu interrupt already on" is impossible
  (`kernel.c:31`). An interrupt between `int_on = 0` and `cli` in `push_off` whose
  handler takes and releases a lock leaves `int_on` set; the matching `pop_off`
  panics.
* `address_space_stale`. "Eventually free the physical page if free is true"
  (`vm.c:194`): `unmappages` clears only the present bit, so that freeing a later
  area at the same address, before that page is used, frees the old frame once
  more, although it belongs to somebody else by then.
* `address_space_container`. "Remove all allocated memory in vmm" (`vmm.c:276`): the
  page of a new container is not cleared, so the `next` of the last one is what the page
  held, and `vmm_destroy` goes on there, freeing a frame that is in use elsewhere.
* `areas_region`. The kernel's free region ends at `0xFFFF_FE7F_FFFF_FFFF`
  (`Memory_layout.md:7`), and `kvminit` passes the address behind it. `vmm_init` rounds
  that up to the end of its page (`vmm.c:26`), so the last area may take the first page
  of the mapping of physical memory, and that of a process the page behind the lower
  half.
* `rb_tree_find`. "se was not in the tree" (`rb_tree.c:184`): equal keys are inserted
  to the right, a rotation moves one to the left, and the search of `rb_remove` does
  not find it.

## Proofs

TLAPS checks all proofs from the assumptions named in the modules; each
`...Proofs` module extends the module, or the modules, it is about. The proofs
about `AddressSpace` are in two modules: `PageTableProofs` has the invariant and the
lemmas about `walk`, `mappages` and what tables say, and `AddressSpaceProofs` extends it
with one lemma for each function of `vmm.c` and the theorems.

| Module | Theorems | Assumptions |
|---|---|---|
| `SpinlockProofs` | `Invariance`, `TypeCorrect`, `LocksExclude`, `HoldersUninterruptible`, `Implements` (`Mutex`) | CPUs are numbers, `Section` is no lock, ranks are numbers |
| `MemoryTimersProofs`, page allocator | `Invariance`, `TypeCorrect`, `NoDoubleAllocation`, `NothingLost`, `BitmapRight`, `PoolAvoidsBitmap`, `Implements` (`PagePool`) | pages of more than one byte, any RAM |
| `MemoryTimersProofs`, areas | `AreasInvariance`, `NoOverlap`, `OwnSlots`, `LookupIsRight` | sizes above 0, containers with at least one slot |
| `MemoryTimersProofs`, timers | `TimersInvariance`, `DelaysAreLongEnough`, `CountsInvariant`, `TimersNeverEarly` | `TimersAssumption`: a counter with at least one value, delays shorter than it, a calibration longer than two ticks and a cycle that the timer can count |
| `ProcessProofs`, lists | `ListInvariance`, `AlwaysLinked`, `ListImplements` (`Deque`) | the head is no element |
| `ProcessProofs`, scheduler | `SchedulerInvariance`, `EverythingAccounted`, `RunsInOwnAddressSpace` | finitely many threads, none of them NULL or `idle_t`; `kernel_vmm` is no process's |
| `StartupProofs` | `Invariance`, `OneBoots`, `AlwaysReachable`, `HandlersFound`, `Counts` | finitely many ids below `MAX_CORES`, NX or not |
| `TtyProofs` | `TerminalInvariance`, `TerminalNothingLeftOver`, `TerminalDisplayShowsText`, `TerminalImplementsScreen` (`Screen`) | at least one row and one column; scancodes are bytes |
| `AddressSpaceProofs` | `TablesInvariance`, `MemoryIsolation`, `MemoryAccessAgrees`, `MemoryNeverWild` | finitely many frames, none of them 0, a device's or `kernel_pml4`; tables with at least one entry, at least one level; callers as in `Careful` (`Enough`, `Touched`, `TouchedFromStart`, `Permitted`); clean pages for roots and containers |
| `HeapProofs` | `HeapInvariance`, `HeapTiled`, `HeapBlocksIntact`, `HeapNothingLost` | an area of more words than a header, blocks of at least one word; callers as in `HeapNext` (`LeftIntact`, `GrowsEnough`) |

The inductive invariants, and why the properties alone are not inductive:

* `Spinlock!IInv`. That a holder is not interruptible follows from the count of
  `push_off` being exactly what the code has entered (`Accounting`) and interrupts
  being off when it is positive (`CountedOff`). The hard step is `Iret`, which
  restores an old flag: `FramesKeepOff` says that a frame with the flag set suspended
  code that had entered nothing. `SwitchAgrees` covers the window inside `push_off`
  in which `int_on` and the flag differ, the one in which `PopOffAssertion` fails.
  Exclusion follows from `HeldIffOwned`.
* `PhysicalAllocator!IInv`. `Exclusive` needs that list and bitmap agree while the
  lock is free (`BitmapAgrees`), which needs to know who is between the two updates
  (`LockOwner`, `ClearingListed`). `kfree` acts on a bit it read before it had the
  lock; that is harmless since the caller owns the page, and `Exclusive` says so.
  `PoolAvoidsBitmap` is arithmetic: `first_free` rounds the end of the bitmap up.
* `List!ListIInv`: types and `Linked`. The proof names the neighbours of the cell that
  is linked or unlinked and compares positions.
* `VmmAreas!AreasInv`. `AreasDisjoint` needs that a new area lies behind all others,
  that is `BelowCurrentAddr`, which freeing preserves because it does not lower
  `current_addr`, and allocating in an empty address space may, since there is nothing
  left to bound.
  `LookupRight` follows from the same conjunct.
* `StartupProofs!IInv`. `OneBootProcessor` needs that no other processor runs before
  `read_madt` has set `core_available` (`Alone`), and that it is not 0 afterwards
  (`Order`). `Reachable` needs to know which mappings exist at each place of the boot
  processor (`Memory`), and that only it is ever at a place that uses the first 2 MiB;
  hence a late processor loses nothing. `InterruptsFindHandlers` needs the exact depth of
  `push_off` at every place (`Switches`), and `CountRight` that a load of `core_running`
  is not stale when it is stored, which is what the lock is for (`Locking`).
* `ProcessProofs!IInv`: `Accounted` and `OwnAddressSpace` together, since each needs
  the other, and that a `thread_t` that was never allocated belongs to no process. The
  hard step is `Switch` when the old thread is dead: `destroy_thread` may free its
  process, and the thread picked before must not be of that process. It is not, since
  the array that became empty held all threads of the process (`RemoveElement`). The
  vruntimes play no part.
* `MemoryTimersProofs!TimersIInv`. The target tells at which value of the counter a
  delay began, and the counter is that value plus the ticks since, less the counter's
  length if it started over (`Delaying`), for as long as the delay has not lasted a
  whole turn. In the second loop of a delay past the end the counter has started over:
  without that conjunct a poll in that loop proves nothing.
* `MemoryTimersProofs!CountInv`, for `NeverEarly`. `sleep_polled_hpet` rounds its ticks
  down and its first tick may have begun before, so the calibration takes its duration
  less two ticks (`CalibrationEnds`), of which the timer may have had the last cycle not
  to its end. Hence the period found, times `Measured`, is at most the true one times
  the duration (`PeriodFound`), and the count of a slice divided by it makes up the slice
  by that measure but for the cycle that the division drops (`CountChosen`). What keeps
  both in step with the clocks is `Whole`: the time a timer has run and the cycles it
  has left, less the phase, are the same in every instant until it has counted down. The
  hard part is that none of the products is linear, so each is named once (`Times`,
  `Quotient`).
* `TtyProofs!TtyInv`. `NothingLeftOver` says where the text of a row ends by looking for
  a newline; the proof has the end of each row as a number instead (`Ended`), and the
  work is in the arithmetic of cells: that `terminal_move_up` takes each cell to the one
  of the same column in the row above, and that `terminal_backspace` finds the newline it
  is to erase. The refinement of `Screen` compares lists of lines: writing a character
  appends to the last line or begins a line, and drops the first when there is no room.
* `PageTableProofs!IInv`. None of the three properties says anything about the shape
  of page tables, on which all of them depend. The invariant (`Holds`) states that the
  tables can be given places: an address space, a level and the addresses each is for, so
  that a present entry of a higher table leads to the table of the place below (`Child`),
  every table but a root has such an entry, and no place has two tables. The state does
  not record places, so they are quantified over (`Sound`) and each step gives those of
  the next state. From this, a walk finds the table of the place it looks for, and all
  of them (`WalkIs`), hence what `unmappages` and `updatepages` meet are the descriptors
  of just the pages of the area. `Backed` ties the last level to the areas, `Once` says
  that no frame is in it twice, and `Pool` separates tables, containers and free frames.
  The hard step is `walk` with `alloc`, proved level by level (`DescendKeeps`): in
  between, the table just linked is empty, and the memory must not run out, which is
  what `Enough` is for. `vmm_destroy` gives nobody the tables between root and pages;
  they stay out of the pool, which harms none of the properties.

* `HeapProofs!HeapInv`. The properties are about the nodes that `next` leads to from
  `kernel_heap` on, through words any of which a caller or a misplaced header might have
  overwritten. The invariant says instead that there is a set of nodes, from 0 to the end
  of the area, each of which ends where its next one begins (`Laid`), and that the blocks
  are the insides of the used ones, one each (`Owned`). `NodesAre` shows that following
  `next` visits all of that set and nothing else: the positions grow by at least a header
  with every step, so that `MOST` steps come to the end. Every call is then taken apart
  into a few writes, each of which splits a node (`SplitSound`), joins two
  (`JoinSound`), changes a status (`UsedSound`, `ReleasedSound`) or fills a block
  (`FilledSound`). Of `prev` it is only known that it does not point past its node,
  which is why `free` needs `LeftIntact`: a left node that is in the set and ends at the
  freed one has it as its next. `realloc` in place needs `GrowsEnough`, since otherwise
  the header of the node behind is overwritten by the new one while it is still read
  (`GrownSound`).

No induction over data is needed: a fact about the levels of a walk, the rows of a buffer
or the nodes of the heap is proved by looking at the least level or position at which it
fails (`LeastOf`, `Upwards` and `Downwards` in `PageTableProofs`, `LeastIn` and
`EachUpTo` in `HeapProofs`). `span`, `walked`, `walked_alloc` and `Chain` are recursive
functions for that reason.

Every safety property, action property and refinement of a passing run is proved except
those of `RbTree`, `Libc` and `BootTables` (`RedBlack` and the refinement of `RunQueue`;
`MovesRight`, `StringsRight`, `PrintsRight`, `TablesRead`). These are only model-checked,
since what they say is about definitions that are recursive over trees and sequences,
which calls for induction over data. Also only model-checked is liveness
(`SpinningProgress`, `NoStarvation`, `DeadCollected`, `AllArrive`, `Interrupted`), which
is out of the prover's reach. `PageTableProofs!IInv` quantifies over assignments of
places and is out of TLC's reach; the run checks what follows from it.

## Not modelled

* Page faults on two CPUs in one address space (`interrupt_handler.c:22`), and the TLB,
  which the code never flushes (`vm.c:186`). The page tables have no lock; a model in
  small steps would only repeat that.
* `alloc`, `free` and `schedule` on two CPUs (`heap.c:18`, `scheduler.c:21`): no lock is
  taken, and nothing is left to hold after the first race.
* The growth of the heap, whose node does not fit its area (`heap.c:42`).
* The error paths of `create_process` (`process.c:101`), one of which leaves its
  `push_off` section open and the CPU on a page table that is freed.
* `arm_hpet_timer` and `configure_timer`: every call of `arm_timer` has `local` set; the
  arithmetic of `uptime` and `vruntime` with its width.
* `xsdt`, which nothing could load (`acpi.c:49`).
* `map_higher_half`, which copies the kernel's half of the root table into that of a new
  process: a top-level entry the kernel adds later is missing there (`vm.c:214`). In
  `AddressSpace` the two share no table. Large pages, used once, at boot.
* The ELF reader: each function is a comparison or an addition to a pointer.
* The remaining registers of the APICs, xAPIC against x2APIC, glyph rendering, logging
  and the serial port: pure output.
* The i386 port, which has start-up and interrupt code only and is not built with the
  rest.
