------------------------------ MODULE Spinlock ------------------------------
(***************************************************************************)
(* The kernel's spinlocks and the per-CPU interrupt switch they rest on:   *)
(*   src/kernel/synchronization/spinlock.c   holding, acquire, release     *)
(*   src/kernel/kernel.c                     push_off, pop_off             *)
(* Every CPU executes kernel code that takes and releases locks, that      *)
(* brackets code with a bare push_off/pop_off pair, and that hardware      *)
(* interrupts and page faults may suspend for the run of a handler.  Each  *)
(* access to a shared word is a step of its own.                           *)
(***************************************************************************)
EXTENDS Naturals, Sequences

CONSTANTS
  Cpus,      \* APIC ids of the running CPUs
  Locks,     \* the spinlocks
  Rank,      \* Rank[l]: nesting level; kernel code only takes locks inwards
  Section,   \* the argument of a bare push_off/pop_off pair: no lock at all
  MaxFrames  \* bound: handlers that may be stacked on one CPU

ASSUME SpinlockAssumption ==
  /\ Cpus \subseteq Nat
  /\ Rank \in [Locks -> Nat]
  /\ Section \notin Locks
  /\ MaxFrames \in Nat

VARIABLES
  held,            \* held[l]: the byte that test-and-set works on
  cpu_id,          \* cpu_id[l]: the "Debug value" naming the holder
  int_on,          \* int_on[c]: software's idea of the interrupt flag
  push_off_count,  \* push_off_count[c]: push_off calls not yet undone
  IF_flag,         \* IF_flag[c]: the interrupt flag of the processor
  pc,              \* pc[c]: where c is in acquire, release, push_off, pop_off
  arg,             \* arg[c]: the lock such a call is about, Section outside
  owned,           \* owned[c]: locks and sections c has entered, innermost last
  frames           \* frames[c]: what the handlers running on c suspended

lockVars == <<held, cpu_id>>
intVars == <<int_on, push_off_count, IF_flag>>
vars == <<held, cpu_id, int_on, push_off_count, IF_flag, pc, arg, owned, frames>>

Entered == Locks \cup {Section}

\* Between push_off's increment and the append to owned, or between the removal
\* from owned and pop_off's decrement, one push_off is not accounted in owned.
Uncounted == {"check", "check_id", "tas", "pop", "panic_acquire", "panic_pop"}

Labels == {"start", "run", "cli", "own", "clear"} \cup Uncounted

Frame == [flag : BOOLEAN, pc : {"run", "cli"}, arg : Entered, depth : Nat]

Innermost(s) == s[Len(s)]
Pop(s) == SubSeq(s, 1, Len(s) - 1)

Holds(c, l) == \E i \in 1 .. Len(owned[c]) : owned[c][i] = l

\* The locks and sections the code running on c now has entered itself; what
\* lies below was entered by code that a handler on c has suspended.
EnteredHere(c) ==
  Len(owned[c]) > IF frames[c] = <<>> THEN 0 ELSE Innermost(frames[c]).depth

Init ==
  /\ held = [l \in Locks |-> FALSE]
  /\ cpu_id = [l \in Locks |-> 0]
  /\ int_on = [c \in Cpus |-> FALSE]
  /\ push_off_count = [c \in Cpus |-> 0]
  /\ IF_flag = [c \in Cpus |-> FALSE]
  /\ pc = [c \in Cpus |-> "start"]
  /\ arg = [c \in Cpus |-> Section]
  /\ owned = [c \in Cpus |-> <<>>]
  /\ frames = [c \in Cpus |-> <<>>]

-----------------------------------------------------------------------------
(* push_off.  The second half (the increment) returns to the caller: for a *)
(* bare section the section is then entered, acquire goes on to holding(). *)

PushReturns(c, x) ==
  /\ push_off_count' = [push_off_count EXCEPT ![c] = @ + 1]
  /\ pc' = [pc EXCEPT ![c] = IF x = Section THEN "run" ELSE "check"]
  /\ owned' = [owned EXCEPT ![c] = IF x = Section THEN Append(@, x) ELSE @]

PushOff(c, x) ==
  /\ arg' = [arg EXCEPT ![c] = x]
  /\ \/ /\ int_on[c]
        /\ int_on' = [int_on EXCEPT ![c] = FALSE]
        /\ pc' = [pc EXCEPT ![c] = "cli"]
        /\ UNCHANGED <<push_off_count, owned>>
     \/ /\ ~int_on[c]
        /\ UNCHANGED int_on
        /\ PushReturns(c, x)
  /\ UNCHANGED <<held, cpu_id, IF_flag, frames>>

\* disable_interrupt() and the increment that follows it.
Cli(c) ==
  /\ pc[c] = "cli"
  /\ IF_flag' = [IF_flag EXCEPT ![c] = FALSE]
  /\ PushReturns(c, arg[c])
  /\ UNCHANGED <<held, cpu_id, int_on, arg, frames>>

\* BUG: pop_off turns interrupts on whatever the nesting.
PopOffAlwaysOn(c) ==
  /\ pc[c] = "pop"
  /\ \/ /\ int_on[c]
        /\ pc' = [pc EXCEPT ![c] = "panic_pop"]
        /\ UNCHANGED <<intVars, arg>>
     \/ /\ ~int_on[c]
        /\ push_off_count' = [push_off_count EXCEPT ![c] = @ - 1]
        /\ int_on' = [int_on EXCEPT ![c] = TRUE]
        /\ IF_flag' = [IF_flag EXCEPT ![c] = TRUE]
        /\ pc' = [pc EXCEPT ![c] = "run"]
        /\ arg' = [arg EXCEPT ![c] = Section]
  /\ UNCHANGED <<held, cpu_id, owned, frames>>

PopOff(c) ==
  /\ pc[c] = "pop"
  /\ \/ /\ int_on[c]
        /\ pc' = [pc EXCEPT ![c] = "panic_pop"]
        /\ UNCHANGED <<intVars, arg>>
     \/ /\ ~int_on[c]
        /\ push_off_count' = [push_off_count EXCEPT ![c] = @ - 1]
        /\ int_on' = [int_on EXCEPT ![c] = push_off_count[c] = 1]
        /\ IF_flag' = [IF_flag EXCEPT ![c] = @ \/ push_off_count[c] = 1]
        /\ pc' = [pc EXCEPT ![c] = "run"]
        /\ arg' = [arg EXCEPT ![c] = Section]
  /\ UNCHANGED <<held, cpu_id, owned, frames>>

-----------------------------------------------------------------------------
(* acquire(lock) and release(lock).                                        *)

\* BUG: locks are nested in any order.
CanAcquireAnyOrder(c, l) == ~Holds(c, l)

\* The order in which the kernel nests locks.
CanAcquire(c, l) == \A k \in Locks : Holds(c, k) => Rank[k] < Rank[l]

Acquire(c, l) ==
  /\ pc[c] = "run"
  /\ CanAcquire(c, l)
  /\ PushOff(c, l)

\* holding(): lock->held is read first, lock->cpu_id only if it was set.
HoldingHeld(c) ==
  /\ pc[c] = "check"
  /\ pc' = [pc EXCEPT ![c] = IF held[arg[c]] THEN "check_id" ELSE "tas"]
  /\ UNCHANGED <<lockVars, intVars, arg, owned, frames>>

HoldingId(c) ==
  /\ pc[c] = "check_id"
  /\ pc' = [pc EXCEPT ![c] = IF cpu_id[arg[c]] = c THEN "panic_acquire" ELSE "tas"]
  /\ UNCHANGED <<lockVars, intVars, arg, owned, frames>>

\* BUG: the lock byte is set without looking at its old value.
SetUntested(c) ==
  /\ pc[c] = "tas"
  /\ held' = [held EXCEPT ![arg[c]] = TRUE]
  /\ owned' = [owned EXCEPT ![c] = Append(@, arg[c])]
  /\ pc' = [pc EXCEPT ![c] = "own"]
  /\ UNCHANGED <<cpu_id, intVars, arg, frames>>

\* The iteration of the spin loop that finds the byte clear.
TestAndSet(c) ==
  /\ pc[c] = "tas"
  /\ ~held[arg[c]]
  /\ held' = [held EXCEPT ![arg[c]] = TRUE]
  /\ owned' = [owned EXCEPT ![c] = Append(@, arg[c])]
  /\ pc' = [pc EXCEPT ![c] = "own"]
  /\ UNCHANGED <<cpu_id, intVars, arg, frames>>

SetCpuId(c) ==
  /\ pc[c] = "own"
  /\ cpu_id' = [cpu_id EXCEPT ![arg[c]] = c]
  /\ pc' = [pc EXCEPT ![c] = "run"]
  /\ arg' = [arg EXCEPT ![c] = Section]
  /\ UNCHANGED <<held, intVars, owned, frames>>

\* release() on the innermost lock: its first statement resets cpu_id.
Release(c) ==
  /\ pc[c] = "run"
  /\ EnteredHere(c)
  /\ LET l == Innermost(owned[c]) IN
       /\ l # Section
       /\ cpu_id' = [cpu_id EXCEPT ![l] = 0]
       /\ arg' = [arg EXCEPT ![c] = l]
  /\ pc' = [pc EXCEPT ![c] = "clear"]
  /\ UNCHANGED <<held, intVars, owned, frames>>

Clear(c) ==
  /\ pc[c] = "clear"
  /\ held' = [held EXCEPT ![arg[c]] = FALSE]
  /\ owned' = [owned EXCEPT ![c] = Pop(@)]
  /\ pc' = [pc EXCEPT ![c] = "pop"]
  /\ UNCHANGED <<cpu_id, intVars, arg, frames>>

-----------------------------------------------------------------------------
(* Bare sections: the start-up code of each CPU, and create_process.       *)

EnterSection(c) ==
  /\ \/ pc[c] = "start"
     \/ pc[c] = "run" /\ owned[c] = <<>> /\ frames[c] = <<>>
  /\ PushOff(c, Section)

LeaveSection(c) ==
  /\ pc[c] = "run"
  /\ EnteredHere(c)
  /\ Innermost(owned[c]) = Section
  /\ owned' = [owned EXCEPT ![c] = Pop(@)]
  /\ pc' = [pc EXCEPT ![c] = "pop"]
  /\ UNCHANGED <<lockVars, intVars, arg, frames>>

-----------------------------------------------------------------------------
(* Handlers.  Every gate of the IDT is an interrupt gate (type 0xE): the   *)
(* processor saves the flag, clears it and runs the handler; iretq puts    *)
(* the saved flag back.  Neither touches int_on or push_off_count.         *)

EnterHandler(c) ==
  /\ Len(frames[c]) < MaxFrames
  /\ frames' = [frames EXCEPT ![c] =
       Append(@, [flag |-> IF_flag[c], pc |-> pc[c], arg |-> arg[c],
                  depth |-> Len(owned[c])])]
  /\ IF_flag' = [IF_flag EXCEPT ![c] = FALSE]
  /\ pc' = [pc EXCEPT ![c] = "run"]
  /\ arg' = [arg EXCEPT ![c] = Section]
  /\ UNCHANGED <<lockVars, int_on, push_off_count, owned>>

\* A device or timer interrupt, between any two instructions while the flag
\* is set.
Interrupt(c) ==
  /\ IF_flag[c]
  /\ pc[c] \in {"run", "cli"}
  /\ EnterHandler(c)

\* A page fault of the code itself, whatever the flag.  Its handler calls
\* kalloc, so the code does not fault under the innermost lock: what it
\* touches there is the permanent map of physical memory.
PageFault(c) ==
  /\ pc[c] = "run"
  /\ \E l \in Locks : CanAcquire(c, l)
  /\ EnterHandler(c)

Iret(c) ==
  /\ pc[c] = "run"
  /\ frames[c] # <<>>
  /\ ~EnteredHere(c)
  /\ LET f == Innermost(frames[c]) IN
       /\ IF_flag' = [IF_flag EXCEPT ![c] = f.flag]
       /\ pc' = [pc EXCEPT ![c] = f.pc]
       /\ arg' = [arg EXCEPT ![c] = f.arg]
  /\ frames' = [frames EXCEPT ![c] = Pop(@)]
  /\ UNCHANGED <<lockVars, int_on, push_off_count, owned>>

-----------------------------------------------------------------------------

Step(c) ==
  \/ Cli(c) \/ PopOff(c)
  \/ HoldingHeld(c) \/ HoldingId(c) \/ TestAndSet(c) \/ SetCpuId(c)
  \/ Clear(c)

Leave(c) == Release(c) \/ LeaveSection(c)

Next ==
  \E c \in Cpus :
    \/ Step(c)
    \/ Leave(c)
    \/ \E l \in Locks : Acquire(c, l)
    \/ EnterSection(c)
    \/ Interrupt(c) \/ PageFault(c)
    \/ Iret(c)

Spec == Init /\ [][Next]_vars

\* A CPU inside one of the four functions, or inside a handler with nothing
\* left to release, keeps executing.  Code between acquire and release always
\* gets to its release, however often page faults suspend it on the way: strong
\* fairness.  Nothing makes kernel code ask for a lock, and nothing makes
\* test-and-set fair between CPUs: there is no strong fairness on TestAndSet.
Fairness ==
  \A c \in Cpus : WF_vars(Step(c)) /\ WF_vars(Iret(c)) /\ SF_vars(Leave(c))

FairSpec == Spec /\ Fairness

-----------------------------------------------------------------------------
(* Properties.                                                             *)

\* The state is well typed; in particular push_off_count, an unsigned word in
\* struct cpu_status, never goes below zero.
TypeOK ==
  /\ held \in [Locks -> BOOLEAN]
  /\ cpu_id \in [Locks -> Nat]
  /\ int_on \in [Cpus -> BOOLEAN]
  /\ push_off_count \in [Cpus -> Nat]
  /\ IF_flag \in [Cpus -> BOOLEAN]
  /\ pc \in [Cpus -> Labels]
  /\ arg \in [Cpus -> Entered]
  /\ owned \in [Cpus -> Seq(Entered)]
  /\ frames \in [Cpus -> Seq(Frame)]

\* acquire gives a lock to one CPU at a time, and once to that CPU.
MutualExclusion ==
  \A c, d \in Cpus :
    \A i \in 1 .. Len(owned[c]), j \in 1 .. Len(owned[d]) :
      owned[c][i] = owned[d][j] /\ owned[c][i] \in Locks => c = d /\ i = j

\* A CPU that holds a lock, or is inside a push_off section, has its interrupts
\* off, through any nesting of acquire, page faults and handlers: no handler
\* can find a lock held by the code it suspended.
HolderUninterruptible ==
  \A c \in Cpus : owned[c] # <<>> => ~IF_flag[c]

Mutex == INSTANCE Mutex WITH holders <- [l \in Locks |-> {c \in Cpus : Holds(c, l)}]

\* acquire and release implement an atomic mutual-exclusion lock, the one the
\* modules of the code above them use: see Mutex.
ImplementsMutex == Mutex!Spec

Panicked == \E c \in Cpus : pc[c] \in {"panic_acquire", "panic_pop"}

\* If some CPU spins in acquire, then some CPU gets a lock, or the machine
\* panics: nested acquires and page faults inside critical sections never leave
\* every CPU waiting for another.
SpinningProgress ==
  (\E c \in Cpus : pc[c] = "tas") ~> ((\E c \in Cpus : pc[c] = "own") \/ Panicked)

\* pop_off's assertion (kernel.c:31, "pop_off: cpu interrupt already on"): a
\* balanced sequence of calls never finds int_on set in pop_off.
PopOffAssertion == \A c \in Cpus : pc[c] # "panic_pop"

-----------------------------------------------------------------------------
(* The inductive invariant behind MutualExclusion and                      *)
(* HolderUninterruptible.                                                  *)

\* push_off_count counts exactly what owned records, plus the call in progress.
Accounting ==
  \A c \in Cpus :
    push_off_count[c] = Len(owned[c]) + (IF pc[c] \in Uncounted THEN 1 ELSE 0)

CountedOff == \A c \in Cpus : push_off_count[c] > 0 => ~IF_flag[c]

HeldIffOwned == \A l \in Locks : held[l] <=> \E c \in Cpus : Holds(c, l)

\* A handler that will set the flag again suspended code that had entered
\* nothing.
FramesKeepOff ==
  \A c \in Cpus : \A i \in 1 .. Len(frames[c]) :
    frames[c][i].flag => frames[c][i].depth = 0

CallArguments ==
  \A c \in Cpus :
    /\ pc[c] \in {"check", "check_id", "tas", "own", "clear"} => arg[c] \in Locks
    /\ pc[c] \in {"own", "clear"} => owned[c] # <<>>
    /\ pc[c] = "clear" => Innermost(owned[c]) = arg[c]

\* Code that push_off finds with int_on clear has the processor's flag clear: an
\* interrupt that hits push_off between its assignment and cli is the only way
\* the two part, and then no handler above it sets the flag behind int_on's back.
SwitchAgrees ==
  \A c \in Cpus :
    /\ pc[c] = "start" => ~IF_flag[c]
    /\ pc[c] = "run" /\ IF_flag[c] => int_on[c]
    /\ pc[c] = "run" /\ owned[c] = <<>> /\ ~int_on[c] =>
         \A i \in 1 .. Len(frames[c]) : frames[c][i].flag =>
           \E j \in i .. Len(frames[c]) : frames[c][j].pc = "cli"

\* The interrupt switch and the lock bytes agree with what the code on each CPU
\* has entered, at every step of acquire, release, push_off and pop_off and
\* across every handler.
IInv ==
  /\ TypeOK
  /\ Accounting
  /\ CountedOff
  /\ HeldIffOwned
  /\ MutualExclusion
  /\ FramesKeepOff
  /\ CallArguments
  /\ SwitchAgrees

=============================================================================
