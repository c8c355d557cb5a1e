------------------------------ MODULE Scheduler -----------------------------
(***************************************************************************)
(* Processes, threads and the scheduler of one CPU: process.c, cfs.c and   *)
(* scheduler.c.  schedule runs in the handler of the one-shot APIC timer,  *)
(* with no other timer pending until it arms the next one, so on one CPU   *)
(* it is one step.  The run queue is the abstract one of module RunQueue,  *)
(* which RbTree implements as long as no two keys are equal.               *)
(*                                                                         *)
(* Of the vruntimes only the order matters, and how many more deltas take  *)
(* one past another.  So after each step they are counted from the         *)
(* smallest one in use, and a gap between two neighbours is cut to MaxGap. *)
(* A delta stands for uptime times (1 + prio), which is never 0.           *)
(***************************************************************************)
EXTENDS Integers, FiniteSets, FiniteSetsExt, Sequences

CONSTANTS
  Procs, Threads,   \* the proc_t's and thread_t's that alloc can hand out
  NULL, idle_t,     \* a null pointer, the idle thread
  Kernel,           \* kernel_vmm
  Deltas,           \* what update adds to a vruntime
  MaxGap            \* bound: the largest gap between neighbouring vruntimes

\* The kernel's own objects are no process's, and memory for threads is finite.
ASSUME SchedulerAssumption ==
  /\ IsFiniteSet(Threads) /\ Threads \cap {NULL, idle_t} = {}
  /\ Procs \cap {NULL, Kernel} = {}

VARIABLES
  process_list,  \* the processes in the list
  threads,       \* the thread_array of each process
  run,           \* the processes given to run_proc
  proc,          \* the process of each thread, NULL if it does not exist
  state,         \* thread_state_t of each thread
  fresh,         \* bound: the threads never created so far
  vruntime,
  queue,         \* the entities in cfs.tree
  running,       \* cfs.running
  thread,        \* get_cpu()->thread
  vmm, cr3,      \* get_cpu()->vmm and the address space the CPU translates with
  armed          \* the local timer will fire

procVars == <<process_list, threads, run, proc, fresh>>
cfsVars == <<vruntime, queue, running>>
cpuVars == <<thread, vmm, cr3, armed>>
vars == <<procVars, state, cfsVars, cpuVars>>

Live == {t \in Threads : proc[t] # NULL}

\* main: the kernel's address space is current and the timer is armed.
Init ==
  /\ process_list = {}
  /\ threads = [p \in Procs |-> <<>>]
  /\ run = {}
  /\ proc = [t \in Threads |-> NULL]
  /\ state = [t \in Threads |-> "WAITING"]
  /\ fresh = Threads
  /\ vruntime = [t \in Threads |-> 0]
  /\ queue = {}
  /\ running = 0
  /\ thread = NULL
  /\ vmm = Kernel
  /\ cr3 = Kernel
  /\ armed = TRUE

-----------------------------------------------------------------------------
(* process.c                                                               *)

\* add_thread: the new thread is appended to the array of its process.
add_thread(p, t) ==
  /\ t \in fresh
  /\ fresh' = fresh \ {t}
  /\ proc' = [proc EXCEPT ![t] = p]
  /\ state' = [state EXCEPT ![t] = "WAITING"]
  /\ threads' = [threads EXCEPT ![p] = Append(@, t)]

\* create_process with enough memory: the image is loaded through the new address
\* space, and the way back to the old one only reloads cr3 if that is a user's.
CreateProcess(p, t) ==
  /\ p \notin process_list
  /\ add_thread(p, t)
  /\ process_list' = process_list \cup {p}
  /\ cr3' = IF vmm = Kernel THEN p ELSE vmm
  /\ UNCHANGED <<run, cfsVars, thread, vmm, armed>>

AddThread(p, t) ==
  /\ p \in process_list \ run
  /\ add_thread(p, t)
  /\ UNCHANGED <<process_list, run, cfsVars, cpuVars>>

\* The keys of the threads in use, counted from the smallest with the gaps cut.
Rebased(v, used) ==
  LET gap(u) == Min({v[w] - v[u] : w \in {w \in used : v[w] > v[u]}} \cup {MaxGap})
  IN  [t \in Threads |->
         IF t \in used THEN MapThenSumSet(gap, {u \in used : v[u] < v[t]}) ELSE 0]

\* update and rb_insert for every thread of S, the keys of S growing by some of
\* the amounts given; no key meets an equal one in the tree.
cfs_queue(S, amounts) ==
  \E d \in [S -> amounts] :
    LET v == [t \in Threads |-> IF t \in S THEN vruntime[t] + d[t] ELSE vruntime[t]] IN
    /\ \A t, u \in queue \cup S : t # u => v[t] # v[u]
    /\ vruntime' = Rebased(v, (queue' \cup {thread'}) \cap Threads)

\* run_proc queues every thread of the process.  The vruntime it adds to was never
\* initialised, so the new keys may lie below all others as well as above.
RunProc(p) ==
  LET S == {threads[p][i] : i \in 1 .. Len(threads[p])} IN
  /\ p \in process_list \ run
  /\ run' = run \cup {p}
  /\ queue' = queue \cup S
  /\ running' = running + Len(threads[p])
  /\ UNCHANGED <<process_list, threads, proc, fresh, state, cpuVars>>
  /\ cfs_queue(S, Deltas \cup {0 - d : d \in Deltas})

\* The elements behind the index move down by one.
remove(array, index) ==
  [i \in 1 .. Len(array) - 1 |-> IF i < index THEN array[i] ELSE array[i + 1]]

\* The first place of a thread in the array is closed.
remove_el(array, t) ==
  LET at == {i \in 1 .. Len(array) : array[i] = t}
  IN  IF at = {} THEN array ELSE remove(array, Min(at))

\* BUG: the memory of the process is released while a thread is left.
destroy_threadEager(t) ==
  LET p == proc[t]
      rest == remove_el(threads[p], t)
  IN  /\ threads' = [threads EXCEPT ![p] = rest]
      /\ proc' = [proc EXCEPT ![t] = NULL]
      /\ process_list' = IF Len(rest) <= 1 THEN process_list \ {p} ELSE process_list
      /\ run' = IF Len(rest) <= 1 THEN run \ {p} ELSE run

\* destroy_thread, and destroy_process with the last thread.
destroy_thread(t) ==
  LET p == proc[t]
      rest == remove_el(threads[p], t)
  IN  /\ threads' = [threads EXCEPT ![p] = rest]
      /\ proc' = [proc EXCEPT ![t] = NULL]
      /\ process_list' = IF rest = <<>> THEN process_list \ {p} ELSE process_list
      /\ run' = IF rest = <<>> THEN run \ {p} ELSE run

-----------------------------------------------------------------------------
(* scheduler.c, with the calls it makes.                                   *)

\* BUG: the page table is never reloaded.
change_current_vmmLazy(v) ==
  /\ vmm' = v
  /\ UNCHANGED cr3

\* change_current_vmm: cr3 keeps its value when the kernel takes over.
change_current_vmm(v) ==
  /\ vmm' = v
  /\ cr3' = IF v = Kernel THEN cr3 ELSE v

Runnable(t) == t \in Threads /\ state[t] # "DEAD"

\* BUG: a dead thread is forgotten.
LeaveDead == UNCHANGED <<threads, proc, process_list, run>>

\* What happens to a thread that is dead when schedule meets it.
Leave ==
  IF thread \in Threads /\ ~Runnable(thread) THEN destroy_thread(thread)
  ELSE UNCHANGED <<threads, proc, process_list, run>>

\* Nothing else is queued and the old thread goes on.
Continue ==
  /\ queue = {}
  /\ Runnable(thread)
  /\ armed' = TRUE
  /\ UNCHANGED <<procVars, state, cfsVars, thread, vmm, cr3>>

\* BUG: the idle CPU does not ask for another interrupt.
GoIdleForGood ==
  /\ queue = {}
  /\ ~Runnable(thread)
  /\ Leave
  /\ thread' = idle_t
  /\ change_current_vmm(Kernel)
  /\ armed' = FALSE
  /\ UNCHANGED <<fresh, state, cfsVars>>

\* Nothing is queued and there is no thread to go on with.
GoIdle ==
  /\ queue = {}
  /\ ~Runnable(thread)
  /\ Leave
  /\ thread' = idle_t
  /\ change_current_vmm(Kernel)
  /\ armed' = TRUE
  /\ UNCHANGED <<fresh, state, cfsVars>>

\* The leftmost entity of the tree.
cfs_pick_next(t) == t \in queue /\ \A u \in queue : vruntime[t] <= vruntime[u]

\* The first of the queue takes over; the old thread, if it still runs, is queued.
Switch ==
  LET S == {thread} \cap {t \in Threads : state[t] # "DEAD"} IN
  \E new \in Threads :
    /\ cfs_pick_next(new)
    /\ Leave
    /\ queue' = (queue \cup S) \ {new}
    /\ running' = running + Cardinality(S) - 1
    /\ thread' = new
    /\ change_current_vmm(proc[new])
    /\ state' = [t \in Threads |-> IF t = new THEN "ACTIVE"
                                   ELSE IF t \in S THEN "WAITING" ELSE state[t]]
    /\ armed' = TRUE
    /\ cfs_queue(S, Deltas)
    /\ UNCHANGED fresh

\* The timer interrupt.
Schedule == armed /\ (Continue \/ GoIdle \/ Switch)

\* The running thread ends; nothing in the kernel marks a thread DEAD yet.
Exit ==
  /\ Runnable(thread)
  /\ state' = [state EXCEPT ![thread] = "DEAD"]
  /\ UNCHANGED <<procVars, cfsVars, cpuVars>>

Next ==
  \/ \E p \in Procs, t \in Threads : CreateProcess(p, t) \/ AddThread(p, t)
  \/ \E p \in Procs : RunProc(p)
  \/ Schedule
  \/ Exit

\* Every path through schedule arms the timer for a finite time, and interrupts
\* are on in every thread and in idle: an armed timer fires.
Spec == Init /\ [][Next]_vars /\ WF_vars(Schedule)

-----------------------------------------------------------------------------
(* Properties.                                                             *)

\* A thread runs in the address space of its own process, and that exists.
OwnAddressSpace ==
  thread \in Threads => /\ vmm = proc[thread]
                        /\ cr3 = proc[thread]
                        /\ proc[thread] \in process_list

\* A process is in the list, with its memory, exactly as long as it has threads,
\* and its array holds each of them once.
Populated ==
  \A p \in Procs :
    /\ p \in process_list <=> threads[p] # <<>>
    /\ {threads[p][i] : i \in 1 .. Len(threads[p])} = {t \in Live : proc[t] = p}
    /\ \A i, j \in 1 .. Len(threads[p]) : threads[p][i] = threads[p][j] => i = j

\* A thread of a process that was started is either on the CPU or in the queue,
\* and not in both; no thread that was freed is in either.
Places ==
  /\ thread \notin queue
  /\ queue \cup ({thread} \cap Threads) = {t \in Live : proc[t] \in run}

\* Processes, threads, the CPU and the run queue account for each other, through
\* run_proc, schedule and destroy_thread in any order; cfs.running, which get_timeslice
\* divides by, is the number of queued threads.
Accounted == Populated /\ Places /\ running = Cardinality(queue)

\* Every queued thread gets the CPU: the vruntime of those that run grows until
\* it is past the thread's own.
NoStarvation == \A t \in Threads : t \in queue ~> thread = t

\* The memory of a dead thread is released, and that of its process with the last.
DeadCollected == \A t \in Threads : state[t] = "DEAD" ~> proc[t] = NULL

=============================================================================
