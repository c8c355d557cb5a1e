---------------------------- MODULE StartupProofs ---------------------------
(***************************************************************************)
(* The safety of the start-up, for every set of processors.                *)
(***************************************************************************)
EXTENDS Startup, FiniteSetTheorems, TLAPS

\* The stages behind the first word of kernel_status, which read_madt writes.
Late == {"init_ap", "bsp_load", "bsp_store", "next_ap", "startup_1", "startup_2",
         "disable_id_mapping", "init_keyboard", "setup_tss", "terminal_initialize", "pop_off"}

\* The stages of the boot processor from the point on where physical memory is mapped.
Mapped == Late \cup {"load_rsdp", "load_idt", "enable_lapic", "read_madt"}

Named == Mapped \cup {"load_multiboot_info", "kvminit"}

\* The stages of the other processors: before the IDT is loaded, and behind it.
ApPrepared == {"ap_acquire", "ap_load", "ap_store", "ap_release", "ap_pop_off"}
Ap == {"ap_startup", "ap_enable_nx", "ap_load_idt", "ap_enable_lapic"} \cup ApPrepared

Stages ==
  {"off", "wait", "trampoline", "long_mode_jump", "bsp_detection"} \cup Bsp \cup Ap \cup Arrived

Holding == {"bsp_load", "bsp_store", "next_ap", "startup_1", "startup_2",
            "ap_load", "ap_store", "ap_release"}

\* The push_off calls that are open at a stage.
Depth(p) ==
  IF p \in Holding THEN 2
  ELSE IF p \in Named \cup (Ap \ {"ap_startup"}) THEN 1 ELSE 0

TypeOK ==
  /\ pc \in [Cpus -> Stages]
  /\ bsp_id \in Nat /\ core_available \in Nat /\ core_running \in Nat /\ i \in Nat
  /\ loaded \in [Cpus -> Nat]
  /\ lock \in Cpus \cup {NoCpu}
  /\ push_off_count \in [Cpus -> Nat]
  /\ int_on \in [Cpus -> BOOLEAN]
  /\ {trampoline, direct, nx_flag_enabled, keyboard, tty} \subseteq BOOLEAN

\* Until the processors are counted only the boot processor runs, and everything of
\* the first GiB is mapped.
Alone ==
  core_available = 0 =>
    /\ i = 0 /\ ~keyboard
    /\ \A c, d \in Cpus : pc[c] # "off" /\ pc[d] # "off" => c = d
    /\ \A c \in Cpus : pc[c] \notin {"off", "_start"} => identity = {"low", "kernel"}

\* From then on there is one boot processor, known by its id; init_ap has not touched
\* those it has not come to yet.
Order ==
  \A c \in Cpus :
    /\ pc[c] \in Bsp /\ pc[c] \notin Late => core_available = 0
    /\ pc[c] \in Late => core_available > 0
    /\ pc[c] \in Late => \A d \in Cpus :
         d # c /\ d >= i => pc[d] = "off" \/ (d = i /\ pc[c] \in {"startup_1", "startup_2"})
    /\ pc[c] \in Named => bsp_id = c
    /\ pc[c] \in Ap \cup Arrived \cup {"wait", "trampoline"} => core_available > 0

Memory ==
  \A c \in Cpus :
    /\ pc[c] \notin {"off", "_start"} => "kernel" \in identity
    /\ pc[c] \in (Late \ {"init_ap"}) \cup {"wait", "trampoline"} => trampoline
    /\ pc[c] \in Mapped => direct /\ (nx_flag_enabled => c \in nx)
    /\ core_available > 0 => direct
    /\ pc[c] \in {"ap_load_idt", "ap_enable_lapic"} => (nx_flag_enabled => c \in nx)

Switches ==
  \A c \in Cpus :
    /\ push_off_count[c] = Depth(pc[c])
    /\ int_on[c] <=> pc[c] \in Arrived
    /\ pc[c] \in Late \cup {"enable_lapic", "read_madt", "ap_enable_lapic"} \cup ApPrepared
         \cup Arrived => c \in idt
    /\ pc[c] \in Late \cup {"read_madt"} \cup ApPrepared \cup Arrived => c \in lapic
    /\ keyboard /\ ~tty => \E b \in Cpus : pc[b] \in {"setup_tss", "terminal_initialize"}

Locking ==
  /\ \A c \in Cpus : pc[c] \in Holding <=> lock = c
  /\ \A c \in Cpus : pc[c] \in {"bsp_store", "ap_store"} => loaded[c] = core_running

\* What every step of the start-up preserves.
IInv ==
  /\ TypeOK /\ Alone /\ Order /\ Memory /\ Switches /\ Locking
  /\ OneBootProcessor /\ CountRight

USE StartupAssumption

\* A processor that boots is one of some number of processors, and there is room for it.
LEMMA Some ==
  ASSUME NEW c \in Cpus
  PROVE  Cardinality(Cpus) \in Nat \ {0} /\ MAX_CORES \in Nat \ {0}
<1>1. Cpus # {} /\ Cardinality(Cpus) \in Nat
  BY FS_CardinalityType, Zenon
<1> QED
  BY <1>1, FS_EmptySet

\* Every step keeps all of the invariant but the count.
LEMMA BootStep ==
  ASSUME IInv, NEW c \in Cpus, Boot(c)
  PROVE  (TypeOK /\ Alone /\ Order /\ Memory /\ Switches /\ Locking /\ OneBootProcessor)'
<1> USE DEF Step, IInv, TypeOK, Alone, Order, Memory, Switches, Locking, OneBootProcessor,
            Stages, Bsp, Late, Mapped, Named, Ap, ApPrepared, Arrived, Holding, Depth,
            coreVars, memVars, intVars, devVars, taskVars
<1>1. CASE MapKernel(c)
  BY <1>1, SMTT(30) DEF MapKernel
<1>2. CASE Trampoline(c)
  BY <1>2, SMTT(30) DEF Trampoline
<1>3. CASE Kernel64(c)
  BY <1>3, SMTT(30) DEF Kernel64
<1>4. CASE BspDetection(c)
  BY <1>4, SMTT(30) DEF BspDetection
<1>5. CASE BspPushOff(c)
  BY <1>5, SMTT(30) DEF BspPushOff, push_off
<1>6. CASE LoadMultibootInfo(c)
  BY <1>6, SMTT(30) DEF LoadMultibootInfo
<1>7. CASE Kvminit(c)
  BY <1>7, SMTT(30) DEF Kvminit
<1>8. CASE LoadRsdp(c)
  BY <1>8, SMTT(30) DEF LoadRsdp
<1>9. CASE LoadIdt(c)
  BY <1>9, SMTT(30) DEF LoadIdt
<1>10. CASE EnableLapic(c)
  BY <1>10, SMTT(30) DEF EnableLapic
<1>11. CASE ReadMadt(c)
  BY <1>11, Some, SMTT(30) DEF ReadMadt
<1>12. CASE InitAp(c)
  BY <1>12, SMTT(30) DEF InitAp, acquire, push_off
<1>13. CASE LoadRunning(c)
  BY <1>13, SMTT(30) DEF LoadRunning
<1>14. CASE StoreRunning(c)
  BY <1>14, SMTT(30) DEF StoreRunning
<1>15. CASE ReleaseRunning(c)
  BY <1>15, SMTT(30) DEF ReleaseRunning, release, pop_off
<1>16. CASE SkipBsp(c)
  BY <1>16, SMTT(30) DEF SkipBsp
<1>17. CASE SendInit(c)
  BY <1>17, SMTT(30) DEF SendInit
<1>18. CASE SendStartup1(c)
  BY <1>18, SMTT(30) DEF SendStartup1, Started
<1>19. CASE SendStartup2(c)
  BY <1>19, SMTT(30) DEF SendStartup2, Started
<1>20. CASE DisableIdMapping(c)
  BY <1>20, SMTT(30) DEF DisableIdMapping
<1>21. CASE InitKeyboard(c)
  BY <1>21, SMTT(30) DEF InitKeyboard
<1>22. CASE SetupTss(c)
  BY <1>22, SMTT(30) DEF SetupTss
<1>23. CASE TerminalInitialize(c)
  BY <1>23, SMTT(30) DEF TerminalInitialize
<1>24. CASE ApPushOff(c)
  BY <1>24, SMTT(30) DEF ApPushOff, push_off
<1>25. CASE ApEnableNx(c)
  BY <1>25, SMTT(30) DEF ApEnableNx
<1>26. CASE ApAcquire(c)
  BY <1>26, SMTT(30) DEF ApAcquire, acquire, push_off
<1>27. CASE PopOff(c)
  BY <1>27, SMTT(30) DEF PopOff, pop_off
<1>28. CASE Main(c)
  BY <1>28, SMTT(30) DEF Main
<1>29. CASE UpdateRsp0(c)
  BY <1>29, SMTT(30) DEF UpdateRsp0
<1>30. CASE GetRsp0(c)
  BY <1>30, SMTT(30) DEF GetRsp0
<1> QED
  BY <1>1, <1>2, <1>3, <1>4, <1>5, <1>6, <1>7, <1>8, <1>9, <1>10, <1>11, <1>12, <1>13, <1>14, <1>15,
     <1>16, <1>17, <1>18, <1>19, <1>20, <1>21, <1>22, <1>23, <1>24, <1>25, <1>26, <1>27, <1>28, <1>29, <1>30, Zenon DEF Boot

\* Those that have counted themselves in are finitely many.
LEMMA CountedFinite == IsFiniteSet(Counted) /\ IsFiniteSet(Counted')
  BY FS_Subset, Zenon DEF Counted

\* A step other than the store counts nobody in or out.
LEMMA CountedSame ==
  ASSUME IInv, NEW c \in Cpus, Boot(c), ~StoreRunning(c)
  PROVE  Counted' = Counted /\ core_running' = core_running
<1> USE DEF Step, Counted, Arrived, IInv, TypeOK, Order, Late, coreVars
<1>1. CASE MapKernel(c)
  BY <1>1, SMTT(30) DEF MapKernel
<1>2. CASE Trampoline(c)
  BY <1>2, SMTT(30) DEF Trampoline
<1>3. CASE Kernel64(c)
  BY <1>3, SMTT(30) DEF Kernel64
<1>4. CASE BspDetection(c)
  BY <1>4, SMTT(30) DEF BspDetection
<1>5. CASE BspPushOff(c)
  BY <1>5, SMTT(30) DEF BspPushOff
<1>6. CASE LoadMultibootInfo(c)
  BY <1>6, SMTT(30) DEF LoadMultibootInfo
<1>7. CASE Kvminit(c)
  BY <1>7, SMTT(30) DEF Kvminit
<1>8. CASE LoadRsdp(c)
  BY <1>8, SMTT(30) DEF LoadRsdp
<1>9. CASE LoadIdt(c)
  <2>1. core_running' = core_running
    BY <1>9, Zenon DEF LoadIdt
  <2>2. CASE Step(c, "load_idt", "enable_lapic")
    BY <2>1, <2>2, Zenon
  <2>3. CASE Step(c, "ap_load_idt", "ap_enable_lapic")
    BY <2>1, <2>3, Zenon
  <2> QED
    BY <1>9, <2>2, <2>3, Zenon DEF LoadIdt
<1>10. CASE EnableLapic(c)
  <2>1. core_running' = core_running
    BY <1>10, Zenon DEF EnableLapic
  <2>2. CASE Step(c, "enable_lapic", "read_madt")
    BY <2>1, <2>2, Zenon
  <2>3. CASE Step(c, "ap_enable_lapic", "ap_acquire")
    BY <2>1, <2>3, Zenon
  <2> QED
    BY <1>10, <2>2, <2>3, Zenon DEF EnableLapic
<1>11. CASE ReadMadt(c)
  BY <1>11, SMTT(30) DEF ReadMadt
<1>12. CASE InitAp(c)
  BY <1>12, SMTT(30) DEF InitAp
<1>13. CASE LoadRunning(c)
  BY <1>13, SMTT(30) DEF LoadRunning
<1>14. CASE ReleaseRunning(c)
  BY <1>14, SMTT(30) DEF ReleaseRunning
<1>15. CASE SkipBsp(c)
  BY <1>15, SMTT(30) DEF SkipBsp
<1>16. CASE SendInit(c)
  BY <1>16, SMTT(30) DEF SendInit
<1>17. CASE SendStartup1(c)
  <2>1. core_running' = core_running /\ pc[c] = "startup_1"
    BY <1>17, Zenon DEF SendStartup1
  <2>2. CASE pc' = Started(c, "startup_2")
    BY <2>1, <2>2, Zenon DEF Started
  <2>3. CASE pc' = [pc EXCEPT ![c] = "startup_2"]
    BY <2>1, <2>3, Zenon
  <2> QED
    BY <1>17, <2>2, <2>3, Zenon DEF SendStartup1
<1>18. CASE SendStartup2(c)
  BY <1>18, SMTT(30) DEF SendStartup2, Started
<1>19. CASE DisableIdMapping(c)
  BY <1>19, SMTT(30) DEF DisableIdMapping
<1>20. CASE InitKeyboard(c)
  BY <1>20, SMTT(30) DEF InitKeyboard
<1>21. CASE SetupTss(c)
  BY <1>21, SMTT(30) DEF SetupTss
<1>22. CASE TerminalInitialize(c)
  BY <1>22, SMTT(30) DEF TerminalInitialize
<1>23. CASE ApPushOff(c)
  BY <1>23, SMTT(30) DEF ApPushOff
<1>24. CASE ApEnableNx(c)
  BY <1>24, SMTT(30) DEF ApEnableNx
<1>25. CASE ApAcquire(c)
  BY <1>25, SMTT(30) DEF ApAcquire
<1>26. CASE PopOff(c)
  BY <1>26, SMTT(30) DEF PopOff
<1>27. CASE Main(c)
  BY <1>27, SMTT(30) DEF Main
<1>28. CASE UpdateRsp0(c)
  BY <1>28, SMTT(30) DEF UpdateRsp0
<1>29. CASE GetRsp0(c)
  BY <1>29, SMTT(30) DEF GetRsp0
<1> QED
  BY <1>1, <1>2, <1>3, <1>4, <1>5, <1>6, <1>7, <1>8, <1>9, <1>10, <1>11, <1>12, <1>13, <1>14, <1>15,
     <1>16, <1>17, <1>18, <1>19, <1>20, <1>21, <1>22, <1>23, <1>24, <1>25, <1>26, <1>27, <1>28, <1>29, Zenon DEF Boot

\* The store adds one to both sides: nobody has changed core_running since the load.
LEMMA CountStep ==
  ASSUME IInv, NEW c \in Cpus, Boot(c)
  PROVE  CountRight'
<1>1. CASE StoreRunning(c)
  <2>1. c \notin Counted /\ Counted' = Counted \cup {c}
    BY <1>1 DEF StoreRunning, Step, Counted, Arrived, IInv, TypeOK
  <2>2. core_running' = core_running + 1
    BY <1>1, Zenon DEF StoreRunning, Step, IInv, Locking
  <2>3. Cardinality(Counted \cup {c}) = Cardinality(Counted) + 1
    BY <2>1, CountedFinite, FS_AddElement, Zenon
  <2> QED
    BY <2>1, <2>2, <2>3, Zenon DEF CountRight, IInv
<1>2. CASE ~StoreRunning(c)
  BY <1>2, CountedSame, Zenon DEF CountRight, IInv
<1> QED
  BY <1>1, <1>2, Zenon

\* The invariant holds when the loader jumps to _start.
LEMMA InitIInv == Init => IInv
<1> SUFFICES ASSUME Init PROVE IInv
  BY Zenon
<1>1. PICK b \in Cpus : pc = [c \in Cpus |-> IF c = b THEN "_start" ELSE "off"]
  BY Zenon DEF Init
<1>2. TypeOK
  BY <1>1, Zenon DEF Init, TypeOK, Stages, Bsp
<1>3. Alone /\ OneBootProcessor
  BY <1>1, Zenon DEF Init, Alone, OneBootProcessor, Bsp
<1>4. Order /\ Memory
  BY <1>1 DEF Init, Order, Memory, Bsp, Late, Mapped, Named, Ap, ApPrepared, Arrived
<1>5. Switches /\ Locking
  BY <1>1, Zenon DEF Init, Switches, Locking, Late, Mapped, Named, Ap, ApPrepared, Arrived, Holding,
         Depth
<1>6. Counted = {}
  BY <1>1, Zenon DEF Counted, Arrived
<1>7. CountRight
  BY <1>6, FS_EmptySet, Zenon DEF CountRight, Init
<1> QED
  BY <1>2, <1>3, <1>4, <1>5, <1>7, Zenon DEF IInv

\* And what no processor changes stays.
LEMMA StutterIInv == IInv /\ UNCHANGED vars => IInv'
  BY DEF IInv, TypeOK, Alone, Order, Memory, Switches, Locking, OneBootProcessor, CountRight,
         Counted, vars, coreVars, memVars, intVars, devVars, taskVars

\* The invariant, for every set of processors, whichever of them boots, and however late
\* the others answer to the STARTUP messages of init_ap.
THEOREM Invariance == Spec => []IInv
<1>1. IInv /\ [Next]_vars => IInv'
  <2> SUFFICES ASSUME IInv, [Next]_vars PROVE IInv'
    BY Zenon
  <2>1. ASSUME NEW c \in Cpus, Boot(c) PROVE IInv'
    BY <2>1, BootStep, CountStep, Zenon DEF IInv
  <2> QED
    BY <2>1, StutterIInv, Zenon DEF Next
<1> QED
  BY <1>1, InitIInv, PTL DEF Spec

\* bsp_detection takes one processor for the boot processor, and no other ever.
THEOREM OneBoots == Spec => []OneBootProcessor
  BY Invariance, PTL DEF IInv

\* No processor touches memory that is not mapped for it, in whatever order the two
\* sides of init_ap run.
THEOREM AlwaysReachable == Spec => []Reachable
<1>1. IInv => Reachable
  BY SMTT(60) DEF IInv, TypeOK, Alone, Order, Memory, Reachable, Need, Usable, Stages, Bsp,
     Late, Mapped, Named, Ap, ApPrepared, Arrived
<1> QED
  BY <1>1, Invariance, PTL

\* An interrupt finds its handler, and the handler what it uses.
THEOREM HandlersFound == Spec => []InterruptsFindHandlers
<1>1. IInv => InterruptsFindHandlers
  BY Zenon DEF IInv, TypeOK, Order, Switches, InterruptsFindHandlers, Late, Mapped, Named, Arrived
<1> QED
  BY <1>1, Invariance, PTL

\* The lock makes core_running, read and written in two steps, the number of processors
\* that have counted themselves in.
THEOREM Counts == Spec => []CountRight
  BY Invariance, PTL DEF IInv

=============================================================================
