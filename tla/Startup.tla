------------------------------- MODULE Startup ------------------------------
(***************************************************************************)
(* How the processors start: the boot processor from boot.S through        *)
(* bsp_startup, the others from the STARTUP message of init_ap through the *)
(* trampoline in ap_init.S, boot.S and ap_startup, and all of them into    *)
(* main.  Without an initd module no thread exists, and what is left of    *)
(* schedule is the way of an idle CPU through it.                          *)
(*                                                                         *)
(* A processor is its APIC id, and so is the 16 KiB of stack that boot.S   *)
(* cuts off for it.  A wait may take arbitrarily long on both sides, so a  *)
(* processor may be late for anything.  The spinlock is the mutex that     *)
(* module Spinlock implements.                                             *)
(***************************************************************************)
EXTENDS Naturals, FiniteSets

CONSTANTS
  Cpus,        \* the APIC ids that the MADT lists as enabled
  MAX_CORES,
  NX,          \* whether the processors have the NX flag
  NoCpu        \* no processor, and no stack

ASSUME StartupAssumption ==
  /\ IsFiniteSet(Cpus) /\ Cpus \subseteq 0 .. MAX_CORES - 1
  /\ MAX_CORES \in Nat
  /\ NX \in BOOLEAN
  /\ NoCpu \notin Cpus

VARIABLES
  pc,                           \* what each processor does next
  bsp_id, core_available, core_running, nx_flag_enabled,   \* kernel_status
  loaded,                       \* core_running as an increment under way read it
  lock,                         \* core_running_lock: its holder
  i,                            \* the loop of init_ap
  trampoline,                   \* the trampoline is at 0x8000
  identity,                     \* what kernel_p2 maps: the first 2 MiB, and the kernel above
  direct,                       \* physical memory is mapped at PHYSICAL_OFFSET
  nx, idt, lapic,               \* the processors with EFER.NXE, an IDT, a local APIC
  push_off_count, int_on,       \* cpu_status
  keyboard, tty,                \* its interrupt is routed; the terminal exists
  tss, rsp0,                    \* the one tss and its rsp0
  stack                         \* the stack each processor is on

memVars == <<trampoline, identity, direct, nx_flag_enabled, nx>>
coreVars == <<bsp_id, core_available, core_running, loaded, lock, i>>
intVars == <<push_off_count, int_on>>
devVars == <<idt, lapic, keyboard, tty>>
taskVars == <<tss, rsp0, stack>>
vars == <<pc, memVars, coreVars, intVars, devVars, taskVars>>

\* The firmware has started one processor, and the loader has jumped to _start.
Init ==
  /\ \E b \in Cpus : pc = [c \in Cpus |-> IF c = b THEN "_start" ELSE "off"]
  /\ bsp_id = 0 /\ core_available = 0 /\ core_running = 0 /\ nx_flag_enabled = FALSE
  /\ loaded = [c \in Cpus |-> 0]
  /\ lock = NoCpu /\ i = 0
  /\ trampoline = FALSE /\ identity = {} /\ direct = FALSE
  /\ nx = {} /\ idt = {} /\ lapic = {}
  /\ push_off_count = [c \in Cpus |-> 0]
  /\ int_on = [c \in Cpus |-> FALSE]
  /\ keyboard = FALSE /\ tty = FALSE /\ tss = FALSE
  /\ rsp0 = NoCpu
  /\ stack = [c \in Cpus |-> NoCpu]

\* c goes on from one place to the next.
Step(c, from, to) == pc[c] = from /\ pc' = [pc EXCEPT ![c] = to]

-----------------------------------------------------------------------------
(* kernel.c and spinlock.c                                                 *)

push_off(c) ==
  /\ push_off_count' = [push_off_count EXCEPT ![c] = @ + 1]
  /\ int_on' = [int_on EXCEPT ![c] = FALSE]

\* It panics if interrupts are on already.
pop_off(c) ==
  /\ ~int_on[c]
  /\ push_off_count' = [push_off_count EXCEPT ![c] = @ - 1]
  /\ int_on' = [int_on EXCEPT ![c] = push_off_count[c] = 1]

\* BUG: the lock is taken although another processor has it.
acquireAnyway(c) == lock' = c /\ push_off(c)

acquire(c) == lock = NoCpu /\ lock' = c /\ push_off(c)

\* BUG: the section is left, the lock is not.
releaseNothing(c) == UNCHANGED lock /\ pop_off(c)

release(c) == lock' = NoCpu /\ pop_off(c)

-----------------------------------------------------------------------------
(* boot.S                                                                  *)

\* _start: the tables map the first GiB twice, at 0 and at KERNEL_VMA.
MapKernel(c) ==
  /\ Step(c, "_start", "long_mode_jump")
  /\ identity' = {"low", "kernel"}
  /\ UNCHANGED <<trampoline, direct, nx_flag_enabled, nx, coreVars, intVars, devVars, taskVars>>

\* The trampoline, in real and protected mode, and ap_boot: paging is on at the end.
Trampoline(c) ==
  /\ Step(c, "trampoline", "long_mode_jump")
  /\ UNCHANGED <<memVars, coreVars, intVars, devVars, taskVars>>

\* long_mode_jump, behind which only the mapping at KERNEL_VMA is used, and kernel64.
Kernel64(c) ==
  /\ Step(c, "long_mode_jump", "bsp_detection")
  /\ stack' = [stack EXCEPT ![c] = c]
  /\ UNCHANGED <<memVars, coreVars, intVars, devVars, tss, rsp0>>

\* BUG: the number of running cores is asked, which the first one has counted.
BspDetectionRunning(c) ==
  /\ Step(c, "bsp_detection", IF core_running <= 1 THEN "bsp_startup" ELSE "ap_startup")
  /\ UNCHANGED <<memVars, coreVars, intVars, devVars, taskVars>>

\* The first word of kernel_status tells the boot processor from the others.
BspDetection(c) ==
  /\ Step(c, "bsp_detection", IF core_available = 0 THEN "bsp_startup" ELSE "ap_startup")
  /\ UNCHANGED <<memVars, coreVars, intVars, devVars, taskVars>>

-----------------------------------------------------------------------------
(* bsp_startup                                                             *)

BspPushOff(c) ==
  /\ Step(c, "bsp_startup", "load_multiboot_info")
  /\ push_off(c)
  /\ bsp_id' = c
  /\ UNCHANGED <<memVars, core_available, core_running, loaded, lock, i, devVars, taskVars>>

\* The information of the loader is read at its physical address.
LoadMultibootInfo(c) ==
  /\ Step(c, "load_multiboot_info", "kvminit")
  /\ UNCHANGED <<memVars, coreVars, intVars, devVars, taskVars>>

\* kvminit reads the memory map there too, and maps all of physical memory.
Kvminit(c) ==
  /\ Step(c, "kvminit", "load_rsdp")
  /\ direct' = TRUE
  /\ nx_flag_enabled' = NX
  /\ nx' = IF NX THEN nx \cup {c} ELSE nx
  /\ UNCHANGED <<trampoline, identity, coreVars, intVars, devVars, taskVars>>

LoadRsdp(c) ==
  /\ Step(c, "load_rsdp", "load_idt")
  /\ UNCHANGED <<memVars, coreVars, intVars, devVars, taskVars>>

\* load_idt and enable_lapic; the other processors call them from ap_startup.
LoadIdt(c) ==
  /\ Step(c, "load_idt", "enable_lapic") \/ Step(c, "ap_load_idt", "ap_enable_lapic")
  /\ idt' = idt \cup {c}
  /\ UNCHANGED <<memVars, coreVars, intVars, lapic, keyboard, tty, taskVars>>

\* enable_lapic where the processor has a local APIC and its registers can be mapped:
\* neither caller looks at the 1 it returns where not.
EnableLapic(c) ==
  /\ Step(c, "enable_lapic", "read_madt") \/ Step(c, "ap_enable_lapic", "ap_acquire")
  /\ lapic' = lapic \cup {c}
  /\ UNCHANGED <<memVars, coreVars, intVars, idt, keyboard, tty, taskVars>>

\* read_madt, which counts the processors, and setup_hpet.
ReadMadt(c) ==
  /\ Step(c, "read_madt", "init_ap")
  /\ core_available' = IF Cardinality(Cpus) > MAX_CORES THEN MAX_CORES ELSE Cardinality(Cpus)
  /\ UNCHANGED <<memVars, bsp_id, core_running, loaded, lock, i, intVars, devVars, taskVars>>

-----------------------------------------------------------------------------
(* init_ap                                                                 *)

\* The trampoline is copied, and core_running_lock taken for the whole loop.
InitAp(c) ==
  /\ Step(c, "init_ap", "bsp_load")
  /\ trampoline' = TRUE
  /\ acquire(c)
  /\ UNCHANGED <<identity, direct, nx_flag_enabled, nx, bsp_id, core_available, core_running,
                 loaded, i, devVars, taskVars>>

\* core_running++, by the boot processor and by the others, in two steps.
LoadRunning(c) ==
  /\ Step(c, "bsp_load", "bsp_store") \/ Step(c, "ap_load", "ap_store")
  /\ loaded' = [loaded EXCEPT ![c] = core_running]
  /\ UNCHANGED <<memVars, bsp_id, core_available, core_running, lock, i, intVars, devVars,
                 taskVars>>

StoreRunning(c) ==
  /\ Step(c, "bsp_store", "next_ap") \/ Step(c, "ap_store", "ap_release")
  /\ core_running' = loaded[c] + 1
  /\ UNCHANGED <<memVars, bsp_id, core_available, loaded, lock, i, intVars, devVars, taskVars>>

SkipBsp(c) ==
  /\ pc[c] = "next_ap" /\ i < core_available /\ i = bsp_id
  /\ i' = i + 1
  /\ UNCHANGED <<pc, memVars, bsp_id, core_available, core_running, loaded, lock, intVars,
                 devVars, taskVars>>

\* The INIT message; then processor i, if there is one, waits for a STARTUP message.
SendInit(c) ==
  /\ pc[c] = "next_ap" /\ i < core_available /\ i # bsp_id
  /\ pc' = [d \in Cpus |-> IF d = c THEN "startup_1" ELSE IF d = i THEN "wait" ELSE pc[d]]
  /\ UNCHANGED <<memVars, coreVars, intVars, devVars, taskVars>>

\* pc when c has sent a STARTUP message and goes on to the place given; a processor
\* that does not wait for it ignores the message.
Started(c, to) ==
  [d \in Cpus |-> IF d = c THEN to
                  ELSE IF d = i /\ pc[d] = "wait" THEN "trampoline" ELSE pc[d]]

\* The first message may get lost.
SendStartup1(c) ==
  /\ pc[c] = "startup_1"
  /\ pc' = Started(c, "startup_2") \/ pc' = [pc EXCEPT ![c] = "startup_2"]
  /\ UNCHANGED <<memVars, coreVars, intVars, devVars, taskVars>>

\* BUG: the message is not sent a second time.
SendStartup2Not(c) ==
  /\ pc[c] = "startup_2"
  /\ pc' = [pc EXCEPT ![c] = "next_ap"]
  /\ i' = i + 1
  /\ UNCHANGED <<memVars, bsp_id, core_available, core_running, loaded, lock, intVars, devVars,
                 taskVars>>

SendStartup2(c) ==
  /\ pc[c] = "startup_2"
  /\ pc' = Started(c, "next_ap")
  /\ i' = i + 1
  /\ UNCHANGED <<memVars, bsp_id, core_available, core_running, loaded, lock, intVars, devVars,
                 taskVars>>

\* The end of the loop, and the release of the lock by the others in ap_startup.
ReleaseRunning(c) ==
  /\ \/ i >= core_available /\ Step(c, "next_ap", "disable_id_mapping")
     \/ Step(c, "ap_release", "ap_pop_off")
  /\ release(c)
  /\ UNCHANGED <<memVars, bsp_id, core_available, core_running, loaded, i, devVars, taskVars>>

-----------------------------------------------------------------------------
(* bsp_startup, behind init_ap                                             *)

\* BUG: the whole identity mapping goes.
DisableIdMappingAll(c) ==
  /\ Step(c, "disable_id_mapping", "init_keyboard")
  /\ identity' = {}
  /\ UNCHANGED <<trampoline, direct, nx_flag_enabled, nx, coreVars, intVars, devVars, taskVars>>

\* disable_id_mapping clears the first entry of kernel_p2: 2 MiB of both mappings.
DisableIdMapping(c) ==
  /\ Step(c, "disable_id_mapping", "init_keyboard")
  /\ identity' = identity \ {"low"}
  /\ UNCHANGED <<trampoline, direct, nx_flag_enabled, nx, coreVars, intVars, devVars, taskVars>>

\* init_keyboard, and set_irq: the interrupt goes to the processor with the id 0.
InitKeyboard(c) ==
  /\ Step(c, "init_keyboard", "setup_tss")
  /\ keyboard' = TRUE
  /\ UNCHANGED <<memVars, coreVars, intVars, idt, lapic, tty, taskVars>>

\* init_heap and setup_tss.
SetupTss(c) ==
  /\ Step(c, "setup_tss", "terminal_initialize")
  /\ tss' = TRUE
  /\ UNCHANGED <<memVars, coreVars, intVars, devVars, rsp0, stack>>

TerminalInitialize(c) ==
  /\ Step(c, "terminal_initialize", "pop_off")
  /\ tty' = TRUE
  /\ UNCHANGED <<memVars, coreVars, intVars, idt, lapic, keyboard, taskVars>>

\* The last statement before main, of both.
PopOff(c) ==
  /\ Step(c, "pop_off", "main") \/ Step(c, "ap_pop_off", "main")
  /\ pop_off(c)
  /\ UNCHANGED <<memVars, coreVars, devVars, taskVars>>

-----------------------------------------------------------------------------
(* ap_startup                                                              *)

\* BUG: the section is not entered.
ApPushOffNot(c) ==
  /\ Step(c, "ap_startup", "ap_enable_nx")
  /\ UNCHANGED <<memVars, coreVars, intVars, devVars, taskVars>>

ApPushOff(c) ==
  /\ Step(c, "ap_startup", "ap_enable_nx")
  /\ push_off(c)
  /\ UNCHANGED <<memVars, coreVars, devVars, taskVars>>

ApEnableNx(c) ==
  /\ Step(c, "ap_enable_nx", "ap_load_idt")
  /\ nx' = IF nx_flag_enabled THEN nx \cup {c} ELSE nx
  /\ UNCHANGED <<trampoline, identity, direct, nx_flag_enabled, coreVars, intVars, devVars, taskVars>>

ApAcquire(c) ==
  /\ Step(c, "ap_acquire", "ap_load")
  /\ acquire(c)
  /\ UNCHANGED <<memVars, bsp_id, core_available, core_running, loaded, i, devVars, taskVars>>

-----------------------------------------------------------------------------
(* main, and schedule on a CPU that has no thread                          *)

\* main arms the timer and idles.
Main(c) ==
  /\ Step(c, "main", "idle")
  /\ UNCHANGED <<memVars, coreVars, intVars, devVars, taskVars>>

\* The timer interrupt, 100 ms after main, when the boot processor has long made the
\* tss: schedule saves the stack the CPU idles on in the tss...
UpdateRsp0(c) ==
  /\ int_on[c] /\ tss
  /\ Step(c, "idle", "get_rsp0")
  /\ rsp0' = stack[c]
  /\ UNCHANGED <<memVars, coreVars, intVars, devVars, tss, stack>>

\* ... and finding no thread, goes on idling on the stack the tss names.
GetRsp0(c) ==
  /\ Step(c, "get_rsp0", "idle")
  /\ stack' = [stack EXCEPT ![c] = rsp0]
  /\ UNCHANGED <<memVars, coreVars, intVars, devVars, tss, rsp0>>

-----------------------------------------------------------------------------

Boot(c) ==
  \/ MapKernel(c) \/ Trampoline(c) \/ Kernel64(c) \/ BspDetection(c)
  \/ BspPushOff(c) \/ LoadMultibootInfo(c) \/ Kvminit(c) \/ LoadRsdp(c)
  \/ LoadIdt(c) \/ EnableLapic(c) \/ ReadMadt(c)
  \/ InitAp(c) \/ LoadRunning(c) \/ StoreRunning(c) \/ ReleaseRunning(c)
  \/ SkipBsp(c) \/ SendInit(c) \/ SendStartup1(c) \/ SendStartup2(c)
  \/ DisableIdMapping(c) \/ InitKeyboard(c) \/ SetupTss(c) \/ TerminalInitialize(c)
  \/ ApPushOff(c) \/ ApEnableNx(c) \/ ApAcquire(c) \/ PopOff(c)
  \/ Main(c) \/ UpdateRsp0(c) \/ GetRsp0(c)

Next == \E c \in Cpus : Boot(c)

\* A processor that was started executes its next instruction.
Spec == Init /\ [][Next]_vars /\ \A c \in Cpus : WF_vars(Boot(c))

-----------------------------------------------------------------------------
(* Properties.                                                             *)

Bsp == {"_start", "bsp_startup", "load_multiboot_info", "kvminit", "load_rsdp", "load_idt",
        "enable_lapic", "read_madt", "init_ap", "bsp_load", "bsp_store", "next_ap",
        "startup_1", "startup_2", "disable_id_mapping", "init_keyboard", "setup_tss",
        "terminal_initialize", "pop_off"}

Arrived == {"main", "idle", "get_rsp0"}

\* One processor at most is in bsp_startup: bsp_detection, which asks core_available,
\* takes none of those that init_ap starts for the boot processor.
OneBootProcessor == \A c, d \in Cpus : pc[c] \in Bsp /\ pc[d] \in Bsp => c = d

\* The memory that the next step of a processor uses.
Need(p) ==
  CASE p = "trampoline" -> {"trampoline"}
    [] p = "long_mode_jump" -> {"kernel"}
    [] p \in {"load_multiboot_info", "kvminit"} -> {"low", "kernel"}
    [] p \in {"load_rsdp", "enable_lapic", "ap_enable_lapic", "read_madt", "init_ap",
              "setup_tss", "terminal_initialize"} -> {"direct"}
    [] OTHER -> {}

\* What a processor can use: the entries of the direct mapping have the XD bit, which
\* a processor whose NX flag is off takes for an error in the table.
Usable(c) ==
  identity \cup (IF trampoline THEN {"trampoline"} ELSE {})
           \cup (IF direct /\ (nx_flag_enabled => c \in nx) THEN {"direct"} ELSE {})

\* Every processor finds the memory it uses mapped, also one that starts so late that
\* the boot processor has called disable_id_mapping.
Reachable == \A c \in Cpus : Need(pc[c]) \subseteq Usable(c)

\* A processor has interrupts on only in main, and then what the handlers use is there:
\* the IDT, the local APIC and, for the keyboard, whose interrupt goes to the processor
\* 0, the terminal, if that is the boot processor.
InterruptsFindHandlers ==
  \A c \in Cpus : int_on[c] =>
    /\ pc[c] \in Arrived /\ c \in idt /\ c \in lapic
    /\ c = 0 /\ bsp_id = 0 /\ keyboard => tty

\* Those that have counted themselves in.
Counted ==
  {c \in Cpus : pc[c] \in Arrived \cup
     {"next_ap", "startup_1", "startup_2", "disable_id_mapping", "init_keyboard",
      "setup_tss", "terminal_initialize", "pop_off", "ap_release", "ap_pop_off"}}

\* core_running, which each processor increments for itself, is their number.
CountRight == core_running = Cardinality(Counted)

\* Every processor with an id below core_available, also one that missed the first
\* STARTUP message, comes to main, past the lock that init_ap holds meanwhile.
AllArrive == \A c \in Cpus : c < core_available ~> pc[c] = "idle"

=============================================================================
