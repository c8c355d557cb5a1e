------------------------------- MODULE Timers -------------------------------
(***************************************************************************)
(* The two clocks of a machine and what is built on them: the delays that  *)
(* poll the HPET (sleep_polled_hpet, under millidelay), the calibration of *)
(* the local APIC timer against such a delay, and arm_timer as main and    *)
(* schedule call it, on every CPU.                                         *)
(*                                                                         *)
(* Time passes in instants, of a femtosecond, the unit in which the code   *)
(* has its durations.  The HPET counts a tick every hpet_period instants   *)
(* and a local APIC timer a cycle every lapic_period; the clocks run in no *)
(* particular phase, and neither period need divide the other, or a        *)
(* duration.  An instant may fall between any two instructions, and a CPU  *)
(* may be slow: any number of instants may.                                *)
(***************************************************************************)
EXTENDS Naturals

CONSTANTS
  Cores,         \* the CPUs
  BootCore,      \* the one that starts the others
  UINT64,        \* the number of values of the HPET's counter and of a u64
  UINT32_MAX,    \* the longest count of a local APIC timer
  hpet_period,   \* the instants of a tick of the HPET
  lapic_period,  \* the instants of a cycle of a local APIC timer, to be found
  CALIBRATION_DURATION,
  Delays,        \* the delays that callers of millidelay ask for
  Slices         \* the times that callers of arm_timer ask for

\* What is left of a calibration if its first and its last tick are cut short and a
\* cycle is under way at its end.
Measured == CALIBRATION_DURATION - 2 * hpet_period - lapic_period

\* A delay is shorter than the HPET's counter is long.  A calibration is longer than
\* what can be lost of it, ends before the timer has counted down, and finds a period
\* that is not 0.  No slice is shorter than the longest period it can find.
ASSUME TimersAssumption ==
  /\ BootCore \in Cores
  /\ UINT64 \in Nat \ {0} /\ UINT32_MAX \in Nat \ {0}
  /\ hpet_period \in Nat \ {0} /\ lapic_period \in Nat \ {0}
  /\ Delays \subseteq Nat /\ Slices \subseteq Nat /\ CALIBRATION_DURATION \in Nat
  /\ \A f \in Delays \cup {CALIBRATION_DURATION} :
       f \div hpet_period \in Nat /\ f \div hpet_period < UINT64
  /\ 2 * hpet_period + lapic_period < CALIBRATION_DURATION
  /\ CALIBRATION_DURATION <= UINT32_MAX * lapic_period
  /\ UINT32_MAX <= CALIBRATION_DURATION
  /\ \A s \in Slices : s * Measured >= CALIBRATION_DURATION * lapic_period

VARIABLES
  counter,        \* the main counter of the HPET
  phase,          \* the instants since it was counted up
  lapic_phase,    \* the instants since each local APIC timer was at the end of a cycle
  cpuid_15,       \* whether cpuid tells the frequency of the local APIC timer
  period,         \* of the local APIC timer; 0 until it is known
  handler,        \* entry 0x40 of the IDT is set
  at,             \* what each CPU does next
  from,           \* where the CPU goes on behind a delay
  cycle, target,  \* locals of sleep_polled_hpet; cycle also of arm_apic_timer
  slice,          \* the argument of arm_timer
  masked,         \* of the CPU's LVT timer entry
  count,          \* the CPU's current count register
  pending,        \* the interrupt of the CPU's timer is pending
  slept,          \* the ticks of the delay under way, up to UINT64
  ran             \* the instants since the CPU's timer was set, until it has counted down

hardware == <<counter, phase, lapic_phase, cpuid_15>>
sleepVars == <<from, cycle, target, slept>>
lapicVars == <<masked, count, pending, ran>>
timersVars == <<hardware, period, handler, at, sleepVars, slice, lapicVars>>

TimersInit ==
  /\ counter \in 0 .. UINT64 - 1 /\ phase \in 0 .. hpet_period - 1
  /\ lapic_phase \in [Cores -> 0 .. lapic_period - 1]
  /\ cpuid_15 \in BOOLEAN
  /\ period = 0 /\ handler = FALSE
  /\ at = [c \in Cores |-> "startup"]
  /\ from = [c \in Cores |-> "startup"]
  /\ cycle = [c \in Cores |-> 0]
  /\ target = [c \in Cores |-> 0]
  /\ slice = [c \in Cores |-> 0]
  /\ masked = [c \in Cores |-> TRUE]
  /\ count = [c \in Cores |-> 0]
  /\ pending = [c \in Cores |-> FALSE]
  /\ slept = [c \in Cores |-> 0]
  /\ ran = [c \in Cores |-> 0]

Goto(c, to) == at' = [at EXCEPT ![c] = to]

\* The sum of two u64 values below UINT64.
Plus(m, n) == IF m + n < UINT64 THEN m + n ELSE m + n - UINT64

-----------------------------------------------------------------------------
(* The hardware.                                                           *)

Least(m, n) == IF m < n THEN m ELSE n

\* The HPET counts up, and c's timer is at the end of a cycle.
Ticks == phase = hpet_period - 1
Cycles(c) == lapic_phase[c] = lapic_period - 1

\* The HPET counts up, past its end from 0; the timers count down, and a timer that
\* arrives at 0 raises its interrupt unless it is masked.
Instant ==
  /\ phase' = IF Ticks THEN 0 ELSE phase + 1
  /\ counter' = IF Ticks THEN Plus(counter, 1) ELSE counter
  /\ slept' = [c \in Cores |-> IF at[c] \in {"past_end", "wait"} /\ Ticks
                               THEN Least(slept[c] + 1, UINT64) ELSE slept[c]]
  /\ lapic_phase' = [c \in Cores |-> IF Cycles(c) THEN 0 ELSE lapic_phase[c] + 1]
  /\ count' = [c \in Cores |-> IF Cycles(c) /\ count[c] > 0 THEN count[c] - 1 ELSE count[c]]
  /\ ran' = [c \in Cores |-> IF count[c] > 0 THEN ran[c] + 1 ELSE ran[c]]
  /\ pending' = [c \in Cores |-> pending[c] \/ (Cycles(c) /\ count[c] = 1 /\ ~masked[c])]
  /\ UNCHANGED <<cpuid_15, period, handler, at, from, cycle, target, slice, masked>>

-----------------------------------------------------------------------------
(* sleep_polled_hpet                                                       *)

\* BUG: a target past the end of the counter is taken for one that is reached.
SleepOneLoop(c) ==
  /\ at[c] = "sleep"
  /\ target' = [target EXCEPT ![c] = Plus(counter, cycle[c])]
  /\ slept' = [slept EXCEPT ![c] = 0]
  /\ Goto(c, "wait")
  /\ UNCHANGED <<hardware, period, handler, from, cycle, slice, lapicVars>>

\* The counter is read once for the target, which may lie past the counter's end.
Sleep(c) ==
  /\ at[c] = "sleep"
  /\ target' = [target EXCEPT ![c] = Plus(counter, cycle[c])]
  /\ slept' = [slept EXCEPT ![c] = 0]
  /\ Goto(c, IF counter > Plus(counter, cycle[c]) THEN "past_end" ELSE "wait")
  /\ UNCHANGED <<hardware, period, handler, from, cycle, slice, lapicVars>>

\* The first loop is left by a poll that finds the counter started over...
LeavePastEnd(c) ==
  /\ at[c] = "past_end" /\ counter <= target[c]
  /\ Goto(c, "wait")
  /\ UNCHANGED <<hardware, period, handler, sleepVars, slice, lapicVars>>

\* ... and the second by one that finds it at the target or behind.
Wake(c) ==
  /\ at[c] = "wait" /\ counter >= target[c]
  /\ Goto(c, from[c])
  /\ cycle' = [cycle EXCEPT ![c] = 0]
  /\ target' = [target EXCEPT ![c] = 0]
  /\ slept' = [slept EXCEPT ![c] = 0]
  /\ UNCHANGED <<hardware, period, handler, from, slice, lapicVars>>

\* The boot processor waits between its messages to the others.
Delay(c) ==
  /\ c = BootCore /\ at[c] = "startup"
  /\ \E f \in Delays : cycle' = [cycle EXCEPT ![c] = f \div hpet_period]
  /\ from' = [from EXCEPT ![c] = "startup"]
  /\ Goto(c, "sleep")
  /\ UNCHANGED <<hardware, period, handler, target, slice, lapicVars,
                 slept>>

-----------------------------------------------------------------------------
(* arm_timer, which main calls and then, in the interrupt, schedule        *)

MainArms(c) ==
  /\ at[c] = "startup"
  /\ slice' \in {[slice EXCEPT ![c] = s] : s \in Slices}
  /\ Goto(c, "arm")
  /\ UNCHANGED <<hardware, period, handler, sleepVars, lapicVars>>

Schedule(c) ==
  /\ at[c] = "idle" /\ pending[c]
  /\ pending' = [pending EXCEPT ![c] = FALSE]
  /\ ran' = [ran EXCEPT ![c] = 0]
  /\ slice' \in {[slice EXCEPT ![c] = s] : s \in Slices}
  /\ Goto(c, "arm")
  /\ UNCHANGED <<hardware, period, handler, sleepVars, masked, count>>

\* The period is shared, and no lock keeps two CPUs from looking for it at once.
ArmTimer(c) ==
  /\ at[c] = "arm"
  /\ Goto(c, IF period = 0 THEN "calibrate" ELSE "lvt")
  /\ UNCHANGED <<hardware, period, handler, sleepVars, slice, lapicVars>>

\* cpuid tells the period...
CalibrateCpuid(c) ==
  /\ at[c] = "calibrate" /\ cpuid_15
  /\ period' = lapic_period
  /\ Goto(c, "idt")
  /\ UNCHANGED <<hardware, handler, sleepVars, slice, lapicVars>>

\* ... or the masked timer counts down during a delay.
CalibrateCount(c) ==
  /\ at[c] = "calibrate" /\ ~cpuid_15
  /\ masked' = [masked EXCEPT ![c] = TRUE]
  /\ count' = [count EXCEPT ![c] = UINT32_MAX]
  /\ ran' = [ran EXCEPT ![c] = 0]
  /\ cycle' = [cycle EXCEPT ![c] = CALIBRATION_DURATION \div hpet_period]
  /\ from' = [from EXCEPT ![c] = "cycles"]
  /\ Goto(c, "sleep")
  /\ UNCHANGED <<hardware, period, handler, target, slice, pending, slept>>

ReadCount(c) ==
  /\ at[c] = "cycles"
  /\ period' = CALIBRATION_DURATION \div (UINT32_MAX - count[c])
  /\ Goto(c, "idt")
  /\ UNCHANGED <<hardware, handler, sleepVars, slice, lapicVars>>

SetIdtEntry(c) ==
  /\ at[c] = "idt"
  /\ handler' = TRUE
  /\ Goto(c, "lvt")
  /\ UNCHANGED <<hardware, period, sleepVars, slice, lapicVars>>

\* BUG: the register takes the low half of a slice that is too long for it.
WriteLvtUnclamped(c) ==
  /\ at[c] = "lvt"
  /\ cycle' = [cycle EXCEPT ![c] = (slice[c] \div period) % (UINT32_MAX + 1)]
  /\ masked' = [masked EXCEPT ![c] = FALSE]
  /\ Goto(c, "initial_count")
  /\ UNCHANGED <<hardware, period, handler, from, target, slice, count, pending, ran,
                 slept>>

\* BUG: the entry stays as calibrate_apic_timer has left it.
WriteLvtMasked(c) ==
  /\ at[c] = "lvt"
  /\ cycle' = [cycle EXCEPT ![c] = Least(slice[c] \div period, UINT32_MAX)]
  /\ Goto(c, "initial_count")
  /\ UNCHANGED <<hardware, period, handler, from, target, slice, masked,
                 count, pending, ran, slept>>

\* The slice in cycles, as many as the timer can count, and the LVT entry.
WriteLvt(c) ==
  /\ at[c] = "lvt"
  /\ cycle' = [cycle EXCEPT ![c] = Least(slice[c] \div period, UINT32_MAX)]
  /\ masked' = [masked EXCEPT ![c] = FALSE]
  /\ Goto(c, "initial_count")
  /\ UNCHANGED <<hardware, period, handler, from, target, slice,
                 count, pending, ran, slept>>

WriteCount(c) ==
  /\ at[c] = "initial_count"
  /\ count' = [count EXCEPT ![c] = cycle[c]]
  /\ ran' = [ran EXCEPT ![c] = 0]
  /\ cycle' = [cycle EXCEPT ![c] = 0]
  /\ Goto(c, "idle")
  /\ UNCHANGED <<hardware, period, handler, from, target, slept, slice, masked, pending>>

-----------------------------------------------------------------------------

\* What a CPU does outside of the two loops.
Execute(c) ==
  \/ Sleep(c) \/ MainArms(c) \/ Schedule(c) \/ ArmTimer(c)
  \/ CalibrateCpuid(c) \/ CalibrateCount(c) \/ ReadCount(c) \/ SetIdtEntry(c)
  \/ WriteLvt(c) \/ WriteCount(c)

TimersNext == Instant \/ \E c \in Cores : Execute(c) \/ Delay(c) \/ LeavePastEnd(c) \/ Wake(c)

\* The clock runs and so do the CPUs.  A CPU in a loop polls without a pause, and the
\* counter stays at a value for many instructions: it is not always read at the same
\* wrong time.
TimersFairness ==
  /\ WF_timersVars(Instant)
  /\ \A c \in Cores : /\ WF_timersVars(Execute(c))
                     /\ SF_timersVars(LeavePastEnd(c)) /\ SF_timersVars(Wake(c))

TimersSpec == TimersInit /\ [][TimersNext]_timersVars /\ TimersFairness

-----------------------------------------------------------------------------
(* Properties.                                                             *)

\* sleep_polled_hpet sees at least as many ticks as it was asked for, the first of which
\* may have begun before, wherever the counter starts over, and however long the CPU
\* does not look at it.
SleepsLongEnough ==
  [][\A c \in Cores : at[c] = "wait" /\ at'[c] # "wait" => slept[c] >= cycle[c]]_timersVars

\* A local APIC timer that arm_timer has set is early by the error of the calibration at
\* most, two ticks of the HPET and a cycle in CALIBRATION_DURATION, and by two cycles
\* more, for the divisions; or it has run for as long as it can count.  Which CPU has
\* found the period, how often, and how late it has read the count does not matter.
NeverEarly ==
  [][\A c \in Cores : at[c] = "idle" /\ ~pending[c] /\ pending'[c] =>
       \/ (ran'[c] + 2 * lapic_period) * CALIBRATION_DURATION >= slice[c] * Measured
       \/ ran'[c] + lapic_period >= UINT32_MAX * lapic_period]_timersVars

\* A CPU that calls arm_timer is interrupted, so schedule runs again, and again.
Interrupted == \A c \in Cores : at[c] = "arm" ~> pending[c]

=============================================================================
