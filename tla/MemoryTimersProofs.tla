------------------------- MODULE MemoryTimersProofs -------------------------
(***************************************************************************)
(* Proofs about Timers, for every number of CPUs, width of the counters,   *)
(* clock: no delay is too short and no timer earlier than it may be. About *)
(* PhysicalAllocator, for every number of CPUs, every page size and every  *)
(* RAM: no page is handed out twice or lost, the bitmap agrees with the    *)
(* list, and the allocator implements PagePool.  And about VmmAreas, for   *)
(* every page size, address space and sequence of requests: areas never    *)
(* overlap, are found by get_memory_area, and have slots of their own.     *)
(***************************************************************************)
EXTENDS Timers, PhysicalAllocator, VmmAreas, SequenceTheorems, TLAPS

(***************************************************************************)
(* Timers                                                                  *)
(***************************************************************************)

Sleeping == {"sleep", "past_end", "wait"}

TimersPlaces ==
  Sleeping \cup {"startup", "arm", "calibrate", "cycles", "idt", "lvt", "initial_count", "idle"}

TimersTypeOK ==
  /\ counter \in 0 .. UINT64 - 1
  /\ at \in [Cores -> TimersPlaces]
  /\ from \in [Cores -> {"startup", "cycles"}]
  /\ DOMAIN cycle = Cores
  /\ target \in [Cores -> 0 .. UINT64 - 1]
  /\ slept \in [Cores -> 0 .. UINT64]

\* Where the counter was when c began its delay.
Begun(c) == IF target[c] >= cycle[c] THEN target[c] - cycle[c] ELSE target[c] - cycle[c] + UINT64

\* During a delay the counter is as many ticks past where the delay began as have been
\* counted; the first loop is for the targets past the end, and once it is left the
\* counter has started over.
Delaying(c) ==
  /\ at[c] \in Sleeping => cycle[c] \in 0 .. UINT64 - 1
  /\ at[c] \in {"past_end", "wait"} /\ slept[c] < UINT64 =>
       counter = Begun(c) + slept[c] \/ counter = Begun(c) + slept[c] - UINT64
  /\ at[c] = "past_end" => target[c] < cycle[c]
  /\ at[c] = "wait" /\ target[c] < cycle[c] => slept[c] >= UINT64 - Begun(c)

\* What every step preserves.
TimersIInv == TimersTypeOK /\ \A c \in Cores : Delaying(c)

\* The step property that SleepsLongEnough asks for.
NoShortDelay == \A c \in Cores : at[c] = "wait" /\ at'[c] # "wait" => slept[c] >= cycle[c]

\* The counter has some width.
LEMMA Width == UINT64 \in Nat \ {0}
  BY TimersAssumption, Zenon

USE Width

\* The invariant holds before any CPU has begun a delay.
LEMMA TimersInitIInv == TimersInit => TimersIInv
  BY DEF TimersInit, TimersIInv, TimersTypeOK, Delaying, Sleeping, TimersPlaces

\* The counter and the ticks of every delay grow together.
LEMMA InstantStep == TimersIInv /\ Instant => TimersIInv'
<1> SUFFICES ASSUME TimersIInv, Instant PROVE TimersIInv'
  BY Zenon
<1> USE DEF TimersIInv, TimersTypeOK, Least
<1>1. CASE ~Ticks
  <2>1. counter' = counter /\ slept' = slept /\ UNCHANGED <<at, from, cycle, target>>
    BY <1>1, Zenon DEF Instant
  <2> QED
    BY <2>1, Zenon DEF Delaying, Begun
<1>2. CASE Ticks
  <2>1. counter' = Plus(counter, 1) /\ UNCHANGED <<at, from, cycle, target>>
    BY <1>2, Zenon DEF Instant
  <2>2. slept' = [c \in Cores |-> IF at[c] \in {"past_end", "wait"}
                                  THEN Least(slept[c] + 1, UINT64) ELSE slept[c]]
    BY <1>2, Zenon DEF Instant
  <2>3. TimersTypeOK'
    BY <2>1, <2>2 DEF Plus
  <2>4. ASSUME NEW c \in Cores PROVE Delaying(c)'
    <3>1. CASE at[c] \notin {"past_end", "wait"}
      BY <2>1, <2>4, <3>1, Zenon DEF Delaying, Sleeping
    <3>2. CASE at[c] \in {"past_end", "wait"}
      <4>1. cycle[c] \in 0 .. UINT64 - 1 /\ target[c] \in 0 .. UINT64 - 1
        BY <2>4, <3>2, Zenon DEF Delaying, Sleeping
      <4>2. /\ at'[c] = at[c] /\ cycle'[c] = cycle[c] /\ target'[c] = target[c]
            /\ slept'[c] = Least(slept[c] + 1, UINT64) /\ slept[c] \in 0 .. UINT64
        BY <2>1, <2>2, <2>4, <3>2, Zenon
      <4>3. Begun(c)' = Begun(c) /\ Begun(c) \in 0 .. UINT64 - 1
        BY <4>1, <4>2 DEF Begun
      <4>4. slept'[c] < UINT64 =>
              counter' = Begun(c) + slept'[c] \/ counter' = Begun(c) + slept'[c] - UINT64
        BY <2>1, <2>4, <3>2, <4>2, <4>3 DEF Delaying, Plus
      <4>5. at[c] = "wait" /\ target[c] < cycle[c] => slept'[c] >= UINT64 - Begun(c)
        BY <2>4, <3>2, <4>2, <4>3 DEF Delaying
      <4> QED
        BY <2>4, <4>1, <4>2, <4>3, <4>4, <4>5, Zenon DEF Delaying, Sleeping
    <3> QED
      BY <3>1, <3>2, Zenon
  <2> QED
    BY <2>3, <2>4, Zenon
<1> QED
  BY <1>1, <1>2, Zenon

\* A CPU begins a delay, looks at the counter, or does something else.
LEMMA CpuStep ==
  ASSUME TimersIInv, NEW c \in Cores, Execute(c) \/ Delay(c) \/ LeavePastEnd(c) \/ Wake(c)
  PROVE  TimersIInv'
<1> USE DEF TimersIInv, TimersTypeOK, Goto, hardware, sleepVars, Sleeping, TimersPlaces
<1>1. CASE Sleep(c)
  <2>1. TimersTypeOK' /\ \A d \in Cores \ {c} : Delaying(d)'
    BY <1>1 DEF Sleep, Plus, Delaying, Begun
  <2>2. Delaying(c)'
    BY <1>1 DEF Sleep, Plus, Delaying, Begun
  <2> QED
    BY <2>1, <2>2, Zenon
<1>2. CASE Delay(c)
  <2>1. PICK f \in Delays : cycle' = [cycle EXCEPT ![c] = f \div hpet_period]
    BY <1>2, Zenon DEF Delay
  <2>2. f \div hpet_period \in 0 .. UINT64 - 1
    <3>1. f \div hpet_period \in Nat /\ f \div hpet_period < UINT64
      BY TimersAssumption, Zenon
    <3> QED
      BY <3>1
  <2> QED
    BY <1>2, <2>1, <2>2, Zenon DEF Delay, Delaying, Begun
<1>3. CASE LeavePastEnd(c)
  <2>1. /\ cycle[c] \in 0 .. UINT64 - 1 /\ target[c] < cycle[c] /\ counter <= target[c]
        /\ target[c] \in 0 .. UINT64 - 1 /\ slept[c] \in 0 .. UINT64
        /\ slept[c] < UINT64 =>
             counter = Begun(c) + slept[c] \/ counter = Begun(c) + slept[c] - UINT64
    BY <1>3, Zenon DEF LeavePastEnd, Delaying
  <2>2. slept[c] >= UINT64 - Begun(c)
    BY <2>1 DEF Begun
  <2> QED
    BY <1>3, <2>1, <2>2, Zenon DEF LeavePastEnd, Delaying, Begun
<1>4. CASE Wake(c)
  BY <1>4 DEF Wake, Delaying, Begun
<1>5. CASE CalibrateCount(c)
  <2>1. CALIBRATION_DURATION \div hpet_period \in 0 .. UINT64 - 1
    <3>1. /\ CALIBRATION_DURATION \div hpet_period \in Nat
          /\ CALIBRATION_DURATION \div hpet_period < UINT64
      BY TimersAssumption, Zenon
    <3> QED
      BY <3>1
  <2> QED
    BY <1>5, <2>1, Zenon DEF CalibrateCount, Delaying, Begun
<1>6. CASE WriteLvt(c) \/ WriteCount(c)
  <2>1. CASE WriteLvt(c)
    BY <2>1, Zenon DEF WriteLvt, Delaying, Begun
  <2>2. CASE WriteCount(c)
    BY <2>2, Zenon DEF WriteCount, Delaying, Begun
  <2> QED
    BY <1>6, <2>1, <2>2, Zenon
<1>7. CASE MainArms(c) \/ Schedule(c) \/ ArmTimer(c)
  BY <1>7 DEF MainArms, Schedule, ArmTimer, Delaying, Begun
<1>8. CASE CalibrateCpuid(c) \/ ReadCount(c) \/ SetIdtEntry(c)
  BY <1>8, Zenon DEF CalibrateCpuid, ReadCount, SetIdtEntry, Delaying, Begun
<1> QED
  BY <1>1, <1>2, <1>3, <1>4, <1>5, <1>6, <1>7, <1>8, Zenon DEF Execute

\* A CPU leaves the second loop in Wake only, and the invariant says how many ticks
\* have been.
LEMMA WakeInTime == TimersIInv /\ TimersNext => NoShortDelay
<1> SUFFICES ASSUME TimersIInv, TimersNext, NEW c \in Cores, at[c] = "wait", at'[c] # "wait"
             PROVE  slept[c] >= cycle[c]
  BY Zenon DEF NoShortDelay
<1>1. Wake(c)
  <2>1. ~Instant
    BY Zenon DEF Instant
  <2>2. PICK d \in Cores : Execute(d) \/ Delay(d) \/ LeavePastEnd(d) \/ Wake(d)
    BY <2>1, Zenon DEF TimersNext
  <2>3. \E to : Goto(d, to)
    BY <2>2, Zenon DEF Execute, Sleep, Delay, LeavePastEnd, Wake, CalibrateCount, WriteLvt,
       WriteCount, MainArms, Schedule, ArmTimer, CalibrateCpuid, ReadCount, SetIdtEntry
  <2>4. d = c
    BY <2>3, Zenon DEF Goto, TimersIInv, TimersTypeOK
  <2> QED
    BY <2>2, <2>4, Zenon DEF Execute, Sleep, Delay, LeavePastEnd, CalibrateCount, WriteLvt,
       WriteCount, MainArms, Schedule, ArmTimer, CalibrateCpuid, ReadCount, SetIdtEntry
<1>2. /\ counter >= target[c] /\ counter \in 0 .. UINT64 - 1
      /\ cycle[c] \in 0 .. UINT64 - 1 /\ target[c] \in 0 .. UINT64 - 1
      /\ slept[c] \in 0 .. UINT64
      /\ slept[c] < UINT64 =>
           counter = Begun(c) + slept[c] \/ counter = Begun(c) + slept[c] - UINT64
      /\ target[c] < cycle[c] => slept[c] >= UINT64 - Begun(c)
  BY <1>1, Zenon DEF Wake, TimersIInv, TimersTypeOK, Delaying, Sleeping
<1> QED
  BY <1>2 DEF Begun

\* The invariant, for every machine.
THEOREM TimersInvariance == TimersSpec => []TimersIInv
<1>1. TimersIInv /\ [TimersNext]_timersVars => TimersIInv'
  <2>1. TimersIInv /\ UNCHANGED timersVars => TimersIInv'
    BY Zenon DEF TimersIInv, TimersTypeOK, Delaying, Begun, timersVars, hardware, sleepVars
  <2> QED
    BY <2>1, InstantStep, CpuStep, Zenon DEF TimersNext
<1> QED
  BY <1>1, TimersInitIInv, PTL DEF TimersSpec

\* sleep_polled_hpet, polling a counter of any width that starts over at its end, takes
\* the ticks it was asked for at least, on every CPU.
THEOREM DelaysAreLongEnough == TimersSpec => SleepsLongEnough
<1>1. TimersIInv /\ [TimersNext]_timersVars => [NoShortDelay]_timersVars
  BY WakeInTime, Zenon
<1> QED
  BY <1>1, TimersInvariance, PTL DEF TimersSpec, SleepsLongEnough, NoShortDelay

-----------------------------------------------------------------------------
(* The local APIC timers.                                                  *)

\* The instants that c's timer has run, and those of the cycles that it still has to
\* make, but for what is left of the one under way: the same for as long as it counts.
Whole(c) == ran[c] + count[c] * lapic_period + (lapic_period - 1 - lapic_phase[c])

\* A timer that counts for w instants counts for the time c has asked for, by the
\* longest period that a calibration finds, or for as long as it can.
LongEnough(c, w) ==
  \/ (w + lapic_period) * CALIBRATION_DURATION >= slice[c] * Measured
  \/ w >= UINT32_MAX * lapic_period

CountType ==
  /\ phase \in 0 .. hpet_period - 1
  /\ lapic_phase \in [Cores -> 0 .. lapic_period - 1]
  /\ period \in Nat
  /\ cycle \in [Cores -> Nat]
  /\ slice \in [Cores -> Nat]
  /\ count \in [Cores -> 0 .. UINT32_MAX]
  /\ ran \in [Cores -> Nat]
  /\ DOMAIN pending = Cores

\* The calibration of c is under way, and its timer counts.
Calibrates(c) ==
  /\ at[c] = "cycles" \/ (at[c] \in Sleeping /\ from[c] = "cycles")
  /\ count[c] > 0

\* The timer has run for the ticks of the delay but a part of the first; its cycles are
\* those of the time it has run, but for one; and it has run, when the delay is over, for
\* all of the calibration but a part of two ticks.
Counting(c) ==
  /\ at[c] \in Sleeping /\ from[c] = "cycles" =>
       cycle[c] = CALIBRATION_DURATION \div hpet_period
  /\ Calibrates(c) => Whole(c) < (UINT32_MAX + 1) * lapic_period
  /\ Calibrates(c) /\ at[c] \in {"past_end", "wait"} =>
       ran[c] + hpet_period > slept[c] * hpet_period + phase
  /\ Calibrates(c) /\ at[c] = "cycles" => ran[c] + 2 * hpet_period > CALIBRATION_DURATION
  /\ at[c] \in {"idt", "lvt"} => period # 0
  /\ at[c] = "initial_count" => cycle[c] <= UINT32_MAX /\ LongEnough(c, cycle[c] * lapic_period)
  /\ at[c] = "idle" /\ count[c] > 0 => LongEnough(c, Whole(c))

\* What every step preserves, given TimersIInv: the period is not longer than the true
\* one by more than the error of a calibration.
CountInv ==
  /\ CountType
  /\ period * Measured <= CALIBRATION_DURATION * lapic_period
  /\ \A c \in Cores : Counting(c)

\* The step property that NeverEarly asks for.
NoEarlyInterrupt ==
  \A c \in Cores : at[c] = "idle" /\ ~pending[c] /\ pending'[c] =>
    \/ (ran'[c] + 2 * lapic_period) * CALIBRATION_DURATION >= slice[c] * Measured
    \/ ran'[c] + lapic_period >= UINT32_MAX * lapic_period

\* The numbers of a machine.
LEMMA Numbers ==
  /\ hpet_period \in Nat \ {0} /\ lapic_period \in Nat \ {0} /\ UINT32_MAX \in Nat \ {0}
  /\ CALIBRATION_DURATION \in Nat \ {0} /\ Measured \in Nat \ {0}
  /\ Measured + 2 * hpet_period + lapic_period = CALIBRATION_DURATION
  /\ CALIBRATION_DURATION \div hpet_period \in Nat
  /\ CALIBRATION_DURATION <= UINT32_MAX * lapic_period
  /\ UINT32_MAX <= CALIBRATION_DURATION
  BY TimersAssumption DEF Measured

\* Products grow with their factors.
LEMMA Times ==
  ASSUME NEW m \in Nat, NEW n \in Nat, NEW k \in Nat, m <= n
  PROVE  m * k \in Nat /\ n * k \in Nat /\ m * k <= n * k
  OBVIOUS

\* A quotient is off by less than one.
LEMMA Quotient ==
  ASSUME NEW m \in Nat, NEW n \in Nat \ {0}
  PROVE  /\ m \div n \in Nat
         /\ (m \div n) * n <= m /\ m < (m \div n) * n + n
  OBVIOUS

\* More cycles in the same time are a shorter period.
LEMMA NotTooLong ==
  ASSUME NEW n \in Nat \ {0}, n <= UINT32_MAX, n * lapic_period >= Measured
  PROVE  /\ CALIBRATION_DURATION \div n \in Nat \ {0}
         /\ (CALIBRATION_DURATION \div n) * Measured <= CALIBRATION_DURATION * lapic_period
<1>1. PICK q \in Nat : /\ q = CALIBRATION_DURATION \div n
                       /\ q * n <= CALIBRATION_DURATION
                       /\ CALIBRATION_DURATION < q * n + n
  BY Numbers, Quotient, Zenon
<1>2. q # 0
  BY <1>1, Numbers
<1>3. Measured * q <= (n * lapic_period) * q
  BY Numbers, Times
<1>4. (q * n) * lapic_period <= CALIBRATION_DURATION * lapic_period
  BY <1>1, Numbers, Times
<1>5. (n * lapic_period) * q = (q * n) * lapic_period /\ q * Measured = Measured * q
  BY Numbers
<1>6. q * Measured <= CALIBRATION_DURATION * lapic_period
  BY <1>3, <1>4, <1>5, Numbers
<1> QED
  BY <1>1, <1>2, <1>6

\* The cycles of a slice, by a period that is not too long, are not too few.
LEMMA NotTooFew ==
  ASSUME NEW s \in Nat, NEW p \in Nat \ {0},
         p * Measured <= CALIBRATION_DURATION * lapic_period
  PROVE  /\ s \div p \in Nat
         /\ ((s \div p) * lapic_period + lapic_period) * CALIBRATION_DURATION >= s * Measured
<1>1. PICK q \in Nat : q = s \div p /\ s < q * p + p
  BY Quotient, Zenon
<1>2. s * Measured <= (q * p + p) * Measured
  BY <1>1, Numbers, Times
<1>3. (p * Measured) * (q + 1) <= (CALIBRATION_DURATION * lapic_period) * (q + 1)
  BY Numbers, Times
<1>4. (q * p + p) * Measured = (p * Measured) * (q + 1)
  BY Numbers
<1>5. (CALIBRATION_DURATION * lapic_period) * (q + 1)
        = (q * lapic_period + lapic_period) * CALIBRATION_DURATION
  BY Numbers
<1>6. s * Measured <= (q * lapic_period + lapic_period) * CALIBRATION_DURATION
  BY <1>2, <1>3, <1>4, <1>5, Numbers
<1> QED
  BY <1>1, <1>6

\* What is long enough stays so when it gets longer.
LEMMA Longer ==
  ASSUME NEW c \in Cores, slice[c] \in Nat, NEW v \in Nat, NEW w \in Nat, v <= w, LongEnough(c, v)
  PROVE  LongEnough(c, w)
<1>1. (v + lapic_period) * CALIBRATION_DURATION <= (w + lapic_period) * CALIBRATION_DURATION
  BY Numbers, Times
<1>2. slice[c] * Measured \in Nat /\ UINT32_MAX * lapic_period \in Nat
  BY Numbers
<1>3. /\ (v + lapic_period) * CALIBRATION_DURATION \in Nat
      /\ (w + lapic_period) * CALIBRATION_DURATION \in Nat
  BY Numbers
<1> QED
  BY <1>1, <1>2, <1>3 DEF LongEnough

\* What has run of a timer that counts on, or that is set.
LEMMA WholeIs ==
  ASSUME CountType, NEW c \in Cores
  PROVE  /\ Whole(c) \in Nat
         /\ Whole(c) >= count[c] * lapic_period
         /\ Whole(c) < ran[c] + count[c] * lapic_period + lapic_period
         /\ ran[c] \in Nat /\ count[c] \in 0 .. UINT32_MAX /\ lapic_phase[c] \in 0 .. lapic_period - 1
<1>1. /\ ran[c] \in Nat /\ count[c] \in 0 .. UINT32_MAX
      /\ lapic_phase[c] \in 0 .. lapic_period - 1
  BY Zenon DEF CountType
<1>2. PICK p \in Nat : p = count[c] * lapic_period
  BY <1>1, Numbers
<1>3. Whole(c) = ran[c] + p + (lapic_period - 1 - lapic_phase[c])
  BY <1>2, Zenon DEF Whole
<1> QED
  BY <1>1, <1>2, <1>3, Numbers

\* No timer runs, and nothing is calibrated, at the start.
LEMMA InitCountInv == TimersInit => CountInv
<1> SUFFICES ASSUME TimersInit PROVE CountInv
  BY Zenon
<1>1. CountType
  BY Numbers DEF TimersInit, CountType
<1>2. period * Measured <= CALIBRATION_DURATION * lapic_period
  BY Numbers DEF TimersInit
<1>3. ASSUME NEW c \in Cores PROVE Counting(c)
  BY <1>3 DEF TimersInit, Counting, Calibrates, Sleeping
<1> QED
  BY <1>1, <1>2, <1>3, Zenon DEF CountInv

\* What c's timer does in an instant.
LEMMA TimerInstant ==
  ASSUME CountType, Instant, NEW c \in Cores
  PROVE  /\ at'[c] = at[c] /\ from'[c] = from[c] /\ cycle'[c] = cycle[c] /\ slice'[c] = slice[c]
         /\ count'[c] > 0 => count[c] > 0
         /\ count[c] > 0 => Whole(c)' = Whole(c) /\ ran'[c] = ran[c] + 1
<1>1. /\ at'[c] = at[c] /\ from'[c] = from[c] /\ cycle'[c] = cycle[c] /\ slice'[c] = slice[c]
      /\ ran'[c] = IF count[c] > 0 THEN ran[c] + 1 ELSE ran[c]
      /\ lapic_phase'[c] = IF Cycles(c) THEN 0 ELSE lapic_phase[c] + 1
      /\ count'[c] = IF Cycles(c) /\ count[c] > 0 THEN count[c] - 1 ELSE count[c]
  BY Zenon DEF Instant
<1>2. /\ ran[c] \in Nat /\ count[c] \in Nat /\ lapic_phase[c] \in 0 .. lapic_period - 1
  BY WholeIs, Numbers
<1>3. count[c] > 0 => Whole(c)' = Whole(c)
  <2> SUFFICES ASSUME count[c] > 0 PROVE Whole(c)' = Whole(c)
    BY Zenon
  <2>1. Whole(c)' = ran'[c] + count'[c] * lapic_period + (lapic_period - 1 - lapic_phase'[c])
    BY Zenon DEF Whole
  <2>2. CASE Cycles(c)
    <3>1. /\ ran'[c] = ran[c] + 1 /\ lapic_phase'[c] = 0 /\ count'[c] = count[c] - 1
          /\ lapic_phase[c] = lapic_period - 1
      BY <1>1, <2>2, Zenon DEF Cycles
    <3>2. /\ (count[c] - 1) * lapic_period = count[c] * lapic_period - lapic_period
          /\ count[c] * lapic_period \in Nat
      BY <1>2, Numbers
    <3> QED
      BY <1>2, <2>1, <3>1, <3>2, Numbers DEF Whole
  <2>3. CASE ~Cycles(c)
    <3>1. ran'[c] = ran[c] + 1 /\ lapic_phase'[c] = lapic_phase[c] + 1 /\ count'[c] = count[c]
      BY <1>1, <2>3, Zenon
    <3>2. count[c] * lapic_period \in Nat
      BY <1>2, Numbers
    <3> QED
      BY <1>2, <2>1, <3>1, <3>2, Numbers DEF Whole
  <2> QED
    BY <2>2, <2>3, Zenon
<1> QED
  BY <1>1, <1>2, <1>3

\* The ticks of a delay and the time a timer has run grow together.
LEMMA CountInstant == TimersIInv /\ CountInv /\ Instant => CountInv'
<1> SUFFICES ASSUME TimersIInv, CountInv, Instant PROVE CountInv'
  BY Zenon
<1>0. CountType
  BY Zenon DEF CountInv
<1>1. CountType'
  <2>1. phase' \in 0 .. hpet_period - 1
    BY <1>0, Numbers DEF Instant, CountType, Ticks
  <2>2. lapic_phase' \in [Cores -> 0 .. lapic_period - 1]
    BY <1>0, Numbers DEF Instant, CountType, Cycles
  <2>3. count' \in [Cores -> 0 .. UINT32_MAX]
    BY <1>0, Numbers DEF Instant, CountType
  <2>4. ran' \in [Cores -> Nat]
    BY <1>0 DEF Instant, CountType
  <2>5. period' = period /\ cycle' = cycle /\ slice' = slice /\ DOMAIN pending' = Cores
    BY Zenon DEF Instant
  <2> QED
    BY <1>0, <2>1, <2>2, <2>3, <2>4, <2>5, Zenon DEF CountType
<1>2. period' = period
  BY Zenon DEF Instant
<1>3. ASSUME NEW c \in Cores PROVE Counting(c)'
  <2>1. Counting(c)
    BY <1>3, Zenon DEF CountInv
  <2>2. /\ at'[c] = at[c] /\ from'[c] = from[c] /\ cycle'[c] = cycle[c] /\ slice'[c] = slice[c]
        /\ count'[c] > 0 => count[c] > 0
        /\ count[c] > 0 => Whole(c)' = Whole(c) /\ ran'[c] = ran[c] + 1
    BY <1>0, <1>3, TimerInstant, Zenon
  <2>3. Calibrates(c)' => Calibrates(c) /\ Whole(c)' = Whole(c) /\ ran'[c] = ran[c] + 1
    BY <2>2, Zenon DEF Calibrates
  <2>4. /\ ran[c] \in Nat /\ slept[c] \in 0 .. UINT64 /\ phase \in 0 .. hpet_period - 1
        /\ phase' = (IF Ticks THEN 0 ELSE phase + 1)
        /\ slept'[c] = IF at[c] \in {"past_end", "wait"} /\ Ticks
                       THEN Least(slept[c] + 1, UINT64) ELSE slept[c]
    BY <1>0, <1>3, Zenon DEF Instant, CountType, TimersIInv, TimersTypeOK
  <2>5. ASSUME Calibrates(c), at[c] \in {"past_end", "wait"}, ran'[c] = ran[c] + 1
        PROVE  ran'[c] + hpet_period > slept'[c] * hpet_period + phase'
    <3>1. ran[c] + hpet_period > slept[c] * hpet_period + phase
      BY <2>1, <2>5, Zenon DEF Counting
    <3>2. CASE ~Ticks
      <4>1. phase' = phase + 1 /\ slept'[c] = slept[c]
        BY <2>4, <3>2, Zenon
      <4>2. slept[c] * hpet_period \in Nat
        BY <2>4, Numbers
      <4> QED
        BY <2>4, <2>5, <3>1, <4>1, <4>2, Numbers
    <3>3. CASE Ticks
      <4>1. phase' = 0 /\ phase = hpet_period - 1 /\ slept'[c] = Least(slept[c] + 1, UINT64)
        BY <2>4, <2>5, <3>3, Zenon DEF Ticks
      <4>2. slept'[c] \in Nat /\ slept[c] \in Nat /\ slept'[c] <= slept[c] + 1
        BY <2>4, <4>1 DEF Least
      <4>3. slept'[c] * hpet_period <= (slept[c] + 1) * hpet_period
        BY <4>2, Numbers, Times
      <4>4. (slept[c] + 1) * hpet_period = slept[c] * hpet_period + hpet_period
        BY <4>2, Numbers
      <4>5. slept[c] * hpet_period \in Nat /\ slept'[c] * hpet_period \in Nat
        BY <4>2, Numbers
      <4> QED
        BY <2>4, <2>5, <3>1, <4>1, <4>3, <4>4, <4>5, Numbers
    <3> QED
      BY <3>2, <3>3, Zenon
  <2>6. ASSUME Calibrates(c), at[c] = "cycles", ran'[c] = ran[c] + 1
        PROVE  ran'[c] + 2 * hpet_period > CALIBRATION_DURATION
    BY <2>1, <2>4, <2>6, Numbers DEF Counting
  <2>7. ASSUME at[c] = "initial_count"
        PROVE  LongEnough(c, cycle[c] * lapic_period)'
    BY <2>1, <2>2, <2>7, Zenon DEF Counting, LongEnough
  <2>8. ASSUME at[c] = "idle", count'[c] > 0
        PROVE  LongEnough(c, Whole(c))'
    BY <2>1, <2>2, <2>8, Zenon DEF Counting, LongEnough
  <2> QED
    BY <1>2, <2>1, <2>2, <2>3, <2>5, <2>6, <2>7, <2>8, Zenon DEF Counting
<1> QED
  BY <1>1, <1>2, <1>3, Zenon DEF CountInv

\* An instant is the only step that raises an interrupt, at the end of the last cycle.
LEMMA InTime == TimersIInv /\ CountInv /\ TimersNext => NoEarlyInterrupt
<1> SUFFICES ASSUME TimersIInv, CountInv, TimersNext, NEW c \in Cores,
                    at[c] = "idle", ~pending[c], pending'[c]
             PROVE  \/ (ran'[c] + 2 * lapic_period) * CALIBRATION_DURATION >= slice[c] * Measured
                    \/ ran'[c] + lapic_period >= UINT32_MAX * lapic_period
  BY Zenon DEF NoEarlyInterrupt
<1>0. CountType
  BY Zenon DEF CountInv
<1>1. Instant
  BY Zenon DEF TimersNext, Execute, Instant, Sleep, Delay, LeavePastEnd, Wake, CalibrateCount, WriteLvt,
         WriteCount, MainArms, Schedule, ArmTimer, CalibrateCpuid, ReadCount, SetIdtEntry, Goto,
         CountInv, CountType, lapicVars
<1>2. Cycles(c) /\ count[c] = 1
  <2>1. pending'[c] = (pending[c] \/ (Cycles(c) /\ count[c] = 1 /\ ~masked[c]))
    BY <1>1, Zenon DEF Instant
  <2> QED
    BY <2>1, Zenon
<1>3. /\ count[c] > 0 /\ ran[c] \in Nat /\ slice[c] \in Nat /\ Whole(c) \in Nat
      /\ lapic_phase[c] = lapic_period - 1
  BY <1>0, <1>2, WholeIs DEF CountType, Cycles
<1>4. ran'[c] = ran[c] + 1
  BY <1>0, <1>1, <1>3, TimerInstant, Zenon
<1>5. Whole(c) = ran[c] + lapic_period
  BY <1>2, <1>3, Numbers DEF Whole
<1>6. LongEnough(c, Whole(c))
  BY <1>3, Zenon DEF CountInv, Counting
<1>7. ran'[c] + lapic_period \in Nat /\ Whole(c) <= ran'[c] + lapic_period
  BY <1>3, <1>4, <1>5, Numbers
<1>8. LongEnough(c, ran'[c] + lapic_period)
  BY <1>3, <1>6, <1>7, Longer, Zenon
<1>9. (ran'[c] + lapic_period) + lapic_period = ran'[c] + 2 * lapic_period
  BY <1>3, <1>4, Numbers
<1> QED
  BY <1>8, <1>9, Zenon DEF LongEnough

\* Nothing that Counting says of a CPU depends on another one, but for the period.
LEMMA OtherTimer ==
  ASSUME NEW d \in Cores, Counting(d),
         /\ at'[d] = at[d] /\ from'[d] = from[d] /\ cycle'[d] = cycle[d] /\ slice'[d] = slice[d]
         /\ count'[d] = count[d] /\ ran'[d] = ran[d] /\ slept'[d] = slept[d]
         /\ phase' = phase /\ lapic_phase' = lapic_phase
         /\ period # 0 => period' # 0
  PROVE  Counting(d)'
<1>1. Whole(d)' = Whole(d) /\ (Calibrates(d)' <=> Calibrates(d))
  BY Zenon DEF Whole, Calibrates
<1>2. /\ LongEnough(d, Whole(d))' <=> LongEnough(d, Whole(d))
      /\ LongEnough(d, cycle[d] * lapic_period)' <=> LongEnough(d, cycle[d] * lapic_period)
  BY <1>1, Zenon DEF LongEnough
<1> QED
  BY <1>1, <1>2, Zenon DEF Counting

\* A calibration that ends has run for long enough.
LEMMA CalibrationEnds ==
  ASSUME TimersIInv, CountInv, NEW c \in Cores, Wake(c), from[c] = "cycles", count[c] > 0
  PROVE  ran[c] + 2 * hpet_period > CALIBRATION_DURATION
<1>1. slept[c] >= cycle[c] /\ cycle[c] = CALIBRATION_DURATION \div hpet_period
  BY WakeInTime, Zenon DEF Wake, NoShortDelay, TimersNext, CountInv, Counting, Goto, TimersIInv,
     TimersTypeOK, Sleeping
<1>2. ran[c] + hpet_period > slept[c] * hpet_period + phase
  BY Zenon DEF Wake, CountInv, Counting, Calibrates, Sleeping
<1>3. slept[c] \in 0 .. UINT64 /\ phase \in 0 .. hpet_period - 1 /\ ran[c] \in Nat
  BY Zenon DEF TimersIInv, TimersTypeOK, CountInv, CountType
<1>4. PICK k \in Nat : k = CALIBRATION_DURATION \div hpet_period
  BY Numbers, Zenon
<1>5. CALIBRATION_DURATION < k * hpet_period + hpet_period
  BY <1>4, Numbers, Quotient, Zenon
<1>6. /\ k * hpet_period <= slept[c] * hpet_period
      /\ k * hpet_period \in Nat /\ slept[c] * hpet_period \in Nat
  BY <1>1, <1>3, <1>4, Numbers, Times
<1> QED
  BY <1>2, <1>3, <1>5, <1>6, Numbers

\* The count that is read then makes a period that is not too long.
LEMMA PeriodFound ==
  ASSUME CountInv, NEW c \in Cores, ReadCount(c)
  PROVE  /\ period' \in Nat \ {0}
         /\ period' * Measured <= CALIBRATION_DURATION * lapic_period
<1>1. /\ ran[c] \in Nat /\ count[c] \in 0 .. UINT32_MAX
      /\ Whole(c) \in Nat /\ lapic_phase[c] \in 0 .. lapic_period - 1
  BY WholeIs, Zenon DEF CountInv
<1>2. PICK n \in Nat : n = UINT32_MAX - count[c]
  BY <1>1, Numbers
<1>3. n * lapic_period >= Measured
  <2>1. CASE count[c] = 0
    BY <1>2, <2>1, Numbers
  <2>2. CASE count[c] > 0
    <3>1. /\ Whole(c) < (UINT32_MAX + 1) * lapic_period
          /\ ran[c] + 2 * hpet_period > CALIBRATION_DURATION
      BY <2>2, Zenon DEF CountInv, Counting, Calibrates, ReadCount
    <3>2. (UINT32_MAX + 1) * lapic_period = n * lapic_period + count[c] * lapic_period + lapic_period
      BY <1>1, <1>2, Numbers
    <3>p. n * lapic_period \in Nat /\ count[c] * lapic_period \in Nat
      BY <1>1, Numbers
    <3>3. PICK k \in Nat, m \in Nat : k = n * lapic_period /\ m = count[c] * lapic_period
      BY <3>p, Zenon
    <3>4. ran[c] + m + (lapic_period - 1 - lapic_phase[c]) < k + m + lapic_period
      BY <3>1, <3>2, <3>3, Zenon DEF Whole
    <3>k. /\ hpet_period \in Nat /\ lapic_period \in Nat /\ Measured \in Nat
          /\ Measured + 2 * hpet_period + lapic_period = CALIBRATION_DURATION
      BY Numbers, Zenon
    <3>r. ran[c] + 2 * hpet_period > CALIBRATION_DURATION
      BY <3>1, Zenon
    <3>5. k >= Measured
      BY <1>1, <3>r, <3>4, <3>k
    <3> QED
      BY <3>3, <3>5, Zenon
  <2> QED
    BY <1>1, <2>1, <2>2
<1>4. n \in Nat \ {0} /\ n <= UINT32_MAX
  BY <1>1, <1>2, <1>3, Numbers
<1>5. period' = CALIBRATION_DURATION \div n
  BY <1>2, Zenon DEF ReadCount
<1> QED
  BY <1>3, <1>4, <1>5, NotTooLong, Zenon

\* The count that arm_apic_timer sets is as long as what was asked for.
LEMMA CountChosen ==
  ASSUME CountInv, NEW c \in Cores, at[c] = "lvt",
         NEW n, n = Least(slice[c] \div period, UINT32_MAX)
  PROVE  n \in Nat /\ n <= UINT32_MAX /\ LongEnough(c, n * lapic_period)
<1>1. slice[c] \in Nat /\ period \in Nat /\ period # 0
  BY Zenon DEF CountInv, CountType, Counting
<1>2. PICK q \in Nat : q = slice[c] \div period
  BY <1>1, Quotient, Zenon
<1>3. (q * lapic_period + lapic_period) * CALIBRATION_DURATION >= slice[c] * Measured
  BY <1>1, <1>2, NotTooFew, Zenon DEF CountInv
<1>4. n = q \/ n = UINT32_MAX
  BY <1>2, Zenon DEF Least
<1>5. n \in Nat /\ n <= UINT32_MAX
  BY <1>2, Numbers DEF Least
<1>6. UINT32_MAX * lapic_period >= UINT32_MAX * lapic_period
  BY Numbers
<1> QED
  BY <1>3, <1>4, <1>5, <1>6, Zenon DEF LongEnough

\* What a CPU does changes nothing of another's timer, and the period only to one that
\* is not too long.
LEMMA CountCpu ==
  ASSUME TimersIInv, CountInv, NEW c \in Cores,
         Execute(c) \/ Delay(c) \/ LeavePastEnd(c) \/ Wake(c)
  PROVE  CountInv'
<1>0. CountType /\ Counting(c)
  BY Zenon DEF CountInv
<1>t. /\ DOMAIN at = Cores /\ DOMAIN from = Cores /\ DOMAIN slept = Cores /\ DOMAIN cycle = Cores
      /\ DOMAIN count = Cores /\ DOMAIN ran = Cores /\ DOMAIN slice = Cores /\ DOMAIN pending = Cores
  BY <1>0, Zenon DEF TimersIInv, TimersTypeOK, CountType
<1>h. phase' = phase /\ lapic_phase' = lapic_phase
  BY Zenon DEF Execute, Sleep, Delay, LeavePastEnd, Wake, CalibrateCount, WriteLvt,
     WriteCount, MainArms, Schedule, ArmTimer, CalibrateCpuid, ReadCount, SetIdtEntry, hardware
<1>p. /\ period' \in Nat
      /\ period # 0 => period' # 0
      /\ period' * Measured <= CALIBRATION_DURATION * lapic_period
  <2>1. CASE CalibrateCpuid(c)
    <3>1. period' = lapic_period
      BY <2>1, Zenon DEF CalibrateCpuid
    <3>2. Measured * lapic_period <= CALIBRATION_DURATION * lapic_period
      BY Numbers, Times
    <3> QED
      BY <3>1, <3>2, Numbers
  <2>2. CASE ReadCount(c)
    <3>1. /\ period' \in Nat \ {0}
          /\ period' * Measured <= CALIBRATION_DURATION * lapic_period
      BY <2>2, PeriodFound, Zenon
    <3> QED
      BY <3>1, Zenon
  <2>3. CASE ~CalibrateCpuid(c) /\ ~ReadCount(c)
    <3>1. period' = period
      BY <2>3, Zenon DEF Execute, Sleep, Delay, LeavePastEnd, Wake, CalibrateCount, WriteLvt,
         WriteCount, MainArms, Schedule, ArmTimer, SetIdtEntry
    <3> QED
      BY <3>1, Zenon DEF CountInv, CountType
  <2> QED
    BY <2>1, <2>2, <2>3, Zenon
<1>o. ASSUME NEW d \in Cores, d # c PROVE Counting(d)'
  <2>1. /\ at'[d] = at[d] /\ from'[d] = from[d] /\ cycle'[d] = cycle[d] /\ slice'[d] = slice[d]
        /\ count'[d] = count[d] /\ ran'[d] = ran[d] /\ slept'[d] = slept[d]
    BY <1>t, <1>o, Zenon DEF Execute, Sleep, Delay, LeavePastEnd, Wake, CalibrateCount, WriteLvt,
       WriteCount, MainArms, Schedule, ArmTimer, CalibrateCpuid, ReadCount, SetIdtEntry, Goto,
       sleepVars, lapicVars
  <2>2. Counting(d)
    BY <1>o, Zenon DEF CountInv
  <2> QED
    BY <1>h, <1>p, <1>o, <2>1, <2>2, OtherTimer, Zenon
<1> SUFFICES CountType' /\ Counting(c)'
  BY <1>p, <1>o, Zenon DEF CountInv
<1>k. ASSUME cycle' \in [Cores -> Nat], slice' \in [Cores -> Nat], count' \in [Cores -> 0 .. UINT32_MAX],
             ran' \in [Cores -> Nat], DOMAIN pending' = Cores
      PROVE  CountType'
  BY <1>0, <1>h, <1>p, <1>k, Zenon DEF CountType
<1>z. 0 \in Nat /\ 0 \in 0 .. UINT32_MAX /\ UINT32_MAX \in 0 .. UINT32_MAX
  BY Numbers
<1> USE DEF Goto, hardware, sleepVars, lapicVars
<1>1. CASE Sleep(c)
  <2>1. CountType'
    BY <1>0, <1>k, <1>1, Zenon DEF Sleep, CountType
  <2>2. /\ at[c] = "sleep" /\ at'[c] \in {"past_end", "wait"} /\ from'[c] = from[c]
        /\ cycle'[c] = cycle[c] /\ count'[c] = count[c] /\ ran'[c] = ran[c] /\ slept'[c] = 0
    BY <1>1, <1>t, Zenon DEF Sleep
  <2>3. Whole(c)' = Whole(c) /\ (Calibrates(c)' => Calibrates(c))
    BY <1>h, <2>2, Zenon DEF Whole, Calibrates, Sleeping
  <2>4. ran'[c] + hpet_period > slept'[c] * hpet_period + phase'
    <3>1. phase \in 0 .. hpet_period - 1 /\ ran[c] \in Nat
      BY <1>0, Zenon DEF CountType
    <3> QED
      BY <1>h, <2>2, <3>1, Numbers
  <2> QED
    BY <1>0, <2>1, <2>2, <2>3, <2>4, Zenon DEF Counting, Sleeping
<1>2. CASE Delay(c)
  <2>1. PICK f \in Delays : cycle' = [cycle EXCEPT ![c] = f \div hpet_period]
    BY <1>2, Zenon DEF Delay
  <2>2. f \div hpet_period \in Nat
    BY TimersAssumption, Zenon
  <2>3. CountType'
    BY <1>0, <1>k, <1>2, <2>1, <2>2, Zenon DEF Delay, CountType
  <2>4. at'[c] = "sleep" /\ from'[c] = "startup"
    BY <1>2, <1>t, Zenon DEF Delay
  <2> QED
    BY <2>3, <2>4, Zenon DEF Counting, Calibrates, Sleeping
<1>3. CASE LeavePastEnd(c)
  <2>1. CountType'
    BY <1>0, <1>k, <1>3, Zenon DEF LeavePastEnd, CountType
  <2>2. /\ at[c] = "past_end" /\ at'[c] = "wait" /\ from'[c] = from[c] /\ slept'[c] = slept[c]
        /\ cycle'[c] = cycle[c] /\ count'[c] = count[c] /\ ran'[c] = ran[c]
    BY <1>3, <1>t, Zenon DEF LeavePastEnd
  <2>3. Whole(c)' = Whole(c) /\ (Calibrates(c)' => Calibrates(c))
    BY <1>h, <2>2, Zenon DEF Whole, Calibrates, Sleeping
  <2> QED
    BY <1>0, <1>h, <2>1, <2>2, <2>3, Zenon DEF Counting, Sleeping
<1>4. CASE Wake(c)
  <2>1. CountType'
    BY <1>0, <1>k, <1>z, <1>4, Zenon DEF Wake, CountType
  <2>2. /\ at[c] = "wait" /\ at'[c] = from[c] /\ from[c] \in {"startup", "cycles"}
        /\ count'[c] = count[c] /\ ran'[c] = ran[c]
    BY <1>4, <1>t, Zenon DEF Wake, TimersIInv, TimersTypeOK
  <2>3. Whole(c)' = Whole(c) /\ (Calibrates(c)' => Calibrates(c) /\ from[c] = "cycles")
    BY <1>h, <2>2, Zenon DEF Whole, Calibrates, Sleeping
  <2>4. Calibrates(c)' => ran'[c] + 2 * hpet_period > CALIBRATION_DURATION
    BY <1>4, <2>2, <2>3, CalibrationEnds, Zenon DEF Calibrates
  <2> QED
    BY <1>0, <2>1, <2>2, <2>3, <2>4, Zenon DEF Counting, Sleeping
<1>5. CASE MainArms(c) \/ Schedule(c)
  <2>1. PICK s \in Slices : slice' = [slice EXCEPT ![c] = s]
    BY <1>5, Zenon DEF MainArms, Schedule
  <2>2. s \in Nat
    BY TimersAssumption, Zenon
  <2>3. CountType'
    BY <1>0, <1>k, <1>z, <1>5, <2>1, <2>2, Zenon DEF MainArms, Schedule, CountType
  <2>4. at'[c] = "arm"
    BY <1>5, <1>t, Zenon DEF MainArms, Schedule
  <2> QED
    BY <2>3, <2>4, Zenon DEF Counting, Calibrates, Sleeping
<1>6. CASE ArmTimer(c) \/ SetIdtEntry(c) \/ CalibrateCpuid(c) \/ ReadCount(c)
  <2>1. CountType'
    BY <1>0, <1>k, <1>6, Zenon DEF ArmTimer, SetIdtEntry, CalibrateCpuid, ReadCount, CountType
  <2>2. /\ at'[c] \in {"calibrate", "lvt", "idt"}
        /\ at'[c] \in {"lvt", "idt"} => period' # 0
    <3>1. CASE ArmTimer(c)
      BY <1>t, <3>1, Zenon DEF ArmTimer
    <3>2. CASE SetIdtEntry(c)
      BY <1>0, <1>t, <1>p, <3>2, Zenon DEF SetIdtEntry, Counting
    <3>3. CASE CalibrateCpuid(c)
      <4>1. lapic_period # 0
        BY Numbers, Zenon
      <4> QED
        BY <1>t, <3>3, <4>1, Zenon DEF CalibrateCpuid
    <3>4. CASE ReadCount(c)
      <4>1. period' # 0
        BY <3>4, PeriodFound, Zenon
      <4> QED
        BY <1>t, <3>4, <4>1, Zenon DEF ReadCount
    <3> QED
      BY <1>6, <3>1, <3>2, <3>3, <3>4, Zenon
  <2> QED
    BY <2>1, <2>2, Zenon DEF Counting, Calibrates, Sleeping
<1>7. CASE CalibrateCount(c)
  <2>1. CountType'
    BY <1>0, <1>k, <1>z, <1>7, Numbers, Zenon DEF CalibrateCount, CountType
  <2>2. /\ at'[c] = "sleep" /\ count'[c] = UINT32_MAX /\ ran'[c] = 0
        /\ cycle'[c] = CALIBRATION_DURATION \div hpet_period
    BY <1>0, <1>7, <1>t, Zenon DEF CalibrateCount
  <2>3. Whole(c)' < (UINT32_MAX + 1) * lapic_period
    <3>1. /\ Whole(c)' < ran'[c] + count'[c] * lapic_period + lapic_period
          /\ Whole(c)' = ran'[c] + count'[c] * lapic_period + (lapic_period - 1 - lapic_phase'[c])
      <4>1. lapic_phase'[c] \in 0 .. lapic_period - 1
        BY <1>0, <1>h, Zenon DEF CountType
      <4>2. Whole(c)' = ran'[c] + count'[c] * lapic_period + (lapic_period - 1 - lapic_phase'[c])
        BY Zenon DEF Whole
      <4>3. count'[c] * lapic_period \in Nat /\ ran'[c] \in Nat
        BY <2>2, Numbers
      <4> QED
        BY <4>1, <4>2, <4>3, Numbers
    <3>2. UINT32_MAX * lapic_period + lapic_period = (UINT32_MAX + 1) * lapic_period
      BY Numbers
    <3>3. UINT32_MAX * lapic_period \in Nat
      BY Numbers
    <3>4. Whole(c)' < 0 + UINT32_MAX * lapic_period + lapic_period
      BY <2>2, <3>1, Zenon
    <3>5. 0 + UINT32_MAX * lapic_period = UINT32_MAX * lapic_period
      BY <3>3
    <3> QED
      BY <3>2, <3>4, <3>5, Zenon
  <2> QED
    BY <2>1, <2>2, <2>3, Zenon DEF Counting, Calibrates, Sleeping
<1>8. CASE WriteLvt(c)
  <2>1. PICK n : n = Least(slice[c] \div period, UINT32_MAX)
    BY Zenon
  <2>2. n \in Nat /\ n <= UINT32_MAX /\ LongEnough(c, n * lapic_period)
    BY <1>8, <2>1, CountChosen, Zenon DEF WriteLvt
  <2>3. CountType'
    BY <1>0, <1>k, <1>8, <2>1, <2>2, Zenon DEF WriteLvt, CountType
  <2>4. at'[c] = "initial_count" /\ cycle'[c] = n /\ slice'[c] = slice[c]
    BY <1>8, <1>t, <2>1, Zenon DEF WriteLvt
  <2>5. LongEnough(c, cycle[c] * lapic_period)'
    BY <2>2, <2>4, Zenon DEF LongEnough
  <2> QED
    BY <2>2, <2>3, <2>4, <2>5, Zenon DEF Counting, Calibrates, Sleeping
<1>9. CASE WriteCount(c)
  <2>1. cycle[c] \in Nat /\ cycle[c] <= UINT32_MAX /\ LongEnough(c, cycle[c] * lapic_period)
    BY <1>0, <1>9, Zenon DEF WriteCount, CountType, Counting
  <2>2. cycle[c] \in 0 .. UINT32_MAX
    BY <2>1, Numbers
  <2>3. CountType'
    BY <1>0, <1>k, <1>z, <1>9, <2>2, Zenon DEF WriteCount, CountType
  <2>4. at'[c] = "idle" /\ count'[c] = cycle[c] /\ ran'[c] = 0 /\ slice'[c] = slice[c]
    BY <1>9, <1>t, Zenon DEF WriteCount
  <2>5. slice[c] \in Nat /\ lapic_phase'[c] \in 0 .. lapic_period - 1
    BY <1>0, <1>h, Zenon DEF CountType
  <2>6. Whole(c)' = 0 + cycle[c] * lapic_period + (lapic_period - 1 - lapic_phase'[c])
    BY <2>4, Zenon DEF Whole
  <2>7. cycle[c] * lapic_period \in Nat
    BY <2>1, Numbers
  <2>8. Whole(c)' \in Nat /\ cycle[c] * lapic_period <= Whole(c)'
    BY <2>5, <2>6, <2>7, Numbers
  <2>9. LongEnough(c, Whole(c)')
    BY <2>1, <2>5, <2>7, <2>8, Longer, Zenon
  <2>10. LongEnough(c, Whole(c))'
    BY <2>4, <2>9, Zenon DEF LongEnough
  <2> QED
    BY <2>3, <2>4, <2>10, Zenon DEF Counting, Calibrates, Sleeping
<1> QED
  BY <1>1, <1>2, <1>3, <1>4, <1>5, <1>6, <1>7, <1>8, <1>9, Zenon DEF Execute

\* The periods and the counts, for every machine.
THEOREM CountsInvariant == TimersSpec => []CountInv
<1>1. TimersIInv /\ CountInv /\ [TimersNext]_timersVars => CountInv'
  <2>1. ASSUME CountInv, UNCHANGED timersVars PROVE CountInv'
    <3>1. CountType' /\ period' = period
      BY <2>1, Zenon DEF CountInv, CountType, timersVars, hardware, sleepVars, lapicVars
    <3>2. ASSUME NEW d \in Cores PROVE Counting(d)'
      BY <2>1, <3>2, OtherTimer, Zenon DEF CountInv, timersVars, hardware, sleepVars, lapicVars
    <3> QED
      BY <2>1, <3>1, <3>2, Zenon DEF CountInv
  <2> QED
    BY <2>1, CountInstant, CountCpu, Zenon DEF TimersNext
<1> QED
  BY <1>1, InitCountInv, TimersInvariance, PTL DEF TimersSpec

\* A timer that arm_timer has set is early by the error of a calibration, in which the
\* HPET's first and last tick and the timer's last cycle may be cut short, and by two
\* cycles, at most, or it has run for as long as it can count: whichever CPU has measured
\* the period, how often and how late, in whatever phase the clocks run, and whether or
\* not their periods divide each other or a duration.
THEOREM TimersNeverEarly == TimersSpec => NeverEarly
<1>1. TimersIInv /\ CountInv /\ [TimersNext]_timersVars => [NoEarlyInterrupt]_timersVars
  BY InTime, Zenon
<1> QED
  BY <1>1, TimersInvariance, CountsInvariant, PTL
     DEF TimersSpec, NeverEarly, NoEarlyInterrupt

HIDE Width

(***************************************************************************)
(* PhysicalAllocator                                                       *)
(***************************************************************************)

USE PhysicalAllocatorAssumption, PageSizeAssumption

-----------------------------------------------------------------------------
(* Addresses and page numbers.                                             *)

\* Division of a multiple of the page size.
LEMMA MultipleMod ==
  ASSUME NEW n \in Nat \ {0}, NEW q \in Int
  PROVE  (q * n) % n = 0 /\ (q * n) \div n = q
  OBVIOUS

\* Division with remainder.
LEMMA DivMod ==
  ASSUME NEW n \in Nat \ {0}, NEW a \in Int
  PROVE  /\ a \div n \in Int
         /\ a % n \in 0 .. n - 1
         /\ a = (a \div n) * n + (a % n)
  OBVIOUS

\* PAGE_START rounds down to a multiple of the page size.
LEMMA PageStart ==
  ASSUME NEW a \in Nat
  PROVE  /\ PAGE_START(a) \in Nat
         /\ PAGE_START(a) <= a
         /\ a < PAGE_START(a) + PAGE_SIZE
         /\ \E q \in Nat : PAGE_START(a) = q * PAGE_SIZE
<1>1. /\ a \div PAGE_SIZE \in Int
      /\ a % PAGE_SIZE \in 0 .. PAGE_SIZE - 1
      /\ a = (a \div PAGE_SIZE) * PAGE_SIZE + (a % PAGE_SIZE)
  BY DivMod
<1>2. a \div PAGE_SIZE \in Nat
  BY <1>1
<1>3. PAGE_START(a) = (a \div PAGE_SIZE) * PAGE_SIZE
  BY <1>1 DEF PAGE_START
<1>4. PAGE_START(a) \in Nat
  BY <1>2, <1>3
<1>5. PAGE_START(a) <= a /\ a < PAGE_START(a) + PAGE_SIZE
  BY <1>1 DEF PAGE_START
<1> QED
  BY <1>2, <1>3, <1>4, <1>5, Zenon

\* base is a multiple of the page size.
LEMMA BaseAligned == \E q \in Nat : base = q * PAGE_SIZE
<1>1. PICK q \in Nat : PAGE_START(ram_start) = q * PAGE_SIZE
  BY PageStart, Zenon
<1>2. base = (q + 1) * PAGE_SIZE
  BY <1>1 DEF base, PAGE_END
<1> QED
  BY <1>2

\* PAGE_START leaves the address of a page alone, and page_index inverts addr.
LEMMA PageIndex ==
  ASSUME NEW i \in Nat
  PROVE  /\ addr(i) \in Nat
         /\ PAGE_START(addr(i)) = addr(i)
         /\ page_index(addr(i)) = i
<1>1. PICK q \in Nat : base = q * PAGE_SIZE
  BY BaseAligned, Zenon
<1>2. addr(i) = (q + i) * PAGE_SIZE /\ q + i \in Nat
  BY <1>1 DEF addr
<1>3. addr(i) % PAGE_SIZE = 0
  BY <1>2, MultipleMod
<1>4. addr(i) \in Nat
  BY <1>2
<1>5. PAGE_START(addr(i)) = addr(i)
  BY <1>3, <1>4 DEF PAGE_START
<1>6. PAGE_START(addr(i)) - base = i * PAGE_SIZE
  BY <1>1, <1>5 DEF addr
<1>7. page_index(addr(i)) = i
  BY <1>6, MultipleMod DEF page_index
<1> QED
  BY <1>4, <1>5, <1>7, Zenon

\* The bitmap has a bit for every page, and the pool starts behind the bitmap.
LEMMA Layout ==
  /\ page_count \in Nat
  /\ alloc_size \in Nat
  /\ page_count <= 8 * alloc_size
  /\ first_free \in Nat
  /\ base + alloc_size <= addr(first_free)
<1>1. page_count \in Nat
  <2>1. /\ page_count \in Int
        /\ ram_size % PAGE_SIZE \in 0 .. PAGE_SIZE - 1
        /\ ram_size = page_count * PAGE_SIZE + (ram_size % PAGE_SIZE)
    BY DivMod DEF page_count
  <2> QED
    BY <2>1
<1>2. alloc_size \in Nat /\ page_count <= 8 * alloc_size
  BY <1>1 DEF alloc_size
<1>3. PICK q \in Nat : base = q * PAGE_SIZE
  BY BaseAligned, Zenon
<1> DEFINE last == base + alloc_size - 1
<1>4. base \in Nat /\ base >= PAGE_SIZE /\ last \in Nat
  <2>1. PAGE_START(ram_start) \in Nat
    BY PageStart, Zenon
  <2>2. base = PAGE_START(ram_start) + PAGE_SIZE
    BY <2>1 DEF base, PAGE_END
  <2> QED
    BY <1>2, <2>1, <2>2
<1>5. PICK r \in Nat : PAGE_START(last) = r * PAGE_SIZE
  BY <1>4, PageStart, Zenon
<1>6. PAGE_START(last) <= last /\ last < PAGE_START(last) + PAGE_SIZE
  BY <1>4, PageStart, Zenon
<1>7. page_index(last) = r - q
  <2>1. PAGE_START(last) - base = (r - q) * PAGE_SIZE
    BY <1>3, <1>5
  <2> QED
    BY <2>1, MultipleMod DEF page_index
<1>8. first_free = r - q + 1
  BY <1>7, Zenon DEF first_free
<1>9. r - q + 1 >= 0
  <2>1. r * PAGE_SIZE + PAGE_SIZE > q * PAGE_SIZE - 1
    BY <1>2, <1>3, <1>4, <1>5, <1>6
  <2>2. (r + 1 - q) * PAGE_SIZE > -1
    BY <2>1
  <2> QED
    BY <2>2
<1>10. addr(first_free) = r * PAGE_SIZE + PAGE_SIZE
  BY <1>3, <1>8 DEF addr
<1> QED
  BY <1>1, <1>2, <1>4, <1>5, <1>6, <1>8, <1>9, <1>10

\* Every page of the pool has its own bit, and no page has address 0.
LEMMA PoolPages ==
  ASSUME NEW a \in Pool
  PROVE  /\ page_index(a) \in first_free .. page_count - 1
         /\ page_index(a) \in Bits
         /\ a = addr(page_index(a))
         /\ PAGE_START(a) = a
<1>1. PICK i \in first_free .. page_count - 1 : a = addr(i)
  BY Zenon DEF Pool
<1>2. i \in Nat
  BY <1>1, Layout
<1>3. page_index(a) = i /\ PAGE_START(a) = a
  BY <1>1, <1>2, PageIndex, Zenon
<1>4. i \in Bits
  BY <1>1, <1>2, Layout DEF Bits
<1> QED
  BY <1>1, <1>3, <1>4, Zenon

-----------------------------------------------------------------------------
(* The free list.                                                          *)

Injective(s) == \A j, k \in 1 .. Len(s) : s[j] = s[k] => j = k
In(a, s) == \E k \in 1 .. Len(s) : s[k] = a

\* lst_pop takes the first element, and only that one, out of the list.
LEMMA PopFacts ==
  ASSUME NEW S, NEW s \in Seq(S), s # <<>>, Injective(s)
  PROVE  /\ Head(s) \in S /\ In(Head(s), s)
         /\ Tail(s) \in Seq(S)
         /\ Injective(Tail(s))
         /\ \A a : In(a, Tail(s)) <=> In(a, s) /\ a # Head(s)
<1>1. /\ Tail(s) \in Seq(S)
      /\ Len(Tail(s)) = Len(s) - 1
      /\ \A k \in 1 .. Len(Tail(s)) : Tail(s)[k] = s[k + 1]
  BY HeadTailProperties, Zenon
<1>2. Len(s) \in Nat /\ Len(s) >= 1
  BY EmptySeq, LenProperties
<1>3. Head(s) = s[1] /\ s[1] \in S
  BY <1>2, ElementOfSeq
<1>4. Injective(Tail(s))
  <2>1. ASSUME NEW j \in 1 .. Len(Tail(s)), NEW k \in 1 .. Len(Tail(s)), Tail(s)[j] = Tail(s)[k]
        PROVE  j = k
    <3>1. j + 1 \in 1 .. Len(s) /\ k + 1 \in 1 .. Len(s) /\ (j + 1 = k + 1 => j = k)
      BY <1>1, <1>2
    <3>2. s[j + 1] = s[k + 1]
      BY <1>1, <2>1, Zenon
    <3> QED
      BY <3>1, <3>2, Zenon DEF Injective
  <2> QED
    BY <2>1, Zenon DEF Injective
<1>5. ASSUME NEW a PROVE In(a, Tail(s)) <=> In(a, s) /\ a # Head(s)
  <2>1. ASSUME In(a, Tail(s)) PROVE In(a, s) /\ a # Head(s)
    <3>1. PICK k \in 1 .. Len(Tail(s)) : Tail(s)[k] = a
      BY <2>1, Zenon DEF In
    <3>2. k + 1 \in 1 .. Len(s) /\ s[k + 1] = a /\ k + 1 # 1 /\ 1 \in 1 .. Len(s)
      BY <1>1, <1>2, <3>1
    <3> QED
      BY <1>3, <3>2, Zenon DEF In, Injective
  <2>2. ASSUME In(a, s), a # Head(s) PROVE In(a, Tail(s))
    <3>1. PICK k \in 1 .. Len(s) : s[k] = a
      BY <2>2, Zenon DEF In
    <3>2. k - 1 \in 1 .. Len(Tail(s)) /\ Tail(s)[k - 1] = a
      BY <1>1, <1>2, <1>3, <2>2, <3>1
    <3> QED
      BY <3>2, Zenon DEF In
  <2> QED
    BY <2>1, <2>2, Zenon
<1>6. In(Head(s), s)
  BY <1>2, <1>3 DEF In
<1> QED
  BY <1>1, <1>3, <1>4, <1>5, <1>6, Zenon

\* lst_push puts its element, and nothing else, in front of the list.
LEMMA PushFacts ==
  ASSUME NEW S, NEW s \in Seq(S), NEW x \in S, ~In(x, s), Injective(s)
  PROVE  /\ <<x>> \o s \in Seq(S)
         /\ Injective(<<x>> \o s)
         /\ \A a : In(a, <<x>> \o s) <=> In(a, s) \/ a = x
<1> DEFINE t == <<x>> \o s
<1>1. t \in Seq(S)
  OBVIOUS
<1>2. /\ Len(s) \in Nat
      /\ Len(t) = Len(s) + 1
      /\ t[1] = x
      /\ \A k \in 1 .. Len(s) : t[k + 1] = s[k]
  OBVIOUS
<1> HIDE DEF t
<1>3. \A k \in 1 .. Len(t) : k = 1 \/ (k - 1 \in 1 .. Len(s) /\ t[k] = s[k - 1])
  BY <1>2
<1>4. Injective(t)
  <2> SUFFICES ASSUME NEW j \in 1 .. Len(t), NEW k \in 1 .. Len(t), t[j] = t[k]
               PROVE  j = k
    BY Zenon DEF Injective
  <2>1. CASE j = 1 \/ k = 1
    BY <1>2, <1>3, <2>1 DEF In
  <2>2. CASE j # 1 /\ k # 1
    BY <1>3, <2>2 DEF Injective
  <2> QED
    BY <2>1, <2>2, Zenon
<1>5. ASSUME NEW a PROVE In(a, t) <=> In(a, s) \/ a = x
  <2>1. In(a, t) => In(a, s) \/ a = x
    BY <1>2, <1>3 DEF In
  <2>2. a = x => In(a, t)
    BY <1>2 DEF In
  <2>3. ASSUME In(a, s) PROVE In(a, t)
    <3>1. PICK k \in 1 .. Len(s) : s[k] = a
      BY <2>3, Zenon DEF In
    <3>2. k + 1 \in 1 .. Len(t) /\ t[k + 1] = a
      BY <1>2, <3>1
    <3> QED
      BY <3>2, Zenon DEF In
  <2> QED
    BY <2>1, <2>2, <2>3, Zenon
<1> QED
  BY <1>1, <1>4, <1>5, Zenon DEF t

-----------------------------------------------------------------------------
(* The inductive invariant.                                                *)

LEMMA ListedIn == ASSUME NEW a PROVE Listed(a) <=> In(a, free_lst)
  BY Zenon DEF Listed, In

\* A CPU in a critical section is alone there.
LEMMA Alone ==
  ASSUME LockOwner, NEW c \in Cpus, pc[c] \in Locked, NEW d \in Cpus, d # c
  PROVE  pc[d] \notin Locked
  BY Zenon DEF LockOwner

\* init_phys_allocator establishes the invariant.
LEMMA InitEstablishes == Init => IInv
<1> SUFFICES ASSUME Init PROVE IInv
  BY Zenon
<1> USE DEF Init
<1> DEFINE n == page_count - first_free
<1>1. n \in Int /\ first_free \in Nat
  BY Layout
<1>2. \A k \in 1 .. n : first_free + k - 1 \in first_free .. page_count - 1
  BY Layout
<1>3. \A k \in 1 .. n : free_lst[k] = addr(first_free + k - 1) /\ free_lst[k] \in Pool
  BY <1>2, Zenon DEF Pool
<1>4. free_lst \in Seq(Pool)
  <2>1. CASE n \in Nat
    <3>1. free_lst \in [1 .. n -> Pool]
      BY <1>2, Zenon DEF Pool
    <3> QED
      BY <2>1, <3>1
  <2>2. CASE n \notin Nat
    <3>1. 1 .. n = {} /\ 1 .. 0 = {}
      BY <1>1, <2>2
    <3>2. free_lst \in [1 .. 0 -> Pool]
      BY <3>1, Zenon
    <3>3. 0 \in Nat
      OBVIOUS
    <3>4. free_lst \in UNION {[1 .. k -> Pool] : k \in Nat}
      BY <3>2, <3>3, Zenon
    <3>5. Seq(Pool) = UNION {[1 .. k -> Pool] : k \in Nat}
      BY SeqDef, Zenon
    <3> QED
      BY <3>4, <3>5, Zenon
  <2> QED
    BY <2>1, <2>2, Zenon
<1>5. Len(free_lst) \in Nat /\ DOMAIN free_lst = 1 .. Len(free_lst)
  BY <1>4, LenProperties, Zenon
<1>6. 1 .. Len(free_lst) = 1 .. n
  BY <1>5, Zenon
<1>7. ASSUME NEW i \in first_free .. page_count - 1 PROVE Listed(addr(i))
  <2>1. i - first_free + 1 \in 1 .. n
    BY Layout
  <2>2. free_lst[i - first_free + 1] = addr(i)
    BY <1>1, <1>3, <2>1
  <2> QED
    BY <1>6, <2>1, <2>2, Zenon DEF Listed
<1>8. FreedOnce
  <2> SUFFICES ASSUME NEW j \in 1 .. n, NEW k \in 1 .. n, free_lst[j] = free_lst[k]
               PROVE  j = k
    BY <1>6, Zenon DEF FreedOnce
  <2>1. addr(first_free + j - 1) = addr(first_free + k - 1)
    BY <1>3, Zenon
  <2>2. first_free + j - 1 \in Nat /\ first_free + k - 1 \in Nat
    BY <1>1
  <2>3. first_free + j - 1 = first_free + k - 1
    BY <2>1, <2>2, PageIndex, Zenon
  <2> QED
    BY <1>1, <2>3
<1>9. TypeOK
  BY <1>4, Zenon DEF TypeOK, Labels, Carrying
<1>10. LockOwner
  BY Zenon DEF LockOwner, Locked
<1>11. Exclusive /\ ClearingListed
  BY <1>8, Zenon DEF Exclusive, ClearingListed, Carrying
<1>12. NoLeak
  BY <1>7, Zenon DEF NoLeak, Pool
<1>13. BitmapAgrees
  <2> SUFFICES ASSUME NEW i \in first_free .. page_count - 1
               PROVE  /\ Listed(addr(i))
                      /\ \A c \in Cpus : pc[c] # "clear"
                      /\ ~alloc[i]
    BY Zenon DEF BitmapAgrees
  <2>1. i \in Bits
    BY Layout DEF Bits
  <2>2. ~(i < first_free \/ i >= page_count)
    BY Layout
  <2> QED
    BY <1>7, <2>1, <2>2, Zenon
<1>14. ReservedStaySet
  BY Zenon DEF ReservedStaySet
<1> QED
  BY <1>9, <1>10, <1>11, <1>12, <1>13, <1>14, Zenon DEF IInv

\* The steps that take or give back the lock and touch nothing else.
LEMMA LockStepPreserves ==
  ASSUME IInv, NEW c \in Cpus, Kalloc(c) \/ KallocEmpty(c) \/ KfreeAcquire(c)
  PROVE  IInv'
<1> USE DEF IInv
<1>1. /\ UNCHANGED <<free_lst, alloc, page, used>>
      /\ pc' \in [Cpus -> Labels]
      /\ \A d \in Cpus : d # c => pc'[d] = pc[d]
      /\ <<pc[c], pc'[c]>> \in {<<"idle", "pop">>, <<"pop", "idle">>, <<"acquire", "push">>}
  BY Zenon DEF Kalloc, KallocEmpty, KfreeAcquire, TypeOK, Labels
<1>2. \A a : Listed(a)' <=> Listed(a)
  BY <1>1, Zenon DEF Listed
<1>3. \A d \in Cpus : /\ Carrying(d)' <=> Carrying(d)
                      /\ pc'[d] = "clear" <=> pc[d] = "clear"
                      /\ pc'[d] = "set" <=> pc[d] = "set"
  BY <1>1, Zenon DEF Carrying
<1>4. lock' \in Cpus \cup {NoCpu} /\ LockOwner'
  BY <1>1, Zenon DEF Kalloc, KallocEmpty, KfreeAcquire, LockOwner, Locked
<1>5. TypeOK'
  BY <1>1, <1>3, <1>4, Zenon DEF TypeOK
<1>6. Exclusive'
  BY <1>1, <1>2, <1>3, Zenon DEF Exclusive, FreedOnce
<1>7. NoLeak' /\ ClearingListed'
  BY <1>1, <1>2, <1>3, Zenon DEF NoLeak, ClearingListed
<1>8. BitmapAgrees'
  BY <1>1, <1>2, <1>3, Zenon DEF BitmapAgrees
<1>9. ReservedStaySet'
  BY <1>1, Zenon DEF ReservedStaySet
<1> QED
  BY <1>4, <1>5, <1>6, <1>7, <1>8, <1>9, Zenon

\* kalloc takes the first page out of the list.
LEMMA KallocPopPreserves ==
  ASSUME IInv, NEW c \in Cpus, KallocPop(c)
  PROVE  IInv'
<1> USE DEF IInv
<1>1. PICK x : x = Head(free_lst)
  BY Zenon
<1>2. /\ free_lst \in Seq(Pool) /\ free_lst # <<>> /\ Injective(free_lst)
      /\ free_lst' = Tail(free_lst)
  BY Zenon DEF KallocPop, TypeOK, Exclusive, FreedOnce, Injective
<1>3. /\ x \in Pool /\ Listed(x)
      /\ free_lst' \in Seq(Pool)
      /\ FreedOnce'
      /\ \A a : Listed(a)' <=> Listed(a) /\ a # x
  <2>1. /\ x \in Pool /\ In(x, free_lst)
        /\ free_lst' \in Seq(Pool)
        /\ Injective(free_lst')
        /\ \A a : In(a, free_lst') <=> In(a, free_lst) /\ a # x
    BY <1>1, <1>2, PopFacts, Zenon
  <2>2. FreedOnce'
    BY <2>1, Zenon DEF FreedOnce, Injective
  <2> QED
    BY <2>1, <2>2, Zenon DEF Listed, In
<1>4. /\ pc[c] = "pop" /\ pc'[c] = "set" /\ page'[c] = x
      /\ pc' \in [Cpus -> Labels] /\ page' \in [Cpus -> Pool \cup {0}]
      /\ \A d \in Cpus : d # c => pc'[d] = pc[d] /\ page'[d] = page[d]
      /\ UNCHANGED <<alloc, lock, used>>
  BY <1>1, <1>3, Zenon DEF KallocPop, TypeOK, Labels
<1>5. \A d \in Cpus : d # c => pc[d] \notin Locked
  BY <1>4, Alone, Zenon DEF Locked
<1>6. \A d \in Cpus : pc[d] # "clear" /\ pc'[d] # "clear" /\ pc[d] # "set"
  BY <1>4, <1>5, Zenon DEF Locked
<1>7. /\ Carrying(c)' /\ ~Carrying(c)
      /\ \A d \in Cpus : d # c => (Carrying(d)' <=> Carrying(d))
  BY <1>4, Zenon DEF Carrying
<1>8. TypeOK'
  BY <1>3, <1>4, <1>6, <1>7, Zenon DEF TypeOK
<1>9. LockOwner'
  BY <1>4, Zenon DEF LockOwner, Locked
<1>10. Exclusive'
  <2>1. x \notin used /\ \A d \in Cpus : Carrying(d) => page[d] # x
    BY <1>3, Zenon DEF Exclusive
  <2>2. \A a \in used' : ~Listed(a)'
    BY <1>3, <1>4, Zenon DEF Exclusive
  <2>3. \A d \in Cpus : Carrying(d)' => (page[d] \notin used /\ ~Listed(page[d]))'
    BY <1>3, <1>4, <1>7, <2>1, Zenon DEF Exclusive
  <2>4. \A d, e \in Cpus : Carrying(d)' /\ Carrying(e)' /\ page'[d] = page'[e] => d = e
    BY <1>4, <1>7, <2>1, Zenon DEF Exclusive
  <2> QED
    BY <1>3, <2>2, <2>3, <2>4, Zenon DEF Exclusive
<1>11. NoLeak' /\ ClearingListed'
  BY <1>3, <1>4, <1>6, <1>7, Zenon DEF NoLeak, ClearingListed
<1>12. BitmapAgrees'
  <2> SUFFICES ASSUME NEW i \in first_free .. page_count - 1
               PROVE  ~alloc[i] <=>
                        Listed(addr(i))' \/ \E d \in Cpus : pc'[d] = "set" /\ page'[d] = addr(i)
    BY <1>4, <1>6, Zenon DEF BitmapAgrees
  <2>1. ~alloc[i] <=> Listed(addr(i))
    BY <1>6, Zenon DEF BitmapAgrees
  <2>2. (\E d \in Cpus : pc'[d] = "set" /\ page'[d] = addr(i)) <=> addr(i) = x
    BY <1>4, <1>6, Zenon
  <2> QED
    BY <1>3, <2>1, <2>2, Zenon
<1>13. ReservedStaySet'
  BY <1>4, Zenon DEF ReservedStaySet
<1> QED
  BY <1>8, <1>9, <1>10, <1>11, <1>12, <1>13, Zenon

\* kalloc marks the page, releases the lock and returns the page.
LEMMA KallocSetPreserves ==
  ASSUME IInv, NEW c \in Cpus, KallocSet(c)
  PROVE  IInv'
<1> USE DEF IInv
<1>1. PICK x : x = page[c]
  BY Zenon
<1>2. x \in Pool /\ x \notin used /\ ~Listed(x)
  BY <1>1, Zenon DEF KallocSet, TypeOK, Exclusive, Carrying
<1>3. /\ page_index(x) \in Bits
      /\ page_index(x) \in first_free .. page_count - 1
      /\ x = addr(page_index(x))
  BY <1>2, PoolPages, Zenon
<1>4. /\ pc[c] = "set" /\ pc'[c] = "idle"
      /\ pc' \in [Cpus -> Labels] /\ page' \in [Cpus -> Pool \cup {0}]
      /\ \A d \in Cpus : d # c => pc'[d] = pc[d] /\ page'[d] = page[d]
      /\ lock' = NoCpu /\ used' = used \cup {x}
      /\ UNCHANGED free_lst
  BY <1>1, Zenon DEF KallocSet, TypeOK, Labels
<1>5. /\ alloc' \in [Bits -> BOOLEAN]
      /\ alloc'[page_index(x)]
      /\ \A i \in Bits : i # page_index(x) => (alloc'[i] <=> alloc[i])
  BY <1>1, <1>3, Zenon DEF KallocSet, TypeOK
<1>6. \A d \in Cpus : d # c => pc[d] \notin Locked
  BY <1>4, Alone, Zenon DEF Locked
<1>7. \A d \in Cpus : pc'[d] # "clear" /\ pc'[d] # "set" /\ pc[d] # "clear"
  BY <1>4, <1>6, Zenon DEF Locked
<1>8. /\ Carrying(c) /\ ~Carrying(c)'
      /\ \A d \in Cpus : d # c => (Carrying(d)' <=> Carrying(d))
  BY <1>4, Zenon DEF Carrying
<1>9. \A a : Listed(a)' <=> Listed(a)
  BY <1>4, Zenon DEF Listed
<1>10. TypeOK'
  BY <1>2, <1>4, <1>5, <1>7, <1>8, Zenon DEF TypeOK
<1>11. LockOwner'
  BY <1>4, <1>6, Zenon DEF LockOwner, Locked
<1>12. Exclusive'
  <2>1. \A d \in Cpus : d # c /\ Carrying(d) => page[d] # x
    BY <1>1, <1>8, Zenon DEF Exclusive
  <2>2. \A a \in used' : ~Listed(a)'
    BY <1>2, <1>4, <1>9, Zenon DEF Exclusive
  <2>3. \A d \in Cpus : Carrying(d)' => (page[d] \notin used /\ ~Listed(page[d]))'
    BY <1>4, <1>8, <1>9, <2>1, Zenon DEF Exclusive
  <2>4. \A d, e \in Cpus : Carrying(d)' /\ Carrying(e)' /\ page'[d] = page'[e] => d = e
    BY <1>4, <1>8, Zenon DEF Exclusive
  <2>5. FreedOnce'
    BY <1>4, Zenon DEF Exclusive, FreedOnce
  <2> QED
    BY <2>2, <2>3, <2>4, <2>5, Zenon DEF Exclusive
<1>13. NoLeak' /\ ClearingListed'
  BY <1>1, <1>4, <1>7, <1>8, <1>9, Zenon DEF NoLeak, ClearingListed
<1>14. BitmapAgrees'
  <2> SUFFICES ASSUME NEW i \in first_free .. page_count - 1
               PROVE  ~alloc'[i] <=> Listed(addr(i))
    BY <1>7, <1>9, Zenon DEF BitmapAgrees
  <2>1. i \in Bits /\ i \in Nat
    BY Layout DEF Bits
  <2>2. CASE i = page_index(x)
    BY <1>2, <1>3, <1>5, <2>2, Zenon
  <2>3. CASE i # page_index(x)
    <3>1. addr(i) # x
      BY <2>1, <2>3, PageIndex, Zenon
    <3>2. \A d \in Cpus : ~(pc[d] = "set" /\ page[d] = addr(i))
      BY <1>1, <1>6, <3>1, Zenon DEF Locked
    <3>3. ~alloc[i] <=> Listed(addr(i))
      BY <1>7, <3>2, Zenon DEF BitmapAgrees
    <3> QED
      BY <1>5, <2>1, <2>3, <3>3, Zenon
  <2> QED
    BY <2>2, <2>3, Zenon
<1>15. ReservedStaySet'
  BY <1>5, Zenon DEF ReservedStaySet
<1> QED
  BY <1>10, <1>11, <1>12, <1>13, <1>14, <1>15, Zenon

\* A CPU is between the two updates of the page b, in kalloc or in kfree.
Clearing(b) == \E d \in Cpus : pc[d] = "clear" /\ page[d] = b
Setting(b) == \E d \in Cpus : pc[d] = "set" /\ page[d] = b

\* kfree is called with a page the caller has: its bit is set.
LEMMA KfreePreserves ==
  ASSUME IInv, NEW c \in Cpus, NEW a \in used, Kfree(c, a)
  PROVE  IInv'
<1> USE DEF IInv
<1>1. a \in Pool /\ ~Listed(a) /\ \A d \in Cpus : Carrying(d) => page[d] # a
  BY Zenon DEF TypeOK, Exclusive
<1>2. /\ PAGE_START(a) = a
      /\ page_index(a) \in first_free .. page_count - 1
      /\ a = addr(page_index(a))
  BY <1>1, PoolPages, Zenon
<1>3. alloc[page_index(a)]
  <2>1. \A d \in Cpus : ~(pc[d] = "set" /\ page[d] = addr(page_index(a)))
    BY <1>1, <1>2, Zenon DEF Carrying
  <2>2. ~Listed(addr(page_index(a)))
    BY <1>1, <1>2, Zenon
  <2> QED
    BY <1>2, <2>1, <2>2, Zenon DEF BitmapAgrees
<1>4. /\ pc[c] = "idle" /\ pc'[c] = "acquire" /\ page'[c] = a
      /\ pc' \in [Cpus -> Labels] /\ page' \in [Cpus -> Pool \cup {0}]
      /\ \A d \in Cpus : d # c => pc'[d] = pc[d] /\ page'[d] = page[d]
      /\ used' = used \ {a}
      /\ UNCHANGED <<free_lst, alloc, lock>>
  BY <1>1, <1>2, <1>3 DEF Kfree, KfreeTest, TypeOK, Labels
<1>5. /\ Carrying(c)' /\ ~Carrying(c)
      /\ \A d \in Cpus : d # c => (Carrying(d)' <=> Carrying(d))
  BY <1>4, Zenon DEF Carrying
<1>6. \A d \in Cpus : /\ pc'[d] = "clear" <=> pc[d] = "clear"
                      /\ pc'[d] = "set" <=> pc[d] = "set"
                      /\ pc'[d] = "clear" \/ pc'[d] = "set" => page'[d] = page[d]
  BY <1>4, Zenon
<1>7. \A b : Listed(b)' <=> Listed(b)
  BY <1>4, Zenon DEF Listed
<1>8. TypeOK'
  BY <1>1, <1>4, <1>5, <1>6, Zenon DEF TypeOK
<1>9. LockOwner'
  BY <1>4, Zenon DEF LockOwner, Locked
<1>10. Exclusive'
  <2>1. \A b \in used' : ~Listed(b)'
    BY <1>4, <1>7, Zenon DEF Exclusive
  <2>2. \A d \in Cpus : Carrying(d)' => (page[d] \notin used /\ ~Listed(page[d]))'
    BY <1>1, <1>4, <1>5, <1>7, Zenon DEF Exclusive
  <2>3. \A d, e \in Cpus : Carrying(d)' /\ Carrying(e)' /\ page'[d] = page'[e] => d = e
    BY <1>1, <1>4, <1>5, Zenon DEF Exclusive
  <2>4. FreedOnce'
    BY <1>4, Zenon DEF Exclusive, FreedOnce
  <2> QED
    BY <2>1, <2>2, <2>3, <2>4, Zenon DEF Exclusive
<1>11. NoLeak' /\ ClearingListed'
  <2>1. NoLeak'
    BY <1>1, <1>4, <1>5, <1>7, Zenon DEF NoLeak
  <2>2. ClearingListed'
    BY <1>4, <1>6, <1>7, Zenon DEF ClearingListed
  <2> QED
    BY <2>1, <2>2, Zenon
<1>12. BitmapAgrees'
  <2>1. ASSUME NEW b PROVE (Clearing(b)' <=> Clearing(b)) /\ (Setting(b)' <=> Setting(b))
    BY <1>6, Zenon DEF Clearing, Setting
  <2>2. ASSUME NEW i \in first_free .. page_count - 1
        PROVE  (~alloc[i] <=> \/ Listed(addr(i)) /\ \A d \in Cpus : pc[d] = "clear" => page[d] # addr(i)
                              \/ \E d \in Cpus : pc[d] = "set" /\ page[d] = addr(i))'
    <3>1. PICK b : b = addr(i)
      BY Zenon
    <3>2. ~alloc[i] <=> (Listed(b) /\ ~Clearing(b)) \/ Setting(b)
      BY <3>1, Zenon DEF BitmapAgrees, Clearing, Setting
    <3>3. alloc' = alloc /\ (Listed(b)' <=> Listed(b))
      BY <1>4, <1>7, Zenon
    <3>4. ~alloc'[i] <=> (Listed(b)' /\ ~Clearing(b)') \/ Setting(b)'
      BY <2>1, <3>2, <3>3, Zenon
    <3>5. addr(i)' = b
      BY <3>1, Zenon DEF addr
    <3>6. /\ (\A d \in Cpus : pc'[d] = "clear" => page'[d] # b) <=> ~Clearing(b)'
          /\ (\E d \in Cpus : pc'[d] = "set" /\ page'[d] = b) <=> Setting(b)'
      BY Zenon DEF Clearing, Setting
    <3> QED
      BY <3>4, <3>5, <3>6
  <2> QED
    BY <2>2, Zenon DEF BitmapAgrees
<1>13. ReservedStaySet'
  BY <1>4, Zenon DEF ReservedStaySet
<1> QED
  BY <1>8, <1>9, <1>10, <1>11, <1>12, <1>13, Zenon

\* kfree puts the page in front of the list.
LEMMA KfreePushPreserves ==
  ASSUME IInv, NEW c \in Cpus, KfreePush(c)
  PROVE  IInv'
<1> USE DEF IInv
<1>1. PICK x : x = page[c]
  BY Zenon
<1>2. x \in Pool /\ x \notin used /\ ~Listed(x)
  BY <1>1, Zenon DEF KfreePush, TypeOK, Exclusive, Carrying
<1>3. /\ free_lst' \in Seq(Pool)
      /\ FreedOnce'
      /\ \A a : Listed(a)' <=> Listed(a) \/ a = x
  <2>1. /\ free_lst \in Seq(Pool) /\ Injective(free_lst) /\ ~In(x, free_lst)
        /\ free_lst' = <<x>> \o free_lst
    BY <1>1, <1>2, Zenon DEF KfreePush, TypeOK, Exclusive, FreedOnce, Injective, Listed, In
  <2>2. /\ free_lst' \in Seq(Pool)
        /\ Injective(free_lst')
        /\ \A a : In(a, free_lst') <=> In(a, free_lst) \/ a = x
    BY <1>2, <2>1, PushFacts, Zenon
  <2>3. FreedOnce'
    BY <2>2, Zenon DEF FreedOnce, Injective
  <2> QED
    BY <2>2, <2>3, Zenon DEF Listed, In
<1>4. /\ pc[c] = "push" /\ pc'[c] = "clear"
      /\ pc' \in [Cpus -> Labels]
      /\ \A d \in Cpus : d # c => pc'[d] = pc[d]
      /\ UNCHANGED <<alloc, lock, page, used>>
  BY Zenon DEF KfreePush, TypeOK, Labels
<1>5. \A d \in Cpus : d # c => pc[d] \notin Locked
  BY <1>4, Alone, Zenon DEF Locked
<1>6. \A d \in Cpus : pc[d] # "clear" /\ pc[d] # "set" /\ pc'[d] # "set"
  BY <1>4, <1>5, Zenon DEF Locked
<1>7. /\ Carrying(c) /\ ~Carrying(c)'
      /\ \A d \in Cpus : d # c => (Carrying(d)' <=> Carrying(d))
  BY <1>4, Zenon DEF Carrying
<1>8. TypeOK'
  BY <1>1, <1>2, <1>3, <1>4, <1>6, <1>7, Zenon DEF TypeOK
<1>9. LockOwner'
  BY <1>4, Zenon DEF LockOwner, Locked
<1>10. Exclusive'
  <2>1. \A d \in Cpus : d # c /\ Carrying(d) => page[d] # x
    BY <1>1, <1>7, Zenon DEF Exclusive
  <2>2. \A a \in used' : ~Listed(a)'
    BY <1>2, <1>3, <1>4, Zenon DEF Exclusive
  <2>3. \A d \in Cpus : Carrying(d)' => (page[d] \notin used /\ ~Listed(page[d]))'
    BY <1>3, <1>4, <1>7, <2>1, Zenon DEF Exclusive
  <2>4. \A d, e \in Cpus : Carrying(d)' /\ Carrying(e)' /\ page'[d] = page'[e] => d = e
    BY <1>4, <1>7, Zenon DEF Exclusive
  <2> QED
    BY <1>3, <2>2, <2>3, <2>4, Zenon DEF Exclusive
<1>11. NoLeak' /\ ClearingListed'
  BY <1>1, <1>2, <1>3, <1>4, <1>6, <1>7, Zenon DEF NoLeak, ClearingListed
<1>12. BitmapAgrees'
  <2> SUFFICES ASSUME NEW i \in first_free .. page_count - 1
               PROVE  ~alloc[i] <=> Listed(addr(i))' /\ addr(i) # x
    BY <1>1, <1>4, <1>6, Zenon DEF BitmapAgrees
  <2>1. ~alloc[i] <=> Listed(addr(i))
    BY <1>6, Zenon DEF BitmapAgrees
  <2> QED
    BY <1>2, <1>3, <2>1, Zenon
<1>13. ReservedStaySet'
  BY <1>4, Zenon DEF ReservedStaySet
<1> QED
  BY <1>8, <1>9, <1>10, <1>11, <1>12, <1>13, Zenon

\* kfree clears the page's bit and releases the lock.
LEMMA KfreeClearPreserves ==
  ASSUME IInv, NEW c \in Cpus, KfreeClear(c)
  PROVE  IInv'
<1> USE DEF IInv
<1>1. PICK x : x = page[c]
  BY Zenon
<1>2. x \in Pool /\ Listed(x)
  BY <1>1, Zenon DEF KfreeClear, TypeOK, ClearingListed
<1>3. /\ page_index(x) \in Bits
      /\ page_index(x) \in first_free .. page_count - 1
      /\ x = addr(page_index(x))
  BY <1>2, PoolPages, Zenon
<1>4. /\ pc[c] = "clear" /\ pc'[c] = "idle"
      /\ pc' \in [Cpus -> Labels] /\ page' \in [Cpus -> Pool \cup {0}]
      /\ \A d \in Cpus : d # c => pc'[d] = pc[d] /\ page'[d] = page[d]
      /\ lock' = NoCpu
      /\ UNCHANGED <<free_lst, used>>
  BY <1>1, Zenon DEF KfreeClear, TypeOK, Labels
<1>5. /\ alloc' \in [Bits -> BOOLEAN]
      /\ ~alloc'[page_index(x)]
      /\ \A i \in Bits : i # page_index(x) => (alloc'[i] <=> alloc[i])
  BY <1>1, <1>3, Zenon DEF KfreeClear, TypeOK
<1>6. \A d \in Cpus : d # c => pc[d] \notin Locked
  BY <1>4, Alone, Zenon DEF Locked
<1>7. \A d \in Cpus : pc'[d] # "clear" /\ pc'[d] # "set" /\ pc[d] # "set"
  BY <1>4, <1>6, Zenon DEF Locked
<1>8. \A d \in Cpus : /\ Carrying(d)' <=> Carrying(d)
                      /\ Carrying(d) => page'[d] = page[d]
  BY <1>4, Zenon DEF Carrying
<1>9. \A a : Listed(a)' <=> Listed(a)
  BY <1>4, Zenon DEF Listed
<1>10. TypeOK'
  BY <1>4, <1>5, <1>7, <1>8, Zenon DEF TypeOK
<1>11. LockOwner'
  BY <1>4, <1>6, Zenon DEF LockOwner, Locked
<1>12. Exclusive'
  BY <1>4, <1>8, <1>9, Zenon DEF Exclusive, FreedOnce
<1>13. NoLeak' /\ ClearingListed'
  BY <1>4, <1>7, <1>8, <1>9, Zenon DEF NoLeak, ClearingListed
<1>14. BitmapAgrees'
  <2> SUFFICES ASSUME NEW i \in first_free .. page_count - 1
               PROVE  ~alloc'[i] <=> Listed(addr(i))
    BY <1>7, <1>9, Zenon DEF BitmapAgrees
  <2>1. i \in Bits /\ i \in Nat
    BY Layout DEF Bits
  <2>2. CASE i = page_index(x)
    BY <1>2, <1>3, <1>5, <2>2, Zenon
  <2>3. CASE i # page_index(x)
    <3>1. addr(i) # x
      BY <2>1, <2>3, PageIndex, Zenon
    <3>2. \A d \in Cpus : pc[d] = "clear" => page[d] # addr(i)
      BY <1>1, <1>6, <3>1, Zenon DEF Locked
    <3>3. ~alloc[i] <=> Listed(addr(i))
      BY <1>7, <3>2, Zenon DEF BitmapAgrees
    <3> QED
      BY <1>5, <2>1, <2>3, <3>3, Zenon
  <2> QED
    BY <2>2, <2>3, Zenon
<1>15. ReservedStaySet'
  <2>1. \A i \in Bits : i < first_free \/ i >= page_count => i # page_index(x)
    BY <1>3, Layout DEF Bits
  <2> QED
    BY <1>5, <2>1, Zenon DEF ReservedStaySet
<1> QED
  BY <1>10, <1>11, <1>12, <1>13, <1>14, <1>15, Zenon

\* Every step of kalloc and kfree, on any CPU, keeps the invariant.
LEMMA NextPreserves == IInv /\ [Next]_vars => IInv'
<1> SUFFICES ASSUME IInv, [Next]_vars PROVE IInv'
  BY Zenon
<1>1. CASE UNCHANGED vars
  BY <1>1 DEF vars, IInv, TypeOK, LockOwner, Exclusive, FreedOnce, NoLeak,
     ClearingListed, BitmapAgrees, ReservedStaySet, Carrying, Listed
<1>2. ASSUME NEW c \in Cpus, Step(c) PROVE IInv'
  BY <1>2, LockStepPreserves, KallocPopPreserves, KallocSetPreserves,
     KfreePushPreserves, KfreeClearPreserves, Zenon DEF Step
<1>3. ASSUME NEW c \in Cpus, NEW a \in used, Kfree(c, a) PROVE IInv'
  BY <1>3, KfreePreserves, Zenon
<1> QED
  BY <1>1, <1>2, <1>3, Zenon DEF Next

\* The allocator keeps its invariant for any number of CPUs and any RAM.
THEOREM Invariance == Spec => []IInv
  BY InitEstablishes, NextPreserves, PTL DEF Spec

\* Every address the allocator keeps is that of a page of the pool.
THEOREM TypeCorrect == Spec => []TypeOK
<1>1. IInv => TypeOK
  BY Zenon DEF IInv
<1> QED
  BY <1>1, Invariance, PTL

\* kalloc never hands out a page that is in use.
THEOREM NoDoubleAllocation == Spec => []Exclusive
<1>1. IInv => Exclusive
  BY Zenon DEF IInv
<1> QED
  BY <1>1, Invariance, PTL

\* No interleaving of kalloc and kfree loses a page.
THEOREM NothingLost == Spec => []NoLeak
<1>1. IInv => NoLeak
  BY Zenon DEF IInv
<1> QED
  BY <1>1, Invariance, PTL

\* The bitmap agrees with the list, so kfree's test of the bit is right for
\* every caller that has the page.
THEOREM BitmapRight == Spec => []BitmapAgrees
<1>1. IInv => BitmapAgrees
  BY Zenon DEF IInv
<1> QED
  BY <1>1, Invariance, PTL

\* No page that kalloc can return overlaps the bitmap (init_phys_allocator
\* reserves every page the bitmap reaches into), whatever the RAM.
THEOREM PoolAvoidsBitmap == \A a \in Pool : base + alloc_size <= a
<1> SUFFICES ASSUME NEW i \in first_free .. page_count - 1
             PROVE  base + alloc_size <= addr(i)
  BY Zenon DEF Pool
<1>1. base \in Nat
  BY BaseAligned
<1>2. (i - first_free) * PAGE_SIZE >= 0
  BY Layout
<1>3. addr(i) = addr(first_free) + (i - first_free) * PAGE_SIZE
  BY <1>1, Layout DEF addr
<1>4. addr(first_free) \in Nat /\ (i - first_free) * PAGE_SIZE \in Int
  BY <1>1, Layout, PageIndex
<1> QED
  BY <1>1, <1>2, <1>3, <1>4, Layout

-----------------------------------------------------------------------------
(* The allocator implements the page pool.                                 *)

free == {free_lst[k] : k \in 1 .. Len(free_lst)}
inUse == used \cup {page[c] : c \in {d \in Cpus : Carrying(d)}}

LEMMA FreeListed == \A a : a \in free <=> Listed(a)
  BY Zenon DEF free, Listed

LEMMA InUsePages ==
  \A a : a \in inUse <=> a \in used \/ \E c \in Cpus : Carrying(c) /\ page[c] = a
  BY Zenon DEF inUse

\* Every step of the allocator is a step of the pool or leaves it alone: lst_pop
\* takes a page, lst_push gives one back.
LEMMA StepSimulation ==
  IInv /\ IInv' /\ [Next]_vars => [PagePool!Next]_<<free, inUse>>
<1> SUFFICES ASSUME IInv, IInv', [Next]_vars,
                    ~(free' = free /\ inUse' = inUse)
             PROVE  PagePool!Next
  BY Zenon
<1>1. ASSUME NEW c \in Cpus, KallocPop(c) PROVE PagePool!Next
  <2>1. PICK x : x = Head(free_lst)
    BY Zenon
  <2>2. /\ free_lst \in Seq(Pool) /\ free_lst # <<>> /\ Injective(free_lst)
        /\ free_lst' = Tail(free_lst)
    BY <1>1, Zenon DEF KallocPop, IInv, TypeOK, Exclusive, FreedOnce, Injective
  <2>3. /\ x \in Pool /\ In(x, free_lst)
        /\ \A a : In(a, free_lst') <=> In(a, free_lst) /\ a # x
    BY <2>1, <2>2, PopFacts, Zenon
  <2>4. x \in free /\ free' = free \ {x}
    BY <2>3, Zenon DEF free, In
  <2>5. /\ used' = used /\ Carrying(c)' /\ page'[c] = x /\ ~Carrying(c)
        /\ \A d \in Cpus : d # c => (Carrying(d)' <=> Carrying(d)) /\ page'[d] = page[d]
    BY <1>1, <2>1, Zenon DEF KallocPop, IInv, TypeOK, Carrying
  <2>6. inUse' = inUse \cup {x}
    BY <2>5, Zenon DEF inUse
  <2> QED
    BY <2>3, <2>4, <2>6, Zenon DEF PagePool!Next, PagePool!Take, free, inUse
<1>2. ASSUME NEW c \in Cpus, KfreePush(c) PROVE PagePool!Next
  <2>1. PICK x : x = page[c]
    BY Zenon
  <2>2. x \in Pool /\ Carrying(c) /\ x \notin used /\ ~In(x, free_lst)
    BY <1>2, <2>1, Zenon DEF KfreePush, IInv, TypeOK, Exclusive, Carrying, Listed, In
  <2>3. /\ free_lst \in Seq(Pool) /\ Injective(free_lst)
        /\ free_lst' = <<x>> \o free_lst
    BY <1>2, <2>1, Zenon DEF KfreePush, IInv, TypeOK, Exclusive, FreedOnce, Injective
  <2>4. \A a : In(a, free_lst') <=> In(a, free_lst) \/ a = x
    BY <2>2, <2>3, PushFacts, Zenon
  <2>5. free' = free \cup {x}
    BY <2>4, Zenon DEF free, In
  <2>6. /\ used' = used /\ page' = page /\ ~Carrying(c)'
        /\ \A d \in Cpus : d # c => (Carrying(d)' <=> Carrying(d))
    BY <1>2, Zenon DEF KfreePush, IInv, TypeOK, Carrying
  <2>7. \A d \in Cpus : d # c /\ Carrying(d) => page[d] # x
    BY <2>1, <2>2, Zenon DEF IInv, Exclusive
  <2>8. x \in inUse /\ inUse' = inUse \ {x}
    BY <2>1, <2>2, <2>6, <2>7, Zenon DEF inUse
  <2> QED
    BY <2>2, <2>5, <2>8, Zenon DEF PagePool!Next, PagePool!Give, free, inUse
<1>3. ASSUME NEW c \in Cpus, Kalloc(c) \/ KallocEmpty(c) \/ KfreeAcquire(c)
      PROVE  FALSE
  <2>1. free' = free
    BY <1>3, Zenon DEF Kalloc, KallocEmpty, KfreeAcquire, free
  <2>2. /\ used' = used /\ page' = page
        /\ \A d \in Cpus : Carrying(d)' <=> Carrying(d)
    BY <1>3, Zenon DEF Kalloc, KallocEmpty, KfreeAcquire, IInv, TypeOK, Carrying
  <2> QED
    BY <2>1, <2>2, Zenon DEF inUse
<1>4. ASSUME NEW c \in Cpus, KallocSet(c) PROVE FALSE
  <2>1. free' = free
    BY <1>4, Zenon DEF KallocSet, free
  <2>2. /\ used' = used \cup {page[c]} /\ Carrying(c) /\ ~Carrying(c)'
        /\ \A d \in Cpus : d # c => (Carrying(d)' <=> Carrying(d)) /\ page'[d] = page[d]
    BY <1>4, Zenon DEF KallocSet, IInv, TypeOK, Carrying
  <2> QED
    BY <2>1, <2>2, Zenon DEF inUse
<1>5. ASSUME NEW c \in Cpus, KfreeClear(c) PROVE FALSE
  <2>1. free' = free
    BY <1>5, Zenon DEF KfreeClear, free
  <2>2. /\ used' = used
        /\ \A d \in Cpus : (Carrying(d)' <=> Carrying(d)) /\ (Carrying(d) => page'[d] = page[d])
    BY <1>5, Zenon DEF KfreeClear, IInv, TypeOK, Carrying
  <2> QED
    BY <2>1, <2>2, Zenon DEF inUse
<1>6. ASSUME NEW c \in Cpus, NEW a \in used, Kfree(c, a) PROVE FALSE
  <2>1. free' = free /\ used' = used \ {a}
    BY <1>6, Zenon DEF Kfree, KfreeTest, free
  <2>2. a \in Pool /\ PAGE_START(a) = a
    BY PoolPages, Zenon DEF IInv, TypeOK
  <2>3. /\ ~Listed(a)'
        /\ \E d \in Cpus : Carrying(d)' /\ page'[d] = a
    <3>1. ~Listed(a)'
      BY <1>6, Zenon DEF Kfree, KfreeTest, IInv, Exclusive, Listed
    <3> QED
      BY <2>1, <2>2, <3>1, Zenon DEF IInv, NoLeak
  <2>4. ~Carrying(c) /\ \A d \in Cpus : d # c =>
          (Carrying(d)' <=> Carrying(d)) /\ page'[d] = page[d]
    BY <1>6, Zenon DEF Kfree, KfreeTest, IInv, TypeOK, Carrying
  <2>5. \A d \in Cpus : Carrying(d) => page[d] # a
    BY Zenon DEF IInv, Exclusive
  <2>6. Carrying(c)' /\ page'[c] = a
    BY <2>3, <2>4, <2>5, Zenon
  <2> QED
    BY <2>1, <2>4, <2>6, Zenon DEF inUse
<1>7. CASE UNCHANGED vars
  BY <1>7, Zenon DEF vars, free, inUse, Carrying
<1> QED
  BY <1>1, <1>2, <1>3, <1>4, <1>5, <1>6, <1>7, Zenon DEF Next, Step

\* kalloc and kfree implement the page pool on any number of CPUs: pages are
\* taken and given back one at a time, and only what is free is taken.
THEOREM Implements == Spec => ImplementsPool
<1>1. Init => PagePool!Init
  <2> SUFFICES ASSUME Init PROVE free = Pool /\ inUse = {}
    BY Zenon DEF PagePool!Init, free, inUse
  <2>1. IInv
    BY InitEstablishes, Zenon
  <2>2. used = {} /\ \A c \in Cpus : ~Carrying(c)
    BY Zenon DEF Init, Carrying
  <2>3. inUse = {}
    BY <2>2, Zenon DEF inUse
  <2>4. free \subseteq Pool
    BY <2>1, ElementOfSeq, LenProperties DEF IInv, TypeOK, free
  <2>5. Pool \subseteq free
    BY <2>1, <2>2, FreeListed, Zenon DEF IInv, NoLeak
  <2> QED
    BY <2>3, <2>4, <2>5, Zenon
<1>2. IInv /\ IInv' /\ [Next]_vars => [PagePool!Next]_<<free, inUse>>
  BY StepSimulation, Zenon
<1> QED
  BY <1>1, <1>2, Invariance, PTL DEF Spec, ImplementsPool, PagePool!Spec, free, inUse

(***************************************************************************)
(* VmmAreas                                                                *)
(***************************************************************************)

HIDE PhysicalAllocatorAssumption
USE VmmAreasAssumption

-----------------------------------------------------------------------------
(* The page arithmetic.                                                    *)

\* PAGE_END is the last address of the page, so the next page starts behind it.
LEMMA PageEnd ==
  ASSUME NEW a \in Nat
  PROVE  /\ PAGE_END(a) \in Nat
         /\ a <= PAGE_END(a)
         /\ \E q \in Nat : PAGE_END(a) + 1 = q * PAGE_SIZE
<1>1. /\ PAGE_START(a) \in Nat
      /\ a < PAGE_START(a) + PAGE_SIZE
  BY PageStart, Zenon
<1>2. PICK q \in Nat : PAGE_START(a) = q * PAGE_SIZE
  BY PageStart, Zenon
<1>3. PAGE_END(a) + 1 = (q + 1) * PAGE_SIZE
  BY <1>2 DEF PAGE_END
<1>4. PAGE_END(a) \in Nat /\ a <= PAGE_END(a)
  BY <1>1 DEF PAGE_END
<1>5. \E r \in Nat : PAGE_END(a) + 1 = r * PAGE_SIZE
  <2>1. q + 1 \in Nat
    OBVIOUS
  <2> QED
    BY <1>3, <2>1, Zenon
<1> QED
  BY <1>4, <1>5, Zenon

Aligned(a) == \E q \in Nat : a = q * PAGE_SIZE

LEMMA AlignedMod ==
  ASSUME NEW a, Aligned(a)
  PROVE  a \in Nat /\ a % PAGE_SIZE = 0
<1>1. PICK q \in Nat : a = q * PAGE_SIZE
  BY Zenon DEF Aligned
<1> QED
  BY <1>1, MultipleMod

LEMMA AlignedSum ==
  ASSUME NEW a, NEW b, Aligned(a), Aligned(b)
  PROVE  Aligned(a + b)
<1>1. PICK q \in Nat, r \in Nat : a = q * PAGE_SIZE /\ b = r * PAGE_SIZE
  BY Zenon DEF Aligned
<1>2. a + b = (q + r) * PAGE_SIZE /\ q + r \in Nat
  BY <1>1
<1> QED
  BY <1>2, Zenon DEF Aligned

\* Of two page boundaries, one that is at most one address above the other is
\* not above it.
LEMMA AlignedGap ==
  ASSUME NEW a, NEW b, Aligned(a), Aligned(b), a <= b + 1
  PROVE  a <= b
<1>1. PICK q \in Nat, r \in Nat : a = q * PAGE_SIZE /\ b = r * PAGE_SIZE
  BY Zenon DEF Aligned
<1>2. ASSUME q > r PROVE FALSE
  <2>1. PICK d \in Nat : q = r + 1 + d
    <3>1. q - r - 1 \in Nat /\ q = r + 1 + (q - r - 1)
      BY <1>2
    <3> QED
      BY <3>1, Zenon
  <2>2. a = b + PAGE_SIZE + d * PAGE_SIZE
    BY <1>1, <2>1
  <2>3. d * PAGE_SIZE \in Nat /\ b \in Nat
    BY <1>1
  <2> QED
    BY <2>2, <2>3
<1>3. CASE q <= r
  <2>1. PICK d \in Nat : r = q + d
    <3>1. r - q \in Nat /\ r = q + (r - q)
      BY <1>3
    <3> QED
      BY <3>1, Zenon
  <2>2. b = a + d * PAGE_SIZE /\ d * PAGE_SIZE \in Nat /\ a \in Nat
    BY <1>1, <2>1
  <2> QED
    BY <2>2
<1> QED
  BY <1>2, <1>3

LEMMA Bounds ==
  /\ Aligned(vmm_data_start)
  /\ Aligned(vmm_data_end)
<1>1. Aligned(PAGE_START(start))
  BY PageStart, Zenon DEF Aligned
<1>2. Aligned(PAGE_SIZE)
  <2>1. PAGE_SIZE = 1 * PAGE_SIZE /\ 1 \in Nat
    OBVIOUS
  <2> QED
    BY <2>1, Zenon DEF Aligned
<1>3. Aligned(PAGE_END(end) + 1)
  BY PageEnd, Zenon DEF Aligned
<1> QED
  BY <1>1, <1>2, <1>3, Zenon DEF vmm_data_start, vmm_data_end

LEMMA AreaFacts ==
  ASSUME AreasTypeOK
  PROVE  /\ Len(areas) \in Nat
         /\ \A i \in 1 .. Len(areas) :
              areas[i] \in Area /\ areas[i].start \in Nat /\ areas[i].size \in Nat
<1>1. Len(areas) \in Nat
  BY LenProperties, Zenon DEF AreasTypeOK
<1>2. ASSUME NEW i \in 1 .. Len(areas) PROVE areas[i] \in Area
  BY ElementOfSeq, Zenon DEF AreasTypeOK
<1>3. \A a \in Area : a.start \in Nat /\ a.size \in Nat
  BY Zenon DEF Area
<1> QED
  BY <1>1, <1>2, <1>3, Zenon

\* What vmm_alloc_at chooses: whole pages, behind everything that is there.
LEMMA FoundFacts ==
  ASSUME AreasInv, NEW b \in Bases, NEW sz \in Sizes, Fits(b, sz)
  PROVE  LET s == found(b)
             n == length(sz) + 1
         IN  /\ s \in Nat /\ n \in Nat /\ n > 0
             /\ s % PAGE_SIZE = 0 /\ n % PAGE_SIZE = 0
             /\ vmm_data_start <= s
             /\ s + n <= vmm_data_end
             /\ \A i \in 1 .. Len(areas) : areas[i].start + areas[i].size <= s
<1> DEFINE s == found(b)
           n == length(sz) + 1
<1>1. Aligned(n) /\ n \in Nat /\ n > 0
  <2>1. sz - 1 \in Nat
    OBVIOUS
  <2>2. PAGE_END(sz - 1) \in Nat /\ Aligned(PAGE_END(sz - 1) + 1)
    BY <2>1, PageEnd, Zenon DEF Aligned
  <2> QED
    BY <2>2 DEF length
<1>2. vmm_data_start \in Nat /\ vmm_data_end \in Nat
  BY Bounds, AlignedMod, Zenon
<1>3. /\ Aligned(low_bound) /\ low_bound \in Nat /\ vmm_data_start <= low_bound
      /\ \A i \in 1 .. Len(areas) : areas[i].start + areas[i].size <= low_bound
  <2>1. CASE areas = <<>>
    <3>1. low_bound = vmm_data_start /\ Len(areas) = 0
      BY <2>1, Zenon DEF low_bound
    <3> QED
      BY <1>2, <3>1, Bounds
  <2>2. CASE areas # <<>>
    <3>1. PAGE_END(current_addr) \in Nat /\ current_addr <= PAGE_END(current_addr)
          /\ Aligned(PAGE_END(current_addr) + 1) /\ current_addr \in Nat
      BY PageEnd, Zenon DEF AreasInv, AreasTypeOK, Aligned
    <3>2. low_bound = PAGE_END(current_addr) + 1
      BY <2>2, Zenon DEF low_bound
    <3>3. Len(areas) \in Nat /\ 1 \in 1 .. Len(areas)
      BY <2>2, EmptySeq, LenProperties DEF AreasInv, AreasTypeOK
    <3>4. \A i \in 1 .. Len(areas) : areas[i].start \in Nat /\ areas[i].size \in Nat
      BY AreaFacts, Zenon DEF AreasInv
    <3>5. \A i \in 1 .. Len(areas) : areas[i].start + areas[i].size <= low_bound
      <4>1. \A i \in 1 .. Len(areas) : areas[i].start + areas[i].size - 1 <= current_addr
        BY Zenon DEF AreasInv, BelowCurrentAddr
      <4>2. \A x, y, u, v \in Nat : x + y - 1 <= u /\ u <= v => x + y <= v + 1
        OBVIOUS
      <4> QED
        BY <3>1, <3>2, <3>4, <4>1, <4>2, Zenon
    <3>6. vmm_data_start <= low_bound
      <4>1. vmm_data_start <= areas[1].start
        BY <3>3, Zenon DEF AreasInv, AreasInBounds
      <4>2. areas[1].start \in Nat /\ areas[1].size \in Nat
        BY <3>3, <3>4, Zenon
      <4>3. areas[1].start + areas[1].size <= low_bound
        BY <3>3, <3>5, Zenon
      <4> QED
        BY <1>2, <3>1, <3>2, <4>1, <4>2, <4>3
    <3> QED
      BY <3>1, <3>2, <3>5, <3>6
  <2> QED
    BY <2>1, <2>2, Zenon
<1>4. PAGE_START(b) \in Nat /\ Aligned(PAGE_START(b))
  BY PageStart, Zenon DEF Aligned
<1>5. Aligned(s) /\ s \in Nat /\ low_bound <= s
  BY <1>3, <1>4 DEF found
<1>6. \A i \in 1 .. Len(areas) : areas[i].start + areas[i].size <= s
  <2>1. \A i \in 1 .. Len(areas) : areas[i].start + areas[i].size \in Int
    BY AreaFacts DEF AreasInv
  <2> QED
    BY <1>3, <1>5, <2>1
<1>7. s + n <= vmm_data_end
  <2>1. s + n <= vmm_data_end + 1
    <3>1. found(b) + length(sz) <= vmm_data_end
      BY Zenon DEF Fits
    <3>2. length(sz) \in Int
      BY PageEnd DEF length
    <3> QED
      BY <1>2, <1>5, <3>1, <3>2
  <2> QED
    BY <1>1, <1>5, <2>1, AlignedSum, AlignedGap, Bounds, Zenon
<1>8. s % PAGE_SIZE = 0 /\ n % PAGE_SIZE = 0
  BY <1>1, <1>5, AlignedMod, Zenon
<1>9. vmm_data_start <= s
  BY <1>2, <1>3, <1>5
<1> QED
  BY <1>1, <1>5, <1>6, <1>7, <1>8, <1>9, Zenon

\* vmm_alloc_at keeps the invariant.
LEMMA AllocPreserves ==
  ASSUME AreasInv, NEW b \in Bases, NEW sz \in Sizes, VmmAllocAt(b, sz)
  PROVE  AreasInv'
<1> DEFINE m == Len(areas)
<1>1. PICK new : new = NewArea(b, sz)
  BY Zenon
<1>2. PICK s \in Nat, n \in Nat, c \in Nat, x \in Nat :
        /\ new = [start |-> s, size |-> n, slot |-> <<c, x>>]
        /\ s = found(b) /\ n = length(sz) + 1
        /\ \/ /\ containers = 0 \/ current_index = ITEM_PER_CONTAINER
              /\ c = containers + 1 /\ x = 0
           \/ /\ containers # 0 /\ current_index # ITEM_PER_CONTAINER
              /\ c = containers /\ x = current_index
  <2>1. found(b) \in Nat /\ length(sz) + 1 \in Nat
    BY FoundFacts, Zenon DEF VmmAllocAt
  <2>2. CASE containers = 0 \/ current_index = ITEM_PER_CONTAINER
    <3>1. new = [start |-> found(b), size |-> length(sz) + 1, slot |-> <<containers + 1, 0>>]
      BY <1>1, <2>2, Zenon DEF NewArea
    <3>2. containers + 1 \in Nat /\ 0 \in Nat
      BY DEF AreasInv, AreasTypeOK
    <3> QED
      BY <2>1, <2>2, <3>1, <3>2, Zenon
  <2>3. CASE ~(containers = 0 \/ current_index = ITEM_PER_CONTAINER)
    <3>1. new = [start |-> found(b), size |-> length(sz) + 1,
                 slot |-> <<containers, current_index>>]
      BY <1>1, <2>3, Zenon DEF NewArea
    <3>2. containers \in Nat /\ current_index \in Nat
      BY DEF AreasInv, AreasTypeOK
    <3> QED
      BY <2>1, <2>3, <3>1, <3>2, Zenon
  <2> QED
    BY <2>2, <2>3, Zenon
<1>3. /\ n > 0 /\ s % PAGE_SIZE = 0 /\ n % PAGE_SIZE = 0
      /\ vmm_data_start <= s /\ s + n <= vmm_data_end
      /\ \A i \in 1 .. m : areas[i].start + areas[i].size <= s
  BY <1>2, FoundFacts, Zenon DEF VmmAllocAt
<1>4. /\ new.start = s /\ new.size = n /\ new.slot = <<c, x>>
      /\ new.slot[1] = c /\ new.slot[2] = x /\ new \in Area
  BY <1>2, Zenon DEF Area
<1>5. /\ areas' = Append(areas, new)
      /\ current_addr' = s + n - 1
      /\ containers' = c /\ current_index' = x + 1
  BY <1>1, <1>4, Zenon DEF VmmAllocAt
<1>6. /\ m \in Nat /\ areas' \in Seq(Area) /\ Len(areas') = m + 1
      /\ areas'[m + 1] = new
      /\ \A i \in 1 .. m : areas'[i] = areas[i]
  BY <1>4, <1>5, AppendProperties, LenProperties DEF AreasInv, AreasTypeOK
<1>7. \A i \in 1 .. m : areas[i].start \in Nat /\ areas[i].size \in Nat
  BY AreaFacts, Zenon DEF AreasInv
<1> HIDE DEF m
<1>8. \A i \in 1 .. m + 1 : i \in 1 .. m \/ i = m + 1
  BY <1>6
<1>9. AreasTypeOK'
  <2>1. current_addr' \in Nat
    BY <1>3, <1>5
  <2>2. x + 1 \in 0 .. ITEM_PER_CONTAINER
    BY <1>2 DEF AreasInv, AreasTypeOK
  <2> QED
    BY <1>5, <1>6, <2>1, <2>2, Zenon DEF AreasTypeOK
<1>10. AreasDisjoint'
  <2> SUFFICES ASSUME NEW i \in 1 .. m + 1, NEW j \in 1 .. m + 1, i < j
               PROVE  areas'[i].start + areas'[i].size <= areas'[j].start
    BY <1>6, Zenon DEF AreasDisjoint
  <2>1. i \in 1 .. m
    BY <1>6
  <2>2. CASE j \in 1 .. m
    BY <1>6, <2>1, <2>2, Zenon DEF AreasInv, AreasDisjoint, m
  <2>3. CASE j = m + 1
    BY <1>3, <1>4, <1>6, <2>1, <2>3, Zenon
  <2> QED
    BY <1>8, <2>2, <2>3, Zenon
<1>11. AreasInBounds'
  BY <1>3, <1>4, <1>6, <1>8, Zenon DEF AreasInv, AreasInBounds, m
<1>12. BelowCurrentAddr'
  <2> SUFFICES ASSUME NEW i \in 1 .. m + 1
               PROVE  areas'[i].start + areas'[i].size - 1 <= s + n - 1
    BY <1>5, <1>6, Zenon DEF BelowCurrentAddr
  <2>1. CASE i \in 1 .. m
    <3>1. areas'[i].start + areas'[i].size <= s /\ areas'[i].start \in Nat /\ areas'[i].size \in Nat
      BY <1>3, <1>6, <1>7, <2>1, Zenon
    <3> QED
      BY <3>1
  <2>2. CASE i = m + 1
    BY <1>4, <1>6, <2>2
  <2> QED
    BY <1>8, <2>1, <2>2, Zenon
<1>13. SlotsDistinct'
  <2>1. \A i \in 1 .. m : /\ areas[i].slot[1] \in 1 .. containers
                          /\ areas[i].slot[2] \in 0 .. ITEM_PER_CONTAINER - 1
                          /\ areas[i].slot[1] = containers => areas[i].slot[2] < current_index
    BY Zenon DEF AreasInv, SlotsDistinct, m
  <2>2. /\ c \in 1 .. c /\ x \in 0 .. ITEM_PER_CONTAINER - 1 /\ x < x + 1
        /\ containers <= c /\ containers \in Nat
    BY <1>2 DEF AreasInv, AreasTypeOK
  <2>3. \A i \in 1 .. m : /\ areas[i].slot[1] \in 1 .. c
                          /\ areas[i].slot[1] = c => areas[i].slot[2] < x
    BY <1>2, <2>1, <2>2
  <2>4. \A i \in 1 .. m : areas[i].slot # <<c, x>>
    <3> SUFFICES ASSUME NEW i \in 1 .. m, areas[i].slot = <<c, x>> PROVE FALSE
      BY Zenon
    <3>1. areas[i].slot[1] = c /\ areas[i].slot[2] = x
      OBVIOUS
    <3> QED
      BY <2>3, <3>1
  <2>5. \A i \in 1 .. m + 1 :
          /\ areas'[i].slot[1] \in 1 .. c
          /\ areas'[i].slot[2] \in 0 .. ITEM_PER_CONTAINER - 1
          /\ areas'[i].slot[1] = c => areas'[i].slot[2] < x + 1
    <3> SUFFICES ASSUME NEW i \in 1 .. m + 1
                 PROVE  /\ areas'[i].slot[1] \in 1 .. c
                        /\ areas'[i].slot[2] \in 0 .. ITEM_PER_CONTAINER - 1
                        /\ areas'[i].slot[1] = c => areas'[i].slot[2] < x + 1
      BY Zenon
    <3>1. CASE i \in 1 .. m
      <4>1. PICK p, q : p = areas[i].slot[1] /\ q = areas[i].slot[2]
        BY Zenon
      <4>2. p \in 1 .. c /\ q \in 0 .. ITEM_PER_CONTAINER - 1 /\ (p = c => q < x)
        BY <2>1, <2>3, <3>1, <4>1, Zenon
      <4>3. p = c => q < x + 1
        BY <4>2, VmmAreasAssumption
      <4> QED
        BY <1>6, <3>1, <4>1, <4>2, <4>3, Zenon
    <3>2. CASE i = m + 1
      BY <1>4, <1>6, <2>2, <3>2, Zenon
    <3> QED
      BY <1>8, <3>1, <3>2, Zenon
  <2>6. \A i, j \in 1 .. m + 1 : areas'[i].slot = areas'[j].slot => i = j
    <3> SUFFICES ASSUME NEW i \in 1 .. m + 1, NEW j \in 1 .. m + 1,
                        areas'[i].slot = areas'[j].slot
                 PROVE  i = j
      BY Zenon
    <3>1. \A k \in 1 .. m : areas'[k].slot # areas'[m + 1].slot
      BY <1>4, <1>6, <2>4, Zenon
    <3>2. CASE i \in 1 .. m /\ j \in 1 .. m
      BY <1>6, <3>2, Zenon DEF AreasInv, SlotsDistinct, m
    <3> QED
      BY <1>8, <3>1, <3>2, Zenon
  <2> QED
    BY <1>5, <1>6, <2>5, <2>6, Zenon DEF SlotsDistinct
<1> QED
  BY <1>9, <1>10, <1>11, <1>12, <1>13, Zenon DEF AreasInv

\* vmm_free_area keeps the invariant: it only takes an area out of the list.
LEMMA FreePreserves ==
  ASSUME AreasInv, NEW k \in 1 .. Len(areas), VmmFreeArea(k)
  PROVE  AreasInv'
<1> DEFINE m == Len(areas)
           origin(i) == IF i < k THEN i ELSE i + 1
<1>1. m \in Nat /\ m >= 1 /\ \A i \in 1 .. m : areas[i] \in Area
  BY AreaFacts DEF AreasInv
<1>2. /\ areas' = [i \in 1 .. m - 1 |-> IF i < k THEN areas[i] ELSE areas[i + 1]]
      /\ UNCHANGED <<current_addr, containers, current_index>>
  BY Zenon DEF VmmFreeArea
<1> HIDE DEF m
<1>3. \A i \in 1 .. m - 1 : origin(i) \in 1 .. m /\ areas'[i] = areas[origin(i)]
  BY <1>1, <1>2
<1>4. \A i, j \in 1 .. m - 1 : /\ origin(i) = origin(j) => i = j
                               /\ i < j => origin(i) < origin(j)
  BY <1>1
<1>5. areas' \in Seq(Area) /\ Len(areas') = m - 1
  <2>1. \A i \in 1 .. m - 1 : areas'[i] \in Area
    BY <1>1, <1>3, Zenon
  <2>2. areas' \in [1 .. m - 1 -> Area] /\ m - 1 \in Nat
    BY <1>1, <1>2, <2>1
  <2>3. areas' \in Seq(Area)
    BY <2>2
  <2> QED
    BY <2>2, <2>3
<1> HIDE DEF origin
<1>6. AreasTypeOK'
  BY <1>2, <1>5, Zenon DEF AreasInv, AreasTypeOK
<1>7. AreasDisjoint'
  <2> SUFFICES ASSUME NEW i \in 1 .. m - 1, NEW j \in 1 .. m - 1, i < j
               PROVE  areas'[i].start + areas'[i].size <= areas'[j].start
    BY <1>5, Zenon DEF AreasDisjoint
  <2>1. /\ origin(i) \in 1 .. m /\ origin(j) \in 1 .. m /\ origin(i) < origin(j)
        /\ areas'[i] = areas[origin(i)] /\ areas'[j] = areas[origin(j)]
    BY <1>3, <1>4, Zenon
  <2> QED
    BY <2>1, Zenon DEF AreasInv, AreasDisjoint, m
<1>8. AreasInBounds' /\ BelowCurrentAddr'
  <2>1. ASSUME NEW i \in 1 .. m - 1, NEW a, a = areas'[i]
        PROVE  /\ a.start % PAGE_SIZE = 0 /\ a.size % PAGE_SIZE = 0 /\ a.size > 0
               /\ vmm_data_start <= a.start /\ a.start + a.size <= vmm_data_end
               /\ a.start + a.size - 1 <= current_addr
    <3>1. PICK e \in 1 .. m : a = areas[e]
      BY <1>3, <2>1, Zenon
    <3> QED
      BY <3>1, Zenon DEF AreasInv, AreasInBounds, BelowCurrentAddr, m
  <2> QED
    BY <1>2, <1>5, <2>1, Zenon DEF AreasInBounds, BelowCurrentAddr
<1>9. SlotsDistinct'
  <2>1. \A i, j \in 1 .. m - 1 : areas'[i].slot = areas'[j].slot => i = j
    <3> SUFFICES ASSUME NEW i \in 1 .. m - 1, NEW j \in 1 .. m - 1,
                        areas'[i].slot = areas'[j].slot
                 PROVE  i = j
      BY Zenon
    <3>1. origin(i) = origin(j)
      <4>1. /\ origin(i) \in 1 .. m /\ origin(j) \in 1 .. m
            /\ areas[origin(i)].slot = areas[origin(j)].slot
        BY <1>3, Zenon
      <4> QED
        BY <4>1, Zenon DEF AreasInv, SlotsDistinct, m
    <3> QED
      BY <1>4, <3>1, Zenon
  <2>2. ASSUME NEW i \in 1 .. m - 1, NEW a, a = areas'[i]
        PROVE  /\ a.slot[1] \in 1 .. containers
               /\ a.slot[2] \in 0 .. ITEM_PER_CONTAINER - 1
               /\ a.slot[1] = containers => a.slot[2] < current_index
    <3>1. PICK e \in 1 .. m : a = areas[e]
      BY <1>3, <2>2, Zenon
    <3> QED
      BY <3>1, Zenon DEF AreasInv, SlotsDistinct, m
  <2> QED
    BY <1>2, <1>5, <2>1, <2>2, Zenon DEF SlotsDistinct
<1> QED
  BY <1>6, <1>7, <1>8, <1>9, Zenon DEF AreasInv

LEMMA AreasNextPreserves == AreasInv /\ [AreasNext]_areasVars => AreasInv'
<1> SUFFICES ASSUME AreasInv, [AreasNext]_areasVars PROVE AreasInv'
  BY Zenon
<1>1. CASE UNCHANGED areasVars
  BY <1>1, Zenon DEF areasVars, AreasInv, AreasTypeOK, AreasDisjoint, AreasInBounds, BelowCurrentAddr,
     SlotsDistinct
<1>2. ASSUME NEW b \in Bases, NEW sz \in Sizes, VmmAllocAt(b, sz) PROVE AreasInv'
  BY <1>2, AllocPreserves, Zenon
<1>3. ASSUME NEW k \in 1 .. Len(areas), VmmFreeArea(k) PROVE AreasInv'
  BY <1>3, FreePreserves, Zenon
<1>4. \A b, sz : VmmAllocFails(b, sz) => UNCHANGED areasVars
  BY Zenon DEF VmmAllocFails
<1> QED
  BY <1>1, <1>2, <1>3, <1>4, Zenon DEF AreasNext

LEMMA AreasInitEstablishes == AreasInit => AreasInv
<1> SUFFICES ASSUME AreasInit PROVE AreasInv
  BY Zenon
<1>1. areas = <<>> /\ Len(areas) = 0
  BY Zenon DEF AreasInit
<1>2. AreasTypeOK
  BY <1>1 DEF AreasInit, AreasTypeOK
<1>3. 1 .. Len(areas) = {}
  BY <1>1
<1>4. AreasDisjoint /\ AreasInBounds /\ BelowCurrentAddr /\ SlotsDistinct
  BY <1>3, Zenon DEF AreasDisjoint, AreasInBounds, BelowCurrentAddr, SlotsDistinct
<1> QED
  BY <1>2, <1>4, Zenon DEF AreasInv

\* The bookkeeping of areas and slots is right after every sequence of calls.
THEOREM AreasInvariance == AreasSpec => []AreasInv
  BY AreasInitEstablishes, AreasNextPreserves, PTL DEF AreasSpec

\* No two areas of an address space ever overlap.
THEOREM NoOverlap == AreasSpec => []AreasDisjoint
<1>1. AreasInv => AreasDisjoint
  BY Zenon DEF AreasInv
<1> QED
  BY <1>1, AreasInvariance, PTL

\* No memory_area_t describes two areas.
THEOREM OwnSlots == AreasSpec => []SlotsDistinct
<1>1. AreasInv => SlotsDistinct
  BY Zenon DEF AreasInv
<1> QED
  BY <1>1, AreasInvariance, PTL

\* get_memory_area finds the area of every address, for all that it looks at
\* nothing above current_addr and stops at the first area that matches.
THEOREM LookupIsRight == AreasSpec => []LookupRight
<1>1. AreasInv => LookupRight
  <2> SUFFICES ASSUME AreasInv, NEW va \in 0 .. vmm_data_end
               PROVE  get_memory_area(va) = {i \in 1 .. Len(areas) : Contains(areas[i], va)}
    BY Zenon DEF LookupRight
  <2>1. /\ Len(areas) \in Nat /\ current_addr \in Nat /\ va \in Int
        /\ \A i \in 1 .. Len(areas) : areas[i].start \in Nat /\ areas[i].size \in Nat
    BY AreaFacts DEF AreasInv, AreasTypeOK
  <2>2. ASSUME NEW i \in 1 .. Len(areas), Contains(areas[i], va) PROVE ~(va > current_addr)
    <3>1. areas[i].start + areas[i].size - 1 <= current_addr
      BY Zenon DEF AreasInv, BelowCurrentAddr
    <3> QED
      BY <2>1, <2>2, <3>1 DEF Contains
  <2>3. ASSUME NEW i \in 1 .. Len(areas), NEW j \in 1 .. i - 1,
               Contains(areas[i], va), Contains(areas[j], va)
        PROVE  FALSE
    <3>1. j \in 1 .. Len(areas) /\ j < i
      BY <2>1
    <3>2. areas[j].start + areas[j].size <= areas[i].start
      BY <3>1, Zenon DEF AreasInv, AreasDisjoint
    <3>3. /\ areas[i].start \in Nat /\ areas[j].start \in Nat /\ areas[j].size \in Nat
          /\ va \in Int /\ areas[i].start <= va /\ va < areas[j].start + areas[j].size
      BY <2>1, <2>3, <3>1, Zenon DEF Contains
    <3> HIDE DEF AreasInv
    <3> QED
      BY <3>2, <3>3
  <2>4. CASE va > current_addr
    BY <2>2, <2>4, Zenon DEF get_memory_area
  <2>5. CASE ~(va > current_addr)
    BY <2>3, <2>5, Zenon DEF get_memory_area
  <2> QED
    BY <2>4, <2>5, Zenon
<1> QED
  BY <1>1, AreasInvariance, PTL

=============================================================================
