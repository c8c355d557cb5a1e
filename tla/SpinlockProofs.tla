--------------------------- MODULE SpinlockProofs ---------------------------
(***************************************************************************)
(* For any set of CPUs and locks, any lock order and any depth of          *)
(* handlers, the spinlocks exclude each other and hold interrupts off.     *)
(***************************************************************************)
EXTENDS Spinlock, SequenceTheorems, TLAPS

\* What Append and Pop do to the stack of entered locks and sections.
LEMMA AppendFacts ==
  ASSUME NEW S, NEW s \in Seq(S), NEW e \in S
  PROVE  /\ Append(s, e) \in Seq(S)
         /\ Append(s, e) # <<>>
         /\ Len(s) \in Nat
         /\ Len(Append(s, e)) = Len(s) + 1
         /\ \A i \in 1 .. Len(s) : Append(s, e)[i] = s[i]
         /\ Append(s, e)[Len(s) + 1] = e
  BY AppendProperties, LenProperties

LEMMA PopFacts ==
  ASSUME NEW S, NEW s \in Seq(S), s # <<>>
  PROVE  /\ Len(s) \in Nat \ {0}
         /\ Pop(s) \in Seq(S)
         /\ Len(Pop(s)) = Len(s) - 1
         /\ \A i \in 1 .. Len(s) - 1 : Pop(s)[i] = s[i]
<1>1. Len(s) \in Nat \ {0}
  BY LenProperties, EmptySeq, Zenon
<1>2. \A i \in 1 .. Len(s) - 1 : s[i] \in S
  BY <1>1, ElementOfSeq
<1> DEFINE n == Len(s) - 1
<1>3. n \in Nat /\ \A i \in 1 .. n : s[i] \in S
  BY <1>1, <1>2
<1> HIDE DEF n
<1>4. /\ SubSeq(s, 1, n) \in Seq(S)
      /\ Len(SubSeq(s, 1, n)) = n
      /\ \A i \in 1 .. n : SubSeq(s, 1, n)[i] = s[i]
  BY <1>3, SubSeqProperties
<1> QED
  BY <1>1, <1>4, Zenon DEF Pop, n

\* The invariant holds when every CPU is about to run its start-up code.
LEMMA InitEstablishes == Init => IInv
<1> SUFFICES ASSUME Init PROVE IInv
  BY Zenon
<1> USE DEF Init
<1>1. TypeOK
  BY DEF TypeOK, Labels, Uncounted, Entered
<1>2. HeldIffOwned /\ MutualExclusion
  BY DEF HeldIffOwned, MutualExclusion, Holds
<1>3. Accounting /\ CountedOff
  BY DEF Accounting, CountedOff, Uncounted
<1>4. FramesKeepOff /\ CallArguments /\ SwitchAgrees
  BY DEF FramesKeepOff, CallArguments, SwitchAgrees
<1> QED
  BY <1>1, <1>2, <1>3, <1>4, Zenon DEF IInv

\* Returning from push_off with the flag clear keeps the invariant.
LEMMA PushReturnsOK ==
  ASSUME IInv, NEW c \in Cpus, NEW x \in Entered,
         pc[c] \in {"start", "run", "cli"},
         PushReturns(c, x),
         IF_flag' \in [Cpus -> BOOLEAN],
         ~IF_flag'[c],
         \A d \in Cpus \ {c} : IF_flag'[d] = IF_flag[d],
         arg' = [arg EXCEPT ![c] = x],
         UNCHANGED <<held, cpu_id, int_on, frames>>
  PROVE  IInv'
<1> USE DEF IInv
<1>0. /\ push_off_count'[c] = push_off_count[c] + 1
      /\ x = Section => pc'[c] = "run" /\ owned'[c] = Append(owned[c], x)
      /\ x # Section => pc'[c] = "check" /\ owned'[c] = owned[c]
      /\ \A d \in Cpus \ {c} : /\ pc'[d] = pc[d] /\ owned'[d] = owned[d]
                               /\ push_off_count'[d] = push_off_count[d]
                               /\ arg'[d] = arg[d]
      /\ arg'[c] = x
  BY Zenon DEF TypeOK, PushReturns
<1>1. TypeOK'
  <2>1. pc' \in [Cpus -> Labels]
    BY Zenon DEF TypeOK, PushReturns, Labels, Uncounted
  <2>2. owned' \in [Cpus -> Seq(Entered)]
    BY DEF TypeOK, PushReturns
  <2>3. push_off_count' \in [Cpus -> Nat]
    BY DEF TypeOK, PushReturns
  <2> QED
    BY <2>1, <2>2, <2>3, Zenon DEF TypeOK
<1>2. Accounting'
  <2>1. push_off_count[c] = Len(owned[c]) /\ owned[c] \in Seq(Entered)
    <3>1. pc[c] \notin Uncounted
      BY Zenon DEF Uncounted
    <3> QED
      BY <3>1, LenProperties DEF TypeOK, Accounting
  <2>2. push_off_count'[c] = Len(owned'[c]) + (IF pc'[c] \in Uncounted THEN 1 ELSE 0)
    <3>1. CASE x = Section
      <4>1. Len(owned'[c]) = Len(owned[c]) + 1 /\ Len(owned[c]) \in Nat
        BY <1>0, <2>1, <3>1, AppendFacts
      <4>2. pc'[c] \notin Uncounted
        BY <1>0, <3>1, Zenon DEF Uncounted
      <4> QED
        BY <1>0, <2>1, <4>1, <4>2
    <3>2. CASE x # Section
      BY <1>0, <2>1, <3>2, Zenon DEF Uncounted
    <3> QED
      BY <3>1, <3>2, Zenon
  <2> QED
    BY <1>0, <2>2, Zenon DEF Accounting
<1>3. CountedOff'
  BY <1>0, Zenon DEF CountedOff
<1>4. ASSUME NEW d \in Cpus, NEW i \in 1 .. Len(owned'[d]), owned'[d][i] \in Locks
      PROVE  i \in 1 .. Len(owned[d]) /\ owned[d][i] = owned'[d][i]
  <2>1. owned[d] \in Seq(Entered)
    BY Zenon DEF TypeOK
  <2>2. CASE d = c /\ x = Section
    <3>1. Len(owned'[c]) = Len(owned[c]) + 1 /\ owned'[c][Len(owned[c]) + 1] = Section
      BY <1>0, <2>1, <2>2, AppendFacts
    <3>2. i # Len(owned[c]) + 1
      BY <1>4, <2>2, <3>1, SpinlockAssumption, Zenon
    <3> QED
      BY <1>0, <2>1, <2>2, <3>1, <3>2, AppendFacts
  <2>3. CASE d # c \/ x # Section
    BY <1>0, <2>3, Zenon
  <2> QED
    BY <2>2, <2>3, Zenon
<1>5. HeldIffOwned'
  <2>1. ASSUME NEW d \in Cpus, NEW i \in 1 .. Len(owned[d])
        PROVE  i \in 1 .. Len(owned'[d]) /\ owned'[d][i] = owned[d][i]
    <3>1. owned[d] \in Seq(Entered)
      BY Zenon DEF TypeOK
    <3>2. CASE d = c /\ x = Section
      BY <1>0, <3>1, <3>2, AppendFacts
    <3>3. CASE d # c \/ x # Section
      BY <1>0, <3>3, Zenon
    <3> QED
      BY <3>2, <3>3, Zenon
  <2>2. \A d \in Cpus, l \in Locks : Holds(d, l)' <=> Holds(d, l)
    BY <1>4, <2>1, Zenon DEF Holds
  <2> QED
    BY <2>2, Zenon DEF HeldIffOwned
<1>6. MutualExclusion'
  BY <1>4 DEF MutualExclusion
<1>7. FramesKeepOff'
  BY Zenon DEF FramesKeepOff
<1>8. CallArguments'
  BY <1>0, Zenon DEF CallArguments, Entered, Innermost
<1>9. SwitchAgrees'
  <2>1. pc'[c] = "run" => owned'[c] # <<>>
    BY <1>0 DEF TypeOK
  <2> QED
    BY <1>0, <2>1 DEF SwitchAgrees
<1> QED
  BY <1>1, <1>2, <1>3, <1>5, <1>6, <1>7, <1>8, <1>9, Zenon

\* push_off called from code: it stops before cli, or finds int_on clear and
\* returns.
LEMMA PushOffOK ==
  ASSUME IInv, NEW c \in Cpus, NEW x \in Entered,
         pc[c] \in {"start", "run"}, PushOff(c, x)
  PROVE  IInv'
<1> USE DEF IInv
<1>1. CASE int_on[c]
  <2> USE <1>1 DEF PushOff
  <2>1. TypeOK'
    BY Zenon DEF TypeOK, Labels
  <2>2. Accounting' /\ CountedOff'
    BY Zenon DEF TypeOK, Accounting, CountedOff, Uncounted
  <2>3. HeldIffOwned' /\ MutualExclusion' /\ FramesKeepOff'
    BY DEF HeldIffOwned, MutualExclusion, FramesKeepOff, Holds
  <2>4. CallArguments'
    BY Zenon DEF TypeOK, CallArguments, Innermost
  <2>5. SwitchAgrees'
    <3>1. pc'[c] = "cli"
      BY Zenon DEF TypeOK
    <3>2. ASSUME NEW d \in Cpus, d # c PROVE pc'[d] = pc[d] /\ int_on'[d] = int_on[d]
      BY <3>2, Zenon DEF TypeOK
    <3> QED
      BY <3>1, <3>2, Zenon DEF SwitchAgrees
  <2> QED
    BY <2>1, <2>2, <2>3, <2>4, <2>5, Zenon
<1>2. CASE ~int_on[c]
  <2>1. ~IF_flag[c]
    BY <1>2, Zenon DEF SwitchAgrees
  <2> QED
    BY <1>2, <2>1, PushReturnsOK, Zenon DEF PushOff, TypeOK
<1> QED
  BY <1>1, <1>2, Zenon

LEMMA CliOK ==
  ASSUME IInv, NEW c \in Cpus, Cli(c)
  PROVE  IInv'
<1>1. arg[c] \in Entered /\ arg' = [arg EXCEPT ![c] = arg[c]]
  BY Zenon DEF IInv, TypeOK, Cli
<1>2. /\ IF_flag' \in [Cpus -> BOOLEAN]
      /\ ~IF_flag'[c]
      /\ \A d \in Cpus \ {c} : IF_flag'[d] = IF_flag[d]
  BY Zenon DEF IInv, TypeOK, Cli
<1> QED
  BY <1>1, <1>2, PushReturnsOK, Zenon DEF Cli

LEMMA PopOffOK ==
  ASSUME IInv, NEW c \in Cpus, PopOff(c)
  PROVE  IInv'
<1> USE DEF IInv
<1>0. push_off_count[c] = Len(owned[c]) + 1 /\ Len(owned[c]) \in Nat
  <2>1. pc[c] \in Uncounted
    BY Zenon DEF PopOff, Uncounted
  <2> QED
    BY <2>1, LenProperties, Zenon DEF TypeOK, Accounting
<1>1. UNCHANGED <<held, cpu_id, owned, frames>> /\ pc[c] = "pop"
  BY Zenon DEF PopOff
<1>2. HeldIffOwned' /\ MutualExclusion' /\ FramesKeepOff'
  BY <1>1 DEF HeldIffOwned, MutualExclusion, FramesKeepOff, Holds
<1>3. CASE int_on[c]
  <2>1. /\ UNCHANGED <<int_on, push_off_count, IF_flag, arg>>
        /\ pc' = [pc EXCEPT ![c] = "panic_pop"]
    BY <1>3, Zenon DEF PopOff, intVars
  <2>2. TypeOK'
    BY <1>1, <2>1, Zenon DEF TypeOK, Labels, Uncounted
  <2>3. Accounting' /\ CountedOff'
    BY <1>1, <2>1, Zenon DEF TypeOK, Accounting, CountedOff, Uncounted
  <2>4. CallArguments' /\ SwitchAgrees'
    BY <1>1, <2>1, Zenon DEF TypeOK, CallArguments, SwitchAgrees, Innermost
  <2> QED
    BY <1>2, <2>2, <2>3, <2>4, Zenon
<1>4. CASE ~int_on[c]
  <2>1. /\ push_off_count' = [push_off_count EXCEPT ![c] = @ - 1]
        /\ int_on' = [int_on EXCEPT ![c] = push_off_count[c] = 1]
        /\ IF_flag' = [IF_flag EXCEPT ![c] = @ \/ push_off_count[c] = 1]
        /\ pc' = [pc EXCEPT ![c] = "run"]
        /\ arg' = [arg EXCEPT ![c] = Section]
    BY <1>4, Zenon DEF PopOff
  <2>2. push_off_count' \in [Cpus -> Nat] /\ push_off_count'[c] = Len(owned[c])
    BY <1>0, <2>1 DEF TypeOK
  <2>3. ~IF_flag[c]
    BY <1>0 DEF CountedOff
  <2>4. /\ push_off_count[c] = 1 => int_on'[c]
        /\ push_off_count[c] # 1 => ~IF_flag'[c]
    BY <2>1, <2>3, Zenon DEF TypeOK
  <2>5. TypeOK'
    <3>1. IF_flag' \in [Cpus -> BOOLEAN] /\ int_on' \in [Cpus -> BOOLEAN]
      BY <2>1 DEF TypeOK
    <3> QED
      BY <1>1, <2>1, <2>2, <3>1, Zenon DEF TypeOK, Labels, Entered
  <2>6. ASSUME NEW d \in Cpus, d # c
        PROVE  /\ pc'[d] = pc[d] /\ arg'[d] = arg[d] /\ int_on'[d] = int_on[d]
               /\ IF_flag'[d] = IF_flag[d] /\ push_off_count'[d] = push_off_count[d]
    BY <2>1, <2>6, Zenon DEF TypeOK
  <2>7. pc'[c] = "run" /\ pc'[c] \notin Uncounted
    BY <2>1, Zenon DEF TypeOK, Uncounted
  <2>8. Accounting'
    <3>1. push_off_count'[c] = Len(owned'[c]) + (IF pc'[c] \in Uncounted THEN 1 ELSE 0)
      BY <1>0, <1>1, <2>2, <2>7
    <3>2. ASSUME NEW d \in Cpus, d # c
          PROVE  push_off_count'[d]
                   = Len(owned'[d]) + (IF pc'[d] \in Uncounted THEN 1 ELSE 0)
      BY <1>1, <2>6, <3>2, Zenon DEF Accounting
    <3> QED
      BY <3>1, <3>2, Zenon DEF Accounting
  <2>9. CountedOff'
    <3>1. push_off_count'[c] > 0 => ~IF_flag'[c]
      BY <1>0, <2>2, <2>4
    <3> QED
      BY <2>6, <3>1, Zenon DEF CountedOff
  <2>10. CallArguments'
    BY <1>1, <2>6, <2>7, Zenon DEF CallArguments, Innermost
  <2>11. SwitchAgrees'
    <3>1. owned[c] = <<>> => push_off_count[c] = 1
      BY <1>0
    <3> QED
      BY <1>1, <2>4, <2>6, <2>7, <3>1 DEF SwitchAgrees
  <2> QED
    BY <1>2, <2>5, <2>8, <2>9, <2>10, <2>11, Zenon
<1> QED
  BY <1>3, <1>4, Zenon

\* holding() only reads the lock.
LEMMA HoldingOK ==
  ASSUME IInv, NEW c \in Cpus, HoldingHeld(c) \/ HoldingId(c)
  PROVE  IInv'
<1> USE DEF IInv
<1>1. /\ UNCHANGED <<held, cpu_id, int_on, push_off_count, IF_flag, arg, owned, frames>>
      /\ pc[c] \in {"check", "check_id"}
      /\ pc' \in [Cpus -> Labels]
      /\ pc'[c] \in {"check_id", "panic_acquire", "tas"}
      /\ \A d \in Cpus \ {c} : pc'[d] = pc[d]
  BY Zenon DEF HoldingHeld, HoldingId, TypeOK, lockVars, intVars, Labels, Uncounted
<1>2. TypeOK'
  BY <1>1, Zenon DEF TypeOK
<1>3. Accounting' /\ CountedOff'
  BY <1>1, Zenon DEF Accounting, CountedOff, Uncounted
<1>4. HeldIffOwned' /\ MutualExclusion' /\ FramesKeepOff'
  BY <1>1 DEF HeldIffOwned, MutualExclusion, FramesKeepOff, Holds
<1>5. CallArguments' /\ SwitchAgrees'
  BY <1>1, Zenon DEF CallArguments, SwitchAgrees, Innermost
<1> QED
  BY <1>2, <1>3, <1>4, <1>5, Zenon

\* The step that takes the lock: no CPU held it before.
LEMMA TestAndSetOK ==
  ASSUME IInv, NEW c \in Cpus, TestAndSet(c)
  PROVE  IInv'
<1> USE DEF IInv
<1>p. PICK l \in Locks : l = arg[c]
  BY Zenon DEF TestAndSet, CallArguments
<1>0. ~held[l] /\ owned[c] \in Seq(Entered)
  BY <1>p, Zenon DEF TestAndSet, TypeOK
<1>1. /\ UNCHANGED <<cpu_id, int_on, push_off_count, IF_flag, arg, frames>>
      /\ held' = [held EXCEPT ![l] = TRUE]
      /\ owned' = [owned EXCEPT ![c] = Append(@, l)]
      /\ pc' = [pc EXCEPT ![c] = "own"]
      /\ pc[c] = "tas"
  BY <1>p, Zenon DEF TestAndSet, intVars
<1>2. /\ owned'[c] = Append(owned[c], l)
      /\ pc'[c] = "own"
      /\ \A d \in Cpus \ {c} : owned'[d] = owned[d] /\ pc'[d] = pc[d]
      /\ held'[l] /\ \A k \in Locks \ {l} : held'[k] = held[k]
  BY <1>0, <1>1, Zenon DEF TypeOK
<1>3. /\ owned'[c] \in Seq(Entered) /\ owned'[c] # <<>>
      /\ Len(owned[c]) \in Nat
      /\ Len(owned'[c]) = Len(owned[c]) + 1
      /\ \A i \in 1 .. Len(owned[c]) : owned'[c][i] = owned[c][i]
      /\ owned'[c][Len(owned[c]) + 1] = l
  BY <1>0, <1>2, AppendFacts DEF Entered
<1>4. TypeOK'
  <2>1. owned' \in [Cpus -> Seq(Entered)]
    BY <1>1, <1>2, <1>3, Zenon DEF TypeOK
  <2>2. held' \in [Locks -> BOOLEAN] /\ pc' \in [Cpus -> Labels]
    BY <1>1, Zenon DEF TypeOK, Labels
  <2> QED
    BY <1>1, <2>1, <2>2, Zenon DEF TypeOK
<1>5. Accounting'
  <2>1. push_off_count[c] = Len(owned[c]) + 1
    BY <1>1, Zenon DEF Accounting, Uncounted
  <2>2. pc'[c] \notin Uncounted
    BY <1>2, Zenon DEF Uncounted
  <2>3. push_off_count'[c] = Len(owned'[c]) + (IF pc'[c] \in Uncounted THEN 1 ELSE 0)
    BY <1>1, <1>3, <2>1, <2>2
  <2>4. ASSUME NEW d \in Cpus, d # c
        PROVE  push_off_count'[d]
                 = Len(owned'[d]) + (IF pc'[d] \in Uncounted THEN 1 ELSE 0)
    BY <1>1, <1>2, <2>4, Zenon DEF Accounting
  <2> QED
    BY <2>3, <2>4, Zenon DEF Accounting
<1>6. CountedOff' /\ FramesKeepOff'
  BY <1>1, Zenon DEF CountedOff, FramesKeepOff
<1>7. HeldIffOwned'
  <2>1. Holds(c, l)'
    BY <1>3 DEF Holds
  <2>2. ASSUME NEW d \in Cpus, NEW k \in Locks, k # l
        PROVE  Holds(d, k)' <=> Holds(d, k)
    <3>1. CASE d = c
      <4>1. \A i \in 1 .. Len(owned[c]) :
              i \in 1 .. Len(owned'[c]) /\ owned'[c][i] = owned[c][i]
        BY <1>3
      <4>2. \A i \in 1 .. Len(owned'[c]) :
              owned'[c][i] = k => i \in 1 .. Len(owned[c]) /\ owned[c][i] = k
        BY <1>3, <2>2
      <4> QED
        BY <3>1, <4>1, <4>2, Zenon DEF Holds
    <3>2. CASE d # c
      BY <1>2, <3>2, Zenon DEF Holds
    <3> QED
      BY <3>1, <3>2, Zenon
  <2> QED
    BY <1>2, <2>1, <2>2, Zenon DEF HeldIffOwned
<1>8. MutualExclusion'
  <2>1. ASSUME NEW d \in Cpus, NEW i \in 1 .. Len(owned'[d]), owned'[d][i] \in Locks
        PROVE  \/ owned'[d][i] = l /\ d = c /\ i = Len(owned[c]) + 1
               \/ /\ i \in 1 .. Len(owned[d])
                  /\ owned[d][i] = owned'[d][i]
                  /\ owned'[d][i] # l
    <3>1. \A k \in 1 .. Len(owned[d]) : owned[d][k] # l
      BY <1>0, Zenon DEF HeldIffOwned, Holds
    <3>2. CASE d = c
      BY <1>3, <3>1, <3>2
    <3>3. CASE d # c
      BY <1>2, <3>1, <3>3
    <3> QED
      BY <3>2, <3>3, Zenon
  <2> SUFFICES ASSUME NEW d \in Cpus, NEW e \in Cpus,
                      NEW i \in 1 .. Len(owned'[d]), NEW j \in 1 .. Len(owned'[e]),
                      owned'[d][i] = owned'[e][j], owned'[d][i] \in Locks
               PROVE  d = e /\ i = j
    BY DEF MutualExclusion
  <2>2. CASE owned'[d][i] = l
    <3>1. d = c /\ i = Len(owned[c]) + 1
      BY <2>1, <2>2, Zenon
    <3>2. e = c /\ j = Len(owned[c]) + 1
      BY <2>1, <2>2, Zenon
    <3> QED
      BY <3>1, <3>2, Zenon
  <2>3. CASE owned'[d][i] # l
    <3>1. /\ i \in 1 .. Len(owned[d]) /\ owned[d][i] = owned'[d][i]
          /\ j \in 1 .. Len(owned[e]) /\ owned[e][j] = owned'[e][j]
      BY <2>1, <2>3, Zenon
    <3> QED
      BY <3>1 DEF MutualExclusion
  <2> QED
    BY <2>2, <2>3, Zenon
<1>9. CallArguments'
  BY <1>p, <1>1, <1>2, <1>3 DEF CallArguments, Innermost
<1>10. SwitchAgrees'
  BY <1>1, <1>2 DEF SwitchAgrees
<1> QED
  BY <1>4, <1>5, <1>6, <1>7, <1>8, <1>9, <1>10, Zenon

LEMMA SetCpuIdOK ==
  ASSUME IInv, NEW c \in Cpus, SetCpuId(c)
  PROVE  IInv'
<1> USE DEF IInv
<1>0. c \in Nat
  BY SpinlockAssumption, Zenon
<1>1. /\ UNCHANGED <<held, int_on, push_off_count, IF_flag, owned, frames>>
      /\ cpu_id' = [cpu_id EXCEPT ![arg[c]] = c]
      /\ arg' = [arg EXCEPT ![c] = Section]
      /\ pc' = [pc EXCEPT ![c] = "run"]
      /\ pc[c] = "own"
  BY Zenon DEF SetCpuId, intVars
<1>2. TypeOK'
  BY <1>0, <1>1, Zenon DEF TypeOK, Labels, Entered
<1>3. Accounting' /\ CountedOff'
  BY <1>1, Zenon DEF TypeOK, Accounting, CountedOff, Uncounted
<1>4. HeldIffOwned' /\ MutualExclusion' /\ FramesKeepOff'
  BY <1>1 DEF HeldIffOwned, MutualExclusion, FramesKeepOff, Holds
<1>5. CallArguments'
  BY <1>1, Zenon DEF TypeOK, CallArguments, Innermost
<1>6. SwitchAgrees'
  <2>1. ~IF_flag[c] /\ owned[c] # <<>>
    <3>1. owned[c] # <<>> /\ owned[c] \in Seq(Entered) /\ pc[c] \notin Uncounted
      BY <1>1, Zenon DEF CallArguments, TypeOK, Uncounted
    <3>2. Len(owned[c]) \in Nat \ {0}
      BY <3>1, PopFacts, Zenon
    <3>3. push_off_count[c] = Len(owned[c])
      BY <3>1, LenProperties DEF TypeOK, Accounting
    <3> QED
      BY <3>1, <3>2, <3>3 DEF CountedOff
  <2>2. pc'[c] = "run" /\ \A d \in Cpus \ {c} : pc'[d] = pc[d]
    BY <1>1, Zenon DEF TypeOK
  <2> QED
    BY <1>1, <2>1, <2>2, Zenon DEF SwitchAgrees
<1> QED
  BY <1>2, <1>3, <1>4, <1>5, <1>6, Zenon

\* Code that may release something has entered something.
LEMMA EnteredHereFact ==
  ASSUME IInv, NEW c \in Cpus, EnteredHere(c)
  PROVE  owned[c] \in Seq(Entered) /\ owned[c] # <<>>
<1>1. owned[c] \in Seq(Entered) /\ frames[c] \in Seq(Frame)
  BY Zenon DEF IInv, TypeOK
<1>2. CASE frames[c] = <<>>
  BY <1>1, <1>2, EmptySeq DEF EnteredHere
<1>3. CASE frames[c] # <<>>
  <2>1. Len(frames[c]) \in 1 .. Len(frames[c])
    BY <1>1, <1>3, PopFacts
  <2>2. frames[c][Len(frames[c])] \in Frame
    BY <1>1, <2>1, ElementOfSeq, Zenon
  <2>3. Innermost(frames[c]).depth \in Nat
    BY <2>2, Zenon DEF Innermost, Frame
  <2> QED
    BY <1>1, <1>3, <2>3, EmptySeq DEF EnteredHere
<1> QED
  BY <1>1, <1>2, <1>3, Zenon

LEMMA ReleaseOK ==
  ASSUME IInv, NEW c \in Cpus, Release(c)
  PROVE  IInv'
<1> USE DEF IInv
<1> DEFINE l == Innermost(owned[c])
<1>0. owned[c] \in Seq(Entered) /\ owned[c] # <<>>
  BY EnteredHereFact, Zenon DEF Release
<1>1. l \in Locks
  <2>1. Len(owned[c]) \in 1 .. Len(owned[c])
    BY <1>0, PopFacts
  <2>2. l \in Entered
    BY <1>0, <2>1, ElementOfSeq, Zenon DEF Innermost
  <2> QED
    BY <2>2, Zenon DEF Release, Entered
<1>2. /\ UNCHANGED <<held, int_on, push_off_count, IF_flag, owned, frames>>
      /\ cpu_id' = [cpu_id EXCEPT ![l] = 0]
      /\ arg' = [arg EXCEPT ![c] = l]
      /\ pc' = [pc EXCEPT ![c] = "clear"]
      /\ pc[c] = "run"
  BY Zenon DEF Release, intVars
<1>3. Innermost(owned[c]) = l
  BY Zenon
<1> HIDE DEF l
<1>4. TypeOK'
  BY <1>1, <1>2, Zenon DEF TypeOK, Labels, Entered
<1>5. Accounting' /\ CountedOff'
  BY <1>2, Zenon DEF TypeOK, Accounting, CountedOff, Uncounted
<1>6. HeldIffOwned' /\ MutualExclusion' /\ FramesKeepOff'
  BY <1>2 DEF HeldIffOwned, MutualExclusion, FramesKeepOff, Holds
<1>7. CallArguments'
  BY <1>0, <1>1, <1>2, <1>3, Zenon DEF TypeOK, CallArguments, Innermost
<1>8. SwitchAgrees'
  BY <1>2, Zenon DEF TypeOK, SwitchAgrees
<1> QED
  BY <1>4, <1>5, <1>6, <1>7, <1>8, Zenon

\* What leaving the innermost lock or section does to the stack: only its last
\* element goes.
LEMMA DropOK ==
  ASSUME IInv, NEW c \in Cpus, pc[c] \in {"run", "clear"},
         owned[c] # <<>>,
         owned' = [owned EXCEPT ![c] = Pop(@)],
         pc' = [pc EXCEPT ![c] = "pop"],
         UNCHANGED <<int_on, push_off_count, IF_flag, arg, frames>>
  PROVE  /\ owned' \in [Cpus -> Seq(Entered)] /\ pc' \in [Cpus -> Labels]
         /\ Accounting' /\ CountedOff' /\ FramesKeepOff' /\ MutualExclusion'
         /\ CallArguments' /\ SwitchAgrees'
         /\ \A d \in Cpus, k \in Locks :
              k # Innermost(owned[c]) => (Holds(d, k)' <=> Holds(d, k))
         /\ Innermost(owned[c]) \in Locks =>
              \A d \in Cpus : \A i \in 1 .. Len(owned'[d]) :
                owned'[d][i] # Innermost(owned[c])
<1> USE DEF IInv
<1>1. /\ owned'[c] = Pop(owned[c])
      /\ pc'[c] = "pop"
      /\ \A d \in Cpus \ {c} : owned'[d] = owned[d] /\ pc'[d] = pc[d]
  BY Zenon DEF TypeOK
<1>2. /\ Len(owned[c]) \in Nat \ {0}
      /\ owned'[c] \in Seq(Entered)
      /\ Len(owned'[c]) = Len(owned[c]) - 1
      /\ \A i \in 1 .. Len(owned[c]) - 1 : owned'[c][i] = owned[c][i]
  BY <1>1, PopFacts DEF TypeOK
<1>3. owned' \in [Cpus -> Seq(Entered)] /\ pc' \in [Cpus -> Labels]
  <2>1. owned' \in [Cpus -> Seq(Entered)]
    BY <1>1, <1>2, Zenon DEF TypeOK
  <2> QED
    BY <2>1, Zenon DEF TypeOK, Labels, Uncounted
<1>4. Accounting'
  <2>1. push_off_count[c] = Len(owned[c])
    <3>1. pc[c] \notin Uncounted
      BY Zenon DEF Uncounted
    <3> QED
      BY <3>1, LenProperties DEF TypeOK, Accounting
  <2>2. pc'[c] \in Uncounted
    BY <1>1, Zenon DEF Uncounted
  <2>3. push_off_count'[c] = Len(owned'[c]) + (IF pc'[c] \in Uncounted THEN 1 ELSE 0)
    BY <1>2, <2>1, <2>2
  <2>4. ASSUME NEW d \in Cpus, d # c
        PROVE  push_off_count'[d]
                 = Len(owned'[d]) + (IF pc'[d] \in Uncounted THEN 1 ELSE 0)
    BY <1>1, <2>4, Zenon DEF Accounting
  <2> QED
    BY <2>3, <2>4, Zenon DEF Accounting
<1>5. CountedOff' /\ FramesKeepOff'
  BY Zenon DEF CountedOff, FramesKeepOff
<1>6. ASSUME NEW d \in Cpus, NEW i \in 1 .. Len(owned'[d])
      PROVE  i \in 1 .. Len(owned[d]) /\ owned[d][i] = owned'[d][i]
  <2>1. CASE d = c
    BY <1>2, <2>1
  <2>2. CASE d # c
    BY <1>1, <2>2, Zenon
  <2> QED
    BY <2>1, <2>2, Zenon
<1>7. MutualExclusion'
  <2> SUFFICES ASSUME NEW d \in Cpus, NEW e \in Cpus,
                      NEW i \in 1 .. Len(owned'[d]), NEW j \in 1 .. Len(owned'[e]),
                      owned'[d][i] = owned'[e][j], owned'[d][i] \in Locks
               PROVE  d = e /\ i = j
    BY DEF MutualExclusion
  <2>1. i \in 1 .. Len(owned[d]) /\ owned[d][i] = owned'[d][i]
    BY <1>6, Zenon
  <2>2. j \in 1 .. Len(owned[e]) /\ owned[e][j] = owned'[e][j]
    BY <1>6, Zenon
  <2> QED
    BY <2>1, <2>2 DEF MutualExclusion
<1>8. CallArguments' /\ SwitchAgrees'
  BY <1>1 DEF CallArguments, SwitchAgrees, Innermost
<1>9. ASSUME NEW d \in Cpus, NEW k \in Locks, k # Innermost(owned[c])
      PROVE  Holds(d, k)' <=> Holds(d, k)
  <2>1. CASE d = c
    <3>1. ASSUME NEW i \in 1 .. Len(owned[c]), owned[c][i] = k
          PROVE  i \in 1 .. Len(owned'[c]) /\ owned'[c][i] = k
      <4>1. i # Len(owned[c])
        BY <1>9, <3>1, Zenon DEF Innermost
      <4>2. i \in 1 .. Len(owned[c]) - 1
        BY <1>2, <3>1, <4>1
      <4> QED
        BY <1>2, <3>1, <4>2, Zenon
    <3> QED
      BY <1>6, <2>1, <3>1, Zenon DEF Holds
  <2>2. CASE d # c
    BY <1>1, <2>2, Zenon DEF Holds
  <2> QED
    BY <2>1, <2>2, Zenon
<1>10. ASSUME Innermost(owned[c]) \in Locks,
              NEW d \in Cpus, NEW i \in 1 .. Len(owned'[d]),
              owned'[d][i] = Innermost(owned[c])
       PROVE  FALSE
  <2>1. i \in 1 .. Len(owned[d]) /\ owned[d][i] = owned[c][Len(owned[c])]
    BY <1>6, <1>10, Zenon DEF Innermost
  <2>2. Len(owned[c]) \in 1 .. Len(owned[c]) /\ owned[c][Len(owned[c])] \in Locks
    BY <1>2, <1>10 DEF Innermost
  <2>3. d = c /\ i = Len(owned[c])
    BY <2>1, <2>2, Zenon DEF MutualExclusion
  <2> QED
    BY <1>2, <1>10, <2>3
<1> QED
  BY <1>3, <1>4, <1>5, <1>7, <1>8, <1>9, <1>10, Zenon

\* The step that gives the lock back: its only holder drops it.
LEMMA ClearOK ==
  ASSUME IInv, NEW c \in Cpus, Clear(c)
  PROVE  IInv'
<1> USE DEF IInv
<1>p. PICK l \in Locks : l = arg[c]
  BY Zenon DEF Clear, CallArguments
<1>1. /\ owned[c] # <<>> /\ Innermost(owned[c]) = l
      /\ pc[c] \in {"run", "clear"}
      /\ UNCHANGED <<cpu_id, int_on, push_off_count, IF_flag, arg, frames>>
      /\ held' = [held EXCEPT ![l] = FALSE]
      /\ owned' = [owned EXCEPT ![c] = Pop(@)]
      /\ pc' = [pc EXCEPT ![c] = "pop"]
  BY <1>p, Zenon DEF Clear, CallArguments, intVars
<1>2. /\ owned' \in [Cpus -> Seq(Entered)] /\ pc' \in [Cpus -> Labels]
      /\ Accounting' /\ CountedOff' /\ FramesKeepOff' /\ MutualExclusion'
      /\ CallArguments' /\ SwitchAgrees'
  BY <1>1, DropOK, Zenon
<1>3. \A d \in Cpus, k \in Locks \ {l} : Holds(d, k)' <=> Holds(d, k)
  BY <1>1, DropOK, Zenon
<1>4. \A d \in Cpus : ~Holds(d, l)'
  BY <1>1, DropOK, Zenon DEF Holds
<1>5. HeldIffOwned'
  <2>1. ~held'[l] /\ \A k \in Locks \ {l} : held'[k] = held[k]
    BY <1>1, Zenon DEF TypeOK
  <2> QED
    BY <1>3, <1>4, <2>1, Zenon DEF HeldIffOwned
<1>6. TypeOK'
  BY <1>1, <1>2, Zenon DEF TypeOK
<1> QED
  BY <1>2, <1>5, <1>6, Zenon

\* Leaving a bare section touches no lock.
LEMMA LeaveSectionOK ==
  ASSUME IInv, NEW c \in Cpus, LeaveSection(c)
  PROVE  IInv'
<1> USE DEF IInv
<1>1. /\ owned[c] # <<>> /\ Innermost(owned[c]) = Section
      /\ pc[c] \in {"run", "clear"}
      /\ UNCHANGED <<held, cpu_id, int_on, push_off_count, IF_flag, arg, frames>>
      /\ owned' = [owned EXCEPT ![c] = Pop(@)]
      /\ pc' = [pc EXCEPT ![c] = "pop"]
  BY EnteredHereFact, Zenon DEF LeaveSection, lockVars, intVars
<1>2. /\ owned' \in [Cpus -> Seq(Entered)] /\ pc' \in [Cpus -> Labels]
      /\ Accounting' /\ CountedOff' /\ FramesKeepOff' /\ MutualExclusion'
      /\ CallArguments' /\ SwitchAgrees'
  BY <1>1, DropOK, Zenon
<1>3. \A d \in Cpus, k \in Locks : Holds(d, k)' <=> Holds(d, k)
  BY <1>1, DropOK, SpinlockAssumption, Zenon
<1>4. HeldIffOwned'
  BY <1>1, <1>3, Zenon DEF HeldIffOwned
<1>5. TypeOK'
  BY <1>1, <1>2, Zenon DEF TypeOK
<1> QED
  BY <1>2, <1>4, <1>5, Zenon

\* Entering a handler: if the flag was set, the suspended code had entered
\* nothing, and if it was suspended at "run", int_on was set.
LEMMA EnterHandlerOK ==
  ASSUME IInv, NEW c \in Cpus, pc[c] \in {"run", "cli"},
         pc[c] = "cli" => IF_flag[c],
         EnterHandler(c)
  PROVE  IInv'
<1> USE DEF IInv
<1> DEFINE f == [flag |-> IF_flag[c], pc |-> pc[c], arg |-> arg[c],
                 depth |-> Len(owned[c])]
<1>1. /\ UNCHANGED <<held, cpu_id, int_on, push_off_count, owned>>
      /\ frames' = [frames EXCEPT ![c] = Append(@, f)]
      /\ IF_flag' = [IF_flag EXCEPT ![c] = FALSE]
      /\ arg' = [arg EXCEPT ![c] = Section]
      /\ pc' = [pc EXCEPT ![c] = "run"]
  BY Zenon DEF EnterHandler, lockVars
<1>2. owned[c] \in Seq(Entered) /\ Len(owned[c]) \in Nat
  BY LenProperties, Zenon DEF TypeOK
<1>3. f \in Frame
  BY <1>2, Zenon DEF Frame, TypeOK
<1>4. /\ pc'[c] = "run" /\ ~IF_flag'[c] /\ frames'[c] = Append(frames[c], f)
      /\ \A d \in Cpus \ {c} : /\ pc'[d] = pc[d] /\ IF_flag'[d] = IF_flag[d]
                               /\ frames'[d] = frames[d] /\ arg'[d] = arg[d]
  BY <1>1, Zenon DEF TypeOK
<1>5. /\ frames'[c] \in Seq(Frame)
      /\ Len(frames[c]) \in Nat
      /\ Len(frames'[c]) = Len(frames[c]) + 1
      /\ \A i \in 1 .. Len(frames[c]) : frames'[c][i] = frames[c][i]
      /\ frames'[c][Len(frames[c]) + 1] = f
  BY <1>3, <1>4, AppendFacts DEF TypeOK
<1>6. f.flag = IF_flag[c] /\ f.pc = pc[c] /\ f.depth = Len(owned[c])
  BY Zenon
<1> HIDE DEF f
<1>7. TypeOK'
  <2>1. frames' \in [Cpus -> Seq(Frame)]
    BY <1>1, <1>4, <1>5, Zenon DEF TypeOK
  <2> QED
    BY <1>1, <2>1, Zenon DEF TypeOK, Labels, Entered
<1>8. Accounting'
  <2>1. pc[c] \notin Uncounted /\ pc'[c] \notin Uncounted
    BY <1>4, Zenon DEF Uncounted
  <2> QED
    BY <1>1, <1>4, <2>1, Zenon DEF Accounting
<1>9. CountedOff'
  BY <1>1, <1>4, Zenon DEF CountedOff
<1>10. HeldIffOwned' /\ MutualExclusion'
  BY <1>1 DEF HeldIffOwned, MutualExclusion, Holds
<1>11. FramesKeepOff'
  <2>1. f.flag => f.depth = 0
    <3>1. push_off_count[c] = Len(owned[c])
      <4>1. pc[c] \notin Uncounted
        BY Zenon DEF Uncounted
      <4> QED
        BY <4>1, LenProperties DEF TypeOK, Accounting
    <3>2. IF_flag[c] => ~(push_off_count[c] > 0)
      BY Zenon DEF CountedOff
    <3>3. IF_flag[c] => Len(owned[c]) = 0
      BY <1>2, <3>1, <3>2
    <3> QED
      BY <1>6, <3>3, Zenon
  <2>2. ASSUME NEW i \in 1 .. Len(frames'[c])
        PROVE  frames'[c][i].flag => frames'[c][i].depth = 0
    <3>1. CASE i = Len(frames[c]) + 1
      BY <1>5, <2>1, <3>1, Zenon
    <3>2. CASE i # Len(frames[c]) + 1
      <4>1. i \in 1 .. Len(frames[c])
        BY <1>5, <3>2
      <4> QED
        BY <1>5, <4>1, Zenon DEF FramesKeepOff
    <3> QED
      BY <3>1, <3>2, Zenon
  <2>3. ASSUME NEW d \in Cpus, d # c, NEW i \in 1 .. Len(frames'[d])
        PROVE  frames'[d][i].flag => frames'[d][i].depth = 0
    <3>1. frames'[d] = frames[d]
      BY <1>4, <2>3, Zenon
    <3> QED
      BY <2>3, <3>1 DEF FramesKeepOff
  <2> QED
    BY <2>2, <2>3, Zenon DEF FramesKeepOff
<1>12. CallArguments'
  BY <1>1, <1>4 DEF CallArguments, Innermost
<1>13. SwitchAgrees'
  <2>1. ASSUME owned[c] = <<>>, ~int_on[c], NEW i \in 1 .. Len(frames'[c]),
               frames'[c][i].flag
        PROVE  \E j \in i .. Len(frames'[c]) : frames'[c][j].pc = "cli"
    <3>1. CASE pc[c] = "cli"
      <4>1. /\ Len(frames[c]) + 1 \in i .. Len(frames'[c])
            /\ frames'[c][Len(frames[c]) + 1].pc = "cli"
        BY <1>5, <1>6, <3>1
      <4> QED
        BY <4>1, Zenon
    <3>2. CASE pc[c] = "run"
      <4>1. ~f.flag
        BY <1>6, <2>1, <3>2, Zenon DEF SwitchAgrees
      <4>2. i \in 1 .. Len(frames[c]) /\ frames[c][i].flag
        BY <1>5, <2>1, <4>1
      <4>3. PICK j \in i .. Len(frames[c]) : frames[c][j].pc = "cli"
        BY <2>1, <3>2, <4>2, Zenon DEF SwitchAgrees
      <4>4. j \in i .. Len(frames'[c]) /\ frames'[c][j].pc = "cli"
        BY <1>5, <4>2, <4>3
      <4> QED
        BY <4>4, Zenon
    <3> QED
      BY <3>1, <3>2, Zenon
  <2> QED
    BY <1>1, <1>4, <2>1 DEF SwitchAgrees
<1> QED
  BY <1>7, <1>8, <1>9, <1>10, <1>11, <1>12, <1>13, Zenon

LEMMA IretOK ==
  ASSUME IInv, NEW c \in Cpus, Iret(c)
  PROVE  IInv'
<1> USE DEF IInv
<1> DEFINE n == Len(frames[c])
<1> DEFINE f == frames[c][n]
<1>1. /\ UNCHANGED <<held, cpu_id, int_on, push_off_count, owned>>
      /\ frames' = [frames EXCEPT ![c] = Pop(@)]
      /\ IF_flag' = [IF_flag EXCEPT ![c] = f.flag]
      /\ arg' = [arg EXCEPT ![c] = f.arg]
      /\ pc' = [pc EXCEPT ![c] = f.pc]
      /\ pc[c] = "run" /\ frames[c] # <<>> /\ ~EnteredHere(c)
  BY Zenon DEF Iret, lockVars, Innermost
<1>2. frames[c] \in Seq(Frame) /\ owned[c] \in Seq(Entered)
  BY Zenon DEF TypeOK
<1>3. n \in Nat \ {0}
  BY <1>1, <1>2, PopFacts, Zenon
<1>4. f \in Frame
  BY <1>2, <1>3, ElementOfSeq
<1>5. /\ f.flag \in BOOLEAN /\ f.pc \in {"run", "cli"}
      /\ f.arg \in Entered /\ f.depth \in Nat
  BY <1>4, Zenon DEF Frame
<1>6. /\ pc'[c] = f.pc /\ IF_flag'[c] = f.flag /\ frames'[c] = Pop(frames[c])
      /\ \A d \in Cpus \ {c} : /\ pc'[d] = pc[d] /\ IF_flag'[d] = IF_flag[d]
                               /\ frames'[d] = frames[d] /\ arg'[d] = arg[d]
  BY <1>1, Zenon DEF TypeOK
<1>7. /\ frames'[c] \in Seq(Frame)
      /\ Len(frames'[c]) = n - 1
      /\ \A i \in 1 .. n - 1 : frames'[c][i] = frames[c][i]
  BY <1>1, <1>2, <1>6, PopFacts
<1>8. f.flag => owned[c] = <<>>
  <2>1. f.flag => f.depth = 0
    BY <1>3 DEF FramesKeepOff
  <2>2. ~(Len(owned[c]) > f.depth)
    BY <1>1, Zenon DEF EnteredHere, Innermost
  <2> QED
    BY <1>2, <2>1, <2>2, LenProperties, EmptySeq
<1>9. f.flag /\ f.pc = "run" => int_on[c]
  <2> SUFFICES ASSUME f.flag, f.pc = "run", ~int_on[c] PROVE FALSE
    BY Zenon DEF TypeOK
  <2>1. n \in 1 .. n
    BY <1>3
  <2>2. \E j \in n .. n : frames[c][j].pc = "cli"
    BY <1>1, <1>8, <2>1, Zenon DEF SwitchAgrees
  <2> QED
    BY <1>3, <2>2
<1>10. push_off_count[c] = Len(owned[c])
  <2>1. pc[c] \notin Uncounted
    BY <1>1, Zenon DEF Uncounted
  <2> QED
    BY <2>1, LenProperties DEF TypeOK, Accounting
<1>11. TypeOK'
  <2>1. frames' \in [Cpus -> Seq(Frame)]
    BY <1>1, <1>6, <1>7, Zenon DEF TypeOK
  <2>2. pc' \in [Cpus -> Labels]
    BY <1>1, <1>5, Zenon DEF TypeOK, Labels
  <2>3. IF_flag' \in [Cpus -> BOOLEAN] /\ arg' \in [Cpus -> Entered]
    BY <1>1, <1>5, Zenon DEF TypeOK
  <2> QED
    BY <1>1, <2>1, <2>2, <2>3, Zenon DEF TypeOK
<1>12. Accounting'
  <2>1. pc'[c] \notin Uncounted /\ pc[c] \notin Uncounted
    BY <1>1, <1>5, <1>6, Zenon DEF Uncounted
  <2> QED
    BY <1>1, <1>6, <2>1, Zenon DEF Accounting
<1>13. CountedOff'
  <2>1. push_off_count'[c] > 0 => ~IF_flag'[c]
    BY <1>1, <1>6, <1>8, <1>10, EmptySeq
  <2> QED
    BY <1>1, <1>6, <2>1, Zenon DEF CountedOff
<1>14. HeldIffOwned' /\ MutualExclusion'
  BY <1>1 DEF HeldIffOwned, MutualExclusion, Holds
<1>15. FramesKeepOff'
  <2>1. ASSUME NEW i \in 1 .. Len(frames'[c])
        PROVE  frames'[c][i].flag => frames'[c][i].depth = 0
    BY <1>3, <1>7 DEF FramesKeepOff
  <2> QED
    BY <1>6, <2>1 DEF FramesKeepOff
<1>16. CallArguments'
  BY <1>1, <1>5, <1>6, Zenon DEF CallArguments, Innermost
<1>17. SwitchAgrees'
  <2>1. ASSUME pc'[c] = "run", owned[c] = <<>>, ~int_on[c],
               NEW i \in 1 .. Len(frames'[c]), frames'[c][i].flag
        PROVE  \E j \in i .. Len(frames'[c]) : frames'[c][j].pc = "cli"
    <3>1. i \in 1 .. n /\ i \in 1 .. n - 1 /\ frames[c][i].flag
      BY <1>3, <1>7, <2>1
    <3>2. PICK j \in i .. n : frames[c][j].pc = "cli"
      BY <1>1, <2>1, <3>1, Zenon DEF SwitchAgrees
    <3>3. j # n
      BY <1>6, <2>1, <3>2, Zenon
    <3>4. j \in i .. n - 1 /\ j \in 1 .. n - 1
      BY <1>3, <3>1, <3>2, <3>3
    <3> QED
      BY <1>7, <3>2, <3>4, Zenon
  <2>2. /\ pc'[c] # "start"
        /\ pc'[c] = "run" /\ IF_flag'[c] => int_on[c]
    BY <1>5, <1>6, <1>9, Zenon
  <2>3. UNCHANGED <<int_on, owned>>
    BY <1>1, Zenon
  <2> SUFFICES ASSUME NEW d \in Cpus
               PROVE  /\ pc'[d] = "start" => ~IF_flag'[d]
                      /\ pc'[d] = "run" /\ IF_flag'[d] => int_on'[d]
                      /\ pc'[d] = "run" /\ owned'[d] = <<>> /\ ~int_on'[d] =>
                           \A i \in 1 .. Len(frames'[d]) : frames'[d][i].flag =>
                             \E j \in i .. Len(frames'[d]) : frames'[d][j].pc = "cli"
    BY Zenon DEF SwitchAgrees
  <2>4. CASE d = c
    BY <2>1, <2>2, <2>3, <2>4, Zenon
  <2>5. CASE d # c
    <3>1. /\ pc'[d] = pc[d] /\ IF_flag'[d] = IF_flag[d]
          /\ frames'[d] = frames[d]
      BY <1>6, <2>5, Zenon
    <3> QED
      BY <2>3, <3>1, Zenon DEF SwitchAgrees
  <2> QED
    BY <2>4, <2>5, Zenon
<1> QED
  BY <1>11, <1>12, <1>13, <1>14, <1>15, <1>16, <1>17, Zenon

-----------------------------------------------------------------------------

\* Every step keeps the invariant: acquire, release, push_off, pop_off, on any
\* CPU, and the arrival and return of any handler.
LEMMA NextPreserves == IInv /\ [Next]_vars => IInv'
<1> SUFFICES ASSUME IInv, [Next]_vars PROVE IInv'
  BY Zenon
<1>1. CASE UNCHANGED vars
  <2> USE <1>1 DEF vars
  <2>1. TypeOK' /\ Accounting' /\ CountedOff'
    BY Zenon DEF IInv, TypeOK, Accounting, CountedOff
  <2>2. HeldIffOwned' /\ MutualExclusion'
    BY DEF IInv, HeldIffOwned, Holds, MutualExclusion
  <2>3. FramesKeepOff' /\ CallArguments' /\ SwitchAgrees'
    BY Zenon DEF IInv, FramesKeepOff, CallArguments, Innermost, SwitchAgrees
  <2> QED
    BY <2>1, <2>2, <2>3, Zenon DEF IInv
<1>2. ASSUME NEW c \in Cpus, Step(c) PROVE IInv'
  BY <1>2, CliOK, PopOffOK, HoldingOK, TestAndSetOK, SetCpuIdOK, ClearOK, Zenon DEF Step
<1>3. ASSUME NEW c \in Cpus, Leave(c) PROVE IInv'
  BY <1>3, ReleaseOK, LeaveSectionOK, Zenon DEF Leave
<1>4. ASSUME NEW c \in Cpus, NEW l \in Locks, Acquire(c, l) PROVE IInv'
  BY <1>4, PushOffOK, Zenon DEF Acquire, Entered
<1>5. ASSUME NEW c \in Cpus, EnterSection(c) PROVE IInv'
  BY <1>5, PushOffOK, Zenon DEF EnterSection, Entered
<1>6. ASSUME NEW c \in Cpus, Interrupt(c) PROVE IInv'
  BY <1>6, EnterHandlerOK, Zenon DEF Interrupt
<1>7. ASSUME NEW c \in Cpus, PageFault(c) PROVE IInv'
  BY <1>7, EnterHandlerOK, Zenon DEF PageFault
<1>8. ASSUME NEW c \in Cpus, Iret(c) PROVE IInv'
  BY <1>8, IretOK, Zenon
<1> QED
  BY <1>1, <1>2, <1>3, <1>4, <1>5, <1>6, <1>7, <1>8, Zenon DEF Next

\* The inductive invariant holds throughout: counters, flags, lock bytes and the
\* stacks of entered locks agree in every reachable state.
THEOREM Invariance == Spec => []IInv
  BY InitEstablishes, NextPreserves, PTL DEF Spec

\* The state stays well typed; push_off_count never drops below zero.
THEOREM TypeCorrect == Spec => []TypeOK
<1>1. IInv => TypeOK
  BY Zenon DEF IInv
<1> QED
  BY <1>1, Invariance, PTL

\* acquire and release give each lock to at most one CPU at a time.
THEOREM LocksExclude == Spec => []MutualExclusion
<1>1. IInv => MutualExclusion
  BY Zenon DEF IInv
<1> QED
  BY <1>1, Invariance, PTL

\* A CPU inside a lock or a push_off section cannot be interrupted, whatever
\* acquires, page faults and handlers nest inside it.
THEOREM HoldersUninterruptible == Spec => []HolderUninterruptible
<1>1. IInv => HolderUninterruptible
  <2> SUFFICES ASSUME IInv, NEW c \in Cpus, owned[c] # <<>> PROVE ~IF_flag[c]
    BY Zenon DEF HolderUninterruptible
  <2>1. Len(owned[c]) \in Nat \ {0}
    BY PopFacts, Zenon DEF IInv, TypeOK
  <2>2. push_off_count[c] > 0
    <3>1. CASE pc[c] \in Uncounted
      BY <2>1, <3>1 DEF IInv, TypeOK, Accounting
    <3>2. CASE pc[c] \notin Uncounted
      BY <2>1, <3>2 DEF IInv, TypeOK, Accounting
    <3> QED
      BY <3>1, <3>2, Zenon
  <2> QED
    BY <2>2, Zenon DEF IInv, CountedOff
<1> QED
  BY <1>1, Invariance, PTL

-----------------------------------------------------------------------------
(* Spinlock implements Mutex.                                              *)

holders == [l \in Locks |-> {c \in Cpus : Holds(c, l)}]

\* Entering adds what is entered to what the CPU holds.
LEMMA EnterHolds ==
  ASSUME IInv, NEW c \in Cpus, NEW x \in Entered,
         owned' = [owned EXCEPT ![c] = Append(@, x)]
  PROVE  /\ \A l : Holds(c, l)' <=> Holds(c, l) \/ l = x
         /\ \A d \in Cpus : d # c => \A l : Holds(d, l)' <=> Holds(d, l)
<1>1. owned'[c] = Append(owned[c], x) /\ \A d \in Cpus : d # c => owned'[d] = owned[d]
  BY Zenon DEF IInv, TypeOK
<1>2. PICK s \in Seq(Entered) : s = owned[c]
  BY Zenon DEF IInv, TypeOK
<1>3. PICK t \in Seq(Entered) : t = owned'[c]
  BY <1>1, <1>2, AppendFacts, Zenon
<1>4. /\ Len(s) \in Nat /\ Len(t) = Len(s) + 1 /\ t[Len(s) + 1] = x
      /\ \A i \in 1 .. Len(s) : t[i] = s[i]
  BY <1>1, <1>2, <1>3, AppendFacts
<1>5. ASSUME NEW l PROVE Holds(c, l)' <=> Holds(c, l) \/ l = x
  <2>1. (\E i \in 1 .. Len(t) : t[i] = l) <=> (\E i \in 1 .. Len(s) : s[i] = l) \/ l = x
    BY <1>4
  <2> QED
    BY <1>2, <1>3, <2>1, Zenon DEF Holds
<1> QED
  BY <1>1, <1>5, Zenon DEF Holds

\* Leaving takes the innermost lock or section away; a lock is then held no
\* more, since a CPU never holds one twice.
LEMMA LeaveHolds ==
  ASSUME IInv, NEW c \in Cpus, owned[c] # <<>>,
         owned' = [owned EXCEPT ![c] = Pop(@)]
  PROVE  /\ \A l \in Locks : Holds(c, l)' <=> Holds(c, l) /\ l # Innermost(owned[c])
         /\ \A d \in Cpus : d # c => \A l : Holds(d, l)' <=> Holds(d, l)
<1>1. owned'[c] = Pop(owned[c]) /\ \A d \in Cpus : d # c => owned'[d] = owned[d]
  BY Zenon DEF IInv, TypeOK
<1>2. PICK s \in Seq(Entered) : s = owned[c]
  BY Zenon DEF IInv, TypeOK
<1>3. PICK t \in Seq(Entered) : t = owned'[c]
  BY <1>1, <1>2, PopFacts, Zenon
<1>4. /\ Len(s) \in Nat \ {0} /\ Len(t) = Len(s) - 1
      /\ \A i \in 1 .. Len(s) - 1 : t[i] = s[i]
  BY <1>1, <1>2, <1>3, PopFacts
<1>5. \A i, j \in 1 .. Len(s) : s[i] = s[j] /\ s[i] \in Locks => i = j
  BY <1>2 DEF IInv, MutualExclusion
<1>6. ASSUME NEW l \in Locks
      PROVE  Holds(c, l)' <=> Holds(c, l) /\ l # Innermost(owned[c])
  <2>1. (\E i \in 1 .. Len(t) : t[i] = l) <=>
          (\E i \in 1 .. Len(s) : s[i] = l) /\ l # s[Len(s)]
    BY <1>4, <1>5
  <2> QED
    BY <1>2, <1>3, <2>1, Zenon DEF Holds, Innermost
<1> QED
  BY <1>1, <1>6, Zenon DEF Holds

\* A step that enters or leaves a bare section, or nothing, is invisible to Mutex.
LEMMA NoHolderChange ==
  ASSUME \A c \in Cpus, l \in Locks : Holds(c, l)' <=> Holds(c, l)
  PROVE  holders' = holders
  BY Zenon DEF holders

\* Every step of the spinlocks is a step of the mutex or leaves it alone: the
\* test-and-set that succeeds takes the lock, the clear gives it back.
LEMMA StepSimulation == IInv /\ [Next]_vars => [Mutex!Next]_holders
<1> SUFFICES ASSUME IInv, [Next]_vars, holders' # holders PROVE Mutex!Next
  BY Zenon
<1>1. ASSUME NEW c \in Cpus, TestAndSet(c) PROVE Mutex!Next
  <2>1. PICK l \in Locks : l = arg[c]
    BY <1>1, Zenon DEF IInv, CallArguments, TestAndSet
  <2>2. ~held[l] /\ owned' = [owned EXCEPT ![c] = Append(@, l)] /\ l \in Entered
    BY <1>1, <2>1, Zenon DEF TestAndSet, Entered
  <2>3. \A d \in Cpus : ~Holds(d, l)
    BY <2>2, Zenon DEF IInv, HeldIffOwned
  <2>4. /\ \A k : Holds(c, k)' <=> Holds(c, k) \/ k = l
        /\ \A d \in Cpus : d # c => \A k : Holds(d, k)' <=> Holds(d, k)
    BY <2>2, EnterHolds, Zenon
  <2>5. holders[l] = {}
    BY <2>3, Zenon DEF holders
  <2>6. holders' = [holders EXCEPT ![l] = {c}]
    BY <2>3, <2>4, Zenon DEF holders
  <2> QED
    BY <2>5, <2>6, Zenon DEF Mutex!Next, Mutex!Lock, holders
<1>2. ASSUME NEW c \in Cpus, Clear(c) PROVE Mutex!Next
  <2>1. PICK l \in Locks : l = arg[c]
    BY <1>2, Zenon DEF IInv, CallArguments, Clear
  <2>2. /\ owned[c] # <<>> /\ Innermost(owned[c]) = l
        /\ owned' = [owned EXCEPT ![c] = Pop(@)]
    BY <1>2, <2>1, Zenon DEF IInv, CallArguments, Clear
  <2>3. Holds(c, l) /\ \A d \in Cpus : Holds(d, l) => d = c
    <3>1. Len(owned[c]) \in Nat \ {0}
      BY <2>2, PopFacts, Zenon DEF IInv, TypeOK
    <3>2. Holds(c, l)
      BY <2>2, <3>1 DEF Holds, Innermost
    <3> QED
      BY <3>2 DEF Holds, IInv, MutualExclusion
  <2>4. /\ \A k \in Locks : Holds(c, k)' <=> Holds(c, k) /\ k # l
        /\ \A d \in Cpus : d # c => \A k : Holds(d, k)' <=> Holds(d, k)
    BY <2>2, LeaveHolds, Zenon
  <2>5. holders[l] = {c}
    BY <2>3, Zenon DEF holders
  <2>6. holders' = [holders EXCEPT ![l] = {}]
    BY <2>3, <2>4, Zenon DEF holders
  <2> QED
    BY <2>5, <2>6, Zenon DEF Mutex!Next, Mutex!Unlock, holders
<1>3. ASSUME NEW c \in Cpus, LeaveSection(c) PROVE FALSE
  <2>1. /\ owned[c] # <<>> /\ Innermost(owned[c]) = Section
        /\ owned' = [owned EXCEPT ![c] = Pop(@)]
    BY <1>3, EnteredHereFact, Zenon DEF LeaveSection
  <2> QED
    BY <2>1, LeaveHolds, NoHolderChange, SpinlockAssumption, Zenon
<1>4. ASSUME NEW c \in Cpus, NEW x \in Entered, PushOff(c, x) \/ Cli(c) PROVE FALSE
  <2>1. UNCHANGED owned \/ owned' = [owned EXCEPT ![c] = Append(@, Section)]
    BY <1>4 DEF PushOff, Cli, PushReturns, IInv, TypeOK
  <2>2. Section \in Entered
    BY Zenon DEF Entered
  <2>3. CASE UNCHANGED owned
    BY <2>3, NoHolderChange, Zenon DEF Holds
  <2>4. CASE owned' = [owned EXCEPT ![c] = Append(@, Section)]
    BY <2>2, <2>4, EnterHolds, NoHolderChange, SpinlockAssumption, Zenon
  <2> QED
    BY <2>1, <2>3, <2>4, Zenon
<1>5. ASSUME NEW c \in Cpus,
             \/ PopOff(c) \/ HoldingHeld(c) \/ HoldingId(c) \/ SetCpuId(c)
             \/ Release(c) \/ Interrupt(c) \/ PageFault(c) \/ Iret(c)
      PROVE  FALSE
  <2>1. UNCHANGED owned
    BY <1>5, Zenon DEF PopOff, HoldingHeld, HoldingId, SetCpuId, Release, Interrupt,
       PageFault, EnterHandler, Iret
  <2> QED
    BY <2>1, NoHolderChange, Zenon DEF Holds
<1>6. CASE UNCHANGED vars
  BY <1>6, NoHolderChange, Zenon DEF Holds, vars
<1>7. \A c \in Cpus, l \in Locks : Acquire(c, l) => l \in Entered /\ PushOff(c, l)
  BY Zenon DEF Acquire, Entered
<1>8. \A c \in Cpus : EnterSection(c) => Section \in Entered /\ PushOff(c, Section)
  BY Zenon DEF EnterSection, Entered
<1>9. Section \in Entered
  BY Zenon DEF Entered
<1> QED
  BY <1>1, <1>2, <1>3, <1>4, <1>5, <1>6, <1>7, <1>8, <1>9, Zenon DEF Next, Step, Leave

\* For any number of CPUs and locks, and any nesting of sections and handlers,
\* the spinlocks implement the atomic lock that the modules above them assume.
THEOREM Implements == Spec => ImplementsMutex
<1>1. Init => Mutex!Init
  <2> SUFFICES ASSUME Init PROVE holders = [l \in Locks |-> {}]
    BY Zenon DEF Mutex!Init, holders
  <2>1. \A c \in Cpus, l \in Locks : ~Holds(c, l)
    BY DEF Init, Holds
  <2> QED
    BY <2>1, Zenon DEF holders
<1> QED
  BY <1>1, StepSimulation, Invariance, PTL DEF Spec, ImplementsMutex, Mutex!Spec, holders

=============================================================================
