------------------------------- MODULE Mutex -------------------------------
(***************************************************************************)
(* What a spinlock promises: the CPUs take each lock one at a time, and    *)
(* only the CPU that took it gives it back.                                *)
(***************************************************************************)
CONSTANTS Cpus, Locks

VARIABLE holders  \* holders[l]: the CPUs between acquire(l) and release(l)

Init == holders = [l \in Locks |-> {}]

Lock(c, l) ==
  /\ holders[l] = {}
  /\ holders' = [holders EXCEPT ![l] = {c}]

Unlock(c, l) ==
  /\ holders[l] = {c}
  /\ holders' = [holders EXCEPT ![l] = {}]

Next == \E c \in Cpus, l \in Locks : Lock(c, l) \/ Unlock(c, l)

Spec == Init /\ [][Next]_holders

=============================================================================
