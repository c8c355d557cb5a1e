------------------------------ MODULE RunQueue ------------------------------
(***************************************************************************)
(* What the scheduler expects of sched_tree_t: a set of entities from      *)
(* which any member can be taken out, and whose first member is always one *)
(* of those with the smallest vruntime.                                    *)
(***************************************************************************)
EXTENDS Naturals

CONSTANTS
  Entities,
  vruntime,   \* the key of every entity while it is queued
  NoEntity

VARIABLES
  queue,  \* the queued entities
  first   \* the one that cfs_pick_next returns

Smallest(S) == {e \in S : \A f \in S : vruntime[e] <= vruntime[f]}

FirstOf(S, e) == IF S = {} THEN e = NoEntity ELSE e \in Smallest(S)

Init == queue = {} /\ first = NoEntity

Insert(e) ==
  /\ e \notin queue
  /\ queue' = queue \cup {e}
  /\ FirstOf(queue', first')

Remove(e) ==
  /\ e \in queue
  /\ queue' = queue \ {e}
  /\ FirstOf(queue', first')

Next == \E e \in Entities : Insert(e) \/ Remove(e)

Spec == Init /\ [][Next]_<<queue, first>>

=============================================================================
