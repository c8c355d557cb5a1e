------------------------------ MODULE PagePool ------------------------------
(***************************************************************************)
(* What the physical allocator promises its callers: a fixed set of pages, *)
(* each of them either free or in use, that are taken and given back one   *)
(* by one.                                                                 *)
(***************************************************************************)
CONSTANT Pages

VARIABLES free, inUse

Init == free = Pages /\ inUse = {}

\* kalloc hands out some free page.
Take(p) ==
  /\ p \in free
  /\ free' = free \ {p}
  /\ inUse' = inUse \cup {p}

\* kfree makes a page that was in use available again.
Give(p) ==
  /\ p \in inUse
  /\ free' = free \cup {p}
  /\ inUse' = inUse \ {p}

Next == \E p \in Pages : Take(p) \/ Give(p)

Spec == Init /\ [][Next]_<<free, inUse>>

=============================================================================
