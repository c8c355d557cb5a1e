------------------------------- MODULE RbTree -------------------------------
(***************************************************************************)
(* The red-black tree of scheduler/rb_tree.c that holds the runnable       *)
(* threads.  RbNodes are heap addresses, a tree is the record of all that  *)
(* the C code keeps in them, and every function of the file is an operator *)
(* from trees to trees whose body follows the assignments in their order.  *)
(* A read through NULL has no value, so TLC stops at it.                   *)
(***************************************************************************)
EXTENDS Integers, FiniteSets, Sequences

CONSTANTS
  Entities,  \* sched_entity_t's, numbered from 1
  vruntime,  \* the key of each, fixed while it is in the tree
  RbNodes,   \* the addresses alloc hands out for rb_node_t's, 1 .. n
  NULL

VARIABLES
  rb,      \* the tree
  queued   \* history: inserted and not yet asked to be removed

rbVars == <<rb, queued>>

LEFT == 0
RIGHT == 1
Dirs == {LEFT, RIGHT}
RED == "RED"
BLACK == "BLACK"

entity_key(se) == vruntime[se]

DIR(t, n) == IF n = t.child[t.parent[n], RIGHT] THEN RIGHT ELSE LEFT

\* alloc hands out some address that is not in use.
malloc(t) == CHOOSE n \in RbNodes : n \notin t.used

\* free, with what the node held forgotten.
dispose(t, n) ==
  [t EXCEPT !.used = @ \ {n}, !.child[n, LEFT] = NULL, !.child[n, RIGHT] = NULL,
            !.parent[n] = NULL, !.color[n] = RED, !.se[n] = NULL]

-----------------------------------------------------------------------------
(* Insertion.                                                              *)

rotate(t, n, dir) ==
  LET p == t.parent[n]
      root == t.child[n, 1 - dir]
      child == t.child[root, dir]
      t1 == [t EXCEPT !.child[n, 1 - dir] = child, !.parent[root] = p]
      t2 == IF child # NULL THEN [t1 EXCEPT !.parent[child] = n] ELSE t1
      t3 == IF p # NULL THEN [t2 EXCEPT !.child[p, DIR(t2, n)] = root]
            ELSE [t2 EXCEPT !.root = root]
  IN  [t3 EXCEPT !.parent[n] = root, !.child[root, dir] = n]

IsBlack(t, n) == n = NULL \/ t.color[n] = BLACK

\* BUG: the inner case is not brought back to the outer one.
TurnInsertOuter(t, n, parent, gp) ==
  LET dir == DIR(t, parent)
      t2 == rotate(t, gp, 1 - dir)
  IN  [t2 EXCEPT !.color[gp] = RED, !.color[parent] = BLACK]

\* The black-uncle case of the loop in balance_tree_insert.
TurnInsert(t, n, parent, gp) ==
  LET dir == DIR(t, parent)
      inner == n = t.child[parent, 1 - dir]
      t1 == IF inner THEN rotate(t, parent, dir) ELSE t
      par == IF inner THEN t1.child[gp, dir] ELSE parent
      t2 == rotate(t1, gp, 1 - dir)
  IN  [t2 EXCEPT !.color[gp] = RED, !.color[par] = BLACK]

RECURSIVE InsertLoop(_, _, _)
InsertLoop(t, n, parent) ==
  LET gp == t.parent[parent] IN
  IF t.color[parent] = BLACK THEN t
  ELSE IF gp = NULL THEN [t EXCEPT !.color[parent] = BLACK]
  ELSE LET uncle == t.child[gp, 1 - DIR(t, parent)] IN
    IF IsBlack(t, uncle) THEN TurnInsert(t, n, parent, gp)
    ELSE LET up == [t EXCEPT !.color[parent] = BLACK, !.color[uncle] = BLACK,
                             !.color[gp] = RED]
         IN  IF up.parent[gp] = NULL THEN up ELSE InsertLoop(up, gp, up.parent[gp])

balance_tree_insert(t, n, parent) ==
  IF parent = NULL THEN [t EXCEPT !.color[n] = BLACK] ELSE InsertLoop(t, n, parent)

\* The descent of rb_insert: where a new key is linked, and whether the way there
\* only ever went left.
RECURSIVE Descend(_, _, _, _, _)
Descend(t, key, parent, dir, left) ==
  LET n == IF parent = NULL THEN t.root ELSE t.child[parent, dir] IN
  IF n = NULL THEN [parent |-> parent, dir |-> dir, leftmost |-> left]
  ELSE IF key < entity_key(t.se[n]) THEN Descend(t, key, n, LEFT, left)
  ELSE Descend(t, key, n, RIGHT, FALSE)

rb_insert(t, se) ==
  LET run == malloc(t)
      at == Descend(t, entity_key(se), NULL, LEFT, TRUE)
      t1 == [t EXCEPT !.used = @ \cup {run}, !.color[run] = RED, !.se[run] = se,
                      !.child[run, LEFT] = NULL, !.child[run, RIGHT] = NULL,
                      !.leftmost = IF at.leftmost THEN run ELSE @,
                      !.parent[run] = at.parent]
      t2 == IF at.parent = NULL THEN [t1 EXCEPT !.root = run]
            ELSE [t1 EXCEPT !.child[at.parent, at.dir] = run]
  IN  balance_tree_insert(t2, run, at.parent)

-----------------------------------------------------------------------------
(* Removal.                                                                *)

\* Cases 5 and 6: a nephew is red.
TurnRemove(t, p, s, c, d, dir) ==
  LET near == IsBlack(t, d)
      t1 == IF near
            THEN [rotate(t, s, 1 - dir) EXCEPT !.color[c] = BLACK, !.color[s] = RED]
            ELSE t
      top == IF near THEN c ELSE s
      far == IF near THEN s ELSE d
  IN  [rotate(t1, p, dir) EXCEPT !.color[top] = t1.color[p], !.color[p] = BLACK,
                                 !.color[far] = BLACK]

RECURSIVE balance_tree_remove(_, _)
balance_tree_remove(t, n) ==
  LET dir == DIR(t, n)
      p == t.parent[n]
      s0 == t.child[p, 1 - dir]
      case3 == t.color[s0] = RED
      t1 == IF case3
            THEN [rotate(t, p, dir) EXCEPT !.color[p] = RED, !.color[s0] = BLACK]
            ELSE t
      s == IF case3 THEN t.child[s0, dir] ELSE s0
      c == t1.child[s, dir]
      d == t1.child[s, 1 - dir]
      t2 == [t1 EXCEPT !.color[s] = RED]
  IN  IF ~IsBlack(t1, d) \/ ~IsBlack(t1, c) THEN TurnRemove(t1, p, s, c, d, dir)
      ELSE IF t2.color[p] = RED THEN [t2 EXCEPT !.color[p] = BLACK]
      ELSE IF t2.parent[p] = NULL THEN [t2 EXCEPT !.root = p]
      ELSE balance_tree_remove(t2, p)

RECURSIVE rightmost(_, _)
rightmost(t, sub) ==
  IF t.child[sub, RIGHT] = NULL THEN sub ELSE rightmost(t, t.child[sub, RIGHT])

\* The search of rb_remove.
RECURSIVE Find(_, _, _)
Find(t, n, se) ==
  IF n = NULL \/ t.se[n] = se THEN n
  ELSE Find(t, t.child[n, IF entity_key(se) < entity_key(t.se[n]) THEN LEFT ELSE RIGHT], se)

\* n has one child, which is red: the child's entity moves up.
RemoveWithChild(t, n) ==
  LET child == IF t.child[n, LEFT] # NULL THEN t.child[n, LEFT] ELSE t.child[n, RIGHT]
  IN  dispose([t EXCEPT !.se[n] = t.se[child], !.child[n, DIR(t, child)] = NULL,
                        !.leftmost = IF @ = child THEN n ELSE @], child)

RemoveLeaf(t0, n) ==
  LET t == [t0 EXCEPT !.leftmost = IF @ = n THEN t0.parent[n] ELSE @]
      dir == DIR(t, n)
      unlink(u) == dispose([u EXCEPT !.child[u.parent[n], dir] = NULL], n)
  IN  IF n = t.root THEN dispose([t EXCEPT !.root = NULL], n)
      ELSE IF t.color[n] = RED THEN unlink(t)
      ELSE unlink(balance_tree_remove(t, n))

\* BUG: the entity of the node that is taken out instead is not saved.
rb_removeLoses(t, se) ==
  LET found == Find(t, t.root, se)
      two == t.child[found, LEFT] # NULL /\ t.child[found, RIGHT] # NULL
      n == IF two THEN rightmost(t, t.child[found, LEFT]) ELSE found
  IN  IF found = NULL THEN t
      ELSE IF t.child[n, LEFT] # NULL \/ t.child[n, RIGHT] # NULL
      THEN RemoveWithChild(t, n)
      ELSE RemoveLeaf(t, n)

rb_remove(t, se) ==
  LET found == Find(t, t.root, se)
      two == t.child[found, LEFT] # NULL /\ t.child[found, RIGHT] # NULL
      n == IF two THEN rightmost(t, t.child[found, LEFT]) ELSE found
      t1 == [t EXCEPT !.se[found] = t.se[n]]
  IN  IF found = NULL THEN t
      ELSE IF t.child[n, LEFT] # NULL \/ t.child[n, RIGHT] # NULL
      THEN RemoveWithChild(t1, n)
      ELSE RemoveLeaf(t1, n)

-----------------------------------------------------------------------------
(* The specification.  Addresses are only compared for equality, so trees  *)
(* that differ in the names of their nodes behave alike: after each call   *)
(* the nodes are named by their places in the in-order walk.  A tree that  *)
(* is no tree, because a node is lost, shared or freed, is left as it is.  *)

\* The nodes below n, in the order of an in-order walk.
RECURSIVE InOrder(_, _)
InOrder(t, n) ==
  IF n = NULL THEN <<>>
  ELSE InOrder(t, t.child[n, LEFT]) \o <<n>> \o InOrder(t, t.child[n, RIGHT])

Renamed(t) ==
  LET w == InOrder(t, t.root)
      at(n) == IF n = NULL THEN NULL ELSE CHOOSE i \in 1 .. Len(w) : w[i] = n
      field(f, n) == IF n <= Len(w) THEN f[w[n]] ELSE NULL
  IN  IF /\ {w[i] : i \in 1 .. Len(w)} = t.used
         /\ Len(w) = Cardinality(t.used)
         /\ t.leftmost \in t.used \cup {NULL}
         /\ \A n \in t.used : t.parent[n] \in t.used \cup {NULL}
      THEN [root |-> at(t.root), leftmost |-> at(t.leftmost), used |-> 1 .. Len(w),
            child |-> [x \in RbNodes \X Dirs |->
                         IF x[1] <= Len(w) THEN at(t.child[w[x[1]], x[2]]) ELSE NULL],
            parent |-> [n \in RbNodes |-> at(field(t.parent, n))],
            color |-> [n \in RbNodes |-> IF n <= Len(w) THEN t.color[w[n]] ELSE RED],
            se |-> [n \in RbNodes |-> field(t.se, n)]]
      ELSE t

RbInit ==
  /\ rb = [root |-> NULL, leftmost |-> NULL, used |-> {},
           child |-> [x \in RbNodes \X Dirs |-> NULL],
           parent |-> [n \in RbNodes |-> NULL],
           color |-> [n \in RbNodes |-> RED],
           se |-> [n \in RbNodes |-> NULL]]
  /\ queued = {}

RbInsert(se) ==
  /\ se \notin queued
  /\ RbNodes \ rb.used # {}
  /\ rb' = Renamed(rb_insert(rb, se))
  /\ queued' = queued \cup {se}

RbRemove(se) ==
  /\ se \in queued
  /\ rb' = Renamed(rb_remove(rb, se))
  /\ queued' = queued \ {se}

RbNext == \E se \in Entities : RbInsert(se) \/ RbRemove(se)

RbSpec == RbInit /\ [][RbNext]_rbVars

-----------------------------------------------------------------------------
(* Properties.                                                             *)

\* The numbers of black nodes on the ways from n down to a missing child.
RECURSIVE BlackHeights(_, _)
BlackHeights(t, n) ==
  IF n = NULL THEN {0}
  ELSE {h + (IF t.color[n] = BLACK THEN 1 ELSE 0) :
          h \in UNION {BlackHeights(t, t.child[n, d]) : d \in Dirs}}

\* The nodes in use are exactly those of the tree, each found once, and parent is
\* the inverse of child: no rotation loses a subtree or leaves a freed node in.
Shape(walk) ==
  /\ {walk[i] : i \in 1 .. Len(walk)} = rb.used
  /\ Len(walk) = Cardinality(rb.used)
  /\ rb.root # NULL => rb.parent[rb.root] = NULL
  /\ \A n \in rb.used, d \in Dirs : rb.child[n, d] # NULL => rb.parent[rb.child[n, d]] = n

\* No red node has a red child, and every way down meets the same number of black
\* nodes.  (The root may be red.)
Balanced ==
  /\ \A n \in rb.used, d \in Dirs :
       rb.child[n, d] # NULL => ~(rb.color[n] = RED /\ rb.color[rb.child[n, d]] = RED)
  /\ Cardinality(BlackHeights(rb, rb.root)) = 1

\* The keys ascend from left to right, and leftmost is the first node.
Ordered(walk) ==
  /\ \A i \in 1 .. Len(walk) - 1 :
       entity_key(rb.se[walk[i]]) <= entity_key(rb.se[walk[i + 1]])
  /\ rb.leftmost = IF walk = <<>> THEN NULL ELSE walk[1]

\* After any calls of rb_insert and rb_remove the nodes make up one red-black search
\* tree: each case of the two balancing loops keeps its pointers, colours and keys.
RedBlack == LET walk == InOrder(rb, rb.root) IN Shape(walk) /\ Balanced /\ Ordered(walk)

\* The comment in rb_remove (rb_tree.c:184), "se was not in the tree", where the
\* search ends at NULL: the search finds every entity that is queued.
RemoveFinds == \A se \in queued : Find(rb, rb.root, se) # NULL

Queue == INSTANCE RunQueue WITH
  NoEntity <- NULL,
  queue <- queued,
  first <- IF rb.leftmost = NULL THEN NULL ELSE rb.se[rb.leftmost]

\* The tree is the run queue that cfs.c takes it for: after any calls of rb_insert
\* and rb_remove, leftmost is an entity with the smallest key of all that were
\* inserted and not removed, and NULL only if there is none.
ImplementsQueue == Queue!Spec

=============================================================================
