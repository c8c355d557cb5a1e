-------------------------------- MODULE List --------------------------------
(***************************************************************************)
(* The intrusive circular lists of list.c, and the unlinking of a process  *)
(* in destroy_process (process.c).  A cell is the struct lst at the start  *)
(* of a page or of a proc_t; the list head is a cell of its own.  While a  *)
(* cell is not in the list its owner writes over it: a free page was a     *)
(* page of data.                                                           *)
(***************************************************************************)
EXTENDS Naturals, Sequences

CONSTANTS
  Nodes,   \* the cells that can be elements
  lst,     \* the head
  NoNode   \* nothing returned yet

ASSUME ListAssumption == lst \notin Nodes /\ NoNode \notin Nodes

VARIABLES
  next, prev,  \* the two pointers of every cell
  ret,         \* what the last lst_pop or lst_pop_end returned
  content      \* history: the elements the calls so far have left in the list

listVars == <<next, prev, ret, content>>

Cells == Nodes \cup {lst}

Deque == INSTANCE Deque

\* lst_init; what the other cells hold is what their owners left there.
ListInit ==
  /\ next \in {f \in [Cells -> Cells] : f[lst] = lst}
  /\ prev \in {f \in [Cells -> Cells] : f[lst] = lst}
  /\ content = <<>>
  /\ ret = NoNode

\* BUG: the old first element keeps pointing back to the head.
LstPushHalf(n) ==
  /\ next' = [next EXCEPT ![n] = next[lst], ![lst] = n]
  /\ prev' = [prev EXCEPT ![n] = lst]
  /\ UNCHANGED ret

LstPush(n) ==
  /\ next' = [next EXCEPT ![n] = next[lst], ![lst] = n]
  /\ prev' = [prev EXCEPT ![n] = lst, ![next[lst]] = n]
  /\ UNCHANGED ret

LstPushEnd(n) ==
  /\ prev' = [prev EXCEPT ![n] = prev[lst], ![lst] = n]
  /\ next' = [next EXCEPT ![n] = lst, ![prev[lst]] = n]
  /\ UNCHANGED ret

LstEmpty == next[lst] = lst

\* lst_pop panics on an empty list; its caller asks lst_empty first.
LstPop ==
  /\ ~LstEmpty
  /\ ret' = next[lst]
  /\ prev' = [prev EXCEPT ![next[next[lst]]] = lst]
  /\ next' = [next EXCEPT ![lst] = next[next[lst]]]

\* BUG: lst_pop_end returns the first element.
LstPopEndFirst ==
  /\ prev[lst] # lst
  /\ ret' = next[lst]
  /\ next' = [next EXCEPT ![prev[prev[lst]]] = lst]
  /\ prev' = [prev EXCEPT ![lst] = prev[prev[lst]]]

LstPopEnd ==
  /\ prev[lst] # lst
  /\ ret' = prev[lst]
  /\ next' = [next EXCEPT ![prev[prev[lst]]] = lst]
  /\ prev' = [prev EXCEPT ![lst] = prev[prev[lst]]]

\* The first two statements of destroy_process.
Unlink(n) ==
  /\ next' = [next EXCEPT ![prev[n]] = next[n]]
  /\ prev' = [prev EXCEPT ![next[n]] = prev[n]]
  /\ UNCHANGED ret

\* The owner of a cell that is not in the list writes over it.
Overwrite(n) ==
  /\ Deque!Absent(n)
  /\ \E p, q \in Cells : /\ next' = [next EXCEPT ![n] = p]
                         /\ prev' = [prev EXCEPT ![n] = q]
  /\ UNCHANGED <<ret, content>>

\* The pointer updates, each with what it is meant to do to the list.
ListNext ==
  \/ \E n \in Nodes : /\ Deque!Absent(n)
                      /\ \/ LstPush(n) /\ content' = <<n>> \o content
                         \/ LstPushEnd(n) /\ content' = Append(content, n)
  \/ LstPop /\ content' = Deque!Without(content, 1)
  \/ LstPopEnd /\ content' = Deque!Without(content, Len(content))
  \/ \E k \in 1 .. Len(content) :
       Unlink(content[k]) /\ content' = Deque!Without(content, k)
  \/ \E n \in Nodes : Overwrite(n)

ListSpec == ListInit /\ [][ListNext]_listVars

-----------------------------------------------------------------------------
(* Properties.                                                             *)

\* Every pointer is to a cell, and the list holds each element once.
ListTypeOK ==
  /\ next \in [Cells -> Cells]
  /\ prev \in [Cells -> Cells]
  /\ ret \in Nodes \cup {NoNode}
  /\ content \in Seq(Nodes)
  /\ \A i, j \in 1 .. Len(content) : content[i] = content[j] => i = j

\* The i-th cell of the ring, the head at both ends.
Cell(i) == IF i \in 1 .. Len(content) THEN content[i] ELSE lst

\* The pointers form one ring through the head and the elements, the same ring
\* in both directions, whatever unlinked cells hold.
Linked ==
  \A i \in 0 .. Len(content) :
    next[Cell(i)] = Cell(i + 1) /\ prev[Cell(i + 1)] = Cell(i)

\* What every pointer update preserves.
ListIInv == ListTypeOK /\ Linked

\* list.c implements the deque: what lst_pop and lst_pop_end return is the first
\* or the last element, and an element comes out once.
ImplementsDeque == Deque!Spec

=============================================================================
