------------------------------- MODULE Deque -------------------------------
(***************************************************************************)
(* What list.c promises: a sequence of distinct elements, extended and     *)
(* shortened at either end, from which any element can be taken.           *)
(***************************************************************************)
EXTENDS Naturals, Sequences

CONSTANTS Nodes, NoNode

VARIABLES
  content,  \* the elements, the one lst->next points to first
  ret       \* what the last lst_pop or lst_pop_end returned

\* s without its k-th element.
Without(s, k) == [i \in 1 .. Len(s) - 1 |-> IF i < k THEN s[i] ELSE s[i + 1]]

Absent(n) == \A i \in 1 .. Len(content) : content[i] # n

Init == content = <<>> /\ ret = NoNode

Push(n) == Absent(n) /\ content' = <<n>> \o content /\ UNCHANGED ret

PushEnd(n) == Absent(n) /\ content' = Append(content, n) /\ UNCHANGED ret

Pop ==
  /\ content # <<>>
  /\ ret' = content[1]
  /\ content' = Without(content, 1)

PopEnd ==
  /\ content # <<>>
  /\ ret' = content[Len(content)]
  /\ content' = Without(content, Len(content))

Unlink(k) ==
  /\ k \in 1 .. Len(content)
  /\ content' = Without(content, k)
  /\ UNCHANGED ret

Next ==
  \/ \E n \in Nodes : Push(n) \/ PushEnd(n)
  \/ Pop \/ PopEnd
  \/ \E k \in 1 .. Len(content) : Unlink(k)

Spec == Init /\ [][Next]_<<content, ret>>

=============================================================================
