--------------------------- MODULE ProcessProofs ----------------------------
(***************************************************************************)
(* Proofs about processes.                                                 *)
(*                                                                         *)
(* List, on which the list of processes is kept, for any set of cells: the *)
(* pointers form one ring through what the calls left in the list, and     *)
(* list.c implements Deque.                                                *)
(*                                                                         *)
(* Scheduler, for any number of processes and threads and whatever the     *)
(* vruntimes are: the thread arrays, the list of processes, the CPU and    *)
(* the run queue account for each other, cfs.running counts the queue, and *)
(* a thread runs in the address space of its process.                      *)
(***************************************************************************)
EXTENDS List, Scheduler, FiniteSetTheorems, SequenceTheorems, TLAPS

-----------------------------------------------------------------------------
(* THE LIST.                                                               *)

USE ListAssumption

\* The cells of the ring are distinct, but for the head at its two ends.
LEMMA CellFacts ==
  ASSUME ListTypeOK
  PROVE  /\ Len(content) \in Nat
         /\ \A i \in Int : Cell(i) \in Cells
         /\ Cell(0) = lst /\ Cell(Len(content) + 1) = lst
         /\ \A i \in 1 .. Len(content) : Cell(i) = content[i] /\ content[i] \in Nodes
         /\ \A i, j \in 0 .. Len(content) : Cell(i) = Cell(j) => i = j
         /\ \A i, j \in 1 .. Len(content) + 1 : Cell(i) = Cell(j) => i = j
<1>1. Len(content) \in Nat /\ \A i \in 1 .. Len(content) : content[i] \in Nodes
  BY LenProperties, ElementOfSeq, Zenon DEF ListTypeOK
<1>2. \A i \in Int : Cell(i) \in Cells
  BY <1>1, Zenon DEF Cell, Cells
<1>3. Cell(0) = lst /\ Cell(Len(content) + 1) = lst
  BY <1>1 DEF Cell
<1>4. \A i \in 1 .. Len(content) : Cell(i) = content[i] /\ Cell(i) # lst
  BY <1>1, Zenon DEF Cell
<1>5. \A i, j \in 1 .. Len(content) : Cell(i) = Cell(j) => i = j
  BY <1>4, Zenon DEF ListTypeOK
<1>6. \A i, j \in 0 .. Len(content) : Cell(i) = Cell(j) => i = j
  BY <1>1, <1>3, <1>4, <1>5
<1>7. \A i, j \in 1 .. Len(content) + 1 : Cell(i) = Cell(j) => i = j
  BY <1>1, <1>3, <1>4, <1>5
<1> QED
  BY <1>1, <1>2, <1>3, <1>4, <1>6, <1>7, Zenon

\* Linking a cell in behind the k-th cell keeps the ring.
LEMMA InsertLinked ==
  ASSUME ListIInv, NEW n \in Nodes, Deque!Absent(n), NEW k \in 0 .. Len(content),
         next' = [next EXCEPT ![n] = Cell(k + 1), ![Cell(k)] = n],
         prev' = [prev EXCEPT ![n] = Cell(k), ![Cell(k + 1)] = n],
         content' \in Seq(Nodes),
         Len(content') = Len(content) + 1,
         \A i \in 1 .. k : content'[i] = content[i],
         content'[k + 1] = n,
         \A i \in k + 1 .. Len(content) : content'[i + 1] = content[i],
         UNCHANGED ret
  PROVE  ListIInv'
<1> DEFINE m == Len(content)
<1>1. /\ m \in Nat /\ k \in 0 .. m
      /\ \A i \in Int : Cell(i) \in Cells
      /\ \A i, j \in 0 .. m : Cell(i) = Cell(j) => i = j
      /\ \A i, j \in 1 .. m + 1 : Cell(i) = Cell(j) => i = j
      /\ \A i \in 1 .. m : content[i] = Cell(i)
      /\ Cell(0) = lst /\ Cell(m + 1) = lst
  BY CellFacts, Zenon DEF ListIInv
<1>2. n \in Cells /\ \A i \in Int : Cell(i) # n
  BY <1>1, Zenon DEF Cell, Cells, Deque!Absent
<1>3. /\ next' \in [Cells -> Cells] /\ prev' \in [Cells -> Cells]
      /\ next'[n] = Cell(k + 1) /\ next'[Cell(k)] = n
      /\ prev'[n] = Cell(k) /\ prev'[Cell(k + 1)] = n
      /\ \A x \in Cells : x # n /\ x # Cell(k) => next'[x] = next[x]
      /\ \A x \in Cells : x # n /\ x # Cell(k + 1) => prev'[x] = prev[x]
  <2>1. PICK p \in Cells, q \in Cells : p = Cell(k) /\ q = Cell(k + 1) /\ p # n /\ q # n
    BY <1>1, <1>2
  <2>2. /\ next' = [next EXCEPT ![n] = q, ![p] = n] /\ next \in [Cells -> Cells]
        /\ prev' = [prev EXCEPT ![n] = p, ![q] = n] /\ prev \in [Cells -> Cells]
    BY <2>1, Zenon DEF ListIInv, ListTypeOK
  <2>3. /\ next' \in [Cells -> Cells] /\ next'[n] = q /\ next'[p] = n
        /\ \A x \in Cells : x # n /\ x # p => next'[x] = next[x]
    BY <1>2, <2>1, <2>2
  <2>4. /\ prev' \in [Cells -> Cells] /\ prev'[n] = p /\ prev'[q] = n
        /\ \A x \in Cells : x # n /\ x # q => prev'[x] = prev[x]
    BY <1>2, <2>1, <2>2
  <2> QED
    BY <2>1, <2>3, <2>4, Zenon
<1>4. /\ \A i \in 0 .. k : Cell(i)' = Cell(i)
      /\ Cell(k + 1)' = n
      /\ \A i \in k + 1 .. m + 1 : Cell(i + 1)' = Cell(i)
  <2>1. ASSUME NEW i \in 0 .. k PROVE Cell(i)' = Cell(i)
    BY <1>1 DEF Cell
  <2>2. Cell(k + 1)' = n
    BY <1>1 DEF Cell
  <2>3. ASSUME NEW i \in k + 1 .. m + 1 PROVE Cell(i + 1)' = Cell(i)
    BY <1>1 DEF Cell
  <2> QED
    BY <2>1, <2>2, <2>3, Zenon
<1> HIDE DEF m
<1>5. ASSUME NEW i \in 0 .. m + 1
      PROVE  next'[Cell(i)'] = Cell(i + 1)' /\ prev'[Cell(i + 1)'] = Cell(i)'
  <2>0. \A j \in 0 .. m : next[Cell(j)] = Cell(j + 1) /\ prev[Cell(j + 1)] = Cell(j)
    BY Zenon DEF ListIInv, Linked, m
  <2>1. CASE i < k
    <3>1. /\ i \in 0 .. m /\ i # k /\ i \in 0 .. k /\ i + 1 \in 0 .. k
          /\ i + 1 \in 1 .. m + 1 /\ k + 1 \in 1 .. m + 1 /\ i + 1 # k + 1
      BY <1>1, <2>1
    <3>2. Cell(i) # Cell(k) /\ Cell(i + 1) # Cell(k + 1)
      BY <1>1, <3>1, Zenon
    <3> QED
      BY <1>1, <1>2, <1>3, <1>4, <2>0, <3>1, <3>2
  <2>2. CASE i = k
    BY <1>1, <1>3, <1>4, <2>2
  <2>3. CASE i = k + 1
    BY <1>1, <1>3, <1>4, <2>3
  <2>4. CASE i > k + 1
    <3>1. PICK j \in Int : j = i - 1
      BY <1>1
    <3>2. /\ j \in 0 .. m /\ j # k /\ j \in k + 1 .. m + 1 /\ j + 1 \in k + 1 .. m + 1
          /\ j + 1 \in 1 .. m + 1 /\ k + 1 \in 1 .. m + 1 /\ j + 1 # k + 1
          /\ i = j + 1 /\ i + 1 = (j + 1) + 1
      BY <1>1, <2>4, <3>1
    <3>3. Cell(j) # Cell(k) /\ Cell(j + 1) # Cell(k + 1)
      BY <1>1, <3>2, Zenon
    <3>4. Cell(i)' = Cell(j) /\ Cell(i + 1)' = Cell(j + 1)
      BY <1>4, <3>2, Zenon
    <3> QED
      BY <1>1, <1>2, <1>3, <2>0, <3>2, <3>3, <3>4
  <2> QED
    BY <1>1, <2>1, <2>2, <2>3, <2>4
<1>6. Linked'
  <2>1. Len(content') = m + 1
    BY Zenon DEF m
  <2> QED
    BY <1>5, <2>1, Zenon DEF Linked
<1>7. \A i, j \in 1 .. Len(content') : content'[i] = content'[j] => i = j
  <2> SUFFICES ASSUME NEW i \in 1 .. m + 1, NEW j \in 1 .. m + 1, content'[i] = content'[j]
               PROVE  i = j
    BY Zenon DEF m
  <2>1. \A a \in 1 .. m : content[a] # n
    BY Zenon DEF Deque!Absent, m
  <2>2. ASSUME NEW a \in 1 .. m + 1
        PROVE  \/ a \in 1 .. k /\ content'[a] = content[a]
               \/ a = k + 1 /\ content'[a] = n
               \/ a - 1 \in k + 1 .. m /\ content'[a] = content[a - 1]
    <3>1. CASE a \in 1 .. k
      BY <3>1, Zenon
    <3>2. CASE a = k + 1
      BY <3>2, Zenon
    <3>3. CASE a - 1 \in k + 1 .. m
      BY <1>1, <3>3 DEF m
    <3> QED
      BY <1>1, <3>1, <3>2, <3>3
  <2>3. \A a, b \in 1 .. m : content[a] = content[b] => a = b
    BY Zenon DEF ListIInv, ListTypeOK, m
  <2>4. CASE i = k + 1 \/ j = k + 1
    <3>1. ASSUME NEW a \in 1 .. m + 1, a # k + 1 PROVE content'[a] # n
      <4>1. CASE a \in 1 .. k /\ content'[a] = content[a]
        BY <1>1, <2>1, <4>1
      <4>2. CASE a - 1 \in k + 1 .. m /\ content'[a] = content[a - 1]
        BY <1>1, <2>1, <4>2
      <4> QED
        BY <2>2, <3>1, <4>1, <4>2, Zenon
    <3> QED
      BY <2>4, <3>1, Zenon
  <2>5. CASE i # k + 1 /\ j # k + 1
    <3>1. PICK a \in 1 .. m : content'[i] = content[a] /\ a = IF i <= k THEN i ELSE i - 1
      BY <1>1, <2>2, <2>5
    <3>2. PICK b \in 1 .. m : content'[j] = content[b] /\ b = IF j <= k THEN j ELSE j - 1
      BY <1>1, <2>2, <2>5
    <3>3. a = b
      <4>1. content'[i] = content[a] /\ content'[j] = content[b]
        BY <3>1, <3>2, Zenon
      <4>2. content[a] = content[b]
        BY <4>1, Zenon
      <4> QED
        BY <2>3, <4>2, Zenon
    <3> QED
      BY <1>1, <2>5, <3>1, <3>2, <3>3
  <2> QED
    BY <2>4, <2>5, Zenon
<1> QED
  BY <1>3, <1>6, <1>7, Zenon DEF ListIInv, ListTypeOK

\* Linking the neighbours of the k-th cell to each other keeps the ring.
LEMMA RemoveLinked ==
  ASSUME ListIInv, NEW k \in 1 .. Len(content),
         next' = [next EXCEPT ![Cell(k - 1)] = Cell(k + 1)],
         prev' = [prev EXCEPT ![Cell(k + 1)] = Cell(k - 1)],
         content' = Deque!Without(content, k),
         ret' \in Nodes \cup {NoNode}
  PROVE  ListIInv'
<1> DEFINE m == Len(content)
<1>1. /\ m \in Nat /\ k \in 1 .. m
      /\ \A i \in Int : Cell(i) \in Cells
      /\ \A i, j \in 0 .. m : Cell(i) = Cell(j) => i = j
      /\ \A i, j \in 1 .. m + 1 : Cell(i) = Cell(j) => i = j
      /\ \A i \in 1 .. m : content[i] = Cell(i) /\ content[i] \in Nodes
      /\ Cell(0) = lst /\ Cell(m + 1) = lst
  BY CellFacts, Zenon DEF ListIInv
<1>2. PICK p \in Cells, q \in Cells : p = Cell(k - 1) /\ q = Cell(k + 1)
  BY <1>1
<1>3. /\ next' \in [Cells -> Cells] /\ prev' \in [Cells -> Cells]
      /\ next'[p] = q /\ prev'[q] = p
      /\ \A x \in Cells : x # p => next'[x] = next[x]
      /\ \A x \in Cells : x # q => prev'[x] = prev[x]
  BY <1>2, Zenon DEF ListIInv, ListTypeOK
<1>4. /\ content' \in Seq(Nodes) /\ Len(content') = m - 1
      /\ \A i \in 1 .. m - 1 : content'[i] = IF i < k THEN content[i] ELSE content[i + 1]
  <2>1. m - 1 \in Nat /\ \A i \in 1 .. m - 1 : i \in 1 .. m /\ i + 1 \in 1 .. m
    BY <1>1
  <2>2. content' = [i \in 1 .. m - 1 |-> IF i < k THEN content[i] ELSE content[i + 1]]
    BY Zenon DEF Deque!Without, m
  <2> HIDE DEF m
  <2>3. \A i \in 1 .. m - 1 : (IF i < k THEN content[i] ELSE content[i + 1]) \in Nodes
    BY <1>1, <2>1, Zenon
  <2>4. content' \in [1 .. m - 1 -> Nodes]
    BY <2>2, <2>3, Zenon
  <2>5. content' \in Seq(Nodes)
    BY <2>1, <2>4
  <2>6. Len(content') = m - 1
    BY <2>1, <2>4, <2>5
  <2>7. \A i \in 1 .. m - 1 : content'[i] = IF i < k THEN content[i] ELSE content[i + 1]
    BY <2>2, Zenon
  <2> QED
    BY <2>5, <2>6, <2>7, Zenon
<1>5. /\ \A i \in 0 .. k - 1 : Cell(i)' = Cell(i)
      /\ \A i \in k .. m : Cell(i)' = Cell(i + 1)
  <2>1. ASSUME NEW i \in 0 .. k - 1 PROVE Cell(i)' = Cell(i)
    <3>1. CASE i = 0
      BY <1>1, <1>4, <3>1 DEF Cell
    <3>2. CASE i \in 1 .. k - 1
      <4>1. i \in 1 .. m - 1 /\ i \in 1 .. m /\ i < k
        BY <1>1, <3>2
      <4> QED
        BY <1>4, <4>1, Zenon DEF Cell
    <3> QED
      BY <1>1, <3>1, <3>2
  <2>2. ASSUME NEW i \in k .. m PROVE Cell(i)' = Cell(i + 1)
    <3>1. CASE i = m
      <4>1. i \notin 1 .. m - 1 /\ i + 1 = m + 1
        BY <1>1, <3>1
      <4> QED
        BY <1>1, <1>4, <4>1, Zenon DEF Cell
    <3>2. CASE i \in k .. m - 1
      <4>1. i \in 1 .. m - 1 /\ i + 1 \in 1 .. m /\ ~(i < k)
        BY <1>1, <3>2
      <4> QED
        BY <1>4, <4>1, Zenon DEF Cell
    <3> QED
      BY <1>1, <3>1, <3>2
  <2> QED
    BY <2>1, <2>2, Zenon
<1> HIDE DEF m
<1>6. ASSUME NEW i \in 0 .. m - 1
      PROVE  next'[Cell(i)'] = Cell(i + 1)' /\ prev'[Cell(i + 1)'] = Cell(i)'
  <2>0. \A j \in 0 .. m : next[Cell(j)] = Cell(j + 1) /\ prev[Cell(j + 1)] = Cell(j)
    BY Zenon DEF ListIInv, Linked, m
  <2>1. CASE i < k - 1
    <3>1. /\ i \in 0 .. m /\ k - 1 \in 0 .. m /\ i # k - 1 /\ i \in 0 .. k - 1
          /\ i + 1 \in 0 .. k - 1 /\ i + 1 \in 1 .. m + 1 /\ k + 1 \in 1 .. m + 1
          /\ i + 1 # k + 1
      BY <1>1, <2>1
    <3>2. Cell(i) # p /\ Cell(i + 1) # q
      BY <1>1, <1>2, <3>1, Zenon
    <3> QED
      BY <1>1, <1>3, <1>5, <2>0, <3>1, <3>2
  <2>2. CASE i = k - 1
    <3>1. i \in 0 .. k - 1 /\ i + 1 \in k .. m /\ i + 1 = k
      BY <1>1, <2>2
    <3> QED
      BY <1>2, <1>3, <1>5, <2>2, <3>1
  <2>3. CASE i >= k
    <3>1. PICK j \in Int : j = i + 1
      BY <1>1
    <3>2. /\ j \in 0 .. m /\ k - 1 \in 0 .. m /\ j # k - 1
          /\ j + 1 \in 1 .. m + 1 /\ k + 1 \in 1 .. m + 1 /\ j + 1 # k + 1
          /\ i \in k .. m /\ i + 1 \in k .. m
      BY <1>1, <2>3, <3>1
    <3>3. Cell(j) # p /\ Cell(j + 1) # q
      BY <1>1, <1>2, <3>2, Zenon
    <3>4. Cell(i)' = Cell(j) /\ Cell(i + 1)' = Cell(j + 1)
      BY <1>5, <3>1, <3>2, Zenon
    <3> QED
      BY <1>1, <1>3, <2>0, <3>2, <3>3, <3>4
  <2> QED
    BY <1>1, <2>1, <2>2, <2>3
<1>7. Linked'
  BY <1>4, <1>6, Zenon DEF Linked
<1>8. \A i, j \in 1 .. Len(content') : content'[i] = content'[j] => i = j
  <2> SUFFICES ASSUME NEW i \in 1 .. m - 1, NEW j \in 1 .. m - 1, content'[i] = content'[j]
               PROVE  i = j
    BY <1>4, Zenon
  <2>1. \A a, b \in 1 .. m : content[a] = content[b] => a = b
    BY Zenon DEF ListIInv, ListTypeOK, m
  <2>2. PICK a \in 1 .. m : content'[i] = content[a] /\ a = IF i < k THEN i ELSE i + 1
    BY <1>1, <1>4
  <2>3. PICK b \in 1 .. m : content'[j] = content[b] /\ b = IF j < k THEN j ELSE j + 1
    BY <1>1, <1>4
  <2>4. a = b
    BY <2>1, <2>2, <2>3, Zenon
  <2> QED
    BY <1>1, <2>2, <2>3, <2>4
<1> QED
  BY <1>3, <1>4, <1>7, <1>8, Zenon DEF ListIInv, ListTypeOK

-----------------------------------------------------------------------------

\* The head's neighbours are the first and the last element, if there is one.
LEMMA Ends ==
  ASSUME ListIInv
  PROVE  /\ Len(content) \in Nat
         /\ next[lst] = Cell(1) /\ prev[lst] = Cell(Len(content))
         /\ next[lst] = lst <=> content = <<>>
         /\ prev[lst] = lst <=> content = <<>>
         /\ content # <<>> =>
              /\ 1 \in 1 .. Len(content) /\ Len(content) \in 1 .. Len(content)
              /\ next[lst] = content[1] /\ prev[lst] = content[Len(content)]
<1>1. /\ Len(content) \in Nat
      /\ Cell(0) = lst /\ Cell(Len(content) + 1) = lst
      /\ \A i \in 1 .. Len(content) : Cell(i) = content[i] /\ content[i] \in Nodes
  BY CellFacts, Zenon DEF ListIInv
<1>2. next[lst] = Cell(1) /\ prev[lst] = Cell(Len(content))
  <2>1. 0 \in 0 .. Len(content) /\ Len(content) \in 0 .. Len(content)
    BY <1>1
  <2>2. next[Cell(0)] = Cell(0 + 1) /\ prev[Cell(Len(content) + 1)] = Cell(Len(content))
    BY <2>1, Zenon DEF ListIInv, Linked
  <2> QED
    BY <1>1, <2>2
<1>3. content = <<>> <=> Len(content) = 0
  BY EmptySeq, Zenon DEF ListIInv, ListTypeOK
<1>4. CASE Len(content) = 0
  BY <1>1, <1>2, <1>3, <1>4
<1>5. CASE Len(content) # 0
  <2>1. 1 \in 1 .. Len(content) /\ Len(content) \in 1 .. Len(content)
    BY <1>1, <1>5
  <2> QED
    BY <1>1, <1>2, <1>3, <1>5, <2>1, Zenon
<1> QED
  BY <1>4, <1>5, Zenon

\* Every call, and every write over an unlinked cell, keeps the ring.
LEMMA ListNextPreserves == ListIInv /\ [ListNext]_listVars => ListIInv'
<1> SUFFICES ASSUME ListIInv, [ListNext]_listVars PROVE ListIInv'
  BY Zenon
<1>1. /\ Len(content) \in Nat
      /\ Cell(0) = lst /\ Cell(Len(content) + 1) = lst
      /\ \A i \in 1 .. Len(content) : Cell(i) = content[i] /\ content[i] \in Nodes
      /\ \A i \in 0 .. Len(content) :
           next[Cell(i)] = Cell(i + 1) /\ prev[Cell(i + 1)] = Cell(i)
  BY CellFacts, Zenon DEF ListIInv, Linked
<1>2. ASSUME NEW n \in Nodes, Deque!Absent(n), LstPush(n), content' = <<n>> \o content
      PROVE  ListIInv'
  <2>1. /\ 0 \in 0 .. Len(content) /\ 0 + 1 = 1
        /\ next' = [next EXCEPT ![n] = Cell(0 + 1), ![Cell(0)] = n]
        /\ prev' = [prev EXCEPT ![n] = Cell(0), ![Cell(0 + 1)] = n]
        /\ UNCHANGED ret
    <3>1. 0 + 1 = 1 /\ 0 \in 0 .. Len(content)
      BY <1>1
    <3>2. next[lst] = Cell(0 + 1) /\ lst = Cell(0)
      BY <1>1, <3>1, Ends, Zenon
    <3> QED
      BY <1>2, <3>1, <3>2, Zenon DEF LstPush
  <2>2. /\ content' \in Seq(Nodes) /\ Len(content') = Len(content) + 1
        /\ content'[0 + 1] = n
        /\ \A i \in 0 + 1 .. Len(content) : content'[i + 1] = content[i]
    BY <1>2 DEF ListIInv, ListTypeOK
  <2>3. \A i \in 1 .. 0 : content'[i] = content[i]
    OBVIOUS
  <2> QED
    BY <1>2, <2>1, <2>2, <2>3, InsertLinked, Zenon
<1>3. ASSUME NEW n \in Nodes, Deque!Absent(n), LstPushEnd(n), content' = Append(content, n)
      PROVE  ListIInv'
  <2>1. PICK k \in 0 .. Len(content) : k = Len(content)
    BY <1>1
  <2>2. /\ next' = [next EXCEPT ![n] = Cell(k + 1), ![Cell(k)] = n]
        /\ prev' = [prev EXCEPT ![n] = Cell(k), ![Cell(k + 1)] = n]
        /\ UNCHANGED ret
    BY <1>1, <1>3, <2>1, Ends, Zenon DEF LstPushEnd
  <2>3. /\ content' \in Seq(Nodes) /\ Len(content') = Len(content) + 1
        /\ content'[k + 1] = n
        /\ \A i \in 1 .. k : content'[i] = content[i]
    BY <1>3, <2>1, AppendProperties DEF ListIInv, ListTypeOK
  <2>4. \A i \in k + 1 .. Len(content) : content'[i + 1] = content[i]
    BY <1>1, <2>1
  <2> QED
    BY <1>3, <2>2, <2>3, <2>4, InsertLinked, Zenon
<1>4. ASSUME LstPop, content' = Deque!Without(content, 1) PROVE ListIInv'
  <2>1. content # <<>>
    BY <1>4, Ends, Zenon DEF LstPop, LstEmpty
  <2>2. 1 \in 1 .. Len(content) /\ 1 \in 0 .. Len(content) /\ 1 - 1 = 0
    BY <1>1, <2>1, Ends
  <2>3. /\ next' = [next EXCEPT ![Cell(1 - 1)] = Cell(1 + 1)]
        /\ prev' = [prev EXCEPT ![Cell(1 + 1)] = Cell(1 - 1)]
        /\ ret' \in Nodes
    <3>1. next[lst] = Cell(1) /\ next[Cell(1)] = Cell(1 + 1) /\ Cell(1 - 1) = lst
      BY <1>1, <2>2, Ends, Zenon
    <3>2. Cell(1) \in Nodes
      BY <1>1, <2>2, Zenon
    <3> QED
      BY <1>4, <3>1, <3>2, Zenon DEF LstPop
  <2> QED
    BY <1>4, <2>2, <2>3, RemoveLinked, Zenon
<1>5. ASSUME LstPopEnd, content' = Deque!Without(content, Len(content)) PROVE ListIInv'
  <2>1. content # <<>>
    BY <1>5, Ends, Zenon DEF LstPopEnd
  <2>2. PICK k \in 1 .. Len(content) : k = Len(content)
    BY <2>1, Ends, Zenon
  <2>3. k - 1 \in 0 .. Len(content) /\ (k - 1) + 1 = k
    BY <1>1, <2>2
  <2>4. /\ next' = [next EXCEPT ![Cell(k - 1)] = Cell(k + 1)]
        /\ prev' = [prev EXCEPT ![Cell(k + 1)] = Cell(k - 1)]
        /\ ret' \in Nodes
    <3>1. prev[lst] = Cell(k) /\ prev[Cell(k)] = Cell(k - 1) /\ Cell(k + 1) = lst
      BY <1>1, <2>2, <2>3, Ends, Zenon
    <3>2. Cell(k) \in Nodes
      BY <1>1, <2>2, Zenon
    <3> QED
      BY <1>5, <3>1, <3>2, Zenon DEF LstPopEnd
  <2> QED
    BY <1>5, <2>2, <2>4, RemoveLinked, Zenon
<1>6. ASSUME NEW k \in 1 .. Len(content), Unlink(content[k]),
             content' = Deque!Without(content, k)
      PROVE  ListIInv'
  <2>1. k \in 0 .. Len(content) /\ k - 1 \in 0 .. Len(content) /\ (k - 1) + 1 = k
    BY <1>1
  <2>2. /\ next[content[k]] = Cell(k + 1) /\ prev[content[k]] = Cell(k - 1)
    BY <1>1, <2>1, Zenon
  <2>3. /\ next' = [next EXCEPT ![Cell(k - 1)] = Cell(k + 1)]
        /\ prev' = [prev EXCEPT ![Cell(k + 1)] = Cell(k - 1)]
        /\ ret' \in Nodes \cup {NoNode}
    BY <1>6, <2>2, Zenon DEF Unlink, ListIInv, ListTypeOK
  <2> QED
    BY <1>6, <2>3, RemoveLinked, Zenon
<1>7. ASSUME NEW n \in Nodes, Overwrite(n) PROVE ListIInv'
  <2>1. /\ next' \in [Cells -> Cells] /\ prev' \in [Cells -> Cells]
        /\ UNCHANGED <<ret, content>>
        /\ \A x \in Cells : x # n => next'[x] = next[x] /\ prev'[x] = prev[x]
    <3>1. PICK p \in Cells, q \in Cells : /\ next' = [next EXCEPT ![n] = p]
                                          /\ prev' = [prev EXCEPT ![n] = q]
      BY <1>7, Zenon DEF Overwrite
    <3>2. UNCHANGED <<ret, content>>
      BY <1>7, Zenon DEF Overwrite
    <3> QED
      BY <3>1, <3>2, Zenon DEF ListIInv, ListTypeOK
  <2>2. \A i \in Int : Cell(i)' = Cell(i) /\ Cell(i) \in Cells
    BY <2>1, CellFacts, Zenon DEF Cell, ListIInv
  <2>3. \A i \in Int : Cell(i) # n
    BY <1>7, Zenon DEF Overwrite, Deque!Absent, Cell
  <2>4. Linked'
    <3> SUFFICES ASSUME NEW i \in 0 .. Len(content)
                 PROVE  next'[Cell(i)] = Cell(i + 1) /\ prev'[Cell(i + 1)] = Cell(i)
      BY <1>1, <2>1, <2>2 DEF Linked
    <3>1. i \in Int /\ i + 1 \in Int
      BY <1>1
    <3> QED
      BY <1>1, <2>1, <2>2, <2>3, <3>1, Zenon
  <2> QED
    BY <2>1, <2>4, Zenon DEF ListIInv, ListTypeOK
<1>8. CASE UNCHANGED listVars
  BY <1>8 DEF listVars, ListIInv, ListTypeOK, Linked, Cell
<1> QED
  BY <1>2, <1>3, <1>4, <1>5, <1>6, <1>7, <1>8, Zenon DEF ListNext

LEMMA ListInitEstablishes == ListInit => ListIInv
<1> SUFFICES ASSUME ListInit PROVE ListIInv
  BY Zenon
<1>1. content = <<>> /\ Len(content) = 0
  BY Zenon DEF ListInit
<1>2. Linked
  BY <1>1 DEF ListInit, Linked, Cell
<1>3. ListTypeOK
  BY <1>1 DEF ListInit, ListTypeOK
<1> QED
  BY <1>2, <1>3, Zenon DEF ListIInv

\* The pointers of list.c always form one ring through the elements.
THEOREM ListInvariance == ListSpec => []ListIInv
  BY ListInitEstablishes, ListNextPreserves, PTL DEF ListSpec

\* The ring of pointers is exactly what the calls so far have left in the list,
\* in both directions.
THEOREM AlwaysLinked == ListSpec => []Linked
<1>1. ListIInv => Linked
  BY Zenon DEF ListIInv
<1> QED
  BY <1>1, ListInvariance, PTL

\* list.c implements a double-ended queue.
THEOREM ListImplements == ListSpec => ImplementsDeque
<1>1. ListInit => Deque!Init
  BY Zenon DEF ListInit, Deque!Init
<1>2. ListIInv /\ [ListNext]_listVars => [Deque!Next]_<<content, ret>>
  <2> SUFFICES ASSUME ListIInv, [ListNext]_listVars, ~UNCHANGED <<content, ret>>
               PROVE  Deque!Next
    BY Zenon
  <2>1. CASE \E n \in Nodes : /\ Deque!Absent(n)
                              /\ \/ LstPush(n) /\ content' = <<n>> \o content
                                 \/ LstPushEnd(n) /\ content' = Append(content, n)
    BY <2>1, Zenon DEF LstPush, LstPushEnd, Deque!Next, Deque!Push, Deque!PushEnd
  <2>2. CASE LstPop /\ content' = Deque!Without(content, 1)
    BY <2>2, Ends, Zenon DEF LstPop, LstEmpty, Deque!Next, Deque!Pop
  <2>3. CASE LstPopEnd /\ content' = Deque!Without(content, Len(content))
    BY <2>3, Ends, Zenon DEF LstPopEnd, Deque!Next, Deque!PopEnd
  <2>4. CASE \E k \in 1 .. Len(content) :
               Unlink(content[k]) /\ content' = Deque!Without(content, k)
    BY <2>4, Zenon DEF Unlink, Deque!Next, Deque!Unlink
  <2>5. CASE UNCHANGED listVars \/ \E n \in Nodes : Overwrite(n)
    BY <2>5, Zenon DEF listVars, Overwrite
  <2> QED
    BY <2>1, <2>2, <2>3, <2>4, <2>5, Zenon DEF ListNext
<1> QED
  BY <1>1, <1>2, ListInvariance, PTL DEF ListSpec, ImplementsDeque, Deque!Spec

HIDE ListAssumption

-----------------------------------------------------------------------------
(* THE SCHEDULER.                                                          *)

USE SchedulerAssumption

Elements(s) == {s[i] : i \in 1 .. Len(s)}

Unique(s) == \A i, j \in 1 .. Len(s) : s[i] = s[j] => i = j

TypeOK ==
  /\ process_list \subseteq Procs /\ run \subseteq process_list
  /\ threads \in [Procs -> Seq(Threads)]
  /\ proc \in [Threads -> Procs \cup {NULL}]
  /\ DOMAIN state = Threads
  /\ fresh \subseteq Threads /\ queue \subseteq Threads
  /\ thread \in Threads \cup {NULL, idle_t}

\* A thread_t that was never allocated belongs to no process.
FreshFree == \A t \in fresh : proc[t] = NULL

\* What every step preserves.
IInv == TypeOK /\ FreshFree /\ Accounted /\ OwnAddressSpace

-----------------------------------------------------------------------------
(* The thread arrays.                                                      *)

\* add puts a thread that is not in the array behind the others.
LEMMA AddElement ==
  ASSUME NEW s \in Seq(Threads), NEW t \in Threads, Unique(s), t \notin Elements(s)
  PROVE  /\ Append(s, t) \in Seq(Threads) /\ Append(s, t) # <<>>
         /\ Elements(Append(s, t)) = Elements(s) \cup {t}
         /\ Unique(Append(s, t))
<1>1. /\ Append(s, t) \in Seq(Threads) /\ Len(Append(s, t)) = Len(s) + 1 /\ Len(s) \in Nat
      /\ \A i \in 1 .. Len(s) : Append(s, t)[i] = s[i]
      /\ Append(s, t)[Len(s) + 1] = t
  OBVIOUS
<1>2. 1 .. Len(s) + 1 = (1 .. Len(s)) \cup {Len(s) + 1}
  BY <1>1
<1>3. Elements(Append(s, t)) = Elements(s) \cup {t}
  BY <1>1, <1>2 DEF Elements
<1>4. Unique(Append(s, t))
  BY <1>1, <1>2 DEF Elements, Unique
<1>5. Append(s, t) # <<>>
  BY <1>1
<1> QED
  BY <1>1, <1>3, <1>4, <1>5, Zenon

\* remove_el takes one thread out of the array and leaves the others.
LEMMA RemoveElement ==
  ASSUME NEW s \in Seq(Threads), NEW t \in Elements(s), Unique(s)
  PROVE  /\ remove_el(s, t) \in Seq(Threads)
         /\ Elements(remove_el(s, t)) = Elements(s) \ {t}
         /\ Unique(remove_el(s, t))
<1>1. PICK k \in 1 .. Len(s) : s[k] = t
  BY Zenon DEF Elements
<1>2. {i \in 1 .. Len(s) : s[i] = t} = {k}
  BY <1>1, Zenon DEF Unique
<1>3. Min({k}) = k
  BY <1>1 DEF Min
<1>4. remove_el(s, t) = remove(s, k)
  BY <1>2, <1>3, Zenon DEF remove_el
<1> DEFINE r == remove(s, k)
<1>5. Len(s) \in Nat /\ k \in Nat /\ Len(s) - 1 \in Nat /\ \A i \in 1 .. Len(s) : s[i] \in Threads
  BY <1>1
<1>6. r = [i \in 1 .. Len(s) - 1 |-> IF i < k THEN s[i] ELSE s[i + 1]]
  BY Zenon DEF remove
<1>7. \A i \in 1 .. Len(s) - 1 : (IF i < k THEN s[i] ELSE s[i + 1]) \in Threads
  BY <1>5
<1>8. r \in Seq(Threads) /\ Len(r) = Len(s) - 1
  BY <1>5, <1>6, <1>7
<1>9. \A i \in 1 .. Len(s) - 1 : r[i] = IF i < k THEN s[i] ELSE s[i + 1]
  BY <1>6, Zenon
<1>10. Elements(r) = Elements(s) \ {t}
  <2>1. ASSUME NEW u \in Elements(r) PROVE u \in Elements(s) /\ u # t
    <3>1. PICK i \in 1 .. Len(s) - 1 : r[i] = u
      BY <2>1, <1>8, Zenon DEF Elements
    <3>2. CASE i < k
      BY <3>1, <3>2, <1>1, <1>5, <1>9 DEF Elements, Unique
    <3>3. CASE i >= k
      BY <3>1, <3>3, <1>1, <1>5, <1>9 DEF Elements, Unique
    <3> QED
      BY <3>2, <3>3, <3>1, <1>5
  <2>2. ASSUME NEW u \in Elements(s), u # t PROVE u \in Elements(r)
    <3>1. PICK i \in 1 .. Len(s) : s[i] = u
      BY <2>2, Zenon DEF Elements
    <3>2. CASE i < k
      <4>1. i \in 1 .. Len(r) /\ r[i] = u
        BY <3>1, <3>2, <1>1, <1>5, <1>8, <1>9
      <4> QED
        BY <4>1, Zenon DEF Elements
    <3>3. CASE i > k
      <4>1. i - 1 \in 1 .. Len(r) /\ ~(i - 1 < k) /\ (i - 1) + 1 = i
        BY <3>1, <3>3, <1>1, <1>5, <1>8
      <4>2. r[i - 1] = u
        BY <4>1, <3>1, <1>8, <1>9, Zenon
      <4> QED
        BY <4>1, <4>2, Zenon DEF Elements
    <3> QED
      BY <2>2, <3>1, <3>2, <3>3, <1>1, <1>5
  <2> QED
    BY <2>1, <2>2, Zenon
<1>11. Unique(r)
  BY <1>1, <1>5, <1>8, <1>9 DEF Unique
<1> QED
  BY <1>4, <1>8, <1>10, <1>11, Zenon

\* An array without repetitions is as long as it has elements.
LEMMA CountElements ==
  ASSUME NEW s \in Seq(Threads), Unique(s)
  PROVE  Cardinality(Elements(s)) = Len(s)
<1> DEFINE f == [i \in 1 .. Len(s) |-> s[i]]
<1>1. f \in Bijection(1 .. Len(s), Elements(s))
  BY Zenon DEF Elements, Unique, Bijection, Injection, Surjection, IsInjective
<1>2. ExistsBijection(1 .. Len(s), Elements(s))
  BY <1>1, Zenon DEF ExistsBijection
<1>3. Len(s) \in Nat
  OBVIOUS
<1> QED
  BY <1>2, <1>3, FS_CountingElements, Zenon

-----------------------------------------------------------------------------
(* The steps.                                                              *)

LEMMA InitIInv == Init => IInv
<1> SUFFICES ASSUME Init PROVE IInv
  BY Zenon
<1>1. TypeOK /\ FreshFree /\ OwnAddressSpace
  BY DEF Init, TypeOK, FreshFree, OwnAddressSpace
<1>2. Populated /\ Places
  BY DEF Init, Populated, Places, Live
<1>3. running = Cardinality(queue)
  BY FS_EmptySet, Zenon DEF Init
<1> QED
  BY <1>1, <1>2, <1>3, Zenon DEF IInv, Accounted

\* A process gains a thread that was never allocated before.
LEMMA AddStep ==
  ASSUME IInv, NEW p \in Procs, NEW t \in Threads, add_thread(p, t),
         process_list' = process_list \cup {p},
         run' = run, p \notin run
  PROVE  /\ threads' \in [Procs -> Seq(Threads)] /\ proc' \in [Threads -> Procs \cup {NULL}]
         /\ FreshFree' /\ Populated'
         /\ {u \in Live : proc[u] \in run}' = {u \in Live : proc[u] \in run}
         /\ t \notin Live
<1>1. proc[t] = NULL /\ t \notin Live
  BY Zenon DEF IInv, FreshFree, Live, add_thread
<1>2. proc' = [proc EXCEPT ![t] = p] /\ proc' \in [Threads -> Procs \cup {NULL}]
  BY Zenon DEF IInv, TypeOK, add_thread
<1>3. threads[p] \in Seq(Threads) /\ Unique(threads[p]) /\ t \notin Elements(threads[p])
  BY <1>1 DEF IInv, TypeOK, Accounted, Populated, Unique, Elements
<1>4. threads' = [threads EXCEPT ![p] = Append(threads[p], t)]
  BY Zenon DEF add_thread
<1>5. /\ Append(threads[p], t) \in Seq(Threads) /\ Append(threads[p], t) # <<>>
      /\ Elements(Append(threads[p], t)) = Elements(threads[p]) \cup {t}
      /\ Unique(Append(threads[p], t))
  BY <1>3, AddElement, Zenon
<1>6. threads' \in [Procs -> Seq(Threads)]
  BY <1>4, <1>5, Zenon DEF IInv, TypeOK
<1>7. Live' = Live \cup {t}
  BY <1>2 DEF Live, IInv, TypeOK
<1>8. FreshFree'
  BY <1>2, Zenon DEF IInv, TypeOK, FreshFree, add_thread
<1>9. ASSUME NEW q \in Procs
      PROVE  /\ q \in process_list' <=> threads'[q] # <<>>
             /\ Elements(threads'[q]) = {u \in Live' : proc'[u] = q}
             /\ Unique(threads'[q])
  <2>1. /\ q \in process_list <=> threads[q] # <<>>
        /\ Elements(threads[q]) = {u \in Live : proc[u] = q}
        /\ Unique(threads[q])
    BY Zenon DEF IInv, Accounted, Populated, Elements, Unique
  <2>2. CASE q = p
    <3>1. threads'[q] = Append(threads[p], t)
      BY <1>4, <2>2, Zenon DEF IInv, TypeOK
    <3>2. {u \in Live' : proc'[u] = q} = {u \in Live : proc[u] = q} \cup {t}
      BY <1>1, <1>2, <1>7, <2>2, Zenon DEF IInv, TypeOK, Live
    <3> QED
      BY <1>5, <2>1, <2>2, <3>1, <3>2, Zenon
  <2>3. CASE q # p
    <3>1. threads'[q] = threads[q]
      BY <1>4, <2>3, Zenon DEF IInv, TypeOK
    <3>2. {u \in Live' : proc'[u] = q} = {u \in Live : proc[u] = q}
      BY <1>1, <1>2, <1>7, <2>3, Zenon DEF IInv, TypeOK, Live
    <3> QED
      BY <2>1, <2>3, <3>1, <3>2, Zenon
  <2> QED
    BY <2>2, <2>3, Zenon
<1>10. Populated'
  BY <1>9, Zenon DEF Populated, Elements, Unique
<1>11. {u \in Live : proc[u] \in run}' = {u \in Live : proc[u] \in run}
  BY <1>1, <1>2, <1>7, Zenon DEF Live, IInv, TypeOK
<1> QED
  BY <1>1, <1>2, <1>6, <1>8, <1>10, <1>11, Zenon

LEMMA CreateStep ==
  ASSUME IInv, NEW p \in Procs, NEW t \in Threads, CreateProcess(p, t) \/ AddThread(p, t)
  PROVE  IInv'
<1>1. /\ add_thread(p, t) /\ process_list' = process_list \cup {p}
      /\ run' = run /\ p \notin run
      /\ UNCHANGED <<queue, running, thread, vmm>>
      /\ cr3' = cr3 \/ cr3' = IF vmm = Kernel THEN p ELSE vmm
  BY Zenon DEF CreateProcess, AddThread, cfsVars, cpuVars, IInv, TypeOK
<1>2. /\ threads' \in [Procs -> Seq(Threads)] /\ proc' \in [Threads -> Procs \cup {NULL}]
      /\ FreshFree' /\ Populated'
      /\ {u \in Live : proc[u] \in run}' = {u \in Live : proc[u] \in run}
      /\ t \notin Live
  BY <1>1, AddStep, Zenon
<1>3. TypeOK'
  BY <1>1, <1>2, Zenon DEF IInv, TypeOK, add_thread
<1>4. Places' /\ running' = Cardinality(queue')
  BY <1>1, <1>2, Zenon DEF IInv, Accounted, Places
<1>5. OwnAddressSpace'
  <2>1. ASSUME thread \in Threads PROVE thread \in Live /\ proc'[thread] = proc[thread]
    <3>1. thread \in Live
      BY <2>1, Zenon DEF IInv, Accounted, Places
    <3> QED
      BY <1>1, <1>2, <3>1, <2>1, Zenon DEF add_thread, IInv, TypeOK
  <2>2. thread \in Threads => vmm # Kernel
    BY <2>1, Zenon DEF IInv, OwnAddressSpace, TypeOK
  <2> QED
    BY <1>1, <2>1, <2>2, Zenon DEF IInv, OwnAddressSpace
<1> QED
  BY <1>2, <1>3, <1>4, <1>5, Zenon DEF IInv, Accounted

\* run_proc queues the threads of a process, none of which is in the queue yet.
LEMMA RunStep ==
  ASSUME IInv, NEW p \in Procs, RunProc(p)
  PROVE  IInv'
<1> DEFINE S == Elements(threads[p])
<1>1. /\ p \in process_list /\ p \notin run /\ run' = run \cup {p} /\ queue' = queue \cup S
      /\ running' = running + Len(threads[p])
      /\ UNCHANGED <<process_list, threads, proc, fresh, state, thread, vmm, cr3>>
  BY Zenon DEF RunProc, Elements, cpuVars
<1>2. threads[p] \in Seq(Threads) /\ Unique(threads[p]) /\ S = {t \in Live : proc[t] = p}
  BY Zenon DEF IInv, TypeOK, Accounted, Populated, Elements, Unique
<1>3. S \cap (queue \cup {thread}) = {} /\ S \subseteq Threads
  <2>1. \A t \in S : t \in Threads /\ proc[t] = p
    BY <1>2, Zenon DEF Live
  <2> QED
    BY <1>1, <2>1, Zenon DEF IInv, Accounted, Places
<1>4. TypeOK' /\ FreshFree' /\ OwnAddressSpace' /\ Populated'
  BY <1>1, <1>3 DEF IInv, TypeOK, FreshFree, OwnAddressSpace, Accounted, Populated, Live
<1>5. Places'
  <2>1. Live' = Live /\ {t \in Live : proc[t] \in run'} = {t \in Live : proc[t] \in run} \cup S
    BY <1>1, <1>2, Zenon DEF Live
  <2> QED
    BY <1>1, <1>3, <2>1, Zenon DEF IInv, Accounted, Places
<1>6. running' = Cardinality(queue')
  <2>1. IsFiniteSet(queue) /\ IsFiniteSet(S)
    BY <1>3, FS_Subset, Zenon DEF IInv, TypeOK
  <2>2. Cardinality(queue \cup S) = Cardinality(queue) + Cardinality(S) - Cardinality(queue \cap S)
    BY <2>1, FS_Union, Zenon
  <2>3. Cardinality(queue \cap S) = 0
    <3>1. queue \cap S = {}
      BY <1>3, Zenon
    <3> QED
      BY <3>1, FS_EmptySet, Zenon
  <2>4. Cardinality(S) = Len(threads[p]) /\ Len(threads[p]) \in Nat /\ Cardinality(queue) \in Nat
    BY <1>2, <2>1, CountElements, FS_CardinalityType, Zenon
  <2> QED
    BY <1>1, <2>2, <2>3, <2>4 DEF IInv, Accounted
<1> QED
  BY <1>4, <1>5, <1>6, Zenon DEF IInv, Accounted

\* A dead thread leaves the array of its process; the process goes with the last.
LEMMA DestroyStep ==
  ASSUME IInv, thread \in Threads, destroy_thread(thread), fresh' = fresh
  PROVE  /\ threads' \in [Procs -> Seq(Threads)] /\ proc' \in [Threads -> Procs \cup {NULL}]
         /\ process_list' \subseteq Procs /\ run' \subseteq process_list'
         /\ FreshFree' /\ Populated'
         /\ {u \in Live : proc[u] \in run}' = {u \in Live : proc[u] \in run} \ {thread}
         /\ \A u \in queue : proc'[u] = proc[u] /\ proc[u] \in process_list'
<1> DEFINE p == proc[thread]
           rest == remove_el(threads[p], thread)
<1>1. thread \in Live /\ p \in process_list /\ p \in Procs /\ p \in run
  BY Zenon DEF IInv, TypeOK, OwnAddressSpace, Accounted, Places
<1>2. /\ threads' = [threads EXCEPT ![p] = rest]
      /\ proc' = [proc EXCEPT ![thread] = NULL]
      /\ process_list' = IF rest = <<>> THEN process_list \ {p} ELSE process_list
      /\ run' = IF rest = <<>> THEN run \ {p} ELSE run
  BY Zenon DEF destroy_thread
<1>3. threads[p] \in Seq(Threads) /\ Unique(threads[p]) /\ thread \in Elements(threads[p])
  BY <1>1 DEF IInv, TypeOK, Accounted, Populated, Elements, Unique
<1>4. rest \in Seq(Threads) /\ Elements(rest) = Elements(threads[p]) \ {thread} /\ Unique(rest)
  BY <1>3, RemoveElement, Zenon
<1>5. Live' = Live \ {thread}
  BY <1>2, Zenon DEF Live, IInv, TypeOK
<1>6. ASSUME NEW q \in Procs
      PROVE  /\ q \in process_list' <=> threads'[q] # <<>>
             /\ Elements(threads'[q]) = {u \in Live' : proc'[u] = q}
             /\ Unique(threads'[q])
  <2>1. /\ q \in process_list <=> threads[q] # <<>>
        /\ Elements(threads[q]) = {u \in Live : proc[u] = q}
        /\ Unique(threads[q])
    BY Zenon DEF IInv, Accounted, Populated, Elements, Unique
  <2>2. CASE q = p
    <3>1. threads'[q] = rest
      BY <1>2, <2>2, Zenon DEF IInv, TypeOK
    <3>2. {u \in Live' : proc'[u] = q} = {u \in Live : proc[u] = q} \ {thread}
      BY <1>2, <1>5, <2>2, Zenon DEF IInv, TypeOK, Live
    <3>3. q \in process_list' <=> rest # <<>>
      BY <1>1, <1>2, <2>2, Zenon
    <3> QED
      BY <1>4, <2>1, <2>2, <3>1, <3>2, <3>3, Zenon
  <2>3. CASE q # p
    <3>1. threads'[q] = threads[q]
      BY <1>2, <2>3, Zenon DEF IInv, TypeOK
    <3>2. {u \in Live' : proc'[u] = q} = {u \in Live : proc[u] = q}
      BY <1>2, <1>5, <2>3, Zenon DEF IInv, TypeOK, Live
    <3> QED
      BY <1>2, <2>1, <2>3, <3>1, <3>2, Zenon
  <2> QED
    BY <2>2, <2>3, Zenon
<1>7. Populated'
  BY <1>6, Zenon DEF Populated, Elements, Unique
<1>8. rest = <<>> => {u \in Live : proc[u] = p} = {thread}
  <2>1. rest = <<>> => Elements(rest) = {}
    BY DEF Elements
  <2>2. Elements(threads[p]) = {u \in Live : proc[u] = p}
    BY <1>1, Zenon DEF IInv, Accounted, Populated, Elements
  <2> QED
    BY <1>3, <1>4, <2>1, <2>2, Zenon
<1>9. {u \in Live : proc[u] \in run}' = {u \in Live : proc[u] \in run} \ {thread}
  BY <1>1, <1>2, <1>5, <1>8, Zenon DEF Live, IInv, TypeOK
<1>10. \A u \in queue : proc'[u] = proc[u] /\ proc[u] \in process_list'
  <2>1. ASSUME NEW u \in queue PROVE u \in Live /\ proc[u] \in run /\ u # thread
    BY <2>1, Zenon DEF IInv, Accounted, Places
  <2> QED
    BY <1>2, <1>8, <2>1, Zenon DEF IInv, TypeOK
<1>11. threads' \in [Procs -> Seq(Threads)] /\ proc' \in [Threads -> Procs \cup {NULL}]
  BY <1>1, <1>2, <1>4, Zenon DEF IInv, TypeOK
<1>12. process_list' \subseteq Procs /\ run' \subseteq process_list'
  BY <1>2, Zenon DEF IInv, TypeOK
<1>13. FreshFree'
  BY <1>2, Zenon DEF IInv, TypeOK, FreshFree
<1> QED
  BY <1>7, <1>9, <1>10, <1>11, <1>12, <1>13, Zenon

\* Leave destroys the CPU's thread if that is dead, and does nothing else.
LEMMA LeaveStep ==
  ASSUME IInv, Leave, fresh' = fresh
  PROVE  /\ threads' \in [Procs -> Seq(Threads)] /\ proc' \in [Threads -> Procs \cup {NULL}]
         /\ process_list' \subseteq Procs /\ run' \subseteq process_list'
         /\ FreshFree' /\ Populated'
         /\ {u \in Live : proc[u] \in run}' =
              queue \cup ({thread} \cap {t \in Threads : state[t] # "DEAD"})
         /\ \A u \in queue : proc'[u] = proc[u] /\ proc[u] \in process_list'
<1>1. CASE thread \in Threads /\ ~Runnable(thread)
  <2>1. destroy_thread(thread)
    BY <1>1, Zenon DEF Leave
  <2>2. {u \in Live : proc[u] \in run}' = {u \in Live : proc[u] \in run} \ {thread}
    BY <1>1, <2>1, DestroyStep, Zenon
  <2>3. {thread} \cap {t \in Threads : state[t] # "DEAD"} = {}
    BY <1>1, Zenon DEF Runnable
  <2>4. {u \in Live : proc[u] \in run} \ {thread} = queue
    BY Zenon DEF IInv, Accounted, Places
  <2> QED
    BY <1>1, <2>1, <2>2, <2>3, <2>4, DestroyStep, Zenon
<1>2. CASE ~(thread \in Threads /\ ~Runnable(thread))
  <2>1. UNCHANGED <<threads, proc, process_list, run>>
    BY <1>2, Zenon DEF Leave
  <2>2. {thread} \cap {t \in Threads : state[t] # "DEAD"} = {thread} \cap Threads
    BY <1>2, Zenon DEF Runnable
  <2>3. {u \in Live : proc[u] \in run}' = {u \in Live : proc[u] \in run}
    BY <2>1, Zenon DEF Live
  <2>4. \A u \in queue : proc[u] \in run
    BY Zenon DEF IInv, Accounted, Places
  <2>5. Populated' /\ FreshFree'
    BY <2>1 DEF IInv, Accounted, Populated, FreshFree, Live
  <2> QED
    BY <2>1, <2>2, <2>3, <2>4, <2>5, Zenon DEF IInv, TypeOK, Accounted, Places
<1> QED
  BY <1>1, <1>2, Zenon

LEMMA IdleStep == IInv /\ GoIdle => IInv'
<1> SUFFICES ASSUME IInv, GoIdle PROVE IInv'
  BY Zenon
<1>1. /\ Leave /\ fresh' = fresh /\ queue = {} /\ queue' = {} /\ running' = running
      /\ state' = state /\ thread' = idle_t
      /\ {thread} \cap {t \in Threads : state[t] # "DEAD"} = {}
  BY Zenon DEF GoIdle, cfsVars, Runnable
<1>2. TypeOK' /\ FreshFree' /\ Populated'
  BY <1>1, LeaveStep, Zenon DEF IInv, TypeOK
<1>3. Places'
  <2>1. {u \in Live : proc[u] \in run}' = {}
    BY <1>1, LeaveStep, Zenon
  <2> QED
    BY <1>1, <2>1, Zenon DEF Places
<1> QED
  BY <1>1, <1>2, <1>3, Zenon DEF IInv, Accounted, OwnAddressSpace

\* The thread that takes over is one of the queue, and lives on when the old one is freed.
LEMMA SwitchStep == IInv /\ Switch => IInv'
<1> SUFFICES ASSUME IInv, Switch PROVE IInv'
  BY Zenon
<1> DEFINE S == {thread} \cap {t \in Threads : state[t] # "DEAD"}
<1>1. PICK new \in Threads :
      /\ cfs_pick_next(new) /\ Leave /\ fresh' = fresh
      /\ queue' = (queue \cup S) \ {new}
      /\ running' = running + Cardinality(S) - 1
      /\ thread' = new /\ DOMAIN state' = Threads
      /\ vmm' = proc[new] /\ cr3' = IF proc[new] = Kernel THEN cr3 ELSE proc[new]
  BY Zenon DEF Switch, change_current_vmm
<1>2. new \in queue
  BY <1>1, Zenon DEF cfs_pick_next
<1>3. new \in Threads /\ new \notin S /\ S \subseteq Threads /\ S \cap queue = {}
  BY <1>2 DEF IInv, TypeOK, Accounted, Places
<1>4. proc[new] \in Procs /\ proc'[new] = proc[new] /\ proc[new] \in process_list'
  BY <1>1, <1>2, LeaveStep, Zenon
<1>5. TypeOK' /\ FreshFree' /\ Populated'
  BY <1>1, <1>3, LeaveStep, Zenon DEF IInv, TypeOK
<1>6. OwnAddressSpace'
  BY <1>1, <1>4, Zenon DEF OwnAddressSpace
<1>7. Places'
  <2>1. {u \in Live : proc[u] \in run}' = queue \cup S
    BY <1>1, LeaveStep, Zenon
  <2> QED
    BY <1>1, <1>2, <1>3, <2>1 DEF Places
<1>8. running' = Cardinality(queue')
  <2>1. IsFiniteSet(queue) /\ IsFiniteSet(S) /\ IsFiniteSet(queue \cup S)
    BY <1>3, FS_Subset, Zenon DEF IInv, TypeOK
  <2>2. Cardinality(queue \cup S) = Cardinality(queue) + Cardinality(S) - Cardinality(queue \cap S)
    BY <2>1, FS_Union, Zenon
  <2>3. Cardinality(queue \cap S) = 0
    <3>1. queue \cap S = {}
      BY <1>3, Zenon
    <3> QED
      BY <3>1, FS_EmptySet, Zenon
  <2>4. Cardinality(queue') = Cardinality(queue \cup S) - 1
    BY <1>1, <1>2, <2>1, FS_RemoveElement, Zenon
  <2>5. Cardinality(S) \in Nat /\ Cardinality(queue) \in Nat
    BY <2>1, FS_CardinalityType, Zenon
  <2> QED
    BY <1>1, <2>2, <2>3, <2>4, <2>5 DEF IInv, Accounted
<1> QED
  BY <1>5, <1>6, <1>7, <1>8, Zenon DEF IInv, Accounted

\* What changes neither processes nor the places of threads.
LEMMA KeepStep ==
  ASSUME IInv, DOMAIN state' = Threads, UNCHANGED <<procVars, queue, running, thread, vmm, cr3>>
  PROVE  IInv'
  BY DEF IInv, TypeOK, FreshFree, Accounted, Populated, Places, Live, OwnAddressSpace, procVars

LEMMA NextIInv == IInv /\ [Next]_vars => IInv'
<1> SUFFICES ASSUME IInv, [Next]_vars PROVE IInv'
  BY Zenon
<1>1. ASSUME NEW p \in Procs, NEW t \in Threads, CreateProcess(p, t) \/ AddThread(p, t)
      PROVE  IInv'
  BY <1>1, CreateStep, Zenon
<1>2. ASSUME NEW p \in Procs, RunProc(p) PROVE IInv'
  BY <1>2, RunStep, Zenon
<1>3. CASE Schedule
  <2>1. CASE Continue
    BY <2>1, KeepStep, Zenon DEF Continue, cfsVars, IInv, TypeOK
  <2> QED
    BY <1>3, <2>1, IdleStep, SwitchStep, Zenon DEF Schedule
<1>4. CASE Exit
  BY <1>4, KeepStep, Zenon DEF Exit, cfsVars, cpuVars, IInv, TypeOK
<1>5. CASE UNCHANGED vars
  BY <1>5, KeepStep, Zenon DEF vars, cfsVars, cpuVars, IInv, TypeOK
<1> QED
  BY <1>1, <1>2, <1>3, <1>4, <1>5, Zenon DEF Next

-----------------------------------------------------------------------------

\* The invariant holds in every state of the scheduler.
THEOREM SchedulerInvariance == Spec => []IInv
  BY InitIInv, NextIInv, PTL DEF Spec

\* Through create_process, add_thread, run_proc, schedule and destroy_thread in any order,
\* every thread of a process that was started is on the CPU or once in the queue, no freed
\* one is, a process is there exactly as long as it has threads, and cfs.running, which
\* get_timeslice divides by, is the number of queued threads.
THEOREM EverythingAccounted == Spec => []Accounted
<1>1. IInv => Accounted
  BY Zenon DEF IInv
<1> QED
  BY <1>1, SchedulerInvariance, PTL

\* The thread on the CPU is translated with the page table of its own process, although
\* change_current_vmm and create_process do not reload cr3 for the kernel.
THEOREM RunsInOwnAddressSpace == Spec => []OwnAddressSpace
<1>1. IInv => OwnAddressSpace
  BY Zenon DEF IInv
<1> QED
  BY <1>1, SchedulerInvariance, PTL

=============================================================================
