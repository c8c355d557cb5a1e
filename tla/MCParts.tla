------------------------------ MODULE MCParts ------------------------------
(* The parts of the kernel that can be checked by themselves, for TLC.     *)
(* Each behaviour is about one part: three CPUs that call kalloc and kfree *)
(* for the four pages that are left of five and a half (pages of two       *)
(* bytes); calls that change a red-black tree of ten entities, the         *)
(* smallest number for which the loop of balance_tree_remove comes round;  *)
(* calls that change a list of three cells; calls that change an address   *)
(* space of seven pages (areas of one or two, some at an address of the    *)
(* caller's choice, two slots to a container); keystrokes on a terminal of *)
(* three rows of three characters; or one call of a function that keeps no *)
(* state, with each of its arguments.                                      *)
EXTENDS PhysicalAllocator, RbTree, List, VmmAreas, Tty, Libc, BootTables

CONSTANTS p1, p2, p3

MCEntities == 1 .. 10
MCKeys == [se \in MCEntities |-> se]

MCSizes == {1, 2, 3}
MCBases == {0, 5, 8}

VARIABLES
  part,    \* what the behaviour is about
  input    \* the arguments of the call of a function

mcVars == <<part, input, vars, rbVars, listVars, areasVars, ttyVars>>

-----------------------------------------------------------------------------
(* The arguments.                                                          *)

Memories == [0 .. 4 -> 0 .. 2]

MemoryArgs ==
  {[m |-> m, dst |-> d, src |-> s, n |-> n] :
     m \in Memories, d \in 0 .. 4, s \in 0 .. 4, n \in 0 .. 3}

IntArgs == {[base |-> b, d |-> d] : b \in {8, 10, 16}, d \in -128 .. 127}

FormatArgs == UNION {[1 .. n -> {"a", "b", "%", "c", "s", "d", "X"}] : n \in 0 .. 4}

Args ==
  <<[char |-> "b", string |-> <<"a", "%">>, int |-> -10],
    [char |-> "%", string |-> <<>>, int |-> 100]>>

UpTo(n, S) == UNION {[1 .. k -> S] : k \in 0 .. n}

TagArgs == UpTo(4, [type : {"memory_map", "acpi_new", "module", "other"}, size : {8, 12, 17}])

RamArgs == UpTo(3, [type : {"ram", "reserved"}, base : {0, 8}, length : 0 .. 2])

Descriptors == [present : BOOLEAN, bytes : {<<1, 255>>, <<1, 254>>},
                rsdt : UpTo(2, {"APIC", "HPET"})]

MadtArgs ==
  UpTo(4, [type : {"lapic"}, length : {8}, enabled : BOOLEAN]
            \cup [type : {"ioapic"}, length : {12}])

-----------------------------------------------------------------------------

\* The pointers of a list that no call of this behaviour changes.
NoList ==
  /\ next = [c \in Cells |-> lst]
  /\ prev = [c \in Cells |-> lst]
  /\ content = <<>>
  /\ ret = NoNode

MCInit ==
  /\ Init /\ RbInit /\ AreasInit /\ TtyInit
  /\ \/ part = "list" /\ input = <<>> /\ ListInit
     \/ part \in {"pages", "tree", "areas", "tty"} /\ input = <<>> /\ NoList
     \/ /\ \/ part = "memory" /\ input \in {a \in MemoryArgs : a.dst + a.n <= 5 /\ a.src + a.n <= 5}
           \/ part = "int" /\ input \in IntArgs
           \/ part = "format" /\ input \in FormatArgs
           \/ part = "tags" /\ input \in TagArgs
           \/ part = "ram" /\ input \in RamArgs
           \/ part = "acpi" /\ input \in Descriptors \X Descriptors
           \/ part = "madt" /\ input \in MadtArgs
        /\ NoList

MCNext ==
  /\ UNCHANGED <<part, input>>
  /\ \/ part = "pages" /\ Next /\ UNCHANGED <<rbVars, listVars, areasVars, ttyVars>>
     \/ part = "tree" /\ RbNext /\ UNCHANGED <<vars, listVars, areasVars, ttyVars>>
     \/ part = "list" /\ ListNext /\ UNCHANGED <<vars, rbVars, areasVars, ttyVars>>
     \/ part = "areas" /\ AreasNext /\ UNCHANGED <<vars, rbVars, listVars, ttyVars>>
     \/ part = "tty" /\ TtyNext /\ UNCHANGED <<vars, rbVars, listVars, areasVars>>

MCSpec == MCInit /\ [][MCNext]_mcVars

-----------------------------------------------------------------------------
(* The functions, called with the arguments above.                         *)

\* memmove, as remove in process.c and realloc rely on it, moves bytes between regions that
\* overlap in either direction and touches no other byte; memcpy does where none overlap.
MovesRight == part = "memory" => Moves(input.m, input.dst, input.src, input.n)

\* strncmp stops at the end of the shorter string and orders as a dictionary does, so
\* that bsp_startup finds the module named initd and no other; strncpy pads the names of
\* processes and threads.
StringsRight == part = "memory" => Strings(input.m, input.dst, input.src, input.n)

\* printf prints every format as the characters say, one by one, two per cent signs as
\* one; itoa writes every number so that it reads back; ceildiv and ceillog2 round up.
PrintsRight ==
  /\ part = "format" => format(input, Args) = Printed(input, Args)
  /\ part = "int" => Writes(input.base, input.d) /\ RoundsUp(input.d, input.base)

\* The boot processor reads every tag, memory map, root table and MADT to its end, and
\* finds what is there.
TablesRead ==
  /\ part = "tags" => TagsKept(input)
  /\ part = "ram" => RamFound(input)
  /\ part = "acpi" => TableFound(input[1], input[2], "APIC")
  /\ part = "madt" => MadtRead(input)

=============================================================================
