----------------------------- MODULE TtyProofs -----------------------------
(***************************************************************************)
(* The terminal, for every width and height: nothing of what was erased or *)
(* moved up comes back, the framebuffer shows the text, and the buffer     *)
(* with its cursor implements a screen of lines.                           *)
(***************************************************************************)
EXTENDS Tty, SequenceTheorems, TLAPS

Columns == 0 .. WIDTH
Rows == 0 .. HEIGHT - 1

\* The cell of a column and a row.
Index(x, y) == x + y * STRIDE

Characters == Glyphs \cup {NUL, NL}

\* The row is text of n characters with nothing behind but, it may be, the cell at n.
Text(b, y, n) ==
  \A x \in Columns : /\ x < n => b[Index(x, y)] \in Glyphs
                     /\ x > n => b[Index(x, y)] = NUL

\* A line that a newline has ended.
Ended(b, y, n) == Text(b, y, n) /\ b[Index(n, y)] = NL

Blank(b, y) == \A x \in Columns : b[Index(x, y)] = NUL

Above(b, r) == \A y \in Rows : y < r => \E n \in Columns : Ended(b, y, n)

Below(b, r) == \A y \in Rows : y > r => Blank(b, y)

\* A buffer with the cursor in row r and column c, as the functions of tty.c take it
\* and leave it.
Proper(b, r, c) ==
  /\ b \in [TtyCells -> Characters] /\ r \in Rows /\ c \in Columns
  /\ Above(b, r) /\ Text(b, r, c) /\ b[Index(c, r)] = NUL /\ Below(b, r)

\* What every step preserves.
TtyInv == Proper(tty_buffer, row, column) /\ display = terminal_render(tty_buffer)

-----------------------------------------------------------------------------
(* The cells.                                                              *)

LEMMA Sizes == /\ WIDTH \in Nat \ {0} /\ HEIGHT \in Nat \ {0}
               /\ STRIDE = WIDTH + 1 /\ STRIDE \in Nat
  BY TtyAssumption DEF STRIDE

\* A cell is in the buffer.
LEMMA IndexType ==
  ASSUME NEW x \in Columns, NEW y \in Rows
  PROVE  Index(x, y) \in TtyCells
<1>1. (y + 1) * STRIDE <= HEIGHT * STRIDE
  BY Sizes DEF Rows
<1>2. (y + 1) * STRIDE = y * STRIDE + STRIDE /\ y * STRIDE \in Nat /\ HEIGHT * STRIDE \in Nat
  BY Sizes DEF Rows
<1> QED
  BY <1>1, <1>2, Sizes DEF Columns, Index, TtyCells

\* A cell has one column and one row.
LEMMA IndexInjective ==
  ASSUME NEW x \in Columns, NEW y \in Rows, NEW u \in Columns, NEW v \in Rows,
         Index(x, y) = Index(u, v)
  PROVE  x = u /\ y = v
<1>1. ASSUME NEW m \in Rows, NEW n \in Rows, m < n PROVE n * STRIDE >= m * STRIDE + STRIDE
  <2>1. (m + 1) * STRIDE <= n * STRIDE
    BY <1>1, Sizes DEF Rows
  <2> QED
    BY <2>1, Sizes DEF Rows
<1>2. y * STRIDE \in Nat /\ v * STRIDE \in Nat
  BY Sizes DEF Rows
<1>3. ~(y < v) /\ ~(v < y)
  BY <1>1, <1>2, Sizes DEF Columns, Index
<1> QED
  BY <1>2, <1>3, Sizes DEF Columns, Rows, Index

\* The cell below.
LEMMA IndexBelow ==
  ASSUME NEW x \in Columns, NEW y \in Rows
  PROVE  /\ Index(x, y) + STRIDE = Index(x, y + 1)
         /\ Index(x, y) + STRIDE \in TtyCells <=> y + 1 < HEIGHT
<1>1. (y + 1) * STRIDE = y * STRIDE + STRIDE /\ y * STRIDE \in Nat /\ HEIGHT * STRIDE \in Nat
  BY Sizes DEF Rows
<1>2. Index(x, y) + STRIDE = Index(x, y + 1)
  BY <1>1, Sizes DEF Columns, Index
<1>3. CASE y + 1 < HEIGHT
  BY <1>2, <1>3, IndexType, Sizes DEF Rows
<1>4. CASE ~(y + 1 < HEIGHT)
  <2>1. y + 1 = HEIGHT
    BY <1>4, Sizes DEF Rows
  <2> QED
    BY <1>1, <1>2, <1>4, <2>1, Sizes DEF Columns, Index, TtyCells
<1> QED
  BY <1>2, <1>3, <1>4, Zenon

\* The characters of the text are none of those the terminal treats apart.
LEMMA GlyphsApart == /\ NUL \notin Glyphs /\ NL \notin Glyphs /\ BS \notin Glyphs
                     /\ NUL # NL /\ NUL # BS /\ NL # BS
  BY Zenon DEF Glyphs, NUL, NL, BS

-----------------------------------------------------------------------------
(* The functions of tty.c, on a buffer and its cursor.                     *)

\* The buffer with another character in one of its cells.
With(b, c, r, ch) == [b EXCEPT ![Index(c, r)] = ch]

LEMMA WithCells ==
  ASSUME NEW b \in [TtyCells -> Characters], NEW c \in Columns, NEW r \in Rows,
         NEW ch \in Characters
  PROVE  /\ With(b, c, r, ch) \in [TtyCells -> Characters]
         /\ \A x \in Columns, y \in Rows :
              With(b, c, r, ch)[Index(x, y)] = IF x = c /\ y = r THEN ch ELSE b[Index(x, y)]
<1>1. Index(c, r) \in TtyCells
  BY IndexType, Zenon
<1>2. ASSUME NEW x \in Columns, NEW y \in Rows
      PROVE  With(b, c, r, ch)[Index(x, y)] = IF x = c /\ y = r THEN ch ELSE b[Index(x, y)]
  <2>1. Index(x, y) \in TtyCells /\ (Index(x, y) = Index(c, r) => x = c /\ y = r)
    BY IndexType, IndexInjective, Zenon
  <2> QED
    BY <1>1, <2>1, Zenon DEF With
<1> QED
  BY <1>1, <1>2, Zenon DEF With

\* The fields of a terminal.
LEMMA TerminalIs ==
  ASSUME NEW b, NEW r, NEW c
  PROVE  /\ Terminal(b, r, c).buffer = b /\ Terminal(b, r, c).row = r
         /\ Terminal(b, r, c).column = c
         /\ \A ch : Put(Terminal(b, r, c), ch) = With(b, c, r, ch)
  BY Zenon DEF Terminal, Put, At, With, Index

LEMMA ReturnIs ==
  ASSUME NEW b, NEW r, NEW c
  PROVE  terminal_return(Terminal(b, r, c)) =
           IF r + 1 = HEIGHT THEN Terminal(terminal_move_up(With(b, c, r, NL)), r, 0)
           ELSE Terminal(With(b, c, r, NL), r + 1, 0)
  BY TerminalIs DEF terminal_return

LEMMA PutcharIs ==
  ASSUME NEW b, NEW r, NEW c, NEW ch
  PROVE  /\ c # WIDTH =>
              terminal_putchar(Terminal(b, r, c), ch) = Terminal(With(b, c, r, ch), r, c + 1)
         /\ c = WIDTH =>
              terminal_putchar(Terminal(b, r, c), ch) =
                IF r + 1 = HEIGHT
                THEN Terminal(With(terminal_move_up(With(b, c, r, NL)), 0, r, ch), r, 0 + 1)
                ELSE Terminal(With(With(b, c, r, NL), 0, r + 1, ch), r + 1, 0 + 1)
  BY TerminalIs, ReturnIs DEF terminal_putchar

\* The lines move up by one.
LEMMA MoveUpCells ==
  ASSUME NEW b \in [TtyCells -> Characters]
  PROVE  /\ terminal_move_up(b) \in [TtyCells -> Characters]
         /\ \A x \in Columns, y \in Rows :
              terminal_move_up(b)[Index(x, y)] = IF y + 1 < HEIGHT THEN b[Index(x, y + 1)] ELSE NUL
<1>1. ASSUME NEW x \in Columns, NEW y \in Rows
      PROVE  terminal_move_up(b)[Index(x, y)] = IF y + 1 < HEIGHT THEN b[Index(x, y + 1)] ELSE NUL
  BY IndexType, IndexBelow, Zenon DEF terminal_move_up
<1> QED
  BY <1>1, Zenon DEF terminal_move_up, Characters

-----------------------------------------------------------------------------
(* What the functions of tty.c keep.                                       *)

\* A character at the cursor, which then moves on.
LEMMA PutProper ==
  ASSUME NEW b, NEW r, NEW c, Proper(b, r, c), c # WIDTH, NEW ch \in Glyphs
  PROVE  Proper(With(b, c, r, ch), r, c + 1)
<1> USE DEF Proper
<1> DEFINE w == With(b, c, r, ch)
<1>1. /\ w \in [TtyCells -> Characters]
      /\ \A x \in Columns, y \in Rows : w[Index(x, y)] = IF x = c /\ y = r THEN ch ELSE b[Index(x, y)]
  BY WithCells DEF Characters
<1> HIDE DEF w
<1>2. c + 1 \in Columns /\ c \in Int /\ r \in Int
  BY Sizes DEF Columns, Rows
<1>3. Above(w, r)
  <2> SUFFICES ASSUME NEW y \in Rows, y < r PROVE \E n \in Columns : Ended(w, y, n)
    BY Zenon DEF Above
  <2>1. PICK n \in Columns : Ended(b, y, n)
    BY Zenon DEF Above
  <2>2. y \in Rows /\ y # r
    BY Sizes DEF Rows
  <2> QED
    BY <1>1, <2>1, <2>2, Zenon DEF Ended, Text
<1>4. Below(w, r)
  <2> SUFFICES ASSUME NEW y \in Rows, y > r PROVE Blank(w, y)
    BY Zenon DEF Below
  <2>1. y \in Rows /\ y # r /\ Blank(b, y)
    BY Sizes DEF Rows, Below
  <2> QED
    BY <1>1, <2>1 DEF Blank
<1>5. Text(w, r, c + 1) /\ w[Index(c + 1, r)] = NUL
  BY <1>1, <1>2 DEF Text, Columns
<1> QED
  BY <1>1, <1>2, <1>3, <1>4, <1>5, Zenon DEF w

\* The newline ends the line of the cursor.
LEMMA NewlineEnds ==
  ASSUME NEW b, NEW r, NEW c, Proper(b, r, c)
  PROVE  LET w == With(b, c, r, NL) IN
         /\ w \in [TtyCells -> Characters]
         /\ Ended(w, r, c) /\ Above(w, r + 1) /\ Below(w, r)
<1> USE DEF Proper
<1> DEFINE w == With(b, c, r, NL)
<1>1. /\ w \in [TtyCells -> Characters]
      /\ \A x \in Columns, y \in Rows : w[Index(x, y)] = IF x = c /\ y = r THEN NL ELSE b[Index(x, y)]
  BY WithCells DEF Characters
<1> HIDE DEF w
<1>2. Ended(w, r, c)
  BY <1>1 DEF Ended, Text, Columns
<1>3. Above(w, r + 1)
  <2> SUFFICES ASSUME NEW y \in Rows, y < r + 1 PROVE \E n \in Columns : Ended(w, y, n)
    BY Zenon DEF Above
  <2>1. CASE y = r
    BY <1>2, <2>1, Zenon
  <2>2. CASE y # r
    <3>1. y < r
      BY <2>2, Sizes DEF Rows
    <3>2. PICK n \in Columns : Ended(b, y, n)
      BY <3>1, Zenon DEF Above
    <3> QED
      BY <1>1, <2>2, <3>1, <3>2, Zenon DEF Ended, Text
  <2> QED
    BY <2>1, <2>2, Zenon
<1>4. Below(w, r)
  <2> SUFFICES ASSUME NEW y \in Rows, y > r PROVE Blank(w, y)
    BY Zenon DEF Below
  <2>1. y \in Rows /\ y # r /\ Blank(b, y)
    BY Sizes DEF Rows, Below
  <2> QED
    BY <1>1, <2>1 DEF Blank
<1> QED
  BY <1>1, <1>2, <1>3, <1>4, Zenon DEF w

\* The cursor goes to the next line...
LEMMA DownProper ==
  ASSUME NEW b, NEW r, NEW c, Proper(b, r, c), r + 1 # HEIGHT
  PROVE  Proper(With(b, c, r, NL), r + 1, 0)
<1> DEFINE w == With(b, c, r, NL)
<1>1. w \in [TtyCells -> Characters] /\ Above(w, r + 1) /\ Below(w, r)
  BY NewlineEnds, Zenon
<1> HIDE DEF w
<1>2. r \in Rows /\ r + 1 \in Rows /\ 0 \in Columns
  BY Sizes DEF Proper, Rows, Columns
<1>3. Blank(w, r + 1) /\ Below(w, r + 1)
  BY <1>1, <1>2 DEF Below, Rows
<1>4. Text(w, r + 1, 0) /\ w[Index(0, r + 1)] = NUL
  BY <1>2, <1>3 DEF Blank, Text, Columns
<1> QED
  BY <1>1, <1>2, <1>3, <1>4, Zenon DEF Proper, w

\* ... or stays in the last while the lines move up.
LEMMA UpProper ==
  ASSUME NEW b, NEW r, NEW c, Proper(b, r, c), r + 1 = HEIGHT
  PROVE  Proper(terminal_move_up(With(b, c, r, NL)), r, 0)
<1> DEFINE w == With(b, c, r, NL)
           m == terminal_move_up(w)
<1>1. w \in [TtyCells -> Characters] /\ Above(w, r + 1)
  BY NewlineEnds, Zenon
<1> HIDE DEF w
<1>2. /\ m \in [TtyCells -> Characters]
      /\ \A x \in Columns, y \in Rows : m[Index(x, y)] = IF y + 1 < HEIGHT THEN w[Index(x, y + 1)] ELSE NUL
  BY <1>1, MoveUpCells, Zenon
<1> HIDE DEF m
<1>3. r \in Rows /\ 0 \in Columns
  BY Sizes DEF Proper, Columns
<1>4. Above(m, r)
  <2> SUFFICES ASSUME NEW y \in Rows, y < r PROVE \E n \in Columns : Ended(m, y, n)
    BY Zenon DEF Above
  <2>1. y + 1 \in Rows /\ y + 1 < r + 1 /\ y + 1 < HEIGHT
    BY <1>3, Sizes DEF Rows
  <2>2. PICK n \in Columns : Ended(w, y + 1, n)
    BY <1>1, <2>1, Zenon DEF Above
  <2> QED
    BY <1>2, <2>1, <2>2, Zenon DEF Ended, Text
<1>5. Text(m, r, 0) /\ m[Index(0, r)] = NUL
  BY <1>2, <1>3, Sizes DEF Text, Columns, Rows
<1>6. Below(m, r)
  BY <1>3, Sizes DEF Below, Rows
<1> QED
  BY <1>2, <1>3, <1>4, <1>5, <1>6, Zenon DEF Proper, m, w

\* The character before the cursor is taken away.
LEMMA TakeProper ==
  ASSUME NEW b, NEW r, NEW c, Proper(b, r, c), c # 0
  PROVE  /\ Proper(With(b, c - 1, r, NUL), r, c - 1)
         /\ With(With(b, c - 1, r, NUL), c - 1, r, NUL) = With(b, c - 1, r, NUL)
<1> USE DEF Proper
<1> DEFINE w == With(b, c - 1, r, NUL)
<1>1. c - 1 \in Columns /\ c \in Int /\ r \in Int /\ c - 1 < c
  BY Sizes DEF Columns, Rows
<1>2. /\ w \in [TtyCells -> Characters]
      /\ \A x \in Columns, y \in Rows :
           w[Index(x, y)] = IF x = c - 1 /\ y = r THEN NUL ELSE b[Index(x, y)]
  BY <1>1, WithCells DEF Characters
<1>3. With(w, c - 1, r, NUL) = w
  BY <1>1, IndexType, Zenon DEF With
<1> HIDE DEF w
<1>4. Above(w, r)
  <2> SUFFICES ASSUME NEW y \in Rows, y < r PROVE \E n \in Columns : Ended(w, y, n)
    BY Zenon DEF Above
  <2>1. PICK n \in Columns : Ended(b, y, n)
    BY Zenon DEF Above
  <2> QED
    BY <1>1, <1>2, <2>1 DEF Ended, Text
<1>5. Below(w, r)
  BY <1>1, <1>2 DEF Below, Blank
<1>6. Text(w, r, c - 1) /\ w[Index(c - 1, r)] = NUL
  <2>1. ASSUME NEW x \in Columns
        PROVE  (x < c - 1 => w[Index(x, r)] \in Glyphs) /\ (x > c - 1 => w[Index(x, r)] = NUL)
    <3>1. CASE x = c
      BY <1>1, <1>2, <3>1
    <3>2. CASE x # c
      <4>1. (x < c - 1 => x < c) /\ (x > c - 1 => x > c) /\ x \in Int
        BY <1>1, <3>2 DEF Columns
      <4> QED
        BY <1>1, <1>2, <4>1 DEF Text
    <3> QED
      BY <3>1, <3>2, Zenon
  <2> QED
    BY <1>1, <1>2, <2>1, Zenon DEF Text
<1> QED
  BY <1>1, <1>2, <1>3, <1>4, <1>5, <1>6, Zenon DEF w

\* The newline before the cursor is taken away.
LEMMA JoinProper ==
  ASSUME NEW b, NEW r, Proper(b, r, 0), r # 0, NEW n \in Columns, Ended(b, r - 1, n)
  PROVE  Proper(With(b, n, r - 1, NUL), r - 1, n)
<1> USE DEF Proper
<1> DEFINE w == With(b, n, r - 1, NUL)
<1>1. r - 1 \in Rows /\ r \in Int /\ n \in Int
  BY Sizes DEF Columns, Rows
<1>2. /\ w \in [TtyCells -> Characters]
      /\ \A x \in Columns, y \in Rows :
           w[Index(x, y)] = IF x = n /\ y = r - 1 THEN NUL ELSE b[Index(x, y)]
  BY <1>1, WithCells DEF Characters
<1> HIDE DEF w
<1>3. Above(w, r - 1)
  <2> SUFFICES ASSUME NEW y \in Rows, y < r - 1 PROVE \E m \in Columns : Ended(w, y, m)
    BY Zenon DEF Above
  <2>1. y < r /\ y # r - 1
    BY <1>1 DEF Rows
  <2>2. PICK m \in Columns : Ended(b, y, m)
    BY <2>1, Zenon DEF Above
  <2> QED
    BY <1>2, <2>1, <2>2, Zenon DEF Ended, Text
<1>4. Below(w, r - 1)
  <2> SUFFICES ASSUME NEW y \in Rows, y > r - 1 PROVE Blank(w, y)
    BY Zenon DEF Below
  <2>1. Blank(b, y)
    <3>1. CASE y = r
      BY <3>1 DEF Text, Blank, Columns
    <3>2. CASE y # r
      BY <1>1, <3>2 DEF Below, Rows
    <3> QED
      BY <3>1, <3>2, Zenon
  <2>2. y # r - 1
    BY <1>1 DEF Rows
  <2> QED
    BY <1>2, <2>1, <2>2 DEF Blank
<1>5. Text(w, r - 1, n) /\ w[Index(n, r - 1)] = NUL
  BY <1>1, <1>2 DEF Ended, Text
<1> QED
  BY <1>1, <1>2, <1>3, <1>4, <1>5, Zenon DEF w

\* The least of a set is the one that is.
LEMMA MinIs ==
  ASSUME NEW S \in SUBSET Int, NEW n \in S, \A x \in S : n <= x
  PROVE  Min(S) = n
<1>1. \E x \in S : \A y \in S : x <= y
  BY Zenon
<1>2. Min(S) \in S /\ \A y \in S : Min(S) <= y
  BY <1>1, Zenon DEF Min
<1>3. Min(S) <= n /\ n <= Min(S) /\ Min(S) \in Int
  BY <1>2, Zenon
<1> QED
  BY <1>3

\* The search for the newline of the first row finds it.
LEMMA NewlineFound ==
  ASSUME NEW b, NEW r, NEW c, b \in [TtyCells -> Characters],
         NEW n \in Columns, Ended(b, 0, n)
  PROVE  NewlineOf(Terminal(b, r, c), 0) = n
<1> DEFINE found == {x \in 0 .. HEIGHT * STRIDE :
                       x + 0 * (WIDTH - 1) \in TtyCells /\ b[x + 0 * (WIDTH - 1)] = NL}
<1>1. ASSUME NEW x \in Int PROVE x + 0 * (WIDTH - 1) = x
  BY Sizes
<1>2. 0 \in Rows /\ \A x \in Columns : x \in Int /\ Index(x, 0) = x /\ x \in TtyCells
  BY Sizes, IndexType DEF Index, Columns, Rows
<1>3. HEIGHT * STRIDE \in Nat /\ TtyCells \subseteq 0 .. HEIGHT * STRIDE
  BY Sizes DEF TtyCells
<1>4. n \in found
  BY <1>1, <1>2, <1>3, Zenon DEF Ended
<1>5. ASSUME NEW x \in found PROVE n <= x
  <2>1. x \in Int /\ x \in Nat /\ b[x] = NL
    BY <1>1, <1>3
  <2>2. ASSUME x < n PROVE FALSE
    <3>1. x \in Columns
      BY <2>1, <2>2, Sizes DEF Columns
    <3>2. b[x] \in Glyphs
      BY <1>2, <2>2, <3>1, Zenon DEF Ended, Text
    <3> QED
      BY <2>1, <3>2, GlyphsApart, Zenon
  <2> QED
    BY <1>2, <2>1, <2>2
<1>6. Min(found) = n
  <2> HIDE DEF found
  <2>1. found \in SUBSET Int
    BY <1>3 DEF found
  <2> QED
    BY <1>4, <1>5, <2>1, MinIs, Zenon
<1>7. NewlineOf(Terminal(b, r, c), 0) = IF found = {} THEN HEIGHT * STRIDE ELSE Min(found)
  BY Zenon DEF NewlineOf, Terminal
<1> QED
  BY <1>4, <1>6, <1>7, Zenon

\* The buffer and the row behind a newline.
BufferBehind(b, r, c) ==
  IF r + 1 = HEIGHT THEN terminal_move_up(With(b, c, r, NL)) ELSE With(b, c, r, NL)
RowBehind(r) == IF r + 1 = HEIGHT THEN r ELSE r + 1

LEMMA BehindProper ==
  ASSUME NEW b, NEW r, NEW c, Proper(b, r, c)
  PROVE  Proper(BufferBehind(b, r, c), RowBehind(r), 0)
  BY DownProper, UpProper, Zenon DEF BufferBehind, RowBehind

\* The three keys that change the text, and what each leaves.
Types(b, r, c, ch, t) ==
  \/ c # WIDTH /\ t = Terminal(With(b, c, r, ch), r, c + 1)
  \/ c = WIDTH /\ t = Terminal(With(BufferBehind(b, r, c), 0, RowBehind(r), ch), RowBehind(r), 1)

Returns(b, r, c, t) == t = Terminal(BufferBehind(b, r, c), RowBehind(r), 0)

Erases(b, r, c, t) ==
  \/ c # 0 /\ t = Terminal(With(b, c - 1, r, NUL), r, c - 1)
  \/ /\ c = 0 /\ r # 0
     /\ \E n \in Columns : Ended(b, r - 1, n) /\ t = Terminal(With(b, n, r - 1, NUL), r - 1, n)
  \/ c = 0 /\ r = 0 /\ t = Terminal(b, r, c)

LEMMA TypedIs ==
  ASSUME NEW b, NEW r, NEW c, NEW ch \in Glyphs
  PROVE  Types(b, r, c, ch, written(Terminal(b, r, c), ch))
<1>1. written(Terminal(b, r, c), ch) = terminal_putchar(Terminal(b, r, c), ch)
  BY GlyphsApart, Zenon DEF written
<1> QED
  BY <1>1, PutcharIs DEF Types, BufferBehind, RowBehind

LEMMA ReturnedIs ==
  ASSUME NEW b, NEW r, NEW c, Proper(b, r, c)
  PROVE  Returns(b, r, c, written(Terminal(b, r, c), NL))
<1>1. written(Terminal(b, r, c), NL) = terminal_return(Terminal(With(b, c, r, NL), r, c))
  BY GlyphsApart, TerminalIs DEF written
<1>2. With(With(b, c, r, NL), c, r, NL) = With(b, c, r, NL)
  BY IndexType, Zenon DEF Proper, With
<1> QED
  BY <1>1, <1>2, ReturnIs, Zenon DEF Returns, BufferBehind, RowBehind

\* At the start of a line terminal_backspace searches for the newline of the line
\* above; in the second row it searches where it is.
LEMMA ErasedIs ==
  ASSUME NEW b, NEW r, NEW c, Proper(b, r, c), ~(c = 0 /\ r > 1)
  PROVE  Erases(b, r, c, written(Terminal(b, r, c), BS))
<1>1. written(Terminal(b, r, c), BS) = Erased(terminal_backspace(Terminal(b, r, c)))
  BY GlyphsApart, Zenon DEF written
<1>2. r \in Rows /\ c \in Columns /\ r \in Int /\ c \in Int /\ WIDTH \in Int /\ c <= WIDTH
  BY Sizes DEF Proper, Rows, Columns
<1>3. ASSUME NEW b2, NEW r2 \in Rows, NEW c2 \in Columns
      PROVE  Erased(Terminal(b2, r2, c2)) = Terminal(With(b2, c2, r2, NUL), r2, c2)
  BY <1>3, TerminalIs, IndexType DEF Erased, At, Index
<1>4. CASE c # 0
  <2>1. c - 1 # WIDTH /\ c - 1 + 1 - 1 = c - 1 /\ c - 1 \in Columns
    BY <1>2, <1>4, Sizes DEF Columns
  <2>2. terminal_putchar(Terminal(b, r, c - 1), NUL) = Terminal(With(b, c - 1, r, NUL), r, c - 1 + 1)
    BY <2>1, PutcharIs
  <2>3. terminal_backspace(Terminal(b, r, c)) = Terminal(With(b, c - 1, r, NUL), r, c - 1)
    <3> DEFINE u == terminal_putchar(Terminal(b, r, c - 1), NUL)
    <3>1. u.buffer = With(b, c - 1, r, NUL) /\ u.row = r /\ u.column = c
      BY <1>2, <2>1, <2>2, TerminalIs
    <3>2. terminal_backspace(Terminal(b, r, c)) = Terminal(u.buffer, u.row, u.column - 1)
      BY <1>4, TerminalIs DEF terminal_backspace
    <3> QED
      BY <3>1, <3>2, Zenon
  <2>4. Erased(Terminal(With(b, c - 1, r, NUL), r, c - 1)) =
          Terminal(With(With(b, c - 1, r, NUL), c - 1, r, NUL), r, c - 1)
    BY <1>2, <1>3, <2>1, Zenon
  <2> QED
    BY <1>1, <1>4, <2>3, <2>4, TakeProper, Zenon DEF Erases
<1>5. CASE c = 0 /\ r # 0
  <2>1. r = 1 /\ r - 1 = 0 /\ 0 \in Rows
    BY <1>2, <1>5, Sizes DEF Rows
  <2>2. PICK n \in Columns : Ended(b, 0, n)
    BY <2>1 DEF Proper, Above
  <2>3. terminal_backspace(Terminal(b, r, c)) = Terminal(b, r - 1, n)
    BY <1>5, <2>1, <2>2, TerminalIs, NewlineFound DEF terminal_backspace, Proper
  <2> QED
    BY <1>1, <1>3, <1>5, <2>1, <2>2, <2>3 DEF Erases
<1>6. CASE c = 0 /\ r = 0
  <2>1. terminal_backspace(Terminal(b, r, c)) = Terminal(b, r, c)
    BY <1>6, TerminalIs DEF terminal_backspace
  <2>2. With(b, c, r, NUL) = b
    BY IndexType, Zenon DEF Proper, With
  <2> QED
    BY <1>1, <1>2, <1>3, <1>6, <2>1, <2>2 DEF Erases
<1> QED
  BY <1>4, <1>5, <1>6, Zenon

\* Whatever is written, the terminal stays proper.
LEMMA WrittenProper ==
  ASSUME NEW b, NEW r, NEW c, Proper(b, r, c),
         NEW data \in Glyphs \cup {NUL, NL, BS, TAB}, ~(data = BS /\ c = 0 /\ r > 1)
  PROVE  LET t == written(Terminal(b, r, c), data) IN Proper(t.buffer, t.row, t.column)
<1> DEFINE t == written(Terminal(b, r, c), data)
<1>1. CASE data \in Glyphs
  <2>1. 0 # WIDTH /\ 0 + 1 = 1
    BY Sizes
  <2> QED
    BY <1>1, <2>1, TypedIs, TerminalIs, PutProper, BehindProper DEF Types
<1>2. CASE data = NL
  BY <1>2, ReturnedIs, TerminalIs, BehindProper DEF Returns
<1>3. CASE data = BS
  BY <1>3, ErasedIs, TerminalIs, TakeProper, JoinProper DEF Erases
<1>4. CASE data \notin Glyphs \cup {NL, BS}
  BY <1>4, TerminalIs DEF written
<1> QED
  BY <1>1, <1>2, <1>3, <1>4, Zenon

-----------------------------------------------------------------------------
(* The keyboard, and the invariant.                                        *)

\* What a byte from the keyboard does to the screen: nothing, or the character of its
\* key is written.
LEMMA KeyIs ==
  ASSUME NEW scancode \in Scancodes, keystroke_handler(scancode)
  PROVE  \/ UNCHANGED screen
         \/ /\ scancode \in 0 .. 83
            /\ keycode_to_ascii[scancode + 1] \in Glyphs \cup {NUL, NL, BS, TAB}
            /\ terminal_write(keycode_to_ascii[scancode + 1])
<1>1. scancode \in 0 .. 255
  BY TtyAssumption, Zenon
<1>2. UNCHANGED screen \/ key_pressed(scancode)
  BY Zenon DEF keystroke_handler, handle_set1
<1>3. scancode \in 0 .. 83 =>
        keycode_to_ascii[scancode + 1] \in Glyphs \cup {NUL, NL, BS, TAB}
  BY Zenon DEF Glyphs
<1> QED
  BY <1>1, <1>2, <1>3 DEF key_pressed

\* A place of the framebuffer shows a cell.
LEMMA PlaceCell ==
  ASSUME NEW p \in Places
  PROVE  p[1] \in Columns /\ p[1] # WIDTH /\ p[2] \in Rows
<1>1. p[1] \in 0 .. WIDTH - 1 /\ p[2] \in 0 .. HEIGHT - 1
  BY Zenon DEF Places
<1> QED
  BY <1>1, Sizes DEF Columns, Rows

LEMMA TtyInitInv == TtyInit => TtyInv
<1> SUFFICES ASSUME TtyInit PROVE TtyInv
  BY Zenon
<1>0. /\ tty_buffer = [i \in TtyCells |-> NUL] /\ row = 0 /\ column = 0
      /\ display = [p \in Places |-> " "]
  BY Zenon DEF TtyInit
<1>1. /\ tty_buffer \in [TtyCells -> Characters]
      /\ \A x \in Columns, y \in Rows : tty_buffer[Index(x, y)] = NUL
  BY <1>0, IndexType, Zenon DEF Characters
<1>2. 0 \in Rows /\ 0 \in Columns
  BY Sizes DEF Rows, Columns
<1>3. Proper(tty_buffer, row, column)
  <2>1. Above(tty_buffer, 0)
    BY DEF Above, Rows
  <2>2. Below(tty_buffer, 0) /\ Text(tty_buffer, 0, 0)
    BY <1>1, <1>2 DEF Below, Blank, Text, Columns
  <2> QED
    BY <1>0, <1>1, <1>2, <2>1, <2>2, Zenon DEF Proper
<1>4. \A p \in Places : tty_buffer[p[1] + p[2] * STRIDE] = NUL
  BY <1>1, PlaceCell, Zenon DEF Index
<1>5. display = terminal_render(tty_buffer)
  BY <1>0, <1>4, GlyphsApart, Zenon DEF terminal_render
<1> QED
  BY <1>3, <1>5, Zenon DEF TtyInv

\* A key is written to a proper terminal and all of it is drawn again.
LEMMA TtyNextInv == TtyInv /\ [TtyNext]_ttyVars => TtyInv'
<1> SUFFICES ASSUME TtyInv, [TtyNext]_ttyVars PROVE TtyInv'
  BY Zenon
<1>1. CASE UNCHANGED screen
  BY <1>1, Zenon DEF screen, TtyInv, terminal_render
<1>2. ASSUME NEW scancode \in Scancodes, ~(Misplaced /\ BackspaceKey(scancode)),
             keystroke_handler(scancode), ~UNCHANGED screen
      PROVE  TtyInv'
  <2> DEFINE data == keycode_to_ascii[scancode + 1]
             t == written(Terminal(tty_buffer, row, column), data)
  <2>1. /\ scancode \in 0 .. 83 /\ data \in Glyphs \cup {NUL, NL, BS, TAB}
        /\ terminal_write(data)
    BY <1>2, KeyIs, Zenon
  <2>2. ~(data = BS /\ column = 0 /\ row > 1)
    BY <1>2, <2>1 DEF Misplaced, BackspaceKey
  <2>3. Proper(t.buffer, t.row, t.column)
    <3> HIDE DEF data
    <3> QED
      BY <2>1, <2>2, WrittenProper, Zenon DEF TtyInv
  <2>4. /\ tty_buffer' = t.buffer /\ row' = t.row /\ column' = t.column
        /\ display' = terminal_render(t.buffer)
    BY <2>1, Zenon DEF terminal_write
  <2> HIDE DEF t
  <2>5. terminal_render(t.buffer) = terminal_render(tty_buffer)'
    BY <2>4, Zenon DEF terminal_render
  <2> QED
    BY <2>3, <2>4, <2>5, Zenon DEF TtyInv
<1>3. UNCHANGED screen \/ \E scancode \in Scancodes :
        ~(Misplaced /\ BackspaceKey(scancode)) /\ keystroke_handler(scancode)
  BY Zenon DEF TtyNext, AskSet, ReadSet, ttyVars
<1> QED
  BY <1>1, <1>2, <1>3, Zenon

-----------------------------------------------------------------------------
(* The text in the buffer.                                                 *)

\* TextLength and lines, of any buffer and cursor.
LengthIn(b, r, c, y) ==
  IF y = r THEN c ELSE Min({x \in 0 .. WIDTH : b[Index(x, y)] = NL} \cup {WIDTH})

LinesIn(b, r, c) ==
  [z \in 1 .. r + 1 |-> [i \in 1 .. LengthIn(b, r, c, z - 1) |-> b[Index(i - 1, z - 1)]]]

LEMMA TextIs ==
  /\ \A y : TextLength(y) = LengthIn(tty_buffer, row, column, y)
  /\ lines = LinesIn(tty_buffer, row, column)
  /\ \A x, y : Char(x, y) = tty_buffer[Index(x, y)]
  BY Zenon DEF TextLength, LengthIn, lines, LinesIn, Char, Index

\* A line's length is where its newline is.
LEMMA EndedLength ==
  ASSUME NEW b, NEW r, NEW c, NEW y \in Rows, y # r, NEW n \in Columns, Ended(b, y, n)
  PROVE  LengthIn(b, r, c, y) = n
<1> DEFINE S == {x \in 0 .. WIDTH : b[Index(x, y)] = NL} \cup {WIDTH}
<1>1. S \subseteq Columns /\ S \in SUBSET Int /\ n \in S
  BY Sizes DEF Columns, Ended
<1>2. ASSUME NEW x \in S PROVE n <= x
  <2>1. x \in Columns /\ x \in Int /\ n \in Int /\ n <= WIDTH
    BY <1>1, Sizes DEF Columns
  <2>2. CASE x = WIDTH
    BY <2>1, <2>2, Zenon
  <2>3. CASE x # WIDTH
    <3>1. b[Index(x, y)] = NL
      BY <2>3, Zenon
    <3>2. ~(x < n)
      BY <2>1, <3>1, GlyphsApart, Zenon DEF Ended, Text
    <3> QED
      BY <2>1, <3>2
  <2> QED
    BY <2>2, <2>3, Zenon
<1>3. LengthIn(b, r, c, y) = Min(S)
  BY Zenon DEF LengthIn
<1> HIDE DEF S
<1> QED
  BY <1>1, <1>2, <1>3, MinIs, Zenon

\* The rows, one by one.
LEMMA RowsAre ==
  ASSUME NEW b, NEW r, NEW c, Proper(b, r, c), NEW y \in Rows
  PROVE  /\ y = r => LengthIn(b, r, c, y) = c
         /\ y <= r => LengthIn(b, r, c, y) \in Columns /\ Text(b, y, LengthIn(b, r, c, y))
         /\ y < r => Ended(b, y, LengthIn(b, r, c, y))
         /\ y > r => Blank(b, y)
<1>0. y \in Int /\ r \in Int
  BY DEF Proper, Rows
<1>1. CASE y = r
  BY <1>0, <1>1 DEF Proper, LengthIn
<1>2. CASE y < r
  <2>1. PICK n \in Columns : Ended(b, y, n)
    BY <1>2, Zenon DEF Proper, Above
  <2>2. y # r
    BY <1>0, <1>2
  <2> QED
    BY <1>0, <1>2, <2>1, <2>2, EndedLength DEF Ended
<1>3. CASE y > r
  BY <1>0, <1>3 DEF Proper, Below
<1> QED
  BY <1>0, <1>1, <1>2, <1>3

\* The lines, one by one.
LEMMA LineIs ==
  ASSUME NEW b, NEW r, NEW c, Proper(b, r, c), NEW y \in Rows, y <= r
  PROVE  /\ LinesIn(b, r, c)[y + 1] \in Seq(Characters)
         /\ Len(LinesIn(b, r, c)[y + 1]) = LengthIn(b, r, c, y)
         /\ \A x \in Nat : x < LengthIn(b, r, c, y) =>
              LinesIn(b, r, c)[y + 1][x + 1] = b[Index(x, y)]
<1> DEFINE n == LengthIn(b, r, c, y)
           line == LinesIn(b, r, c)[y + 1]
<1>1. PICK z \in 1 .. r + 1 : z = y + 1 /\ z - 1 = y
  BY DEF Proper, Rows
<1>2. n \in Columns /\ n \in Nat
  BY RowsAre DEF Columns
<1>3. line = [i \in 1 .. LengthIn(b, r, c, z - 1) |-> b[Index(i - 1, z - 1)]]
  BY <1>1, Zenon DEF LinesIn
<1>4. DOMAIN line = 1 .. n /\ \A i \in 1 .. n : line[i] = b[Index(i - 1, y)]
  BY <1>1, <1>3, Zenon
<1>5. line = [i \in 1 .. n |-> line[i]]
  BY <1>1, <1>3, Zenon
<1>6. ASSUME NEW i \in 1 .. n PROVE line[i] \in Characters
  <2>1. i - 1 \in Columns
    BY <1>2, Sizes DEF Columns
  <2> QED
    BY <1>4, <2>1, IndexType, Zenon DEF Proper
<1>7. ASSUME NEW x \in Nat, x < n PROVE line[x + 1] = b[Index(x, y)]
  <2>1. PICK i \in 1 .. n : i = x + 1 /\ i - 1 = x
    BY <1>2, <1>7
  <2> QED
    BY <1>4, <2>1, Zenon
<1> HIDE DEF line, n
<1>8. line \in Seq(Characters) /\ Len(line) = n
  BY <1>2, <1>5, <1>6
<1> QED
  BY <1>7, <1>8, Zenon DEF line, n

LEMMA LinesAre ==
  ASSUME NEW b, NEW r, NEW c, Proper(b, r, c)
  PROVE  LinesIn(b, r, c) \in Seq(Seq(Characters)) /\ Len(LinesIn(b, r, c)) = r + 1
<1> DEFINE text == LinesIn(b, r, c)
<1>1. r \in Nat /\ r \in Rows
  BY DEF Proper, Rows
<1>2. ASSUME NEW z \in 1 .. r + 1 PROVE text[z] \in Seq(Characters)
  <2>1. PICK y \in Rows : y <= r /\ z = y + 1
    <3>1. z - 1 \in Rows /\ z - 1 <= r /\ z = z - 1 + 1
      BY <1>1, Sizes DEF Rows
    <3> QED
      BY <3>1, Zenon
  <2> QED
    BY <2>1, LineIs, Zenon
<1>3. text = [z \in 1 .. r + 1 |-> text[z]]
  BY Zenon DEF LinesIn
<1> HIDE DEF text
<1>4. text \in Seq(Seq(Characters)) /\ Len(text) = r + 1
  BY <1>1, <1>2, <1>3
<1> QED
  BY <1>4, Zenon DEF text

LEMMA NothingIsLeftOver == TtyInv => NothingLeftOver
<1> SUFFICES ASSUME TtyInv, NEW y \in Rows, NEW x \in Columns
             PROVE  LET n == TextLength(y) IN
                    CASE y > row \/ x > n -> Char(x, y) = NUL
                      [] y <= row /\ x < n -> Char(x, y) \in Glyphs
                      [] y < row /\ x = n -> Char(x, y) = NL
                      [] OTHER -> Char(x, y) = NUL
  BY Zenon DEF NothingLeftOver, Rows, Columns
<1>1. /\ row \in Int /\ y \in Int /\ x \in Int /\ column \in Int
      /\ Proper(tty_buffer, row, column)
  BY DEF TtyInv, Proper, Rows, Columns
<1>2. CASE y > row
  <2>1. Char(x, y) = NUL /\ ~(y <= row) /\ ~(y < row)
    BY <1>1, <1>2, RowsAre, TextIs DEF Blank
  <2> QED
    BY <1>2, <2>1, Zenon
<1>3. CASE y = row
  <2>1. TextLength(y) = column /\ ~(y < row) /\ ~(y > row) /\ y <= row
    BY <1>1, <1>3, RowsAre, TextIs
  <2>2. /\ x > column => Char(x, y) = NUL
        /\ x < column => Char(x, y) \in Glyphs
        /\ x = column => Char(x, y) = NUL
    BY <1>1, <1>3, TextIs, Zenon DEF Proper, Text
  <2> QED
    BY <1>1, <2>1, <2>2
<1>4. CASE y < row
  <2>1. TextLength(y) \in Int /\ y < row /\ ~(y > row) /\ y <= row
    BY <1>1, <1>4, RowsAre, TextIs DEF Columns
  <2>2. /\ x > TextLength(y) => Char(x, y) = NUL
        /\ x < TextLength(y) => Char(x, y) \in Glyphs
        /\ x = TextLength(y) => Char(x, y) = NL
    BY <1>1, <1>4, RowsAre, TextIs DEF Ended, Text
  <2> QED
    BY <1>1, <2>1, <2>2
<1> QED
  BY <1>1, <1>2, <1>3, <1>4

LEMMA DisplayIsText == TtyInv => DisplayShowsText
<1> SUFFICES ASSUME TtyInv, NEW p \in Places
             PROVE  display[p] = IF p[2] <= row /\ p[1] < Len(lines[p[2] + 1])
                                 THEN lines[p[2] + 1][p[1] + 1] ELSE " "
  BY Zenon DEF DisplayShowsText
<1>1. PICK x \in Columns, y \in Rows : x = p[1] /\ y = p[2]
  BY PlaceCell, Zenon
<1>2. display[p] = IF Char(x, y) \in Glyphs THEN Char(x, y) ELSE " "
  BY <1>1, Zenon DEF TtyInv, terminal_render, Char
<1>3. row \in Nat /\ x \in Nat /\ y \in Nat /\ Proper(tty_buffer, row, column)
  BY DEF TtyInv, Proper, Rows, Columns
<1>4. CASE y > row
  <2>1. Char(x, y) = NUL /\ ~(y <= row)
    BY <1>3, <1>4, RowsAre, TextIs DEF Blank
  <2> QED
    BY <1>1, <1>2, <2>1, GlyphsApart, Zenon
<1>5. CASE y <= row
  <2> DEFINE n == LengthIn(tty_buffer, row, column, y)
  <2>1. n \in Columns /\ n \in Nat /\ lines = LinesIn(tty_buffer, row, column)
    BY <1>3, <1>5, RowsAre, TextIs DEF Columns
  <2>2. Len(lines[y + 1]) = n /\ (x < n => lines[y + 1][x + 1] = Char(x, y))
    BY <1>3, <1>5, <2>1, LineIs, TextIs
  <2>3. Text(tty_buffer, y, n) /\ (y = row => n = column) /\ (y < row => Ended(tty_buffer, y, n))
    BY <1>3, <1>5, RowsAre
  <2> HIDE DEF n
  <2>4. CASE x < n
    <3>1. Char(x, y) \in Glyphs
      BY <2>3, <2>4, TextIs, Zenon DEF Text
    <3> QED
      BY <1>1, <1>2, <1>5, <2>2, <2>4, <3>1, Zenon
  <2>5. CASE ~(x < n)
    <3>1. Char(x, y) \in {NUL, NL}
      BY <1>3, <1>5, <2>1, <2>3, <2>5, TextIs DEF Ended, Text, Proper
    <3> QED
      BY <1>1, <1>2, <1>5, <2>2, <2>5, <3>1, GlyphsApart, Zenon
  <2> QED
    BY <2>4, <2>5, Zenon
<1>6. y > row \/ y <= row
  BY <1>3
<1> QED
  BY <1>4, <1>5, <1>6, Zenon

\* The terminal's inductive invariant, for every size of it and every set of keys.
THEOREM TerminalInvariance == TtySpec => []TtyInv
  BY TtyInitInv, TtyNextInv, PTL DEF TtySpec

\* Nothing of what tty.c has erased, broken or moved up stays in the buffer.
THEOREM TerminalNothingLeftOver == TtySpec => []NothingLeftOver
  BY TerminalInvariance, NothingIsLeftOver, PTL

\* terminal_render draws the text and nothing else.
THEOREM TerminalDisplayShowsText == TtySpec => []DisplayShowsText
  BY TerminalInvariance, DisplayIsText, PTL

-----------------------------------------------------------------------------
(* The screen.                                                             *)

\* Two rows with the same text are the same line.
LEMMA LineSame ==
  ASSUME NEW b, NEW r, NEW c, Proper(b, r, c), NEW y \in Rows, y <= r,
         NEW b2, NEW r2, NEW c2, Proper(b2, r2, c2), NEW y2 \in Rows, y2 <= r2,
         NEW n \in Columns, LengthIn(b, r, c, y) = n, LengthIn(b2, r2, c2, y2) = n,
         \A x \in Columns : x < n => b2[Index(x, y2)] = b[Index(x, y)]
  PROVE  LinesIn(b2, r2, c2)[y2 + 1] = LinesIn(b, r, c)[y + 1]
<1> DEFINE s == LinesIn(b2, r2, c2)[y2 + 1]
           t == LinesIn(b, r, c)[y + 1]
<1>1. /\ s \in Seq(Characters) /\ t \in Seq(Characters) /\ Len(s) = n /\ Len(t) = n
      /\ \A x \in Nat : x < n => s[x + 1] = b2[Index(x, y2)] /\ t[x + 1] = b[Index(x, y)]
  BY LineIs
<1> HIDE DEF s, t
<1>2. n \in Nat
  BY DEF Columns
<1>3. ASSUME NEW i \in 1 .. n PROVE s[i] = t[i]
  <2>1. PICK x \in Nat : x < n /\ i = x + 1
    <3>1. i - 1 \in Nat /\ i - 1 < n /\ i = i - 1 + 1
      BY <1>2
    <3> QED
      BY <3>1, Zenon
  <2>2. x \in Columns
    BY <1>2, <2>1, Sizes DEF Columns
  <2> QED
    BY <1>1, <2>1, <2>2, Zenon
<1>4. s = t
  BY <1>1, <1>3, SeqEqual, Zenon
<1> QED
  BY <1>4, Zenon DEF s, t

\* A line that has ended stays what it is as long as its cells do.
LEMMA LineKept ==
  ASSUME NEW b, NEW r, NEW c, Proper(b, r, c), NEW y \in Rows, y < r,
         NEW b2, NEW r2, NEW c2, Proper(b2, r2, c2), NEW y2 \in Rows, y2 < r2,
         \A x \in Columns : b2[Index(x, y2)] = b[Index(x, y)]
  PROVE  LinesIn(b2, r2, c2)[y2 + 1] = LinesIn(b, r, c)[y + 1]
<1>1. y <= r /\ y2 <= r2 /\ y2 # r2 /\ y2 \in Int /\ r2 \in Int
  BY DEF Proper, Rows
<1>2. PICK n \in Columns : LengthIn(b, r, c, y) = n /\ Ended(b, y, n)
  BY <1>1, RowsAre, Zenon
<1>3. Ended(b2, y2, n)
  BY <1>2, Zenon DEF Ended, Text
<1>4. LengthIn(b2, r2, c2, y2) = n
  BY <1>1, <1>3, EndedLength, Zenon
<1> QED
  BY <1>1, <1>2, <1>4, LineSame

\* A line counted from 1 is a row counted from 0.
LEMMA RowOfLine ==
  ASSUME NEW r \in Rows, NEW z \in 1 .. r + 1
  PROVE  \E y \in Rows : z = y + 1 /\ y <= r /\ (z # r + 1 => y < r) /\ (z = r + 1 => y = r)
<1>1. /\ z - 1 \in Rows /\ z = z - 1 + 1 /\ z - 1 <= r
      /\ (z # r + 1 => z - 1 < r) /\ (z = r + 1 => z - 1 = r)
  BY Sizes DEF Rows
<1> QED
  BY <1>1, Zenon

\* A character is appended to the last line.
LEMMA TypedLines ==
  ASSUME NEW b, NEW r, NEW c, Proper(b, r, c), c # WIDTH, NEW ch \in Glyphs
  PROVE  LinesIn(With(b, c, r, ch), r, c + 1) = [LinesIn(b, r, c) EXCEPT ![r + 1] = Append(@, ch)]
<1> DEFINE w == With(b, c, r, ch)
           old == LinesIn(b, r, c)
           new == LinesIn(w, r, c + 1)
           last == old[r + 1]
<1>1. Proper(w, r, c + 1) /\ r \in Rows /\ r \in Nat /\ c \in Columns /\ c \in Nat
      /\ c + 1 \in Columns
  BY PutProper DEF Proper, Rows, Columns
<1>2. \A x \in Columns, y \in Rows : w[Index(x, y)] = IF x = c /\ y = r THEN ch ELSE b[Index(x, y)]
  BY WithCells DEF Proper, Characters
<1> HIDE DEF w
<1>3. LengthIn(b, r, c, r) = c /\ LengthIn(w, r, c + 1, r) = c + 1
  BY Zenon DEF LengthIn
<1>4. /\ old \in Seq(Seq(Characters)) /\ new \in Seq(Seq(Characters))
      /\ Len(old) = r + 1 /\ Len(new) = r + 1 /\ r + 1 \in 1 .. r + 1
  BY <1>1, LinesAre
<1>5. new[r + 1] = Append(last, ch)
  <2>1. /\ last \in Seq(Characters) /\ Len(last) = c
        /\ \A x \in Nat : x < c => last[x + 1] = b[Index(x, r)]
    BY <1>1, <1>3, LineIs
  <2>2. /\ new[r + 1] \in Seq(Characters) /\ Len(new[r + 1]) = c + 1
        /\ \A x \in Nat : x < c + 1 => new[r + 1][x + 1] = w[Index(x, r)]
    BY <1>1, <1>3, LineIs
  <2> HIDE DEF last, new
  <2>3. /\ Append(last, ch) \in Seq(Characters) /\ Len(Append(last, ch)) = c + 1
        /\ \A i \in 1 .. c : Append(last, ch)[i] = last[i]
        /\ Append(last, ch)[c + 1] = ch
    <3>1. ch \in Characters
      BY Zenon DEF Characters
    <3> QED
      BY <2>1, <3>1, AppendProperties
  <2>4. ASSUME NEW i \in 1 .. c + 1 PROVE new[r + 1][i] = Append(last, ch)[i]
    <3>1. PICK x \in Nat : i = x + 1 /\ x < c + 1 /\ (i # c + 1 => x < c /\ x # c /\ i \in 1 .. c)
                            /\ (i = c + 1 => x = c)
      <4>1. /\ i - 1 \in Nat /\ i = i - 1 + 1 /\ i - 1 < c + 1
            /\ (i # c + 1 => i - 1 < c /\ i - 1 # c /\ i \in 1 .. c) /\ (i = c + 1 => i - 1 = c)
        BY <1>1
      <4> QED
        BY <4>1, Zenon
    <3>2. x \in Columns
      BY <1>1, <3>1, Sizes DEF Columns
    <3> QED
      BY <1>1, <1>2, <2>1, <2>2, <2>3, <3>1, <3>2
  <2> QED
    BY <2>2, <2>3, <2>4, SeqEqual, Zenon
<1>6. last \in Seq(Characters) /\ Append(last, ch) \in Seq(Characters)
  BY <1>1, LineIs, AppendProperties DEF Characters
<1>7. ASSUME NEW z \in 1 .. r + 1, z # r + 1 PROVE new[z] = old[z]
  <2>1. PICK y \in Rows : z = y + 1 /\ y < r
    BY <1>1, <1>7, RowOfLine, Zenon
  <2>2. \A x \in Columns : w[Index(x, y)] = b[Index(x, y)]
    BY <1>1, <1>2, <2>1 DEF Rows
  <2> QED
    BY <1>1, <2>1, <2>2, LineKept
<1> HIDE DEF old, new, last
<1>8. LET e == [old EXCEPT ![r + 1] = Append(last, ch)] IN
      /\ e \in Seq(Seq(Characters)) /\ Len(e) = r + 1
      /\ \A z \in 1 .. r + 1 : e[z] = IF z = r + 1 THEN Append(last, ch) ELSE old[z]
  BY <1>4, <1>6, ExceptSeq
<1>9. new = [old EXCEPT ![r + 1] = Append(last, ch)]
  BY <1>4, <1>5, <1>7, <1>8, SeqEqual, Zenon
<1> QED
  BY <1>9, Zenon DEF old, new, last, w

\* A new line is begun below the last...
LEMMA DownLines ==
  ASSUME NEW b, NEW r, NEW c, Proper(b, r, c), r + 1 # HEIGHT
  PROVE  LinesIn(With(b, c, r, NL), r + 1, 0) = Append(LinesIn(b, r, c), <<>>)
<1> DEFINE w == With(b, c, r, NL)
           old == LinesIn(b, r, c)
           new == LinesIn(w, r + 1, 0)
<1>1. Proper(w, r + 1, 0) /\ Ended(w, r, c)
  BY DownProper, NewlineEnds, Zenon
<1>2. /\ r \in Rows /\ r \in Nat /\ r + 1 \in Rows /\ c \in Columns /\ c \in Nat
      /\ r # r + 1 /\ r <= r + 1 /\ r <= r /\ r + 1 <= r + 1
  BY Sizes DEF Proper, Rows, Columns
<1>3. \A x \in Columns, y \in Rows : w[Index(x, y)] = IF x = c /\ y = r THEN NL ELSE b[Index(x, y)]
  BY WithCells DEF Proper, Characters
<1> HIDE DEF w
<1>4. /\ old \in Seq(Seq(Characters)) /\ new \in Seq(Seq(Characters))
      /\ Len(old) = r + 1 /\ Len(new) = r + 1 + 1
  BY <1>1, LinesAre, Zenon
<1>5. new[r + 1 + 1] = <<>>
  <2>1. LengthIn(w, r + 1, 0, r + 1) = 0
    BY Zenon DEF LengthIn
  <2>2. new[r + 1 + 1] \in Seq(Characters) /\ Len(new[r + 1 + 1]) = 0
    BY <1>1, <1>2, <2>1, LineIs, Zenon
  <2> QED
    BY <2>2, EmptySeq, Zenon
<1>6. ASSUME NEW z \in 1 .. r + 1 PROVE new[z] = old[z]
  <2>1. PICK y \in Rows : z = y + 1 /\ y <= r /\ (z # r + 1 => y < r) /\ (z = r + 1 => y = r)
    BY <1>2, RowOfLine, Zenon
  <2>2. CASE z = r + 1
    <3>1. LengthIn(b, r, c, r) = c /\ LengthIn(w, r + 1, 0, r) = c
      BY <1>1, <1>2, EndedLength, Zenon DEF LengthIn
    <3>2. \A x \in Columns : x < c => w[Index(x, r)] = b[Index(x, r)]
      BY <1>2, <1>3 DEF Columns
    <3> QED
      BY <1>1, <1>2, <2>1, <2>2, <3>1, <3>2, LineSame
  <2>3. CASE z # r + 1
    <3>1. y < r + 1 /\ y # r
      BY <1>2, <2>1, <2>3 DEF Rows
    <3>2. \A x \in Columns : w[Index(x, y)] = b[Index(x, y)]
      BY <1>3, <3>1, Zenon
    <3> QED
      BY <1>1, <2>1, <2>3, <3>1, <3>2, LineKept
  <2> QED
    BY <2>2, <2>3, Zenon
<1> HIDE DEF old, new
<1>7. <<>> \in Seq(Characters)
  BY EmptySeq, Zenon
<1>8. /\ Append(old, <<>>) \in Seq(Seq(Characters)) /\ Len(Append(old, <<>>)) = r + 1 + 1
      /\ \A z \in 1 .. r + 1 : Append(old, <<>>)[z] = old[z]
      /\ Append(old, <<>>)[r + 1 + 1] = <<>>
  BY <1>4, <1>7, AppendProperties
<1>9. ASSUME NEW z \in 1 .. r + 1 + 1 PROVE new[z] = Append(old, <<>>)[z]
  <2>1. z \in 1 .. r + 1 \/ z = r + 1 + 1
    BY <1>2
  <2> QED
    BY <1>5, <1>6, <1>8, <2>1, Zenon
<1>10. new = Append(old, <<>>)
  BY <1>4, <1>8, <1>9, SeqEqual, Zenon
<1> QED
  BY <1>10, Zenon DEF old, new, w

\* ... and, where there is no room, the first is gone.
LEMMA UpLines ==
  ASSUME NEW b, NEW r, NEW c, Proper(b, r, c), r + 1 = HEIGHT
  PROVE  LinesIn(terminal_move_up(With(b, c, r, NL)), r, 0) = Append(Tail(LinesIn(b, r, c)), <<>>)
<1> DEFINE w == With(b, c, r, NL)
           m == terminal_move_up(w)
           old == LinesIn(b, r, c)
           new == LinesIn(m, r, 0)
<1>1. Proper(m, r, 0) /\ Ended(w, r, c) /\ w \in [TtyCells -> Characters]
  BY UpProper, NewlineEnds, Zenon
<1>2. r \in Rows /\ r \in Nat /\ c \in Columns /\ c \in Nat /\ r <= r
  BY Sizes DEF Proper, Rows, Columns
<1>3. \A x \in Columns, y \in Rows : w[Index(x, y)] = IF x = c /\ y = r THEN NL ELSE b[Index(x, y)]
  BY WithCells DEF Proper, Characters
<1> HIDE DEF w
<1>4. \A x \in Columns, y \in Rows : y + 1 < HEIGHT => m[Index(x, y)] = w[Index(x, y + 1)]
  BY <1>1, MoveUpCells, Zenon
<1> HIDE DEF m
<1>5. /\ old \in Seq(Seq(Characters)) /\ new \in Seq(Seq(Characters))
      /\ Len(old) = r + 1 /\ Len(new) = r + 1
  BY <1>1, LinesAre, Zenon
<1>6. new[r + 1] = <<>>
  <2>1. LengthIn(m, r, 0, r) = 0
    BY Zenon DEF LengthIn
  <2>2. new[r + 1] \in Seq(Characters) /\ Len(new[r + 1]) = 0
    BY <1>1, <1>2, <2>1, LineIs, Zenon
  <2> QED
    BY <2>2, EmptySeq, Zenon
<1>7. ASSUME NEW z \in 1 .. r PROVE new[z] = old[z + 1]
  <2>1. PICK y \in Rows, v \in Rows :
          /\ z = y + 1 /\ v = y + 1 /\ z + 1 = v + 1 /\ y < r /\ y <= r /\ y # r
          /\ v <= r /\ v < HEIGHT
    <3>1. /\ z - 1 \in Rows /\ z \in Rows /\ z = z - 1 + 1 /\ z - 1 < r /\ z - 1 <= r /\ z - 1 # r
          /\ z <= r /\ z < HEIGHT
      BY <1>2, Sizes DEF Rows
    <3> QED
      BY <3>1, Zenon
  <2>2. \A x \in Columns : m[Index(x, y)] = w[Index(x, v)]
    BY <1>4, <2>1, Zenon
  <2>3. CASE v = r
    <3>1. Ended(m, y, c)
      BY <1>1, <1>2, <2>2, <2>3, Zenon DEF Ended, Text
    <3>2. LengthIn(b, r, c, v) = c /\ LengthIn(m, r, 0, y) = c
      <4>1. LengthIn(b, r, c, v) = c
        BY <2>3, Zenon DEF LengthIn
      <4> QED
        BY <1>2, <2>1, <3>1, <4>1, EndedLength, Zenon
    <3>3. \A x \in Columns : x < c => m[Index(x, y)] = b[Index(x, v)]
      BY <1>2, <1>3, <2>2, <2>3 DEF Columns
    <3> QED
      BY <1>1, <1>2, <2>1, <3>2, <3>3, LineSame
  <2>4. CASE v # r
    <3>1. v < r
      BY <1>2, <2>1, <2>4 DEF Rows
    <3>2. \A x \in Columns : m[Index(x, y)] = b[Index(x, v)]
      BY <1>3, <2>2, <2>4, Zenon
    <3> QED
      BY <1>1, <2>1, <3>1, <3>2, LineKept
  <2> QED
    BY <2>3, <2>4, Zenon
<1> HIDE DEF old, new
<1>8. <<>> \in Seq(Characters) /\ old # <<>>
  BY <1>2, <1>5, EmptySeq
<1>9. Tail(old) \in Seq(Seq(Characters)) /\ Len(Tail(old)) = r /\ \A z \in 1 .. r : Tail(old)[z] = old[z + 1]
  BY <1>2, <1>5, <1>8, HeadTailProperties
<1>10. LET e == Append(Tail(old), <<>>) IN
       /\ e \in Seq(Seq(Characters)) /\ Len(e) = r + 1
       /\ \A z \in 1 .. r : e[z] = old[z + 1]
       /\ e[r + 1] = <<>>
  BY <1>8, <1>9, AppendProperties
<1>11. ASSUME NEW z \in 1 .. r + 1 PROVE new[z] = Append(Tail(old), <<>>)[z]
  <2>1. z \in 1 .. r \/ z = r + 1
    BY <1>2
  <2> QED
    BY <1>6, <1>7, <1>10, <2>1, Zenon
<1>12. new = Append(Tail(old), <<>>)
  BY <1>5, <1>10, <1>11, SeqEqual, Zenon
<1> QED
  BY <1>12, Zenon DEF old, new, m, w

\* Both of them, with the line that is begun.
Begins(text, line) ==
  IF Len(text) = HEIGHT THEN Append(Tail(text), line) ELSE Append(text, line)

LEMMA ReturnedLines ==
  ASSUME NEW b, NEW r, NEW c, Proper(b, r, c)
  PROVE  LinesIn(BufferBehind(b, r, c), RowBehind(r), 0) = Begins(LinesIn(b, r, c), <<>>)
  BY LinesAre, DownLines, UpLines, Zenon DEF BufferBehind, RowBehind, Begins

\* A character in a line that was begun begins it.
LEMMA FirstOfLine ==
  ASSUME NEW text \in Seq(Seq(Characters)), NEW ch \in Characters
  PROVE  LET e == Append(text, <<>>)
         IN  [e EXCEPT ![Len(text) + 1] = Append(@, ch)] = Append(text, <<ch>>)
<1> DEFINE e == Append(text, <<>>)
           f == Append(text, <<ch>>)
           n == Len(text) + 1
           g == [e EXCEPT ![n] = <<ch>>]
<1>1. <<>> \in Seq(Characters) /\ <<ch>> \in Seq(Characters) /\ Append(<<>>, ch) = <<ch>>
  OBVIOUS
<1>2. /\ e \in Seq(Seq(Characters)) /\ f \in Seq(Seq(Characters)) /\ Len(e) = n /\ Len(f) = n
      /\ n \in 1 .. n /\ e[n] = <<>> /\ f[n] = <<ch>>
      /\ \A z \in 1 .. Len(text) : e[z] = text[z] /\ f[z] = text[z]
  BY <1>1, AppendProperties
<1>3. \A z \in 1 .. n : z = n \/ z \in 1 .. Len(text)
  OBVIOUS
<1>4. [e EXCEPT ![n] = Append(@, ch)] = g
  BY <1>1, <1>2, Zenon
<1> HIDE DEF e, f, n
<1>5. g \in Seq(Seq(Characters)) /\ Len(g) = n /\ \A z \in 1 .. n : g[z] = IF z = n THEN <<ch>> ELSE e[z]
  BY <1>1, <1>2, ExceptSeq
<1> HIDE DEF g
<1>6. \A z \in 1 .. n : g[z] = f[z]
  BY <1>2, <1>3, <1>5, Zenon
<1>7. g = f
  BY <1>2, <1>5, <1>6, SeqEqual, Zenon
<1> QED
  BY <1>4, <1>7, Zenon DEF e, f, n

\* A full line is broken before the character.
LEMMA BrokenLines ==
  ASSUME NEW b, NEW r, NEW c, Proper(b, r, c), NEW ch \in Glyphs
  PROVE  LinesIn(With(BufferBehind(b, r, c), 0, RowBehind(r), ch), RowBehind(r), 1)
           = Begins(LinesIn(b, r, c), <<ch>>)
<1> DEFINE b2 == BufferBehind(b, r, c)
           r2 == RowBehind(r)
           old == LinesIn(b, r, c)
           mid == LinesIn(b2, r2, 0)
           new == LinesIn(With(b2, 0, r2, ch), r2, 1)
           above == IF Len(old) = HEIGHT THEN Tail(old) ELSE old
<1>1. Proper(b2, r2, 0) /\ mid = Begins(old, <<>>) /\ ch \in Characters
  BY BehindProper, ReturnedLines, Zenon DEF Characters
<1>2. /\ old \in Seq(Seq(Characters)) /\ Len(old) = r + 1 /\ Len(old) \in Nat /\ Len(old) # 0
      /\ Len(mid) = r2 + 1
  <2>1. old \in Seq(Seq(Characters)) /\ Len(old) = r + 1 /\ Len(mid) = r2 + 1
    BY <1>1, LinesAre, Zenon
  <2>2. r \in Nat
    BY DEF Proper, Rows
  <2> QED
    BY <2>1, <2>2
<1>3. new = [mid EXCEPT ![r2 + 1] = Append(@, ch)]
  <2>1. 0 # WIDTH /\ 0 + 1 = 1
    BY Sizes
  <2>2. PICK z : z = 0
    BY Zenon
  <2>3. Proper(b2, r2, z) /\ z # WIDTH
    BY <1>1, <2>1, <2>2, Zenon
  <2> HIDE DEF b2, r2
  <2>4. LinesIn(With(b2, z, r2, ch), r2, z + 1) =
          [LinesIn(b2, r2, z) EXCEPT ![r2 + 1] = Append(@, ch)]
    BY <2>3, TypedLines
  <2> QED
    BY <2>1, <2>2, <2>4, Zenon
<1> HIDE DEF b2, r2, old, mid, new
<1>4. above \in Seq(Seq(Characters))
  BY <1>2, HeadTailProperties, EmptySeq, Zenon
<1>5. mid = Append(above, <<>>) /\ Begins(old, <<ch>>) = Append(above, <<ch>>)
  BY <1>1, Zenon DEF Begins
<1> HIDE DEF above
<1>6. Len(above) + 1 = r2 + 1
  BY <1>2, <1>4, <1>5, AppendProperties
<1>7. new = Append(above, <<ch>>)
  BY <1>1, <1>3, <1>4, <1>5, <1>6, FirstOfLine, Zenon
<1> QED
  BY <1>5, <1>7, Zenon DEF old, new, b2, r2

\* The last character of the last line is taken away.
LEMMA TakenLines ==
  ASSUME NEW b, NEW r, NEW c, Proper(b, r, c), c # 0
  PROVE  LinesIn(With(b, c - 1, r, NUL), r, c - 1)
           = [LinesIn(b, r, c) EXCEPT ![r + 1] = SubSeq(@, 1, Len(@) - 1)]
<1> DEFINE w == With(b, c - 1, r, NUL)
           old == LinesIn(b, r, c)
           new == LinesIn(w, r, c - 1)
           last == old[r + 1]
           short == SubSeq(last, 1, c - 1)
<1>1. /\ Proper(w, r, c - 1) /\ r \in Rows /\ r \in Nat /\ c \in Columns /\ c \in Nat
      /\ c - 1 \in Columns /\ c - 1 \in Nat
  <2>1. Proper(w, r, c - 1)
    BY TakeProper, Zenon
  <2>2. r \in Rows /\ c \in Columns /\ c - 1 \in Columns
    BY <2>1, Zenon DEF Proper
  <2> QED
    BY <2>1, <2>2 DEF Rows, Columns
<1>2. \A x \in Columns, y \in Rows : w[Index(x, y)] = IF x = c - 1 /\ y = r THEN NUL ELSE b[Index(x, y)]
  BY <1>1, WithCells DEF Proper, Characters
<1> HIDE DEF w
<1>3. LengthIn(b, r, c, r) = c /\ LengthIn(w, r, c - 1, r) = c - 1
  BY Zenon DEF LengthIn
<1>4. /\ old \in Seq(Seq(Characters)) /\ new \in Seq(Seq(Characters))
      /\ Len(old) = r + 1 /\ Len(new) = r + 1 /\ r + 1 \in 1 .. r + 1
  BY <1>1, LinesAre
<1>5. last \in Seq(Characters) /\ Len(last) = c
  BY <1>1, <1>3, LineIs
<1>6. new[r + 1] = short /\ short \in Seq(Characters)
  <2>1. \A x \in Nat : x < c => last[x + 1] = b[Index(x, r)]
    BY <1>1, <1>3, LineIs
  <2>2. /\ new[r + 1] \in Seq(Characters) /\ Len(new[r + 1]) = c - 1
        /\ \A x \in Nat : x < c - 1 => new[r + 1][x + 1] = w[Index(x, r)]
    BY <1>1, <1>3, LineIs
  <2> HIDE DEF last, new
  <2>3. short \in Seq(Characters) /\ Len(short) = c - 1 /\ \A i \in 1 .. c - 1 : short[i] = last[i]
    BY <1>1, <1>5
  <2> HIDE DEF short
  <2>4. ASSUME NEW i \in 1 .. c - 1 PROVE new[r + 1][i] = short[i]
    <3>1. PICK x \in Nat : i = x + 1 /\ x < c - 1 /\ x < c /\ x # c - 1 /\ x \in Columns
      <4>1. i - 1 \in Nat /\ i = i - 1 + 1 /\ i - 1 < c - 1 /\ i - 1 < c /\ i - 1 # c - 1 /\ i - 1 \in Columns
        BY <1>1, Sizes DEF Columns
      <4> QED
        BY <4>1, Zenon
    <3> QED
      BY <1>1, <1>2, <2>1, <2>2, <2>3, <3>1, Zenon
  <2> QED
    BY <2>2, <2>3, <2>4, SeqEqual, Zenon
<1>7. ASSUME NEW z \in 1 .. r + 1, z # r + 1 PROVE new[z] = old[z]
  <2>1. PICK y \in Rows : z = y + 1 /\ y < r
    BY <1>1, <1>7, RowOfLine, Zenon
  <2>2. \A x \in Columns : w[Index(x, y)] = b[Index(x, y)]
    BY <1>1, <1>2, <2>1 DEF Rows
  <2> QED
    BY <1>1, <2>1, <2>2, LineKept
<1> HIDE DEF old, new
<1>8. [old EXCEPT ![r + 1] = SubSeq(@, 1, Len(@) - 1)] = [old EXCEPT ![r + 1] = short]
  BY <1>4, <1>5, Zenon
<1> HIDE DEF last, short
<1>9. LET e == [old EXCEPT ![r + 1] = short] IN
      /\ e \in Seq(Seq(Characters)) /\ Len(e) = r + 1
      /\ \A z \in 1 .. r + 1 : e[z] = IF z = r + 1 THEN short ELSE old[z]
  BY <1>4, <1>6, ExceptSeq
<1>10. new = [old EXCEPT ![r + 1] = short]
  BY <1>4, <1>6, <1>7, <1>9, SeqEqual
<1> QED
  BY <1>8, <1>10, Zenon DEF old, new, w

\* The last line, which is empty, is taken away.
LEMMA JoinedLines ==
  ASSUME NEW b, NEW r, Proper(b, r, 0), r # 0, NEW n \in Columns, Ended(b, r - 1, n)
  PROVE  LinesIn(With(b, n, r - 1, NUL), r - 1, n) = SubSeq(LinesIn(b, r, 0), 1, r)
<1> DEFINE q == r - 1
           w == With(b, n, q, NUL)
           old == LinesIn(b, r, 0)
           new == LinesIn(w, q, n)
           short == SubSeq(old, 1, r)
<1>1. /\ Proper(w, q, n) /\ r \in Rows /\ q \in Rows /\ r \in Nat /\ q \in Nat
      /\ q + 1 = r /\ q < r /\ q <= r /\ q # r /\ q <= q
  <2>1. Proper(w, q, n)
    BY JoinProper, Zenon
  <2>2. r \in Rows /\ q \in Rows
    BY <2>1, Zenon DEF Proper
  <2> QED
    BY <2>1, <2>2 DEF Rows
<1>2. Ended(b, q, n)
  BY Zenon
<1>3. \A x \in Columns, y \in Rows : w[Index(x, y)] = IF x = n /\ y = q THEN NUL ELSE b[Index(x, y)]
  BY <1>1, WithCells DEF Proper, Characters
<1> HIDE DEF w, q
<1>4. /\ old \in Seq(Seq(Characters)) /\ new \in Seq(Seq(Characters))
      /\ Len(old) = r + 1 /\ Len(new) = r
  <2>1. Len(new) = q + 1
    BY <1>1, LinesAre, Zenon
  <2> QED
    BY <1>1, <2>1, LinesAre, Zenon
<1>5. ASSUME NEW z \in 1 .. r PROVE new[z] = old[z]
  <2>1. PICK y \in Rows : z = y + 1 /\ y <= q /\ (z # q + 1 => y < q) /\ (z = q + 1 => y = q)
    BY <1>1, RowOfLine, Zenon
  <2>2. CASE z = q + 1
    <3>1. LengthIn(w, q, n, q) = n
      BY Zenon DEF LengthIn
    <3>2. LengthIn(b, r, 0, q) = n
      BY <1>1, <1>2, EndedLength, Zenon
    <3>3. \A x \in Columns : x < n => w[Index(x, q)] = b[Index(x, q)]
      BY <1>1, <1>3 DEF Columns
    <3> QED
      BY <1>1, <2>1, <2>2, <3>1, <3>2, <3>3, LineSame
  <2>3. CASE z # q + 1
    <3>1. y < r /\ y # q
      BY <1>1, <2>1, <2>3 DEF Rows
    <3>2. \A x \in Columns : w[Index(x, y)] = b[Index(x, y)]
      BY <1>1, <1>3, <3>1, Zenon
    <3> QED
      BY <1>1, <2>1, <2>3, <3>1, <3>2, LineKept
  <2> QED
    BY <2>2, <2>3, Zenon
<1> HIDE DEF old, new
<1>6. short \in Seq(Seq(Characters)) /\ Len(short) = r /\ \A z \in 1 .. r : short[z] = old[z]
  BY <1>1, <1>4
<1> HIDE DEF short
<1>7. new = short
  BY <1>4, <1>5, <1>6, SeqEqual, Zenon
<1> QED
  BY <1>7, Zenon DEF new, short, old, w, q

\* The steps of the screen, of the text before and after.
Shows(text, next) ==
  LET last == text[Len(text)] IN
  \/ next = text
  \/ next = Begins(text, <<>>)
  \/ last # <<>> /\ next = [text EXCEPT ![Len(text)] = SubSeq(@, 1, Len(@) - 1)]
  \/ last = <<>> /\ Len(text) > 1 /\ next = SubSeq(text, 1, Len(text) - 1)
  \/ \E ch \in Glyphs : next = IF Len(last) = WIDTH THEN Begins(text, <<ch>>)
                               ELSE [text EXCEPT ![Len(text)] = Append(@, ch)]

\* Whatever is written to a proper terminal is a step of the screen.
LEMMA WrittenShows ==
  ASSUME NEW b, NEW r, NEW c, Proper(b, r, c),
         NEW data \in Glyphs \cup {NUL, NL, BS, TAB}, ~(data = BS /\ c = 0 /\ r > 1)
  PROVE  LET t == written(Terminal(b, r, c), data)
         IN  Shows(LinesIn(b, r, c), LinesIn(t.buffer, t.row, t.column))
<1> DEFINE t == written(Terminal(b, r, c), data)
           text == LinesIn(b, r, c)
           next == LinesIn(t.buffer, t.row, t.column)
           last == text[Len(text)]
<1> SUFFICES Shows(text, next)
  BY Zenon
<1> HIDE DEF t
<1>0. ASSUME NEW w, NEW k, NEW n, t = Terminal(w, k, n) PROVE next = LinesIn(w, k, n)
  <2>1. /\ Terminal(w, k, n).buffer = w /\ Terminal(w, k, n).row = k
        /\ Terminal(w, k, n).column = n
    BY Zenon DEF Terminal
  <2>2. t.buffer = w /\ t.row = k /\ t.column = n
    BY <1>0, <2>1, Zenon
  <2> QED
    BY <2>2, Zenon
<1>1. r \in Rows /\ r \in Nat /\ r <= r /\ c \in Nat
  BY DEF Proper, Rows, Columns
<1>2. text \in Seq(Seq(Characters)) /\ Len(text) = r + 1
  BY LinesAre, Zenon
<1>3. last \in Seq(Characters) /\ Len(last) = c /\ (last = <<>> <=> c = 0)
  <2>1. LengthIn(b, r, c, r) = c
    BY Zenon DEF LengthIn
  <2>2. last \in Seq(Characters) /\ Len(last) = c
    BY <1>1, <1>2, <2>1, LineIs
  <2> QED
    BY <2>2, EmptySeq, Zenon
<1>4. CASE data \in Glyphs
  <2>1. CASE c # WIDTH
    <3>1. t = Terminal(With(b, c, r, data), r, c + 1)
      BY <1>4, <2>1, TypedIs DEF Types, t
    <3>2. next = [text EXCEPT ![r + 1] = Append(@, data)]
      <4>1. next = LinesIn(With(b, c, r, data), r, c + 1)
        BY <1>0, <3>1, Zenon
      <4>2. LinesIn(With(b, c, r, data), r, c + 1) = [LinesIn(b, r, c) EXCEPT ![r + 1] = Append(@, data)]
        BY <1>4, <2>1, TypedLines
      <4> QED
        BY <4>1, <4>2, Zenon
    <3> HIDE DEF next, text
    <3> QED
      BY <1>2, <1>3, <1>4, <2>1, <3>2, Zenon DEF Shows
  <2>2. CASE c = WIDTH
    <3>1. t = Terminal(With(BufferBehind(b, r, c), 0, RowBehind(r), data), RowBehind(r), 1)
      BY <1>4, <2>2, TypedIs, Zenon DEF Types, t
    <3>2. next = Begins(text, <<data>>)
      <4>1. next = LinesIn(With(BufferBehind(b, r, c), 0, RowBehind(r), data), RowBehind(r), 1)
        BY <1>0, <3>1, Zenon
      <4> QED
        BY <1>4, <4>1, BrokenLines
    <3> HIDE DEF next, text
    <3> QED
      BY <1>2, <1>3, <1>4, <2>2, <3>2, Zenon DEF Shows
  <2> QED
    BY <2>1, <2>2, Zenon
<1>5. CASE data = NL
  <2>1. t = Terminal(BufferBehind(b, r, c), RowBehind(r), 0)
    BY <1>5, ReturnedIs, Zenon DEF Returns, t
  <2>2. next = Begins(text, <<>>)
    <3>1. next = LinesIn(BufferBehind(b, r, c), RowBehind(r), 0)
      BY <1>0, <2>1, Zenon
    <3> QED
      BY <3>1, ReturnedLines, Zenon
  <2> HIDE DEF next, text
  <2> QED
    BY <2>2, Zenon DEF Shows
<1>6. CASE data = BS
  <2>1. Erases(b, r, c, t)
    BY <1>6, ErasedIs, Zenon DEF t
  <2>2. CASE c # 0 /\ t = Terminal(With(b, c - 1, r, NUL), r, c - 1)
    <3>1. next = [text EXCEPT ![r + 1] = SubSeq(@, 1, Len(@) - 1)]
      <4>1. next = LinesIn(With(b, c - 1, r, NUL), r, c - 1)
        BY <1>0, <2>2, Zenon
      <4>2. LinesIn(With(b, c - 1, r, NUL), r, c - 1)
              = [LinesIn(b, r, c) EXCEPT ![r + 1] = SubSeq(@, 1, Len(@) - 1)]
        BY <2>2, TakenLines, Zenon
      <4> QED
        BY <4>1, <4>2, Zenon
    <3> HIDE DEF next, text
    <3> QED
      BY <1>2, <1>3, <2>2, <3>1, Zenon DEF Shows
  <2>3. ASSUME c = 0, r # 0, NEW n \in Columns, Ended(b, r - 1, n),
               t = Terminal(With(b, n, r - 1, NUL), r - 1, n)
        PROVE  Shows(text, next)
    <3>1. next = SubSeq(text, 1, r)
      <4>1. next = LinesIn(With(b, n, r - 1, NUL), r - 1, n)
        BY <1>0, <2>3, Zenon
      <4> QED
        BY <2>3, <4>1, JoinedLines
    <3> HIDE DEF next, text, last
    <3>2. last = <<>>
      BY <1>3, <2>3, Zenon
    <3>3. Len(text) > 1 /\ Len(text) - 1 = r
      BY <1>1, <1>2, <2>3
    <3>4. last = <<>> /\ Len(text) > 1 /\ next = SubSeq(text, 1, Len(text) - 1)
      BY <3>1, <3>2, <3>3, Zenon
    <3> USE DEF last
    <3> QED
      BY <3>4, Zenon DEF Shows
  <2>4. CASE t = Terminal(b, r, c)
    <3>1. next = text
      BY <1>0, <2>4, Zenon
    <3> HIDE DEF next, text
    <3> QED
      BY <3>1, Zenon DEF Shows
  <2> QED
    BY <2>1, <2>2, <2>3, <2>4, Zenon DEF Erases
<1>7. CASE data \notin Glyphs \cup {NL, BS}
  <2>1. t = Terminal(b, r, c)
    BY <1>7, Zenon DEF written, t
  <2> QED
    <3>1. next = text
      BY <1>0, <2>1, Zenon
    <3> HIDE DEF next, text
    <3> QED
      BY <3>1, Zenon DEF Shows
<1> QED
  BY <1>4, <1>5, <1>6, <1>7, Zenon

\* tty.c, with the keyboard, implements a screen: what terminal_write does to the buffer
\* is to type, to begin a line or to erase, or nothing.
THEOREM TerminalImplementsScreen == TtySpec => ImplementsScreen
<1>1. TtyInit => Screen!Init
  <2> SUFFICES ASSUME TtyInit PROVE lines = << <<>> >>
    BY Zenon DEF Screen!Init
  <2>1. row = 0 /\ column = 0
    BY Zenon DEF TtyInit
  <2>2. TextLength(0) = 0
    BY <2>1, Zenon DEF TextLength
  <2>3. lines = LinesIn(tty_buffer, 0, 0) /\ Proper(tty_buffer, 0, 0)
    BY <2>1, TextIs, TtyInitInv, Zenon DEF TtyInv
  <2>4. lines \in Seq(Seq(Characters)) /\ Len(lines) = 1
    BY <2>3, LinesAre
  <2>5. PICK z : z = 0
    BY Zenon
  <2>6. lines[z + 1] \in Seq(Characters) /\ Len(lines[z + 1]) = 0
    <3>1. lines = LinesIn(tty_buffer, z, z) /\ Proper(tty_buffer, z, z) /\ z \in Rows /\ z <= z
      BY <2>3, <2>5 DEF Proper
    <3>2. LengthIn(tty_buffer, z, z, z) = z
      BY Zenon DEF LengthIn
    <3> QED
      BY <2>5, <3>1, <3>2, LineIs, Zenon
  <2>7. lines[1] = <<>>
    BY <2>5, <2>6, EmptySeq
  <2> QED
    BY <2>4, <2>7
<1>2. TtyInv /\ TtyInv' /\ [TtyNext]_ttyVars => [Screen!Next]_lines
  <2> SUFFICES ASSUME TtyInv, TtyInv', [TtyNext]_ttyVars PROVE [Screen!Next]_lines
    BY Zenon
  <2>1. CASE UNCHANGED screen
    BY <2>1, Zenon DEF screen, lines, TextLength, Char
  <2>2. ASSUME NEW scancode \in Scancodes, ~(Misplaced /\ BackspaceKey(scancode)),
               keystroke_handler(scancode), ~UNCHANGED screen
        PROVE  [Screen!Next]_lines
    <3> DEFINE data == keycode_to_ascii[scancode + 1]
               t == written(Terminal(tty_buffer, row, column), data)
    <3>1. /\ scancode \in 0 .. 83 /\ data \in Glyphs \cup {NUL, NL, BS, TAB}
          /\ terminal_write(data)
      BY <2>2, KeyIs, Zenon
    <3>2. ~(data = BS /\ column = 0 /\ row > 1)
      BY <2>2, <3>1 DEF Misplaced, BackspaceKey
    <3>3. tty_buffer' = t.buffer /\ row' = t.row /\ column' = t.column
      BY <3>1, Zenon DEF terminal_write
    <3>4. lines = LinesIn(tty_buffer, row, column) /\ lines' = LinesIn(tty_buffer', row', column')
      <4>1. lines = LinesIn(tty_buffer, row, column)
        BY TextIs, Zenon
      <4>2. lines' = LinesIn(tty_buffer', row', column')
        BY Zenon DEF lines, LinesIn, TextLength, LengthIn, Char, Index
      <4> QED
        BY <4>1, <4>2, Zenon
    <3> HIDE DEF data
    <3>5. Shows(lines, lines')
      BY <3>1, <3>2, <3>3, <3>4, WrittenShows, Zenon DEF TtyInv
    <3> QED
      BY <3>5, Zenon DEF Shows, Begins, Screen!Next, Screen!NewLine, Screen!Erase, Screen!Type,
                  Screen!Begin, Screen!Last
  <2>3. UNCHANGED screen \/ \E scancode \in Scancodes :
          ~(Misplaced /\ BackspaceKey(scancode)) /\ keystroke_handler(scancode)
    BY Zenon DEF TtyNext, AskSet, ReadSet, ttyVars
  <2> QED
    BY <2>1, <2>2, <2>3, Zenon
<1> QED
  BY <1>1, <1>2, TerminalInvariance, PTL DEF TtySpec, ImplementsScreen, Screen!Spec

=============================================================================
