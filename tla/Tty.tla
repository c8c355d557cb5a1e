-------------------------------- MODULE Tty --------------------------------
(***************************************************************************)
(* The terminal, tty.c, and the keyboard that writes to it: init_keyboard  *)
(* asks the keyboard for its scancode set, and for every byte it sends     *)
(* afterwards the interrupt handler keystroke_handler calls handle_set1,   *)
(* key_pressed and, through printf, terminal_write.                        *)
(*                                                                         *)
(* tty_buffer has HEIGHT rows of WIDTH + 1 cells; the last cell of a row   *)
(* only ever holds its newline.  What a character looks like on the        *)
(* framebuffer is left out, which character is drawn where is not.         *)
(***************************************************************************)
EXTENDS Integers, Sequences, FiniteSetsExt

CONSTANTS
  WIDTH, HEIGHT,   \* TERMINAL_WIDTH, TERMINAL_HEIGHT
  MAX_RETRY,       \* how often init_keyboard asks again
  Scancodes        \* the bytes the keyboard sends

ASSUME TtyAssumption ==
  /\ WIDTH \in Nat \ {0} /\ HEIGHT \in Nat \ {0} /\ MAX_RETRY \in Nat
  /\ Scancodes \subseteq 0 .. 255

NUL == "NUL"
NL == "NL"
BS == "BS"
TAB == "TAB"

\* The character of each key, by the key's code; the code 0 comes first.
keycode_to_ascii ==
  <<NUL, NUL, "1", "2", "3", "4", "5", "6", "7", "8", "9", "0", "-", "+", BS, TAB,
    "q", "w", "e", "r", "t", "y", "u", "i", "o", "p", "]", "[", NL, NUL,
    "a", "s", "d", "f", "g", "h", "j", "k", "l", ";", "quote", "grave", NUL, "backslash",
    "z", "x", "c", "v", "b", "n", "m", ",", ".", "/", NUL, "*", NUL, " ", NUL,
    NUL, NUL, NUL, NUL, NUL, NUL, NUL, NUL, NUL, NUL, NUL, NUL,
    "7", "8", "9", "-", "4", "5", "6", "+", "1", "2", "3", "0", ".">>

\* The printable characters, 0x20 to 0x7E, of the keys there are.
Glyphs == {keycode_to_ascii[code + 1] : code \in Scancodes \cap 0 .. 83} \ {NUL, NL, BS, TAB}

VARIABLES
  tty_buffer, row, column,
  display,        \* the character drawn in each place of the framebuffer
  scancode_set,   \* the keyboard: the set its bytes come from, 0 before init_keyboard,
  retry,          \* init_keyboard's count of refused requests, -1 once one was taken,
  last_scancode   \* and whether the last byte was the prefix 0xE0

screen == <<tty_buffer, row, column, display>>
ttyVars == <<screen, scancode_set, retry, last_scancode>>

STRIDE == WIDTH + 1
TtyCells == 0 .. HEIGHT * STRIDE - 1
Places == (0 .. WIDTH - 1) \X (0 .. HEIGHT - 1)

-----------------------------------------------------------------------------
(* tty.c.  t is the buffer with the cursor.                                *)

Terminal(b, r, c) == [buffer |-> b, row |-> r, column |-> c]

At(t) == t.column + t.row * STRIDE

\* The buffer with a character at the cursor.
Put(t, c) == [t.buffer EXCEPT ![At(t)] = c]

terminal_move_up(b) ==
  [i \in TtyCells |-> IF i + STRIDE \in TtyCells THEN b[i + STRIDE] ELSE NUL]

\* BUG: the cursor goes back to the top instead of the lines moving up.
terminal_returnTop(t) ==
  Terminal(Put(t, NL), (t.row + 1) % HEIGHT, 0)

terminal_return(t) ==
  IF t.row + 1 = HEIGHT THEN Terminal(terminal_move_up(Put(t, NL)), t.row, 0)
  ELSE Terminal(Put(t, NL), t.row + 1, 0)

terminal_putchar(t, c) ==
  LET u == IF t.column = WIDTH THEN terminal_return(t) ELSE t
  IN  Terminal(Put(u, c), u.row, u.column + 1)

\* Where the search for the newline of row r ends: its index is computed with
\* WIDTH - 1 for the length of a row.  Behind the buffer it meets what the heap
\* holds; it ends there at the latest, at some column.
NewlineOf(t, r) ==
  LET found == {x \in 0 .. HEIGHT * STRIDE :
                  x + r * (WIDTH - 1) \in TtyCells /\ t.buffer[x + r * (WIDTH - 1)] = NL}
  IN  IF found = {} THEN HEIGHT * STRIDE ELSE Min(found)

terminal_backspace(t) ==
  IF t.column # 0
  THEN LET u == terminal_putchar(Terminal(t.buffer, t.row, t.column - 1), NUL)
       IN  Terminal(u.buffer, u.row, u.column - 1)
  ELSE IF t.row # 0 THEN Terminal(t.buffer, t.row - 1, NewlineOf(t, t.row - 1))
  ELSE t

\* The character written over the erased one, which may lie outside the buffer.
Erased(t) == IF At(t) \in TtyCells THEN Terminal(Put(t, NUL), t.row, t.column) ELSE t

\* BUG: a newline at the end of a full row breaks the row twice.
writtenTwice(t, data) ==
  CASE data \in Glyphs -> terminal_putchar(t, data)
    [] data = BS -> Erased(terminal_backspace(t))
    [] data = NL -> terminal_return(IF t.column = WIDTH THEN terminal_return(t) ELSE t)
    [] OTHER -> t

written(t, data) ==
  CASE data \in Glyphs -> terminal_putchar(t, data)
    [] data = BS -> Erased(terminal_backspace(t))
    [] data = NL -> terminal_return(Terminal(Put(t, data), t.row, t.column))
    [] OTHER -> t

\* BUG: nothing is drawn for a cell without a character, and the old one stays.
terminal_renderText(b) ==
  [p \in Places |-> IF b[p[1] + p[2] * STRIDE] \in Glyphs THEN b[p[1] + p[2] * STRIDE]
                    ELSE display[p]]

terminal_render(b) ==
  [p \in Places |-> IF b[p[1] + p[2] * STRIDE] \in Glyphs THEN b[p[1] + p[2] * STRIDE]
                    ELSE " "]

\* terminal_initialize and terminal_clear, and the keyboard's variables at the start.
TtyInit ==
  /\ tty_buffer = [i \in TtyCells |-> NUL]
  /\ row = 0
  /\ column = 0
  /\ display = [p \in Places |-> " "]
  /\ scancode_set = 0
  /\ retry = 0
  /\ last_scancode = FALSE

terminal_write(data) ==
  LET t == written(Terminal(tty_buffer, row, column), data) IN
  /\ tty_buffer' = t.buffer
  /\ row' = t.row
  /\ column' = t.column
  /\ display' = terminal_render(t.buffer)

-----------------------------------------------------------------------------
(* The keyboard, in scancode set 1.                                        *)

SCANCODE_SET_1 == 67   \* 0x43
SCANCODE_SET_2 == 65   \* 0x41
RESEND == 254          \* 0xFE
EXTENDED == 224        \* 0xE0

\* One turn of the loop of init_keyboard: the keyboard is asked for its set and
\* answers sc.  It is asked again if it refuses, but not for ever.
AskSet(sc) ==
  /\ retry >= 0
  /\ retry' = IF sc = RESEND /\ retry < MAX_RETRY THEN retry + 1 ELSE -1
  /\ UNCHANGED <<screen, scancode_set, last_scancode>>

\* The rest of init_keyboard: the set the keyboard names counts only if the
\* controller does not translate it.
ReadSet(set, translated) ==
  /\ retry = -1
  /\ scancode_set = 0
  /\ scancode_set' = IF translated THEN SCANCODE_SET_1 ELSE set
  /\ UNCHANGED <<screen, retry, last_scancode>>

\* key_pressed.
key_pressed(code) ==
  IF code <= 83 THEN terminal_write(keycode_to_ascii[code + 1]) ELSE UNCHANGED screen

\* A byte behind the prefix, the prefix itself, a code above 0x58 and the release of
\* a key (bit 7) write nothing.
handle_set1(scancode) ==
  /\ last_scancode' = (scancode = EXTENDED)
  /\ IF ~last_scancode /\ scancode # EXTENDED /\ scancode % 128 <= 88 /\ scancode < 128
     THEN key_pressed(scancode) ELSE UNCHANGED screen

\* The keyboard's interrupt.  It is served once init_keyboard is done.
keystroke_handler(scancode) ==
  /\ scancode_set # 0
  /\ UNCHANGED <<scancode_set, retry>>
  /\ IF scancode_set = SCANCODE_SET_1 THEN handle_set1(scancode)
     ELSE UNCHANGED <<screen, last_scancode>>

\* The start of the third row or a later one: terminal_backspace looks for the newline
\* of the row above in the wrong cells there (tty.c:150).
Misplaced == column = 0 /\ row > 1

BackspaceKey(scancode) == scancode <= 83 /\ keycode_to_ascii[scancode + 1] = BS

TtyNext ==
  \/ \E sc \in {RESEND, 250} : AskSet(sc)
  \/ \E set \in {SCANCODE_SET_1, SCANCODE_SET_2}, translated \in BOOLEAN :
       ReadSet(set, translated)
  \/ \E scancode \in Scancodes :
       /\ ~(Misplaced /\ BackspaceKey(scancode))
       /\ keystroke_handler(scancode)

TtySpec == TtyInit /\ [][TtyNext]_ttyVars

-----------------------------------------------------------------------------
(* Properties.                                                             *)

Char(x, y) == tty_buffer[x + y * STRIDE]

\* The text in row y: up to its newline, or to the cursor.
TextLength(y) ==
  IF y = row THEN column ELSE Min({x \in 0 .. WIDTH : Char(x, y) = NL} \cup {WIDTH})

\* The rows above the cursor are text, ended by the one newline they have, and all
\* that lies behind the newline, behind the cursor or below it is blank: nothing of
\* what was erased or moved up comes back.
NothingLeftOver ==
  \A y \in 0 .. HEIGHT - 1 :
    LET n == TextLength(y) IN
    \A x \in 0 .. WIDTH :
      CASE y > row \/ x > n -> Char(x, y) = NUL
        [] y <= row /\ x < n -> Char(x, y) \in Glyphs
        [] y < row /\ x = n -> Char(x, y) = NL
        [] OTHER -> Char(x, y) = NUL

lines ==
  [y \in 1 .. row + 1 |-> [x \in 1 .. TextLength(y - 1) |-> Char(x - 1, y - 1)]]

\* The framebuffer shows the text and nothing else.
DisplayShowsText ==
  LET text == lines IN
  \A p \in Places :
    display[p] = IF p[2] <= row /\ p[1] < Len(text[p[2] + 1]) THEN text[p[2] + 1][p[1] + 1]
                 ELSE " "

Screen == INSTANCE Screen

\* The terminal is a screen that shows the end of what was typed; full lines are
\* broken, and the lines move up "rather than going back to the top" (TODO.md:18).
ImplementsScreen == Screen!Spec

=============================================================================
