------------------------------- MODULE Screen -------------------------------
(***************************************************************************)
(* What the terminal promises: the last HEIGHT lines of a text that grows  *)
(* and shrinks at its end, in lines of at most WIDTH characters.           *)
(***************************************************************************)
EXTENDS Naturals, Sequences

CONSTANTS WIDTH, HEIGHT, Glyphs

VARIABLE lines  \* the lines on the screen, the one with the cursor last

Last == lines[Len(lines)]

\* The lines with one more below, the first gone if there is no room.
Begin(line) ==
  IF Len(lines) = HEIGHT THEN Append(Tail(lines), line) ELSE Append(lines, line)

Init == lines = << <<>> >>

Type(c) ==
  lines' = IF Len(Last) = WIDTH THEN Begin(<<c>>)
           ELSE [lines EXCEPT ![Len(lines)] = Append(@, c)]

NewLine == lines' = Begin(<<>>)

\* Backspace takes a character from the line or, at its start, the line itself.
Erase ==
  \/ /\ Last # <<>>
     /\ lines' = [lines EXCEPT ![Len(lines)] = SubSeq(@, 1, Len(@) - 1)]
  \/ /\ Last = <<>>
     /\ Len(lines) > 1
     /\ lines' = SubSeq(lines, 1, Len(lines) - 1)

Next == NewLine \/ Erase \/ \E c \in Glyphs : Type(c)

Spec == Init /\ [][Next]_lines

=============================================================================
