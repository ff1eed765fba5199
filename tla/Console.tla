------------------------------ MODULE Console ------------------------------
(***************************************************************************)
(* The line editor of the SimpleOS shell (the main loop of kmain) and the  *)
(* text screen it echoes to (vga.c).  One step handles one event: a key, a *)
(* backspace, Enter with the command it runs, or a mouse click, which      *)
(* prints a message and the line again.                                    *)
(***************************************************************************)
EXTENDS Integers, Sequences

CONSTANTS
  Width, Height,      \* VGA_WIDTH, VGA_HEIGHT
  Tab,                \* the distance of tab stops, 8
  BufferSize,         \* CMD_BUFFER_SIZE
  Chars,              \* characters that can be typed
  Prompt,             \* "kernel> "
  Notice,             \* what a click prints
  Outputs             \* what commands print

VARIABLES
  line,       \* cmd_buffer up to cmd_pos
  vga,        \* [buffer, row, col]: vga_buffer, vga_row, vga_col
  stuck       \* history: a character of this line was deleted at column 0

vars == <<line, vga, stuck>>

Cells == 0 .. Width * Height - 1
Blank == " "

(* vga_clear *)
Cleared == [buffer |-> [i \in Cells |-> Blank], row |-> 0, col |-> 0]

Pos(v) == v.row * Width + v.col

scroll(v) ==
  IF v.row >= Height
  THEN [v EXCEPT !.buffer = [i \in Cells |-> IF i + Width \in Cells THEN @[i + Width] ELSE Blank],
                 !.row = Height - 1]
  ELSE v

NewRow(v) == [v EXCEPT !.col = 0, !.row = @ + 1]

(* The screen and the cursor after a character; the column may be Width. *)
Moved(v, c) ==
  CASE c = "LF" -> NewRow(v)
    [] c = "CR" -> [v EXCEPT !.col = 0]
    [] c = "TAB" -> [v EXCEPT !.col = (@ \div Tab + 1) * Tab]
    [] c = "BS" -> IF v.col > 0
                   THEN [v EXCEPT !.buffer[Pos(v) - 1] = Blank, !.col = @ - 1]
                   ELSE v
    [] OTHER -> [v EXCEPT !.buffer[Pos(v)] = c, !.col = @ + 1]

vga_putchar(v, c) ==
  LET w == Moved(v, c) IN scroll(IF w.col >= Width THEN NewRow(w) ELSE w)

(* printf of the characters of s. *)
printf(v, s) ==
  LET p[n \in 0 .. Len(s)] == IF n = 0 THEN v ELSE vga_putchar(p[n - 1], s[n])
  IN  p[Len(s)]

(* The shell starts below the last lines kmain prints. *)
Init ==
  /\ \E out \in Outputs : vga = printf(Cleared, out \o Prompt)
  /\ line = <<>> /\ stuck = FALSE

-----------------------------------------------------------------------------
(* The cases of the switch in kmain. *)

Key(c) ==
  /\ Len(line) < BufferSize - 1
  /\ line' = Append(line, c)
  /\ vga' = vga_putchar(vga, c)
  /\ UNCHANGED stuck

Backspace ==
  /\ line # <<>>
  /\ line' = SubSeq(line, 1, Len(line) - 1)
  /\ vga' = vga_putchar(vga, "BS")
  /\ stuck' = (stuck \/ vga.col = 0)

(* The command prints something, or is clear. *)
Enter ==
  /\ \E out \in Outputs : vga' = printf(printf(vga, <<"LF">> \o out), Prompt)
  /\ line' = <<>> /\ stuck' = FALSE

EnterClear ==
  /\ vga' = printf(Cleared, Prompt)
  /\ line' = <<>> /\ stuck' = FALSE

Click ==
  /\ vga' = printf(vga, <<"LF">> \o Notice \o <<"LF">> \o Prompt \o line)
  /\ stuck' = FALSE
  /\ UNCHANGED line

Next == (\E c \in Chars : Key(c)) \/ Backspace \/ Enter \/ EnterClear \/ Click

Spec == Init /\ [][Next]_vars
-----------------------------------------------------------------------------
Shown == Prompt \o line

(* The screen shows the prompt and the line that Enter will run, as far as *)
(* they have not scrolled off, right before the cursor, over wrapped rows, *)
(* clicks and scrolling; unless a character was deleted at column 0, where *)
(* the line gets shorter and vga_putchar does nothing.  Nothing is left    *)
(* after the cursor of what was deleted.                                   *)
EchoMatches ==
  /\ \A i \in Cells : i >= Pos(vga) => vga.buffer[i] = Blank
  /\ ~stuck => \A i \in 0 .. Len(Shown) - 1 :
       Pos(vga) - 1 - i >= 0 => vga.buffer[Pos(vga) - 1 - i] = Shown[Len(Shown) - i]

=============================================================================
