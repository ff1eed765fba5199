---------------------------- MODULE OSTwoScreen ----------------------------
(***************************************************************************)
(* The text screen of OS/Two (vga.cpp) under its shell: printPrompt, the   *)
(* echo of readLine, and the output of a command.  A cell holds a          *)
(* character and a colour; the background is black.  What a line means is  *)
(* left to OSTwoShell.                                                     *)
(***************************************************************************)
EXTENDS Integers, Sequences

CONSTANTS
  Width, Height,      \* VGA::WIDTH, VGA::HEIGHT
  Tab,                \* the distance of tab stops, 8
  MaxCmdLength,       \* MAX_CMD_LENGTH
  Chars,              \* characters that can be typed
  Dirs,               \* the texts that current_dir may be
  Outputs             \* what commands print

VARIABLES
  cmd_buffer,     \* up to cmd_pos
  current_dir,
  vga             \* [video_memory, cursor_x, cursor_y, current_color]

vars == <<cmd_buffer, current_dir, vga>>

Cells == 0 .. Width * Height - 1
Colors == {"GREY", "CYAN", "WHITE", "YELLOW", "GREEN"}
Pos(v) == v.cursor_y * Width + v.cursor_x
Blank(v) == <<" ", v.current_color>>

-----------------------------------------------------------------------------
setColor(v, color) == [v EXCEPT !.current_color = color]

clear(v) ==
  [v EXCEPT !.video_memory = [i \in Cells |-> Blank(v)], !.cursor_x = 0, !.cursor_y = 0]

scroll(v) ==
  [v EXCEPT !.video_memory = [i \in Cells |-> IF i + Width \in Cells THEN @[i + Width] ELSE Blank(v)],
            !.cursor_y = Height - 1]

NewRow(v) == [v EXCEPT !.cursor_x = 0, !.cursor_y = @ + 1]

(* Mutant: the cursor stays where it is at the start of a row. *)
backspaceInRow(v) ==
  IF v.cursor_x = 0 THEN v
  ELSE [v EXCEPT !.video_memory[Pos(v) - 1] = Blank(v), !.cursor_x = @ - 1]

(* To the cell before the cursor, which may be the last of the row above. *)
backspace(v) ==
  IF v.cursor_x > 0
  THEN [v EXCEPT !.video_memory[Pos(v) - 1] = Blank(v), !.cursor_x = @ - 1]
  ELSE IF v.cursor_y > 0
  THEN [v EXCEPT !.video_memory[Pos(v) - 1] = Blank(v),
                 !.cursor_x = Width - 1, !.cursor_y = @ - 1]
  ELSE v

(* The cursor moves before its column and its row are brought back. *)
Moved(v, c) ==
  CASE c = "LF" -> NewRow(v)
    [] c = "CR" -> [v EXCEPT !.cursor_x = 0]
    [] c = "TAB" -> [v EXCEPT !.cursor_x = ((@ + Tab) \div Tab) * Tab]
    [] OTHER -> [v EXCEPT !.video_memory[Pos(v)] = <<c, v.current_color>>, !.cursor_x = @ + 1]

putchar(v, c) ==
  LET moved == Moved(v, c)
      wrapped == IF moved.cursor_x >= Width THEN NewRow(moved) ELSE moved
  IN  IF c = "BS" THEN backspace(v)
      ELSE IF wrapped.cursor_y >= Height THEN scroll(wrapped) ELSE wrapped

puts(v, s) ==
  LET p[n \in 0 .. Len(s)] == IF n = 0 THEN v ELSE putchar(p[n - 1], s[n])
  IN  p[Len(s)]

-----------------------------------------------------------------------------
(* The prompt: the directory in brackets, and a dollar sign for "$ ". *)
PromptText(dir) == <<"[">> \o dir \o <<"]", "$">>
PromptColors(dir) == <<"CYAN">> \o [i \in 1 .. Len(dir) |-> "WHITE"] \o <<"CYAN", "YELLOW">>

printPrompt(v, dir) ==
  LET open == puts(setColor(v, "CYAN"), <<"[">>)
      name == puts(setColor(open, "WHITE"), dir)
      close == puts(setColor(name, "CYAN"), <<"]">>)
      dollar == puts(setColor(close, "YELLOW"), <<"$">>)
  IN  setColor(dollar, "GREY")

(* VGA::init, and the screen that kernel_main clears behind the boot       *)
(* screen.                                                                 *)
Cleared == clear([video_memory |-> <<>>, cursor_x |-> 0, cursor_y |-> 0,
                  current_color |-> "GREY"])

(* kernel_main: print_welcome, and the first prompt. *)
Init ==
  /\ cmd_buffer = <<>>
  /\ \E dir \in Dirs, out \in Outputs :
       /\ current_dir = dir
       /\ vga = printPrompt(puts(Cleared, out), dir)

(* readLine for a printable character: one that does not fit is not        *)
(* echoed.                                                                 *)
Key(c) ==
  /\ Len(cmd_buffer) < MaxCmdLength - 1
  /\ cmd_buffer' = Append(cmd_buffer, c)
  /\ vga' = putchar(vga, c)
  /\ UNCHANGED current_dir

Backspace ==
  /\ cmd_buffer # <<>>
  /\ cmd_buffer' = SubSeq(cmd_buffer, 1, Len(cmd_buffer) - 1)
  /\ vga' = putchar(vga, "BS")
  /\ UNCHANGED current_dir

(* Enter: the command prints in any colour, and COLOR and the commands     *)
(* that print leave their colour behind; CD may change the prompt.         *)
Enter(out, color, dir) ==
  /\ vga' = printPrompt(puts(setColor(putchar(vga, "LF"), color), out), dir)
  /\ current_dir' = dir
  /\ cmd_buffer' = <<>>

(* The CLS command. *)
cmd_cls ==
  /\ vga' = printPrompt(clear(putchar(vga, "LF")), current_dir)
  /\ cmd_buffer' = <<>> /\ UNCHANGED current_dir

Next ==
  \/ \E c \in Chars : Key(c)
  \/ Backspace
  \/ \E out \in Outputs, color \in {"GREY", "GREEN"}, dir \in Dirs : Enter(out, color, dir)
  \/ cmd_cls

Spec == Init /\ [][Next]_vars
-----------------------------------------------------------------------------
Shown ==
  LET prompt == [i \in 1 .. Len(PromptText(current_dir)) |->
                   <<PromptText(current_dir)[i], PromptColors(current_dir)[i]>>]
  IN  prompt \o [i \in 1 .. Len(cmd_buffer) |-> <<cmd_buffer[i], "GREY">>]

(* Right before the cursor the screen shows the prompt and the line that   *)
(* Enter will run, over wrapped rows and scrolling, however often it was   *)
(* edited across the edge of a row; backspaces never reach the prompt, and *)
(* behind the cursor nothing is left of what was deleted.  The line is     *)
(* always grey: the colour that COLOR sets is gone when the next prompt    *)
(* has been printed.                                                       *)
EchoMatches ==
  /\ \A i \in Cells : i >= Pos(vga) => vga.video_memory[i][1] = " "
  /\ \A i \in 0 .. Len(Shown) - 1 :
       vga.video_memory[Pos(vga) - 1 - i] = Shown[Len(Shown) - i]
=============================================================================
