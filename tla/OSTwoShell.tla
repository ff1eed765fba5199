----------------------------- MODULE OSTwoShell -----------------------------
(***************************************************************************)
(* The keyboard and the shell of OS/Two (OPUS4.5).  There are no           *)
(* interrupts: Shell::readLine polls the keyboard through getchar, and one *)
(* step handles one byte that the keyboard sends, up to where the shell    *)
(* polls again.  Enter runs the command and starts the next line.          *)
(*                                                                         *)
(* The names of commands, files and directories are words over a small     *)
(* alphabet; what a command prints is left to OSTwoScreen.                 *)
(***************************************************************************)
EXTENDS Naturals, Sequences

CONSTANTS
  Letters,            \* keys with a small letter, which names them, and
  Capital,            \* a capital one
  Others,             \* other printable keys
  MaxCmdLength,       \* MAX_CMD_LENGTH
  MaxArgs,            \* MAX_ARGS
  Command,            \* the command that each upper case word names
  Directories, Files, \* the names in root_files, upper case
  Up                  \* "..", "\" and "/"

VARIABLES
  shift_pressed, caps_lock,     \* Keyboard; ctrl_pressed and alt_pressed are never read
  cmd_buffer,                   \* Shell: up to cmd_pos
  current_dir,                  \* Shell: Root or Root with a name behind it
  halted,                       \* cmd_exit was run
  down                          \* the keys that are held and send a shift

keyboard == <<shift_pressed, caps_lock>>
vars == <<keyboard, cmd_buffer, current_dir, halted, down>>

(* A prefixed key may send a shift of its own (E0 2A .. E0 AA); getchar    *)
(* ignores the prefix and takes it for that of a shift key.                *)
Shifts == {"LSHIFT", "RSHIFT", "PREFIXED"}
Blank == " "
Root == <<>>

(* Keyboard::init and Shell::init. *)
Init ==
  /\ shift_pressed = FALSE /\ caps_lock = FALSE /\ down = {}
  /\ cmd_buffer = <<>> /\ current_dir = Root /\ halted = FALSE

-----------------------------------------------------------------------------
(* Caps Lock inverts the shift for letters; other keys here have one       *)
(* character.                                                              *)
scanToChar(key) ==
  IF key \notin Letters THEN key
  ELSE IF shift_pressed # caps_lock THEN Capital[key] ELSE key

(* Mutant: the words behind the last entry are lost. *)
parseCommandDrops(line) ==
  LET p[n \in 0 .. Len(line)] ==
        IF n = 0 THEN [args |-> <<>>, in_token |-> FALSE]
        ELSE LET s == p[n - 1]
                 c == line[n]
             IN  IF c = Blank THEN [s EXCEPT !.in_token = FALSE]
                 ELSE IF Len(s.args) = MaxArgs /\ ~s.in_token THEN s
                 ELSE IF s.in_token THEN [s EXCEPT !.args[Len(s.args)] = Append(@, c)]
                 ELSE [args |-> Append(s.args, <<c>>), in_token |-> TRUE]
  IN  p[Len(line)].args

(* Shell::parseCommand: args[k] starts at the first character of a word,   *)
(* and a blank behind it is overwritten by its end.  The scan stops when   *)
(* the last entry of args is taken, so that nothing ends that word before  *)
(* the end of the line.                                                    *)
parseCommand(line) ==
  LET p[n \in 0 .. Len(line)] ==
        IF n = 0 THEN [args |-> <<>>, in_token |-> FALSE]
        ELSE LET s == p[n - 1]
                 c == line[n]
             IN  IF Len(s.args) = MaxArgs THEN [s EXCEPT !.args[MaxArgs] = Append(@, c)]
                 ELSE IF c = Blank THEN [s EXCEPT !.in_token = FALSE]
                 ELSE IF s.in_token THEN [s EXCEPT !.args[Len(s.args)] = Append(@, c)]
                 ELSE [args |-> Append(s.args, <<c>>), in_token |-> TRUE]
  IN  p[Len(line)].args

to_upper(word) ==
  [i \in DOMAIN word |-> IF word[i] \in Letters THEN Capital[word[i]] ELSE word[i]]

-----------------------------------------------------------------------------
(* The commands.  Each gives what kind of text it prints and where the     *)
(* shell is afterwards.                                                    *)

Prints(kind) == [text |-> kind, dir |-> current_dir]

(* A directory is looked up from the root, wherever the shell is. *)
cmd_cd(args) ==
  LET name == to_upper(args[2])
  IN  IF Len(args) < 2 THEN Prints("current_dir")
      ELSE IF args[2] \in Up THEN [text |-> "nothing", dir |-> Root]
      ELSE IF name \in Directories THEN [text |-> "nothing", dir |-> name]
      ELSE Prints("Directory not found")

cmd_type(args) ==
  LET name == to_upper(args[2])
  IN  IF Len(args) < 2 THEN Prints("Usage")
      ELSE IF name \in Directories THEN Prints("Access denied")
      ELSE IF name \in Files THEN Prints("content")
      ELSE Prints("File not found")

(* cmd_copy, and with one argument cmd_del, cmd_md and cmd_rd. *)
Simulated(args, needed) ==
  IF Len(args) < needed + 1 THEN Prints("Usage") ELSE Prints("simulated")

cmd_color(args) == IF Len(args) < 2 THEN Prints("Usage") ELSE Prints("nothing")

(* Every other command prints a fixed text; EXIT halts behind it. *)
Effect(args) ==
  LET word == to_upper(args[1])
      command == IF word \in DOMAIN Command THEN Command[word] ELSE "BAD"
  IN  CASE command = "CD" -> cmd_cd(args)
        [] command = "TYPE" -> cmd_type(args)
        [] command = "COPY" -> Simulated(args, 2)
        [] command = "DEL" -> Simulated(args, 1)
        [] command = "COLOR" -> cmd_color(args)
        [] OTHER -> Prints(command)

(* The effect of a line; a blank one has none. *)
executeCommand(line) ==
  LET args == parseCommand(line)
  IN  IF args = <<>> THEN Prints("nothing") ELSE Effect(args)

(* The words that cmd_echo prints, one blank between two of them. *)
cmd_echo(args) ==
  LET e[n \in 1 .. Len(args)] ==
        IF n = 1 THEN <<>>
        ELSE e[n - 1] \o args[n] \o (IF n < Len(args) THEN <<Blank>> ELSE <<>>)
  IN  e[Len(args)]

-----------------------------------------------------------------------------
(* readLine, for a character that getchar returns. *)

EndLine ==
  /\ current_dir' = executeCommand(cmd_buffer).dir
  /\ halted' = (executeCommand(cmd_buffer).text = "EXIT")
  /\ cmd_buffer' = <<>>

Backspace ==
  /\ cmd_buffer' = IF cmd_buffer = <<>> THEN <<>>
                   ELSE SubSeq(cmd_buffer, 1, Len(cmd_buffer) - 1)
  /\ UNCHANGED <<current_dir, halted>>

Printable(c) ==
  /\ cmd_buffer' = IF Len(cmd_buffer) < MaxCmdLength - 1 THEN Append(cmd_buffer, c)
                   ELSE cmd_buffer
  /\ UNCHANGED <<current_dir, halted>>

(* The bytes of the device: a key that goes down or repeats, and a shift   *)
(* key that goes up; getchar ignores the other releases.                   *)
PressChar(key) ==
  /\ LET c == scanToChar(key)
     IN  CASE c = "ENTER" -> EndLine
           [] c = "BS" -> Backspace
           [] OTHER -> Printable(c)
  /\ UNCHANGED <<keyboard, down>>

PressShift(key) ==
  /\ shift_pressed' = TRUE /\ down' = down \cup {key}
  /\ UNCHANGED <<caps_lock, cmd_buffer, current_dir, halted>>

ReleaseShift(key) ==
  /\ key \in down /\ down' = down \ {key}
  /\ shift_pressed' = FALSE
  /\ UNCHANGED <<caps_lock, cmd_buffer, current_dir, halted>>

(* A prefixed key suspends a shift that is held; what resumes it looks     *)
(* like a repeat.                                                          *)
Suspend ==
  /\ shift_pressed' = FALSE
  /\ UNCHANGED <<caps_lock, cmd_buffer, current_dir, halted, down>>

PressCaps ==
  /\ caps_lock' = ~caps_lock
  /\ UNCHANGED <<shift_pressed, cmd_buffer, current_dir, halted, down>>

(* Nothing polls the keyboard once the machine is halted. *)
Next ==
  /\ ~halted
  /\ \/ \E key \in Letters \cup Others \cup {Blank, "ENTER", "BS"} : PressChar(key)
     \/ \E key \in Shifts : PressShift(key) \/ ReleaseShift(key)
     \/ Suspend \/ PressCaps

Spec == Init /\ [][Next]_vars
-----------------------------------------------------------------------------
(* A line without the blanks before and behind its words, and with one     *)
(* blank between two of them.                                              *)
Squeezed(line) ==
  LET keeps(i) == \/ line[i] # Blank
                  \/ /\ i > 1 /\ line[i - 1] # Blank
                     /\ \E j \in i .. Len(line) : line[j] # Blank
      pairs == [i \in 1 .. Len(line) |-> <<line[i], keeps(i)>>]
      kept == SelectSeq(pairs, LAMBDA p : p[2])
  IN  [i \in 1 .. Len(kept) |-> kept[i][1]]

(* parseCommand and cmd_echo lose, split and join no word of any line that *)
(* can be typed: the command and what ECHO prints behind it are the words  *)
(* of the line, also where it has more than MAX_ARGS, whose last entry     *)
(* keeps the rest of the line; the entries before it are single words.     *)
WordsKept ==
  LET args == parseCommand(cmd_buffer)
  IN  /\ args = <<>> => Squeezed(cmd_buffer) = <<>>
      /\ args # <<>> => Squeezed(args[1] \o <<Blank>> \o cmd_echo(args)) = Squeezed(cmd_buffer)
      /\ \A k \in 1 .. Len(args) : k < MaxArgs => \A i \in DOMAIN args[k] : args[k][i] # Blank

(* The case in which a line is typed makes no difference to the command    *)
(* that executeCommand runs, nor to the file or directory it finds.        *)
CaseBlind == executeCommand(cmd_buffer) = executeCommand(to_upper(cmd_buffer))

(* A line gets a capital letter only while a shift key, or a prefixed key  *)
(* that sent a shift, is held or the lock is on: no shift outlives its     *)
(* keys, in whatever order those that share getchar's flag go down, repeat *)
(* and go up.                                                              *)
CapitalsFollowShift ==
  [][Len(cmd_buffer') > Len(cmd_buffer) /\ down = {} =>
       caps_lock \/ cmd_buffer'[Len(cmd_buffer')] \notin {Capital[l] : l \in Letters}]_vars
=============================================================================
