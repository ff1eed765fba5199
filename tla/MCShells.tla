------------------------------ MODULE MCShells ------------------------------
(***************************************************************************)
(* The shells of SimpleOS and OS/Two and what is behind them.  The         *)
(* components share no state; one is active in a behaviour and the others  *)
(* stay as they started.                                                   *)
(*                                                                         *)
(* ramfs: two slots of three bytes, three names and a fourth typed name    *)
(* that is cut to one of them.                                             *)
(* long: InputPath with a screen of 3 rows of 4 and lines of up to 5       *)
(* characters, which with the prompt wrap over 2 rows; short: two          *)
(* characters, lines of up to 3.  The queue holds 2 events in both.        *)
(* shell: OSTwoShell with lines of up to 5 characters and entries for 2 of *)
(* their up to 3 words.                                                    *)
(* screen: OSTwoScreen with 4 rows of 4, prompts of 4 and 5 characters and *)
(* lines of up to 6, which end on the third row.                           *)
(***************************************************************************)
EXTENDS RamFS, TLC

CONSTANTS
  Terminals,      \* the constants of InputPath, for each name of an instance
  TwoScreen       \* those of OSTwoScreen

VARIABLES
  active,
  queue, line, vga, stuck, ran, intended, dropped,
  shift_pressed, caps_lock, cmd_buffer, current_dir, halted, down,
  two_line, two_dir, two_vga

MCTyped == {"a", "b", "c", "long"}
MCFilename == [t \in MCTyped |-> IF t = "long" THEN "a" ELSE t]
MCContents == {<<1>>, <<2, 1>>, <<1, 2, 2, 1>>}

MCTerminals ==
  [long |->
     [capacity |-> 2, width |-> 4, height |-> 3, tab |-> 2, size |-> 6, chars |-> {"a"},
      prompt |-> <<">">>, notice |-> <<"m">>,
      outputs |-> {<<>>, <<"o", "LF">>, <<"o", "o", "o", "o", "LF">>,
                   <<"TAB", "o", "CR", "o", "o", "o", "o", "o", "LF">>}],
   short |->
     [capacity |-> 2, width |-> 4, height |-> 2, tab |-> 2, size |-> 4, chars |-> {"a", "b"},
      prompt |-> <<">">>, notice |-> <<"m">>, outputs |-> {<<"o", "LF">>}]]
MCTwoScreen ==
  [width |-> 4, height |-> 4, tab |-> 2, length |-> 7, chars |-> {"a", "b"},
   dirs |-> {<<"R">>, <<"D", "D">>},
   outputs |-> {<<>>, <<"o", "LF">>, <<"TAB", "o", "CR", "o", "LF">>}]

Path(k) == INSTANCE InputPath WITH
  Capacity <- Terminals[k].capacity, Width <- Terminals[k].width, Height <- Terminals[k].height,
  Tab <- Terminals[k].tab, BufferSize <- Terminals[k].size, Chars <- Terminals[k].chars,
  Prompt <- Terminals[k].prompt, Notice <- Terminals[k].notice, Outputs <- Terminals[k].outputs
Screen == INSTANCE OSTwoScreen WITH
  cmd_buffer <- two_line, current_dir <- two_dir, vga <- two_vga,
  Width <- TwoScreen.width, Height <- TwoScreen.height, Tab <- TwoScreen.tab,
  MaxCmdLength <- TwoScreen.length, Chars <- TwoScreen.chars, Dirs <- TwoScreen.dirs,
  Outputs <- TwoScreen.outputs
Shell == INSTANCE OSTwoShell WITH
  Letters <- {"o"}, Capital <- [l \in {"o"} |-> "O"], Others <- {"."},
  MaxCmdLength <- 6, MaxArgs <- 2,
  Command <- (<<".">> :> "CD") @@ (<<"O">> :> "TYPE") @@ (<<"O", "O">> :> "ECHO")
             @@ (<<".", "O">> :> "EXIT") @@ (<<"O", ".">> :> "COLOR")
             @@ (<<".", ".">> :> "COPY") @@ (<<"O", "O", "O">> :> "DEL"),
  Directories <- {<<"O">>}, Files <- {<<"O", "O">>}, Up <- {<<".">>}

(* What the code has of its terminals: keys give no control characters,    *)
(* the prompts have none, and what a command prints ends with a line feed; *)
(* the screen of OS/Two has room for a prompt and a line below its first   *)
(* row.                                                                    *)
Controls == {"LF", "CR", "TAB", "BS"}
Printed(s) == s \in Seq(STRING) /\ (s = <<>> \/ s[Len(s)] = "LF")
Plain(s) == s \in Seq(STRING) /\ \A n \in 1 .. Len(s) : s[n] \notin Controls
ASSUME TerminalAssumption ==
  /\ \A k \in DOMAIN Terminals :
       LET t == Terminals[k]
       IN  /\ k \notin {"ramfs", "shell", "screen"}
           /\ {t.capacity, t.width, t.height, t.tab, t.size} \subseteq Nat \ {0}
           /\ t.chars \subseteq STRING /\ t.chars \cap (Controls \cup {"CLICK"}) = {}
           /\ Plain(t.prompt) /\ t.notice \in Seq(STRING) /\ \A s \in t.outputs : Printed(s)
  /\ {TwoScreen.width, TwoScreen.height, TwoScreen.tab, TwoScreen.length} \subseteq Nat \ {0}
  /\ TwoScreen.chars \subseteq STRING /\ TwoScreen.chars \cap Controls = {}
  /\ \A s \in TwoScreen.outputs : Printed(s) /\ \A n \in 1 .. Len(s) : s[n] # "BS"
  /\ \A d \in TwoScreen.dirs :
       Plain(d) /\ Len(d) + 3 + TwoScreen.length <= (TwoScreen.height - 1) * TwoScreen.width

ramfs == <<used, name, data, size, ret, out>>
path == <<queue, line, vga, stuck, ran, intended, dropped>>
shell == <<shift_pressed, caps_lock, cmd_buffer, current_dir, halted, down>>
screen == <<two_line, two_dir, two_vga>>
allVars == <<active, ramfs, path, shell, screen>>

(* The variables of a screen that is not in use have no meaning. *)
MCInit ==
  /\ active \in {"ramfs", "shell", "screen"} \cup DOMAIN Terminals
  /\ Init /\ Shell!Init
  /\ IF active = "screen" THEN Screen!Init
     ELSE two_line = <<>> /\ two_dir = <<>> /\ two_vga = <<>>
  /\ IF active \in DOMAIN Terminals
     THEN \E k \in DOMAIN Terminals : active = k /\ Path(k)!Init
     ELSE /\ queue = <<>> /\ line = <<>> /\ vga = <<>> /\ stuck = FALSE
          /\ ran = <<>> /\ intended = <<>> /\ dropped = FALSE

RamFSStep == active = "ramfs" /\ Next /\ UNCHANGED <<active, path, shell, screen>>
PathStep ==
  \E k \in DOMAIN Terminals :
    active = k /\ Path(k)!Next /\ UNCHANGED <<active, ramfs, shell, screen>>
ShellStep == active = "shell" /\ Shell!Next /\ UNCHANGED <<active, ramfs, path, screen>>
ScreenStep == active = "screen" /\ Screen!Next /\ UNCHANGED <<active, ramfs, path, shell>>

MCNext == RamFSStep \/ PathStep \/ ShellStep \/ ScreenStep

MCSpec == MCInit /\ [][MCNext]_allVars
-----------------------------------------------------------------------------
(* What is typed is what kmain runs, unless the event queue overflowed. *)
TypedIsRun == \A k \in DOMAIN Terminals : active = k => Path(k)!TypedIsRun

(* The screens of both shells show the prompt and the line that Enter will *)
(* run, whatever wraps, scrolls, is deleted or is interrupted by a click.  *)
EchoMatches ==
  /\ \A k \in DOMAIN Terminals : active = k => Path(k)!EchoMatches
  /\ active = "screen" => Screen!EchoMatches

(* OS/Two understands a line as it was typed: no shift of getchar outlives *)
(* the keys that are held, parseCommand and executeCommand lose no word    *)
(* and are blind to the case of letters.                                   *)
LineUnderstood == [](Shell!WordsKept /\ Shell!CaseBlind) /\ Shell!CapitalsFollowShift
=============================================================================
