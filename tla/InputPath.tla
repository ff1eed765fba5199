----------------------------- MODULE InputPath -----------------------------
(***************************************************************************)
(* From a key to the command that runs: interrupt handlers push characters *)
(* and clicks into the event queue, the main loop of kmain takes one event *)
(* at a time and hands it to the line editor.  Composes Console with the   *)
(* queue that EventFifo specifies.  Keyboard and Mouse decide which events *)
(* there are.                                                              *)
(***************************************************************************)
EXTENDS Naturals, Sequences

CONSTANTS
  Capacity,                     \* events the queue holds: EVENT_QUEUE_SIZE - 1
  Width, Height, Tab, BufferSize, Chars, Prompt, Notice, Outputs    \* as in Console

VARIABLES
  queue,              \* the events in the ring
  line, vga, stuck,   \* as in Console
  ran,                \* history: the line that Enter ran last
  intended,           \* history: [line, ran], as the events were pushed
  dropped             \* history: an event was dropped since the queue was last empty

console == <<line, vga, stuck>>
vars == <<queue, console, ran, intended, dropped>>

Console == INSTANCE Console

Events == Chars \cup {"LF", "BS", "CLICK"}

Init ==
  /\ queue = <<>> /\ Console!Init
  /\ ran = <<>> /\ intended = [line |-> <<>>, ran |-> <<>>] /\ dropped = FALSE

(* What a user expects of an event. *)
Edited(e, s) ==
  CASE e = "LF" -> [line |-> <<>>, ran |-> s.line]
    [] e = "BS" -> [s EXCEPT !.line = SubSeq(@, 1, Len(@) - 1)]
    [] e = "CLICK" -> s
    [] OTHER -> [s EXCEPT !.line = IF Len(@) < BufferSize - 1 THEN Append(@, e) ELSE @]

-----------------------------------------------------------------------------
(* push_event, which drops the oldest event of a full queue. *)
Push(e) ==
  /\ queue' = Append(IF Len(queue) = Capacity THEN Tail(queue) ELSE queue, e)
  /\ UNCHANGED <<console, ran>>
  /\ IF Len(queue) = Capacity
     THEN dropped' = TRUE /\ intended' = [line |-> <<>>, ran |-> <<>>]
     ELSE /\ intended' = IF dropped THEN intended ELSE Edited(e, intended)
          /\ UNCHANGED dropped

(* The case of the event in the main loop. *)
Switch(e) ==
  CASE e = "LF" -> (Console!Enter \/ Console!EnterClear) /\ ran' = line
    [] e = "BS" -> /\ IF line = <<>> THEN UNCHANGED console ELSE Console!Backspace
                   /\ UNCHANGED ran
    [] e = "CLICK" -> Console!Click /\ UNCHANGED ran
    [] OTHER -> /\ IF Len(line) < BufferSize - 1 THEN Console!Key(e) ELSE UNCHANGED console
                /\ UNCHANGED ran

(* Mutant: the newest event is taken. *)
TurnTakesLast ==
  /\ queue # <<>>
  /\ queue' = SubSeq(queue, 1, Len(queue) - 1)
  /\ Switch(queue[Len(queue)])
  /\ IF dropped /\ queue' = <<>>
     THEN dropped' = FALSE /\ intended' = [line |-> line', ran |-> ran']
     ELSE UNCHANGED <<dropped, intended>>

(* One turn of the main loop.  When the queue is empty the user sees the   *)
(* line, and goes on from what it is.                                      *)
Turn ==
  /\ queue # <<>>
  /\ queue' = Tail(queue)
  /\ Switch(Head(queue))
  /\ IF dropped /\ queue' = <<>>
     THEN dropped' = FALSE /\ intended' = [line |-> line', ran |-> ran']
     ELSE UNCHANGED <<dropped, intended>>

Next == (\E e \in Events : Push(e)) \/ Turn

Spec == Init /\ [][Next]_vars
-----------------------------------------------------------------------------
(* What the first n events of q make of s, for each n. *)
After(q, s) ==
  LET after[n \in 0 .. Len(q)] == IF n = 0 THEN s ELSE Edited(q[n], after[n - 1])
  IN  after

(* What is typed is what runs: unless an event was dropped, the line being *)
(* edited and the last one that kmain ran, with the events still in the    *)
(* queue applied to them, are what the events that were pushed ask for,    *)
(* however typing runs ahead of the main loop.                             *)
TypedIsRun ==
  ~dropped => After(queue, [line |-> line, ran |-> ran])[Len(queue)] = intended

(* The screen shows the line, as Console states it. *)
EchoMatches == Console!EchoMatches
=============================================================================
