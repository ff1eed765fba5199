------------------------------- MODULE Mouse -------------------------------
(***************************************************************************)
(* The PS/2 mouse driver of SimpleOS (mouse.c).  The device sends packets  *)
(* of three bytes, one interrupt each; a byte may be lost.                 *)
(* mouse_callback assembles packets, moves the pointer inside the screen   *)
(* and pushes click and move events.  Bytes are numbers, as their bits     *)
(* tell the driver where a packet starts.                                  *)
(***************************************************************************)
EXTENDS Integers

CONSTANTS
  Width, Height,    \* SCREEN_WIDTH, SCREEN_HEIGHT
  Heads,            \* first bytes the device sends
  Moves,            \* second and third bytes it sends
  MaxLost           \* bound: bytes that are lost

VARIABLES
  mouse_x, mouse_y, mouse_cycle, mouse_bytes, mouse_buttons,
  clicks,      \* the buttons for which the last packet pushed a click event
  moved,       \* whether it pushed a move event
  phase,       \* the device: the byte of the packet it sends next
  head,        \*   the first byte of that packet
  held,        \*   the buttons as it sent them last
  presses,     \*   the buttons that went down in the last packet
  lost         \* bytes lost so far

driver == <<mouse_x, mouse_y, mouse_cycle, mouse_bytes, mouse_buttons, clicks, moved>>
device == <<phase, head, held, presses>>
vars == <<driver, device, lost>>

Buttons == 0 .. 2          \* left, right, middle
Bit(b, n) == (b \div 2^n) % 2 = 1
ButtonsOf(b) == {n \in Buttons : Bit(b, n)}

Clamp(v, size) == IF v < 0 THEN 0 ELSE IF v >= size THEN size - 1 ELSE v

Init ==
  /\ mouse_x = Width \div 2 /\ mouse_y = Height \div 2
  /\ mouse_cycle = 0 /\ mouse_bytes = <<0, 0, 0>> /\ mouse_buttons = {}
  /\ clicks = {} /\ moved = FALSE
  /\ phase = 0 /\ head \in Heads /\ held = {} /\ presses = {}
  /\ lost = 0

-----------------------------------------------------------------------------
(* mouse_callback, for a byte that bit 5 of the status says is the mouse's *)

(* Mutant: any byte is taken for a first one. *)
HeadUnchecked(data) ==
  /\ mouse_cycle = 0
  /\ mouse_bytes' = [mouse_bytes EXCEPT ![1] = data]
  /\ mouse_cycle' = 1
  /\ UNCHANGED <<mouse_x, mouse_y, mouse_buttons, clicks, moved>>

FirstByte(data) ==
  /\ mouse_cycle = 0
  /\ mouse_bytes' = [mouse_bytes EXCEPT ![1] = data]
  /\ mouse_cycle' = IF Bit(data, 3) THEN 1 ELSE 0
  /\ UNCHANGED <<mouse_x, mouse_y, mouse_buttons, clicks, moved>>

SecondByte(data) ==
  /\ mouse_cycle = 1
  /\ mouse_bytes' = [mouse_bytes EXCEPT ![2] = data]
  /\ mouse_cycle' = 2
  /\ UNCHANGED <<mouse_x, mouse_y, mouse_buttons, clicks, moved>>

(* A movement: nine bits with the sign in the first byte, 0 on overflow. *)
Delta(b, sign, overflow, data) ==
  IF Bit(b, overflow) THEN 0 ELSE IF Bit(b, sign) THEN data - 256 ELSE data

(* Mutant: the buttons are not remembered. *)
ThirdByteForgets(data) ==
  LET b == mouse_bytes[1]
      dx == Delta(b, 4, 6, mouse_bytes[2])
      dy == Delta(b, 5, 7, data)
  IN  /\ mouse_cycle = 2 /\ mouse_cycle' = 0
      /\ mouse_bytes' = [mouse_bytes EXCEPT ![3] = data]
      /\ mouse_x' = Clamp(mouse_x + dx, Width)
      /\ mouse_y' = Clamp(mouse_y - dy, Height)
      /\ clicks' = ButtonsOf(b)
      /\ moved' = (dx # 0 \/ dy # 0)
      /\ UNCHANGED mouse_buttons

(* The third byte completes a packet: move, clamp, a click for every       *)
(* button that went down, and a move event.  The y axis points up.         *)
ThirdByte(data) ==
  LET b == mouse_bytes[1]
      dx == Delta(b, 4, 6, mouse_bytes[2])
      dy == Delta(b, 5, 7, data)
  IN  /\ mouse_cycle = 2 /\ mouse_cycle' = 0
      /\ mouse_bytes' = [mouse_bytes EXCEPT ![3] = data]
      /\ mouse_x' = Clamp(mouse_x + dx, Width)
      /\ mouse_y' = Clamp(mouse_y - dy, Height)
      /\ clicks' = ButtonsOf(b) \ mouse_buttons
      /\ mouse_buttons' = ButtonsOf(b)
      /\ moved' = (dx # 0 \/ dy # 0)

mouse_callback(data) == FirstByte(data) \/ SecondByte(data) \/ ThirdByte(data)

-----------------------------------------------------------------------------
(* The device.  A packet counts when its last byte is sent. *)

Bytes == IF phase = 0 THEN {head} ELSE Moves

Advance ==
  /\ phase' = (phase + 1) % 3
  /\ IF phase = 2
     THEN /\ held' = ButtonsOf(head)
          /\ presses' = ButtonsOf(head) \ held
          /\ head' \in Heads
     ELSE UNCHANGED <<head, held, presses>>

SendByte == \E data \in Bytes : mouse_callback(data) /\ Advance /\ UNCHANGED lost

LoseByte == lost < MaxLost /\ lost' = lost + 1 /\ Advance /\ UNCHANGED driver

Next == SendByte \/ LoseByte
Spec == Init /\ [][Next]_vars
-----------------------------------------------------------------------------
(* As long as no byte is lost, every press is one click event, however     *)
(* long the button is held while the mouse moves (the comparison with      *)
(* mouse_buttons in mouse_callback).                                       *)
ClickPerPress ==
  lost = 0 => clicks = presses /\ mouse_buttons = held /\ mouse_cycle = phase

(* After the last loss the test of bit 3 in mouse_callback finds the start *)
(* of a packet again, if the device goes on sending and no movement byte   *)
(* has that bit set.                                                       *)
Resynchronises == <>[](mouse_cycle = phase)
=============================================================================
