------------------------------ MODULE Keyboard ------------------------------
(***************************************************************************)
(* The PS/2 keyboard driver of SimpleOS (keyboard.c).  The device sends a  *)
(* scancode when a key goes down, again and again while it is held, and    *)
(* when it goes up; keyboard_callback turns them into events.              *)
(*                                                                         *)
(* It knows nothing of prefixes: it takes E0 and E1 for releases of keys   *)
(* without a meaning and the byte behind them for that of the main key.  A *)
(* prefixed key may send a shift of its own around its code (E0 2A .. E0   *)
(* AA: PrintScreen, and the grey keys with NumLock), and Pause sends a     *)
(* Ctrl.  To the driver they are a third shift and a third Ctrl key.       *)
(***************************************************************************)
EXTENDS Naturals, FiniteSets

CONSTANTS
  Letters, Others,      \* keys with two characters: letters, and digits and signs
  Mute,                 \* keys without a character
  MaxDown               \* bound: keys held at a time

ShiftKeys == {"LSHIFT", "RSHIFT", "PREFIXED"}      \* PREFIXED is down while such a key is
CtrlKeys == {"LCTRL", "RCTRL", "PAUSE"}
AltKeys == {"LALT", "RALT"}
ModifierKeys == ShiftKeys \cup CtrlKeys \cup AltKeys
Keys == Letters \cup Others \cup Mute \cup ModifierKeys \cup {"CAPS"}

VARIABLES
  shift_pressed, ctrl_pressed, alt_pressed, caps_lock,
  down,        \* the keys that are held
  event        \* the last event that was pushed

vars == <<shift_pressed, ctrl_pressed, alt_pressed, caps_lock, down, event>>
modifiers == <<shift_pressed, ctrl_pressed, alt_pressed>>

NoEvent == [key |-> "NONE", upper |-> FALSE, shift |-> FALSE, ctrl |-> FALSE, alt |-> FALSE]

Init ==
  /\ shift_pressed = FALSE /\ ctrl_pressed = FALSE /\ alt_pressed = FALSE
  /\ caps_lock = FALSE /\ down = {} /\ event = NoEvent

(* scancode_to_char: whether the character is the shifted one. *)
Upper(key) == IF caps_lock /\ key \in Letters THEN ~shift_pressed ELSE shift_pressed

(* Mutant: only the left key ends a shift. *)
ShiftRightSticks(key, released) ==
  /\ key \in ShiftKeys
  /\ shift_pressed' = IF released /\ key = "RSHIFT" THEN shift_pressed ELSE ~released
  /\ UNCHANGED <<ctrl_pressed, alt_pressed, caps_lock, event>>

(* One flag for all these keys: the cases 0x2A and 0x36; and 0x1D and      *)
(* 0x38, which the right-hand keys send after a prefix that is ignored.    *)
ShiftKey(key, released) ==
  /\ key \in ShiftKeys
  /\ shift_pressed' = ~released
  /\ UNCHANGED <<ctrl_pressed, alt_pressed, caps_lock, event>>

CtrlKey(key, released) ==
  /\ key \in CtrlKeys
  /\ ctrl_pressed' = ~released
  /\ UNCHANGED <<shift_pressed, alt_pressed, caps_lock, event>>

AltKey(key, released) ==
  /\ key \in AltKeys
  /\ alt_pressed' = ~released
  /\ UNCHANGED <<shift_pressed, ctrl_pressed, caps_lock, event>>

CapsKey(key, released) ==
  /\ key = "CAPS"
  /\ caps_lock' = IF released THEN caps_lock ELSE ~caps_lock
  /\ UNCHANGED <<modifiers, event>>

(* A press pushes an event, if the key has a character. *)
CharKey(key, released) ==
  /\ key \in Letters \cup Others \cup Mute
  /\ event' = IF released \/ key \in Mute THEN event
              ELSE [key |-> key, upper |-> Upper(key), shift |-> shift_pressed,
                    ctrl |-> ctrl_pressed, alt |-> alt_pressed]
  /\ UNCHANGED <<modifiers, caps_lock>>

keyboard_callback(key, released) ==
  \/ ShiftKey(key, released) \/ CtrlKey(key, released) \/ AltKey(key, released)
  \/ CapsKey(key, released) \/ CharKey(key, released)

-----------------------------------------------------------------------------
(* The device. *)

Press(key) ==
  /\ key \notin down /\ Cardinality(down) < MaxDown
  /\ down' = down \cup {key}
  /\ keyboard_callback(key, FALSE)

Repeat(key) == key \in down /\ keyboard_callback(key, FALSE) /\ UNCHANGED down

Release(key) ==
  /\ key \in down
  /\ down' = down \ {key}
  /\ keyboard_callback(key, TRUE)

(* A prefixed key suspends a shift that is held, or ends its own shift     *)
(* when another one is down: E0 AA or E0 B6.  What resumes the shift       *)
(* afterwards looks like a repeat of the shift key.                        *)
Suspend == ShiftKey("PREFIXED", TRUE) /\ UNCHANGED down

Next == Suspend \/ \E key \in Keys : Press(key) \/ Repeat(key) \/ Release(key)

Spec == Init /\ [][Next]_vars
-----------------------------------------------------------------------------
(* keyboard_callback pushes an event only for a key that goes down or      *)
(* repeats, and no modifier sticks to it: Shift, Ctrl and Alt are reported *)
(* only while one of their keys is held, in whatever order these went      *)
(* down, repeated and went up, and else the character is the plain one,    *)
(* the lock aside.  (A prefixed key that is held with a shift of its own   *)
(* counts as a shift key here.  The converse fails: letting one of two     *)
(* shift keys go ends the shift.)                                          *)
EventsFollowKeys ==
  [][event' # event =>
       /\ event'.key \in down'
       /\ event'.shift => down \cap ShiftKeys # {}
       /\ event'.ctrl => down \cap CtrlKeys # {}
       /\ event'.alt => down \cap AltKeys # {}
       /\ down \cap ShiftKeys = {}
            => event'.upper = (caps_lock /\ event'.key \in Letters)]_vars
=============================================================================
