----------------------------- MODULE MCDevices -----------------------------
(***************************************************************************)
(* An instance of Keyboard, Mouse, Interrupts and Hal.  Keyboard and Mouse *)
(* meet only in the event queue, Interrupts treats bytes as all alike, and *)
(* Hal is part of another system: their steps commute, one is active in a  *)
(* behaviour and the others stay as they started.                          *)
(*                                                                         *)
(* Keyboard: a letter, a digit, a key without a character and all          *)
(* modifiers, three keys held at a time.                                   *)
(* Mouse: a screen of 4 by 3; first bytes 8 no button, 9 left, 10 right,   *)
(* 56 both signs, 73 left and x overflow; movements by 0, 1, 240 and, with *)
(* the sign, by -256, -255 and -16.  Only first bytes have bit 3 set.      *)
(* Hal: four APIC ids; a MADT lists two, or three with a disabled one and  *)
(* an x2APIC between them, or one twice, or has an entry without a length, *)
(* or there is none; a clock of 2/3 ns a count, if it is what the code     *)
(* takes it for, that wraps after 64 counts, and counters that start at    *)
(* its beginning and shortly before its end; true frequencies above, at    *)
(* and below the guess; the first wait is longer than two of the second.   *)
(***************************************************************************)
EXTENDS Integers, Sequences

CONSTANTS
  Letters, Others, Mute, MaxDown,                      \* Keyboard
  Width, Height, Heads, Moves, MaxLost,                \* Mouse
  Machines, Ids, Slots, Word, Nano, Guess, InitWait, StartWait, FirstTsc, MaxStep   \* Hal

VARIABLES
  active,
  shift_pressed, ctrl_pressed, alt_pressed, caps_lock, down, event,
  mouse_x, mouse_y, mouse_cycle, mouse_bytes, mouse_buttons, clicks, moved,
  phase, head, held, presses, lost,
  pc, interrupt_handlers, enabled, int_no, imr, irr, in_service, buffer, owed, misread,
  machine, hal_pc, features, x2apic_mode, num_threads, cpus, tsc_frequency, bsp_apic_id,
  i, tsc, start, ap, wrapped

K == INSTANCE Keyboard
M == INSTANCE Mouse
I == INSTANCE Interrupts
H == INSTANCE Hal WITH pc <- hal_pc

Cpu(id, on) == [type |-> 0, length |-> 8, apic_id |-> id, enabled |-> on]
X2Apic(id) == [type |-> 9, length |-> 16, apic_id |-> id, enabled |-> TRUE]
Empty == [type |-> 1, length |-> 0, apic_id |-> 0, enabled |-> FALSE]
Affinity(id, node) == [type |-> 0, length |-> 16, apic_id |-> id, domain |-> node]
MCMachines ==
  {m \in [x2apic : BOOLEAN, bsp : {0, 2}, logical : {3}, smt_ids : {0, 2},
          madt : {<<>>, <<Cpu(0, TRUE), Cpu(2, TRUE)>>, <<Cpu(0, TRUE), Empty>>,
                  <<Cpu(0, TRUE), Cpu(1, FALSE), X2Apic(1), Cpu(2, TRUE), Cpu(3, TRUE)>>,
                  <<Cpu(3, TRUE), Cpu(2, TRUE), Cpu(3, TRUE)>>},
          srat : {<<>>, <<Affinity(2, 1)>>},
          frequency : {2, 3, 4}, leaf15 : {0, 4}] :
     /\ m.leaf15 \in {0, m.frequency} /\ (~m.x2apic => m.frequency = 3)
     /\ (m.srat = <<>>) = (m.smt_ids = 0)}

(* What the code takes for granted of the hardware: a key is a modifier or *)
(* has a meaning of its own; bit 3 of the first byte of a packet is set;   *)
(* the processors that are counted or listed fit in cpus.                  *)
ASSUME HardwareAssumption ==
  /\ (Letters \cup Others \cup Mute) \cap (K!ModifierKeys \cup {"CAPS"}) = {}
  /\ \A b \in Heads : M!Bit(b, 3)
  /\ Slots \in Nat /\ FirstTsc \subseteq Nat /\ 0 \in Ids
  /\ {Word, Nano, Guess, InitWait} \subseteq Nat \ {0} /\ {StartWait, MaxStep} \subseteq Nat
  /\ \A m \in Machines :
       /\ m.bsp \in Ids /\ m.logical \in 0 .. Slots
       /\ m.frequency \in Nat /\ m.leaf15 \in Nat
       /\ LET e == H!EnabledIn(m)
          IN  /\ Len(e) \in 0 .. Slots /\ DOMAIN e = 1 .. Len(e)
              /\ \A n \in 1 .. Len(e) : e[n].apic_id \in Ids

keyboard == <<shift_pressed, ctrl_pressed, alt_pressed, caps_lock, down, event>>
mouse == <<mouse_x, mouse_y, mouse_cycle, mouse_bytes, mouse_buttons, clicks, moved,
           phase, head, held, presses, lost>>
interrupts == <<pc, interrupt_handlers, enabled, int_no, imr, irr, in_service, buffer,
                owed, misread>>
hal == <<machine, hal_pc, features, x2apic_mode, num_threads, cpus, tsc_frequency,
         bsp_apic_id, i, tsc, start, ap, wrapped>>
vars == <<active, keyboard, mouse, interrupts, hal>>

(* A component that is not active has one initial state. *)
Init ==
  /\ active \in {"keyboard", "mouse", "interrupts", "hal"}
  /\ active # "hal" => machine = CHOOSE m \in Machines : TRUE
  /\ K!Init /\ M!Init /\ I!Init /\ H!Init
  /\ active # "mouse" => head = CHOOSE b \in Heads : TRUE
  /\ active # "interrupts" => imr = {} /\ buffer = "empty"
  /\ active # "hal" => tsc = CHOOSE t \in FirstTsc : TRUE

KeyboardStep == active = "keyboard" /\ K!Next /\ UNCHANGED <<active, mouse, interrupts, hal>>
MouseSends == active = "mouse" /\ M!SendByte /\ UNCHANGED <<active, keyboard, interrupts, hal>>
MouseLoses == active = "mouse" /\ M!LoseByte /\ UNCHANGED <<active, keyboard, interrupts, hal>>
Interrupts(step) == active = "interrupts" /\ step /\ UNCHANGED <<active, keyboard, mouse, hal>>
HalStep == active = "hal" /\ H!Next /\ UNCHANGED <<active, keyboard, mouse, interrupts>>

Next == KeyboardStep \/ MouseSends \/ MouseLoses \/ Interrupts(I!Next) \/ HalStep

Spec == Init /\ [][Next]_vars

(* The mouse goes on sending; kmain and a handler go on; the CPU takes     *)
(* interrupts, and the timer, which is not always requested, does not keep *)
(* it from taking the others.  hal_initialize runs to its end.             *)
FairSpec ==
  /\ Spec
  /\ WF_vars(MouseSends)
  /\ WF_vars(Interrupts(I!kmain)) /\ WF_vars(Interrupts(I!irq_handler))
  /\ WF_vars(Interrupts(I!Acknowledge(I!Timer)))
  /\ SF_vars(Interrupts(I!Acknowledge(I!Key))) /\ SF_vars(Interrupts(I!Acknowledge(I!Aux)))
  /\ WF_vars(HalStep)
-----------------------------------------------------------------------------
(* keyboard_callback pushes events for keys that go down or repeat, with   *)
(* the modifiers that are held and the character these give.               *)
EventsFollowKeys == K!EventsFollowKeys

(* mouse_callback turns every press of a button into one click event. *)
ClickPerPress == M!ClickPerPress

(* mouse_callback finds the start of a packet again after lost bytes. *)
Resynchronises == M!Resynchronises

(* No byte of the keyboard or the mouse is left unread by the init         *)
(* functions and the interrupt handlers.                                   *)
Drained == I!Drained

(* hal_smp_init ends with every processor that it lists running. *)
AllStart == active = "hal" => H!AllStart

(* hal_smp_init resets no processor that is running, unless its id is      *)
(* listed twice.                                                           *)
RunningStays == H!RunningStays
=============================================================================
