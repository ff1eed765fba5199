----------------------------- MODULE Interrupts -----------------------------
(***************************************************************************)
(* How SimpleOS sets up and dispatches hardware interrupts (idt.c, isr.asm *)
(* and the init functions of timer.c, keyboard.c and mouse.c, in the order *)
(* of kmain), with the two interrupt controllers and the controller of     *)
(* keyboard and mouse, whose one output buffer both share.                 *)
(*                                                                         *)
(* Interrupts are off until kmain enables them and in every handler, so    *)
(* that an init function is one step up to where it waits for a device,    *)
(* and a handler is one step.  A device may act between any two steps.     *)
(***************************************************************************)
EXTENDS Integers

VARIABLES
  pc,                  \* where kmain is; "process" once a process has the CPU
  interrupt_handlers,  \* the vectors that have a handler
  enabled,             \* the interrupt flag of the CPU
  int_no,              \* the interrupt being handled, None if there is none
  imr, irr, in_service,  \* interrupt controllers: masked, requested, in service
  buffer,              \* the output buffer: empty, or whose byte it holds
  owed,                \* answers still to come from the controller and the mouse
  misread              \* history: mouse_init took something else for the configuration

pic == <<imr, irr, in_service>>
vars == <<pc, interrupt_handlers, enabled, int_no, pic, buffer, owed, misread>>

None == -1
Timer == 0
Key == 1
Cascade == 2
Aux == 12
Vector(irq) == 32 + irq       \* after pic_remap

(* _start: interrupts are off; the firmware leaves any masks, and perhaps  *)
(* requests and a byte behind.                                             *)
Init ==
  /\ pc = "idt" /\ interrupt_handlers = {} /\ enabled = FALSE /\ int_no = None
  /\ imr \in SUBSET {Timer, Key, Cascade, Aux}
  /\ buffer \in {"empty", "key"}
  /\ irr = (IF buffer = "key" THEN {Key} ELSE {})
  /\ in_service = {}
  /\ owed = [config |-> FALSE, acks |-> 0] /\ misread = FALSE

-----------------------------------------------------------------------------
(* Devices.  A byte enters the output buffer when it is empty and raises   *)
(* the line of its interrupt; reading it lowers the line.                  *)

ByteArrives(whose, irq) ==
  /\ buffer = "empty" /\ buffer' = whose
  /\ irr' = irr \cup {irq}

KeyByte ==
  /\ ByteArrives("key", Key)
  /\ UNCHANGED <<pc, interrupt_handlers, enabled, int_no, imr, in_service, owed, misread>>

ConfigByte ==
  /\ owed.config /\ ByteArrives("config", Key)
  /\ owed' = [owed EXCEPT !.config = FALSE]
  /\ UNCHANGED <<pc, interrupt_handlers, enabled, int_no, imr, in_service, misread>>

(* An answer of the mouse, or a movement once it has been told to report. *)
Reporting == pc \notin {"idt", "timer", "keyboard", "mouse", "config", "defaults"}
AuxByte ==
  /\ owed.acks > 0 \/ Reporting
  /\ ByteArrives("aux", Aux)
  /\ owed' = [owed EXCEPT !.acks = IF @ > 0 THEN @ - 1 ELSE 0]
  /\ UNCHANGED <<pc, interrupt_handlers, enabled, int_no, imr, in_service, misread>>

(* The period of the timer is longer than its handler takes. *)
TimerEdge ==
  /\ int_no # Vector(Timer)
  /\ irr' = irr \cup {Timer}
  /\ UNCHANGED <<pc, interrupt_handlers, enabled, int_no, imr, in_service, buffer, owed, misread>>

(* inb of the data port. *)
ReadByte == buffer' = "empty" /\ irr' = irr \ {Key, Aux}

-----------------------------------------------------------------------------
(* kmain up to its main loop. *)

irq_unmask(irq) == imr' = imr \ {irq}
register_interrupt_handler(n) == interrupt_handlers' = interrupt_handlers \cup {n}

(* idt_init: pic_remap starts the controllers anew, which forgets the      *)
(* requests, and restores the masks.  kmain then registers the handler of  *)
(* page faults.                                                            *)
idt_init ==
  /\ pc = "idt" /\ pc' = "timer"
  /\ interrupt_handlers' = {14}
  /\ irr' = {} /\ in_service' = {}
  /\ UNCHANGED <<enabled, int_no, imr, buffer, owed, misread>>

timer_init ==
  /\ pc = "timer" /\ pc' = "keyboard"
  /\ register_interrupt_handler(Vector(Timer)) /\ irq_unmask(Timer)
  /\ UNCHANGED <<enabled, int_no, irr, in_service, buffer, owed, misread>>

(* Reads until the buffer is empty. *)
keyboard_init ==
  /\ pc = "keyboard" /\ pc' = "mouse"
  /\ register_interrupt_handler(Vector(Key)) /\ irq_unmask(Key)
  /\ ReadByte
  /\ UNCHANGED <<enabled, int_no, in_service, owed, misread>>

(* mouse_init up to its question for the configuration, up to the command  *)
(* for default settings, up to the command to report, and to its end.      *)
(* mouse_wait gives up after a while, whether or not a byte has arrived.   *)
MouseAsk ==
  /\ pc = "mouse" /\ pc' = "config"
  /\ register_interrupt_handler(Vector(Aux))
  /\ owed' = [owed EXCEPT !.config = TRUE]
  /\ UNCHANGED <<enabled, int_no, pic, buffer, misread>>

MouseConfig ==
  /\ pc = "config" /\ pc' = "defaults"
  /\ misread' = (buffer # "config")
  /\ ReadByte
  /\ owed' = [owed EXCEPT !.acks = @ + 1]
  /\ UNCHANGED <<interrupt_handlers, enabled, int_no, imr, in_service>>

MouseDefaults ==
  /\ pc = "defaults" /\ pc' = "enable"
  /\ ReadByte
  /\ owed' = [owed EXCEPT !.acks = @ + 1]
  /\ UNCHANGED <<interrupt_handlers, enabled, int_no, imr, in_service, misread>>

MouseEnable ==
  /\ pc = "enable" /\ pc' = "sti"
  /\ ReadByte
  /\ irq_unmask(Aux)
  /\ UNCHANGED <<interrupt_handlers, enabled, int_no, in_service, owed, misread>>

mouse_init == MouseAsk \/ MouseConfig \/ MouseDefaults \/ MouseEnable

(* syscall_init, and the other parts of kmain up to enable_interrupts. *)
enable_interrupts ==
  /\ pc = "sti" /\ pc' = "loop"
  /\ register_interrupt_handler(128)
  /\ enabled' = TRUE
  /\ UNCHANGED <<int_no, pic, buffer, owed, misread>>

kmain == idt_init \/ timer_init \/ keyboard_init \/ mouse_init \/ enable_interrupts

-----------------------------------------------------------------------------
(* Interrupts. *)

(* The line of the master that carries a request: fixed priorities, and    *)
(* nothing is passed on while the same or a higher one is in service.      *)
Line(irq) == IF irq >= 8 THEN Cascade ELSE irq
Passes(irq) ==
  /\ irq \in irr \ imr /\ Line(irq) \notin imr
  /\ \A s \in in_service : Line(irq) < Line(s)

(* The CPU takes the interrupt; an interrupt gate turns interrupts off. *)
Acknowledge(irq) ==
  /\ enabled
  /\ Passes(irq) /\ \A other \in irr : Passes(other) => Line(irq) <= Line(other)
  /\ irr' = irr \ {irq} /\ in_service' = in_service \cup {irq, Line(irq)}
  /\ int_no' = Vector(irq) /\ enabled' = FALSE
  /\ UNCHANGED <<pc, interrupt_handlers, imr, buffer, owed, misread>>

(* An end of interrupt takes the highest priority out of service. *)
Highest(S) == {s \in S : \A t \in S : s <= t}
SlaveEoi == Highest({s \in in_service : s >= 8})
MasterEoi == Highest({s \in in_service : s < 8})

(* The registered callback.  The timer's may switch to a process, and then *)
(* never returns; the mouse's reads only a byte of the mouse.              *)
Callback ==
  CASE int_no = Vector(Timer) -> pc' \in {pc, "process"} /\ UNCHANGED <<buffer, irr>>
    [] int_no = Vector(Key) -> ReadByte /\ UNCHANGED pc
    [] int_no = Vector(Aux) -> /\ IF buffer = "aux" THEN ReadByte ELSE UNCHANGED <<buffer, irr>>
                               /\ UNCHANGED pc

(* Mutant: the end of interrupt is sent after the callback has returned. *)
IrqHandlerLate ==
  /\ int_no # None
  /\ IF int_no \in interrupt_handlers THEN Callback ELSE UNCHANGED <<pc, buffer, irr>>
  /\ in_service' = IF pc' # pc THEN in_service
                   ELSE in_service \ (MasterEoi \cup IF int_no >= 40 THEN SlaveEoi ELSE {})
  /\ int_no' = None /\ enabled' = TRUE
  /\ UNCHANGED <<interrupt_handlers, imr, owed, misread>>

(* irq_handler, and the iret of the stub or of switch_to_process, both of  *)
(* which turn interrupts on.                                               *)
irq_handler ==
  /\ int_no # None
  /\ in_service' = in_service \ (MasterEoi \cup IF int_no >= 40 THEN SlaveEoi ELSE {})
  /\ IF int_no \in interrupt_handlers THEN Callback ELSE UNCHANGED <<pc, buffer, irr>>
  /\ int_no' = None /\ enabled' = TRUE
  /\ UNCHANGED <<interrupt_handlers, imr, owed, misread>>

CpuStops ==
  /\ pc' = "halted" /\ enabled' = FALSE /\ int_no' = None
  /\ UNCHANGED <<interrupt_handlers, pic, buffer, owed, misread>>

(* Every exception stops the machine, a page fault in its handler, and so  *)
(* does the system call 1; the other system calls return.                  *)
isr_handler == pc \notin {"idt", "halted"} /\ CpuStops

(* The commands halt and reboot. *)
Halt == enabled /\ pc = "loop" /\ CpuStops

-----------------------------------------------------------------------------
Devices == KeyByte \/ ConfigByte \/ AuxByte \/ TimerEdge
Next ==
  \/ Devices \/ kmain
  \/ \E irq \in {Timer, Key, Aux} : Acknowledge(irq)
  \/ irq_handler \/ isr_handler \/ Halt

-----------------------------------------------------------------------------
(* A byte of the keyboard or the mouse is read in the end, so that neither *)
(* device blocks the other: no request is forgotten between pic_remap, the *)
(* polling init functions and the first interrupt, irq_handler leaves      *)
(* nothing in service although a switch never returns to it, and a handler *)
(* finds the byte it was called for.  Unless the machine stops, the        *)
(* firmware left the cascade masked, which nothing unmasks, or mouse_init  *)
(* took a key for the configuration and wrote it back.                     *)
Drained ==
  buffer # "empty" ~> buffer = "empty" \/ pc = "halted" \/ Cascade \in imr \/ misread

=============================================================================
