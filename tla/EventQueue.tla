----------------------------- MODULE EventQueue -----------------------------
(***************************************************************************)
(* The input event ring of SimpleOS (events.c) between its producers, the  *)
(* keyboard and mouse interrupt handlers, and its only consumer, the main  *)
(* loop of kmain (kernel.c).                                               *)
(*                                                                         *)
(* The handlers run with interrupts disabled (interrupt gates), so that    *)
(* push_event is one step.  The main loop runs with interrupts enabled:    *)
(* pop_event is a sequence of loads and stores of the volatile indices and *)
(* of the 9-byte event, and an interrupt may come between any two of them. *)
(* The loop may stop for good: a tick that dispatches a process does not   *)
(* save it (scheduler.c), and some commands never return.                  *)
(***************************************************************************)
EXTENDS Integers, Sequences, FiniteSets

CONSTANTS
  Size,        \* EVENT_QUEUE_SIZE
  MaxEvents    \* bound: events the hardware produces in a behaviour

ASSUME SizeAssumption == Size \in Nat /\ Size >= 2
ASSUME BoundAssumption == MaxEvents \in Nat

VARIABLES
  event_queue, queue_head, queue_tail,
  pc,          \* where the main loop is; "gone" or "halted" when it never goes on
  index,       \* the value of queue_tail that pop_event uses to index the ring
  event,       \* the local event of pop_event, filled by the copy
  next_tail,   \* (queue_tail + 1) % EVENT_QUEUE_SIZE, before it is stored
  pushed,      \* history: number of events pushed so far
  delivered,   \* history: the events pop_event has returned
  dropped,     \* history: the events push_event dropped as the oldest
  raced        \* history: a push found the ring full while an event was read

ring == <<event_queue, queue_head, queue_tail>>
popping == <<index, event, next_tail>>
history == <<pushed, delivered, dropped, raced>>
vars == <<ring, pc, popping, history>>

Slots == 0 .. Size - 1

(* The k-th event pushed; event 0 is the initial content of the ring. *)
Event(k) == [type |-> k, data |-> k]
Events == [type : 0 .. MaxEvents, data : 0 .. MaxEvents]

(* Mutant: the index is not taken round the ring. *)
StepNoWrap(i) == i + 1

Step(i) == (i + 1) % Size

events_pending == queue_head # queue_tail

(* The events in the ring, oldest first, and how many they are. *)
Count == (queue_head - queue_tail) % Size
Contents == [i \in 1 .. Count |-> event_queue[(queue_tail + i - 1) % Size]]

(* pop_event has read queue_tail and not yet stored the new one. *)
Reading == pc \in {"copy_type", "copy_data", "advance", "store"}

Init ==
  /\ event_queue = [s \in Slots |-> Event(0)]
  /\ queue_head = 0 /\ queue_tail = 0
  /\ pc = "loop"
  /\ index = 0 /\ event = Event(0) /\ next_tail = 0
  /\ pushed = 0 /\ delivered = << >> /\ dropped = {} /\ raced = FALSE

-----------------------------------------------------------------------------
(* The interrupt handlers.  Any interrupt ends a hlt of the main loop. *)

Wake == pc' = IF pc = "hlt" THEN "loop" ELSE pc

(* Mutant: the fullness test is one slot late, so the ring wraps onto      *)
(* itself and a full ring looks empty.                                     *)
PushLateTest ==
  /\ pc # "halted" /\ pushed < MaxEvents
  /\ LET full == queue_head = queue_tail /\ pushed > Size
     IN  /\ queue_tail' = IF full THEN Step(queue_tail) ELSE queue_tail
         /\ event_queue' = [event_queue EXCEPT ![queue_head] = Event(pushed + 1)]
         /\ queue_head' = Step(queue_head)
  /\ pushed' = pushed + 1
  /\ Wake
  /\ UNCHANGED <<popping, delivered, dropped, raced>>

(* push_event, called by keyboard_callback and mouse_callback. *)
push_event ==
  /\ pc # "halted" /\ pushed < MaxEvents
  /\ LET next_head == Step(queue_head)
         full == next_head = queue_tail
     IN  /\ queue_tail' = IF full THEN Step(queue_tail) ELSE queue_tail
         /\ event_queue' = [event_queue EXCEPT ![queue_head] = Event(pushed + 1)]
         /\ queue_head' = next_head
         /\ dropped' = IF full THEN dropped \cup {event_queue[queue_tail].type}
                               ELSE dropped
         /\ raced' = (raced \/ (full /\ Reading))
  /\ pushed' = pushed + 1
  /\ Wake
  /\ UNCHANGED <<popping, delivered>>

(* Mutant: the timer interrupt is never unmasked. *)
NoTimer == UNCHANGED vars

(* The timer interrupt comes for ever; here it only ends a hlt. *)
TimerIrq ==
  /\ pc = "hlt"
  /\ Wake
  /\ UNCHANGED <<ring, popping, history>>

(* Once a command has started the scheduler, a tick takes the CPU away at  *)
(* any point of the main loop: schedule saves nothing of it and never      *)
(* chooses slot 0 again.  The handlers go on pushing.                      *)
Abandon ==
  /\ pc \notin {"gone", "halted"}
  /\ pc' = "gone"
  /\ UNCHANGED <<ring, popping, history>>

-----------------------------------------------------------------------------
(* The main loop. *)

(* if (events_pending()): one event is taken per turn of the loop. *)
MainLoop ==
  /\ pc = "loop"
  /\ pc' = IF events_pending THEN "test" ELSE "hlt"
  /\ UNCHANGED <<ring, popping, history>>

(* The empty test of pop_event itself; an empty ring gives a NONE event,   *)
(* which the loop ignores.                                                 *)
PopTest ==
  /\ pc = "test"
  /\ pc' = IF events_pending THEN "index" ELSE "handle"
  /\ UNCHANGED <<ring, popping, history>>

PopIndex ==
  /\ pc = "index"
  /\ index' = queue_tail
  /\ pc' = "copy_type"
  /\ UNCHANGED <<ring, event, next_tail, history>>

(* The copy of the event takes several loads. *)
PopCopyType ==
  /\ pc = "copy_type"
  /\ event' = [event EXCEPT !.type = event_queue[index].type]
  /\ pc' = "copy_data"
  /\ UNCHANGED <<ring, index, next_tail, history>>

PopCopyData ==
  /\ pc = "copy_data"
  /\ event' = [event EXCEPT !.data = event_queue[index].data]
  /\ pc' = "advance"
  /\ UNCHANGED <<ring, index, next_tail, history>>

(* Mutant: the tail is advanced by two. *)
PopAdvanceTwice ==
  /\ pc = "advance"
  /\ next_tail' = Step(Step(queue_tail))
  /\ pc' = "store"
  /\ UNCHANGED <<ring, index, event, history>>

(* queue_tail is volatile: it is loaded again, incremented, and stored. *)
PopAdvance ==
  /\ pc = "advance"
  /\ next_tail' = Step(queue_tail)
  /\ pc' = "store"
  /\ UNCHANGED <<ring, index, event, history>>

PopStore ==
  /\ pc = "store"
  /\ queue_tail' = next_tail
  /\ delivered' = Append(delivered, event)
  /\ pc' = "handle"
  /\ UNCHANGED <<event_queue, queue_head, popping, pushed, dropped, raced>>

(* The switch on event.type, then halt_cpu(). *)
Handle ==
  /\ pc = "handle"
  /\ pc' = "hlt"
  /\ UNCHANGED <<ring, popping, history>>

(* The commands halt and reboot, and usermode once its system call has     *)
(* come, stop the machine with interrupts off.                             *)
HaltCommand ==
  /\ pc = "handle"
  /\ pc' = "halted"
  /\ UNCHANGED <<ring, popping, history>>

pop_event == PopTest \/ PopIndex \/ PopCopyType \/ PopCopyData \/ PopAdvance \/ PopStore

Main == MainLoop \/ pop_event \/ Handle

Next == push_event \/ TimerIrq \/ Abandon \/ Main \/ HaltCommand

Spec == Init /\ [][Next]_vars

(* As long as the loop has not been left, the CPU runs it whenever it is   *)
(* not in a handler, and the PIT interrupts for ever.  Nothing is assumed  *)
(* of the keyboard and the mouse, nor that the loop is left or is not.     *)
FairSpec == Spec /\ WF_vars(Main) /\ WF_vars(TimerIrq)

-----------------------------------------------------------------------------
DeliveredIds == {delivered[i].type : i \in DOMAIN delivered}
QueuedIds == {Contents[i].type : i \in 1 .. Count}
InHand == IF Reading THEN {event.type} ELSE {}

(* Indices stay inside the ring and slots hold events, under every         *)
(* interleaving of push_event with the steps of pop_event.                 *)
TypeOK ==
  /\ event_queue \in [Slots -> Events]
  /\ queue_head \in Slots /\ queue_tail \in Slots
  /\ pc \in {"loop", "test", "index", "copy_type", "copy_data", "advance",
             "store", "handle", "hlt", "gone", "halted"}
  /\ index \in Slots /\ event \in Events /\ next_tail \in Slots
  /\ pushed \in 0 .. MaxEvents
  /\ delivered \in Seq(Events)
  /\ dropped \subseteq 0 .. MaxEvents
  /\ raced \in BOOLEAN

(* The ring holds the most recent pushes, complete and in order, whatever  *)
(* was pushed, dropped and popped before, unless a push found the ring     *)
(* full while pop_event was reading its oldest event.                      *)
QueueHoldsNewest ==
  ~raced => \A i \in 1 .. Count : Contents[i] = Event(pushed - Count + i)

(* The ring implements the bounded queue that drops its oldest event, up   *)
(* to the first race: every event pushed is delivered once, in its order,  *)
(* or dropped as the oldest of a full ring, or still queued.               *)
Fifo == INSTANCE EventFifo WITH Capacity <- Size - 1, queue <- Contents
RefinesFifo == Fifo!Init /\ [][~raced' => Fifo!Next]_<<Contents, pushed, delivered>>

(* The loop takes one event per turn and halts after each turn, and an     *)
(* interrupt may come between the test and the halt: the queue is still    *)
(* always emptied again, because the timer ends every halt, unless the     *)
(* loop has been left for a process or for good.                           *)
Drains == []<>(~events_pending \/ pc \in {"gone", "halted"})

(* "Queue full, drop oldest event" (events.c:18): an event leaves the ring *)
(* only by being delivered or by being the oldest one when a push finds    *)
(* the ring full.                                                          *)
OnlyOldestDropped ==
  1 .. pushed \subseteq DeliveredIds \cup dropped \cup QueuedIds \cup InHand

=============================================================================
