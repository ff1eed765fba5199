----------------------------- MODULE EventFifo -----------------------------
(***************************************************************************)
(* What the event queue of SimpleOS promises (events.h, and the comment    *)
(* "Queue full, drop oldest event" of events.c): a bounded first-in        *)
(* first-out queue that gives up its oldest event when it is full, and     *)
(* whose consumer receives whole events.                                   *)
(***************************************************************************)
EXTENDS Naturals, Sequences

CONSTANT Capacity    \* events the queue holds: EVENT_QUEUE_SIZE - 1

VARIABLES queue, pushed, delivered

fifoVars == <<queue, pushed, delivered>>

(* The k-th event pushed.  Its type and its data carry the same tag, so    *)
(* that a copy that mixes two events shows.                                *)
Event(k) == [type |-> k, data |-> k]

Init ==
  /\ queue = << >>
  /\ pushed = 0
  /\ delivered = << >>

Push ==
  /\ pushed' = pushed + 1
  /\ queue' = Append(IF Len(queue) = Capacity THEN Tail(queue) ELSE queue,
                     Event(pushed + 1))
  /\ UNCHANGED delivered

Pop ==
  /\ queue # << >>
  /\ queue' = Tail(queue)
  /\ delivered' = Append(delivered, Head(queue))
  /\ UNCHANGED pushed

Next == Push \/ Pop

=============================================================================
