-------------------------- MODULE EventQueueProofs --------------------------
(***************************************************************************)
(* Proofs about EventQueue for every ring size and every number of events. *)
(***************************************************************************)
EXTENDS EventQueue, SequenceTheorems, TLAPS

(* The arithmetic of ring indices. *)
LEMMA ModValue ==
  ASSUME NEW a \in Int, -Size < a, a < 2 * Size
  PROVE  a % Size = IF a < 0 THEN a + Size ELSE IF a < Size THEN a ELSE a - Size
<1> DEFINE q == a \div Size
<1>1. q \in Int /\ a % Size \in 0 .. Size - 1 /\ a = Size * q + (a % Size)
  BY SizeAssumption
<1> QED
  BY <1>1, SizeAssumption

LEMMA StepValue ==
  ASSUME NEW i \in Slots
  PROVE  /\ Step(i) = IF i = Size - 1 THEN 0 ELSE i + 1
         /\ Step(i) \in Slots
BY ModValue, SizeAssumption DEF Step, Slots

(* The slot of the i-th oldest event, and the number of events. *)
SlotOf(tail, i) == IF tail + i - 1 < Size THEN tail + i - 1 ELSE tail + i - 1 - Size
Held(head, tail) == IF head < tail THEN head - tail + Size ELSE head - tail

LEMMA CountValue ==
  ASSUME TypeOK
  PROVE  Count = Held(queue_head, queue_tail) /\ Count \in 0 .. Size - 1
<1> DEFINE d == queue_head - queue_tail
<1>1. d \in Int /\ -Size < d /\ d < Size
  BY SizeAssumption DEF TypeOK, Slots
<1>2. d % Size = IF d < 0 THEN d + Size ELSE d
  <2> HIDE DEF d
  <2> QED
    BY <1>1, ModValue, SizeAssumption
<1> QED
  BY <1>1, <1>2, SizeAssumption DEF TypeOK, Slots, Count, Held

LEMMA ContentsValue ==
  ASSUME TypeOK
  PROVE  \A i \in 1 .. Count : /\ SlotOf(queue_tail, i) \in Slots
                               /\ Contents[i] = event_queue[SlotOf(queue_tail, i)]
<1> SUFFICES ASSUME NEW i \in 1 .. Count
             PROVE  /\ SlotOf(queue_tail, i) \in Slots
                    /\ Contents[i] = event_queue[SlotOf(queue_tail, i)]
  OBVIOUS
<1>1. Count \in 0 .. Size - 1
  BY CountValue
<1> DEFINE d == queue_tail + i - 1
<1>2. d \in Int /\ 0 <= d /\ d < 2 * Size
  BY <1>1, SizeAssumption DEF TypeOK, Slots
<1>3. SlotOf(queue_tail, i) = IF d < Size THEN d ELSE d - Size
  BY <1>1, <1>2, SizeAssumption DEF SlotOf, TypeOK, Slots
<1>4. Contents[i] = event_queue[d % Size]
  BY DEF Contents
<1> HIDE DEF d
<1>5. d % Size = IF d < Size THEN d ELSE d - Size
  BY <1>2, ModValue, SizeAssumption
<1>6. SlotOf(queue_tail, i) \in Slots
  BY <1>2, <1>3, SizeAssumption DEF Slots
<1> QED
  BY <1>3, <1>4, <1>5, <1>6

-----------------------------------------------------------------------------
(* TypeOK is an invariant: no interleaving of push_event with the steps of *)
(* pop_event takes an index out of the ring.                               *)
THEOREM TypeCorrect == Spec => []TypeOK
<1> USE SizeAssumption, BoundAssumption
<1>0. 0 \in Slots /\ \A k \in 0 .. MaxEvents : Event(k) \in Events
  <2>1. 0 \in Slots
    BY DEF Slots
  <2>2. \A k \in 0 .. MaxEvents : Event(k) \in Events
    BY DEF Event, Events
  <2> QED
    BY <2>1, <2>2
<1>1. Init => TypeOK
  <2> SUFFICES ASSUME Init PROVE TypeOK
    OBVIOUS
  <2>1. Event(0) \in Events /\ 0 \in 0 .. MaxEvents
    BY <1>0
  <2>2. << >> \in Seq(Events)
    OBVIOUS
  <2> QED
    BY <1>0, <2>1, <2>2 DEF Init, TypeOK
<1>2. TypeOK /\ [Next]_vars => TypeOK'
  <2> SUFFICES ASSUME TypeOK, [Next]_vars
               PROVE  TypeOK'
    OBVIOUS
  <2>1. CASE push_event
    <3>1. Step(queue_head) \in Slots /\ Step(queue_tail) \in Slots
      BY StepValue DEF TypeOK
    <3>2. pushed' \in 0 .. MaxEvents /\ Event(pushed + 1) \in Events
      BY <1>0, <2>1 DEF push_event, TypeOK
    <3>3. event_queue[queue_tail].type \in 0 .. MaxEvents
      BY DEF TypeOK, Events
    <3> QED
      BY <2>1, <3>1, <3>2, <3>3 DEF push_event, Wake, TypeOK, popping
  <2>2. CASE TimerIrq
    BY <2>2 DEF TimerIrq, Wake, TypeOK, ring, popping, history
  <2>3. CASE MainLoop
    BY <2>3 DEF MainLoop, TypeOK, ring, popping, history
  <2>4. CASE PopTest
    BY <2>4 DEF PopTest, TypeOK, ring, popping, history
  <2>5. CASE PopIndex
    BY <2>5 DEF PopIndex, TypeOK, ring, history
  <2>6. CASE PopCopyType
    BY <2>6 DEF PopCopyType, TypeOK, ring, history, Events
  <2>7. CASE PopCopyData
    BY <2>7 DEF PopCopyData, TypeOK, ring, history, Events
  <2>8. CASE PopAdvance
    BY <2>8, StepValue DEF PopAdvance, TypeOK, ring, history
  <2>9. CASE PopStore
    BY <2>9, AppendProperties DEF PopStore, TypeOK, popping
  <2>10. CASE Handle
    BY <2>10 DEF Handle, TypeOK, ring, popping, history
  <2>11. CASE UNCHANGED vars
    BY <2>11 DEF TypeOK, vars, ring, popping, history
  <2>12. CASE Abandon \/ HaltCommand
    BY <2>12 DEF Abandon, HaltCommand, TypeOK, ring, popping, history
  <2> QED
    BY <2>1, <2>2, <2>3, <2>4, <2>5, <2>6, <2>7, <2>8, <2>9, <2>10, <2>11, <2>12
       DEF Next, Main, pop_event
<1> QED
  BY <1>1, <1>2, PTL DEF Spec

-----------------------------------------------------------------------------
(* The inductive invariant: what the ring holds, and what pop_event knows  *)
(* at each of its steps as long as no push into a full ring came between   *)
(* them.                                                                   *)
NewestInRing ==
  \A i \in 1 .. Held(queue_head, queue_tail) :
    event_queue[SlotOf(queue_tail, i)] =
      Event(pushed - Held(queue_head, queue_tail) + i)

PopInProgress ==
  /\ events_pending
  /\ index = queue_tail
  /\ pc = "copy_data" => event.type = event_queue[index].type
  /\ pc \in {"advance", "store"} => event = event_queue[index]
  /\ pc = "store" => next_tail = Step(queue_tail)

RingInv ==
  /\ pc = "index" => events_pending
  /\ ~raced => NewestInRing
  /\ ~raced /\ Reading => PopInProgress

(* A push into a ring that is not full appends, and leaves the slots of    *)
(* the queued events alone.                                                *)
LEMMA PushAppends ==
  ASSUME TypeOK, push_event, Step(queue_head) # queue_tail
  PROVE  /\ Held(queue_head, queue_tail)' = Held(queue_head, queue_tail) + 1
         /\ queue_tail' = queue_tail
         /\ events_pending'
         /\ event_queue'[queue_head] = Event(pushed + 1)
         /\ SlotOf(queue_tail, Held(queue_head, queue_tail) + 1) = queue_head
         /\ \A s \in Slots : s # queue_head => event_queue'[s] = event_queue[s]
         /\ \A i \in 1 .. Held(queue_head, queue_tail) :
               SlotOf(queue_tail, i) \in Slots /\ SlotOf(queue_tail, i) # queue_head
<1>1. /\ Step(queue_head) = (IF queue_head = Size - 1 THEN 0 ELSE queue_head + 1)
      /\ queue_head' = Step(queue_head)
      /\ queue_tail' = queue_tail
      /\ event_queue' = [event_queue EXCEPT ![queue_head] = Event(pushed + 1)]
  BY StepValue DEF push_event, TypeOK
<1>2. queue_head \in 0 .. Size - 1 /\ queue_tail \in 0 .. Size - 1
  BY DEF TypeOK, Slots
<1>3. /\ Held(queue_head, queue_tail)' = Held(queue_head, queue_tail) + 1
      /\ events_pending'
      /\ SlotOf(queue_tail, Held(queue_head, queue_tail) + 1) = queue_head
  BY <1>1, <1>2, SizeAssumption DEF Held, SlotOf, events_pending
<1>4. /\ event_queue'[queue_head] = Event(pushed + 1)
      /\ \A s \in Slots : s # queue_head => event_queue'[s] = event_queue[s]
  BY <1>1 DEF TypeOK
<1>5. \A i \in 1 .. Held(queue_head, queue_tail) :
        SlotOf(queue_tail, i) \in Slots /\ SlotOf(queue_tail, i) # queue_head
  BY <1>2, SizeAssumption DEF Held, SlotOf, Slots
<1> QED
  BY <1>1, <1>3, <1>4, <1>5

(* A push into a full ring moves the tail past the oldest event. *)
LEMMA PushDropsOldest ==
  ASSUME TypeOK, push_event, Step(queue_head) = queue_tail
  PROVE  /\ Held(queue_head, queue_tail) = Size - 1
         /\ Held(queue_head, queue_tail)' = Size - 1
         /\ events_pending'
         /\ \A i \in 1 .. Size - 2 :
              /\ SlotOf(queue_tail', i) = SlotOf(queue_tail, i + 1)
              /\ event_queue'[SlotOf(queue_tail, i + 1)] =
                   event_queue[SlotOf(queue_tail, i + 1)]
         /\ event_queue'[SlotOf(queue_tail', Size - 1)] = Event(pushed + 1)
<1>1. /\ queue_tail = (IF queue_head = Size - 1 THEN 0 ELSE queue_head + 1)
      /\ queue_head' = queue_tail
      /\ queue_tail' = (IF queue_tail = Size - 1 THEN 0 ELSE queue_tail + 1)
  BY StepValue DEF push_event, TypeOK
<1>a. event_queue' = [event_queue EXCEPT ![queue_head] = Event(pushed + 1)]
  BY DEF push_event
<1>2. queue_head \in 0 .. Size - 1 /\ queue_tail \in 0 .. Size - 1
  BY DEF TypeOK, Slots
<1>3. /\ Held(queue_head, queue_tail) = Size - 1
      /\ Held(queue_head, queue_tail)' = Size - 1
      /\ events_pending'
      /\ SlotOf(queue_tail', Size - 1) = queue_head
  BY <1>1, <1>2, SizeAssumption DEF Held, SlotOf, events_pending
<1>4. \A i \in 1 .. Size - 2 : /\ SlotOf(queue_tail', i) = SlotOf(queue_tail, i + 1)
                               /\ SlotOf(queue_tail, i + 1) \in Slots
                               /\ SlotOf(queue_tail, i + 1) # queue_head
  <2> SUFFICES ASSUME NEW i \in 1 .. Size - 2
               PROVE  /\ SlotOf(queue_tail', i) = SlotOf(queue_tail, i + 1)
                      /\ SlotOf(queue_tail, i + 1) \in Slots
                      /\ SlotOf(queue_tail, i + 1) # queue_head
    OBVIOUS
  <2> DEFINE t == queue_tail
             n == queue_tail'
             h == queue_head
  <2>1. /\ t \in 0 .. Size - 1 /\ h \in 0 .. Size - 1 /\ i \in Int
        /\ n = (IF t = Size - 1 THEN 0 ELSE t + 1)
        /\ t = (IF h = Size - 1 THEN 0 ELSE h + 1)
        /\ 1 <= i /\ i <= Size - 2
    BY <1>1, <1>2, SizeAssumption
  <2> HIDE DEF t, n, h
  <2>2. SlotOf(n, i) = SlotOf(t, i + 1)
    BY <2>1, SizeAssumption DEF SlotOf
  <2>3. SlotOf(t, i + 1) \in 0 .. Size - 1
    BY <2>1, SizeAssumption DEF SlotOf
  <2>4. SlotOf(t, i + 1) # h
    BY <2>1, SizeAssumption DEF SlotOf
  <2> QED
    BY <2>2, <2>3, <2>4 DEF t, n, h, Slots
<1>5. /\ event_queue'[queue_head] = Event(pushed + 1)
      /\ \A s \in Slots : s # queue_head => event_queue'[s] = event_queue[s]
  BY <1>a DEF TypeOK
<1> QED
  BY <1>3, <1>4, <1>5

(* Storing the incremented tail removes the oldest event and shifts the    *)
(* others by one.                                                          *)
LEMMA StoreRemovesOldest ==
  ASSUME TypeOK, events_pending, queue_tail' = Step(queue_tail),
         queue_head' = queue_head
  PROVE  /\ Held(queue_head, queue_tail) \in 1 .. Size - 1
         /\ Held(queue_head, queue_tail)' = Held(queue_head, queue_tail) - 1
         /\ SlotOf(queue_tail, 1) = queue_tail
         /\ \A i \in 1 .. Held(queue_head, queue_tail) - 1 :
              SlotOf(queue_tail', i) = SlotOf(queue_tail, i + 1)
<1>1. Step(queue_tail) = (IF queue_tail = Size - 1 THEN 0 ELSE queue_tail + 1)
  BY StepValue DEF TypeOK
<1>2. queue_head \in 0 .. Size - 1 /\ queue_tail \in 0 .. Size - 1
  BY DEF TypeOK, Slots
<1> QED
  BY <1>1, <1>2, SizeAssumption DEF Held, SlotOf, events_pending

-----------------------------------------------------------------------------
(* Only two actions change the ring; the others move pop_event through its *)
(* steps.                                                                  *)
LEMMA PushKeepsRingInv ==
  ASSUME TypeOK, RingInv, push_event
  PROVE  RingInv'
<1>1. CASE Step(queue_head) # queue_tail
  <2>1. /\ events_pending' /\ queue_tail' = queue_tail /\ raced' = raced
        /\ pushed' = pushed + 1 /\ pushed \in Int
        /\ Reading' = Reading /\ index' = index /\ event' = event
        /\ next_tail' = next_tail
    BY <1>1, PushAppends DEF push_event, Wake, popping, Reading, TypeOK
  <2>2. ASSUME ~raced PROVE NewestInRing'
    <3> DEFINE n == Held(queue_head, queue_tail)
    <3>1. n \in 0 .. Size - 1
      BY CountValue
    <3>2. /\ Held(queue_head, queue_tail)' = n + 1
          /\ event_queue'[SlotOf(queue_tail, n + 1)] = Event(pushed + 1)
      BY <1>1, PushAppends
    <3>3. \A i \in 1 .. n : event_queue'[SlotOf(queue_tail, i)] = Event(pushed - n + i)
      BY <1>1, <2>2, PushAppends DEF RingInv, NewestInRing
    <3> HIDE DEF n
    <3>4. \A i \in 1 .. n + 1 : event_queue'[SlotOf(queue_tail', i)] = Event(pushed' - (n + 1) + i)
      <4> SUFFICES ASSUME NEW i \in 1 .. n + 1
                   PROVE  event_queue'[SlotOf(queue_tail', i)] = Event(pushed' - (n + 1) + i)
        OBVIOUS
      <4>1. CASE i = n + 1
        <5>1. pushed' - (n + 1) + i = pushed + 1
          BY <2>1, <3>1, <4>1
        <5> QED
          BY <2>1, <3>2, <4>1, <5>1
      <4>2. CASE i \in 1 .. n
        <5>1. pushed' - (n + 1) + i = pushed - n + i
          BY <2>1, <3>1, <4>2
        <5> QED
          BY <2>1, <3>3, <4>2, <5>1
      <4> QED
        BY <3>1, <4>1, <4>2
    <3> QED
      BY <3>2, <3>4 DEF NewestInRing
  <2>3. ASSUME ~raced, Reading PROVE PopInProgress'
    <3>1. PopInProgress /\ pc' = pc
      BY <2>3 DEF RingInv, push_event, Wake, Reading
    <3>2. queue_tail \in Slots /\ queue_tail # queue_head
      BY <3>1 DEF PopInProgress, events_pending, TypeOK
    <3>3. event_queue'[queue_tail] = event_queue[queue_tail]
      BY <1>1, <3>2, PushAppends
    <3> QED
      BY <2>1, <3>1, <3>3 DEF PopInProgress
  <2> QED
    BY <2>1, <2>2, <2>3 DEF RingInv
<1>2. CASE Step(queue_head) = queue_tail
  <2>1. /\ events_pending' /\ pushed' = pushed + 1 /\ pushed \in Int
        /\ Reading' = Reading
    BY <1>2, PushDropsOldest DEF push_event, Wake, Reading, TypeOK
  <2>2. ~raced' => ~raced /\ ~Reading
    BY <1>2 DEF push_event
  <2>3. ASSUME ~raced' PROVE NewestInRing'
    <3>1. NewestInRing
      BY <2>2, <2>3 DEF RingInv
    <3>2. /\ Held(queue_head, queue_tail) = Size - 1
          /\ Held(queue_head, queue_tail)' = Size - 1
          /\ event_queue'[SlotOf(queue_tail', Size - 1)] = Event(pushed + 1)
          /\ \A i \in 1 .. Size - 2 :
               event_queue'[SlotOf(queue_tail', i)] = event_queue[SlotOf(queue_tail, i + 1)]
      BY <1>2, PushDropsOldest
    <3>3. \A i \in 1 .. Size - 1 :
            event_queue[SlotOf(queue_tail, i)] = Event(pushed - (Size - 1) + i)
      BY <3>1, <3>2 DEF NewestInRing
    <3>4. \A i \in 1 .. Size - 1 :
            event_queue'[SlotOf(queue_tail', i)] = Event(pushed' - (Size - 1) + i)
      <4> SUFFICES ASSUME NEW i \in 1 .. Size - 1
                   PROVE  event_queue'[SlotOf(queue_tail', i)] = Event(pushed' - (Size - 1) + i)
        OBVIOUS
      <4>1. CASE i = Size - 1
        <5>1. pushed' - (Size - 1) + i = pushed + 1
          BY <2>1, <4>1, SizeAssumption
        <5> QED
          BY <3>2, <4>1, <5>1
      <4>2. CASE i \in 1 .. Size - 2
        <5>1. /\ pushed' - (Size - 1) + i = pushed - (Size - 1) + (i + 1)
              /\ i + 1 \in 1 .. Size - 1
          BY <2>1, <4>2, SizeAssumption
        <5> QED
          BY <3>2, <3>3, <4>2, <5>1
      <4> QED
        BY <4>1, <4>2, SizeAssumption
    <3> QED
      BY <3>2, <3>4 DEF NewestInRing
  <2> QED
    BY <2>1, <2>2, <2>3 DEF RingInv
<1> QED
  BY <1>1, <1>2

LEMMA StoreKeepsRingInv ==
  ASSUME TypeOK, RingInv, PopStore
  PROVE  RingInv'
<1>1. /\ raced' = raced /\ pushed' = pushed /\ event_queue' = event_queue
      /\ queue_head' = queue_head /\ queue_tail' = next_tail
      /\ ~Reading' /\ pc' # "index" /\ Reading /\ pc = "store"
      /\ pushed \in Int
  BY DEF PopStore, Reading, TypeOK
<1>2. ASSUME ~raced PROVE NewestInRing'
  <2> DEFINE n == Held(queue_head, queue_tail)
  <2>1. NewestInRing /\ events_pending /\ queue_tail' = Step(queue_tail)
    BY <1>1, <1>2 DEF RingInv, PopInProgress
  <2>2. /\ n \in 1 .. Size - 1
        /\ Held(queue_head, queue_tail)' = n - 1
        /\ \A i \in 1 .. n - 1 : SlotOf(queue_tail', i) = SlotOf(queue_tail, i + 1)
    BY <1>1, <2>1, StoreRemovesOldest
  <2>3. \A i \in 1 .. n : event_queue[SlotOf(queue_tail, i)] = Event(pushed - n + i)
    BY <2>1 DEF NewestInRing
  <2> HIDE DEF n
  <2>4. \A i \in 1 .. n - 1 :
          event_queue[SlotOf(queue_tail', i)] = Event(pushed - (n - 1) + i)
    <3> SUFFICES ASSUME NEW i \in 1 .. n - 1
                 PROVE  event_queue[SlotOf(queue_tail', i)] = Event(pushed - (n - 1) + i)
      OBVIOUS
    <3>1. i + 1 \in 1 .. n /\ pushed - n + (i + 1) = pushed - (n - 1) + i
      BY <1>1, <2>2
    <3> QED
      BY <2>2, <2>3, <3>1
  <2> QED
    BY <1>1, <2>2, <2>4 DEF NewestInRing
<1> QED
  BY <1>1, <1>2 DEF RingInv

LEMMA OthersKeepRingInv ==
  ASSUME TypeOK, RingInv, UNCHANGED <<ring, pushed, raced>>,
         pc' = "index" => events_pending,
         (~raced /\ Reading)' => PopInProgress'
  PROVE  RingInv'
BY DEF RingInv, NewestInRing, ring, events_pending

LEMMA RingInvInductive ==
  ASSUME TypeOK, RingInv, [Next]_vars
  PROVE  RingInv'
<1>1. CASE push_event
  BY <1>1, PushKeepsRingInv
<1>2. CASE PopStore
  BY <1>2, StoreKeepsRingInv
<1>3. CASE TimerIrq \/ MainLoop \/ PopTest \/ Handle \/ Abandon \/ HaltCommand
  <2>1. /\ UNCHANGED <<ring, pushed, raced>>
        /\ pc' = "index" => events_pending
        /\ ~Reading'
    BY <1>3 DEF TimerIrq, Wake, MainLoop, PopTest, Handle, Abandon, HaltCommand, history, Reading
  <2> QED
    BY <2>1, OthersKeepRingInv
<1>4. CASE PopIndex
  <2>1. /\ UNCHANGED <<ring, pushed, raced>> /\ pc' = "copy_type"
        /\ events_pending /\ events_pending' /\ index' = queue_tail
        /\ queue_tail' = queue_tail
    BY <1>4 DEF PopIndex, RingInv, history, ring, events_pending
  <2> QED
    BY <2>1, OthersKeepRingInv DEF PopInProgress
<1>5. CASE PopCopyType
  <2>1. /\ UNCHANGED <<ring, pushed, raced>> /\ pc' = "copy_data"
        /\ index' = index /\ event'.type = event_queue[index].type
        /\ event_queue' = event_queue /\ queue_tail' = queue_tail
        /\ events_pending' = events_pending
        /\ Reading /\ raced' = raced
    BY <1>5 DEF PopCopyType, history, ring, events_pending, TypeOK, Events, Reading
  <2> QED
    BY <2>1, OthersKeepRingInv DEF PopInProgress, RingInv
<1>6. CASE PopCopyData
  <2>1. /\ UNCHANGED <<ring, pushed, raced>> /\ pc' = "advance" /\ pc = "copy_data"
        /\ index' = index
        /\ event_queue' = event_queue /\ queue_tail' = queue_tail
        /\ events_pending' = events_pending
        /\ Reading /\ raced' = raced
    BY <1>6 DEF PopCopyData, history, ring, events_pending, Reading
  <2>2. ASSUME ~raced PROVE event' = event_queue[index]
    <3>1. event.type = event_queue[index].type /\ index \in Slots
      BY <2>1, <2>2 DEF RingInv, PopInProgress, TypeOK
    <3>2. event \in Events /\ event_queue[index] \in Events
      BY <3>1 DEF TypeOK
    <3>3. event' = [event EXCEPT !.data = event_queue[index].data]
      BY <1>6 DEF PopCopyData
    <3> QED
      BY <3>1, <3>2, <3>3 DEF Events
  <2> QED
    BY <2>1, <2>2, OthersKeepRingInv DEF PopInProgress, RingInv
<1>7. CASE PopAdvance
  <2>1. /\ UNCHANGED <<ring, pushed, raced>> /\ pc' = "store" /\ pc = "advance"
        /\ index' = index /\ event' = event
        /\ event_queue' = event_queue /\ queue_tail' = queue_tail
        /\ next_tail' = Step(queue_tail)
        /\ events_pending' = events_pending
        /\ Reading /\ raced' = raced
    BY <1>7 DEF PopAdvance, history, ring, events_pending, Reading
  <2> QED
    BY <2>1, OthersKeepRingInv DEF PopInProgress, RingInv
<1>8. CASE UNCHANGED vars
  BY <1>8 DEF vars, ring, popping, history, RingInv, NewestInRing, PopInProgress,
              events_pending, Reading
<1> QED
  BY <1>1, <1>2, <1>3, <1>4, <1>5, <1>6, <1>7, <1>8 DEF Next, Main, pop_event

THEOREM RingInvariant == Spec => []RingInv
<1>1. Init => RingInv
  <2> SUFFICES ASSUME Init PROVE RingInv
    OBVIOUS
  <2>1. Held(queue_head, queue_tail) = 0
    BY DEF Init, Held
  <2>2. NewestInRing
    BY <2>1 DEF NewestInRing
  <2> QED
    BY <2>2 DEF Init, RingInv, Reading
<1> QED
  BY <1>1, TypeCorrect, RingInvInductive, PTL DEF Spec

(* The ring holds the most recent pushes, whole and in order, until a push *)
(* into a full ring meets a pop in progress: for every ring size.          *)
THEOREM RingHoldsNewest == Spec => []QueueHoldsNewest
<1>1. TypeOK /\ RingInv => QueueHoldsNewest
  BY CountValue, ContentsValue DEF RingInv, NewestInRing, QueueHoldsNewest
<1> QED
  BY <1>1, TypeCorrect, RingInvariant, PTL

-----------------------------------------------------------------------------
(* The refinement: up to the first race the ring is the sequence of the    *)
(* newest events, and what the steps do to that sequence is what EventFifo *)
(* allows.                                                                 *)
NewestSeq(p, c) == [i \in 1 .. c |-> Event(p - c + i)]

LEMMA NewestSeqLen ==
  ASSUME NEW p \in Int, NEW c \in Nat
  PROVE  /\ NewestSeq(p, c) \in Seq({Event(k) : k \in Int})
         /\ Len(NewestSeq(p, c)) = c
         /\ \A i \in 1 .. c : NewestSeq(p, c)[i] = Event(p - c + i)
BY DEF NewestSeq

LEMMA NewestSeqAppend ==
  ASSUME NEW p \in Int, NEW c \in Nat
  PROVE  NewestSeq(p + 1, c + 1) = Append(NewestSeq(p, c), Event(p + 1))
<1> DEFINE S == {Event(k) : k \in Int}
           s == NewestSeq(p, c)
           t == NewestSeq(p + 1, c + 1)
           u == Append(s, Event(p + 1))
<1>1. s \in Seq(S) /\ Len(s) = c /\ \A i \in 1 .. c : s[i] = Event(p - c + i)
  BY NewestSeqLen
<1>2. t \in Seq(S) /\ Len(t) = c + 1
      /\ \A i \in 1 .. c + 1 : t[i] = Event(p + 1 - (c + 1) + i)
  <2> DEFINE p1 == p + 1
             c1 == c + 1
  <2>1. p1 \in Int /\ c1 \in Nat
    OBVIOUS
  <2> HIDE DEF p1, c1
  <2>2. /\ NewestSeq(p1, c1) \in Seq(S) /\ Len(NewestSeq(p1, c1)) = c1
        /\ \A i \in 1 .. c1 : NewestSeq(p1, c1)[i] = Event(p1 - c1 + i)
    BY <2>1, NewestSeqLen
  <2> QED
    BY <2>2 DEF p1, c1
<1>3. Event(p + 1) \in S
  OBVIOUS
<1> HIDE DEF S, s, t
<1>4. u \in Seq(S) /\ Len(u) = c + 1 /\ u[c + 1] = Event(p + 1)
      /\ \A i \in 1 .. c : u[i] = s[i]
  BY <1>1, <1>3, AppendProperties
<1>5. \A i \in 1 .. c + 1 : t[i] = u[i]
  <2> SUFFICES ASSUME NEW i \in 1 .. c + 1 PROVE t[i] = u[i]
    OBVIOUS
  <2>1. CASE i = c + 1
    <3>1. p + 1 - (c + 1) + i = p + 1
      BY <2>1
    <3> QED
      BY <1>2, <1>4, <2>1, <3>1
  <2>2. CASE i \in 1 .. c
    <3>1. p + 1 - (c + 1) + i = p - c + i
      BY <2>2
    <3> QED
      BY <1>1, <1>2, <1>4, <2>2, <3>1
  <2>3. i = c + 1 \/ i \in 1 .. c
    OBVIOUS
  <2> QED
    BY <2>1, <2>2, <2>3
<1> HIDE DEF u
<1> QED
  BY <1>2, <1>4, <1>5, SeqEqual DEF t, u, s

LEMMA NewestSeqTail ==
  ASSUME NEW p \in Int, NEW c \in Nat, c >= 1
  PROVE  /\ NewestSeq(p, c) # << >>
         /\ Head(NewestSeq(p, c)) = Event(p - c + 1)
         /\ Tail(NewestSeq(p, c)) = NewestSeq(p, c - 1)
<1> DEFINE S == {Event(k) : k \in Int}
           s == NewestSeq(p, c)
           t == NewestSeq(p, c - 1)
<1>1. s \in Seq(S) /\ Len(s) = c /\ \A i \in 1 .. c : s[i] = Event(p - c + i)
  BY NewestSeqLen
<1>2. t \in Seq(S) /\ Len(t) = c - 1
      /\ \A i \in 1 .. c - 1 : t[i] = Event(p - (c - 1) + i)
  <2>1. c - 1 \in Nat
    OBVIOUS
  <2> QED
    BY <2>1, NewestSeqLen
<1> HIDE DEF S, s, t
<1>3. s # << >> /\ Head(s) = s[1]
  BY <1>1
<1>4. /\ Tail(s) \in Seq(S) /\ Len(Tail(s)) = c - 1
      /\ \A i \in 1 .. c - 1 : Tail(s)[i] = s[i + 1]
  BY <1>1, <1>3, HeadTailProperties
<1>5. \A i \in 1 .. c - 1 : Tail(s)[i] = t[i]
  <2> SUFFICES ASSUME NEW i \in 1 .. c - 1 PROVE Tail(s)[i] = t[i]
    OBVIOUS
  <2>1. i + 1 \in 1 .. c /\ p - c + (i + 1) = p - (c - 1) + i
    OBVIOUS
  <2> QED
    BY <1>1, <1>2, <1>4, <2>1
<1>6. Tail(s) = t
  BY <1>2, <1>4, <1>5, SeqEqual
<1>7. s[1] = Event(p - c + 1)
  BY <1>1
<1> QED
  BY <1>3, <1>6, <1>7 DEF s, t

IsNewestSeq ==
  ~raced => /\ Contents = NewestSeq(pushed, Count)
            /\ Count = Held(queue_head, queue_tail)
            /\ Count \in 0 .. Size - 1 /\ pushed \in Int

THEOREM ContentsIsNewestSeq == Spec => []IsNewestSeq
<1>1. TypeOK /\ RingInv => IsNewestSeq
  <2> SUFFICES ASSUME TypeOK, RingInv, ~raced
               PROVE  /\ Contents = NewestSeq(pushed, Count)
                      /\ Count = Held(queue_head, queue_tail)
                      /\ Count \in 0 .. Size - 1 /\ pushed \in Int
    BY DEF IsNewestSeq
  <2>1. Count = Held(queue_head, queue_tail) /\ Count \in 0 .. Size - 1 /\ pushed \in Int
    BY CountValue DEF TypeOK
  <2>2. \A i \in 1 .. Count : Contents[i] = Event(pushed - Count + i)
    BY <2>1, ContentsValue DEF RingInv, NewestInRing
  <2>3. Contents = [i \in 1 .. Count |-> Contents[i]]
    BY DEF Contents
  <2> HIDE DEF Contents
  <2> QED
    BY <2>1, <2>2, <2>3 DEF NewestSeq
<1> QED
  BY <1>1, TypeCorrect, RingInvariant, PTL

LEMMA PushRefines ==
  ASSUME TypeOK, RingInv, IsNewestSeq, IsNewestSeq', push_event, ~raced'
  PROVE  Fifo!Push
<1>1. ~raced /\ pushed' = pushed + 1 /\ delivered' = delivered
  BY DEF push_event
<1>2. /\ Contents = NewestSeq(pushed, Count)
      /\ Count = Held(queue_head, queue_tail)
      /\ Count \in 0 .. Size - 1 /\ pushed \in Int
  BY <1>1 DEF IsNewestSeq
<1>3. /\ Contents' = NewestSeq(pushed + 1, Count')
      /\ Count' = Held(queue_head, queue_tail)'
  <2>1. ~raced'
    OBVIOUS
  <2>2. Contents' = NewestSeq(pushed', Count') /\ Count' = Held(queue_head, queue_tail)'
    BY <2>1 DEF IsNewestSeq, NewestSeq
  <2> QED
    BY <1>1, <2>2
<1>4. Count \in Nat /\ Len(Contents) = Count
  <2>1. Count \in Nat
    BY <1>2, SizeAssumption
  <2> QED
    BY <1>2, <2>1, NewestSeqLen
<1>5. Fifo!Event(pushed + 1) = Event(pushed + 1)
  BY DEF Fifo!Event, Event
<1>6. CASE Step(queue_head) # queue_tail
  <2>1. Count' = Count + 1 /\ Count' \in 0 .. Size - 1
    BY <1>2, <1>3, <1>6, PushAppends DEF IsNewestSeq
  <2>2. Count # Size - 1
    BY <1>2, <2>1, SizeAssumption
  <2>3. Contents' = Append(Contents, Event(pushed + 1))
    BY <1>2, <1>3, <1>4, <2>1, NewestSeqAppend
  <2> QED
    BY <1>1, <1>4, <1>5, <2>2, <2>3 DEF Fifo!Push
<1>7. CASE Step(queue_head) = queue_tail
  <2>1. Count = Size - 1 /\ Count' = Size - 1
    BY <1>2, <1>3, <1>7, PushDropsOldest
  <2>2. Tail(Contents) = NewestSeq(pushed, Count - 1)
    <3>1. Count \in Nat /\ Count >= 1
      BY <2>1, SizeAssumption
    <3> QED
      BY <1>2, <3>1, NewestSeqTail
  <2>3. Count - 1 \in Nat /\ (Count - 1) + 1 = Count
    BY <1>2, <2>1, SizeAssumption
  <2>4. NewestSeq(pushed + 1, Count) = Append(NewestSeq(pushed, Count - 1), Event(pushed + 1))
    BY <1>2, <2>3, NewestSeqAppend
  <2>5. Contents' = Append(Tail(Contents), Event(pushed + 1))
    BY <1>3, <2>1, <2>2, <2>4
  <2> QED
    BY <1>1, <1>4, <1>5, <2>1, <2>5 DEF Fifo!Push
<1> QED
  BY <1>6, <1>7

LEMMA StoreRefines ==
  ASSUME TypeOK, RingInv, IsNewestSeq, IsNewestSeq', PopStore, ~raced'
  PROVE  Fifo!Pop
<1>1. /\ ~raced /\ pushed' = pushed /\ delivered' = Append(delivered, event)
      /\ queue_tail' = next_tail /\ queue_head' = queue_head /\ Reading /\ pc = "store"
  BY DEF PopStore, Reading
<1>2. /\ events_pending /\ queue_tail' = Step(queue_tail)
      /\ event = event_queue[queue_tail] /\ NewestInRing
  BY <1>1 DEF RingInv, PopInProgress
<1>3. /\ Contents = NewestSeq(pushed, Count)
      /\ Count = Held(queue_head, queue_tail)
      /\ Count \in 0 .. Size - 1 /\ pushed \in Int
  BY <1>1 DEF IsNewestSeq
<1>4. /\ Contents' = NewestSeq(pushed, Count')
      /\ Count' = Held(queue_head, queue_tail)'
  <2>1. ~raced'
    OBVIOUS
  <2>2. Contents' = NewestSeq(pushed', Count') /\ Count' = Held(queue_head, queue_tail)'
    BY <2>1 DEF IsNewestSeq, NewestSeq
  <2> QED
    BY <1>1, <2>2
<1>5. Count >= 1 /\ Count' = Count - 1 /\ SlotOf(queue_tail, 1) = queue_tail
  BY <1>1, <1>2, <1>3, <1>4, StoreRemovesOldest
<1>6. event = Event(pushed - Count + 1)
  <2>1. 1 \in 1 .. Held(queue_head, queue_tail)
    BY <1>3, <1>5
  <2> QED
    BY <1>2, <1>3, <1>5, <2>1 DEF NewestInRing
<1>7. Contents # << >> /\ Head(Contents) = event /\ Contents' = Tail(Contents)
  <2>1. Count \in Nat
    BY <1>3, SizeAssumption
  <2>2. /\ NewestSeq(pushed, Count) # << >>
        /\ Head(NewestSeq(pushed, Count)) = Event(pushed - Count + 1)
        /\ Tail(NewestSeq(pushed, Count)) = NewestSeq(pushed, Count - 1)
    BY <1>3, <1>5, <2>1, NewestSeqTail
  <2> QED
    BY <1>3, <1>4, <1>5, <1>6, <2>2
<1> QED
  BY <1>1, <1>7 DEF Fifo!Pop

(* Up to the first race, events.c implements the bounded queue that drops  *)
(* its oldest event: every push and every completed pop is a step of       *)
(* EventFifo, every other step leaves the queue as it is.                  *)
THEOREM RingImplementsFifo == Spec => RefinesFifo
<1>1. Init => Fifo!Init
  <2> SUFFICES ASSUME Init PROVE Fifo!Init
    OBVIOUS
  <2>1. Count = 0
    BY SizeAssumption DEF Init, Count
  <2>2. Contents = << >>
    BY <2>1 DEF Contents
  <2> QED
    BY <2>2 DEF Init, Fifo!Init
<1>2. TypeOK /\ RingInv /\ IsNewestSeq /\ IsNewestSeq' /\ [Next]_vars
        => [~raced' => Fifo!Next]_<<Contents, pushed, delivered>>
  <2> SUFFICES ASSUME TypeOK, RingInv, IsNewestSeq, IsNewestSeq', [Next]_vars, ~raced'
               PROVE  Fifo!Next \/ UNCHANGED <<Contents, pushed, delivered>>
    OBVIOUS
  <2>1. CASE push_event
    BY <2>1, PushRefines DEF Fifo!Next
  <2>2. CASE PopStore
    BY <2>2, StoreRefines DEF Fifo!Next
  <2>3. CASE TimerIrq \/ MainLoop \/ PopTest \/ PopIndex \/ PopCopyType
             \/ PopCopyData \/ PopAdvance \/ Handle \/ Abandon \/ HaltCommand \/ UNCHANGED vars
    <3>1. UNCHANGED <<event_queue, queue_head, queue_tail, pushed, delivered>>
      BY <2>3 DEF TimerIrq, MainLoop, PopTest, PopIndex, PopCopyType, PopCopyData,
                  PopAdvance, Handle, Abandon, HaltCommand, vars, ring, history
    <3> QED
      BY <3>1 DEF Contents, Count
  <2> QED
    BY <2>1, <2>2, <2>3 DEF Next, Main, pop_event
<1> QED
  BY <1>1, <1>2, TypeCorrect, RingInvariant, ContentsIsNewestSeq, PTL DEF Spec, RefinesFifo

=============================================================================
