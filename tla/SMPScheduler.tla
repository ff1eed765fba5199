---------------------------- MODULE SMPScheduler ----------------------------
(***************************************************************************)
(* The multiprocessor scheduler of the side project (SMPScheduler.cpp):    *)
(* per-CPU run queues by priority, work stealing, blocking and priority    *)
(* changes.                                                                *)
(*                                                                         *)
(* Each CPU runs one scheduler call at a time; calls of different CPUs     *)
(* interleave.  A section under a run-queue lock is one step, and so is    *)
(* each access to shared data outside the locks.  A queue is the linked    *)
(* list through thread->next; prev is never read and is left out.          *)
(***************************************************************************)
EXTENDS Integers, FiniteSets

CONSTANTS
  CPUs,            \* 0 .. num_cpus - 1
  Node,            \* Node[c]: rq->numa_node
  Threads,         \* the threads that may be created
  Requests,        \* <<priority_class, priority_delta>> that callers ask for
  MaskBits,        \* 32, the width of an affinity mask
  Masks            \* affinity masks that callers ask for, as sets of bits

None == "none"     \* NULL
Bits == 0 .. MaskBits - 1

ASSUME SMPAssumption ==
  /\ CPUs = 0 .. Cardinality(CPUs) - 1 /\ CPUs # {} /\ IsFiniteSet(CPUs) /\ DOMAIN Node = CPUs
  /\ IsFiniteSet(Threads) /\ None \notin Threads
  /\ \A r \in Requests : r[1] \in 0 .. 4 /\ r[2] \in -31 .. 31
  /\ MaskBits \in Nat \ {0} /\ Masks \subseteq SUBSET Bits

VARIABLES
  state, priority_class, effective_priority, cpu_id, affinity, numa_node, next,
                   \* the fields of thread_t
  queues, queue_bitmap, num_threads, current,   \* those of cpu_runqueue_t
  pc,              \* where each CPU is in its call
  hand,            \* the thread its call works on
  target,          \* the queue or the victim its call works on
  load,            \* thief_load
  then,            \* where the call goes on after enqueue_thread
  twice            \* history: a thread has been enqueued that was queued already

threads == <<state, priority_class, effective_priority, cpu_id, affinity, numa_node, next>>
runqueues == <<queues, queue_bitmap, num_threads, current>>
locals == <<pc, hand, target, load, then>>
vars == <<threads, runqueues, locals, twice>>

Max(a, b) == IF a > b THEN a ELSE b
Min(a, b) == IF a < b THEN a ELSE b

(* Classes: 0 no change, 1 idle, 2 regular, 3 time critical, 4 foreground  *)
(* server.                                                                 *)
base_priority(class) ==
  CASE class = 1 -> 0 [] class = 4 -> 64 [] class = 3 -> 96 [] OTHER -> 32

calculate_priority(class, delta) ==
  Min(Max(base_priority(class) + 16 + delta, base_priority(class)), base_priority(class) + 31)

Priorities == {calculate_priority(a[1], b[2]) : a, b \in Requests}

(* sched_init, and no thread yet. *)
Init ==
  /\ state = [t \in Threads |-> "UNBORN"]
  /\ priority_class = [t \in Threads |-> 2]
  /\ effective_priority = [t \in Threads |-> CHOOSE p \in Priorities : TRUE]
  /\ cpu_id = [t \in Threads |-> 0]
  /\ affinity = [t \in Threads |-> {}]
  /\ numa_node = [t \in Threads |-> Node[0]]
  /\ next = [t \in Threads |-> None]
  /\ queues = [c \in CPUs |-> [p \in Priorities |-> None]]
  /\ queue_bitmap = [c \in CPUs |-> {}]
  /\ num_threads = [c \in CPUs |-> 0]
  /\ current = [c \in CPUs |-> None]
  /\ pc = [c \in CPUs |-> "idle"] /\ hand = [c \in CPUs |-> None]
  /\ target = [c \in CPUs |-> 0] /\ load = [c \in CPUs |-> 0]
  /\ then = [c \in CPUs |-> "idle"]
  /\ twice = FALSE

Calling(c) == pc[c] = "idle"

(* The CPUs that are moving thread t from or to a queue. *)
Movers(t) == {c \in CPUs : hand[c] = t /\ pc[c] # "set_check"}

Goto(c, label) ==
  /\ pc' = [pc EXCEPT ![c] = label]
  /\ hand' = [hand EXCEPT ![c] = None]
  /\ target' = [target EXCEPT ![c] = 0] /\ load' = [load EXCEPT ![c] = 0]
  /\ then' = [then EXCEPT ![c] = "idle"]

(* Call enqueue_thread for thread t on queue q, and go on at label. *)
CallEnqueue(c, q, t, label) ==
  /\ pc' = [pc EXCEPT ![c] = "enqueue"]
  /\ hand' = [hand EXCEPT ![c] = t]
  /\ target' = [target EXCEPT ![c] = q] /\ load' = [load EXCEPT ![c] = 0]
  /\ then' = [then EXCEPT ![c] = label]

-----------------------------------------------------------------------------
(* 1U << c: an x86 processor shifts by c modulo 32, so that a bit stands   *)
(* for all the CPUs 32 apart.                                              *)
Bit(c) == c % MaskBits
Named(mask) == {c \in CPUs : Bit(c) \in mask}

(* sched_create_thread: all CPUs, unless there are 32 or more.             *)
mask_or_default(mask) == IF mask = {} THEN 0 .. Bit(Cardinality(CPUs)) - 1 ELSE mask

cpu_in_affinity(t, c) == Bit(c) \in affinity[t]

(* find_best_cpu: the first CPU of least load that the mask names, where a *)
(* CPU of the thread's node counts three quarters; 0 if it names none.     *)
find_best_cpu(mask, node) ==
  LET named == Named(mask)
      weight(c) == IF Node[c] = node THEN (num_threads[c] * 3) \div 4 ELSE num_threads[c]
      better(c, d) == weight(c) < weight(d) \/ (weight(c) = weight(d) /\ c <= d)
  IN  IF named = {} THEN 0 ELSE CHOOSE c \in named : \A d \in named : better(c, d)

(* Mutant: the count is not kept. *)
EnqueueUncounted(c) ==
  LET t == hand[c]  q == target[c]  p == effective_priority[t]
  IN  /\ pc[c] = "enqueue"
      /\ next' = [next EXCEPT ![t] = queues[q][p]]
      /\ queues' = [queues EXCEPT ![q][p] = t]
      /\ queue_bitmap' = [queue_bitmap EXCEPT ![q] = @ \cup {p}]
      /\ state' = [state EXCEPT ![t] = "READY"]
      /\ Goto(c, then[c])
      /\ UNCHANGED <<priority_class, effective_priority, cpu_id, affinity, numa_node, num_threads, current, twice>>

(* The thread becomes the first of its priority. *)
enqueue_thread(c) ==
  LET t == hand[c]  q == target[c]  p == effective_priority[t]
  IN  /\ pc[c] = "enqueue"
      /\ next' = [next EXCEPT ![t] = queues[q][p]]
      /\ queues' = [queues EXCEPT ![q][p] = t]
      /\ queue_bitmap' = [queue_bitmap EXCEPT ![q] = @ \cup {p}]
      /\ num_threads' = [num_threads EXCEPT ![q] = @ + 1]
      /\ state' = [state EXCEPT ![t] = "READY"]
      /\ Goto(c, then[c])
      /\ UNCHANGED <<priority_class, effective_priority, cpu_id, affinity, numa_node, current, twice>>

(* sched_create_thread.  find_best_cpu reads numa_node before it is set:   *)
(* any node may be there.                                                  *)
sched_create_thread(c, t, request, affinity_mask) ==
  /\ Calling(c) /\ state[t] = "UNBORN"
  /\ affinity' = [affinity EXCEPT ![t] = mask_or_default(affinity_mask)]
  /\ \E garbage \in {Node[d] : d \in CPUs} :
       LET best == find_best_cpu(mask_or_default(affinity_mask), garbage)
       IN  /\ cpu_id' = [cpu_id EXCEPT ![t] = best]
           /\ numa_node' = [numa_node EXCEPT ![t] = Node[best]]
           /\ CallEnqueue(c, best, t, "idle")
  /\ state' = [state EXCEPT ![t] = "READY"]
  /\ priority_class' = [priority_class EXCEPT ![t] = request[1]]
  /\ effective_priority' = [effective_priority EXCEPT ![t] =
                              calculate_priority(request[1], request[2])]
  /\ UNCHANGED <<next, runqueues, twice>>

(* sched_set_priority, by any CPU, for any thread that has been created.   *)
sched_set_priority(c, t, request) ==
  LET class == IF request[1] = 0 THEN priority_class[t] ELSE request[1]
  IN  /\ Calling(c) /\ state[t] # "UNBORN"
      /\ priority_class' = [priority_class EXCEPT ![t] = class]
      /\ effective_priority' = [effective_priority EXCEPT ![t] =
                                  calculate_priority(class, request[2])]
      /\ pc' = [pc EXCEPT ![c] = "set_check"] /\ hand' = [hand EXCEPT ![c] = t]
      /\ UNCHANGED <<state, cpu_id, affinity, numa_node, next, runqueues, target, load, then, twice>>

(* Lines 368-372: a ready thread is enqueued, and is not removed from      *)
(* where it is.                                                            *)
SetCheck(c) ==
  /\ pc[c] = "set_check"
  /\ \/ /\ state[hand[c]] = "READY"
        /\ CallEnqueue(c, cpu_id[hand[c]], hand[c], "idle")
        /\ twice' = TRUE
     \/ /\ state[hand[c]] # "READY"
        /\ Goto(c, "idle")
        /\ UNCHANGED twice
  /\ UNCHANGED <<threads, runqueues>>

-----------------------------------------------------------------------------
(* sched_schedule: requeue the current thread, pick, dispatch. *)

CurrentRuns(c) == \E t \in Threads : current[c] = t /\ state[t] = "RUNNING"

sched_schedule(c) ==
  /\ Calling(c)
  /\ \/ /\ CurrentRuns(c)
        /\ state' = [state EXCEPT ![current[c]] = "READY"]
        /\ CallEnqueue(c, c, current[c], "pick")
     \/ /\ ~CurrentRuns(c)
        /\ Goto(c, "pick")
        /\ UNCHANGED state
  /\ UNCHANGED <<priority_class, effective_priority, cpu_id, affinity, numa_node, next, runqueues, twice>>

(* The priorities whose bit is set and whose queue is not empty. *)
Waiting(c) == {p \in queue_bitmap[c] : queues[c][p] # None}

(* The first thread of the highest priority leaves its queue. *)
dequeue_highest_priority(c) ==
  /\ pc[c] = "pick"
  /\ Waiting(c) # {}
  /\ LET p == CHOOSE x \in Waiting(c) : \A y \in Waiting(c) : x >= y
         t == queues[c][p]
     IN  /\ queues' = [queues EXCEPT ![c][p] = next[t]]
         /\ queue_bitmap' = [queue_bitmap EXCEPT ![c] = IF next[t] = None THEN @ \ {p} ELSE @]
         /\ num_threads' = [num_threads EXCEPT ![c] = @ - 1]
         /\ next' = [next EXCEPT ![t] = None]
         /\ pc' = [pc EXCEPT ![c] = "dispatch"] /\ hand' = [hand EXCEPT ![c] = t]
         /\ UNCHANGED <<target, load, then>>
  /\ UNCHANGED <<state, priority_class, effective_priority, cpu_id, affinity, numa_node, current, twice>>

(* Lines 392-397. *)
Dispatch(c) ==
  /\ pc[c] = "dispatch"
  /\ state' = [state EXCEPT ![hand[c]] = "RUNNING"]
  /\ cpu_id' = [cpu_id EXCEPT ![hand[c]] = c]
  /\ current' = [current EXCEPT ![c] = hand[c]]
  /\ Goto(c, "idle")
  /\ UNCHANGED <<priority_class, effective_priority, affinity, numa_node, next, queues, queue_bitmap, num_threads, twice>>

(* Lines 398-401. *)
DispatchIdle(c) ==
  /\ pc[c] = "pick"
  /\ Waiting(c) = {}
  /\ current' = [current EXCEPT ![c] = None]
  /\ Goto(c, "idle")
  /\ UNCHANGED <<threads, queues, queue_bitmap, num_threads, twice>>

(* Mutant: the thread that yields is not put in a queue. *)
YieldForgets(c) ==
  /\ Calling(c) /\ current[c] # None
  /\ state' = [state EXCEPT ![current[c]] = "READY"]
  /\ Goto(c, "clear")
  /\ UNCHANGED <<priority_class, effective_priority, cpu_id, affinity, numa_node, next, runqueues, twice>>

-----------------------------------------------------------------------------
sched_yield(c) ==
  /\ Calling(c) /\ current[c] # None
  /\ state' = [state EXCEPT ![current[c]] = "READY"]
  /\ CallEnqueue(c, c, current[c], "clear")
  /\ UNCHANGED <<priority_class, effective_priority, cpu_id, affinity, numa_node, next, runqueues, twice>>

sched_block(c) ==
  /\ Calling(c) /\ current[c] # None
  /\ state' = [state EXCEPT ![current[c]] = "BLOCKED"]
  /\ Goto(c, "clear")
  /\ UNCHANGED <<priority_class, effective_priority, cpu_id, affinity, numa_node, next, runqueues, twice>>

(* rq->current = NULL, the end of sched_yield and of sched_block. *)
ClearCurrent(c) ==
  /\ pc[c] = "clear"
  /\ current' = [current EXCEPT ![c] = None]
  /\ Goto(c, "idle")
  /\ UNCHANGED <<threads, queues, queue_bitmap, num_threads, twice>>

(* Mutant: a thread that is ready already is woken again. *)
UnblockReady(c, t) ==
  /\ Calling(c) /\ state[t] \in {"BLOCKED", "READY"}
  /\ LET best == find_best_cpu(affinity[t], numa_node[t])
     IN  /\ cpu_id' = [cpu_id EXCEPT ![t] = best]
         /\ CallEnqueue(c, best, t, "idle")
  /\ UNCHANGED <<state, priority_class, effective_priority, affinity, numa_node, next, runqueues, twice>>

(* Two CPUs may both find the thread blocked, and both enqueue it. *)
sched_unblock(c, t) ==
  /\ Calling(c) /\ state[t] = "BLOCKED"
  /\ LET best == find_best_cpu(affinity[t], numa_node[t])
     IN  /\ cpu_id' = [cpu_id EXCEPT ![t] = best]
         /\ CallEnqueue(c, best, t, "idle")
  /\ twice' = (twice \/ Movers(t) # {})
  /\ UNCHANGED <<state, priority_class, effective_priority, affinity, numa_node, next, runqueues>>

-----------------------------------------------------------------------------
(* sched_balance_load and steal_thread. *)

Victims(c) == CPUs \ {c}
NextVictim(c, i) == {v \in Victims(c) : v >= i /\ \A w \in Victims(c) : w >= i => v <= w}

(* Look at the next CPU from i on, or return. *)
TryFrom(c, i, thief_load) ==
  IF NextVictim(c, i) = {}
  THEN Goto(c, "idle")
  ELSE /\ pc' = [pc EXCEPT ![c] = "steal_load"]
       /\ target' = [target EXCEPT ![c] = CHOOSE v \in NextVictim(c, i) : TRUE]
       /\ load' = [load EXCEPT ![c] = thief_load]
       /\ UNCHANGED <<hand, then>>

sched_balance_load(c) ==
  /\ Calling(c) /\ num_threads[c] < 2
  /\ TryFrom(c, 0, num_threads[c])
  /\ UNCHANGED <<threads, runqueues, twice>>

(* Line 446: the victim's load is read before its lock is taken. *)
StealLoad(c) ==
  /\ pc[c] = "steal_load"
  /\ IF num_threads[target[c]] < load[c] + 2
     THEN TryFrom(c, target[c] + 1, load[c])
     ELSE pc' = [pc EXCEPT ![c] = "steal"] /\ UNCHANGED <<hand, target, load, then>>
  /\ UNCHANGED <<threads, runqueues, twice>>

(* walk[n]: the n-th thread of the queue of c at priority p. *)
Walk(c, p) ==
  LET walk[n \in 0 .. Cardinality(Threads)] ==
        IF n = 0 THEN queues[c][p]
        ELSE IF walk[n - 1] = None THEN None ELSE next[walk[n - 1]]
  IN  walk

Positions == 0 .. Cardinality(Threads) - 1
Before(x, y) == x[1] < y[1] \/ (x[1] = y[1] /\ x[2] <= y[2])

(* Mutant: the affinity of the stolen thread is not looked at. *)
StealAny(v, c) == {x \in Priorities \X Positions : Walk(v, x[1])[x[2]] # None}

(* <<priority, position>> of the threads of victim v that may run on c. *)
Candidates(v, c) ==
  {x \in Priorities \X Positions :
     LET t == Walk(v, x[1])[x[2]] IN t # None /\ cpu_in_affinity(t, c)}

(* Lines 452-490: the first candidate of the lowest priority is unlinked.  *)
steal_thread(c) ==
  LET v == target[c]
      found == Candidates(v, c)
  IN  /\ pc[c] = "steal"
      /\ \/ /\ found = {}
            /\ TryFrom(c, v + 1, load[c])
            /\ UNCHANGED <<threads, runqueues>>
         \/ \E x \in found :
              /\ \A y \in found : Before(x, y)
              /\ LET p == x[1]
                     t == Walk(v, p)[x[2]]
                 IN  /\ IF x[2] = 0
                        THEN /\ queues' = [queues EXCEPT ![v][p] = next[t]]
                             /\ next' = [next EXCEPT ![t] = None]
                        ELSE /\ next' = [next EXCEPT ![Walk(v, p)[x[2] - 1]] = next[t],
                                                     ![t] = None]
                             /\ UNCHANGED queues
                     /\ queue_bitmap' = [queue_bitmap EXCEPT ![v] =
                                           IF queues'[v][p] = None THEN @ \ {p} ELSE @]
                     /\ num_threads' = [num_threads EXCEPT ![v] = @ - 1]
                     /\ pc' = [pc EXCEPT ![c] = "stolen"]
                     /\ hand' = [hand EXCEPT ![c] = t]
              /\ UNCHANGED <<state, priority_class, effective_priority, cpu_id, affinity, numa_node, current,
                             target, load, then>>
      /\ UNCHANGED twice

(* Lines 503-506. *)
TakeStolen(c) ==
  /\ pc[c] = "stolen"
  /\ cpu_id' = [cpu_id EXCEPT ![hand[c]] = c]
  /\ CallEnqueue(c, c, hand[c], "idle")
  /\ UNCHANGED <<state, priority_class, effective_priority, affinity, numa_node, next, runqueues, twice>>

-----------------------------------------------------------------------------
Step(c) ==
  \/ enqueue_thread(c) \/ dequeue_highest_priority(c) \/ Dispatch(c) \/ DispatchIdle(c)
  \/ ClearCurrent(c) \/ StealLoad(c) \/ steal_thread(c) \/ TakeStolen(c)
  \/ SetCheck(c)

Call(c) ==
  \/ sched_schedule(c) \/ sched_yield(c) \/ sched_block(c) \/ sched_balance_load(c)
  \/ \E t \in Threads :
       \/ sched_unblock(c, t)
       \/ \E r \in Requests :
            \/ sched_set_priority(c, t, r)
            \/ \E m \in Masks : sched_create_thread(c, t, r, m)

Next == \E c \in CPUs : Step(c) \/ Call(c)

Spec == Init /\ [][Next]_vars

-----------------------------------------------------------------------------
(* The positions thread t has in queues. *)
Places(t) ==
  {x \in CPUs \X Priorities \X Positions : Walk(x[1], x[2])[x[3]] = t}

(* enqueue_thread, dequeue_highest_priority and steal_thread keep every    *)
(* list a list: a thread is in at most one place of one queue, or in the   *)
(* hand of one CPU, and a queue ends, until sched_set_priority adds a      *)
(* ready thread again or two CPUs unblock one thread at a time.            *)
QueuedOnce ==
  ~twice =>
    /\ \A t \in Threads :
         Cardinality(Places(t)) + Cardinality(Movers(t)) <= 1
    /\ \A c \in CPUs, p \in Priorities : Walk(c, p)[Cardinality(Threads)] = None

(* No wake-up is lost between sched_yield, sched_block, sched_unblock and  *)
(* steal_thread: a ready thread waits in a queue or is on its way there.   *)
ReadyIsQueued ==
  ~twice => \A t \in Threads : state[t] = "READY" => Places(t) # {} \/ Movers(t) # {}

(* The bitmap and the count, which find_best_cpu and steal_thread read     *)
(* without the lock, tell the truth about each queue.                      *)
QueueSummary ==
  ~twice => \A c \in CPUs :
    /\ \A p \in Priorities : p \in queue_bitmap[c] <=> queues[c][p] # None
    /\ num_threads[c] = Cardinality({t \in Threads : \E x \in Places(t) : x[1] = c})

(* Where a thread may run: on the CPUs that its mask names, or on CPU 0 if *)
(* the mask names none that is there.                                      *)
Allowed(mask) == IF Named(mask) = {} THEN {0} ELSE Named(mask)

(* A CPU between two calls runs a thread that no other such CPU runs, that *)
(* is not in a queue, and that its affinity mask lets run there, whether   *)
(* find_best_cpu or steal_thread has brought it there.                     *)
RunsExclusively ==
  ~twice => \A c \in CPUs : pc[c] = "idle" /\ current[c] # None =>
    /\ state[current[c]] = "RUNNING" /\ Places(current[c]) = {}
    /\ c \in Allowed(affinity[current[c]])
    /\ \A d \in CPUs \ {c} : pc[d] = "idle" => current[d] # current[c]

(* Bound: behaviours are followed up to the first thread that is added to  *)
(* a queue twice.                                                          *)
NotTwice == ~twice
=============================================================================
