------------------------- MODULE SMPSchedulerProofs -------------------------
(***************************************************************************)
(* Proofs about the multiprocessor scheduler: as long as no thread is      *)
(* added to a queue twice, the queues are lists, for every number of CPUs, *)
(* threads and priorities.                                                 *)
(***************************************************************************)
EXTENDS SMPScheduler, FiniteSetTheorems, WellFoundedInduction, TLAPS

Labels == {"idle", "enqueue", "set_check", "pick", "dispatch", "clear", "steal_load", "steal",
           "stolen"}
States == {"UNBORN", "READY", "RUNNING", "BLOCKED"}
Classes == {r[1] : r \in Requests}

Born ==
  /\ DOMAIN priority_class = Threads /\ DOMAIN effective_priority = Threads
  /\ \A t \in Threads : state[t] # "UNBORN" =>
       priority_class[t] \in Classes /\ effective_priority[t] \in Priorities

Types ==
  /\ state \in [Threads -> States] /\ Born
  /\ affinity \in [Threads -> SUBSET Bits]
  /\ next \in [Threads -> Threads \cup {None}]
  /\ queues \in [CPUs -> [Priorities -> Threads \cup {None}]]
  /\ queue_bitmap \in [CPUs -> SUBSET Priorities]
  /\ num_threads \in [CPUs -> Int]
  /\ current \in [CPUs -> Threads \cup {None}]
  /\ pc \in [CPUs -> Labels] /\ hand \in [CPUs -> Threads \cup {None}]
  /\ target \in [CPUs -> CPUs] /\ then \in [CPUs -> {"idle", "pick", "clear"}]

(* The call of c takes a thread from or to a queue. *)
Moving(c) == pc[c] \in {"enqueue", "dispatch", "stolen"}

(* A thread is moved by one CPU at a time, to a queue or CPU that its      *)
(* mask allows.                                                            *)
Hands ==
  /\ \A c \in CPUs : hand[c] # None <=> Moving(c) \/ pc[c] = "set_check"
  /\ \A c \in CPUs : Moving(c) => state[hand[c]] \in {"READY", "BLOCKED"}
  /\ \A c \in CPUs : Moving(c) =>
       (IF pc[c] = "enqueue" THEN target[c] ELSE c) \in Allowed(affinity[hand[c]])
  /\ \A c, d \in CPUs : Moving(c) /\ Moving(d) /\ hand[c] = hand[d] => c = d

(* rq->current of c is not left over from before the call that c is in. *)
Owns(c) ==
  /\ current[c] # None
  /\ pc[c] \notin {"pick", "dispatch", "clear"}
  /\ pc[c] = "enqueue" => then[c] = "idle"

Owners ==
  /\ \A c \in CPUs : Owns(c) => state[current[c]] = "RUNNING" /\ c \in Allowed(affinity[current[c]])
  /\ \A c, d \in CPUs : Owns(c) /\ Owns(d) /\ current[c] = current[d] => c = d

(* The threads of Q are queued, t on CPU at[t] at priority lev[t]: from    *)
(* the head of a queue the ranks fall along next, every other thread is    *)
(* the next of exactly one, and the head of none.                          *)
Shape(Q, at, lev, rank) ==
  /\ Q \in SUBSET Threads /\ at \in [Threads -> CPUs]
  /\ lev \in [Threads -> Int] /\ rank \in [Threads -> Nat]
  /\ \A t \in Q : lev[t] \in Priorities
  /\ \A c \in CPUs, p \in Priorities :
       IF queues[c][p] = None
       THEN \A t \in Q : ~ (at[t] = c /\ lev[t] = p)
       ELSE queues[c][p] \in Q /\ at[queues[c][p]] = c /\ lev[queues[c][p]] = p
  /\ \A t \in Q : next[t] # None =>
       /\ next[t] \in Q /\ at[next[t]] = at[t] /\ lev[next[t]] = lev[t]
       /\ rank[next[t]] < rank[t]
       /\ next[t] # queues[at[t]][lev[t]]
  /\ \A t \in Q : queues[at[t]][lev[t]] = t \/ \E u \in Q : next[u] = t
  /\ \A t, u \in Q : next[t] = next[u] /\ next[t] # None => t = u
  /\ \A t \in Threads \ Q : next[t] = None

On(Q, at, c) == {t \in Q : at[t] = c}

(* What is queued is ready and what is ready is queued or moved; the       *)
(* summaries of the queues are right.                                      *)
Content(Q, at) ==
  /\ \A t \in Q : state[t] = "READY" /\ at[t] \in Allowed(affinity[t])
  /\ \A c \in CPUs : Moving(c) => hand[c] \notin Q
  /\ \A t \in Threads : state[t] = "READY" => t \in Q \/ \E c \in CPUs : Moving(c) /\ hand[c] = t
  /\ \A c \in CPUs : num_threads[c] = Cardinality(On(Q, at, c))

Bitmap == \A c \in CPUs, p \in Priorities : p \in queue_bitmap[c] <=> queues[c][p] # None

Lists == \E Q, at, lev, rank : Shape(Q, at, lev, rank) /\ Content(Q, at)

SMPInv == ~twice => Types /\ Hands /\ Owners /\ Bitmap /\ Lists

-----------------------------------------------------------------------------
LEMMA LeastNat ==
  ASSUME NEW T \in SUBSET Nat, T # {}
  PROVE  \E i \in T : \A j \in T : i <= j
<1> DEFINE R == {ss \in Nat \X Nat : ss[1] < ss[2]}
<1>1. IsWellFoundedOn(R, Nat)
  BY NatLessThanWellFounded DEF OpToRel
<1>2. \A a, b \in Nat : a < b => <<a, b>> \in R
  OBVIOUS
<1> HIDE DEF R
<1>3. PICK i \in T : \A j \in T : ~ (<<j, i>> \in R)
  BY <1>1, WFMin
<1>4. \A j \in T : ~ (j < i)
  BY <1>2, <1>3, Zenon
<1> QED
  BY <1>4

(* The priorities of OS/2 lie between 0 and 127. *)
LEMMA PriorityFacts ==
  /\ Priorities \subseteq 0 .. 127
  /\ \A k \in Classes, b \in Requests : calculate_priority(k, b[2]) \in Priorities
<1>1. \A k \in 0 .. 4, d \in -31 .. 31 : calculate_priority(k, d) \in 0 .. 127
  BY DEF calculate_priority, base_priority, Min, Max
<1>2. \A a \in Requests : a[1] \in 0 .. 4 /\ a[2] \in -31 .. 31
  BY SMPAssumption
<1>3. \A a, b \in Requests : calculate_priority(a[1], b[2]) \in 0 .. 127
  BY <1>1, <1>2
<1> HIDE DEF calculate_priority
<1>4. Priorities \subseteq 0 .. 127
  BY <1>3 DEF Priorities
<1>5. ASSUME NEW k \in Classes, NEW b \in Requests PROVE calculate_priority(k, b[2]) \in Priorities
  <2>1. PICK a \in Requests : k = a[1]
    BY DEF Classes
  <2> QED
    BY <2>1 DEF Priorities
<1> QED
  BY <1>4, <1>5

(* dequeue_highest_priority finds a priority. *)
LEMMA HighestExists ==
  ASSUME NEW S \in SUBSET Priorities, S # {}
  PROVE  (CHOOSE x \in S : \A y \in S : x >= y) \in S
<1> DEFINE T == {127 - x : x \in S}
<1>0. S \subseteq 0 .. 127
  BY PriorityFacts
<1>1. T \in SUBSET Nat /\ T # {}
  <2>1. \A x \in S : 127 - x \in Nat
    BY <1>0
  <2> QED
    BY <2>1
<1>2. PICK i \in T : \A j \in T : i <= j
  BY <1>1, LeastNat
<1>3. PICK x \in S : i = 127 - x
  BY <1>2
<1>4. \A y \in S : x >= y
  <2> SUFFICES ASSUME NEW y \in S PROVE x >= y
    OBVIOUS
  <2>1. 127 - y \in T
    OBVIOUS
  <2>2. i <= 127 - y
    BY <1>2, <2>1
  <2> QED
    BY <1>0, <1>3, <2>2
<1> QED
  BY <1>4

LEMMA ZeroIsCPU == 0 \in CPUs
<1>1. Cardinality(CPUs) \in Nat
  BY SMPAssumption, FS_CardinalityType
<1> QED
  BY SMPAssumption, <1>1

(* find_best_cpu finds a CPU that the mask allows, or CPU 0. *)
LEMMA BestAllowed ==
  ASSUME NEW any \in SUBSET Bits, NEW node, num_threads \in [CPUs -> Nat]
  PROVE  find_best_cpu(any, node) \in Allowed(any) /\ find_best_cpu(any, node) \in CPUs
<1> DEFINE mask == Named(any)
<1> SUFFICES ASSUME mask # {} PROVE find_best_cpu(any, node) \in mask
  BY ZeroIsCPU DEF Allowed, find_best_cpu, Named
<1>00. mask \in SUBSET CPUs
  BY DEF Named
<1> HIDE DEF mask
<1> DEFINE weight(c) == IF Node[c] = node THEN (num_threads[c] * 3) \div 4 ELSE num_threads[c]
           T == {weight(c) : c \in mask}
           S == {c \in mask : \A d \in mask : weight(c) <= weight(d)}
<1>0. CPUs \subseteq Nat
  <2>1. Cardinality(CPUs) \in Nat
    BY SMPAssumption, FS_CardinalityType
  <2> QED
    BY SMPAssumption, <2>1
<1>1. \A c \in mask : weight(c) \in Nat
  <2>1. \A x \in Nat : (x * 3) \div 4 \in Nat
    OBVIOUS
  <2> QED
    BY <1>00, <2>1
<1> HIDE DEF weight
<1>2. T \in SUBSET Nat /\ T # {}
  BY <1>1
<1>3. PICK i \in T : \A j \in T : i <= j
  BY <1>2, LeastNat
<1>4. S \in SUBSET Nat /\ S # {}
  <2>1. PICK c \in mask : i = weight(c)
    BY <1>3
  <2>2. \A d \in mask : weight(d) \in T
    OBVIOUS
  <2>3. c \in S
    BY <1>3, <2>1, <2>2
  <2> QED
    BY <1>00, <1>0, <2>3
<1>5. PICK c \in S : \A d \in S : c <= d
  BY <1>4, LeastNat
<1>6. \A d \in mask : weight(c) < weight(d) \/ (weight(c) = weight(d) /\ c <= d)
  <2> SUFFICES ASSUME NEW d \in mask, ~ (weight(c) < weight(d))
               PROVE  weight(c) = weight(d) /\ c <= d
    OBVIOUS
  <2>1. weight(c) <= weight(d) /\ c \in mask
    BY <1>5
  <2>2. weight(c) = weight(d)
    BY <1>1, <2>1
  <2>3. d \in S
    BY <1>5, <2>2
  <2> QED
    BY <1>5, <2>2, <2>3
<1>7. find_best_cpu(any, node) =
        CHOOSE x \in mask : \A d \in mask : weight(x) < weight(d) \/ (weight(x) = weight(d) /\ x <= d)
  BY DEF find_best_cpu, weight, mask
<1> QED
  BY <1>5, <1>6, <1>7

(* The next CPU to steal from is a CPU. *)
LEMMA VictimExists ==
  ASSUME NEW c, NEW i, NextVictim(c, i) # {}
  PROVE  (CHOOSE v \in NextVictim(c, i) : TRUE) \in CPUs
<1>1. (CHOOSE v \in NextVictim(c, i) : TRUE) \in NextVictim(c, i)
  OBVIOUS
<1> QED
  BY <1>1 DEF NextVictim, Victims

-----------------------------------------------------------------------------
(* Walking along a queue. *)

N == Cardinality(Threads)

(* w[n] is the n-th thread of the queue of c at priority p, up to m. *)
Walks(w, c, p, m) ==
  w = [n \in 0 .. m |-> IF n = 0 THEN queues[c][p]
                        ELSE IF w[n - 1] = None THEN None ELSE next[w[n - 1]]]

LEMMA WalkExists ==
  ASSUME NEW c, NEW p, NEW k \in Nat
  PROVE  \E w : Walks(w, c, p, k)
<1> DEFINE Bad == {m \in Nat : ~ \E w : Walks(w, c, p, m)}
<1>1. ASSUME Bad # {} PROVE FALSE
  <2>1. PICK m \in Bad : \A l \in Bad : m <= l
    BY <1>1, LeastNat
  <2>2. CASE m = 0
    <3> DEFINE w == [n \in 0 .. m |-> queues[c][p]]
    <3>1. \A n \in 0 .. m : n = 0
      BY <2>2
    <3>2. Walks(w, c, p, m)
      BY <3>1 DEF Walks
    <3> QED
      BY <2>1, <3>2
  <2>3. CASE m # 0
    <3>1. m \in Nat /\ m - 1 \in Nat
      BY <2>1, <2>3
    <3>2. PICK w : Walks(w, c, p, m - 1)
      <4>1. m - 1 \notin Bad
        BY <2>1, <3>1
      <4> QED
        BY <3>1, <4>1
    <3> DEFINE Go(x) == IF x = None THEN None ELSE next[x]
               g == [n \in 0 .. m |-> IF n = m THEN Go(w[m - 1]) ELSE w[n]]
    <3> HIDE DEF Go
    <3>3. ASSUME NEW n \in 0 .. m
          PROVE  g[n] = IF n = 0 THEN queues[c][p] ELSE Go(g[n - 1])
      <4>1. CASE n = m
        <5>1. g[n - 1] = w[m - 1] /\ g[n] = Go(w[m - 1])
          BY <3>1, <4>1
        <5> QED
          BY <2>3, <4>1, <5>1
      <4>2. CASE n # m
        <5>1. n \in 0 .. m - 1
          BY <3>1, <4>2
        <5>2. w[n] = IF n = 0 THEN queues[c][p] ELSE Go(w[n - 1])
          BY <3>2, <5>1 DEF Walks, Go
        <5>3. g[n] = w[n]
          BY <4>2
        <5>4. n # 0 => g[n - 1] = w[n - 1]
          BY <3>1, <5>1
        <5> QED
          BY <5>2, <5>3, <5>4
      <4> QED
        BY <4>1, <4>2
    <3>4. Walks(g, c, p, m)
      <4>1. g = [n \in 0 .. m |-> g[n]]
        OBVIOUS
      <4> HIDE DEF g
      <4> QED
        BY <3>3, <4>1 DEF Walks, Go
    <3> QED
      BY <2>1, <3>4
  <2> QED
    BY <2>2, <2>3
<1> QED
  BY <1>1

LEMMA SizeN == N \in Nat
BY SMPAssumption, FS_CardinalityType DEF N

LEMMA WalkSteps ==
  ASSUME NEW c, NEW p
  PROVE  /\ Walk(c, p)[0] = queues[c][p]
         /\ \A n \in 1 .. N : Walk(c, p)[n] = IF Walk(c, p)[n - 1] = None THEN None
                                             ELSE next[Walk(c, p)[n - 1]]
<1> DEFINE w == CHOOSE walk : Walks(walk, c, p, N)
<1>1. Walks(w, c, p, N)
  BY WalkExists, SizeN
<1>2. Walk(c, p) = w
  BY DEF Walk, Walks, N
<1> HIDE DEF w
<1>3. \A n \in 0 .. N : w[n] = IF n = 0 THEN queues[c][p]
                               ELSE IF w[n - 1] = None THEN None ELSE next[w[n - 1]]
  BY <1>1 DEF Walks
<1> QED
  BY <1>2, <1>3, SizeN

(* A walk stays in its queue, and its ranks fall. *)
LEMMA WalkInQueue ==
  ASSUME Types, NEW Q, NEW at, NEW lev, NEW rank, Shape(Q, at, lev, rank),
         NEW c \in CPUs, NEW p \in Priorities, NEW n \in 0 .. N
  PROVE  LET w == Walk(c, p)
         IN  w[n] # None => /\ w[n] \in Q /\ at[w[n]] = c /\ lev[w[n]] = p
                            /\ \A m \in 0 .. n - 1 : w[m] \in Q /\ rank[w[n]] < rank[w[m]]
<1> DEFINE w == Walk(c, p)
           Good(k) == w[k] # None =>
                        /\ w[k] \in Q /\ at[w[k]] = c /\ lev[w[k]] = p
                        /\ \A m \in 0 .. k - 1 : w[m] \in Q /\ rank[w[k]] < rank[w[m]]
           Bad == {k \in 0 .. N : ~ Good(k)}
<1>1. w[0] = queues[c][p] /\ \A k \in 1 .. N : w[k] = IF w[k - 1] = None THEN None ELSE next[w[k - 1]]
  BY WalkSteps
<1> HIDE DEF w
<1>2. ASSUME Bad # {} PROVE FALSE
  <2>0. Bad \in SUBSET Nat
    BY SizeN
  <2>1. PICK k \in Bad : \A l \in Bad : k <= l
    BY <1>2, <2>0, LeastNat, Zenon
  <2>2. k # 0
    <3>1. Good(0)
      BY <1>1 DEF Shape
    <3> QED
      BY <2>1, <3>1
  <2>3. k \in 1 .. N /\ k - 1 \in 0 .. N /\ k \in Nat
    BY <2>1, <2>2, SizeN
  <2>4. Good(k - 1)
    <3>1. k - 1 \notin Bad
      BY <2>1, <2>3
    <3> QED
      BY <2>3, <3>1
  <2>5. CASE w[k] = None
    BY <2>1, <2>5
  <2>6. CASE w[k] # None
    <3>1. w[k - 1] # None /\ w[k] = next[w[k - 1]]
      BY <1>1, <2>3, <2>6
    <3>2. w[k - 1] \in Q /\ at[w[k - 1]] = c /\ lev[w[k - 1]] = p
      BY <2>4, <3>1
    <3>3. w[k] \in Q /\ at[w[k]] = c /\ lev[w[k]] = p /\ rank[w[k]] < rank[w[k - 1]]
      BY <2>6, <3>1, <3>2 DEF Shape
    <3>4. ASSUME NEW m \in 0 .. k - 1 PROVE w[m] \in Q /\ rank[w[k]] < rank[w[m]]
      <4>1. CASE m = k - 1
        BY <3>2, <3>3, <4>1
      <4>2. CASE m # k - 1
        <5>1. m \in 0 .. (k - 1) - 1
          BY <2>3, <4>2
        <5>2. w[m] \in Q /\ rank[w[k - 1]] < rank[w[m]]
          BY <2>4, <3>1, <5>1
        <5>3. rank[w[k]] \in Nat /\ rank[w[m]] \in Nat /\ rank[w[k - 1]] \in Nat
          BY <3>2, <3>3, <5>2 DEF Shape
        <5> QED
          BY <3>3, <5>2, <5>3
      <4> QED
        BY <4>1, <4>2
    <3>5. Good(k)
      BY <3>3, <3>4
    <3> QED
      BY <2>1, <3>5
  <2> QED
    BY <2>5, <2>6
<1>3. Good(n)
  BY <1>2
<1> QED
  BY <1>3 DEF w

(* There are more turns than threads, so a walk ends. *)
LEMMA WalkEnds ==
  ASSUME Types, NEW Q, NEW at, NEW lev, NEW rank, Shape(Q, at, lev, rank),
         NEW c \in CPUs, NEW p \in Priorities
  PROVE  Walk(c, p)[N] = None
<1> DEFINE w == Walk(c, p)
           f == [m \in 0 .. N |-> w[m]]
<1>1. SUFFICES ASSUME w[N] # None PROVE FALSE
  OBVIOUS
<1>2. \A n \in 0 .. N : w[n] # None =>
        w[n] \in Q /\ \A m \in 0 .. n - 1 : w[m] \in Q /\ rank[w[n]] < rank[w[m]]
  BY WalkInQueue
<1>3. N \in 0 .. N /\ N \in Nat
  BY SizeN
<1> HIDE DEF w
<1>4. \A m \in 0 .. N : w[m] \in Q /\ w[m] # None
  BY <1>1, <1>2, <1>3, SMPAssumption DEF Shape
<1>5. \A m, n \in 0 .. N : m < n => w[m] # w[n]
  <2> SUFFICES ASSUME NEW m \in 0 .. N, NEW n \in 0 .. N, m < n PROVE w[m] # w[n]
    OBVIOUS
  <2>1. m \in 0 .. n - 1
    BY <1>3
  <2>2. rank[w[n]] < rank[w[m]]
    BY <1>2, <1>4, <2>1
  <2>3. rank[w[n]] \in Nat
    BY <1>4 DEF Shape
  <2> QED
    BY <2>2, <2>3
<1>6. f \in Injection(0 .. N, Threads)
  <2>1. f \in [0 .. N -> Threads]
    BY <1>4 DEF Shape
  <2>2. \A m, n \in 0 .. N : f[m] = f[n] => m = n
    BY <1>3, <1>5
  <2> QED
    BY <2>1, <2>2 DEF Injection, IsInjective
<1>7. IsFiniteSet(Threads) /\ IsFiniteSet(0 .. N) /\ Cardinality(0 .. N) = N + 1
  <2>1. 0 \in Int /\ N \in Int /\ ~ (0 > N) /\ N - 0 + 1 = N + 1
    BY <1>3
  <2>2. IsFiniteSet(0 .. N) /\ Cardinality(0 .. N) = IF 0 > N THEN 0 ELSE N - 0 + 1
    BY <2>1, FS_Interval
  <2> QED
    BY <2>1, <2>2, SMPAssumption
<1>8. Cardinality(0 .. N) <= Cardinality(Threads)
  BY <1>6, <1>7, FS_Injection
<1> QED
  BY <1>3, <1>7, <1>8 DEF N

LEMMA RanksBounded ==
  ASSUME NEW rank \in [Threads -> Nat]
  PROVE  \E b \in Nat : \A t \in Threads : rank[t] <= b
<1> DEFINE Bounded(S) == \E b \in Nat : \A t \in S : rank[t] <= b
           Bad == {k \in Nat : \E S \in SUBSET Threads : Cardinality(S) = k /\ ~Bounded(S)}
<1>1. \A S \in SUBSET Threads : IsFiniteSet(S) /\ Cardinality(S) \in Nat
  BY SMPAssumption, FS_Subset, FS_CardinalityType
<1>2. ASSUME Bad # {} PROVE FALSE
  <2>0. Bad \in SUBSET Nat
    OBVIOUS
  <2>1. PICK k \in Bad : \A l \in Bad : k <= l
    BY <1>2, <2>0, LeastNat, Zenon
  <2>2. PICK S \in SUBSET Threads : Cardinality(S) = k /\ ~Bounded(S)
    BY <2>1
  <2>3. S # {}
    <3>1. \A t \in {} : rank[t] <= 0
      OBVIOUS
    <3> QED
      BY <2>2, <3>1
  <2>4. PICK x \in S : TRUE
    BY <2>3
  <2>5. Cardinality(S \ {x}) = k - 1 /\ k - 1 \in Nat
    <3>1. IsFiniteSet(S) /\ S \ {x} \in SUBSET Threads /\ k \in Nat
      BY <1>1, <2>1
    <3>2. Cardinality(S \ {x}) = Cardinality(S) - 1
      BY <2>4, <3>1, FS_RemoveElement
    <3>3. Cardinality(S \ {x}) \in Nat
      BY <1>1, <3>1
    <3> QED
      BY <2>2, <3>1, <3>2, <3>3
  <2>6. Bounded(S \ {x})
    <3>1. k - 1 \notin Bad
      BY <2>1, <2>5
    <3> QED
      BY <2>5, <3>1
  <2>7. PICK b \in Nat : \A t \in S \ {x} : rank[t] <= b
    BY <2>6
  <2>8. rank[x] \in Nat /\ b + rank[x] \in Nat
    BY <2>4, <2>7
  <2>9. \A t \in S : rank[t] <= b + rank[x]
    <3> SUFFICES ASSUME NEW t \in S PROVE rank[t] <= b + rank[x]
      OBVIOUS
    <3>1. CASE t = x
      BY <2>7, <2>8, <3>1
    <3>2. CASE t # x
      <4>1. rank[t] <= b /\ rank[t] \in Nat
        BY <2>7, <3>2
      <4> QED
        BY <2>8, <4>1
    <3> QED
      BY <3>1, <3>2
  <2> QED
    BY <2>2, <2>8, <2>9
<1>3. Cardinality(Threads) \notin Bad
  BY <1>2
<1> QED
  BY <1>1, <1>3

(* Ranks do not rise for ever. *)
LEMMA NoRise ==
  ASSUME NEW rank \in [Threads -> Nat], NEW S \in SUBSET Threads,
         \A u \in S : \E v \in S : rank[u] < rank[v]
  PROVE  S = {}
<1> SUFFICES ASSUME S # {} PROVE FALSE
  OBVIOUS
<1>1. PICK b \in Nat : \A u \in Threads : rank[u] <= b
  BY RanksBounded
<1> DEFINE T == {b - rank[u] : u \in S}
<1>2. T \in SUBSET Nat
  <2>1. \A u \in S : b - rank[u] \in Nat
    BY <1>1
  <2> QED
    BY <2>1
<1>3. PICK i \in T : \A j \in T : i <= j
  <2>1. T # {}
    OBVIOUS
  <2> HIDE DEF T
  <2> QED
    BY <1>2, <2>1, LeastNat, Zenon
<1>4. PICK u \in S : i = b - rank[u]
  BY <1>3
<1>5. PICK v \in S : rank[u] < rank[v]
  BY <1>4
<1>6. b - rank[v] \in T
  OBVIOUS
<1>7. i <= b - rank[v]
  BY <1>3, <1>6
<1>8. rank[u] \in Nat /\ rank[v] \in Nat
  OBVIOUS
<1> QED
  BY <1>1, <1>4, <1>5, <1>7, <1>8

(* Every queued thread is met by the walk along its queue, once. *)
LEMMA WalkMeets ==
  ASSUME Types, NEW Q, NEW at, NEW lev, NEW rank, Shape(Q, at, lev, rank), NEW t \in Q
  PROVE  \E n \in 0 .. N - 1 : Walk(at[t], lev[t])[n] = t
<1> DEFINE c == at[t]
           p == lev[t]
           w == Walk(c, p)
           Met(u) == \E n \in 0 .. N - 1 : w[n] = u
           Mine == {u \in Q : at[u] = c /\ lev[u] = p}
           h == queues[c][p]
           Late == {u \in Mine : ~Met(u)}
<1>1. c \in CPUs /\ p \in Priorities /\ t \in Mine /\ Mine \subseteq Threads
  BY DEF Shape
<1>2. /\ w[0] = h /\ w[N] = None
      /\ \A n \in 1 .. N : w[n] = IF w[n - 1] = None THEN None ELSE next[w[n - 1]]
  BY <1>1, WalkEnds, WalkSteps
<1>3. h \in Mine /\ h # None /\ None \notin Threads
  BY <1>1, SMPAssumption DEF Shape
<1> HIDE DEF w, h
<1>4. Met(h)
  <2>1. N # 0
    BY <1>2, <1>3
  <2>2. 0 \in 0 .. N - 1
    BY <2>1, SizeN
  <2> QED
    BY <1>2, <2>2
<1>5. ASSUME NEW u \in Mine, Met(u), next[u] # None PROVE Met(next[u])
  <2>1. PICK n \in 0 .. N - 1 : w[n] = u
    BY <1>5
  <2>2. n + 1 \in 1 .. N /\ (n + 1) - 1 = n
    BY <2>1, SizeN
  <2>3. w[n + 1] = next[u]
    BY <1>1, <1>2, <1>3, <2>1, <2>2
  <2>4. n + 1 # N
    BY <1>2, <1>5, <2>3
  <2>5. n + 1 \in 0 .. N - 1
    BY <2>2, <2>4, SizeN
  <2> QED
    BY <2>3, <2>5
<1>6. \A u \in Late : \E v \in Late : next[v] = u /\ rank[u] < rank[v]
  <2> SUFFICES ASSUME NEW u \in Late PROVE \E v \in Late : next[v] = u /\ rank[u] < rank[v]
    OBVIOUS
  <2>1. u \in Mine /\ ~Met(u) /\ u # h /\ u # None
    BY <1>1, <1>3, <1>4
  <2>2. PICK v \in Q : next[v] = u
    BY <2>1 DEF Shape, h
  <2>3. v \in Mine /\ rank[u] < rank[v]
    BY <2>1, <2>2 DEF Shape
  <2>4. ~Met(v)
    BY <1>5, <2>1, <2>2, <2>3
  <2> QED
    BY <2>2, <2>3, <2>4
<1>7. Late = {}
  <2>1. rank \in [Threads -> Nat] /\ Late \subseteq Threads
    BY <1>1 DEF Shape
  <2>2. \A u \in Late : \E v \in Late : rank[u] < rank[v]
    BY <1>6
  <2> HIDE DEF Late
  <2> QED
    BY <2>1, <2>2, NoRise
<1>8. Met(t)
  BY <1>1, <1>7
<1> QED
  BY <1>8 DEF w

(* The places of a thread. *)
LEMMA PlaceFacts ==
  ASSUME Types, NEW Q, NEW at, NEW lev, NEW rank, Shape(Q, at, lev, rank), NEW t \in Threads
  PROVE  /\ t \in Q => \E x : Places(t) = {x} /\ x[1] = at[t]
         /\ t \notin Q => Places(t) = {}
<1>1. N \in Nat /\ Positions = 0 .. N - 1 /\ None \notin Threads
  BY SizeN, SMPAssumption DEF Positions, N
<1>2. ASSUME NEW c \in CPUs, NEW p \in Priorities, NEW n \in Positions, Walk(c, p)[n] = t
      PROVE  /\ t \in Q /\ at[t] = c /\ lev[t] = p
             /\ \A m \in 0 .. n - 1 : Walk(c, p)[m] # t
  <2>1. n \in 0 .. N
    BY <1>1
  <2>2. t # None
    BY <1>1
  <2>3. /\ t \in Q /\ at[t] = c /\ lev[t] = p
        /\ \A m \in 0 .. n - 1 : Walk(c, p)[m] \in Q /\ rank[t] < rank[Walk(c, p)[m]]
    BY <1>2, <2>1, <2>2, WalkInQueue
  <2>4. rank[t] \in Nat
    BY DEF Shape
  <2> QED
    BY <2>3, <2>4
<1>3. CASE t \notin Q
  <2>1. \A x \in CPUs \X Priorities \X Positions : Walk(x[1], x[2])[x[3]] # t
    BY <1>2, <1>3
  <2> QED
    BY <1>3, <2>1 DEF Places
<1>4. CASE t \in Q
  <2>1. at[t] \in CPUs /\ lev[t] \in Priorities
    BY <1>4 DEF Shape
  <2>2. PICK n \in 0 .. N - 1 : Walk(at[t], lev[t])[n] = t
    BY <1>4, WalkMeets
  <2> DEFINE x == <<at[t], lev[t], n>>
  <2>3. x \in Places(t)
    BY <1>1, <2>1, <2>2 DEF Places
  <2>4. ASSUME NEW y \in Places(t) PROVE y = x
    <3>1. /\ y \in CPUs \X Priorities \X Positions /\ Walk(y[1], y[2])[y[3]] = t
          /\ y = <<y[1], y[2], y[3]>> /\ y[1] \in CPUs /\ y[2] \in Priorities /\ y[3] \in Positions
      BY <2>4 DEF Places
    <3>2. y[1] = at[t] /\ y[2] = lev[t] /\ \A m \in 0 .. y[3] - 1 : Walk(at[t], lev[t])[m] # t
      BY <1>2, <3>1
    <3>3. \A m \in 0 .. n - 1 : Walk(at[t], lev[t])[m] # t
      BY <1>1, <1>2, <2>1, <2>2
    <3>4. y[3] = n
      <4>1. ~ (y[3] < n)
        BY <1>1, <2>2, <3>1, <3>2, <3>3
      <4>2. ~ (n < y[3])
        BY <1>1, <2>2, <3>1, <3>2
      <4> QED
        BY <1>1, <2>2, <3>1, <4>1, <4>2
    <3> QED
      BY <3>1, <3>2, <3>4
  <2>5. Places(t) = {x} /\ x[1] = at[t]
    BY <2>3, <2>4
  <2> QED
    BY <1>4, <2>5
<1> QED
  BY <1>3, <1>4

-----------------------------------------------------------------------------
(* What the invariant says about the properties. *)

LEMMA MoverFacts ==
  ASSUME Types, Hands, NEW t \in Threads
  PROVE  /\ Movers(t) = {c \in CPUs : Moving(c) /\ hand[c] = t}
         /\ \A c, d \in Movers(t) : c = d
<1>1. Movers(t) = {c \in CPUs : Moving(c) /\ hand[c] = t}
  BY SMPAssumption DEF Movers, Moving, Hands
<1> QED
  BY <1>1 DEF Hands

LEMMA InvQueuedOnce == SMPInv => QueuedOnce
<1> SUFFICES ASSUME SMPInv, ~twice
             PROVE  /\ \A t \in Threads : Cardinality(Places(t)) + Cardinality(Movers(t)) <= 1
                    /\ \A c \in CPUs, p \in Priorities : Walk(c, p)[Cardinality(Threads)] = None
  BY DEF QueuedOnce
<1>1. Types /\ Hands /\ Lists
  BY DEF SMPInv
<1>2. PICK Q, at, lev, rank : Shape(Q, at, lev, rank) /\ Content(Q, at)
  BY <1>1 DEF Lists
<1>3. ASSUME NEW t \in Threads PROVE Cardinality(Places(t)) + Cardinality(Movers(t)) <= 1
  <2>1. Cardinality({}) = 0 /\ \A x : Cardinality({x}) = 1
    BY FS_EmptySet, FS_Singleton
  <2>2. Movers(t) = {} \/ \E c : Movers(t) = {c}
    BY <1>1, MoverFacts
  <2>3. CASE t \in Q
    <3>1. Movers(t) = {}
      BY <1>1, <1>2, <2>3, MoverFacts DEF Content
    <3>2. PICK x : Places(t) = {x}
      BY <1>1, <1>2, <2>3, PlaceFacts
    <3>3. Cardinality(Places(t)) = 1 /\ Cardinality(Movers(t)) = 0
      BY <2>1, <3>1, <3>2, Zenon
    <3> QED
      BY <3>3
  <2>4. CASE t \notin Q
    <3>1. Cardinality(Places(t)) = 0
      BY <1>1, <1>2, <2>1, <2>4, PlaceFacts
    <3>2. Cardinality(Movers(t)) \in {0, 1}
      BY <2>1, <2>2
    <3> QED
      BY <3>1, <3>2
  <2> QED
    BY <2>3, <2>4
<1>4. \A c \in CPUs, p \in Priorities : Walk(c, p)[N] = None
  BY <1>1, <1>2, WalkEnds
<1> QED
  BY <1>3, <1>4 DEF N

LEMMA InvReadyIsQueued == SMPInv => ReadyIsQueued
<1> SUFFICES ASSUME SMPInv, ~twice, NEW t \in Threads, state[t] = "READY"
             PROVE  Places(t) # {} \/ Movers(t) # {}
  BY DEF ReadyIsQueued
<1>1. Types /\ Hands /\ Lists
  BY DEF SMPInv
<1>2. PICK Q, at, lev, rank : Shape(Q, at, lev, rank) /\ Content(Q, at)
  BY <1>1 DEF Lists
<1>3. CASE t \in Q
  BY <1>1, <1>2, <1>3, PlaceFacts
<1>4. CASE t \notin Q
  BY <1>1, <1>2, <1>4, MoverFacts DEF Content
<1> QED
  BY <1>3, <1>4

LEMMA InvQueueSummary == SMPInv => QueueSummary
<1> SUFFICES ASSUME SMPInv, ~twice, NEW c \in CPUs
             PROVE  /\ \A p \in Priorities : p \in queue_bitmap[c] <=> queues[c][p] # None
                    /\ num_threads[c] = Cardinality({t \in Threads : \E x \in Places(t) : x[1] = c})
  BY DEF QueueSummary
<1>1. Types /\ Bitmap /\ Lists
  BY DEF SMPInv
<1>2. PICK Q, at, lev, rank : Shape(Q, at, lev, rank) /\ Content(Q, at)
  BY <1>1 DEF Lists
<1>3. \A t \in Threads : (\E x \in Places(t) : x[1] = c) <=> t \in On(Q, at, c)
  <2> SUFFICES ASSUME NEW t \in Threads
               PROVE  (\E x \in Places(t) : x[1] = c) <=> t \in On(Q, at, c)
    OBVIOUS
  <2>1. CASE t \in Q
    BY <1>1, <1>2, <2>1, PlaceFacts DEF On
  <2>2. CASE t \notin Q
    BY <1>1, <1>2, <2>2, PlaceFacts DEF On
  <2> QED
    BY <2>1, <2>2
<1>4. On(Q, at, c) \subseteq Threads
  BY <1>2 DEF On, Shape
<1>5. {t \in Threads : \E x \in Places(t) : x[1] = c} = On(Q, at, c)
  BY <1>3, <1>4
<1> QED
  BY <1>1, <1>2, <1>5 DEF Bitmap, Content

LEMMA InvRunsExclusively == SMPInv => RunsExclusively
<1> SUFFICES ASSUME SMPInv, ~twice, NEW c \in CPUs, pc[c] = "idle", current[c] # None
             PROVE  /\ state[current[c]] = "RUNNING" /\ Places(current[c]) = {}
                    /\ c \in Allowed(affinity[current[c]])
                    /\ \A d \in CPUs \ {c} : pc[d] = "idle" => current[d] # current[c]
  BY DEF RunsExclusively
<1>1. Types /\ Owners /\ Lists
  BY DEF SMPInv
<1>2. PICK Q, at, lev, rank : Shape(Q, at, lev, rank) /\ Content(Q, at)
  BY <1>1 DEF Lists
<1>3. Owns(c) /\ current[c] \in Threads
  BY <1>1 DEF Owns, Types
<1>4. state[current[c]] = "RUNNING" /\ c \in Allowed(affinity[current[c]])
  BY <1>1, <1>3 DEF Owners
<1>5. current[c] \notin Q
  BY <1>2, <1>4 DEF Content
<1>6. Places(current[c]) = {}
  BY <1>1, <1>2, <1>3, <1>5, PlaceFacts
<1>7. ASSUME NEW d \in CPUs \ {c}, pc[d] = "idle", current[d] = current[c] PROVE FALSE
  <2>1. Owns(d)
    BY <1>3, <1>7 DEF Owns
  <2> QED
    BY <1>1, <1>3, <1>7, <2>1 DEF Owners
<1> QED
  BY <1>4, <1>6, <1>7

-----------------------------------------------------------------------------
(* The three changes of a queue. *)

LEMMA NoneFacts == None \notin Threads
BY SMPAssumption

(* A thread is put in front, with a rank above that of the head. *)
LEMMA PushShape ==
  ASSUME Types, NEW Q, NEW at, NEW lev, NEW rank, Shape(Q, at, lev, rank),
         NEW t \in Threads \ Q, NEW q \in CPUs, NEW p \in Priorities, NEW r \in Nat,
         queues[q][p] # None => rank[queues[q][p]] < r,
         next' = [next EXCEPT ![t] = queues[q][p]], queues' = [queues EXCEPT ![q][p] = t]
  PROVE  Shape(Q \cup {t}, [at EXCEPT ![t] = q], [lev EXCEPT ![t] = p], [rank EXCEPT ![t] = r])'
<1> DEFINE Q2 == Q \cup {t}
           at2 == [at EXCEPT ![t] = q]
           lev2 == [lev EXCEPT ![t] = p]
           rank2 == [rank EXCEPT ![t] = r]
           h == queues[q][p]
<1>1. /\ Q \in SUBSET Threads /\ at \in [Threads -> CPUs] /\ lev \in [Threads -> Int]
      /\ rank \in [Threads -> Nat] /\ \A u \in Q : lev[u] \in Priorities
      /\ p \in Int /\ t \in Threads /\ t \notin Q /\ None \notin Threads
  BY PriorityFacts, NoneFacts DEF Shape
<1>2. /\ Q2 \in SUBSET Threads /\ at2 \in [Threads -> CPUs] /\ lev2 \in [Threads -> Int]
      /\ rank2 \in [Threads -> Nat] /\ at2[t] = q /\ lev2[t] = p /\ rank2[t] = r
      /\ \A u \in Q : u # t /\ at2[u] = at[u] /\ lev2[u] = lev[u] /\ rank2[u] = rank[u]
  BY <1>1
<1>3. /\ next'[t] = h /\ \A u \in Threads : u # t => next'[u] = next[u]
      /\ queues'[q][p] = t
      /\ \A c \in CPUs, l \in Priorities : c # q \/ l # p => queues'[c][l] = queues[c][l]
  BY DEF Types
<1>4. h = None \/ (h \in Q /\ at[h] = q /\ lev[h] = p /\ rank[h] < r)
  BY DEF Shape
<1> HIDE DEF Q2, at2, lev2, rank2, h
<1>5. \A u \in Q2 : lev2[u] \in Priorities
  BY <1>1, <1>2 DEF Q2
<1>6. ASSUME NEW c \in CPUs, NEW l \in Priorities
      PROVE  IF queues'[c][l] = None
             THEN \A u \in Q2 : ~ (at2[u] = c /\ lev2[u] = l)
             ELSE queues'[c][l] \in Q2 /\ at2[queues'[c][l]] = c /\ lev2[queues'[c][l]] = l
  BY <1>1, <1>2, <1>3 DEF Q2, Shape
<1>7. ASSUME NEW u \in Q2, next'[u] # None
      PROVE  /\ next'[u] \in Q2 /\ at2[next'[u]] = at2[u] /\ lev2[next'[u]] = lev2[u]
             /\ rank2[next'[u]] < rank2[u]
             /\ next'[u] # queues'[at2[u]][lev2[u]]
  <2>1. CASE u = t
    BY <1>1, <1>2, <1>3, <1>4, <1>7, <2>1 DEF Q2
  <2>2. CASE u # t
    <3>1. /\ u \in Q /\ next'[u] = next[u] /\ next[u] \in Q /\ at[next[u]] = at[u]
          /\ lev[next[u]] = lev[u] /\ rank[next[u]] < rank[u] /\ next[u] # queues[at[u]][lev[u]]
      BY <1>1, <1>3, <1>7, <2>2 DEF Q2, Shape
    <3> QED
      BY <1>1, <1>2, <1>3, <2>2, <3>1 DEF Q2
  <2> QED
    BY <2>1, <2>2
<1>8. ASSUME NEW u \in Q2
      PROVE  queues'[at2[u]][lev2[u]] = u \/ \E v \in Q2 : next'[v] = u
  <2>1. CASE u = t
    BY <1>2, <1>3, <2>1
  <2>2. CASE u # t
    <3>1. u \in Q /\ (queues[at[u]][lev[u]] = u \/ \E v \in Q : next[v] = u)
      BY <2>2 DEF Q2, Shape
    <3>2. CASE queues[at[u]][lev[u]] = u
      BY <1>1, <1>2, <1>3, <3>1, <3>2 DEF Q2, h
    <3>3. CASE \E v \in Q : next[v] = u
      BY <1>1, <1>2, <1>3, <3>3 DEF Q2
    <3> QED
      BY <3>1, <3>2, <3>3
  <2> QED
    BY <2>1, <2>2
<1>9. ASSUME NEW u \in Q2, NEW v \in Q2, next'[u] = next'[v], next'[u] # None
      PROVE  u = v
  <2>1. ASSUME NEW x \in Q, h # None PROVE next[x] # h
    BY <1>4, <2>1 DEF Shape, h
  <2>2. \A x \in Q : next'[x] = next[x]
    BY <1>1, <1>3
  <2>3. CASE u # t /\ v # t
    BY <1>9, <2>2, <2>3 DEF Q2, Shape
  <2>4. CASE u = t \/ v = t
    BY <1>3, <1>9, <2>1, <2>2, <2>4 DEF Q2
  <2> QED
    BY <2>3, <2>4
<1>10. \A u \in Threads \ Q2 : next'[u] = None
  BY <1>3 DEF Q2, Shape
<1>11. Shape(Q2, at2, lev2, rank2)'
  BY <1>2, <1>5, <1>6, <1>7, <1>8, <1>9, <1>10 DEF Shape
<1> QED
  BY <1>11 DEF Q2, at2, lev2, rank2

(* The head is taken. *)
LEMMA PopShape ==
  ASSUME Types, NEW Q, NEW at, NEW lev, NEW rank, Shape(Q, at, lev, rank),
         NEW t \in Threads, NEW q \in CPUs, NEW p \in Priorities, queues[q][p] = t,
         next' = [next EXCEPT ![t] = None], queues' = [queues EXCEPT ![q][p] = next[t]]
  PROVE  Shape(Q \ {t}, at, lev, rank)'
<1> DEFINE Q2 == Q \ {t}
<1>1. /\ Q \in SUBSET Threads /\ at \in [Threads -> CPUs] /\ lev \in [Threads -> Int]
      /\ rank \in [Threads -> Nat] /\ \A u \in Q : lev[u] \in Priorities
      /\ None \notin Threads /\ t # None
  BY NoneFacts DEF Shape
<1>2. /\ next'[t] = None /\ \A u \in Threads : u # t => next'[u] = next[u]
      /\ queues'[q][p] = next[t]
      /\ \A c \in CPUs, l \in Priorities : c # q \/ l # p => queues'[c][l] = queues[c][l]
  BY DEF Types
<1>3. /\ t \in Q /\ at[t] = q /\ lev[t] = p
      /\ next[t] # None => next[t] \in Q2 /\ at[next[t]] = q /\ lev[next[t]] = p
      /\ \A u \in Q : next[u] # t
  BY <1>1 DEF Shape
<1>4. \A u \in Q2 : u \in Q /\ u # t /\ next'[u] = next[u]
  BY <1>1, <1>2
<1> HIDE DEF Q2
<1>5. Q2 \in SUBSET Threads /\ \A u \in Q2 : lev[u] \in Priorities
  BY <1>1 DEF Q2
<1>6. ASSUME NEW c \in CPUs, NEW l \in Priorities
      PROVE  IF queues'[c][l] = None
             THEN \A u \in Q2 : ~ (at[u] = c /\ lev[u] = l)
             ELSE queues'[c][l] \in Q2 /\ at[queues'[c][l]] = c /\ lev[queues'[c][l]] = l
  <2>1. CASE c = q /\ l = p
    <3>1. CASE next[t] # None
      BY <1>2, <1>3, <2>1, <3>1
    <3>2. CASE next[t] = None
      <4>1. ASSUME NEW u \in Q2, at[u] = c, lev[u] = l PROVE FALSE
        <5> DEFINE S == {v \in Q : at[v] = q /\ lev[v] = p /\ v # t}
        <5>1. \A x \in S : \E y \in S : next[y] = x /\ rank[x] < rank[y]
          <6> SUFFICES ASSUME NEW x \in S PROVE \E y \in S : next[y] = x /\ rank[x] < rank[y]
            OBVIOUS
          <6>1. PICK y \in Q : next[y] = x
            BY DEF Shape
          <6>2. x # None /\ y # t
            BY <1>1, <3>2, <6>1
          <6> QED
            BY <6>1, <6>2 DEF Shape
        <5>2. u \in S /\ S \subseteq Threads
          BY <1>1, <1>4, <2>1, <4>1
        <5> HIDE DEF S
        <5> QED
          BY <1>1, <5>1, <5>2, NoRise
      <4> QED
        BY <1>2, <2>1, <3>2, <4>1
    <3> QED
      BY <3>1, <3>2
  <2>2. CASE ~ (c = q /\ l = p)
    BY <1>1, <1>2, <1>3, <2>2 DEF Q2, Shape
  <2> QED
    BY <2>1, <2>2
<1>7. ASSUME NEW u \in Q2, next'[u] # None
      PROVE  /\ next'[u] \in Q2 /\ at[next'[u]] = at[u] /\ lev[next'[u]] = lev[u]
             /\ rank[next'[u]] < rank[u]
             /\ next'[u] # queues'[at[u]][lev[u]]
  <2>1. /\ u \in Q /\ u # t /\ next'[u] = next[u] /\ next[u] \in Q /\ next[u] # t /\ at[next[u]] = at[u]
        /\ lev[next[u]] = lev[u] /\ rank[next[u]] < rank[u] /\ next[u] # queues[at[u]][lev[u]]
    BY <1>3, <1>4, <1>7 DEF Shape
  <2>2. next[u] # next[t]
    BY <1>3, <1>7, <2>1 DEF Shape
  <2> QED
    BY <1>1, <1>2, <2>1, <2>2 DEF Q2
<1>8. ASSUME NEW u \in Q2
      PROVE  queues'[at[u]][lev[u]] = u \/ \E v \in Q2 : next'[v] = u
  <2>1. u \in Q /\ u # t /\ (queues[at[u]][lev[u]] = u \/ \E v \in Q : next[v] = u)
    BY <1>4 DEF Shape
  <2>2. CASE queues[at[u]][lev[u]] = u
    BY <1>1, <1>2, <2>1, <2>2
  <2>3. CASE \E v \in Q : next[v] = u
    <3>1. PICK v \in Q : next[v] = u
      BY <2>3
    <3>2. CASE v = t
      <4>1. u # None /\ at[u] = q /\ lev[u] = p
        BY <1>1, <1>3, <2>1, <3>1, <3>2
      <4> QED
        BY <1>2, <3>1, <3>2, <4>1
    <3>3. CASE v # t
      BY <1>1, <1>2, <3>1, <3>3 DEF Q2
    <3> QED
      BY <3>2, <3>3
  <2> QED
    BY <2>1, <2>2, <2>3
<1>9. ASSUME NEW u \in Q2, NEW v \in Q2, next'[u] = next'[v], next'[u] # None
      PROVE  u = v
  BY <1>4, <1>9 DEF Shape
<1>10. \A u \in Threads \ Q2 : next'[u] = None
  BY <1>2 DEF Q2, Shape
<1>11. Shape(Q2, at, lev, rank)'
  BY <1>1, <1>5, <1>6, <1>7, <1>8, <1>9, <1>10 DEF Shape
<1> QED
  BY <1>11 DEF Q2

(* A thread behind the head is taken. *)
LEMMA UnlinkShape ==
  ASSUME Types, NEW Q, NEW at, NEW lev, NEW rank, Shape(Q, at, lev, rank),
         NEW t \in Q, NEW w \in Q, next[w] = t,
         next' = [next EXCEPT ![w] = next[t], ![t] = None], queues' = queues
  PROVE  Shape(Q \ {t}, at, lev, rank)'
<1> DEFINE Q2 == Q \ {t}
<1>1. /\ Q \in SUBSET Threads /\ at \in [Threads -> CPUs] /\ lev \in [Threads -> Int]
      /\ rank \in [Threads -> Nat] /\ \A u \in Q : lev[u] \in Priorities
      /\ None \notin Threads /\ t # None /\ t \in Threads /\ w \in Threads
  BY NoneFacts DEF Shape
<1>2. /\ at[t] = at[w] /\ lev[t] = lev[w] /\ rank[t] < rank[w] /\ w # t
      /\ queues[at[t]][lev[t]] # t
      /\ \A u \in Q : next[u] = t => u = w
      /\ next[t] # None => next[t] \in Q2 /\ at[next[t]] = at[t] /\ lev[next[t]] = lev[t]
                           /\ rank[next[t]] < rank[t] /\ next[t] # queues[at[t]][lev[t]]
  BY <1>1 DEF Shape
<1>3. /\ next'[t] = None /\ next'[w] = next[t]
      /\ \A u \in Threads : u # t /\ u # w => next'[u] = next[u]
  BY <1>1, <1>2 DEF Types
<1>4. \A c \in CPUs, l \in Priorities : queues[c][l] # t
  BY <1>1, <1>2 DEF Shape
<1> HIDE DEF Q2
<1>5. Q2 \in SUBSET Threads /\ \A u \in Q2 : lev[u] \in Priorities /\ u \in Q /\ u # t
  BY <1>1 DEF Q2
<1>6. ASSUME NEW c \in CPUs, NEW l \in Priorities
      PROVE  IF queues'[c][l] = None
             THEN \A u \in Q2 : ~ (at[u] = c /\ lev[u] = l)
             ELSE queues'[c][l] \in Q2 /\ at[queues'[c][l]] = c /\ lev[queues'[c][l]] = l
  BY <1>4 DEF Q2, Shape
<1>7. ASSUME NEW u \in Q2, next'[u] # None
      PROVE  /\ next'[u] \in Q2 /\ at[next'[u]] = at[u] /\ lev[next'[u]] = lev[u]
             /\ rank[next'[u]] < rank[u]
             /\ next'[u] # queues'[at[u]][lev[u]]
  <2>1. CASE u = w
    <3>1. rank[next[t]] \in Nat /\ rank[t] \in Nat /\ rank[w] \in Nat
      BY <1>1, <1>2, <1>3, <1>5, <1>7, <2>1
    <3> QED
      BY <1>2, <1>3, <1>7, <2>1, <3>1
  <2>2. CASE u # w
    <3>1. /\ u \in Q /\ u # t /\ next'[u] = next[u] /\ next[u] \in Q /\ next[u] # t
          /\ at[next[u]] = at[u] /\ lev[next[u]] = lev[u] /\ rank[next[u]] < rank[u]
          /\ next[u] # queues[at[u]][lev[u]]
      <4>1. u \in Q /\ u # t /\ u \in Threads /\ next'[u] = next[u] /\ next[u] # t /\ next[u] # None
        BY <1>1, <1>2, <1>3, <1>5, <1>7, <2>2
      <4> QED
        BY <4>1 DEF Shape
    <3> QED
      BY <3>1 DEF Q2
  <2> QED
    BY <2>1, <2>2
<1>8. ASSUME NEW u \in Q2
      PROVE  queues'[at[u]][lev[u]] = u \/ \E v \in Q2 : next'[v] = u
  <2>1. u \in Q /\ u # t /\ (queues[at[u]][lev[u]] = u \/ \E v \in Q : next[v] = u)
    BY <1>5 DEF Shape
  <2>2. CASE \E v \in Q : next[v] = u
    <3>1. PICK v \in Q : next[v] = u
      BY <2>2
    <3>2. CASE v = t
      BY <1>2, <1>3, <3>1, <3>2 DEF Q2
    <3>3. CASE v # t
      BY <1>1, <1>3, <2>1, <3>1, <3>3 DEF Q2
    <3> QED
      BY <3>2, <3>3
  <2> QED
    BY <2>1, <2>2
<1>9. ASSUME NEW u \in Q2, NEW v \in Q2, next'[u] = next'[v], next'[u] # None
      PROVE  u = v
  <2>1. \A x \in Q2 : x # w => next'[x] = next[x] /\ x \in Q /\ x # t
    BY <1>1, <1>3, <1>5
  <2>2. \A x \in Q : next[x] = next[t] /\ next[x] # None => x = t
    BY DEF Shape
  <2>3. CASE u # w /\ v # w
    <3>1. u \in Q /\ v \in Q /\ next[u] = next[v] /\ next[u] # None
      BY <1>9, <2>1, <2>3
    <3> QED
      BY <3>1 DEF Shape
  <2>4. CASE u = w \/ v = w
    BY <1>3, <1>9, <2>1, <2>2, <2>4
  <2> QED
    BY <2>3, <2>4
<1>10. ASSUME NEW u \in Threads \ Q2 PROVE next'[u] = None
  <2>1. u = t \/ u \notin Q
    BY DEF Q2
  <2>2. u \notin Q => u # w /\ next[u] = None
    BY DEF Shape
  <2> QED
    BY <1>3, <2>1, <2>2
<1>11. Shape(Q2, at, lev, rank)'
  BY <1>1, <1>5, <1>6, <1>7, <1>8, <1>9, <1>10 DEF Shape
<1> QED
  BY <1>11 DEF Q2

-----------------------------------------------------------------------------
(* The changes of a CPU's own variables. *)

(* A step of c leaves the locals of the other CPUs alone. *)
Alone(c) ==
  /\ pc' \in [CPUs -> Labels] /\ hand' \in [CPUs -> Threads \cup {None}]
  /\ target' \in [CPUs -> CPUs] /\ then' \in [CPUs -> {"idle", "pick", "clear"}]
  /\ \A d \in CPUs \ {c} : /\ pc'[d] = pc[d] /\ hand'[d] = hand[d]
                           /\ target'[d] = target[d] /\ then'[d] = then[d]

LEMMA GotoLocals ==
  ASSUME Types, NEW c \in CPUs, NEW label \in Labels, Goto(c, label)
  PROVE  Alone(c) /\ pc'[c] = label /\ hand'[c] = None /\ then'[c] = "idle"
BY ZeroIsCPU DEF Types, Goto, Alone

LEMMA CallLocals ==
  ASSUME Types, NEW c \in CPUs, NEW q \in CPUs, NEW t \in Threads,
         NEW label \in {"idle", "pick", "clear"}, CallEnqueue(c, q, t, label)
  PROVE  /\ Alone(c) /\ pc'[c] = "enqueue" /\ hand'[c] = t /\ target'[c] = q
         /\ then'[c] = label
BY DEF Types, CallEnqueue, Alone, Labels

LEMMA TryLocals ==
  ASSUME Types, NEW c \in CPUs, NEW i, NEW thief_load, TryFrom(c, i, thief_load), hand[c] = None
  PROVE  Alone(c) /\ pc'[c] \in {"idle", "steal_load"} /\ hand'[c] = None
<1>1. CASE NextVictim(c, i) = {}
  BY <1>1, GotoLocals DEF TryFrom, Labels
<1>2. CASE NextVictim(c, i) # {}
  <2>1. PICK v \in CPUs : v = CHOOSE x \in NextVictim(c, i) : TRUE
    BY <1>2, VictimExists
  <2>2. /\ pc' = [pc EXCEPT ![c] = "steal_load"] /\ target' = [target EXCEPT ![c] = v]
        /\ hand' = hand /\ then' = then
    BY <1>2, <2>1 DEF TryFrom
  <2> QED
    BY <2>2 DEF Types, Alone, Labels
<1> QED
  BY <1>1, <1>2

-----------------------------------------------------------------------------
(* Counting the threads of a CPU. *)

LEMMA CountNat ==
  ASSUME NEW Q \in SUBSET Threads, NEW at, NEW c
  PROVE  IsFiniteSet(On(Q, at, c)) /\ Cardinality(On(Q, at, c)) \in Nat
<1>1. On(Q, at, c) \subseteq Threads
  BY DEF On
<1> QED
  BY <1>1, SMPAssumption, FS_Subset, FS_CardinalityType

LEMMA CountOneMore ==
  ASSUME NEW S \in SUBSET Threads, NEW t \in Threads \ S
  PROVE  Cardinality(S \cup {t}) = Cardinality(S) + 1
<1>1. IsFiniteSet(S)
  BY SMPAssumption, FS_Subset
<1> QED
  BY <1>1, FS_AddElement

LEMMA CountOneLess ==
  ASSUME NEW S \in SUBSET Threads, NEW t \in S
  PROVE  Cardinality(S \ {t}) = Cardinality(S) - 1
<1>1. IsFiniteSet(S)
  BY SMPAssumption, FS_Subset
<1> QED
  BY <1>1, FS_RemoveElement

LEMMA LoadsAreNat ==
  ASSUME Types, NEW Q, NEW at, NEW lev, NEW rank, Shape(Q, at, lev, rank), Content(Q, at)
  PROVE  num_threads \in [CPUs -> Nat]
<1>1. Q \in SUBSET Threads
  BY DEF Shape
<1>2. \A c \in CPUs : num_threads[c] \in Nat
  BY <1>1, CountNat DEF Content
<1> QED
  BY <1>2 DEF Types

-----------------------------------------------------------------------------
(* The steps of the calls. *)

LEMMA HandFacts ==
  ASSUME Types, Hands, NEW Q, NEW at, Content(Q, at), NEW c \in CPUs, Moving(c)
  PROVE  /\ hand[c] \in Threads /\ hand[c] \notin Q
         /\ state[hand[c]] \in {"READY", "BLOCKED"}
         /\ effective_priority[hand[c]] \in Priorities
         /\ \A d \in CPUs \ {c} : Moving(d) => hand[d] # hand[c]
<1>1. hand[c] \in Threads
  BY DEF Types, Hands
<1>2. state[hand[c]] \in {"READY", "BLOCKED"}
  BY DEF Hands
<1>3. effective_priority[hand[c]] \in Priorities
  BY <1>1, <1>2 DEF Types, Born
<1> QED
  BY <1>1, <1>2, <1>3 DEF Hands, Content

(* A CPU owns what it owned, and the owned threads run on. *)
LEMMA OwnersKept ==
  ASSUME Owners, ~twice,
         \A d \in CPUs : Owns(d)' => /\ Owns(d) /\ current'[d] = current[d]
                                     /\ state'[current[d]] = state[current[d]]
                                     /\ affinity'[current[d]] = affinity[current[d]]
  PROVE  Owners'
BY DEF Owners

(* A step of c that moves no thread. *)
LEMMA QuietStep ==
  ASSUME SMPInv, ~twice, NEW c \in CPUs, Alone(c), ~Moving(c), ~Moving(c)',
         hand'[c] # None <=> pc'[c] = "set_check",
         \A d \in CPUs : Owns(d)' => Owns(d) /\ current'[d] = current[d],
         current' \in [CPUs -> Threads \cup {None}], Born',
         UNCHANGED <<state, affinity, next, queues, queue_bitmap, num_threads>>
  PROVE  SMPInv'
<1>1. Types /\ Hands /\ Owners /\ Bitmap /\ Lists
  BY DEF SMPInv
<1>2. PICK Q, at, lev, rank : Shape(Q, at, lev, rank) /\ Content(Q, at)
  BY <1>1 DEF Lists
<1>3. Types'
  BY <1>1 DEF Types, Alone
<1>4. Hands'
  BY <1>1 DEF Hands, Moving, Alone
<1>5. Owners'
  BY <1>1, OwnersKept
<1>6. Bitmap'
  BY <1>1 DEF Bitmap
<1>7. Shape(Q, at, lev, rank)'
  BY <1>2 DEF Shape
<1>8. Content(Q, at)'
  <2>1. \A d \in CPUs : Moving(d)' <=> Moving(d)
    BY DEF Moving, Alone
  <2>2. \A d \in CPUs : Moving(d) => hand'[d] = hand[d]
    BY DEF Alone
  <2> QED
    BY <1>2, <2>1, <2>2 DEF Content, On
<1> QED
  BY <1>3, <1>4, <1>5, <1>6, <1>7, <1>8 DEF SMPInv, Lists

(* A step of c that calls enqueue_thread for a thread that is not queued. *)
LEMMA LaunchStep ==
  ASSUME SMPInv, ~twice, NEW c \in CPUs, NEW t \in Threads, NEW q \in CPUs,
         state[t] # "READY", \A d \in CPUs : Moving(d) => hand[d] # t,
         Alone(c), ~Moving(c), pc'[c] = "enqueue", hand'[c] = t, target'[c] = q,
         state' \in [Threads -> States], state'[t] \in {"READY", "BLOCKED"}, q \in Allowed(affinity'[t]),
         affinity' \in [Threads -> SUBSET Bits],
         \A u \in Threads : u # t => state'[u] = state[u] /\ affinity'[u] = affinity[u],
         \A d \in CPUs : Owns(d)' => Owns(d) /\ current[d] # t,
         Born', UNCHANGED <<next, queues, queue_bitmap, num_threads, current>>
  PROVE  SMPInv'
<1>1. Types /\ Hands /\ Owners /\ Bitmap /\ Lists
  BY DEF SMPInv
<1>2. PICK Q, at, lev, rank : Shape(Q, at, lev, rank) /\ Content(Q, at)
  BY <1>1 DEF Lists
<1>3. Types'
  BY <1>1 DEF Types, Alone
<1>4. \A d \in CPUs : d # c => /\ Moving(d)' <=> Moving(d)
                               /\ hand'[d] = hand[d] /\ target'[d] = target[d] /\ pc'[d] = pc[d]
  BY DEF Moving, Alone
<1>5. Moving(c)' /\ t # None
  BY NoneFacts DEF Moving
<1>6. \A d \in CPUs : Moving(d) => hand[d] \in Threads
  BY <1>1 DEF Hands, Types
<1>7. Hands'
  <2>1. \A d \in CPUs : hand'[d] # None <=> Moving(d)' \/ pc'[d] = "set_check"
    BY <1>1, <1>4, <1>5 DEF Hands
  <2>2. \A d \in CPUs : Moving(d)' => state'[hand'[d]] \in {"READY", "BLOCKED"}
    BY <1>1, <1>4, <1>6 DEF Hands
  <2>3. \A d \in CPUs : Moving(d)' =>
          (IF pc'[d] = "enqueue" THEN target'[d] ELSE d) \in Allowed(affinity'[hand'[d]])
    BY <1>1, <1>4, <1>6 DEF Hands
  <2>4. \A d, e \in CPUs : Moving(d)' /\ Moving(e)' /\ hand'[d] = hand'[e] => d = e
    BY <1>1, <1>4 DEF Hands
  <2> QED
    BY <2>1, <2>2, <2>3, <2>4 DEF Hands
<1>8. Owners'
  <2>1. \A d \in CPUs : Owns(d) => current[d] \in Threads
    BY <1>1 DEF Owns, Types
  <2> QED
    BY <1>1, <2>1, OwnersKept
<1>9. Bitmap'
  BY <1>1 DEF Bitmap
<1>10. Shape(Q, at, lev, rank)'
  BY <1>2 DEF Shape
<1>11. Content(Q, at)'
  <2>1. t \notin Q /\ Q \subseteq Threads
    BY <1>2 DEF Content, Shape
  <2>2. \A u \in Q : state'[u] = "READY" /\ at[u] \in Allowed(affinity'[u])
    BY <1>2, <2>1 DEF Content
  <2>3. \A d \in CPUs : Moving(d)' => hand'[d] \notin Q
    BY <1>2, <1>4, <2>1 DEF Content
  <2>4. ASSUME NEW u \in Threads, state'[u] = "READY"
        PROVE  u \in Q \/ \E d \in CPUs : Moving(d)' /\ hand'[d] = u
    <3>1. CASE u = t
      BY <1>5, <3>1
    <3>2. CASE u # t /\ u \notin Q
      <4>1. PICK d \in CPUs : Moving(d) /\ hand[d] = u
        BY <1>2, <2>4, <3>2 DEF Content
      <4>2. d # c
        BY <4>1
      <4> QED
        BY <1>4, <4>1, <4>2
    <3> QED
      BY <3>1, <3>2
  <2> QED
    BY <1>2, <2>2, <2>3, <2>4 DEF Content, On
<1> QED
  BY <1>3, <1>7, <1>8, <1>9, <1>10, <1>11 DEF SMPInv, Lists

(* A step of c that takes a thread from a queue. *)
LEMMA TakeStep ==
  ASSUME SMPInv, ~twice, NEW c \in CPUs, NEW Q, NEW at, NEW lev, NEW rank,
         Shape(Q, at, lev, rank), Content(Q, at), NEW t \in Q, c \in Allowed(affinity[t]),
         Shape(Q \ {t}, at, lev, rank)', Bitmap',
         next' \in [Threads -> Threads \cup {None}],
         queues' \in [CPUs -> [Priorities -> Threads \cup {None}]],
         queue_bitmap' \in [CPUs -> SUBSET Priorities],
         num_threads' = [num_threads EXCEPT ![at[t]] = @ - 1],
         Alone(c), ~Moving(c), pc'[c] \in {"dispatch", "stolen"}, hand'[c] = t,
         \A d \in CPUs : Owns(d)' => Owns(d),
         UNCHANGED <<state, priority_class, effective_priority, affinity, current>>
  PROVE  SMPInv'
<1>1. Types /\ Hands /\ Owners
  BY DEF SMPInv
<1>2. t \in Threads /\ t # None /\ at[t] \in CPUs /\ Q \subseteq Threads /\ state[t] = "READY"
  BY NoneFacts DEF Shape, Content
<1>3. Types'
  BY <1>1, <1>2 DEF Types, Born, Alone
<1>4. \A d \in CPUs : d # c => /\ Moving(d)' <=> Moving(d)
                               /\ hand'[d] = hand[d] /\ target'[d] = target[d] /\ pc'[d] = pc[d]
  BY DEF Moving, Alone
<1>5. Moving(c)' /\ \A d \in CPUs : Moving(d) => hand[d] # t
  BY DEF Moving, Content
<1>6. Hands'
  <2>1. \A d \in CPUs : hand'[d] # None <=> Moving(d)' \/ pc'[d] = "set_check"
    BY <1>1, <1>2, <1>4, <1>5 DEF Hands
  <2>2. \A d \in CPUs : Moving(d)' => state'[hand'[d]] \in {"READY", "BLOCKED"}
    BY <1>1, <1>2, <1>4 DEF Hands
  <2>3. \A d \in CPUs : Moving(d)' =>
          (IF pc'[d] = "enqueue" THEN target'[d] ELSE d) \in Allowed(affinity'[hand'[d]])
    BY <1>1, <1>4 DEF Hands
  <2>4. \A d, e \in CPUs : Moving(d)' /\ Moving(e)' /\ hand'[d] = hand'[e] => d = e
    BY <1>1, <1>4, <1>5 DEF Hands
  <2> QED
    BY <2>1, <2>2, <2>3, <2>4 DEF Hands
<1>7. Owners'
  BY <1>1, OwnersKept
<1>8. Content(Q \ {t}, at)'
  <2> DEFINE R == Q \ {t}
  <2>1. \A u \in R : state'[u] = "READY" /\ at[u] \in Allowed(affinity'[u])
    BY DEF Content
  <2>2. \A d \in CPUs : Moving(d)' => hand'[d] \notin R
    BY <1>4 DEF Content
  <2>3. ASSUME NEW u \in Threads, state'[u] = "READY"
        PROVE  u \in R \/ \E d \in CPUs : Moving(d)' /\ hand'[d] = u
    <3>1. CASE u = t
      BY <1>5, <3>1
    <3>2. CASE u # t /\ u \notin Q
      <4>1. PICK d \in CPUs : Moving(d) /\ hand[d] = u
        BY <2>3, <3>2 DEF Content
      <4>2. d # c
        BY <4>1
      <4> QED
        BY <1>4, <4>1, <4>2
    <3> QED
      BY <3>1, <3>2
  <2>4. ASSUME NEW d \in CPUs PROVE num_threads'[d] = Cardinality(On(R, at, d))
    <3>1. num_threads[d] = Cardinality(On(Q, at, d)) /\ On(Q, at, d) \in SUBSET Threads
      BY <1>2 DEF Content, On
    <3>2. CASE d = at[t]
      <4>1. On(R, at, d) = On(Q, at, d) \ {t} /\ t \in On(Q, at, d)
        BY <3>2 DEF On
      <4>2. Cardinality(On(R, at, d)) = Cardinality(On(Q, at, d)) - 1
        BY <3>1, <4>1, CountOneLess
      <4> QED
        BY <1>1, <3>1, <3>2, <4>2 DEF Types
    <3>3. CASE d # at[t]
      <4>1. On(R, at, d) = On(Q, at, d)
        BY <3>3 DEF On
      <4> QED
        BY <1>1, <3>1, <3>3, <4>1 DEF Types
    <3> QED
      BY <3>2, <3>3
  <2> HIDE DEF R
  <2>5. Content(R, at)'
    BY <2>1, <2>2, <2>3, <2>4 DEF Content, On
  <2> QED
    BY <2>5 DEF R
<1> QED
  BY <1>3, <1>6, <1>7, <1>8 DEF SMPInv, Lists

LEMMA EnqueueStep ==
  ASSUME SMPInv, ~twice, NEW c \in CPUs, enqueue_thread(c)
  PROVE  SMPInv'
<1>1. Types /\ Hands /\ Owners /\ Bitmap /\ Lists
  BY DEF SMPInv
<1>2. PICK Q, at, lev, rank : Shape(Q, at, lev, rank) /\ Content(Q, at)
  BY <1>1 DEF Lists
<1>0. PICK t, q, p : t = hand[c] /\ q = target[c] /\ p = effective_priority[hand[c]]
  OBVIOUS
<1>3. /\ pc[c] = "enqueue" /\ next' = [next EXCEPT ![t] = queues[q][p]]
      /\ queues' = [queues EXCEPT ![q][p] = t]
      /\ queue_bitmap' = [queue_bitmap EXCEPT ![q] = @ \cup {p}]
      /\ num_threads' = [num_threads EXCEPT ![q] = @ + 1]
      /\ state' = [state EXCEPT ![t] = "READY"]
      /\ Goto(c, then[c])
      /\ UNCHANGED <<priority_class, effective_priority, affinity, current>>
  BY <1>0 DEF enqueue_thread
<1>4. /\ t \in Threads /\ t \notin Q /\ q \in CPUs /\ p \in Priorities
      /\ state[t] \in {"READY", "BLOCKED"} /\ q \in Allowed(affinity[t]) /\ Moving(c)
      /\ then[c] \in {"idle", "pick", "clear"} /\ then[c] \in Labels
      /\ \A d \in CPUs \ {c} : Moving(d) => hand[d] # t
  <2>1. Moving(c)
    BY <1>3 DEF Moving
  <2>2. q \in CPUs /\ q \in Allowed(affinity[t])
    BY <1>0, <1>1, <1>3, <2>1 DEF Types, Hands
  <2>3. then[c] \in {"idle", "pick", "clear"}
    BY <1>1 DEF Types
  <2> QED
    BY <1>0, <1>1, <1>2, <2>1, <2>2, <2>3, HandFacts DEF Labels
<1>5. Alone(c) /\ pc'[c] = then[c] /\ hand'[c] = None
  BY <1>1, <1>3, <1>4, GotoLocals
<1>6. /\ state'[t] = "READY" /\ \A u \in Threads : u # t => state'[u] = state[u]
      /\ num_threads'[q] = num_threads[q] + 1
      /\ \A d \in CPUs : d # q => num_threads'[d] = num_threads[d]
      /\ queues'[q][p] = t
      /\ \A d \in CPUs, l \in Priorities : d # q \/ l # p => queues'[d][l] = queues[d][l]
      /\ queue_bitmap'[q] = queue_bitmap[q] \cup {p}
      /\ \A d \in CPUs : d # q => queue_bitmap'[d] = queue_bitmap[d]
  BY <1>1, <1>3, <1>4 DEF Types
<1>7. Types'
  <2>1. state' \in [Threads -> States]
    BY <1>1, <1>3, <1>4 DEF Types, States
  <2>2. \A u \in Threads : state'[u] # "UNBORN" => state[u] # "UNBORN"
    BY <1>4, <1>6
  <2>3. next' \in [Threads -> Threads \cup {None}] /\ queues' \in [CPUs -> [Priorities -> Threads \cup {None}]]
    BY <1>1, <1>3, <1>4 DEF Types
  <2>4. queue_bitmap' \in [CPUs -> SUBSET Priorities] /\ num_threads' \in [CPUs -> Int]
    BY <1>1, <1>3, <1>4 DEF Types
  <2> QED
    BY <1>1, <1>3, <1>5, <2>1, <2>2, <2>3, <2>4 DEF Types, Born, Alone
<1>8. Hands'
  <2>1. /\ ~Moving(c)' /\ hand'[c] = None
        /\ \A d \in CPUs : d # c => /\ Moving(d)' <=> Moving(d)
                                    /\ pc'[d] = pc[d] /\ hand'[d] = hand[d] /\ target'[d] = target[d]
    BY <1>4, <1>5 DEF Moving, Alone
  <2>2. \A d \in CPUs : hand'[d] # None <=> Moving(d)' \/ pc'[d] = "set_check"
    BY <1>1, <1>4, <1>5, <2>1 DEF Hands
  <2>3. ASSUME NEW d \in CPUs, Moving(d)' PROVE state'[hand'[d]] \in {"READY", "BLOCKED"}
    <3>1. d # c /\ Moving(d) /\ hand'[d] = hand[d]
      BY <2>1, <2>3
    <3>2. hand[d] \in Threads /\ hand[d] # t
      BY <1>1, <1>2, <1>4, <3>1, HandFacts
    <3>3. state'[hand'[d]] = state[hand[d]]
      BY <1>6, <3>1, <3>2
    <3> QED
      BY <1>1, <3>1, <3>3 DEF Hands
  <2>4. \A d \in CPUs : Moving(d)' =>
          (IF pc'[d] = "enqueue" THEN target'[d] ELSE d) \in Allowed(affinity'[hand'[d]])
    BY <1>1, <1>3, <2>1 DEF Hands
  <2>5. \A d, e \in CPUs : Moving(d)' /\ Moving(e)' /\ hand'[d] = hand'[e] => d = e
    BY <1>1, <2>1 DEF Hands
  <2> QED
    BY <2>2, <2>3, <2>4, <2>5 DEF Hands
<1>9. Owners'
  <2>1. \A d \in CPUs : Owns(d)' => Owns(d) /\ current[d] \in Threads /\ current[d] # t
    BY <1>1, <1>3, <1>4, <1>5 DEF Owns, Alone, Owners, Types
  <2> QED
    BY <1>1, <1>3, <1>6, <2>1 DEF Owners
<1>10. Bitmap'
  BY <1>1, <1>3, <1>4, <1>6, NoneFacts DEF Bitmap, Types
<1>11. Lists'
  <2>1. PICK r \in Nat : queues[q][p] # None => rank[queues[q][p]] < r
    <3>1. CASE queues[q][p] = None
      BY <3>1
    <3>2. CASE queues[q][p] # None
      <4>1. rank[queues[q][p]] \in Nat
        BY <1>2, <1>4, <3>2 DEF Shape
      <4>2. rank[queues[q][p]] + 1 \in Nat /\ rank[queues[q][p]] < rank[queues[q][p]] + 1
        BY <4>1
      <4> QED
        BY <4>2
    <3> QED
      BY <3>1, <3>2
  <2>2. Shape(Q \cup {t}, [at EXCEPT ![t] = q], [lev EXCEPT ![t] = p], [rank EXCEPT ![t] = r])'
    BY <1>1, <1>2, <1>3, <1>4, <2>1, PushShape
  <2> DEFINE Q2 == Q \cup {t}
             at2 == [at EXCEPT ![t] = q]
  <2>3. Content(Q2, at2)'
    <3>1. Q \in SUBSET Threads /\ at \in [Threads -> CPUs]
      BY <1>2 DEF Shape
    <3>2. \A u \in Q2 : state'[u] = "READY" /\ at2[u] \in Allowed(affinity'[u])
      BY <1>2, <1>3, <1>4, <1>6, <3>1 DEF Content
    <3>3. \A d \in CPUs : Moving(d)' => hand'[d] \notin Q2
      BY <1>2, <1>4, <1>5 DEF Content, Alone, Moving
    <3>4. ASSUME NEW u \in Threads, state'[u] = "READY"
          PROVE  u \in Q2 \/ \E d \in CPUs : Moving(d)' /\ hand'[d] = u
      <4>1. CASE u # t /\ u \notin Q
        <5>1. PICK d \in CPUs : Moving(d) /\ hand[d] = u
          BY <1>2, <1>6, <3>4, <4>1 DEF Content
        <5>2. d # c
          BY <1>0, <4>1, <5>1
        <5> QED
          BY <1>5, <5>1, <5>2 DEF Alone, Moving
      <4> QED
        BY <4>1
    <3>5. ASSUME NEW d \in CPUs PROVE num_threads'[d] = Cardinality(On(Q2, at2, d))
      <4>1. num_threads[d] = Cardinality(On(Q, at, d))
        BY <1>2 DEF Content
      <4>2. Cardinality(On(Q2, at2, d)) =
              IF d = q THEN Cardinality(On(Q, at, d)) + 1 ELSE Cardinality(On(Q, at, d))
        <5>1. On(Q2, at2, d) = IF d = q THEN On(Q, at, d) \cup {t} ELSE On(Q, at, d)
          BY <1>4, <3>1 DEF On
        <5>2. t \in Threads \ On(Q, at, d) /\ On(Q, at, d) \in SUBSET Threads
          BY <1>4, <3>1 DEF On
        <5> HIDE DEF Q2, at2
        <5> QED
          BY <5>1, <5>2, CountOneMore
      <4> QED
        BY <1>6, <4>1, <4>2
    <3> HIDE DEF Q2, at2
    <3> QED
      BY <3>2, <3>3, <3>4, <3>5 DEF Content, On
  <2> QED
    BY <2>2, <2>3 DEF Lists
<1> QED
  BY <1>7, <1>8, <1>9, <1>10, <1>11 DEF SMPInv

LEMMA DequeueStep ==
  ASSUME SMPInv, ~twice, NEW c \in CPUs, dequeue_highest_priority(c)
  PROVE  SMPInv'
<1>1. Types /\ Hands /\ Owners /\ Bitmap /\ Lists
  BY DEF SMPInv
<1>2. PICK Q, at, lev, rank : Shape(Q, at, lev, rank) /\ Content(Q, at)
  BY <1>1 DEF Lists
<1>3. PICK p : p = CHOOSE x \in Waiting(c) : \A y \in Waiting(c) : x >= y
  OBVIOUS
<1>4. PICK t : t = queues[c][p]
  OBVIOUS
<1>5. /\ pc[c] = "pick" /\ Waiting(c) # {}
      /\ queues' = [queues EXCEPT ![c][p] = next[t]]
      /\ queue_bitmap' = [queue_bitmap EXCEPT ![c] = IF next[t] = None THEN @ \ {p} ELSE @]
      /\ num_threads' = [num_threads EXCEPT ![c] = @ - 1]
      /\ next' = [next EXCEPT ![t] = None]
      /\ pc' = [pc EXCEPT ![c] = "dispatch"] /\ hand' = [hand EXCEPT ![c] = t]
      /\ UNCHANGED <<target, load, then>>
      /\ UNCHANGED <<state, priority_class, effective_priority, affinity, current>>
  BY <1>3, <1>4 DEF dequeue_highest_priority
<1>6. p \in Waiting(c)
  <2>1. Waiting(c) \in SUBSET Priorities
    BY <1>1 DEF Waiting, Types
  <2> QED
    BY <1>3, <1>5, <2>1, HighestExists
<1>7. p \in Priorities /\ t # None /\ t \in Threads /\ t \in Q /\ at[t] = c /\ lev[t] = p
  <2>1. p \in Priorities /\ t # None
    BY <1>1, <1>4, <1>6 DEF Waiting, Types
  <2> QED
    BY <1>2, <1>4, <2>1 DEF Shape
<1>8. Shape(Q \ {t}, at, lev, rank)'
  BY <1>1, <1>2, <1>4, <1>5, <1>7, PopShape
<1>9. Bitmap'
  <2>1. /\ queues'[c][p] = next[t]
        /\ \A d \in CPUs, l \in Priorities : d # c \/ l # p => queues'[d][l] = queues[d][l]
    BY <1>1, <1>5, <1>7 DEF Types
  <2>2. /\ queue_bitmap'[c] = IF next[t] = None THEN queue_bitmap[c] \ {p} ELSE queue_bitmap[c]
        /\ \A d \in CPUs : d # c => queue_bitmap'[d] = queue_bitmap[d]
    BY <1>1, <1>5 DEF Types
  <2> QED
    BY <1>1, <1>4, <1>7, <2>1, <2>2 DEF Bitmap
<1>10. /\ next' \in [Threads -> Threads \cup {None}]
       /\ queues' \in [CPUs -> [Priorities -> Threads \cup {None}]]
       /\ queue_bitmap' \in [CPUs -> SUBSET Priorities]
  BY <1>1, <1>5, <1>7 DEF Types
<1>11. Alone(c) /\ ~Moving(c) /\ pc'[c] = "dispatch" /\ hand'[c] = t
  BY <1>1, <1>5, <1>7 DEF Types, Alone, Moving, Labels
<1>12. \A d \in CPUs : Owns(d)' => Owns(d)
  BY <1>1, <1>5, <1>11 DEF Owns, Types
<1>13. c \in Allowed(affinity[t])
  BY <1>2, <1>7 DEF Content
<1> QED
  BY <1>2, <1>5, <1>7, <1>8, <1>9, <1>10, <1>11, <1>12, <1>13, TakeStep

LEMMA DispatchStep ==
  ASSUME SMPInv, ~twice, NEW c \in CPUs, Dispatch(c)
  PROVE  SMPInv'
<1>1. Types /\ Hands /\ Owners /\ Bitmap /\ Lists
  BY DEF SMPInv
<1>2. PICK Q, at, lev, rank : Shape(Q, at, lev, rank) /\ Content(Q, at)
  BY <1>1 DEF Lists
<1>3. PICK t : t = hand[c]
  OBVIOUS
<1>4. /\ pc[c] = "dispatch" /\ state' = [state EXCEPT ![t] = "RUNNING"]
      /\ current' = [current EXCEPT ![c] = t] /\ Goto(c, "idle")
      /\ UNCHANGED <<priority_class, effective_priority, affinity, next, queues, queue_bitmap, num_threads>>
  BY <1>3 DEF Dispatch
<1>5. /\ Moving(c) /\ t \in Threads /\ t \notin Q /\ state[t] \in {"READY", "BLOCKED"}
      /\ \A d \in CPUs \ {c} : Moving(d) => hand[d] # t
  <2>1. Moving(c)
    BY <1>4 DEF Moving
  <2> QED
    BY <1>1, <1>2, <1>3, <2>1, HandFacts
<1>6. Alone(c) /\ pc'[c] = "idle" /\ hand'[c] = None /\ ~Moving(c)'
  BY <1>1, <1>4, GotoLocals DEF Labels, Moving
<1>7. /\ state'[t] = "RUNNING" /\ \A u \in Threads : u # t => state'[u] = state[u]
      /\ current'[c] = t /\ \A d \in CPUs : d # c => current'[d] = current[d]
  BY <1>1, <1>4, <1>5 DEF Types
<1>8. \A d \in CPUs : d # c => /\ Moving(d)' <=> Moving(d)
                               /\ hand'[d] = hand[d] /\ target'[d] = target[d] /\ pc'[d] = pc[d]
                               /\ Owns(d)' <=> Owns(d)
  BY <1>6, <1>7 DEF Moving, Alone, Owns
<1>9. Types'
  <2>1. state' \in [Threads -> States]
    BY <1>1, <1>4, <1>5 DEF Types, States
  <2>2. Born'
    <3>1. \A u \in Threads : state'[u] # "UNBORN" => state[u] # "UNBORN"
      BY <1>5, <1>7
    <3> QED
      BY <1>1, <1>4, <3>1 DEF Types, Born
  <2>3. current' \in [CPUs -> Threads \cup {None}]
    BY <1>1, <1>4, <1>5 DEF Types
  <2> QED
    BY <1>1, <1>4, <1>6, <2>1, <2>2, <2>3 DEF Types, Alone
<1>10. Hands'
  <2>1. \A d \in CPUs : Moving(d) => hand[d] \in Threads
    BY <1>1 DEF Hands, Types
  <2>2. \A d \in CPUs : hand'[d] # None <=> Moving(d)' \/ pc'[d] = "set_check"
    BY <1>1, <1>6, <1>8 DEF Hands
  <2>3. \A d \in CPUs : Moving(d)' => state'[hand'[d]] \in {"READY", "BLOCKED"}
    BY <1>1, <1>5, <1>6, <1>7, <1>8, <2>1 DEF Hands
  <2>4. \A d \in CPUs : Moving(d)' =>
          (IF pc'[d] = "enqueue" THEN target'[d] ELSE d) \in Allowed(affinity'[hand'[d]])
    BY <1>1, <1>4, <1>6, <1>8 DEF Hands
  <2>5. \A d, e \in CPUs : Moving(d)' /\ Moving(e)' /\ hand'[d] = hand'[e] => d = e
    BY <1>1, <1>6, <1>8 DEF Hands
  <2> QED
    BY <2>2, <2>3, <2>4, <2>5 DEF Hands
<1>11. Owners'
  <2>1. \A d \in CPUs : d # c /\ Owns(d)' => Owns(d) /\ current'[d] = current[d] /\ current[d] \in Threads
                                             /\ current[d] # t
    BY <1>1, <1>5, <1>7, <1>8 DEF Owners, Owns, Types
  <2>2. c \in Allowed(affinity'[t])
    BY <1>1, <1>3, <1>4, <1>5 DEF Hands
  <2>3. \A d \in CPUs : Owns(d)' => state'[current'[d]] = "RUNNING" /\ d \in Allowed(affinity'[current'[d]])
    BY <1>1, <1>4, <1>7, <2>1, <2>2 DEF Owners
  <2>4. \A d, e \in CPUs : Owns(d)' /\ Owns(e)' /\ current'[d] = current'[e] => d = e
    BY <1>1, <1>7, <2>1 DEF Owners
  <2> QED
    BY <2>3, <2>4 DEF Owners
<1>12. Bitmap'
  BY <1>1, <1>4 DEF Bitmap
<1>13. Shape(Q, at, lev, rank)'
  BY <1>2, <1>4 DEF Shape
<1>14. Content(Q, at)'
  <2>1. \A u \in Q : state'[u] = "READY" /\ at[u] \in Allowed(affinity'[u])
    BY <1>2, <1>4, <1>5, <1>7 DEF Content, Shape
  <2>2. \A d \in CPUs : Moving(d)' => hand'[d] \notin Q
    BY <1>2, <1>6, <1>8 DEF Content
  <2>3. ASSUME NEW u \in Threads, state'[u] = "READY"
        PROVE  u \in Q \/ \E d \in CPUs : Moving(d)' /\ hand'[d] = u
    <3>1. u # t /\ state[u] = "READY"
      BY <1>7, <2>3
    <3>2. CASE u \notin Q
      <4>1. PICK d \in CPUs : Moving(d) /\ hand[d] = u
        BY <1>2, <3>1, <3>2 DEF Content
      <4> QED
        BY <1>3, <1>8, <3>1, <4>1
    <3> QED
      BY <3>2
  <2> QED
    BY <1>2, <1>4, <2>1, <2>2, <2>3 DEF Content, On
<1> QED
  BY <1>9, <1>10, <1>11, <1>12, <1>13, <1>14 DEF SMPInv, Lists

LEMMA ClearStep ==
  ASSUME SMPInv, ~twice, NEW c \in CPUs, DispatchIdle(c) \/ ClearCurrent(c)
  PROVE  SMPInv'
<1>1. Types
  BY DEF SMPInv
<1>2. /\ pc[c] \in {"pick", "clear"} /\ current' = [current EXCEPT ![c] = None] /\ Goto(c, "idle")
      /\ UNCHANGED <<state, priority_class, effective_priority, affinity, next, queues, queue_bitmap,
                     num_threads>>
  BY DEF DispatchIdle, ClearCurrent, threads
<1>3. Alone(c) /\ pc'[c] = "idle" /\ hand'[c] = None
  BY <1>1, <1>2, GotoLocals DEF Labels
<1>4. ~Moving(c) /\ ~Moving(c)'
  BY <1>2, <1>3 DEF Moving
<1>5. \A d \in CPUs : Owns(d)' => Owns(d) /\ current'[d] = current[d]
  BY <1>1, <1>2, <1>3 DEF Owns, Alone, Types
<1>6. current' \in [CPUs -> Threads \cup {None}] /\ Born'
  BY <1>1, <1>2 DEF Types, Born
<1> QED
  BY <1>2, <1>3, <1>4, <1>5, <1>6, QuietStep

(* The steps that only look for a thread to steal. *)
LEMMA TryStep ==
  ASSUME SMPInv, ~twice, NEW c \in CPUs, pc[c] \in {"idle", "steal_load", "steal"},
         NEW i, NEW thief_load, TryFrom(c, i, thief_load), UNCHANGED <<threads, runqueues>>
  PROVE  SMPInv'
<1>1. Types /\ Hands
  BY DEF SMPInv
<1>2. ~Moving(c) /\ hand[c] = None
  BY <1>1 DEF Moving, Hands
<1>3. Alone(c) /\ pc'[c] \in {"idle", "steal_load"} /\ hand'[c] = None
  BY <1>1, <1>2, TryLocals
<1>4. UNCHANGED <<state, priority_class, effective_priority, affinity, next, queues, queue_bitmap,
                  num_threads, current>>
  BY DEF threads, runqueues
<1>5. \A d \in CPUs : Owns(d)' => Owns(d) /\ current'[d] = current[d]
  BY <1>3, <1>4 DEF Owns, Alone
<1>6. current' \in [CPUs -> Threads \cup {None}] /\ Born' /\ ~Moving(c)'
  BY <1>1, <1>3, <1>4 DEF Types, Born, Moving
<1> QED
  BY <1>2, <1>3, <1>4, <1>5, <1>6, QuietStep

LEMMA StealLoadStep ==
  ASSUME SMPInv, ~twice, NEW c \in CPUs, StealLoad(c)
  PROVE  SMPInv'
<1>1. Types /\ Hands
  BY DEF SMPInv
<1>2. CASE num_threads[target[c]] < load[c] + 2
  <2>1. TryFrom(c, target[c] + 1, load[c]) /\ UNCHANGED <<threads, runqueues>> /\ pc[c] = "steal_load"
    BY <1>2 DEF StealLoad
  <2> QED
    BY <2>1, TryStep
<1>3. CASE ~ (num_threads[target[c]] < load[c] + 2)
  <2>1. /\ pc[c] = "steal_load" /\ pc' = [pc EXCEPT ![c] = "steal"] /\ UNCHANGED <<hand, target, then>>
        /\ UNCHANGED <<state, priority_class, effective_priority, affinity, next, queues, queue_bitmap,
                       num_threads, current>>
    BY <1>3 DEF StealLoad, threads, runqueues
  <2>2. Alone(c) /\ pc'[c] = "steal" /\ hand'[c] = None /\ ~Moving(c) /\ ~Moving(c)'
    BY <1>1, <2>1 DEF Types, Alone, Hands, Moving, Labels
  <2>3. \A d \in CPUs : Owns(d)' => Owns(d) /\ current'[d] = current[d]
    BY <2>1, <2>2 DEF Owns, Alone
  <2>4. current' \in [CPUs -> Threads \cup {None}] /\ Born'
    BY <1>1, <2>1 DEF Types, Born
  <2> QED
    BY <2>1, <2>2, <2>3, <2>4, QuietStep
<1> QED
  BY <1>2, <1>3

LEMMA BalanceStep ==
  ASSUME SMPInv, ~twice, NEW c \in CPUs, sched_balance_load(c)
  PROVE  SMPInv'
<1>1. TryFrom(c, 0, num_threads[c]) /\ UNCHANGED <<threads, runqueues>> /\ pc[c] = "idle"
  BY DEF sched_balance_load, Calling
<1> QED
  BY <1>1, TryStep

LEMMA StealStep ==
  ASSUME SMPInv, ~twice, NEW c \in CPUs, steal_thread(c)
  PROVE  SMPInv'
<1>1. Types /\ Hands /\ Owners /\ Bitmap /\ Lists
  BY DEF SMPInv
<1>2. PICK Q, at, lev, rank : Shape(Q, at, lev, rank) /\ Content(Q, at)
  BY <1>1 DEF Lists
<1>3. PICK v : v = target[c]
  OBVIOUS
<1>4. v \in CPUs /\ pc[c] = "steal"
  BY <1>1, <1>3 DEF Types, steal_thread
<1>5. CASE Candidates(v, c) = {} /\ TryFrom(c, v + 1, load[c]) /\ UNCHANGED <<threads, runqueues>>
  BY <1>4, <1>5, TryStep
<1>6. ASSUME NEW x \in Candidates(v, c), NEW t, t = Walk(v, x[1])[x[2]],
             IF x[2] = 0
             THEN /\ queues' = [queues EXCEPT ![v][x[1]] = next[t]]
                  /\ next' = [next EXCEPT ![t] = None]
             ELSE /\ next' = [next EXCEPT ![Walk(v, x[1])[x[2] - 1]] = next[t], ![t] = None]
                  /\ UNCHANGED queues,
             queue_bitmap' = [queue_bitmap EXCEPT ![v] =
                                IF queues'[v][x[1]] = None THEN @ \ {x[1]} ELSE @],
             num_threads' = [num_threads EXCEPT ![v] = @ - 1],
             pc' = [pc EXCEPT ![c] = "stolen"], hand' = [hand EXCEPT ![c] = t],
             UNCHANGED <<state, priority_class, effective_priority, affinity, current, target, then>>
      PROVE  SMPInv'
  <2>1. PICK p, n : p = x[1] /\ n = x[2]
    OBVIOUS
  <2>2. /\ p \in Priorities /\ n \in Positions /\ t # None /\ c \in Allowed(affinity[t])
    BY <1>6, <2>1 DEF Candidates, cpu_in_affinity, Named, Allowed
  <2>3. n \in 0 .. N /\ n \in Nat
    BY <2>2, SizeN DEF Positions, N
  <2>4. t \in Q /\ at[t] = v /\ lev[t] = p
    BY <1>1, <1>2, <1>4, <1>6, <2>1, <2>2, <2>3, WalkInQueue
  <2>5. t \in Threads
    BY <1>2, <2>4 DEF Shape
  <2>6. /\ Shape(Q \ {t}, at, lev, rank)'
        /\ next' \in [Threads -> Threads \cup {None}]
        /\ queues' \in [CPUs -> [Priorities -> Threads \cup {None}]]
        /\ \A d \in CPUs, l \in Priorities : d # v \/ l # p => queues'[d][l] = queues[d][l]
        /\ queues'[v][p] # None => queues[v][p] # None
    <3>1. CASE n = 0
      <4>1. queues[v][p] = t
        BY <1>6, <2>1, <3>1, WalkSteps
      <4>2. next' = [next EXCEPT ![t] = None] /\ queues' = [queues EXCEPT ![v][p] = next[t]]
        BY <1>6, <2>1, <3>1
      <4>3. Shape(Q \ {t}, at, lev, rank)'
        BY <1>1, <1>2, <1>4, <2>2, <2>5, <4>1, <4>2, PopShape
      <4> QED
        BY <1>1, <1>4, <2>2, <2>5, <4>1, <4>2, <4>3 DEF Types
    <3>2. CASE n # 0
      <4>1. PICK w : w = Walk(v, p)[n - 1]
        OBVIOUS
      <4>2. n \in 1 .. N /\ n - 1 \in 0 .. N
        BY <2>3, <3>2, SizeN
      <4>3. w # None /\ next[w] = t
        BY <1>6, <2>1, <2>2, <4>1, <4>2, WalkSteps
      <4>4. w \in Q
        BY <1>1, <1>2, <1>4, <2>2, <4>1, <4>2, <4>3, WalkInQueue
      <4>5. next' = [next EXCEPT ![w] = next[t], ![t] = None] /\ queues' = queues
        BY <1>6, <2>1, <3>2, <4>1
      <4>6. Shape(Q \ {t}, at, lev, rank)'
        BY <1>1, <1>2, <2>4, <4>3, <4>4, <4>5, UnlinkShape
      <4>7. next' \in [Threads -> Threads \cup {None}]
        BY <1>1, <2>5, <4>5 DEF Types
      <4> QED
        BY <1>1, <4>5, <4>6, <4>7 DEF Types
    <3> QED
      BY <3>1, <3>2
  <2>7. queue_bitmap' \in [CPUs -> SUBSET Priorities]
    BY <1>1, <1>6, <2>1 DEF Types
  <2>8. Bitmap'
    <3>1. /\ queue_bitmap'[v] = IF queues'[v][p] = None THEN queue_bitmap[v] \ {p} ELSE queue_bitmap[v]
          /\ \A d \in CPUs : d # v => queue_bitmap'[d] = queue_bitmap[d]
      BY <1>1, <1>4, <1>6, <2>1 DEF Types
    <3> QED
      BY <1>1, <1>4, <2>2, <2>6, <3>1 DEF Bitmap
  <2>9. Alone(c) /\ ~Moving(c) /\ pc'[c] = "stolen" /\ hand'[c] = t
    BY <1>1, <1>4, <1>6, <2>5 DEF Types, Alone, Moving, Labels
  <2>10. \A d \in CPUs : Owns(d)' => Owns(d)
    BY <1>4, <1>6, <2>9 DEF Owns, Alone
  <2>11. num_threads' = [num_threads EXCEPT ![at[t]] = @ - 1]
    BY <1>6, <2>4
  <2> QED
    BY <1>2, <1>6, <2>2, <2>4, <2>6, <2>7, <2>8, <2>9, <2>10, <2>11, TakeStep
<1> QED
  BY <1>3, <1>5, <1>6 DEF steal_thread

LEMMA TakeStolenStep ==
  ASSUME SMPInv, ~twice, NEW c \in CPUs, TakeStolen(c)
  PROVE  SMPInv'
<1>1. Types /\ Hands /\ Owners /\ Bitmap /\ Lists
  BY DEF SMPInv
<1>2. PICK Q, at, lev, rank : Shape(Q, at, lev, rank) /\ Content(Q, at)
  BY <1>1 DEF Lists
<1>3. PICK t : t = hand[c]
  OBVIOUS
<1>4. /\ pc[c] = "stolen" /\ CallEnqueue(c, c, t, "idle")
      /\ UNCHANGED <<state, priority_class, effective_priority, affinity, next, queues, queue_bitmap,
                     num_threads, current>>
  BY <1>3 DEF TakeStolen, runqueues
<1>5. Moving(c) /\ t \in Threads
  <2>1. Moving(c)
    BY <1>4 DEF Moving
  <2> QED
    BY <1>1, <1>2, <1>3, <2>1, HandFacts
<1>6. Alone(c) /\ pc'[c] = "enqueue" /\ hand'[c] = t /\ target'[c] = c /\ then'[c] = "idle"
  BY <1>1, <1>4, <1>5, CallLocals
<1>7. \A d \in CPUs : /\ (Moving(d)' <=> Moving(d)) /\ hand'[d] = hand[d]
                      /\ d # c => target'[d] = target[d] /\ pc'[d] = pc[d] /\ then'[d] = then[d]
  BY <1>3, <1>5, <1>6 DEF Moving, Alone
<1>8. Types'
  BY <1>1, <1>4, <1>6 DEF Types, Born, Alone
<1>9. Hands'
  <2>1. \A d \in CPUs : hand'[d] # None <=> Moving(d)' \/ pc'[d] = "set_check"
    <3>1. hand'[c] # None /\ Moving(c)'
      BY <1>5, <1>6, NoneFacts DEF Moving
    <3>2. ASSUME NEW d \in CPUs, d # c
          PROVE  hand'[d] # None <=> Moving(d)' \/ pc'[d] = "set_check"
      <4>1. (Moving(d)' <=> Moving(d)) /\ hand'[d] = hand[d] /\ pc'[d] = pc[d]
        BY <1>7, <3>2
      <4> QED
        BY <1>1, <4>1 DEF Hands
    <3> QED
      BY <3>1, <3>2
  <2>2. \A d \in CPUs : Moving(d)' => state'[hand'[d]] \in {"READY", "BLOCKED"}
    BY <1>1, <1>4, <1>7 DEF Hands
  <2>3. c \in Allowed(affinity[hand[c]])
    BY <1>1, <1>4, <1>5 DEF Hands
  <2>4. \A d \in CPUs : Moving(d)' =>
          (IF pc'[d] = "enqueue" THEN target'[d] ELSE d) \in Allowed(affinity'[hand'[d]])
    BY <1>1, <1>4, <1>6, <1>7, <2>3 DEF Hands
  <2>5. \A d, e \in CPUs : Moving(d)' /\ Moving(e)' /\ hand'[d] = hand'[e] => d = e
    BY <1>1, <1>7 DEF Hands
  <2> QED
    BY <2>1, <2>2, <2>4, <2>5 DEF Hands
<1>10. Owners'
  <2>1. \A d \in CPUs : Owns(d)' => Owns(d)
    BY <1>4, <1>6, <1>7 DEF Owns
  <2> QED
    BY <1>1, <1>4, <2>1, OwnersKept
<1>11. Bitmap'
  BY <1>1, <1>4 DEF Bitmap
<1>12. Shape(Q, at, lev, rank)'
  BY <1>2, <1>4 DEF Shape
<1>13. Content(Q, at)'
  <2>1. \A u \in Q : state'[u] = "READY" /\ at[u] \in Allowed(affinity'[u])
    BY <1>2, <1>4 DEF Content
  <2>2. \A d \in CPUs : Moving(d)' => hand'[d] \notin Q
    BY <1>2, <1>7 DEF Content
  <2>3. ASSUME NEW u \in Threads, state'[u] = "READY"
        PROVE  u \in Q \/ \E d \in CPUs : Moving(d)' /\ hand'[d] = u
    <3>1. state[u] = "READY"
      BY <1>4, <2>3
    <3>2. CASE u \notin Q
      <4>1. PICK d \in CPUs : Moving(d) /\ hand[d] = u
        BY <1>2, <3>1, <3>2 DEF Content
      <4> QED
        BY <1>7, <4>1
    <3> QED
      BY <3>2
  <2> QED
    BY <1>2, <1>4, <2>1, <2>2, <2>3 DEF Content, On
<1> QED
  BY <1>8, <1>9, <1>10, <1>11, <1>12, <1>13 DEF SMPInv, Lists

(* A thread that has been found ready sets twice: nothing is claimed then. *)
LEMMA SetCheckStep ==
  ASSUME SMPInv, ~twice, NEW c \in CPUs, SetCheck(c)
  PROVE  SMPInv'
<1>1. CASE twice'
  BY <1>1 DEF SMPInv
<1>2. CASE ~twice'
  <2>1. Types
    BY DEF SMPInv
  <2>2. /\ pc[c] = "set_check" /\ Goto(c, "idle")
        /\ UNCHANGED <<state, priority_class, effective_priority, affinity, next, queues, queue_bitmap,
                       num_threads, current>>
    BY <1>2 DEF SetCheck, threads, runqueues
  <2>3. Alone(c) /\ pc'[c] = "idle" /\ hand'[c] = None
    BY <2>1, <2>2, GotoLocals DEF Labels
  <2>4. ~Moving(c) /\ ~Moving(c)'
    BY <2>2, <2>3 DEF Moving
  <2>5. \A d \in CPUs : Owns(d)' => Owns(d) /\ current'[d] = current[d]
    BY <2>2, <2>3 DEF Owns, Alone
  <2>6. current' \in [CPUs -> Threads \cup {None}] /\ Born'
    BY <2>1, <2>2 DEF Types, Born
  <2> QED
    BY <2>2, <2>3, <2>4, <2>5, <2>6, QuietStep
<1> QED
  BY <1>1, <1>2

LEMMA SetPriorityStep ==
  ASSUME SMPInv, ~twice, NEW c \in CPUs, NEW t \in Threads, NEW request \in Requests,
         sched_set_priority(c, t, request)
  PROVE  SMPInv'
<1>1. Types /\ Hands
  BY DEF SMPInv
<1>2. PICK class : class = IF request[1] = 0 THEN priority_class[t] ELSE request[1]
  OBVIOUS
<1>3. /\ pc[c] = "idle" /\ state[t] # "UNBORN"
      /\ priority_class' = [priority_class EXCEPT ![t] = class]
      /\ effective_priority' = [effective_priority EXCEPT ![t] = calculate_priority(class, request[2])]
      /\ pc' = [pc EXCEPT ![c] = "set_check"] /\ hand' = [hand EXCEPT ![c] = t]
      /\ UNCHANGED <<state, affinity, next, queues, queue_bitmap, num_threads, current, target, then>>
  BY <1>2 DEF sched_set_priority, Calling, runqueues
<1>4. class \in Classes
  BY <1>1, <1>2, <1>3 DEF Types, Born, Classes
<1>5. calculate_priority(class, request[2]) \in Priorities
  BY <1>4, PriorityFacts
<1>6. Born'
  BY <1>1, <1>3, <1>4, <1>5 DEF Types, Born
<1>7. Alone(c) /\ pc'[c] = "set_check" /\ hand'[c] = t /\ t # None
  BY <1>1, <1>3, NoneFacts DEF Types, Alone, Labels
<1>8. ~Moving(c) /\ ~Moving(c)'
  BY <1>3, <1>7 DEF Moving
<1>9. \A d \in CPUs : Owns(d)' => Owns(d) /\ current'[d] = current[d]
  BY <1>3, <1>7 DEF Owns, Alone
<1>10. current' \in [CPUs -> Threads \cup {None}]
  BY <1>1, <1>3 DEF Types
<1> QED
  BY <1>3, <1>6, <1>7, <1>8, <1>9, <1>10, QuietStep

(* The current thread of a CPU that makes a call is no one else's. *)
LEMMA CallerFacts ==
  ASSUME SMPInv, ~twice, NEW c \in CPUs, pc[c] = "idle", current[c] # None
  PROVE  /\ current[c] \in Threads /\ state[current[c]] = "RUNNING" /\ c \in Allowed(affinity[current[c]])
         /\ ~Moving(c) /\ \A d \in CPUs : Moving(d) => hand[d] # current[c]
         /\ \A d \in CPUs \ {c} : Owns(d) => current[d] # current[c]
<1>1. Types /\ Hands /\ Owners
  BY DEF SMPInv
<1>2. Owns(c) /\ current[c] \in Threads /\ ~Moving(c)
  BY <1>1 DEF Owns, Types, Moving
<1>3. state[current[c]] = "RUNNING" /\ c \in Allowed(affinity[current[c]])
  BY <1>1, <1>2 DEF Owners
<1>4. \A d \in CPUs : Moving(d) => hand[d] # current[c]
  BY <1>1, <1>3 DEF Hands
<1> QED
  BY <1>1, <1>2, <1>3, <1>4 DEF Owners

(* sched_schedule and sched_yield put the current thread in a queue. *)
LEMMA RequeueStep ==
  ASSUME SMPInv, ~twice, NEW c \in CPUs, pc[c] = "idle", current[c] # None,
         NEW label \in {"pick", "clear"}, CallEnqueue(c, c, current[c], label),
         state' = [state EXCEPT ![current[c]] = "READY"],
         UNCHANGED <<priority_class, effective_priority, affinity, next, runqueues>>
  PROVE  SMPInv'
<1>1. Types
  BY DEF SMPInv
<1>2. PICK t : t = current[c]
  OBVIOUS
<1>3. /\ t \in Threads /\ state[t] = "RUNNING" /\ c \in Allowed(affinity[t])
      /\ ~Moving(c) /\ \A d \in CPUs : Moving(d) => hand[d] # t
      /\ \A d \in CPUs \ {c} : Owns(d) => current[d] # t
  BY <1>2, CallerFacts
<1>4. Alone(c) /\ pc'[c] = "enqueue" /\ hand'[c] = t /\ target'[c] = c /\ then'[c] = label
  BY <1>1, <1>2, <1>3, CallLocals
<1>5. /\ state' \in [Threads -> States] /\ state'[t] = "READY"
      /\ \A u \in Threads : u # t => state'[u] = state[u]
  BY <1>1, <1>2, <1>3 DEF Types, States
<1>6. UNCHANGED <<next, queues, queue_bitmap, num_threads, current, affinity>>
  BY DEF runqueues
<1>7. \A d \in CPUs : Owns(d)' => Owns(d) /\ current[d] # t
  BY <1>3, <1>4, <1>6 DEF Owns, Alone
<1>8. Born' /\ affinity' \in [Threads -> SUBSET Bits]
  BY <1>1, <1>3, <1>5 DEF Types, Born
<1> QED
  BY <1>3, <1>4, <1>5, <1>6, <1>7, <1>8, LaunchStep

LEMMA ScheduleStep ==
  ASSUME SMPInv, ~twice, NEW c \in CPUs, sched_schedule(c)
  PROVE  SMPInv'
<1>1. Types
  BY DEF SMPInv
<1>2. /\ pc[c] = "idle"
      /\ UNCHANGED <<priority_class, effective_priority, affinity, next, runqueues>>
  BY DEF sched_schedule, Calling
<1>3. CASE CurrentRuns(c) /\ state' = [state EXCEPT ![current[c]] = "READY"]
           /\ CallEnqueue(c, c, current[c], "pick")
  <2>1. current[c] # None
    BY <1>3, NoneFacts DEF CurrentRuns
  <2> QED
    BY <1>2, <1>3, <2>1, RequeueStep
<1>4. CASE Goto(c, "pick") /\ UNCHANGED state
  <2>1. Alone(c) /\ pc'[c] = "pick" /\ hand'[c] = None
    BY <1>1, <1>4, GotoLocals DEF Labels
  <2>2. ~Moving(c) /\ ~Moving(c)'
    BY <1>2, <2>1 DEF Moving
  <2>3. UNCHANGED <<queues, queue_bitmap, num_threads, current>>
    BY <1>2 DEF runqueues
  <2>4. \A d \in CPUs : Owns(d)' => Owns(d) /\ current'[d] = current[d]
    BY <2>1, <2>3 DEF Owns, Alone
  <2>5. current' \in [CPUs -> Threads \cup {None}] /\ Born'
    BY <1>1, <1>2, <1>4, <2>3 DEF Types, Born
  <2> QED
    BY <1>2, <1>4, <2>1, <2>2, <2>3, <2>4, <2>5, QuietStep
<1> QED
  BY <1>3, <1>4 DEF sched_schedule

LEMMA YieldStep ==
  ASSUME SMPInv, ~twice, NEW c \in CPUs, sched_yield(c)
  PROVE  SMPInv'
<1>1. /\ pc[c] = "idle" /\ current[c] # None /\ CallEnqueue(c, c, current[c], "clear")
      /\ state' = [state EXCEPT ![current[c]] = "READY"]
      /\ UNCHANGED <<priority_class, effective_priority, affinity, next, runqueues>>
  BY DEF sched_yield, Calling
<1> QED
  BY <1>1, RequeueStep

LEMMA BlockStep ==
  ASSUME SMPInv, ~twice, NEW c \in CPUs, sched_block(c)
  PROVE  SMPInv'
<1>1. Types /\ Hands /\ Owners /\ Bitmap /\ Lists
  BY DEF SMPInv
<1>2. PICK Q, at, lev, rank : Shape(Q, at, lev, rank) /\ Content(Q, at)
  BY <1>1 DEF Lists
<1>3. PICK t : t = current[c]
  OBVIOUS
<1>4. /\ pc[c] = "idle" /\ t # None /\ state' = [state EXCEPT ![t] = "BLOCKED"] /\ Goto(c, "clear")
      /\ UNCHANGED <<priority_class, effective_priority, affinity, next, queues, queue_bitmap,
                     num_threads, current>>
  BY <1>3 DEF sched_block, Calling, runqueues
<1>5. /\ t \in Threads /\ state[t] = "RUNNING"
      /\ ~Moving(c) /\ \A d \in CPUs : Moving(d) => hand[d] # t
      /\ \A d \in CPUs \ {c} : Owns(d) => current[d] # t
  BY <1>3, <1>4, CallerFacts
<1>6. Alone(c) /\ pc'[c] = "clear" /\ hand'[c] = None
  BY <1>1, <1>4, GotoLocals DEF Labels
<1>7. state'[t] = "BLOCKED" /\ \A u \in Threads : u # t => state'[u] = state[u]
  BY <1>1, <1>4, <1>5 DEF Types
<1>8. \A d \in CPUs : /\ Moving(d)' <=> Moving(d)
                      /\ d # c => hand'[d] = hand[d] /\ target'[d] = target[d] /\ pc'[d] = pc[d]
  BY <1>5, <1>6 DEF Moving, Alone
<1>9. Types'
  <2>1. state' \in [Threads -> States]
    BY <1>1, <1>4, <1>5 DEF Types, States
  <2>2. Born'
    BY <1>1, <1>4, <1>5, <1>7 DEF Types, Born
  <2> QED
    BY <1>1, <1>4, <1>6, <2>1, <2>2 DEF Types, Alone
<1>10. Hands'
  <2>1. \A d \in CPUs : Moving(d) => hand[d] \in Threads /\ d # c
    BY <1>1, <1>5 DEF Hands, Types
  <2>2. \A d \in CPUs : hand'[d] # None <=> Moving(d)' \/ pc'[d] = "set_check"
    BY <1>1, <1>5, <1>6, <1>8 DEF Hands
  <2>3. \A d \in CPUs : Moving(d)' => state'[hand'[d]] \in {"READY", "BLOCKED"}
    BY <1>1, <1>5, <1>7, <1>8, <2>1 DEF Hands
  <2>4. \A d \in CPUs : Moving(d)' =>
          (IF pc'[d] = "enqueue" THEN target'[d] ELSE d) \in Allowed(affinity'[hand'[d]])
    BY <1>1, <1>4, <1>8, <2>1 DEF Hands
  <2>5. \A d, e \in CPUs : Moving(d)' /\ Moving(e)' /\ hand'[d] = hand'[e] => d = e
    BY <1>1, <1>8, <2>1 DEF Hands
  <2> QED
    BY <2>2, <2>3, <2>4, <2>5 DEF Hands
<1>11. Owners'
  <2>1. \A d \in CPUs : Owns(d)' => Owns(d) /\ current[d] \in Threads /\ current[d] # t
    BY <1>1, <1>4, <1>5, <1>6 DEF Owns, Alone, Types
  <2> QED
    BY <1>1, <1>4, <1>7, <2>1, OwnersKept
<1>12. Bitmap'
  BY <1>1, <1>4 DEF Bitmap
<1>13. Shape(Q, at, lev, rank)'
  BY <1>2, <1>4 DEF Shape
<1>14. Content(Q, at)'
  <2>1. t \notin Q /\ Q \subseteq Threads
    BY <1>2, <1>5 DEF Content, Shape
  <2>2. \A u \in Q : state'[u] = "READY" /\ at[u] \in Allowed(affinity'[u])
    BY <1>2, <1>4, <1>7, <2>1 DEF Content
  <2>3. \A d \in CPUs : Moving(d) => hand'[d] = hand[d]
    BY <1>5, <1>8
  <2>4. \A d \in CPUs : Moving(d)' => hand'[d] \notin Q
    BY <1>2, <1>8, <2>3 DEF Content
  <2>5. ASSUME NEW u \in Threads, state'[u] = "READY"
        PROVE  u \in Q \/ \E d \in CPUs : Moving(d)' /\ hand'[d] = u
    <3>1. state[u] = "READY"
      BY <1>5, <1>7, <2>5
    <3>2. CASE u \notin Q
      <4>1. PICK d \in CPUs : Moving(d) /\ hand[d] = u
        BY <1>2, <3>1, <3>2 DEF Content
      <4> QED
        BY <1>8, <2>3, <4>1
    <3> QED
      BY <3>2
  <2> QED
    BY <1>2, <1>4, <2>2, <2>4, <2>5 DEF Content, On
<1> QED
  BY <1>9, <1>10, <1>11, <1>12, <1>13, <1>14 DEF SMPInv, Lists

LEMMA UnblockStep ==
  ASSUME SMPInv, ~twice, NEW c \in CPUs, NEW t \in Threads, sched_unblock(c, t)
  PROVE  SMPInv'
<1>1. CASE twice'
  BY <1>1 DEF SMPInv
<1>2. CASE ~twice'
  <2>1. Types /\ Hands /\ Owners /\ Lists
    BY DEF SMPInv
  <2>2. PICK best : best = find_best_cpu(affinity[t], numa_node[t])
    OBVIOUS
  <2>3. /\ pc[c] = "idle" /\ state[t] = "BLOCKED" /\ CallEnqueue(c, best, t, "idle") /\ Movers(t) = {}
        /\ UNCHANGED <<state, priority_class, effective_priority, affinity, next, queues, queue_bitmap,
                       num_threads, current>>
    BY <1>2, <2>2 DEF sched_unblock, Calling, runqueues
  <2>4. best \in Allowed(affinity[t]) /\ best \in CPUs
    <3>1. affinity[t] \in SUBSET Bits
      BY <2>1 DEF Types
    <3>2. num_threads \in [CPUs -> Nat]
      BY <2>1, LoadsAreNat DEF Lists
    <3> QED
      BY <2>2, <3>1, <3>2, BestAllowed
  <2>5. Alone(c) /\ pc'[c] = "enqueue" /\ hand'[c] = t /\ target'[c] = best /\ then'[c] = "idle"
    BY <2>1, <2>3, <2>4, CallLocals
  <2>6. ~Moving(c) /\ \A d \in CPUs : Moving(d) => hand[d] # t
    BY <2>1, <2>3, MoverFacts DEF Moving
  <2>7. \A d \in CPUs : Owns(d)' => Owns(d) /\ current[d] # t
    BY <2>1, <2>3, <2>5 DEF Owns, Alone, Owners
  <2>8. /\ state' \in [Threads -> States] /\ Born'
        /\ affinity' \in [Threads -> SUBSET Bits]
    BY <2>1, <2>3 DEF Types, Born
  <2> QED
    BY <2>3, <2>4, <2>5, <2>6, <2>7, <2>8, LaunchStep
<1> QED
  BY <1>1, <1>2

LEMMA CreateStep ==
  ASSUME SMPInv, ~twice, NEW c \in CPUs, NEW t \in Threads, NEW request \in Requests,
         NEW asked \in Masks, sched_create_thread(c, t, request, asked)
  PROVE  SMPInv'
<1>1. Types /\ Hands /\ Owners /\ Lists
  BY DEF SMPInv
<1>m. PICK mask : mask = mask_or_default(asked)
  OBVIOUS
<1>2. PICK best, garbage : best = find_best_cpu(mask, garbage) /\ CallEnqueue(c, best, t, "idle")
  BY <1>m DEF sched_create_thread
<1>3. /\ pc[c] = "idle" /\ state[t] = "UNBORN"
      /\ state' = [state EXCEPT ![t] = "READY"]
      /\ priority_class' = [priority_class EXCEPT ![t] = request[1]]
      /\ effective_priority' = [effective_priority EXCEPT ![t] = calculate_priority(request[1], request[2])]
      /\ affinity' = [affinity EXCEPT ![t] = mask]
      /\ UNCHANGED <<next, queues, queue_bitmap, num_threads, current>>
  BY <1>m DEF sched_create_thread, Calling, runqueues
<1>4. mask \in SUBSET Bits
  <2>1. Cardinality(CPUs) \in Nat /\ MaskBits \in Nat \ {0}
    BY SMPAssumption, FS_CardinalityType
  <2>2. Bit(Cardinality(CPUs)) \in 0 .. MaskBits - 1
    BY <2>1 DEF Bit
  <2> QED
    BY <1>m, <2>1, <2>2, SMPAssumption DEF mask_or_default, Bits
<1>5. best \in Allowed(mask) /\ best \in CPUs
  <2>1. num_threads \in [CPUs -> Nat]
    BY <1>1, LoadsAreNat DEF Lists
  <2> QED
    BY <1>2, <1>4, <2>1, BestAllowed
<1>6. Alone(c) /\ pc'[c] = "enqueue" /\ hand'[c] = t /\ target'[c] = best /\ then'[c] = "idle"
  BY <1>1, <1>2, <1>5, CallLocals
<1>7. ~Moving(c) /\ \A d \in CPUs : Moving(d) => hand[d] # t
  BY <1>1, <1>3 DEF Moving, Hands
<1>8. /\ state' \in [Threads -> States] /\ state'[t] = "READY"
      /\ affinity' \in [Threads -> SUBSET Bits] /\ affinity'[t] = mask
      /\ \A u \in Threads : u # t => state'[u] = state[u] /\ affinity'[u] = affinity[u]
  BY <1>1, <1>3, <1>4 DEF Types, States
<1>9. Born'
  <2>1. request[1] \in Classes /\ calculate_priority(request[1], request[2]) \in Priorities
    BY PriorityFacts DEF Classes
  <2> QED
    BY <1>1, <1>3, <1>8, <2>1 DEF Types, Born
<1>10. \A d \in CPUs : Owns(d)' => Owns(d) /\ current[d] # t
  BY <1>1, <1>3, <1>6 DEF Owns, Alone, Owners
<1> QED
  BY <1>3, <1>5, <1>6, <1>7, <1>8, <1>9, <1>10, LaunchStep

-----------------------------------------------------------------------------
LEMMA InitHolds == Init => SMPInv
<1> SUFFICES ASSUME Init PROVE SMPInv
  OBVIOUS
<1>1. Types
  BY ZeroIsCPU, SMPAssumption DEF Init, Types, Born, States, Labels
<1>2. Hands /\ Owners /\ Bitmap
  BY DEF Init, Hands, Owners, Bitmap, Moving, Owns
<1>3. Shape({}, [t \in Threads |-> 0], [t \in Threads |-> 0], [t \in Threads |-> 0])
  BY ZeroIsCPU DEF Init, Shape
<1>4. Content({}, [t \in Threads |-> 0])
  <2>1. \A c : On({}, [t \in Threads |-> 0], c) = {}
    BY DEF On
  <2>2. Cardinality({}) = 0
    BY FS_EmptySet
  <2> QED
    BY <2>1, <2>2 DEF Init, Content, Moving
<1> QED
  BY <1>1, <1>2, <1>3, <1>4 DEF SMPInv, Lists

(* A step that changes nothing. *)
LEMMA StutterStep ==
  ASSUME SMPInv, UNCHANGED vars
  PROVE  SMPInv'
<1>1. /\ UNCHANGED <<state, priority_class, effective_priority, affinity, next>>
      /\ UNCHANGED <<queues, queue_bitmap, num_threads, current>>
      /\ UNCHANGED <<pc, hand, target, then, twice>>
  BY DEF vars, threads, runqueues, locals
<1> SUFFICES ASSUME ~twice PROVE Types' /\ Hands' /\ Owners' /\ Bitmap' /\ Lists'
  BY <1>1 DEF SMPInv
<1>2. Types /\ Hands /\ Owners /\ Bitmap /\ Lists
  BY DEF SMPInv
<1>3. Types'
  BY <1>1, <1>2 DEF Types, Born
<1>4. \A c \in CPUs : (Moving(c)' <=> Moving(c)) /\ (Owns(c)' <=> Owns(c))
  BY <1>1 DEF Moving, Owns
<1>5. Hands'
  BY <1>1, <1>2, <1>4 DEF Hands
<1>6. Owners'
  BY <1>1, <1>2, <1>4 DEF Owners
<1>7. Bitmap'
  BY <1>1, <1>2 DEF Bitmap
<1>8. Lists'
  <2>1. PICK Q, at, lev, rank : Shape(Q, at, lev, rank) /\ Content(Q, at)
    BY <1>2 DEF Lists
  <2>2. Shape(Q, at, lev, rank)'
    BY <1>1, <2>1 DEF Shape
  <2>3. Content(Q, at)'
    BY <1>1, <1>4, <2>1 DEF Content, On
  <2> QED
    BY <2>2, <2>3 DEF Lists
<1> QED
  BY <1>3, <1>5, <1>6, <1>7, <1>8

(* Nothing takes the second adding back. *)
LEMMA TwiceStays ==
  ASSUME twice, Next
  PROVE  twice'
<1>1. PICK c \in CPUs : Step(c) \/ Call(c)
  BY Zenon DEF Next
<1>2. CASE enqueue_thread(c) \/ dequeue_highest_priority(c) \/ Dispatch(c) \/ DispatchIdle(c)
  BY <1>2, Zenon DEF enqueue_thread, dequeue_highest_priority, Dispatch, DispatchIdle
<1>3. CASE ClearCurrent(c) \/ StealLoad(c) \/ steal_thread(c) \/ TakeStolen(c)
  BY <1>3, Zenon DEF ClearCurrent, StealLoad, steal_thread, TakeStolen
<1>4. CASE SetCheck(c)
  BY <1>4, Zenon DEF SetCheck
<1>5. CASE sched_schedule(c) \/ sched_yield(c) \/ sched_block(c) \/ sched_balance_load(c)
  BY <1>5, Zenon DEF sched_schedule, sched_yield, sched_block, sched_balance_load
<1>6. ASSUME NEW t \in Threads, sched_unblock(c, t) PROVE twice'
  BY <1>6, Zenon DEF sched_unblock
<1>7. ASSUME NEW t \in Threads, NEW r \in Requests, sched_set_priority(c, t, r) PROVE twice'
  BY <1>7, Zenon DEF sched_set_priority
<1>8. ASSUME NEW t \in Threads, NEW r \in Requests, NEW m \in Masks, sched_create_thread(c, t, r, m)
      PROVE  twice'
  BY <1>8, Zenon DEF sched_create_thread
<1> QED
  BY <1>1, <1>2, <1>3, <1>4, <1>5, <1>6, <1>7, <1>8, Zenon DEF Step, Call

(* Until a thread is added to a queue twice, the queues are disjoint       *)
(* lists, a thread is moved by one CPU, and a CPU runs a thread of its own. *)
THEOREM Invariance == Spec => []SMPInv
<1>1. SMPInv /\ [Next]_vars => SMPInv'
  <2> SUFFICES ASSUME SMPInv, [Next]_vars PROVE SMPInv'
    OBVIOUS
  <2>1. CASE UNCHANGED vars
    BY <2>1, StutterStep
  <2>2. CASE twice /\ Next
    BY <2>2, TwiceStays DEF SMPInv
  <2>3. ASSUME ~twice, NEW c \in CPUs, Step(c) PROVE SMPInv'
    BY <2>3, EnqueueStep, DequeueStep, DispatchStep, ClearStep, StealLoadStep, StealStep,
       TakeStolenStep, SetCheckStep DEF Step
  <2>4. ASSUME ~twice, NEW c \in CPUs, Call(c) PROVE SMPInv'
    BY <2>4, ScheduleStep, YieldStep, BlockStep, BalanceStep, UnblockStep, SetPriorityStep, CreateStep
       DEF Call
  <2> QED
    BY <2>1, <2>2, <2>3, <2>4 DEF Next
<1> QED
  BY <1>1, InitHolds, PTL DEF Spec

(* A thread is in one place of one queue or in the hand of one CPU, and    *)
(* every queue ends, however the calls of the CPUs interleave, until a     *)
(* ready thread is added again.                                            *)
THEOREM ListsStayLists == Spec => []QueuedOnce
BY Invariance, InvQueuedOnce, PTL

(* No wake-up is lost: a ready thread waits in a queue or is on its way.   *)
THEOREM NoLostWakeup == Spec => []ReadyIsQueued
BY Invariance, InvReadyIsQueued, PTL

(* The bitmap and the count that other CPUs read without the lock are      *)
(* exact at every moment at which the lock is free.                        *)
THEOREM SummariesExact == Spec => []QueueSummary
BY Invariance, InvQueueSummary, PTL

(* Two CPUs never run one thread, and a CPU runs only threads whose mask   *)
(* has it, whatever is stolen, woken and changed meanwhile.                *)
THEOREM ExclusiveRunning == Spec => []RunsExclusively
BY Invariance, InvRunsExclusively, PTL
=============================================================================
