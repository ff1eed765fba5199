--------------------------- MODULE ProcessProofs ---------------------------
(***************************************************************************)
(* Proofs about Process for every table size, time slice, set of commands  *)
(* and kind of exit.                                                       *)
(***************************************************************************)
EXTENDS Process, FiniteSetTheorems, WellFoundedInduction, TLAPS

(* What holds between the steps of process_create: the slot it fills is a  *)
(* ready process that has no children yet, and in the shell a creation is  *)
(* part of a command.                                                      *)
CreationInv ==
  Creating =>
    /\ proc \in Slots /\ proc # 0 /\ proc # current_process
    /\ state[proc] = "READY"
    /\ \A s \in Used : parent_pid[s] # pid[proc]
    /\ current_process = 0 => in_command /\ todo > 0

IdleStays == state[0] # "UNUSED"

IInv ==
  /\ TypeOK /\ RunningIsCurrent /\ UniquePids /\ IdleStays
  /\ NoDanglingParent /\ ChildrenCounted /\ CreationInv

-----------------------------------------------------------------------------
LEMMA LeastNat ==
  ASSUME NEW T \in SUBSET Nat, T # {}
  PROVE  \E i \in T : \A j \in T : i <= j
<1> DEFINE R == {ss \in Nat \X Nat : ss[1] < ss[2]}
<1>1. IsWellFoundedOn(R, Nat)
  BY NatLessThanWellFounded DEF OpToRel
<1>2. \A a, b \in Nat : a < b => <<a, b>> \in R
  OBVIOUS
<1> HIDE DEF R
<1>3. PICK i \in T : \A j \in T : ~ (<<j, i>> \in R)
  BY <1>1, WFMin
<1>4. \A j \in T : ~ (j < i)
  BY <1>2, <1>3, Zenon
<1>5. \A j \in T : i <= j
  BY <1>4
<1> QED
  BY <1>5

(* The scheduler picks a ready process, or slot 0. *)
LEMMA FindNext ==
  ASSUME NEW st, NEW pd \in [Slots -> Nat], current_process \in Slots
  PROVE  /\ find_next_process(st, pd) \in Slots
         /\ find_next_process(st, pd) # 0 =>
              Ready(st, pd, find_next_process(st, pd))
<1> DEFINE idx(i) == (pd[current_process] + 1 + i) % MaxProcesses
           hits == {i \in 0 .. 2 * MaxProcesses - 1 : Ready(st, pd, idx(i))}
           first == CHOOSE i \in hits : \A j \in hits : i <= j
<1>1. \A i \in Nat : idx(i) \in Slots
  BY TableAssumption DEF Slots
<1>2. 0 \in Slots
  BY TableAssumption DEF Slots
<1>3. find_next_process(st, pd) = IF hits = {} THEN 0 ELSE idx(first)
  BY DEF find_next_process
<1>4. hits \in SUBSET Nat
  BY TableAssumption
<1> HIDE DEF idx
<1>5. ASSUME hits # {} PROVE first \in hits
  <2> HIDE DEF hits
  <2>1. \E i \in hits : \A j \in hits : i <= j
    BY <1>4, <1>5, LeastNat
  <2> QED
    BY <2>1
<1>6. hits # {} => first \in Nat /\ Ready(st, pd, idx(first))
  <2> HIDE DEF first
  <2> QED
    BY <1>4, <1>5
<1> HIDE DEF hits, first
<1> QED
  BY <1>1, <1>2, <1>3, <1>6

(* With unique identifiers process_get finds the process that has one.     *)
LEMMA GetSlot ==
  ASSUME TypeOK, UniquePids, NEW s \in Used
  PROVE  process_get(pid[s]) /\ process_get_slot(pid[s]) = s
<1>1. \A t \in Used : t \in Slots /\ (pid[t] = pid[s] => t = s)
  BY DEF UniquePids, Used
<1>2. s <= s
  BY <1>1 DEF Slots
<1> QED
  BY <1>1, <1>2 DEF process_get, process_get_slot

LEMMA UsedFinite ==
  \A T : T \subseteq Slots => IsFiniteSet(T) /\ Cardinality(T) \in Nat
<1>1. IsFiniteSet(Slots)
  BY FS_Interval, TableAssumption DEF Slots
<1> QED
  BY <1>1, FS_Subset, FS_CardinalityType

-----------------------------------------------------------------------------
(* What scheduler_schedule does to the table, for the states and           *)
(* identifiers a tick or an exit gives it.                                 *)
LEMMA Schedules ==
  ASSUME NEW st \in [Slots -> {"UNUSED", "READY", "RUNNING"}],
         NEW pd \in [Slots -> 0 .. MaxPid],
         NEW sl \in [Slots -> 0 .. TimeSlice],
         current_process \in Slots, halted \in {"no", "panic", "exit"},
         \A s \in Slots : st[s] = "RUNNING" => s = current_process,
         st[current_process] # "READY", st[0] # "UNUSED",
         scheduler_schedule(st, pd, sl)
  PROVE  /\ state' \in [Slots -> {"UNUSED", "READY", "RUNNING"}]
         /\ time_slice' \in [Slots -> 0 .. TimeSlice]
         /\ current_process' \in Slots
         /\ \A s \in Slots : state'[s] = "RUNNING" <=> s = current_process'
         /\ \A s \in Slots : state'[s] # "UNUSED" <=> st[s] # "UNUSED"
         /\ halted' \in {"no", "panic", "exit"}
         /\ \/ /\ current_process' = current_process
               /\ UNCHANGED <<proc, in_command, todo, created>>
               /\ state' = st
            \/ proc' = None /\ in_command' = FALSE /\ todo' = 0 /\ created' = TRUE
<1> DEFINE next == find_next_process(st, pd)
<1>1. pd \in [Slots -> Nat]
  BY TableAssumption
<1>2. next \in Slots /\ (next # 0 => st[next] = "READY")
  BY <1>1, FindNext DEF Ready
<1>3. TimeSlice \in 0 .. TimeSlice
  BY TableAssumption
<1>4. \A s \in Slots : switch_to_process(pd, s) \subseteq {"no", "panic", "exit"}
  BY DEF switch_to_process
<1>5. CASE next = current_process
  <2>1. /\ state' = st /\ time_slice' = sl
        /\ UNCHANGED <<current_process, proc, in_command, todo, created, halted>>
    BY <1>5 DEF scheduler_schedule
  <2>2. current_process = 0 /\ st[0] = "RUNNING"
    BY <1>2, <1>5
  <2> QED
    BY <2>1, <2>2
<1>6. CASE next # current_process
  <2>1. /\ state' = [s \in Slots |->
                       IF s = next THEN "RUNNING"
                       ELSE IF s = current_process /\ st[s] = "RUNNING" THEN "READY"
                       ELSE st[s]]
        /\ time_slice' = [sl EXCEPT ![next] = TimeSlice]
        /\ current_process' = next
        /\ proc' = None /\ in_command' = FALSE /\ todo' = 0 /\ created' = TRUE
        /\ halted' \in switch_to_process(pd, next)
    BY <1>6 DEF scheduler_schedule
  <2> HIDE DEF next
  <2>2. state' \in [Slots -> {"UNUSED", "READY", "RUNNING"}]
    BY <2>1
  <2>3. time_slice' \in [Slots -> 0 .. TimeSlice]
    BY <2>1, <1>3
  <2>4. \A s \in Slots : state'[s] = "RUNNING" <=> s = current_process'
    BY <2>1
  <2>5. \A s \in Slots : state'[s] # "UNUSED" <=> st[s] # "UNUSED"
    BY <2>1, <1>2
  <2>6. halted' \in {"no", "panic", "exit"}
    BY <2>1, <1>2, <1>4
  <2> QED
    BY <1>2, <2>1, <2>2, <2>3, <2>4, <2>5, <2>6
<1> QED
  BY <1>5, <1>6

-----------------------------------------------------------------------------
(* Facts of a state that satisfies the invariant. *)
LEMMA StateFacts ==
  ASSUME IInv
  PROVE  /\ Used \subseteq Slots /\ 0 \in Used /\ current_process \in Used
         /\ \A s \in Used : parent_pid[s] < next_pid
         /\ \A s \in Used \ {0} : pid[s] # 0
<1>1. Used \subseteq Slots /\ 0 \in Slots
  BY TableAssumption DEF Used, Slots
<1>2. 0 \in Used /\ current_process \in Used
  BY <1>1 DEF IInv, IdleStays, RunningIsCurrent, TypeOK, Used
<1>3. \A u \in Used : pid[u] < next_pid
  BY <1>1 DEF IInv, UniquePids, TypeOK
<1>4. \A s \in Used : parent_pid[s] < next_pid
  BY <1>3 DEF IInv, NoDanglingParent, process_get
<1>5. \A s \in Used \ {0} : pid[s] # 0
  BY DEF IInv, UniquePids
<1> QED
  BY <1>1, <1>2, <1>4, <1>5

LEMMA CreateBeginKeeps ==
  ASSUME IInv, CreateBegin
  PROVE  IInv'
<1>1. PICK n \in process_alloc :
        /\ pid' = [pid EXCEPT ![n] = next_pid]
        /\ state' = [state EXCEPT ![n] = "READY"]
        /\ parent_pid' = [parent_pid EXCEPT ![n] = pid[current_process]]
        /\ time_slice' = [time_slice EXCEPT ![n] = TimeSlice]
        /\ child_count' = IF pid[current_process] # 0 /\ process_get(pid[current_process])
                          THEN [[child_count EXCEPT ![n] = 0] EXCEPT
                                  ![process_get_slot(pid[current_process])] = @ + 1]
                          ELSE [child_count EXCEPT ![n] = 0]
        /\ proc' = n
  BY Zenon DEF CreateBegin
<1>2. /\ halted = "no" /\ ~Creating
      /\ current_process = 0 => in_command /\ todo > 0
      /\ next_pid <= MaxPid /\ next_pid' = next_pid + 1 /\ stage' = "dir"
      /\ UNCHANGED <<context, current_process, scheduling_enabled, shell, halted>>
  BY DEF CreateBegin, CallsCreate
<1> DEFINE c == current_process
<1>3. /\ n \in Slots /\ n \notin Used
      /\ c \in Used /\ c \in Slots /\ 0 \in Used /\ n # c /\ n # 0
      /\ Used \subseteq Slots
      /\ TypeOK
  BY StateFacts DEF process_alloc, Used, IInv
<1>4. next_pid \in 1 .. MaxPid /\ next_pid \in Int
  BY <1>2, <1>3 DEF TypeOK
<1>5. process_get(pid[c]) /\ process_get_slot(pid[c]) = c
  BY <1>3, GetSlot DEF IInv
<1>6. Used' = Used \cup {n}
  BY <1>1, <1>3 DEF Used, TypeOK
<1>7. /\ \A t \in Slots : t # n => /\ pid'[t] = pid[t] /\ parent_pid'[t] = parent_pid[t]
                                   /\ state'[t] = state[t]
      /\ pid'[n] = next_pid /\ parent_pid'[n] = pid[c] /\ state'[n] = "READY"
  BY <1>1, <1>3 DEF TypeOK
<1>8. /\ child_count' \in [Slots -> Nat]
      /\ child_count'[n] = 0
      /\ \A t \in Slots : t # n => child_count'[t] = IF pid[c] # 0 /\ t = c
                                                     THEN child_count[t] + 1
                                                     ELSE child_count[t]
  BY <1>1, <1>3, <1>5 DEF TypeOK
<1>9. TypeOK'
  <2>1. /\ pid' \in [Slots -> 0 .. MaxPid] /\ parent_pid' \in [Slots -> 0 .. MaxPid]
        /\ state' \in [Slots -> {"UNUSED", "READY", "RUNNING"}]
        /\ time_slice' \in [Slots -> 0 .. TimeSlice]
        /\ next_pid' \in 1 .. MaxPid + 1
    BY <1>1, <1>2, <1>3, <1>4, TableAssumption DEF TypeOK
  <2> QED
    BY <1>1, <1>2, <1>3, <1>8, <2>1 DEF TypeOK, shell, Stages
<1>10. RunningIsCurrent'
  BY <1>2, <1>3, <1>7 DEF RunningIsCurrent, IInv
<1>11. UniquePids' /\ IdleStays'
  <2>1. \A s \in Used : pid[s] < next_pid /\ pid[s] # next_pid
    BY <1>3, <1>4 DEF IInv, UniquePids, TypeOK
  <2>2. \A s, t \in Used' : pid'[s] = pid'[t] => s = t
    BY <1>3, <1>6, <1>7, <2>1 DEF IInv, UniquePids
  <2>3. \A s \in Used' \ {0} : pid'[s] \in 1 .. next_pid' - 1
    BY <1>2, <1>3, <1>4, <1>6, <1>7 DEF IInv, UniquePids
  <2> QED
    BY <1>3, <1>7, <2>2, <2>3 DEF IInv, UniquePids, IdleStays
<1>12. NoDanglingParent'
  <2>1. \A t \in Used : process_get(parent_pid[t])
    BY DEF IInv, NoDanglingParent
  <2>2. \A t \in Used : \E u \in Used' : pid'[u] = parent_pid'[t]
    BY <1>3, <1>6, <1>7, <2>1 DEF process_get
  <2>3. \E u \in Used' : pid'[u] = parent_pid'[n]
    BY <1>3, <1>6, <1>7
  <2> QED
    BY <1>6, <2>2, <2>3 DEF NoDanglingParent, process_get
<1>13. \A u \in Used : parent_pid[u] # next_pid
  BY <1>3, <1>4, StateFacts DEF TypeOK
<1>14. pid[c] # next_pid
  BY <1>3, <1>4 DEF IInv, UniquePids
<1>15. ChildrenCounted'
  <2> SUFFICES ASSUME NEW t \in Used', pid'[t] # 0
               PROVE  child_count'[t] >= Cardinality({u \in Used' : parent_pid'[u] = pid'[t]})
    BY DEF ChildrenCounted, Children
  <2> DEFINE K == {u \in Used' : parent_pid'[u] = pid'[t]}
  <2>1. CASE t = n
    <3>1. K = {}
      BY <1>3, <1>6, <1>7, <1>13, <1>14, <2>1
    <3>2. Cardinality(K) = 0
      BY <3>1, FS_EmptySet
    <3> HIDE DEF K
    <3> QED
      BY <1>8, <2>1, <3>2 DEF K
  <2>2. CASE t \in Used
    <3>1. Children(t) \subseteq Slots /\ n \notin Children(t)
      BY <1>3 DEF Children
    <3>2. IsFiniteSet(Children(t)) /\ Cardinality(Children(t)) \in Nat
      BY <3>1, UsedFinite
    <3>3. child_count[t] >= Cardinality(Children(t)) /\ child_count[t] \in Nat
      BY <1>3, <1>7, <2>2 DEF IInv, ChildrenCounted, TypeOK
    <3>4. CASE t = c
      <4>1. K = Children(t) \cup {n}
        BY <1>3, <1>6, <1>7, <3>4 DEF Children
      <4>2. Cardinality(K) = Cardinality(Children(t)) + 1
        BY <3>1, <3>2, <4>1, FS_AddElement
      <4>3. child_count'[t] = child_count[t] + 1
        BY <1>3, <1>7, <1>8, <3>4
      <4> HIDE DEF K
      <4> QED
        BY <3>2, <3>3, <4>2, <4>3 DEF K
    <3>5. CASE t # c
      <4>1. pid[c] # pid[t]
        BY <1>3, <2>2, <3>5 DEF IInv, UniquePids
      <4>2. K = Children(t)
        BY <1>3, <1>6, <1>7, <2>2, <4>1 DEF Children
      <4>3. child_count'[t] = child_count[t]
        BY <1>3, <1>8, <2>2, <3>5
      <4> QED
        BY <3>3, <4>2, <4>3
    <3> QED
      BY <3>4, <3>5
  <2> QED
    BY <1>6, <2>1, <2>2
<1>16. CreationInv'
  <2>1. proc' = n /\ current_process' = c /\ in_command' = in_command /\ todo' = todo
    BY <1>1, <1>2 DEF shell
  <2>2. \A s \in Used' : parent_pid'[s] # pid'[n]
    BY <1>3, <1>6, <1>7, <1>13, <1>14
  <2> QED
    BY <1>2, <1>3, <1>7, <2>1, <2>2 DEF CreationInv
<1> QED
  BY <1>9, <1>10, <1>11, <1>12, <1>15, <1>16 DEF IInv

(* A failed creation gives back a slot that nobody has as parent. *)
LEMMA CreateFailKeeps ==
  ASSUME IInv, CreateFail
  PROVE  IInv'
<1>1. /\ state' = [state EXCEPT ![proc] = "UNUSED"]
      /\ proc' = None /\ Creating
      /\ UNCHANGED <<pid, parent_pid, child_count, time_slice, context, current_process,
                     next_pid, scheduling_enabled, stage, in_command, commands, halted>>
  BY DEF CreateFail, Returns
<1>2. /\ TypeOK /\ proc \in Slots /\ proc # 0 /\ proc # current_process
      /\ \A s \in Used : parent_pid[s] # pid[proc]
      /\ current_process = 0 => todo > 0
  BY <1>1 DEF IInv, CreationInv
<1>3. Used' = Used \ {proc}
  BY <1>1, <1>2 DEF Used, TypeOK
<1>4. todo' \in Nat /\ created' \in BOOLEAN
  BY <1>2 DEF CreateFail, Returns, TypeOK
<1>5. TypeOK'
  BY <1>1, <1>2, <1>4 DEF TypeOK
<1>6. RunningIsCurrent' /\ IdleStays' /\ CreationInv'
  BY <1>1, <1>2 DEF IInv, RunningIsCurrent, IdleStays, CreationInv, Creating, TypeOK
<1>7. UniquePids'
  BY <1>1, <1>3 DEF IInv, UniquePids
<1>8. NoDanglingParent'
  <2>1. \A s \in Used' : \E u \in Used : pid[u] = parent_pid[s]
    BY <1>3 DEF IInv, NoDanglingParent, process_get
  <2>2. \A s \in Used' : \E u \in Used' : pid[u] = parent_pid[s]
    BY <1>2, <1>3, <2>1
  <2> QED
    BY <1>1, <2>2 DEF NoDanglingParent, process_get
<1>9. ChildrenCounted'
  <2> SUFFICES ASSUME NEW t \in Used', pid[t] # 0
               PROVE  child_count[t] >= Cardinality({u \in Used' : parent_pid[u] = pid[t]})
    BY <1>1 DEF ChildrenCounted, Children
  <2> DEFINE K == {u \in Used' : parent_pid[u] = pid[t]}
  <2>1. Children(t) \subseteq Slots /\ K \subseteq Children(t)
    BY <1>3 DEF Children, Used
  <2>2. IsFiniteSet(Children(t)) /\ Cardinality(Children(t)) \in Nat /\ Cardinality(K) \in Nat
    BY <2>1, UsedFinite
  <2>3. Cardinality(K) <= Cardinality(Children(t))
    BY <2>1, <2>2, FS_Subset
  <2>4. t \in Used /\ t \in Slots
    BY <1>3 DEF Used
  <2>5. child_count[t] >= Cardinality(Children(t)) /\ child_count[t] \in Nat
    BY <1>2, <2>4 DEF IInv, ChildrenCounted, TypeOK
  <2> HIDE DEF K
  <2> QED
    BY <2>2, <2>3, <2>5 DEF K
<1> QED
  BY <1>5, <1>6, <1>7, <1>8, <1>9 DEF IInv

(* The steps that leave the processes, their identifiers, parents and      *)
(* counts alone.                                                           *)
LEMMA TableUnchanged ==
  ASSUME IInv, TypeOK', UNCHANGED <<state, pid, parent_pid, child_count,
                                    current_process, next_pid>>,
         CreationInv'
  PROVE  IInv'
<1>1. Used' = Used
  BY DEF Used
<1>2. UniquePids' /\ RunningIsCurrent' /\ IdleStays'
  BY <1>1 DEF IInv, UniquePids, RunningIsCurrent, IdleStays
<1>3. NoDanglingParent'
  BY <1>1 DEF IInv, NoDanglingParent, process_get
<1>4. ChildrenCounted'
  BY <1>1 DEF IInv, ChildrenCounted, Children
<1> QED
  BY <1>2, <1>3, <1>4 DEF IInv

(* A tick moves the CPU to another process, or only counts. *)
LEMMA TickKeeps ==
  ASSUME IInv, scheduler_tick
  PROVE  IInv'
<1> DEFINE left == IF time_slice[current_process] > 0
                   THEN time_slice[current_process] - 1 ELSE 0
           slices == [time_slice EXCEPT ![current_process] = left]
<1>1. /\ UNCHANGED <<pid, parent_pid, child_count, context, next_pid, scheduling_enabled,
                     stage, commands>>
      /\ IF left = 0
         THEN scheduler_schedule(state, pid, slices)
         ELSE /\ time_slice' = slices
              /\ UNCHANGED <<state, current_process, proc, in_command, todo, created, halted>>
  BY DEF scheduler_tick
<1>2. TypeOK /\ CreationInv
  BY DEF IInv
<1>3. slices \in [Slots -> 0 .. TimeSlice]
  <2>1. left \in 0 .. TimeSlice
    BY <1>2, TableAssumption DEF TypeOK
  <2> HIDE DEF left
  <2> QED
    BY <1>2, <2>1 DEF TypeOK
<1>4. CASE left # 0
  <2>1. /\ time_slice' = slices
        /\ UNCHANGED <<state, current_process, proc, in_command, todo, created, halted>>
    BY <1>1, <1>4
  <2> HIDE DEF slices, left
  <2>2. TypeOK'
    BY <1>1, <1>2, <1>3, <2>1 DEF TypeOK
  <2>3. CreationInv'
    BY <1>1, <1>2, <2>1 DEF CreationInv, Creating, Used
  <2> QED
    BY <1>1, <2>1, <2>2, <2>3, TableUnchanged
<1>5. CASE left = 0
  <2>1. scheduler_schedule(state, pid, slices)
    BY <1>1, <1>5
  <2>2. /\ state \in [Slots -> {"UNUSED", "READY", "RUNNING"}]
        /\ pid \in [Slots -> 0 .. MaxPid]
        /\ current_process \in Slots /\ halted \in {"no", "panic", "exit"}
        /\ \A s \in Slots : state[s] = "RUNNING" => s = current_process
        /\ state[current_process] # "READY" /\ state[0] # "UNUSED"
    BY DEF IInv, TypeOK, RunningIsCurrent, IdleStays
  <2> HIDE DEF slices, left
  <2>3. /\ state' \in [Slots -> {"UNUSED", "READY", "RUNNING"}]
        /\ time_slice' \in [Slots -> 0 .. TimeSlice]
        /\ current_process' \in Slots
        /\ \A s \in Slots : state'[s] = "RUNNING" <=> s = current_process'
        /\ \A s \in Slots : state'[s] # "UNUSED" <=> state[s] # "UNUSED"
        /\ halted' \in {"no", "panic", "exit"}
        /\ \/ /\ current_process' = current_process
              /\ UNCHANGED <<proc, in_command, todo, created>>
              /\ state' = state
           \/ proc' = None /\ in_command' = FALSE /\ todo' = 0 /\ created' = TRUE
    BY <1>3, <2>1, <2>2, Schedules
  <2>4. Used' = Used
    BY <2>3 DEF Used
  <2>a. proc' \in Slots \cup {None} /\ todo' \in Nat
    BY <1>2, <2>3 DEF TypeOK
  <2>b. in_command' \in BOOLEAN /\ created' \in BOOLEAN
    BY <1>2, <2>3, Zenon DEF TypeOK
  <2>5. TypeOK'
    BY <1>1, <1>2, <2>3, <2>a, <2>b DEF TypeOK
  <2>6. RunningIsCurrent'
    BY <2>3 DEF RunningIsCurrent
  <2>7. UniquePids' /\ IdleStays'
    BY <1>1, <2>3, <2>4, TableAssumption DEF IInv, UniquePids, IdleStays, Slots
  <2>8. NoDanglingParent'
    BY <1>1, <2>4 DEF IInv, NoDanglingParent, process_get
  <2>9. ChildrenCounted'
    BY <1>1, <2>4 DEF IInv, ChildrenCounted, Children
  <2>10. CreationInv'
    BY <1>1, <1>2, <2>3, <2>4 DEF CreationInv, Creating
  <2> QED
    BY <2>5, <2>6, <2>7, <2>8, <2>9, <2>10 DEF IInv
<1> QED
  BY <1>4, <1>5

(* An exit leaves no process with the exiting one as parent: either its    *)
(* children were given parent 0, or child_count says there are none and    *)
(* ChildrenCounted says that is so.                                        *)
LEMMA ExitKeeps ==
  ASSUME IInv, SyscallExit
  PROVE  IInv'
<1> DEFINE c == current_process
           p == pid[c]
           parent == parent_pid[c]
           slot == process_get_slot(parent)
           counted == /\ parent # 0 /\ process_get(parent)
                      /\ child_count[slot] > 0
           st == [state EXCEPT ![c] = "UNUSED"]
           pd == [pid EXCEPT ![c] = 0]
<1>1. /\ child_count' = (IF counted THEN [child_count EXCEPT ![slot] = @ - 1] ELSE child_count)
      /\ parent_pid' = Reparented(p)
      /\ pid' = pd
      /\ scheduler_schedule(st, pd, time_slice)
      /\ c # 0 /\ ~Creating
      /\ UNCHANGED <<context, next_pid, scheduling_enabled, stage, commands>>
  BY DEF SyscallExit, ProcessRuns
<1>2. /\ TypeOK /\ c \in Slots /\ c \in Used /\ 0 \in Used /\ 0 \in Slots
      /\ Used \subseteq Slots /\ p # 0 /\ process_get(parent)
  BY <1>1, StateFacts DEF IInv, NoDanglingParent
<1>3. /\ st \in [Slots -> {"UNUSED", "READY", "RUNNING"}]
      /\ pd \in [Slots -> 0 .. MaxPid]
      /\ \A s \in Slots : st[s] = "RUNNING" => s = c
      /\ st[c] # "READY" /\ st[0] # "UNUSED"
  BY <1>1, <1>2, TableAssumption DEF IInv, TypeOK, RunningIsCurrent, IdleStays
<1>4. /\ \A s \in Slots : s # c => pd[s] = pid[s] /\ st[s] = state[s]
      /\ st[c] = "UNUSED"
  BY <1>2 DEF TypeOK
<1>5. /\ time_slice \in [Slots -> 0 .. TimeSlice] /\ halted \in {"no", "panic", "exit"}
  BY <1>2 DEF TypeOK
<1>6. scheduler_schedule(st, pd, time_slice)
  BY <1>1
<1>7. pid' = pd
  BY <1>1
<1> HIDE DEF st, pd
<1>8. /\ state' \in [Slots -> {"UNUSED", "READY", "RUNNING"}]
      /\ time_slice' \in [Slots -> 0 .. TimeSlice]
      /\ current_process' \in Slots
      /\ \A s \in Slots : state'[s] = "RUNNING" <=> s = current_process'
      /\ \A s \in Slots : state'[s] # "UNUSED" <=> st[s] # "UNUSED"
      /\ halted' \in {"no", "panic", "exit"}
      /\ \/ /\ current_process' = current_process
            /\ UNCHANGED <<proc, in_command, todo, created>>
            /\ state' = st
         \/ proc' = None /\ in_command' = FALSE /\ todo' = 0 /\ created' = TRUE
  BY <1>2, <1>3, <1>5, <1>6, Schedules
<1>9. Used' = Used \ {c}
  BY <1>2, <1>4, <1>8 DEF Used
<1>10. \A t \in Used' : t \in Used /\ t \in Slots /\ t # c /\ pid'[t] = pid[t]
  BY <1>2, <1>4, <1>7, <1>9
<1>11. /\ parent_pid' \in [Slots -> 0 .. MaxPid]
       /\ \A t \in Used' : parent_pid'[t] = IF parent_pid[t] = p THEN 0 ELSE parent_pid[t]
  <2>1. CASE child_count[c] > 0
    <3>1. parent_pid' = [s \in Slots |-> IF state[s] # "UNUSED" /\ parent_pid[s] = p
                                         THEN 0 ELSE parent_pid[s]]
      BY <1>1, <2>1 DEF Reparented
    <3> QED
      BY <1>2, <1>10, <3>1, TableAssumption DEF TypeOK, Used
  <2>2. CASE ~(child_count[c] > 0)
    <3>1. parent_pid' = parent_pid
      BY <1>1, <2>2 DEF Reparented
    <3>2. Children(c) \subseteq Slots
      BY <1>2 DEF Children
    <3>3. IsFiniteSet(Children(c)) /\ Cardinality(Children(c)) \in Nat
      BY <3>2, UsedFinite
    <3>4. child_count[c] >= Cardinality(Children(c)) /\ child_count[c] \in Nat
      BY <1>2 DEF IInv, ChildrenCounted, TypeOK
    <3>5. Cardinality(Children(c)) = 0
      BY <2>2, <3>3, <3>4
    <3>6. Children(c) = {}
      BY <3>3, <3>5, FS_EmptySet
    <3>7. \A t \in Used : parent_pid[t] # p
      BY <3>6 DEF Children
    <3> QED
      BY <1>2, <1>10, <3>1, <3>7 DEF TypeOK
  <2> QED
    BY <2>1, <2>2
<1>12. /\ child_count' \in [Slots -> Nat]
       /\ counted => slot \in Used /\ pid[slot] = parent
       /\ \A t \in Used : child_count'[t] = IF counted /\ t = slot THEN child_count[t] - 1
                                                                   ELSE child_count[t]
  <2>1. PICK u \in Used : pid[u] = parent
    BY <1>2 DEF process_get
  <2>2. slot = u
    BY <1>2, <2>1, GetSlot DEF IInv
  <2>3. slot \in Slots /\ slot \in Used /\ pid[slot] = parent
    BY <1>2, <2>1, <2>2
  <2> HIDE DEF slot
  <2>4. CASE counted
    <3>1. child_count' = [child_count EXCEPT ![slot] = @ - 1] /\ child_count[slot] > 0
      BY <1>1, <2>4
    <3>2. child_count[slot] - 1 \in Nat
      BY <1>2, <2>3, <3>1 DEF TypeOK
    <3> QED
      BY <1>2, <2>3, <2>4, <3>1, <3>2 DEF TypeOK
  <2>5. CASE ~counted
    BY <1>1, <1>2, <2>5 DEF TypeOK
  <2> QED
    BY <2>4, <2>5
<1> HIDE DEF slot, counted
<1>13. TypeOK'
  <2>1. proc' \in Slots \cup {None} /\ todo' \in Nat
    BY <1>2, <1>8 DEF TypeOK
  <2>3. in_command' \in BOOLEAN /\ created' \in BOOLEAN
    BY <1>2, <1>8, Zenon DEF TypeOK
  <2>2. pid' \in [Slots -> 0 .. MaxPid]
    BY <1>3, <1>7
  <2> QED
    BY <1>1, <1>2, <1>8, <1>11, <1>12, <2>1, <2>2, <2>3 DEF TypeOK
<1>14. RunningIsCurrent' /\ IdleStays' /\ CreationInv'
  <2>1. ~Creating'
    BY <1>1, <1>8 DEF Creating
  <2>2. state'[0] # "UNUSED"
    BY <1>2, <1>3, <1>8
  <2> QED
    BY <1>8, <2>1, <2>2 DEF RunningIsCurrent, IdleStays, CreationInv
<1>15. UniquePids'
  BY <1>1, <1>2, <1>9, <1>10 DEF IInv, UniquePids
<1>16. NoDanglingParent'
  <2> SUFFICES ASSUME NEW t \in Used'
               PROVE  \E u \in Used' : pid'[u] = parent_pid'[t]
    BY DEF NoDanglingParent, process_get
  <2>1. PICK u \in Used : pid[u] = parent_pid[t]
    BY <1>10 DEF IInv, NoDanglingParent, process_get
  <2>2. pid[0] = 0 /\ 0 \in Used'
    BY <1>1, <1>2, <1>9 DEF IInv, UniquePids
  <2>3. CASE parent_pid[t] = p
    BY <1>10, <1>11, <2>2, <2>3
  <2>4. CASE parent_pid[t] # p
    BY <1>9, <1>10, <1>11, <2>1, <2>4
  <2> QED
    BY <2>3, <2>4
<1>17. ChildrenCounted'
  <2> SUFFICES ASSUME NEW t \in Used', pid'[t] # 0
               PROVE  child_count'[t] >= Cardinality({u \in Used' : parent_pid'[u] = pid'[t]})
    BY DEF ChildrenCounted, Children
  <2> DEFINE K == {u \in Used' : parent_pid'[u] = pid'[t]}
             C == Children(t)
  <2>1. t \in Used /\ t \in Slots /\ t # c /\ pid'[t] = pid[t] /\ pid[t] # 0
    BY <1>10
  <2>2. K \subseteq C \ {c} /\ C \subseteq Slots /\ (c \in C <=> parent = pid[t])
    BY <1>2, <1>9, <1>11, <2>1 DEF Children
  <2>3. child_count[t] >= Cardinality(C) /\ child_count[t] \in Nat
    BY <1>2, <2>1 DEF IInv, ChildrenCounted, TypeOK
  <2> HIDE DEF K, C
  <2>4. /\ IsFiniteSet(C) /\ Cardinality(C) \in Nat
        /\ IsFiniteSet(C \ {c}) /\ Cardinality(C \ {c}) \in Nat
        /\ IsFiniteSet(K) /\ Cardinality(K) \in Nat
    BY <2>2, UsedFinite
  <2>5. Cardinality(K) <= Cardinality(C \ {c})
    BY <2>2, <2>4, FS_Subset
  <2>6. Cardinality(C \ {c}) = IF c \in C THEN Cardinality(C) - 1 ELSE Cardinality(C)
    BY <2>4, FS_RemoveElement
  <2>7. CASE c \in C
    <3>1. child_count'[t] >= child_count[t] - 1
      BY <1>12, <2>1, <2>3
    <3> QED
      BY <2>3, <2>4, <2>5, <2>6, <2>7, <3>1, <1>12, <2>1 DEF K
  <2>8. CASE c \notin C
    <3>1. parent # pid[t]
      BY <2>2, <2>8
    <3>2. child_count'[t] = child_count[t]
      BY <1>12, <2>1, <3>1
    <3> QED
      BY <2>3, <2>4, <2>5, <2>6, <2>8, <3>2 DEF K
  <2> QED
    BY <2>7, <2>8
<1> QED
  BY <1>13, <1>14, <1>15, <1>16, <1>17 DEF IInv

-----------------------------------------------------------------------------
LEMMA InvInductive ==
  ASSUME IInv, [Next]_vars
  PROVE  IInv'
<1> USE DEF pcbs, creation, shell
<1>1. TypeOK /\ CreationInv
  BY DEF IInv
<1>2. CASE ShellCommand
  <2>1. /\ UNCHANGED <<pcbs, current_process, next_pid, scheduling_enabled, creation, halted>>
        /\ todo' \in Nat /\ commands' \in Nat /\ in_command' = TRUE /\ created' = TRUE
        /\ todo' > 0
    BY <1>1, <1>2, TableAssumption DEF ShellCommand, TypeOK
  <2>2. TypeOK'
    BY <1>1, <2>1 DEF TypeOK
  <2>3. CreationInv'
    BY <1>1, <2>1 DEF CreationInv, Creating, Used
  <2> QED
    BY <2>1, <2>2, <2>3, TableUnchanged
<1>3. CASE CommandEnd
  <2>1. /\ UNCHANGED <<pcbs, current_process, next_pid, creation, todo, created, commands, halted>>
        /\ scheduling_enabled' \in BOOLEAN /\ in_command' = FALSE /\ ~Creating
    BY <1>1, <1>3 DEF CommandEnd, TypeOK
  <2>2. TypeOK'
    BY <1>1, <2>1 DEF TypeOK
  <2>3. CreationInv'
    BY <2>1 DEF CreationInv, Creating
  <2> QED
    BY <2>1, <2>2, <2>3, TableUnchanged
<1>4. CASE CreateNoSlot
  <2>1. /\ UNCHANGED <<pcbs, current_process, next_pid, scheduling_enabled, creation, halted,
                       in_command, commands>>
        /\ todo' \in Nat /\ created' \in BOOLEAN /\ ~Creating
    BY <1>1, <1>4 DEF CreateNoSlot, CallsCreate, Returns, TypeOK
  <2>2. TypeOK'
    BY <1>1, <2>1 DEF TypeOK
  <2>3. CreationInv'
    BY <2>1 DEF CreationInv, Creating
  <2> QED
    BY <2>1, <2>2, <2>3, TableUnchanged
<1>5. CASE CreateBegin
  BY <1>5, CreateBeginKeeps
<1>6. CASE CreateMemory
  <2>1. /\ UNCHANGED <<pcbs, current_process, next_pid, scheduling_enabled, proc, shell, halted>>
        /\ stage' \in Stages
    BY <1>1, <1>6 DEF CreateMemory, TypeOK, Stages
  <2>2. TypeOK'
    BY <1>1, <2>1 DEF TypeOK
  <2>3. CreationInv'
    BY <1>1, <2>1 DEF CreationInv, Creating, Used
  <2> QED
    BY <2>1, <2>2, <2>3, TableUnchanged
<1>7. CASE CreateFail
  BY <1>7, CreateFailKeeps
<1>8. CASE CreateFinish
  <2>1. /\ UNCHANGED <<state, pid, parent_pid, child_count, time_slice, current_process,
                       next_pid, scheduling_enabled, stage, halted, in_command, commands>>
        /\ context' = [context EXCEPT ![proc] = pid[proc]] /\ proc' = None /\ Creating
    BY <1>8 DEF CreateFinish, Returns
  <2>2. todo' \in Nat /\ created' \in BOOLEAN
    BY <1>1, <1>8, <2>1 DEF CreateFinish, Returns, TypeOK, CreationInv
  <2>3. context' \in [Slots -> 0 .. MaxPid]
    BY <1>1, <2>1 DEF TypeOK, CreationInv
  <2>4. TypeOK'
    BY <1>1, <2>1, <2>2, <2>3 DEF TypeOK
  <2>5. CreationInv'
    BY <2>1 DEF CreationInv, Creating
  <2> QED
    BY <2>1, <2>4, <2>5, TableUnchanged
<1>9. CASE scheduler_tick
  BY <1>9, TickKeeps
<1>10. CASE usermode_syscall_handler
  <2>1. /\ UNCHANGED <<pcbs, current_process, next_pid, scheduling_enabled, creation, shell>>
        /\ halted' = "exit"
    BY <1>10 DEF usermode_syscall_handler
  <2>2. TypeOK'
    BY <1>1, <2>1 DEF TypeOK
  <2>3. CreationInv'
    BY <1>1, <2>1 DEF CreationInv, Creating, Used
  <2> QED
    BY <2>1, <2>2, <2>3, TableUnchanged
<1>11. CASE SyscallExit
  BY <1>11, ExitKeeps
<1>12. CASE UNCHANGED vars
  <2>1. TypeOK' /\ CreationInv'
    BY <1>1, <1>12 DEF vars, TypeOK, CreationInv, Creating, Used
  <2> QED
    BY <1>12, <2>1, TableUnchanged DEF vars
<1> QED
  BY <1>2, <1>3, <1>4, <1>5, <1>6, <1>7, <1>8, <1>9, <1>10, <1>11, <1>12
     DEF Next, process_create

LEMMA InitInv == Init => IInv
<1> SUFFICES ASSUME Init PROVE IInv
  OBVIOUS
<1>1. 0 \in Slots /\ MaxPid \in Nat /\ TimeSlice \in Nat
  BY TableAssumption DEF Slots
<1>2. TypeOK
  <2>1. /\ state \in [Slots -> {"UNUSED", "READY", "RUNNING"}]
        /\ pid \in [Slots -> 0 .. MaxPid] /\ parent_pid \in [Slots -> 0 .. MaxPid]
        /\ child_count \in [Slots -> Nat] /\ time_slice \in [Slots -> 0 .. TimeSlice]
        /\ context \in [Slots -> 0 .. MaxPid]
    BY <1>1 DEF Init
  <2>2. /\ current_process \in Slots /\ next_pid \in 1 .. MaxPid + 1
        /\ todo \in Nat /\ commands \in Nat
    BY <1>1 DEF Init
  <2>3. /\ proc \in Slots \cup {None} /\ stage \in Stages
        /\ halted \in {"no", "panic", "exit"}
        /\ scheduling_enabled \in BOOLEAN /\ in_command \in BOOLEAN /\ created \in BOOLEAN
    BY <1>1 DEF Init, Stages
  <2> QED
    BY <2>1, <2>2, <2>3 DEF TypeOK
<1>3. Used = {0}
  BY <1>1 DEF Init, Used
<1>4. RunningIsCurrent /\ IdleStays /\ UniquePids /\ CreationInv
  BY <1>1, <1>3 DEF Init, RunningIsCurrent, IdleStays, UniquePids, CreationInv, Creating
<1>5. NoDanglingParent
  BY <1>1, <1>3 DEF Init, NoDanglingParent, process_get
<1>6. ChildrenCounted
  BY <1>1, <1>3 DEF Init, ChildrenCounted
<1> QED
  BY <1>2, <1>4, <1>5, <1>6 DEF IInv

THEOREM Invariant == Spec => []IInv
BY InitInv, InvInductive, PTL DEF Spec

(* TypeOK is an invariant for every table and every schedule of ticks.     *)
THEOREM TypeCorrect == Spec => []TypeOK
<1>1. IInv => TypeOK
  BY DEF IInv
<1> QED
  BY <1>1, Invariant, PTL

(* The table shows exactly the current process as running, also when it    *)
(* has just given back its own slot: ticks, failed creations and exits in  *)
(* any order.                                                              *)
THEOREM TableConsistent == Spec => []RunningIsCurrent
<1>1. IInv => RunningIsCurrent
  BY DEF IInv
<1> QED
  BY <1>1, Invariant, PTL

(* An identifier names one process at a time, so that process_get finds    *)
(* the process that is meant, however slots are reused.                    *)
THEOREM IdentifiersUnique == Spec => []UniquePids
<1>1. IInv => UniquePids
  BY DEF IInv
<1> QED
  BY <1>1, Invariant, PTL

(* The parent of every process is in the table, although the exit looks    *)
(* for children only if child_count is not zero.                           *)
THEOREM ParentsExist == Spec => []NoDanglingParent
<1>1. IInv => NoDanglingParent
  BY DEF IInv
<1> QED
  BY <1>1, Invariant, PTL

(* child_count is never less than the number of children, although an exit *)
(* and a creation that fails leave it as it is in some cases.              *)
THEOREM CountsSuffice == Spec => []ChildrenCounted
<1>1. IInv => ChildrenCounted
  BY DEF IInv
<1> QED
  BY <1>1, Invariant, PTL

-----------------------------------------------------------------------------
(* Why a switch faults only for the causes FaultsExplained names.  Before  *)
(* a second command the scheduler is off while the shell creates, so that  *)
(* every process a tick or an exit can choose has its own registers.       *)
RegistersInv ==
  commands <= 1 =>
    /\ commands = 0 => ~scheduling_enabled /\ ~in_command
    /\ scheduling_enabled => ~in_command
    /\ \A s \in Used \ {0} : s # proc => context[s] = pid[s]

(* A switch to a process that has its own registers does not fault. *)
LEMMA SwitchIsSafe ==
  ASSUME NEW st, NEW pd \in [Slots -> Nat], NEW sl, current_process \in Slots,
         \A s \in Slots \ {0} : Ready(st, pd, s) => context[s] = pd[s],
         halted = "no", scheduler_schedule(st, pd, sl)
  PROVE  halted' = "panic" => current_process' = 0
<1> DEFINE next == find_next_process(st, pd)
<1>1. next \in Slots /\ (next # 0 => Ready(st, pd, next))
  BY FindNext
<1>2. CASE next = current_process
  BY <1>2 DEF scheduler_schedule
<1>3. CASE next # current_process
  <2>1. current_process' = next /\ halted' \in switch_to_process(pd, next)
    BY <1>3 DEF scheduler_schedule
  <2> HIDE DEF next
  <2>2. next # 0 => switch_to_process(pd, next) = {"no"}
    <3>1. next # 0 => context[next] = pd[next] /\ pd[next] # 0
      BY <1>1 DEF Ready
    <3> QED
      BY <3>1 DEF switch_to_process
  <2> QED
    BY <2>1, <2>2
<1> QED
  BY <1>2, <1>3

(* The scheduler, called by a tick or by an exit. *)
LEMMA ScheduleKeepsRegisters ==
  ASSUME IInv, RegistersInv, FaultsExplained, halted = "no", ~Creating,
         NEW st \in [Slots -> {"UNUSED", "READY", "RUNNING"}],
         NEW sl \in [Slots -> 0 .. TimeSlice],
         pid' \in [Slots -> 0 .. MaxPid],
         \A s \in Slots : st[s] # "UNUSED" => s \in Used /\ pid'[s] = pid[s],
         \A s \in Slots : st[s] = "RUNNING" => s = current_process,
         st[current_process] # "READY", st[0] # "UNUSED",
         scheduler_schedule(st, pid', sl),
         UNCHANGED <<context, scheduling_enabled, commands>>
  PROVE  RegistersInv' /\ FaultsExplained'
<1>1. /\ current_process \in Slots /\ halted \in {"no", "panic", "exit"}
      /\ commands \in Nat /\ in_command \in BOOLEAN
      /\ pid' \in [Slots -> Nat]
  BY TableAssumption DEF IInv, TypeOK
<1>2. /\ \A s \in Slots : state'[s] # "UNUSED" <=> st[s] # "UNUSED"
      /\ \/ UNCHANGED <<proc, in_command>>
         \/ proc' = None /\ in_command' = FALSE
  BY <1>1, Schedules
<1>3. proc = None /\ proc' = None /\ (in_command' => in_command)
  BY <1>1, <1>2 DEF Creating
<1>4. \A s \in Slots : s # None
  BY TableAssumption DEF None, Slots
<1>5. ASSUME commands <= 1
      PROVE  \A s \in Slots \ {0} : st[s] # "UNUSED" => context[s] = pid'[s]
  BY <1>3, <1>4, <1>5 DEF RegistersInv
<1>6. RegistersInv'
  <2>1. Used' \ {0} = {s \in Slots \ {0} : st[s] # "UNUSED"}
    BY <1>2 DEF Used
  <2> QED
    BY <1>1, <1>3, <1>5, <2>1 DEF RegistersInv
<1>7. FaultsExplained'
  <2>1. CASE commands > 1
    BY <2>1 DEF FaultsExplained
  <2>2. CASE commands <= 1
    <3>1. \A s \in Slots \ {0} : Ready(st, pid', s) => context[s] = pid'[s]
      BY <1>5, <2>2 DEF Ready
    <3> QED
      BY <1>1, <3>1, SwitchIsSafe DEF FaultsExplained
  <2> QED
    BY <1>1, <2>1, <2>2
<1> QED
  BY <1>6, <1>7

(* A fault in switch_to_process has one of two causes: the idle process is *)
(* switched to, or a second command was typed while the scheduler ran.     *)
THEOREM FaultsHaveCauses == Spec => []FaultsExplained
<1>1. Init => RegistersInv /\ FaultsExplained
  <2>1. ASSUME Init PROVE Used \ {0} = {}
    BY <2>1 DEF Init, Used
  <2> QED
    BY <2>1 DEF Init, RegistersInv, FaultsExplained
<1>2. IInv /\ RegistersInv /\ FaultsExplained /\ [Next]_vars
        => RegistersInv' /\ FaultsExplained'
  <2> SUFFICES ASSUME IInv, RegistersInv, FaultsExplained, [Next]_vars
               PROVE  RegistersInv' /\ FaultsExplained'
    OBVIOUS
  <2>1. TypeOK /\ CreationInv /\ commands \in Nat
    BY DEF IInv, TypeOK
  <2>2. CASE ShellCommand
    BY <2>1, <2>2 DEF ShellCommand, RegistersInv, FaultsExplained, pcbs, creation, Used
  <2>3. CASE CommandEnd
    BY <2>1, <2>3 DEF CommandEnd, RegistersInv, FaultsExplained, pcbs, creation, Used
  <2>4. CASE CreateNoSlot
    BY <2>1, <2>4 DEF CreateNoSlot, Returns, RegistersInv, FaultsExplained, pcbs, creation, Used
  <2>5. CASE CreateBegin
    <3>1. PICK n \in process_alloc :
            /\ pid' = [pid EXCEPT ![n] = next_pid]
            /\ state' = [state EXCEPT ![n] = "READY"]
            /\ proc' = n
      BY <2>5 DEF CreateBegin
    <3>2. ~Creating /\ UNCHANGED <<context, current_process, scheduling_enabled, shell, halted>>
      BY <2>5 DEF CreateBegin, CallsCreate
    <3>3. Used' = Used \cup {n}
      BY <2>1, <3>1 DEF Used, process_alloc, TypeOK
    <3>4. \A s \in Used : s # proc /\ (s # n => pid'[s] = pid[s])
      BY <2>1, <3>1, <3>2, TableAssumption
         DEF Used, TypeOK, Creating, None, Slots
    <3> QED
      BY <3>1, <3>2, <3>3, <3>4 DEF RegistersInv, FaultsExplained, shell
  <2>6. CASE CreateMemory
    BY <2>1, <2>6 DEF CreateMemory, RegistersInv, FaultsExplained, pcbs, shell, Used
  <2>7. CASE CreateFail
    <3>1. /\ state' = [state EXCEPT ![proc] = "UNUSED"] /\ Creating /\ proc' = None
          /\ UNCHANGED <<pid, context, current_process, scheduling_enabled, in_command,
                         commands, halted>>
      BY <2>7 DEF CreateFail, Returns
    <3>2. Used' = Used \ {proc}
      BY <2>1, <3>1 DEF Used, TypeOK, CreationInv
    <3> QED
      BY <3>1, <3>2 DEF RegistersInv, FaultsExplained
  <2>8. CASE CreateFinish
    <3>1. /\ context' = [context EXCEPT ![proc] = pid[proc]] /\ Creating /\ proc' = None
          /\ UNCHANGED <<state, pid, current_process, scheduling_enabled, in_command,
                         commands, halted>>
      BY <2>8 DEF CreateFinish, Returns
    <3>2. Used' = Used /\ Used \subseteq Slots
      BY <3>1 DEF Used
    <3>3. \A s \in Used : context'[s] = IF s = proc THEN pid[s] ELSE context[s]
      BY <2>1, <3>1, <3>2 DEF TypeOK
    <3> QED
      BY <3>1, <3>2, <3>3 DEF RegistersInv, FaultsExplained
  <2>9. CASE scheduler_tick
    <3>1. /\ halted = "no" /\ InterruptsOn /\ scheduling_enabled
          /\ UNCHANGED <<pid, context, scheduling_enabled, commands>>
      BY <2>9 DEF scheduler_tick
    <3> DEFINE left == IF time_slice[current_process] > 0
                       THEN time_slice[current_process] - 1 ELSE 0
               slices == [time_slice EXCEPT ![current_process] = left]
    <3>2. slices \in [Slots -> 0 .. TimeSlice]
      <4>1. time_slice[current_process] \in 0 .. TimeSlice /\ TimeSlice \in Nat
        BY <2>1, TableAssumption DEF TypeOK
      <4>2. left \in 0 .. TimeSlice
        BY <4>1
      <4> QED
        BY <2>1, <4>2 DEF TypeOK
    <3>3. CASE left # 0
      <4>1. UNCHANGED <<state, current_process, proc, in_command, halted>>
        BY <2>9, <3>3 DEF scheduler_tick
      <4> QED
        BY <3>1, <4>1 DEF RegistersInv, FaultsExplained, Used
    <3>4. CASE left = 0 /\ commands > 1
      BY <2>1, <3>1, <3>4 DEF RegistersInv, FaultsExplained
    <3>5. CASE left = 0 /\ commands <= 1
      <4>1. ~Creating
        BY <2>1, <3>1, <3>5 DEF InterruptsOn, RegistersInv, CreationInv
      <4>2. scheduler_schedule(state, pid, slices)
        BY <2>9, <3>5 DEF scheduler_tick
      <4>3. /\ \A s \in Slots : state[s] = "RUNNING" <=> s = current_process
            /\ state[0] # "UNUSED" /\ current_process \in Slots
        BY DEF IInv, RunningIsCurrent, IdleStays, TypeOK
      <4>4. pid' = pid /\ pid \in [Slots -> 0 .. MaxPid]
            /\ state \in [Slots -> {"UNUSED", "READY", "RUNNING"}]
        BY <2>1, <3>1 DEF TypeOK
      <4> HIDE DEF slices, left
      <4>5. \A s \in Slots : state[s] # "UNUSED" => s \in Used /\ pid'[s] = pid[s]
        BY <4>4 DEF Used
      <4> QED
        BY <3>1, <3>2, <4>1, <4>2, <4>3, <4>4, <4>5, ScheduleKeepsRegisters
    <3> QED
      BY <2>1, <3>3, <3>4, <3>5
  <2>10. CASE usermode_syscall_handler
    BY <2>1, <2>10 DEF usermode_syscall_handler, RegistersInv, FaultsExplained, pcbs,
                       creation, shell, Used
  <2>11. CASE SyscallExit
    <3> DEFINE st == [state EXCEPT ![current_process] = "UNUSED"]
    <3>1. /\ halted = "no" /\ current_process # 0 /\ ~Creating
          /\ pid' = [pid EXCEPT ![current_process] = 0]
          /\ scheduler_schedule(st, pid', time_slice)
          /\ UNCHANGED <<context, scheduling_enabled, commands>>
      BY <2>11 DEF SyscallExit, ProcessRuns
    <3>2. /\ \A s \in Slots : state[s] = "RUNNING" <=> s = current_process
          /\ state[0] # "UNUSED" /\ current_process \in Slots /\ 0 \in Slots
      BY TableAssumption DEF IInv, RunningIsCurrent, IdleStays, TypeOK, Slots
    <3>3. /\ st \in [Slots -> {"UNUSED", "READY", "RUNNING"}]
          /\ time_slice \in [Slots -> 0 .. TimeSlice]
          /\ pid' \in [Slots -> 0 .. MaxPid]
          /\ \A s \in Slots : st[s] # "UNUSED" => s \in Used /\ pid'[s] = pid[s]
          /\ \A s \in Slots : st[s] = "RUNNING" => s = current_process
          /\ st[current_process] # "READY" /\ st[0] # "UNUSED"
      BY <2>1, <3>1, <3>2, TableAssumption DEF TypeOK, Used
    <3> HIDE DEF st
    <3> QED
      BY <3>1, <3>3, ScheduleKeepsRegisters
  <2>12. CASE UNCHANGED vars
    BY <2>12 DEF vars, RegistersInv, FaultsExplained, pcbs, creation, shell, Used
  <2> QED
    BY <2>2, <2>3, <2>4, <2>5, <2>6, <2>7, <2>8, <2>9, <2>10, <2>11, <2>12
       DEF Next, process_create
<1> QED
  BY <1>1, <1>2, Invariant, PTL DEF Spec
=============================================================================
