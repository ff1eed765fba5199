------------------------------ MODULE Process ------------------------------
(***************************************************************************)
(* The process table and the round-robin scheduler of SimpleOS             *)
(* (process.c, scheduler.c, switch.asm), driven by the shell commands that *)
(* create processes (kernel.c), by the timer interrupt (timer.c) and by    *)
(* the exit system call (syscall.c, usermode.c, dosapi.c).                 *)
(*                                                                         *)
(* The shell runs with interrupts enabled, so that a tick may fall between *)
(* the stages of its process_create.  switch_to_process loads a PCB and    *)
(* nothing ever saves one: whatever the interrupted code was doing is      *)
(* gone, and a process that is chosen again starts at its entry point.     *)
(* Memory is abstracted: an allocation succeeds or, if CreateMayFail, it   *)
(* may fail.                                                               *)
(***************************************************************************)
EXTENDS Integers, FiniteSets

CONSTANTS
  MaxProcesses,     \* MAX_PROCESSES
  TimeSlice,        \* ticks of a time slice
  CommandSizes,     \* processes made by testproc and testexit (3), testhier (4)
  CreateMayFail,    \* whether physical memory may run out
  ProcessesCreate,  \* whether a process may create processes, by a system call
  Exits,            \* the ways DosExit may end: see the exit actions
  MaxCommands,      \* bound: shell commands in a behaviour
  MaxPid            \* bound: process identifiers in a behaviour

ASSUME TableAssumption ==
  /\ MaxProcesses \in Nat \ {0}
  /\ TimeSlice \in Nat \ {0}
  /\ CommandSizes \subseteq Nat \ {0}
  /\ CreateMayFail \in BOOLEAN /\ ProcessesCreate \in BOOLEAN
  /\ Exits \subseteq {"hook", "case"}
  /\ MaxCommands \in Nat /\ MaxPid \in Nat

VARIABLES
  state, pid, parent_pid, child_count, time_slice,  \* fields of process_table
  context,             \* pid whose registers the PCB holds, 0 for a zeroed PCB
  current_process, next_pid, scheduling_enabled,
  proc,                \* the slot process_create is filling, or None
  stage,               \* how far process_create has come
  in_command,          \* whether the shell is inside one of its commands
  todo, created,       \* in it: processes left to make, all made so far
  commands,            \* shell commands begun
  halted               \* why the CPU stopped for good, "no" while it runs

pcbs == <<state, pid, parent_pid, child_count, time_slice, context>>
creation == <<proc, stage>>
shell == <<in_command, todo, created, commands>>
vars == <<pcbs, current_process, next_pid, scheduling_enabled, creation, shell, halted>>

Slots == 0 .. MaxProcesses - 1
None == -1
Stages == {"dir", "kernel_stack", "user_stack", "map", "context"}

Used == {s \in Slots : state[s] # "UNUSED"}
Creating == proc # None

(* process_get(p) finds a process; process_get_slot(p) is the one it finds *)
process_get(p) == \E s \in Used : pid[s] = p
process_get_slot(p) ==
  CHOOSE s \in Used : pid[s] = p /\ \A t \in Used : pid[t] = p => s <= t

(* process_init, scheduler_init: slot 0 is the idle process, as which the  *)
(* shell runs.  Its PCB is never filled.                                   *)
Init ==
  /\ state = [s \in Slots |-> IF s = 0 THEN "RUNNING" ELSE "UNUSED"]
  /\ pid = [s \in Slots |-> 0]
  /\ parent_pid = [s \in Slots |-> 0]
  /\ child_count = [s \in Slots |-> 0]
  /\ time_slice = [s \in Slots |-> 0]
  /\ context = [s \in Slots |-> 0]
  /\ current_process = 0 /\ next_pid = 1 /\ scheduling_enabled = FALSE
  /\ proc = None /\ stage = "dir"
  /\ in_command = FALSE /\ todo = 0 /\ created = TRUE /\ commands = 0
  /\ halted = "no"

-----------------------------------------------------------------------------
(* process_create *)

(* Mutant: the slot is taken without looking at its state. *)
AllocNextSlot ==
  {s \in Slots : s = next_pid % MaxProcesses}

(* The first unused slot, if there is one. *)
process_alloc ==
  {s \in Slots : state[s] = "UNUSED" /\ \A t \in Slots : state[t] = "UNUSED" => s <= t}

(* Whoever runs may create: the shell, as process 0, inside a command; a   *)
(* process only if it is given a system call for it.                       *)
CallsCreate ==
  /\ halted = "no" /\ ~Creating
  /\ IF current_process = 0 THEN in_command /\ todo > 0 ELSE ProcessesCreate

(* process_create returns, with an identifier or with 0. *)
Returns(ok) ==
  /\ todo' = IF current_process = 0 THEN todo - 1 ELSE todo
  /\ created' = (created /\ (ok \/ current_process # 0))
  /\ UNCHANGED <<in_command, commands>>

(* Lines 75-79: the table is full. *)
CreateNoSlot ==
  /\ CallsCreate
  /\ process_alloc = {}
  /\ Returns(FALSE)
  /\ UNCHANGED <<pcbs, current_process, next_pid, scheduling_enabled, creation, halted>>

(* Mutant: the parent does not count the child. *)
CreateUncounted ==
  /\ CallsCreate
  /\ next_pid <= MaxPid
  /\ \E s \in process_alloc :
       /\ pid' = [pid EXCEPT ![s] = next_pid]
       /\ state' = [state EXCEPT ![s] = "READY"]
       /\ parent_pid' = [parent_pid EXCEPT ![s] = pid[current_process]]
       /\ time_slice' = [time_slice EXCEPT ![s] = TimeSlice]
       /\ child_count' = [child_count EXCEPT ![s] = 0]
       /\ proc' = s
  /\ next_pid' = next_pid + 1
  /\ stage' = "dir"
  /\ UNCHANGED <<context, current_process, scheduling_enabled, shell, halted>>

(* Lines 81-101.  A tick inside them leaves the same table as a tick after *)
(* them: the shell's children have parent 0, and a slice is set again when *)
(* its process is chosen.                                                  *)
CreateBegin ==
  /\ CallsCreate
  /\ next_pid <= MaxPid
  /\ \E s \in process_alloc :
       LET parent == pid[current_process]
           cleared == [child_count EXCEPT ![s] = 0]
       IN  /\ pid' = [pid EXCEPT ![s] = next_pid]
           /\ state' = [state EXCEPT ![s] = "READY"]
           /\ parent_pid' = [parent_pid EXCEPT ![s] = parent]
           /\ time_slice' = [time_slice EXCEPT ![s] = TimeSlice]
           /\ child_count' = IF parent # 0 /\ process_get(parent)
                             THEN [cleared EXCEPT ![process_get_slot(parent)] = @ + 1]
                             ELSE cleared
           /\ proc' = s
  /\ next_pid' = next_pid + 1
  /\ stage' = "dir"
  /\ UNCHANGED <<context, current_process, scheduling_enabled, shell, halted>>

(* Lines 104-159: the page directory, the kernel stack, the user stack,    *)
(* and its mapping under the new directory.                                *)
CreateMemory ==
  /\ halted = "no" /\ Creating /\ stage # "context"
  /\ stage' = CASE stage = "dir" -> "kernel_stack"
                [] stage = "kernel_stack" -> "user_stack"
                [] stage = "user_stack" -> "map"
                [] stage = "map" -> "context"
  /\ UNCHANGED <<pcbs, current_process, next_pid, scheduling_enabled, proc, shell, halted>>

(* Lines 105-109, 113-118, 126-132, 139-147: the slot is given back; the   *)
(* identifier and the parent's count are not.                              *)
CreateFail ==
  /\ CreateMayFail
  /\ halted = "no" /\ Creating /\ stage # "context"
  /\ state' = [state EXCEPT ![proc] = "UNUSED"]
  /\ proc' = None
  /\ Returns(FALSE)
  /\ UNCHANGED <<pid, parent_pid, child_count, time_slice, context, current_process,
                 next_pid, scheduling_enabled, stage, halted>>

(* Lines 161-183: the registers of the PCB. *)
CreateFinish ==
  /\ halted = "no" /\ Creating /\ stage = "context"
  /\ context' = [context EXCEPT ![proc] = pid[proc]]
  /\ proc' = None
  /\ Returns(TRUE)
  /\ UNCHANGED <<state, pid, parent_pid, child_count, time_slice, current_process,
                 next_pid, scheduling_enabled, stage, halted>>

process_create == CreateNoSlot \/ CreateBegin \/ CreateMemory \/ CreateFail \/ CreateFinish

-----------------------------------------------------------------------------
(* The shell commands testproc, testexit and testhier. *)

(* Mutant: the scheduler is started before the processes are made. *)
CommandStartsFirst ==
  /\ halted = "no" /\ current_process = 0 /\ ~in_command
  /\ commands < MaxCommands
  /\ in_command' = TRUE
  /\ todo' \in CommandSizes
  /\ created' = TRUE
  /\ commands' = commands + 1
  /\ scheduling_enabled' = TRUE
  /\ UNCHANGED <<pcbs, current_process, next_pid, creation, halted>>

ShellCommand ==
  /\ halted = "no" /\ current_process = 0 /\ ~in_command
  /\ commands < MaxCommands
  /\ in_command' = TRUE
  /\ todo' \in CommandSizes
  /\ created' = TRUE
  /\ commands' = commands + 1
  /\ UNCHANGED <<pcbs, current_process, next_pid, scheduling_enabled, creation, halted>>

(* The command ends with scheduler_start if all its processes were made. *)
CommandEnd ==
  /\ halted = "no" /\ current_process = 0 /\ in_command
  /\ todo = 0 /\ ~Creating
  /\ scheduling_enabled' = (scheduling_enabled \/ created)
  /\ in_command' = FALSE
  /\ UNCHANGED <<pcbs, current_process, next_pid, creation, todo, created, commands, halted>>

-----------------------------------------------------------------------------
(* The scheduler.  st and pd are the states and identifiers it sees. *)

Ready(st, pd, s) == st[s] = "READY" /\ pd[s] # 0

(* Mutant: the search always starts at slot 1. *)
FindFromOne(st, pd) ==
  LET ready == {s \in Slots \ {0} : Ready(st, pd, s)}
  IN  IF ready = {} THEN 0 ELSE CHOOSE s \in ready : \A t \in ready : s <= t

(* The first ready process in the order that starts at slot pid + 1 of the *)
(* current process, round the table; slot 0 if there is none.              *)
find_next_process(st, pd) ==
  LET idx(i) == (pd[current_process] + 1 + i) % MaxProcesses
      hits == {i \in 0 .. 2 * MaxProcesses - 1 : Ready(st, pd, idx(i))}
  IN  IF hits = {} THEN 0
      ELSE idx(CHOOSE i \in hits : \A j \in hits : i <= j)

(* switch_to_process: what the CPU does with the PCB of slot s.  A zeroed  *)
(* one faults, which is a kernel panic; one that still holds the registers *)
(* of an earlier process may run or fault.                                 *)
switch_to_process(pd, s) ==
  IF context[s] = 0 THEN {"panic"}
  ELSE IF context[s] = pd[s] THEN {"no"} ELSE {"no", "panic"}

(* Mutant: the process that loses the CPU keeps its state. *)
ScheduleKeepsRunning(st, pd, sl) ==
  LET next == find_next_process(st, pd)
  IN  /\ state' = [st EXCEPT ![next] = "RUNNING"]
      /\ time_slice' = [sl EXCEPT ![next] = TimeSlice]
      /\ current_process' = next
      /\ proc' = None
      /\ halted' \in switch_to_process(pd, next)
      /\ UNCHANGED <<in_command, todo, created>>

scheduler_schedule(st, pd, sl) ==
  LET next == find_next_process(st, pd)
  IN  IF next = current_process
      THEN /\ state' = st /\ time_slice' = sl
           /\ UNCHANGED <<current_process, proc, in_command, todo, created, halted>>
      ELSE /\ state' = [s \in Slots |->
                          IF s = next THEN "RUNNING"
                          ELSE IF s = current_process /\ st[s] = "RUNNING" THEN "READY"
                          ELSE st[s]]
           /\ time_slice' = [sl EXCEPT ![next] = TimeSlice]
           /\ current_process' = next
           /\ proc' = None             \* process_create is never resumed
           /\ in_command' = FALSE /\ todo' = 0 /\ created' = TRUE   \* nor is the shell
           /\ halted' \in switch_to_process(pd, next)

(* Interrupts are off in a system call, on in the shell and in processes. *)
InterruptsOn == current_process = 0 \/ ~Creating

(* Mutant: a slice that is used up is counted down further. *)
TickBelowZero ==
  /\ halted = "no" /\ InterruptsOn
  /\ scheduling_enabled
  /\ LET left == time_slice[current_process] - 1
         slices == [time_slice EXCEPT ![current_process] = left]
     IN  IF left <= 0
         THEN scheduler_schedule(state, pid, slices)
         ELSE /\ time_slice' = slices
              /\ UNCHANGED <<state, current_process, proc, in_command, todo, created, halted>>
  /\ UNCHANGED <<pid, parent_pid, child_count, context, next_pid, scheduling_enabled,
                 stage, commands>>

(* timer_callback and scheduler_tick. *)
scheduler_tick ==
  /\ halted = "no" /\ InterruptsOn
  /\ scheduling_enabled
  /\ LET left == IF time_slice[current_process] > 0
                 THEN time_slice[current_process] - 1 ELSE 0
         slices == [time_slice EXCEPT ![current_process] = left]
     IN  IF left = 0
         THEN scheduler_schedule(state, pid, slices)
         ELSE /\ time_slice' = slices
              /\ UNCHANGED <<state, current_process, proc, in_command, todo, created, halted>>
  /\ UNCHANGED <<pid, parent_pid, child_count, context, next_pid, scheduling_enabled,
                 stage, commands>>

-----------------------------------------------------------------------------
(* DosExit, called by a process.  "hook" is what the shipped kernel does:  *)
(* syscall_handler gives number 1 to usermode_syscall_handler, which stops *)
(* the machine, before the switch is reached.  "case" is the SYSCALL_EXIT  *)
(* case itself, which PROCESS_TERMINATION.md documents and which the hook  *)
(* shadows.                                                                *)

ProcessRuns == halted = "no" /\ current_process # 0 /\ ~Creating

usermode_syscall_handler ==
  /\ "hook" \in Exits /\ ProcessRuns
  /\ halted' = "exit"
  /\ UNCHANGED <<pcbs, current_process, next_pid, scheduling_enabled, creation, shell>>

(* Mutant: the children are not given a new parent. *)
ExitKeepsChildren(p) == parent_pid

(* Lines 209-218 of process_exit_with_code. *)
Reparented(p) ==
  IF child_count[current_process] > 0
  THEN [s \in Slots |-> IF state[s] # "UNUSED" /\ parent_pid[s] = p THEN 0 ELSE parent_pid[s]]
  ELSE parent_pid

(* process_exit_with_code, then scheduler_schedule. *)
SyscallExit ==
  /\ "case" \in Exits /\ ProcessRuns
  /\ LET p == pid[current_process]
         parent == parent_pid[current_process]
         counted == /\ parent # 0 /\ process_get(parent)
                    /\ child_count[process_get_slot(parent)] > 0
         st == [state EXCEPT ![current_process] = "UNUSED"]
         pd == [pid EXCEPT ![current_process] = 0]
     IN  /\ child_count' = IF counted
                           THEN [child_count EXCEPT ![process_get_slot(parent)] = @ - 1]
                           ELSE child_count
         /\ parent_pid' = Reparented(p)
         /\ pid' = pd
         /\ scheduler_schedule(st, pd, time_slice)
  /\ UNCHANGED <<context, next_pid, scheduling_enabled, stage, commands>>

-----------------------------------------------------------------------------
Next ==
  \/ ShellCommand \/ process_create \/ CommandEnd
  \/ scheduler_tick
  \/ usermode_syscall_handler \/ SyscallExit

Spec == Init /\ [][Next]_vars

(* The shell goes on with a command it has begun, and the PIT interrupts   *)
(* for ever.                                                               *)
FairSpec == Spec /\ WF_vars(process_create \/ CommandEnd) /\ WF_vars(scheduler_tick)
-----------------------------------------------------------------------------
Children(s) == {t \in Used : parent_pid[t] = pid[s]}

(* Every field stays in its range under ticks that abandon process_create  *)
(* at any stage, failed creations and exits.                               *)
TypeOK ==
  /\ state \in [Slots -> {"UNUSED", "READY", "RUNNING"}]
  /\ pid \in [Slots -> 0 .. MaxPid] /\ parent_pid \in [Slots -> 0 .. MaxPid]
  /\ child_count \in [Slots -> Nat]
  /\ time_slice \in [Slots -> 0 .. TimeSlice]
  /\ context \in [Slots -> 0 .. MaxPid]
  /\ current_process \in Slots /\ next_pid \in 1 .. MaxPid + 1
  /\ scheduling_enabled \in BOOLEAN
  /\ proc \in Slots \cup {None} /\ stage \in Stages
  /\ in_command \in BOOLEAN /\ todo \in Nat /\ created \in BOOLEAN /\ commands \in Nat
  /\ halted \in {"no", "panic", "exit"}

(* The states scheduler_schedule writes agree with process_set_current:    *)
(* exactly the current process is shown as running, also when it has just  *)
(* given back its own slot in process_exit_with_code.                      *)
RunningIsCurrent == \A s \in Slots : state[s] = "RUNNING" <=> s = current_process

(* An identifier names one process at a time, and only slot 0 has 0, so    *)
(* that process_get finds the process that is meant, however slots are     *)
(* reused after exits and failed creations.                                *)
UniquePids ==
  /\ pid[0] = 0
  /\ \A s \in Used \ {0} : pid[s] \in 1 .. next_pid - 1
  /\ \A s, t \in Used : pid[s] = pid[t] => s = t

(* "No dangling parent references" (PARENT_CHILD_HIERARCHY.md): the parent *)
(* of every process is in the table, whoever exited in whatever order and  *)
(* whichever creations failed.  process_exit_with_code only looks for      *)
(* children if child_count says there are some.                            *)
NoDanglingParent == \A s \in Used : process_get(parent_pid[s])

(* child_count never falls short of the children a process has: this is    *)
(* why process_exit_with_code may skip the search for children when it is  *)
(* zero.  (It may exceed them: a failed creation is not taken back.)       *)
ChildrenCounted ==
  \A s \in Used : pid[s] # 0 => child_count[s] >= Cardinality(Children(s))

(* find_next_process takes the identifier of the current process for its   *)
(* slot.                                                                   *)
Aligned == \A s \in Used : pid[s] = s

(* "Each process gets equal CPU time" (PROCESS_MANAGEMENT_SUCCESS.md):     *)
(* once the scheduler runs, find_next_process brings every process that is *)
(* ready to the CPU again and again, unless the machine stops.             *)
RoundRobin ==
  \A s \in Slots \ {0} :
    (scheduling_enabled /\ Ready(state, pid, s)) ~> (current_process = s \/ halted # "no")

(* The rotation is complete as long as identifiers and slots agree.        *)
AlignedRoundRobin == []Aligned => RoundRobin

(* switch_to_process loads a PCB that faults only when it is that of the   *)
(* idle process (all others have exited) or when a second shell command    *)
(* runs while the scheduler is already on, so that a tick finds a process  *)
(* that process_create has marked READY before its registers are set.      *)
FaultsExplained == halted = "panic" => current_process = 0 \/ commands > 1

=============================================================================
