-------------------------------- MODULE Vmm --------------------------------
(***************************************************************************)
(* Page directories and page tables of SimpleOS (vmm.c) and the commands   *)
(* that use them: process_create (process.c), alloc (kernel.c) and         *)
(* usermode (usermode.c), with the frames they take from pmm.c.            *)
(*                                                                         *)
(* A frame holds a table of Entries entries: the frames it maps, or None.  *)
(* Directories and tables have the same shape.  A frame is written through *)
(* the identity mapping of entry 0, so that only frames below Entries can  *)
(* be written.  Flag bits other than PRESENT are left out.                 *)
(***************************************************************************)
EXTENDS Integers, FiniteSets

CONSTANTS
  NumFrames,      \* frames of physical memory
  Entries,        \* PAGE_ENTRIES
  UserEntries,    \* 768: the directory entries below 3 GB
  Kernel,         \* frames of low memory, of the kernel and of the bitmap
  Maps,           \* sets of frames pmm_init may leave marked, by memory map
  KernelPD,       \* the frame of kernel_page_directory
  FirstTable,     \* the frame of first_page_table
  MaxProcesses

ASSUME LayoutAssumption ==
  /\ NumFrames \in Nat /\ Entries \in Nat /\ UserEntries \in 2 .. Entries - 1
  /\ Kernel \subseteq 0 .. NumFrames - 1
  /\ 0 \in Kernel /\ KernelPD \in Kernel /\ FirstTable \in Kernel
  /\ \A f \in Kernel : f < Entries
  /\ KernelPD # 0 /\ FirstTable # 0 /\ KernelPD # FirstTable
  /\ \A R \in Maps : Kernel \subseteq R /\ R \subseteq 0 .. NumFrames - 1
  /\ MaxProcesses \in Nat

VARIABLES
  reserved,           \* the frames pmm_init left marked
  used,               \* page_bitmap
  mem,                \* mem[f][i]: entry i of the table in frame f
  current_pd_phys,
  processes,          \* the complete processes: directory and stacks
  cpu,                \* who has it: the shell, a process, or nobody any more
  op, stage,          \* the shell's command and how far it is
  new,                \* the slot process_create fills
  phys, pt_phys,      \* locals: the frame to be mapped, the new page table
  scheduling_enabled,
  destroyed           \* history: vmm_destroy_page_directory has been called

vars == <<reserved, used, mem, current_pd_phys, processes, cpu, op, stage, new,
          phys, pt_phys, scheduling_enabled, destroyed>>

Frames == 0 .. NumFrames - 1
Index == 0 .. Entries - 1
None == -1
Blank == [i \in Index |-> None]
NoSlot == [dir |-> 0, kstack |-> 0, ustack |-> 0]

(* PD and PT indices of the virtual addresses the code uses. *)
StackPd == UserEntries - 1    \* 0xBFFFF000
LastPt == Entries - 1
TestPd == 1                   \* 0x400000 (alloc) and 0x7FF000 (usermode)

(* vmm_init: the kernel directory maps the first table, which maps frame j *)
(* at entry j.                                                             *)
vmm_init ==
  [f \in Frames |->
     IF f = KernelPD THEN [Blank EXCEPT ![0] = FirstTable]
     ELSE IF f = FirstTable THEN [j \in Index |-> j]
     ELSE Blank]

Init ==
  /\ reserved \in Maps
  /\ used = reserved
  /\ mem = vmm_init
  /\ current_pd_phys = KernelPD
  /\ processes = {}
  /\ cpu = "shell" /\ op = "none" /\ stage = "idle"
  /\ new = NoSlot
  /\ phys = 0 /\ pt_phys = 0
  /\ scheduling_enabled = FALSE
  /\ destroyed = FALSE

-----------------------------------------------------------------------------
(* Operators on frames and tables; u and m are a bitmap and a memory. *)

(* The lowest free frame that is not low memory, of which frame 0 stands   *)
(* for all, or 0 if there is none.                                         *)
pmm_alloc_page(u) ==
  LET free == Frames \ (u \cup {0})
  IN  IF free = {} THEN 0 ELSE CHOOSE f \in free : \A g \in free : f <= g

(* Whether the kernel can write frame f without harm to itself: beyond the *)
(* identity mapping a write is a page fault, which halts the machine, and  *)
(* in a kernel frame it overwrites the kernel.                             *)
Writable(f) == f \in Index \ Kernel

(* Mutant: a new directory shares every user entry with the kernel's. *)
CopyAllEntries(m) == m[KernelPD]

(* Mutant: the identity mapping is not copied. *)
CopyKernelSpaceOnly(m) ==
  [i \in Index |-> IF i >= UserEntries THEN m[KernelPD][i] ELSE None]

(* Entries of a new directory: user space empty, kernel space shared, and  *)
(* the identity mapping shared.                                            *)
NewDirectory(m) ==
  [i \in Index |-> IF i = 0 \/ i >= UserEntries THEN m[KernelPD][i] ELSE None]

(* The frames vmm_destroy_page_directory frees: the directory, each table  *)
(* below UserEntries and each page of these, the identity table included.  *)
DestroyedFrames(m, d) ==
  LET tables == {m[d][i] : i \in 0 .. UserEntries - 1} \ {None}
  IN  {d} \cup tables \cup (UNION {{m[t][j] : j \in Index} : t \in tables} \ {None})

(* vmm_get_physical *)
Translate(m, d, i, j) == IF m[d][i] = None THEN None ELSE m[m[d][i]][j]

(* Where the command maps its frame. *)
Pd == IF op = "create" THEN StackPd ELSE TestPd
Pt == IF op = "alloc" THEN 0 ELSE LastPt

(* The page fault handler stops the machine. *)
Halt == cpu' = "halted" /\ UNCHANGED <<reserved, used, mem, current_pd_phys, processes, op, stage,
                                       new, phys, pt_phys, scheduling_enabled, destroyed>>

-----------------------------------------------------------------------------
(* Commands run with interrupts on, so that each is taken step by step: a  *)
(* tick between two steps may take the CPU from the shell for good.        *)

At(s) == cpu = "shell" /\ stage = s
InSlot(s) == At(s) /\ op = "create"

Still == UNCHANGED <<reserved, cpu, scheduling_enabled>>

(* process_create: the slot is marked READY first. *)
BeginCreate ==
  /\ At("idle") /\ Cardinality(processes) < MaxProcesses
  /\ op' = "create" /\ stage' = "dir"
  /\ Still /\ UNCHANGED <<used, mem, current_pd_phys, processes, new, phys, pt_phys, destroyed>>

(* The frame of vmm_create_page_directory, or its failure. *)
CreateDir ==
  /\ InSlot("dir")
  /\ phys' = pmm_alloc_page(used)
  /\ IF phys' = 0
     THEN op' = "none" /\ stage' = "idle" /\ new' = NoSlot /\ UNCHANGED used
     ELSE stage' = "fill" /\ used' = used \cup {phys'} /\ UNCHANGED <<op, new>>
  /\ Still /\ UNCHANGED <<mem, current_pd_phys, processes, pt_phys, destroyed>>

(* The directory is written and stored in the slot. *)
FillDir ==
  /\ InSlot("fill")
  /\ IF Writable(phys)
     THEN /\ mem' = [mem EXCEPT ![phys] = NewDirectory(mem)]
          /\ new' = [NoSlot EXCEPT !.dir = phys]
          /\ phys' = 0
          /\ stage' = "kstack"
          /\ Still /\ UNCHANGED <<used, current_pd_phys, processes, op, pt_phys, destroyed>>
     ELSE Halt

CreateKernelStack ==
  /\ InSlot("kstack")
  /\ phys' = pmm_alloc_page(used)
  /\ IF phys' = 0
     THEN stage' = "undo" /\ UNCHANGED used
     ELSE stage' = "keep" /\ used' = used \cup {phys'}
  /\ Still /\ UNCHANGED <<mem, current_pd_phys, processes, op, new, pt_phys, destroyed>>

KeepKernelStack ==
  /\ InSlot("keep")
  /\ new' = [new EXCEPT !.kstack = phys]
  /\ phys' = 0
  /\ stage' = "ustack"
  /\ Still /\ UNCHANGED <<used, mem, current_pd_phys, processes, op, pt_phys, destroyed>>

CreateUserStack ==
  /\ InSlot("ustack")
  /\ phys' = pmm_alloc_page(used)
  /\ IF phys' = 0
     THEN stage' = "undo" /\ UNCHANGED used
     ELSE stage' = "switch" /\ used' = used \cup {phys'}
  /\ Still /\ UNCHANGED <<mem, current_pd_phys, processes, op, new, pt_phys, destroyed>>

(* Mutant: the stack is mapped without switching to the new directory. *)
SwitchSkipped ==
  /\ InSlot("switch")
  /\ stage' = "map"
  /\ Still /\ UNCHANGED <<used, mem, current_pd_phys, processes, op, new, phys, pt_phys, destroyed>>

(* The stack is mapped under the new directory. *)
SwitchToNew ==
  /\ InSlot("switch")
  /\ current_pd_phys' = new.dir
  /\ stage' = "map"
  /\ Still /\ UNCHANGED <<used, mem, processes, op, new, phys, pt_phys, destroyed>>

(* The code page is mapped to itself, which the identity table already     *)
(* does, and the shell's directory is loaded again.                        *)
MapCode ==
  /\ InSlot("code")
  /\ current_pd_phys' = KernelPD
  /\ stage' = "context"
  /\ Still /\ UNCHANGED <<used, mem, processes, op, new, phys, pt_phys, destroyed>>

(* With its registers set the process is complete. *)
SetContext ==
  /\ InSlot("context")
  /\ processes' = processes \cup {new}
  /\ new' = NoSlot /\ op' = "none" /\ stage' = "idle"
  /\ Still /\ UNCHANGED <<used, mem, current_pd_phys, phys, pt_phys, destroyed>>

(* The error path gives back the stacks and the directory; the slot keeps  *)
(* the directory it had.                                                   *)
Undo ==
  /\ InSlot("undo")
  /\ used' = used \ (({new.kstack, phys} \ {0}) \cup DestroyedFrames(mem, new.dir))
  /\ destroyed' = TRUE
  /\ new' = [NoSlot EXCEPT !.dir = new.dir]
  /\ phys' = 0 /\ op' = "none" /\ stage' = "idle"
  /\ Still /\ UNCHANGED <<mem, current_pd_phys, processes, pt_phys>>

process_create ==
  \/ BeginCreate \/ CreateDir \/ FillDir \/ CreateKernelStack \/ KeepKernelStack
  \/ CreateUserStack \/ SwitchToNew \/ MapCode \/ SetContext \/ Undo

-----------------------------------------------------------------------------
(* vmm_map_page under the loaded directory, for the command that runs. *)

(* get_page_table: the table is there, or a frame is taken for it. *)
GetTable ==
  /\ At("map")
  /\ IF mem[current_pd_phys][Pd] # None
     THEN stage' = "entry" /\ UNCHANGED <<used, pt_phys>>
     ELSE /\ pt_phys' = pmm_alloc_page(used)
          /\ pt_phys' # 0
          /\ used' = used \cup {pt_phys'}
          /\ stage' = "link"
  /\ Still /\ UNCHANGED <<mem, current_pd_phys, processes, op, new, phys, destroyed>>

(* Mutant: the error path stays on the directory it frees. *)
NoTableStays ==
  /\ At("map")
  /\ mem[current_pd_phys][Pd] = None /\ pmm_alloc_page(used) = 0
  /\ stage' = IF op = "create" THEN "undo" ELSE "free"
  /\ Still /\ UNCHANGED <<used, mem, current_pd_phys, processes, op, new, phys, pt_phys, destroyed>>

(* There is no frame: process_create goes back to the kernel's directory   *)
(* and undoes what it did, the others free their frame.                    *)
NoTable ==
  /\ At("map")
  /\ mem[current_pd_phys][Pd] = None /\ pmm_alloc_page(used) = 0
  /\ current_pd_phys' = KernelPD
  /\ stage' = IF op = "create" THEN "undo" ELSE "free"
  /\ Still /\ UNCHANGED <<used, mem, processes, op, new, phys, pt_phys, destroyed>>

(* The new table is cleared and entered in the directory. *)
LinkTable ==
  /\ At("link")
  /\ IF Writable(pt_phys)
     THEN /\ mem' = [mem EXCEPT ![pt_phys] = Blank, ![current_pd_phys][Pd] = pt_phys]
          /\ pt_phys' = 0
          /\ stage' = "entry"
          /\ Still /\ UNCHANGED <<used, current_pd_phys, processes, op, new, phys, destroyed>>
     ELSE Halt

(* The entry is set; from here on the slot and its directory hold the user *)
(* stack.                                                                  *)
SetEntry ==
  /\ At("entry")
  /\ mem' = [mem EXCEPT ![mem[current_pd_phys][Pd]][Pt] = phys]
  /\ IF op = "create"
     THEN stage' = "code" /\ new' = [new EXCEPT !.ustack = phys] /\ phys' = 0
     ELSE stage' = "use" /\ UNCHANGED <<new, phys>>
  /\ Still /\ UNCHANGED <<used, current_pd_phys, processes, op, pt_phys, destroyed>>

vmm_map_page == GetTable \/ NoTable \/ LinkTable \/ SetEntry

-----------------------------------------------------------------------------
(* The alloc command (a page mapped at 4 MB, written, unmapped and freed)  *)
(* and vmm_alloc_page in the usermode command start alike.                 *)
BeginTest(command) ==
  /\ At("idle")
  /\ phys' = pmm_alloc_page(used) /\ phys' # 0
  /\ used' = used \cup {phys'}
  /\ op' = command /\ stage' = "map"
  /\ Still /\ UNCHANGED <<mem, current_pd_phys, processes, new, pt_phys, destroyed>>

(* alloc writes to the page and unmaps it; its page table stays. *)
WriteAndUnmap ==
  /\ At("use") /\ op = "alloc"
  /\ IF phys \in Kernel
     THEN Halt
     ELSE /\ mem' = [mem EXCEPT ![mem[current_pd_phys][Pd]][Pt] = None]
          /\ stage' = "free"
          /\ Still /\ UNCHANGED <<used, current_pd_phys, processes, op, new, phys, pt_phys, destroyed>>

(* The system call of the user mode test stops the machine. *)
EnterUserMode == At("use") /\ op = "usermode" /\ Halt

FreePage ==
  /\ At("free")
  /\ used' = used \ {phys}
  /\ phys' = 0 /\ op' = "none" /\ stage' = "idle"
  /\ Still /\ UNCHANGED <<mem, current_pd_phys, processes, new, pt_phys, destroyed>>

test_commands == BeginTest("alloc") \/ BeginTest("usermode") \/ WriteAndUnmap \/ EnterUserMode \/ FreePage

-----------------------------------------------------------------------------
(* The commands that create processes start the scheduler when all of      *)
(* theirs exist; here it may start once one does.                          *)
scheduler_start ==
  /\ At("idle") /\ processes # {}
  /\ scheduling_enabled' = TRUE
  /\ UNCHANGED <<reserved, used, mem, current_pd_phys, processes, cpu, op, stage, new, phys, pt_phys, destroyed>>

(* A tick at any moment: scheduler_schedule loads the directory of a       *)
(* complete process, or the one in the slot being filled, READY from its   *)
(* first assignment on: 0, the one of an earlier failed creation, or the   *)
(* new one.  Its registers are not set, and switch_to_process ends in a    *)
(* fault or with interrupts off.  Nothing brings the shell back.           *)
Dispatch ==
  /\ scheduling_enabled /\ cpu # "halted"
  /\ \/ /\ \E p \in processes : current_pd_phys' = p.dir
        /\ cpu' = "process"
     \/ /\ op = "create"
        /\ current_pd_phys' = new.dir
        /\ cpu' = "halted"
  /\ UNCHANGED <<reserved, used, mem, processes, op, stage, new, phys, pt_phys, scheduling_enabled, destroyed>>

Next == process_create \/ vmm_map_page \/ test_commands \/ scheduler_start \/ Dispatch

Spec == Init /\ [][Next]_vars

-----------------------------------------------------------------------------
Dirs == {p.dir : p \in processes}

(* Directories whose frames are in use: the kernel's, those of processes   *)
(* and the one process_create is filling or was filling when interrupted.  *)
LiveDirs == {KernelPD} \cup Dirs \cup ({new.dir} \ {0})

(* Who would have to give frame f back: the slots of the process table and *)
(* of the tables that hold it, and the locals of the command that runs or  *)
(* was interrupted.  Entry 0 is the identity mapping; while alloc and      *)
(* usermode use their page, its entry holds it.                            *)
User == 1 .. UserEntries - 1
Owners(f) ==
  {<<"dir", d, 0, 0>> : d \in (LiveDirs \ {KernelPD}) \cap {f}}
  \cup {<<"kstack", p.dir, 0, 0>> : p \in {q \in processes \cup {new} : q.kstack = f}}
  \cup {o \in {<<"phys", 0, 0, 0>>} : stage \notin {"idle", "use"} /\ phys = f}
  \cup {o \in {<<"pt_phys", 0, 0, 0>>} : stage = "link" /\ pt_phys = f}
  \cup {o \in {"table"} \X LiveDirs \X User \X {0} : mem[o[2]][o[3]] = f}
  \cup {o \in {"page"} \X LiveDirs \X User \X Index : Translate(mem, o[2], o[3], o[4]) = f}

(* Until vmm_destroy_page_directory is called, a frame is in use exactly   *)
(* when one directory, table slot, kernel stack or local holds it,         *)
(* whatever the order of creations, of the other commands and of ticks: no *)
(* frame is shared, none is leaked by a command that ends, and all that a  *)
(* command interrupted for good leaks is in its own two locals.            *)
FramesAccounted ==
  ~destroyed =>
    \A f \in Frames \ reserved : Cardinality(Owners(f)) = IF f \in used THEN 1 ELSE 0

(* Every directory maps the low addresses to themselves, so that kernel    *)
(* code and the tables stay reachable whichever directory is loaded        *)
(* (vmm.c: "Also copy first 4MB identity mapping (needed for now)"); until *)
(* the frame of a table is freed by vmm_destroy_page_directory.            *)
IdentityEverywhere ==
  ~destroyed => \A d \in LiveDirs, j \in Index : Translate(mem, d, 0, j) = j

(* process_create switches to the new directory to map the user stack, so  *)
(* it is mapped in the directory of its process and in no other one; until *)
(* its frame is freed by vmm_destroy_page_directory.                       *)
StackIsPrivate ==
  ~destroyed =>
    \A p \in processes : \A d \in LiveDirs :
      Translate(mem, d, StackPd, LastPt) = p.ustack <=> d = p.dir

(* The shell runs on the kernel's directory, but for the time in which     *)
(* process_create maps the user stack, when it is on the new one: whether  *)
(* process_create succeeded or failed at any allocation it is back.        *)
DirectoryRestored ==
  cpu = "shell" =>
    current_pd_phys = IF op = "create" /\ stage \in {"map", "link", "entry", "code"}
                      THEN new.dir ELSE KernelPD

(* "Free user space page tables (not kernel ones)" (vmm.c:153): the frames *)
(* of the kernel are never given to the allocator.                         *)
KernelFramesStayUsed == Kernel \subseteq used
=============================================================================
