# A verification project for OS2Code

The repository holds several small systems around OS/2: **SimpleOS**, a 32-bit
x86 kernel with a shell (`simpleos-main/simpleos`); **OS2_Wrapper**, programs
that load and run OS/2 LE executables on Linux; an **SMP scheduler** and a
hardware layer (`side_project`); and **OS/Two** (`OPUS4.5`), a second, smaller
kernel. This directory models their state-changing core in TLA+, checks it with
TLC and proves part of it with TLAPS. Paths below are relative to `src/`.

## Inventory

### SimpleOS (`simpleos-main/simpleos`)

| Component | State | Operations | What makes it correct |
|---|---|---|---|
| Physical memory (`pmm.c`) | bitmap, `total_pages`, `used_pages` | init from the multiboot map, alloc and free of one or several pages, mark regions | no frame has two owners; no frame that is not memory is given out unless somebody freed it; counters exact |
| Event ring (`events.c`) | array, head, tail | `push_event` in interrupt handlers, `pop_event` in the main loop | order; nothing lost but the oldest of a full ring; pending events are handled as long as the loop runs |
| Processes (`process.c`, `scheduler.c`, `switch.asm`, `timer.c`) | table of PCBs, current process, next pid, enable flag | create, exit, tick, schedule, switch | table consistent with what runs; parents exist; everyone gets a turn |
| System calls (`syscall.c`, `usermode.c`, `dosapi.c`) | none of their own | exit, write, stubs | the exit of one process leaves the others |
| Virtual memory (`vmm.c`) | page directories and tables in frames, current directory | map, create and destroy directories, switch | frames accounted; kernel reachable under every directory; stacks private |
| RAM files (`ramfs.c`) | slots with name, data, size | create, write, append, read, delete, free space | a map from names to contents |
| Interrupts (`idt.c`, `isr.asm`, init functions) | handlers, masks, what is in service | set up devices, dispatch, end of interrupt | every byte of a device is read; no interrupt blocks the others |
| Keyboard, mouse (`keyboard.c`, `mouse.c`) | modifier flags; packet index, pointer, buttons | one callback per interrupt | no stuck modifier; one click per press; packets found again after a loss |
| Shell and screen (`kernel.c`, `vga.c`) | command line; cells and cursor | key, backspace, Enter, click | what is typed is what runs; the screen shows the line that Enter will run |

The parts meet as follows. Interrupt handlers run with interrupts off, one at a
time; the keyboard and mouse handlers push events, the timer handler calls the
scheduler. The main loop of `kmain` runs with interrupts on, takes one event per
turn and halts; its commands call `process_create`, the allocators and the file
system. The scheduler switches by loading a PCB and never saves one, so a tick
that switches abandons whatever the shell was doing for good, with the frames
that it held in locals, and the main loop with it.

### OS2_Wrapper, side_project, OPUS4.5

| Component | State | Operations | What makes it correct |
|---|---|---|---|
| Dos file calls (`os2_emulator.c`, copied into `os2_with_api.c`) | handle table | open, read, write, seek, close, delete | no descriptor leaks; a handle has a descriptor of its own |
| LE loaders (`os2_with_api.c`: os2run; `os2_loader.c`: os2loader) | buffers, mappings | read, check, map, copy, protect, run, free | everything released on every path; loaded memory is what the file says |
| SMP scheduler (`SMPScheduler.cpp`) | run queue per CPU, threads | create, schedule, yield, block, unblock, steal, set priority | a thread is in one queue or on one CPU; no lost wake-up |
| Hardware layer (`AbstractLayer.cpp`) | features, APIC mode, topology, clock | detect, read the ACPI tables, start the other processors | every processor that is listed is started; none that runs is reset |
| Analyzers (`newcode/newcode.cpp`, `newcode/dependency_analyzer.cpp`) | position in the name table, names stored | read the headers, read a name, list | every imported module in the file is listed |
| OS/Two keyboard and shell (`OPUS4.5/drivers/keyboard.cpp`, `OPUS4.5/shell/shell.cpp`) | shift and lock flags; line, current directory | one byte of the keyboard; parse and run a line | no shift outlives its keys; no word of a line is lost |
| OS/Two screen (`OPUS4.5/drivers/vga.cpp`) | cells, cursor, colour | put, backspace, scroll, clear, prompt | the screen shows the prompt and the line |

OS/Two has no interrupts: its shell polls the keyboard. The wrapper's programs
run one after the other in one Linux process: a loader, then the program it
loaded, which makes the Dos calls.

### What is hard to test here

Interrupts between any two memory accesses of `pop_event`; ticks inside
`process_create` and `alloc`; frees of frames that nobody was given; memory
that runs out at each stage of a creation; calls of several CPUs that overlap
outside the queue locks; lost mouse bytes, repeating keys and keys with a shift
of their own; `close`, `mmap` or `mprotect` failing in the middle of something;
32-bit arithmetic on the memory map and on file offsets; affinity masks without
a CPU; a guessed clock frequency; a clock that wraps in the middle of a wait;
tables of names that the file cuts short; typing that runs ahead of the main
loop; lines that wrap, scroll and are edited at a row's edge. `PROJECT.json`
lists each hazard at its line, with the properties that would catch it going
wrong.

## Modules

| Module | Models | Steps |
|---|---|---|
| `PMM` | `pmm.c` | one action per call; `pmm_init` is the initial condition, for every memory map |
| `EventQueue` | `events.c`, main loop | `push_event` one step; `pop_event` one step per memory access; leaving the loop for a process or for good |
| `EventFifo` | what the ring promises | abstract bounded queue that drops its oldest element |
| `Process` | `process.c`, `scheduler.c`, shell commands, exit | `process_create` in the stages between which a tick matters; tick; exit |
| `Vmm` | `vmm.c` as `process_create`, `alloc`, `usermode` and the scheduler use it | one step per allocation, write to a table or change of CR3 of `process_create`, `alloc` and `usermode`; a tick between any two |
| `RamFS`, `FileMap` | `ramfs.c`; the map it implements | one action per call |
| `Keyboard`, `Mouse` | the two drivers with their devices | one step per interrupt |
| `Console` | line editor and text screen | one step per event |
| `Interrupts` | `idt.c`, `isr.asm`, the init functions in `kmain`'s order | one step per init function up to where it waits, per interrupt taken, per handler |
| `SMPScheduler` | `SMPScheduler.cpp` | one step per locked section or access outside a lock |
| `InputPath` | `Console` behind the queue of `EventFifo`: the main loop's `switch` | one step per event pushed, one per turn of the main loop |
| `DosFile` | Dos file calls | one action per outcome of a call |
| `LELoader` | both loaders | one step per call that may fail |
| `Imports` | both analyzers | one step per name read |
| `Hal` | `AbstractLayer.cpp`: `hal_initialize`, `hal_smp_init`, `hal_start_ap` | one step per init function, message and turn of a wait |
| `OSTwoShell` | OS/Two's `getchar`, `readLine`, `parseCommand`, `executeCommand` and the commands | one step per byte of the keyboard |
| `OSTwoScreen` | OS/Two's `vga.cpp` under prompt, echo and output | one step per key, Enter or CLS |
| `MCPMM`, `MCEventQueue`, `MCProcess`, `MCVmm`, `MCSMPScheduler` | an instance of the module named | |
| `MCWrapper` | instances of `LELoader`, `DosFile`, `Imports` | one of the three active |
| `MCDevices` | instances of `Keyboard`, `Mouse`, `Interrupts`, `Hal` | one active |
| `MCShells` | instances of `RamFS`, `InputPath` (twice), `OSTwoShell`, `OSTwoScreen` | one active |
| `PMMProofs`, `EventQueueProofs`, `ProcessProofs`, `VmmProofs`, `SMPSchedulerProofs` | theorems about the module named | |
| `WrapperProofs`, `DeviceProofs`, `ShellProofs` | theorems about the components of `MCWrapper`, `MCDevices` and `MCShells` | |

Definitions carry the names of the source; `PROJECT.json` maps each to its
lines. In each module the definitions marked *Mutant* are wrong versions of the
definition that follows; each shows that a property can fail.

Abstractions worth knowing:

- *PMM* counts addresses in units of which `PageSize` make a page, so that
  regions may start and end inside a page; arithmetic wraps at `AddrSpace`
  (2^32). `held`, `usable` and `released` are history variables. Callers free
  whatever they like, as `pmm_free_page` tests only the bit; `released` are the
  frames that were freed by somebody who had not been given them.
- *EventQueue*: an event is a pair of equal tags, so that a copy that mixes two
  events shows. `raced` records that a push met a full ring while `pop_event`
  was reading. `Abandon` is a tick that dispatches a process: the loop is never
  resumed (`gone`), though handlers go on pushing; `HaltCommand` is `halt`,
  `reboot` or the system call of the user mode test (`halted`).
- *Process* abstracts memory to success or failure. `context` says whose
  registers a PCB holds; switching to a PCB with registers of an earlier
  process may or may not fault. `Exits` and `ProcessesCreate` widen the model
  beyond the shipped kernel: there `syscall_handler` gives call 1 to the user
  mode test, which stops the machine (`"hook"`), so that the `SYSCALL_EXIT`
  case (`"case"`), which `PROCESS_TERMINATION.md` documents, is not reached,
  and no call creates a process. Both are modelled because the table code is
  written for them; the proofs cover all settings.
- *Vmm* leaves out flag bits other than PRESENT. Frame 0 stands for low memory.
  A write beyond the identity mapping or into the kernel halts the model. `op`
  and `stage` say which command runs and what it does next, `phys`, `pt_phys`
  and `new` are its locals and the slot it fills. A tick may come at any stage:
  with a complete process (`cpu` is `"process"`), or with the READY slot that
  `process_create` is filling, whose directory is 0, that of an earlier failed
  creation, or the new one, and whose registers are not set. Either way the
  command is not resumed. The error path (`Undo`) is one step: it takes no
  frame, and nothing is claimed of frames after it. The scheduler may start
  once one process exists; the commands start it when their three or four
  exist, so the model has more behaviours than the code. The commands `halt`
  and `reboot`, which touch no frame, are left to *EventQueue*.
- *RamFS*: `Filename` is the shell's cut of a typed name to its maximal length.
- *SMPScheduler* leaves out `prev` pointers (never read) and time accounting.
  `find_best_cpu` reads `numa_node` of a new thread before it is set: any node.
  A mask is any set of bits, of which there are `MaskBits` (32); a bit may stand
  for no CPU, or for several when there are more CPUs than bits (the shift of an
  x86 processor is taken modulo 32).
- *DosFile* leaves out contents and positions, which Linux keeps. Linux's side
  (`OpenErrno`, `Did`, `fds`) is modelled from how the code uses it.
- *LELoader*: bytes come in units; a unit of memory is the file offset it was
  copied from. Imports and fixups only print. Files whose tables lie outside
  the file are not modelled.
- *Interrupts* models the two 8259 controllers (edge triggered, fixed
  priorities), the PIT and the 8042 with its single output buffer from how the
  code uses them. What the bytes say is left to *Keyboard* and *Mouse*. The
  firmware leaves any masks and perhaps a byte behind.
- *InputPath* takes the queue as `EventFifo` promises it, which `EventQueue` is
  proved to implement until a push races with `pop_event` on a full ring; a
  `CLICK` stands for the notice of the click handler. `intended` records what
  the pushed events ask for; after a dropped event it starts again from what
  the user sees when the queue is empty.
- *Keyboard*, *OSTwoShell*: the drivers do not know prefixes. A prefixed key may
  send the code of a shift around its own (`E0 2A`: PrintScreen, the grey keys
  with NumLock), and Pause that of Ctrl. To the drivers these are further shift
  and Ctrl keys: `PREFIXED` and `PAUSE` are down while such a key is, and a
  prefixed key that ends a shift (`Suspend`) does so for the other keys as well.
- *Hal*: `hal_acpi_find_table` is a stub that returns NULL, so that the shipped
  layer never sees a MADT or SRAT and leaves all ids 0; the readers of these
  tables are modelled for machines where they are found too, with entries of
  any type and of length 0. The counter has a frequency of its own beside the
  one that the code reads or guesses. Local APICs and the other processors are
  modelled from how the code uses them: a STARTUP counts only once 10 ms of
  true time have passed since INIT.
- *Imports*: lengths and characters are small numbers, so that a character read
  as a length shows; 3 stands for 255. The stack array of names starts with
  junk. The types of modules and of the application are constant lists that are
  only printed, and left out.
- *OSTwoShell*: commands, files and directories are words of one or two
  characters. `ctrl_pressed` and `alt_pressed` are set and never read, and left
  out. EXIT halts for good. A command gives the kind of its output and the
  directory after it; *OSTwoScreen* prints any output in any colour.
- An `MC` module with several components lets one of them step in a behaviour
  while the others stay as they started. The components of one such module
  share no variable, so that every behaviour of a component is one of the
  composed model, and each property speaks of one component. These modules
  declare the constants of their components and the `.cfg` gives the values;
  the terminals of `InputPath` are one record for each name of an instance, and
  the screen of OS/Two is a record too. The theorems are about every value that
  the assumptions of these modules allow.

## Runs

| Run | Shows | Bounds |
|---|---|---|
| `pmm` | counters exact, no frame given twice, no foreign frame but those freed by others, first fit | 8 frames of 2 units, 5 maps: holes, ragged ends, regions across and beyond the bitmap and up to 2^32 |
| `event_queue` | newest events kept in order, refinement of `EventFifo` (so nothing is lost or delivered twice but the drops), the ring is emptied again and again until the loop is left | 4 slots, 7 events: the ring fills, wraps and drops |
| `process` | table consistent, parents exist, faults explained, round robin while pids and slots agree | 4 slots, slice 1, 2 commands of 3 processes, 6 pids: the table fills, slots are reused |
| `vmm` | frames accounted, kernel mapped everywhere, stacks private, directory restored, with a tick at every step | 14 frames, 2 processes, maps with enough and with too little memory |
| `smp` | lists stay lists, no lost wake-up, summaries right, exclusive running | 2 CPUs on 2 nodes, 3 threads, 2 priorities, masks of 3 bits: the default, one CPU, a CPU that is not there |
| `wrapper` | handles and descriptors match, creations and truncations reported truly; nothing leaks, no fault in a copy, memory and protections as the file says; every import listed | 5 handles, 5 descriptors, two access modes: both tables can run out; 2 objects, pages of 2 units, files that hold none, part or all of the data; 3 names of up to 3 bytes in a file cut anywhere, 2 entries |
| `devices` | events follow keys (no stuck modifier), clicks, resynchronisation, no byte left unread, every listed processor started and none reset but one listed twice | 3 keys held; 4 by 3 pixels, 2 lost bytes; 4 APIC ids, 5 MADTs (none, an id twice, an x2APIC entry, an entry of length 0), a counter slower than, as fast as and faster than the guess, a clock that wraps after 64 counts |
| `shells` | what is typed is run, echo on both screens, lines of OS/Two understood, refinement of `FileMap` | queue of 2; screens of 3 by 4, 2 by 4 and 4 by 4 cells, lines of up to 6; 2 entries for up to 3 words; 2 slots of 3 bytes, 4 typed names, texts to one byte over the limit |
| `event_queue_race`, `process_starve`, `vmm_kernel`, `loader_fault` | the disagreements below | as small as they occur |

The bounds are chosen so that every limit of the code (full ring, full table,
no memory, last cell, one byte too many) is reached with one element to spare;
nothing in the code distinguishes larger sizes. In `smp` the constraint
`NotTwice` follows a behaviour up to the first call that enqueues a thread
already queued (see below): after it the lists are no lists. Symmetry is used
for the threads, with safety properties only. Deadlock is checked except where
the machine or program really stops: a halt (`event_queue`, `event_queue_race`,
`vmm`), a panic or an exit (`process`), the end of the program (`wrapper`), the
end of `hal_initialize` (`devices`), EXIT (`shells`).

**Fairness.** `EventQueue`: weak fairness of the main loop (the CPU runs it
whenever no handler runs, as long as it has the CPU) and of the timer interrupt
(the PIT is periodic); nothing is assumed of the devices, nor that the loop is
left or is not. Leaving it is an action: once a tick has dispatched a process
nothing comes back to slot 0 (`scheduler.c:50`), and `halt`, `reboot` and the
user mode test stop the machine; `Drains` is stated until then. `Process`: weak
fairness of a creation that has begun and of the tick. `devices`: the mouse
goes on sending; lost bytes are bounded; `kmain` and a handler that has begun
go on; the CPU takes the timer when it is requested (weak) and keyboard and
mouse when they are again and again the highest request (strong: a tick comes
every 10 ms and its handler is far shorter, so it is not always requested);
`hal_initialize` runs with nothing beside it and its clock advances, so its
steps go on. Resynchronisation also needs movement bytes with bit 3 clear, as
the instance has: a mouse that moves by -1 for ever sends bytes that look like
first bytes, and the driver may then stay out of step.

## Proofs

`tlapm` checks these for every value of the constants that the named
assumptions allow.

| Theorem | States | Under |
|---|---|---|
| `PMMProofs` `TypeCorrect`, `HeldFramesStayUsed`, `LoopIsFirstFit` | `TypeOK`, `HeldFramesAreUsed`, `FirstFit` | |
| `PMMProofs` `AccountingIsExact` | `UsedAccounting` | `~MarksAboveTotal` |
| `PMMProofs` `OwnFramesOnly` | `NoForeignFrame` | `RegularMaps` |
| `EventQueueProofs` `TypeCorrect`, `RingHoldsNewest`, `RingImplementsFifo` | `TypeOK`, `QueueHoldsNewest`, `RefinesFifo` | |
| `ProcessProofs` `TypeCorrect`, `TableConsistent`, `IdentifiersUnique`, `ParentsExist`, `CountsSuffice`, `FaultsHaveCauses` | `TypeOK`, `RunningIsCurrent`, `UniquePids`, `NoDanglingParent`, `ChildrenCounted`, `FaultsExplained` | |
| `VmmProofs` `Invariance`, `ShellDirectory`, `IdentityKept`, `StacksArePrivate`, `NothingShared` | `VmmInv`, `DirectoryRestored`, `IdentityEverywhere`, `StackIsPrivate`, `FramesAccounted` | |
| `WrapperProofs` `Released` | `NothingLeaks` | |
| `WrapperProofs` `CopiesAreSafe`, `LoadedIsFile` | `CopyDoesNotFault`, `MemoryMatchesFile` | `RegularFiles` |
| `WrapperProofs` `TableMatches`, `ReportsAreTrue`, `ImportsAreListed` | `HandlesMatch`, `ReportedIsTrue`, `ListsImports` | `WrapperAssumption` |
| `DeviceProofs` `PressesAreClicks`, `NoModifierSticks`, `NoneIsReset`, `DescribedAreStarted` | `ClickPerPress`, `EventsFollowKeys`, `RunningStays`, and `StartedAll`, the safety half of `AllStart` | `HardwareAssumption` |
| `ShellProofs` `Implementation` | `ImplementsFileMap` | |
| `ShellProofs` `TypedRuns`, `EchoesMatch` | `TypedIsRun`, `EchoMatches` | `TerminalAssumption` |
| `SMPSchedulerProofs` `Invariance`, `ListsStayLists`, `NoLostWakeup`, `SummariesExact`, `ExclusiveRunning` | `SMPInv`, `QueuedOnce`, `ReadyIsQueued`, `QueueSummary`, `RunsExclusively` | `~twice`, in the properties |

Hypotheses beside the named assumptions of the modules:

- `RegularMaps`: no entry of the memory map goes round the address space, the
  bitmap and the kernel end a page below 2^32, and no available page is touched
  by a reserved entry. `pmm_init` tests none of this; a map that breaks it does
  hand out foreign frames. `MCPMM` assumes it, so TLC evaluates it on the maps
  of the run. Nothing is assumed of what callers free.
- `RegularFiles`: the sums and products `load_objects` forms of an object's
  fields fit in 32 bits, and an object without a first page has no pages.
  Neither loader tests this. `MCWrapper` assumes it for the files of the run.
- `WrapperAssumption`: both handle tables have room for the three standard
  handles, as the code has (`MAX_HANDLES` is 256, Linux opens 0 to 2 at the
  start); tables of names are sequences of sequences of bytes, and the entries
  and lengths are numbers.
- `HardwareAssumption`: no key is both a modifier and something else; the first
  byte of a mouse packet has bit 3 set, as the PS/2 protocol says; no more
  processors are counted or listed than `cpus` has room for (256; neither
  `hal_detect_cpu_topology` nor `hal_parse_madt` tests it); the guess and the
  lengths of the clock are not zero. Nothing else is assumed of the tables.
- `SMPAssumption`: CPUs are numbered from 0; a mask is any set of bits. The
  number of CPUs may be larger than the number of bits.
- `TerminalAssumption`: sizes are positive; keys and prompts have no control
  characters, which are what `keyboard_callback`, `getchar` and the shells'
  constant prompts give; what a command prints ends with a line feed, as all
  commands do, and on OS/Two has no backspace. On OS/Two a prompt and the
  longest line fit below the first row (at most 67 and 255 of its 80 by 25
  cells: `current_dir` has 64 bytes, `MAX_CMD_LENGTH` is 256). For SimpleOS
  nothing relates the length of the line to the screen.

`WrapperAssumption`, `HardwareAssumption` and `TerminalAssumption` are
assumptions of the `MC` modules, `SMPAssumption` of `SMPScheduler`, so that TLC
evaluates them on the instances of the runs.

The arguments:

- `PMM`: `HeldFramesAreUsed` is inductive together with `TypeOK`; the
  accounting counts the set bits below `total_pages` across each change of the
  bitmap; `NoForeignFrame` is inductive with the fact that every clear bit is
  that of a usable or released frame, which for the bitmap of `pmm_init` is the
  arithmetic of page boundaries. `FirstFit` is about a loop, written as a
  recursive function. That the function exists (`ScanExists`) and that its
  invariant `Progress` holds at every index (`start` and `consecutive` describe
  the longest run of free frames that ends there, and no run of the wanted
  length lies before) are shown from the least number at which they would fail,
  since the library's induction theorems cannot be instantiated.
- `EventQueue`: the inductive invariant `RingInv` adds to the contents of the
  ring what `pop_event` has in its locals at each program counter: the index it
  read is still the tail, the half-copied event is the oldest one, the new tail
  is the next index, as long as no push has raced with it. Without it the store
  of the tail could not be shown to remove exactly the event delivered.
- `Process`: `IInv` joins the properties with `CreationInv`: the slot under
  construction is a ready process, is not the current one and has no children.
  This is what makes giving the slot back on failure, or abandoning it at a
  tick, harmless for parents and counts. `ChildrenCounted` is needed for
  `NoDanglingParent`: an exit looks for children only if its count is positive.
  `FaultsExplained` needs `RegistersInv`: which slots may hold the registers of
  another process, and that this takes a second command.
- `Vmm`: `VmmInv` says what CR3, the locals and the slot are at every step of
  every command, also one that a tick has stopped for good, and, until a
  directory is destroyed, that directories, tables and stacks form a `Tree`:
  each frame in use has one owner (a directory, a table slot, a stack or a
  local), a table belongs to one entry of one directory, and all directories
  share the table of the identity mapping and nothing else. A tick changes CR3
  and who has the CPU but no owner, so the frames of an abandoned command stay
  with its locals: at most the frame it maps and one page table. Sharing of
  the identity table is why `vmm_destroy_page_directory` breaks the invariant,
  which the run `vmm_kernel` shows on its own.
- `RamFS`: the refinement mapping takes a name to the first `size` bytes of its
  slot. `RamInv` says that a name is in one slot at most and that sizes are
  bounded; the steps then map one to one, and a failed call to a stutter or a
  failure of the map.
- `LELoader`: `LoaderInv` says what the loader holds at every program counter
  and that each object mapped so far has been copied and protected as its entry
  says; the two theorems on contents add the arithmetic of `AllocSize`,
  `PageOffset` and the adjusted `copy_size` without wrap-around.
- `DosFile`: `TableInv` adds to `HandlesMatch` the types of the tables and that
  the standard handles stay where they are, whichever order opens, failing
  closes and full tables come in.
- `Imports`: `Prefixes` gives the bytes before each name. `ToolInv` says
  that a reader stands at such a boundary, with exactly the names before it
  listed, until it meets one that the file cuts, or for the analyzer one that
  it does not accept. That `Prefixes` is a function, that its lengths grow and
  that a table agrees with it on each name are shown from the least index at
  which they would fail. `Whole` is then the boundary at which both stop.
- `Mouse`: until a byte is lost the driver is at the byte that the device sends
  next and has kept the first one, so that the third byte compares the buttons
  of one packet with those of the last.
- `Keyboard`: each flag implies that one of its keys is down (`KeysInv`), a
  prefixed one included; the converse fails.
- `Hal`: `HalInv` says, for each program counter, which ids have been stored
  (or that all are 0), that the processors started are those of the ids before
  `i`, and what the wait knows of the clock: the time since the start of the
  wait is at least what the difference of two clock readings says, unless the
  clock wrapped (`ModGap`, and quotients of numbers that go up) or the counter
  is faster than the code takes it to be. Hence a STARTUP comes after its 10 ms
  and counts, also if the same id had been started before.
- `InputPath`: `intended` is what `After` makes of the line and the last one
  that ran with the events in the queue. `After` of a longer queue, or of the
  rest of one, is shown to agree with it event by event (`AfterPush`,
  `AfterTurn`); a push and a turn of the main loop then keep the equation.
- The screens: both drivers are reduced to one picture, cells in rows and a
  cursor (`Clear`, `Shows`, `Written`, `Rolled`, `Lands`), with lemmas about
  writing, deleting and scrolling in it. That the line is shown is not
  inductive: output that leaves something behind the cursor would be written
  over by the next prompt and then deleted back to. The invariant adds that the
  cells behind the cursor are blank. During output only the rows below the
  cursor's are (a carriage return or a tab moves inside a row); the line feed at
  its end makes that the cells behind the cursor again. SimpleOS keeps the whole
  line until a backspace at column 0 (`stuck`), even if its beginning has
  scrolled off; OS/Two, whose backspace goes back over the edge of a row, needs
  that it never scrolls off: else a backspace could delete at the wrong cell in
  the first row. `printf` and `puts` are loops over a text and are followed by
  the least index at which the invariant would fail.
- `SMPScheduler`: `SMPInv` describes the lists without following them. There are
  a set of queued threads, a CPU and a priority for each of them, and ranks that
  fall along `next` (`Shape`): every queued thread is the head of its queue or
  the `next` of exactly one other. To this come what is queued and the counts
  (`Content`), who moves which thread to where (`Hands`) and who runs which
  (`Owners`: the `current` of a CPU inside a call may be left over and is not
  counted). Putting in front, taking the head and unlinking in the middle keep
  `Shape` with a new set and new ranks (`PushShape`, `PopShape`, `UnlinkShape`).
  The properties speak of positions in the queues, which `Walk` computes: that
  the walk exists, visits exactly the queued threads, never twice, and ends
  after at most as many steps as there are threads is shown from least
  counterexamples, the falling ranks and counting. The invariant is claimed
  until `twice` is set; that it is lost after that is the code's behaviour (see
  below), not a restriction of the proof. The model has one step per locked
  section, so `QueueSummary` says nothing about moments at which a lock is held.

Only model-checked:

- liveness (`Drains`, `AlignedRoundRobin`, `Resynchronises`, `Drained`,
  `AllStart`, of which `DescribedAreStarted` proves the safety half): the prover
  has no fairness or ENABLED;
- `LineUnderstood`: it compares what several recursive functions and a
  selection from a sequence compute of a line.

## Where the code and its words disagree

Shown by a run:

- `event_queue_race`: `pop_event` is not protected from `push_event`; on a full
  ring more than the oldest event is lost (`events.c:18`).
- `process_starve`: `find_next_process` takes the pid for the slot; after a
  failed creation a ready process may never run
  (`PROCESS_MANAGEMENT_SUCCESS.md:26`).
- `vmm_kernel`: a failed `process_create` destroys a directory that shares the
  identity mapping, and so frees the kernel's frames (`vmm.c:153`).
- `loader_fault`: os2loader gives an object its final protection and then
  copies its data in, so that every executable with code faults while it is
  loaded (`os2_loader.c:227` against `os2Loader.md:6` and `:17`). os2run, which
  protects after the copy, does not (`CopyDoesNotFault`).

Visible in the models, as the condition of a property or as an action:

- `PMM`: a memory map entry at or above 4 GB is truncated to 32 bits and clears
  the bits of low frames (`pmm.c:94`). Marking beyond `total_pages` would spoil
  the counters (`pmm.c:226`), but nothing calls the marking functions, nor
  `pmm_alloc_pages` and `pmm_free_pages`: the kernel takes single pages.
  `pmm_free_page` accepts frames that were never given out, reserved ones
  included (`pmm.c:203`), and they are given out afterwards: `released` in
  `NoForeignFrame`.
- `EventQueue`: once a process has been dispatched the main loop never runs
  again, whatever is typed: `gone` in `Drains`.
- `Process`, `Vmm`: a slot is READY before it is complete (`process.c:86`), so a
  tick during a second command runs it, with registers that are not set (the
  second cause in `FaultsExplained`) and a directory that may be 0 or stale (the
  second branch of `Dispatch`). A tick in the middle of a command abandons it:
  in `process_create` and in `alloc` (`kernel.c:202-225`) the frames in locals
  are leaked.
- `Process`: a failed creation leaves the parent's `child_count` raised; an
  exit stops the machine (`syscall.c:33` against `PROCESS_TERMINATION.md:31`),
  so that exits, reparenting and the counts that `NoDanglingParent` and
  `ChildrenCounted` speak of are not reached in the shipped kernel; the shell
  never runs again once a process does (`scheduler.c:50` against
  `kernel.c:308`).
- `SMPScheduler`: a change of priority enqueues a ready thread without removing
  it (`SMPScheduler.cpp:370`, "Remove and re-add"); two CPUs that unblock one
  thread both enqueue it; the current thread goes back to the head of its queue,
  so a thread of equal priority starves (`side_project/readme.md:189`). A mask
  that names no CPU is accepted, and the thread runs on CPU 0, outside its mask
  (`SMPScheduler.cpp:172`): `Allowed` in `RunsExclusively`. With 32 CPUs or more
  a bit stands for several CPUs, and the default mask, "All CPUs" (`:330`), does
  not name all of them: for a multiple of 32 it is empty.
- `DosFile`: the action reported is derived from the request
  (`os2_emulator.c:231`); after a failed close a handle may share a descriptor.
- `LELoader`: os2loader leaves an object that the file cuts short empty
  (`os2_loader.c:226`).
- `Imports`: after an empty name, or one of 255 bytes, the analyzer reads the
  characters of names as lengths and lists names that are none
  (`dependency_analyzer.cpp:246`): `Regular` in `ListsImports`. Not modelled,
  since it only prints: `get_module_type` calls `PMSHAPI` and `PMVIOP`
  Presentation Manager modules (`:117-119`), but `detect_app_type` looks for
  `PMWIN` and `PMGPI` alone (`:144`), so that an application that imports only
  those two is not taken for a Presentation Manager one.
- `Hal`: the clock is `tsc * 10^9` modulo 2^64, which goes back every 2^64 /
  10^9 counts and then ends "Wait 10ms" at once (`AbstractLayer.cpp:441`,
  `:454`); without CPUID leaf 0x15 the frequency is taken to be 2.4 GHz
  (`:431`), and on a faster counter the wait is shorter: both are in `InTime`,
  the condition of `AllStart`. Without a MADT, as shipped (`:343`), every id is
  0: depending on its own id the processor starts nobody or resets APIC 0 once
  per thread, which is why `RunningStays` excepts ids that are listed again.
  Processors that a MADT describes by x2APIC entries are passed over (`:359`);
  an entry of length 0 is read for ever (`:368`). Without an x2APIC the
  registers are reached through `apic_base_virt`, which nothing sets:
  `x2apic_mode` in `AllStart`. Thread numbers are split from ids that are
  stored only later (`:178`).
- `OSTwoShell`: letting go of one of two shift keys ends the shift, and the
  shift of a prefixed key is taken for a shift key
  (`OPUS4.5/drivers/keyboard.cpp:92`); a directory is looked up from the root
  wherever the shell is.
- `OSTwoScreen`: the prompt sets grey again, so that COLOR has no effect on
  what is typed.
- `Keyboard`: a held Caps Lock toggles with every repeat (`keyboard.c:87`);
  letting go of one of two shift keys ends the shift; while a prefixed key with
  a shift of its own is held, events carry shift and letters are capitals
  (`keyboard.c:69-80`), though no shift key is down: such a key counts as one in
  `EventsFollowKeys`.
- `Interrupts`: a key struck during `mouse_init` is read as the controller's
  configuration and written back (`mouse.c:176`); nothing unmasks the cascade
  line, which the mouse needs (`mouse.c:191`). Both are conditions of `Drained`.
- `Console`: a backspace at column 0 shortens the line but not the screen.

## Not modelled

- Boot code, boot screens and descriptor tables: constant tables and register
  moves; their effect is built into the models.
- Text formatting and graphics (`printf`, `graphics.c`), and OS/Two's string
  functions: pure output, or one loop each.
- `save_current_context`, `irq_mask`, `timer_sleep`, `events_clear`,
  `hal_apic_send_eoi`: no callers. Unmapping of page ranges.
- The types of modules and applications that the analyzers print.
- Dos calls that are one library call (`DosSleep`, `DosAllocMem`,
  `DosPutMessage`, ...) and the lookup of API names in os2run.
- That the shell of SimpleOS never runs again once a process does
  (`scheduler.c:50`), and that a thread of equal priority starves
  (`SMPScheduler.cpp:386`): both are certain in the code, and stated above.

## What could follow

1. A proof of `LineUnderstood`: `CaseBlind` needs that `parseCommand` commutes
   with `to_upper`, `WordsKept` a definition of `Squeezed` by positions.
2. A composition of `Process` and `Vmm` over `PMM`, to relate the failures of
   creation to the frames that are left.
