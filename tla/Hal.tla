-------------------------------- MODULE Hal --------------------------------
(***************************************************************************)
(* The start of a multiprocessor by the hardware layer (AbstractLayer.cpp):*)
(* hal_initialize finds the processors, hal_smp_init starts them one after *)
(* the other with INIT and two STARTUP messages, and waits in between on a *)
(* clock that is computed from the time stamp counter and wraps.           *)
(*                                                                         *)
(* hal_acpi_find_table is a stub that finds nothing, which leaves every id *)
(* 0; the code that reads the tables is modelled for machines where it     *)
(* finds them as well.  The local APICs and the other processors are       *)
(* modelled from how the code uses them.                                   *)
(***************************************************************************)
EXTENDS Integers, Sequences, FiniteSets

CONSTANTS
  Machines,           \* [x2apic, bsp, logical, smt_ids, madt, srat, frequency, leaf15]: see Init
  Ids,                \* APIC ids
  Slots,              \* the entries of cpus, 256
  Word,               \* 2^64
  Nano, Guess,        \* 1000000000 and 2400000000
  InitWait,           \* 10 ms, in ns
  StartWait,          \* 200 us, in ns
  FirstTsc,           \* values of the time stamp counter when the HAL starts
  MaxStep             \* bound: counts between two reads of the counter

VARIABLES
  machine,            \* the hardware, which does not change
  pc,                 \* what runs next
  features, x2apic_mode,
  num_threads, cpus,  \* g_hal_info.topology: [apic_id, thread_id, numa_node]
  tsc_frequency,      \* what the code takes for the frequency of the counter
  bsp_apic_id, i,     \* the locals of hal_smp_init
  tsc, start,         \* the counter, and the local start of hal_start_ap
  ap,                 \* what each processor does: [state, since]
  wrapped             \* history: the clock went back during a wait

topology == <<num_threads, cpus>>
apic == <<features, x2apic_mode>>
vars == <<machine, pc, apic, topology, tsc_frequency, bsp_apic_id, i, tsc, start, ap, wrapped>>

NoTable == <<>>
Index == 0 .. Slots - 1

(* A machine has an x2APIC or only an xAPIC; bsp is the id of the          *)
(* processor that runs this code; logical is what CPUID says of the number *)
(* of threads, smt_ids how many ids a core has (0 without leaf 0xB); madt  *)
(* and srat are the entries of the two tables; frequency is that of the    *)
(* counter, and leaf15 what CPUID says of it (0 without leaf 0x15).        *)
Init ==
  /\ machine \in Machines
  /\ pc = "features" /\ features = {} /\ x2apic_mode = FALSE
  /\ num_threads = 0
  /\ cpus = [k \in Index |-> [apic_id |-> 0, thread_id |-> 0, numa_node |-> 0]]
  /\ tsc_frequency = 0 /\ bsp_apic_id = 0 /\ i = 0
  /\ tsc \in FirstTsc /\ start = 0
  /\ ap = [a \in Ids |-> [state |-> IF a = machine.bsp THEN "running" ELSE "off", since |-> 0]]
  /\ wrapped = FALSE

-----------------------------------------------------------------------------
(* hal_initialize. *)

(* Only one of the features is looked at later. *)
hal_detect_cpu_features ==
  /\ pc = "features" /\ pc' = "apic"
  /\ features' = IF machine.x2apic THEN {"x2apic"} ELSE {}
  /\ UNCHANGED <<machine, x2apic_mode, topology, tsc_frequency, bsp_apic_id, i, tsc, start>>
  /\ UNCHANGED <<ap, wrapped>>

(* Without an x2APIC the registers are accessed through apic_base_virt,    *)
(* which nothing sets.                                                     *)
hal_apic_init ==
  /\ pc = "apic" /\ pc' = "topology"
  /\ x2apic_mode' = ("x2apic" \in features)
  /\ UNCHANGED <<machine, features, topology, tsc_frequency, bsp_apic_id, i, tsc, start>>
  /\ UNCHANGED <<ap, wrapped>>

(* The ids are split before hal_parse_madt has stored them. *)
hal_detect_cpu_topology ==
  /\ pc = "topology" /\ pc' = "madt"
  /\ num_threads' = machine.logical
  /\ cpus' = IF machine.smt_ids = 0 THEN cpus
             ELSE [k \in Index |-> IF k < machine.logical
                                   THEN [cpus[k] EXCEPT !.thread_id = cpus[k].apic_id % machine.smt_ids]
                                   ELSE cpus[k]]
  /\ UNCHANGED <<machine, apic, tsc_frequency, bsp_apic_id, i, tsc, start, ap, wrapped>>

(* The parsers go from entry to entry by the length that an entry states.  *)
NeverEnds(table) == \E n \in DOMAIN table : table[n].length = 0

(* Local APIC entries, of type 0; a processor that is described by another *)
(* one, of type 9 for an x2APIC, is passed over.                           *)
EnabledIn(m) == SelectSeq(m.madt, LAMBDA e : e.type = 0 /\ e.enabled)
Enabled == EnabledIn(machine)

(* What a parser that never ends has stored is not looked at (an enabled   *)
(* entry of length 0 is stored over and over, up to the end of the memory).*)
hal_parse_madt ==
  /\ pc = "madt" /\ pc' = IF NeverEnds(machine.madt) THEN "endless" ELSE "srat"
  /\ IF machine.madt = NoTable \/ NeverEnds(machine.madt) THEN UNCHANGED topology
     ELSE /\ num_threads' = Len(Enabled)
          /\ cpus' = [k \in Index |-> IF k < Len(Enabled)
                                      THEN [cpus[k] EXCEPT !.apic_id = Enabled[k + 1].apic_id]
                                      ELSE cpus[k]]
  /\ UNCHANGED <<machine, apic, tsc_frequency, bsp_apic_id, i, tsc, start, ap, wrapped>>

(* An entry of type 0 sets the first processor with its id; the last entry *)
(* wins.                                                                   *)
hal_parse_srat ==
  /\ pc = "srat" /\ pc' = IF NeverEnds(machine.srat) THEN "endless" ELSE "calibrate"
  /\ LET first(id) == {k \in Index : /\ k < num_threads /\ cpus[k].apic_id = id
                                     /\ \A j \in 0 .. k - 1 : cpus[j].apic_id # id}
         entries(k) == {n \in DOMAIN machine.srat : /\ machine.srat[n].type = 0
                                                   /\ k \in first(machine.srat[n].apic_id)}
         last(k) == CHOOSE n \in entries(k) : \A m \in entries(k) : m <= n
     IN  cpus' = [k \in Index |-> IF entries(k) = {} THEN cpus[k]
                                  ELSE [cpus[k] EXCEPT !.numa_node = machine.srat[last(k)].domain]]
  /\ UNCHANGED <<machine, apic, num_threads, tsc_frequency, bsp_apic_id, i, tsc, start>>
  /\ UNCHANGED <<ap, wrapped>>

(* The frequency that CPUID states, or a guess. *)
hal_calibrate_tsc ==
  /\ pc = "calibrate" /\ pc' = "smp"
  /\ tsc_frequency' = IF machine.leaf15 # 0 THEN machine.leaf15 ELSE Guess
  /\ UNCHANGED <<machine, apic, topology, bsp_apic_id, i, tsc, start, ap, wrapped>>

-----------------------------------------------------------------------------
(* hal_get_nanoseconds: the product is reduced modulo 2^64. *)
hal_get_nanoseconds(t) == ((t * Nano) % Word) \div tsc_frequency

(* A processor takes a STARTUP message if InitWait has passed since INIT,  *)
(* and not while it is running.  One ns is lost in rounding.               *)
Ready(a) ==
  ap[a].state = "init" /\ (tsc - ap[a].since) * Nano > (InitWait - 1) * machine.frequency

(* hal_apic_send_ipi; without an x2APIC the message is stored somewhere. *)
hal_apic_send_ipi(a, message) ==
  ap' = IF ~x2apic_mode THEN ap
        ELSE IF message = "INIT" THEN [ap EXCEPT ![a] = [state |-> "init", since |-> tsc]]
        ELSE IF Ready(a) THEN [ap EXCEPT ![a].state = "running"]
        ELSE ap

(* Without an x2APIC this is what the memory at 0x20 holds. *)
hal_apic_get_id == IF x2apic_mode THEN {machine.bsp} ELSE Ids

(* hal_smp_init, up to its loop. *)
hal_smp_init ==
  /\ pc = "smp" /\ pc' = "next"
  /\ bsp_apic_id' \in hal_apic_get_id
  /\ UNCHANGED <<machine, apic, topology, tsc_frequency, i, tsc, start, ap, wrapped>>

(* Mutant: the running processor is not skipped. *)
NoSkip ==
  /\ pc = "next" /\ i < num_threads /\ i' = i
  /\ pc' = "init"
  /\ UNCHANGED <<machine, apic, topology, tsc_frequency, bsp_apic_id, tsc, start, ap, wrapped>>

(* The loop of hal_smp_init: the running processor is skipped. *)
Skip ==
  /\ pc = "next" /\ i < num_threads
  /\ IF cpus[i].apic_id = bsp_apic_id THEN i' = i + 1 /\ pc' = "next"
     ELSE i' = i /\ pc' = "init"
  /\ UNCHANGED <<machine, apic, topology, tsc_frequency, bsp_apic_id, tsc, start, ap, wrapped>>

Finish ==
  /\ pc = "next" /\ i >= num_threads /\ pc' = "done"
  /\ UNCHANGED <<machine, apic, topology, tsc_frequency, bsp_apic_id, i, tsc, start, ap, wrapped>>

(* A message of hal_start_ap, and the clock read behind it. *)
Send(message, from, to) ==
  /\ pc = from /\ pc' = to
  /\ hal_apic_send_ipi(cpus[i].apic_id, message)
  /\ start' = hal_get_nanoseconds(tsc)
  /\ UNCHANGED <<machine, apic, topology, tsc_frequency, bsp_apic_id, i, tsc, wrapped>>

SendInit == Send("INIT", "init", "init wait")
SendStartup == Send("STARTUP", "startup", "startup wait")

(* The second STARTUP message ends hal_start_ap. *)
SendSecond ==
  /\ pc = "second" /\ pc' = "next" /\ i' = i + 1
  /\ hal_apic_send_ipi(cpus[i].apic_id, "STARTUP")
  /\ UNCHANGED <<machine, apic, topology, tsc_frequency, bsp_apic_id, tsc, start, wrapped>>

(* One turn of a wait: the difference is reduced modulo 2^64 as well. *)
Wait(duration, from, to) ==
  /\ pc = from
  /\ \E step \in 1 .. MaxStep : tsc' = tsc + step
  /\ LET now == hal_get_nanoseconds(tsc')
     IN  /\ pc' = IF (now - start) % Word < duration THEN from ELSE to
         /\ wrapped' = (wrapped \/ now < start)
  /\ UNCHANGED <<machine, apic, topology, tsc_frequency, bsp_apic_id, i, start, ap>>

(* Mutant: the first wait is as short as the second. *)
WaitShort == Wait(StartWait, "init wait", "startup")

WaitInit == Wait(InitWait, "init wait", "startup")
WaitStartup == Wait(StartWait, "startup wait", "second")

Next ==
  \/ hal_detect_cpu_features \/ hal_apic_init \/ hal_detect_cpu_topology
  \/ hal_parse_madt \/ hal_parse_srat \/ hal_calibrate_tsc
  \/ hal_smp_init \/ Skip \/ Finish
  \/ SendInit \/ WaitInit \/ SendStartup \/ WaitStartup \/ SendSecond

Spec == Init /\ [][Next]_vars /\ WF_vars(Next)
-----------------------------------------------------------------------------
(* The ids that hal_smp_init finds in cpus: without a table all are 0. *)
Listed ==
  IF machine.madt = NoTable THEN {id \in {0} : machine.logical > 0}
  ELSE {Enabled[n].apic_id : n \in DOMAIN Enabled}

(* The waits are as long as they should be: the counter is no faster than  *)
(* the code takes it to be, and the clock did not wrap during one.         *)
InTime == tsc_frequency >= machine.frequency /\ ~wrapped

(* hal_smp_init ends, unless a table has an entry of length 0, and then    *)
(* the processors that it lists run, in addition to its own, and no others *)
(* do: each was given INIT, the time to settle and a STARTUP, also if an   *)
(* id is listed twice.  This needs an x2APIC and waits that are not short. *)
AllStart ==
  <>[](\/ /\ pc = "endless"
          /\ NeverEnds(machine.madt) \/ NeverEnds(machine.srat)
       \/ /\ pc = "done"
          /\ x2apic_mode /\ InTime =>
               \A a \in Ids : ap[a].state = "running" <=> a = machine.bsp \/ a \in Listed)

(* hal_smp_init never resets the processor it runs on, and one that it has *)
(* started only if the id is listed once more (as 0 is without a table).   *)
RunningStays ==
  [][\A a \in Ids : ap[a].state = "running" /\ ap'[a].state # "running" =>
       a # machine.bsp /\ \E j \in 0 .. i - 1 : cpus[j].apic_id = a]_vars
=============================================================================
