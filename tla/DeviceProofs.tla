---------------------------- MODULE DeviceProofs ----------------------------
(***************************************************************************)
(* Proofs about the device drivers: mouse_callback and keyboard_callback   *)
(* for every sequence of bytes and keys, and the start of the processors   *)
(* for every MADT.                                                         *)
(***************************************************************************)
EXTENDS MCDevices, TLAPS

-----------------------------------------------------------------------------
(* Until a byte is lost, the driver is at the byte of the packet that the  *)
(* device sends next, and has kept the first one.                          *)
MouseInv ==
  /\ lost \in Nat
  /\ lost = 0 =>
       /\ phase \in 0 .. 2 /\ head \in Heads
       /\ DOMAIN mouse_bytes = 1 .. 3 /\ (phase # 0 => mouse_bytes[1] = head)
       /\ M!ClickPerPress

LEMMA MouseInit == ASSUME M!Init PROVE MouseInv
BY DEF M!Init, MouseInv, M!ClickPerPress

LEMMA MouseSame == ASSUME MouseInv, UNCHANGED mouse PROVE MouseInv'
BY DEF MouseInv, mouse, M!ClickPerPress

LEMMA MouseSendStep == ASSUME MouseInv, M!SendByte PROVE MouseInv'
<1>1. PICK data \in M!Bytes : M!mouse_callback(data) /\ M!Advance /\ UNCHANGED lost
  BY DEF M!SendByte
<1> SUFFICES ASSUME lost = 0
             PROVE  /\ phase' \in 0 .. 2 /\ head' \in Heads
                    /\ DOMAIN mouse_bytes' = 1 .. 3 /\ (phase' # 0 => mouse_bytes'[1] = head')
                    /\ clicks' = presses' /\ mouse_buttons' = held' /\ mouse_cycle' = phase'
  BY <1>1 DEF MouseInv, M!ClickPerPress
<1>2. /\ phase \in 0 .. 2 /\ head \in Heads
      /\ DOMAIN mouse_bytes = 1 .. 3 /\ (phase # 0 => mouse_bytes[1] = head)
      /\ clicks = presses /\ mouse_buttons = held /\ mouse_cycle = phase
  BY DEF MouseInv, M!ClickPerPress
<1>3. CASE phase = 0
  <2>1. data = head /\ M!Bit(data, 3)
    BY <1>2, <1>3, HardwareAssumption DEF M!Bytes
  <2>2. phase' = 1 /\ UNCHANGED <<head, held, presses>>
    BY <1>1, <1>3 DEF M!Advance
  <2>3. M!FirstByte(data)
    BY <1>1, <1>2, <1>3 DEF M!mouse_callback, M!SecondByte, M!ThirdByte
  <2> QED
    BY <1>2, <2>1, <2>2, <2>3 DEF M!FirstByte
<1>4. CASE phase = 1
  <2>1. phase' = 2 /\ UNCHANGED <<head, held, presses>>
    BY <1>1, <1>4 DEF M!Advance
  <2>2. M!SecondByte(data)
    BY <1>1, <1>2, <1>4 DEF M!mouse_callback, M!FirstByte, M!ThirdByte
  <2> QED
    BY <1>2, <1>4, <2>1, <2>2 DEF M!SecondByte
<1>5. CASE phase = 2
  <2>1. /\ phase' = 0 /\ head' \in Heads
        /\ held' = M!ButtonsOf(head) /\ presses' = M!ButtonsOf(head) \ held
    BY <1>1, <1>5 DEF M!Advance
  <2>2. M!ThirdByte(data)
    BY <1>1, <1>2, <1>5 DEF M!mouse_callback, M!FirstByte, M!SecondByte
  <2>3. /\ mouse_cycle' = 0 /\ mouse_bytes' = [mouse_bytes EXCEPT ![3] = data]
        /\ clicks' = M!ButtonsOf(mouse_bytes[1]) \ mouse_buttons
        /\ mouse_buttons' = M!ButtonsOf(mouse_bytes[1])
    BY <2>2 DEF M!ThirdByte
  <2> QED
    BY <1>2, <1>5, <2>1, <2>3
<1> QED
  BY <1>2, <1>3, <1>4, <1>5

LEMMA MouseLoseStep == ASSUME MouseInv, M!LoseByte PROVE MouseInv'
BY DEF MouseInv, M!LoseByte

(* ClickPerPress is an invariant for every screen and every packet that    *)
(* the device sends: mouse_callback turns each press of a button into one  *)
(* click event, however long the button is held.                           *)
THEOREM PressesAreClicks == Spec => []ClickPerPress
<1>1. Init => MouseInv
  BY MouseInit DEF Init
<1>2. MouseInv /\ [Next]_vars => MouseInv'
  <2> SUFFICES ASSUME MouseInv, [Next]_vars PROVE MouseInv'
    OBVIOUS
  <2>1. CASE UNCHANGED mouse
    BY <2>1, MouseSame
  <2>2. CASE MouseSends
    BY <2>2, MouseSendStep DEF MouseSends
  <2>3. CASE MouseLoses
    BY <2>3, MouseLoseStep DEF MouseLoses
  <2> QED
    BY <2>1, <2>2, <2>3 DEF Next, vars, KeyboardStep, Interrupts, HalStep
<1>3. MouseInv => ClickPerPress
  BY DEF MouseInv, ClickPerPress, M!ClickPerPress
<1> QED
  BY <1>1, <1>2, <1>3, PTL DEF Spec

-----------------------------------------------------------------------------
(* A flag is set only while one of the keys that share it is held. *)
KeysInv ==
  /\ shift_pressed \in BOOLEAN /\ ctrl_pressed \in BOOLEAN /\ alt_pressed \in BOOLEAN
  /\ caps_lock \in BOOLEAN
  /\ shift_pressed => down \cap K!ShiftKeys # {}
  /\ ctrl_pressed => down \cap K!CtrlKeys # {}
  /\ alt_pressed => down \cap K!AltKeys # {}

(* The event that a byte of the keyboard makes. *)
EventRight ==
  event' # event =>
    /\ event'.key \in down'
    /\ event'.shift => down \cap K!ShiftKeys # {}
    /\ event'.ctrl => down \cap K!CtrlKeys # {}
    /\ event'.alt => down \cap K!AltKeys # {}
    /\ down \cap K!ShiftKeys = {} => event'.upper = (caps_lock /\ event'.key \in Letters)

LEMMA KeysInit == ASSUME K!Init PROVE KeysInv
BY DEF K!Init, KeysInv

(* The flag of some keys, for one of them and for another key. *)
LEMMA FlagKept ==
  ASSUME NEW flag \in BOOLEAN, NEW flagAfter \in BOOLEAN, NEW held1, NEW held2, NEW Sharing, NEW key,
         NEW released \in BOOLEAN, flag => held1 \cap Sharing # {},
         held2 = IF released THEN held1 \ {key} ELSE held1 \cup {key},
         \/ key \in Sharing /\ flagAfter = ~released
         \/ key \notin Sharing /\ flagAfter = flag
  PROVE  flagAfter => held2 \cap Sharing # {}
<1>1. CASE key \in Sharing /\ flagAfter = ~released
  BY <1>1
<1>2. CASE key \notin Sharing /\ flagAfter = flag
  BY <1>2
<1> QED
  BY <1>1, <1>2

(* keyboard_callback, for a key that goes down, repeats or goes up. *)
LEMMA KeyStep ==
  ASSUME KeysInv, NEW key \in K!Keys, NEW released \in BOOLEAN, K!keyboard_callback(key, released),
         down' = IF released THEN down \ {key} ELSE down \cup {key}
  PROVE  KeysInv' /\ EventRight
<1>1. /\ (Letters \cup Others \cup Mute) \cap (K!ShiftKeys \cup K!CtrlKeys \cup K!AltKeys \cup {"CAPS"}) = {}
      /\ K!ShiftKeys \cap K!CtrlKeys = {} /\ K!ShiftKeys \cap K!AltKeys = {} /\ K!CtrlKeys \cap K!AltKeys = {}
      /\ "CAPS" \notin K!ShiftKeys \cup K!CtrlKeys \cup K!AltKeys
  BY HardwareAssumption DEF K!ModifierKeys, K!ShiftKeys, K!CtrlKeys, K!AltKeys
<1>2. CASE K!ShiftKey(key, released)
  <2>1. /\ key \in K!ShiftKeys /\ shift_pressed' = ~released
        /\ UNCHANGED <<ctrl_pressed, alt_pressed, caps_lock, event>>
    BY <1>2, Zenon DEF K!ShiftKey
  <2>2. key \notin K!CtrlKeys /\ key \notin K!AltKeys
    BY <1>1, <2>1
  <2>3. (shift_pressed' => down' \cap K!ShiftKeys # {}) /\ shift_pressed' \in BOOLEAN
    BY <2>1, FlagKept DEF KeysInv
  <2>4. /\ ctrl_pressed' => down' \cap K!CtrlKeys # {}
        /\ alt_pressed' => down' \cap K!AltKeys # {}
    BY <2>1, <2>2, FlagKept DEF KeysInv
  <2> QED
    BY <2>1, <2>3, <2>4 DEF KeysInv, EventRight
<1>3. CASE K!CtrlKey(key, released)
  <2>1. /\ key \in K!CtrlKeys /\ ctrl_pressed' = ~released
        /\ UNCHANGED <<shift_pressed, alt_pressed, caps_lock, event>>
    BY <1>3, Zenon DEF K!CtrlKey
  <2>2. key \notin K!ShiftKeys /\ key \notin K!AltKeys
    BY <1>1, <2>1
  <2>3. (ctrl_pressed' => down' \cap K!CtrlKeys # {}) /\ ctrl_pressed' \in BOOLEAN
    BY <2>1, FlagKept DEF KeysInv
  <2>4. /\ shift_pressed' => down' \cap K!ShiftKeys # {}
        /\ alt_pressed' => down' \cap K!AltKeys # {}
    BY <2>1, <2>2, FlagKept DEF KeysInv
  <2> QED
    BY <2>1, <2>3, <2>4 DEF KeysInv, EventRight
<1>4. CASE K!AltKey(key, released)
  <2>1. /\ key \in K!AltKeys /\ alt_pressed' = ~released
        /\ UNCHANGED <<shift_pressed, ctrl_pressed, caps_lock, event>>
    BY <1>4, Zenon DEF K!AltKey
  <2>2. key \notin K!ShiftKeys /\ key \notin K!CtrlKeys
    BY <1>1, <2>1
  <2>3. (alt_pressed' => down' \cap K!AltKeys # {}) /\ alt_pressed' \in BOOLEAN
    BY <2>1, FlagKept DEF KeysInv
  <2>4. /\ shift_pressed' => down' \cap K!ShiftKeys # {}
        /\ ctrl_pressed' => down' \cap K!CtrlKeys # {}
    BY <2>1, <2>2, FlagKept DEF KeysInv
  <2> QED
    BY <2>1, <2>3, <2>4 DEF KeysInv, EventRight
<1>5. ASSUME key \notin K!ShiftKeys \cup K!CtrlKeys \cup K!AltKeys, UNCHANGED K!modifiers,
             caps_lock' \in BOOLEAN
      PROVE  KeysInv'
  <2>1. UNCHANGED <<shift_pressed, ctrl_pressed, alt_pressed>>
    BY <1>5 DEF K!modifiers
  <2>2. /\ shift_pressed' => down' \cap K!ShiftKeys # {}
        /\ ctrl_pressed' => down' \cap K!CtrlKeys # {}
        /\ alt_pressed' => down' \cap K!AltKeys # {}
    BY <1>5, <2>1, FlagKept DEF KeysInv
  <2> QED
    BY <1>5, <2>1, <2>2 DEF KeysInv
<1>6. CASE K!CapsKey(key, released)
  <2>1. key = "CAPS" /\ UNCHANGED <<K!modifiers, event>> /\ caps_lock' \in BOOLEAN
    BY <1>6 DEF K!CapsKey, KeysInv
  <2> QED
    BY <1>1, <1>5, <2>1 DEF EventRight
<1>7. CASE K!CharKey(key, released)
  <2>1. key \in Letters \cup Others \cup Mute /\ UNCHANGED <<K!modifiers, caps_lock>>
    BY <1>7 DEF K!CharKey
  <2>2. KeysInv'
    BY <1>1, <1>5, <2>1 DEF KeysInv
  <2>3. ASSUME event' # event
        PROVE  /\ key \in down'
               /\ event' = [key |-> key, upper |-> K!Upper(key), shift |-> shift_pressed,
                            ctrl |-> ctrl_pressed, alt |-> alt_pressed]
    BY <1>7, <2>3 DEF K!CharKey
  <2>4. ASSUME down \cap K!ShiftKeys = {} PROVE K!Upper(key) = (caps_lock /\ key \in Letters)
    <3>1. shift_pressed = FALSE
      BY <2>4 DEF KeysInv
    <3> QED
      BY <3>1, Zenon DEF K!Upper, KeysInv
  <2> QED
    BY <2>2, <2>3, <2>4 DEF EventRight, KeysInv
<1> QED
  BY <1>2, <1>3, <1>4, <1>6, <1>7 DEF K!keyboard_callback

LEMMA KeyboardSteps == ASSUME KeysInv, [Next]_vars PROVE KeysInv' /\ (EventRight \/ UNCHANGED K!vars)
<1>1. CASE UNCHANGED keyboard
  BY <1>1 DEF keyboard, K!vars, KeysInv
<1>2. CASE K!Suspend
  <2>1. shift_pressed' = FALSE /\ UNCHANGED <<ctrl_pressed, alt_pressed, caps_lock, event, down>>
    BY <1>2 DEF K!Suspend, K!ShiftKey
  <2> QED
    BY <2>1 DEF KeysInv, EventRight
<1>3. CASE \E key \in K!Keys : K!Press(key) \/ K!Repeat(key) \/ K!Release(key)
  <2>1. PICK key \in K!Keys : K!Press(key) \/ K!Repeat(key) \/ K!Release(key)
    BY <1>3
  <2>2. CASE K!Press(key)
    BY <2>2, KeyStep DEF K!Press
  <2>3. CASE K!Repeat(key)
    <3>1. down' = down \cup {key}
      BY <2>3 DEF K!Repeat
    <3> QED
      BY <2>3, <3>1, KeyStep DEF K!Repeat
  <2>4. CASE K!Release(key)
    BY <2>4, KeyStep DEF K!Release
  <2> QED
    BY <2>1, <2>2, <2>3, <2>4
<1> QED
  BY <1>1, <1>2, <1>3
  DEF Next, vars, K!Next, KeyboardStep, MouseSends, MouseLoses, Interrupts, HalStep

(* EventsFollowKeys for every keyboard: keyboard_callback pushes events    *)
(* only for keys that go down or repeat, and no modifier sticks to them,   *)
(* in whatever order the keys that share a flag go down, repeat and go up, *)
(* those included that send a shift or a Ctrl of their own.                *)
THEOREM NoModifierSticks == Spec => EventsFollowKeys
<1>1. Init => KeysInv
  BY KeysInit DEF Init
<1>2. KeysInv /\ [Next]_vars => KeysInv'
  BY KeyboardSteps
<1>3. KeysInv /\ [Next]_vars =>
        [event' # event =>
           /\ event'.key \in down'
           /\ event'.shift => down \cap K!ShiftKeys # {}
           /\ event'.ctrl => down \cap K!CtrlKeys # {}
           /\ event'.alt => down \cap K!AltKeys # {}
           /\ down \cap K!ShiftKeys = {}
                => event'.upper = (caps_lock /\ event'.key \in Letters)]_(K!vars)
  BY KeyboardSteps DEF EventRight
<1> QED
  BY <1>1, <1>2, <1>3, PTL DEF Spec, EventsFollowKeys, K!EventsFollowKeys
-----------------------------------------------------------------------------
LEMMA DivMod ==
  ASSUME NEW x \in Int, NEW d \in Nat \ {0}
  PROVE  x \div d \in Int /\ x % d \in 0 .. d - 1 /\ x = d * (x \div d) + (x % d)
<1>1. x % d \in 0 .. d - 1
  OBVIOUS
<1>2. x \div d \in Int
  OBVIOUS
<1>3. x = d * (x \div d) + (x % d)
  OBVIOUS
<1> QED
  BY <1>1, <1>2, <1>3

LEMMA TimesMonotone ==
  ASSUME NEW x \in Int, NEW y \in Int, NEW n \in Nat, x <= y
  PROVE  n * x <= n * y
OBVIOUS

(* Reduction does not lengthen a difference of numbers that go up. *)
LEMMA ModGap ==
  ASSUME NEW x \in Int, NEW y \in Int, x <= y, NEW d \in Nat \ {0}
  PROVE  (y % d) - (x % d) <= y - x
<1>1. PICK p \in Int, r \in 0 .. d - 1 : r = x % d /\ x = d * p + r
  BY DivMod
<1>2. PICK q \in Int, s \in 0 .. d - 1 : s = y % d /\ y = d * q + s
  BY DivMod
<1>3. p <= q
  <2> SUFFICES ASSUME q + 1 <= p PROVE FALSE
    OBVIOUS
  <2>1. d * (q + 1) <= d * p
    BY TimesMonotone
  <2>2. d * (q + 1) = d * q + d
    OBVIOUS
  <2>3. d * q \in Int /\ d * p \in Int
    OBVIOUS
  <2> QED
    BY <1>1, <1>2, <2>1, <2>2, <2>3
<1>4. d * p <= d * q
  BY <1>3, TimesMonotone
<1>5. d * p \in Int /\ d * q \in Int
  OBVIOUS
<1> QED
  BY <1>1, <1>2, <1>4, <1>5

(* Quotients that are n apart are of numbers more than (n - 1) * d apart. *)
LEMMA DivGap ==
  ASSUME NEW a \in Int, NEW b \in Int, NEW d \in Nat \ {0}, NEW n \in Int,
         (b \div d) - (a \div d) >= n
  PROVE  b - a > (n - 1) * d
<1>1. PICK p \in Int, r \in 0 .. d - 1 : p = a \div d /\ a = d * p + r
  BY DivMod
<1>2. PICK q \in Int, s \in 0 .. d - 1 : q = b \div d /\ b = d * q + s
  BY DivMod
<1>3. d * (n + p) <= d * q
  BY <1>1, <1>2, TimesMonotone
<1>4. d * (n + p) = d * n + d * p /\ (n - 1) * d = d * n - d
  OBVIOUS
<1>5. d * n \in Int /\ d * p \in Int /\ d * q \in Int
  OBVIOUS
<1> QED
  BY <1>1, <1>2, <1>3, <1>4, <1>5

-----------------------------------------------------------------------------
Early == {"features", "apic", "topology", "madt", "srat", "calibrate", "smp", "endless"}
Unread == {"features", "apic", "topology", "madt"}
Starting == {"init", "init wait", "startup", "startup wait", "second"}
Started == {"startup wait", "second"}
Looping == Starting \cup {"next", "done"}
Parsed == Looping \cup {"srat", "calibrate", "smp"}
Target == cpus[i].apic_id
Table == H!EnabledIn(machine)

HalTypes ==
  /\ machine \in Machines /\ hal_pc \in Early \cup Looping
  /\ i \in Nat /\ tsc \in Nat /\ wrapped \in BOOLEAN
  /\ tsc_frequency \in Nat /\ (hal_pc \in Looping \cup {"smp"} => tsc_frequency # 0)
  /\ DOMAIN cpus = 0 .. Slots - 1 /\ \A k \in 0 .. Slots - 1 : "apic_id" \in DOMAIN cpus[k]
  /\ ap \in [Ids -> [state : {"off", "init", "running"}, since : Nat]]

(* The ids before and after hal_parse_madt. *)
Zeroes == \A k \in 0 .. Slots - 1 : cpus[k].apic_id = 0
FromTable ==
  num_threads = Len(Table) /\ \A k \in 0 .. Len(Table) - 1 : cpus[k].apic_id = Table[k + 1].apic_id

Stored ==
  /\ hal_pc \in Unread => Zeroes
  /\ hal_pc = "madt" => num_threads = machine.logical
  /\ hal_pc \in Parsed /\ machine.madt = H!NoTable => Zeroes /\ num_threads = machine.logical
  /\ hal_pc \in Parsed /\ machine.madt # H!NoTable => FromTable

(* Until hal_smp_init only the processor that runs it runs. *)
NoneStarted ==
  hal_pc \in Early => i = 0 /\ \A a \in Ids : ap[a].state = "running" <=> a = machine.bsp

(* In its loop no processors run but its own, those before the i-th and    *)
(* the one that is being started.                                          *)
Loop ==
  /\ bsp_apic_id = machine.bsp /\ i <= num_threads
  /\ hal_pc \in Starting => i < num_threads /\ Target # machine.bsp
  /\ hal_pc = "done" => i = num_threads
  /\ ap[machine.bsp].state = "running"
  /\ \A a \in Ids : ap[a].state = "running" =>
       \/ a = machine.bsp \/ \E j \in 0 .. i - 1 : cpus[j].apic_id = a
       \/ hal_pc \in Started /\ a = Target

(* If the waits are long enough the processors before the i-th run, unless *)
(* one has the id that is being started, and this is so far.               *)
Progress ==
  /\ \A j \in 0 .. i - 1 : \/ ap[cpus[j].apic_id].state = "running"
                           \/ hal_pc \in {"init wait", "startup"} /\ cpus[j].apic_id = Target
  /\ hal_pc = "init wait" =>
       /\ ap[Target].state = "init" /\ ap[Target].since <= tsc
       /\ start = H!hal_get_nanoseconds(ap[Target].since)
  /\ hal_pc = "startup" => H!Ready(Target)
  /\ hal_pc \in Started => ap[Target].state = "running"

HalInv ==
  /\ HalTypes /\ Stored /\ NoneStarted
  /\ x2apic_mode /\ hal_pc \in Looping => Loop /\ (H!InTime => Progress)

(* A processor that runs is reset only if its id was met before. *)
Keeps ==
  \A a \in Ids : ap[a].state = "running" /\ ap'[a].state # "running" =>
    a # machine.bsp /\ \E j \in 0 .. i - 1 : cpus[j].apic_id = a

LEMMA TableFacts ==
  ASSUME HalTypes
  PROVE  /\ machine.bsp \in Ids /\ Len(Table) \in 0 .. Slots /\ machine.logical \in 0 .. Slots
         /\ \A n \in 1 .. Len(Table) : Table[n].apic_id \in Ids
         /\ DOMAIN Table = 1 .. Len(Table) /\ Slots \in Nat /\ 0 \in Ids
         /\ machine.frequency \in Nat /\ machine.leaf15 \in Nat
BY HardwareAssumption DEF HalTypes, Table

(* The ids in cpus. *)
LEMMA StoredFacts ==
  ASSUME HalTypes, Stored, hal_pc \in Parsed
  PROVE  /\ num_threads \in 0 .. Slots /\ num_threads \in Nat
         /\ \A j \in 0 .. num_threads - 1 : cpus[j].apic_id \in Ids
<1>1. CASE machine.madt = H!NoTable
  BY <1>1, TableFacts DEF Stored, Zeroes
<1>2. CASE machine.madt # H!NoTable
  <2>1. FromTable
    BY <1>2 DEF Stored
  <2>2. \A k \in 0 .. Len(Table) - 1 : k + 1 \in 1 .. Len(Table)
    BY TableFacts
  <2> QED
    BY <2>1, <2>2, TableFacts DEF FromTable
<1> QED
  BY <1>1, <1>2

LEMMA HalInit == ASSUME H!Init PROVE HalInv
<1>1. HalTypes
  BY HardwareAssumption DEF H!Init, H!Index, HalTypes, Early, Looping, Starting
<1>2. Stored /\ NoneStarted /\ hal_pc \in Early /\ hal_pc \notin Looping
  BY DEF H!Init, H!Index, Stored, Zeroes, NoneStarted, Unread, Early, Looping, Starting, Parsed
<1> QED
  BY <1>1, <1>2 DEF HalInv

LEMMA HalSame == ASSUME HalInv, UNCHANGED hal PROVE HalInv' /\ Keeps
<1>1. /\ UNCHANGED <<machine, hal_pc, x2apic_mode, num_threads, cpus, tsc_frequency>>
      /\ UNCHANGED <<bsp_apic_id, i, tsc, start, ap, wrapped>>
  BY DEF hal
<1>2. /\ H!InTime' = H!InTime /\ Table' = Table /\ Target' = Target
      /\ H!Ready(Target)' = H!Ready(Target)
  BY <1>1 DEF H!InTime, Table, Target, H!Ready
<1>3. HalTypes' = HalTypes
  BY <1>1 DEF HalTypes
<1>4. Stored' = Stored /\ NoneStarted' = NoneStarted
  BY <1>1, <1>2 DEF Stored, Zeroes, FromTable, NoneStarted
<1>5. Loop' = Loop
  BY <1>1, <1>2 DEF Loop
<1>6. Progress' = Progress
  BY <1>1, <1>2 DEF Progress, H!hal_get_nanoseconds
<1>7. Keeps
  BY <1>1 DEF Keeps
<1> QED
  BY <1>1, <1>2, <1>3, <1>4, <1>5, <1>6, <1>7 DEF HalInv

(* The steps of hal_initialize before hal_smp_init. *)
LEMMA EarlyStep ==
  ASSUME HalInv, \/ H!hal_detect_cpu_features \/ H!hal_apic_init \/ H!hal_detect_cpu_topology
                 \/ H!hal_parse_madt \/ H!hal_parse_srat \/ H!hal_calibrate_tsc
  PROVE  HalInv' /\ Keeps
<1>1. HalTypes /\ Stored /\ NoneStarted
  BY DEF HalInv
<1>2. /\ hal_pc \in Early /\ hal_pc' \in Early /\ hal_pc' \notin Looping
      /\ UNCHANGED <<machine, i, tsc, ap, wrapped>>
  BY DEF H!hal_detect_cpu_features, H!hal_apic_init, H!hal_detect_cpu_topology, H!hal_parse_madt,
         H!hal_parse_srat, H!hal_calibrate_tsc, Early, Looping, Starting
<1>3. /\ DOMAIN cpus' = 0 .. Slots - 1 /\ \A k \in 0 .. Slots - 1 : "apic_id" \in DOMAIN cpus'[k]
      /\ Stored'
  <2>1. CASE H!hal_detect_cpu_features \/ H!hal_apic_init
    <3>1. hal_pc \in Unread /\ hal_pc' \in Unread \ {"madt"} /\ hal_pc' \notin Parsed /\ UNCHANGED cpus
      BY <2>1 DEF H!hal_detect_cpu_features, H!hal_apic_init, H!topology, Unread, Parsed, Looping, Starting
    <3> QED
      BY <1>1, <3>1 DEF HalTypes, Stored, Zeroes
  <2>2. CASE H!hal_detect_cpu_topology
    <3>1. /\ hal_pc \in Unread /\ hal_pc' = "madt" /\ hal_pc' \notin Parsed
          /\ num_threads' = machine.logical
      BY <2>2 DEF H!hal_detect_cpu_topology, Unread, Parsed, Looping, Starting
    <3>2. /\ DOMAIN cpus' = 0 .. Slots - 1
          /\ \A k \in 0 .. Slots - 1 : /\ "apic_id" \in DOMAIN cpus'[k]
                                       /\ cpus'[k].apic_id = cpus[k].apic_id
      BY <1>1, <2>2 DEF H!hal_detect_cpu_topology, H!Index, HalTypes
    <3> QED
      BY <1>1, <1>2, <3>1, <3>2 DEF Stored, Zeroes
  <2>3. CASE H!hal_calibrate_tsc
    <3>1. /\ hal_pc \in Parsed /\ hal_pc' = "smp" /\ hal_pc' \notin Unread
          /\ UNCHANGED <<cpus, num_threads>>
      BY <2>3 DEF H!hal_calibrate_tsc, H!topology, Parsed, Unread
    <3> QED
      BY <1>1, <1>2, <3>1 DEF HalTypes, Stored, Zeroes, FromTable, Table
  <2>4. CASE H!hal_parse_madt
    <3>1. hal_pc = "madt" /\ hal_pc \in Unread /\ hal_pc' \in {"srat", "endless"} /\ hal_pc' \notin Unread
      BY <2>4 DEF H!hal_parse_madt, Unread
    <3>2. CASE UNCHANGED H!topology /\ (machine.madt = H!NoTable \/ hal_pc' = "endless")
      <4>1. hal_pc' = "endless" => hal_pc' \notin Parsed
        BY DEF Parsed, Looping, Starting
      <4> QED
        BY <1>1, <1>2, <3>1, <3>2, <4>1 DEF H!topology, HalTypes, Stored, Zeroes
    <3>3. CASE /\ machine.madt # H!NoTable
               /\ num_threads' = Len(Table)
               /\ cpus' = [k \in 0 .. Slots - 1 |->
                             IF k < Len(Table) THEN [cpus[k] EXCEPT !.apic_id = Table[k + 1].apic_id]
                             ELSE cpus[k]]
      <4>1. Table' = Table
        BY <1>2 DEF Table
      <4>2. DOMAIN cpus' = 0 .. Slots - 1 /\ \A k \in 0 .. Slots - 1 : "apic_id" \in DOMAIN cpus'[k]
        BY <1>1, <3>3 DEF HalTypes
      <4>3. \A k \in 0 .. Len(Table) - 1 : cpus'[k].apic_id = Table[k + 1].apic_id
        <5>1. \A k \in 0 .. Len(Table) - 1 : k \in 0 .. Slots - 1 /\ k < Len(Table)
          BY <1>1, TableFacts
        <5> QED
          BY <1>1, <3>3, <5>1 DEF HalTypes
      <4> QED
        BY <1>2, <3>1, <3>3, <4>1, <4>2, <4>3 DEF Stored, FromTable
    <3> QED
      BY <2>4, <3>2, <3>3 DEF H!hal_parse_madt, H!Index, H!Enabled, Table
  <2>5. CASE H!hal_parse_srat
    <3>1. /\ DOMAIN cpus' = 0 .. Slots - 1
          /\ \A k \in 0 .. Slots - 1 : /\ "apic_id" \in DOMAIN cpus'[k]
                                       /\ cpus'[k].apic_id = cpus[k].apic_id
      BY <1>1, <2>5 DEF H!hal_parse_srat, H!Index, HalTypes
    <3>2. hal_pc = "srat" /\ hal_pc' \notin Unread /\ UNCHANGED num_threads /\ Table' = Table
      BY <1>2, <2>5 DEF H!hal_parse_srat, Table, Unread
    <3>3. \A k \in 0 .. Len(Table) - 1 : k \in 0 .. Slots - 1
      BY <1>1, TableFacts
    <3> QED
      BY <1>1, <1>2, <3>1, <3>2, <3>3 DEF Stored, Zeroes, FromTable, Unread, Parsed
  <2> QED
    BY <2>1, <2>2, <2>3, <2>4, <2>5
<1>4. HalTypes'
  <2>1. tsc_frequency' \in Nat /\ (hal_pc' = "smp" => tsc_frequency' # 0)
    <3>1. CASE H!hal_calibrate_tsc
      BY <1>1, <3>1, TableFacts, HardwareAssumption DEF H!hal_calibrate_tsc
    <3>2. CASE ~H!hal_calibrate_tsc
      <4>1. UNCHANGED tsc_frequency /\ hal_pc' # "smp"
        BY <3>2 DEF H!hal_detect_cpu_features, H!hal_apic_init, H!hal_detect_cpu_topology,
                    H!hal_parse_madt, H!hal_parse_srat
      <4> QED
        BY <1>1, <4>1 DEF HalTypes
    <3> QED
      BY <3>1, <3>2
  <2> QED
    BY <1>1, <1>2, <1>3, <2>1 DEF HalTypes
<1>5. NoneStarted'
  BY <1>1, <1>2 DEF NoneStarted
<1>6. Keeps
  BY <1>2 DEF Keeps
<1> QED
  BY <1>2, <1>3, <1>4, <1>5, <1>6 DEF HalInv

(* The steps of hal_smp_init that send no message and do not wait. *)
LEMMA LoopStep ==
  ASSUME HalInv, H!hal_smp_init \/ H!Skip \/ H!Finish
  PROVE  HalInv' /\ Keeps
<1>1. HalTypes /\ Stored /\ NoneStarted
  BY DEF HalInv
<1>2. /\ UNCHANGED <<machine, H!apic, H!topology, tsc_frequency, tsc, start, ap, wrapped>>
      /\ i' \in {i, i + 1} /\ hal_pc \in {"smp", "next"} /\ hal_pc' \in {"next", "init", "done"}
  BY DEF H!hal_smp_init, H!Skip, H!Finish
<1>3. /\ UNCHANGED <<num_threads, cpus, x2apic_mode, machine>> /\ Table' = Table
      /\ H!InTime' = H!InTime
  BY <1>2 DEF H!topology, H!apic, Table, H!InTime
<1>4. HalTypes' /\ Stored' /\ NoneStarted' /\ Keeps
  <2>1. i' \in Nat
    BY <1>1, <1>2 DEF HalTypes
  <2>2. hal_pc' \in Looping /\ hal_pc' \notin Early /\ hal_pc \in Looping \cup {"smp"}
    BY <1>2 DEF Looping, Starting, Early
  <2>3. HalTypes'
    BY <1>1, <1>2, <1>3, <2>1, <2>2 DEF HalTypes
  <2>4. hal_pc' \notin Unread /\ hal_pc \in Parsed
    BY <1>2 DEF Unread, Parsed, Looping
  <2>5. Stored'
    BY <1>1, <1>2, <1>3, <2>4 DEF Stored, Zeroes, FromTable, Unread
  <2>6. NoneStarted' /\ Keeps
    BY <1>2, <2>2 DEF NoneStarted, Keeps
  <2> QED
    BY <2>3, <2>5, <2>6
<1>5. ASSUME x2apic_mode PROVE Loop' /\ (H!InTime => Progress')
  <2>1. /\ num_threads \in Nat
        /\ \A j \in 0 .. num_threads - 1 : cpus[j].apic_id \in Ids
    BY <1>1, <1>2, StoredFacts DEF Parsed, Looping
  <2>2. CASE H!hal_smp_init
    <3>1. /\ hal_pc = "smp" /\ hal_pc' = "next" /\ UNCHANGED i
          /\ bsp_apic_id' = machine.bsp
      BY <1>5, <2>2 DEF H!hal_smp_init, H!hal_apic_get_id
    <3>2. i = 0 /\ \A a \in Ids : ap[a].state = "running" <=> a = machine.bsp
      BY <1>1, <3>1 DEF NoneStarted, Early
    <3> QED
      BY <1>1, <1>2, <1>3, <2>1, <3>1, <3>2, TableFacts DEF Loop, Progress, Starting, Started
  <2>3. CASE H!Skip \/ H!Finish
    <3>1. Loop /\ (H!InTime => Progress) /\ hal_pc = "next" /\ UNCHANGED bsp_apic_id
      BY <1>5, <2>3 DEF HalInv, H!Skip, H!Finish, Looping
    <3>2. CASE H!Finish
      <4>1. UNCHANGED i /\ hal_pc' = "done" /\ i = num_threads
        BY <1>1, <2>1, <3>1, <3>2 DEF H!Finish, HalTypes, Loop
      <4> QED
        BY <1>2, <1>3, <3>1, <4>1 DEF Loop, Progress, Starting, Started
    <3>3. CASE H!Skip /\ Target = bsp_apic_id
      <4>1. i' = i + 1 /\ hal_pc' = "next" /\ i < num_threads
        BY <3>3 DEF H!Skip, Target
      <4>2. ap[Target].state = "running"
        BY <3>1, <3>3 DEF Loop
      <4>3. \A j \in 0 .. i : j \in 0 .. i - 1 \/ j = i
        BY <1>1 DEF HalTypes
      <4>4. Loop'
        <5>1. i' <= num_threads /\ \A j \in 0 .. i - 1 : j \in 0 .. i' - 1
          BY <1>1, <2>1, <4>1 DEF HalTypes
        <5> QED
          BY <1>2, <1>3, <3>1, <4>1, <5>1 DEF Loop, Starting, Started
      <4>5. H!InTime => Progress'
        <5>1. \A j \in 0 .. i' - 1 : j \in 0 .. i - 1 \/ j = i
          BY <1>1, <4>1 DEF HalTypes
        <5> QED
          BY <1>2, <1>3, <3>1, <4>1, <4>2, <5>1 DEF Progress, Target, Started
      <4> QED
        BY <4>4, <4>5
    <3>4. CASE H!Skip /\ Target # bsp_apic_id
      <4>1. UNCHANGED i /\ hal_pc' = "init" /\ i < num_threads
        BY <3>4 DEF H!Skip, Target
      <4> QED
        BY <1>2, <1>3, <3>1, <3>4, <4>1 DEF Loop, Progress, Target, Started
    <3> QED
      BY <2>3, <3>2, <3>3, <3>4
  <2> QED
    BY <2>2, <2>3
<1> QED
  BY <1>2, <1>3, <1>4, <1>5 DEF HalInv

(* A message changes the state of a processor and nothing else. *)
LEMMA SendTypes ==
  ASSUME HalTypes, NEW a, NEW m, H!hal_apic_send_ipi(a, m)
  PROVE  ap' \in [Ids -> [state : {"off", "init", "running"}, since : Nat]]
<1>1. CASE ap' = ap
  BY <1>1 DEF HalTypes
<1>2. CASE ap' = [ap EXCEPT ![a] = [state |-> "init", since |-> tsc]]
  BY <1>2 DEF HalTypes
<1>3. CASE ap' = [ap EXCEPT ![a].state = "running"]
  BY <1>3 DEF HalTypes
<1> QED
  BY <1>1, <1>2, <1>3 DEF H!hal_apic_send_ipi

(* The invariant as the steps of hal_start_ap find it. *)
LEMMA StartingFacts ==
  ASSUME HalInv, hal_pc \in Starting
  PROVE  /\ hal_pc \in Looping /\ hal_pc \in Parsed /\ hal_pc \notin Early /\ hal_pc \notin Unread
         /\ i \in Nat /\ num_threads \in Nat
         /\ \A j \in 0 .. num_threads - 1 : cpus[j].apic_id \in Ids
         /\ x2apic_mode => /\ Loop /\ (H!InTime => Progress)
                           /\ i \in 0 .. num_threads - 1
                           /\ Target \in Ids /\ Target # machine.bsp
                           /\ \A j \in 0 .. i - 1 : cpus[j].apic_id \in Ids
<1>1. /\ HalTypes /\ Stored /\ hal_pc \in Looping /\ hal_pc \in Parsed
      /\ hal_pc \notin Early /\ hal_pc \notin Unread
  BY DEF HalInv, Starting, Early, Unread, Looping, Parsed
<1>2. /\ num_threads \in Nat /\ i \in Nat
      /\ \A j \in 0 .. num_threads - 1 : cpus[j].apic_id \in Ids
  BY <1>1, StoredFacts DEF HalTypes
<1>3. ASSUME x2apic_mode
      PROVE  /\ Loop /\ (H!InTime => Progress) /\ i \in 0 .. num_threads - 1
             /\ Target \in Ids /\ Target # machine.bsp
             /\ \A j \in 0 .. i - 1 : cpus[j].apic_id \in Ids
  <2>1. Loop /\ (H!InTime => Progress)
    BY <1>1, <1>3 DEF HalInv
  <2>2. i \in 0 .. num_threads - 1 /\ Target # machine.bsp
    BY <1>2, <2>1 DEF Loop
  <2>3. \A j \in 0 .. i - 1 : j \in 0 .. num_threads - 1
    BY <1>2, <2>2
  <2> QED
    BY <1>2, <2>1, <2>2, <2>3 DEF Target
<1> QED
  BY <1>1, <1>2, <1>3

(* What the steps of hal_start_ap leave alone. *)
LEMMA StoredStays ==
  ASSUME HalInv, hal_pc \in Starting, hal_pc' \in Starting \cup {"next"},
         UNCHANGED <<machine, num_threads, cpus>>
  PROVE  Stored' /\ NoneStarted' /\ hal_pc' \in Looping
<1>1. hal_pc \in Parsed /\ hal_pc' \in Looping /\ hal_pc' \notin Unread /\ hal_pc' \notin Early
  BY DEF Parsed, Looping, Starting, Unread, Early
<1>2. Stored /\ Table' = Table
  BY DEF HalInv, Table
<1> QED
  BY <1>1, <1>2 DEF Stored, Zeroes, FromTable, Unread, NoneStarted

LEMMA InitSent == ASSUME HalInv, H!SendInit PROVE HalInv' /\ Keeps
<1>1. /\ hal_pc = "init" /\ hal_pc' = "init wait"
      /\ H!hal_apic_send_ipi(Target, "INIT") /\ start' = H!hal_get_nanoseconds(tsc)
      /\ UNCHANGED <<machine, H!apic, H!topology, tsc_frequency, bsp_apic_id, i, tsc, wrapped>>
  BY DEF H!SendInit, H!Send, Target
<1>2. /\ UNCHANGED <<num_threads, cpus, x2apic_mode, machine, i, tsc, wrapped, bsp_apic_id>>
      /\ Target' = Target /\ H!InTime' = H!InTime
  BY <1>1 DEF H!topology, H!apic, Target, H!InTime
<1>3. HalTypes /\ hal_pc \in Starting /\ hal_pc \notin Started /\ hal_pc' \in Starting
  BY <1>1 DEF HalInv, Starting, Started
<1>4. HalTypes' /\ Stored' /\ NoneStarted'
  BY <1>1, <1>2, <1>3, SendTypes, StoredStays, StartingFacts DEF HalTypes
<1>5. ASSUME x2apic_mode PROVE Loop' /\ (H!InTime => Progress') /\ Keeps
  <2>1. /\ Loop /\ Target \in Ids /\ Target # machine.bsp /\ (H!InTime => Progress)
        /\ \A j \in 0 .. i - 1 : cpus[j].apic_id \in Ids
    BY <1>3, <1>5, StartingFacts
  <2>2. ap' = [ap EXCEPT ![Target] = [state |-> "init", since |-> tsc]]
    BY <1>1, <1>5 DEF H!hal_apic_send_ipi
  <2>3. /\ ap'[Target] = [state |-> "init", since |-> tsc]
        /\ \A a \in Ids : a # Target => ap'[a] = ap[a]
    BY <1>3, <2>1, <2>2 DEF HalTypes
  <2>4. \A a \in Ids : ap[a].state = "running" =>
          a = machine.bsp \/ \E j \in 0 .. i - 1 : cpus[j].apic_id = a
    BY <1>3, <2>1 DEF Loop
  <2>5. Keeps
    BY <2>1, <2>3, <2>4 DEF Keeps
  <2>6. Loop'
    <3>1. \A a \in Ids : ap'[a].state = "running" =>
            a = machine.bsp \/ \E j \in 0 .. i - 1 : cpus[j].apic_id = a
      BY <2>3, <2>4
    <3>2. ap'[machine.bsp].state = "running"
      BY <1>3, <2>1, <2>3, TableFacts DEF Loop
    <3> QED
      BY <1>1, <1>2, <1>3, <2>1, <3>1, <3>2 DEF Loop, Started
  <2>7. H!InTime => Progress'
    <3>1. H!InTime => \A j \in 0 .. i - 1 : \/ ap'[cpus[j].apic_id].state = "running"
                                            \/ cpus[j].apic_id = Target
      BY <1>1, <2>1, <2>3 DEF Progress
    <3>2. ap'[Target].state = "init" /\ ap'[Target].since <= tsc
      BY <1>3, <2>3 DEF HalTypes
    <3>3. ap'[Target'].since = tsc
      BY <1>2, <2>3
    <3>4. start' = H!hal_get_nanoseconds(ap[Target].since)'
      BY <1>1, <1>2, <3>3 DEF H!hal_get_nanoseconds
    <3> QED
      BY <1>1, <1>2, <3>1, <3>2, <3>3, <3>4 DEF Progress, Started
  <2> QED
    BY <2>5, <2>6, <2>7
<1>6. ~x2apic_mode => Keeps
  BY <1>1 DEF Keeps, H!hal_apic_send_ipi
<1> QED
  BY <1>2, <1>4, <1>5, <1>6 DEF HalInv

LEMMA ModAtMost ==
  ASSUME NEW x \in Nat, NEW d \in Nat \ {0}
  PROVE  x % d <= x
<1>1. PICK p \in Int, r \in 0 .. d - 1 : r = x % d /\ x = d * p + r
  <2>1. x \in Int
    OBVIOUS
  <2> QED
    BY <2>1, DivMod
<1>2. p >= 0
  <2> SUFFICES ASSUME p + 1 <= 0 PROVE FALSE
    BY <1>1
  <2>1. d * (p + 1) <= d * 0
    BY TimesMonotone
  <2>2. d * (p + 1) = d * p + d /\ d * 0 = 0 /\ d * p \in Int
    OBVIOUS
  <2> QED
    BY <1>1, <2>1, <2>2
<1>3. d * 0 <= d * p /\ d * 0 = 0 /\ d * p \in Int
  BY <1>2, TimesMonotone
<1> QED
  BY <1>1, <1>3

(* A clock that has not gone back and is InitWait further shows that       *)
(* InitWait has passed, up to rounding.                                    *)
LEMMA ClockIsTrue ==
  ASSUME NEW s \in Nat, NEW t \in Nat, s <= t,
         tsc_frequency \in Nat \ {0}, H!hal_get_nanoseconds(s) <= H!hal_get_nanoseconds(t),
         ~((H!hal_get_nanoseconds(t) - H!hal_get_nanoseconds(s)) % Word < InitWait)
  PROVE  (t - s) * Nano > (InitWait - 1) * tsc_frequency
<1> DEFINE x == s * Nano
           y == t * Nano
           g == ((y % Word) \div tsc_frequency) - ((x % Word) \div tsc_frequency)
<1>1. Word \in Nat \ {0} /\ Nano \in Nat \ {0} /\ tsc_frequency \in Nat \ {0} /\ InitWait \in Nat
  BY HardwareAssumption
<1>2. x \in Int /\ y \in Int /\ x <= y /\ y - x = (t - s) * Nano
  <2>1. Nano * s <= Nano * t
    BY <1>1, TimesMonotone
  <2> QED
    BY <1>1, <2>1
<1> HIDE DEF x, y
<1>3. x % Word \in Int /\ y % Word \in Int
  BY <1>1, <1>2
<1>4. (x % Word) \div tsc_frequency \in Int /\ (y % Word) \div tsc_frequency \in Int
  BY <1>1, <1>3
<1>5. g \in Nat /\ ~(g % Word < InitWait)
  BY <1>4 DEF H!hal_get_nanoseconds, x, y
<1> HIDE DEF g
<1>6. g >= InitWait
  <2>1. g % Word <= g
    BY <1>1, <1>5, ModAtMost
  <2>2. g % Word \in Int
    BY <1>1, <1>5
  <2> QED
    BY <1>1, <1>5, <2>1, <2>2
<1>7. (y % Word) - (x % Word) > (InitWait - 1) * tsc_frequency
  BY <1>1, <1>3, <1>6, DivGap DEF g
<1>8. (y % Word) - (x % Word) <= y - x
  BY <1>1, <1>2, ModGap
<1> QED
  BY <1>1, <1>2, <1>3, <1>7, <1>8

(* A wait ends only when its time has passed, unless it is cut short. *)
LEMMA Waited ==
  ASSUME HalInv, H!WaitInit \/ H!WaitStartup
  PROVE  HalInv' /\ Keeps
<1>1. /\ hal_pc \in {"init wait", "startup wait"} /\ hal_pc' \in {hal_pc, "startup", "second"}
      /\ hal_pc = "startup wait" => hal_pc' \in {"startup wait", "second"}
      /\ hal_pc = "init wait" => hal_pc' \in {"init wait", "startup"}
      /\ UNCHANGED <<machine, H!apic, H!topology, tsc_frequency, bsp_apic_id, i, start, ap>>
      /\ \E step \in 1 .. MaxStep : tsc' = tsc + step
      /\ wrapped' = (wrapped \/ H!hal_get_nanoseconds(tsc') < start)
      /\ hal_pc' = "startup" => ~((H!hal_get_nanoseconds(tsc') - start) % Word < InitWait)
  BY DEF H!WaitInit, H!WaitStartup, H!Wait
<1>2. /\ UNCHANGED <<num_threads, cpus, x2apic_mode, machine, tsc_frequency>>
      /\ UNCHANGED <<bsp_apic_id, i, start, ap>> /\ Target' = Target
  BY <1>1 DEF H!topology, H!apic, Target
<1>3. HalTypes /\ hal_pc \in Starting /\ hal_pc' \in Starting
  BY <1>1 DEF HalInv, Starting
<1>4. tsc' \in Nat /\ tsc' > tsc
  <2>1. tsc \in Nat /\ MaxStep \in Nat
    BY <1>3, HardwareAssumption DEF HalTypes
  <2>2. PICK step \in 1 .. MaxStep : tsc' = tsc + step
    BY <1>1
  <2> QED
    BY <2>1, <2>2
<1>5. HalTypes' /\ Stored' /\ NoneStarted'
  BY <1>1, <1>2, <1>3, <1>4, StoredStays, StartingFacts DEF HalTypes
<1>6. Keeps
  BY <1>1 DEF Keeps
<1>7. ASSUME x2apic_mode PROVE Loop' /\ (H!InTime' => Progress')
  <2>1. /\ hal_pc' \in Started <=> hal_pc \in Started
        /\ hal_pc' \in {"init wait", "startup"} <=> hal_pc \in {"init wait", "startup"}
    BY <1>1 DEF Started
  <2>2. Loop'
    BY <1>1, <1>2, <1>3, <1>7, <2>1, StartingFacts DEF Loop
  <2>3. ASSUME H!InTime' PROVE Progress'
    <3>1. Progress /\ H!InTime /\ ~wrapped' /\ tsc_frequency >= machine.frequency
      BY <1>1, <1>2, <1>3, <1>7, <2>3, StartingFacts DEF H!InTime
    <3>2. CASE hal_pc = "startup wait"
      <4>1. hal_pc' \in {"startup wait", "second"}
        BY <1>1, <3>2
      <4> QED
        BY <1>2, <2>1, <3>1, <3>2, <4>1 DEF Progress, Started
    <3>3. CASE hal_pc = "init wait"
      <4>1. /\ ap[Target].state = "init" /\ ap[Target].since <= tsc
            /\ start = H!hal_get_nanoseconds(ap[Target].since)
            /\ hal_pc' \in {"init wait", "startup"}
        BY <1>1, <3>1, <3>3 DEF Progress
      <4>2. Target \in Ids /\ ap[Target].since \in Nat
        BY <1>3, <1>7, StartingFacts DEF HalTypes
      <4>3. ap[Target].since <= tsc'
        <5>1. tsc \in Nat /\ ap[Target].since \in Nat /\ ap[Target].since <= tsc
          BY <1>3, <4>1, <4>2 DEF HalTypes
        <5> HIDE <4>1, <4>2
        <5> QED
          BY <1>4, <5>1
      <4>4. CASE hal_pc' = "startup"
        <5>1. tsc_frequency \in Nat \ {0}
          BY <1>3 DEF HalTypes, Looping
        <5>2. H!hal_get_nanoseconds(ap[Target].since) <= H!hal_get_nanoseconds(tsc')
          <6>1. \A t \in Nat : H!hal_get_nanoseconds(t) \in Int
            BY <5>1, HardwareAssumption DEF H!hal_get_nanoseconds
          <6>2. ~(H!hal_get_nanoseconds(tsc') < start)
            BY <1>1, <3>1
          <6>3. H!hal_get_nanoseconds(tsc') \in Int /\ start \in Int
            BY <1>4, <4>1, <4>2, <6>1
          <6>4. start = H!hal_get_nanoseconds(ap[Target].since)
            BY <4>1
          <6> QED
            BY <6>2, <6>3, <6>4
        <5>3. (tsc' - ap[Target].since) * Nano > (InitWait - 1) * tsc_frequency
          BY <1>1, <1>4, <4>1, <4>2, <4>3, <4>4, <5>1, <5>2, ClockIsTrue
        <5>4. (InitWait - 1) * machine.frequency <= (InitWait - 1) * tsc_frequency
          <6>1. InitWait - 1 \in Nat /\ machine.frequency \in Int /\ tsc_frequency \in Int
            BY <1>3, <5>1, TableFacts, HardwareAssumption
          <6> QED
            BY <3>1, <6>1, TimesMonotone
        <5>5. (tsc' - ap[Target].since) * Nano > (InitWait - 1) * machine.frequency
          <6> DEFINE x == (tsc' - ap[Target].since) * Nano
                     y == (InitWait - 1) * machine.frequency
                     z == (InitWait - 1) * tsc_frequency
          <6>1. x \in Int /\ y \in Int /\ z \in Int
            <7>1. Nano \in Int /\ InitWait \in Int /\ tsc_frequency \in Int /\ tsc' \in Int
              BY <1>4, <5>1, HardwareAssumption
            <7>2. machine.frequency \in Int /\ ap[Target].since \in Int
              BY <1>3, <4>2, TableFacts
            <7> QED
              BY <7>1, <7>2
          <6>2. x > z /\ y <= z
            BY <5>3, <5>4
          <6> HIDE DEF x, y, z
          <6>3. x > y
            BY <6>1, <6>2
          <6> QED
            BY <6>3 DEF x, y
        <5>6. H!Ready(Target)'
          BY <1>2, <4>1, <5>5 DEF H!Ready
        <5> QED
          BY <1>2, <3>1, <3>3, <4>4, <5>6 DEF Progress, Started
      <4>5. CASE hal_pc' = "init wait"
        BY <1>2, <3>1, <3>3, <4>1, <4>3, <4>5 DEF Progress, Started, H!hal_get_nanoseconds
      <4> QED
        BY <4>1, <4>4, <4>5
    <3> QED
      BY <1>1, <3>2, <3>3
  <2> QED
    BY <2>2, <2>3
<1> QED
  BY <1>2, <1>5, <1>6, <1>7 DEF HalInv

(* The first STARTUP message starts a processor that is ready. *)
LEMMA StartupSent == ASSUME HalInv, H!SendStartup \/ H!SendSecond PROVE HalInv' /\ Keeps
<1>1. /\ \/ hal_pc = "startup" /\ hal_pc' = "startup wait" /\ i' = i
         \/ hal_pc = "second" /\ hal_pc' = "next" /\ i' = i + 1
      /\ H!hal_apic_send_ipi(Target, "STARTUP")
      /\ UNCHANGED <<machine, H!apic, H!topology, tsc_frequency, bsp_apic_id, tsc, wrapped>>
  BY DEF H!SendStartup, H!SendSecond, H!Send, Target
<1>2. /\ UNCHANGED <<num_threads, cpus, x2apic_mode, machine, tsc, wrapped, bsp_apic_id>>
      /\ H!InTime' = H!InTime
  BY <1>1 DEF H!topology, H!apic, H!InTime
<1>3. HalTypes /\ i' \in Nat /\ hal_pc \in Starting /\ hal_pc' \in Starting \cup {"next"}
  <2>1. HalTypes
    BY DEF HalInv
  <2>2. i \in Nat /\ i' \in {i, i + 1}
    BY <1>1, <2>1 DEF HalTypes
  <2>3. i' \in Nat
    BY <2>2
  <2>4. hal_pc \in Starting /\ hal_pc' \in Starting \cup {"next"}
    BY <1>1 DEF Starting
  <2> QED
    BY <2>1, <2>3, <2>4
<1>4. HalTypes' /\ Stored' /\ NoneStarted'
  BY <1>1, <1>2, <1>3, SendTypes, StoredStays, StartingFacts DEF HalTypes
<1>5. Keeps
  BY <1>1, <1>3 DEF Keeps, H!hal_apic_send_ipi, HalTypes
<1>6. ASSUME x2apic_mode PROVE Loop' /\ (H!InTime => Progress')
  <2>1. /\ Loop /\ (H!InTime => Progress) /\ num_threads \in Nat /\ i \in 0 .. num_threads - 1
        /\ Target \in Ids /\ Target # machine.bsp
        /\ \A j \in 0 .. i - 1 : cpus[j].apic_id \in Ids
    BY <1>3, <1>6, StartingFacts
  <2>2. /\ \A a \in Ids : a # Target => ap'[a] = ap[a]
        /\ H!Ready(Target) \/ ap[Target].state = "running" => ap'[Target].state = "running"
    BY <1>1, <1>3, <1>6, <2>1 DEF HalTypes, H!hal_apic_send_ipi, H!Ready
  <2>3. ap'[machine.bsp].state = "running"
    BY <1>3, <2>1, <2>2, TableFacts DEF Loop
  <2>4. H!InTime => /\ \A j \in 0 .. i - 1 : ap'[cpus[j].apic_id].state = "running"
                    /\ ap'[Target].state = "running"
    <3>1. H!InTime => ap'[Target].state = "running"
      BY <1>1, <2>1, <2>2 DEF Progress, Started
    <3> QED
      BY <2>1, <2>2, <3>1 DEF Progress
  <2>5. \A a \in Ids : ap'[a].state = "running" =>
          a = machine.bsp \/ a = Target \/ \E j \in 0 .. i - 1 : cpus[j].apic_id = a
    BY <2>1, <2>2 DEF Loop
  <2>6. CASE hal_pc = "startup"
    <3>1. hal_pc' = "startup wait" /\ i' = i /\ Target' = Target
      BY <1>1, <1>2, <2>6 DEF Target
    <3>2. Loop'
      BY <1>2, <1>3, <2>1, <2>3, <2>5, <3>1 DEF Loop, Started
    <3> QED
      BY <1>2, <2>4, <3>1, <3>2 DEF Progress, Started
  <2>7. CASE hal_pc = "second"
    <3>1. hal_pc' = "next" /\ i' = i + 1 /\ i' <= num_threads
      BY <1>1, <2>1, <2>7
    <3>2. \A j \in Int : j \in 0 .. i' - 1 <=> j \in 0 .. i - 1 \/ j = i
      BY <2>1, <3>1
    <3>3. i \in 0 .. i' - 1 /\ \A j \in 0 .. i - 1 : j \in 0 .. i' - 1
      BY <2>1, <3>1
    <3>4. Loop'
      BY <1>2, <2>1, <2>3, <2>5, <3>1, <3>3 DEF Loop, Starting, Started, Target
    <3>5. H!InTime => Progress'
      BY <1>2, <2>4, <3>1, <3>2 DEF Progress, Started, Target
    <3> QED
      BY <3>4, <3>5
  <2> QED
    BY <1>1, <2>6, <2>7
<1> QED
  BY <1>2, <1>4, <1>5, <1>6 DEF HalInv

LEMMA HalSteps == ASSUME HalInv, [Next]_vars PROVE HalInv' /\ Keeps
<1>1. CASE H!Next
  BY <1>1, EarlyStep, LoopStep, InitSent, Waited, StartupSent DEF H!Next
<1>2. CASE UNCHANGED hal
  BY <1>2, HalSame
<1> QED
  BY <1>1, <1>2 DEF Next, KeyboardStep, MouseSends, MouseLoses, Interrupts, HalStep, vars

(* hal_smp_init never resets the processor it runs on, and another one     *)
(* that runs only if its id is stored in cpus twice: whatever the tables   *)
(* hold or if there is none, whatever the clock and its frequency, and     *)
(* also if the clock wraps.                                                *)
THEOREM NoneIsReset == Spec => RunningStays
<1>1. Init => HalInv
  BY HalInit DEF Init
<1>2. HalInv /\ [Next]_vars => HalInv'
  BY HalSteps
<1>3. HalInv /\ [Next]_vars =>
        [\A a \in Ids : ap[a].state = "running" /\ ap'[a].state # "running" =>
           a # machine.bsp /\ \E j \in 0 .. i - 1 : cpus[j].apic_id = a]_(H!vars)
  BY HalSteps DEF Keeps
<1> QED
  BY <1>1, <1>2, <1>3, PTL DEF Spec, RunningStays, H!RunningStays

(* What hal_smp_init leaves behind: the safety half of AllStart. *)
StartedAll ==
  hal_pc = "done" /\ x2apic_mode /\ H!InTime =>
    \A a \in Ids : ap[a].state = "running" <=> a = machine.bsp \/ a \in H!Listed

(* When hal_smp_init is done on a machine with an x2APIC, its own          *)
(* processor runs and those that the local APIC entries of a MADT list as  *)
(* enabled, or the one with the id 0 without a MADT, and no others: for    *)
(* every table, ids listed twice included, and every frequency of the      *)
(* counter that is no higher than what the code takes it to be, if the     *)
(* clock did not wrap during a wait.                                       *)
THEOREM DescribedAreStarted == Spec => []StartedAll
<1>1. Init => HalInv
  BY HalInit DEF Init
<1>2. HalInv /\ [Next]_vars => HalInv'
  BY HalSteps
<1>3. HalInv => StartedAll
  <2> SUFFICES ASSUME HalInv, hal_pc = "done", x2apic_mode, H!InTime, NEW a \in Ids
               PROVE  ap[a].state = "running" <=> a = machine.bsp \/ a \in H!Listed
    BY DEF StartedAll
  <2>1. HalTypes /\ Stored /\ Loop /\ Progress /\ hal_pc \in Parsed
    BY DEF HalInv, Looping, Parsed
  <2>2. i = num_threads /\ num_threads \in 0 .. Slots /\ Slots \in Nat
    BY <2>1, StoredFacts, TableFacts DEF Loop
  <2>3. ap[a].state = "running" <=> a = machine.bsp \/ \E j \in 0 .. num_threads - 1 : cpus[j].apic_id = a
    <3>1. ap[a].state = "running" => a = machine.bsp \/ \E j \in 0 .. num_threads - 1 : cpus[j].apic_id = a
      BY <2>1, <2>2 DEF Loop, Started
    <3>2. \A j \in 0 .. num_threads - 1 : ap[cpus[j].apic_id].state = "running"
      BY <2>1, <2>2 DEF Progress
    <3> QED
      BY <2>1, <3>1, <3>2 DEF Loop
  <2>4. a \in H!Listed <=> \E j \in 0 .. num_threads - 1 : cpus[j].apic_id = a
    <3>1. CASE machine.madt = H!NoTable
      <4>1. num_threads = machine.logical /\ \A k \in 0 .. Slots - 1 : cpus[k].apic_id = 0
        BY <2>1, <3>1 DEF Stored, Zeroes
      <4>2. a \in H!Listed <=> a = 0 /\ machine.logical > 0
        BY <3>1 DEF H!Listed
      <4>3. machine.logical > 0 => 0 \in 0 .. num_threads - 1
        BY <2>2, <4>1
      <4>4. \A j \in 0 .. num_threads - 1 : j \in 0 .. Slots - 1 /\ machine.logical > 0
        BY <2>2, <4>1
      <4> QED
        BY <4>1, <4>2, <4>3, <4>4
    <3>2. CASE machine.madt # H!NoTable
      <4>1. /\ num_threads = Len(Table)
            /\ \A k \in 0 .. Len(Table) - 1 : cpus[k].apic_id = Table[k + 1].apic_id
        BY <2>1, <3>2 DEF Stored, FromTable
      <4>2. a \in H!Listed <=> \E n \in 1 .. Len(Table) : Table[n].apic_id = a
        BY <2>1, <3>2, TableFacts DEF H!Listed, H!Enabled, Table
      <4>3. /\ \A k \in 0 .. Len(Table) - 1 : k + 1 \in 1 .. Len(Table)
            /\ \A n \in 1 .. Len(Table) : n - 1 \in 0 .. Len(Table) - 1 /\ (n - 1) + 1 = n
        BY <2>2, <4>1
      <4>4. ASSUME NEW n \in 1 .. Len(Table), Table[n].apic_id = a
            PROVE  \E j \in 0 .. num_threads - 1 : cpus[j].apic_id = a
        <5>1. n - 1 \in 0 .. Len(Table) - 1 /\ (n - 1) + 1 = n
          BY <4>3
        <5>2. cpus[n - 1].apic_id = Table[(n - 1) + 1].apic_id
          BY <4>1, <5>1
        <5>3. cpus[n - 1].apic_id = a /\ n - 1 \in 0 .. num_threads - 1
          BY <4>1, <4>4, <5>1, <5>2
        <5> QED
          BY <5>3
      <4>5. ASSUME NEW j \in 0 .. num_threads - 1, cpus[j].apic_id = a
            PROVE  \E n \in 1 .. Len(Table) : Table[n].apic_id = a
        BY <4>1, <4>3, <4>5
      <4> QED
        BY <4>2, <4>4, <4>5
    <3> QED
      BY <3>1, <3>2
  <2> QED
    BY <2>3, <2>4
<1> QED
  BY <1>1, <1>2, <1>3, PTL DEF Spec
=============================================================================
