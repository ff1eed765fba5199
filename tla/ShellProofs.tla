---------------------------- MODULE ShellProofs ----------------------------
(***************************************************************************)
(* The theorems about the shells: RamFS implements FileMap, for every      *)
(* number and size of files and for all names and texts; kmain runs what   *)
(* is typed, for every size of the event queue and of the line; and both   *)
(* screens show the prompt and the line, for every size of the screens and *)
(* all prompts and outputs.                                                *)
(***************************************************************************)
EXTENDS MCShells, FiniteSetTheorems, FunctionTheorems, SequenceTheorems, WellFoundedInduction,
        TLAPS

UsedSlots == {i \in Slots : used[i]}

(* No two files have one name; a file is no longer than its data array. *)
RamInv ==
  /\ used \in [Slots -> BOOLEAN] /\ name \in [Slots -> Names \cup {NoName}]
  /\ data \in [Slots -> [Byte -> Nat]] /\ size \in [Slots -> 0 .. MaxFileSize]
  /\ \A i, j \in Slots : used[i] /\ used[j] /\ name[i] = name[j] => i = j

(* The first k bytes of a data array, and the contents of a slot. *)
Text(d, k) == [b \in 1 .. k |-> d[b]]
File(i) == Text(data[i], size[i])

(* The first o bytes of d and then the first k bytes of s. *)
Spliced(d, o, s, k) == [b \in 1 .. o + k |-> IF b <= o THEN d[b] ELSE s[b - o]]

-----------------------------------------------------------------------------
LEMMA LeastNat ==
  ASSUME NEW T \in SUBSET Nat, T # {}
  PROVE  \E i \in T : \A j \in T : i <= j
<1> DEFINE R == {ss \in Nat \X Nat : ss[1] < ss[2]}
<1>1. IsWellFoundedOn(R, Nat)
  BY NatLessThanWellFounded DEF OpToRel
<1>2. \A a, b \in Nat : a < b => <<a, b>> \in R
  OBVIOUS
<1> HIDE DEF R
<1>3. PICK i \in T : \A j \in T : ~ (<<j, i>> \in R)
  BY <1>1, WFMin
<1>4. \A j \in T : ~ (j < i)
  BY <1>2, <1>3, Zenon
<1> QED
  BY <1>4

(* find_file and find_free_slot find a slot if there is one. *)
LEMMA FirstFinds ==
  ASSUME NEW T \in SUBSET Slots
  PROVE  /\ First(T) \subseteq T
         /\ First(T) = {} <=> T = {}
<1>1. T \in SUBSET Nat
  BY RamFSAssumption DEF Slots
<1>2. T # {} => \E i \in T : \A j \in T : i <= j
  BY <1>1, LeastNat
<1> QED
  BY <1>2 DEF First

LEMMA FindFile ==
  ASSUME RamInv, NEW n
  PROVE  /\ \A i \in find_file(n) : i \in Slots /\ used[i] /\ name[i] = n /\ n \in ExistingFiles
         /\ find_file(n) = {} <=> n \notin ExistingFiles
<1> DEFINE T == {i \in Slots : used[i] /\ name[i] = n}
<1>1. First(T) \subseteq T /\ (First(T) = {} <=> T = {})
  BY FirstFinds
<1>2. find_file(n) = First(T)
  BY DEF find_file
<1>3. T = {} <=> n \notin ExistingFiles
  BY DEF ExistingFiles
<1> QED
  BY <1>1, <1>2, <1>3

LEMMA FindFree ==
  ASSUME RamInv
  PROVE  /\ \A i \in find_free_slot : i \in Slots /\ ~used[i]
         /\ find_free_slot = {} <=> UsedSlots = Slots
<1> DEFINE T == {i \in Slots : ~used[i]}
<1>1. First(T) \subseteq T /\ (First(T) = {} <=> T = {})
  BY FirstFinds
<1>2. find_free_slot = First(T)
  BY DEF find_free_slot
<1>3. T = {} <=> UsedSlots = Slots
  BY DEF UsedSlots
<1> QED
  BY <1>1, <1>2, <1>3

(* The map leads from the name of a slot to its contents. *)
LEMMA MapOfSlot ==
  ASSUME RamInv, NEW i \in Slots, used[i]
  PROVE  name[i] \in ExistingFiles /\ SlotOf(name[i]) = i /\ Files[name[i]] = File(i)
<1>1. name[i] \in ExistingFiles
  BY DEF ExistingFiles
<1>2. \A j \in Slots : used[j] /\ name[j] = name[i] => j = i
  BY DEF RamInv
<1>3. SlotOf(name[i]) = i
  BY <1>2 DEF SlotOf
<1> QED
  BY <1>1, <1>3 DEF Files, File, Text

(* A name of the map has a slot. *)
(* There are as many files as used slots, and room for one more exactly if *)
(* a slot is free.                                                         *)
LEMMA FilesCounted ==
  ASSUME RamInv
  PROVE  /\ Cardinality(ExistingFiles) = MaxFiles - Cardinality({i \in Slots : ~used[i]})
         /\ Cardinality(ExistingFiles) < MaxFiles <=> UsedSlots # Slots
<1> DEFINE Unused == {i \in Slots : ~used[i]}
<1>1. IsFiniteSet(Slots) /\ Cardinality(Slots) = MaxFiles
  BY FS_Interval, RamFSAssumption DEF Slots
<1>2. /\ IsFiniteSet(UsedSlots) /\ IsFiniteSet(Unused)
      /\ Cardinality(UsedSlots) \in Nat /\ Cardinality(Unused) \in Nat
  BY <1>1, FS_Subset, FS_CardinalityType DEF UsedSlots
<1>3. Cardinality(ExistingFiles) = Cardinality(UsedSlots)
  <2> DEFINE f == [i \in UsedSlots |-> name[i]]
  <2>1. f \in Bijection(UsedSlots, ExistingFiles)
    <3>1. f \in [UsedSlots -> ExistingFiles]
      BY DEF UsedSlots, ExistingFiles
    <3>2. \A a, b \in UsedSlots : f[a] = f[b] => a = b
      BY DEF UsedSlots, RamInv
    <3>3. \A n \in ExistingFiles : \E a \in UsedSlots : f[a] = n
      BY DEF UsedSlots, ExistingFiles
    <3> QED
      BY <3>1, <3>2, <3>3, Fun_IsBij
  <2> QED
    BY <1>2, <2>1, FS_Bijection DEF ExistsBijection
<1>4. Cardinality(UsedSlots) = MaxFiles - Cardinality(Unused)
  <2>1. UsedSlots = Slots \ Unused /\ Unused = Slots \cap Unused
    BY DEF UsedSlots
  <2> QED
    BY <1>1, <2>1, FS_Difference
<1>5. Cardinality(Unused) = 0 <=> Unused = {}
  BY <1>2, FS_EmptySet
<1>6. Unused = {} <=> UsedSlots = Slots
  BY DEF UsedSlots
<1> HIDE DEF Unused
<1>7. Cardinality(ExistingFiles) < MaxFiles <=> UsedSlots # Slots
  BY <1>2, <1>3, <1>4, <1>5, <1>6, RamFSAssumption
<1> QED
  BY <1>3, <1>4, <1>7 DEF Unused

-----------------------------------------------------------------------------
(* A call that leaves one used slot i with the name n, and the others as   *)
(* they were, sets what the map says of n.                                 *)
LEMMA SlotSet ==
  ASSUME RamInv, RamInv', NEW i \in Slots, NEW n,
         used'[i], name'[i] = n, used[i] => name[i] = n,
         \A j \in Slots \ {i} : /\ used'[j] = used[j] /\ name'[j] = name[j]
                                /\ size'[j] = size[j] /\ data'[j] = data[j]
  PROVE  Files' = FileMap!Set(n, File(i)')
<1>1. ExistingFiles' = ExistingFiles \cup {n}
  BY DEF ExistingFiles
<1>2. ASSUME NEW j \in Slots, NEW m, used'[j], name'[j] = m
      PROVE  SlotOf(m)' = j
  <2>1. \A k \in Slots : used'[k] /\ name'[k] = m => k = j
    BY <1>2 DEF RamInv
  <2> QED
    BY <1>2, <2>1 DEF SlotOf
<1>3. ASSUME NEW m \in ExistingFiles \cup {n}
      PROVE  Files'[m] = IF m = n THEN File(i)' ELSE Files[m]
  <2>1. Files'[m] = [b \in 1 .. size'[SlotOf(m)'] |-> data'[SlotOf(m)'][b]]
    BY <1>1 DEF Files
  <2>2. CASE m = n
    BY <1>2, <2>1, <2>2 DEF File, Text
  <2>3. CASE m # n
    <3>1. PICK j \in Slots : used[j] /\ name[j] = m
      BY <2>3 DEF ExistingFiles
    <3>2. j # i
      BY <2>3, <3>1
    <3>3. used'[j] /\ name'[j] = m /\ size'[j] = size[j] /\ data'[j] = data[j]
      BY <3>1, <3>2
    <3>4. SlotOf(m)' = j
      BY <1>2, <3>3
    <3>5. Files[m] = File(j)
      BY <3>1, MapOfSlot
    <3> QED
      BY <2>1, <2>3, <3>3, <3>4, <3>5 DEF File, Text
  <2> QED
    BY <2>2, <2>3
<1>4. Files' = [m \in ExistingFiles' |-> Files'[m]] /\ DOMAIN Files = ExistingFiles
  BY DEF Files
<1> QED
  BY <1>1, <1>3, <1>4 DEF FileMap!Set

(* A call that frees a slot removes its name from the map. *)
LEMMA SlotFreed ==
  ASSUME RamInv, RamInv', NEW i \in Slots, NEW n,
         used[i], name[i] = n, ~used'[i],
         \A j \in Slots \ {i} : /\ used'[j] = used[j] /\ name'[j] = name[j]
                                /\ size'[j] = size[j] /\ data'[j] = data[j]
  PROVE  Files' = [m \in ExistingFiles \ {n} |-> Files[m]]
<1>1. \A j \in Slots : used[j] /\ name[j] = n => j = i
  BY DEF RamInv
<1>2. ExistingFiles' = ExistingFiles \ {n}
  <2>1. \A j \in Slots : used'[j] <=> used[j] /\ j # i
    BY DEF RamInv
  <2> QED
    BY <1>1, <2>1 DEF ExistingFiles
<1>3. ASSUME NEW m \in ExistingFiles \ {n}
      PROVE  Files'[m] = Files[m]
  <2>1. Files'[m] = [b \in 1 .. size'[SlotOf(m)'] |-> data'[SlotOf(m)'][b]]
    BY <1>2 DEF Files
  <2>2. PICK j \in Slots : used[j] /\ name[j] = m
    BY DEF ExistingFiles
  <2>3. used'[j] /\ name'[j] = m /\ size'[j] = size[j] /\ data'[j] = data[j]
    BY <2>2
  <2>4. \A k \in Slots : used'[k] /\ name'[k] = m => k = j
    BY <2>3 DEF RamInv
  <2>5. SlotOf(m)' = j
    BY <2>3, <2>4 DEF SlotOf
  <2>6. Files[m] = File(j)
    BY <2>2, MapOfSlot
  <2> QED
    BY <2>1, <2>3, <2>5, <2>6 DEF File, Text
<1>4. Files' = [m \in ExistingFiles' |-> Files'[m]]
  BY DEF Files
<1> QED
  BY <1>2, <1>3, <1>4

(* A call that leaves the slots alone leaves the map alone. *)
LEMMA SlotsKept ==
  ASSUME UNCHANGED <<used, name, data, size>>
  PROVE  UNCHANGED Files
<1>1. ExistingFiles' = ExistingFiles
  BY DEF ExistingFiles
<1>2. \A n : SlotOf(n)' = SlotOf(n)
  BY DEF SlotOf
<1> QED
  BY <1>1, <1>2 DEF Files

-----------------------------------------------------------------------------
(* mem_copy within the data array. *)
LEMMA Copied ==
  ASSUME NEW d \in [Byte -> Nat], NEW s \in Seq(Nat), NEW o \in Nat, NEW k \in Nat,
         k <= Len(s), o + k <= MaxFileSize
  PROVE  /\ mem_copy(d, o, s, k) \in [Byte -> Nat]
         /\ Text(mem_copy(d, o, s, k), o + k) = Spliced(d, o, s, k)
<1>1. \A b \in 1 .. o + k : b \in Byte
  BY RamFSAssumption DEF Byte
<1>2. \A b \in o + 1 .. o + k : s[b - o] \in Nat
  OBVIOUS
<1>3. mem_copy(d, o, s, k) \in [Byte -> Nat]
  BY <1>2 DEF mem_copy
<1>4. \A b \in 1 .. o + k : mem_copy(d, o, s, k)[b] = IF b <= o THEN d[b] ELSE s[b - o]
  BY <1>1 DEF mem_copy
<1> QED
  BY <1>3, <1>4 DEF Text, Spliced

(* The first bytes that fit. *)
LEMMA Clamped ==
  ASSUME NEW s \in Seq(Nat)
  PROVE  LET k == Smaller(Len(s), MaxFileSize)
         IN  /\ k \in 0 .. MaxFileSize /\ k <= Len(s)
             /\ FileMap!Clamp(s) = Text(s, k)
             /\ Len(FileMap!Clamp(s)) = k
<1> DEFINE k == Smaller(Len(s), MaxFileSize)
<1>1. k \in 0 .. MaxFileSize /\ k <= Len(s) /\ k \in Nat
  BY RamFSAssumption DEF Smaller
<1>2. FileMap!Clamp(s) = Text(s, k)
  <2>1. CASE Len(s) > MaxFileSize
    <3>1. k = MaxFileSize
      BY <2>1, RamFSAssumption DEF Smaller
    <3>2. FileMap!Clamp(s) = SubSeq(s, 1, MaxFileSize)
      BY <2>1 DEF FileMap!Clamp
    <3>3. SubSeq(s, 1, MaxFileSize) = [b \in 1 .. MaxFileSize |-> s[b]]
      BY <2>1, RamFSAssumption
    <3> QED
      BY <3>1, <3>2, <3>3 DEF Text
  <2>2. CASE ~ (Len(s) > MaxFileSize)
    <3>1. k = Len(s)
      BY <2>2, RamFSAssumption DEF Smaller
    <3>2. FileMap!Clamp(s) = s
      BY <2>2 DEF FileMap!Clamp
    <3> QED
      BY <3>1, <3>2 DEF Text
  <2> QED
    BY <2>1, <2>2
<1> HIDE DEF k
<1>3. Len(Text(s, k)) = k
  BY <1>1 DEF Text
<1> QED
  BY <1>1, <1>2, <1>3 DEF k

(* A file is a text of size bytes. *)
LEMMA FileIsText ==
  ASSUME RamInv, NEW i \in Slots
  PROVE  /\ size[i] \in 0 .. MaxFileSize /\ File(i) \in Seq(Nat) /\ Len(File(i)) = size[i]
         /\ \A b \in 1 .. size[i] : File(i)[b] = data[i][b]
<1>1. size[i] \in 0 .. MaxFileSize /\ data[i] \in [Byte -> Nat]
  BY DEF RamInv
<1>2. \A b \in 1 .. size[i] : data[i][b] \in Nat
  BY <1>1, RamFSAssumption DEF Byte
<1>3. File(i) \in [1 .. size[i] -> Nat]
  BY <1>2 DEF File, Text
<1> QED
  BY <1>1, <1>3, RamFSAssumption DEF File, Text

LEMMA Concatenated ==
  ASSUME NEW a \in Seq(Nat), NEW s \in Seq(Nat)
  PROVE  /\ a \o s \in Seq(Nat) /\ Len(a \o s) = Len(a) + Len(s)
         /\ \A b \in 1 .. Len(a) + Len(s) :
              (a \o s)[b] = IF b <= Len(a) THEN a[b] ELSE s[b - Len(a)]
<1>1. a \o s \in Seq(Nat) /\ Len(a \o s) = Len(a) + Len(s)
  OBVIOUS
<1>2. ASSUME NEW b \in 1 .. Len(a) + Len(s)
      PROVE  (a \o s)[b] = IF b <= Len(a) THEN a[b] ELSE s[b - Len(a)]
  OBVIOUS
<1> QED
  BY <1>1, <1>2

(* What ramfs_append leaves in the file is the old text and as much of the *)
(* new one as fits.                                                        *)
LEMMA Appended ==
  ASSUME RamInv, NEW i \in Slots, NEW s \in Seq(Nat)
  PROVE  LET k == Smaller(Len(s), MaxFileSize - size[i])
             whole == FileMap!Clamp(File(i) \o s)
         IN  /\ k \in Nat /\ size[i] + k \in 0 .. MaxFileSize
             /\ mem_copy(data[i], size[i], s, k) \in [Byte -> Nat]
             /\ Text(mem_copy(data[i], size[i], s, k), size[i] + k) = whole
             /\ Len(whole) - Len(File(i)) = k
<1> DEFINE k == Smaller(Len(s), MaxFileSize - size[i])
           old == File(i)
           whole == FileMap!Clamp(old \o s)
<1>1. /\ size[i] \in 0 .. MaxFileSize /\ old \in Seq(Nat) /\ Len(old) = size[i]
      /\ \A b \in 1 .. size[i] : old[b] = data[i][b]
  BY FileIsText
<1>2. data[i] \in [Byte -> Nat]
  BY DEF RamInv
<1>3. k \in Nat /\ k <= Len(s) /\ size[i] + k \in 0 .. MaxFileSize
  BY <1>1, RamFSAssumption DEF Smaller
<1> HIDE DEF old
<1>4. /\ old \o s \in Seq(Nat) /\ Len(old \o s) = size[i] + Len(s)
      /\ \A b \in 1 .. size[i] + Len(s) :
           (old \o s)[b] = IF b <= size[i] THEN old[b] ELSE s[b - size[i]]
  <2> HIDE DEF k, whole
  <2>1. /\ old \o s \in Seq(Nat) /\ Len(old \o s) = Len(old) + Len(s)
        /\ \A b \in 1 .. Len(old) + Len(s) :
             (old \o s)[b] = IF b <= Len(old) THEN old[b] ELSE s[b - Len(old)]
    BY <1>1, Concatenated, Zenon
  <2>2. Len(old) = size[i]
    BY <1>1
  <2> QED
    BY <2>1, <2>2, Zenon
<1>5. Smaller(Len(old \o s), MaxFileSize) = size[i] + k
  BY <1>1, <1>4, RamFSAssumption DEF Smaller
<1>6. whole = Text(old \o s, size[i] + k) /\ Len(whole) = size[i] + k
  BY <1>4, <1>5, Clamped
<1> HIDE DEF k, whole
<1>7. \A b \in 1 .. size[i] + k :
         (old \o s)[b] = IF b <= size[i] THEN data[i][b] ELSE s[b - size[i]]
  BY <1>1, <1>3, <1>4
<1>8. /\ mem_copy(data[i], size[i], s, k) \in [Byte -> Nat]
      /\ Text(mem_copy(data[i], size[i], s, k), size[i] + k)
           = Spliced(data[i], size[i], s, k)
  <2>1. size[i] \in Nat /\ size[i] + k <= MaxFileSize
    BY <1>1, <1>3, RamFSAssumption
  <2> QED
    BY <1>2, <1>3, <2>1, Copied
<1>9. whole = Spliced(data[i], size[i], s, k)
  BY <1>6, <1>7 DEF Text, Spliced
<1>10. Len(whole) - Len(old) = k
  BY <1>1, <1>3, <1>6
<1> QED
  BY <1>3, <1>8, <1>9, <1>10 DEF k, whole, old

-----------------------------------------------------------------------------
(* A slot that a call fills has, afterwards, a name of its own. *)
LEMMA SlotFilled ==
  ASSUME RamInv, NEW i \in Slots, NEW n \in Names,
         NEW d \in [Byte -> Nat], NEW k \in 0 .. MaxFileSize,
         used[i] => name[i] = n, \A j \in Slots : used[j] /\ name[j] = n => j = i,
         used' = [used EXCEPT ![i] = TRUE], name' = [name EXCEPT ![i] = n],
         data' = [data EXCEPT ![i] = d], size' = [size EXCEPT ![i] = k]
  PROVE  RamInv' /\ Files' = FileMap!Set(n, Text(d, k))
<1>1. used' \in [Slots -> BOOLEAN] /\ name' \in [Slots -> Names \cup {NoName}]
  BY DEF RamInv
<1>2. data' \in [Slots -> [Byte -> Nat]] /\ size' \in [Slots -> 0 .. MaxFileSize]
  BY DEF RamInv
<1>3. used'[i] /\ name'[i] = n /\ data'[i] = d /\ size'[i] = k
  BY DEF RamInv
<1>4. \A j \in Slots \ {i} : /\ used'[j] = used[j] /\ name'[j] = name[j]
                               /\ size'[j] = size[j] /\ data'[j] = data[j]
  BY DEF RamInv
<1>5. \A j, l \in Slots : used'[j] /\ used'[l] /\ name'[j] = name'[l] => j = l
  BY <1>3, <1>4 DEF RamInv
<1>6. RamInv'
  BY <1>1, <1>2, <1>5 DEF RamInv
<1>7. Files' = FileMap!Set(n, File(i)')
  BY <1>3, <1>4, <1>6, SlotSet
<1>8. File(i)' = Text(d, k)
  BY <1>3 DEF File
<1> QED
  BY <1>6, <1>7, <1>8

(* Each operation keeps the invariant and is the operation of the map. *)
LEMMA FailStep ==
  ASSUME RamInv, Fails
  PROVE  RamInv' /\ FileMap!Fail
<1>1. UNCHANGED Files
  BY SlotsKept DEF Fails
<1>2. RamInv'
  BY DEF RamInv, Fails
<1> QED
  BY <1>1, <1>2 DEF Fails, FileMap!Fail

LEMMA SameCardinality ==
  \A S : FileMap!Cardinality(S) = Cardinality(S)
BY DEF FileMap!Cardinality, Cardinality

LEMMA RoomFor ==
  ASSUME RamInv, NEW n
  PROVE  /\ DOMAIN Files = ExistingFiles
         /\ FileMap!Room(n) <=> n \in ExistingFiles \/ find_free_slot # {}
<1>1. DOMAIN Files = ExistingFiles
  BY DEF Files
<1>2. Cardinality(ExistingFiles) < MaxFiles <=> find_free_slot # {}
  BY FilesCounted, FindFree
<1> QED
  BY <1>1, <1>2, SameCardinality DEF FileMap!Room

(* What a call makes of a free slot. *)
LEMMA FreeSlotFilled ==
  ASSUME RamInv, NEW n \in Names, find_file(n) = {}, NEW i \in find_free_slot
  PROVE  i \in Slots /\ ~used[i] /\ \A j \in Slots : used[j] /\ name[j] = n => j = i
<1>1. n \notin ExistingFiles
  BY FindFile
<1> QED
  BY <1>1, FindFree DEF ExistingFiles

LEMMA CreateStep ==
  ASSUME RamInv, NEW n \in Names, ramfs_create(n)
  PROVE  RamInv' /\ FileMap!Create(n)
<1>1. CASE (find_file(n) # {} \/ find_free_slot = {}) /\ Fails
  BY <1>1, FailStep, FindFile, RoomFor DEF FileMap!Create
<1>2. ASSUME find_file(n) = {}, NEW i \in find_free_slot,
             used' = [used EXCEPT ![i] = TRUE], name' = [name EXCEPT ![i] = n],
             data' = [data EXCEPT ![i] = Zeroed], size' = [size EXCEPT ![i] = 0],
             ret' = 0, out' = <<>>
      PROVE  RamInv' /\ FileMap!Create(n)
  <2>1. i \in Slots /\ ~used[i] /\ \A j \in Slots : used[j] /\ name[j] = n => j = i
    BY <1>2, FreeSlotFilled
  <2>2. Zeroed \in [Byte -> Nat] /\ 0 \in 0 .. MaxFileSize
    BY RamFSAssumption DEF Zeroed
  <2>3. RamInv' /\ Files' = FileMap!Set(n, Text(Zeroed, 0))
    BY <1>2, <2>1, <2>2, SlotFilled
  <2>4. Text(Zeroed, 0) = <<>>
    BY DEF Text
  <2>5. Files' = FileMap!Set(n, <<>>)
    BY <2>3, <2>4
  <2>6. n \notin DOMAIN Files /\ FileMap!Room(n)
    BY <1>2, FindFile, RoomFor
  <2> QED
    BY <1>2, <2>3, <2>5, <2>6 DEF FileMap!Create
<1> QED
  BY <1>1, <1>2 DEF ramfs_create

LEMMA WriteStep ==
  ASSUME RamInv, NEW n \in Names, NEW s \in Contents, ramfs_write(n, s)
  PROVE  RamInv' /\ FileMap!Write(n, s)
<1> DEFINE k == Smaller(Len(s), MaxFileSize)
<1>1. s \in Seq(Nat)
  BY RamFSAssumption
<1>2. /\ k \in 0 .. MaxFileSize /\ k <= Len(s)
      /\ FileMap!Clamp(s) = Text(s, k) /\ Len(FileMap!Clamp(s)) = k
  BY <1>1, Clamped
<1>3. \/ \E i \in find_file(n) :
           /\ data' = [data EXCEPT ![i] = mem_copy(@, 0, s, k)]
           /\ size' = [size EXCEPT ![i] = k]
           /\ ret' = k /\ out' = <<>>
           /\ UNCHANGED <<used, name>>
      \/ /\ find_file(n) = {}
         /\ \E i \in find_free_slot :
              /\ used' = [used EXCEPT ![i] = TRUE]
              /\ name' = [name EXCEPT ![i] = n]
              /\ data' = [data EXCEPT ![i] = mem_copy(Zeroed, 0, s, k)]
              /\ size' = [size EXCEPT ![i] = k]
              /\ ret' = k /\ out' = <<>>
      \/ find_file(n) = {} /\ find_free_slot = {} /\ Fails
  BY DEF ramfs_write
<1> HIDE DEF k
<1>4. ASSUME NEW d \in [Byte -> Nat]
      PROVE  /\ mem_copy(d, 0, s, k) \in [Byte -> Nat]
             /\ Text(mem_copy(d, 0, s, k), k) = FileMap!Clamp(s)
  <2>1. k \in Nat /\ 0 + k <= MaxFileSize /\ 0 \in Nat /\ 0 + k = k
    BY <1>2, RamFSAssumption
  <2>2. /\ mem_copy(d, 0, s, k) \in [Byte -> Nat]
        /\ Text(mem_copy(d, 0, s, k), 0 + k) = Spliced(d, 0, s, k)
    BY <1>1, <1>2, <2>1, Copied
  <2>3. Spliced(d, 0, s, k) = Text(s, k)
    BY <2>1 DEF Text, Spliced
  <2> QED
    BY <1>2, <2>1, <2>2, <2>3
<1>5. ASSUME NEW i \in Slots, NEW d \in [Byte -> Nat],
             used[i] => name[i] = n, \A j \in Slots : used[j] /\ name[j] = n => j = i,
             used' = [used EXCEPT ![i] = TRUE], name' = [name EXCEPT ![i] = n],
             data' = [data EXCEPT ![i] = mem_copy(d, 0, s, k)],
             size' = [size EXCEPT ![i] = k], ret' = k, out' = <<>>, FileMap!Room(n)
      PROVE  RamInv' /\ FileMap!Write(n, s)
  <2>1. /\ mem_copy(d, 0, s, k) \in [Byte -> Nat]
        /\ Text(mem_copy(d, 0, s, k), k) = FileMap!Clamp(s)
    BY <1>4, <1>5
  <2>2. RamInv' /\ Files' = FileMap!Set(n, Text(mem_copy(d, 0, s, k), k))
    BY <1>2, <1>5, <2>1, SlotFilled
  <2>3. Files' = FileMap!Set(n, FileMap!Clamp(s))
    BY <2>1, <2>2
  <2> QED
    BY <1>2, <1>5, <2>2, <2>3 DEF FileMap!Write
<1>6. ASSUME NEW i \in find_file(n),
             data' = [data EXCEPT ![i] = mem_copy(@, 0, s, k)],
             size' = [size EXCEPT ![i] = k], ret' = k, out' = <<>>,
             UNCHANGED <<used, name>>
      PROVE  RamInv' /\ FileMap!Write(n, s)
  <2>1. i \in Slots /\ used[i] /\ name[i] = n /\ n \in ExistingFiles
    BY FindFile
  <2>2. data[i] \in [Byte -> Nat] /\ \A j \in Slots : used[j] /\ name[j] = n => j = i
    BY <2>1 DEF RamInv
  <2>3. used' = [used EXCEPT ![i] = TRUE] /\ name' = [name EXCEPT ![i] = n]
    BY <1>6, <2>1 DEF RamInv
  <2>4. data' = [data EXCEPT ![i] = mem_copy(data[i], 0, s, k)]
    BY <1>6, <2>1 DEF RamInv
  <2> QED
    BY <1>5, <1>6, <2>1, <2>2, <2>3, <2>4, RoomFor
<1>7. ASSUME find_file(n) = {}, NEW i \in find_free_slot,
             used' = [used EXCEPT ![i] = TRUE], name' = [name EXCEPT ![i] = n],
             data' = [data EXCEPT ![i] = mem_copy(Zeroed, 0, s, k)],
             size' = [size EXCEPT ![i] = k], ret' = k, out' = <<>>
      PROVE  RamInv' /\ FileMap!Write(n, s)
  <2>1. i \in Slots /\ ~used[i] /\ \A j \in Slots : used[j] /\ name[j] = n => j = i
    BY <1>7, FreeSlotFilled
  <2>2. Zeroed \in [Byte -> Nat]
    BY DEF Zeroed
  <2> QED
    BY <1>5, <1>7, <2>1, <2>2, RoomFor
<1>8. CASE find_file(n) = {} /\ find_free_slot = {} /\ Fails
  BY <1>8, FailStep, FindFile, RoomFor DEF FileMap!Write
<1> QED
  BY <1>3, <1>6, <1>7, <1>8

LEMMA AppendStep ==
  ASSUME RamInv, NEW n \in Names, NEW s \in Contents, ramfs_append(n, s)
  PROVE  RamInv' /\ FileMap!Extend(n, s)
<1>1. CASE find_file(n) = {} /\ Fails
  BY <1>1, FailStep, FindFile, RoomFor DEF FileMap!Extend
<1>2. ASSUME NEW i \in find_file(n), NEW k, k = Smaller(Len(s), MaxFileSize - size[i]),
             data' = [data EXCEPT ![i] = mem_copy(@, size[i], s, k)],
             size' = [size EXCEPT ![i] = @ + k], ret' = k, out' = <<>>,
             UNCHANGED <<used, name>>
      PROVE  RamInv' /\ FileMap!Extend(n, s)
  <2> DEFINE d == mem_copy(data[i], size[i], s, k)
             z == size[i] + k
             whole == FileMap!Clamp(Files[n] \o s)
  <2>1. i \in Slots /\ used[i] /\ name[i] = n /\ n \in ExistingFiles
    BY FindFile
  <2>2. \A j \in Slots : used[j] /\ name[j] = n => j = i
    BY <2>1 DEF RamInv
  <2>3. Files[n] = File(i)
    BY <2>1, MapOfSlot
  <2>4. /\ z \in 0 .. MaxFileSize /\ d \in [Byte -> Nat]
        /\ Text(d, z) = whole /\ Len(whole) - Len(Files[n]) = k
    BY <1>2, <2>1, <2>3, RamFSAssumption, Appended
  <2>5. used' = [used EXCEPT ![i] = TRUE] /\ name' = [name EXCEPT ![i] = n]
    BY <1>2, <2>1 DEF RamInv
  <2>6. data' = [data EXCEPT ![i] = d] /\ size' = [size EXCEPT ![i] = z]
    BY <1>2, <2>1 DEF RamInv
  <2> HIDE DEF d, z, whole
  <2>7. RamInv' /\ Files' = FileMap!Set(n, Text(d, z))
    <3>1. z \in 0 .. MaxFileSize /\ d \in [Byte -> Nat]
      BY <2>4
    <3>2. i \in Slots /\ (used[i] => name[i] = n)
      BY <2>1
    <3> QED
      BY <2>2, <2>5, <2>6, <3>1, <3>2, SlotFilled
  <2>8. Files' = FileMap!Set(n, whole)
    BY <2>4, <2>7
  <2> QED
    BY <1>2, <2>1, <2>4, <2>7, <2>8, RoomFor DEF FileMap!Extend, whole
<1> QED
  BY <1>1, <1>2 DEF ramfs_append

LEMMA ReadStep ==
  ASSUME RamInv, NEW n \in Names, ramfs_read(n)
  PROVE  RamInv' /\ FileMap!Read(n)
<1>1. CASE find_file(n) = {} /\ Fails
  BY <1>1, FailStep, FindFile, RoomFor DEF FileMap!Read
<1>2. ASSUME NEW i \in find_file(n), NEW k, k = Smaller(size[i], MaxFileSize),
             out' = [b \in 1 .. k |-> data[i][b]], ret' = k,
             UNCHANGED <<used, name, data, size>>
      PROVE  RamInv' /\ FileMap!Read(n)
  <2>1. i \in Slots /\ used[i] /\ name[i] = n /\ n \in ExistingFiles
    BY FindFile
  <2>2. Files[n] = File(i) /\ Len(File(i)) = size[i] /\ size[i] \in 0 .. MaxFileSize
    BY <2>1, MapOfSlot, FileIsText
  <2>3. k = size[i]
    BY <1>2, <2>2, RamFSAssumption DEF Smaller
  <2>4. out' = Files[n] /\ ret' = Len(Files[n])
    BY <1>2, <2>2, <2>3 DEF File, Text
  <2>5. UNCHANGED Files /\ RamInv'
    BY <1>2, SlotsKept DEF RamInv
  <2> QED
    BY <2>1, <2>4, <2>5, RoomFor DEF FileMap!Read
<1> QED
  BY <1>1, <1>2 DEF ramfs_read

LEMMA DeleteStep ==
  ASSUME RamInv, NEW n \in Names, ramfs_delete(n)
  PROVE  RamInv' /\ FileMap!Delete(n)
<1>1. CASE find_file(n) = {} /\ Fails
  BY <1>1, FailStep, FindFile, RoomFor DEF FileMap!Delete
<1>2. ASSUME NEW i \in find_file(n),
             used' = [used EXCEPT ![i] = FALSE], name' = [name EXCEPT ![i] = NoName],
             size' = [size EXCEPT ![i] = 0], ret' = 0, out' = <<>>, UNCHANGED data
      PROVE  RamInv' /\ FileMap!Delete(n)
  <2>1. i \in Slots /\ used[i] /\ name[i] = n /\ n \in ExistingFiles
    BY FindFile
  <2>2. ~used'[i] /\ \A j \in Slots \ {i} : /\ used'[j] = used[j] /\ name'[j] = name[j]
                                              /\ size'[j] = size[j] /\ data'[j] = data[j]
    BY <1>2, <2>1 DEF RamInv
  <2>3. \A j, l \in Slots : used'[j] /\ used'[l] /\ name'[j] = name'[l] => j = l
    BY <2>2 DEF RamInv
  <2>4. /\ used' \in [Slots -> BOOLEAN] /\ name' \in [Slots -> Names \cup {NoName}]
        /\ data' \in [Slots -> [Byte -> Nat]] /\ size' \in [Slots -> 0 .. MaxFileSize]
    BY <1>2, <2>1, RamFSAssumption DEF RamInv
  <2>5. RamInv'
    BY <2>3, <2>4 DEF RamInv
  <2>6. Files' = [m \in ExistingFiles \ {n} |-> Files[m]]
    BY <2>1, <2>2, <2>5, SlotFreed
  <2> QED
    BY <1>2, <2>1, <2>5, <2>6, RoomFor DEF FileMap!Delete
<1> QED
  BY <1>1, <1>2 DEF ramfs_delete

LEMMA FreeStep ==
  ASSUME RamInv, df
  PROVE  RamInv' /\ FileMap!Free
<1> DEFINE c == Cardinality({i \in Slots : ~used[i]})
<1>1. UNCHANGED Files /\ RamInv'
  BY SlotsKept DEF df, RamInv
<1>2. c \in Nat
  <2>1. IsFiniteSet(Slots)
    BY FS_Interval, RamFSAssumption DEF Slots
  <2>2. IsFiniteSet({i \in Slots : ~used[i]})
    BY <2>1, FS_Subset
  <2> QED
    BY <2>2, FS_CardinalityType
<1>3. Cardinality(DOMAIN Files) = MaxFiles - c
  BY FilesCounted, RoomFor
<1>4. ret' = MaxFileSize * c /\ out' = <<>>
  BY DEF df, ramfs_free_space
<1> HIDE DEF c
<1>5. c = MaxFiles - Cardinality(DOMAIN Files)
  BY <1>2, <1>3, RamFSAssumption
<1> QED
  BY <1>1, <1>4, <1>5, SameCardinality DEF FileMap!Free

(* The slots of ramfs.c, with their names, sizes and stale bytes, implement *)
(* the map from names to contents: what cat reads is what was written and   *)
(* appended since the file was made, a failed call changes nothing, and df  *)
(* reports the room that is left.                                           *)
THEOREM Implementation == Spec => ImplementsFileMap
<1>1. Init => RamInv /\ FileMap!Init
  <2> SUFFICES ASSUME Init PROVE RamInv /\ FileMap!Init
    OBVIOUS
  <2>1. RamInv
    BY RamFSAssumption DEF Init, RamInv
  <2>2. ExistingFiles = {}
    BY DEF Init, ExistingFiles
  <2>3. Files = [n \in {} |-> <<>>]
    BY <2>2 DEF Files
  <2> QED
    BY <2>1, <2>3 DEF Init, FileMap!Init
<1>2. RamInv /\ [Next]_vars => RamInv' /\ [FileMap!Next]_(FileMap!vars)
  <2> SUFFICES ASSUME RamInv, [Next]_vars PROVE RamInv' /\ [FileMap!Next]_(FileMap!vars)
    OBVIOUS
  <2>1. ASSUME NEW t \in Typed,
               \/ touch(t) \/ rm(t) \/ cat(t)
               \/ \E s \in Contents : write(t, s) \/ append(t, s)
        PROVE  RamInv' /\ FileMap!Next
    <3> DEFINE n == Filename[t]
    <3>1. n \in Names
      BY DEF Names
    <3> HIDE DEF n
    <3>2. CASE touch(t)
      BY <3>1, <3>2, CreateStep DEF touch, n, FileMap!Next
    <3>3. CASE rm(t)
      BY <3>1, <3>3, DeleteStep DEF rm, n, FileMap!Next
    <3>4. CASE cat(t)
      BY <3>1, <3>4, ReadStep DEF cat, n, FileMap!Next
    <3>5. ASSUME NEW s \in Contents, write(t, s)
          PROVE  RamInv' /\ FileMap!Next
      BY <3>1, <3>5, WriteStep DEF write, n, FileMap!Next
    <3>6. ASSUME NEW s \in Contents, append(t, s)
          PROVE  RamInv' /\ FileMap!Next
      BY <3>1, <3>6, AppendStep DEF append, n, FileMap!Next
    <3> QED
      BY <2>1, <3>2, <3>3, <3>4, <3>5, <3>6
  <2>2. CASE df
    BY <2>2, FreeStep DEF FileMap!Next
  <2>3. CASE UNCHANGED vars
    <3>1. UNCHANGED Files /\ RamInv'
      BY <2>3, SlotsKept DEF vars, RamInv
    <3> QED
      BY <2>3, <3>1 DEF vars, FileMap!vars
  <2> QED
    BY <2>1, <2>2, <2>3 DEF Next
<1> QED
  BY <1>1, <1>2, PTL DEF Spec, ImplementsFileMap, FileMap!Spec
-----------------------------------------------------------------------------
(* The events in the queue are applied one after the other. *)
LEMMA AfterExists ==
  ASSUME NEW k, NEW q, Len(q) \in Nat, NEW s
  PROVE  \E f : f = [n \in 0 .. Len(q) |-> IF n = 0 THEN s ELSE Path(k)!Edited(q[n], f[n - 1])]
<1> DEFINE Good(m, f) ==
             f = [n \in 0 .. m |-> IF n = 0 THEN s ELSE Path(k)!Edited(q[n], f[n - 1])]
           T == {m \in Nat : ~ \E f : Good(m, f)}
<1>1. ASSUME T # {} PROVE FALSE
  <2>1. PICK m \in T : \A j \in T : m <= j
    BY <1>1, LeastNat
  <2>2. CASE m = 0
    <3>1. Good(0, [n \in 0 .. 0 |-> s])
      OBVIOUS
    <3> QED
      BY <2>1, <2>2, <3>1
  <2>3. CASE m # 0
    <3>1. m \in Nat /\ m - 1 \in Nat
      BY <2>3
    <3>2. ~(m - 1 \in T)
      <4> HIDE DEF T
      <4> QED
        BY <2>1, <3>1
    <3>3. PICK g : Good(m - 1, g)
      BY <3>1, <3>2
    <3> DEFINE f == [n \in 0 .. m |-> IF n = m THEN Path(k)!Edited(q[m], g[m - 1]) ELSE g[n]]
    <3>4. \A n \in 0 .. m : f[n] = IF n = 0 THEN s ELSE Path(k)!Edited(q[n], f[n - 1])
      <4> TAKE n \in 0 .. m
      <4>1. CASE n = m
        <5>1. m \in 0 .. m /\ m - 1 \in 0 .. m /\ m - 1 # m
          BY <3>1
        <5>2. f[m] = Path(k)!Edited(q[m], g[m - 1])
          BY <5>1
        <5>3. f[m - 1] = g[m - 1]
          BY <5>1
        <5> QED
          BY <2>3, <4>1, <5>2, <5>3
      <4>2. CASE n # m
        <5>1. n \in 0 .. m - 1 /\ f[n] = g[n]
          BY <3>1, <4>2
        <5>2. n # 0 => f[n - 1] = g[n - 1]
          BY <3>1, <4>2
        <5>3. g[n] = IF n = 0 THEN s ELSE Path(k)!Edited(q[n], g[n - 1])
          BY <3>3, <5>1
        <5> QED
          BY <5>1, <5>2, <5>3
      <4> QED
        BY <4>1, <4>2
    <3>5. Good(m, f)
      BY <3>4
    <3> QED
      BY <2>1, <3>5
  <2> QED
    BY <2>2, <2>3
<1> QED
  BY <1>1

LEMMA AfterStep ==
  ASSUME NEW k, NEW q, Len(q) \in Nat, NEW s, NEW f, f = Path(k)!After(q, s)
  PROVE  /\ f[0] = s
         /\ \A n \in 1 .. Len(q) : f[n] = Path(k)!Edited(q[n], f[n - 1])
<1>1. f = [n \in 0 .. Len(q) |-> IF n = 0 THEN s ELSE Path(k)!Edited(q[n], f[n - 1])]
  BY AfterExists DEF Path!After
<1>2. 0 \in 0 .. Len(q) /\ \A n \in 1 .. Len(q) : n \in 0 .. Len(q) /\ n # 0
  OBVIOUS
<1>3. \A n \in 0 .. Len(q) : f[n] = IF n = 0 THEN s ELSE Path(k)!Edited(q[n], f[n - 1])
  BY <1>1
<1> QED
  BY <1>2, <1>3

LEMMA AfterZero ==
  ASSUME NEW k, NEW q, Len(q) \in Nat, NEW s
  PROVE  Path(k)!After(q, s)[0] = s
<1> DEFINE f == Path(k)!After(q, s)
<1> HIDE DEF f
<1>1. f[0] = s /\ \A n \in 1 .. Len(q) : f[n] = Path(k)!Edited(q[n], f[n - 1])
  BY AfterStep DEF f
<1> QED
  BY <1>1 DEF f

LEMMA AfterNone ==
  ASSUME NEW k, NEW q, Len(q) = 0, NEW s
  PROVE  Path(k)!After(q, s)[Len(q)] = s
BY AfterZero

(* An event at the end of the queue is applied last. *)
LEMMA AfterPush ==
  ASSUME NEW k, NEW E, NEW q \in Seq(E), NEW e \in E, NEW s
  PROVE  Path(k)!After(Append(q, e), s)[Len(q) + 1] = Path(k)!Edited(e, Path(k)!After(q, s)[Len(q)])
<1> DEFINE r == Append(q, e)
           L == Len(q)
           f == Path(k)!After(q, s)
           g == Path(k)!After(r, s)
           T == {n \in 0 .. L : g[n] # f[n]}
<1>1. L \in Nat /\ Len(r) = L + 1 /\ Len(r) \in Nat /\ r[L + 1] = e /\ \A n \in 1 .. L : r[n] = q[n]
  OBVIOUS
<1> HIDE DEF r, L, f, g
<1>2. f[0] = s /\ \A n \in 1 .. L : f[n] = Path(k)!Edited(q[n], f[n - 1])
  <2>1. Len(q) \in Nat
    BY <1>1 DEF L
  <2>2. f[0] = s /\ \A n \in 1 .. Len(q) : f[n] = Path(k)!Edited(q[n], f[n - 1])
    BY <2>1, AfterStep DEF f
  <2> QED
    BY <2>2 DEF L
<1>3. g[0] = s /\ \A n \in 1 .. L + 1 : g[n] = Path(k)!Edited(r[n], g[n - 1])
  <2>1. Len(r) \in Nat
    BY <1>1
  <2>2. g[0] = s /\ \A n \in 1 .. Len(r) : g[n] = Path(k)!Edited(r[n], g[n - 1])
    BY <2>1, AfterStep DEF g
  <2> QED
    BY <1>1, <2>2
<1>4. ASSUME T # {} PROVE FALSE
  <2>1. T \in SUBSET Nat
    BY <1>1
  <2>2. PICK n \in T : \A j \in T : n <= j
    BY <1>4, <2>1, LeastNat
  <2>3. n \in 0 .. L /\ g[n] # f[n]
    OBVIOUS
  <2>4. n # 0
    BY <1>2, <1>3, <2>3
  <2>5. n \in 1 .. L /\ n \in 1 .. L + 1 /\ n - 1 \in 0 .. L /\ ~(n <= n - 1)
    BY <1>1, <2>3, <2>4
  <2>6. g[n - 1] = f[n - 1]
    BY <2>2, <2>5
  <2> QED
    BY <1>1, <1>2, <1>3, <2>3, <2>5, <2>6
<1>5. L \in 0 .. L /\ L + 1 \in 1 .. L + 1 /\ (L + 1) - 1 = L
  BY <1>1
<1>6. g[L] = f[L]
  BY <1>4, <1>5
<1> QED
  BY <1>1, <1>3, <1>5, <1>6 DEF f, g, r, L

(* The event at its head is applied first. *)
LEMMA AfterTurn ==
  ASSUME NEW k, NEW E, NEW q \in Seq(E), q # <<>>, NEW s
  PROVE  Path(k)!After(Tail(q), Path(k)!Edited(Head(q), s))[Len(Tail(q))]
           = Path(k)!After(q, s)[Len(q)]
<1> DEFINE r == Tail(q)
           L == Len(r)
           f == Path(k)!After(q, s)
           g == Path(k)!After(r, Path(k)!Edited(Head(q), s))
           T == {n \in 0 .. L : g[n] # f[n + 1]}
<1>1. /\ L \in Nat /\ Len(q) = L + 1 /\ Len(q) \in Nat /\ q[1] = Head(q)
      /\ \A n \in 1 .. L : r[n] = q[n + 1]
  OBVIOUS
<1> HIDE DEF r, L, f, g
<1>2. f[0] = s /\ \A n \in 1 .. L + 1 : f[n] = Path(k)!Edited(q[n], f[n - 1])
  <2>1. f[0] = s /\ \A n \in 1 .. Len(q) : f[n] = Path(k)!Edited(q[n], f[n - 1])
    BY <1>1, AfterStep DEF f
  <2> QED
    BY <1>1, <2>1
<1>3. /\ g[0] = Path(k)!Edited(Head(q), s)
      /\ \A n \in 1 .. L : g[n] = Path(k)!Edited(r[n], g[n - 1])
  BY <1>1, AfterStep DEF g, L
<1>4. ASSUME T # {} PROVE FALSE
  <2>1. T \in SUBSET Nat
    BY <1>1
  <2>2. PICK n \in T : \A j \in T : n <= j
    BY <1>4, <2>1, LeastNat
  <2>3. n \in 0 .. L /\ g[n] # f[n + 1]
    OBVIOUS
  <2>4. n # 0
    <3>1. 1 \in 1 .. L + 1 /\ 1 - 1 = 0
      BY <1>1
    <3>2. f[1] = g[0]
      BY <1>1, <1>2, <1>3, <3>1
    <3> QED
      BY <2>3, <3>2
  <2>5. /\ n \in 1 .. L /\ n + 1 \in 1 .. L + 1 /\ n - 1 \in 0 .. L /\ ~(n <= n - 1)
        /\ (n - 1) + 1 = n /\ (n + 1) - 1 = n
    BY <1>1, <2>3, <2>4
  <2>6. g[n - 1] = f[n]
    BY <2>2, <2>5
  <2> QED
    BY <1>1, <1>2, <1>3, <2>3, <2>5, <2>6
<1>5. L \in 0 .. L
  BY <1>1
<1>6. g[L] = f[L + 1]
  BY <1>4, <1>5
<1> QED
  BY <1>1, <1>6 DEF f, g, r, L

Edit == [line |-> line, ran |-> ran]
PathInv(k) == queue \in Seq(Path(k)!Events) /\ Path(k)!TypedIsRun

(* The main loop does with an event what a user expects of it. *)
LEMMA SwitchEdits ==
  ASSUME NEW k \in DOMAIN Terminals, NEW e, Path(k)!Switch(e)
  PROVE  Edit' = Path(k)!Edited(e, Edit)
<1>1. CASE e = "LF"
  <2>1. (Path(k)!Console!Enter \/ Path(k)!Console!EnterClear) /\ ran' = line
    BY <1>1, Zenon DEF Path!Switch
  <2>2. Path(k)!Edited(e, Edit) = [line |-> <<>>, ran |-> Edit.line]
    BY <1>1, Zenon DEF Path!Edited
  <2> QED
    BY <2>1, <2>2 DEF Path!Console!Enter, Path!Console!EnterClear, Edit
<1>2. CASE e = "BS"
  <2>1. /\ IF line = <<>> THEN UNCHANGED Path(k)!console ELSE Path(k)!Console!Backspace
        /\ UNCHANGED ran
    BY <1>2, Zenon DEF Path!Switch
  <2>2. Path(k)!Edited(e, Edit) = [Edit EXCEPT !.line = SubSeq(Edit.line, 1, Len(Edit.line) - 1)]
    BY <1>2, Zenon DEF Path!Edited
  <2>3. line' = SubSeq(line, 1, Len(line) - 1)
    <3>1. CASE line = <<>>
      <4>1. SubSeq(<<>>, 1, Len(<<>>) - 1) = <<>>
        OBVIOUS
      <4> QED
        BY <2>1, <3>1, <4>1 DEF Path!console
    <3>2. CASE line # <<>>
      BY <2>1, <3>2 DEF Path!Console!Backspace
    <3> QED
      BY <3>1, <3>2
  <2> QED
    BY <2>1, <2>2, <2>3 DEF Edit
<1>3. CASE e = "CLICK"
  <2>1. Path(k)!Console!Click /\ UNCHANGED ran
    BY <1>3, Zenon DEF Path!Switch
  <2>2. Path(k)!Edited(e, Edit) = Edit
    BY <1>3, Zenon DEF Path!Edited
  <2> QED
    BY <2>1, <2>2 DEF Path!Console!Click, Edit
<1>4. CASE e \notin {"LF", "BS", "CLICK"}
  <2>1. /\ IF Len(line) < Terminals[k].size - 1 THEN Path(k)!Console!Key(e) ELSE UNCHANGED Path(k)!console
        /\ UNCHANGED ran
    BY <1>4, Zenon DEF Path!Switch
  <2>2. Path(k)!Edited(e, Edit) =
          [Edit EXCEPT !.line = IF Len(Edit.line) < Terminals[k].size - 1 THEN Append(Edit.line, e)
                                ELSE Edit.line]
    BY <1>4, Zenon DEF Path!Edited
  <2>3. line' = IF Len(line) < Terminals[k].size - 1 THEN Append(line, e) ELSE line
    BY <2>1 DEF Path!Console!Key, Path!console
  <2> QED
    BY <2>1, <2>2, <2>3 DEF Edit
<1> QED
  BY <1>1, <1>2, <1>3, <1>4

(* The queue holds an event, so that it can drop one. *)
LEMMA QueueAppends ==
  ASSUME NEW k \in DOMAIN Terminals, NEW E, NEW q \in Seq(E), NEW e \in E,
         NEW r, r = Append(IF Len(q) = Terminals[k].capacity THEN Tail(q) ELSE q, e)
  PROVE  r \in Seq(E)
<1>1. CASE Len(q) = Terminals[k].capacity
  <2>1. Terminals[k].capacity # 0
    BY TerminalAssumption
  <2>2. Tail(q) \in Seq(E)
    BY <1>1, <2>1
  <2> QED
    BY <1>1, <2>2
<1>2. CASE Len(q) # Terminals[k].capacity
  BY <1>2
<1> QED
  BY <1>1, <1>2

LEMMA PushStep ==
  ASSUME NEW k \in DOMAIN Terminals, PathInv(k), NEW e \in Path(k)!Events, Path(k)!Push(e)
  PROVE  PathInv(k)'
<1>1. queue \in Seq(Path(k)!Events) /\ Path(k)!TypedIsRun
  BY DEF PathInv
<1>2. /\ queue' = Append(IF Len(queue) = Terminals[k].capacity THEN Tail(queue) ELSE queue, e)
      /\ UNCHANGED <<line, ran>>
  BY DEF Path!Push, Path!console
<1>3. Path(k)!Events' = Path(k)!Events
  BY DEF Path!Events
<1>4. queue' \in Seq(Path(k)!Events)
  BY <1>1, <1>2, QueueAppends
<1>5. ASSUME ~dropped' PROVE Path(k)!After(queue', Edit)[Len(queue')] = intended'
  <2>1. ~dropped /\ Len(queue) # Terminals[k].capacity /\ intended' = Path(k)!Edited(e, intended)
    BY <1>5 DEF Path!Push
  <2>2. queue' = Append(queue, e) /\ Len(queue') = Len(queue) + 1
    BY <1>1, <1>2, <2>1
  <2>3. Path(k)!After(queue, Edit)[Len(queue)] = intended
    BY <1>1, <2>1 DEF Path!TypedIsRun, Edit
  <2> QED
    BY <1>1, <2>1, <2>2, <2>3, AfterPush
<1>6. Edit' = Edit
  BY <1>2 DEF Edit
<1> QED
  BY <1>3, <1>4, <1>5, <1>6 DEF PathInv, Path!TypedIsRun, Edit

LEMMA TurnStep ==
  ASSUME NEW k \in DOMAIN Terminals, PathInv(k), Path(k)!Turn
  PROVE  PathInv(k)'
<1>1. queue \in Seq(Path(k)!Events) /\ Path(k)!TypedIsRun
  BY DEF PathInv
<1>2. queue # <<>> /\ queue' = Tail(queue) /\ Path(k)!Switch(Head(queue))
  BY DEF Path!Turn
<1>3. Path(k)!Events' = Path(k)!Events
  BY DEF Path!Events
<1>4. queue' \in Seq(Path(k)!Events)
  BY <1>1, <1>2
<1>5. Edit' = Path(k)!Edited(Head(queue), Edit)
  BY <1>2, SwitchEdits
<1>6. ASSUME ~dropped' PROVE Path(k)!After(queue', Edit')[Len(queue')] = intended'
  <2>1. CASE dropped
    <3>1. queue' = <<>> /\ intended' = Edit'
      BY <1>6, <2>1 DEF Path!Turn, Edit
    <3>2. PICK s : s = Edit'
      OBVIOUS
    <3>3. Path(k)!After(queue', s)[Len(queue')] = s
      BY <3>1, AfterNone, Len(queue') = 0
    <3> QED
      BY <3>1, <3>2, <3>3
  <2>2. CASE ~dropped
    <3>1. intended' = intended
      BY <2>2 DEF Path!Turn
    <3>2. Path(k)!After(queue, Edit)[Len(queue)] = intended
      BY <1>1, <2>2 DEF Path!TypedIsRun, Edit
    <3> QED
      BY <1>1, <1>2, <1>5, <3>1, <3>2, AfterTurn
  <2> QED
    BY <2>1, <2>2
<1> QED
  BY <1>3, <1>4, <1>6 DEF PathInv, Path!TypedIsRun, Edit

(* What is typed is what runs, for every queue, line buffer and alphabet:  *)
(* the line that is edited and the one that ran last, with the events      *)
(* still queued applied to them, are what the events pushed ask for.       *)
THEOREM TypedRuns == MCSpec => []TypedIsRun
<1> DEFINE Inv == \A k \in DOMAIN Terminals : active = k => PathInv(k)
<1>1. MCInit => Inv
  <2> SUFFICES ASSUME MCInit, NEW k \in DOMAIN Terminals, active = k PROVE PathInv(k)
    OBVIOUS
  <2>1. Path(k)!Init
    BY DEF MCInit
  <2>2. queue = <<>> /\ line = <<>> /\ ran = <<>> /\ intended = Edit
    BY <2>1 DEF Path!Init, Path!Console!Init, Edit
  <2>3. Path(k)!After(queue, Edit)[Len(queue)] = Edit
    BY <2>2, AfterNone, Len(queue) = 0
  <2>4. queue \in Seq(Path(k)!Events)
    BY <2>2
  <2> QED
    BY <2>2, <2>3, <2>4 DEF PathInv, Path!TypedIsRun, Edit
<1>2. Inv /\ [MCNext]_allVars => Inv'
  <2> SUFFICES ASSUME Inv, [MCNext]_allVars, NEW k \in DOMAIN Terminals, active' = k
               PROVE  PathInv(k)'
    OBVIOUS
  <2>1. active = k /\ PathInv(k)
    BY DEF MCNext, RamFSStep, PathStep, ShellStep, ScreenStep, allVars
  <2>2. CASE Path(k)!Next
    BY <2>1, <2>2, PushStep, TurnStep DEF Path!Next
  <2>3. CASE UNCHANGED path
    BY <2>1, <2>3 DEF PathInv, Path!TypedIsRun, Path!Events, path
  <2> QED
    BY <2>1, <2>2, <2>3 DEF MCNext, RamFSStep, PathStep, ShellStep, ScreenStep, allVars
<1>3. Inv => TypedIsRun
  BY DEF PathInv, TypedIsRun
<1> QED
  BY <1>1, <1>2, <1>3, PTL DEF MCSpec

-----------------------------------------------------------------------------
(* Screens as cells b of 0 .. N - 1 with rows of W and a cursor at p. *)

(* The cells from p on are among the blank ones. *)
Clear(N, b, p, blanks) == \A i \in 0 .. N - 1 : i >= p => b[i] \in blanks

(* The first L characters of s stand right before p, as far as they have   *)
(* not scrolled off.                                                       *)
Shows(b, p, s, L) ==
  \A n \in 1 .. L : p - L + n - 1 >= 0 => b[p - L + n - 1] = s[n]

(* The cells move up by a row. *)
Rolled(N, W, b, c, blanks) ==
  \A i \in 0 .. N - 1 : IF i + W <= N - 1 THEN c[i] = b[i + W] ELSE c[i] \in blanks

(* x is written at p. *)
Set(N, b, p, x, c) == \A i \in 0 .. N - 1 : c[i] = IF i = p THEN x ELSE b[i]

(* ... and the cursor moves on. *)
Written(N, W, b, p, x, c, q, blanks) ==
  \/ p + 1 < N /\ q = p + 1 /\ Set(N, b, p, x, c)
  \/ /\ p + 1 = N /\ q = N - W
     /\ \E d : Set(N, b, p, x, d) /\ Rolled(N, W, d, c, blanks)

LEMMA WrittenShows ==
  ASSUME NEW N \in Nat, NEW W \in Nat, 0 < W, W <= N, NEW p \in 0 .. N - 1, NEW b, NEW c, NEW q,
         NEW blanks, NEW s, NEW L \in Nat, NEW x, x = s[L + 1],
         Written(N, W, b, p, x, c, q, blanks), Shows(b, p, s, L)
  PROVE  Shows(c, q, s, L + 1)
<1>1. q \in 0 .. N - 1
  BY DEF Written
<1>2. \A n \in 1 .. L : p - L + n - 1 >= 0 => b[p - L + n - 1] = s[n]
  BY DEF Shows
<1> SUFFICES ASSUME NEW n \in 1 .. L + 1, NEW m, m = q - (L + 1) + n - 1, m >= 0
             PROVE  c[m] = s[n]
  BY DEF Shows
<1>3. CASE p + 1 < N /\ q = p + 1 /\ Set(N, b, p, x, c)
  <2>1. m = p - L + n - 1 /\ m \in 0 .. N - 1 /\ m <= p
    BY <1>1, <1>3
  <2>2. c[m] = IF m = p THEN x ELSE b[m]
    BY <1>3, <2>1 DEF Set
  <2>3. CASE m = p
    BY <1>1, <2>1, <2>2, <2>3
  <2>4. CASE m # p
    <3>1. n \in 1 .. L
      BY <1>1, <2>1, <2>4
    <3> QED
      BY <1>1, <1>2, <2>1, <2>2, <2>4, <3>1
  <2> QED
    BY <2>3, <2>4
<1>4. CASE /\ p + 1 = N /\ q = N - W
           /\ \E d : Set(N, b, p, x, d) /\ Rolled(N, W, d, c, blanks)
  <2>1. PICK d : Set(N, b, p, x, d) /\ Rolled(N, W, d, c, blanks)
    BY <1>4
  <2>2. m + W = p - L + n - 1 /\ m + W \in 0 .. N - 1 /\ m \in 0 .. N - 1
    BY <1>1, <1>4
  <2>3. c[m] = d[m + W]
    BY <2>1, <2>2 DEF Rolled
  <2>4. d[m + W] = IF m + W = p THEN x ELSE b[m + W]
    BY <2>1, <2>2 DEF Set
  <2>5. CASE m + W = p
    BY <1>1, <2>2, <2>3, <2>4, <2>5
  <2>6. CASE m + W # p
    <3>1. n \in 1 .. L
      BY <1>1, <2>2, <2>6
    <3> QED
      <4>1. p - L + n - 1 >= 0
        BY <2>2
      <4>2. b[p - L + n - 1] = s[n]
        BY <1>1, <1>2, <3>1, <4>1
      <4> QED
        BY <2>2, <2>3, <2>4, <2>6, <4>2
  <2> QED
    BY <2>2, <2>5, <2>6
<1> QED
  BY <1>3, <1>4 DEF Written

LEMMA WrittenClear ==
  ASSUME NEW N \in Nat, NEW W \in Nat, 0 < W, W <= N, NEW p \in 0 .. N - 1, NEW b, NEW c, NEW q,
         NEW blanks, NEW x,
         Written(N, W, b, p, x, c, q, blanks), Clear(N, b, p, blanks)
  PROVE  Clear(N, c, q, blanks)
<1>1. CASE p + 1 < N /\ q = p + 1 /\ Set(N, b, p, x, c)
  BY <1>1 DEF Clear, Set
<1>2. CASE /\ p + 1 = N /\ q = N - W
           /\ \E d : Set(N, b, p, x, d) /\ Rolled(N, W, d, c, blanks)
  BY <1>2 DEF Clear, Rolled
<1> QED
  BY <1>1, <1>2 DEF Written

LEMMA Front ==
  ASSUME NEW S, NEW s \in Seq(S), s # <<>>
  PROVE  /\ SubSeq(s, 1, Len(s) - 1) \in Seq(S)
         /\ Len(s) \in Nat /\ Len(s) > 0 /\ Len(SubSeq(s, 1, Len(s) - 1)) = Len(s) - 1
         /\ \A n \in 1 .. Len(s) - 1 : SubSeq(s, 1, Len(s) - 1)[n] = s[n]
<1>1. Len(s) \in Nat /\ Len(s) > 0 /\ \A n \in 1 .. Len(s) : s[n] \in S
  OBVIOUS
<1>2. PICK m \in Int : m = Len(s) - 1
  BY <1>1
<1>3. \A n \in 1 .. m : s[n] \in S
  BY <1>1, <1>2
<1>4. /\ SubSeq(s, 1, m) \in Seq(S) /\ Len(SubSeq(s, 1, m)) = IF 1 <= m THEN m - 1 + 1 ELSE 0
      /\ \A n \in 1 .. m - 1 + 1 : SubSeq(s, 1, m)[n] = s[1 + n - 1]
  BY <1>3, SubSeqProperties
<1>5. /\ Len(SubSeq(s, 1, m)) = m
      /\ \A n \in 1 .. m : SubSeq(s, 1, m)[n] = s[n]
  <2>1. m >= 0 /\ m - 1 + 1 = m /\ \A n \in 1 .. m : 1 + n - 1 = n
    BY <1>1, <1>2
  <2> QED
    BY <1>4, <2>1
<1> QED
  BY <1>1, <1>2, <1>4, <1>5

(* A deleted character is gone from the screen. *)
LEMMA DeletedShows ==
  ASSUME NEW N \in Nat, NEW p \in 1 .. N - 1, NEW b, NEW c, NEW x, NEW s, NEW L \in Nat, L > 0,
         Set(N, b, p - 1, x, c), Shows(b, p, s, L)
  PROVE  Shows(c, p - 1, s, L - 1)
<1>1. \A n \in 1 .. L : p - L + n - 1 >= 0 => b[p - L + n - 1] = s[n]
  BY DEF Shows
<1> SUFFICES ASSUME NEW n \in 1 .. L - 1, NEW m, m = (p - 1) - (L - 1) + n - 1, m >= 0
             PROVE  c[m] = s[n]
  BY DEF Shows
<1>2. m = p - L + n - 1 /\ m \in 0 .. N - 1 /\ m # p - 1 /\ n \in 1 .. L
  OBVIOUS
<1> QED
  BY <1>1, <1>2 DEF Set

LEMMA DeletedClear ==
  ASSUME NEW N \in Nat, NEW p \in 1 .. N - 1, NEW b, NEW c, NEW blanks, NEW x \in blanks,
         Set(N, b, p - 1, x, c), Clear(N, b, p, blanks)
  PROVE  Clear(N, c, p - 1, blanks)
BY DEF Clear, Set

(* The cells of a row are numbered from r * W on. *)
LEMMA RowFacts ==
  ASSUME NEW W \in Nat \ {0}, NEW H \in Nat \ {0}, NEW r \in 0 .. H - 1
  PROVE  /\ W * H \in Nat /\ W <= W * H /\ (H - 1) * W = W * H - W
         /\ r * W \in Nat /\ (r + 1) * W = r * W + W /\ r * W + W <= W * H
         /\ (r + 1 = H => r * W + W = W * H)
         /\ (r + 1 < H => r * W + W + W <= W * H)
<1>1. W * H \in Nat /\ r * W \in Nat /\ (H - 1) * W = W * H - W /\ (r + 1) * W = r * W + W
  OBVIOUS
<1>2. PICK g \in Nat : H = r + 1 + g
  <2>1. H - r - 1 \in Nat
    OBVIOUS
  <2> QED
    BY <2>1
<1>3. W * H = r * W + W + g * W /\ g * W \in Nat
  BY <1>2
<1>4. g # 0 => g * W >= W
  <2>1. SUFFICES ASSUME g # 0 PROVE g * W >= W
    OBVIOUS
  <2>2. (g - 1) * W \in Nat /\ g * W = (g - 1) * W + W
    BY <2>1
  <2> QED
    BY <2>2
<1> QED
  BY <1>1, <1>2, <1>3, <1>4

LEMMA CursorRange ==
  ASSUME NEW W \in Nat \ {0}, NEW H \in Nat \ {0}, NEW r \in 0 .. H - 1, NEW x \in 0 .. W - 1
  PROVE  r * W + x \in 0 .. W * H - 1
<1>1. PICK e, N : e = r * W /\ N = W * H
  OBVIOUS
<1>2. e \in Nat /\ N \in Nat /\ e + W <= N
  BY <1>1, RowFacts
<1>3. e + x \in 0 .. N - 1
  BY <1>2
<1> QED
  BY <1>1, <1>3

(* The screen b with the cursor at row r and column x is c with row q and  *)
(* column y: it was scrolled if it has no row r.                           *)
Lands(W, H, blanks, b, r, x, c, q, y) ==
  /\ y = x
  /\ IF r < H THEN q = r /\ c = b ELSE q = H - 1 /\ Rolled(W * H, W, b, c, blanks)

(* The cells below row r of b are as before in c, or c has none below q. *)
Keeps(W, H, b, r, c, q) ==
  \/ q = H - 1
  \/ q >= r /\ \A i \in 0 .. W * H - 1 : i >= (r + 1) * W => c[i] = b[i]

LEMMA LandsKeeps ==
  ASSUME NEW W, NEW H \in Nat \ {0}, NEW blanks, NEW b, NEW c, NEW r, NEW q, NEW y,
         NEW s \in Nat, NEW x, s >= r, Lands(W, H, blanks, b, s, x, c, q, y)
  PROVE  Keeps(W, H, b, r, c, q)
BY DEF Lands, Keeps

(* A character written, and the cursor moved on by one. *)
LEMMA PlainWritten ==
  ASSUME NEW W \in Nat \ {0}, NEW H \in Nat \ {0}, NEW r \in 0 .. H - 1, NEW x \in 0 .. W - 1,
         NEW blanks, NEW b, NEW c, NEW d, NEW g, NEW p, p = r * W + x, Set(W * H, b, p, g, d),
         NEW s, NEW z, IF x + 1 < W THEN s = r /\ z = x + 1 ELSE s = r + 1 /\ z = 0,
         NEW q, NEW y, Lands(W, H, blanks, d, s, z, c, q, y)
  PROVE  Keeps(W, H, b, r, c, q) /\ Written(W * H, W, b, p, g, c, q * W + y, blanks)
<1>1. PICK e, N : e = r * W /\ N = W * H
  OBVIOUS
<1>2. /\ e \in Nat /\ N \in Nat /\ e + W <= N /\ W <= N /\ p = e + x
      /\ (r + 1 = H => e + W = N) /\ (r + 1 < H => e + W + W <= N)
  BY <1>1, RowFacts
<1>3. (r + 1) * W = e + W /\ (H - 1) * W = N - W
  BY <1>1, RowFacts
<1>4. Set(N, b, p, g, d) /\ Lands(W, H, blanks, d, s, z, c, q, y)
  BY <1>1
<1>5. \A i \in 0 .. N - 1 : i >= (r + 1) * W => d[i] = b[i]
  BY <1>2, <1>3, <1>4 DEF Set
<1>6. CASE x + 1 < W
  <2>1. q = r /\ y = x + 1 /\ c = d
    BY <1>4, <1>6 DEF Lands
  <2>2. q * W + y = p + 1 /\ p + 1 < N
    <3>1. e + (x + 1) = p + 1 /\ p + 1 < N
      BY <1>2, <1>6
    <3> QED
      BY <1>1, <2>1, <3>1
  <2> QED
    BY <1>1, <1>4, <1>5, <2>1, <2>2 DEF Keeps, Written
<1>7. CASE ~(x + 1 < W)
  <2>1. x + 1 = W /\ s = r + 1 /\ z = 0 /\ (r + 1 < H \/ r + 1 = H) /\ p + 1 = e + W
    BY <1>2, <1>7
  <2>2. CASE r + 1 < H
    <3>1. q = r + 1 /\ y = 0 /\ c = d
      BY <1>4, <2>1, <2>2 DEF Lands
    <3>2. q * W + y = p + 1 /\ p + 1 < N
      <4>1. (e + W) + 0 = p + 1 /\ p + 1 < N
        BY <1>2, <2>1, <2>2
      <4> QED
        BY <1>3, <3>1, <4>1
    <3>3. q >= r
      BY <3>1
    <3> QED
      BY <1>1, <1>4, <1>5, <3>1, <3>2, <3>3 DEF Keeps, Written
  <2>3. CASE r + 1 = H
    <3>1. q = H - 1 /\ y = 0 /\ Rolled(N, W, d, c, blanks)
      BY <1>1, <1>4, <2>1, <2>3 DEF Lands
    <3>2. q * W + y = N - W /\ p + 1 = N
      <4>1. (N - W) + 0 = N - W /\ p + 1 = N
        BY <1>2, <2>1, <2>3
      <4> QED
        BY <1>3, <3>1, <4>1
    <3> QED
      BY <1>1, <1>4, <3>1, <3>2 DEF Keeps, Written
  <2> QED
    BY <2>1, <2>2, <2>3
<1> QED
  BY <1>6, <1>7

(* A line feed gets to a blank row. *)
LEMMA FeedClears ==
  ASSUME NEW W \in Nat \ {0}, NEW H \in Nat \ {0}, NEW r \in 0 .. H - 1,
         NEW blanks, NEW b, NEW c, NEW s, s = r + 1, NEW q, NEW y,
         Lands(W, H, blanks, b, s, 0, c, q, y), Clear(W * H, b, (r + 1) * W, blanks)
  PROVE  Clear(W * H, c, q * W + y, blanks)
<1>1. CASE s < H
  <2>1. q = s /\ y = 0 /\ c = b
    BY <1>1 DEF Lands
  <2>2. s * W + 0 = (r + 1) * W
    OBVIOUS
  <2> QED
    BY <2>1, <2>2
<1>2. CASE ~(s < H)
  <2>1. PICK N : N = W * H
    OBVIOUS
  <2>2. q = H - 1 /\ y = 0 /\ Rolled(N, W, b, c, blanks)
    BY <1>2, <2>1 DEF Lands
  <2>3. (H - 1) * W = N - W /\ W <= N /\ N \in Nat
    BY <2>1, RowFacts
  <2>4. q * W + y = N - W
    BY <2>2, <2>3
  <2>5. \A i \in 0 .. N - 1 : i >= N - W => ~(i + W <= N - 1)
    BY <2>3
  <2> QED
    BY <2>1, <2>2, <2>4, <2>5 DEF Rolled, Clear
<1> QED
  BY <1>1, <1>2

LEMMA KeepsClear ==
  ASSUME NEW W \in Nat \ {0}, NEW H \in Nat \ {0}, NEW r \in 0 .. H - 1, NEW q \in 0 .. H - 1,
         NEW blanks, NEW b, NEW c, Keeps(W, H, b, r, c, q), Clear(W * H, b, (r + 1) * W, blanks)
  PROVE  Clear(W * H, c, (q + 1) * W, blanks)
<1>1. PICK N : N = W * H
  OBVIOUS
<1>2. N \in Nat
  BY <1>1
<1>3. CASE q = H - 1
  <2>1. (q + 1) * W = N
    BY <1>1, <1>3
  <2>2. \A i \in 0 .. N - 1 : ~(i >= N)
    BY <1>2
  <2> QED
    BY <1>1, <2>1, <2>2 DEF Clear
<1>4. CASE q # H - 1
  <2>1. q >= r /\ \A i \in 0 .. N - 1 : i >= (r + 1) * W => c[i] = b[i]
    BY <1>1, <1>4 DEF Keeps
  <2>2. PICK h \in Nat : q = r + h
    <3>1. q - r \in Nat
      BY <2>1
    <3> QED
      BY <3>1
  <2>3. (q + 1) * W = (r + 1) * W + h * W
    BY <2>2
  <2>4. \A i \in 0 .. N - 1 : i >= (q + 1) * W => i >= (r + 1) * W
    BY <1>2, <2>2, <2>3
  <2> QED
    BY <1>1, <2>1, <2>4 DEF Clear
<1> QED
  BY <1>3, <1>4

LEMMA BehindBelow ==
  ASSUME NEW W \in Nat \ {0}, NEW H \in Nat \ {0}, NEW r \in 0 .. H - 1, NEW x \in 0 .. W - 1,
         NEW blanks, NEW b, Clear(W * H, b, r * W + x, blanks)
  PROVE  Clear(W * H, b, (r + 1) * W, blanks)
<1>1. PICK e, N : e = r * W /\ N = W * H
  OBVIOUS
<1>2. e \in Nat /\ N \in Nat /\ (r + 1) * W = e + W
  BY <1>1, RowFacts
<1>3. \A i \in 0 .. N - 1 : i >= e + W => i >= e + x
  BY <1>2
<1> QED
  BY <1>1, <1>2, <1>3 DEF Clear

-----------------------------------------------------------------------------
(* The screen of SimpleOS. *)

(* The characters of the texts and of the screen. *)
Glyphs == STRING \cup {" ", "LF", "[", "]", "$"}

ConsoleType(k) ==
  [buffer : [Path(k)!Console!Cells -> Glyphs],
   row : 0 .. Terminals[k].height - 1, col : 0 .. Terminals[k].width - 1]
Size(k) == Terminals[k].width * Terminals[k].height

LEMMA TerminalType ==
  ASSUME NEW k \in DOMAIN Terminals
  PROVE  /\ Terminals[k].width \in Nat \ {0} /\ Terminals[k].height \in Nat \ {0}
         /\ Terminals[k].tab \in Nat \ {0} /\ Size(k) \in Nat
BY TerminalAssumption DEF Size

Pos(k, v) == v.row * Terminals[k].width + v.col

LEMMA ConsolePos ==
  ASSUME NEW k \in DOMAIN Terminals, NEW v \in ConsoleType(k)
  PROVE  Pos(k, v) \in 0 .. Size(k) - 1
BY TerminalType, CursorRange DEF ConsoleType, Pos, Size

(* w is the screen b with the cursor at row r and column x, scrolled if    *)
(* there is no such row.                                                   *)
ConsoleLands(k, b, r, x, w) ==
  /\ w \in ConsoleType(k)
  /\ Lands(Terminals[k].width, Terminals[k].height, {" "}, b, r, x, w.buffer, w.row, w.col)

LEMMA ScrollResult ==
  ASSUME NEW k \in DOMAIN Terminals, NEW b \in [Path(k)!Console!Cells -> Glyphs],
         NEW r \in 0 .. Terminals[k].height, NEW x \in 0 .. Terminals[k].width - 1,
         NEW w, w = Path(k)!Console!scroll([buffer |-> b, row |-> r, col |-> x])
  PROVE  ConsoleLands(k, b, r, x, w)
<1> DEFINE W == Terminals[k].width
           H == Terminals[k].height
           N == Size(k)
<1>1. W \in Nat \ {0} /\ H \in Nat \ {0} /\ N \in Nat
  BY TerminalType
<1>2. Path(k)!Console!Cells = 0 .. N - 1
  BY DEF Path!Console!Cells, Size
<1> HIDE DEF W, H, N
<1>3. CASE r < H
  <2>1. w = [buffer |-> b, row |-> r, col |-> x]
    BY <1>1, <1>3 DEF Path!Console!scroll, H
  <2>2. r \in 0 .. H - 1
    BY <1>1, <1>3 DEF H
  <2> QED
    BY <1>3, <2>1, <2>2 DEF ConsoleType, ConsoleLands, Lands, H
<1>4. CASE ~(r < H)
  <2> DEFINE c == [i \in 0 .. N - 1 |-> IF i + W \in 0 .. N - 1 THEN b[i + W] ELSE " "]
  <2>1. r >= H
    BY <1>1, <1>4 DEF H
  <2>2. w = [buffer |-> c, row |-> H - 1, col |-> x]
    BY <1>2, <2>1 DEF Path!Console!scroll, Path!Console!Blank, H, W
  <2>3. c \in [0 .. N - 1 -> Glyphs] /\ Rolled(N, W, b, c, {" "})
    <3>1. \A i \in 0 .. N - 1 : (i + W \in 0 .. N - 1) <=> (i + W <= N - 1)
      BY <1>1
    <3>2. \A i \in 0 .. N - 1 : c[i] = IF i + W \in 0 .. N - 1 THEN b[i + W] ELSE " "
      OBVIOUS
    <3>3. c \in [0 .. N - 1 -> Glyphs]
      <4>1. \A i \in 0 .. N - 1 : b[i] \in Glyphs
        BY <1>2
      <4>2. " " \in Glyphs
        BY DEF Glyphs
      <4> QED
        BY <4>1, <4>2
    <3> HIDE DEF c
    <3> QED
      BY <3>1, <3>2, <3>3 DEF Rolled
  <2> HIDE DEF c
  <2>4. H - 1 \in 0 .. H - 1
    BY <1>1
  <2>5. w.row = H - 1 /\ w.col = x /\ w.buffer = c
    BY <2>2
  <2>6. w \in ConsoleType(k)
    <3>1. c \in [Path(k)!Console!Cells -> Glyphs] /\ H - 1 \in 0 .. Terminals[k].height - 1
      BY <1>2, <2>3, <2>4 DEF H
    <3> QED
      BY <2>2, <3>1 DEF ConsoleType
  <2> QED
    BY <1>4, <2>3, <2>5, <2>6 DEF ConsoleLands, Lands, Size, H, W, N
<1> QED
  BY <1>3, <1>4

(* The end of a row is left, and the screen is scrolled, at once. *)
LEMMA StaysInRow ==
  ASSUME NEW k \in DOMAIN Terminals, NEW d \in [Path(k)!Console!Cells -> Glyphs],
         NEW r \in 0 .. Terminals[k].height, NEW x \in 0 .. Terminals[k].width - 1, NEW v, NEW c,
         Path(k)!Console!Moved(v, c) = [buffer |-> d, row |-> r, col |-> x],
         NEW w, w = Path(k)!Console!vga_putchar(v, c)
  PROVE  ConsoleLands(k, d, r, x, w)
<1>1. ~(x >= Terminals[k].width)
  BY TerminalType
<1>2. PICK m : m = [buffer |-> d, row |-> r, col |-> x]
  OBVIOUS
<1>3. m.col = x
  BY <1>2
<1>4. w = Path(k)!Console!scroll(m)
  BY <1>1, <1>2, <1>3 DEF Path!Console!vga_putchar
<1> QED
  BY <1>2, <1>4, ScrollResult

LEMMA LeavesRow ==
  ASSUME NEW k \in DOMAIN Terminals, NEW d \in [Path(k)!Console!Cells -> Glyphs],
         NEW r \in 0 .. Terminals[k].height - 1, NEW x \in Nat, x >= Terminals[k].width,
         NEW v, NEW c, Path(k)!Console!Moved(v, c) = [buffer |-> d, row |-> r, col |-> x],
         NEW w, w = Path(k)!Console!vga_putchar(v, c), NEW q, q = r + 1
  PROVE  ConsoleLands(k, d, q, 0, w)
<1>1. PICK m : m = [buffer |-> d, row |-> r, col |-> x]
  OBVIOUS
<1>2. m.col = x
  BY <1>1
<1>3. w = Path(k)!Console!scroll(Path(k)!Console!NewRow(m))
  BY <1>1, <1>2 DEF Path!Console!vga_putchar
<1>4. Path(k)!Console!NewRow(m) = [buffer |-> d, row |-> q, col |-> 0]
  <2>1. m \in [buffer : [Path(k)!Console!Cells -> Glyphs], row : Nat, col : Nat]
    BY <1>1
  <2>2. PICK n : n = Path(k)!Console!NewRow(m)
    OBVIOUS
  <2>3. m.buffer = d /\ m.row = r
    BY <1>1
  <2>4. n = [f \in {"buffer", "row", "col"} |-> n[f]] /\ n.buffer = d /\ n.row = q /\ n.col = 0
    BY <2>1, <2>2, <2>3 DEF Path!Console!NewRow
  <2> QED
    BY <2>2, <2>4
<1>5. q \in 0 .. Terminals[k].height /\ 0 \in 0 .. Terminals[k].width - 1
  BY TerminalType
<1> QED
  BY <1>3, <1>4, <1>5, ScrollResult

(* The cells below the row of the cursor of v are as before in w. *)
ConsoleKeeps(k, v, w) ==
  Keeps(Terminals[k].width, Terminals[k].height, v.buffer, v.row, w.buffer, w.row)
BelowClear(k, v) == Clear(Size(k), v.buffer, (v.row + 1) * Terminals[k].width, {" "})
BehindClear(k, v) == Clear(Size(k), v.buffer, Pos(k, v), {" "})

LEMMA PutPlain ==
  ASSUME NEW k \in DOMAIN Terminals, NEW v \in ConsoleType(k), NEW c \in Glyphs \ Controls,
         NEW w, w = Path(k)!Console!vga_putchar(v, c)
  PROVE  /\ w \in ConsoleType(k) /\ ConsoleKeeps(k, v, w)
         /\ Written(Size(k), Terminals[k].width, v.buffer, Pos(k, v), c, w.buffer, Pos(k, w), {" "})
<1> DEFINE W == Terminals[k].width
           H == Terminals[k].height
           N == Size(k)
           p == Pos(k, v)
           d == [v.buffer EXCEPT ![p] = c]
<1>1. W \in Nat \ {0} /\ H \in Nat \ {0} /\ v.row \in 0 .. H - 1 /\ v.col \in 0 .. W - 1
  BY TerminalType DEF ConsoleType
<1>2. p \in 0 .. N - 1 /\ N \in Nat /\ Path(k)!Console!Cells = 0 .. N - 1
  BY ConsolePos, TerminalType DEF Path!Console!Cells, Size
<1>3. v.buffer \in [0 .. N - 1 -> Glyphs]
  BY <1>2 DEF ConsoleType
<1>4. d \in [Path(k)!Console!Cells -> Glyphs] /\ Set(N, v.buffer, p, c, d)
  BY <1>2, <1>3 DEF Set
<1>5. p = v.row * W + v.col /\ N = W * H
  BY DEF Pos, Size
<1> HIDE DEF d
<1>6. PICK x, q : x = v.col + 1 /\ q = v.row + 1
  OBVIOUS
<1>7. Path(k)!Console!Moved(v, c) = [buffer |-> d, row |-> v.row, col |-> x]
  <2>1. Path(k)!Console!Moved(v, c)
          = [v EXCEPT !.buffer[Path(k)!Console!Pos(v)] = c, !.col = @ + 1]
    <3>1. c # "LF" /\ c # "CR" /\ c # "TAB" /\ c # "BS"
      BY DEF Controls
    <3> QED
      BY <3>1, Zenon DEF Path!Console!Moved
  <2>2. Path(k)!Console!Pos(v) = p
    BY DEF Path!Console!Pos, Pos
  <2> QED
    BY <1>6, <2>1, <2>2 DEF ConsoleType, d
<1> HIDE DEF W, H, N, p
<1>8. /\ v.row \in 0 .. H /\ x \in Nat
      /\ (x < W => x \in 0 .. W - 1) /\ (~(x < W) => x >= W)
  BY <1>1, <1>6
<1>9. PICK s, z : (IF x < W THEN s = v.row /\ z = x ELSE s = q /\ z = 0)
  OBVIOUS
<1>10. ConsoleLands(k, d, s, z, w)
  <2>1. CASE x < W
    BY <1>4, <1>7, <1>8, <1>9, <2>1, StaysInRow DEF W, H
  <2>2. CASE ~(x < W)
    BY <1>1, <1>4, <1>6, <1>7, <1>8, <1>9, <2>2, LeavesRow DEF W, H
  <2> QED
    BY <2>1, <2>2
<1>11. Lands(W, H, {" "}, d, s, z, w.buffer, w.row, w.col) /\ w \in ConsoleType(k)
  BY <1>10 DEF ConsoleLands, W, H
<1>12. IF v.col + 1 < W THEN s = v.row /\ z = v.col + 1 ELSE s = v.row + 1 /\ z = 0
  BY <1>6, <1>9
<1>13. /\ Keeps(W, H, v.buffer, v.row, w.buffer, w.row)
       /\ Written(W * H, W, v.buffer, p, c, w.buffer, w.row * W + w.col, {" "})
  BY <1>1, <1>4, <1>5, <1>11, <1>12, PlainWritten
<1> QED
  BY <1>5, <1>11, <1>13 DEF ConsoleKeeps, Pos, W, H, N, p

LEMMA ConsoleLandsKeeps ==
  ASSUME NEW k \in DOMAIN Terminals, NEW v, NEW w, NEW r, NEW x,
         r \in Nat, r >= v.row, ConsoleLands(k, v.buffer, r, x, w)
  PROVE  w \in ConsoleType(k) /\ ConsoleKeeps(k, v, w)
BY TerminalType, LandsKeeps DEF ConsoleLands, ConsoleKeeps

(* What a control character does, before rows end and the screen scrolls. *)
Moves(k, v, c, d, r, x) ==
  /\ Path(k)!Console!Moved(v, c) = [buffer |-> d, row |-> r, col |-> x]
  /\ c = "LF" => d = v.buffer /\ r = v.row + 1 /\ x = 0
  /\ c = "CR" => d = v.buffer /\ r = v.row /\ x = 0
  /\ c = "TAB" => d = v.buffer /\ r = v.row /\ x \in Nat
  /\ c = "BS" /\ v.col = 0 => d = v.buffer /\ r = v.row /\ x = v.col
  /\ c = "BS" /\ v.col > 0 =>
       d = [v.buffer EXCEPT ![Pos(k, v) - 1] = " "] /\ r = v.row /\ x = v.col - 1

LEMMA MovedRecord ==
  ASSUME NEW k \in DOMAIN Terminals, NEW v \in ConsoleType(k), NEW c \in Controls
  PROVE  \E d, r, x : Moves(k, v, c, d, r, x)
<1>1. v = [f \in {"buffer", "row", "col"} |-> v[f]] /\ v.row \in Nat /\ v.col \in Nat
  BY TerminalType DEF ConsoleType
<1>2. PICK w : w = Path(k)!Console!Moved(v, c)
  OBVIOUS
<1>3. CASE c = "LF"
  <2>1. w = [v EXCEPT !.col = 0, !.row = @ + 1]
    BY <1>2, <1>3, Zenon DEF Path!Console!Moved, Path!Console!NewRow
  <2>2. w = [f \in {"buffer", "row", "col"} |-> w[f]]
        /\ w.buffer = v.buffer /\ w.row = v.row + 1 /\ w.col = 0
    BY <1>1, <2>1
  <2>3. w = [buffer |-> v.buffer, row |-> v.row + 1, col |-> 0]
    BY <2>2
  <2> QED
    BY <1>2, <1>3, <2>3 DEF Moves
<1>4. CASE c = "CR"
  <2>1. w = [v EXCEPT !.col = 0]
    BY <1>2, <1>4, Zenon DEF Path!Console!Moved
  <2>2. w = [f \in {"buffer", "row", "col"} |-> w[f]]
        /\ w.buffer = v.buffer /\ w.row = v.row /\ w.col = 0
    BY <1>1, <2>1
  <2>3. w = [buffer |-> v.buffer, row |-> v.row, col |-> 0]
    BY <2>2
  <2> QED
    BY <1>2, <1>4, <2>3 DEF Moves
<1>5. CASE c = "TAB"
  <2>1. w = [v EXCEPT !.col = (@ \div Terminals[k].tab + 1) * Terminals[k].tab]
    BY <1>2, <1>5, Zenon DEF Path!Console!Moved
  <2>2. w = [f \in {"buffer", "row", "col"} |-> w[f]]
        /\ w.buffer = v.buffer /\ w.row = v.row
        /\ w.col = (v.col \div Terminals[k].tab + 1) * Terminals[k].tab
    BY <1>1, <2>1
  <2>3. w.col \in Nat
    BY <1>1, <2>2, TerminalType
  <2>4. w = [buffer |-> v.buffer, row |-> v.row, col |-> w.col]
    BY <2>2
  <2> QED
    BY <1>2, <1>5, <2>3, <2>4 DEF Moves
<1>6. CASE c = "BS" /\ ~(v.col > 0)
  <2>1. w = v
    BY <1>2, <1>6, Zenon DEF Path!Console!Moved
  <2>2. w = [buffer |-> v.buffer, row |-> v.row, col |-> v.col]
    BY <1>1, <2>1
  <2> QED
    BY <1>2, <1>6, <2>2 DEF Moves
<1>7. CASE c = "BS" /\ v.col > 0
  <2>1. w = [v EXCEPT !.buffer[Path(k)!Console!Pos(v) - 1] = Path(k)!Console!Blank, !.col = @ - 1]
    BY <1>2, <1>7, Zenon DEF Path!Console!Moved
  <2>2. Path(k)!Console!Pos(v) = Pos(k, v) /\ Path(k)!Console!Blank = " "
    BY DEF Path!Console!Pos, Path!Console!Blank, Pos
  <2>3. w = [f \in {"buffer", "row", "col"} |-> w[f]]
        /\ w.buffer = [v.buffer EXCEPT ![Pos(k, v) - 1] = " "] /\ w.row = v.row /\ w.col = v.col - 1
    BY <1>1, <2>1, <2>2
  <2>4. w = [buffer |-> [v.buffer EXCEPT ![Pos(k, v) - 1] = " "], row |-> v.row, col |-> v.col - 1]
    BY <2>3
  <2>5. v.col # 0
    BY <1>1, <1>7
  <2> QED
    BY <1>2, <1>7, <2>4, <2>5 DEF Moves
<1> QED
  BY <1>3, <1>4, <1>5, <1>6, <1>7 DEF Controls

LEMMA PutLF ==
  ASSUME NEW k \in DOMAIN Terminals, NEW v \in ConsoleType(k),
         NEW w, w = Path(k)!Console!vga_putchar(v, "LF")
  PROVE  w \in ConsoleType(k) /\ ConsoleKeeps(k, v, w) /\ (BelowClear(k, v) => BehindClear(k, w))
<1> DEFINE W == Terminals[k].width
           H == Terminals[k].height
           N == Size(k)
<1>1. W \in Nat \ {0} /\ H \in Nat \ {0} /\ N \in Nat /\ v.row \in 0 .. H - 1 /\ 0 \in 0 .. W - 1
  BY TerminalType DEF ConsoleType
<1>2. v.buffer \in [Path(k)!Console!Cells -> Glyphs]
  BY DEF ConsoleType
<1>3. PICK d, r, x : Moves(k, v, "LF", d, r, x)
  BY MovedRecord DEF Controls
<1>4. /\ Path(k)!Console!Moved(v, "LF") = [buffer |-> d, row |-> r, col |-> x]
      /\ d = v.buffer /\ r = v.row + 1 /\ x = 0
  BY <1>3 DEF Moves
<1>5. r \in 0 .. H /\ r \in Nat /\ r >= v.row
  BY <1>1, <1>4
<1>6. ConsoleLands(k, d, r, x, w)
  BY <1>1, <1>2, <1>4, <1>5, StaysInRow
<1>7. w \in ConsoleType(k) /\ ConsoleKeeps(k, v, w)
  BY <1>4, <1>5, <1>6, ConsoleLandsKeeps
<1>8. ASSUME BelowClear(k, v) PROVE BehindClear(k, w)
  <2>1. Lands(W, H, {" "}, v.buffer, r, 0, w.buffer, w.row, w.col)
    BY <1>4, <1>6 DEF ConsoleLands
  <2>2. Clear(W * H, v.buffer, (v.row + 1) * W, {" "})
    BY <1>8 DEF BelowClear, Size
  <2>3. Clear(W * H, w.buffer, w.row * W + w.col, {" "})
    BY <1>1, <1>4, <2>1, <2>2, FeedClears
  <2> QED
    BY <2>3 DEF BehindClear, Pos, Size
<1> QED
  BY <1>7, <1>8

LEMMA PutOther ==
  ASSUME NEW k \in DOMAIN Terminals, NEW v \in ConsoleType(k), NEW c, c \in {"CR", "TAB"},
         NEW w, w = Path(k)!Console!vga_putchar(v, c)
  PROVE  w \in ConsoleType(k) /\ ConsoleKeeps(k, v, w)
<1> DEFINE W == Terminals[k].width
           H == Terminals[k].height
<1>1. W \in Nat \ {0} /\ H \in Nat \ {0} /\ v.row \in 0 .. H - 1
  BY TerminalType DEF ConsoleType
<1>2. v.buffer \in [Path(k)!Console!Cells -> Glyphs]
  BY DEF ConsoleType
<1>3. PICK d, r, x : Moves(k, v, c, d, r, x)
  BY MovedRecord DEF Controls
<1>4. /\ Path(k)!Console!Moved(v, c) = [buffer |-> d, row |-> r, col |-> x]
      /\ d = v.buffer /\ r = v.row /\ x \in Nat
  <2>1. CASE c = "CR"
    BY <1>3, <2>1 DEF Moves
  <2>2. CASE c = "TAB"
    BY <1>3, <2>2 DEF Moves
  <2> QED
    BY <2>1, <2>2
<1>5. r \in 0 .. H /\ r \in 0 .. H - 1 /\ r \in Nat /\ r >= v.row
  BY <1>1, <1>4
<1>6. CASE x >= W
  <2>1. PICK q : q = r + 1
    OBVIOUS
  <2>2. ConsoleLands(k, d, q, 0, w)
    BY <1>2, <1>4, <1>5, <1>6, <2>1, LeavesRow
  <2>3. q \in Nat /\ q >= v.row
    BY <1>1, <1>5, <2>1
  <2> QED
    BY <1>4, <2>2, <2>3, ConsoleLandsKeeps
<1>7. CASE ~(x >= W)
  <2>1. x \in 0 .. W - 1
    BY <1>1, <1>4, <1>7
  <2>2. ConsoleLands(k, d, r, x, w)
    BY <1>2, <1>4, <1>5, <2>1, StaysInRow
  <2> QED
    BY <1>4, <1>5, <2>2, ConsoleLandsKeeps
<1> QED
  BY <1>6, <1>7

LEMMA PutBS ==
  ASSUME NEW k \in DOMAIN Terminals, NEW v \in ConsoleType(k),
         NEW w, w = Path(k)!Console!vga_putchar(v, "BS")
  PROVE  /\ w \in ConsoleType(k) /\ ConsoleKeeps(k, v, w)
         /\ IF v.col = 0 THEN w.buffer = v.buffer /\ Pos(k, w) = Pos(k, v)
            ELSE /\ Pos(k, v) \in 1 .. Size(k) - 1 /\ Pos(k, w) = Pos(k, v) - 1
                 /\ Set(Size(k), v.buffer, Pos(k, v) - 1, " ", w.buffer)
<1> DEFINE W == Terminals[k].width
           H == Terminals[k].height
           N == Size(k)
           e == v.row * W
<1>1. /\ W \in Nat \ {0} /\ H \in Nat \ {0} /\ N \in Nat
      /\ v.row \in 0 .. H - 1 /\ v.col \in 0 .. W - 1
  BY TerminalType DEF ConsoleType
<1>2. v.buffer \in [Path(k)!Console!Cells -> Glyphs]
  BY DEF ConsoleType
<1>3. Path(k)!Console!Cells = 0 .. N - 1
  BY DEF Path!Console!Cells, Size
<1>4. e \in Nat /\ Pos(k, v) = e + v.col /\ Pos(k, v) \in 0 .. N - 1
  BY <1>1, RowFacts, ConsolePos DEF Pos
<1>5. (v.row + 1) * W = e + W
  BY <1>1, RowFacts
<1>6. PICK d, r, x : Moves(k, v, "BS", d, r, x)
  BY MovedRecord DEF Controls
<1> HIDE DEF e, W, H, N
<1>7. v.row \in 0 .. H /\ v.row \in Nat /\ v.row >= v.row /\ v.row < H
  BY <1>1
<1>8. CASE v.col = 0
  <2>1. /\ Path(k)!Console!Moved(v, "BS") = [buffer |-> d, row |-> r, col |-> x]
        /\ d = v.buffer /\ r = v.row /\ x = v.col
    BY <1>8, <1>6 DEF Moves
  <2>2. ConsoleLands(k, v.buffer, v.row, v.col, w)
    BY <1>1, <1>2, <1>7, <2>1, StaysInRow DEF W, H
  <2>3. w \in ConsoleType(k) /\ ConsoleKeeps(k, v, w)
    BY <1>7, <2>2, ConsoleLandsKeeps
  <2> QED
    BY <1>7, <1>8, <2>2, <2>3 DEF ConsoleLands, Lands, Pos, H
<1>9. CASE v.col # 0
  <2>1. /\ Path(k)!Console!Moved(v, "BS") = [buffer |-> d, row |-> r, col |-> x]
        /\ d = [v.buffer EXCEPT ![Pos(k, v) - 1] = " "] /\ r = v.row /\ x = v.col - 1
    <3>1. v.col > 0
      BY <1>1, <1>9
    <3> QED
      BY <1>6, <3>1 DEF Moves
  <2>2. x \in 0 .. W - 1 /\ Pos(k, v) \in 1 .. N - 1 /\ Pos(k, v) - 1 \in 0 .. N - 1
    <3>1. PICK y, p : y = v.col /\ p = Pos(k, v)
      OBVIOUS
    <3>2. y \in 0 .. W - 1 /\ y # 0 /\ p = e + y /\ p \in 0 .. N - 1 /\ x = y - 1
      BY <1>1, <1>4, <1>9, <2>1, <3>1
    <3>3. x \in 0 .. W - 1 /\ p \in 1 .. N - 1 /\ p - 1 \in 0 .. N - 1
      BY <1>1, <1>4, <3>2
    <3> QED
      BY <3>1, <3>3
  <2>3. d \in [Path(k)!Console!Cells -> Glyphs] /\ Set(N, v.buffer, Pos(k, v) - 1, " ", d)
    <3>1. " " \in Glyphs
      BY DEF Glyphs
    <3> QED
      BY <1>2, <1>3, <2>1, <2>2, <3>1 DEF Set
  <2>4. ConsoleLands(k, d, r, x, w)
    BY <1>7, <2>1, <2>2, <2>3, StaysInRow DEF W, H
  <2>5. w \in ConsoleType(k) /\ w.col = x /\ w.row = v.row /\ w.buffer = d
    BY <1>7, <2>1, <2>4 DEF ConsoleLands, Lands, H
  <2>6. Pos(k, w) = e + x
    BY <2>1, <2>5 DEF Pos, e, W
  <2>7. Pos(k, w) = Pos(k, v) - 1
    <3>1. PICK y : y = v.col
      OBVIOUS
    <3>2. y \in 0 .. W - 1 /\ Pos(k, v) = e + y /\ x = y - 1
      BY <1>1, <1>4, <2>1, <3>1
    <3>3. e + x = (e + y) - 1
      BY <1>1, <1>4, <3>2
    <3> QED
      BY <2>6, <3>2, <3>3
  <2>8. \A i \in 0 .. N - 1 : i >= (v.row + 1) * W => d[i] = v.buffer[i]
    <3>1. PICK y, p : y = v.col /\ p = Pos(k, v)
      OBVIOUS
    <3>2. y \in 0 .. W - 1 /\ p = e + y
      BY <1>1, <1>4, <3>1
    <3>3. \A i \in 0 .. N - 1 : i >= e + W => i # p - 1
      BY <1>1, <1>4, <3>2
    <3> QED
      BY <1>5, <2>3, <3>1, <3>3 DEF Set
  <2>9. ConsoleKeeps(k, v, w)
    BY <1>7, <2>5, <2>8 DEF ConsoleKeeps, Keeps, Size, W, N
  <2> QED
    BY <1>9, <2>2, <2>3, <2>5, <2>7, <2>9 DEF N
<1> QED
  BY <1>8, <1>9

LEMMA PutAny ==
  ASSUME NEW k \in DOMAIN Terminals, NEW v \in ConsoleType(k), NEW c \in Glyphs,
         NEW w, w = Path(k)!Console!vga_putchar(v, c)
  PROVE  w \in ConsoleType(k) /\ (BelowClear(k, v) => BelowClear(k, w))
<1>1. w \in ConsoleType(k) /\ ConsoleKeeps(k, v, w)
  <2>1. CASE c = "LF"
    BY <2>1, PutLF
  <2>2. CASE c = "BS"
    BY <2>2, PutBS
  <2>3. CASE c \in {"CR", "TAB"}
    BY <2>3, PutOther
  <2>4. CASE c \notin Controls
    BY <2>4, PutPlain
  <2> QED
    BY <2>1, <2>2, <2>3, <2>4 DEF Controls
<1> DEFINE W == Terminals[k].width
           H == Terminals[k].height
<1>2. W \in Nat \ {0} /\ H \in Nat \ {0} /\ v.row \in 0 .. H - 1 /\ w.row \in 0 .. H - 1
  BY <1>1, TerminalType DEF ConsoleType
<1>3. ASSUME BelowClear(k, v) PROVE BelowClear(k, w)
  <2>1. Keeps(W, H, v.buffer, v.row, w.buffer, w.row) /\ Clear(W * H, v.buffer, (v.row + 1) * W, {" "})
    BY <1>1, <1>3 DEF ConsoleKeeps, BelowClear, Size
  <2>2. Clear(W * H, w.buffer, (w.row + 1) * W, {" "})
    BY <1>2, <2>1, KeepsClear
  <2> QED
    BY <2>2 DEF BelowClear, Size
<1> QED
  BY <1>1, <1>3

-----------------------------------------------------------------------------
(* printf prints one character after the other. *)
Prints(k, v, s, f) ==
  f = [n \in 0 .. Len(s) |-> IF n = 0 THEN v ELSE Path(k)!Console!vga_putchar(f[n - 1], s[n])]

LEMMA PrintfExists ==
  ASSUME NEW k, NEW v, NEW s, Len(s) \in Nat
  PROVE  \E f : Prints(k, v, s, f)
<1> DEFINE Good(m, f) ==
             f = [n \in 0 .. m |-> IF n = 0 THEN v ELSE Path(k)!Console!vga_putchar(f[n - 1], s[n])]
           T == {m \in Nat : ~ \E f : Good(m, f)}
<1>1. ASSUME T # {} PROVE FALSE
  <2>1. PICK m \in T : \A j \in T : m <= j
    BY <1>1, LeastNat
  <2>2. CASE m = 0
    <3>1. Good(0, [n \in 0 .. 0 |-> v])
      OBVIOUS
    <3> QED
      BY <2>1, <2>2, <3>1
  <2>3. CASE m # 0
    <3>1. m \in Nat /\ m - 1 \in Nat
      BY <2>3
    <3>2. ~(m - 1 \in T)
      <4> HIDE DEF T
      <4> QED
        BY <2>1, <3>1
    <3>3. PICK g : Good(m - 1, g)
      BY <3>1, <3>2
    <3> DEFINE f == [n \in 0 .. m |-> IF n = m THEN Path(k)!Console!vga_putchar(g[m - 1], s[m])
                                      ELSE g[n]]
    <3>4. \A n \in 0 .. m :
            f[n] = IF n = 0 THEN v ELSE Path(k)!Console!vga_putchar(f[n - 1], s[n])
      <4> TAKE n \in 0 .. m
      <4>1. CASE n = m
        <5>1. m \in 0 .. m /\ m - 1 \in 0 .. m /\ m - 1 # m
          BY <3>1
        <5>2. f[m] = Path(k)!Console!vga_putchar(g[m - 1], s[m])
          BY <5>1
        <5>3. f[m - 1] = g[m - 1]
          BY <5>1
        <5> QED
          BY <2>3, <4>1, <5>2, <5>3
      <4>2. CASE n # m
        <5>1. n \in 0 .. m - 1 /\ f[n] = g[n]
          BY <3>1, <4>2
        <5>2. n # 0 => f[n - 1] = g[n - 1]
          BY <3>1, <4>2
        <5>3. g[n] = IF n = 0 THEN v ELSE Path(k)!Console!vga_putchar(g[n - 1], s[n])
          BY <3>3, <5>1
        <5> QED
          BY <5>1, <5>2, <5>3
      <4> QED
        BY <4>1, <4>2
    <3>5. Good(m, f)
      BY <3>4
    <3> QED
      BY <2>1, <3>5
  <2> QED
    BY <2>2, <2>3
<1> QED
  BY <1>1 DEF Prints

LEMMA PrintfRun ==
  ASSUME NEW k, NEW v, NEW s, Len(s) \in Nat
  PROVE  \E f : /\ f[0] = v /\ f[Len(s)] = Path(k)!Console!printf(v, s)
                /\ \A n \in 1 .. Len(s) : f[n] = Path(k)!Console!vga_putchar(f[n - 1], s[n])
<1> DEFINE f == CHOOSE p : Prints(k, v, s, p)
<1>1. Prints(k, v, s, f)
  BY PrintfExists
<1>2. Path(k)!Console!printf(v, s) = f[Len(s)]
  BY DEF Path!Console!printf, Prints
<1> HIDE DEF f
<1>3. \A n \in 0 .. Len(s) :
        f[n] = IF n = 0 THEN v ELSE Path(k)!Console!vga_putchar(f[n - 1], s[n])
  BY <1>1 DEF Prints
<1>4. 0 \in 0 .. Len(s) /\ \A n \in 1 .. Len(s) : n \in 0 .. Len(s) /\ n # 0
  OBVIOUS
<1>5. /\ f[0] = v /\ f[Len(s)] = Path(k)!Console!printf(v, s)
      /\ \A n \in 1 .. Len(s) : f[n] = Path(k)!Console!vga_putchar(f[n - 1], s[n])
  BY <1>2, <1>3, <1>4
<1> QED
  BY <1>5

LEMMA ConsoleBehindBelow ==
  ASSUME NEW k \in DOMAIN Terminals, NEW v \in ConsoleType(k), BehindClear(k, v)
  PROVE  BelowClear(k, v)
BY TerminalType, BehindBelow DEF ConsoleType, BehindClear, BelowClear, Pos, Size

(* A screen that shows the first L characters of t. *)
Screened(k, v, t, L) ==
  v \in ConsoleType(k) /\ BehindClear(k, v) /\ Shows(v.buffer, Pos(k, v), t, L)

LEMMA PutShows ==
  ASSUME NEW k \in DOMAIN Terminals, NEW v, NEW t, NEW L \in Nat, Screened(k, v, t, L),
         NEW c, c = t[L + 1], c \in Glyphs \ Controls,
         NEW w, w = Path(k)!Console!vga_putchar(v, c)
  PROVE  Screened(k, w, t, L + 1)
<1> DEFINE W == Terminals[k].width
           H == Terminals[k].height
           N == Size(k)
           p == Pos(k, v)
           q == Pos(k, w)
<1>1. v \in ConsoleType(k) /\ Clear(N, v.buffer, p, {" "}) /\ Shows(v.buffer, p, t, L)
  BY DEF Screened, BehindClear
<1>2. /\ w \in ConsoleType(k)
      /\ Written(N, W, v.buffer, p, c, w.buffer, q, {" "})
  BY <1>1, PutPlain
<1>3. N \in Nat /\ W \in Nat /\ 0 < W /\ W <= N /\ p \in 0 .. N - 1
  <2>1. W \in Nat \ {0} /\ H \in Nat \ {0} /\ v.row \in 0 .. H - 1
    BY <1>1, TerminalType DEF ConsoleType
  <2>2. W \in Nat /\ 0 < W
    BY <2>1
  <2>3. W <= N /\ N \in Nat
    BY <2>1, RowFacts DEF Size
  <2>4. p \in 0 .. N - 1
    BY <1>1, ConsolePos
  <2> QED
    BY <2>2, <2>3, <2>4
<1> HIDE DEF W, H, N, p, q
<1>4. Clear(N, w.buffer, q, {" "})
  BY <1>1, <1>2, <1>3, WrittenClear
<1>5. Shows(w.buffer, q, t, L + 1)
  BY <1>1, <1>2, <1>3, WrittenShows
<1> QED
  BY <1>2, <1>4, <1>5 DEF Screened, BehindClear, N, q

(* What is printed behind the last line feed of s, or on a clean screen,   *)
(* is shown: t, the characters from m + 1 on.                              *)
LEMMA PrintfShows ==
  ASSUME NEW k \in DOMAIN Terminals, NEW v \in ConsoleType(k), BelowClear(k, v),
         NEW s \in Seq(Glyphs), NEW m \in 0 .. Len(s), NEW t,
         m = 0 => BehindClear(k, v), m # 0 => s[m] = "LF",
         \A n \in 1 .. Len(s) - m : s[m + n] = t[n] /\ s[m + n] \notin Controls
  PROVE  Screened(k, Path(k)!Console!printf(v, s), t, Len(s) - m)
<1>1. Len(s) \in Nat /\ \A n \in 1 .. Len(s) : s[n] \in Glyphs
  OBVIOUS
<1>2. PICK f : /\ f[0] = v /\ f[Len(s)] = Path(k)!Console!printf(v, s)
               /\ \A n \in 1 .. Len(s) : f[n] = Path(k)!Console!vga_putchar(f[n - 1], s[n])
  BY <1>1, PrintfRun
<1> DEFINE Good(n) == /\ f[n] \in ConsoleType(k) /\ BelowClear(k, f[n])
                      /\ n >= m => Screened(k, f[n], t, n - m)
           T == {n \in 0 .. Len(s) : ~Good(n)}
<1>3. ASSUME T # {} PROVE FALSE
  <2>1. T \in SUBSET Nat
    BY <1>1
  <2>2. PICK n \in T : \A j \in T : n <= j
    BY <1>3, <2>1, LeastNat
  <2>3. n \in 0 .. Len(s) /\ ~Good(n)
    OBVIOUS
  <2>4. CASE n = 0
    <3>1. ASSUME m = 0 PROVE Screened(k, v, t, 0)
      BY <3>1 DEF Screened, Shows
    <3>2. n >= m => m = 0 /\ n - m = 0
      BY <1>1, <2>4
    <3> QED
      BY <1>2, <2>3, <2>4, <3>1, <3>2
  <2>5. CASE n # 0
    <3>1. PICK u, c : u = f[n - 1] /\ c = s[n]
      OBVIOUS
    <3>2. n \in 1 .. Len(s) /\ n - 1 \in 0 .. Len(s) /\ ~(n <= n - 1)
      BY <1>1, <2>3, <2>5
    <3>3. Good(n - 1)
      <4>1. ~(n - 1 \in T)
        <5> HIDE DEF T
        <5> QED
          BY <2>2, <3>2
      <4> QED
        BY <3>2, <4>1
    <3>4. u \in ConsoleType(k) /\ BelowClear(k, u) /\ c \in Glyphs
          /\ f[n] = Path(k)!Console!vga_putchar(u, c)
      BY <1>1, <1>2, <3>1, <3>2, <3>3
    <3>5. f[n] \in ConsoleType(k) /\ BelowClear(k, f[n])
      BY <3>4, PutAny
    <3>6. ASSUME n >= m PROVE Screened(k, f[n], t, n - m)
      <4>1. CASE n = m
        <5>1. c = "LF" /\ m # 0 /\ n - m = 0
          BY <1>1, <2>5, <3>1, <3>2, <4>1
        <5>2. BehindClear(k, f[n])
          BY <3>4, <5>1, PutLF
        <5> QED
          BY <3>5, <5>1, <5>2 DEF Screened, Shows
      <4>2. CASE n # m
        <5>1. PICK L : L = (n - 1) - m
          OBVIOUS
        <5>2. L \in Nat /\ n - 1 >= m /\ L + 1 = n - m /\ L + 1 \in 1 .. Len(s) - m /\ m + (L + 1) = n
          BY <1>1, <3>2, <3>6, <4>2, <5>1
        <5>3. Screened(k, u, t, L)
          BY <3>1, <3>3, <5>1, <5>2
        <5>4. c = t[L + 1] /\ c \in Glyphs \ Controls
          BY <3>1, <3>4, <5>2
        <5>5. Screened(k, f[n], t, L + 1)
          BY <3>4, <5>2, <5>3, <5>4, PutShows
        <5> QED
          BY <5>2, <5>5
      <4> QED
        BY <4>1, <4>2
    <3> QED
      BY <2>3, <3>5, <3>6
  <2> QED
    BY <2>4, <2>5
<1>4. Len(s) \in 0 .. Len(s) /\ Len(s) >= m
  BY <1>1
<1>5. Good(Len(s))
  BY <1>3, <1>4
<1> QED
  BY <1>2, <1>4, <1>5

LEMMA PrintedIsShown ==
  ASSUME NEW k \in DOMAIN Terminals, NEW v \in ConsoleType(k), BelowClear(k, v),
         NEW a \in Seq(Glyphs), a = <<>> => BehindClear(k, v), a # <<>> => a[Len(a)] = "LF",
         NEW t \in Seq(Glyphs), \A n \in 1 .. Len(t) : t[n] \notin Controls,
         NEW w, w = Path(k)!Console!printf(v, a \o t)
  PROVE  Screened(k, w, t, Len(t))
<1>1. PICK s, m, L : s = a \o t /\ m = Len(a) /\ L = Len(t)
  OBVIOUS
<1>2. /\ s \in Seq(Glyphs) /\ m \in Nat /\ L \in Nat /\ Len(s) = m + L
      /\ (m = 0 => a = <<>>) /\ (m # 0 => a # <<>>)
  BY <1>1
<1>3. /\ \A n \in 1 .. m : s[n] = a[n]
      /\ \A n \in 1 .. L : s[m + n] = t[n]
  BY <1>1
<1>4. m \in 0 .. Len(s) /\ Len(s) - m = L /\ (m # 0 => m \in 1 .. m)
  BY <1>2
<1>5. m # 0 => s[m] = "LF"
  BY <1>1, <1>2, <1>3, <1>4
<1>6. \A n \in 1 .. Len(s) - m : s[m + n] = t[n] /\ s[m + n] \notin Controls
  BY <1>1, <1>3, <1>4
<1>7. m = 0 => BehindClear(k, v)
  BY <1>2
<1>8. Screened(k, Path(k)!Console!printf(v, s), t, Len(s) - m)
  BY <1>2, <1>4, <1>5, <1>6, <1>7, PrintfShows
<1> QED
  BY <1>1, <1>4, <1>8

(* What the assumption says of the texts. *)
LEMMA Glyphic ==
  ASSUME NEW s \in Seq(STRING)
  PROVE  s \in Seq(Glyphs)
<1>1. STRING \subseteq Glyphs
  BY DEF Glyphs
<1> QED
  BY <1>1, SeqMonotonic

LEMMA TerminalTexts ==
  ASSUME NEW k \in DOMAIN Terminals
  PROVE  /\ Terminals[k].prompt \in Seq(Glyphs) /\ Terminals[k].notice \in Seq(Glyphs)
         /\ \A n \in 1 .. Len(Terminals[k].prompt) : Terminals[k].prompt[n] \notin Controls
         /\ \A o \in Terminals[k].outputs :
              o \in Seq(Glyphs) /\ (o # <<>> => o[Len(o)] = "LF")
         /\ Terminals[k].chars \subseteq Glyphs \ Controls
<1>1. /\ Plain(Terminals[k].prompt) /\ Terminals[k].notice \in Seq(STRING)
      /\ \A o \in Terminals[k].outputs : Printed(o)
      /\ Terminals[k].chars \subseteq STRING
      /\ Terminals[k].chars \cap (Controls \cup {"CLICK"}) = {}
  BY TerminalAssumption
<1>2. Terminals[k].chars \subseteq Glyphs \ Controls
  BY <1>1 DEF Glyphs
<1> QED
  BY <1>1, <1>2, Glyphic DEF Plain, Printed

LEMMA ClearedScreen ==
  ASSUME NEW k \in DOMAIN Terminals
  PROVE  /\ Path(k)!Console!Cleared \in ConsoleType(k)
         /\ BehindClear(k, Path(k)!Console!Cleared)
<1> DEFINE v == Path(k)!Console!Cleared
<1>1. v = [buffer |-> [i \in Path(k)!Console!Cells |-> " "], row |-> 0, col |-> 0]
  BY DEF Path!Console!Cleared, Path!Console!Blank
<1>2. " " \in Glyphs
  BY DEF Glyphs
<1>3. 0 \in 0 .. Terminals[k].height - 1 /\ 0 \in 0 .. Terminals[k].width - 1
  BY TerminalType
<1> HIDE DEF v
<1>4. PICK b : b = [i \in Path(k)!Console!Cells |-> " "]
  OBVIOUS
<1>5. b \in [Path(k)!Console!Cells -> Glyphs] /\ v = [buffer |-> b, row |-> 0, col |-> 0]
  BY <1>1, <1>2, <1>4
<1>6. v \in ConsoleType(k)
  BY <1>3, <1>5 DEF ConsoleType
<1>7. \A i \in 0 .. Size(k) - 1 : v.buffer[i] \in {" "}
  <2>1. v.buffer = b /\ 0 .. Size(k) - 1 = Path(k)!Console!Cells
    BY <1>5 DEF Path!Console!Cells, Size
  <2> QED
    BY <1>4, <2>1
<1> QED
  BY <1>6, <1>7 DEF BehindClear, Clear, v

LEMMA ShowsSame ==
  ASSUME NEW b, NEW p, NEW s, NEW t, NEW L, \A n \in 1 .. L : t[n] = s[n], Shows(b, p, s, L)
  PROVE  Shows(b, p, t, L)
BY DEF Shows

-----------------------------------------------------------------------------
(* What is on the screen while kmain edits a line. *)
LineShown(k) ==
  /\ line \in Seq(Terminals[k].chars)
  /\ Screened(k, vga, Path(k)!Console!Shown, IF stuck THEN 0 ELSE Len(Path(k)!Console!Shown))
EditorInv(k) == queue \in Seq(Path(k)!Events) /\ LineShown(k)

LEMMA ShownText ==
  ASSUME NEW k \in DOMAIN Terminals, NEW l \in Seq(Terminals[k].chars),
         NEW s, s = Terminals[k].prompt \o l
  PROVE  /\ s \in Seq(Glyphs) /\ Len(s) \in Nat /\ Len(s) = Len(Terminals[k].prompt) + Len(l)
         /\ \A n \in 1 .. Len(s) : s[n] \notin Controls
<1>1. /\ Terminals[k].prompt \in Seq(Glyphs) /\ Terminals[k].chars \subseteq Glyphs \ Controls
      /\ \A n \in 1 .. Len(Terminals[k].prompt) : Terminals[k].prompt[n] \notin Controls
  BY TerminalTexts
<1>2. PICK p : p = Terminals[k].prompt
  OBVIOUS
<1>3. l \in Seq(Glyphs \ Controls) /\ l \in Seq(Glyphs)
  BY <1>1, SeqMonotonic
<1>4. \A n \in 1 .. Len(l) : l[n] \notin Controls
  BY <1>3
<1>5. p \in Seq(Glyphs) /\ s = p \o l /\ \A n \in 1 .. Len(p) : p[n] \notin Controls
  BY <1>1, <1>2
<1>6. /\ s \in Seq(Glyphs) /\ Len(s) = Len(p) + Len(l) /\ Len(p) \in Nat /\ Len(l) \in Nat
      /\ \A n \in 1 .. Len(s) : s[n] = IF n <= Len(p) THEN p[n] ELSE l[n - Len(p)]
  BY <1>3, <1>5
<1>7. ASSUME NEW n \in 1 .. Len(s) PROVE s[n] \notin Controls
  <2>1. CASE n <= Len(p)
    <3>1. n \in 1 .. Len(p)
      BY <1>6, <1>7, <2>1
    <3> QED
      BY <1>5, <1>6, <2>1, <3>1
  <2>2. CASE ~(n <= Len(p))
    <3>1. n - Len(p) \in 1 .. Len(l)
      BY <1>6, <1>7, <2>2
    <3> QED
      BY <1>4, <1>6, <2>2, <3>1
  <2> QED
    BY <2>1, <2>2
<1> QED
  BY <1>2, <1>6, <1>7

LEMMA PromptAlone ==
  ASSUME NEW k \in DOMAIN Terminals
  PROVE  /\ <<>> \in Seq(Terminals[k].chars)
         /\ Terminals[k].prompt \o <<>> = Terminals[k].prompt
         /\ <<>> \o Terminals[k].prompt = Terminals[k].prompt
BY TerminalTexts, ConcatEmptySeq

(* A prompt on a screen that is blank behind the cursor. *)
LEMMA PromptShown ==
  ASSUME NEW k \in DOMAIN Terminals, NEW v \in ConsoleType(k), BehindClear(k, v),
         NEW w, w = Path(k)!Console!printf(v, Terminals[k].prompt)
  PROVE  Screened(k, w, Terminals[k].prompt \o <<>>, Len(Terminals[k].prompt \o <<>>))
<1>1. PICK a, p : a = <<>> /\ p = Terminals[k].prompt
  OBVIOUS
<1>2. /\ a \in Seq(Glyphs) /\ p \in Seq(Glyphs) /\ a \o p = p /\ p \o <<>> = p
      /\ \A n \in 1 .. Len(p) : p[n] \notin Controls
  BY <1>1, TerminalTexts, PromptAlone
<1>3. w = Path(k)!Console!printf(v, a \o p)
  BY <1>1, <1>2
<1>4. Screened(k, w, p, Len(p))
  BY <1>1, <1>2, <1>3, ConsoleBehindBelow, PrintedIsShown
<1> QED
  BY <1>1, <1>2, <1>4

LEMMA EditorInit ==
  ASSUME NEW k \in DOMAIN Terminals, Path(k)!Init
  PROVE  EditorInv(k)
<1>1. queue = <<>> /\ line = <<>> /\ stuck = FALSE
  BY DEF Path!Init, Path!Console!Init
<1>2. PICK o \in Terminals[k].outputs :
        vga = Path(k)!Console!printf(Path(k)!Console!Cleared, o \o Terminals[k].prompt)
  BY DEF Path!Init, Path!Console!Init
<1>3. PICK v, p : v = Path(k)!Console!Cleared /\ p = Terminals[k].prompt
  OBVIOUS
<1>4. v \in ConsoleType(k) /\ BehindClear(k, v) /\ BelowClear(k, v)
  BY <1>3, ClearedScreen, ConsoleBehindBelow
<1>5. /\ o \in Seq(Glyphs) /\ (o # <<>> => o[Len(o)] = "LF")
      /\ p \in Seq(Glyphs) /\ \A n \in 1 .. Len(p) : p[n] \notin Controls
  BY <1>3, TerminalTexts
<1>6. Screened(k, vga, p, Len(p))
  BY <1>2, <1>3, <1>4, <1>5, PrintedIsShown
<1>7. Path(k)!Console!Shown = p
  BY <1>1, <1>3, PromptAlone DEF Path!Console!Shown
<1>8. queue \in Seq(Path(k)!Events) /\ line \in Seq(Terminals[k].chars)
  BY <1>1
<1> QED
  BY <1>1, <1>6, <1>7, <1>8 DEF EditorInv, LineShown

LEMMA KeyShown ==
  ASSUME NEW k \in DOMAIN Terminals, LineShown(k), NEW c \in Terminals[k].chars,
         Path(k)!Console!Key(c)
  PROVE  LineShown(k)'
<1>1. line' = Append(line, c) /\ vga' = Path(k)!Console!vga_putchar(vga, c) /\ stuck' = stuck
  BY DEF Path!Console!Key
<1>2. line \in Seq(Terminals[k].chars) /\ line' \in Seq(Terminals[k].chars)
  BY <1>1 DEF LineShown
<1>3. PICK p, s, t, L : p = Terminals[k].prompt /\ s = p \o line /\ t = p \o line' /\ L = Len(s)
  OBVIOUS
<1>4. s = Path(k)!Console!Shown /\ t = Path(k)!Console!Shown'
  BY <1>3 DEF Path!Console!Shown
<1>5. s \in Seq(Glyphs) /\ t \in Seq(Glyphs) /\ L \in Nat /\ Len(line) \in Nat /\ Len(p) \in Nat
      /\ L = Len(p) + Len(line) /\ p \in Seq(Glyphs)
  BY <1>2, <1>3, ShownText, TerminalTexts
<1>6. Len(t) = L + 1 /\ t[L + 1] = c /\ \A n \in 1 .. L : t[n] = s[n]
  <2>1. PICK l, m : l = line /\ m = line'
    OBVIOUS
  <2>2. m = Append(l, c) /\ s = p \o l /\ t = p \o m
    BY <1>1, <1>3, <2>1
  <2>3. /\ Len(m) = Len(l) + 1 /\ m[Len(l) + 1] = c /\ \A n \in 1 .. Len(l) : m[n] = l[n]
        /\ m \in Seq(Terminals[k].chars) /\ l \in Seq(Terminals[k].chars)
    BY <1>2, <2>1, <2>2
  <2>4. l \in Seq(Glyphs) /\ m \in Seq(Glyphs)
    <3>1. Terminals[k].chars \subseteq Glyphs
      BY TerminalTexts
    <3> QED
      BY <2>3, <3>1, SeqMonotonic
  <2>5. /\ \A n \in 1 .. Len(p) + Len(l) : s[n] = IF n <= Len(p) THEN p[n] ELSE l[n - Len(p)]
        /\ \A n \in 1 .. Len(p) + Len(m) : t[n] = IF n <= Len(p) THEN p[n] ELSE m[n - Len(p)]
        /\ Len(t) = Len(p) + Len(m)
    BY <1>5, <2>2, <2>4, ConcatProperties
  <2>6. Len(l) \in Nat /\ L = Len(p) + Len(l) /\ Len(p) \in Nat
    BY <1>5, <2>1
  <2>7. Len(t) = L + 1 /\ t[L + 1] = c
    <3>1. L + 1 \in 1 .. Len(p) + Len(m) /\ ~(L + 1 <= Len(p)) /\ L + 1 - Len(p) = Len(l) + 1
      BY <2>3, <2>6
    <3> QED
      BY <2>3, <2>5, <2>6, <3>1
  <2>8. ASSUME NEW n \in 1 .. L PROVE t[n] = s[n]
    <3>1. n \in 1 .. Len(p) + Len(l) /\ n \in 1 .. Len(p) + Len(m)
      BY <2>3, <2>6
    <3>2. CASE n <= Len(p)
      BY <2>5, <3>1, <3>2
    <3>3. CASE ~(n <= Len(p))
      <4>1. n - Len(p) \in 1 .. Len(l)
        BY <2>6, <3>3
      <4> QED
        BY <2>3, <2>5, <3>1, <3>3, <4>1
    <3> QED
      BY <3>2, <3>3
  <2> QED
    BY <2>7, <2>8
<1>7. c \in Glyphs \ Controls
  BY TerminalTexts
<1>8. CASE ~stuck
  <2>1. Screened(k, vga, s, L)
    BY <1>3, <1>4, <1>8 DEF LineShown
  <2>2. Screened(k, vga, t, L)
    BY <1>6, <2>1, ShowsSame DEF Screened
  <2>3. Screened(k, vga', t, L + 1)
    BY <1>1, <1>5, <1>6, <1>7, <2>2, PutShows
  <2> QED
    BY <1>1, <1>2, <1>4, <1>6, <1>8, <2>3 DEF LineShown
<1>9. CASE stuck
  <2>1. Screened(k, vga, s, 0)
    BY <1>4, <1>9 DEF LineShown
  <2>2. PICK u : u = <<c>>
    OBVIOUS
  <2>3. Screened(k, vga, u, 0)
    BY <2>1 DEF Screened, Shows
  <2>4. c = u[0 + 1]
    BY <2>2
  <2>5. Screened(k, vga', u, 0 + 1)
    BY <1>1, <1>7, <2>3, <2>4, PutShows
  <2>6. Screened(k, vga', t, 0)
    BY <2>5 DEF Screened, Shows
  <2> QED
    BY <1>1, <1>2, <1>4, <1>9, <2>6 DEF LineShown
<1> QED
  BY <1>8, <1>9

LEMMA BackspaceShown ==
  ASSUME NEW k \in DOMAIN Terminals, LineShown(k), Path(k)!Console!Backspace
  PROVE  LineShown(k)'
<1>1. /\ line # <<>> /\ line' = SubSeq(line, 1, Len(line) - 1)
      /\ vga' = Path(k)!Console!vga_putchar(vga, "BS") /\ stuck' = (stuck \/ vga.col = 0)
  BY DEF Path!Console!Backspace
<1>2. /\ line \in Seq(Terminals[k].chars) /\ vga \in ConsoleType(k) /\ BehindClear(k, vga)
      /\ (~stuck => Shows(vga.buffer, Pos(k, vga), Path(k)!Console!Shown, Len(Path(k)!Console!Shown)))
  BY DEF LineShown, Screened
<1>3. PICK l, m, p, s, t, L : /\ l = line /\ m = line' /\ p = Terminals[k].prompt
                              /\ s = p \o l /\ t = p \o m /\ L = Len(s)
  OBVIOUS
<1>4. s = Path(k)!Console!Shown /\ t = Path(k)!Console!Shown'
  BY <1>3 DEF Path!Console!Shown
<1>5. /\ l \in Seq(Terminals[k].chars) /\ m \in Seq(Terminals[k].chars)
      /\ Len(l) \in Nat /\ Len(l) > 0 /\ Len(m) = Len(l) - 1
      /\ \A n \in 1 .. Len(l) - 1 : m[n] = l[n]
  BY <1>1, <1>2, <1>3, Front
<1>6. l \in Seq(Glyphs) /\ m \in Seq(Glyphs) /\ p \in Seq(Glyphs) /\ Len(p) \in Nat
  <2>1. Terminals[k].chars \subseteq Glyphs /\ p \in Seq(Glyphs)
    BY <1>3, TerminalTexts
  <2> QED
    BY <1>5, <2>1, SeqMonotonic
<1>7. /\ \A n \in 1 .. Len(p) + Len(l) : s[n] = IF n <= Len(p) THEN p[n] ELSE l[n - Len(p)]
      /\ \A n \in 1 .. Len(p) + Len(m) : t[n] = IF n <= Len(p) THEN p[n] ELSE m[n - Len(p)]
      /\ Len(t) = Len(p) + Len(m) /\ Len(s) = Len(p) + Len(l)
  BY <1>3, <1>6, ConcatProperties
<1>8. L \in Nat /\ L > 0 /\ Len(t) = L - 1
  BY <1>3, <1>5, <1>6, <1>7
<1>9. ASSUME NEW n \in 1 .. L - 1 PROVE t[n] = s[n]
  <2>1. n \in 1 .. Len(p) + Len(l) /\ n \in 1 .. Len(p) + Len(m)
    BY <1>3, <1>5, <1>6, <1>7
  <2>2. CASE n <= Len(p)
    BY <1>7, <2>1, <2>2
  <2>3. CASE ~(n <= Len(p))
    <3>1. n - Len(p) \in 1 .. Len(l) - 1
      BY <1>3, <1>5, <1>6, <1>7, <1>9, <2>3
    <3> QED
      BY <1>5, <1>7, <2>1, <2>3, <3>1
  <2> QED
    BY <2>2, <2>3
<1>10. PICK N, q, w : N = Size(k) /\ q = Pos(k, vga) /\ w = vga'
  OBVIOUS
<1>11. /\ w \in ConsoleType(k)
       /\ IF vga.col = 0 THEN w.buffer = vga.buffer /\ Pos(k, w) = q
          ELSE /\ q \in 1 .. N - 1 /\ Pos(k, w) = q - 1
               /\ Set(N, vga.buffer, q - 1, " ", w.buffer)
  BY <1>1, <1>2, <1>10, PutBS
<1>12. N \in Nat
  BY <1>10, TerminalType
<1>13. BehindClear(k, w)
  <2>1. Clear(N, vga.buffer, q, {" "})
    BY <1>2, <1>10 DEF BehindClear
  <2>2. CASE vga.col = 0
    BY <1>10, <1>11, <2>1, <2>2 DEF BehindClear
  <2>3. CASE vga.col # 0
    <3>1. Clear(N, w.buffer, q - 1, {" "})
      BY <1>11, <1>12, <2>1, <2>3, DeletedClear
    <3> QED
      BY <1>10, <1>11, <2>3, <3>1 DEF BehindClear
  <2> QED
    BY <2>2, <2>3
<1>14. ASSUME ~stuck' PROVE Shows(w.buffer, Pos(k, w), t, L - 1)
  <2>1. ~stuck /\ vga.col # 0
    BY <1>1, <1>14
  <2>2. Shows(vga.buffer, q, s, L)
    BY <1>2, <1>3, <1>4, <1>10, <2>1
  <2>3. Shows(w.buffer, q - 1, s, L - 1)
    BY <1>8, <1>11, <1>12, <2>1, <2>2, DeletedShows
  <2>4. Shows(w.buffer, q - 1, t, L - 1)
    BY <1>9, <2>3, ShowsSame
  <2> QED
    BY <1>11, <2>1, <2>4
<1>15. Screened(k, w, t, IF stuck' THEN 0 ELSE Len(t))
  <2>1. CASE stuck'
    <3>1. Screened(k, w, t, 0)
      <4>1. Shows(w.buffer, Pos(k, w), t, 0)
        BY DEF Shows
      <4>2. w \in ConsoleType(k)
        BY <1>11
      <4> QED
        BY <1>13, <4>1, <4>2 DEF Screened
    <3> QED
      BY <2>1, <3>1
  <2>2. CASE ~stuck'
    BY <1>8, <1>11, <1>13, <1>14, <2>2 DEF Screened
  <2> QED
    BY <2>1, <2>2
<1> QED
  BY <1>3, <1>4, <1>5, <1>10, <1>15 DEF LineShown

LEMMA FreshLine ==
  ASSUME NEW k \in DOMAIN Terminals, line' = <<>>, stuck' = FALSE,
         Screened(k, vga', Terminals[k].prompt \o <<>>, Len(Terminals[k].prompt \o <<>>))
  PROVE  LineShown(k)'
<1>1. Path(k)!Console!Shown' = Terminals[k].prompt \o <<>>
  BY DEF Path!Console!Shown
<1>2. line' \in Seq(Terminals[k].chars)
  BY PromptAlone
<1> QED
  BY <1>1, <1>2 DEF LineShown

LEMMA EnterShown ==
  ASSUME NEW k \in DOMAIN Terminals, LineShown(k), Path(k)!Console!Enter
  PROVE  LineShown(k)'
<1>1. PICK o \in Terminals[k].outputs :
        vga' = Path(k)!Console!printf(Path(k)!Console!printf(vga, <<"LF">> \o o), Terminals[k].prompt)
  BY DEF Path!Console!Enter
<1>2. vga \in ConsoleType(k) /\ BelowClear(k, vga)
  BY ConsoleBehindBelow DEF LineShown, Screened
<1>3. PICK lf, s, m, w : /\ lf = <<"LF">> /\ s = lf \o o /\ m = Len(s)
                         /\ w = Path(k)!Console!printf(vga, s)
  OBVIOUS
<1>4. lf \in Seq(Glyphs) /\ Len(lf) = 1 /\ lf[1] = "LF"
  <2>1. "LF" \in Glyphs
    BY DEF Glyphs
  <2> QED
    BY <1>3, <2>1
<1>5. o \in Seq(Glyphs) /\ (o # <<>> => o[Len(o)] = "LF")
  BY TerminalTexts
<1>6. /\ s \in Seq(Glyphs) /\ Len(s) = 1 + Len(o) /\ Len(o) \in Nat
      /\ \A n \in 1 .. 1 + Len(o) : s[n] = IF n <= 1 THEN lf[n] ELSE o[n - 1]
  BY <1>3, <1>4, <1>5, ConcatProperties
<1>7. m \in 0 .. Len(s) /\ m # 0 /\ Len(s) - m = 0 /\ m \in 1 .. 1 + Len(o)
  BY <1>3, <1>6
<1>8. s[m] = "LF"
  <2>1. CASE o = <<>>
    BY <1>3, <1>4, <1>6, <1>7, <2>1
  <2>2. CASE o # <<>>
    <3>1. Len(o) # 0
      BY <1>5, <2>2
    <3>2. ~(m <= 1) /\ m - 1 = Len(o)
      BY <1>3, <1>6, <3>1
    <3> QED
      BY <1>5, <1>6, <1>7, <2>2, <3>2
  <2> QED
    BY <2>1, <2>2
<1>9. \A n \in 1 .. Len(s) - m : s[m + n] = s[n] /\ s[m + n] \notin Controls
  BY <1>7
<1>10. Screened(k, w, s, 0)
  <2>1. Screened(k, Path(k)!Console!printf(vga, s), s, Len(s) - m)
    BY <1>2, <1>6, <1>7, <1>8, <1>9, PrintfShows
  <2> QED
    BY <1>3, <1>7, <2>1
<1>11. Screened(k, vga', Terminals[k].prompt \o <<>>, Len(Terminals[k].prompt \o <<>>))
  BY <1>1, <1>3, <1>10, PromptShown DEF Screened
<1> QED
  BY <1>11, FreshLine DEF Path!Console!Enter

LEMMA EnterClearShown ==
  ASSUME NEW k \in DOMAIN Terminals, Path(k)!Console!EnterClear
  PROVE  LineShown(k)'
<1>1. vga' = Path(k)!Console!printf(Path(k)!Console!Cleared, Terminals[k].prompt)
  BY DEF Path!Console!EnterClear
<1>2. PICK v : v = Path(k)!Console!Cleared
  OBVIOUS
<1>3. Screened(k, vga', Terminals[k].prompt \o <<>>, Len(Terminals[k].prompt \o <<>>))
  BY <1>1, <1>2, ClearedScreen, PromptShown
<1> QED
  BY <1>3, FreshLine DEF Path!Console!EnterClear

LEMMA ClickShown ==
  ASSUME NEW k \in DOMAIN Terminals, LineShown(k), Path(k)!Console!Click
  PROVE  LineShown(k)'
<1>1. PICK lf, p, l, n, a, t : /\ lf = <<"LF">> /\ p = Terminals[k].prompt /\ l = line
                               /\ n = Terminals[k].notice /\ a = lf \o n \o lf /\ t = p \o l
  OBVIOUS
<1>2. vga' = Path(k)!Console!printf(vga, lf \o n \o lf \o p \o l) /\ line' = line /\ stuck' = FALSE
  BY <1>1 DEF Path!Console!Click
<1>3. /\ l \in Seq(Terminals[k].chars) /\ vga \in ConsoleType(k) /\ BelowClear(k, vga)
  BY <1>1, ConsoleBehindBelow DEF LineShown, Screened
<1>4. /\ t \in Seq(Glyphs) /\ \A i \in 1 .. Len(t) : t[i] \notin Controls
  BY <1>1, <1>3, ShownText
<1>5. lf \in Seq(Glyphs) /\ Len(lf) = 1 /\ lf[1] = "LF"
  <2>1. "LF" \in Glyphs
    BY DEF Glyphs
  <2> QED
    BY <1>1, <2>1
<1>6. p \in Seq(Glyphs) /\ n \in Seq(Glyphs) /\ l \in Seq(Glyphs)
  <2>1. Terminals[k].chars \subseteq Glyphs
    BY TerminalTexts
  <2> QED
    BY <1>1, <1>3, <2>1, SeqMonotonic, TerminalTexts
<1>7. a \in Seq(Glyphs) /\ a # <<>> /\ a[Len(a)] = "LF"
  <2>1. PICK b : b = lf \o n
    OBVIOUS
  <2>2. b \in Seq(Glyphs) /\ Len(b) \in Nat
    BY <1>5, <1>6, <2>1
  <2>3. /\ b \o lf \in Seq(Glyphs) /\ Len(b \o lf) = Len(b) + 1
        /\ \A i \in 1 .. Len(b) + 1 : (b \o lf)[i] = IF i <= Len(b) THEN b[i] ELSE lf[i - Len(b)]
    <3>1. /\ b \o lf \in Seq(Glyphs) /\ Len(b \o lf) = Len(b) + Len(lf)
          /\ \A i \in 1 .. Len(b) + Len(lf) :
               (b \o lf)[i] = IF i <= Len(b) THEN b[i] ELSE lf[i - Len(b)]
      BY <1>5, <2>2, ConcatProperties
    <3> QED
      BY <1>5, <3>1
  <2>4. Len(b) + 1 \in 1 .. Len(b) + 1 /\ ~(Len(b) + 1 <= Len(b)) /\ Len(b) + 1 - Len(b) = 1
    BY <2>2
  <2>5. (b \o lf)[Len(b) + 1] = "LF"
    BY <1>5, <2>3, <2>4
  <2>6. a = b \o lf
    BY <1>1, <2>1
  <2>7. a # <<>>
    <3>1. Len(a) # 0
      BY <2>2, <2>3, <2>6
    <3> QED
      BY <3>1
  <2>8. a[Len(a)] = "LF" /\ a \in Seq(Glyphs)
    BY <2>3, <2>5, <2>6
  <2> QED
    BY <2>7, <2>8
<1>8. lf \o n \o lf \o p \o l = a \o t
  <2>1. (a \o p) \o l = a \o (p \o l)
    <3>1. a \in Seq(Glyphs)
      BY <1>7
    <3> QED
      BY <1>6, <3>1, ConcatAssociative
  <2> QED
    BY <1>1, <2>1, Zenon
<1>9. Screened(k, vga', t, Len(t))
  BY <1>2, <1>3, <1>4, <1>7, <1>8, PrintedIsShown
<1>10. Path(k)!Console!Shown' = t
  BY <1>1, <1>2 DEF Path!Console!Shown
<1> QED
  BY <1>1, <1>2, <1>3, <1>9, <1>10 DEF LineShown

LEMMA SwitchShown ==
  ASSUME NEW k \in DOMAIN Terminals, LineShown(k), NEW e \in Path(k)!Events, Path(k)!Switch(e)
  PROVE  LineShown(k)'
<1>1. ASSUME UNCHANGED Path(k)!console PROVE LineShown(k)'
  <2>1. line' = line /\ vga' = vga /\ stuck' = stuck
    BY <1>1 DEF Path!console
  <2>2. Path(k)!Console!Shown' = Path(k)!Console!Shown
    BY <2>1 DEF Path!Console!Shown
  <2> QED
    BY <2>1, <2>2 DEF LineShown
<1>2. CASE e = "LF"
  <2>1. Path(k)!Console!Enter \/ Path(k)!Console!EnterClear
    BY <1>2, Zenon DEF Path!Switch
  <2> QED
    BY <2>1, EnterShown, EnterClearShown
<1>3. CASE e = "BS"
  <2>1. IF line = <<>> THEN UNCHANGED Path(k)!console ELSE Path(k)!Console!Backspace
    BY <1>3, Zenon DEF Path!Switch
  <2> QED
    BY <1>1, <2>1, BackspaceShown
<1>4. CASE e = "CLICK"
  <2>1. Path(k)!Console!Click
    BY <1>4, Zenon DEF Path!Switch
  <2> QED
    BY <2>1, ClickShown
<1>5. CASE e \notin {"LF", "BS", "CLICK"}
  <2>1. IF Len(line) < Terminals[k].size - 1 THEN Path(k)!Console!Key(e) ELSE UNCHANGED Path(k)!console
    BY <1>5, Zenon DEF Path!Switch
  <2>2. e \in Terminals[k].chars
    BY <1>5 DEF Path!Events
  <2> QED
    BY <1>1, <2>1, <2>2, KeyShown
<1> QED
  BY <1>2, <1>3, <1>4, <1>5

LEMMA EditorStep ==
  ASSUME NEW k \in DOMAIN Terminals, EditorInv(k), Path(k)!Next
  PROVE  EditorInv(k)'
<1>1. queue \in Seq(Path(k)!Events) /\ LineShown(k) /\ Path(k)!Events' = Path(k)!Events
  BY DEF EditorInv, Path!Events
<1>2. ASSUME NEW e \in Path(k)!Events, Path(k)!Push(e) PROVE EditorInv(k)'
  <2>1. queue' = Append(IF Len(queue) = Terminals[k].capacity THEN Tail(queue) ELSE queue, e)
    BY <1>2 DEF Path!Push
  <2>2. line' = line /\ vga' = vga /\ stuck' = stuck
    BY <1>2 DEF Path!Push, Path!console
  <2>3. queue' \in Seq(Path(k)!Events)
    BY <1>1, <1>2, <2>1, QueueAppends
  <2>4. Path(k)!Console!Shown' = Path(k)!Console!Shown
    BY <2>2 DEF Path!Console!Shown
  <2> QED
    BY <1>1, <2>2, <2>3, <2>4 DEF EditorInv, LineShown
<1>3. CASE Path(k)!Turn
  <2>1. queue # <<>> /\ queue' = Tail(queue) /\ Path(k)!Switch(Head(queue))
    BY <1>3 DEF Path!Turn
  <2>2. Head(queue) \in Path(k)!Events /\ queue' \in Seq(Path(k)!Events)
    BY <1>1, <2>1
  <2> QED
    BY <1>1, <2>1, <2>2, SwitchShown DEF EditorInv
<1> QED
  BY <1>2, <1>3 DEF Path!Next

LEMMA EditorEcho ==
  ASSUME NEW k \in DOMAIN Terminals, EditorInv(k)
  PROVE  Path(k)!EchoMatches
<1>1. PICK p, s, L : p = Pos(k, vga) /\ s = Path(k)!Console!Shown /\ L = Len(s)
  OBVIOUS
<1>2. /\ line \in Seq(Terminals[k].chars) /\ vga \in ConsoleType(k) /\ BehindClear(k, vga)
      /\ (~stuck => Shows(vga.buffer, p, s, L))
  BY <1>1 DEF EditorInv, LineShown, Screened
<1>3. L \in Nat /\ p \in 0 .. Size(k) - 1 /\ Size(k) \in Nat
  BY <1>1, <1>2, ShownText, ConsolePos, TerminalType DEF Path!Console!Shown
<1>4. Path(k)!Console!Pos(vga) = p
  BY <1>1 DEF Path!Console!Pos, Pos
<1>5. \A i \in Path(k)!Console!Cells : i >= p => vga.buffer[i] = Path(k)!Console!Blank
  <2>1. Path(k)!Console!Cells = 0 .. Size(k) - 1 /\ Path(k)!Console!Blank = " "
    BY DEF Path!Console!Cells, Path!Console!Blank, Size
  <2> QED
    BY <1>1, <1>2, <2>1 DEF BehindClear, Clear
<1>6. ASSUME ~stuck, NEW i \in 0 .. L - 1, p - 1 - i >= 0
      PROVE  vga.buffer[p - 1 - i] = s[L - i]
  <2>1. PICK n : n = L - i
    OBVIOUS
  <2>2. n \in 1 .. L /\ p - L + n - 1 = p - 1 - i
    BY <1>3, <1>6, <2>1
  <2> QED
    BY <1>2, <1>6, <2>1, <2>2 DEF Shows
<1> QED
  BY <1>1, <1>4, <1>5, <1>6 DEF Path!EchoMatches, Path!Console!EchoMatches

-----------------------------------------------------------------------------
(* The screen of OS/Two. *)

Pixels == Glyphs \X Screen!Colors
Dark == {<<" ", c>> : c \in Screen!Colors}
TwoSize == TwoScreen.width * TwoScreen.height
TwoPos(v) == v.cursor_y * TwoScreen.width + v.cursor_x
ScreenType ==
  [video_memory : [Screen!Cells -> Pixels], cursor_x : 0 .. TwoScreen.width - 1,
   cursor_y : 0 .. TwoScreen.height - 1, current_color : Screen!Colors]

TwoBelow(v) == Clear(TwoSize, v.video_memory, (v.cursor_y + 1) * TwoScreen.width, Dark)
TwoBehind(v) == Clear(TwoSize, v.video_memory, TwoPos(v), Dark)
TwoKeeps(v, w) ==
  Keeps(TwoScreen.width, TwoScreen.height, v.video_memory, v.cursor_y, w.video_memory, w.cursor_y)

LEMMA TwoConstants ==
  /\ TwoScreen.width \in Nat \ {0} /\ TwoScreen.height \in Nat \ {0}
  /\ TwoScreen.tab \in Nat \ {0} /\ TwoScreen.length \in Nat \ {0}
  /\ TwoSize \in Nat /\ Screen!Cells = 0 .. TwoSize - 1
BY TerminalAssumption DEF TwoSize, Screen!Cells

LEMMA TwoPosRange ==
  ASSUME NEW v \in ScreenType
  PROVE  TwoPos(v) \in 0 .. TwoSize - 1
BY TwoConstants, CursorRange DEF ScreenType, TwoPos, TwoSize

LEMMA TwoBehindBelow ==
  ASSUME NEW v \in ScreenType, TwoBehind(v)
  PROVE  TwoBelow(v)
BY TwoConstants, BehindBelow DEF ScreenType, TwoBehind, TwoBelow, TwoPos, TwoSize

(* w is the screen b with the cursor at row r and column x, scrolled if    *)
(* there is no such row.                                                   *)
ScreenLands(b, r, x, g, w) ==
  /\ w \in ScreenType /\ w.current_color = g
  /\ Lands(TwoScreen.width, TwoScreen.height, Dark, b, r, x, w.video_memory, w.cursor_y, w.cursor_x)

(* A screen as a record. *)
Shot(b, r, x, g) == [video_memory |-> b, cursor_x |-> x, cursor_y |-> r, current_color |-> g]

LEMMA ScreenScroll ==
  ASSUME NEW b \in [Screen!Cells -> Pixels], NEW r \in 0 .. TwoScreen.height,
         NEW x \in 0 .. TwoScreen.width - 1, NEW g \in Screen!Colors,
         NEW m, m = Shot(b, r, x, g),
         NEW w, w = IF m.cursor_y >= TwoScreen.height THEN Screen!scroll(m) ELSE m
  PROVE  ScreenLands(b, r, x, g, w)
<1> DEFINE W == TwoScreen.width
           H == TwoScreen.height
           N == TwoSize
<1>1. W \in Nat \ {0} /\ H \in Nat \ {0} /\ N \in Nat /\ Screen!Cells = 0 .. N - 1
  BY TwoConstants
<1>2. /\ m.video_memory = b /\ m.cursor_x = x /\ m.cursor_y = r /\ m.current_color = g
      /\ m = [f \in {"video_memory", "cursor_x", "cursor_y", "current_color"} |-> m[f]]
  BY DEF Shot
<1> HIDE DEF W, H, N
<1>3. CASE r < H
  <2>1. w = Shot(b, r, x, g) /\ r \in 0 .. H - 1
    BY <1>1, <1>2, <1>3 DEF H
  <2>2. w \in ScreenType
    BY <2>1 DEF ScreenType, Shot, H
  <2>3. w.video_memory = b /\ w.cursor_x = x /\ w.cursor_y = r /\ w.current_color = g
    BY <2>1 DEF Shot
  <2> QED
    BY <1>3, <2>2, <2>3 DEF ScreenLands, Lands, H
<1>4. CASE ~(r < H)
  <2> DEFINE c == [i \in 0 .. N - 1 |-> IF i + W \in 0 .. N - 1 THEN b[i + W] ELSE Screen!Blank(m)]
  <2>1. w = Screen!scroll(m)
    BY <1>1, <1>2, <1>4 DEF H
  <2>2. /\ w.video_memory = c /\ w.cursor_x = x /\ w.cursor_y = H - 1 /\ w.current_color = g
        /\ w = [f \in {"video_memory", "cursor_x", "cursor_y", "current_color"} |-> w[f]]
    <3>1. PICK d : d = [i \in Screen!Cells |-> IF i + W \in Screen!Cells
                          THEN m.video_memory[i + W] ELSE Screen!Blank(m)]
      OBVIOUS
    <3>2. d = c
      BY <1>1, <1>2, <3>1
    <3>3. w = [m EXCEPT !.video_memory = d, !.cursor_y = H - 1]
      BY <2>1, <3>1 DEF Screen!scroll, H, W
    <3> HIDE DEF c
    <3> QED
      BY <1>2, <3>2, <3>3
  <2>3. Screen!Blank(m) \in Dark /\ Screen!Blank(m) \in Pixels
    BY <1>2 DEF Screen!Blank, Dark, Pixels, Glyphs
  <2>4. c \in [0 .. N - 1 -> Pixels] /\ Rolled(N, W, b, c, Dark)
    <3>1. \A i \in 0 .. N - 1 : (i + W \in 0 .. N - 1) <=> (i + W <= N - 1)
      BY <1>1
    <3>2. \A i \in 0 .. N - 1 : c[i] = IF i + W \in 0 .. N - 1 THEN b[i + W] ELSE Screen!Blank(m)
      OBVIOUS
    <3>3. c \in [0 .. N - 1 -> Pixels]
      <4>1. \A i \in 0 .. N - 1 : b[i] \in Pixels
        BY <1>1
      <4> QED
        BY <2>3, <4>1
    <3> HIDE DEF c
    <3> QED
      BY <2>3, <3>1, <3>2, <3>3 DEF Rolled
  <2> HIDE DEF c
  <2>5. w = Shot(c, H - 1, x, g) /\ H - 1 \in 0 .. H - 1
    BY <1>1, <2>2 DEF Shot
  <2>6. w \in ScreenType
    <3>1. c \in [Screen!Cells -> Pixels] /\ H - 1 \in 0 .. TwoScreen.height - 1
      BY <1>1, <2>4, <2>5 DEF H
    <3> QED
      BY <2>5, <3>1 DEF ScreenType, Shot
  <2> QED
    BY <1>4, <2>2, <2>4, <2>6 DEF ScreenLands, Lands, TwoSize, H, W, N
<1> QED
  BY <1>3, <1>4

LEMMA TwoStaysInRow ==
  ASSUME NEW b \in [Screen!Cells -> Pixels], NEW r \in 0 .. TwoScreen.height,
         NEW x \in 0 .. TwoScreen.width - 1, NEW g \in Screen!Colors,
         NEW v, NEW c, c # "BS", Screen!Moved(v, c) = Shot(b, r, x, g),
         NEW w, w = Screen!putchar(v, c)
  PROVE  ScreenLands(b, r, x, g, w)
<1>1. ~(x >= TwoScreen.width)
  BY TwoConstants
<1>2. PICK m : m = Shot(b, r, x, g)
  OBVIOUS
<1>3. m.cursor_x = x
  BY <1>2 DEF Shot
<1>4. w = IF m.cursor_y >= TwoScreen.height THEN Screen!scroll(m) ELSE m
  BY <1>1, <1>2, <1>3 DEF Screen!putchar
<1> QED
  BY <1>2, <1>4, ScreenScroll

LEMMA TwoLeavesRow ==
  ASSUME NEW b \in [Screen!Cells -> Pixels], NEW r \in 0 .. TwoScreen.height - 1,
         NEW x \in Nat, x >= TwoScreen.width, NEW g \in Screen!Colors,
         NEW v, NEW c, c # "BS", Screen!Moved(v, c) = Shot(b, r, x, g),
         NEW w, w = Screen!putchar(v, c), NEW q, q = r + 1
  PROVE  ScreenLands(b, q, 0, g, w)
<1>1. PICK m, n : m = Shot(b, r, x, g) /\ n = Screen!NewRow(m)
  OBVIOUS
<1>2. /\ m.video_memory = b /\ m.cursor_x = x /\ m.cursor_y = r /\ m.current_color = g
      /\ m = [f \in {"video_memory", "cursor_x", "cursor_y", "current_color"} |-> m[f]]
  BY <1>1 DEF Shot
<1>3. w = IF n.cursor_y >= TwoScreen.height THEN Screen!scroll(n) ELSE n
  BY <1>1, <1>2 DEF Screen!putchar
<1>4. n = Shot(b, q, 0, g)
  <2>1. /\ n.video_memory = b /\ n.cursor_x = 0 /\ n.cursor_y = q /\ n.current_color = g
        /\ n = [f \in {"video_memory", "cursor_x", "cursor_y", "current_color"} |-> n[f]]
    BY <1>1, <1>2 DEF Screen!NewRow
  <2> QED
    BY <2>1 DEF Shot
<1>5. q \in 0 .. TwoScreen.height /\ 0 \in 0 .. TwoScreen.width - 1
  BY TwoConstants
<1> QED
  BY <1>3, <1>4, <1>5, ScreenScroll

(* What a character does, before rows end and the screen scrolls. *)
TwoMoves(v, c, d, r, x) ==
  /\ Screen!Moved(v, c) = Shot(d, r, x, v.current_color)
  /\ c = "LF" => d = v.video_memory /\ r = v.cursor_y + 1 /\ x = 0
  /\ c = "CR" => d = v.video_memory /\ r = v.cursor_y /\ x = 0
  /\ c = "TAB" => d = v.video_memory /\ r = v.cursor_y /\ x \in Nat
  /\ c \notin Controls => /\ d = [v.video_memory EXCEPT ![TwoPos(v)] = <<c, v.current_color>>]
                          /\ r = v.cursor_y /\ x = v.cursor_x + 1

LEMMA TwoMoved ==
  ASSUME NEW v \in ScreenType, NEW c, c # "BS"
  PROVE  \E d, r, x : TwoMoves(v, c, d, r, x)
<1> DEFINE Fields == {"video_memory", "cursor_x", "cursor_y", "current_color"}
<1>1. v = [f \in Fields |-> v[f]] /\ v.cursor_x \in Nat /\ v.cursor_y \in Nat
  BY TwoConstants DEF ScreenType
<1>2. PICK w : w = Screen!Moved(v, c)
  OBVIOUS
<1>3. CASE c = "LF"
  <2>1. w = [v EXCEPT !.cursor_x = 0, !.cursor_y = @ + 1]
    BY <1>2, <1>3, Zenon DEF Screen!Moved, Screen!NewRow
  <2>2. /\ w = [f \in Fields |-> w[f]] /\ w.video_memory = v.video_memory
        /\ w.cursor_y = v.cursor_y + 1 /\ w.cursor_x = 0 /\ w.current_color = v.current_color
    BY <1>1, <2>1
  <2>3. w = Shot(v.video_memory, v.cursor_y + 1, 0, v.current_color)
    BY <2>2 DEF Shot
  <2> QED
    BY <1>2, <1>3, <2>3 DEF TwoMoves, Controls
<1>4. CASE c = "CR"
  <2>1. w = [v EXCEPT !.cursor_x = 0]
    BY <1>2, <1>4, Zenon DEF Screen!Moved
  <2>2. /\ w = [f \in Fields |-> w[f]] /\ w.video_memory = v.video_memory
        /\ w.cursor_y = v.cursor_y /\ w.cursor_x = 0 /\ w.current_color = v.current_color
    BY <1>1, <2>1
  <2>3. w = Shot(v.video_memory, v.cursor_y, 0, v.current_color)
    BY <2>2 DEF Shot
  <2> QED
    BY <1>2, <1>4, <2>3 DEF TwoMoves, Controls
<1>5. CASE c = "TAB"
  <2>1. w = [v EXCEPT !.cursor_x = ((@ + TwoScreen.tab) \div TwoScreen.tab) * TwoScreen.tab]
    BY <1>2, <1>5, Zenon DEF Screen!Moved
  <2>2. /\ w = [f \in Fields |-> w[f]] /\ w.video_memory = v.video_memory
        /\ w.cursor_y = v.cursor_y /\ w.current_color = v.current_color
        /\ w.cursor_x = ((v.cursor_x + TwoScreen.tab) \div TwoScreen.tab) * TwoScreen.tab
    BY <1>1, <2>1
  <2>3. w.cursor_x \in Nat
    <3>1. PICK T, a : T = TwoScreen.tab /\ a = v.cursor_x + T
      OBVIOUS
    <3>2. T \in Nat \ {0} /\ a \in Nat
      BY <1>1, <3>1, TwoConstants
    <3>3. (a \div T) * T \in Nat
      BY <3>2
    <3> QED
      BY <2>2, <3>1, <3>3
  <2>4. w = Shot(v.video_memory, v.cursor_y, w.cursor_x, v.current_color)
    BY <2>2 DEF Shot
  <2> QED
    BY <1>2, <1>5, <2>3, <2>4 DEF TwoMoves, Controls
<1>6. CASE c \notin Controls
  <2>1. w = [v EXCEPT !.video_memory[Screen!Pos(v)] = <<c, v.current_color>>, !.cursor_x = @ + 1]
    <3>1. c # "LF" /\ c # "CR" /\ c # "TAB"
      BY <1>6 DEF Controls
    <3> QED
      BY <1>2, <3>1, Zenon DEF Screen!Moved
  <2>2. Screen!Pos(v) = TwoPos(v)
    BY DEF Screen!Pos, TwoPos
  <2>3. /\ w = [f \in Fields |-> w[f]]
        /\ w.video_memory = [v.video_memory EXCEPT ![TwoPos(v)] = <<c, v.current_color>>]
        /\ w.cursor_y = v.cursor_y /\ w.cursor_x = v.cursor_x + 1 /\ w.current_color = v.current_color
    BY <1>1, <2>1, <2>2
  <2>4. w = Shot([v.video_memory EXCEPT ![TwoPos(v)] = <<c, v.current_color>>], v.cursor_y,
                 v.cursor_x + 1, v.current_color)
    BY <2>3 DEF Shot
  <2> QED
    BY <1>2, <1>6, <2>4 DEF TwoMoves, Controls
<1> QED
  BY <1>3, <1>4, <1>5, <1>6 DEF Controls

LEMMA TwoPutPlain ==
  ASSUME NEW v \in ScreenType, NEW c \in Glyphs \ Controls, NEW w, w = Screen!putchar(v, c)
  PROVE  /\ w \in ScreenType /\ w.current_color = v.current_color /\ TwoKeeps(v, w)
         /\ Written(TwoSize, TwoScreen.width, v.video_memory, TwoPos(v), <<c, v.current_color>>,
                    w.video_memory, TwoPos(w), Dark)
<1> DEFINE W == TwoScreen.width
           H == TwoScreen.height
           N == TwoSize
           p == TwoPos(v)
           g == v.current_color
<1>1. /\ W \in Nat \ {0} /\ H \in Nat \ {0} /\ v.cursor_y \in 0 .. H - 1 /\ v.cursor_x \in 0 .. W - 1
      /\ g \in Screen!Colors
  BY TwoConstants DEF ScreenType
<1>2. p \in 0 .. N - 1 /\ N \in Nat /\ Screen!Cells = 0 .. N - 1
  BY TwoPosRange, TwoConstants
<1>3. v.video_memory \in [0 .. N - 1 -> Pixels] /\ <<c, g>> \in Pixels
  BY <1>1, <1>2 DEF ScreenType, Pixels
<1>4. c # "BS"
  BY DEF Controls
<1>5. PICK d, r, x : TwoMoves(v, c, d, r, x)
  BY <1>4, TwoMoved
<1>6. /\ Screen!Moved(v, c) = Shot(d, r, x, g) /\ d = [v.video_memory EXCEPT ![p] = <<c, g>>]
      /\ r = v.cursor_y /\ x = v.cursor_x + 1
  BY <1>5 DEF TwoMoves
<1>7. d \in [Screen!Cells -> Pixels] /\ Set(N, v.video_memory, p, <<c, g>>, d)
  BY <1>2, <1>3, <1>6 DEF Set
<1>8. p = v.cursor_y * W + v.cursor_x /\ N = W * H
  BY DEF TwoPos, TwoSize
<1> HIDE DEF W, H, N, p, g
<1>9. PICK q : q = r + 1
  OBVIOUS
<1>10. /\ r \in 0 .. H /\ r \in 0 .. H - 1 /\ x \in Nat
       /\ (x < W => x \in 0 .. W - 1) /\ (~(x < W) => x >= W)
  BY <1>1, <1>6
<1>11. PICK s, z : (IF x < W THEN s = r /\ z = x ELSE s = q /\ z = 0)
  OBVIOUS
<1>12. ScreenLands(d, s, z, g, w)
  <2>1. CASE x < W
    BY <1>1, <1>4, <1>6, <1>7, <1>10, <1>11, <2>1, TwoStaysInRow DEF W, H
  <2>2. CASE ~(x < W)
    BY <1>1, <1>4, <1>6, <1>7, <1>9, <1>10, <1>11, <2>2, TwoLeavesRow DEF W, H
  <2> QED
    BY <2>1, <2>2
<1>13. /\ Lands(W, H, Dark, d, s, z, w.video_memory, w.cursor_y, w.cursor_x)
       /\ w \in ScreenType /\ w.current_color = g
  BY <1>12 DEF ScreenLands, W, H
<1>14. IF v.cursor_x + 1 < W THEN s = v.cursor_y /\ z = v.cursor_x + 1 ELSE s = v.cursor_y + 1 /\ z = 0
  BY <1>6, <1>9, <1>11
<1>15. PICK y : y = <<c, g>>
  OBVIOUS
<1>16. /\ Keeps(W, H, v.video_memory, v.cursor_y, w.video_memory, w.cursor_y)
       /\ Written(W * H, W, v.video_memory, p, y, w.video_memory, w.cursor_y * W + w.cursor_x, Dark)
  BY <1>1, <1>7, <1>8, <1>13, <1>14, <1>15, PlainWritten
<1> QED
  BY <1>8, <1>13, <1>15, <1>16 DEF TwoKeeps, TwoPos, W, H, N, p, g

LEMMA TwoLandsKeeps ==
  ASSUME NEW v, NEW w, NEW r, NEW x, NEW g, r \in Nat, r >= v.cursor_y,
         ScreenLands(v.video_memory, r, x, g, w)
  PROVE  w \in ScreenType /\ TwoKeeps(v, w) /\ w.current_color = g
BY TwoConstants, LandsKeeps DEF ScreenLands, TwoKeeps

LEMMA TwoPutLF ==
  ASSUME NEW v \in ScreenType, NEW w, w = Screen!putchar(v, "LF")
  PROVE  /\ w \in ScreenType /\ w.current_color = v.current_color /\ TwoKeeps(v, w)
         /\ (TwoBelow(v) => TwoBehind(w))
<1> DEFINE W == TwoScreen.width
           H == TwoScreen.height
<1>1. /\ W \in Nat \ {0} /\ H \in Nat \ {0} /\ v.cursor_y \in 0 .. H - 1 /\ 0 \in 0 .. W - 1
      /\ v.current_color \in Screen!Colors /\ v.video_memory \in [Screen!Cells -> Pixels]
  BY TwoConstants DEF ScreenType
<1>2. PICK d, r, x : TwoMoves(v, "LF", d, r, x)
  BY TwoMoved
<1>3. /\ Screen!Moved(v, "LF") = Shot(d, r, x, v.current_color)
      /\ d = v.video_memory /\ r = v.cursor_y + 1 /\ x = 0
  BY <1>2 DEF TwoMoves
<1>4. r \in 0 .. H /\ r \in Nat /\ r >= v.cursor_y
  BY <1>1, <1>3
<1>5. ScreenLands(d, r, x, v.current_color, w)
  BY <1>1, <1>3, <1>4, TwoStaysInRow
<1>6. w \in ScreenType /\ w.current_color = v.current_color /\ TwoKeeps(v, w)
  BY <1>3, <1>4, <1>5, TwoLandsKeeps
<1>7. ASSUME TwoBelow(v) PROVE TwoBehind(w)
  <2>1. Lands(W, H, Dark, v.video_memory, r, 0, w.video_memory, w.cursor_y, w.cursor_x)
    BY <1>3, <1>5 DEF ScreenLands
  <2>2. Clear(W * H, v.video_memory, (v.cursor_y + 1) * W, Dark)
    BY <1>7 DEF TwoBelow, TwoSize
  <2>3. Clear(W * H, w.video_memory, w.cursor_y * W + w.cursor_x, Dark)
    BY <1>1, <1>3, <2>1, <2>2, FeedClears
  <2> QED
    BY <2>3 DEF TwoBehind, TwoPos, TwoSize
<1> QED
  BY <1>6, <1>7

LEMMA TwoPutOther ==
  ASSUME NEW v \in ScreenType, NEW c, c \in {"CR", "TAB"}, NEW w, w = Screen!putchar(v, c)
  PROVE  w \in ScreenType /\ w.current_color = v.current_color /\ TwoKeeps(v, w)
<1> DEFINE W == TwoScreen.width
           H == TwoScreen.height
<1>1. /\ W \in Nat \ {0} /\ H \in Nat \ {0} /\ v.cursor_y \in 0 .. H - 1
      /\ v.current_color \in Screen!Colors /\ v.video_memory \in [Screen!Cells -> Pixels]
  BY TwoConstants DEF ScreenType
<1>2. c # "BS"
  OBVIOUS
<1>3. PICK d, r, x : TwoMoves(v, c, d, r, x)
  BY <1>2, TwoMoved
<1>4. /\ Screen!Moved(v, c) = Shot(d, r, x, v.current_color)
      /\ d = v.video_memory /\ r = v.cursor_y /\ x \in Nat
  <2>1. CASE c = "CR"
    BY <1>3, <2>1 DEF TwoMoves
  <2>2. CASE c = "TAB"
    BY <1>3, <2>2 DEF TwoMoves
  <2> QED
    BY <2>1, <2>2
<1>5. r \in 0 .. H /\ r \in 0 .. H - 1 /\ r \in Nat /\ r >= v.cursor_y
  BY <1>1, <1>4
<1>6. CASE x >= W
  <2>1. PICK q : q = r + 1
    OBVIOUS
  <2>2. ScreenLands(d, q, 0, v.current_color, w)
    BY <1>1, <1>2, <1>4, <1>5, <1>6, <2>1, TwoLeavesRow
  <2>3. q \in Nat /\ q >= v.cursor_y
    BY <1>1, <1>5, <2>1
  <2> QED
    BY <1>4, <2>2, <2>3, TwoLandsKeeps
<1>7. CASE ~(x >= W)
  <2>1. x \in 0 .. W - 1
    BY <1>1, <1>4, <1>7
  <2>2. ScreenLands(d, r, x, v.current_color, w)
    BY <1>1, <1>2, <1>4, <1>5, <2>1, TwoStaysInRow
  <2> QED
    BY <1>4, <1>5, <2>2, TwoLandsKeeps
<1> QED
  BY <1>6, <1>7

LEMMA TwoPutAny ==
  ASSUME NEW v \in ScreenType, NEW c \in Glyphs, c # "BS", NEW w, w = Screen!putchar(v, c)
  PROVE  w \in ScreenType /\ w.current_color = v.current_color /\ (TwoBelow(v) => TwoBelow(w))
<1>1. w \in ScreenType /\ w.current_color = v.current_color /\ TwoKeeps(v, w)
  <2>1. CASE c = "LF"
    BY <2>1, TwoPutLF
  <2>2. CASE c \in {"CR", "TAB"}
    BY <2>2, TwoPutOther
  <2>3. CASE c \notin Controls
    BY <2>3, TwoPutPlain
  <2> QED
    BY <2>1, <2>2, <2>3 DEF Controls
<1> DEFINE W == TwoScreen.width
           H == TwoScreen.height
<1>2. /\ W \in Nat \ {0} /\ H \in Nat \ {0}
      /\ v.cursor_y \in 0 .. H - 1 /\ w.cursor_y \in 0 .. H - 1
  BY <1>1, TwoConstants DEF ScreenType
<1>3. ASSUME TwoBelow(v) PROVE TwoBelow(w)
  <2>1. /\ Keeps(W, H, v.video_memory, v.cursor_y, w.video_memory, w.cursor_y)
        /\ Clear(W * H, v.video_memory, (v.cursor_y + 1) * W, Dark)
    BY <1>1, <1>3 DEF TwoKeeps, TwoBelow, TwoSize
  <2>2. Clear(W * H, w.video_memory, (w.cursor_y + 1) * W, Dark)
    BY <1>2, <2>1, KeepsClear
  <2> QED
    BY <2>2 DEF TwoBelow, TwoSize
<1> QED
  BY <1>1, <1>3

(* A backspace goes back by one cell, over the edge of a row as well. *)
LEMMA TwoPutBS ==
  ASSUME NEW v \in ScreenType, TwoPos(v) # 0, NEW w, w = Screen!putchar(v, "BS")
  PROVE  /\ w \in ScreenType /\ w.current_color = v.current_color
         /\ TwoPos(v) \in 1 .. TwoSize - 1 /\ TwoPos(w) = TwoPos(v) - 1
         /\ Set(TwoSize, v.video_memory, TwoPos(v) - 1, <<" ", v.current_color>>, w.video_memory)
<1> DEFINE Fields == {"video_memory", "cursor_x", "cursor_y", "current_color"}
           W == TwoScreen.width
           H == TwoScreen.height
           N == TwoSize
           d == [v.video_memory EXCEPT ![TwoPos(v) - 1] = <<" ", v.current_color>>]
<1>1. PICK r, x, p, e : r = v.cursor_y /\ x = v.cursor_x /\ p = TwoPos(v) /\ e = r * W
  OBVIOUS
<1>2. /\ v = [f \in Fields |-> v[f]] /\ W \in Nat \ {0} /\ H \in Nat \ {0} /\ N \in Nat
      /\ x \in 0 .. W - 1 /\ r \in 0 .. H - 1 /\ v.current_color \in Screen!Colors
      /\ v.video_memory \in [0 .. N - 1 -> Pixels]
  BY <1>1, TwoConstants DEF ScreenType
<1>3. p \in 0 .. N - 1 /\ p = e + x
  BY <1>1, TwoPosRange DEF TwoPos
<1>4. p \in 1 .. N - 1 /\ p - 1 \in 0 .. N - 1
  BY <1>1, <1>2, <1>3
<1>5. <<" ", v.current_color>> \in Pixels
  BY <1>2 DEF Pixels, Glyphs
<1>6. d \in [Screen!Cells -> Pixels] /\ Set(N, v.video_memory, p - 1, <<" ", v.current_color>>, d)
  BY <1>1, <1>2, <1>4, <1>5, TwoConstants DEF Set
<1>7. w = Screen!backspace(v)
  BY DEF Screen!putchar
<1>8. Screen!Pos(v) = TwoPos(v) /\ Screen!Blank(v) = <<" ", v.current_color>>
  BY DEF Screen!Pos, Screen!Blank, TwoPos
<1>9. PICK s, y : /\ w = Shot(d, s, y, v.current_color)
                  /\ s \in 0 .. H - 1 /\ y \in 0 .. W - 1 /\ s * W + y = p - 1
  <2>1. CASE x > 0
    <3>1. w = [v EXCEPT !.video_memory[TwoPos(v) - 1] = <<" ", v.current_color>>, !.cursor_x = @ - 1]
      BY <1>1, <1>7, <1>8, <2>1, Zenon DEF Screen!backspace
    <3>2. /\ w = [f \in Fields |-> w[f]] /\ w.video_memory = d
          /\ w.cursor_x = x - 1 /\ w.cursor_y = r /\ w.current_color = v.current_color
      BY <1>1, <1>2, <3>1
    <3>3. w = Shot(d, r, x - 1, v.current_color)
      BY <3>2 DEF Shot
    <3>4. x - 1 \in 0 .. W - 1 /\ r * W + (x - 1) = p - 1
      <4>1. r * W \in Nat
        BY <1>2
      <4> QED
        BY <1>1, <1>2, <1>3, <2>1, <4>1
    <3> QED
      BY <1>2, <3>3, <3>4
  <2>2. CASE ~(x > 0)
    <3>1. x = 0
      BY <1>2, <2>2
    <3>2. r # 0
      BY <1>1, <1>2, <1>3, <3>1
    <3>3. r > 0 /\ r - 1 \in 0 .. H - 1 /\ W - 1 \in 0 .. W - 1
      BY <1>2, <3>2
    <3>4. w = [v EXCEPT !.video_memory[TwoPos(v) - 1] = <<" ", v.current_color>>,
                        !.cursor_x = W - 1, !.cursor_y = @ - 1]
      BY <1>1, <1>7, <1>8, <2>2, <3>3, Zenon DEF Screen!backspace
    <3>5. /\ w = [f \in Fields |-> w[f]] /\ w.video_memory = d
          /\ w.cursor_x = W - 1 /\ w.cursor_y = r - 1 /\ w.current_color = v.current_color
      BY <1>1, <1>2, <3>4
    <3>6. w = Shot(d, r - 1, W - 1, v.current_color)
      BY <3>5 DEF Shot
    <3>7. (r - 1) * W + (W - 1) = p - 1
      <4>1. (r - 1) * W = r * W - W /\ r * W \in Nat
        BY <1>2
      <4> QED
        BY <1>1, <1>2, <1>3, <3>1, <4>1
    <3> QED
      BY <3>3, <3>6, <3>7
  <2> QED
    BY <2>1, <2>2
<1> HIDE DEF d
<1>10. w.video_memory = d /\ w.cursor_y = s /\ w.cursor_x = y /\ w.current_color = v.current_color
  BY <1>9 DEF Shot
<1>11. w \in ScreenType
  <2>1. PICK g : g = v.current_color
    OBVIOUS
  <2>2. /\ g \in Screen!Colors /\ d \in [Screen!Cells -> Pixels]
        /\ s \in 0 .. TwoScreen.height - 1 /\ y \in 0 .. TwoScreen.width - 1
    BY <1>2, <1>6, <1>9, <2>1
  <2>3. w = [video_memory |-> d, cursor_x |-> y, cursor_y |-> s, current_color |-> g]
    BY <1>9, <2>1 DEF Shot
  <2> HIDE DEF Fields, W, H, N
  <2> QED
    BY <2>2, <2>3 DEF ScreenType
<1>12. TwoPos(w) = p - 1
  BY <1>9, <1>10 DEF TwoPos
<1> QED
  BY <1>1, <1>4, <1>6, <1>10, <1>11, <1>12

-----------------------------------------------------------------------------
(* puts prints one character after the other. *)
Puts(v, s, f) ==
  f = [n \in 0 .. Len(s) |-> IF n = 0 THEN v ELSE Screen!putchar(f[n - 1], s[n])]

LEMMA PutsExists ==
  ASSUME NEW v, NEW s, Len(s) \in Nat
  PROVE  \E f : Puts(v, s, f)
<1> DEFINE Good(m, f) ==
             f = [n \in 0 .. m |-> IF n = 0 THEN v ELSE Screen!putchar(f[n - 1], s[n])]
           T == {m \in Nat : ~ \E f : Good(m, f)}
<1>1. ASSUME T # {} PROVE FALSE
  <2>1. PICK m \in T : \A j \in T : m <= j
    BY <1>1, LeastNat
  <2>2. CASE m = 0
    <3>1. Good(0, [n \in 0 .. 0 |-> v])
      OBVIOUS
    <3> QED
      BY <2>1, <2>2, <3>1
  <2>3. CASE m # 0
    <3>1. m \in Nat /\ m - 1 \in Nat
      BY <2>3
    <3>2. ~(m - 1 \in T)
      <4> HIDE DEF T
      <4> QED
        BY <2>1, <3>1
    <3>3. PICK g : Good(m - 1, g)
      BY <3>1, <3>2
    <3> DEFINE f == [n \in 0 .. m |-> IF n = m THEN Screen!putchar(g[m - 1], s[m]) ELSE g[n]]
    <3>4. \A n \in 0 .. m : f[n] = IF n = 0 THEN v ELSE Screen!putchar(f[n - 1], s[n])
      <4> TAKE n \in 0 .. m
      <4>1. CASE n = m
        <5>1. m \in 0 .. m /\ m - 1 \in 0 .. m /\ m - 1 # m
          BY <3>1
        <5>2. f[m] = Screen!putchar(g[m - 1], s[m])
          BY <5>1
        <5>3. f[m - 1] = g[m - 1]
          BY <5>1
        <5> QED
          BY <2>3, <4>1, <5>2, <5>3
      <4>2. CASE n # m
        <5>1. n \in 0 .. m - 1 /\ f[n] = g[n]
          BY <3>1, <4>2
        <5>2. n # 0 => f[n - 1] = g[n - 1]
          BY <3>1, <4>2
        <5>3. g[n] = IF n = 0 THEN v ELSE Screen!putchar(g[n - 1], s[n])
          BY <3>3, <5>1
        <5> QED
          BY <5>1, <5>2, <5>3
      <4> QED
        BY <4>1, <4>2
    <3>5. Good(m, f)
      BY <3>4
    <3> QED
      BY <2>1, <3>5
  <2> QED
    BY <2>2, <2>3
<1> QED
  BY <1>1 DEF Puts

LEMMA PutsRun ==
  ASSUME NEW v, NEW s, Len(s) \in Nat
  PROVE  \E f : /\ f[0] = v /\ f[Len(s)] = Screen!puts(v, s)
                /\ \A n \in 1 .. Len(s) : f[n] = Screen!putchar(f[n - 1], s[n])
<1> DEFINE f == CHOOSE p : Puts(v, s, p)
<1>1. Puts(v, s, f)
  BY PutsExists
<1>2. Screen!puts(v, s) = f[Len(s)]
  BY DEF Screen!puts, Puts
<1> HIDE DEF f
<1>3. \A n \in 0 .. Len(s) : f[n] = IF n = 0 THEN v ELSE Screen!putchar(f[n - 1], s[n])
  BY <1>1 DEF Puts
<1>4. 0 \in 0 .. Len(s) /\ \A n \in 1 .. Len(s) : n \in 0 .. Len(s) /\ n # 0
  OBVIOUS
<1>5. /\ f[0] = v /\ f[Len(s)] = Screen!puts(v, s)
      /\ \A n \in 1 .. Len(s) : f[n] = Screen!putchar(f[n - 1], s[n])
  BY <1>2, <1>3, <1>4
<1> QED
  BY <1>5

(* A screen with the first L cells of t right before the cursor, none of   *)
(* them scrolled off.                                                      *)
TwoScreened(v, t, L) ==
  /\ v \in ScreenType /\ TwoBehind(v) /\ L \in Nat /\ L <= TwoPos(v)
  /\ Shows(v.video_memory, TwoPos(v), t, L)

LEMMA TwoPutShows ==
  ASSUME NEW v, NEW t, NEW L \in Nat, TwoScreened(v, t, L), L + 1 <= TwoSize - TwoScreen.width,
         NEW c \in Glyphs \ Controls, t[L + 1] = <<c, v.current_color>>,
         NEW w, w = Screen!putchar(v, c)
  PROVE  TwoScreened(w, t, L + 1) /\ w.current_color = v.current_color
<1> DEFINE W == TwoScreen.width
           N == TwoSize
           p == TwoPos(v)
           q == TwoPos(w)
<1>1. PICK y : y = <<c, v.current_color>>
  OBVIOUS
<1>2. /\ v \in ScreenType /\ Clear(N, v.video_memory, p, Dark)
      /\ Shows(v.video_memory, p, t, L) /\ L <= p
  BY DEF TwoScreened, TwoBehind
<1>3. /\ w \in ScreenType /\ w.current_color = v.current_color
      /\ Written(N, W, v.video_memory, p, y, w.video_memory, q, Dark)
  BY <1>1, <1>2, TwoPutPlain
<1>4. /\ N \in Nat /\ W \in Nat /\ 0 < W /\ p \in 0 .. N - 1
  BY <1>2, TwoConstants, TwoPosRange
<1>5. W <= N
  <2>1. W \in Nat \ {0} /\ TwoScreen.height \in Nat \ {0} /\ v.cursor_y \in 0 .. TwoScreen.height - 1
    BY <1>2, TwoConstants DEF ScreenType
  <2> QED
    BY <2>1, RowFacts DEF TwoSize
<1>6. y = t[L + 1] /\ L + 1 <= N - W
  BY <1>1
<1> HIDE DEF W, N, p, q
<1>7. Clear(N, w.video_memory, q, Dark)
  BY <1>2, <1>3, <1>4, <1>5, WrittenClear
<1>8. Shows(w.video_memory, q, t, L + 1)
  BY <1>2, <1>3, <1>4, <1>5, <1>6, WrittenShows
<1>9. L + 1 <= q
  BY <1>2, <1>3, <1>4, <1>5, <1>6 DEF Written
<1> QED
  BY <1>3, <1>7, <1>8, <1>9 DEF TwoScreened, TwoBehind, N, q

LEMMA PutsShows ==
  ASSUME NEW v, NEW t, NEW L \in Nat, TwoScreened(v, t, L), NEW s \in Seq(Glyphs),
         L + Len(s) <= TwoSize - TwoScreen.width, NEW g, g = v.current_color,
         \A n \in 1 .. Len(s) : s[n] \notin Controls /\ t[L + n] = <<s[n], g>>
  PROVE  TwoScreened(Screen!puts(v, s), t, L + Len(s)) /\ Screen!puts(v, s).current_color = g
<1>1. Len(s) \in Nat /\ \A n \in 1 .. Len(s) : s[n] \in Glyphs
  OBVIOUS
<1>2. PICK f : /\ f[0] = v /\ f[Len(s)] = Screen!puts(v, s)
               /\ \A n \in 1 .. Len(s) : f[n] = Screen!putchar(f[n - 1], s[n])
  BY <1>1, PutsRun
<1> DEFINE Good(n) == TwoScreened(f[n], t, L + n) /\ f[n].current_color = g
           T == {n \in 0 .. Len(s) : ~Good(n)}
<1>3. ASSUME T # {} PROVE FALSE
  <2>1. T \in SUBSET Nat
    BY <1>1
  <2>2. PICK n \in T : \A j \in T : n <= j
    BY <1>3, <2>1, LeastNat
  <2>3. n \in 0 .. Len(s) /\ ~Good(n)
    OBVIOUS
  <2>4. CASE n = 0
    <3>1. L + 0 = L
      OBVIOUS
    <3> QED
      BY <1>2, <2>3, <2>4, <3>1
  <2>5. CASE n # 0
    <3>1. PICK u, c, M : u = f[n - 1] /\ c = s[n] /\ M = L + (n - 1)
      OBVIOUS
    <3>2. /\ n \in 1 .. Len(s) /\ n - 1 \in 0 .. Len(s) /\ ~(n <= n - 1)
          /\ M \in Nat /\ M + 1 = L + n
      BY <1>1, <2>3, <2>5, <3>1
    <3>3. Good(n - 1)
      <4>1. ~(n - 1 \in T)
        <5> HIDE DEF T
        <5> QED
          BY <2>2, <3>2
      <4> QED
        BY <3>2, <4>1
    <3>4. TwoScreened(u, t, M) /\ u.current_color = g
      BY <3>1, <3>3
    <3>5. c \in Glyphs \ Controls /\ t[M + 1] = <<c, u.current_color>> /\ f[n] = Screen!putchar(u, c)
      BY <1>1, <1>2, <3>1, <3>2, <3>4
    <3>6. M + 1 <= TwoSize - TwoScreen.width
      BY <1>1, <3>2, TwoConstants
    <3>7. TwoScreened(f[n], t, M + 1) /\ f[n].current_color = g
      BY <3>2, <3>4, <3>5, <3>6, TwoPutShows
    <3> QED
      BY <2>3, <3>2, <3>7
  <2> QED
    BY <2>4, <2>5
<1>4. Len(s) \in 0 .. Len(s)
  BY <1>1
<1>5. Good(Len(s))
  BY <1>3, <1>4
<1> QED
  BY <1>2, <1>5

(* What a command prints, with a line feed at the end if it is not empty,  *)
(* leaves the screen blank behind the cursor.                              *)
LEMMA PutsLines ==
  ASSUME NEW v \in ScreenType, TwoBehind(v), NEW s \in Seq(Glyphs),
         s # <<>> => s[Len(s)] = "LF", \A n \in 1 .. Len(s) : s[n] # "BS"
  PROVE  Screen!puts(v, s) \in ScreenType /\ TwoBehind(Screen!puts(v, s))
<1>1. Len(s) \in Nat
  OBVIOUS
<1>2. Len(s) \in Nat /\ (s # <<>> => Len(s) # 0) /\ \A n \in 1 .. Len(s) : s[n] \in Glyphs
  OBVIOUS
<1>3. PICK f : /\ f[0] = v /\ f[Len(s)] = Screen!puts(v, s)
               /\ \A n \in 1 .. Len(s) : f[n] = Screen!putchar(f[n - 1], s[n])
  BY <1>1, PutsRun
<1> DEFINE Good(n) == f[n] \in ScreenType /\ TwoBelow(f[n])
           T == {n \in 0 .. Len(s) : ~Good(n)}
<1>4. ASSUME T # {} PROVE FALSE
  <2>1. T \in SUBSET Nat
    BY <1>2
  <2>2. PICK n \in T : \A j \in T : n <= j
    BY <1>4, <2>1, LeastNat
  <2>3. n \in 0 .. Len(s) /\ ~Good(n)
    OBVIOUS
  <2>4. CASE n = 0
    BY <1>3, <2>3, <2>4, TwoBehindBelow
  <2>5. CASE n # 0
    <3>1. n \in 1 .. Len(s) /\ n - 1 \in 0 .. Len(s) /\ ~(n <= n - 1)
      BY <1>2, <2>3, <2>5
    <3>2. Good(n - 1)
      <4>1. ~(n - 1 \in T)
        <5> HIDE DEF T
        <5> QED
          BY <2>2, <3>1
      <4> QED
        BY <3>1, <4>1
    <3>3. Good(n)
      BY <1>2, <1>3, <3>1, <3>2, TwoPutAny
    <3> QED
      BY <2>3, <3>3
  <2> QED
    BY <2>4, <2>5
<1>5. CASE s = <<>>
  BY <1>3, <1>5
<1>6. CASE s # <<>>
  <2>1. Len(s) \in 1 .. Len(s) /\ Len(s) - 1 \in 0 .. Len(s)
    BY <1>2, <1>6
  <2>2. Good(Len(s) - 1)
    BY <1>4, <2>1
  <2>3. f[Len(s)] = Screen!putchar(f[Len(s) - 1], "LF")
    BY <1>3, <1>6, <2>1
  <2> QED
    BY <1>3, <2>2, <2>3, TwoPutLF
<1> QED
  BY <1>5, <1>6

-----------------------------------------------------------------------------
LEMMA ScreenTexts ==
  /\ \A d \in TwoScreen.dirs : /\ d \in Seq(Glyphs) /\ Len(d) \in Nat
                               /\ \A n \in 1 .. Len(d) : d[n] \notin Controls
                               /\ Len(d) + 3 + TwoScreen.length <= TwoSize - TwoScreen.width
  /\ \A o \in TwoScreen.outputs : /\ o \in Seq(Glyphs) /\ (o # <<>> => o[Len(o)] = "LF")
                                  /\ \A n \in 1 .. Len(o) : o[n] # "BS"
  /\ TwoScreen.chars \subseteq Glyphs \ Controls
<1>1. /\ TwoScreen.chars \subseteq STRING /\ TwoScreen.chars \cap Controls = {}
      /\ \A o \in TwoScreen.outputs : Printed(o) /\ \A n \in 1 .. Len(o) : o[n] # "BS"
      /\ \A d \in TwoScreen.dirs :
           Plain(d) /\ Len(d) + 3 + TwoScreen.length <= (TwoScreen.height - 1) * TwoScreen.width
  BY TerminalAssumption
<1>2. (TwoScreen.height - 1) * TwoScreen.width = TwoSize - TwoScreen.width
  <2>1. PICK W, H : W = TwoScreen.width /\ H = TwoScreen.height
    OBVIOUS
  <2>2. W \in Nat /\ H \in Nat
    BY <2>1, TwoConstants
  <2>3. (H - 1) * W = W * H - W
    BY <2>2
  <2> QED
    BY <2>1, <2>3 DEF TwoSize
<1>3. ASSUME NEW d \in TwoScreen.dirs
      PROVE  /\ d \in Seq(Glyphs) /\ Len(d) \in Nat /\ \A n \in 1 .. Len(d) : d[n] \notin Controls
             /\ Len(d) + 3 + TwoScreen.length <= TwoSize - TwoScreen.width
  <2>1. Plain(d) /\ Len(d) + 3 + TwoScreen.length <= TwoSize - TwoScreen.width
    BY <1>1, <1>2
  <2> QED
    BY <2>1, Glyphic DEF Plain
<1>4. \A o \in TwoScreen.outputs : o \in Seq(Glyphs) /\ (o # <<>> => o[Len(o)] = "LF")
  BY <1>1, Glyphic DEF Printed
<1>5. TwoScreen.chars \subseteq Glyphs \ Controls
  BY <1>1 DEF Glyphs
<1> QED
  BY <1>1, <1>3, <1>4, <1>5

LEMMA TwoShot ==
  ASSUME NEW v \in ScreenType
  PROVE  v = Shot(v.video_memory, v.cursor_y, v.cursor_x, v.current_color)
BY DEF ScreenType, Shot

LEMMA ScreenCleared ==
  ASSUME NEW b, NEW r, NEW x, NEW g \in Screen!Colors, NEW v, v = Shot(b, r, x, g),
         NEW w, w = Screen!clear(v)
  PROVE  w \in ScreenType /\ TwoBehind(w) /\ w.current_color = g
<1>1. PICK c : c = [i \in Screen!Cells |-> <<" ", g>>]
  OBVIOUS
<1>2. /\ v.current_color = g
      /\ v = [f \in {"video_memory", "cursor_x", "cursor_y", "current_color"} |-> v[f]]
  BY DEF Shot
<1>3. w = [v EXCEPT !.video_memory = c, !.cursor_x = 0, !.cursor_y = 0]
  BY <1>1, <1>2 DEF Screen!clear, Screen!Blank
<1>4. w = [video_memory |-> c, cursor_x |-> 0, cursor_y |-> 0, current_color |-> g]
  BY <1>2, <1>3
<1>5. <<" ", g>> \in Pixels /\ <<" ", g>> \in Dark
  BY DEF Pixels, Glyphs, Dark
<1>6. c \in [Screen!Cells -> Pixels] /\ \A i \in Screen!Cells : c[i] \in Dark
  BY <1>1, <1>5
<1>7. 0 \in 0 .. TwoScreen.width - 1 /\ 0 \in 0 .. TwoScreen.height - 1
  BY TwoConstants
<1>8. w \in ScreenType
  BY <1>4, <1>6, <1>7 DEF ScreenType
<1>9. w.video_memory = c /\ w.current_color = g
  BY <1>4
<1>10. TwoBehind(w)
  BY <1>6, <1>9, TwoConstants DEF TwoBehind, Clear
<1> QED
  BY <1>8, <1>9, <1>10

LEMMA ColorSet ==
  ASSUME NEW v \in ScreenType, NEW g \in Screen!Colors, NEW w, w = Screen!setColor(v, g)
  PROVE  /\ w \in ScreenType /\ w.current_color = g
         /\ (TwoBehind(v) => TwoBehind(w))
         /\ \A t, L : TwoScreened(v, t, L) => TwoScreened(w, t, L)
<1>1. w = [v EXCEPT !.current_color = g]
  BY DEF Screen!setColor
<1>2. /\ w.video_memory = v.video_memory /\ w.cursor_x = v.cursor_x /\ w.cursor_y = v.cursor_y
      /\ w.current_color = g /\ w \in ScreenType
  BY <1>1 DEF ScreenType
<1>3. TwoPos(w) = TwoPos(v)
  BY <1>2 DEF TwoPos
<1> QED
  BY <1>2, <1>3 DEF TwoBehind, TwoScreened

(* A text in brackets. *)
LEMMA Framed ==
  ASSUME NEW S, NEW a \in Seq(S), Len(a) = 1, NEW d \in Seq(S), NEW z \in Seq(S), Len(z) = 2,
         NEW s, s = a \o d \o z
  PROVE  /\ Len(d) \in Nat /\ Len(s) = Len(d) + 3 /\ s[1] = a[1]
         /\ \A n \in 1 .. Len(d) : s[1 + n] = d[n]
         /\ s[Len(d) + 2] = z[1] /\ s[Len(d) + 3] = z[2]
<1>1. PICK b, m : b = a \o d /\ m = Len(d)
  OBVIOUS
<1>2. /\ b \in Seq(S) /\ m \in Nat /\ Len(b) = 1 + m
      /\ \A n \in 1 .. 1 + m : b[n] = IF n <= 1 THEN a[n] ELSE d[n - 1]
  <2>1. /\ b \in Seq(S) /\ Len(b) = Len(a) + Len(d)
        /\ \A n \in 1 .. Len(a) + Len(d) : b[n] = IF n <= Len(a) THEN a[n] ELSE d[n - Len(a)]
    BY <1>1, ConcatProperties
  <2> QED
    BY <1>1, <2>1
<1>3. /\ Len(s) = Len(b) + 2
      /\ \A n \in 1 .. Len(b) + 2 : s[n] = IF n <= Len(b) THEN b[n] ELSE z[n - Len(b)]
  <2>1. s = b \o z
    BY <1>1
  <2>2. /\ Len(s) = Len(b) + Len(z)
        /\ \A n \in 1 .. Len(b) + Len(z) : s[n] = IF n <= Len(b) THEN b[n] ELSE z[n - Len(b)]
    <3>1. b \in Seq(S)
      BY <1>2
    <3>2. /\ Len(b \o z) = Len(b) + Len(z)
          /\ \A n \in 1 .. Len(b) + Len(z) :
               (b \o z)[n] = IF n <= Len(b) THEN b[n] ELSE z[n - Len(b)]
      BY <3>1, ConcatProperties
    <3> QED
      BY <2>1, <3>2, Zenon
  <2> QED
    BY <2>2
<1>4. Len(s) = m + 3 /\ \A n \in 1 .. m + 3 : s[n] = IF n <= 1 + m THEN b[n] ELSE z[n - (1 + m)]
  BY <1>2, <1>3
<1>5. s[1] = a[1]
  BY <1>2, <1>4
<1>6. \A n \in 1 .. m : s[1 + n] = d[n]
  <2> TAKE n \in 1 .. m
  <2>1. PICK j : j = 1 + n
    OBVIOUS
  <2>2. j \in 1 .. 1 + m /\ j \in 1 .. m + 3 /\ j <= 1 + m /\ ~(j <= 1) /\ j - 1 = n
    BY <1>2, <2>1
  <2>3. s[j] = b[j] /\ b[j] = d[j - 1]
    BY <1>2, <1>4, <2>2
  <2> QED
    BY <2>1, <2>2, <2>3
<1>7. s[m + 2] = z[1] /\ s[m + 3] = z[2]
  <2>1. /\ m + 2 \in 1 .. m + 3 /\ ~(m + 2 <= 1 + m) /\ (m + 2) - (1 + m) = 1
        /\ m + 3 \in 1 .. m + 3 /\ ~(m + 3 <= 1 + m) /\ (m + 3) - (1 + m) = 2
    BY <1>2
  <2> QED
    BY <1>4, <2>1
<1> QED
  BY <1>1, <1>2, <1>4, <1>5, <1>6, <1>7

(* The cells of a prompt. *)
PromptCell(dir, n) == <<Screen!PromptText(dir)[n], Screen!PromptColors(dir)[n]>>

LEMMA PromptCells ==
  ASSUME NEW dir \in Seq(Glyphs)
  PROVE  /\ Len(dir) \in Nat /\ Len(Screen!PromptText(dir)) = Len(dir) + 3
         /\ PromptCell(dir, 1) = <<"[", "CYAN">>
         /\ \A n \in 1 .. Len(dir) : PromptCell(dir, 1 + n) = <<dir[n], "WHITE">>
         /\ PromptCell(dir, Len(dir) + 2) = <<"]", "CYAN">>
         /\ PromptCell(dir, Len(dir) + 3) = <<"$", "YELLOW">>
<1>1. PICK a, z, s : a = <<"[">> /\ z = <<"]", "$">> /\ s = a \o dir \o z
  OBVIOUS
<1>2. a \in Seq(Glyphs) /\ Len(a) = 1 /\ a[1] = "["
  <2>1. "[" \in Glyphs
    BY DEF Glyphs
  <2> QED
    BY <1>1, <2>1
<1>3. z \in Seq(Glyphs) /\ Len(z) = 2 /\ z[1] = "]" /\ z[2] = "$"
  <2>1. "]" \in Glyphs /\ "$" \in Glyphs
    BY DEF Glyphs
  <2> QED
    BY <1>1, <2>1
<1>4. /\ Len(dir) \in Nat /\ Len(s) = Len(dir) + 3 /\ s[1] = "["
      /\ \A n \in 1 .. Len(dir) : s[1 + n] = dir[n]
      /\ s[Len(dir) + 2] = "]" /\ s[Len(dir) + 3] = "$"
  BY <1>1, <1>2, <1>3, Framed
<1>5. PICK A, D, Z, C : /\ A = <<"CYAN">> /\ D = [i \in 1 .. Len(dir) |-> "WHITE"]
                        /\ Z = <<"CYAN", "YELLOW">> /\ C = A \o D \o Z
  OBVIOUS
<1>6. A \in Seq(Screen!Colors) /\ Len(A) = 1 /\ A[1] = "CYAN"
  <2>1. "CYAN" \in Screen!Colors
    BY DEF Screen!Colors
  <2> QED
    BY <1>5, <2>1
<1>7. Z \in Seq(Screen!Colors) /\ Len(Z) = 2 /\ Z[1] = "CYAN" /\ Z[2] = "YELLOW"
  <2>1. "CYAN" \in Screen!Colors /\ "YELLOW" \in Screen!Colors
    BY DEF Screen!Colors
  <2> QED
    BY <1>5, <2>1
<1>8. D \in Seq(Screen!Colors) /\ Len(D) = Len(dir) /\ \A n \in 1 .. Len(dir) : D[n] = "WHITE"
  <2>1. "WHITE" \in Screen!Colors
    BY DEF Screen!Colors
  <2>2. D \in [1 .. Len(dir) -> Screen!Colors]
    BY <1>5, <2>1
  <2>3. D \in Seq(Screen!Colors)
    BY <1>4, <2>2, SeqDef
  <2> QED
    BY <1>4, <1>5, <2>2, <2>3
<1>9. /\ C[1] = "CYAN" /\ \A n \in 1 .. Len(dir) : C[1 + n] = "WHITE"
      /\ C[Len(dir) + 2] = "CYAN" /\ C[Len(dir) + 3] = "YELLOW"
  BY <1>5, <1>6, <1>7, <1>8, Framed
<1>10. Screen!PromptText(dir) = s /\ Screen!PromptColors(dir) = C
  BY <1>1, <1>5 DEF Screen!PromptText, Screen!PromptColors
<1> QED
  BY <1>4, <1>9, <1>10 DEF PromptCell

(* A prompt on a screen that is blank behind the cursor: each of its parts *)
(* follows a colour.                                                       *)
LEMMA PromptPrinted ==
  ASSUME NEW v \in ScreenType, TwoBehind(v), NEW dir \in TwoScreen.dirs, NEW t,
         \A n \in 1 .. Len(dir) + 3 : t[n] = PromptCell(dir, n),
         NEW w, w = Screen!printPrompt(v, dir)
  PROVE  TwoScreened(w, t, Len(dir) + 3) /\ w.current_color = "GREY"
<1>1. PICK m : m = Len(dir)
  OBVIOUS
<1>2. /\ dir \in Seq(Glyphs) /\ m \in Nat /\ m + 3 <= TwoSize - TwoScreen.width
      /\ \A n \in 1 .. m : dir[n] \notin Controls
  <2>1. TwoScreen.length \in Nat /\ TwoScreen.width \in Nat /\ TwoSize \in Nat
    BY TwoConstants
  <2>2. /\ dir \in Seq(Glyphs) /\ m \in Nat /\ \A n \in 1 .. m : dir[n] \notin Controls
        /\ m + 3 + TwoScreen.length <= TwoSize - TwoScreen.width
    BY <1>1, ScreenTexts
  <2> QED
    BY <2>1, <2>2
<1>3. /\ t[1] = <<"[", "CYAN">> /\ \A n \in 1 .. m : t[1 + n] = <<dir[n], "WHITE">>
      /\ t[m + 2] = <<"]", "CYAN">> /\ t[m + 3] = <<"$", "YELLOW">>
  <2>1. \A n \in 1 .. m + 3 : t[n] = PromptCell(dir, n)
    BY <1>1
  <2>2. /\ 1 \in 1 .. m + 3 /\ m + 2 \in 1 .. m + 3 /\ m + 3 \in 1 .. m + 3
        /\ \A n \in 1 .. m : 1 + n \in 1 .. m + 3
    BY <1>2
  <2>3. /\ PromptCell(dir, 1) = <<"[", "CYAN">>
        /\ \A n \in 1 .. m : PromptCell(dir, 1 + n) = <<dir[n], "WHITE">>
        /\ PromptCell(dir, m + 2) = <<"]", "CYAN">> /\ PromptCell(dir, m + 3) = <<"$", "YELLOW">>
    BY <1>1, <1>2, PromptCells
  <2> QED
    BY <2>1, <2>2, <2>3
<1>4. PICK a, b, c : a = <<"[">> /\ b = <<"]">> /\ c = <<"$">>
  OBVIOUS
<1>5. /\ a \in Seq(Glyphs) /\ b \in Seq(Glyphs) /\ c \in Seq(Glyphs)
      /\ Len(a) = 1 /\ Len(b) = 1 /\ Len(c) = 1
      /\ a[1] = "[" /\ b[1] = "]" /\ c[1] = "$"
  <2>1. "[" \in Glyphs /\ "]" \in Glyphs /\ "$" \in Glyphs
    BY DEF Glyphs
  <2> QED
    BY <1>4, <2>1
<1>6. a[1] \notin Controls /\ b[1] \notin Controls /\ c[1] \notin Controls
  BY <1>5 DEF Controls
<1>7. {"CYAN", "WHITE", "YELLOW", "GREY"} \subseteq Screen!Colors
  BY DEF Screen!Colors
<1>8. PICK v0, v1, v2, v3, v4, v5, v6, v7 :
        /\ v0 = Screen!setColor(v, "CYAN") /\ v1 = Screen!puts(v0, a)
        /\ v2 = Screen!setColor(v1, "WHITE") /\ v3 = Screen!puts(v2, dir)
        /\ v4 = Screen!setColor(v3, "CYAN") /\ v5 = Screen!puts(v4, b)
        /\ v6 = Screen!setColor(v5, "YELLOW") /\ v7 = Screen!puts(v6, c)
  OBVIOUS
<1>9. w = Screen!setColor(v7, "GREY")
  BY <1>4, <1>8, Zenon DEF Screen!printPrompt
<1>10. TwoScreened(v0, t, 0) /\ v0.current_color = "CYAN"
  <2>1. v0 \in ScreenType /\ TwoBehind(v0) /\ v0.current_color = "CYAN"
    BY <1>7, <1>8, ColorSet
  <2>2. TwoPos(v0) \in Nat /\ 0 <= TwoPos(v0)
    BY <2>1, TwoPosRange
  <2> QED
    BY <2>1, <2>2 DEF TwoScreened, Shows
<1>11. TwoScreened(v1, t, 1) /\ v1.current_color = "CYAN"
  <2>1. 0 + Len(a) = 1 /\ 0 \in Nat /\ 0 + Len(a) <= TwoSize - TwoScreen.width
    BY <1>2, <1>5, TwoConstants
  <2>2. \A n \in 1 .. Len(a) : a[n] \notin Controls /\ t[0 + n] = <<a[n], "CYAN">>
    BY <1>3, <1>5, <1>6
  <2>3. PICK M, g : M = 0 /\ g = "CYAN"
    OBVIOUS
  <2>4. /\ a \in Seq(Glyphs) /\ M \in Nat /\ TwoScreened(v0, t, M) /\ g = v0.current_color
        /\ M + Len(a) <= TwoSize - TwoScreen.width
        /\ \A n \in 1 .. Len(a) : a[n] \notin Controls /\ t[M + n] = <<a[n], g>>
    BY <1>5, <1>10, <2>1, <2>2, <2>3
  <2>5. TwoScreened(v1, t, M + Len(a)) /\ v1.current_color = g
    BY <1>8, <2>4, PutsShows
  <2> QED
    BY <2>1, <2>3, <2>5
<1>12. TwoScreened(v2, t, 1) /\ v2.current_color = "WHITE"
  <2>1. v1 \in ScreenType
    BY <1>11 DEF TwoScreened
  <2> QED
    BY <1>7, <1>8, <1>11, <2>1, ColorSet
<1>13. TwoScreened(v3, t, m + 1) /\ v3.current_color = "WHITE"
  <2>1. 1 + Len(dir) = m + 1 /\ 1 \in Nat /\ 1 + Len(dir) <= TwoSize - TwoScreen.width
    BY <1>1, <1>2, TwoConstants
  <2>2. \A n \in 1 .. Len(dir) : dir[n] \notin Controls /\ t[1 + n] = <<dir[n], "WHITE">>
    BY <1>1, <1>2, <1>3
  <2>3. TwoScreened(v3, t, 1 + Len(dir)) /\ v3.current_color = "WHITE"
    BY <1>2, <1>8, <1>12, <2>1, <2>2, PutsShows
  <2> QED
    BY <2>1, <2>3
<1>14. TwoScreened(v4, t, m + 1) /\ v4.current_color = "CYAN"
  <2>1. v3 \in ScreenType
    BY <1>13 DEF TwoScreened
  <2> QED
    BY <1>7, <1>8, <1>13, <2>1, ColorSet
<1>15. TwoScreened(v5, t, m + 2) /\ v5.current_color = "CYAN"
  <2>1. (m + 1) + Len(b) = m + 2 /\ m + 1 \in Nat /\ (m + 1) + Len(b) <= TwoSize - TwoScreen.width
    BY <1>2, <1>5, TwoConstants
  <2>2. \A n \in 1 .. Len(b) : b[n] \notin Controls /\ t[(m + 1) + n] = <<b[n], "CYAN">>
    <3>1. (m + 1) + 1 = m + 2
      BY <1>2
    <3> QED
      BY <1>3, <1>5, <1>6, <3>1
  <2>3. PICK M, g : M = m + 1 /\ g = "CYAN"
    OBVIOUS
  <2>4. /\ b \in Seq(Glyphs) /\ M \in Nat /\ TwoScreened(v4, t, M) /\ g = v4.current_color
        /\ M + Len(b) <= TwoSize - TwoScreen.width
        /\ \A n \in 1 .. Len(b) : b[n] \notin Controls /\ t[M + n] = <<b[n], g>>
    BY <1>5, <1>14, <2>1, <2>2, <2>3
  <2>5. TwoScreened(v5, t, M + Len(b)) /\ v5.current_color = g
    BY <1>8, <2>4, PutsShows
  <2> QED
    BY <2>1, <2>3, <2>5
<1>16. TwoScreened(v6, t, m + 2) /\ v6.current_color = "YELLOW"
  <2>1. v5 \in ScreenType
    BY <1>15 DEF TwoScreened
  <2> QED
    BY <1>7, <1>8, <1>15, <2>1, ColorSet
<1>17. TwoScreened(v7, t, m + 3)
  <2>1. (m + 2) + Len(c) = m + 3 /\ m + 2 \in Nat /\ (m + 2) + Len(c) <= TwoSize - TwoScreen.width
    BY <1>2, <1>5, TwoConstants
  <2>2. \A n \in 1 .. Len(c) : c[n] \notin Controls /\ t[(m + 2) + n] = <<c[n], "YELLOW">>
    <3>1. (m + 2) + 1 = m + 3
      BY <1>2
    <3> QED
      BY <1>3, <1>5, <1>6, <3>1
  <2>3. PICK M, g : M = m + 2 /\ g = "YELLOW"
    OBVIOUS
  <2>4. /\ c \in Seq(Glyphs) /\ M \in Nat /\ TwoScreened(v6, t, M) /\ g = v6.current_color
        /\ M + Len(c) <= TwoSize - TwoScreen.width
        /\ \A n \in 1 .. Len(c) : c[n] \notin Controls /\ t[M + n] = <<c[n], g>>
    BY <1>5, <1>16, <2>1, <2>2, <2>3
  <2>5. TwoScreened(v7, t, M + Len(c)) /\ v7.current_color = g
    BY <1>8, <2>4, PutsShows
  <2> QED
    BY <2>1, <2>3, <2>5
<1>18. v7 \in ScreenType
  BY <1>17 DEF TwoScreened
<1>19. /\ w.current_color = "GREY"
       /\ \A u, L : TwoScreened(v7, u, L) => TwoScreened(w, u, L)
  <2>1. "GREY" \in Screen!Colors
    BY <1>7
  <2> QED
    BY <1>9, <1>18, <2>1, ColorSet
<1> QED
  BY <1>1, <1>17, <1>19

-----------------------------------------------------------------------------
(* The prompt and the line, as the screen should show them. *)
ShownLine(dir, l) ==
  [n \in 1 .. Len(Screen!PromptText(dir)) |-> PromptCell(dir, n)]
    \o [n \in 1 .. Len(l) |-> <<l[n], "GREY">>]

LEMMA ShownIs ==
  /\ Screen!Shown = ShownLine(two_dir, two_line)
  /\ Screen!Shown' = ShownLine(two_dir', two_line')
BY DEF Screen!Shown, ShownLine, PromptCell

LEMMA ShownCells ==
  ASSUME NEW dir \in TwoScreen.dirs, NEW l \in Seq(TwoScreen.chars),
         NEW s, s = ShownLine(dir, l)
  PROVE  /\ Len(dir) \in Nat /\ Len(l) \in Nat /\ Len(s) = Len(dir) + 3 + Len(l)
         /\ \A n \in 1 .. Len(dir) + 3 : s[n] = PromptCell(dir, n)
         /\ \A n \in 1 .. Len(l) : s[Len(dir) + 3 + n] = <<l[n], "GREY">>
<1> DEFINE S == UNION {{PromptCell(dir, n) : n \in 1 .. Len(dir) + 3},
                       {<<l[n], "GREY">> : n \in 1 .. Len(l)}}
<1>1. dir \in Seq(Glyphs) /\ Len(dir) \in Nat /\ Len(Screen!PromptText(dir)) = Len(dir) + 3
  BY ScreenTexts, PromptCells
<1>2. Len(l) \in Nat
  OBVIOUS
<1>3. PICK m, a, b : /\ m = Len(dir) + 3 /\ a = [n \in 1 .. m |-> PromptCell(dir, n)]
                     /\ b = [n \in 1 .. Len(l) |-> <<l[n], "GREY">>]
  OBVIOUS
<1>4. s = a \o b /\ m \in Nat
  BY <1>1, <1>3 DEF ShownLine
<1>5. a \in [1 .. m -> S] /\ b \in [1 .. Len(l) -> S]
  BY <1>3
<1> HIDE DEF S
<1>6. a \in Seq(S) /\ b \in Seq(S) /\ Len(a) = m /\ Len(b) = Len(l)
  <2>1. a \in Seq(S) /\ b \in Seq(S)
    BY <1>2, <1>4, <1>5, SeqDef
  <2> QED
    BY <1>2, <1>4, <1>5, <2>1
<1>7. /\ Len(a \o b) = Len(a) + Len(b)
      /\ \A n \in 1 .. Len(a) + Len(b) : (a \o b)[n] = IF n <= Len(a) THEN a[n] ELSE b[n - Len(a)]
  BY <1>6, ConcatProperties
<1>8. /\ Len(s) = m + Len(l)
      /\ \A n \in 1 .. m + Len(l) : s[n] = IF n <= m THEN a[n] ELSE b[n - m]
  BY <1>4, <1>6, <1>7, Zenon
<1>9. \A n \in 1 .. m : s[n] = PromptCell(dir, n)
  BY <1>2, <1>3, <1>4, <1>8
<1>10. ASSUME NEW n \in 1 .. Len(l) PROVE s[m + n] = <<l[n], "GREY">>
  <2>1. PICK j : j = m + n
    OBVIOUS
  <2>2. j \in 1 .. m + Len(l) /\ ~(j <= m) /\ j - m = n
    BY <1>2, <1>4, <2>1
  <2>3. s[j] = b[j - m]
    BY <1>8, <2>2
  <2> QED
    BY <1>3, <2>1, <2>2, <2>3
<1> QED
  BY <1>1, <1>2, <1>3, <1>8, <1>9, <1>10

(* What is on the screen while readLine edits a line: all of it, for a     *)
(* prompt and the longest line do not reach the first row.                 *)
ScreenInv ==
  /\ two_line \in Seq(TwoScreen.chars) /\ Len(two_line) <= TwoScreen.length - 1
  /\ two_dir \in TwoScreen.dirs /\ two_vga.current_color = "GREY"
  /\ TwoScreened(two_vga, Screen!Shown, Len(Screen!Shown))

LEMMA PromptFresh ==
  ASSUME NEW v \in ScreenType, TwoBehind(v), NEW dir \in TwoScreen.dirs,
         NEW l \in Seq(TwoScreen.chars), Len(l) = 0,
         NEW w, w = Screen!printPrompt(v, dir), NEW s, s = ShownLine(dir, l)
  PROVE  /\ Len(l) <= TwoScreen.length - 1
         /\ w.current_color = "GREY" /\ TwoScreened(w, s, Len(s))
<1>1. 0 <= TwoScreen.length - 1
  BY TwoConstants
<1>2. Len(s) = Len(dir) + 3 /\ \A n \in 1 .. Len(dir) + 3 : s[n] = PromptCell(dir, n)
  <2>1. /\ Len(dir) \in Nat /\ Len(s) = Len(dir) + 3 + Len(l)
        /\ \A n \in 1 .. Len(dir) + 3 : s[n] = PromptCell(dir, n)
    BY ShownCells
  <2> QED
    BY <2>1
<1>3. TwoScreened(w, s, Len(dir) + 3) /\ w.current_color = "GREY"
  BY <1>2, PromptPrinted
<1> QED
  BY <1>1, <1>2, <1>3

LEMMA NoLine ==
  ASSUME NEW l, l = <<>>
  PROVE  l \in Seq(TwoScreen.chars) /\ Len(l) = 0
OBVIOUS

LEMMA ScreenInit ==
  ASSUME Screen!Init
  PROVE  ScreenInv
<1>1. PICK dir \in TwoScreen.dirs, o \in TwoScreen.outputs :
        two_dir = dir /\ two_vga = Screen!printPrompt(Screen!puts(Screen!Cleared, o), dir)
  BY DEF Screen!Init
<1>2. two_line = <<>>
  BY DEF Screen!Init
<1>3. PICK u, v : u = Screen!Cleared /\ v = Screen!puts(u, o)
  OBVIOUS
<1>4. u \in ScreenType /\ TwoBehind(u)
  <2>1. PICK b, x, g : b = <<>> /\ x = 0 /\ g = "GREY"
    OBVIOUS
  <2>2. g \in Screen!Colors
    BY <2>1 DEF Screen!Colors
  <2>3. u = Screen!clear(Shot(b, x, x, g))
    BY <1>3, <2>1, Zenon DEF Screen!Cleared, Shot
  <2> QED
    BY <2>2, <2>3, ScreenCleared
<1>5. v \in ScreenType /\ TwoBehind(v)
  BY <1>3, <1>4, ScreenTexts, PutsLines
<1>6. two_vga = Screen!printPrompt(v, dir) /\ Screen!Shown = ShownLine(dir, two_line)
  BY <1>1, <1>3, ShownIs
<1> QED
  BY <1>1, <1>2, <1>5, <1>6, NoLine, PromptFresh DEF ScreenInv

LEMMA ScreenKey ==
  ASSUME ScreenInv, NEW c \in TwoScreen.chars, Screen!Key(c)
  PROVE  ScreenInv'
<1>1. /\ Len(two_line) < TwoScreen.length - 1 /\ two_line' = Append(two_line, c)
      /\ two_vga' = Screen!putchar(two_vga, c) /\ two_dir' = two_dir
  BY DEF Screen!Key
<1>2. PICK d, l, m, s, t, L : /\ d = two_dir /\ l = two_line /\ m = two_line'
                              /\ s = ShownLine(d, l) /\ t = ShownLine(d, m) /\ L = Len(s)
  OBVIOUS
<1>3. /\ d \in TwoScreen.dirs /\ l \in Seq(TwoScreen.chars) /\ two_vga.current_color = "GREY"
      /\ TwoScreened(two_vga, s, L)
  BY <1>2, ShownIs DEF ScreenInv
<1>4. m = Append(l, c)
  BY <1>1, <1>2
<1>5. /\ m \in Seq(TwoScreen.chars) /\ Len(m) = Len(l) + 1 /\ m[Len(l) + 1] = c
      /\ \A n \in 1 .. Len(l) : m[n] = l[n]
  BY <1>3, <1>4
<1>6. PICK e : e = Len(d) + 3
  OBVIOUS
<1>7. /\ e \in Nat /\ Len(l) \in Nat /\ L = e + Len(l)
      /\ \A n \in 1 .. e : s[n] = PromptCell(d, n)
      /\ \A n \in 1 .. Len(l) : s[e + n] = <<l[n], "GREY">>
  BY <1>2, <1>3, <1>6, ShownCells
<1>8. /\ Len(t) = e + Len(m)
      /\ \A n \in 1 .. e : t[n] = PromptCell(d, n)
      /\ \A n \in 1 .. Len(m) : t[e + n] = <<m[n], "GREY">>
  BY <1>2, <1>3, <1>5, <1>6, ShownCells
<1>9. Len(t) = L + 1 /\ t[L + 1] = <<c, "GREY">>
  <2>1. PICK j : j = Len(l) + 1
    OBVIOUS
  <2>2. j \in 1 .. Len(m) /\ e + j = L + 1 /\ m[j] = c
    BY <1>5, <1>7, <2>1
  <2> QED
    BY <1>5, <1>7, <1>8, <2>2
<1>10. ASSUME NEW n \in 1 .. L PROVE t[n] = s[n]
  <2>1. CASE n <= e
    <3>1. n \in 1 .. e
      BY <1>7, <2>1
    <3> QED
      BY <1>7, <1>8, <3>1
  <2>2. CASE ~(n <= e)
    <3>1. PICK j : j = n - e
      OBVIOUS
    <3>2. j \in 1 .. Len(l) /\ j \in 1 .. Len(m) /\ e + j = n
      BY <1>5, <1>7, <2>2, <3>1
    <3>3. t[e + j] = <<m[j], "GREY">> /\ s[e + j] = <<l[j], "GREY">> /\ m[j] = l[j]
      BY <1>5, <1>7, <1>8, <3>2
    <3> QED
      BY <3>2, <3>3
  <2> QED
    BY <2>1, <2>2
<1>11. TwoScreened(two_vga, t, L) /\ L \in Nat
  BY <1>3, <1>7, <1>10, ShowsSame DEF TwoScreened
<1>12. L + 1 <= TwoSize - TwoScreen.width /\ Len(m) <= TwoScreen.length - 1
  <2>1. PICK N, W, M : N = TwoSize /\ W = TwoScreen.width /\ M = TwoScreen.length
    OBVIOUS
  <2>2. N \in Nat /\ W \in Nat /\ M \in Nat
    BY <2>1, TwoConstants
  <2>3. Len(l) < M - 1 /\ e + M <= N - W
    BY <1>1, <1>2, <1>3, <1>6, <2>1, ScreenTexts
  <2>4. L + 1 <= N - W /\ Len(m) <= M - 1
    BY <1>5, <1>7, <2>2, <2>3
  <2> QED
    BY <2>1, <2>4
<1>13. c \in Glyphs \ Controls
  BY ScreenTexts
<1>14. TwoScreened(two_vga', t, L + 1) /\ two_vga'.current_color = "GREY"
  BY <1>1, <1>3, <1>9, <1>11, <1>12, <1>13, TwoPutShows
<1>15. Screen!Shown' = t
  BY <1>1, <1>2, ShownIs
<1> QED
  BY <1>1, <1>2, <1>3, <1>5, <1>9, <1>12, <1>14, <1>15 DEF ScreenInv

LEMMA ScreenBackspace ==
  ASSUME ScreenInv, Screen!Backspace
  PROVE  ScreenInv'
<1>1. /\ two_line # <<>> /\ two_line' = SubSeq(two_line, 1, Len(two_line) - 1)
      /\ two_vga' = Screen!putchar(two_vga, "BS") /\ two_dir' = two_dir
  BY DEF Screen!Backspace
<1>2. PICK d, l, m, s, t, L, v, w, p, N :
        /\ d = two_dir /\ l = two_line /\ m = two_line' /\ v = two_vga /\ w = two_vga'
        /\ s = ShownLine(d, l) /\ t = ShownLine(d, m) /\ L = Len(s) /\ p = TwoPos(v) /\ N = TwoSize
  OBVIOUS
<1>3. /\ d \in TwoScreen.dirs /\ l \in Seq(TwoScreen.chars) /\ v.current_color = "GREY"
      /\ Len(l) <= TwoScreen.length - 1 /\ TwoScreened(v, s, L)
  BY <1>2, ShownIs DEF ScreenInv
<1>4. l # <<>> /\ m = SubSeq(l, 1, Len(l) - 1)
  BY <1>1, <1>2
<1>5. /\ m \in Seq(TwoScreen.chars) /\ Len(l) \in Nat /\ Len(l) > 0 /\ Len(m) = Len(l) - 1
      /\ \A n \in 1 .. Len(l) - 1 : m[n] = l[n]
  BY <1>3, <1>4, Front
<1>6. PICK e : e = Len(d) + 3
  OBVIOUS
<1>7. /\ e \in Nat /\ L = e + Len(l)
      /\ \A n \in 1 .. e : s[n] = PromptCell(d, n)
      /\ \A n \in 1 .. Len(l) : s[e + n] = <<l[n], "GREY">>
  BY <1>2, <1>3, <1>6, ShownCells
<1>8. /\ Len(t) = e + Len(m)
      /\ \A n \in 1 .. e : t[n] = PromptCell(d, n)
      /\ \A n \in 1 .. Len(m) : t[e + n] = <<m[n], "GREY">>
  <2>1. m \in Seq(TwoScreen.chars)
    BY <1>5
  <2>2. t = ShownLine(d, m) /\ d \in TwoScreen.dirs
    BY <1>2, <1>3
  <2> QED
    BY <1>6, <2>1, <2>2, ShownCells
<1>9. L \in Nat /\ L > 0 /\ Len(t) = L - 1
  BY <1>5, <1>7, <1>8
<1>10. ASSUME NEW n \in 1 .. L - 1 PROVE t[n] = s[n]
  <2>1. CASE n <= e
    <3>1. n \in 1 .. e
      BY <1>7, <1>9, <2>1
    <3> QED
      BY <1>7, <1>8, <3>1
  <2>2. CASE ~(n <= e)
    <3>1. PICK j : j = n - e
      OBVIOUS
    <3>2. j \in 1 .. Len(l) - 1 /\ j \in 1 .. Len(l) /\ j \in 1 .. Len(m) /\ e + j = n
      BY <1>5, <1>7, <1>9, <2>2, <3>1
    <3>3. t[e + j] = <<m[j], "GREY">> /\ s[e + j] = <<l[j], "GREY">> /\ m[j] = l[j]
      BY <1>5, <1>7, <1>8, <3>2
    <3> QED
      BY <3>2, <3>3
  <2> QED
    BY <2>1, <2>2
<1>11. /\ v \in ScreenType /\ Clear(N, v.video_memory, p, Dark) /\ L <= p
       /\ Shows(v.video_memory, p, s, L)
  BY <1>2, <1>3 DEF TwoScreened, TwoBehind
<1>12. p \in 0 .. N - 1 /\ N \in Nat
  BY <1>2, <1>11, TwoPosRange, TwoConstants
<1>13. /\ w \in ScreenType /\ w.current_color = "GREY" /\ p \in 1 .. N - 1 /\ TwoPos(w) = p - 1
       /\ Set(N, v.video_memory, p - 1, <<" ", "GREY">>, w.video_memory)
  <2>1. TwoPos(v) # 0 /\ w = Screen!putchar(v, "BS")
    BY <1>1, <1>2, <1>9, <1>11, <1>12
  <2> QED
    BY <1>2, <1>3, <1>11, <2>1, TwoPutBS
<1>14. PICK x : x = <<" ", "GREY">>
  OBVIOUS
<1>15. x \in Dark
  BY <1>14 DEF Dark, Screen!Colors
<1>16. Clear(N, w.video_memory, p - 1, Dark)
  BY <1>11, <1>12, <1>13, <1>14, <1>15, DeletedClear
<1>17. Shows(w.video_memory, p - 1, t, L - 1)
  BY <1>9, <1>10, <1>11, <1>12, <1>13, <1>14, DeletedShows, ShowsSame
<1>18. L - 1 \in Nat /\ L - 1 <= p - 1
  BY <1>9, <1>11, <1>12
<1>19. TwoScreened(w, t, L - 1)
  BY <1>2, <1>13, <1>16, <1>17, <1>18 DEF TwoScreened, TwoBehind
<1>20. Screen!Shown' = t
  BY <1>1, <1>2, ShownIs
<1>21. Len(m) <= TwoScreen.length - 1
  BY <1>3, <1>5, TwoConstants
<1> QED
  BY <1>1, <1>2, <1>3, <1>5, <1>9, <1>13, <1>19, <1>20, <1>21 DEF ScreenInv

LEMMA ScreenEnter ==
  ASSUME ScreenInv, NEW o \in TwoScreen.outputs, NEW g \in Screen!Colors, NEW dir \in TwoScreen.dirs,
         Screen!Enter(o, g, dir)
  PROVE  ScreenInv'
<1>1. PICK v, u, x, y : /\ v = two_vga /\ u = Screen!putchar(v, "LF")
                        /\ x = Screen!setColor(u, g) /\ y = Screen!puts(x, o)
  OBVIOUS
<1>2. two_vga' = Screen!printPrompt(y, dir) /\ two_dir' = dir /\ two_line' = <<>>
  BY <1>1 DEF Screen!Enter
<1>3. v \in ScreenType /\ TwoBelow(v)
  BY <1>1, TwoBehindBelow DEF ScreenInv, TwoScreened
<1>4. u \in ScreenType /\ TwoBehind(u)
  BY <1>1, <1>3, TwoPutLF
<1>5. x \in ScreenType /\ TwoBehind(x)
  BY <1>1, <1>4, ColorSet
<1>6. y \in ScreenType /\ TwoBehind(y)
  BY <1>1, <1>5, ScreenTexts, PutsLines
<1>7. Screen!Shown' = ShownLine(dir, two_line')
  BY <1>2, ShownIs
<1> QED
  BY <1>2, <1>6, <1>7, NoLine, PromptFresh DEF ScreenInv

LEMMA ScreenCls ==
  ASSUME ScreenInv, Screen!cmd_cls
  PROVE  ScreenInv'
<1>1. PICK v, u, x : v = two_vga /\ u = Screen!putchar(v, "LF") /\ x = Screen!clear(u)
  OBVIOUS
<1>2. two_vga' = Screen!printPrompt(x, two_dir) /\ two_dir' = two_dir /\ two_line' = <<>>
  BY <1>1 DEF Screen!cmd_cls
<1>3. v \in ScreenType
  BY <1>1 DEF ScreenInv, TwoScreened
<1>4. u \in ScreenType
  BY <1>1, <1>3, TwoPutLF
<1>5. x \in ScreenType /\ TwoBehind(x)
  <2>1. u = Shot(u.video_memory, u.cursor_y, u.cursor_x, u.current_color)
        /\ u.current_color \in Screen!Colors
    BY <1>4, TwoShot DEF ScreenType
  <2> QED
    BY <1>1, <2>1, ScreenCleared
<1>6. Screen!Shown' = ShownLine(two_dir, two_line') /\ two_dir \in TwoScreen.dirs
  BY <1>2, ShownIs DEF ScreenInv
<1> QED
  BY <1>2, <1>5, <1>6, NoLine, PromptFresh DEF ScreenInv

LEMMA ScreenNext ==
  ASSUME ScreenInv, Screen!Next
  PROVE  ScreenInv'
<1>1. {"GREY", "GREEN"} \subseteq Screen!Colors
  BY DEF Screen!Colors
<1> QED
  BY <1>1, ScreenKey, ScreenBackspace, ScreenEnter, ScreenCls DEF Screen!Next

LEMMA ScreenEcho ==
  ASSUME ScreenInv
  PROVE  Screen!EchoMatches
<1>1. PICK v, p, s, L, N : /\ v = two_vga /\ p = TwoPos(v) /\ s = Screen!Shown /\ L = Len(s)
                           /\ N = TwoSize
  OBVIOUS
<1>2. /\ v \in ScreenType /\ Clear(N, v.video_memory, p, Dark) /\ L \in Nat /\ L <= p
      /\ Shows(v.video_memory, p, s, L)
  BY <1>1 DEF ScreenInv, TwoScreened, TwoBehind
<1>3. p \in 0 .. N - 1 /\ Screen!Cells = 0 .. N - 1 /\ Screen!Pos(v) = p
  BY <1>1, <1>2, TwoPosRange, TwoConstants DEF Screen!Pos, TwoPos
<1>4. \A i \in Screen!Cells : i >= p => v.video_memory[i][1] = " "
  <2>1. ASSUME NEW x \in Dark PROVE x[1] = " "
    <3>1. PICK c : x = <<" ", c>>
      BY DEF Dark
    <3> QED
      BY <3>1
  <2> QED
    BY <1>2, <1>3, <2>1 DEF Clear
<1>5. ASSUME NEW i \in 0 .. L - 1 PROVE v.video_memory[p - 1 - i] = s[L - i]
  <2>1. PICK n : n = L - i
    OBVIOUS
  <2>2. n \in 1 .. L /\ p - L + n - 1 = p - 1 - i /\ p - L + n - 1 >= 0
    BY <1>2, <1>3, <2>1
  <2> QED
    BY <1>2, <2>1, <2>2 DEF Shows
<1> QED
  BY <1>1, <1>3, <1>4, <1>5 DEF Screen!EchoMatches

(* A step of another component. *)
LEMMA EditorSame ==
  ASSUME NEW k \in DOMAIN Terminals, EditorInv(k), UNCHANGED path
  PROVE  EditorInv(k)'
<1>1. queue' = queue /\ line' = line /\ vga' = vga /\ stuck' = stuck
  BY DEF path
<1>2. Path(k)!Events' = Path(k)!Events /\ Path(k)!Console!Shown' = Path(k)!Console!Shown
  BY <1>1 DEF Path!Events, Path!Console!Shown
<1> QED
  BY <1>1, <1>2 DEF EditorInv, LineShown

LEMMA ScreenSame ==
  ASSUME ScreenInv, UNCHANGED screen
  PROVE  ScreenInv'
<1>1. two_line' = two_line /\ two_dir' = two_dir /\ two_vga' = two_vga
  BY DEF screen
<1>2. Screen!Shown' = Screen!Shown
  BY <1>1, ShownIs
<1> QED
  BY <1>1, <1>2 DEF ScreenInv

-----------------------------------------------------------------------------
(* EchoMatches: on both screens, whatever the sizes of the screens, the    *)
(* prompts, the lines and the outputs, the prompt and the line that Enter  *)
(* will run stand right before the cursor, and nothing behind it.          *)
THEOREM EchoesMatch == MCSpec => []EchoMatches
<1> DEFINE Inv == /\ \A k \in DOMAIN Terminals : active = k => EditorInv(k)
                  /\ active = "screen" => ScreenInv
<1>1. MCInit => Inv
  <2> SUFFICES ASSUME MCInit PROVE Inv
    OBVIOUS
  <2>1. ASSUME NEW k \in DOMAIN Terminals, active = k PROVE EditorInv(k)
    <3>1. Path(k)!Init
      BY <2>1 DEF MCInit
    <3> QED
      BY <3>1, EditorInit
  <2>2. ASSUME active = "screen" PROVE ScreenInv
    BY <2>2, ScreenInit DEF MCInit
  <2> QED
    BY <2>1, <2>2
<1>2. Inv /\ [MCNext]_allVars => Inv'
  <2> SUFFICES ASSUME Inv, [MCNext]_allVars PROVE Inv'
    OBVIOUS
  <2>1. active' = active
    BY DEF MCNext, RamFSStep, PathStep, ShellStep, ScreenStep, allVars
  <2>2. ASSUME NEW k \in DOMAIN Terminals, active = k PROVE EditorInv(k)'
    <3>1. EditorInv(k)
      BY <2>2
    <3>2. CASE Path(k)!Next
      BY <3>1, <3>2, EditorStep
    <3>3. CASE UNCHANGED path
      BY <3>1, <3>3, EditorSame
    <3> QED
      BY <2>2, <3>2, <3>3 DEF MCNext, RamFSStep, PathStep, ShellStep, ScreenStep, allVars
  <2>3. ASSUME active = "screen" PROVE ScreenInv'
    <3>1. ScreenInv
      BY <2>3
    <3>2. CASE Screen!Next
      BY <3>1, <3>2, ScreenNext
    <3>3. CASE UNCHANGED screen
      BY <3>1, <3>3, ScreenSame
    <3>4. active \notin DOMAIN Terminals
      BY <2>3, TerminalAssumption
    <3> QED
      BY <2>3, <3>2, <3>3, <3>4 DEF MCNext, RamFSStep, PathStep, ShellStep, ScreenStep, allVars
  <2> QED
    BY <2>1, <2>2, <2>3
<1>3. Inv => EchoMatches
  BY EditorEcho, ScreenEcho DEF EchoMatches
<1> QED
  BY <1>1, <1>2, <1>3, PTL DEF MCSpec
=============================================================================
