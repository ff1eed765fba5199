--------------------------- MODULE WrapperProofs ---------------------------
(***************************************************************************)
(* Proofs about the programs of OS2_Wrapper: what the LE loaders keep and  *)
(* copy, for files with any number of objects of any size; the handle      *)
(* table of the Dos file calls, for every number of handles and of         *)
(* descriptors; and what the analyzers list, for every table of names.     *)
(***************************************************************************)
EXTENDS MCWrapper, WellFoundedInduction, TLAPS

(* A mapping before and after the copy into it. *)
Blank(obj) == [u \in 0 .. AllocSize(obj) - 1 |-> Zero]
Image(obj) ==
  [u \in 0 .. AllocSize(obj) - 1 |->
     IF u < Copy(obj).size THEN Copy(obj).from + u ELSE Zero]

Datas == UNION {[0 .. n - 1 -> Int] : n \in Int}
Mappings == [prot : SUBSET Rights, data : Datas]

Copying == {"unprotect", "copy", "protect"}
Before == {"start", "open", "read"}
Ready == {"imports", "fixups", "execute"}

(* What the loader holds at each point. *)
Holds ==
  /\ pc \in {"start", "exited"} => heap = {}
  /\ pc \in {"open", "read"} => heap = {"exe"}
  /\ pc \in {"parse", "calloc"} => heap = {"exe", "file_data"}
  /\ pc = "free" => heap = Blocks \/ (heap = Blocks \ {"loaded_objects"} /\ mem = <<>>)
  /\ pc \in {"map"} \cup Copying \cup Ready => heap = Blocks

Control ==
  /\ variant \in Variants /\ unnoticed \in BOOLEAN
  /\ pc \in Before \cup Copying \cup Ready
             \cup {"parse", "calloc", "map", "free", "crashed", "gone", "exited"}
  /\ Holds /\ fd = (pc = "read")
  /\ pc \in Before => file = NoFile
  /\ pc \notin Before \cup {"exited"} => file \in Files
  /\ pc \in Before \cup {"parse", "calloc", "exited"} => mem = <<>>

(* The k-th mapping, of which the last may still be without its data. *)
Filled(k) ==
  mem[k].data = IF k = Len(mem) /\ pc \in {"unprotect", "copy"} THEN Blank(file.objects[k])
                ELSE Image(file.objects[k])
Protected(k) ==
  ~unnoticed /\ ~(k = Len(mem) /\ pc \in {"copy", "protect"})
    => mem[k].prot = Prot(file.objects[k])

Mapped ==
  pc \notin Before \cup {"exited"} =>
    /\ mem \in Seq(Mappings) /\ Len(mem) <= Len(file.objects)
    /\ pc \in Ready => Len(mem) = Len(file.objects)
    /\ \A k \in 1 .. Len(mem) : pc # "crashed" => Filled(k) /\ Protected(k)
    /\ pc \in Copying => Len(mem) > 0 /\ Copy(Object).size # 0
    /\ pc = "copy" /\ variant = "with_api" /\ ~unnoticed => "W" \in Last.prot

LoaderInv == Control /\ Mapped

-----------------------------------------------------------------------------
(* Division by a variable. *)
LEMMA Divided ==
  ASSUME NEW a \in Int, NEW m \in Nat \ {0}
  PROVE  /\ a % m \in 0 .. m - 1 /\ a \div m \in Int
         /\ a = m * (a \div m) + (a % m)
OBVIOUS

(* The sizes and the rights of an object. *)
LEMMA ObjectTypes ==
  ASSUME Control, file \in Files, NEW k \in 1 .. Len(file.objects)
  PROVE  LET obj == file.objects[k]
         IN  /\ obj \in Objects /\ AllocSize(obj) \in Int
             /\ Copy(obj).size \in Int /\ Copy(obj).from \in Int
             /\ Prot(obj) \in SUBSET Rights
<1> DEFINE obj == file.objects[k]
<1>1. obj \in Objects
  BY LELoaderAssumption
<1> HIDE DEF obj
<1>2. /\ obj.virtual_size \in Int /\ obj.page_table_index \in Int
      /\ obj.page_table_entries \in Int /\ obj.flags \in SUBSET Rights
  BY <1>1, LELoaderAssumption DEF Objects
<1>3. AllocSize(obj) \in Int
  <2>1. obj.virtual_size + Align - 1 \in Int /\ Word \in Nat \ {0} /\ Align \in Nat \ {0}
    BY <1>2, LELoaderAssumption
  <2>2. (obj.virtual_size + Align - 1) % Word \in Int
    BY <2>1, Divided
  <2>3. ((obj.virtual_size + Align - 1) % Word) \div Align \in Int
    BY <2>1, <2>2, Divided
  <2> QED
    BY <2>1, <2>3 DEF AllocSize
<1>4. PageOffset(obj) \in Int /\ file.size \in Int
  BY <1>2, LELoaderAssumption DEF PageOffset
<1>5. Copy(obj).size \in Int /\ Copy(obj).from \in Int
  <2>1. CASE variant = "with_api"
    <3> DEFINE offset == (DataOffset + PageOffset(obj)) % Word
    <3>1. offset \in Int
      <4>1. DataOffset + PageOffset(obj) \in Int /\ Word \in Nat \ {0}
        BY <1>4, LELoaderAssumption
      <4> QED
        BY <4>1, Divided
    <3> HIDE DEF offset
    <3>2. \/ Copy(obj) = [size |-> 0, from |-> 0]
          \/ Copy(obj) = [size |-> obj.virtual_size, from |-> offset]
          \/ Copy(obj) = [size |-> file.size - offset, from |-> offset]
      BY <2>1 DEF Copy, CopyWithApi, offset
    <3> QED
      BY <1>2, <1>4, <3>1, <3>2
  <2>2. CASE variant # "with_api"
    <3> DEFINE pages == (obj.page_table_entries * PageSize) % Word
    <3>1. pages \in Int
      <4> DEFINE n == obj.page_table_entries * PageSize
      <4>1. n \in Int /\ Word \in Nat \ {0}
        BY <1>2, LELoaderAssumption
      <4> HIDE DEF n
      <4>2. n % Word \in Int
        BY <4>1, Divided
      <4> QED
        BY <4>2 DEF n
    <3> HIDE DEF pages
    <3>2. \/ Copy(obj) = [size |-> 0, from |-> DataOffset + PageOffset(obj)]
          \/ Copy(obj) = [size |-> obj.virtual_size, from |-> DataOffset + PageOffset(obj)]
          \/ Copy(obj) = [size |-> pages, from |-> DataOffset + PageOffset(obj)]
      BY <2>2 DEF Copy, CopyLoader, pages
    <3> QED
      BY <1>2, <1>4, <3>1, <3>2, LELoaderAssumption
  <2> QED
    BY <2>1, <2>2
<1>6. Prot(obj) \in SUBSET Rights
  BY <1>2 DEF Prot, ProtWithApi, ProtLoader, Rights
<1> QED
  BY <1>1, <1>3, <1>5, <1>6 DEF obj

(* Blank mappings and images are data. *)
LEMMA DataTypes ==
  ASSUME Control, file \in Files, NEW k \in 1 .. Len(file.objects)
  PROVE  Blank(file.objects[k]) \in Datas /\ Image(file.objects[k]) \in Datas
<1> DEFINE obj == file.objects[k]
<1>1. AllocSize(obj) \in Int /\ Copy(obj).size \in Int /\ Copy(obj).from \in Int
  BY ObjectTypes
<1> HIDE DEF obj
<1>2. Blank(obj) \in [0 .. AllocSize(obj) - 1 -> Int]
  BY <1>1 DEF Blank, Zero
<1>3. Image(obj) \in [0 .. AllocSize(obj) - 1 -> Int]
  BY <1>1 DEF Image, Zero
<1> QED
  BY <1>1, <1>2, <1>3 DEF Datas, obj

LEMMA Updated ==
  ASSUME NEW r \in Mappings
  PROVE  /\ \A p : [r EXCEPT !.prot = p] = [prot |-> p, data |-> r.data]
         /\ \A d : [r EXCEPT !.data = d] = [prot |-> r.prot, data |-> d]
BY DEF Mappings

(* What the loader makes of an object does not change while it runs. *)
LEMMA Same ==
  ASSUME UNCHANGED <<variant, file>>
  PROVE  \A obj : Copy(obj)' = Copy(obj) /\ Prot(obj)' = Prot(obj) /\ Image(obj)' = Image(obj)
<1>1. ASSUME NEW obj PROVE Copy(obj)' = Copy(obj)
  BY DEF Copy, CopyWithApi, CopyLoader
<1>2. ASSUME NEW obj PROVE Prot(obj)' = Prot(obj)
  BY DEF Prot, ProtWithApi, ProtLoader
<1>3. ASSUME NEW obj PROVE Image(obj)' = Image(obj)
  BY <1>1 DEF Image
<1> QED
  BY <1>1, <1>2, <1>3

(* A step that maps and copies nothing. *)
LEMMA Passes ==
  ASSUME Mapped, UNCHANGED <<variant, file, mem, unnoticed>>,
         pc \notin Before \cup Copying \cup {"exited", "crashed"}, pc' \notin Copying,
         pc' \in Ready => Len(mem) = Len(file.objects)
  PROVE  Mapped'
<1>1. /\ mem \in Seq(Mappings) /\ Len(mem) <= Len(file.objects)
      /\ \A k \in 1 .. Len(mem) : Filled(k) /\ Protected(k)
  BY DEF Mapped
<1>2. ASSUME NEW k \in 1 .. Len(mem) PROVE Filled(k)' /\ Protected(k)'
  BY <1>1, Same DEF Filled, Protected, Copying
<1> QED
  BY <1>1, <1>2 DEF Mapped, Copying, Before

LEMMA InitHolds ==
  Init => LoaderInv
BY DEF Init, LoaderInv, Control, Holds, Mapped, Before, Copying, Ready

-----------------------------------------------------------------------------
(* Each step of the loader keeps what it holds, at every failure. *)
LEMMA ControlStep ==
  LoaderInv /\ [Next]_vars => Control'
<1> SUFFICES ASSUME LoaderInv, [Next]_vars PROVE Control'
  OBVIOUS
<1> USE DEF LoaderInv, Control, Holds, Before, Copying, Ready, Blocks
<1>1. CASE CallocExe
  BY <1>1 DEF CallocExe
<1>2. CASE OpenFile
  BY <1>2 DEF OpenFile
<1>3. CASE ReadFile
  BY <1>3 DEF ReadFile
<1>4. CASE parse_le_exe
  BY <1>4 DEF parse_le_exe
<1>5. CASE CallocObjects
  BY <1>5 DEF CallocObjects
<1>6. CASE MmapFails
  BY <1>6 DEF MmapFails
<1>7. CASE MmapObject
  BY <1>7 DEF MmapObject
<1>8. CASE Unprotect
  BY <1>8 DEF Unprotect
<1>9. CASE Memcpy
  BY <1>9 DEF Memcpy
<1>10. CASE Protect
  BY <1>10 DEF Protect
<1>11. CASE EntryPoint
  BY <1>11 DEF EntryPoint
<1>12. CASE process_imports
  BY <1>12 DEF process_imports
<1>13. CASE apply_fixups
  BY <1>13 DEF apply_fixups
<1>14. CASE execute_os2_program
  BY <1>14 DEF execute_os2_program
<1>15. CASE free_os2_exe
  BY <1>15 DEF free_os2_exe
<1>16. CASE UNCHANGED vars
  BY <1>16 DEF vars
<1> QED
  BY <1>1, <1>2, <1>3, <1>4, <1>5, <1>6, <1>7, <1>8, <1>9, <1>10, <1>11, <1>12, <1>13,
     <1>14, <1>15, <1>16 DEF Next

-----------------------------------------------------------------------------
(* A step of the copy, which touches only the last mapping. *)
LEMMA LastStep ==
  ASSUME LoaderInv, pc \in Copying, pc' \in {"copy", "protect", "map"}, NEW e \in Mappings,
         mem' = [mem EXCEPT ![Len(mem)] = e], UNCHANGED <<variant, file>>,
         unnoticed \in BOOLEAN, unnoticed' \in BOOLEAN, unnoticed => unnoticed',
         e.data = IF pc' = "copy" THEN Blank(Object) ELSE Image(Object),
         ~unnoticed' /\ pc' = "map" => e.prot = Prot(Object),
         pc' = "copy" /\ variant = "with_api" /\ ~unnoticed' => "W" \in e.prot
  PROVE  Mapped'
<1> DEFINE n == Len(mem)
<1>1. /\ mem \in Seq(Mappings) /\ n <= Len(file.objects) /\ n \in Nat /\ n > 0
      /\ \A k \in 1 .. n : Filled(k) /\ Protected(k)
      /\ Copy(Object).size # 0
  BY DEF LoaderInv, Mapped, Copying, Before
<1>2. /\ mem' \in Seq(Mappings) /\ Len(mem') = n /\ mem'[n] = e
      /\ \A k \in 1 .. n : k # n => mem'[k] = mem[k]
  BY <1>1
<1>3. Object' = Object /\ Last' = e /\ Object = file.objects[n]
  BY <1>2 DEF Object, Last
<1>4. \A obj : Copy(obj)' = Copy(obj) /\ Prot(obj)' = Prot(obj) /\ Image(obj)' = Image(obj)
  BY Same
<1> HIDE DEF n
<1>5. ASSUME NEW k \in 1 .. n PROVE Filled(k)' /\ Protected(k)'
  <2>1. CASE k = n
    <3>1. Filled(k)'
      BY <1>2, <1>3, <1>4, <2>1 DEF Filled
    <3>2. Protected(k)'
      BY <1>2, <1>3, <1>4, <2>1 DEF Protected
    <3> QED
      BY <3>1, <3>2
  <2>2. CASE k # n
    <3>1. mem'[k] = mem[k] /\ k # Len(mem') /\ k # Len(mem) /\ Filled(k) /\ Protected(k)
      BY <1>1, <1>2, <2>2 DEF n
    <3>2. Filled(k)'
      BY <1>4, <3>1 DEF Filled
    <3>3. Protected(k)'
      BY <1>4, <3>1 DEF Protected
    <3> QED
      BY <3>2, <3>3
  <2> QED
    BY <2>1, <2>2
<1>6. Copy(Object)'.size # 0
  <2>1. Copy(Object)' = Copy(Object)
    BY <1>3, <1>4 DEF Copy, CopyWithApi, CopyLoader, PageOffset
  <2> QED
    BY <1>1, <2>1
<1> QED
  BY <1>1, <1>2, <1>3, <1>5, <1>6 DEF Mapped, Ready, Before

LEMMA MmapStep ==
  ASSUME LoaderInv, MmapObject
  PROVE  Mapped'
<1> DEFINE n == Len(mem) + 1
           obj == file.objects[n]
           e == [prot |-> Prot(obj), data |-> Blank(obj)]
<1>1. /\ mem \in Seq(Mappings) /\ n <= Len(file.objects) /\ n \in Nat /\ n > 0
      /\ \A k \in 1 .. Len(mem) : Filled(k) /\ Protected(k)
      /\ file \in Files /\ pc = "map"
  <2>1. pc = "map" /\ Len(mem) < Len(file.objects) /\ file \in Files
    BY DEF MmapObject, LoaderInv, Control, Before
  <2>2. mem \in Seq(Mappings) /\ \A k \in 1 .. Len(mem) : Filled(k) /\ Protected(k)
    BY <2>1 DEF LoaderInv, Mapped, Before
  <2>3. file.objects \in Seq(Objects)
    BY <2>1, LELoaderAssumption
  <2> QED
    BY <2>1, <2>2, <2>3
<1>2. e \in Mappings /\ Copy(obj).size \in Int
  <2>1. n \in 1 .. Len(file.objects)
    BY <1>1, LELoaderAssumption
  <2> QED
    BY <1>1, <2>1, ObjectTypes, DataTypes DEF LoaderInv, Mappings
<1>3. /\ mem' = Append(mem, e) /\ UNCHANGED <<variant, file, unnoticed>>
      /\ pc' = IF Copy(obj).size = 0 THEN "map"
               ELSE IF variant = "with_api" /\ "W" \notin Prot(obj) THEN "unprotect"
               ELSE "copy"
  BY DEF MmapObject, Blank
<1> HIDE DEF e
<1>4. /\ mem' \in Seq(Mappings) /\ Len(mem') = n /\ mem'[n] = e
      /\ \A k \in 1 .. n : k # n => k \in 1 .. Len(mem) /\ mem'[k] = mem[k]
  BY <1>1, <1>2, <1>3
<1>5. Object' = obj /\ Last' = e
  BY <1>3, <1>4 DEF Object, Last
<1>6. \A o : Copy(o)' = Copy(o) /\ Prot(o)' = Prot(o) /\ Image(o)' = Image(o)
  BY <1>3, Same
<1>7. Copy(obj).size = 0 => Image(obj) = Blank(obj)
  BY DEF Image, Blank
<1>8. e.prot = Prot(obj) /\ e.data = Blank(obj)
  BY DEF e
<1>9. Copy(Object)' = Copy(obj)
  BY <1>3, <1>5 DEF Copy, CopyWithApi, CopyLoader, PageOffset
<1>10. ASSUME NEW k \in 1 .. n PROVE Filled(k)' /\ Protected(k)'
  <2>1. CASE k = n
    <3>1. mem'[k] = e /\ file'.objects[k] = obj /\ k = Len(mem')
      BY <1>3, <1>4, <2>1
    <3>2. Filled(k)'
      BY <1>3, <1>6, <1>7, <1>8, <3>1 DEF Filled
    <3>3. Protected(k)'
      BY <1>6, <1>8, <3>1 DEF Protected
    <3> QED
      BY <3>2, <3>3
  <2>2. CASE k # n
    <3>1. mem'[k] = mem[k] /\ k # Len(mem') /\ Filled(k) /\ Protected(k)
      BY <1>1, <1>4, <2>2
    <3>2. mem[k].data = Image(file.objects[k])
      BY <1>1, <3>1 DEF Filled
    <3>3. ~unnoticed => mem[k].prot = Prot(file.objects[k])
      BY <1>1, <3>1 DEF Protected
    <3>4. Filled(k)'
      BY <1>3, <1>6, <3>1, <3>2 DEF Filled
    <3>5. Protected(k)'
      BY <1>3, <1>6, <3>1, <3>3 DEF Protected
    <3> QED
      BY <3>4, <3>5
  <2> QED
    BY <2>1, <2>2
<1> HIDE DEF n, obj
<1>11. pc' \in Copying => Len(mem') > 0 /\ Copy(Object)'.size # 0
  BY <1>1, <1>3, <1>4, <1>9 DEF Copying
<1>12. pc' = "copy" /\ variant' = "with_api" => "W" \in Last'.prot
  BY <1>3, <1>5, <1>8
<1>13. pc' \notin Ready
  BY <1>3 DEF Ready
<1> QED
  BY <1>1, <1>3, <1>4, <1>10, <1>11, <1>12, <1>13 DEF Mapped

(* While an object is copied, its mapping is there. *)
LEMMA LastIsMapped ==
  ASSUME LoaderInv, pc \in Copying
  PROVE  /\ Last \in Mappings /\ Len(mem) \in 1 .. Len(file.objects) /\ mem \in Seq(Mappings)
         /\ file \in Files /\ Object = file.objects[Len(mem)] /\ Last = mem[Len(mem)]
         /\ Last.data = IF pc = "protect" THEN Image(Object) ELSE Blank(Object)
         /\ Prot(Object) \in SUBSET Rights /\ Image(Object) \in Datas
<1>1. file \in Files /\ Control
  BY DEF LoaderInv, Control, Copying, Before
<1>2. /\ mem \in Seq(Mappings) /\ Len(mem) <= Len(file.objects) /\ Len(mem) > 0
      /\ \A k \in 1 .. Len(mem) : Filled(k) /\ Protected(k)
  BY DEF LoaderInv, Mapped, Copying, Before
<1>3. file.objects \in Seq(Objects)
  BY <1>1, LELoaderAssumption
<1>4. Len(mem) \in 1 .. Len(file.objects) /\ Filled(Len(mem)) /\ Last \in Mappings
  BY <1>2, <1>3 DEF Last
<1>5. Last.data = IF pc = "protect" THEN Image(Object) ELSE Blank(Object)
  BY <1>4 DEF Filled, Last, Object, Copying
<1>6. Prot(Object) \in SUBSET Rights /\ Image(Object) \in Datas
  BY <1>1, <1>4, ObjectTypes, DataTypes DEF Object
<1> QED
  BY <1>1, <1>2, <1>4, <1>5, <1>6 DEF Object, Last

LEMMA UnprotectStep ==
  ASSUME LoaderInv, Unprotect
  PROVE  Mapped'
<1> DEFINE n == Len(mem)
<1>1. pc = "unprotect" /\ pc' = "copy" /\ UNCHANGED <<variant, file>> /\ pc \in Copying
  BY DEF Unprotect, Copying
<1>2. /\ Last \in Mappings /\ Last = mem[n] /\ Last.data = Blank(Object)
      /\ mem \in Seq(Mappings) /\ n \in 1 .. Len(file.objects)
  BY <1>1, LastIsMapped
<1>3. unnoticed \in BOOLEAN
  BY DEF LoaderInv, Control
<1>4. CASE mem' = [mem EXCEPT ![n].prot = @ \cup {"W"}] /\ UNCHANGED unnoticed
  <2> DEFINE e == [prot |-> Last.prot \cup {"W"}, data |-> Last.data]
  <2>1. [Last EXCEPT !.prot = Last.prot \cup {"W"}] = e
    BY <1>2, Updated
  <2>2. mem' = [mem EXCEPT ![n] = e]
    <3>1. mem' = [mem EXCEPT ![n] = [mem[n] EXCEPT !.prot = mem[n].prot \cup {"W"}]]
      BY <1>4, Zenon
    <3> QED
      BY <1>2, <2>1, <3>1, Zenon
  <2>3. e \in Mappings
    BY <1>2 DEF Mappings, Rights
  <2>4. e.data = Blank(Object) /\ "W" \in e.prot
    BY <1>2
  <2> HIDE DEF e
  <2> QED
    BY <1>1, <1>3, <1>4, <2>2, <2>3, <2>4, LastStep
<1>5. CASE unnoticed' = TRUE /\ UNCHANGED mem
  <2>1. mem' = [mem EXCEPT ![n] = Last]
    BY <1>2, <1>5
  <2> QED
    BY <1>1, <1>2, <1>3, <1>5, <2>1, LastStep
<1> QED
  BY <1>4, <1>5 DEF Unprotect

LEMMA MemcpyStep ==
  ASSUME LoaderInv, Memcpy
  PROVE  Mapped'
<1> DEFINE n == Len(mem)
<1>1. pc = "copy" /\ UNCHANGED <<variant, file, unnoticed>> /\ pc \in Copying
  BY DEF Memcpy, Copying
<1>2. /\ Last \in Mappings /\ Last = mem[n] /\ Last.data = Blank(Object)
      /\ mem \in Seq(Mappings) /\ n \in 1 .. Len(file.objects) /\ file \in Files
      /\ Image(Object) \in Datas
  BY <1>1, LastIsMapped
<1>3. unnoticed \in BOOLEAN
  BY DEF LoaderInv, Control
<1>4. CASE /\ pc' = "protect"
           /\ mem' = [mem EXCEPT ![n].data =
                [u \in DOMAIN @ |-> IF u < Copy(Object).size THEN Copy(Object).from + u
                                    ELSE @[u]]]
  <2> DEFINE d == [u \in DOMAIN Last.data |->
                     IF u < Copy(Object).size THEN Copy(Object).from + u ELSE Last.data[u]]
             e == [prot |-> Last.prot, data |-> d]
  <2>1. d = Image(Object)
    BY <1>2 DEF Blank, Image
  <2>2. [Last EXCEPT !.data = d] = e
    BY <1>2, Updated
  <2>3. mem' = [mem EXCEPT ![n] = e]
    <3>1. mem' = [mem EXCEPT ![n] = [mem[n] EXCEPT !.data =
                    [u \in DOMAIN mem[n].data |->
                       IF u < Copy(Object).size THEN Copy(Object).from + u
                       ELSE mem[n].data[u]]]]
      BY <1>4, Zenon
    <3> QED
      BY <1>2, <2>2, <3>1, Zenon
  <2> HIDE DEF d
  <2>4. e \in Mappings /\ e.data = Image(Object)
    BY <1>2, <2>1 DEF Mappings
  <2> HIDE DEF e
  <2> QED
    BY <1>1, <1>3, <1>4, <2>3, <2>4, LastStep
<1>5. CASE pc' = "crashed" /\ UNCHANGED mem
  <2>1. mem \in Seq(Mappings) /\ Len(mem) <= Len(file.objects)
    BY <1>1 DEF LoaderInv, Mapped, Before
  <2> QED
    BY <1>1, <1>5, <2>1 DEF Mapped, Ready, Copying
<1> QED
  BY <1>4, <1>5 DEF Memcpy

LEMMA ProtectStep ==
  ASSUME LoaderInv, Protect
  PROVE  Mapped'
<1> DEFINE n == Len(mem)
<1>1. pc = "protect" /\ pc' = "map" /\ UNCHANGED <<variant, file>> /\ pc \in Copying
  BY DEF Protect, Copying
<1>2. /\ Last \in Mappings /\ Last = mem[n] /\ Last.data = Image(Object)
      /\ mem \in Seq(Mappings) /\ n \in 1 .. Len(file.objects)
      /\ Prot(Object) \in SUBSET Rights
  BY <1>1, LastIsMapped
<1>3. unnoticed \in BOOLEAN
  BY DEF LoaderInv, Control
<1>4. CASE mem' = [mem EXCEPT ![n].prot = Prot(Object)] /\ UNCHANGED unnoticed
  <2> DEFINE e == [prot |-> Prot(Object), data |-> Last.data]
  <2>1. [Last EXCEPT !.prot = Prot(Object)] = e
    BY <1>2, Updated
  <2>2. mem' = [mem EXCEPT ![n] = e]
    <3>1. mem' = [mem EXCEPT ![n] = [mem[n] EXCEPT !.prot = Prot(Object)]]
      BY <1>4, Zenon
    <3> QED
      BY <1>2, <2>1, <3>1, Zenon
  <2>3. e \in Mappings /\ e.data = Image(Object) /\ e.prot = Prot(Object)
    BY <1>2 DEF Mappings
  <2> HIDE DEF e
  <2> QED
    BY <1>1, <1>3, <1>4, <2>2, <2>3, LastStep
<1>5. CASE unnoticed' = TRUE /\ UNCHANGED mem
  <2>1. mem' = [mem EXCEPT ![n] = Last]
    BY <1>2, <1>5
  <2> QED
    BY <1>1, <1>2, <1>3, <1>5, <2>1, LastStep
<1> QED
  BY <1>4, <1>5 DEF Protect

LEMMA MappedStep ==
  LoaderInv /\ [Next]_vars => Mapped'
<1> SUFFICES ASSUME LoaderInv, [Next]_vars PROVE Mapped'
  OBVIOUS
<1> USE DEF Before, Copying, Ready
<1>1. CASE CallocExe
  BY <1>1 DEF CallocExe, Mapped, LoaderInv, Control
<1>2. CASE OpenFile
  BY <1>2 DEF OpenFile, Mapped, LoaderInv, Control
<1>3. CASE ReadFile
  <2>1. mem' = <<>> /\ pc' \in {"parse", "exited"} /\ (pc' = "parse" => file' \in Files)
    BY <1>3 DEF ReadFile, LoaderInv, Control
  <2>2. pc' = "parse" => file'.objects \in Seq(Objects)
    BY <2>1, LELoaderAssumption
  <2> QED
    BY <2>1, <2>2 DEF Mapped
<1>4. CASE parse_le_exe
  <2>1. CASE pc' = "exited"
    BY <2>1 DEF Mapped
  <2>2. CASE pc' = "calloc"
    BY <1>4, <2>2, Passes DEF parse_le_exe, LoaderInv
  <2> QED
    BY <1>4, <2>1, <2>2 DEF parse_le_exe
<1>5. CASE CallocObjects
  BY <1>5, Passes DEF CallocObjects, LoaderInv
<1>6. CASE MmapFails
  BY <1>6, Passes DEF MmapFails, LoaderInv
<1>7. CASE MmapObject
  BY <1>7, MmapStep
<1>8. CASE Unprotect
  BY <1>8, UnprotectStep
<1>9. CASE Memcpy
  BY <1>9, MemcpyStep
<1>10. CASE Protect
  BY <1>10, ProtectStep
<1>11. CASE EntryPoint
  BY <1>11, Passes DEF EntryPoint, LoaderInv
<1>12. CASE process_imports
  BY <1>12, Passes DEF process_imports, LoaderInv, Mapped
<1>13. CASE apply_fixups
  BY <1>13, Passes DEF apply_fixups, LoaderInv, Mapped
<1>14. CASE execute_os2_program
  BY <1>14, Passes DEF execute_os2_program, LoaderInv
<1>15. CASE free_os2_exe
  BY <1>15 DEF free_os2_exe, Mapped
<1>16. CASE UNCHANGED vars
  <2>1. UNCHANGED <<variant, file, mem, pc, unnoticed>>
    BY <1>16 DEF vars
  <2>2. Object' = Object /\ Last' = Last
    BY <2>1 DEF Object, Last
  <2>3. Copy(Object)' = Copy(Object)
    BY <2>1, <2>2 DEF Copy, CopyWithApi, CopyLoader, PageOffset
  <2>4. \A k : Filled(k)' = Filled(k) /\ Protected(k)' = Protected(k)
    BY <2>1, Same DEF Filled, Protected
  <2> QED
    BY <2>1, <2>2, <2>3, <2>4 DEF LoaderInv, Mapped
<1> QED
  BY <1>1, <1>2, <1>3, <1>4, <1>5, <1>6, <1>7, <1>8, <1>9, <1>10, <1>11, <1>12, <1>13,
     <1>14, <1>15, <1>16 DEF Next

(* What load_objects has mapped and holds, step by step. *)
THEOREM Invariance == Spec => []LoaderInv
<1>1. LoaderInv /\ [Next]_vars => LoaderInv'
  BY ControlStep, MappedStep DEF LoaderInv
<1> QED
  BY <1>1, InitHolds, PTL DEF Spec

(* Both loaders return with the file closed, every block freed and every   *)
(* object unmapped, whichever call failed.                                 *)
THEOREM Released == Spec => []NothingLeaks
<1>1. LoaderInv => NothingLeaks
  BY DEF LoaderInv, Control, Holds, Before, NothingLeaks
<1> QED
  BY <1>1, Invariance, PTL

-----------------------------------------------------------------------------
LEMMA SmallModulo ==
  ASSUME NEW m \in Nat \ {0}, NEW a \in 0 .. m - 1
  PROVE  a % m = a
<1> DEFINE q == a \div m
<1>1. q \in Int /\ a % m \in 0 .. m - 1 /\ a = m * q + (a % m)
  BY Divided
<1> HIDE DEF q
<1>2. q = 0
  <2>1. q > 0 => m * q >= m
    BY <1>1
  <2>2. q < 0 => m * q <= -m
    BY <1>1
  <2> QED
    BY <1>1, <2>1, <2>2
<1> QED
  BY <1>1, <1>2

(* The place of an object's data, and its aligned size. *)
LEMMA RegularSizes ==
  ASSUME NEW obj \in Objects, Regular(obj)
  PROVE  /\ AllocSize(obj) \in Int /\ AllocSize(obj) >= obj.virtual_size
         /\ obj.page_table_index > 0 =>
              /\ PageOffset(obj) = (obj.page_table_index - 1) * PageSize
              /\ PageOffset(obj) \in Nat
              /\ DataOffset + PageOffset(obj) + obj.virtual_size < Word
<1> DEFINE v == obj.virtual_size
           x == obj.page_table_index
<1>1. /\ v \in Nat /\ x \in Nat /\ Align \in Nat \ {0} /\ Word \in Nat \ {0}
      /\ PageSize \in Nat \ {0} /\ DataOffset \in Nat
      /\ DataOffset + x * PageSize + v < Word /\ v + Align <= Word
  BY LELoaderAssumption DEF Objects, Regular
<1>2. AllocSize(obj) = (((v + Align - 1) % Word) \div Align) * Align
  BY DEF AllocSize
<1>3. PageOffset(obj) = ((x - 1) * PageSize) % Word
  BY DEF PageOffset
<1> HIDE DEF v, x
<1>4. AllocSize(obj) \in Int /\ AllocSize(obj) >= v
  <2> DEFINE a == v + Align - 1
             q == a \div Align
  <2>1. a \in 0 .. Word - 1
    BY <1>1
  <2>2. a % Word = a
    BY <1>1, <2>1, SmallModulo
  <2>3. q \in Int /\ a % Align \in 0 .. Align - 1 /\ a = Align * q + (a % Align)
    BY <1>1, <2>1, Divided
  <2>4. AllocSize(obj) = q * Align
    BY <1>2, <2>2
  <2> HIDE DEF q
  <2>5. q * Align \in Int /\ q * Align = Align * q
    BY <1>1, <2>3
  <2>6. Align * q >= a - (Align - 1)
    BY <1>1, <2>1, <2>3
  <2> QED
    BY <1>1, <2>4, <2>5, <2>6
<1>5. ASSUME x > 0
      PROVE  /\ PageOffset(obj) = (x - 1) * PageSize /\ PageOffset(obj) \in Nat
             /\ DataOffset + PageOffset(obj) + v < Word
  <2> DEFINE o == (x - 1) * PageSize
  <2>1. o \in Nat /\ o <= x * PageSize
    BY <1>1, <1>5
  <2>2. x * PageSize \in Nat
    BY <1>1
  <2> HIDE DEF o
  <2>3. o \in 0 .. Word - 1 /\ DataOffset + o + v < Word
    BY <1>1, <2>1, <2>2
  <2>4. o % Word = o
    BY <1>1, <2>3, SmallModulo
  <2>5. PageOffset(obj) = o
    BY <1>3, <2>4 DEF o
  <2> QED
    BY <2>1, <2>3, <2>5 DEF o
<1> QED
  BY <1>4, <1>5 DEF v, x

(* What os2run copies of a regular object. *)
LEMMA WithApiCopies ==
  ASSUME file \in Files, NEW obj \in Objects, Regular(obj), variant = "with_api"
  PROVE  \/ /\ Copy(obj).size = 0
            /\ \/ obj.page_table_entries = 0 \/ obj.page_table_index = 0
               \/ DataOffset + PageOffset(obj) >= file.size
         \/ /\ Copy(obj).from = DataOffset + PageOffset(obj)
            /\ obj.page_table_index > 0
            /\ \/ /\ Copy(obj).size = obj.virtual_size
                  /\ DataOffset + PageOffset(obj) + obj.virtual_size <= file.size
               \/ /\ Copy(obj).size = file.size - (DataOffset + PageOffset(obj))
                  /\ DataOffset + PageOffset(obj) + obj.virtual_size > file.size
<1> DEFINE o == DataOffset + PageOffset(obj)
           v == obj.virtual_size
<1>1. /\ file.size \in 0 .. Word - 1 /\ v \in Nat /\ Word \in Nat \ {0} /\ DataOffset \in Nat
      /\ obj.page_table_index \in Nat
  BY LELoaderAssumption DEF Objects
<1>2. Copy(obj) = LET offset == o % Word
                      fits == (offset + v) % Word <= file.size
                  IN  IF \/ obj.page_table_entries = 0 \/ obj.page_table_index = 0
                         \/ offset >= file.size
                      THEN [size |-> 0, from |-> 0]
                      ELSE [size |-> IF fits THEN v ELSE file.size - offset,
                            from |-> offset]
  BY DEF Copy, CopyWithApi
<1>3. CASE obj.page_table_entries = 0 \/ obj.page_table_index = 0
  BY <1>2, <1>3
<1>4. CASE ~(obj.page_table_entries = 0 \/ obj.page_table_index = 0)
  <2>1. obj.page_table_index > 0
    BY <1>1, <1>4
  <2>2. PageOffset(obj) \in Nat /\ DataOffset + PageOffset(obj) + v < Word
    BY <2>1, RegularSizes
  <2>3. o \in 0 .. Word - 1 /\ o + v \in 0 .. Word - 1
    BY <1>1, <2>2
  <2>4. o % Word = o /\ (o + v) % Word = o + v
    <3> HIDE DEF o, v
    <3> QED
      BY <1>1, <2>3, SmallModulo
  <2> HIDE DEF o, v
  <2>5. Copy(obj) = IF o >= file.size THEN [size |-> 0, from |-> 0]
                    ELSE [size |-> IF o + v <= file.size THEN v ELSE file.size - o,
                          from |-> o]
    BY <1>2, <1>4, <2>4
  <2>6. CASE o >= file.size
    BY <2>5, <2>6 DEF o
  <2>7. CASE ~(o >= file.size)
    <3>1. Copy(obj).from = o
      BY <2>5, <2>7
    <3>2. o + v <= file.size => Copy(obj).size = v
      BY <2>5, <2>7
    <3>3. ~(o + v <= file.size) => Copy(obj).size = file.size - o
      BY <2>5, <2>7
    <3>4. o + v <= file.size \/ o + v > file.size
      BY <1>1, <2>3
    <3> QED
      BY <1>1, <2>1, <2>3, <3>1, <3>2, <3>3, <3>4 DEF o, v
  <2> QED
    BY <2>6, <2>7
<1> QED
  BY <1>3, <1>4

(* What os2loader copies of a regular object. *)
LEMMA LoaderCopiesPages ==
  ASSUME file \in Files, NEW obj \in Objects, Regular(obj), variant = "loader"
  PROVE  \/ Copy(obj).size = 0
         \/ /\ Copy(obj).from = DataOffset + PageOffset(obj) /\ obj.page_table_index > 0
            /\ Copy(obj).size \in 0 .. obj.virtual_size
            /\ Copy(obj).size <= obj.page_table_entries * PageSize
            /\ Copy(obj).from + Copy(obj).size <= file.size
<1> DEFINE o == DataOffset + PageOffset(obj)
           v == obj.virtual_size
           p == obj.page_table_entries * PageSize
           s == IF v < p THEN v ELSE p
<1>1. /\ file.size \in 0 .. Word - 1 /\ v \in Nat /\ Word \in Nat \ {0} /\ DataOffset \in Nat
      /\ obj.page_table_index \in Nat /\ p \in 0 .. Word - 1
      /\ obj.page_table_index = 0 => obj.page_table_entries = 0
  <2>1. obj.page_table_entries \in Nat /\ PageSize \in Nat
    BY LELoaderAssumption DEF Objects
  <2>2. p \in Nat
    BY <2>1
  <2> QED
    BY <2>2, LELoaderAssumption DEF Objects, Regular
<1>2. p % Word = p
  <2> HIDE DEF p
  <2> QED
    BY <1>1, SmallModulo
<1>3. Copy(obj) = [size |-> IF (o + s) % Word <= file.size THEN s ELSE 0, from |-> o]
  BY <1>2 DEF Copy, CopyLoader
<1>4. CASE obj.page_table_index = 0
  <2>1. p = 0
    BY <1>1, <1>4, LELoaderAssumption
  <2> HIDE DEF p
  <2>2. s = 0
    BY <1>1, <2>1
  <2> QED
    BY <1>3, <2>2
<1>5. CASE obj.page_table_index # 0
  <2>1. obj.page_table_index > 0
    BY <1>1, <1>5
  <2>2. PageOffset(obj) \in Nat /\ DataOffset + PageOffset(obj) + v < Word
    BY <2>1, RegularSizes
  <2>3. o \in Nat /\ o + v < Word
    BY <1>1, <2>2
  <2> HIDE DEF p
  <2>4. s \in 0 .. v /\ s <= p
    BY <1>1
  <2> HIDE DEF o, v, s
  <2>5. o + s \in 0 .. Word - 1
    BY <1>1, <2>3, <2>4
  <2>6. (o + s) % Word = o + s
    BY <1>1, <2>5, SmallModulo
  <2>7. CASE o + s <= file.size
    <3>1. Copy(obj).size = s /\ Copy(obj).from = o
      BY <1>3, <2>6, <2>7
    <3> QED
      BY <2>1, <2>4, <2>7, <3>1 DEF o, v, p
  <2>8. CASE ~(o + s <= file.size)
    BY <1>3, <2>6, <2>8
  <2> QED
    BY <2>7, <2>8
<1> QED
  BY <1>4, <1>5

(* A copy reads from the file and fits in the mapping. *)
LEMMA CopyFits ==
  ASSUME file \in Files, NEW obj \in Objects, Regular(obj), Copy(obj).size # 0,
         variant \in {"with_api", "loader"}
  PROVE  /\ Copy(obj).from + Copy(obj).size <= file.size
         /\ Copy(obj).size \in Int /\ Copy(obj).size <= AllocSize(obj)
<1> DEFINE v == obj.virtual_size
           o == DataOffset + PageOffset(obj)
<1>1. v \in Nat /\ file.size \in Nat /\ DataOffset \in Nat
  BY LELoaderAssumption DEF Objects
<1>2. AllocSize(obj) \in Int /\ AllocSize(obj) >= v
  BY RegularSizes
<1>3. obj.page_table_index > 0 => o \in Nat
  BY <1>1, RegularSizes
<1>4. CASE variant = "with_api"
  BY <1>1, <1>2, <1>3, <1>4, WithApiCopies
<1>5. CASE variant = "loader"
  <2>1. /\ Copy(obj).size \in 0 .. v
        /\ Copy(obj).from + Copy(obj).size <= file.size
    BY <1>5, LoaderCopiesPages
  <2> QED
    BY <1>1, <1>2, <2>1
<1> QED
  BY <1>4, <1>5

(* In a regular file no copy of load_objects runs over the end of the file *)
(* or of the mapping, and none of os2run goes to memory that is read-only. *)
THEOREM CopiesAreSafe ==
  ASSUME RegularFiles
  PROVE  Spec => []CopyDoesNotFault
<1>1. LoaderInv => CopyDoesNotFault
  <2> SUFFICES ASSUME LoaderInv, pc = "copy"
               PROVE  /\ Copy(Object).from + Copy(Object).size <= file.size
                      /\ 0 .. Copy(Object).size - 1 \subseteq DOMAIN Last.data
                      /\ variant = "with_api" /\ ~unnoticed => "W" \in Last.prot
    BY DEF CopyDoesNotFault
  <2>1. pc \in Copying
    BY DEF Copying
  <2>2. /\ Len(mem) \in 1 .. Len(file.objects) /\ file \in Files
        /\ Object = file.objects[Len(mem)] /\ Last.data = Blank(Object)
    BY <2>1, LastIsMapped
  <2>3. Object \in Objects /\ Regular(Object)
    BY <2>2, LELoaderAssumption DEF RegularFiles
  <2>4. Copy(Object).size # 0 /\ (variant = "with_api" /\ ~unnoticed => "W" \in Last.prot)
    BY <2>1 DEF LoaderInv, Mapped, Before
  <2>5. variant \in {"with_api", "loader"}
    BY LELoaderAssumption DEF LoaderInv, Control
  <2>6. /\ Copy(Object).from + Copy(Object).size <= file.size
        /\ Copy(Object).size \in Int /\ Copy(Object).size <= AllocSize(Object)
    BY <2>2, <2>3, <2>4, <2>5, CopyFits
  <2>7. AllocSize(Object) \in Int
    BY <2>3, RegularSizes
  <2>8. 0 .. Copy(Object).size - 1 \subseteq DOMAIN Last.data
    BY <2>2, <2>6, <2>7 DEF Blank
  <2> QED
    BY <2>4, <2>6, <2>8
<1> QED
  BY <1>1, Invariance, PTL

(* The image of a regular object is what the file holds of its pages. *)
LEMMA ImageMatches ==
  ASSUME file \in Files, NEW obj \in Objects, Regular(obj),
         variant \in {"with_api", "loader"}, NEW u \in DOMAIN Image(obj)
  PROVE  /\ variant = "with_api" /\ InPages(obj, u) /\ FilePos(obj, u) < file.size
              => Image(obj)[u] = FilePos(obj, u)
         /\ variant = "loader" /\ Image(obj)[u] # Zero
              => InPages(obj, u) /\ Image(obj)[u] = FilePos(obj, u)
<1> DEFINE v == obj.virtual_size
           x == obj.page_table_index
           p == obj.page_table_entries * PageSize
           o == DataOffset + PageOffset(obj)
<1>1. /\ v \in Nat /\ x \in Nat /\ obj.page_table_entries \in Nat
      /\ file.size \in Nat /\ DataOffset \in Nat /\ PageSize \in Nat
  BY LELoaderAssumption DEF Objects
<1>2. AllocSize(obj) \in Int
  BY RegularSizes
<1>3. u \in 0 .. AllocSize(obj) - 1
  BY DEF Image
<1>4. Image(obj)[u] = IF u < Copy(obj).size THEN Copy(obj).from + u ELSE Zero
  BY <1>3 DEF Image
<1>5. u \in Nat
  BY <1>2, <1>3
<1>6. x > 0 => o \in Nat /\ FilePos(obj, u) = o + u
  <2> SUFFICES ASSUME x > 0 PROVE o \in Nat /\ FilePos(obj, u) = o + u
    OBVIOUS
  <2>1. PageOffset(obj) = (x - 1) * PageSize /\ PageOffset(obj) \in Nat
    BY RegularSizes
  <2> QED
    BY <1>1, <2>1 DEF FilePos
<1>7. p \in Nat /\ (obj.page_table_entries = 0 => p = 0)
  BY <1>1
<1>8. InPages(obj, u) <=> x > 0 /\ u < v /\ u < p
  BY DEF InPages
<1>9. ASSUME variant = "with_api", InPages(obj, u), FilePos(obj, u) < file.size
      PROVE  Image(obj)[u] = FilePos(obj, u)
  <2>1. x > 0 /\ u < v /\ u < p /\ o \in Nat /\ o + u < file.size /\ FilePos(obj, u) = o + u
    BY <1>6, <1>8, <1>9
  <2>2. obj.page_table_entries # 0 /\ x # 0 /\ ~(o >= file.size)
    <3> HIDE DEF o, p
    <3> QED
      BY <1>1, <1>5, <1>7, <2>1
  <2>3. /\ Copy(obj).from = o
        /\ \/ Copy(obj).size = v
           \/ Copy(obj).size = file.size - o
    <3>1. ~(\/ obj.page_table_entries = 0 \/ obj.page_table_index = 0
            \/ DataOffset + PageOffset(obj) >= file.size)
      BY <2>2
    <3> QED
      BY <1>9, <3>1, WithApiCopies
  <2> HIDE DEF o, p, v
  <2>4. u < Copy(obj).size
    BY <1>1, <1>5, <2>1, <2>3
  <2> QED
    BY <1>4, <2>1, <2>3, <2>4
<1>10. ASSUME variant = "loader", Image(obj)[u] # Zero
       PROVE  InPages(obj, u) /\ Image(obj)[u] = FilePos(obj, u)
  <2>1. u < Copy(obj).size /\ Image(obj)[u] = Copy(obj).from + u
    BY <1>4, <1>10
  <2>2. Copy(obj).size # 0
    BY <1>5, <2>1
  <2>3. /\ Copy(obj).from = o /\ x > 0 /\ Copy(obj).size \in 0 .. v
        /\ Copy(obj).size <= p
    BY <1>10, <2>2, LoaderCopiesPages
  <2> HIDE DEF o, p, v
  <2>4. u < v /\ u < p
    BY <1>1, <1>5, <1>7, <2>1, <2>3
  <2> QED
    BY <1>6, <1>8, <2>1, <2>3, <2>4
<1> QED
  BY <1>9, <1>10

(* When a program of a regular file starts, its memory is what the file    *)
(* describes: os2run has loaded all that the file holds of the objects'    *)
(* pages, os2loader nothing else, and the protections are the flags'.      *)
THEOREM LoadedIsFile ==
  ASSUME RegularFiles
  PROVE  Spec => []MemoryMatchesFile
<1>1. LoaderInv => MemoryMatchesFile
  <2> SUFFICES ASSUME LoaderInv, Loaded, NEW k \in 1 .. Len(mem)
               PROVE  LET obj == file.objects[k]
                      IN  /\ ~unnoticed => mem[k].prot = Prot(obj)
                          /\ \A u \in DOMAIN mem[k].data :
                               /\ variant = "with_api" /\ InPages(obj, u)
                                    /\ FilePos(obj, u) < file.size
                                    => mem[k].data[u] = FilePos(obj, u)
                               /\ variant = "loader" /\ mem[k].data[u] # Zero
                                    => InPages(obj, u) /\ mem[k].data[u] = FilePos(obj, u)
    BY DEF MemoryMatchesFile
  <2> DEFINE obj == file.objects[k]
  <2>1. file \in Files /\ variant \in {"with_api", "loader"}
    BY LELoaderAssumption DEF LoaderInv, Control, Loaded, Before
  <2>2. /\ Filled(k) /\ Protected(k) /\ mem \in Seq(Mappings)
        /\ Len(mem) <= Len(file.objects)
    BY DEF LoaderInv, Mapped, Loaded, Before
  <2>3. k \in 1 .. Len(file.objects)
    BY <2>1, <2>2, LELoaderAssumption
  <2>4. obj \in Objects /\ Regular(obj)
    BY <2>1, <2>3, LELoaderAssumption DEF RegularFiles
  <2>5. mem[k].data = Image(obj) /\ (~unnoticed => mem[k].prot = Prot(obj))
    BY <2>2 DEF Filled, Protected, Loaded
  <2> HIDE DEF obj
  <2>6. ASSUME NEW u \in DOMAIN Image(obj)
        PROVE  /\ variant = "with_api" /\ InPages(obj, u) /\ FilePos(obj, u) < file.size
                    => Image(obj)[u] = FilePos(obj, u)
               /\ variant = "loader" /\ Image(obj)[u] # Zero
                    => InPages(obj, u) /\ Image(obj)[u] = FilePos(obj, u)
    BY <2>1, <2>4, ImageMatches
  <2> QED
    BY <2>5, <2>6 DEF obj
<1> QED
  BY <1>1, Invariance, PTL
-----------------------------------------------------------------------------
TableTypes ==
  /\ in_use \in [Calls!Handles -> BOOLEAN]
  /\ linux_fd \in [Calls!Handles -> Int]
  /\ \A h \in Calls!Handles : in_use[h] => linux_fd[h] \in Calls!Fds
  /\ fds \in [Calls!Fds -> Calls!Modes]

TableInv == TableTypes /\ Calls!HandlesMatch

-----------------------------------------------------------------------------
LEMMA LeastNat ==
  ASSUME NEW T \in SUBSET Nat, T # {}
  PROVE  \E m \in T : \A j \in T : m <= j
<1> DEFINE R == {ss \in Nat \X Nat : ss[1] < ss[2]}
<1>1. IsWellFoundedOn(R, Nat)
  BY NatLessThanWellFounded DEF OpToRel
<1>2. \A a, b \in Nat : a < b => <<a, b>> \in R
  OBVIOUS
<1> HIDE DEF R
<1>3. PICK m \in T : \A j \in T : ~ (<<j, m>> \in R)
  BY <1>1, WFMin
<1>4. \A j \in T : ~ (j < m)
  BY <1>2, <1>3, Zenon
<1> QED
  BY <1>4

(* allocate_handle, and Linux where it picks a descriptor, take one that   *)
(* is free.                                                                *)
LEMMA FirstIsFree ==
  ASSUME NEW S, S \subseteq Calls!Handles \/ S \subseteq Calls!Fds, S # {}
  PROVE  Calls!First(S) \in S
<1>1. S \in SUBSET Nat
  BY WrapperAssumption DEF Calls!Handles, Calls!Fds
<1> QED
  BY <1>1, LeastNat DEF Calls!First

LEMMA InitTable == ASSUME Calls!Init PROVE TableInv
<1>1. Calls!Standard \subseteq Calls!Handles /\ Calls!Standard \subseteq Calls!Fds
  BY WrapperAssumption DEF Calls!Standard, Calls!Handles, Calls!Fds
<1>2. TableTypes
  <2>1. in_use \in [Calls!Handles -> BOOLEAN]
    <3>1. \A h \in Calls!Handles : (h \in Calls!Standard) \in BOOLEAN
      OBVIOUS
    <3> QED
      BY <3>1, Zenon DEF Calls!Init
  <2>2. /\ linux_fd \in [Calls!Handles -> Int]
        /\ \A h \in Calls!Handles : h \in Calls!Standard => linux_fd[h] \in Calls!Fds
    BY <1>1, WrapperAssumption DEF Calls!Init, Calls!Handles
  <2>3. \A h \in Calls!Handles : in_use[h] <=> h \in Calls!Standard
    BY DEF Calls!Init
  <2>4. fds \in [Calls!Fds -> Calls!Modes]
    BY DEF Calls!Init, Calls!Modes
  <2> QED
    BY <2>1, <2>2, <2>3, <2>4 DEF TableTypes
<1>3. Calls!Open = Calls!Standard
  BY <1>1 DEF Calls!Init, Calls!Open
<1>4. \A h \in Calls!Handles : /\ in_use[h] <=> h \in Calls!Standard
                               /\ h \in Calls!Standard => linux_fd[h] = h
  BY DEF Calls!Init
<1> QED
  BY <1>1, <1>2, <1>3, <1>4 DEF TableInv, Calls!HandlesMatch

(* DosOpen gives a free handle a descriptor that was closed. *)
LEMMA OpenStep ==
  ASSUME TableInv, NEW n, NEW acts, NEW access \in Calls!Access, Calls!OpenSucceeds(n, acts, access)
  PROVE  TableInv'
<1>1. PICK d, h : d = Calls!First(Calls!Fds \ Calls!Open) /\ h = Calls!First(Calls!FreeHandles)
  OBVIOUS
<1>2. /\ fds' = [fds EXCEPT ![d] = access]
      /\ in_use' = [in_use EXCEPT ![h] = TRUE]
      /\ linux_fd' = [linux_fd EXCEPT ![h] = d]
      /\ UNCHANGED close_failed
  BY <1>1 DEF Calls!OpenSucceeds
<1>3. d \in Calls!Fds \ Calls!Open
  <2>1. Calls!Fds \ Calls!Open # {}
    BY DEF Calls!OpenSucceeds, Calls!OpenErrno, Calls!Open
  <2> QED
    BY <1>1, <2>1, FirstIsFree
<1>4. h \in Calls!Handles /\ ~in_use[h]
  <2>1. h \in Calls!FreeHandles
    BY <1>1, FirstIsFree DEF Calls!OpenSucceeds, Calls!FreeHandles
  <2> QED
    BY <2>1 DEF Calls!FreeHandles
<1>5. TableTypes /\ Calls!HandlesMatch /\ d \in Int
  BY <1>3, WrapperAssumption DEF TableInv, Calls!Fds
<1>6. Calls!Open' = Calls!Open \cup {d}
  BY <1>2, <1>3, <1>5 DEF TableTypes, Calls!Open, Calls!Access
<1>7. \A k \in Calls!Handles : /\ in_use'[k] = IF k = h THEN TRUE ELSE in_use[k]
                         /\ linux_fd'[k] = IF k = h THEN d ELSE linux_fd[k]
  BY <1>2, <1>5 DEF TableTypes
<1>8. TableTypes'
  <2>1. /\ fds' \in [Calls!Fds -> Calls!Modes] /\ in_use' \in [Calls!Handles -> BOOLEAN]
        /\ linux_fd' \in [Calls!Handles -> Int]
    BY <1>2, <1>5 DEF TableTypes, Calls!Modes
  <2> QED
    BY <1>3, <1>5, <1>7, <2>1 DEF TableTypes
<1>9. \A f \in Calls!Open' : \E k \in Calls!Handles : in_use'[k] /\ linux_fd'[k] = f
  <2>1. ASSUME NEW f \in Calls!Open PROVE \E k \in Calls!Handles : in_use'[k] /\ linux_fd'[k] = f
    <3>1. PICK k \in Calls!Handles : in_use[k] /\ linux_fd[k] = f
      BY <1>5 DEF Calls!HandlesMatch
    <3> QED
      BY <1>4, <1>7, <3>1
  <2> QED
    BY <1>4, <1>6, <1>7, <2>1
<1>10. ASSUME ~close_failed
       PROVE  /\ \A k \in Calls!Handles : in_use'[k] => linux_fd'[k] \in Calls!Open'
              /\ \A k, l \in Calls!Handles :
                   in_use'[k] /\ in_use'[l] /\ linux_fd'[k] = linux_fd'[l] => k = l
  <2>1. /\ \A k \in Calls!Handles : in_use[k] => linux_fd[k] \in Calls!Open
        /\ \A k, l \in Calls!Handles : in_use[k] /\ in_use[l] /\ linux_fd[k] = linux_fd[l] => k = l
    BY <1>5, <1>10 DEF Calls!HandlesMatch
  <2>2. \A k \in Calls!Handles : in_use'[k] => linux_fd'[k] \in Calls!Open'
    BY <1>6, <1>7, <2>1
  <2>3. ASSUME NEW k \in Calls!Handles, NEW l \in Calls!Handles,
               in_use'[k], in_use'[l], linux_fd'[k] = linux_fd'[l]
        PROVE  k = l
    <3>1. CASE k = h \/ l = h
      BY <1>3, <1>7, <2>1, <2>3, <3>1
    <3>2. CASE k # h /\ l # h
      BY <1>7, <2>1, <2>3, <3>2
    <3> QED
      BY <3>1, <3>2
  <2> QED
    BY <2>2, <2>3
<1> QED
  BY <1>2, <1>8, <1>9, <1>10 DEF TableInv, Calls!HandlesMatch

(* DosClose, of a standard handle too, closes the descriptor and frees the *)
(* handle, or keeps a handle whose descriptor is gone.                     *)
LEMMA CloseStep ==
  ASSUME TableInv, NEW h \in 0 .. MaxHandles, Calls!CloseSucceeds(h) \/ Calls!CloseFails(h)
  PROVE  TableInv'
<1>1. TableTypes /\ Calls!HandlesMatch
  BY DEF TableInv
<1>2. PICK d : d = Calls!get_linux_fd(h)
  OBVIOUS
<1>3. h \in Calls!Handles /\ in_use[h] /\ d = linux_fd[h] /\ d \in Calls!Fds
  <2>1. d >= 0
    BY <1>2 DEF Calls!CloseSucceeds, Calls!CloseFails
  <2>2. ~(h >= MaxHandles \/ ~in_use[h]) /\ d = linux_fd[h]
    BY <1>2, <2>1 DEF Calls!get_linux_fd
  <2> QED
    BY <1>1, <2>2, WrapperAssumption DEF Calls!Handles, TableTypes
<1>4. fds' = [fds EXCEPT ![d] = "CLOSED"]
  BY <1>2 DEF Calls!CloseSucceeds, Calls!CloseFails
<1>5. Calls!Open' = Calls!Open \ {d} /\ fds' \in [Calls!Fds -> Calls!Modes]
  BY <1>1, <1>3, <1>4 DEF Calls!Open, TableTypes, Calls!Modes
<1>6. CASE Calls!CloseSucceeds(h)
  <2>1. \A k \in Calls!Handles : /\ in_use'[k] = IF k = h THEN FALSE ELSE in_use[k]
                           /\ linux_fd'[k] = IF k = h THEN -1 ELSE linux_fd[k]
    BY <1>1, <1>6 DEF Calls!CloseSucceeds, TableTypes
  <2>2. TableTypes' /\ UNCHANGED close_failed
    <3>1. in_use' \in [Calls!Handles -> BOOLEAN]
      BY <1>1, <1>6 DEF Calls!CloseSucceeds, TableTypes
    <3>2. linux_fd' \in [Calls!Handles -> Int]
      <4>1. -1 \in Int
        OBVIOUS
      <4> QED
        BY <1>1, <1>6, <4>1 DEF Calls!CloseSucceeds, TableTypes
    <3> QED
      BY <1>1, <1>5, <1>6, <2>1, <3>1, <3>2 DEF TableTypes, Calls!CloseSucceeds
  <2>3. \A f \in Calls!Open' : \E k \in Calls!Handles : in_use'[k] /\ linux_fd'[k] = f
    <3>1. ASSUME NEW f \in Calls!Open \ {d}
          PROVE  \E k \in Calls!Handles : in_use'[k] /\ linux_fd'[k] = f
      <4>1. PICK k \in Calls!Handles : in_use[k] /\ linux_fd[k] = f
        BY <1>1 DEF Calls!HandlesMatch
      <4> QED
        BY <1>3, <2>1, <4>1
    <3> QED
      BY <1>5, <3>1
  <2>4. ASSUME ~close_failed
        PROVE  /\ \A k \in Calls!Handles : in_use'[k] => linux_fd'[k] \in Calls!Open'
               /\ \A k, l \in Calls!Handles :
                    in_use'[k] /\ in_use'[l] /\ linux_fd'[k] = linux_fd'[l] => k = l
    BY <1>1, <1>3, <1>5, <2>1, <2>4 DEF Calls!HandlesMatch
  <2> QED
    BY <2>2, <2>3, <2>4 DEF TableInv, Calls!HandlesMatch
<1>7. CASE Calls!CloseFails(h)
  <2>1. UNCHANGED <<in_use, linux_fd>>
    BY <1>7 DEF Calls!CloseFails, Calls!table
  <2>2. TableTypes'
    BY <1>1, <1>5, <2>1 DEF TableTypes
  <2>3. ~close_failed' => ~close_failed /\ Calls!Open' = Calls!Open
    BY <1>2, <1>3, <1>5, <1>7 DEF Calls!CloseFails, Calls!Open
  <2> QED
    BY <1>1, <1>5, <2>1, <2>2, <2>3 DEF TableInv, Calls!HandlesMatch
<1> QED
  BY <1>6, <1>7

LEMMA SameTable ==
  ASSUME TableInv, UNCHANGED <<Calls!table, fds, close_failed>>
  PROVE  TableInv'
BY DEF TableInv, TableTypes, Calls!HandlesMatch, Calls!Open, Calls!table

(* HandlesMatch is an invariant: through every sequence of opens, closes   *)
(* and failures, an open descriptor belongs to a handle, and until a close *)
(* fails a handle in use has an open descriptor of its own.                *)
THEOREM TableMatches == MCSpec => []HandlesMatch
<1>1. MCInit => TableInv
  BY InitTable DEF MCInit
<1>2. TableInv /\ [MCNext]_allVars => TableInv'
  <2> SUFFICES ASSUME TableInv, [MCNext]_allVars PROVE TableInv'
    OBVIOUS
  <2>1. ASSUME NEW code, Calls!Returns(code) PROVE TableInv'
    BY <2>1, SameTable DEF Calls!Returns
  <2>2. ASSUME NEW n \in Names, NEW acts \in SUBSET Calls!Acts, NEW access \in Calls!Access,
               Calls!DosOpen(n, acts, access)
        PROVE  TableInv'
    <3>1. CASE Calls!OpenFails(n, acts)
      BY <2>1, <3>1 DEF Calls!OpenFails
    <3>2. CASE Calls!OpenNoHandle(n, acts, access)
      BY <3>2, SameTable DEF Calls!OpenNoHandle
    <3>3. CASE Calls!OpenSucceeds(n, acts, access)
      BY <3>3, OpenStep
    <3> QED
      BY <2>2, <3>1, <3>2, <3>3 DEF Calls!DosOpen
  <2>3. ASSUME NEW n \in Names, Calls!DosDelete(n) PROVE TableInv'
    BY <2>1, <2>3, SameTable DEF Calls!DosDelete
  <2>4. ASSUME NEW h \in 0 .. MaxHandles, Calls!DosClose(h) PROVE TableInv'
    BY <2>1, <2>4, CloseStep DEF Calls!DosClose
  <2>5. ASSUME NEW h \in 0 .. MaxHandles,
               \/ Calls!DosRead(h) \/ Calls!DosWrite(h)
               \/ \E known, inside \in BOOLEAN : Calls!DosSetFilePtr(h, known, inside)
        PROVE  TableInv'
    <3>1. \E code : Calls!Returns(code)
      BY <2>5 DEF Calls!DosRead, Calls!DosWrite, Calls!DosSetFilePtr
    <3> QED
      BY <2>1, <3>1
  <2>6. CASE UNCHANGED calls
    BY <2>6, SameTable DEF calls, Calls!table
  <2> QED
    BY <2>2, <2>3, <2>4, <2>5, <2>6
       DEF Calls!Next, MCNext, LoaderStep, CallStep, AnalyzerStep, allVars
<1>3. TableInv => HandlesMatch
  BY DEF TableInv, HandlesMatch
<1> QED
  BY <1>1, <1>2, <1>3, PTL DEF MCSpec

(* ReportedIsTrue is an invariant: what the emulator's DosOpen derives     *)
(* from the request alone is what happened to the file, whatever files     *)
(* there were, because open fails where it would be wrong.                 *)
THEOREM ReportsAreTrue == MCSpec => []ReportedIsTrue
<1>1. MCInit => Calls!ReportedIsTrue
  BY DEF MCInit, Calls!Init, Calls!ReportedIsTrue
<1>2. Calls!ReportedIsTrue /\ [MCNext]_allVars => Calls!ReportedIsTrue'
  <2> SUFFICES ASSUME Calls!ReportedIsTrue, [MCNext]_allVars PROVE Calls!ReportedIsTrue'
    OBVIOUS
  <2>1. ASSUME UNCHANGED <<dos_variant, opened>> PROVE Calls!ReportedIsTrue'
    BY <2>1 DEF Calls!ReportedIsTrue
  <2>2. ASSUME NEW n \in Names, NEW acts \in SUBSET Calls!Acts, NEW access \in Calls!Access,
               Calls!OpenSucceeds(n, acts, access)
        PROVE  Calls!ReportedIsTrue'
    <3>1. /\ opened' = [reported |-> Calls!Reported(acts), did |-> Calls!Did(n, acts)]
          /\ UNCHANGED dos_variant
      BY <2>2 DEF Calls!OpenSucceeds
    <3>2. (n \notin files \/ ~Calls!Excl(acts)) /\ (n \in files \/ Calls!Creat(acts))
      BY <2>2 DEF Calls!OpenSucceeds, Calls!OpenErrno
    <3>3. dos_variant = "emulator" /\ Calls!Reported(acts) \in {"CREATED", "TRUNCATED"}
            => Calls!Did(n, acts) = Calls!Reported(acts)
      BY <3>2 DEF Calls!Reported, Calls!ReportedEmulator, Calls!Did
    <3>4. opened'.reported = Calls!Reported(acts) /\ opened'.did = Calls!Did(n, acts)
      BY <3>1
    <3> QED
      BY <3>1, <3>3, <3>4 DEF Calls!ReportedIsTrue
  <2>3. ASSUME NEW n \in Names, NEW acts \in SUBSET Calls!Acts, NEW access \in Calls!Access,
               Calls!OpenFails(n, acts) \/ Calls!OpenNoHandle(n, acts, access)
        PROVE  Calls!ReportedIsTrue'
    BY <2>1, <2>3 DEF Calls!OpenFails, Calls!OpenNoHandle, Calls!Returns
  <2>4. ASSUME NEW n \in Names, Calls!DosDelete(n) PROVE Calls!ReportedIsTrue'
    BY <2>1, <2>4 DEF Calls!DosDelete, Calls!Returns
  <2>5. ASSUME NEW h \in 0 .. MaxHandles, Calls!DosClose(h) PROVE Calls!ReportedIsTrue'
    BY <2>1, <2>5 DEF Calls!DosClose, Calls!CloseSucceeds, Calls!CloseFails, Calls!Returns
  <2>6. ASSUME NEW h \in 0 .. MaxHandles,
               \/ Calls!DosRead(h) \/ Calls!DosWrite(h)
               \/ \E known, inside \in BOOLEAN : Calls!DosSetFilePtr(h, known, inside)
        PROVE  Calls!ReportedIsTrue'
    BY <2>1, <2>6 DEF Calls!DosRead, Calls!DosWrite, Calls!DosSetFilePtr, Calls!Returns
  <2>7. CASE UNCHANGED calls
    BY <2>1, <2>7 DEF calls
  <2> QED
    BY <2>2, <2>3, <2>4, <2>5, <2>6, <2>7
       DEF Calls!Next, MCNext, LoaderStep, CallStep, AnalyzerStep, allVars, Calls!DosOpen
<1> QED
  BY <1>1, <1>2, PTL DEF MCSpec, ReportedIsTrue
-----------------------------------------------------------------------------
(* The definition of Prefixes has a solution. *)
LEMMA PrefixesExist ==
  ASSUME NEW names \in Seq(Seq(Nat))
  PROVE  \E f : f = [n \in 0 .. Len(names) |->
                       IF n = 0 THEN <<>> ELSE f[n - 1] \o <<Len(names[n])>> \o names[n]]
<1> DEFINE Good(m, f) == f = [n \in 0 .. m |->
                               IF n = 0 THEN <<>> ELSE f[n - 1] \o <<Len(names[n])>> \o names[n]]
           T == {m \in Nat : ~ \E f : Good(m, f)}
<1>1. ASSUME T # {} PROVE FALSE
  <2>1. PICK m \in T : \A j \in T : m <= j
    BY <1>1, LeastNat
  <2>2. CASE m = 0
    <3>1. Good(0, [n \in 0 .. 0 |-> <<>>])
      OBVIOUS
    <3> QED
      BY <2>1, <2>2, <3>1
  <2>3. CASE m # 0
    <3>1. m \in Nat /\ m - 1 \in Nat
      BY <2>3
    <3>2. ~(m - 1 \in T)
      <4> HIDE DEF T
      <4> QED
        BY <2>1, <3>1
    <3>3. PICK g : Good(m - 1, g)
      BY <3>1, <3>2
    <3> DEFINE f == [n \in 0 .. m |-> IF n = m THEN g[m - 1] \o <<Len(names[m])>> \o names[m]
                                      ELSE g[n]]
    <3>4. \A n \in 0 .. m : f[n] = IF n = 0 THEN <<>> ELSE f[n - 1] \o <<Len(names[n])>> \o names[n]
      <4> TAKE n \in 0 .. m
      <4>1. CASE n = m
        <5>1. m \in 0 .. m /\ m - 1 \in 0 .. m /\ m - 1 # m
          BY <3>1
        <5>2. f[m] = g[m - 1] \o <<Len(names[m])>> \o names[m]
          BY <5>1
        <5>3. f[m - 1] = g[m - 1]
          BY <5>1
        <5> QED
          BY <2>3, <4>1, <5>2, <5>3
      <4>2. CASE n # m
        <5>1. n \in 0 .. m - 1 /\ f[n] = g[n]
          BY <3>1, <4>2
        <5>2. n # 0 => f[n - 1] = g[n - 1]
          BY <3>1, <4>2
        <5>3. g[n] = IF n = 0 THEN <<>> ELSE g[n - 1] \o <<Len(names[n])>> \o names[n]
          BY <3>3, <5>1
        <5> QED
          BY <5>1, <5>2, <5>3
      <4> QED
        BY <4>1, <4>2
    <3>5. Good(m, f)
      BY <3>4
    <3> QED
      BY <2>1, <3>5
  <2> QED
    BY <2>2, <2>3
<1>2. Len(names) \in Nat
  OBVIOUS
<1> QED
  BY <1>1, <1>2

LEMMA PrefixStep ==
  ASSUME NEW names \in Seq(Seq(Nat)), NEW P, P = Analyzers!Prefixes(names)
  PROVE  /\ P[0] = <<>>
         /\ \A n \in 1 .. Len(names) : P[n] = P[n - 1] \o <<Len(names[n])>> \o names[n]
<1>1. P = [n \in 0 .. Len(names) |->
             IF n = 0 THEN <<>> ELSE P[n - 1] \o <<Len(names[n])>> \o names[n]]
  BY PrefixesExist DEF Analyzers!Prefixes
<1>2. 0 \in 0 .. Len(names) /\ \A n \in 1 .. Len(names) : n \in 0 .. Len(names) /\ n # 0
  OBVIOUS
<1>3. \A n \in 0 .. Len(names) : P[n] =
        IF n = 0 THEN <<>> ELSE P[n - 1] \o <<Len(names[n])>> \o names[n]
  BY <1>1
<1> QED
  BY <1>2, <1>3

LEMMA Joined ==
  ASSUME NEW x \in Seq(Nat), NEW y \in Nat, NEW z \in Seq(Nat), NEW c, c = x \o <<y>> \o z
  PROVE  /\ c \in Seq(Nat) /\ Len(c) = Len(x) + 1 + Len(z)
         /\ Len(x) \in Nat /\ Len(z) \in Nat
         /\ \A k \in 1 .. Len(x) : c[k] = x[k]
         /\ c[Len(x) + 1] = y
         /\ \A k \in 1 .. Len(z) : c[Len(x) + 1 + k] = z[k]
OBVIOUS

LEMMA CutFront ==
  ASSUME NEW x \in Seq(Nat), NEW b \in Nat, b <= Len(x), NEW c, c = SubSeq(x, 1, b)
  PROVE  c \in Seq(Nat) /\ Len(c) = b /\ \A k \in 1 .. b : c[k] = x[k]
<1>1. Len(c) = b
  OBVIOUS
<1>2. c \in Seq(Nat)
  OBVIOUS
<1>3. \A k \in 1 .. b : c[k] = x[k]
  OBVIOUS
<1> QED
  BY <1>1, <1>2, <1>3

LEMMA SameSeq ==
  ASSUME NEW S, NEW x \in Seq(S), NEW z \in Seq(S), Len(x) = Len(z),
         \A k \in 1 .. Len(z) : x[k] = z[k]
  PROVE  x = z
OBVIOUS

LEMMA PrefixLen ==
  ASSUME NEW names \in Seq(Seq(Nat)), NEW P, P = Analyzers!Prefixes(names)
  PROVE  /\ \A n \in 0 .. Len(names) : P[n] \in Seq(Nat)
         /\ \A n \in 1 .. Len(names) : Len(P[n]) = Len(P[n - 1]) + 1 + Len(names[n])
<1> DEFINE T == {n \in 0 .. Len(names) : P[n] \notin Seq(Nat)}
<1>1. ASSUME T # {} PROVE FALSE
  <2>1. T \in SUBSET Nat
    OBVIOUS
  <2>2. PICK m \in T : \A j \in T : m <= j
    BY <1>1, <2>1, LeastNat
  <2>3. m \in 0 .. Len(names) /\ P[m] \notin Seq(Nat)
    OBVIOUS
  <2>4. m # 0
    <3>1. <<>> \in Seq(Nat)
      OBVIOUS
    <3> QED
      BY <2>3, <3>1, PrefixStep
  <2>5. m \in 1 .. Len(names) /\ m - 1 \in 0 .. Len(names) /\ ~(m <= m - 1)
    BY <2>3, <2>4
  <2>6. P[m - 1] \in Seq(Nat)
    BY <2>2, <2>5
  <2>7. names[m] \in Seq(Nat) /\ <<Len(names[m])>> \in Seq(Nat)
    BY <2>5
  <2>8. P[m - 1] \o <<Len(names[m])>> \o names[m] \in Seq(Nat)
    BY <2>6, <2>7
  <2> QED
    BY <2>3, <2>5, <2>8, PrefixStep
<1>2. \A n \in 0 .. Len(names) : P[n] \in Seq(Nat)
  BY <1>1
<1>3. ASSUME NEW n \in 1 .. Len(names) PROVE Len(P[n]) = Len(P[n - 1]) + 1 + Len(names[n])
  <2>1. n - 1 \in 0 .. Len(names) /\ names[n] \in Seq(Nat) /\ <<Len(names[n])>> \in Seq(Nat)
    OBVIOUS
  <2>2. P[n - 1] \in Seq(Nat)
    BY <1>2, <2>1
  <2>3. P[n] = P[n - 1] \o <<Len(names[n])>> \o names[n]
    BY PrefixStep
  <2> QED
    BY <2>1, <2>2, <2>3
<1> QED
  BY <1>2, <1>3

(* The bytes of the first names are the first bytes. *)
BeginsWith(long, short) ==
  Len(short) <= Len(long) /\ \A k \in 1 .. Len(short) : long[k] = short[k]

LEMMA PrefixGrows ==
  ASSUME NEW names \in Seq(Seq(Nat)), NEW P, P = Analyzers!Prefixes(names),
         NEW m \in 0 .. Len(names), NEW n \in 0 .. Len(names), m <= n
  PROVE  BeginsWith(P[n], P[m])
<1> DEFINE Q(j) == Len(P[m]) <= Len(P[j]) /\ \A k \in 1 .. Len(P[m]) : P[j][k] = P[m][k]
           T == {j \in m .. Len(names) : ~Q(j)}
<1>0. \A j \in 0 .. Len(names) : P[j] \in Seq(Nat) /\ Len(P[j]) \in Nat
  <2>1. \A j \in 0 .. Len(names) : P[j] \in Seq(Nat)
    BY PrefixLen
  <2>2. \A x \in Seq(Nat) : Len(x) \in Nat
    OBVIOUS
  <2> QED
    BY <2>1, <2>2
<1>1. ASSUME T # {} PROVE FALSE
  <2>1. T \in SUBSET Nat
    OBVIOUS
  <2>2. PICK j \in T : \A l \in T : j <= l
    BY <1>1, <2>1, LeastNat
  <2>3. j \in m .. Len(names) /\ ~Q(j)
    OBVIOUS
  <2>4. j # m
    BY <1>0, <2>3
  <2>5. /\ j \in 1 .. Len(names) /\ j - 1 \in 0 .. Len(names)
        /\ j - 1 \in m .. Len(names) /\ ~(j <= j - 1)
    BY <2>3, <2>4
  <2>6. Q(j - 1)
    BY <2>2, <2>5
  <2>7. P[j] = P[j - 1] \o <<Len(names[j])>> \o names[j]
    BY <2>5, PrefixStep
  <2>8. Len(P[j - 1]) <= Len(P[j]) /\ \A k \in 1 .. Len(P[j - 1]) : P[j][k] = P[j - 1][k]
    <3>1. names[j] \in Seq(Nat) /\ Len(names[j]) \in Nat
      BY <2>5
    <3>2. P[j - 1] \in Seq(Nat)
      BY <1>0, <2>5
    <3>3. PICK c, x, y, z : c = P[j] /\ x = P[j - 1] /\ y = Len(names[j]) /\ z = names[j]
      OBVIOUS
    <3>4. c = x \o <<y>> \o z /\ x \in Seq(Nat) /\ y \in Nat /\ z \in Seq(Nat)
      BY <2>7, <3>1, <3>2, <3>3
    <3>5. /\ Len(c) = Len(x) + 1 + Len(z) /\ Len(x) \in Nat /\ Len(z) \in Nat
          /\ \A k \in 1 .. Len(x) : c[k] = x[k]
      BY <3>4, Joined
    <3>6. Len(x) <= Len(c)
      BY <3>5
    <3> QED
      BY <3>3, <3>5, <3>6
  <2>9. Q(j)
    <3>1. Len(P[m]) \in Nat /\ Len(P[j - 1]) \in Nat /\ Len(P[j]) \in Nat
      BY <1>0, <2>5
    <3> QED
      BY <2>6, <2>8, <3>1
  <2> QED
    BY <2>3, <2>9
<1>2. n \in m .. Len(names)
  OBVIOUS
<1> QED
  BY <1>1, <1>2 DEF BeginsWith

(* After the first n names, whose bytes are P[n], the table t of that size *)
(* holds the length of the next name, and then the name.                   *)
HoldsNext(names, P, size, t, n) ==
  /\ Len(t) = size /\ Len(P[n]) \in Nat /\ Len(names[n + 1]) \in Nat
  /\ Len(P[n + 1]) = Len(P[n]) + 1 + Len(names[n + 1])
  /\ Len(P[n]) < size => t[Len(P[n]) + 1] = Len(names[n + 1])
  /\ Len(P[n + 1]) <= size =>
       SubSeq(t, Len(P[n]) + 2, Len(P[n]) + 1 + Len(names[n + 1])) = names[n + 1]

LEMMA PrefixOfAll ==
  ASSUME NEW names \in Seq(Seq(Nat)), NEW P, P = Analyzers!Prefixes(names),
         NEW n \in 0 .. Len(names)
  PROVE  /\ Len(P[n]) <= Len(P[Len(names)])
         /\ \A k \in 1 .. Len(P[n]) : P[Len(names)][k] = P[n][k]
<1>1. PICK all : all = Len(names)
  OBVIOUS
<1>2. all \in 0 .. Len(names) /\ n <= all
  BY <1>1
<1>3. BeginsWith(P[all], P[n])
  BY <1>2, PrefixGrows
<1> QED
  BY <1>1, <1>3 DEF BeginsWith

LEMMA PrefixIsJoined ==
  ASSUME NEW names \in Seq(Seq(Nat)), NEW P, P = Analyzers!Prefixes(names),
         NEW n \in 0 .. Len(names) - 1
  PROVE  /\ Len(P[n + 1]) = Len(P[n]) + 1 + Len(names[n + 1])
         /\ Len(P[n]) \in Nat /\ Len(names[n + 1]) \in Nat
         /\ P[n + 1][Len(P[n]) + 1] = Len(names[n + 1])
         /\ \A k \in 1 .. Len(names[n + 1]) : P[n + 1][Len(P[n]) + 1 + k] = names[n + 1][k]
<1>1. PICK u, v, w, y : u = P[n] /\ v = P[n + 1] /\ w = names[n + 1] /\ y = Len(w)
  OBVIOUS
<1>2. n + 1 \in 1 .. Len(names) /\ (n + 1) - 1 = n /\ n \in 0 .. Len(names)
  OBVIOUS
<1>3. u \in Seq(Nat) /\ w \in Seq(Nat) /\ y \in Nat
  <2>1. \A k \in 0 .. Len(names) : P[k] \in Seq(Nat)
    BY PrefixLen
  <2>2. names[n + 1] \in Seq(Nat)
    BY <1>2
  <2> QED
    BY <1>1, <1>2, <2>1, <2>2
<1>4. v = u \o <<y>> \o w
  <2>1. P[n + 1] = P[(n + 1) - 1] \o <<Len(names[n + 1])>> \o names[n + 1]
    BY <1>2, PrefixStep
  <2> QED
    BY <1>1, <1>2, <2>1
<1>5. /\ Len(v) = Len(u) + 1 + Len(w) /\ Len(u) \in Nat /\ Len(w) \in Nat
      /\ v[Len(u) + 1] = y /\ \A k \in 1 .. Len(w) : v[Len(u) + 1 + k] = w[k]
  BY <1>3, <1>4, Joined
<1> QED
  BY <1>1, <1>5

LEMMA NextName ==
  ASSUME NEW names \in Seq(Seq(Nat)), NEW P, P = Analyzers!Prefixes(names),
         NEW size \in Nat, size <= Len(P[Len(names)]), NEW n \in 0 .. Len(names) - 1,
         NEW t, t = SubSeq(P[Len(names)], 1, size), Len(P[n]) <= size
  PROVE  HoldsNext(names, P, size, t, n)
<1>1. /\ n + 1 \in 1 .. Len(names) /\ n + 1 \in 0 .. Len(names) /\ (n + 1) - 1 = n
      /\ n \in 0 .. Len(names) /\ Len(names) \in 0 .. Len(names) /\ n + 1 <= Len(names)
  OBVIOUS
<1>2. PICK all, u, v, w : all = P[Len(names)] /\ u = P[n] /\ v = P[n + 1] /\ w = names[n + 1]
  OBVIOUS
<1>3. all \in Seq(Nat) /\ u \in Seq(Nat) /\ v \in Seq(Nat) /\ w \in Seq(Nat)
  <2>1. \A k \in 0 .. Len(names) : P[k] \in Seq(Nat)
    BY PrefixLen
  <2>2. names[n + 1] \in Seq(Nat)
    BY <1>1
  <2> QED
    BY <1>1, <1>2, <2>1, <2>2
<1>5. Len(v) <= Len(all) /\ \A k \in 1 .. Len(v) : all[k] = v[k]
  <2>1. /\ Len(P[n + 1]) <= Len(P[Len(names)])
        /\ \A k \in 1 .. Len(P[n + 1]) : P[Len(names)][k] = P[n + 1][k]
    BY <1>1, PrefixOfAll
  <2> QED
    BY <1>2, <2>1
<1>6. /\ Len(v) = Len(u) + 1 + Len(w) /\ Len(u) \in Nat /\ Len(w) \in Nat
      /\ v[Len(u) + 1] = Len(w) /\ \A k \in 1 .. Len(w) : v[Len(u) + 1 + k] = w[k]
  BY <1>2, PrefixIsJoined
<1>7. /\ t \in Seq(Nat) /\ Len(t) = size
      /\ \A k \in 1 .. size : t[k] = all[k]
  <2>1. t = SubSeq(all, 1, size) /\ size <= Len(all) /\ all \in Seq(Nat)
    BY <1>2, <1>3
  <2> QED
    BY <2>1, CutFront
<1>8. Len(u) < size => t[Len(u) + 1] = Len(w)
  <2>1. Len(u) < size => Len(u) + 1 \in 1 .. Len(v) /\ Len(u) + 1 \in 1 .. size
    BY <1>6
  <2> QED
    BY <1>5, <1>6, <1>7, <2>1
<1>9. ASSUME Len(v) <= size PROVE SubSeq(t, Len(u) + 2, Len(u) + 1 + Len(w)) = w
  <2>1. PICK a, b, s : a = Len(u) + 1 /\ b = Len(w) /\ s = SubSeq(t, a + 1, a + b)
    OBVIOUS
  <2>2. /\ a + b <= Len(t) /\ a \in Nat /\ b \in Nat /\ t \in Seq(Nat)
        /\ s = SubSeq(t, a + 1, a + b)
    BY <1>6, <1>7, <1>9, <2>1
  <2>3. s \in Seq(Nat) /\ Len(s) = b /\ \A k \in 1 .. b : s[k] = t[a + k]
    <3>1. Len(s) = b
      BY <2>2
    <3>2. s \in Seq(Nat)
      BY <2>2
    <3>3. \A k \in 1 .. b : s[k] = t[a + k]
      BY <2>2
    <3> QED
      BY <3>1, <3>2, <3>3
  <2>4. \A k \in 1 .. b : t[a + k] = w[k]
    <3> TAKE k \in 1 .. b
    <3>1. a + k \in 1 .. Len(v) /\ a + k \in 1 .. size
      BY <1>6, <1>9, <2>1
    <3>2. v[a + k] = w[k]
      BY <1>6, <2>1
    <3> QED
      BY <1>5, <1>7, <3>1, <3>2
  <2>5. s = w
    <3>1. Len(s) = Len(w) /\ \A k \in 1 .. Len(w) : s[k] = w[k]
      BY <2>1, <2>3, <2>4
    <3> QED
      BY <1>3, <2>3, <3>1, SameSeq
  <2>6. a + 1 = Len(u) + 2 /\ a + b = Len(u) + 1 + Len(w)
    BY <1>6, <2>1
  <2> QED
    BY <2>1, <2>5, <2>6
<1> QED
  BY <1>2, <1>6, <1>7, <1>8, <1>9 DEF HoldsNext

-----------------------------------------------------------------------------
(* The bytes of the first names, and whether the file holds them. *)
Pre == Analyzers!Prefixes(tool_file.names)
Fits(n) == Len(Pre[n]) <= tool_file.size

TableOk == tool_file \in Tables /\ tool_file.size <= Len(Pre[Len(tool_file.names)])

(* newcode has listed the names that it has passed. *)
NewcodeInv ==
  tool = "newcode" =>
    /\ tool_pc \in {"headers", "loop", "exited", "done"}
    /\ i \in 0 .. Analyzers!Count /\ pos = Len(Pre[i]) /\ Fits(i)
    /\ listed = SubSeq(tool_file.names, 1, i)
    /\ tool_pc = "done" /\ i < Analyzers!Count => ~Fits(i + 1)

(* The analyzer has stored the names that it has passed, or is at the end  *)
(* of a file that cuts the next one short.                                 *)
AnalyzerInv ==
  tool = "analyzer" /\ Analyzers!Regular =>
    /\ i \in 0 .. Analyzers!Count /\ i <= Slots /\ import_count \in 0 .. i /\ Fits(import_count)
    /\ DOMAIN imports = 0 .. Slots - 1
    /\ \A k \in 0 .. import_count - 1 : imports[k] = tool_file.names[k + 1]
    /\ pos = IF import_count = i THEN Len(Pre[i]) ELSE tool_file.size
    /\ import_count < i => ~Fits(import_count + 1)
    /\ tool_pc = "headers" => i = 0
    /\ tool_pc \in {"list", "done"} /\ import_count < Analyzers!Count /\ import_count < Slots
         => ~Fits(import_count + 1)
    /\ tool_pc = "done" =>
         listed = [k \in 1 .. import_count |-> imports[k - 1]]

ToolInv == TableOk /\ NewcodeInv /\ AnalyzerInv

LEMMA ToolFacts ==
  ASSUME TableOk
  PROVE  /\ tool_file.names \in Seq(Seq(Nat)) /\ tool_file.size \in Nat
         /\ Analyzers!Count = Len(tool_file.names) /\ Analyzers!Count \in Nat
         /\ Analyzers!Table = SubSeq(Pre[Len(tool_file.names)], 1, tool_file.size)
         /\ Len(Pre[0]) = 0
         /\ \A n \in 0 .. Analyzers!Count : Len(Pre[n]) \in Nat
<1>1. tool_file.names \in Seq(Seq(Nat)) /\ tool_file.size \in Nat
  BY WrapperAssumption DEF TableOk
<1>2. Analyzers!Count = Len(tool_file.names) /\ Analyzers!Count \in Nat
  BY <1>1 DEF Analyzers!Count
<1>3. Analyzers!Table = SubSeq(Pre[Len(tool_file.names)], 1, tool_file.size)
  BY DEF Analyzers!Table, Analyzers!Encoded, Pre
<1>4. Len(Pre[0]) = 0
  <2>1. Pre[0] = <<>>
    BY <1>1, PrefixStep DEF Pre
  <2> QED
    BY <2>1
<1>5. \A n \in 0 .. Analyzers!Count : Len(Pre[n]) \in Nat
  <2>1. \A n \in 0 .. Len(tool_file.names) : Pre[n] \in Seq(Nat)
    BY <1>1, PrefixLen DEF Pre
  <2>2. \A x \in Seq(Nat) : Len(x) \in Nat
    OBVIOUS
  <2> QED
    BY <1>2, <2>1, <2>2
<1> QED
  BY <1>1, <1>2, <1>3, <1>4, <1>5

LEMMA FitsDown ==
  ASSUME TableOk, NEW m \in 0 .. Analyzers!Count, NEW n \in 0 .. Analyzers!Count, m <= n, Fits(n)
  PROVE  Fits(m)
<1>1. Len(Pre[m]) <= Len(Pre[n])
  <2>1. m \in 0 .. Len(tool_file.names) /\ n \in 0 .. Len(tool_file.names)
    BY ToolFacts
  <2>2. BeginsWith(Pre[n], Pre[m])
    BY <2>1, ToolFacts, PrefixGrows DEF Pre
  <2> QED
    BY <2>2 DEF BeginsWith
<1> QED
  BY <1>1, ToolFacts DEF Fits

(* What a turn of either loop reads. *)
LEMMA TurnReads ==
  ASSUME TableOk, NEW n \in 0 .. Analyzers!Count - 1, Fits(n), pos = Len(Pre[n])
  PROVE  /\ Analyzers!Left = tool_file.size - pos /\ Analyzers!Left \in Nat /\ pos \in Nat
         /\ Len(tool_file.names[n + 1]) \in Nat
         /\ Analyzers!Left > 0 => Analyzers!Length = Len(tool_file.names[n + 1])
         /\ Fits(n + 1) <=> Analyzers!Left > 0 /\ Analyzers!Left > Analyzers!Length
         /\ Fits(n + 1) => /\ Analyzers!Name(Analyzers!Length) = tool_file.names[n + 1]
                           /\ pos + 1 + Analyzers!Length = Len(Pre[n + 1])
<1> DEFINE names == tool_file.names
           size == tool_file.size
           t == Analyzers!Table
           len == Len(names[n + 1])
<1>1. /\ Len(t) = size /\ Len(Pre[n]) \in Nat /\ len \in Nat
      /\ Len(Pre[n + 1]) = Len(Pre[n]) + 1 + len
      /\ Len(Pre[n]) < size => t[Len(Pre[n]) + 1] = len
      /\ Len(Pre[n + 1]) <= size => SubSeq(t, Len(Pre[n]) + 2, Len(Pre[n]) + 1 + len) = names[n + 1]
  <2>1. n \in 0 .. Len(names) - 1 /\ names \in Seq(Seq(Nat)) /\ size \in Nat
    BY ToolFacts
  <2>2. size <= Len(Pre[Len(names)]) /\ t = SubSeq(Pre[Len(names)], 1, size) /\ Len(Pre[n]) <= size
    BY ToolFacts DEF TableOk, Fits
  <2>3. Pre = Analyzers!Prefixes(names)
    BY DEF Pre
  <2> HIDE DEF names, size, t
  <2>4. HoldsNext(names, Pre, size, t, n)
    BY <2>1, <2>2, <2>3, NextName
  <2> QED
    BY <2>4 DEF HoldsNext
<1>2. size \in Nat /\ pos <= size
  BY ToolFacts DEF Fits
<1> HIDE DEF names, size, t, len
<1>3. Analyzers!Left = size - pos
  BY <1>1 DEF Analyzers!Left, t
<1>4. Analyzers!Left \in Nat /\ pos \in Nat
  BY <1>1, <1>2, <1>3
<1>5. Analyzers!Left > 0 => Analyzers!Length = len
  <2>1. Analyzers!Left > 0 => pos < size
    BY <1>2, <1>3, <1>4
  <2> QED
    BY <1>1, <2>1 DEF Analyzers!Length, t
<1>6. Fits(n + 1) <=> Analyzers!Left > 0 /\ Analyzers!Left > len
  BY <1>1, <1>2, <1>3, <1>4 DEF Fits, size
<1>7. ASSUME Fits(n + 1)
      PROVE  /\ Analyzers!Name(Analyzers!Length) = names[n + 1]
             /\ pos + 1 + Analyzers!Length = Len(Pre[n + 1])
  <2>1. Analyzers!Length = len
    BY <1>5, <1>6, <1>7
  <2>2. SubSeq(t, pos + 2, pos + 1 + len) = names[n + 1]
    BY <1>1, <1>7 DEF Fits, size
  <2> QED
    BY <1>1, <2>1, <2>2 DEF Analyzers!Name, t
<1> QED
  BY <1>1, <1>3, <1>4, <1>5, <1>6, <1>7 DEF names, size, len

LEMMA ToolInit == ASSUME MCInit PROVE ToolInv
<1>1. Analyzers!Init
  BY DEF MCInit
<1>2. TableOk
  <2>1. tool_file \in Tables
    BY <1>1 DEF Analyzers!Init
  <2>2. CASE active = "analyzers"
    BY <2>1, <2>2 DEF MCInit, TableOk, Pre, Analyzers!Encoded
  <2>3. CASE active # "analyzers"
    <3>1. tool_file.names = <<>> /\ tool_file.size = 0
      BY <2>3 DEF MCInit
    <3>2. <<>> \in Seq(Seq(Nat)) /\ Len(<<>>) = 0
      OBVIOUS
    <3>3. Pre[0] = <<>>
      BY <3>1, <3>2, PrefixStep DEF Pre
    <3>4. Len(Pre[Len(tool_file.names)]) = 0
      BY <3>1, <3>2, <3>3
    <3> QED
      BY <2>1, <3>1, <3>4 DEF TableOk
  <2> QED
    BY <2>2, <2>3
<1>3. i = 0 /\ pos = 0 /\ import_count = 0 /\ listed = <<>> /\ tool_pc = "headers"
  BY <1>1 DEF Analyzers!Init
<1>4. /\ 0 \in 0 .. Analyzers!Count /\ Fits(0) /\ pos = Len(Pre[0])
      /\ SubSeq(tool_file.names, 1, 0) = <<>>
  <2>1. Analyzers!Count \in Nat /\ tool_file.size \in Nat /\ Len(Pre[0]) = 0
    BY <1>2, ToolFacts
  <2>2. SubSeq(tool_file.names, 1, 0) = <<>>
    <3>1. tool_file.names \in Seq(Seq(Nat))
      BY <1>2, ToolFacts
    <3> QED
      BY <3>1
  <2> QED
    BY <1>3, <2>1, <2>2 DEF Fits
<1>5. NewcodeInv
  BY <1>3, <1>4 DEF NewcodeInv
<1>6. AnalyzerInv
  <2>1. DOMAIN imports = 0 .. Slots - 1
    BY <1>1 DEF Analyzers!Init
  <2> QED
    BY <1>3, <1>4, <2>1, WrapperAssumption DEF AnalyzerInv
<1> QED
  BY <1>2, <1>5, <1>6 DEF ToolInv

LEMMA OneMore ==
  ASSUME NEW names \in Seq(Seq(Nat)), NEW n \in 0 .. Len(names) - 1
  PROVE  Append(SubSeq(names, 1, n), names[n + 1]) = SubSeq(names, 1, n + 1)
OBVIOUS

LEMMA NewcodeSteps == ASSUME ToolInv, tool = "newcode", Analyzers!Next PROVE ToolInv'
<1>1. /\ TableOk /\ tool_pc \in {"headers", "loop", "exited", "done"}
      /\ i \in 0 .. Analyzers!Count /\ pos = Len(Pre[i]) /\ Fits(i)
      /\ listed = SubSeq(tool_file.names, 1, i)
  BY DEF ToolInv, NewcodeInv
<1>2. Analyzers!NewcodeHeaders \/ Analyzers!NewcodeTurn \/ Analyzers!NewcodeEnd
  BY <1>1 DEF Analyzers!Next, Analyzers!AnalyzerHeaders, Analyzers!AnalyzerTurn,
              Analyzers!AnalyzerEnd, Analyzers!List
<1>3. UNCHANGED <<tool, tool_file>>
  BY <1>2 DEF Analyzers!NewcodeHeaders, Analyzers!NewcodeTurn, Analyzers!NewcodeEnd
<1>4. TableOk' /\ AnalyzerInv' /\ Pre' = Pre /\ Analyzers!Count' = Analyzers!Count
  BY <1>1, <1>3 DEF TableOk, AnalyzerInv, Pre, Analyzers!Count
<1>5. NewcodeInv'
  <2>1. CASE Analyzers!NewcodeHeaders
    <3>1. UNCHANGED <<i, pos, listed>> /\ tool_pc' \in {"exited", "loop"}
      BY <2>1 DEF Analyzers!NewcodeHeaders, Analyzers!reader
    <3> QED
      BY <1>1, <1>3, <1>4, <3>1 DEF NewcodeInv, Fits
  <2>2. CASE Analyzers!NewcodeEnd
    <3>1. UNCHANGED <<i, pos, listed>> /\ tool_pc' = "done" /\ i >= Analyzers!Count
      BY <2>2 DEF Analyzers!NewcodeEnd, Analyzers!LoopEnd, Analyzers!reader
    <3>2. ~(i < Analyzers!Count)
      BY <1>1, <3>1, ToolFacts
    <3> QED
      BY <1>1, <1>3, <1>4, <3>1, <3>2 DEF NewcodeInv, Fits
  <2>3. CASE Analyzers!NewcodeTurn
    <3>1. i \in 0 .. Analyzers!Count - 1 /\ tool_pc = "loop"
      BY <1>1, <2>3, ToolFacts DEF Analyzers!NewcodeTurn
    <3>2. CASE Fits(i + 1)
      <4>1. Analyzers!Left > 0 /\ Analyzers!Left > Analyzers!Length
        BY <1>1, <3>1, <3>2, TurnReads
      <4>2. /\ listed' = Append(listed, tool_file.names[i + 1]) /\ pos' = Len(Pre[i + 1])
            /\ i' = i + 1 /\ tool_pc' = "loop"
        BY <1>1, <2>3, <3>1, <3>2, <4>1, TurnReads DEF Analyzers!NewcodeTurn
      <4>3. listed' = SubSeq(tool_file.names, 1, i + 1)
        BY <1>1, <3>1, <4>2, OneMore, ToolFacts
      <4>4. i' \in 0 .. Analyzers!Count
        BY <1>1, <3>1, <4>2, ToolFacts
      <4> QED
        BY <1>3, <1>4, <3>2, <4>2, <4>3, <4>4 DEF NewcodeInv, Fits
    <3>3. CASE ~Fits(i + 1)
      <4>1. ~(Analyzers!Left > 0 /\ Analyzers!Left > Analyzers!Length)
        BY <1>1, <3>1, <3>3, TurnReads
      <4>2. UNCHANGED <<listed, pos, i>> /\ tool_pc' = "done"
        BY <2>3, <4>1 DEF Analyzers!NewcodeTurn
      <4> QED
        BY <1>1, <1>3, <1>4, <3>3, <4>2 DEF NewcodeInv, Fits
    <3> QED
      BY <3>2, <3>3
  <2> QED
    BY <1>2, <2>1, <2>2, <2>3
<1> QED
  BY <1>4, <1>5 DEF ToolInv

LEMMA AnalyzerTurns ==
  ASSUME ToolInv, tool = "analyzer", Analyzers!Regular, Analyzers!AnalyzerTurn
  PROVE  AnalyzerInv'
<1> DEFINE c == import_count
           names == tool_file.names
<1>1. /\ TableOk /\ i \in 0 .. Analyzers!Count /\ c \in 0 .. i /\ Fits(c)
      /\ DOMAIN imports = 0 .. Slots - 1
      /\ \A k \in 0 .. c - 1 : imports[k] = names[k + 1]
      /\ pos = IF c = i THEN Len(Pre[i]) ELSE tool_file.size
      /\ c < i => ~Fits(c + 1)
  BY DEF ToolInv, AnalyzerInv
<1>2. /\ tool_pc = "loop" /\ tool_pc' = "loop" /\ i < Analyzers!Count /\ i < Slots /\ i' = i + 1
      /\ UNCHANGED <<tool, tool_file, listed>>
  BY DEF Analyzers!AnalyzerTurn
<1>3. Pre' = Pre /\ Analyzers!Count' = Analyzers!Count
  BY <1>2 DEF Pre, Analyzers!Count
<1>4. /\ Analyzers!Count \in Nat /\ Slots \in Nat /\ tool_file.size \in Nat
      /\ i \in 0 .. Analyzers!Count - 1 /\ i' \in 0 .. Analyzers!Count /\ i' <= Slots /\ c \in Nat
  <2>1. Analyzers!Count \in Nat /\ Slots \in Nat /\ tool_file.size \in Nat
    BY <1>1, ToolFacts, WrapperAssumption
  <2> QED
    BY <1>1, <1>2, <2>1
<1>5. CASE c = i /\ Fits(i + 1)
  <2>1. /\ Analyzers!Left > 0 /\ Analyzers!Left > Analyzers!Length
        /\ Analyzers!Length = Len(names[i + 1]) /\ Analyzers!Name(Analyzers!Length) = names[i + 1]
        /\ pos + 1 + Analyzers!Length = Len(Pre[i + 1])
    BY <1>1, <1>4, <1>5, TurnReads
  <2>2. Len(names[i + 1]) \in 1 .. Longest - 1
    <3>1. i + 1 \in DOMAIN names
      <4>1. names \in Seq(Seq(Nat)) /\ i + 1 \in 1 .. Len(names)
        BY <1>1, <1>4, ToolFacts
      <4> QED
        BY <4>1
    <3> QED
      BY <3>1 DEF Analyzers!Regular
  <2>3. Analyzers!Length > 0 /\ Analyzers!Length < Longest
    BY <2>1, <2>2, WrapperAssumption
  <2>4. /\ imports' = [imports EXCEPT ![i] = names[i + 1]]
        /\ import_count' = i + 1 /\ pos' = Len(Pre[i + 1])
    BY <1>5, <2>1, <2>3 DEF Analyzers!AnalyzerTurn
  <2>5. DOMAIN imports' = 0 .. Slots - 1 /\ i \in 0 .. Slots - 1
    BY <1>1, <1>2, <1>4, <2>4
  <2>6. \A k \in 0 .. import_count' - 1 : imports'[k] = names[k + 1]
    <3> TAKE k \in 0 .. import_count' - 1
    <3>1. k \in 0 .. Slots - 1 /\ (k = i \/ k \in 0 .. c - 1)
      BY <1>2, <1>4, <1>5, <2>4
    <3> QED
      BY <1>1, <2>4, <2>5, <3>1
  <2>7. import_count' \in 0 .. i' /\ import_count' = i'
    BY <1>2, <1>4, <2>4
  <2> QED
    BY <1>2, <1>3, <1>4, <1>5, <2>4, <2>5, <2>6, <2>7 DEF AnalyzerInv, Fits
<1>6. CASE ~(c = i /\ Fits(i + 1))
  <2>1. UNCHANGED <<imports, import_count>> /\ pos' = tool_file.size
    <3>1. CASE c = i
      <4>1. /\ ~(Analyzers!Left > 0 /\ Analyzers!Left > Analyzers!Length)
            /\ Analyzers!Left = tool_file.size - pos /\ Analyzers!Left \in Nat /\ pos \in Nat
            /\ Analyzers!Left > 0 => Analyzers!Length = Len(names[i + 1])
        BY <1>1, <1>4, <1>6, <3>1, TurnReads
      <4>2. CASE Analyzers!Left > 0
        <5>1. Analyzers!Length \in 1 .. Longest - 1
          <6>1. i + 1 \in DOMAIN names
            <7>1. names \in Seq(Seq(Nat)) /\ i + 1 \in 1 .. Len(names)
              BY <1>1, <1>4, ToolFacts
            <7> QED
              BY <7>1
          <6> QED
            BY <4>1, <4>2, <6>1 DEF Analyzers!Regular
        <5>2. Analyzers!Length > 0 /\ Analyzers!Length < Longest
          BY <5>1, WrapperAssumption
        <5>3. Len(Analyzers!Table) = tool_file.size
          <6>1. Len(Analyzers!Table) - pos = tool_file.size - pos /\ Len(Analyzers!Table) \in Nat
            <7>1. Analyzers!Table = SubSeq(Pre[Len(names)], 1, tool_file.size)
              BY <1>1, ToolFacts
            <7>2. Len(Analyzers!Table) \in Nat
              BY <1>4, <7>1
            <7> QED
              BY <4>1, <7>2 DEF Analyzers!Left
          <6> QED
            BY <1>4, <4>1, <6>1
        <5> QED
          BY <4>1, <4>2, <5>2, <5>3 DEF Analyzers!AnalyzerTurn
      <4>3. CASE ~(Analyzers!Left > 0)
        <5>1. pos = tool_file.size
          BY <1>4, <4>1, <4>3
        <5> QED
          BY <4>3, <5>1 DEF Analyzers!AnalyzerTurn
      <4> QED
        BY <4>2, <4>3
    <3>2. CASE c # i
      <4>1. pos = tool_file.size
        BY <1>1, <3>2
      <4>2. ~(Analyzers!Left > 0)
        <5>1. Analyzers!Table = SubSeq(Pre[Len(names)], 1, tool_file.size)
          BY <1>1, ToolFacts
        <5>2. Len(Analyzers!Table) = tool_file.size
          BY <1>4, <5>1
        <5> QED
          BY <1>4, <4>1, <5>2 DEF Analyzers!Left
      <4> QED
        BY <4>1, <4>2 DEF Analyzers!AnalyzerTurn
    <3> QED
      BY <3>1, <3>2
  <2>2. ~Fits(c + 1)
    BY <1>1, <1>4, <1>6
  <2>3. c < i' /\ c \in 0 .. i' /\ c # i'
    BY <1>1, <1>2, <1>4
  <2> QED
    BY <1>1, <1>2, <1>3, <1>4, <2>1, <2>2, <2>3 DEF AnalyzerInv, Fits
<1> QED
  BY <1>5, <1>6

LEMMA AnalyzerSteps == ASSUME ToolInv, tool # "newcode", Analyzers!Next PROVE ToolInv'
<1>1. UNCHANGED <<tool, tool_file>>
  BY DEF Analyzers!Next, Analyzers!NewcodeHeaders, Analyzers!NewcodeTurn, Analyzers!NewcodeEnd,
         Analyzers!AnalyzerHeaders, Analyzers!AnalyzerTurn, Analyzers!AnalyzerEnd, Analyzers!List
<1>2. /\ TableOk /\ TableOk' /\ NewcodeInv' /\ Pre' = Pre /\ Analyzers!Count' = Analyzers!Count
      /\ Analyzers!Regular' = Analyzers!Regular
  BY <1>1 DEF ToolInv, TableOk, NewcodeInv, Pre, Analyzers!Count, Analyzers!Regular
<1>3. ASSUME tool = "analyzer", Analyzers!Regular PROVE AnalyzerInv'
  <2>1. AnalyzerInv /\ Analyzers!Count \in Nat /\ Slots \in Nat
    BY <1>2, ToolFacts, WrapperAssumption DEF ToolInv
  <2>2. CASE Analyzers!AnalyzerTurn
    BY <1>3, <2>2, AnalyzerTurns
  <2>3. CASE Analyzers!AnalyzerHeaders
    <3>1. /\ UNCHANGED <<i, pos, imports, import_count>> /\ tool_pc = "headers"
          /\ tool_pc' \in {"exited", "loop", "list"}
          /\ tool_pc' = "list" => ~(Analyzers!Count = 0 \/ tool_file.size > 0)
      BY <2>3 DEF Analyzers!AnalyzerHeaders, Analyzers!reader
    <3>2. i = 0 /\ import_count = 0
      BY <1>3, <2>1, <3>1 DEF AnalyzerInv
    <3>3. tool_pc' = "list" => ~Fits(1)
      <4>1. ASSUME tool_pc' = "list" PROVE tool_file.size = 0 /\ 0 \in 0 .. Analyzers!Count - 1
        BY <1>2, <2>1, <3>1, <4>1, ToolFacts
      <4>2. ASSUME tool_pc' = "list" PROVE Len(Pre[1]) = Len(Pre[0]) + 1 + Len(tool_file.names[1])
                                          /\ Len(tool_file.names[1]) \in Nat
        <5>1. tool_file.names \in Seq(Seq(Nat)) /\ 1 \in 1 .. Len(tool_file.names)
          BY <1>2, <4>1, <4>2, ToolFacts
        <5>2. Len(Pre[1]) = Len(Pre[1 - 1]) + 1 + Len(tool_file.names[1])
          BY <5>1, PrefixLen DEF Pre
        <5>3. tool_file.names[1] \in Seq(Nat)
          BY <5>1
        <5> QED
          BY <5>2, <5>3
      <4>3. Len(Pre[0]) = 0
        BY <1>2, ToolFacts
      <4>4. ASSUME tool_pc' = "list" PROVE ~(Len(Pre[1]) <= tool_file.size)
        BY <4>1, <4>2, <4>3, <4>4
      <4> QED
        BY <4>4 DEF Fits
    <3> QED
      BY <1>1, <1>2, <1>3, <2>1, <3>1, <3>2, <3>3 DEF AnalyzerInv, Fits
  <2>4. CASE Analyzers!AnalyzerEnd
    <3>1. /\ UNCHANGED <<i, pos, imports, import_count>> /\ tool_pc' = "list"
          /\ i >= Analyzers!Count \/ i >= Slots
      BY <2>4 DEF Analyzers!AnalyzerEnd, Analyzers!LoopEnd, Analyzers!reader
    <3>2. import_count < Analyzers!Count /\ import_count < Slots => import_count < i
      BY <1>3, <2>1, <3>1 DEF AnalyzerInv
    <3> QED
      BY <1>1, <1>2, <1>3, <2>1, <3>1, <3>2 DEF AnalyzerInv, Fits
  <2>5. CASE Analyzers!List
    <3>1. /\ UNCHANGED <<i, pos, imports, import_count>> /\ tool_pc = "list" /\ tool_pc' = "done"
          /\ listed' = [k \in 1 .. import_count |-> imports[k - 1]]
      BY <2>5 DEF Analyzers!List, Analyzers!reader
    <3> QED
      BY <1>1, <1>2, <1>3, <2>1, <3>1 DEF AnalyzerInv, Fits
  <2> QED
    BY <1>3, <2>2, <2>3, <2>4, <2>5 DEF Analyzers!Next, Analyzers!NewcodeHeaders,
       Analyzers!NewcodeTurn, Analyzers!NewcodeEnd
<1>4. AnalyzerInv'
  BY <1>1, <1>2, <1>3 DEF AnalyzerInv
<1> QED
  BY <1>2, <1>4 DEF ToolInv

(* A number of names that fit, of which the next does not, is that of the  *)
(* names that lie in the file as a whole.                                  *)
LEMMA WholeIs ==
  ASSUME TableOk, NEW n \in 0 .. Analyzers!Count, Fits(n), n < Analyzers!Count => ~Fits(n + 1)
  PROVE  Analyzers!Whole = SubSeq(tool_file.names, 1, n)
<1> DEFINE Q(k) == /\ Len(Pre[k]) <= tool_file.size
                   /\ k < Analyzers!Count => Len(Pre[k + 1]) > tool_file.size
<1>0. \A k \in 0 .. Analyzers!Count : Len(Pre[k]) > tool_file.size <=> ~Fits(k)
  BY ToolFacts DEF Fits
<1>1. Analyzers!Count \in Nat
  BY ToolFacts
<1>2. ASSUME NEW k \in 0 .. Analyzers!Count, Q(k) PROVE k = n
  <2>1. ASSUME k < n PROVE FALSE
    <3>1. k + 1 \in 0 .. Analyzers!Count /\ k + 1 <= n /\ k < Analyzers!Count
      BY <1>1, <2>1
    <3>2. Fits(k + 1)
      BY <3>1, FitsDown
    <3> QED
      BY <1>0, <1>2, <3>1, <3>2
  <2>2. ASSUME n < k PROVE FALSE
    <3>1. n + 1 \in 0 .. Analyzers!Count /\ n + 1 <= k /\ n < Analyzers!Count
      BY <1>1, <2>2
    <3>2. Fits(n + 1)
      BY <1>2, <3>1, FitsDown DEF Fits
    <3> QED
      BY <3>1, <3>2
  <2> QED
    BY <1>1, <2>1, <2>2
<1>3. n = CHOOSE k \in 0 .. Analyzers!Count : Q(k)
  <2>1. Q(n)
    <3>1. n < Analyzers!Count => n + 1 \in 0 .. Analyzers!Count
      BY <1>1
    <3> QED
      BY <1>0, <3>1 DEF Fits
  <2> HIDE DEF Q
  <2> QED
    BY <1>2, <2>1
<1>4. Analyzers!Whole = SubSeq(tool_file.names, 1, CHOOSE k \in 0 .. Analyzers!Count : Q(k))
  BY DEF Analyzers!Whole, Pre
<1> QED
  BY <1>3, <1>4

(* There is one, at least as large as any number of names that fit. *)
LEMMA WholeExists ==
  ASSUME TableOk, NEW c \in 0 .. Analyzers!Count, Fits(c)
  PROVE  \E n \in c .. Analyzers!Count : Fits(n) /\ (n < Analyzers!Count => ~Fits(n + 1))
<1> DEFINE T == {n \in c .. Analyzers!Count : n < Analyzers!Count => ~Fits(n + 1)}
<1>1. Analyzers!Count \in Nat
  BY ToolFacts
<1>2. Analyzers!Count \in T
  BY <1>1
<1>3. T \in SUBSET Nat
  BY <1>1
<1>4. PICK n \in T : \A k \in T : n <= k
  BY <1>2, <1>3, LeastNat
<1>5. n \in c .. Analyzers!Count /\ (n < Analyzers!Count => ~Fits(n + 1))
  OBVIOUS
<1>6. CASE n = c
  BY <1>5, <1>6
<1>7. CASE n # c
  <2>1. n - 1 \in c .. Analyzers!Count /\ ~(n <= n - 1) /\ (n - 1) + 1 = n
    BY <1>1, <1>5, <1>7
  <2>2. ~(n - 1 \in T)
    <3> HIDE DEF T
    <3> QED
      BY <1>4, <2>1
  <2>3. Fits((n - 1) + 1)
    BY <2>1, <2>2
  <2> QED
    BY <1>5, <2>1, <2>3
<1> QED
  BY <1>6, <1>7

LEMMA CutTwice ==
  ASSUME NEW names \in Seq(Seq(Nat)), NEW n \in 0 .. Len(names), NEW m \in 0 .. n
  PROVE  /\ SubSeq(SubSeq(names, 1, n), 1, m) = SubSeq(names, 1, m)
         /\ Len(SubSeq(names, 1, n)) = n
         /\ [k \in 1 .. m |-> names[k]] = SubSeq(names, 1, m)
<1>1. Len(SubSeq(names, 1, n)) = n
  OBVIOUS
<1>2. SubSeq(SubSeq(names, 1, n), 1, m) = SubSeq(names, 1, m)
  OBVIOUS
<1>3. [k \in 1 .. m |-> names[k]] = SubSeq(names, 1, m)
  OBVIOUS
<1> QED
  BY <1>1, <1>2, <1>3

LEMMA AnalyzerLists ==
  ASSUME ToolInv, tool = "analyzer", Analyzers!Regular, tool_pc = "done"
  PROVE  listed = SubSeq(Analyzers!Whole, 1, IF Len(Analyzers!Whole) < Slots
                                             THEN Len(Analyzers!Whole) ELSE Slots)
<1> DEFINE c == import_count
           names == tool_file.names
<1>1. /\ TableOk /\ i \in 0 .. Analyzers!Count /\ i <= Slots /\ c \in 0 .. i /\ Fits(c)
      /\ \A k \in 0 .. c - 1 : imports[k] = names[k + 1]
      /\ c < Analyzers!Count /\ c < Slots => ~Fits(c + 1)
      /\ listed = [k \in 1 .. c |-> imports[k - 1]]
  BY DEF ToolInv, AnalyzerInv
<1>2. /\ Analyzers!Count = Len(names) /\ Analyzers!Count \in Nat /\ names \in Seq(Seq(Nat))
      /\ Slots \in Nat
  BY <1>1, ToolFacts, WrapperAssumption
<1> HIDE DEF names, c
<1>3. c \in 0 .. Analyzers!Count /\ c <= Slots
  BY <1>1, <1>2
<1>4. PICK n \in c .. Analyzers!Count : Fits(n) /\ (n < Analyzers!Count => ~Fits(n + 1))
  BY <1>1, <1>3, WholeExists
<1>5. n \in 0 .. Analyzers!Count /\ c \in 0 .. n /\ n \in 0 .. Len(names)
  BY <1>2, <1>3
<1>6. Analyzers!Whole = SubSeq(names, 1, n)
  BY <1>1, <1>4, <1>5, WholeIs DEF names
<1>7. n = c \/ c = Slots
  <2>1. ASSUME n # c, c # Slots PROVE FALSE
    <3>1. c < Analyzers!Count /\ c < Slots /\ c + 1 \in 0 .. Analyzers!Count /\ c + 1 <= n
      BY <1>2, <1>3, <1>5, <2>1
    <3>2. Fits(c + 1)
      BY <1>1, <1>4, <1>5, <3>1, FitsDown
    <3> QED
      BY <1>1, <3>1, <3>2
  <2> QED
    BY <2>1
<1>8. Len(Analyzers!Whole) = n /\ (IF n < Slots THEN n ELSE Slots) = c
  <2>1. Len(Analyzers!Whole) = n
    BY <1>2, <1>5, <1>6, CutTwice
  <2> QED
    BY <1>2, <1>3, <1>5, <1>7, <2>1
<1>9. listed = SubSeq(Analyzers!Whole, 1, c)
  <2>1. listed = [k \in 1 .. c |-> names[k]]
    <3>1. \A k \in 1 .. c : imports[k - 1] = names[k]
      <4> TAKE k \in 1 .. c
      <4>1. k - 1 \in 0 .. c - 1 /\ (k - 1) + 1 = k
        BY <1>3
      <4> QED
        BY <1>1, <4>1
    <3> QED
      BY <1>1, <3>1
  <2> QED
    BY <1>2, <1>5, <1>6, <2>1, CutTwice
<1> QED
  BY <1>8, <1>9

(* Both analyzers list the modules that the file names as a whole, in      *)
(* order, for every table of names and wherever the file is cut: newcode   *)
(* with names of any length, the analyzer with names of the lengths that   *)
(* it accepts and up to the entries it has.                                *)
THEOREM ImportsAreListed == MCSpec => []ListsImports
<1>1. MCInit => ToolInv
  BY ToolInit
<1>2. ToolInv /\ [MCNext]_allVars => ToolInv'
  <2> SUFFICES ASSUME ToolInv, [MCNext]_allVars PROVE ToolInv'
    OBVIOUS
  <2>1. CASE Analyzers!Next
    BY <2>1, NewcodeSteps, AnalyzerSteps
  <2>2. CASE UNCHANGED analyzers
    <3>1. UNCHANGED <<tool, tool_pc, tool_file, pos, i, imports, import_count, listed>>
      BY <2>2 DEF analyzers
    <3>2. /\ Pre' = Pre /\ Analyzers!Count' = Analyzers!Count
          /\ Analyzers!Regular' = Analyzers!Regular
      BY <3>1 DEF Pre, Analyzers!Count, Analyzers!Regular
    <3>3. TableOk' = TableOk
      BY <3>1, <3>2 DEF TableOk
    <3>4. NewcodeInv' = NewcodeInv
      BY <3>1, <3>2 DEF NewcodeInv, Fits
    <3>5. AnalyzerInv' = AnalyzerInv
      BY <3>1, <3>2 DEF AnalyzerInv, Fits
    <3> QED
      BY <3>3, <3>4, <3>5 DEF ToolInv
  <2> QED
    BY <2>1, <2>2 DEF MCNext, LoaderStep, CallStep, AnalyzerStep, allVars
<1>3. ToolInv => ListsImports
  <2> SUFFICES ASSUME ToolInv, tool_pc = "done" PROVE
        /\ tool = "newcode" => listed = Analyzers!Whole
        /\ tool = "analyzer" /\ Analyzers!Regular =>
             listed = SubSeq(Analyzers!Whole, 1, IF Len(Analyzers!Whole) < Slots
                                                 THEN Len(Analyzers!Whole) ELSE Slots)
    BY DEF ListsImports, Analyzers!ListsImports
  <2>1. ASSUME tool = "newcode" PROVE listed = Analyzers!Whole
    BY <2>1, WholeIs DEF ToolInv, NewcodeInv
  <2> QED
    BY <2>1, AnalyzerLists
<1> QED
  BY <1>1, <1>2, <1>3, PTL DEF MCSpec
=============================================================================
