------------------------------ MODULE LELoader ------------------------------
(***************************************************************************)
(* The two LE loaders: os2run (os2_with_api.c) and os2loader               *)
(* (os2_loader.c).  Both read the file, check its headers, map one object  *)
(* after the other, call the entry point and free what they hold.  They    *)
(* differ in the protection of a mapping and in what they copy into it.    *)
(* Bytes come in units; a file is its size, its object table and the       *)
(* object of its entry point, and a unit of memory is the offset in the    *)
(* file it was copied from, or Zero.                                       *)
(***************************************************************************)
EXTENDS Integers, Sequences, FiniteSets

CONSTANTS
  Variants,         \* the loaders that may be the one that runs
  Align,            \* units of a page of memory, 0x1000
  PageSize,         \* le_header->page_size, in units
  DataOffset,       \* le_header->data_pages_offset
  Word,             \* 2^32, in units
  Files             \* files: [size, objects, eip_object]

Rights == {"R", "W", "X"}
Objects ==
  [virtual_size : 0 .. Word - 1, flags : SUBSET Rights,
   page_table_index : 0 .. Word - 1, page_table_entries : 0 .. Word - 1]

ASSUME LELoaderAssumption ==
  /\ Variants \subseteq {"with_api", "loader"}
  /\ Align \in Nat \ {0} /\ PageSize \in Nat \ {0} /\ Word \in Nat \ {0}
  /\ DataOffset \in Nat
  /\ \A f \in Files : /\ f.size \in 0 .. Word - 1 /\ f.eip_object \in 0 .. Word - 1
                      /\ f.objects \in Seq(Objects)

VARIABLES
  variant,    \* whose load_objects runs: "with_api" or "loader"
  pc,         \* where the loader is
  file,       \* the file that was read
  heap,       \* the malloc blocks it holds
  fd,         \* whether the file is open
  mem,        \* loaded_objects: the mappings made so far
  entry,      \* the object of entry_point, 0 for none
  unnoticed   \* history: an mprotect has failed, which the loader ignores

vars == <<variant, pc, file, heap, fd, mem, entry, unnoticed>>

Zero == -1
NoFile == [size |-> 0, objects |-> <<>>, eip_object |-> 0]
Blocks == {"exe", "file_data", "loaded_objects"}

Init ==
  /\ variant \in Variants
  /\ pc = "start" /\ file = NoFile /\ heap = {} /\ fd = FALSE /\ mem = <<>> /\ entry = 0
  /\ unnoticed = FALSE

-----------------------------------------------------------------------------
(* read_file and parse_le_exe. *)

CallocExe ==
  /\ pc = "start"
  /\ \/ pc' = "open" /\ heap' = {"exe"}
     \/ pc' = "exited" /\ UNCHANGED heap
  /\ UNCHANGED <<variant, file, fd, mem, entry, unnoticed>>

OpenFile ==
  /\ pc = "open"
  /\ \/ pc' = "read" /\ fd' = TRUE /\ UNCHANGED heap
     \/ pc' = "exited" /\ heap' = heap \ {"exe"} /\ UNCHANGED fd
  /\ UNCHANGED <<variant, file, mem, entry, unnoticed>>

(* lseek, malloc and read fail alike: nothing is kept. *)
ReadFile ==
  /\ pc = "read"
  /\ fd' = FALSE
  /\ \/ pc' = "parse" /\ heap' = heap \cup {"file_data"} /\ file' \in Files
     \/ pc' = "exited" /\ heap' = heap \ {"exe"} /\ UNCHANGED file
  /\ UNCHANGED <<variant, mem, entry, unnoticed>>

(* Either magic may be wrong. *)
parse_le_exe ==
  /\ pc = "parse"
  /\ \/ pc' = "calloc" /\ UNCHANGED heap
     \/ pc' = "exited" /\ heap' = heap \ {"file_data", "exe"}
  /\ UNCHANGED <<variant, file, fd, mem, entry, unnoticed>>

-----------------------------------------------------------------------------
(* load_objects. *)

CallocObjects ==
  /\ pc = "calloc"
  /\ \/ pc' = "map" /\ heap' = heap \cup {"loaded_objects"}
     \/ pc' = "free" /\ UNCHANGED heap
  /\ UNCHANGED <<variant, file, fd, mem, entry, unnoticed>>

ProtWithApi(obj) == {"R"} \cup (obj.flags \cap {"W", "X"})
ProtLoader(obj) == obj.flags
Prot(obj) == IF variant = "with_api" THEN ProtWithApi(obj) ELSE ProtLoader(obj)

AllocSize(obj) == (((obj.virtual_size + Align - 1) % Word) \div Align) * Align
PageOffset(obj) == ((obj.page_table_index - 1) * PageSize) % Word

(* What is copied: how much, and from where. *)
CopyWithApi(obj) ==
  LET offset == (DataOffset + PageOffset(obj)) % Word
      fits == (offset + obj.virtual_size) % Word <= file.size
  IN  IF obj.page_table_entries = 0 \/ obj.page_table_index = 0 \/ offset >= file.size
      THEN [size |-> 0, from |-> 0]
      ELSE [size |-> IF fits THEN obj.virtual_size ELSE file.size - offset,
            from |-> offset]

CopyLoader(obj) ==
  LET pages == (obj.page_table_entries * PageSize) % Word
      size == IF obj.virtual_size < pages THEN obj.virtual_size ELSE pages
      fits == (DataOffset + PageOffset(obj) + size) % Word <= file.size
  IN  [size |-> IF fits THEN size ELSE 0, from |-> DataOffset + PageOffset(obj)]

Copy(obj) == IF variant = "with_api" THEN CopyWithApi(obj) ELSE CopyLoader(obj)

Object == file.objects[Len(mem)]     \* the one that is being loaded
Last == mem[Len(mem)]                \* and its mapping

(* mmap fails for want of memory, or because the object is empty. *)
MmapFails ==
  /\ pc = "map" /\ Len(mem) < Len(file.objects)
  /\ pc' = "free"
  /\ UNCHANGED <<variant, file, heap, fd, mem, entry, unnoticed>>

MmapObject ==
  /\ pc = "map" /\ Len(mem) < Len(file.objects)
  /\ LET obj == file.objects[Len(mem) + 1]
     IN  /\ AllocSize(obj) > 0
         /\ mem' = Append(mem, [prot |-> Prot(obj),
                                data |-> [u \in 0 .. AllocSize(obj) - 1 |-> Zero]])
         /\ pc' = IF Copy(obj).size = 0 THEN "map"
                  ELSE IF variant = "with_api" /\ "W" \notin Prot(obj) THEN "unprotect"
                  ELSE "copy"
  /\ UNCHANGED <<variant, file, heap, fd, entry, unnoticed>>

(* Mutant: the mapping is not made writable. *)
UnprotectSkipped ==
  pc = "unprotect" /\ pc' = "copy" /\ UNCHANGED <<variant, mem, file, heap, fd, entry, unnoticed>>

(* The temporary mprotect around the copy, which os2loader has not. *)
Unprotect ==
  /\ pc = "unprotect" /\ pc' = "copy"
  /\ \/ mem' = [mem EXCEPT ![Len(mem)].prot = @ \cup {"W"}] /\ UNCHANGED unnoticed
     \/ unnoticed' = TRUE /\ UNCHANGED mem
  /\ UNCHANGED <<variant, file, heap, fd, entry>>

(* Mutant: the copy starts at the beginning of the data pages. *)
MemcpyFromStart ==
  /\ pc = "copy" /\ pc' = "protect"
  /\ mem' = [mem EXCEPT ![Len(mem)].data =
       [u \in DOMAIN @ |-> IF u < Copy(Object).size THEN DataOffset + u ELSE @[u]]]
  /\ UNCHANGED <<variant, file, heap, fd, entry, unnoticed>>

(* memcpy faults on a mapping that is not writable. *)
Memcpy ==
  /\ pc = "copy"
  /\ \/ /\ "W" \in Last.prot /\ pc' = "protect"
        /\ mem' = [mem EXCEPT ![Len(mem)].data =
             [u \in DOMAIN @ |-> IF u < Copy(Object).size THEN Copy(Object).from + u
                                 ELSE @[u]]]
     \/ "W" \notin Last.prot /\ pc' = "crashed" /\ UNCHANGED mem
  /\ UNCHANGED <<variant, file, heap, fd, entry, unnoticed>>

(* The protection is restored; nothing is done if it was not touched. *)
Protect ==
  /\ pc = "protect" /\ pc' = "map"
  /\ \/ mem' = [mem EXCEPT ![Len(mem)].prot = Prot(Object)] /\ UNCHANGED unnoticed
     \/ "W" \notin Prot(Object) /\ unnoticed' = TRUE /\ UNCHANGED mem
  /\ UNCHANGED <<variant, file, heap, fd, entry>>

(* eip_object counts from 1. *)
EntryPoint ==
  /\ pc = "map" /\ Len(mem) = Len(file.objects)
  /\ entry' = IF file.eip_object \in 1 .. Len(file.objects) THEN file.eip_object ELSE 0
  /\ pc' = IF variant = "with_api" THEN "imports" ELSE "execute"
  /\ UNCHANGED <<variant, file, heap, fd, mem, unnoticed>>

-----------------------------------------------------------------------------
(* process_imports and apply_fixups only report what the file asks for. *)
process_imports == pc = "imports" /\ pc' = "fixups" /\ UNCHANGED <<variant, file, heap, fd, mem, entry, unnoticed>>
apply_fixups == pc = "fixups" /\ pc' = "execute" /\ UNCHANGED <<variant, file, heap, fd, mem, entry, unnoticed>>

(* The program returns, or ends the process with DosExit. *)
execute_os2_program ==
  /\ pc = "execute"
  /\ \/ entry = 0 /\ pc' = "free"
     \/ entry # 0 /\ "X" \notin mem[entry].prot /\ pc' = "crashed"
     \/ entry # 0 /\ "X" \in mem[entry].prot /\ pc' \in {"free", "gone"}
  /\ UNCHANGED <<variant, file, heap, fd, mem, entry, unnoticed>>

(* Mutant: the mappings are left when there are fewer than objects. *)
FreeAllOrNone ==
  /\ pc = "free" /\ pc' = "exited"
  /\ mem' = IF Len(mem) = Len(file.objects) THEN <<>> ELSE mem
  /\ heap' = {} /\ UNCHANGED <<variant, file, fd, entry, unnoticed>>

free_os2_exe ==
  /\ pc = "free" /\ pc' = "exited"
  /\ mem' = IF "loaded_objects" \in heap THEN <<>> ELSE mem
  /\ heap' = {} /\ UNCHANGED <<variant, file, fd, entry, unnoticed>>

Next ==
  \/ CallocExe \/ OpenFile \/ ReadFile \/ parse_le_exe
  \/ CallocObjects \/ MmapFails \/ MmapObject \/ Unprotect \/ Memcpy \/ Protect
  \/ EntryPoint \/ process_imports \/ apply_fixups \/ execute_os2_program
  \/ free_os2_exe

Spec == Init /\ [][Next]_vars
-----------------------------------------------------------------------------
(* main returns with the file closed, every block freed and every mapping  *)
(* undone by free_os2_exe, whichever call failed on the way, mmap of the   *)
(* second object after the first was loaded included.                      *)
NothingLeaks == pc = "exited" => heap = {} /\ ~fd /\ mem = <<>>

Loaded == pc \in {"imports", "fixups", "execute"}

(* The sums and products that the loaders form of an object's fields fit   *)
(* in 32 bits, and an object that has no first page has no pages.  The     *)
(* loaders do not check this; the copies are right for such files.         *)
Regular(obj) ==
  /\ obj.page_table_index = 0 => obj.page_table_entries = 0
  /\ DataOffset + obj.page_table_index * PageSize + obj.virtual_size < Word
  /\ obj.page_table_entries * PageSize < Word
  /\ obj.virtual_size + Align <= Word

RegularFiles == \A f \in Files : \A k \in 1 .. Len(f.objects) : Regular(f.objects[k])

(* memcpy in load_objects faults neither on what it reads nor on what it   *)
(* writes: a copy ends inside the file (the adjusted copy_size) and inside *)
(* the mapping (the aligned size), and in os2run it goes to memory that is *)
(* writable then, unless an mprotect has failed.                           *)
CopyDoesNotFault ==
  pc = "copy" =>
    /\ Copy(Object).from + Copy(Object).size <= file.size
    /\ 0 .. Copy(Object).size - 1 \subseteq DOMAIN Last.data
    /\ variant = "with_api" /\ ~unnoticed => "W" \in Last.prot

(* The units of an object that its pages hold, and where they are. *)
InPages(obj, u) ==
  obj.page_table_index > 0 /\ u < obj.virtual_size /\ u < obj.page_table_entries * PageSize
FilePos(obj, u) == DataOffset + (obj.page_table_index - 1) * PageSize + u

(* What runs is what the file describes.  os2run loads everything the file *)
(* holds of an object's pages, a last page that the file cuts short        *)
(* included (the adjusted copy_size).  os2loader may load nothing of an    *)
(* object, but what it loads is from the object's own pages: the rest is   *)
(* zero, not the page of a neighbour.  And every object has the protection *)
(* its flags ask for, although load_objects changes it twice for one that  *)
(* is not writable.                                                        *)
MemoryMatchesFile ==
  Loaded => \A k \in 1 .. Len(mem) :
    LET obj == file.objects[k]
    IN  /\ ~unnoticed => mem[k].prot = Prot(obj)
        /\ \A u \in DOMAIN mem[k].data :
             /\ variant = "with_api" /\ InPages(obj, u) /\ FilePos(obj, u) < file.size
                  => mem[k].data[u] = FilePos(obj, u)
             /\ variant = "loader" /\ mem[k].data[u] # Zero
                  => InPages(obj, u) /\ mem[k].data[u] = FilePos(obj, u)

(* What os2Loader.md says of os2loader: it loads the data of each object,  *)
(* and gives the object its protection.  load_objects of os2loader maps an *)
(* object with that protection first, and copies the data then, so that    *)
(* the copy into code faults.                                              *)
LoaderCopies == variant = "loader" /\ pc = "copy" => "W" \in Last.prot
=============================================================================
