------------------------------- MODULE RamFS -------------------------------
(***************************************************************************)
(* The RAM file system of SimpleOS (ramfs.c) behind the shell commands     *)
(* touch, rm, cat, write and df (kernel.c).  A file is a slot with a name  *)
(* and a data array that keeps stale bytes beyond size.                    *)
(*                                                                         *)
(* The shell cuts a typed name to RAMFS_MAX_FILENAME - 1 characters before *)
(* it calls: Filename says which name each typed one becomes.  The call is *)
(* interrupted but never re-entered, so each is one action.                *)
(***************************************************************************)
EXTENDS Integers, Sequences, FiniteSets

CONSTANTS
  Typed,          \* names a user types
  Filename,       \* the name each is cut to
  Contents,       \* sequences of bytes a user writes
  MaxFiles,       \* RAMFS_MAX_FILES
  MaxFileSize     \* RAMFS_MAX_FILESIZE

ASSUME RamFSAssumption ==
  /\ MaxFiles \in Nat /\ MaxFileSize \in Nat
  /\ Contents \subseteq Seq(Nat)
  /\ \A s \in Contents : Len(s) > 0    \* write refuses empty text
  /\ Typed = DOMAIN Filename

VARIABLES
  used, name, data, size,   \* the fields of files[i]
  ret,                      \* what the last call returned
  out                       \* the bytes cat was given

vars == <<used, name, data, size, ret, out>>

Slots == 0 .. MaxFiles - 1
Names == {Filename[t] : t \in Typed}
NoName == ""
Byte == 1 .. MaxFileSize

Init ==
  /\ used = [i \in Slots |-> FALSE]
  /\ name = [i \in Slots |-> NoName]
  /\ data = [i \in Slots |-> [b \in Byte |-> 0]]
  /\ size = [i \in Slots |-> 0]
  /\ ret = 0 /\ out = <<>>

First(S) == {i \in S : \A j \in S : i <= j}

(* The slot of the file, and the first free slot, if there are any. *)
find_file(n) == First({i \in Slots : used[i] /\ name[i] = n})
find_free_slot == First({i \in Slots : ~used[i]})

Smaller(a, b) == IF a < b THEN a ELSE b

(* mem_copy of the first k bytes of s behind the first o bytes of d. *)
mem_copy(d, o, s, k) == [b \in Byte |-> IF b \in o + 1 .. o + k THEN s[b - o] ELSE d[b]]

Zeroed == [b \in Byte |-> 0]

Fails == ret' = -1 /\ out' = <<>> /\ UNCHANGED <<used, name, data, size>>

-----------------------------------------------------------------------------
ramfs_create(n) ==
  \/ /\ find_file(n) = {}
     /\ \E i \in find_free_slot :
          /\ used' = [used EXCEPT ![i] = TRUE]
          /\ name' = [name EXCEPT ![i] = n]
          /\ data' = [data EXCEPT ![i] = Zeroed]
          /\ size' = [size EXCEPT ![i] = 0]
          /\ ret' = 0 /\ out' = <<>>
  \/ (find_file(n) # {} \/ find_free_slot = {}) /\ Fails

(* Mutant: a shorter text leaves the end of the longer one. *)
WriteKeepsTail(n, s) ==
  \/ \E i \in find_file(n) :
       LET k == Smaller(Len(s), MaxFileSize)
       IN  /\ data' = [data EXCEPT ![i] = mem_copy(@, 0, s, k)]
           /\ size' = [size EXCEPT ![i] = IF k > @ THEN k ELSE @]
           /\ ret' = k /\ out' = <<>>
           /\ UNCHANGED <<used, name>>
  \/ find_file(n) = {} /\ Fails

(* Creates the file if there is none, then overwrites it from its start.   *)
ramfs_write(n, s) ==
  LET k == Smaller(Len(s), MaxFileSize)
  IN  \/ \E i \in find_file(n) :
           /\ data' = [data EXCEPT ![i] = mem_copy(@, 0, s, k)]
           /\ size' = [size EXCEPT ![i] = k]
           /\ ret' = k /\ out' = <<>>
           /\ UNCHANGED <<used, name>>
      \/ /\ find_file(n) = {}
         /\ \E i \in find_free_slot :
              /\ used' = [used EXCEPT ![i] = TRUE]
              /\ name' = [name EXCEPT ![i] = n]
              /\ data' = [data EXCEPT ![i] = mem_copy(Zeroed, 0, s, k)]
              /\ size' = [size EXCEPT ![i] = k]
              /\ ret' = k /\ out' = <<>>
      \/ find_file(n) = {} /\ find_free_slot = {} /\ Fails

ramfs_append(n, s) ==
  \/ \E i \in find_file(n) :
       LET k == Smaller(Len(s), MaxFileSize - size[i])
       IN  /\ data' = [data EXCEPT ![i] = mem_copy(@, size[i], s, k)]
           /\ size' = [size EXCEPT ![i] = @ + k]
           /\ ret' = k /\ out' = <<>>
           /\ UNCHANGED <<used, name>>
  \/ find_file(n) = {} /\ Fails

(* cat reads at most RAMFS_MAX_FILESIZE bytes. *)
ramfs_read(n) ==
  \/ \E i \in find_file(n) :
       LET k == Smaller(size[i], MaxFileSize)
       IN  /\ out' = [b \in 1 .. k |-> data[i][b]]
           /\ ret' = k
           /\ UNCHANGED <<used, name, data, size>>
  \/ find_file(n) = {} /\ Fails

ramfs_delete(n) ==
  \/ \E i \in find_file(n) :
       /\ used' = [used EXCEPT ![i] = FALSE]
       /\ name' = [name EXCEPT ![i] = NoName]
       /\ size' = [size EXCEPT ![i] = 0]
       /\ ret' = 0 /\ out' = <<>>
       /\ UNCHANGED data
  \/ find_file(n) = {} /\ Fails

(* The bytes that the free slots hold. *)
ramfs_free_space == MaxFileSize * Cardinality({i \in Slots : ~used[i]})

(* The shell's commands; append has no command but is part of the API. *)
touch(t) == ramfs_create(Filename[t])
rm(t) == ramfs_delete(Filename[t])
cat(t) == ramfs_read(Filename[t])
write(t, s) == ramfs_write(Filename[t], s)
append(t, s) == ramfs_append(Filename[t], s)
df == ret' = ramfs_free_space /\ out' = <<>> /\ UNCHANGED <<used, name, data, size>>

Next ==
  \/ \E t \in Typed :
       \/ touch(t) \/ rm(t) \/ cat(t)
       \/ \E s \in Contents : write(t, s) \/ append(t, s)
  \/ df

Spec == Init /\ [][Next]_vars

-----------------------------------------------------------------------------
(* The contents find_file leads to. *)
ExistingFiles == {name[i] : i \in {j \in Slots : used[j]}}
SlotOf(n) == CHOOSE i \in Slots : used[i] /\ name[i] = n
Files == [n \in ExistingFiles |-> [b \in 1 .. size[SlotOf(n)] |-> data[SlotOf(n)][b]]]
FileMap == INSTANCE FileMap WITH fs <- Files

(* The slots are a map from names to contents: a read returns exactly what *)
(* was written and appended since the file was made, never stale bytes of  *)
(* a longer text or of a deleted file, and the free space that df reports  *)
(* is that of the files that can still be made.                            *)
ImplementsFileMap == FileMap!Spec
=============================================================================
