----------------------------- MODULE MCWrapper -----------------------------
(***************************************************************************)
(* Instances of the programs of OS2_Wrapper.  The loader has closed its    *)
(* file before the program it loads calls DosOpen, and the analyzers are   *)
(* programs of their own: one of the three is active in a behaviour.       *)
(*                                                                         *)
(* loader: files of up to two objects.  A page is two units, the data      *)
(* starts at unit 1, and the sizes 1, 4 and 6 are a file without data, one *)
(* whose second page is cut short, and one that is whole for every object. *)
(* calls: two handles beside the standard ones, as many descriptors, and   *)
(* files opened to be read or to be written (both at once is as a          *)
(* terminal).                                                              *)
(* analyzers: up to three names of up to three bytes, among them the empty *)
(* one and the longest, in a file that is cut anywhere; two entries.       *)
(***************************************************************************)
EXTENDS LELoader

CONSTANTS
  Flags,                                   \* the flags an object may have
  MaxHandles, MaxFds, Names, Asked,        \* DosFile
  Tools, Tables, Slots, Longest            \* Imports; Tables are its Files

VARIABLES
  active,
  dos_variant, in_use, linux_fd, files, fds, rc, opened, close_failed,
  tool, tool_pc, tool_file, pos, i, imports, import_count, listed

(* Objects with and without pages, shorter and longer than their pages. *)
MCObjects ==
  {[virtual_size |-> v, flags |-> fl, page_table_index |-> p[1], page_table_entries |-> p[2]] :
     v \in {0, 1, 3, 4}, fl \in Flags, p \in {<<0, 0>>, <<1, 1>>, <<1, 2>>, <<2, 1>>}}

MCFiles ==
  {[size |-> s, objects |-> objs, eip_object |-> e] :
     s \in {1, 4, 6}, e \in {0, 1, 2},
     objs \in {<<>>} \cup {<<o>> : o \in MCObjects} \cup {<<o, p>> : o, p \in MCObjects}}

(* They meet the hypothesis under which the copies are proved right. *)
ASSUME MCFilesAreRegular == RegularFiles

(* A character of a name that is read as a length is 1 or 2. *)
MCNames == {<<>>, <<1>>, <<2>>, <<1, 2>>, <<2, 2, 2>>}
MCTables ==
  {[names |-> t, size |-> s] :
     t \in {<<>>} \cup {<<a>> : a \in MCNames} \cup {<<a, b>> : a, b \in MCNames}
                  \cup {<<a, b, c>> : a, b, c \in MCNames},
     s \in 0 .. 12}

(* MAX_HANDLES is 256, and Linux gives a process more than the three       *)
(* standard descriptors; a table has names of bytes.                       *)
ASSUME WrapperAssumption ==
  /\ MaxHandles \in Nat /\ MaxHandles >= 3 /\ MaxFds \in Nat /\ MaxFds >= 3
  /\ Slots \in Nat /\ Longest \in Nat
  /\ Tables \subseteq [names : Seq(Seq(Nat)), size : Nat]

Calls == INSTANCE DosFile WITH variant <- dos_variant, Variants <- {"emulator", "with_api"}
Analyzers == INSTANCE Imports WITH pc <- tool_pc, file <- tool_file, Files <- Tables

calls == <<dos_variant, in_use, linux_fd, files, fds, rc, opened, close_failed>>
analyzers == <<tool, tool_pc, tool_file, pos, i, imports, import_count, listed>>
allVars == <<active, vars, calls, analyzers>>

(* A component that is not active has one initial state. *)
MCInit ==
  /\ active \in {"loader", "calls", "analyzers"}
  /\ Init /\ Calls!Init /\ Analyzers!Init
  /\ active # "loader" => variant = CHOOSE v \in Variants : TRUE
  /\ active # "calls" => dos_variant = "emulator"
  /\ IF active = "analyzers" THEN tool_file.size <= Len(Analyzers!Encoded(tool_file.names))
     ELSE tool = "newcode" /\ tool_file = [names |-> <<>>, size |-> 0]

LoaderStep == active = "loader" /\ Next /\ UNCHANGED <<active, calls, analyzers>>
CallStep == active = "calls" /\ Calls!Next /\ UNCHANGED <<active, vars, analyzers>>
AnalyzerStep == active = "analyzers" /\ Analyzers!Next /\ UNCHANGED <<active, vars, calls>>

MCNext == LoaderStep \/ CallStep \/ AnalyzerStep

MCSpec == MCInit /\ [][MCNext]_allVars
-----------------------------------------------------------------------------
(* The handle table and Linux's descriptors match, through every open,     *)
(* close and failure of the Dos calls.                                     *)
HandlesMatch == Calls!HandlesMatch

(* DosOpen of the emulator reports no creation or truncation that was not. *)
ReportedIsTrue == Calls!ReportedIsTrue

(* The analyzers list the modules that an executable imports. *)
ListsImports == Analyzers!ListsImports
=============================================================================
