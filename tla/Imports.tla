------------------------------ MODULE Imports ------------------------------
(***************************************************************************)
(* The two analyzers of LX executables (newcode.cpp and                    *)
(* dependency_analyzer.cpp), which list the modules an executable imports. *)
(* The table of names is a row of bytes: the length of a name, then its    *)
(* characters.  A reader that does not skip a name reads its characters as *)
(* lengths.  Longest stands for 255, the greatest length.                  *)
(***************************************************************************)
EXTENDS Integers, Sequences

CONSTANTS
  Tools,       \* the programs: "newcode", "analyzer"
  Files,       \* [names, size]: the names in the table, the bytes of it in the file
  Slots,       \* the entries of imports, 256
  Longest      \* 255

VARIABLES
  tool, pc,
  file,
  pos,               \* the bytes of the table that have been read
  i,                 \* the loop counter
  imports,           \* analyzer: the names stored, Junk where there is none
  import_count,      \* analyzer
  listed             \* what is printed

reader == <<pos, i, imports, import_count>>
vars == <<tool, pc, file, reader, listed>>

Junk == <<-1>>

(* The bytes of the first n names, for each n; of all of them. *)
Prefixes(names) ==
  LET e[n \in 0 .. Len(names)] ==
        IF n = 0 THEN <<>> ELSE e[n - 1] \o <<Len(names[n])>> \o names[n]
  IN  e
Encoded(names) == Prefixes(names)[Len(names)]
Table == SubSeq(Encoded(file.names), 1, file.size)
Count == Len(file.names)        \* import_module_table_count

Init ==
  /\ tool \in Tools /\ file \in Files
  /\ pc = "headers" /\ pos = 0 /\ i = 0
  /\ imports = [k \in 0 .. Slots - 1 |-> Junk] /\ import_count = 0
  /\ listed = <<>>

(* main of newcode, up to the loop: read_at or a check of the headers may  *)
(* fail, and a table beyond the end of the file is an error.               *)
NewcodeHeaders ==
  /\ tool = "newcode" /\ pc = "headers"
  /\ pc' \in {"exited"} \cup (IF Count = 0 \/ file.size > 0 THEN {"loop"} ELSE {})
  /\ UNCHANGED <<tool, file, reader, listed>>

(* The same in the analyzer, which takes a table beyond the end of the     *)
(* file for none.                                                          *)
AnalyzerHeaders ==
  /\ tool = "analyzer" /\ pc = "headers"
  /\ pc' \in {"exited", IF Count = 0 \/ file.size > 0 THEN "loop" ELSE "list"}
  /\ UNCHANGED <<tool, file, reader, listed>>

-----------------------------------------------------------------------------
Left == Len(Table) - pos
Length == Table[pos + 1]
Name(n) == SubSeq(Table, pos + 2, pos + 1 + n)
LoopEnd(limit) == pc = "loop" /\ i >= limit

(* Mutant: an empty name ends the list. *)
NewcodeStops ==
  /\ tool = "newcode" /\ pc = "loop" /\ i < Count
  /\ IF Left > 0 /\ Length > 0 /\ Left > Length
     THEN /\ listed' = Append(listed, Name(Length))
          /\ pos' = pos + 1 + Length /\ i' = i + 1 /\ UNCHANGED pc
     ELSE pc' = "done" /\ UNCHANGED <<listed, pos, i>>
  /\ UNCHANGED <<tool, file, imports, import_count>>

(* One turn of the loop of newcode: a short read ends it. *)
NewcodeTurn ==
  /\ tool = "newcode" /\ pc = "loop" /\ i < Count
  /\ IF Left > 0 /\ Left > Length
     THEN /\ listed' = Append(listed, Name(Length))
          /\ pos' = pos + 1 + Length /\ i' = i + 1 /\ UNCHANGED pc
     ELSE pc' = "done" /\ UNCHANGED <<listed, pos, i>>
  /\ UNCHANGED <<tool, file, imports, import_count>>

NewcodeEnd ==
  /\ tool = "newcode" /\ LoopEnd(Count) /\ pc' = "done"
  /\ UNCHANGED <<tool, file, reader, listed>>

(* One turn of the loop of the analyzer.  A length that is refused does    *)
(* not skip the name; a name that is cut short is not counted.             *)
AnalyzerTurn ==
  /\ tool = "analyzer" /\ pc = "loop" /\ i < Count /\ i < Slots
  /\ i' = i + 1
  /\ IF Left > 0 /\ Length > 0 /\ Length < Longest
     THEN IF Left > Length
          THEN /\ imports' = [imports EXCEPT ![i] = Name(Length)]
               /\ import_count' = import_count + 1
               /\ pos' = pos + 1 + Length
          ELSE pos' = Len(Table) /\ UNCHANGED <<imports, import_count>>
     ELSE /\ pos' = IF Left > 0 THEN pos + 1 ELSE pos
          /\ UNCHANGED <<imports, import_count>>
  /\ UNCHANGED <<tool, pc, file, listed>>

AnalyzerEnd ==
  /\ tool = "analyzer" /\ (LoopEnd(Count) \/ LoopEnd(Slots)) /\ pc' = "list"
  /\ UNCHANGED <<tool, file, reader, listed>>

(* The list of dependencies; the assessment only prints. *)
List ==
  /\ pc = "list" /\ pc' = "done"
  /\ listed' = [k \in 1 .. import_count |-> imports[k - 1]]
  /\ UNCHANGED <<tool, file, reader>>

Next ==
  \/ NewcodeHeaders \/ NewcodeTurn \/ NewcodeEnd
  \/ AnalyzerHeaders \/ AnalyzerTurn \/ AnalyzerEnd \/ List

Spec == Init /\ [][Next]_vars
-----------------------------------------------------------------------------
(* The names that lie in the file as a whole. *)
Whole ==
  LET n == CHOOSE n \in 0 .. Count :
             /\ Len(Prefixes(file.names)[n]) <= file.size
             /\ n < Count => Len(Prefixes(file.names)[n + 1]) > file.size
  IN  SubSeq(file.names, 1, n)
Regular == \A n \in DOMAIN file.names : Len(file.names[n]) \in 1 .. Longest - 1

(* Both programs list the imported modules in order, all those the file    *)
(* holds as a whole, however it is cut: newcode also with empty names and  *)
(* names of the greatest length, the analyzer if there are none, up to its *)
(* 256 entries.                                                            *)
ListsImports ==
  pc = "done" =>
    /\ tool = "newcode" => listed = Whole
    /\ tool = "analyzer" /\ Regular =>
         listed = SubSeq(Whole, 1, IF Len(Whole) < Slots THEN Len(Whole) ELSE Slots)
=============================================================================
