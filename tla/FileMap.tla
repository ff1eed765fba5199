------------------------------ MODULE FileMap ------------------------------
(***************************************************************************)
(* What a small file system promises: a bounded map from names to bounded  *)
(* contents.  RamFS implements it.                                         *)
(***************************************************************************)
EXTENDS Integers, Sequences, FiniteSets

CONSTANTS Names, Contents, MaxFiles, MaxFileSize

VARIABLES
  fs,    \* the contents of each file that exists
  ret,   \* the value the last operation returned, -1 for an error
  out    \* what the last operation read

vars == <<fs, ret, out>>

Clamp(s) == IF Len(s) > MaxFileSize THEN SubSeq(s, 1, MaxFileSize) ELSE s
Set(n, s) == [m \in DOMAIN fs \cup {n} |-> IF m = n THEN s ELSE fs[m]]
Room(n) == n \in DOMAIN fs \/ Cardinality(DOMAIN fs) < MaxFiles

Init == fs = [n \in {} |-> <<>>] /\ ret = 0 /\ out = <<>>

Fail == ret' = -1 /\ out' = <<>> /\ UNCHANGED fs

Create(n) ==
  \/ n \notin DOMAIN fs /\ Room(n) /\ fs' = Set(n, <<>>) /\ ret' = 0 /\ out' = <<>>
  \/ (n \in DOMAIN fs \/ ~Room(n)) /\ Fail

Write(n, s) ==
  \/ Room(n) /\ fs' = Set(n, Clamp(s)) /\ ret' = Len(Clamp(s)) /\ out' = <<>>
  \/ ~Room(n) /\ Fail

Extend(n, s) ==
  \/ /\ n \in DOMAIN fs
     /\ LET whole == Clamp(fs[n] \o s)
        IN  fs' = Set(n, whole) /\ ret' = Len(whole) - Len(fs[n]) /\ out' = <<>>
  \/ n \notin DOMAIN fs /\ Fail

Read(n) ==
  \/ n \in DOMAIN fs /\ out' = fs[n] /\ ret' = Len(fs[n]) /\ UNCHANGED fs
  \/ n \notin DOMAIN fs /\ Fail

Delete(n) ==
  \/ n \in DOMAIN fs /\ fs' = [m \in DOMAIN fs \ {n} |-> fs[m]] /\ ret' = 0 /\ out' = <<>>
  \/ n \notin DOMAIN fs /\ Fail

Free ==
  ret' = MaxFileSize * (MaxFiles - Cardinality(DOMAIN fs)) /\ out' = <<>> /\ UNCHANGED fs

Next ==
  \/ \E n \in Names :
       \/ Create(n) \/ Read(n) \/ Delete(n)
       \/ \E s \in Contents : Write(n, s) \/ Extend(n, s)
  \/ Free

Spec == Init /\ [][Next]_vars
=============================================================================
