------------------------------ MODULE DosFile ------------------------------
(***************************************************************************)
(* The OS/2 file calls that the emulation layer implements on Linux        *)
(* (os2_emulator.c; the loader's copy in os2_with_api.c differs in what    *)
(* DosOpen reports).  handle_table maps OS/2 handles to descriptors; the   *)
(* descriptors and the directory are Linux's and are modelled from how the *)
(* calls use them.  What a file contains and the positions in it are left  *)
(* out: the code keeps neither.                                            *)
(***************************************************************************)
EXTENDS Integers

CONSTANTS
  MaxHandles,      \* MAX_HANDLES, the three standard ones included
  MaxFds,          \* descriptors Linux lets the process have
  Names,           \* file names
  Asked,           \* the access modes that programs ask for
  Variants         \* the files whose DosOpen may be the one that runs

VARIABLES
  variant,                 \* whose DosOpen runs: "emulator" or "with_api"
  in_use, linux_fd,        \* the fields of handle_table
  files,                   \* Linux: the names in the directory
  fds,                     \* Linux: how each descriptor is open
  rc,                      \* what the last call returned
  opened,                  \* the last DosOpen: what it reported and what it did
  close_failed             \* history: a close of an open descriptor reported an error

table == <<in_use, linux_fd>>
vars == <<variant, table, files, fds, rc, opened, close_failed>>

Handles == 0 .. MaxHandles - 1
Fds == 0 .. MaxFds - 1
Standard == 0 .. 2
Access == {"READONLY", "WRITEONLY", "READWRITE"}
Modes == Access \cup {"TERMINAL", "CLOSED"}

Open == {f \in Fds : fds[f] # "CLOSED"}
First(S) == CHOOSE x \in S : \A y \in S : x <= y

(* init_handle_table, which both mains call before the program runs. *)
Init ==
  /\ in_use = [h \in Handles |-> h \in Standard]
  /\ linux_fd = [h \in Handles |-> IF h \in Standard THEN h ELSE -1]
  /\ files = {}
  /\ fds = [f \in Fds |-> IF f \in Standard THEN "TERMINAL" ELSE "CLOSED"]
  /\ rc = "NO_ERROR"
  /\ opened = [reported |-> "NONE", did |-> "NONE"]
  /\ variant \in Variants /\ close_failed = FALSE

(* errno_to_os2, for the errors Linux gives here. *)
errno_to_os2(err) ==
  CASE err = "ENOENT" -> "FILE_NOT_FOUND"
    [] err = "EINVAL" -> "INVALID_PARAMETER"
    [] err = "EMFILE" -> "TOO_MANY_OPEN_FILES"
    [] err = "EBADF" -> "INVALID_HANDLE"
    [] OTHER -> "INVALID_FUNCTION"

(* get_linux_fd: -1 for a handle that is out of range or not in use. *)
get_linux_fd(h) == IF h >= MaxHandles \/ ~in_use[h] THEN -1 ELSE linux_fd[h]

Returns(code) == rc' = code /\ UNCHANGED <<variant, table, files, fds, opened, close_failed>>

-----------------------------------------------------------------------------
(* DosOpen.  acts is the set of OPEN_ACTION bits that are given. *)

Acts == {"OPEN_IF_EXISTS", "REPLACE_IF_EXISTS", "CREATE_IF_NEW"}
Creat(acts) == "CREATE_IF_NEW" \in acts
Excl(acts) == Creat(acts) /\ "OPEN_IF_EXISTS" \notin acts
Trunc(acts) == "REPLACE_IF_EXISTS" \in acts

(* The errno of Linux's open, "" if it succeeds. *)
OpenErrno(n, acts) ==
  IF n \in files /\ Excl(acts) THEN "EEXIST"
  ELSE IF n \notin files /\ ~Creat(acts) THEN "ENOENT"
  ELSE IF Open = Fds THEN "EMFILE" ELSE ""

(* What open does to the file. *)
Did(n, acts) ==
  IF n \notin files THEN "CREATED" ELSE IF Trunc(acts) THEN "TRUNCATED" ELSE "EXISTED"

(* Mutant: a creation is reported whenever one was allowed. *)
ReportedCreat(acts) ==
  IF Creat(acts) THEN "CREATED" ELSE IF Trunc(acts) THEN "TRUNCATED" ELSE "EXISTED"

(* What DosOpen stores in *pulAction. *)
ReportedEmulator(acts) ==
  IF Creat(acts) THEN IF Excl(acts) THEN "CREATED" ELSE "EXISTED"
  ELSE IF Trunc(acts) THEN "TRUNCATED" ELSE "EXISTED"
ReportedWithApi(acts) == IF Creat(acts) THEN "CREATED" ELSE "EXISTED"
Reported(acts) ==
  IF variant = "emulator" THEN ReportedEmulator(acts) ELSE ReportedWithApi(acts)

FreeHandles == {h \in Handles \ Standard : ~in_use[h]}

OpenFails(n, acts) ==
  /\ OpenErrno(n, acts) # ""
  /\ Returns(errno_to_os2(OpenErrno(n, acts)))

(* Mutant: the descriptor stays open when no handle is free. *)
OpenLeaks(n, acts, access) ==
  /\ OpenErrno(n, acts) = "" /\ FreeHandles = {}
  /\ files' = files \cup {n}
  /\ fds' = [fds EXCEPT ![First(Fds \ Open)] = access]
  /\ rc' = "TOO_MANY_OPEN_FILES"
  /\ UNCHANGED <<variant, table, opened, close_failed>>

(* The file is opened (and perhaps created), no handle is free: closed. *)
OpenNoHandle(n, acts, access) ==
  /\ OpenErrno(n, acts) = "" /\ FreeHandles = {}
  /\ files' = files \cup {n}
  /\ rc' = "TOO_MANY_OPEN_FILES"
  /\ UNCHANGED <<variant, table, fds, opened, close_failed>>

(* allocate_handle takes the first free handle from 3 on. *)
OpenSucceeds(n, acts, access) ==
  /\ OpenErrno(n, acts) = "" /\ FreeHandles # {}
  /\ LET fd == First(Fds \ Open)
         h == First(FreeHandles)
     IN  /\ fds' = [fds EXCEPT ![fd] = access]
         /\ in_use' = [in_use EXCEPT ![h] = TRUE]
         /\ linux_fd' = [linux_fd EXCEPT ![h] = fd]
  /\ files' = files \cup {n}
  /\ opened' = [reported |-> Reported(acts), did |-> Did(n, acts)]
  /\ rc' = "NO_ERROR"
  /\ UNCHANGED <<variant, close_failed>>

DosOpen(n, acts, access) ==
  OpenFails(n, acts) \/ OpenNoHandle(n, acts, access) \/ OpenSucceeds(n, acts, access)

-----------------------------------------------------------------------------
(* The calls on a handle.  fd is the handle's descriptor, -1 if it is bad. *)

DosRead(h) ==
  LET fd == get_linux_fd(h)
  IN  Returns(IF fd < 0 THEN "INVALID_HANDLE"
              ELSE IF fds[fd] \in {"CLOSED", "WRITEONLY"} THEN errno_to_os2("EBADF")
              ELSE "NO_ERROR")

DosWrite(h) ==
  LET fd == get_linux_fd(h)
  IN  Returns(IF fd < 0 THEN "INVALID_HANDLE"
              ELSE IF fds[fd] \in {"CLOSED", "READONLY"} THEN errno_to_os2("EBADF")
              ELSE "NO_ERROR")

(* known: the origin is one of the three; inside: the position exists. *)
DosSetFilePtr(h, known, inside) ==
  LET fd == get_linux_fd(h)
  IN  Returns(CASE fd < 0 -> "INVALID_HANDLE"
                [] fd >= 0 /\ ~known -> "INVALID_PARAMETER"
                [] fd >= 0 /\ known /\ fds[fd] = "CLOSED" -> errno_to_os2("EBADF")
                [] fd >= 0 /\ known /\ fds[fd] = "TERMINAL" -> errno_to_os2("ESPIPE")
                [] OTHER -> IF inside THEN "NO_ERROR" ELSE errno_to_os2("EINVAL"))

(* close succeeds: free_handle. *)
CloseSucceeds(h) ==
  /\ get_linux_fd(h) >= 0 /\ fds[get_linux_fd(h)] # "CLOSED"
  /\ fds' = [fds EXCEPT ![get_linux_fd(h)] = "CLOSED"]
  /\ in_use' = [in_use EXCEPT ![h] = FALSE]
  /\ linux_fd' = [linux_fd EXCEPT ![h] = -1]
  /\ rc' = "NO_ERROR"
  /\ UNCHANGED <<variant, files, opened, close_failed>>

(* close reports an error: the handle stays in use, although Linux has     *)
(* closed the descriptor, or it was closed before.                         *)
CloseFails(h) ==
  /\ get_linux_fd(h) >= 0
  /\ \/ /\ fds[get_linux_fd(h)] = "CLOSED"
        /\ rc' = errno_to_os2("EBADF") /\ UNCHANGED close_failed
     \/ /\ fds[get_linux_fd(h)] # "CLOSED"
        /\ rc' = errno_to_os2("EIO") /\ close_failed' = TRUE
  /\ fds' = [fds EXCEPT ![get_linux_fd(h)] = "CLOSED"]
  /\ UNCHANGED <<variant, table, files, opened>>

DosClose(h) ==
  \/ get_linux_fd(h) < 0 /\ Returns("INVALID_HANDLE")
  \/ CloseSucceeds(h)
  \/ CloseFails(h)

(* A file that is open can be unlinked. *)
DosDelete(n) ==
  \/ n \notin files /\ Returns(errno_to_os2("ENOENT"))
  \/ /\ n \in files /\ files' = files \ {n} /\ rc' = "NO_ERROR"
     /\ UNCHANGED <<variant, table, fds, opened, close_failed>>

(* MaxHandles itself is the handle just out of range. *)
Next ==
  \/ \E n \in Names :
       DosDelete(n) \/ \E acts \in SUBSET Acts, access \in Access \cap Asked :
                         DosOpen(n, acts, access)
  \/ \E h \in 0 .. MaxHandles :
       \/ DosRead(h) \/ DosWrite(h) \/ DosClose(h)
       \/ \E known, inside \in BOOLEAN : DosSetFilePtr(h, known, inside)

Spec == Init /\ [][Next]_vars
-----------------------------------------------------------------------------
(* Handles and descriptors match.  No descriptor leaks: each one that is   *)
(* open belongs to a handle, also where DosOpen finds the table full, and  *)
(* where DosClose keeps a handle whose close has failed.  And until a      *)
(* close fails, a handle in use has a descriptor that is open and is its   *)
(* own, although Linux reuses descriptors and DosClose also closes the     *)
(* standard handles, which allocate_handle never gives out again.          *)
HandlesMatch ==
  /\ \A f \in Open : \E h \in Handles : in_use[h] /\ linux_fd[h] = f
  /\ ~close_failed =>
       /\ \A h \in Handles : in_use[h] => linux_fd[h] \in Open
       /\ \A h, k \in Handles : in_use[h] /\ in_use[k] /\ linux_fd[h] = linux_fd[k] => h = k

(* The emulator derives the action it reports from the request, after the  *)
(* file was opened: still it reports a creation or a truncation only where *)
(* the open made one.  (It reports FILE_EXISTED for some creations.)       *)
ReportedIsTrue ==
  variant = "emulator" /\ opened.reported \in {"CREATED", "TRUNCATED"}
    => opened.did = opened.reported

=============================================================================
