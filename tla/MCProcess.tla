----------------------------- MODULE MCProcess -----------------------------
(***************************************************************************)
(* Instances of Process.  The cfg files say which callers, failures and    *)
(* exits an instance has.                                                  *)
(***************************************************************************)
EXTENDS Process
=============================================================================
