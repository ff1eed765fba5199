---------------------------- MODULE MCEventQueue ----------------------------
(* Instances of EventQueue: a ring of four slots holds three events. *)
EXTENDS EventQueue
=============================================================================
