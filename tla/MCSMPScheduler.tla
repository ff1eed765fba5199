-------------------------- MODULE MCSMPScheduler --------------------------
(***************************************************************************)
(* An instance of SMPScheduler: two CPUs on two NUMA nodes, threads of the *)
(* idle class and threads created or changed with PRTYC_NOCHANGE, masks    *)
(* of three bits: no mask, for the default, one CPU, and a CPU that is not *)
(* there.                                                                  *)
(***************************************************************************)
EXTENDS SMPScheduler, TLC

CONSTANTS t1, t2, t3

TwoCPUs == {0, 1}
MCNode == [c \in CPUs |-> c]
MCRequests == {<<1, 31>>, <<0, 31>>}
MCMasks == {{}, {1}, {2}}

Symmetric == Permutations(Threads)
=============================================================================
