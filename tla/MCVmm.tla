------------------------------- MODULE MCVmm -------------------------------
(***************************************************************************)
(* Instances of Vmm.  A map has at most one hole, or leaves only a few     *)
(* frames, so that memory runs out at every stage of process_create.       *)
(***************************************************************************)
EXTENDS Vmm

MCKernel == {0, 1, 2}

MCMaps ==
  {MCKernel \cup R : R \in {{}} \cup {{f} : f \in 3 .. NumFrames - 1}
                           \cup {k .. NumFrames - 1 : k \in 4 .. NumFrames - 1}
                           \cup {(3 .. NumFrames - 1) \ {f, NumFrames - 1} : f \in 3 .. NumFrames - 1}}
=============================================================================
