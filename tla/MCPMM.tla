------------------------------- MODULE MCPMM -------------------------------
(***************************************************************************)
(* An instance of PMM: eight frames of two address units, one low frame, a *)
(* kernel that ends inside frame 1 or at its end.                          *)
(***************************************************************************)
EXTENDS PMM

Avail(base, length) == [base_addr |-> base, length |-> length, available |-> TRUE]
Rsvd(base, length) == [base_addr |-> base, length |-> length, available |-> FALSE]

(* Below 4GB: the fallback map of kmain; a hole between two regions; ends  *)
(* inside a page; a region that crosses the limit of the bitmap and one    *)
(* that starts beyond it; regions that end exactly at 2^32, beyond and     *)
(* below the limit (the second map then counts no memory at all).          *)
McMmaps ==
  { << Rsvd(0, 2), Avail(2, 14) >>,
    << Avail(0, 2), Rsvd(6, 2), Avail(2, 4), Avail(8, 7) >>,
    << Avail(0, 5), Rsvd(5, 2), Avail(7, 11), Avail(20, 3) >>,
    << Avail(0, 8), Avail(24, 16) >>,
    << Avail(0, 6), Avail(6, 34) >> }

McKernelEnds == {3, 4}
McMarks == {<<4, 2>>, <<3, 4>>, <<5, 8>>}

(* The maps meet the hypothesis under which NoForeignFrame is proved. *)
ASSUME McMapsAreRegular == RegularMaps
=============================================================================
