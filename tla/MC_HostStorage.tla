--------------------------- MODULE MC_HostStorage ---------------------------
(***************************************************************************)
(* HostStorage for TLC: f1 is stored at o1 and may be moved to n1; f2 is   *)
(* a new file to be uploaded at o2 and may then be moved to n2.  In        *)
(* MCMoveBack, f1 may also be moved back to o1.                            *)
(***************************************************************************)
EXTENDS HostStorage, TLC

CONSTANTS p1, p2, f1, f2, o1, n1, o2, n2

MCUploadPath == (f1 :> o1) @@ (f2 :> o2)
MCMovePaths == (f1 :> {n1}) @@ (f2 :> {n2})
MCMoveBack == (f1 :> {o1, n1}) @@ (f2 :> {n2})
ProcSymmetry == Permutations(Proc)
=============================================================================
