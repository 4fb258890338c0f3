--------------------------- MODULE MCVmLifecycle ---------------------------
(***************************************************************************)
(* VmLifecycle with blocks of shared data that are not told apart: which   *)
(* of them the pool returns makes no difference.                           *)
(***************************************************************************)
EXTENDS VmLifecycle, TLC

SharedIdsSymmetry == Permutations(SharedIds)
=============================================================================
