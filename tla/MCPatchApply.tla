---------------------------- MODULE MCPatchApply ----------------------------
(* PatchApply for TLC: the blocks are interchangeable. *)
EXTENDS PatchApply, TLC

BlockSymmetry == Permutations(Patch)
=============================================================================
