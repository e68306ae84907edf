----------------------------- MODULE MCDirLock -----------------------------
(* DirLock for TLC: processes are interchangeable. *)
EXTENDS DirLock, TLC

Symmetry == Permutations(Proc)
=============================================================================
