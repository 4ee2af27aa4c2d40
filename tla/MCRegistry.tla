----------------------------- MODULE MCRegistry -----------------------------
(* Instantiation of Registry for TLC: two handle values per kind, which    *)
(* the driver reuses after a destroy.                                      *)
EXTENDS Registry, TLC

CONSTANTS x1, x2

MCHandles == {x1, x2}

\* Handle values are opaque to the recorder: permuting them is sound.
HandleSymmetry == Permutations(MCHandles)

=============================================================================
