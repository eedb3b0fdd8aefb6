--------------------------- MODULE MCKeyringSeal ---------------------------
(* KeyringSeal with a few jobs; jobs differ only by name.                  *)
EXTENDS KeyringSeal, TLC

CONSTANTS j1, j2, j3

ThreeJobs == {j1, j2, j3}

JobSymmetry == Permutations(Jobs)
=============================================================================
