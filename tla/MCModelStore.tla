---------------------------- MODULE MCModelStore ----------------------------
(* ModelStore with a few commands.                                         *)
EXTENDS ModelStore

CONSTANTS j1, j2, j3

ThreeJobs == {j1, j2, j3}
=============================================================================
