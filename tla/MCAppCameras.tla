---------------------------- MODULE MCAppCameras ----------------------------
(* AppCameras with two of everything; threads and cameras differ only by   *)
(* name.                                                                   *)
EXTENDS AppCameras, TLC

HolderSymmetry == Permutations(Cameras) \union Permutations(Visits) \union Permutations(Previews)
=============================================================================
