--------------------------- MODULE MCConfigStore ---------------------------
(* ConfigStore with a few writers.                                         *)
EXTENDS ConfigStore, TLC

CONSTANTS w1, w2, w3

ThreeWriters == {w1, w2, w3}

(* A task or two of every kind.                                            *)
SomeTasks ==
  {Work("edit", LevelEdits("secure"), FALSE),
   Work("edit", LevelEdits("fast") \o NodEdits(TRUE), TRUE),
   Work("edit", <<E("disabled", "true")>>, TRUE), Work("set", <<E("cards", "false")>>, TRUE)}
    \union CameraPage \union {Upgrade, Restore}

WriterSymmetry == Permutations(Writers)
=============================================================================
