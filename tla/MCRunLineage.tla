----------------------------- MODULE MCRunLineage -----------------------------
(***************************************************************************)
(* Small pipelines: one channel and a synthesis over two depths, one       *)
(* channel and a longer chain of runs, two channels, and a git registry.   *)
(***************************************************************************)
EXTENDS RunLineage

MCVersions == {1, 2}

MCSetups ==
  { [width |-> 1, schemas |-> {},  specDepth |-> 1, depths |-> {1}, git |-> FALSE, runs |-> 2, changes |-> 3],
    [width |-> 1, schemas |-> {1}, specDepth |-> 1, depths |-> {2}, git |-> FALSE, runs |-> 2, changes |-> 1],
    [width |-> 1, schemas |-> {},  specDepth |-> 1, depths |-> {1}, git |-> FALSE, runs |-> 3, changes |-> 1],
    [width |-> 2, schemas |-> {2}, specDepth |-> 1, depths |-> {1}, git |-> FALSE, runs |-> 2, changes |-> 1],
    [width |-> 1, schemas |-> {1}, specDepth |-> 2, depths |-> {1}, git |-> TRUE,  runs |-> 2, changes |-> 1] }
=============================================================================
