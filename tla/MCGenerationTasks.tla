------------------------- MODULE MCGenerationTasks -------------------------
(***************************************************************************)
(* Two neighbouring chunks, each of which needs the other one at the lower *)
(* statuses before it can reach the last one.                              *)
(***************************************************************************)
EXTENDS GenerationTasks, TLC

CONSTANTS p1, p2, t1, t2

MCPositions == {p1, p2}
MCTasks == {t1, t2}
MCLayer(c, t, s) == IF s < t THEN MCPositions ELSE {c}

\* Both chunks are wanted at the last status, so that their tasks wait for each other's claims, or
\* neither is.
MCLevels == {p1 :> 0 @@ p2 :> 0, p1 :> 2 @@ p2 :> 2}
=============================================================================
