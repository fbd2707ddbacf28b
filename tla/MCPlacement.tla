----------------------------- MODULE MCPlacement -----------------------------
(* Small instances of Placement for TLC. *)
EXTENDS Placement

(* The layout of prepare_default_layout. *)
DefaultWidths ==
  [l \in Worker |->
     {v \in 1 .. NThreads : NThreads % v = 0 /\ v * v # NThreads /\ l % v = 0}]

OnlyModeling == {TRUE}
EitherModeling == BOOLEAN
EitherMold == BOOLEAN
OnlyMold == {TRUE}

Dividing == {v \in 1 .. NThreads : NThreads % v = 0}
=============================================================================
