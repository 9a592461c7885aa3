--------------------------- MODULE MCJobPipeline ---------------------------
(* JobPipeline for TLC: model values for nodes and jobs, given by the configurations. *)
EXTENDS JobPipeline, TLC

CONSTANTS n1, n2, good, bad

Pair == {n1, n2}
JustN1 == {n1}
GoodJob == {good}
GoodAndBad == {good, bad}
BadJob == {bad}
Nothing == {}
=============================================================================
