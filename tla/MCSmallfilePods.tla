-------------------------- MODULE MCSmallfilePods --------------------------
(* Three pods over a measured step, a cleanup and another measured step.   *)
EXTENDS SmallfilePods

CONSTANTS p1, p2, p3

MCPods     == {p1, p2, p3}
MCStepOps  == <<"other", "cleanup", "other">>
MCChannels == (1..3) \X {"before", "after"}
=============================================================================
