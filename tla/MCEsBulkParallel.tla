-------------------------- MODULE MCEsBulkParallel --------------------------
(* EsBulkParallel on three documents, the third with the id of the first, with *)
(* two workers, a queue of one chunk and two retryable answers.                *)
EXTENDS EsBulkParallel

CONSTANTS i1, i2, w1, w2

MCIds     == {i1, i2}
MCIdOf    == <<i1, i2, i1>>
MCWorkers == {w1, w2}
=============================================================================
