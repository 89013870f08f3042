------------------------------ MODULE MCEsBulk ------------------------------
(* EsBulk on five documents, the third with the id of the first, in chunks *)
(* of two, with a server that pushes back up to MaxFaults times.           *)
EXTENDS EsBulkBodies

CONSTANTS i1, i2, i3, i4

MCIds  == {i1, i2, i3, i4}
MCIdOf == <<i1, i2, i1, i3, i4>>
MCShared == {4, 5}
=============================================================================
