---------------------------- MODULE EsBulkBodies ----------------------------
(***************************************************************************)
(* What streaming_bulk sends for a document: the helper serialises an      *)
(* action each time it pulls it, and the body is whatever the object holds *)
(* at that moment.  Fio_Analyzer.emit_actions yields one importdoc again   *)
(* and again and assigns to it in between, so that a document that waits   *)
(* to be resent changes when the next one is pulled.  Its "_id" is made    *)
(* from the body it was yielded with.  A body is named by the document     *)
(* that was yielded with it.                                               *)
(***************************************************************************)
EXTENDS EsBulk

CONSTANT Shared   \* the analyzer's documents, which come last

ASSUME SharedAssumption == Shared \subseteq Docs /\ \A d \in Shared, e \in Docs : d <= e => e \in Shared

VARIABLES
  wire,   \* the body each document was last serialised with
  kept    \* the body with which each id was created in this call

bodyVars == <<vars, wire, kept>>

BodyInit == Init /\ wire = [d \in Docs |-> 0] /\ kept = [i \in Ids |-> 0]

\* Variant of Body: every document is the same object.
BodyOfLast(d) == next - 1

\* What the object of a document that was yielded before holds now.
Body(d) == IF d \in Shared THEN next - 1 ELSE d

Serialised(d, body) == wire' = [wire EXCEPT ![d] = body]

BodyNext ==
  /\ \/ YieldNew /\ Serialised(next, next)
     \/ YieldRetry /\ LET d == Head(retry_actions).action IN Serialised(d, Body(d))
     \/ (DrainRetries \/ Exhaust \/ SourceRaises \/ Serve \/ Consume \/ Finish) /\ UNCHANGED wire
  /\ kept' = [i \in Ids |-> IF creator'[i] # creator[i] THEN wire[creator'[i]] ELSE kept[i]]

BodySpec == BodyInit /\ [][BodyNext]_bodyVars

FairBodySpec == BodySpec /\ WF_vars(Generate \/ Serve \/ Consume \/ Finish)

\* What is in the index under a document's id is that document, unless it is one of the
\* analyzer's and was pushed back: then it may be a later one of them.
StoredAsYielded ==
  \A i \in Ids : creator[i] \in Docs =>
    \/ kept[i] = creator[i]
    \/ faults > 0 /\ creator[i] \in Shared /\ kept[i] > creator[i]
=============================================================================
