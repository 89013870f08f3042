----------------------------- MODULE BulkLedger -----------------------------
(***************************************************************************)
(* What snafu/utils/py_es_bulk.py:streaming_bulk promises its caller,      *)
(* without deques, chunks or retries: documents are taken in order, every  *)
(* document taken is settled at most once, a document reported as a        *)
(* success or a duplicate is in the index, the totals count the verdicts,  *)
(* and the call returns only when every document has a verdict.            *)
(***************************************************************************)
EXTENDS Naturals

CONSTANTS NDocs,   \* documents the caller's generator yields
          Ids,     \* values of the "_id" field
          IdOf     \* the "_id" of each document; two documents may share one

Docs     == 1..NDocs
Verdicts == {"success", "duplicate", "failure"}

VARIABLES ledger,  \* "unseen", "open" or a verdict, for each document
          stored,  \* the ids that are in the index
          totals,  \* how many documents were counted under each verdict
          phase    \* "running", "returned", "raised" or "assertion"

ledgerVars == <<ledger, stored, totals, phase>>

LedgerInit ==
  /\ ledger = [d \in Docs |-> "unseen"]
  /\ stored \in SUBSET Ids
  /\ totals = [v \in Verdicts |-> 0]
  /\ phase = "running"

Take(d) ==
  /\ ledger[d] = "unseen"
  /\ \A e \in 1..(d - 1) : ledger[e] # "unseen"
  /\ ledger' = [ledger EXCEPT ![d] = "open"]
  /\ UNCHANGED <<stored, totals>>

Store(d) ==
  /\ ledger[d] = "open"
  /\ stored' = stored \cup {IdOf[d]}
  /\ UNCHANGED <<ledger, totals>>

Settle(d, v) ==
  /\ ledger[d] = "open"
  /\ v # "failure" => IdOf[d] \in stored
  /\ ledger' = [ledger EXCEPT ![d] = v]
  /\ totals' = [totals EXCEPT ![v] = @ + 1]
  /\ UNCHANGED stored

Return ==
  /\ \A d \in Docs : ledger[d] \in Verdicts
  /\ phase' = "returned"
  /\ UNCHANGED <<ledger, stored, totals>>

\* An exception leaves the call: from the caller's generator, or an assertion.
Fail ==
  /\ phase' \in {"raised", "assertion"}
  /\ UNCHANGED <<ledger, stored, totals>>

LedgerNext ==
  /\ phase = "running"
  /\ \/ /\ phase' = phase
        /\ \E d \in Docs : Take(d) \/ Store(d) \/ \E v \in Verdicts : Settle(d, v)
     \/ Return
     \/ Fail

LedgerSpec == LedgerInit /\ [][LedgerNext]_ledgerVars
=============================================================================
