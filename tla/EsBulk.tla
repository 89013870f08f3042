------------------------------- MODULE EsBulk -------------------------------
(***************************************************************************)
(* snafu/utils/py_es_bulk.py:streaming_bulk with parallel=False.           *)
(*                                                                         *)
(* One thread plays three parts in turn: actions_tracking_closure (the     *)
(* generator), elasticsearch.helpers.streaming_bulk (which pulls from the  *)
(* generator, groups actions into chunks and sends a chunk) and the result *)
(* loop.  The generator and the result loop share two deques.  A document  *)
(* is its position in the caller's iterable; its body is abstracted away.  *)
(* The helper and the Elasticsearch server are external.                   *)
(*                                                                         *)
(* Not modelled: the KeyError branch (175-183); the helper answers every   *)
(* action under its op type with a status, so no answer reaches it.        *)
(***************************************************************************)
EXTENDS Integers, Sequences, FiniteSets

CONSTANTS NDocs,      \* documents the caller's generator yields
          Ids,        \* values of the "_id" field
          IdOf,       \* the "_id" of each document; two documents may share one
          ChunkSize,  \* chunk_size of the helper (500 in the library)
          MaxFaults   \* bound: retryable answers the server gives in one call

ASSUME BulkAssumption ==
  /\ NDocs \in Nat
  /\ IdOf \in [1..NDocs -> Ids]
  /\ ChunkSize \in Nat \ {0}
  /\ MaxFaults \in Nat

Docs     == 1..NDocs
Verdicts == {"success", "duplicate", "failure"}
Nobody   == 0                    \* no document with that id is in the index
Before   == NDocs + 1            \* the id was indexed before this call

VARIABLES
  next,                \* the first document the generator has not pulled
  actions_deque,       \* [retry_count, action] of each action yielded and not answered
  actions_retry_deque, \* [retry_count, action] of each action to be sent again
  retry_actions,       \* the drained retry deque the generator is yielding from
  retries,             \* retries_tracker["retries"]
  exhausted,           \* the generator has raised StopIteration
  chunk,               \* the actions the helper has buffered
  sent,                \* the part of the current request the server has not processed
  answers,             \* the answers the result loop has not read
  creator,             \* per id: Nobody, Before, or the document that created it
  faults,              \* retryable answers so far
  resent,              \* history: documents the transport itself sent twice
  totals,              \* successes, duplicates, failures
  verdict,             \* history: what each document was counted as
  status               \* "running", "returned", "assertion" or "raised"

genVars    == <<next, retry_actions, retries, exhausted>>
serverVars == <<creator, faults, resent>>
countVars  == <<totals, verdict>>
vars == <<next, actions_deque, actions_retry_deque, retry_actions, retries, exhausted,
          chunk, sent, answers, creator, faults, resent, totals, verdict, status>>

Tracked == [retry_count : Nat, action : Docs]
Answer  == [doc : Docs, code : {"ok", "409", "400", "other"}]

TypeOK ==
  /\ next \in 1..(NDocs + 1)
  /\ actions_deque \in Seq(Tracked)
  /\ actions_retry_deque \in Seq(Tracked)
  /\ retry_actions \in Seq(Tracked)
  /\ retries \in Nat
  /\ exhausted \in BOOLEAN
  /\ chunk \in Seq(Docs)
  /\ sent \in Seq(Docs)
  /\ answers \in Seq(Answer)
  /\ creator \in [Ids -> 0..(NDocs + 1)]
  /\ faults \in 0..MaxFaults
  /\ resent \in SUBSET Docs
  /\ totals \in [Verdicts -> Nat]
  /\ verdict \in [Docs -> Verdicts \cup {"none"}]
  /\ status \in {"running", "returned", "assertion", "raised"}

Init ==
  /\ next = 1
  /\ actions_deque = <<>>
  /\ actions_retry_deque = <<>>
  /\ retry_actions = <<>>
  /\ retries = 0
  /\ exhausted = FALSE
  /\ chunk = <<>>
  /\ sent = <<>>
  /\ answers = <<>>
  /\ creator \in [Ids -> {Nobody, Before}]
  /\ faults = 0
  /\ resent = {}
  /\ totals = [v \in Verdicts |-> 0]
  /\ verdict = [d \in Docs |-> "none"]
  /\ status = "running"
-----------------------------------------------------------------------------
(* The generator and the helper that pulls from it                         *)

\* The helper pulls only when it has no request open and no answer to hand out.
Pulling == status = "running" /\ ~exhausted /\ sent = <<>> /\ answers = <<>>

\* The helper adds d to its chunk; when the chunk has ChunkSize actions, or d
\* would take it over the byte limit, the chunk is sent and d starts the next.
Feed(d) ==
  \/ /\ Len(chunk) < ChunkSize
     /\ chunk' = Append(chunk, d)
     /\ UNCHANGED sent
  \/ /\ chunk # <<>>
     /\ sent' = chunk
     /\ chunk' = <<d>>

\* Variant of Yield: the action goes to the wrong end of actions_deque.
YieldLeft(entry) ==
  /\ actions_deque' = <<entry>> \o actions_deque
  /\ Feed(entry.action)

\* The generator appends the action to actions_deque and yields it.
Yield(entry) ==
  /\ actions_deque' = Append(actions_deque, entry)
  /\ Feed(entry.action)

\* Variant of NothingToRetry: what waits in the retry deque is not looked at.
NothingDrained == retry_actions = <<>>

NothingToRetry == retry_actions = <<>> /\ actions_retry_deque = <<>>

Pull ==
  /\ Pulling /\ next \in Docs
  /\ Yield([retry_count |-> 0, action |-> next])
  /\ next' = next + 1
  /\ UNCHANGED <<actions_retry_deque, retry_actions, retries, exhausted, answers, status>>
  /\ UNCHANGED serverVars /\ UNCHANGED countVars

YieldNew == NothingToRetry /\ Pull

Drain(left) ==
  /\ Pulling
  /\ retry_actions = <<>> /\ actions_retry_deque # <<>>
  /\ retries' = retries + 1
  /\ retry_actions' = actions_retry_deque
  /\ actions_retry_deque' = left
  /\ UNCHANGED <<next, actions_deque, exhausted, chunk, sent, answers, status>>
  /\ UNCHANGED serverVars /\ UNCHANGED countVars

\* Variants of DrainRetries: the deque is copied but not emptied; it is never drained.
DrainRetriesKeeping      == Drain(actions_retry_deque)
DrainRetriesSleepingOnly == Pulling /\ actions_retry_deque # <<>> /\ UNCHANGED vars

\* The retry deque is emptied into retry_actions before any of it is resent.
DrainRetries == Drain(<<>>)

Resend(left) ==
  /\ Pulling
  /\ retry_actions # <<>>
  /\ Yield(Head(retry_actions))
  /\ retry_actions' = left
  /\ UNCHANGED <<next, actions_retry_deque, retries, exhausted, answers, status>>
  /\ UNCHANGED serverVars /\ UNCHANGED countVars

YieldRetry == Resend(Tail(retry_actions))

\* The caller's iterable ends; the helper sends what is left in its chunk.
Exhaust ==
  /\ Pulling
  /\ NothingToRetry
  /\ next = NDocs + 1
  /\ exhausted' = TRUE
  /\ sent' = chunk
  /\ chunk' = <<>>
  /\ UNCHANGED <<next, actions_deque, actions_retry_deque, retry_actions, retries, answers, status>>
  /\ UNCHANGED serverVars /\ UNCHANGED countVars

\* The caller's iterable raises (a benchmark failed): the exception leaves
\* through the helper, and nothing that is still in the chunk is sent.
SourceRaises ==
  /\ Pulling
  /\ NothingToRetry
  /\ status' = "raised"
  /\ UNCHANGED <<actions_deque, actions_retry_deque, chunk, sent, answers>>
  /\ UNCHANGED genVars /\ UNCHANGED serverVars /\ UNCHANGED countVars
-----------------------------------------------------------------------------
(* The server: op_type "create", one answer per action, in order           *)

AnswerHead(code) ==
  /\ sent # <<>>
  /\ status = "running"
  /\ answers' = Append(answers, [doc |-> Head(sent), code |-> code])
  /\ sent' = Tail(sent)
  /\ UNCHANGED <<actions_deque, actions_retry_deque, chunk, status>>
  /\ UNCHANGED genVars /\ UNCHANGED countVars

Creates(d) == creator' = [creator EXCEPT ![IdOf[d]] = d]
Absent(d)  == creator[IdOf[d]] = Nobody

Created ==
  /\ AnswerHead("ok")
  /\ Absent(Head(sent)) /\ Creates(Head(sent))
  /\ UNCHANGED <<faults, resent>>

Conflict ==
  /\ AnswerHead("409")
  /\ ~Absent(Head(sent))
  /\ UNCHANGED serverVars

\* A mapping error, found before the id is looked up: the document is not stored.
Rejected ==
  /\ AnswerHead("400")
  /\ creator[IdOf[Head(sent)]] # Head(sent)
  /\ UNCHANGED serverVars

\* 429, 5xx, or an error of the transport; the last may follow a write
\* that the server did carry out.
Faulted ==
  /\ AnswerHead("other")
  /\ faults < MaxFaults
  /\ faults' = faults + 1
  /\ UNCHANGED resent
  /\ \/ UNCHANGED creator
     \/ Absent(Head(sent)) /\ Creates(Head(sent))

\* The connection broke after the write; the transport resent the request
\* and the client sees only the conflict of the second one.
Resent ==
  /\ AnswerHead("409")
  /\ Absent(Head(sent)) /\ Creates(Head(sent))
  /\ resent' = resent \cup {Head(sent)}
  /\ UNCHANGED faults
-----------------------------------------------------------------------------
(* The result loop                                                         *)

Count(d, v) ==
  /\ totals' = [totals EXCEPT ![v] = @ + 1]
  /\ verdict' = [verdict EXCEPT ![d] = v]
  /\ UNCHANGED actions_retry_deque

Reading == status = "running" /\ sent = <<>> /\ answers # <<>>
Entry   == Head(actions_deque)
Code    == Head(answers).code

\* Variants of CountedAs: the retry count is ignored; a 400 counts as a success.
CountedAsIgnoringRetries(entry, code) ==
  CASE code = "ok" -> "success" [] code = "409" -> "duplicate" [] code = "400" -> "failure"
CountedAsAcceptingRejects(entry, code) ==
  IF code = "409" /\ entry.retry_count = 0 THEN "duplicate" ELSE "success"

\* A conflict on a resend is taken to be with the document's own earlier write.
CountedAs(entry, code) ==
  CASE code = "ok" -> "success"
    [] code = "409" -> (IF entry.retry_count = 0 THEN "duplicate" ELSE "success")
    [] code = "400" -> "failure"

\* Line 185 asserts that the answer read is the answer to this entry; that it
\* always is, is the property AnswersMatchActions.
Consume ==
  /\ Reading
  /\ answers' = Tail(answers)
  /\ actions_deque' = Tail(actions_deque)
  /\ \/ Code # "other" /\ Count(Entry.action, CountedAs(Entry, Code))
     \/ /\ Code = "other"
        /\ actions_retry_deque' =
             Append(actions_retry_deque, [Entry EXCEPT !.retry_count = @ + 1])
        /\ UNCHANGED countVars
  /\ UNCHANGED <<chunk, sent, status>>
  /\ UNCHANGED genVars /\ UNCHANGED serverVars

End(outcome) ==
  /\ status = "running" /\ exhausted /\ sent = <<>> /\ answers = <<>>
  /\ status' = outcome
  /\ UNCHANGED <<actions_deque, actions_retry_deque, chunk, sent, answers>>
  /\ UNCHANGED genVars /\ UNCHANGED serverVars /\ UNCHANGED countVars

\* Lines 215-218: the two assertions, then the return.
Finish ==
  End(IF actions_deque = <<>> /\ actions_retry_deque = <<>> THEN "returned" ELSE "assertion")
-----------------------------------------------------------------------------
Generate == YieldNew \/ DrainRetries \/ YieldRetry \/ Exhaust
Serve    == Created \/ Conflict \/ Rejected \/ Faulted \/ Resent

Next == Generate \/ SourceRaises \/ Serve \/ Consume \/ Finish

Spec == Init /\ [][Next]_vars

\* The thread keeps running and the server keeps answering; whether the
\* caller's iterable raises is its own affair.
FairSpec == Spec /\ WF_vars(Generate \/ Serve \/ Consume \/ Finish)
-----------------------------------------------------------------------------
(* Properties                                                              *)

InFlight == Len(actions_deque) + Len(actions_retry_deque) + Len(retry_actions)

DocsOf(s) == {s[i].action : i \in 1..Len(s)}

\* The assertion of line 185: whatever was retried, regrouped or resent, the
\* answer being read belongs to the action at the left of actions_deque.
AnswersMatchActions ==
  Reading => /\ actions_deque # <<>>
             /\ Entry.action = Head(answers).doc

\* Every document pulled is either counted once or still in flight.
Accounting ==
  totals["success"] + totals["duplicate"] + totals["failure"] + InFlight = next - 1

\* A document pulled and not counted is in one of the three queues.
NoDocLost ==
  \A d \in 1..(next - 1) :
    verdict[d] = "none" =>
      d \in DocsOf(actions_deque) \cup DocsOf(actions_retry_deque) \cup DocsOf(retry_actions)

\* However often the server pushes back, the call holds one chunk and one
\* action more: nothing new is pulled while something waits to be resent.
BoundedInFlight == InFlight <= ChunkSize + 1

\* streaming_bulk returns only when every document was counted.
AllCountedOnReturn ==
  status = "returned" => \A d \in Docs : verdict[d] # "none"

\* When the call ends by an exception instead, at most one chunk of the
\* documents pulled so far was not counted.
AtMostOneChunkAbandoned ==
  status \in {"raised", "assertion"} =>
    Cardinality({d \in 1..(next - 1) : verdict[d] = "none"}) <= ChunkSize

\* A document counted as a success or a duplicate is in the index.
CountedIsStored ==
  \A d \in Docs : verdict[d] \in {"success", "duplicate"} => creator[IdOf[d]] # Nobody

\* A document this call created is never reported as a duplicate of itself,
\* unless the transport resent it behind the back of streaming_bulk.
NotItsOwnDuplicate ==
  \A d \in Docs \ resent : verdict[d] = "duplicate" => creator[IdOf[d]] # d

\* actions_deque lists, in this order, the actions answered and not read, the
\* actions sent and not answered, and the actions still in the chunk.
QueueOrder ==
  /\ Len(actions_deque) = Len(answers) + Len(sent) + Len(chunk)
  /\ \A i \in 1..Len(answers) : actions_deque[i].action = answers[i].doc
  /\ \A i \in 1..Len(sent)    : actions_deque[Len(answers) + i].action = sent[i]
  /\ \A i \in 1..Len(chunk)   :
       actions_deque[Len(answers) + Len(sent) + i].action = chunk[i]

\* A positive answer or a conflict is about an id that is in the index.
AnswersAreTrue ==
  \A i \in 1..Len(answers) :
    answers[i].code \in {"ok", "409"} => creator[IdOf[answers[i].doc]] # Nobody

\* Once the generator has ended, nothing more can be yielded.
ExhaustedIsFinal ==
  exhausted => next = NDocs + 1 /\ retry_actions = <<>> /\ chunk = <<>>

\* The inductive invariant from which the properties above follow.
BulkInv ==
  /\ TypeOK
  /\ Len(chunk) <= ChunkSize
  /\ QueueOrder
  /\ AnswersAreTrue
  /\ ExhaustedIsFinal
  /\ Accounting
  /\ NoDocLost
  /\ BoundedInFlight
  /\ AllCountedOnReturn
  /\ CountedIsStored

\* The assertions of lines 215 and 216 with the comment of line 209, "Retry
\* all other errors": the call never ends with an action left to retry.
NothingLeftToRetry == status # "assertion"

\* The ledger's view of this module.
Ledger == INSTANCE BulkLedger WITH
  ledger <- [d \in Docs |-> IF d >= next THEN "unseen"
                            ELSE IF verdict[d] = "none" THEN "open" ELSE verdict[d]],
  stored <- {i \in Ids : creator[i] # Nobody},
  phase  <- status

\* streaming_bulk implements the ledger it promises.
ImplementsLedger == Ledger!LedgerSpec

\* When the server gives finitely many retryable answers, the call ends.
Terminates == <>(status # "running")
=============================================================================
