--------------------------- MODULE EsBulkParallel ---------------------------
(***************************************************************************)
(* snafu/utils/py_es_bulk.py:streaming_bulk with parallel=True.            *)
(*                                                                         *)
(* helpers.parallel_bulk runs the generator in the task thread of a pool   *)
(* (the feeder), sends the chunks from the pool's workers, and hands the   *)
(* answers to the result loop, in the main thread, in the order of the     *)
(* chunks.  The feeder and the main thread share the two deques; a popleft *)
(* or an append is atomic, what lies between two of them is not.           *)
(***************************************************************************)
EXTENDS Integers, SequencesExt

CONSTANTS NDocs,      \* documents the caller's generator yields
          Ids,        \* values of the "_id" field
          IdOf,       \* the "_id" of each document; two documents may share one
          Workers,    \* the worker threads (thread_count=8)
          QueueSize,  \* room for chunks that no worker has taken (8)
          MaxFaults   \* bound: retryable answers the server gives in one call

ASSUME ParallelAssumption ==
  /\ NDocs \in Nat /\ IdOf \in [1..NDocs -> Ids]
  /\ QueueSize \in Nat \ {0} /\ MaxFaults \in Nat

Docs     == 1..NDocs
Verdicts == {"success", "duplicate", "failure"}
Nobody   == 0            \* no document with that id is in the index
Before   == NDocs + 1    \* the id was indexed before this call

VARIABLES
  feeder,              \* where the generator is
  next,                \* the first document the generator has not pulled
  actions_deque, actions_retry_deque, retry_actions, retries,   \* as in EsBulk
  chunk,               \* actions the helper has buffered
  full,                \* a chunk that waits for room in the queue
  queue,               \* [n, docs] of each chunk that no worker has taken
  put,                 \* how many chunks were made
  work,                \* per worker: [n, docs, answers] of its chunk; n = 0: none
  done,                \* [n, answers] of each chunk that is answered and not read
  taken,               \* how many chunks main has taken
  answers,             \* the answers of the last of them that it has not read
  creator, faults,     \* the server, as in EsBulk
  totals, verdict,
  status               \* of the main thread: "running", "returned", "assertion" or "raised"

deques     == <<actions_deque, actions_retry_deque>>
feederVars == <<feeder, next, retry_actions, retries, chunk, full>>
poolVars   == <<queue, put, work, done>>
mainVars   == <<taken, answers, totals, verdict, status>>
serverVars == <<creator, faults>>
vars == <<feeder, next, actions_deque, actions_retry_deque, retry_actions, retries, chunk, full,
          queue, put, work, done, taken, answers, creator, faults, totals, verdict, status>>

Tracked == [retry_count : Nat, action : Docs]
Answer  == [doc : Docs, code : {"ok", "409", "400", "other"}]
Idle    == [n |-> 0, docs |-> <<>>, answers |-> <<>>]
Places  == {"source", "check", "drain", "resend", "ended", "raised", "exited"}

ParallelTypeOK ==
  /\ feeder \in Places /\ next \in 1..(NDocs + 1) /\ retries \in Nat
  /\ actions_deque \in Seq(Tracked) /\ actions_retry_deque \in Seq(Tracked)
  /\ retry_actions \in Seq(Tracked)
  /\ chunk \in Seq(Docs) /\ full \in Seq(Docs) /\ put \in Nat /\ taken \in 0..put
  /\ queue \in Seq([n : 1..put, docs : Seq(Docs)]) /\ Len(queue) <= QueueSize
  /\ work \in [Workers -> [n : 0..put, docs : Seq(Docs), answers : Seq(Answer)]]
  /\ done \subseteq [n : 1..put, answers : Seq(Answer)]
  /\ answers \in Seq(Answer)
  /\ creator \in [Ids -> 0..(NDocs + 1)] /\ faults \in 0..MaxFaults
  /\ totals \in [Verdicts -> Nat] /\ verdict \in [Docs -> Verdicts \cup {"none"}]
  /\ status \in {"running", "returned", "assertion", "raised"}

Init ==
  /\ feeder = "source" /\ next = 1 /\ retries = 0
  /\ actions_deque = <<>> /\ actions_retry_deque = <<>> /\ retry_actions = <<>>
  /\ chunk = <<>> /\ full = <<>> /\ queue = <<>> /\ put = 0 /\ taken = 0
  /\ work = [w \in Workers |-> Idle] /\ done = {} /\ answers = <<>>
  /\ creator \in [Ids -> {Nobody, Before}] /\ faults = 0
  /\ totals = [v \in Verdicts |-> 0] /\ verdict = [d \in Docs |-> "none"]
  /\ status = "running"
-----------------------------------------------------------------------------
(* The feeder: the generator, and the chunker of the helper that pulls it  *)

\* While the chunk before waits for room, the generator is not resumed.
At(place) == feeder = place /\ full = <<>> /\ status = "running"
Goto(place) == feeder' = place

\* The helper buffers the action; it may first close the chunk before (its limits,
\* ten million actions and 100 MB, leave this open).
Feed(d) ==
  \/ chunk' = Append(chunk, d) /\ UNCHANGED full
  \/ chunk # <<>> /\ full' = chunk /\ chunk' = <<d>>

Yield(entry) ==
  /\ actions_deque' = Append(actions_deque, entry)
  /\ Feed(entry.action)

YieldNew ==
  /\ At("source") /\ next \in Docs
  /\ Yield([retry_count |-> 0, action |-> next])
  /\ next' = next + 1 /\ Goto("check")
  /\ UNCHANGED <<actions_retry_deque, retry_actions, retries, poolVars, mainVars, serverVars>>

\* Variant of Check: the feeder sleeps while there is something to retry.
CheckSleeping ==
  /\ At("check") /\ actions_retry_deque = <<>> /\ Goto("source")
  /\ UNCHANGED <<deques, next, retry_actions, retries, chunk, full, poolVars, mainVars, serverVars>>

\* while len(actions_retry_deque) > 0
Check ==
  /\ At("check")
  /\ IF actions_retry_deque = <<>> THEN Goto("source") /\ UNCHANGED retries
     ELSE Goto("drain") /\ retries' = retries + 1
  /\ UNCHANGED <<deques, next, retry_actions, chunk, full, poolVars, mainVars, serverVars>>

\* Variant of DrainOne: the deque is cleared once its first action is copied.
DrainOneClearing ==
  /\ At("drain") /\ actions_retry_deque # <<>>
  /\ retry_actions' = Append(retry_actions, Head(actions_retry_deque))
  /\ actions_retry_deque' = <<>>
  /\ UNCHANGED <<feeder, actions_deque, next, retries, chunk, full, poolVars, mainVars, serverVars>>

\* The main thread may append meanwhile.
DrainOne ==
  /\ At("drain") /\ actions_retry_deque # <<>>
  /\ retry_actions' = Append(retry_actions, Head(actions_retry_deque))
  /\ actions_retry_deque' = Tail(actions_retry_deque)
  /\ UNCHANGED <<feeder, actions_deque, next, retries, chunk, full, poolVars, mainVars, serverVars>>

Drained ==
  /\ At("drain") /\ actions_retry_deque = <<>> /\ Goto("resend")
  /\ UNCHANGED <<deques, next, retry_actions, retries, chunk, full, poolVars, mainVars, serverVars>>

YieldRetry ==
  /\ At("resend") /\ retry_actions # <<>>
  /\ Yield(Head(retry_actions)) /\ retry_actions' = Tail(retry_actions)
  /\ UNCHANGED <<feeder, actions_retry_deque, next, retries, poolVars, mainVars, serverVars>>

AllResent ==
  /\ At("resend") /\ retry_actions = <<>> /\ Goto("check")
  /\ UNCHANGED <<deques, next, retry_actions, retries, chunk, full, poolVars, mainVars, serverVars>>

\* The caller's iterable ends; the rest of the chunk is sent.
Exhaust ==
  /\ At("source") /\ next = NDocs + 1
  /\ Goto("ended") /\ full' = chunk /\ chunk' = <<>>
  /\ UNCHANGED <<deques, next, retry_actions, retries, poolVars, mainVars, serverVars>>

\* The caller's iterable raises: the exception is handed to main after the chunks
\* before it.  Or it calls exit: SystemExit is not an Exception, it ends the feeder
\* and nothing else.
SourceFails ==
  /\ At("source") /\ (Goto("raised") \/ Goto("exited"))
  /\ UNCHANGED <<deques, next, retry_actions, retries, chunk, full, poolVars, mainVars, serverVars>>
-----------------------------------------------------------------------------
(* The pool and the server                                                 *)

Put ==
  /\ full # <<>> /\ Len(queue) < QueueSize
  /\ queue' = Append(queue, [n |-> put + 1, docs |-> full])
  /\ put' = put + 1 /\ full' = <<>>
  /\ UNCHANGED <<feeder, deques, next, retry_actions, retries, chunk, work, done, mainVars, serverVars>>

TakeChunk(w) ==
  /\ work[w] = Idle /\ queue # <<>>
  /\ work' = [work EXCEPT ![w] = [n |-> Head(queue).n, docs |-> Head(queue).docs, answers |-> <<>>]]
  /\ queue' = Tail(queue)
  /\ UNCHANGED <<deques, feederVars, put, done, mainVars, serverVars>>

Absent(d) == creator[IdOf[d]] = Nobody
Stores(d) == creator' = [creator EXCEPT ![IdOf[d]] = d]

\* Created, conflict, rejected, or a retryable error, which may follow a write.
Answers(d, code) ==
  \/ code = "ok" /\ Absent(d) /\ Stores(d)
  \/ code = "409" /\ ~Absent(d) /\ UNCHANGED creator
  \/ code = "400" /\ creator[IdOf[d]] # d /\ UNCHANGED creator
  \/ code = "other" /\ faults < MaxFaults /\ UNCHANGED creator
  \/ code = "other" /\ faults < MaxFaults /\ Absent(d) /\ Stores(d)

Serve(w) ==
  /\ work[w].docs # <<>>
  /\ \E code \in {"ok", "409", "400", "other"} :
       /\ Answers(Head(work[w].docs), code)
       /\ work' = [work EXCEPT ![w].docs = Tail(@),
                              ![w].answers = Append(@, [doc |-> Head(work[w].docs), code |-> code])]
       /\ faults' = IF code = "other" THEN faults + 1 ELSE faults
  /\ UNCHANGED <<deques, feederVars, queue, put, done, mainVars>>

FinishChunk(w) ==
  /\ work[w] # Idle /\ work[w].docs = <<>>
  /\ done' = done \cup {[n |-> work[w].n, answers |-> work[w].answers]}
  /\ work' = [work EXCEPT ![w] = Idle]
  /\ UNCHANGED <<deques, feederVars, queue, put, mainVars, serverVars>>
-----------------------------------------------------------------------------
(* The main thread                                                         *)

TakeAnswers ==
  /\ status = "running" /\ answers = <<>>
  /\ \E r \in done : r.n = taken + 1 /\ answers' = r.answers /\ done' = done \ {r}
  /\ taken' = taken + 1
  /\ UNCHANGED <<deques, feederVars, queue, put, work, totals, verdict, status, serverVars>>

Reading == status = "running" /\ answers # <<>>
Entry   == Head(actions_deque)
Code    == Head(answers).code

CountedAs(entry, code) ==
  CASE code = "ok"  -> "success"
    [] code = "409" -> (IF entry.retry_count = 0 THEN "duplicate" ELSE "success")
    [] code = "400" -> "failure"

Consume ==
  /\ Reading
  /\ answers' = Tail(answers)
  /\ actions_deque' = Tail(actions_deque)
  /\ IF Code = "other"
     THEN /\ actions_retry_deque' =
               Append(actions_retry_deque, [Entry EXCEPT !.retry_count = @ + 1])
          /\ UNCHANGED <<totals, verdict>>
     ELSE /\ totals' = [totals EXCEPT ![CountedAs(Entry, Code)] = @ + 1]
          /\ verdict' = [verdict EXCEPT ![Entry.action] = CountedAs(Entry, Code)]
          /\ UNCHANGED actions_retry_deque
  /\ UNCHANGED <<feederVars, poolVars, taken, status, serverVars>>

\* Everything put was read, and the feeder has said how it ended.
Over(place) == status = "running" /\ feeder = place /\ full = <<>> /\ answers = <<>> /\ taken = put
Ends(outcome) ==
  /\ status' = outcome
  /\ UNCHANGED <<deques, feederVars, poolVars, taken, answers, totals, verdict, serverVars>>

\* Variant of Finish: the retry deque is not asserted to be empty.
FinishUnchecked == Over("ended") /\ Ends(IF actions_deque = <<>> THEN "returned" ELSE "assertion")

Finish ==
  /\ Over("ended")
  /\ Ends(IF actions_deque = <<>> /\ actions_retry_deque = <<>> THEN "returned" ELSE "assertion")

Reraise == Over("raised") /\ Ends("raised")
-----------------------------------------------------------------------------
Feeder == YieldNew \/ Check \/ DrainOne \/ Drained \/ YieldRetry \/ AllResent \/ Exhaust \/ Put
Worker(w) == TakeChunk(w) \/ Serve(w) \/ FinishChunk(w)
Main == TakeAnswers \/ Consume \/ Finish \/ Reraise

Next == Feeder \/ SourceFails \/ (\E w \in Workers : Worker(w)) \/ Main

Spec == Init /\ [][Next]_vars

\* Every thread is scheduled, and the server answers.
FairSpec == Spec /\ WF_vars(Feeder) /\ WF_vars(Main) /\ \A w \in Workers : WF_vars(Worker(w))
-----------------------------------------------------------------------------
AnsweredIn(s) == [i \in 1..Len(s) |-> s[i].doc]

\* The documents of the n-th chunk, wherever it is: each chunk is in one place.
Held(n) ==
  {AnsweredIn(r.answers) : r \in {r \in done : r.n = n}}
  \cup {AnsweredIn(work[w].answers) \o work[w].docs : w \in {w \in Workers : work[w].n = n}}
  \cup {queue[i].docs : i \in {i \in 1..Len(queue) : queue[i].n = n}}

\* actions_deque lists, in this order, the actions main has not read, those of the
\* chunks it has not taken, however far the workers are with them, and those the
\* feeder has not put.
Pipeline ==
  /\ \A n \in (taken + 1)..put : Cardinality(Held(n)) = 1
  /\ [i \in 1..Len(actions_deque) |-> actions_deque[i].action] =
       AnsweredIn(answers)
       \o FlattenSeq([i \in 1..(put - taken) |-> CHOOSE docs \in Held(taken + i) : TRUE])
       \o full \o chunk

\* Every document pulled is counted once or still in flight.
Accounting ==
  totals["success"] + totals["duplicate"] + totals["failure"]
    + Len(actions_deque) + Len(actions_retry_deque) + Len(retry_actions) = next - 1

ParallelInv == ParallelTypeOK /\ Pipeline /\ Accounting

\* The ledger's view of this module.
Ledger == INSTANCE BulkLedger WITH
  ledger <- [d \in Docs |-> IF d >= next THEN "unseen"
                            ELSE IF verdict[d] = "none" THEN "open" ELSE verdict[d]],
  stored <- {i \in Ids : creator[i] # Nobody},
  phase  <- status

\* The parallel mode keeps the promise of the serial one.
ImplementsLedger == Ledger!LedgerSpec

\* When the server gives finitely many retryable answers the call ends, unless the
\* caller's iterable called exit: then main waits for an answer that never comes.
EndsUnlessExited == <>(status # "running" \/ feeder = "exited")
=============================================================================
