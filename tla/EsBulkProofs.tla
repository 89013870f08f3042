---------------------------- MODULE EsBulkProofs ----------------------------
(***************************************************************************)
(* The serial mode of streaming_bulk, for every number of documents, every *)
(* chunk size, every assignment of ids and every number of faults.         *)
(*                                                                         *)
(* BulkInv is an invariant: what streaming_bulk asserts holds, and no      *)
(* document is lost.  Each document is in flight at most once, and is      *)
(* counted only while it is in flight: EsBulk implements BulkLedger, a     *)
(* document is not reported as a duplicate of itself, an exception         *)
(* abandons at most one chunk, and what is stored under a document's id is *)
(* what the caller yielded or, for the documents of the fio analyzer, a    *)
(* later one.                                                              *)
(***************************************************************************)
EXTENDS EsBulkBodies, TLAPS, FiniteSetTheorems

\* What appending an entry does to a queue: its length, its elements, its documents.
LEMMA AppendFacts ==
  ASSUME NEW S, NEW s \in Seq(S), NEW e \in S
  PROVE  /\ Append(s, e) \in Seq(S)
         /\ Len(Append(s, e)) = Len(s) + 1
         /\ Len(s) \in Nat
         /\ \A i \in 1..Len(s) : Append(s, e)[i] = s[i]
         /\ Append(s, e)[Len(s) + 1] = e
  OBVIOUS

\* What removing the head of a queue does.
LEMMA TailFacts ==
  ASSUME NEW S, NEW s \in Seq(S), s # <<>>
  PROVE  /\ Tail(s) \in Seq(S)
         /\ Len(Tail(s)) = Len(s) - 1
         /\ Len(s) \in Nat \ {0}
         /\ \A i \in 1..(Len(s) - 1) : Tail(s)[i] = s[i + 1]
         /\ Head(s) = s[1]
         /\ Head(s) \in S
  OBVIOUS

\* The documents of a queue after an append ...
LEMMA DocsOfAppend ==
  ASSUME NEW s \in Seq(Tracked), NEW e \in Tracked
  PROVE  DocsOf(Append(s, e)) = DocsOf(s) \cup {e.action}
<1>1. /\ Len(Append(s, e)) = Len(s) + 1
      /\ Len(s) \in Nat
      /\ \A i \in 1..Len(s) : Append(s, e)[i] = s[i]
      /\ Append(s, e)[Len(s) + 1] = e
  BY AppendFacts
<1>2. ASSUME NEW d \in DocsOf(Append(s, e)) PROVE d \in DocsOf(s) \cup {e.action}
  <2>1. PICK i \in 1..(Len(s) + 1) : d = Append(s, e)[i].action
    BY <1>1, <1>2 DEF DocsOf
  <2>2. CASE i \in 1..Len(s)
    BY <2>1, <2>2, <1>1 DEF DocsOf
  <2>3. CASE i = Len(s) + 1
    BY <2>1, <2>3, <1>1
  <2> QED
    BY <2>1, <2>2, <2>3, <1>1
<1>3. ASSUME NEW d \in DocsOf(s) PROVE d \in DocsOf(Append(s, e))
  <2>1. PICK i \in 1..Len(s) : d = s[i].action
    BY <1>3 DEF DocsOf
  <2>2. i \in 1..Len(Append(s, e)) /\ Append(s, e)[i] = s[i]
    BY <2>1, <1>1
  <2> QED
    BY <2>1, <2>2 DEF DocsOf
<1>4. e.action \in DocsOf(Append(s, e))
  <2>1. Len(s) + 1 \in 1..Len(Append(s, e))
    BY <1>1
  <2> QED
    BY <2>1, <1>1 DEF DocsOf
<1> QED
  BY <1>2, <1>3, <1>4

\* ... and before its head was removed.
LEMMA DocsOfTail ==
  ASSUME NEW s \in Seq(Tracked), s # <<>>
  PROVE  DocsOf(s) \subseteq DocsOf(Tail(s)) \cup {Head(s).action}
<1>1. /\ Len(Tail(s)) = Len(s) - 1
      /\ Len(s) \in Nat \ {0}
      /\ \A i \in 1..(Len(s) - 1) : Tail(s)[i] = s[i + 1]
      /\ Head(s) = s[1]
  BY TailFacts
<1>2. SUFFICES ASSUME NEW i \in 1..Len(s)
               PROVE  s[i].action \in DocsOf(Tail(s)) \cup {Head(s).action}
  BY DEF DocsOf
<1>3. CASE i = 1
  BY <1>1, <1>3
<1>4. CASE i # 1
  <2>1. i - 1 \in 1..Len(Tail(s)) /\ Tail(s)[i - 1] = s[i]
    BY <1>1, <1>4
  <2> QED
    BY <2>1 DEF DocsOf
<1> QED
  BY <1>3, <1>4

\* An empty queue holds no document.
LEMMA DocsOfEmpty == DocsOf(<<>>) = {}
  BY DEF DocsOf
-----------------------------------------------------------------------------
(* The initial states                                                      *)

\* The call starts with empty queues and nothing counted.
LEMMA InitBulkInv == Init => BulkInv
<1> SUFFICES ASSUME Init PROVE BulkInv
  OBVIOUS
<1> USE BulkAssumption
<1>1. TypeOK
  <2>1. creator \in [Ids -> 0..(NDocs + 1)]
    BY DEF Init, Nobody, Before
  <2>2. totals \in [Verdicts -> Nat] /\ verdict \in [Docs -> Verdicts \cup {"none"}]
    BY DEF Init
  <2>3. next \in 1..(NDocs + 1) /\ faults \in 0..MaxFaults /\ resent \in SUBSET Docs
    BY DEF Init
  <2>4. \A S : <<>> \in Seq(S)
    OBVIOUS
  <2> QED
    BY <2>1, <2>2, <2>3, <2>4 DEF Init, TypeOK
<1>2. Len(chunk) <= ChunkSize /\ QueueOrder /\ AnswersAreTrue /\ ExhaustedIsFinal
  BY DEF Init, QueueOrder, AnswersAreTrue, ExhaustedIsFinal
<1>3. Accounting /\ BoundedInFlight
  BY DEF Init, Accounting, BoundedInFlight, InFlight, Verdicts
<1>4. NoDocLost /\ AllCountedOnReturn /\ CountedIsStored
  BY DEF Init, NoDocLost, AllCountedOnReturn, CountedIsStored
<1> QED
  BY <1>1, <1>2, <1>3, <1>4 DEF BulkInv
-----------------------------------------------------------------------------
(* The generator                                                           *)

\* Yielding an action puts it at the right of actions_deque and, in the chunk
\* or as the first of the next one, at the matching place of the helper.
LEMMA YieldKeepsOrder ==
  ASSUME BulkInv, Pulling, NEW e \in Tracked, Yield(e), answers' = answers
  PROVE  /\ actions_deque' \in Seq(Tracked)
         /\ Len(actions_deque') = Len(actions_deque) + 1
         /\ DocsOf(actions_deque') = DocsOf(actions_deque) \cup {e.action}
         /\ chunk' \in Seq(Docs) /\ sent' \in Seq(Docs)
         /\ Len(chunk') <= ChunkSize
         /\ QueueOrder'
<1> USE BulkAssumption
<1>1. /\ actions_deque \in Seq(Tracked) /\ chunk \in Seq(Docs)
      /\ sent = <<>> /\ answers = <<>>
      /\ e.action \in Docs
      /\ QueueOrder /\ Len(chunk) <= ChunkSize
  BY DEF BulkInv, TypeOK, Pulling, Tracked
<1>2. actions_deque' = Append(actions_deque, e)
  BY DEF Yield
<1>3. /\ actions_deque' \in Seq(Tracked)
      /\ Len(actions_deque') = Len(actions_deque) + 1
      /\ Len(actions_deque) \in Nat
      /\ \A i \in 1..Len(actions_deque) : actions_deque'[i] = actions_deque[i]
      /\ actions_deque'[Len(actions_deque) + 1] = e
  BY <1>1, <1>2, AppendFacts
<1>4. DocsOf(actions_deque') = DocsOf(actions_deque) \cup {e.action}
  BY <1>1, <1>2, DocsOfAppend
<1>5. /\ Len(actions_deque) = Len(chunk) /\ Len(chunk) \in Nat
      /\ \A i \in 1..Len(chunk) : actions_deque[i].action = chunk[i]
  BY <1>1 DEF QueueOrder
<1>6. CASE /\ Len(chunk) < ChunkSize
           /\ chunk' = Append(chunk, e.action)
           /\ UNCHANGED sent
  <2>1. /\ chunk' \in Seq(Docs)
        /\ Len(chunk') = Len(chunk) + 1
        /\ \A i \in 1..Len(chunk) : chunk'[i] = chunk[i]
        /\ chunk'[Len(chunk) + 1] = e.action
    BY <1>1, <1>6, AppendFacts
  <2>2. sent' = <<>> /\ answers' = <<>> /\ sent' \in Seq(Docs)
    BY <1>1, <1>6
  <2>3. \A i \in 1..Len(chunk') : actions_deque'[i].action = chunk'[i]
    BY <2>1, <1>3, <1>5
  <2>4. QueueOrder'
    BY <2>1, <2>2, <2>3, <1>3, <1>5 DEF QueueOrder
  <2> QED
    BY <2>1, <2>2, <2>4, <1>3, <1>4, <1>6
<1>7. CASE /\ chunk # <<>>
           /\ sent' = chunk
           /\ chunk' = <<e.action>>
  <2>1. /\ chunk' \in Seq(Docs) /\ Len(chunk') = 1 /\ chunk'[1] = e.action
        /\ sent' \in Seq(Docs) /\ answers' = <<>> /\ Len(answers') = 0
    BY <1>1, <1>7
  <2>2. \A i \in 1..Len(sent') : actions_deque'[i].action = sent'[i]
    BY <1>3, <1>5, <1>7
  <2>3. QueueOrder'
    BY <2>1, <2>2, <1>3, <1>5, <1>7 DEF QueueOrder
  <2> QED
    BY <2>1, <2>3, <1>3, <1>4
<1> QED
  BY <1>6, <1>7 DEF Yield, Feed

\* A step that changes neither the counts nor the server keeps what was said of them.
LEMMA CountsKept ==
  ASSUME BulkInv, UNCHANGED <<verdict, creator, status>>
  PROVE  AllCountedOnReturn' /\ CountedIsStored'
  BY DEF BulkInv, AllCountedOnReturn, CountedIsStored

\* Pulling a document from the caller keeps the invariant.
LEMMA YieldNewInv == BulkInv /\ YieldNew => BulkInv'
<1> SUFFICES ASSUME BulkInv, YieldNew PROVE BulkInv'
  OBVIOUS
<1> USE BulkAssumption
<1> DEFINE e == [retry_count |-> 0, action |-> next]
<1>1. /\ TypeOK /\ Pulling /\ NothingToRetry /\ next \in 1..NDocs /\ next' = next + 1
      /\ Yield(e) /\ e.action = next
      /\ UNCHANGED <<actions_retry_deque, retry_actions, retries, exhausted, answers, status>>
      /\ UNCHANGED <<creator, faults, resent, totals, verdict>>
  BY DEF BulkInv, YieldNew, Pull, serverVars, countVars, Docs
<1>2. e \in Tracked
  BY <1>1 DEF Tracked, Docs
<1>3. /\ actions_deque' \in Seq(Tracked)
      /\ Len(actions_deque') = Len(actions_deque) + 1
      /\ DocsOf(actions_deque') = DocsOf(actions_deque) \cup {next}
      /\ chunk' \in Seq(Docs) /\ sent' \in Seq(Docs)
      /\ Len(chunk') <= ChunkSize
      /\ QueueOrder'
  BY <1>1, <1>2, YieldKeepsOrder
<1>4. TypeOK'
  BY <1>1, <1>3 DEF TypeOK
<1>5. AnswersAreTrue' /\ ExhaustedIsFinal'
  BY <1>1 DEF AnswersAreTrue, ExhaustedIsFinal, Pulling
<1>6. Len(actions_deque) \in Nat /\ Len(actions_deque) <= ChunkSize
  BY <1>1 DEF BulkInv, TypeOK, QueueOrder, Pulling
<1>7. Accounting' /\ BoundedInFlight'
  <2>1. InFlight' = InFlight + 1 /\ InFlight = Len(actions_deque)
    BY <1>1, <1>3, <1>6 DEF InFlight, NothingToRetry
  <2>2. \A v \in Verdicts : totals[v] \in Nat
    BY <1>1 DEF TypeOK
  <2> QED
    BY <1>1, <1>6, <2>1, <2>2 DEF BulkInv, Accounting, BoundedInFlight, Verdicts
<1>8. NoDocLost'
  <2> SUFFICES ASSUME NEW d \in 1..next, verdict[d] = "none"
               PROVE  d \in DocsOf(actions_deque') \cup DocsOf(actions_retry_deque')
                             \cup DocsOf(retry_actions')
    BY <1>1 DEF NoDocLost
  <2>1. CASE d = next
    BY <2>1, <1>3
  <2>2. CASE d \in 1..(next - 1)
    BY <2>2, <1>1, <1>3 DEF BulkInv, NoDocLost
  <2> QED
    BY <2>1, <2>2, <1>1
<1> QED
  BY <1>1, <1>3, <1>4, <1>5, <1>7, <1>8, CountsKept DEF BulkInv

\* Draining actions_retry_deque moves its actions and loses none.
LEMMA DrainRetriesInv == BulkInv /\ DrainRetries => BulkInv'
<1> SUFFICES ASSUME BulkInv, DrainRetries PROVE BulkInv'
  OBVIOUS
<1> USE BulkAssumption
<1>1. /\ TypeOK /\ Pulling
      /\ retry_actions = <<>>
      /\ retry_actions' = actions_retry_deque /\ actions_retry_deque' = <<>>
      /\ retries' = retries + 1
      /\ UNCHANGED <<next, actions_deque, exhausted, chunk, sent, answers, status>>
      /\ UNCHANGED <<creator, faults, resent, totals, verdict>>
  BY DEF BulkInv, DrainRetries, Drain, serverVars, countVars
<1>2. TypeOK'
  BY <1>1 DEF TypeOK
<1>3. (Len(chunk) <= ChunkSize /\ QueueOrder /\ AnswersAreTrue)'
  BY <1>1 DEF BulkInv, QueueOrder, AnswersAreTrue
<1>4. ExhaustedIsFinal'
  BY <1>1 DEF ExhaustedIsFinal, Pulling
<1>5. InFlight' = InFlight
  BY <1>1 DEF InFlight, TypeOK
<1>6. (Accounting /\ BoundedInFlight)'
  BY <1>1, <1>5 DEF BulkInv, Accounting, BoundedInFlight
<1>7. NoDocLost'
  BY <1>1, DocsOfEmpty DEF BulkInv, NoDocLost
<1> QED
  BY <1>1, <1>2, <1>3, <1>4, <1>6, <1>7, CountsKept DEF BulkInv

\* Sending a drained action again keeps the invariant.
LEMMA YieldRetryInv == BulkInv /\ YieldRetry => BulkInv'
<1> SUFFICES ASSUME BulkInv, YieldRetry PROVE BulkInv'
  OBVIOUS
<1> USE BulkAssumption
<1> DEFINE e == Head(retry_actions)
<1>1. /\ TypeOK /\ Pulling /\ Yield(e)
      /\ retry_actions # <<>> /\ retry_actions' = Tail(retry_actions)
      /\ UNCHANGED <<next, actions_retry_deque, retries, exhausted, answers, status>>
      /\ UNCHANGED <<creator, faults, resent, totals, verdict>>
  BY DEF BulkInv, YieldRetry, Resend, serverVars, countVars
<1>2. /\ e \in Tracked
      /\ retry_actions' \in Seq(Tracked)
      /\ Len(retry_actions') = Len(retry_actions) - 1
  BY <1>1, TailFacts DEF TypeOK
<1>3. /\ actions_deque' \in Seq(Tracked)
      /\ Len(actions_deque') = Len(actions_deque) + 1
      /\ DocsOf(actions_deque') = DocsOf(actions_deque) \cup {e.action}
      /\ chunk' \in Seq(Docs) /\ sent' \in Seq(Docs)
      /\ Len(chunk') <= ChunkSize
      /\ QueueOrder'
  BY <1>1, <1>2, YieldKeepsOrder
<1>4. TypeOK'
  BY <1>1, <1>2, <1>3 DEF TypeOK
<1>5. AnswersAreTrue' /\ ExhaustedIsFinal'
  BY <1>1 DEF AnswersAreTrue, ExhaustedIsFinal, Pulling
<1>6. InFlight' = InFlight
  <2>1. /\ Len(actions_deque) \in Nat /\ Len(retry_actions) \in Nat
        /\ Len(actions_retry_deque) \in Nat
    BY <1>1 DEF TypeOK
  <2> QED
    BY <2>1, <1>1, <1>2, <1>3 DEF InFlight
<1>7. (Accounting /\ BoundedInFlight)'
  BY <1>1, <1>6 DEF BulkInv, Accounting, BoundedInFlight
<1>8. NoDocLost'
  <2>1. DocsOf(retry_actions) \subseteq DocsOf(retry_actions') \cup {e.action}
    BY <1>1, DocsOfTail DEF TypeOK
  <2> QED
    BY <2>1, <1>1, <1>3 DEF BulkInv, NoDocLost
<1> QED
  BY <1>1, <1>3, <1>4, <1>5, <1>7, <1>8, CountsKept DEF BulkInv

\* The end of the caller's iterable sends what is left in the chunk.
LEMMA ExhaustInv == BulkInv /\ Exhaust => BulkInv'
<1> SUFFICES ASSUME BulkInv, Exhaust PROVE BulkInv'
  OBVIOUS
<1> USE BulkAssumption
<1>1. /\ TypeOK /\ Pulling /\ NothingToRetry /\ QueueOrder
      /\ next = NDocs + 1 /\ exhausted' = TRUE /\ sent' = chunk /\ chunk' = <<>>
      /\ UNCHANGED <<next, actions_deque, actions_retry_deque, retry_actions, retries>>
      /\ UNCHANGED <<answers, status, creator, faults, resent, totals, verdict>>
  BY DEF BulkInv, Exhaust, serverVars, countVars
<1>2. TypeOK'
  BY <1>1 DEF TypeOK
<1>3. Len(chunk') = 0 /\ Len(sent) = 0 /\ Len(answers) = 0 /\ Len(chunk) \in Nat
  BY <1>1 DEF Pulling, TypeOK
<1>4. (Len(chunk) <= ChunkSize /\ QueueOrder)'
  BY <1>1, <1>3 DEF QueueOrder
<1>5. (AnswersAreTrue /\ ExhaustedIsFinal)'
  BY <1>1 DEF BulkInv, AnswersAreTrue, ExhaustedIsFinal, NothingToRetry
<1>6. (Accounting /\ BoundedInFlight /\ NoDocLost)'
  BY <1>1 DEF BulkInv, Accounting, BoundedInFlight, InFlight, NoDocLost
<1> QED
  BY <1>1, <1>2, <1>4, <1>5, <1>6, CountsKept DEF BulkInv

\* An exception of the benchmark leaves the queues as they are.
LEMMA SourceRaisesInv == BulkInv /\ SourceRaises => BulkInv'
<1> SUFFICES ASSUME BulkInv, SourceRaises PROVE BulkInv'
  OBVIOUS
<1>1. /\ status' = "raised"
      /\ UNCHANGED <<next, actions_deque, actions_retry_deque, retry_actions, retries>>
      /\ UNCHANGED <<exhausted, chunk, sent, answers, creator, faults, resent, totals, verdict>>
  BY DEF SourceRaises, genVars, serverVars, countVars
<1>2. TypeOK'
  BY <1>1 DEF BulkInv, TypeOK
<1>3. (Len(chunk) <= ChunkSize /\ QueueOrder /\ AnswersAreTrue /\ ExhaustedIsFinal)'
  BY <1>1 DEF BulkInv, QueueOrder, AnswersAreTrue, ExhaustedIsFinal
<1>4. (Accounting /\ BoundedInFlight /\ NoDocLost)'
  BY <1>1 DEF BulkInv, Accounting, BoundedInFlight, InFlight, NoDocLost
<1>5. (AllCountedOnReturn /\ CountedIsStored)'
  BY <1>1 DEF BulkInv, AllCountedOnReturn, CountedIsStored
<1> QED
  BY <1>2, <1>3, <1>4, <1>5 DEF BulkInv
-----------------------------------------------------------------------------
(* The server and the result loop                                          *)

\* Every answer of the server takes the head of the request to the end of the
\* answers, and leaves an id that is in the index where it is.
LEMMA AnswerHeadInv ==
  ASSUME BulkInv, NEW c \in {"ok", "409", "400", "other"}, AnswerHead(c),
         creator' = creator \/ Creates(Head(sent)),
         c \in {"ok", "409"} => creator'[IdOf[Head(sent)]] # Nobody,
         faults' \in 0..MaxFaults, resent' \in SUBSET Docs
  PROVE  BulkInv'
<1> USE BulkAssumption
<1> DEFINE h == Head(sent)
           a == [doc |-> h, code |-> c]
<1>1. /\ TypeOK /\ QueueOrder
      /\ sent # <<>> /\ sent' = Tail(sent) /\ answers' = Append(answers, a)
      /\ UNCHANGED <<next, actions_deque, actions_retry_deque, retry_actions, retries>>
      /\ UNCHANGED <<exhausted, chunk, totals, verdict, status>>
  BY DEF BulkInv, AnswerHead, genVars, countVars
<1>2. /\ h \in Docs
      /\ sent' \in Seq(Docs) /\ Len(sent') = Len(sent) - 1
      /\ Len(sent) \in Nat \ {0}
      /\ \A i \in 1..(Len(sent) - 1) : sent'[i] = sent[i + 1]
      /\ h = sent[1]
  BY <1>1, TailFacts DEF TypeOK
<1>3. a \in Answer
  BY <1>2 DEF Answer
<1>4. /\ answers' \in Seq(Answer) /\ Len(answers') = Len(answers) + 1
      /\ Len(answers) \in Nat
      /\ \A i \in 1..Len(answers) : answers'[i] = answers[i]
      /\ answers'[Len(answers) + 1] = a
  BY <1>1, <1>3, AppendFacts DEF TypeOK
<1>5. /\ creator' \in [Ids -> 0..(NDocs + 1)]
      /\ \A i \in Ids : creator[i] # Nobody => creator'[i] # Nobody
  <2>1. creator \in [Ids -> 0..(NDocs + 1)] /\ IdOf[h] \in Ids /\ h \in 1..NDocs
    BY <1>1, <1>2 DEF TypeOK, Docs
  <2> QED
    BY <2>1 DEF Creates, Nobody
<1>6. TypeOK'
  BY <1>1, <1>2, <1>4, <1>5 DEF TypeOK
<1>7. QueueOrder'
  <2>1. Len(actions_deque) = Len(answers') + Len(sent') + Len(chunk)
    BY <1>1, <1>2, <1>4 DEF QueueOrder, TypeOK
  <2>2. \A i \in 1..Len(answers') : actions_deque[i].action = answers'[i].doc
    <3>1. actions_deque[Len(answers) + 1].action = h
      BY <1>1, <1>2 DEF QueueOrder
    <3>2. \A i \in 1..Len(answers) : actions_deque[i].action = answers'[i].doc
      BY <1>1, <1>4 DEF QueueOrder
    <3> QED
      BY <3>1, <3>2, <1>4
  <2>3. \A i \in 1..Len(sent') : actions_deque[Len(answers') + i].action = sent'[i]
    <3> TAKE i \in 1..Len(sent')
    <3>1. i + 1 \in 1..Len(sent) /\ sent'[i] = sent[i + 1]
      BY <1>2
    <3>2. actions_deque[Len(answers) + (i + 1)].action = sent[i + 1]
      BY <1>1, <3>1 DEF QueueOrder
    <3>3. Len(answers) + (i + 1) = Len(answers') + i
      BY <1>2, <1>4
    <3> QED
      BY <3>1, <3>2, <3>3
  <2>4. Len(answers') + Len(sent') = Len(answers) + Len(sent)
    BY <1>2, <1>4
  <2> QED
    BY <1>1, <2>1, <2>2, <2>3, <2>4 DEF QueueOrder
<1>8. AnswersAreTrue'
  <2> SUFFICES ASSUME NEW i \in 1..Len(answers'), answers'[i].code \in {"ok", "409"}
               PROVE  creator'[IdOf[answers'[i].doc]] # Nobody
    BY DEF AnswersAreTrue
  <2>1. CASE i \in 1..Len(answers)
    <3>1. answers'[i] = answers[i]
      BY <2>1, <1>4
    <3>2. answers[i] \in Answer
      BY <2>1, <1>1, <1>4 DEF TypeOK
    <3>3. IdOf[answers[i].doc] \in Ids
      BY <3>2 DEF Answer, Docs
    <3> QED
      BY <3>1, <3>3, <2>1, <1>5 DEF BulkInv, AnswersAreTrue
  <2>2. CASE i = Len(answers) + 1
    BY <2>2, <1>4
  <2> QED
    BY <2>1, <2>2, <1>4
<1>9. (Len(chunk) <= ChunkSize /\ ExhaustedIsFinal)'
  BY <1>1 DEF BulkInv, ExhaustedIsFinal
<1>10. (Accounting /\ BoundedInFlight /\ NoDocLost)'
  BY <1>1 DEF BulkInv, Accounting, BoundedInFlight, InFlight, NoDocLost
<1>11. (AllCountedOnReturn /\ CountedIsStored)'
  <2>1. \A d \in Docs : IdOf[d] \in Ids
    BY DEF Docs
  <2> QED
    BY <2>1, <1>1, <1>5 DEF BulkInv, AllCountedOnReturn, CountedIsStored
<1> QED
  BY <1>6, <1>7, <1>8, <1>9, <1>10, <1>11 DEF BulkInv

\* Every answer of the server is about the first action that has none.
LEMMA ServeInv == BulkInv /\ Serve => BulkInv'
<1> SUFFICES ASSUME BulkInv, Serve PROVE BulkInv'
  OBVIOUS
<1> USE BulkAssumption
<1>1. /\ sent \in Seq(Docs) /\ faults \in 0..MaxFaults /\ resent \in SUBSET Docs
      /\ creator \in [Ids -> 0..(NDocs + 1)]
  BY DEF BulkInv, TypeOK
<1>2. sent # <<>> /\ Head(sent) \in 1..NDocs /\ IdOf[Head(sent)] \in Ids
  <2>1. sent # <<>>
    BY DEF Serve, Created, Conflict, Rejected, Faulted, Resent, AnswerHead
  <2> QED
    BY <2>1, <1>1, TailFacts DEF Docs
<1>3. Creates(Head(sent)) => creator'[IdOf[Head(sent)]] # Nobody
  BY <1>1, <1>2 DEF Creates, Nobody
<1>4. CASE Created
  BY <1>1, <1>3, <1>4, AnswerHeadInv DEF Created
<1>5. CASE Conflict
  BY <1>1, <1>5, AnswerHeadInv DEF Conflict, serverVars, Absent
<1>6. CASE Rejected
  BY <1>1, <1>6, AnswerHeadInv DEF Rejected, serverVars
<1>7. CASE Faulted
  <2>1. faults' \in 0..MaxFaults
    BY <1>1, <1>7 DEF Faulted
  <2> QED
    BY <1>1, <1>7, <2>1, AnswerHeadInv DEF Faulted
<1>8. CASE Resent
  BY <1>1, <1>2, <1>3, <1>8, AnswerHeadInv DEF Resent, Docs
<1> QED
  BY <1>4, <1>5, <1>6, <1>7, <1>8 DEF Serve

\* Reading an answer moves one entry out of actions_deque: into the totals,
\* or to the right of actions_retry_deque.
LEMMA ConsumeInv == BulkInv /\ Consume => BulkInv'
<1> SUFFICES ASSUME BulkInv, Consume PROVE BulkInv'
  OBVIOUS
<1> USE BulkAssumption
<1> DEFINE v == CountedAs(Entry, Code)
           r == [Entry EXCEPT !.retry_count = @ + 1]
<1>1. /\ TypeOK /\ QueueOrder /\ Reading
      /\ sent = <<>> /\ answers # <<>> /\ status = "running"
      /\ answers' = Tail(answers) /\ actions_deque' = Tail(actions_deque)
      /\ UNCHANGED <<next, retry_actions, retries, exhausted, chunk, sent, status>>
      /\ UNCHANGED <<creator, faults, resent>>
  BY DEF BulkInv, Consume, Reading, genVars, serverVars
<1>2. /\ answers' \in Seq(Answer) /\ Len(answers') = Len(answers) - 1
      /\ Len(answers) \in Nat \ {0}
      /\ \A i \in 1..(Len(answers) - 1) : answers'[i] = answers[i + 1]
      /\ Head(answers) = answers[1] /\ Head(answers) \in Answer
  BY <1>1, TailFacts DEF TypeOK
<1>3. /\ Len(actions_deque) = Len(answers) + Len(chunk) /\ Len(chunk) \in Nat
      /\ actions_deque # <<>>
  BY <1>1, <1>2 DEF QueueOrder, TypeOK
<1>4. /\ actions_deque' \in Seq(Tracked) /\ Len(actions_deque') = Len(actions_deque) - 1
      /\ Len(actions_deque) \in Nat \ {0}
      /\ \A i \in 1..(Len(actions_deque) - 1) : actions_deque'[i] = actions_deque[i + 1]
      /\ Entry = actions_deque[1] /\ Entry \in Tracked
  BY <1>1, <1>3, TailFacts DEF TypeOK, Entry
<1>5. Entry.action = Head(answers).doc /\ Entry.action \in Docs
  BY <1>1, <1>2, <1>4 DEF QueueOrder, Tracked
<1>6. QueueOrder'
  <2>1. Len(actions_deque') = Len(answers') + Len(sent') + Len(chunk')
    BY <1>1, <1>2, <1>3, <1>4
  <2>2. ASSUME NEW i \in 1..Len(answers') PROVE actions_deque'[i].action = answers'[i].doc
    <3>1. i + 1 \in 1..Len(answers) /\ i \in 1..(Len(actions_deque) - 1)
      BY <1>2, <1>3
    <3> QED
      BY <3>1, <1>1, <1>2, <1>4 DEF QueueOrder
  <2>3. ASSUME NEW i \in 1..Len(chunk')
        PROVE  actions_deque'[Len(answers') + Len(sent') + i].action = chunk'[i]
    <3>1. /\ Len(answers') + Len(sent') + i = Len(answers) - 1 + i
          /\ Len(answers) - 1 + i \in 1..(Len(actions_deque) - 1)
      BY <1>1, <1>2, <1>3
    <3>2. actions_deque'[Len(answers) - 1 + i] = actions_deque[Len(answers) + i]
      BY <3>1, <1>2, <1>4
    <3>3. actions_deque[Len(answers) + i].action = chunk[i]
      BY <1>1 DEF QueueOrder
    <3> QED
      BY <3>1, <3>2, <3>3, <1>1
  <2> QED
    BY <2>1, <2>2, <2>3, <1>1 DEF QueueOrder
<1>7. AnswersAreTrue'
  BY <1>1, <1>2 DEF BulkInv, AnswersAreTrue
<1>8. (Len(chunk) <= ChunkSize /\ ExhaustedIsFinal)'
  BY <1>1 DEF BulkInv, ExhaustedIsFinal
<1>9. DocsOf(actions_deque) \subseteq DocsOf(actions_deque') \cup {Entry.action}
  BY <1>1, <1>3, DocsOfTail DEF TypeOK, Entry
<1>10. /\ Len(actions_retry_deque) \in Nat /\ Len(retry_actions) \in Nat
       /\ totals \in [Verdicts -> Nat]
  BY <1>1 DEF TypeOK
<1>11. CASE Code # "other" /\ Count(Entry.action, v)
  <2>1. /\ totals' = [totals EXCEPT ![v] = @ + 1]
        /\ verdict' = [verdict EXCEPT ![Entry.action] = v]
        /\ actions_retry_deque' = actions_retry_deque
    BY <1>11 DEF Count
  <2>2. Code \in {"ok", "409", "400"}
    BY <1>2, <1>11 DEF Code, Answer
  <2>3. v \in Verdicts /\ (v # "failure" => Code \in {"ok", "409"})
    BY <2>2 DEF CountedAs, Verdicts
  <2> HIDE DEF v
  <2>4. TypeOK'
    BY <1>1, <1>2, <1>4, <1>5, <2>1, <2>3 DEF TypeOK
  <2>5. InFlight' = InFlight - 1
    BY <1>1, <1>4, <1>10, <2>1 DEF InFlight
  <2>6. totals'["success"] + totals'["duplicate"] + totals'["failure"] =
          totals["success"] + totals["duplicate"] + totals["failure"] + 1
    BY <1>10, <2>1, <2>3 DEF Verdicts
  <2>7. InFlight \in Int
    BY <1>4, <1>10 DEF InFlight
  <2>8. totals["success"] + totals["duplicate"] + totals["failure"] \in Nat
    BY <1>10 DEF Verdicts
  <2>9. Accounting'
    BY <1>1, <2>5, <2>6, <2>7, <2>8 DEF BulkInv, Accounting
  <2>10. BoundedInFlight'
    BY <1>1, <2>5, <2>7 DEF BulkInv, BoundedInFlight
  <2>11. NoDocLost'
    <3> SUFFICES ASSUME NEW d \in 1..(next - 1), verdict'[d] = "none"
                 PROVE  d \in DocsOf(actions_deque') \cup DocsOf(actions_retry_deque')
                               \cup DocsOf(retry_actions')
      BY <1>1 DEF NoDocLost
    <3>1. d \in Docs
      BY <1>1 DEF TypeOK, Docs
    <3>2. d # Entry.action /\ verdict[d] = "none"
      BY <1>1, <1>5, <2>1, <2>3, <3>1 DEF TypeOK, Verdicts
    <3> QED
      BY <3>2, <1>1, <1>9, <2>1 DEF BulkInv, NoDocLost
  <2>12. AllCountedOnReturn'
    BY <1>1 DEF AllCountedOnReturn
  <2>13. CountedIsStored'
    <3> SUFFICES ASSUME NEW d \in Docs, verdict'[d] \in {"success", "duplicate"}
                 PROVE  creator[IdOf[d]] # Nobody
      BY <1>1 DEF CountedIsStored
    <3>1. CASE d = Entry.action
      <4>1. v # "failure"
        BY <3>1, <1>1, <1>5, <2>1 DEF TypeOK
      <4>2. answers[1].code \in {"ok", "409"}
        BY <4>1, <2>3, <1>2 DEF Code
      <4> QED
        BY <4>2, <3>1, <1>2, <1>5 DEF BulkInv, AnswersAreTrue
    <3>2. CASE d # Entry.action
      BY <3>2, <1>1, <1>5, <2>1 DEF BulkInv, TypeOK, CountedIsStored
    <3> QED
      BY <3>1, <3>2
  <2> QED
    BY <1>6, <1>7, <1>8, <2>4, <2>9, <2>10, <2>11, <2>12, <2>13 DEF BulkInv
<1>12. CASE /\ Code = "other"
            /\ actions_retry_deque' = Append(actions_retry_deque, r)
            /\ UNCHANGED countVars
  <2>1. r \in Tracked /\ r.action = Entry.action
    BY <1>4 DEF Tracked
  <2> HIDE DEF r
  <2>2. /\ actions_retry_deque' \in Seq(Tracked)
        /\ Len(actions_retry_deque') = Len(actions_retry_deque) + 1
        /\ DocsOf(actions_retry_deque') = DocsOf(actions_retry_deque) \cup {Entry.action}
        /\ UNCHANGED <<totals, verdict>>
    BY <1>1, <1>12, <2>1, AppendFacts, DocsOfAppend DEF TypeOK, countVars
  <2>3. TypeOK'
    BY <1>1, <1>2, <1>4, <2>2 DEF TypeOK
  <2>4. InFlight' = InFlight
    BY <1>1, <1>4, <1>10, <2>2 DEF InFlight
  <2>5. (Accounting /\ BoundedInFlight)'
    BY <1>1, <2>2, <2>4 DEF BulkInv, Accounting, BoundedInFlight
  <2>6. NoDocLost'
    BY <1>1, <1>9, <2>2 DEF BulkInv, NoDocLost
  <2> QED
    BY <1>1, <1>6, <1>7, <1>8, <2>2, <2>3, <2>5, <2>6, CountsKept DEF BulkInv
<1> QED
  BY <1>11, <1>12 DEF Consume

\* With the generator exhausted and both deques empty nothing is in flight, so
\* NoDocLost leaves no document without a verdict.
LEMMA FinishInv == BulkInv /\ Finish => BulkInv'
<1> SUFFICES ASSUME BulkInv, Finish PROVE BulkInv'
  OBVIOUS
<1> USE BulkAssumption
<1>1. /\ exhausted
      /\ status' = IF actions_deque = <<>> /\ actions_retry_deque = <<>>
                   THEN "returned" ELSE "assertion"
      /\ UNCHANGED <<next, actions_deque, actions_retry_deque, retry_actions, retries>>
      /\ UNCHANGED <<exhausted, chunk, sent, answers, creator, faults, resent, totals, verdict>>
  BY DEF Finish, End, genVars, serverVars, countVars
<1>2. TypeOK'
  BY <1>1 DEF BulkInv, TypeOK
<1>3. (Len(chunk) <= ChunkSize /\ QueueOrder /\ AnswersAreTrue /\ ExhaustedIsFinal)'
  BY <1>1 DEF BulkInv, QueueOrder, AnswersAreTrue, ExhaustedIsFinal
<1>4. (Accounting /\ BoundedInFlight /\ NoDocLost /\ CountedIsStored)'
  BY <1>1 DEF BulkInv, Accounting, BoundedInFlight, InFlight, NoDocLost, CountedIsStored
<1>5. AllCountedOnReturn'
  <2> SUFFICES ASSUME status' = "returned", NEW d \in Docs PROVE verdict[d] # "none"
    BY <1>1 DEF AllCountedOnReturn
  <2>1. actions_deque = <<>> /\ actions_retry_deque = <<>>
    BY <1>1
  <2>2. retry_actions = <<>> /\ d \in 1..(next - 1)
    BY <1>1 DEF BulkInv, ExhaustedIsFinal, Docs
  <2> QED
    BY <2>1, <2>2, DocsOfEmpty DEF BulkInv, NoDocLost
<1> QED
  BY <1>2, <1>3, <1>4, <1>5 DEF BulkInv
-----------------------------------------------------------------------------
\* A step that changes nothing keeps the invariant.
LEMMA StutterInv == BulkInv /\ UNCHANGED vars => BulkInv'
<1> SUFFICES ASSUME BulkInv, UNCHANGED vars PROVE BulkInv'
  OBVIOUS
<1>1. TypeOK'
  BY DEF BulkInv, vars, TypeOK
<1>2. (Len(chunk) <= ChunkSize /\ QueueOrder /\ AnswersAreTrue /\ ExhaustedIsFinal)'
  BY DEF BulkInv, vars, QueueOrder, AnswersAreTrue, ExhaustedIsFinal
<1>3. (Accounting /\ BoundedInFlight /\ NoDocLost)'
  BY DEF BulkInv, vars, Accounting, BoundedInFlight, InFlight, NoDocLost
<1>4. (AllCountedOnReturn /\ CountedIsStored)'
  BY DEF BulkInv, vars, AllCountedOnReturn, CountedIsStored
<1> QED
  BY <1>1, <1>2, <1>3, <1>4 DEF BulkInv

\* The strengthening is inductive.
LEMMA NextBulkInv == BulkInv /\ [Next]_vars => BulkInv'
  BY YieldNewInv, DrainRetriesInv, YieldRetryInv, ExhaustInv, SourceRaisesInv, ServeInv,
     ConsumeInv, FinishInv, StutterInv DEF Next, Generate

\* BulkInv holds in every state of every execution of streaming_bulk.
THEOREM BulkInvariant == Spec => []BulkInv
  BY InitBulkInv, NextBulkInv, PTL DEF Spec

\* The assertion of py_es_bulk.py:185 never fails: the answer read is the
\* answer to the entry popped from actions_deque.
THEOREM AlwaysAligned == Spec => []AnswersMatchActions
<1>1. BulkInv => AnswersMatchActions
  <2> SUFFICES ASSUME BulkInv, Reading PROVE actions_deque # <<>> /\ Entry.action = Head(answers).doc
    BY DEF AnswersMatchActions
  <2>1. /\ answers \in Seq(Answer) /\ answers # <<>>
        /\ actions_deque \in Seq(Tracked) /\ Len(chunk) \in Nat /\ Len(sent) \in Nat
        /\ QueueOrder
    BY DEF BulkInv, TypeOK, Reading
  <2>2. Head(answers) = answers[1] /\ Len(answers) \in Nat \ {0}
    BY <2>1, TailFacts
  <2>3. actions_deque # <<>>
    BY <2>1, <2>2 DEF QueueOrder
  <2>4. Entry = actions_deque[1]
    BY <2>1, <2>3, TailFacts DEF Entry
  <2> QED
    BY <2>1, <2>2, <2>3, <2>4 DEF QueueOrder
<1> QED
  BY <1>1, BulkInvariant, PTL
-----------------------------------------------------------------------------
(* One place for each document                                             *)

\* No two entries of the queue are for the same document.
Distinct(s) == \A i, j \in 1..Len(s) : s[i].action = s[j].action => i = j

\* Every document of the queue has been pulled and has not been counted.
AllOpen(s) == \A d \in DocsOf(s) : d < next /\ verdict[d] = "none"

\* A document waits at one place of one queue.
OnceInFlight ==
  /\ Distinct(actions_deque) /\ Distinct(actions_retry_deque) /\ Distinct(retry_actions)
  /\ DocsOf(actions_deque) \cap DocsOf(actions_retry_deque) = {}
  /\ DocsOf(actions_deque) \cap DocsOf(retry_actions) = {}
  /\ DocsOf(actions_retry_deque) \cap DocsOf(retry_actions) = {}

\* What waits is open, and what was not pulled is not counted.
OpenInFlight ==
  /\ AllOpen(actions_deque) /\ AllOpen(actions_retry_deque) /\ AllOpen(retry_actions)
  /\ \A d \in Docs : d >= next => verdict[d] = "none"

\* BulkInv says that no document is lost, this that none is held twice.
OnceInv == BulkInv /\ OnceInFlight /\ OpenInFlight
-----------------------------------------------------------------------------
\* A document that is not in the queue may be appended to it.
LEMMA DistinctAppend ==
  ASSUME NEW s \in Seq(Tracked), NEW e \in Tracked, Distinct(s), e.action \notin DocsOf(s)
  PROVE  Distinct(Append(s, e))
<1>1. /\ Len(Append(s, e)) = Len(s) + 1
      /\ Len(s) \in Nat
      /\ \A i \in 1..Len(s) : Append(s, e)[i] = s[i]
      /\ Append(s, e)[Len(s) + 1] = e
  BY AppendFacts
<1>2. \A i \in 1..Len(s) : s[i].action # e.action
  BY DEF DocsOf
<1>3. SUFFICES ASSUME NEW i \in 1..(Len(s) + 1), NEW j \in 1..(Len(s) + 1),
                      Append(s, e)[i].action = Append(s, e)[j].action
               PROVE  i = j
  BY <1>1 DEF Distinct
<1>4. CASE i \in 1..Len(s) /\ j \in 1..Len(s)
  BY <1>1, <1>3, <1>4 DEF Distinct
<1>5. CASE i = Len(s) + 1 \/ j = Len(s) + 1
  <2>1. ASSUME NEW k \in 1..(Len(s) + 1), Append(s, e)[k].action = e.action PROVE k = Len(s) + 1
    <3>1. k \notin 1..Len(s)
      BY <1>1, <1>2, <2>1
    <3> QED
      BY <3>1, <1>1
  <2> QED
    BY <1>1, <1>3, <1>5, <2>1
<1> QED
  BY <1>1, <1>4, <1>5

\* Taking the head of a queue without repetitions takes its document out of the queue.
LEMMA DistinctTail ==
  ASSUME NEW s \in Seq(Tracked), s # <<>>, Distinct(s)
  PROVE  /\ Distinct(Tail(s))
         /\ Head(s).action \notin DocsOf(Tail(s))
         /\ DocsOf(s) = DocsOf(Tail(s)) \cup {Head(s).action}
<1>1. /\ Len(Tail(s)) = Len(s) - 1
      /\ Len(s) \in Nat \ {0}
      /\ \A i \in 1..(Len(s) - 1) : Tail(s)[i] = s[i + 1]
      /\ Head(s) = s[1]
  BY TailFacts
<1>2. ASSUME NEW i \in 1..Len(Tail(s))
      PROVE  i + 1 \in 1..Len(s) /\ Tail(s)[i] = s[i + 1] /\ i + 1 # 1
  BY <1>1
<1>3. Distinct(Tail(s))
  <2> SUFFICES ASSUME NEW i \in 1..Len(Tail(s)), NEW j \in 1..Len(Tail(s)),
                      Tail(s)[i].action = Tail(s)[j].action
               PROVE  i = j
    BY DEF Distinct
  <2>1. i + 1 = j + 1
    BY <1>2 DEF Distinct
  <2> QED
    BY <2>1, <1>1
<1>4. Head(s).action \notin DocsOf(Tail(s))
  <2> SUFFICES ASSUME NEW i \in 1..Len(Tail(s)), Tail(s)[i].action = s[1].action PROVE FALSE
    BY <1>1 DEF DocsOf
  <2>1. i + 1 = 1
    BY <1>1, <1>2 DEF Distinct
  <2> QED
    BY <2>1, <1>2
<1>5. DocsOf(Tail(s)) \cup {Head(s).action} \subseteq DocsOf(s)
  BY <1>1, <1>2 DEF DocsOf
<1>6. DocsOf(s) \subseteq DocsOf(Tail(s)) \cup {Head(s).action}
  BY DocsOfTail
<1> QED
  BY <1>3, <1>4, <1>5, <1>6

\* An empty queue has no repetitions.
LEMMA DistinctEmpty == Distinct(<<>>)
  BY DEF Distinct

\* The documents of a queue are documents.
LEMMA DocsOfDocs ==
  ASSUME NEW s \in Seq(Tracked)
  PROVE  DocsOf(s) \subseteq Docs
<1>1. ASSUME NEW i \in 1..Len(s) PROVE s[i].action \in Docs
  <2>1. s[i] \in Tracked
    OBVIOUS
  <2> QED
    BY <2>1 DEF Tracked
<1> QED
  BY <1>1 DEF DocsOf

\* What the queues are in a state that satisfies BulkInv.
LEMMA QueuesTyped ==
  ASSUME BulkInv
  PROVE  /\ actions_deque \in Seq(Tracked) /\ actions_retry_deque \in Seq(Tracked)
         /\ retry_actions \in Seq(Tracked)
         /\ next \in 1..(NDocs + 1) /\ NDocs \in Nat
         /\ verdict \in [Docs -> Verdicts \cup {"none"}]
  BY BulkAssumption DEF BulkInv, TypeOK
-----------------------------------------------------------------------------
(* Each document is in flight at most once                                 *)

\* At the start nothing is in flight and nothing is counted.
LEMMA InitOnceInv == Init => OnceInv
<1> SUFFICES ASSUME Init PROVE OnceInv
  OBVIOUS
<1>1. BulkInv
  BY InitBulkInv
<1>2. OnceInFlight
  BY DistinctEmpty, DocsOfEmpty DEF Init, OnceInFlight
<1>3. OpenInFlight
  BY DocsOfEmpty DEF Init, OpenInFlight, AllOpen
<1> QED
  BY <1>1, <1>2, <1>3 DEF OnceInv

\* A step that moves no entry and counts nothing keeps both parts.
LEMMA OnceKept ==
  ASSUME OnceInv,
         UNCHANGED <<next, actions_deque, actions_retry_deque, retry_actions, verdict>>
  PROVE  (OnceInFlight /\ OpenInFlight)'
<1>1. OnceInFlight'
  BY DEF OnceInv, OnceInFlight
<1>2. OpenInFlight'
  BY DEF OnceInv, OpenInFlight, AllOpen
<1> QED
  BY <1>1, <1>2

\* The document pulled is new to the queues.
LEMMA YieldNewOnce == OnceInv /\ YieldNew => (OnceInFlight /\ OpenInFlight)'
<1> SUFFICES ASSUME OnceInv, YieldNew PROVE (OnceInFlight /\ OpenInFlight)'
  OBVIOUS
<1> DEFINE e == [retry_count |-> 0, action |-> next]
<1>1. /\ actions_deque \in Seq(Tracked) /\ next \in Nat /\ next \in Docs
      /\ actions_retry_deque = <<>> /\ retry_actions = <<>>
      /\ actions_deque' = Append(actions_deque, e) /\ next' = next + 1
      /\ UNCHANGED <<actions_retry_deque, retry_actions, verdict>>
  BY QueuesTyped DEF OnceInv, YieldNew, Pull, NothingToRetry, Yield, countVars, Docs
<1>2. e \in Tracked /\ e.action = next
  BY <1>1 DEF Tracked
<1>3. next \notin DocsOf(actions_deque)
  BY <1>1 DEF OnceInv, OpenInFlight, AllOpen
<1>4. DocsOf(actions_deque') = DocsOf(actions_deque) \cup {next}
  BY <1>1, <1>2, DocsOfAppend
<1>5. Distinct(actions_deque')
  BY <1>1, <1>2, <1>3, DistinctAppend DEF OnceInv, OnceInFlight
<1>6. OnceInFlight'
  BY <1>1, <1>5, DistinctEmpty, DocsOfEmpty DEF OnceInFlight
<1>7. OpenInFlight'
  <2>1. verdict[next] = "none"
    BY <1>1 DEF OnceInv, OpenInFlight
  <2>2. \A d \in DocsOf(actions_deque') : d < next + 1 /\ verdict[d] = "none"
    <3>1. \A d \in DocsOf(actions_deque) : d \in Docs /\ d < next /\ verdict[d] = "none"
      BY <1>1, DocsOfDocs DEF OnceInv, OpenInFlight, AllOpen
    <3> QED
      BY <1>1, <1>4, <2>1, <3>1, BulkAssumption DEF Docs
  <2>3. \A d \in Docs : d >= next + 1 => verdict[d] = "none"
    BY <1>1, BulkAssumption DEF OnceInv, OpenInFlight, Docs
  <2> QED
    BY <1>1, <2>2, <2>3, DocsOfEmpty DEF OpenInFlight, AllOpen
<1> QED
  BY <1>6, <1>7

\* The drained entries change queue together.
LEMMA DrainRetriesOnce == OnceInv /\ DrainRetries => (OnceInFlight /\ OpenInFlight)'
<1> SUFFICES ASSUME OnceInv, DrainRetries PROVE (OnceInFlight /\ OpenInFlight)'
  OBVIOUS
<1>1. /\ retry_actions = <<>>
      /\ retry_actions' = actions_retry_deque /\ actions_retry_deque' = <<>>
      /\ UNCHANGED <<next, actions_deque, verdict>>
  BY DEF DrainRetries, Drain, countVars
<1>2. OnceInFlight'
  BY <1>1, DistinctEmpty, DocsOfEmpty DEF OnceInv, OnceInFlight
<1>3. OpenInFlight'
  BY <1>1, DocsOfEmpty DEF OnceInv, OpenInFlight, AllOpen
<1> QED
  BY <1>2, <1>3

\* The entry sent again leaves retry_actions for actions_deque.
LEMMA ResendOnce == OnceInv /\ YieldRetry => (OnceInFlight /\ OpenInFlight)'
<1> SUFFICES ASSUME OnceInv, YieldRetry PROVE (OnceInFlight /\ OpenInFlight)'
  OBVIOUS
<1> DEFINE e == Head(retry_actions)
<1>1. /\ actions_deque \in Seq(Tracked) /\ retry_actions \in Seq(Tracked)
      /\ retry_actions # <<>> /\ retry_actions' = Tail(retry_actions)
      /\ actions_deque' = Append(actions_deque, e)
      /\ UNCHANGED <<next, actions_retry_deque, verdict>>
  BY QueuesTyped DEF OnceInv, YieldRetry, Resend, Yield, countVars
<1>2. e \in Tracked
  BY <1>1, TailFacts
<1>3. /\ Distinct(retry_actions') /\ e.action \notin DocsOf(retry_actions')
      /\ DocsOf(retry_actions) = DocsOf(retry_actions') \cup {e.action}
  BY <1>1, DistinctTail DEF OnceInv, OnceInFlight
<1>4. e.action \notin DocsOf(actions_deque) /\ e.action \notin DocsOf(actions_retry_deque)
  BY <1>3 DEF OnceInv, OnceInFlight
<1>5. /\ Distinct(actions_deque')
      /\ DocsOf(actions_deque') = DocsOf(actions_deque) \cup {e.action}
  BY <1>1, <1>2, <1>4, DistinctAppend, DocsOfAppend DEF OnceInv, OnceInFlight
<1> HIDE DEF e
<1>6. OnceInFlight'
  BY <1>1, <1>3, <1>4, <1>5 DEF OnceInv, OnceInFlight
<1>7. OpenInFlight'
  BY <1>1, <1>3, <1>5 DEF OnceInv, OpenInFlight, AllOpen
<1> QED
  BY <1>6, <1>7

\* The entry whose answer is read leaves actions_deque, counted or to be sent again.
LEMMA ConsumeOnce == OnceInv /\ Consume => (OnceInFlight /\ OpenInFlight)'
<1> SUFFICES ASSUME OnceInv, Consume PROVE (OnceInFlight /\ OpenInFlight)'
  OBVIOUS
<1> DEFINE a == Entry.action
           r == [Entry EXCEPT !.retry_count = @ + 1]
<1>1. /\ actions_deque \in Seq(Tracked) /\ actions_retry_deque \in Seq(Tracked)
      /\ retry_actions \in Seq(Tracked) /\ next \in Nat
      /\ actions_deque' = Tail(actions_deque)
      /\ UNCHANGED <<next, retry_actions>>
      /\ verdict \in [Docs -> Verdicts \cup {"none"}]
  BY QueuesTyped DEF OnceInv, Consume, genVars
<1>2. actions_deque # <<>>
  BY DEF OnceInv, BulkInv, TypeOK, QueueOrder, Consume, Reading
<1>3. Entry \in Tracked
  BY <1>1, <1>2, TailFacts DEF Entry
<1>4. /\ Distinct(actions_deque') /\ a \notin DocsOf(actions_deque')
      /\ DocsOf(actions_deque) = DocsOf(actions_deque') \cup {a}
  BY <1>1, <1>2, DistinctTail DEF OnceInv, OnceInFlight, Entry
<1>5. /\ a \notin DocsOf(actions_retry_deque) /\ a \notin DocsOf(retry_actions)
      /\ a < next /\ verdict[a] = "none" /\ a \in Docs
  BY <1>3, <1>4 DEF OnceInv, OnceInFlight, OpenInFlight, AllOpen, Tracked
<1>6. CASE Code # "other" /\ Count(a, CountedAs(Entry, Code))
  <2>1. /\ UNCHANGED actions_retry_deque
        /\ \A d \in Docs \ {a} : verdict'[d] = verdict[d]
    BY <1>1, <1>6 DEF Count
  <2>2. OnceInFlight'
    BY <1>1, <1>4, <2>1 DEF OnceInv, OnceInFlight
  <2>3. OpenInFlight'
    <3>1. \A s \in {actions_deque', actions_retry_deque, retry_actions} :
            \A d \in DocsOf(s) : d \in Docs /\ d # a /\ d < next /\ verdict[d] = "none"
      BY <1>1, <1>4, <1>5, DocsOfDocs DEF OnceInv, OpenInFlight, AllOpen
    <3>2. \A d \in Docs : d >= next => d # a /\ verdict[d] = "none"
      BY <1>1, <1>5, BulkAssumption DEF OnceInv, OpenInFlight, Docs
    <3> QED
      BY <1>1, <2>1, <3>1, <3>2 DEF OpenInFlight, AllOpen
  <2> QED
    BY <2>2, <2>3
<1>7. CASE /\ Code = "other"
           /\ actions_retry_deque' = Append(actions_retry_deque, r)
           /\ UNCHANGED countVars
  <2>1. r \in Tracked /\ r.action = a
    BY <1>3 DEF Tracked
  <2> HIDE DEF r
  <2>2. /\ Distinct(actions_retry_deque')
        /\ DocsOf(actions_retry_deque') = DocsOf(actions_retry_deque) \cup {a}
        /\ UNCHANGED verdict
    BY <1>1, <1>5, <1>7, <2>1, DistinctAppend, DocsOfAppend
       DEF OnceInv, OnceInFlight, countVars
  <2>3. OnceInFlight'
    BY <1>1, <1>4, <1>5, <2>2 DEF OnceInv, OnceInFlight
  <2>4. OpenInFlight'
    BY <1>1, <1>4, <1>5, <2>2 DEF OnceInv, OpenInFlight, AllOpen
  <2> QED
    BY <2>3, <2>4
<1> QED
  BY <1>6, <1>7 DEF Consume

\* Every step keeps OnceInv.
LEMMA NextOnceInv == OnceInv /\ [Next]_vars => OnceInv'
<1> SUFFICES ASSUME OnceInv, [Next]_vars PROVE OnceInv'
  OBVIOUS
<1>1. BulkInv'
  BY NextBulkInv DEF OnceInv
<1>2. (OnceInFlight /\ OpenInFlight)'
  <2>1. CASE YieldNew
    BY <2>1, YieldNewOnce
  <2>2. CASE DrainRetries
    BY <2>2, DrainRetriesOnce
  <2>3. CASE YieldRetry
    BY <2>3, ResendOnce
  <2>4. CASE Consume
    BY <2>4, ConsumeOnce
  <2>5. CASE Exhaust \/ SourceRaises \/ Finish
    BY <2>5, OnceKept DEF Exhaust, SourceRaises, Finish, End, genVars, countVars
  <2>6. CASE Serve
    BY <2>6, OnceKept
       DEF Serve, Created, Conflict, Rejected, Faulted, Resent, AnswerHead, genVars, countVars
  <2>7. CASE UNCHANGED vars
    BY <2>7, OnceKept DEF vars
  <2> QED
    BY <2>1, <2>2, <2>3, <2>4, <2>5, <2>6, <2>7 DEF Next, Generate
<1> QED
  BY <1>1, <1>2 DEF OnceInv

\* However often documents are pushed back, regrouped or resent, each waits at one
\* place only, is open while it waits, and is counted at most once.
THEOREM EachOnce == Spec => []OnceInv
  BY InitOnceInv, NextOnceInv, PTL DEF Spec

\* The first action without an answer is at its place in actions_deque, and there only.
LEMMA FirstUnanswered ==
  ASSUME OnceInv, sent # <<>>
  PROVE  /\ Head(sent) \in Docs /\ Head(sent) < next /\ verdict[Head(sent)] = "none"
         /\ Len(answers) \in Nat /\ Len(answers) + 1 \in 1..Len(actions_deque)
         /\ actions_deque[Len(answers) + 1].action = Head(sent)
         /\ \A i \in 1..Len(actions_deque) :
              i # Len(answers) + 1 => actions_deque[i].action # Head(sent)
<1>1. /\ sent \in Seq(Docs) /\ Len(answers) \in Nat /\ Len(chunk) \in Nat
      /\ Len(actions_deque) = Len(answers) + Len(sent) + Len(chunk)
      /\ \A i \in 1..Len(sent) : actions_deque[Len(answers) + i].action = sent[i]
  BY DEF OnceInv, BulkInv, TypeOK, QueueOrder
<1>2. Head(sent) \in Docs /\ Head(sent) = sent[1] /\ Len(sent) \in Nat \ {0}
  BY <1>1, TailFacts
<1>3. /\ Len(answers) + 1 \in 1..Len(actions_deque)
      /\ actions_deque[Len(answers) + 1].action = Head(sent)
  BY <1>1, <1>2
<1>4. Head(sent) \in DocsOf(actions_deque)
  BY <1>3 DEF DocsOf
<1>5. Head(sent) < next /\ verdict[Head(sent)] = "none"
  BY <1>4 DEF OnceInv, OpenInFlight, AllOpen
<1>6. \A i \in 1..Len(actions_deque) :
        i # Len(answers) + 1 => actions_deque[i].action # Head(sent)
  BY <1>3 DEF OnceInv, OnceInFlight, Distinct
<1> QED
  BY <1>1, <1>2, <1>3, <1>5, <1>6

\* The answer being read is about the head of actions_deque.
LEMMA FirstAnswered ==
  ASSUME OnceInv, Reading
  PROVE  /\ answers \in Seq(Answer) /\ Len(answers) \in Nat \ {0}
         /\ Head(answers) = answers[1] /\ Head(answers) \in Answer
         /\ actions_deque \in Seq(Tracked) /\ actions_deque # <<>>
         /\ Entry = actions_deque[1] /\ Entry \in Tracked
         /\ Entry.action = Head(answers).doc /\ Entry.action \in Docs
         /\ Entry.action < next /\ verdict[Entry.action] = "none"
<1>1. /\ answers # <<>> /\ answers \in Seq(Answer) /\ actions_deque \in Seq(Tracked)
  BY DEF Reading, OnceInv, BulkInv, TypeOK
<1>2. Head(answers) = answers[1] /\ Head(answers) \in Answer /\ Len(answers) \in Nat \ {0}
  BY <1>1, TailFacts
<1>3. /\ Len(actions_deque) = Len(answers) + Len(sent) + Len(chunk)
      /\ Len(sent) \in Nat /\ Len(chunk) \in Nat
      /\ actions_deque[1].action = answers[1].doc
  BY <1>2 DEF OnceInv, BulkInv, TypeOK, QueueOrder
<1>4. actions_deque # <<>>
  BY <1>2, <1>3
<1>5. Entry = actions_deque[1] /\ Entry \in Tracked
  BY <1>1, <1>4, TailFacts DEF Entry
<1>6. Entry.action \in DocsOf(actions_deque)
  BY <1>1, <1>4, DistinctTail DEF OnceInv, OnceInFlight, Entry
<1>7. Entry.action \in Docs /\ Entry.action < next /\ verdict[Entry.action] = "none"
  BY <1>1, <1>6, DocsOfDocs DEF OnceInv, OpenInFlight, AllOpen
<1> QED
  BY <1>1, <1>2, <1>3, <1>4, <1>5, <1>7
-----------------------------------------------------------------------------
(* streaming_bulk implements the ledger                                    *)

\* What the substitutions of Ledger give for ledger and stored.
LedgerView == [d \in Docs |-> IF d >= next THEN "unseen"
                              ELSE IF verdict[d] = "none" THEN "open" ELSE verdict[d]]
StoredView == {i \in Ids : creator[i] # Nobody}

(* The steps of the ledger, in terms of the two views.                     *)

\* The first unseen document is taken.
LEMMA LedgerTake ==
  ASSUME NEW d \in Docs, status = "running", status' = "running",
         LedgerView[d] = "unseen", \A e \in 1..(d - 1) : LedgerView[e] # "unseen",
         LedgerView' = [LedgerView EXCEPT ![d] = "open"],
         UNCHANGED <<StoredView, totals>>
  PROVE  Ledger!LedgerNext
  BY DEF Ledger!LedgerNext, Ledger!Take, Ledger!Docs, Docs, LedgerView, StoredView

\* A document that is open is written to the index.
LEMMA LedgerStore ==
  ASSUME NEW d \in Docs, status = "running", status' = "running",
         LedgerView[d] = "open", StoredView' = StoredView \cup {IdOf[d]},
         UNCHANGED <<LedgerView, totals>>
  PROVE  Ledger!LedgerNext
  BY DEF Ledger!LedgerNext, Ledger!Store, Ledger!Docs, Docs, LedgerView, StoredView

\* An open document gets its verdict; unless it failed, its id is in the index.
LEMMA LedgerSettle ==
  ASSUME NEW d \in Docs, NEW v \in Verdicts, status = "running", status' = "running",
         LedgerView[d] = "open", v # "failure" => IdOf[d] \in StoredView,
         LedgerView' = [LedgerView EXCEPT ![d] = v],
         totals' = [totals EXCEPT ![v] = @ + 1],
         UNCHANGED StoredView
  PROVE  Ledger!LedgerNext
  BY DEF Ledger!LedgerNext, Ledger!Settle, Ledger!Docs, Ledger!Verdicts, Verdicts, Docs,
         LedgerView, StoredView

\* The call returns when every document has a verdict.
LEMMA LedgerReturn ==
  ASSUME status = "running", status' = "returned",
         \A d \in Docs : LedgerView[d] \in Verdicts,
         UNCHANGED <<LedgerView, StoredView, totals>>
  PROVE  Ledger!LedgerNext
  BY DEF Ledger!LedgerNext, Ledger!Return, Ledger!Docs, Ledger!Verdicts, Verdicts, Docs,
         LedgerView, StoredView

\* The call may fail whatever is open.
LEMMA LedgerFail ==
  ASSUME status = "running", status' \in {"raised", "assertion"},
         UNCHANGED <<LedgerView, StoredView, totals>>
  PROVE  Ledger!LedgerNext
  BY DEF Ledger!LedgerNext, Ledger!Fail, LedgerView, StoredView

\* A step that changes neither view is none of the ledger.
LEMMA LedgerStutters ==
  ASSUME UNCHANGED <<LedgerView, StoredView, totals, status>>
  PROVE  UNCHANGED Ledger!ledgerVars
  BY DEF Ledger!ledgerVars, LedgerView, StoredView

\* Every initial state of the module is one of the ledger's.
LEMMA InitLedger == Init => Ledger!LedgerInit
<1> SUFFICES ASSUME Init PROVE Ledger!LedgerInit
  OBVIOUS
<1>1. \A d \in Docs : LedgerView[d] = "unseen"
  BY BulkAssumption DEF Init, LedgerView, Docs
<1>2. LedgerView = [d \in Docs |-> "unseen"]
  BY <1>1 DEF LedgerView
<1>3. StoredView \in SUBSET Ids
  BY DEF StoredView
<1> QED
  BY <1>2, <1>3 DEF Init, Ledger!LedgerInit, Ledger!Docs, Ledger!Verdicts, Verdicts, Docs,
                   LedgerView, StoredView

\* Pulling a document from the caller takes it into the ledger.
LEMMA YieldNewTakes == OnceInv /\ YieldNew => Ledger!LedgerNext
<1> SUFFICES ASSUME OnceInv, YieldNew PROVE Ledger!LedgerNext
  OBVIOUS
<1>1. /\ next \in Docs /\ next \in 1..(NDocs + 1) /\ NDocs \in Nat
      /\ next' = next + 1 /\ status = "running" /\ status' = "running"
      /\ UNCHANGED <<verdict, totals, creator>>
  BY QueuesTyped DEF OnceInv, YieldNew, Pull, Pulling, countVars, serverVars
<1>2. LedgerView[next] = "unseen" /\ \A e \in 1..(next - 1) : LedgerView[e] # "unseen"
  <2>1. ASSUME NEW e \in 1..(next - 1) PROVE LedgerView[e] # "unseen"
    <3>1. e \in Docs /\ ~(e >= next)
      BY <1>1 DEF Docs
    <3>2. verdict[e] # "unseen"
      BY <3>1, QueuesTyped DEF OnceInv, Verdicts
    <3> QED
      BY <3>1, <3>2 DEF LedgerView
  <2> QED
    BY <1>1, <2>1 DEF LedgerView
<1>3. LedgerView' = [LedgerView EXCEPT ![next] = "open"]
  <2>1. verdict[next] = "none"
    BY <1>1 DEF OnceInv, OpenInFlight
  <2>2. \A d \in Docs : d >= next' <=> d >= next /\ d # next
    BY <1>1 DEF Docs
  <2> QED
    BY <1>1, <2>1, <2>2 DEF LedgerView
<1>4. UNCHANGED StoredView
  BY <1>1 DEF StoredView
<1> QED
  BY <1>1, <1>2, <1>3, <1>4, LedgerTake

\* A write of the server stores a document the ledger has open.
LEMMA ServeStores == OnceInv /\ Serve => [Ledger!LedgerNext]_Ledger!ledgerVars
<1> SUFFICES ASSUME OnceInv, Serve PROVE [Ledger!LedgerNext]_Ledger!ledgerVars
  OBVIOUS
<1> DEFINE h == Head(sent)
<1>1. /\ sent # <<>> /\ status = "running" /\ status' = "running"
      /\ UNCHANGED <<next, verdict, totals>>
      /\ creator' = creator \/ (Absent(h) /\ Creates(h))
  BY DEF Serve, Created, Conflict, Rejected, Faulted, Resent, AnswerHead, genVars, countVars,
         serverVars
<1>2. UNCHANGED LedgerView
  BY <1>1 DEF LedgerView
<1>3. CASE creator' = creator
  <2>1. UNCHANGED StoredView
    BY <1>3 DEF StoredView
  <2> QED
    BY <1>1, <1>2, <2>1, LedgerStutters
<1>4. CASE Absent(h) /\ Creates(h)
  <2>1. /\ creator \in [Ids -> 0..(NDocs + 1)]
        /\ IdOf \in [1..NDocs -> Ids] /\ NDocs \in Nat
    BY BulkAssumption DEF OnceInv, BulkInv, TypeOK
  <2>2. h \in Docs /\ h < next /\ verdict[h] = "none"
    BY <1>1, FirstUnanswered
  <2>3. ~(h >= next)
    BY <2>2, QueuesTyped DEF OnceInv, Docs
  <2>4. LedgerView[h] = "open"
    BY <2>2, <2>3 DEF LedgerView
  <2>5. IdOf[h] \in Ids /\ creator' = [creator EXCEPT ![IdOf[h]] = h] /\ h # Nobody
    BY <1>4, <2>1, <2>2 DEF Creates, Docs, Nobody
  <2> HIDE DEF h
  <2>6. StoredView' = StoredView \cup {IdOf[h]}
    BY <2>1, <2>5 DEF StoredView
  <2> QED
    BY <1>1, <1>2, <2>2, <2>4, <2>6, LedgerStore
<1> QED
  BY <1>1, <1>3, <1>4

\* Reading an answer settles an open document, as the index warrants, or leaves it open.
LEMMA ConsumeSettles == OnceInv /\ Consume => [Ledger!LedgerNext]_Ledger!ledgerVars
<1> SUFFICES ASSUME OnceInv, Consume PROVE [Ledger!LedgerNext]_Ledger!ledgerVars
  OBVIOUS
<1> DEFINE a == Entry.action
           v == CountedAs(Entry, Code)
<1>1. /\ status = "running" /\ status' = "running" /\ Reading
      /\ UNCHANGED <<next, creator>>
      /\ next \in 1..(NDocs + 1) /\ NDocs \in Nat
      /\ verdict \in [Docs -> Verdicts \cup {"none"}] /\ IdOf \in [1..NDocs -> Ids]
  BY QueuesTyped, BulkAssumption DEF OnceInv, Consume, Reading, genVars, serverVars
<1>2. Head(answers) = answers[1] /\ Head(answers) \in Answer /\ Len(answers) \in Nat \ {0}
  BY <1>1, FirstAnswered
<1>3. a = Head(answers).doc
  BY <1>1, FirstAnswered
<1>4. a \in Docs /\ a < next /\ verdict[a] = "none"
  BY <1>1, FirstAnswered
<1>5. LedgerView[a] = "open"
  <2>1. ~(a >= next)
    BY <1>1, <1>4 DEF Docs
  <2> QED
    BY <1>4, <2>1 DEF LedgerView
<1>6. UNCHANGED StoredView
  BY <1>1 DEF StoredView
<1>7. CASE Code # "other" /\ Count(a, v)
  <2>1. Code \in {"ok", "409", "400"}
    BY <1>2, <1>7 DEF Code, Answer
  <2>2. v \in Verdicts /\ (v # "failure" => Code \in {"ok", "409"})
    BY <2>1 DEF CountedAs, Verdicts
  <2>3. v # "failure" => IdOf[a] \in StoredView
    <3>1. answers[1].code \in {"ok", "409"} => creator[IdOf[answers[1].doc]] # Nobody
      BY <1>2 DEF OnceInv, BulkInv, AnswersAreTrue
    <3>2. IdOf[a] \in Ids
      BY <1>1, <1>4 DEF Docs
    <3> QED
      BY <3>1, <3>2, <2>2, <1>2, <1>3 DEF StoredView, Code
  <2> HIDE DEF a, v
  <2>4. totals' = [totals EXCEPT ![v] = @ + 1] /\ verdict' = [verdict EXCEPT ![a] = v]
    BY <1>7 DEF Count
  <2>5. LedgerView' = [LedgerView EXCEPT ![a] = v]
    <3>1. ~(a >= next) /\ v # "none"
      BY <1>1, <1>4, <2>2 DEF Docs, Verdicts
    <3> QED
      BY <1>1, <1>4, <2>4, <3>1 DEF LedgerView
  <2>6. Ledger!LedgerNext
    BY <1>1, <1>4, <1>5, <1>6, <2>2, <2>3, <2>4, <2>5, LedgerSettle
  <2> QED
    BY <2>6
<1>8. CASE UNCHANGED countVars
  <2>1. UNCHANGED <<LedgerView, totals>>
    BY <1>1, <1>8 DEF LedgerView, countVars
  <2> QED
    BY <1>1, <1>6, <2>1, LedgerStutters
<1> QED
  BY <1>7, <1>8 DEF Consume

\* The call returns when the ledger has settled every document; otherwise it fails.
LEMMA FinishCloses == OnceInv /\ OnceInv' /\ Finish => Ledger!LedgerNext
<1> SUFFICES ASSUME OnceInv, OnceInv', Finish PROVE Ledger!LedgerNext
  OBVIOUS
<1>1. /\ status = "running" /\ status' \in {"returned", "assertion"} /\ exhausted
      /\ UNCHANGED <<next, verdict, totals, creator>>
  BY DEF Finish, End, genVars, serverVars, countVars
<1>2. UNCHANGED <<LedgerView, StoredView, totals>>
  BY <1>1 DEF LedgerView, StoredView
<1>3. CASE status' = "assertion"
  BY <1>1, <1>2, <1>3, LedgerFail
<1>4. CASE status' = "returned"
  <2>1. next = NDocs + 1 /\ NDocs \in Nat /\ verdict \in [Docs -> Verdicts \cup {"none"}]
    BY <1>1, QueuesTyped DEF OnceInv, BulkInv, ExhaustedIsFinal
  <2>2. \A d \in Docs : verdict[d] \in Verdicts
    BY <1>1, <1>4, <2>1 DEF OnceInv, BulkInv, AllCountedOnReturn
  <2>3. \A d \in Docs : ~(d >= next)
    BY <2>1 DEF Docs
  <2>4. \A d \in Docs : LedgerView[d] \in Verdicts
    BY <2>2, <2>3 DEF LedgerView, Verdicts
  <2> QED
    BY <1>1, <1>2, <1>4, <2>4, LedgerReturn
<1> QED
  BY <1>1, <1>3, <1>4

\* Every step of streaming_bulk is a step of the ledger or changes nothing in it.
LEMMA NextLedger == OnceInv /\ OnceInv' /\ [Next]_vars => [Ledger!LedgerNext]_Ledger!ledgerVars
<1> SUFFICES ASSUME OnceInv, OnceInv', [Next]_vars
             PROVE  [Ledger!LedgerNext]_Ledger!ledgerVars
  OBVIOUS
<1>1. CASE YieldNew
  BY <1>1, YieldNewTakes
<1>2. CASE Serve
  BY <1>2, ServeStores
<1>3. CASE Consume
  BY <1>3, ConsumeSettles
<1>4. CASE Finish
  BY <1>4, FinishCloses
<1>5. CASE SourceRaises
  <2>1. /\ status = "running" /\ status' = "raised"
        /\ UNCHANGED <<next, verdict, totals, creator>>
    BY <1>5 DEF SourceRaises, Pulling, genVars, serverVars, countVars
  <2>2. UNCHANGED <<LedgerView, StoredView>>
    BY <2>1 DEF LedgerView, StoredView
  <2> QED
    BY <2>1, <2>2, LedgerFail
<1>6. CASE DrainRetries \/ YieldRetry \/ Exhaust \/ UNCHANGED vars
  <2>1. UNCHANGED <<next, verdict, totals, creator, status>>
    BY <1>6 DEF DrainRetries, Drain, YieldRetry, Resend, Exhaust, vars, serverVars, countVars
  <2>2. UNCHANGED <<LedgerView, StoredView>>
    BY <2>1 DEF LedgerView, StoredView
  <2> QED
    BY <2>1, <2>2, LedgerStutters
<1> QED
  BY <1>1, <1>2, <1>3, <1>4, <1>5, <1>6 DEF Next, Generate

\* streaming_bulk, with its deques, chunks and retries, implements the ledger it
\* promises its caller: documents are taken in order, settled once, reported as stored
\* only when they are, and the call returns only when every document is settled.
THEOREM BulkImplementsLedger == Spec => ImplementsLedger
<1>1. Init => Ledger!LedgerInit
  BY InitLedger
<1>2. OnceInv /\ OnceInv' /\ [Next]_vars => [Ledger!LedgerNext]_Ledger!ledgerVars
  BY NextLedger
<1> QED
  BY <1>1, <1>2, EachOnce, PTL DEF Spec, ImplementsLedger, Ledger!LedgerSpec
-----------------------------------------------------------------------------
(* No document is a duplicate of itself                                    *)

\* The id of d was created by d, where c is creator now or in the next state.
CreatedIn(c, d) == c[IdOf[d]] = d

\* Every entry of the queue has been answered before.
AllRetried(s) == \A i \in 1..Len(s) : s[i].retry_count > 0

\* What is unpulled, or in a request for the first time and not answered, has not been
\* created; when a first answer is a conflict, the document was not created by this
\* call, or the transport sent it twice.
OwnInv ==
  /\ OnceInv
  /\ AllRetried(actions_retry_deque) /\ AllRetried(retry_actions)
  /\ \A d \in Docs : d >= next => ~CreatedIn(creator, d)
  /\ \A i \in 1..Len(actions_deque) :
       i > Len(answers) /\ actions_deque[i].retry_count = 0
         => ~CreatedIn(creator, actions_deque[i].action)
  /\ \A i \in 1..Len(answers) :
       answers[i].code = "409" /\ actions_deque[i].retry_count = 0
         => answers[i].doc \in resent \/ ~CreatedIn(creator, answers[i].doc)
  /\ NotItsOwnDuplicate

\* An id that exists at the start was not created by a document of this call.
LEMMA InitOwnInv == Init => OwnInv
<1> SUFFICES ASSUME Init PROVE OwnInv
  OBVIOUS
<1>1. OnceInv
  BY InitOnceInv
<1>2. \A d \in Docs : ~CreatedIn(creator, d)
  BY BulkAssumption DEF Init, CreatedIn, Docs, Nobody, Before
<1>3. \A d \in Docs : verdict[d] = "none"
  BY DEF Init
<1> QED
  BY <1>1, <1>2, <1>3 DEF Init, OwnInv, AllRetried, NotItsOwnDuplicate

\* The action yielded is a new document, which nobody created, or one sent before.
LEMMA YieldOwn ==
  ASSUME OwnInv, OnceInv', Pulling, NEW e \in Tracked, Yield(e),
         answers' = answers, next' >= next, next' \in Nat,
         AllRetried(actions_retry_deque'), AllRetried(retry_actions'),
         e.retry_count > 0 \/ ~CreatedIn(creator, e.action),
         UNCHANGED <<creator, resent, verdict>>
  PROVE  OwnInv'
<1>1. actions_deque \in Seq(Tracked) /\ actions_deque' = Append(actions_deque, e) /\ answers = <<>>
  BY QueuesTyped DEF OwnInv, OnceInv, Yield, Pulling
<1>2. /\ Len(actions_deque') = Len(actions_deque) + 1 /\ Len(actions_deque) \in Nat
      /\ \A i \in 1..Len(actions_deque) : actions_deque'[i] = actions_deque[i]
      /\ actions_deque'[Len(actions_deque) + 1] = e
  BY <1>1, AppendFacts
<1>3. \A d \in Docs : CreatedIn(creator', d) <=> CreatedIn(creator, d)
  BY DEF CreatedIn
<1>4. \A d \in Docs : d >= next' => ~CreatedIn(creator', d)
  <2>1. \A d \in Docs : d >= next' => d >= next
    BY QueuesTyped, BulkAssumption DEF OwnInv, OnceInv, Docs
  <2> QED
    BY <1>3, <2>1 DEF OwnInv
<1>5. ASSUME NEW i \in 1..Len(actions_deque'), actions_deque'[i].retry_count = 0
      PROVE  ~CreatedIn(creator', actions_deque'[i].action)
  <2>1. CASE i \in 1..Len(actions_deque)
    BY <2>1, <1>1, <1>2, <1>5 DEF OwnInv, CreatedIn
  <2>2. CASE i = Len(actions_deque) + 1
    BY <2>2, <1>2, <1>5 DEF CreatedIn
  <2> QED
    BY <2>1, <2>2, <1>2
<1>6. \A i \in 1..Len(answers') : FALSE
  BY <1>1
<1>7. NotItsOwnDuplicate'
  BY DEF OwnInv, NotItsOwnDuplicate
<1> QED
  BY <1>4, <1>5, <1>6, <1>7 DEF OwnInv

\* The server answers the first action without an answer: a conflict on its first
\* attempt is with another document, unless the transport sent it twice.
LEMMA AnswerOwn ==
  ASSUME OwnInv, OnceInv', NEW c \in {"ok", "409", "400", "other"}, AnswerHead(c),
         creator' = creator \/ Creates(Head(sent)),
         c = "409" => creator' = creator \/ Head(sent) \in resent',
         resent \subseteq resent'
  PROVE  OwnInv'
<1> DEFINE h == Head(sent)
           a == [doc |-> h, code |-> c]
           n == Len(answers)
<1>1. /\ sent # <<>> /\ answers' = Append(answers, a) /\ answers \in Seq(Answer)
      /\ UNCHANGED <<next, actions_deque, actions_retry_deque, retry_actions, verdict>>
  BY DEF AnswerHead, OwnInv, OnceInv, BulkInv, TypeOK, genVars, countVars
<1>2. /\ h \in Docs /\ h < next /\ verdict[h] = "none"
      /\ n \in Nat /\ n + 1 \in 1..Len(actions_deque)
      /\ actions_deque[n + 1].action = h
      /\ \A i \in 1..Len(actions_deque) : i # n + 1 => actions_deque[i].action # h
  BY <1>1, FirstUnanswered DEF OwnInv
<1>3. /\ next \in Nat /\ IdOf \in [1..NDocs -> Ids] /\ NDocs \in Nat
      /\ creator \in [Ids -> 0..(NDocs + 1)] /\ actions_deque \in Seq(Tracked)
  BY BulkAssumption DEF OwnInv, OnceInv, BulkInv, TypeOK
<1>4. a \in Answer
  BY <1>2 DEF Answer
<1>5. /\ Len(answers') = n + 1
      /\ \A i \in 1..n : answers'[i] = answers[i]
      /\ answers'[n + 1] = a
  BY <1>1, <1>4, AppendFacts
<1>6. ASSUME NEW d \in Docs, d # h, CreatedIn(creator', d) PROVE CreatedIn(creator, d)
  <2>1. creator' = creator \/ creator' = [creator EXCEPT ![IdOf[h]] = h]
    BY DEF Creates
  <2> QED
    BY <2>1, <1>3, <1>6 DEF CreatedIn, Docs
<1>7. \A d \in Docs : d >= next => ~CreatedIn(creator', d)
  <2>1. \A d \in Docs : d >= next => d # h
    BY <1>2, <1>3 DEF Docs
  <2> QED
    BY <2>1, <1>6 DEF OwnInv
<1>8. \A i \in 1..Len(actions_deque) : actions_deque[i].action \in Docs
  <2>1. \A i \in 1..Len(actions_deque) : actions_deque[i] \in Tracked
    BY <1>3
  <2> QED
    BY <2>1 DEF Tracked
<1>9. ASSUME NEW i \in 1..Len(actions_deque), i > n + 1, actions_deque[i].retry_count = 0
      PROVE  ~CreatedIn(creator', actions_deque[i].action)
  <2>1. actions_deque[i].action # h
    BY <1>2, <1>9
  <2>2. ~CreatedIn(creator, actions_deque[i].action)
    BY <1>2, <1>9 DEF OwnInv
  <2> QED
    BY <2>1, <2>2, <1>6, <1>8
<1>10. ASSUME NEW i \in 1..(n + 1),
              answers'[i].code = "409", actions_deque[i].retry_count = 0
       PROVE  answers'[i].doc \in resent' \/ ~CreatedIn(creator', answers'[i].doc)
  <2>1. CASE i \in 1..n
    <3>1. /\ answers'[i].doc = answers[i].doc /\ answers[i].doc = actions_deque[i].action
          /\ i \in 1..Len(actions_deque) /\ i # n + 1
      BY <2>1, <1>2, <1>3, <1>5 DEF OwnInv, OnceInv, BulkInv, QueueOrder
    <3>2. answers[i].doc \in resent \/ ~CreatedIn(creator, answers[i].doc)
      BY <2>1, <1>5, <1>10 DEF OwnInv
    <3> QED
      BY <3>1, <3>2, <1>2, <1>6, <1>8
  <2>2. CASE i = n + 1
    <3>1. answers'[i].doc = h /\ c = "409"
      BY <2>2, <1>5, <1>10
    <3>2. ~CreatedIn(creator, h)
      BY <2>2, <1>2, <1>10 DEF OwnInv
    <3>3. CASE creator' = creator
      BY <3>1, <3>2, <3>3 DEF CreatedIn
    <3> QED
      BY <3>1, <3>3
  <2> QED
    BY <2>1, <2>2, <1>2
<1>11. NotItsOwnDuplicate'
  <2> SUFFICES ASSUME NEW d \in Docs, d \notin resent', verdict[d] = "duplicate"
               PROVE  ~CreatedIn(creator', d)
    BY <1>1 DEF NotItsOwnDuplicate, CreatedIn
  <2>1. d # h /\ d \notin resent
    BY <1>2
  <2>2. ~CreatedIn(creator, d)
    BY <2>1 DEF OwnInv, NotItsOwnDuplicate, CreatedIn
  <2> QED
    BY <2>1, <2>2, <1>6
<1> HIDE DEF a, n, h
<1> QED
  BY <1>1, <1>5, <1>7, <1>9, <1>10, <1>11 DEF OwnInv, AllRetried

\* A first answer that is a conflict counts as a duplicate; a later one as a success.
LEMMA ConsumeOwn == OwnInv /\ OnceInv' /\ Consume => OwnInv'
<1> SUFFICES ASSUME OwnInv, OnceInv', Consume PROVE OwnInv'
  OBVIOUS
<1> DEFINE a == Entry.action
           v == CountedAs(Entry, Code)
           r == [Entry EXCEPT !.retry_count = @ + 1]
<1>1. /\ Reading /\ answers' = Tail(answers) /\ actions_deque' = Tail(actions_deque)
      /\ UNCHANGED <<next, retry_actions, creator, resent>>
      /\ actions_retry_deque \in Seq(Tracked)
      /\ verdict \in [Docs -> Verdicts \cup {"none"}]
  BY QueuesTyped DEF OwnInv, OnceInv, Consume, genVars, serverVars
<1>2. /\ answers \in Seq(Answer) /\ answers # <<>> /\ Len(answers) \in Nat \ {0}
      /\ Head(answers) = answers[1] /\ Head(answers) \in Answer
      /\ actions_deque \in Seq(Tracked) /\ actions_deque # <<>>
      /\ Entry = actions_deque[1] /\ Entry \in Tracked
      /\ a = Head(answers).doc /\ a \in Docs
  BY <1>1, FirstAnswered DEF OwnInv, Reading
<1>3. /\ Len(answers') = Len(answers) - 1
      /\ \A i \in 1..(Len(answers) - 1) : answers'[i] = answers[i + 1]
      /\ Len(actions_deque') = Len(actions_deque) - 1 /\ Len(actions_deque) \in Nat \ {0}
      /\ \A i \in 1..(Len(actions_deque) - 1) : actions_deque'[i] = actions_deque[i + 1]
  BY <1>1, <1>2, TailFacts
<1>4. \A d \in Docs : CreatedIn(creator', d) <=> CreatedIn(creator, d)
  BY <1>1 DEF CreatedIn
<1>5. \A d \in Docs : d >= next' => ~CreatedIn(creator', d)
  BY <1>1, <1>4 DEF OwnInv
<1>6. ASSUME NEW i \in 1..Len(actions_deque'), i > Len(answers'),
             actions_deque'[i].retry_count = 0
      PROVE  ~CreatedIn(creator', actions_deque'[i].action)
  <2>1. /\ i + 1 \in 1..Len(actions_deque) /\ i + 1 > Len(answers)
        /\ actions_deque'[i] = actions_deque[i + 1]
    BY <1>2, <1>3, <1>6
  <2> QED
    BY <2>1, <1>1, <1>6 DEF OwnInv, CreatedIn
<1>7. ASSUME NEW i \in 1..Len(answers'),
             answers'[i].code = "409", actions_deque'[i].retry_count = 0
      PROVE  answers'[i].doc \in resent' \/ ~CreatedIn(creator', answers'[i].doc)
  <2>1. Len(answers) <= Len(actions_deque)
    BY DEF OwnInv, OnceInv, BulkInv, QueueOrder, TypeOK
  <2>2. /\ i + 1 \in 1..Len(answers)
        /\ answers'[i] = answers[i + 1] /\ actions_deque'[i] = actions_deque[i + 1]
    BY <1>2, <1>3, <2>1
  <2> QED
    BY <2>2, <1>1, <1>7 DEF OwnInv, CreatedIn
<1>8. AllRetried(retry_actions')
  BY <1>1 DEF OwnInv, AllRetried
<1>9. CASE Code # "other" /\ Count(a, v)
  <2>1. /\ UNCHANGED actions_retry_deque
        /\ verdict' = [verdict EXCEPT ![a] = v]
    BY <1>9 DEF Count
  <2>2. v = "duplicate" => a \in resent \/ ~CreatedIn(creator, a)
    <3>1. Code \in {"ok", "409", "400"}
      BY <1>2, <1>9 DEF Code, Answer
    <3>2. v = "duplicate" => answers[1].code = "409" /\ actions_deque[1].retry_count = 0
      BY <3>1, <1>2 DEF CountedAs, Code
    <3> QED
      BY <3>2, <1>2 DEF OwnInv
  <2> HIDE DEF a, v
  <2>3. NotItsOwnDuplicate'
    <3> SUFFICES ASSUME NEW d \in Docs, d \notin resent, verdict'[d] = "duplicate"
                 PROVE  ~CreatedIn(creator, d)
      BY <1>1 DEF NotItsOwnDuplicate, CreatedIn
    <3>1. CASE d = a
      BY <3>1, <2>1, <2>2, <1>1, <1>2
    <3>2. CASE d # a
      BY <3>2, <2>1, <1>1, <1>2 DEF OwnInv, NotItsOwnDuplicate, CreatedIn
    <3> QED
      BY <3>1, <3>2
  <2> QED
    BY <1>5, <1>6, <1>7, <1>8, <2>1, <2>3 DEF OwnInv, AllRetried
<1>10. CASE /\ Code = "other"
            /\ actions_retry_deque' = Append(actions_retry_deque, r)
            /\ UNCHANGED countVars
  <2>1. r \in Tracked /\ r.retry_count > 0
    BY <1>2 DEF Tracked
  <2> HIDE DEF r
  <2>2. AllRetried(actions_retry_deque')
    <3>1. /\ Len(actions_retry_deque') = Len(actions_retry_deque) + 1
          /\ Len(actions_retry_deque) \in Nat
          /\ \A i \in 1..Len(actions_retry_deque) :
               actions_retry_deque'[i] = actions_retry_deque[i]
          /\ actions_retry_deque'[Len(actions_retry_deque) + 1] = r
      BY <1>1, <1>10, <2>1, AppendFacts
    <3>2. \A i \in 1..(Len(actions_retry_deque) + 1) :
            i \in 1..Len(actions_retry_deque) \/ i = Len(actions_retry_deque) + 1
      BY <3>1
    <3> QED
      BY <3>1, <3>2, <2>1 DEF OwnInv, AllRetried
  <2>3. NotItsOwnDuplicate'
    BY <1>1, <1>10 DEF OwnInv, NotItsOwnDuplicate, countVars
  <2> QED
    BY <1>5, <1>6, <1>7, <1>8, <2>2, <2>3 DEF OwnInv
<1> QED
  BY <1>9, <1>10 DEF Consume

\* Every step keeps OwnInv.
LEMMA NextOwnInv == OwnInv /\ [Next]_vars => OwnInv'
<1> SUFFICES ASSUME OwnInv, [Next]_vars PROVE OwnInv'
  OBVIOUS
<1>1. OnceInv'
  BY NextOnceInv DEF OwnInv
<1>2. next \in Nat /\ retry_actions \in Seq(Tracked)
  BY QueuesTyped DEF OwnInv, OnceInv
<1>3. CASE YieldNew
  <2> DEFINE e == [retry_count |-> 0, action |-> next]
  <2>1. /\ Pulling /\ Yield(e) /\ next \in Docs /\ next' = next + 1
        /\ UNCHANGED <<actions_retry_deque, retry_actions, answers, creator, resent, verdict>>
    BY <1>3 DEF YieldNew, Pull, serverVars, countVars
  <2>2. e \in Tracked /\ e.action = next
    BY <2>1 DEF Tracked
  <2>3. ~CreatedIn(creator, next)
    BY <1>2, <2>1 DEF OwnInv
  <2>4. AllRetried(actions_retry_deque') /\ AllRetried(retry_actions')
    BY <2>1 DEF OwnInv, AllRetried
  <2> HIDE DEF e
  <2> QED
    BY <1>1, <1>2, <2>1, <2>2, <2>3, <2>4, YieldOwn
<1>4. CASE DrainRetries
  <2>1. /\ retry_actions' = actions_retry_deque /\ actions_retry_deque' = <<>>
        /\ UNCHANGED <<next, actions_deque, answers, creator, resent, verdict>>
    BY <1>4 DEF DrainRetries, Drain, serverVars, countVars
  <2> QED
    BY <1>1, <2>1 DEF OwnInv, AllRetried, CreatedIn, NotItsOwnDuplicate
<1>5. CASE YieldRetry
  <2> DEFINE e == Head(retry_actions)
  <2>1. /\ Pulling /\ Yield(e) /\ retry_actions # <<>> /\ retry_actions' = Tail(retry_actions)
        /\ UNCHANGED <<next, actions_retry_deque, answers, creator, resent, verdict>>
    BY <1>5 DEF YieldRetry, Resend, serverVars, countVars
  <2>2. /\ e \in Tracked /\ e = retry_actions[1] /\ Len(retry_actions) \in Nat \ {0}
        /\ Len(retry_actions') = Len(retry_actions) - 1
        /\ \A i \in 1..(Len(retry_actions) - 1) : retry_actions'[i] = retry_actions[i + 1]
    BY <1>2, <2>1, TailFacts
  <2>3. e.retry_count > 0
    BY <2>2 DEF OwnInv, AllRetried
  <2>4. AllRetried(retry_actions')
    <3>1. \A i \in 1..(Len(retry_actions) - 1) : i + 1 \in 1..Len(retry_actions)
      BY <2>2
    <3> QED
      BY <2>2, <3>1 DEF OwnInv, AllRetried
  <2>5. AllRetried(actions_retry_deque')
    BY <2>1 DEF OwnInv, AllRetried
  <2> HIDE DEF e
  <2> QED
    BY <1>1, <1>2, <2>1, <2>2, <2>3, <2>4, <2>5, YieldOwn
<1>6. CASE Serve
  <2>1. CASE Created
    BY <1>1, <2>1, AnswerOwn DEF Created
  <2>2. CASE Conflict
    BY <1>1, <2>2, AnswerOwn DEF Conflict, serverVars
  <2>3. CASE Rejected
    BY <1>1, <2>3, AnswerOwn DEF Rejected, serverVars
  <2>4. CASE Faulted
    BY <1>1, <2>4, AnswerOwn DEF Faulted
  <2>5. CASE Resent
    BY <1>1, <2>5, AnswerOwn DEF Resent
  <2> QED
    BY <1>6, <2>1, <2>2, <2>3, <2>4, <2>5 DEF Serve
<1>7. CASE Consume
  BY <1>1, <1>7, ConsumeOwn
<1>8. CASE Exhaust \/ SourceRaises \/ Finish \/ UNCHANGED vars
  <2>1. /\ UNCHANGED <<next, actions_deque, actions_retry_deque, retry_actions>>
        /\ UNCHANGED <<answers, creator, resent, verdict>>
    BY <1>8 DEF Exhaust, SourceRaises, Finish, End, vars, genVars, serverVars, countVars
  <2> QED
    BY <1>1, <2>1 DEF OwnInv, AllRetried, CreatedIn, NotItsOwnDuplicate
<1> QED
  BY <1>3, <1>4, <1>5, <1>6, <1>7, <1>8 DEF Next, Generate

\* However often a document is resent, the conflict with its own earlier write is not
\* reported as a duplicate, unless the transport resent it behind the call's back.
THEOREM NeverItsOwnDuplicate == Spec => []NotItsOwnDuplicate
<1>1. OwnInv => NotItsOwnDuplicate
  BY DEF OwnInv
<1> QED
  BY <1>1, InitOwnInv, NextOwnInv, PTL DEF Spec
-----------------------------------------------------------------------------
(* What an exception abandons                                              *)

\* A queue holds at most as many documents as it has entries.
LEMMA DocsOfSize ==
  ASSUME NEW s \in Seq(Tracked)
  PROVE  IsFiniteSet(DocsOf(s)) /\ Cardinality(DocsOf(s)) <= Len(s)
<1> DEFINE f == [i \in 1..Len(s) |-> s[i].action]
<1>1. f \in Surjection(1..Len(s), DocsOf(s))
  <2>1. f \in [1..Len(s) -> DocsOf(s)]
    BY DEF DocsOf
  <2>2. \A d \in DocsOf(s) : \E i \in 1..Len(s) : f[i] = d
    BY DEF DocsOf
  <2> QED
    BY <2>1, <2>2 DEF Surjection
<1>2. IsFiniteSet(1..Len(s)) /\ Cardinality(1..Len(s)) = Len(s)
  <2>1. Len(s) \in Nat
    OBVIOUS
  <2>2. /\ IsFiniteSet(1..Len(s))
        /\ Cardinality(1..Len(s)) = IF 1 > Len(s) THEN 0 ELSE Len(s) - 1 + 1
    BY <2>1, FS_Interval
  <2> QED
    BY <2>1, <2>2
<1> HIDE DEF f
<1> QED
  BY <1>1, <1>2, FS_Surjection

Uncounted == {d \in 1..(next - 1) : verdict[d] = "none"}

\* When one queue holds all that is not counted, its length bounds it.
LEMMA UncountedIn ==
  ASSUME NEW s \in Seq(Tracked), Uncounted \subseteq DocsOf(s), Len(s) <= ChunkSize
  PROVE  Cardinality(Uncounted) <= ChunkSize
<1>1. IsFiniteSet(DocsOf(s)) /\ Cardinality(DocsOf(s)) <= Len(s)
  BY DocsOfSize
<1>2. IsFiniteSet(Uncounted) /\ Cardinality(Uncounted) <= Cardinality(DocsOf(s))
  BY <1>1, FS_Subset
<1>3. Cardinality(Uncounted) \in Nat /\ Cardinality(DocsOf(s)) \in Nat
  BY <1>1, <1>2, FS_CardinalityType
<1> QED
  BY <1>1, <1>2, <1>3, BulkAssumption

\* After the caller's last document only the last chunk is in flight.
LastChunkInv ==
  /\ BulkInv
  /\ exhausted => InFlight <= ChunkSize
  /\ AtMostOneChunkAbandoned

\* The initial state has abandoned nothing.
LEMMA InitLastChunk == Init => LastChunkInv
  BY InitBulkInv DEF Init, LastChunkInv, AtMostOneChunkAbandoned

\* While the generator runs nothing is promised of the last chunk.
LEMMA StillRunning ==
  ASSUME BulkInv', ~exhausted', status' = "running"
  PROVE  LastChunkInv'
  BY DEF LastChunkInv, AtMostOneChunkAbandoned

\* An exception of the caller's iterable finds at most a chunk in actions_deque, and
\* nothing elsewhere.
LEMMA SourceRaisesLastChunk == LastChunkInv /\ SourceRaises => AtMostOneChunkAbandoned'
<1> SUFFICES ASSUME LastChunkInv, SourceRaises PROVE Cardinality(Uncounted) <= ChunkSize
  BY DEF AtMostOneChunkAbandoned, Uncounted, SourceRaises, genVars, countVars
<1>1. /\ retry_actions = <<>> /\ actions_retry_deque = <<>> /\ sent = <<>> /\ answers = <<>>
      /\ actions_deque \in Seq(Tracked)
  BY QueuesTyped DEF LastChunkInv, SourceRaises, NothingToRetry, Pulling
<1>2. Len(actions_deque) <= ChunkSize
  BY <1>1, BulkAssumption DEF LastChunkInv, BulkInv, TypeOK, QueueOrder
<1>3. Uncounted \subseteq DocsOf(actions_deque)
  BY <1>1, DocsOfEmpty DEF LastChunkInv, BulkInv, NoDocLost, Uncounted
<1> QED
  BY <1>1, <1>2, <1>3, UncountedIn

\* The last assertions find at most the last chunk in actions_retry_deque.
LEMMA FinishLastChunk == LastChunkInv /\ Finish => AtMostOneChunkAbandoned'
<1> SUFFICES ASSUME LastChunkInv, Finish PROVE Cardinality(Uncounted) <= ChunkSize
  BY DEF AtMostOneChunkAbandoned, Uncounted, Finish, End, genVars, countVars
<1>1. /\ exhausted /\ sent = <<>> /\ answers = <<>> /\ chunk = <<>> /\ retry_actions = <<>>
      /\ actions_deque \in Seq(Tracked) /\ actions_retry_deque \in Seq(Tracked)
  BY QueuesTyped DEF LastChunkInv, BulkInv, ExhaustedIsFinal, Finish, End
<1>2. actions_deque = <<>>
  BY <1>1 DEF LastChunkInv, BulkInv, QueueOrder
<1>3. Len(actions_retry_deque) <= ChunkSize
  BY <1>1, <1>2, BulkAssumption DEF LastChunkInv, InFlight
<1>4. Uncounted \subseteq DocsOf(actions_retry_deque)
  BY <1>1, <1>2, DocsOfEmpty DEF LastChunkInv, BulkInv, NoDocLost, Uncounted
<1> QED
  BY <1>1, <1>3, <1>4, UncountedIn

\* Every step keeps LastChunkInv: once the generator has ended, nothing enters a queue.
LEMMA NextLastChunk == LastChunkInv /\ [Next]_vars => LastChunkInv'
<1> SUFFICES ASSUME LastChunkInv, [Next]_vars PROVE LastChunkInv'
  OBVIOUS
<1>1. BulkInv'
  BY NextBulkInv DEF LastChunkInv
<1>2. CASE YieldNew \/ DrainRetries \/ YieldRetry
  BY <1>1, <1>2, StillRunning
     DEF YieldNew, Pull, DrainRetries, Drain, YieldRetry, Resend, Pulling
<1>3. CASE Exhaust
  <2>1. /\ retry_actions' = <<>> /\ actions_retry_deque' = <<>> /\ status' = "running"
        /\ actions_deque' = actions_deque /\ sent = <<>> /\ answers = <<>>
    BY <1>3 DEF Exhaust, NothingToRetry, Pulling
  <2>2. Len(actions_deque) <= ChunkSize /\ Len(actions_deque) \in Nat
    BY <2>1, BulkAssumption DEF LastChunkInv, BulkInv, TypeOK, QueueOrder
  <2>3. InFlight' <= ChunkSize
    BY <2>1, <2>2 DEF InFlight
  <2> QED
    BY <1>1, <2>1, <2>3 DEF LastChunkInv, AtMostOneChunkAbandoned
<1>4. CASE SourceRaises
  <2>1. ~exhausted'
    BY <1>4 DEF SourceRaises, Pulling, genVars
  <2> QED
    BY <1>1, <1>4, <2>1, SourceRaisesLastChunk DEF LastChunkInv
<1>5. CASE Serve
  <2>1. /\ status' = "running"
        /\ UNCHANGED <<exhausted, actions_deque, actions_retry_deque, retry_actions>>
    BY <1>5 DEF Serve, Created, Conflict, Rejected, Faulted, Resent, AnswerHead, genVars
  <2> QED
    BY <1>1, <2>1 DEF LastChunkInv, InFlight, AtMostOneChunkAbandoned
<1>6. CASE Consume
  <2>1. /\ status' = "running" /\ UNCHANGED <<exhausted, retry_actions>>
        /\ actions_deque' = Tail(actions_deque)
    BY <1>6 DEF Consume, Reading, genVars
  <2>2. /\ actions_deque \in Seq(Tracked) /\ actions_retry_deque \in Seq(Tracked)
        /\ retry_actions \in Seq(Tracked) /\ actions_deque # <<>>
    BY <1>6, QueuesTyped DEF LastChunkInv, BulkInv, TypeOK, QueueOrder, Consume, Reading
  <2>3. Len(actions_deque') = Len(actions_deque) - 1
    BY <2>1, <2>2, TailFacts
  <2>4. Len(actions_retry_deque') <= Len(actions_retry_deque) + 1
    <3>1. CASE UNCHANGED actions_retry_deque
      BY <2>2, <3>1
    <3>2. CASE \E r : actions_retry_deque' = Append(actions_retry_deque, r)
      BY <2>2, <3>2
    <3> QED
      BY <1>6, <3>1, <3>2 DEF Consume, Count
  <2>5. Len(actions_retry_deque') \in Nat
    BY <1>1, QueuesTyped DEF BulkInv, TypeOK
  <2>6. InFlight' <= InFlight
    BY <2>1, <2>2, <2>3, <2>4, <2>5 DEF InFlight
  <2>7. InFlight' \in Int /\ InFlight \in Int
    BY <2>1, <2>2, <2>3, <2>5 DEF InFlight
  <2> QED
    BY <1>1, <2>1, <2>6, <2>7, BulkAssumption DEF LastChunkInv, AtMostOneChunkAbandoned
<1>7. CASE Finish
  <2>1. /\ UNCHANGED <<exhausted, actions_deque, actions_retry_deque, retry_actions>>
    BY <1>7 DEF Finish, End, genVars
  <2> QED
    BY <1>1, <1>7, <2>1, FinishLastChunk DEF LastChunkInv, InFlight
<1>8. CASE UNCHANGED vars
  BY <1>1, <1>8 DEF LastChunkInv, InFlight, AtMostOneChunkAbandoned, vars
<1> QED
  BY <1>2, <1>3, <1>4, <1>5, <1>6, <1>7, <1>8 DEF Next, Generate

\* Whichever exception ends the call, at most one chunk of the documents pulled so far
\* is left without a verdict.
THEOREM OneChunkAtMost == Spec => []AtMostOneChunkAbandoned
<1>1. LastChunkInv => AtMostOneChunkAbandoned
  BY DEF LastChunkInv
<1> QED
  BY <1>1, InitLastChunk, NextLastChunk, PTL DEF Spec
-----------------------------------------------------------------------------
(* What is stored                                                          *)

\* The body b is the one d was yielded with or, when the server pushed back and d is one
\* of the analyzer's, a later one; f is faults now or in the next state.
BodyFor(f, d, b) == b = d \/ (f > 0 /\ d \in Shared /\ b > d)

\* Nothing is sent again without a fault, and the last body serialised for a document
\* suits it.
BodyInv ==
  /\ OnceInv
  /\ wire \in [Docs -> Nat]
  /\ actions_retry_deque # <<>> \/ retry_actions # <<>> => faults > 0
  /\ \A i \in 1..Len(answers) : answers[i].code = "other" => faults > 0
  /\ \A d \in Docs : d < next => BodyFor(faults, d, wire[d])
  /\ StoredAsYielded

\* Nothing has been serialised and the call has created nothing.
LEMMA InitBodyInv == BodyInit => BodyInv
<1> SUFFICES ASSUME BodyInit PROVE BodyInv
  OBVIOUS
<1>1. OnceInv
  BY InitOnceInv DEF BodyInit
<1>2. wire \in [Docs -> Nat]
  BY DEF BodyInit
<1>3. \A d \in Docs : ~(d < next)
  BY BulkAssumption DEF BodyInit, Init, Docs
<1>4. StoredAsYielded
  BY BulkAssumption DEF BodyInit, Init, StoredAsYielded, Docs, Nobody, Before
<1> QED
  BY <1>1, <1>2, <1>3, <1>4 DEF BodyInit, Init, BodyInv

\* A step that creates no id keeps what is stored.
LEMMA StoredKept ==
  ASSUME StoredAsYielded, creator' = creator, faults' = faults,
         kept' = [i \in Ids |-> IF creator'[i] # creator[i] THEN wire[creator'[i]] ELSE kept[i]]
  PROVE  StoredAsYielded'
  BY DEF StoredAsYielded

\* The server stores the body last serialised for the document it creates.
LEMMA ServeBody ==
  ASSUME BodyInv, OnceInv', Serve, UNCHANGED wire,
         kept' = [i \in Ids |-> IF creator'[i] # creator[i] THEN wire[creator'[i]] ELSE kept[i]]
  PROVE  BodyInv'
<1> DEFINE h == Head(sent)
<1>1. /\ sent # <<>>
      /\ UNCHANGED <<next, actions_retry_deque, retry_actions>>
      /\ faults' = faults \/ faults' = faults + 1
      /\ creator' = creator \/ Creates(h)
  BY DEF Serve, Created, Conflict, Rejected, Faulted, Resent, AnswerHead, genVars, countVars,
         serverVars
<1>2. h \in Docs /\ h < next
  BY <1>1, FirstUnanswered DEF BodyInv
<1>3. /\ faults \in Nat /\ answers \in Seq(Answer)
      /\ IdOf \in [1..NDocs -> Ids] /\ creator \in [Ids -> 0..(NDocs + 1)]
  <2>1. TypeOK
    BY DEF BodyInv, OnceInv, BulkInv
  <2>2. faults \in Nat /\ answers \in Seq(Answer) /\ creator \in [Ids -> 0..(NDocs + 1)]
    BY ONLY <2>1, BulkAssumption DEF TypeOK
  <2> QED
    BY ONLY <2>2, BulkAssumption
<1>4. faults' > 0 \/ faults' = faults
  BY <1>1, <1>3
<1>5. \A i \in 1..Len(answers') : answers'[i].code = "other" => faults' > 0
  <2>1. PICK c \in {"ok", "409", "400", "other"} :
          /\ answers' = Append(answers, [doc |-> h, code |-> c])
          /\ c = "other" => faults' = faults + 1
    BY DEF Serve, Created, Conflict, Rejected, Faulted, Resent, AnswerHead
  <2>2. [doc |-> h, code |-> c] \in Answer
    BY <1>2 DEF Answer
  <2>3. /\ Len(answers') = Len(answers) + 1 /\ Len(answers) \in Nat
        /\ \A i \in 1..Len(answers) : answers'[i] = answers[i]
        /\ answers'[Len(answers) + 1].code = c
    BY <1>3, <2>1, <2>2, AppendFacts
  <2>4. ASSUME NEW i \in 1..(Len(answers) + 1), answers'[i].code = "other" PROVE faults' > 0
    <3>1. CASE i \in 1..Len(answers)
      BY <3>1, <2>3, <2>4, <1>3, <1>4 DEF BodyInv
    <3>2. CASE i = Len(answers) + 1
      BY <3>2, <2>1, <2>3, <2>4, <1>3
    <3> QED
      BY <3>1, <3>2, <2>3
  <2> QED
    BY <2>3, <2>4
<1>6. StoredAsYielded'
  <2> SUFFICES ASSUME NEW i \in Ids, creator'[i] \in Docs
               PROVE  BodyFor(faults', creator'[i], kept'[i])
    BY DEF StoredAsYielded, BodyFor
  <2>1. CASE creator'[i] = creator[i]
    <3>1. kept'[i] = kept[i] /\ BodyFor(faults, creator[i], kept[i])
      BY <2>1 DEF BodyInv, StoredAsYielded, BodyFor
    <3> QED
      BY <2>1, <3>1, <1>4 DEF BodyFor
  <2>2. CASE creator'[i] # creator[i]
    <3>1. creator'[i] = h /\ kept'[i] = wire[h]
      BY <2>2, <1>1, <1>3 DEF Creates
    <3>2. BodyFor(faults, h, wire[h])
      BY <1>2 DEF BodyInv
    <3> QED
      BY <3>1, <3>2, <1>4 DEF BodyFor
  <2> QED
    BY <2>1, <2>2
<1> HIDE DEF h
<1>7. \A d \in Docs : d < next' => BodyFor(faults', d, wire'[d])
  <2>1. \A d \in Docs : d < next => BodyFor(faults, d, wire[d]) /\ wire[d] \in Nat
    BY DEF BodyInv
  <2> QED
    BY <2>1, <1>1, <1>4 DEF BodyFor
<1> QED
  BY <1>1, <1>3, <1>4, <1>5, <1>6, <1>7 DEF BodyInv

\* Every step keeps BodyInv.
LEMMA NextBodyInv == BodyInv /\ [BodyNext]_bodyVars => BodyInv'
<1> SUFFICES ASSUME BodyInv, [BodyNext]_bodyVars PROVE BodyInv'
  OBVIOUS
<1>1. [Next]_vars
  BY DEF BodyNext, bodyVars, Next, Generate
<1>2. OnceInv'
  BY <1>1, NextOnceInv DEF BodyInv
<1>3. /\ next \in 1..(NDocs + 1) /\ NDocs \in Nat /\ faults \in Nat
      /\ actions_deque \in Seq(Tracked) /\ retry_actions \in Seq(Tracked)
      /\ actions_retry_deque \in Seq(Tracked)
      /\ wire \in [Docs -> Nat]
  BY QueuesTyped, BulkAssumption DEF BodyInv, OnceInv, BulkInv, TypeOK
<1> DEFINE Keeps == kept' = [i \in Ids |-> IF creator'[i] # creator[i]
                                         THEN wire[creator'[i]] ELSE kept[i]]
<1>4. CASE YieldNew /\ Serialised(next, next) /\ Keeps
  <2>1. /\ wire' = [wire EXCEPT ![next] = next] /\ next \in Docs /\ next' = next + 1
        /\ UNCHANGED <<answers, creator, faults, actions_retry_deque, retry_actions>>
    BY <1>4 DEF YieldNew, Pull, Serialised, serverVars
  <2>2. StoredAsYielded'
    BY <1>4, <2>1, StoredKept DEF BodyInv
  <2>3. \A d \in Docs : d < next' => BodyFor(faults', d, wire'[d])
    <3>1. \A d \in Docs : d < next' => d < next \/ d = next
      BY <1>3, <2>1 DEF Docs
    <3> QED
      BY <1>3, <2>1, <3>1 DEF BodyInv, BodyFor
  <2>4. wire' \in [Docs -> Nat]
    BY <1>3, <2>1
  <2> QED
    BY <1>2, <2>1, <2>2, <2>3, <2>4 DEF BodyInv
<1>5. CASE /\ YieldRetry /\ Keeps
           /\ LET d == Head(retry_actions).action IN Serialised(d, Body(d))
  <2> DEFINE a == Head(retry_actions).action
  <2>1. /\ wire' = [wire EXCEPT ![a] = Body(a)]
        /\ retry_actions # <<>>
        /\ UNCHANGED <<next, answers, creator, faults, actions_retry_deque>>
    BY <1>5 DEF YieldRetry, Resend, Serialised, serverVars
  <2>2. a \in DocsOf(retry_actions)
    BY <1>3, <2>1, DistinctTail DEF BodyInv, OnceInv, OnceInFlight
  <2>3. a \in Docs /\ a < next /\ faults > 0
    BY <1>3, <2>1, <2>2, DocsOfDocs DEF BodyInv, OnceInv, OpenInFlight, AllOpen
  <2>4. Body(a) \in Nat /\ BodyFor(faults, a, Body(a))
    BY <1>3, <2>3 DEF Body, BodyFor, Docs
  <2> HIDE DEF a
  <2>5. StoredAsYielded'
    BY <1>5, <2>1, StoredKept DEF BodyInv
  <2>6. \A d \in Docs : d < next' => BodyFor(faults', d, wire'[d])
    BY <1>3, <2>1, <2>3, <2>4 DEF BodyInv, BodyFor
  <2>7. wire' \in [Docs -> Nat]
    BY <1>3, <2>1, <2>4
  <2> QED
    BY <1>2, <2>1, <2>3, <2>5, <2>6, <2>7 DEF BodyInv
<1>6. CASE Serve /\ UNCHANGED wire /\ Keeps
  BY <1>2, <1>6, ServeBody
<1>7. CASE Consume /\ UNCHANGED wire /\ Keeps
  <2>1. /\ Reading /\ answers' = Tail(answers)
        /\ UNCHANGED <<next, creator, faults, retry_actions>>
    BY <1>7 DEF Consume, genVars, serverVars
  <2>2. /\ Len(answers) \in Nat \ {0} /\ answers \in Seq(Answer) /\ answers # <<>>
        /\ Head(answers) = answers[1]
    BY <2>1, FirstAnswered DEF BodyInv, Reading
  <2>3. /\ Len(answers') = Len(answers) - 1
        /\ \A i \in 1..(Len(answers) - 1) : answers'[i] = answers[i + 1]
    BY <2>1, <2>2, TailFacts
  <2>4. actions_retry_deque' # <<>> => faults > 0
    <3>1. CASE Code = "other"
      BY <3>1, <2>2 DEF BodyInv, Code
    <3>2. CASE UNCHANGED actions_retry_deque
      BY <3>2 DEF BodyInv
    <3> QED
      BY <1>7, <3>1, <3>2 DEF Consume, Count
  <2>5. \A i \in 1..Len(answers') : answers'[i].code = "other" => faults' > 0
    <3>1. \A i \in 1..(Len(answers) - 1) : i + 1 \in 1..Len(answers)
      BY <2>2
    <3> QED
      BY <2>1, <2>2, <2>3, <3>1 DEF BodyInv
  <2>6. StoredAsYielded'
    BY <1>7, <2>1, StoredKept DEF BodyInv
  <2>7. \A d \in Docs : d < next' => BodyFor(faults', d, wire'[d])
    BY <1>7, <2>1 DEF BodyInv, BodyFor
  <2> QED
    BY <1>2, <1>3, <1>7, <2>1, <2>4, <2>5, <2>6, <2>7 DEF BodyInv
<1>8. CASE (DrainRetries \/ Exhaust \/ SourceRaises \/ Finish) /\ UNCHANGED wire /\ Keeps
  <2>1. UNCHANGED <<next, answers, creator, faults>>
    BY <1>8 DEF DrainRetries, Drain, Exhaust, SourceRaises, Finish, End, genVars, serverVars
  <2>2. actions_retry_deque' # <<>> \/ retry_actions' # <<>> => faults > 0
    BY <1>8 DEF BodyInv, DrainRetries, Drain, Exhaust, SourceRaises, Finish, End, genVars
  <2>3. StoredAsYielded'
    BY <1>8, <2>1, StoredKept DEF BodyInv
  <2> QED
    BY <1>2, <1>3, <1>8, <2>1, <2>2, <2>3 DEF BodyInv, BodyFor
<1>9. CASE UNCHANGED bodyVars
  BY <1>2, <1>9 DEF bodyVars, vars, BodyInv, BodyFor, StoredAsYielded
<1> QED
  BY <1>4, <1>5, <1>6, <1>7, <1>8, <1>9 DEF BodyNext

\* What is in the index under a document's id is what was yielded as that document or,
\* for a document of the fio analyzer that was pushed back, a later one of them.
THEOREM BodiesAreTheirOwn == BodySpec => []StoredAsYielded
<1>1. BodyInv => StoredAsYielded
  BY DEF BodyInv
<1> QED
  BY <1>1, InitBodyInv, NextBodyInv, PTL DEF BodySpec
=============================================================================
