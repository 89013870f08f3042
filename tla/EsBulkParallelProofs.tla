----------------------- MODULE EsBulkParallelProofs -----------------------
(***************************************************************************)
(* The parallel mode of streaming_bulk, for any number of workers, of      *)
(* documents and of faults, and any room in the queue: actions_deque       *)
(* follows the chunks through the threads, nothing is lost between them,   *)
(* and the mode implements BulkLedger as the serial one does.              *)
(***************************************************************************)
EXTENDS EsBulkParallel, FoldProofs

\* A chunk's number says where it is: those in the queue are the last ones put, in
\* order, and every one before them is at one worker or done, and not taken.
Placed ==
  /\ taken + Len(queue) <= put
  /\ \A i \in 1..Len(queue) : queue[i].n = put - Len(queue) + i
  /\ \A w \in Workers :
       IF work[w].n = 0 THEN work[w] = Idle ELSE work[w].n \in (taken + 1)..(put - Len(queue))
  /\ \A v, w \in Workers : work[v].n = work[w].n => v = w \/ work[v].n = 0
  /\ \A r \in done : r.n \in (taken + 1)..(put - Len(queue))
  /\ \A r, s \in done : r.n = s.n => r = s
  /\ \A r \in done, w \in Workers : work[w].n # r.n

\* The documents of the chunks main has not taken, one after the other.
Chunk(n) == CHOOSE docs \in Held(n) : TRUE
Chunks   == [i \in 1..(put - taken) |-> Chunk(taken + i)]

\* The documents of a queue, in order and as a set.
Actions(s) == [i \in 1..Len(s) |-> s[i].action]
DocsOf(s)  == {s[i].action : i \in 1..Len(s)}

\* A chunk not taken is somewhere, and is one sequence of documents.
Whole == \A n \in (taken + 1)..put : \E docs \in Seq(Docs) : Held(n) = {docs}

\* actions_deque: what main is reading, has not taken, and what the feeder has not put.
InLine == Actions(actions_deque) = AnsweredIn(answers) \o FlattenSeq(Chunks) \o full \o chunk

\* No two entries of the queue are for the same document.
Distinct(s) == \A i, j \in 1..Len(s) : s[i].action = s[j].action => i = j

\* Every document of the queue has been pulled and has not been counted.
AllOpen(s) == \A d \in DocsOf(s) : d < next /\ verdict[d] = "none"

\* A document waits at one place of one queue.
OnceInFlight ==
  /\ Distinct(actions_deque) /\ Distinct(actions_retry_deque) /\ Distinct(retry_actions)
  /\ DocsOf(actions_deque) \cap DocsOf(actions_retry_deque) = {}
  /\ DocsOf(actions_deque) \cap DocsOf(retry_actions) = {}
  /\ DocsOf(actions_retry_deque) \cap DocsOf(retry_actions) = {}

\* What waits is open, and what was not pulled is not counted.
OpenInFlight ==
  /\ AllOpen(actions_deque) /\ AllOpen(actions_retry_deque) /\ AllOpen(retry_actions)
  /\ \A d \in Docs : d >= next => verdict[d] = "none"

\* What was pulled and is not counted waits.
NoneLost ==
  \A d \in Docs : d < next /\ verdict[d] = "none" =>
    d \in DocsOf(actions_deque) \cup DocsOf(actions_retry_deque) \cup DocsOf(retry_actions)

\* An answer that a document is in the index stays true until it is read.
TrueAnswers(s) ==
  \A i \in 1..Len(s) : s[i].code \in {"ok", "409"} => creator[IdOf[s[i].doc]] # Nobody
AnswersAreTrue ==
  /\ TrueAnswers(answers) /\ \A w \in Workers : TrueAnswers(work[w].answers)
  /\ \A r \in done : TrueAnswers(r.answers)

\* The drained actions are with the feeder; the iterable has ended with all of its
\* documents; and main has ended after every chunk.
Stages ==
  /\ retry_actions # <<>> => feeder \in {"drain", "resend"}
  /\ feeder = "ended" => next = NDocs + 1 /\ chunk = <<>>
  /\ status # "running" => full = <<>> /\ answers = <<>> /\ taken = put

-----------------------------------------------------------------------------
(* Queues and the documents in them                                        *)

\* What appending an entry does to a queue.
LEMMA AppendFacts ==
  ASSUME NEW S, NEW s \in Seq(S), NEW e \in S
  PROVE  /\ Append(s, e) \in Seq(S)
         /\ Len(Append(s, e)) = Len(s) + 1
         /\ Len(s) \in Nat
         /\ \A i \in 1..Len(s) : Append(s, e)[i] = s[i]
         /\ Append(s, e)[Len(s) + 1] = e
  OBVIOUS

\* What removing the head of a queue does.
LEMMA TailFacts ==
  ASSUME NEW S, NEW s \in Seq(S), s # <<>>
  PROVE  /\ Tail(s) \in Seq(S)
         /\ Len(Tail(s)) = Len(s) - 1
         /\ Len(s) \in Nat \ {0}
         /\ \A i \in 1..(Len(s) - 1) : Tail(s)[i] = s[i + 1]
         /\ Head(s) = s[1]
         /\ Head(s) \in S
  OBVIOUS

\* The head of a line is the head of its first part, if that has one.
LEMMA HeadOfLine ==
  ASSUME NEW S, NEW s \in Seq(S), NEW t \in Seq(S), s # <<>>
  PROVE  /\ s \o t # <<>> /\ Head(s \o t) = Head(s)
         /\ Tail(s \o t) = Tail(s) \o t
<1>1. /\ s \o t \in Seq(S) /\ Len(s \o t) = Len(s) + Len(t)
      /\ \A i \in 1..(Len(s) + Len(t)) :
           (s \o t)[i] = IF i <= Len(s) THEN s[i] ELSE t[i - Len(s)]
  BY ConcatProperties
<1>2. Len(s) \in Nat \ {0} /\ Len(t) \in Nat /\ Head(s) = s[1] /\ Tail(s) \in Seq(S)
      /\ Len(Tail(s)) = Len(s) - 1 /\ \A i \in 1..(Len(s) - 1) : Tail(s)[i] = s[i + 1]
  BY TailFacts
<1>3. s \o t # <<>>
  BY <1>1, <1>2, EmptySeq
<1>. DEFINE u == s \o t
<1>. HIDE DEF u
<1>4. u \in Seq(S) /\ u # <<>> /\ Len(u) = Len(s) + Len(t)
  BY <1>1, <1>3 DEF u
<1>5. /\ Head(u) = u[1] /\ Tail(u) \in Seq(S) /\ Len(Tail(u)) = Len(u) - 1
      /\ \A i \in 1..(Len(u) - 1) : Tail(u)[i] = u[i + 1]
  BY <1>4, TailFacts
<1>6. u[1] = s[1]
  BY <1>1, <1>2 DEF u
<1>. DEFINE v == Tail(s) \o t
<1>7. /\ v \in Seq(S) /\ Len(v) = (Len(s) - 1) + Len(t)
      /\ \A i \in 1..((Len(s) - 1) + Len(t)) :
           v[i] = IF i <= Len(s) - 1 THEN Tail(s)[i] ELSE t[i - (Len(s) - 1)]
  BY <1>2, ConcatProperties
<1>. HIDE DEF v
<1>8. ASSUME NEW i \in 1..((Len(s) - 1) + Len(t)) PROVE Tail(u)[i] = v[i]
  <2>1. i + 1 \in 1..(Len(s) + Len(t)) /\ (i + 1) - Len(s) = i - (Len(s) - 1)
        /\ i \in 1..(Len(u) - 1)
    BY <1>2, <1>4
  <2>2. u[i + 1] = IF i + 1 <= Len(s) THEN s[i + 1] ELSE t[(i + 1) - Len(s)]
    BY <1>1, <2>1 DEF u
  <2>3. CASE i <= Len(s) - 1
    <3>1. i \in 1..(Len(s) - 1) /\ i + 1 <= Len(s)
      BY <1>2, <2>3
    <3>. QED BY <1>2, <1>5, <1>7, <2>1, <2>2, <3>1
  <2>4. CASE ~(i <= Len(s) - 1)
    <3>1. ~(i + 1 <= Len(s))
      BY <1>2, <2>4
    <3>. QED BY <1>5, <1>7, <2>1, <2>2, <2>4, <3>1
  <2>. QED BY <2>3, <2>4
<1>9. Tail(u) = v
  <2>1. Len(Tail(u)) = Len(v) /\ Len(v) = (Len(s) - 1) + Len(t)
    BY <1>2, <1>4, <1>5, <1>7
  <2>2. \A i \in 1..Len(Tail(u)) : Tail(u)[i] = v[i]
    BY <2>1, <1>8
  <2>. QED BY <1>5, <1>7, <2>1, <2>2, SeqEqual
<1>. QED BY <1>3, <1>2, <1>5, <1>6, <1>9 DEF u, v

\* What was first in one part may be last in the part before.
LEMMA PassedOn ==
  ASSUME NEW S, NEW s \in Seq(S), NEW t \in Seq(S), t # <<>>
  PROVE  Append(s, Head(t)) \o Tail(t) = s \o t
<1>. DEFINE h == Head(t)
            r == Tail(t)
<1>1. h \in S /\ r \in Seq(S) /\ t = <<h>> \o r
  OBVIOUS
<1>. HIDE DEF h, r
<1>2. Append(s, h) = s \o <<h>> /\ <<h>> \in Seq(S)
  BY <1>1
<1>3. (s \o <<h>>) \o r = s \o (<<h>> \o r)
  BY <1>1, <1>2, ConcatAssociative
<1>. QED BY <1>1, <1>2, <1>3 DEF h, r
-----------------------------------------------------------------------------
\* The actions of a queue are documents.
LEMMA ActionsType ==
  ASSUME NEW s \in Seq(Tracked)
  PROVE  Actions(s) \in Seq(Docs) /\ Len(Actions(s)) = Len(s)
<1>1. Len(s) \in Nat
  OBVIOUS
<1>2. ASSUME NEW i \in 1..Len(s) PROVE s[i].action \in Docs
  <2>1. s[i] \in Tracked
    OBVIOUS
  <2>. QED BY <2>1 DEF Tracked
<1>3. Actions(s) \in [1..Len(s) -> Docs]
  BY <1>2 DEF Actions
<1>4. [1..Len(s) -> Docs] \subseteq Seq(Docs)
  BY <1>1, SeqDef
<1>5. Actions(s) \in Seq(Docs)
  BY <1>3, <1>4
<1>. QED BY <1>1, <1>3, <1>5, LenProperties

\* The actions of a queue, when one is appended ...
LEMMA ActionsAppend ==
  ASSUME NEW s \in Seq(Tracked), NEW e \in Tracked
  PROVE  Actions(Append(s, e)) = Append(Actions(s), e.action)
<1>1. /\ Append(s, e) \in Seq(Tracked) /\ Len(Append(s, e)) = Len(s) + 1 /\ Len(s) \in Nat
      /\ \A i \in 1..Len(s) : Append(s, e)[i] = s[i]
      /\ Append(s, e)[Len(s) + 1] = e
  BY AppendFacts
<1>2. Actions(s) \in Seq(Docs) /\ Len(Actions(s)) = Len(s) /\ e.action \in Docs
  BY ActionsType DEF Tracked
<1>3. /\ Append(Actions(s), e.action) \in Seq(Docs)
      /\ Len(Append(Actions(s), e.action)) = Len(s) + 1
      /\ \A i \in 1..Len(s) : Append(Actions(s), e.action)[i] = Actions(s)[i]
      /\ Append(Actions(s), e.action)[Len(s) + 1] = e.action
  BY <1>2, AppendFacts
<1>4. Actions(Append(s, e)) \in Seq(Docs) /\ Len(Actions(Append(s, e))) = Len(s) + 1
  BY <1>1, ActionsType
<1>5. ASSUME NEW i \in 1..(Len(s) + 1) PROVE Actions(Append(s, e))[i] = Append(Actions(s), e.action)[i]
  <2>1. Actions(Append(s, e))[i] = Append(s, e)[i].action
    BY <1>1 DEF Actions
  <2>2. CASE i \in 1..Len(s)
    BY <1>1, <1>3, <2>1, <2>2 DEF Actions
  <2>3. CASE i = Len(s) + 1
    BY <1>1, <1>3, <2>1, <2>3
  <2>4. i \in 1..Len(s) \/ i = Len(s) + 1
    BY <1>1
  <2>. QED BY <2>2, <2>3, <2>4
<1>. DEFINE a == Actions(Append(s, e))
            b == Append(Actions(s), e.action)
<1>6. a \in Seq(Docs) /\ b \in Seq(Docs) /\ Len(a) = Len(b) /\ \A i \in 1..Len(a) : a[i] = b[i]
  BY <1>3, <1>4, <1>5
<1>. HIDE DEF a, b
<1>7. a = b
  BY <1>6, SeqEqual
<1>. QED BY <1>7 DEF a, b

\* ... and when the head is taken.
LEMMA ActionsTail ==
  ASSUME NEW s \in Seq(Tracked), s # <<>>
  PROVE  /\ Actions(s) # <<>> /\ Head(Actions(s)) = Head(s).action
         /\ Actions(Tail(s)) = Tail(Actions(s))
<1>1. /\ Tail(s) \in Seq(Tracked) /\ Len(Tail(s)) = Len(s) - 1 /\ Len(s) \in Nat \ {0}
      /\ \A i \in 1..(Len(s) - 1) : Tail(s)[i] = s[i + 1]
      /\ Head(s) = s[1]
  BY TailFacts
<1>2. Actions(s) \in Seq(Docs) /\ Len(Actions(s)) = Len(s)
  BY ActionsType
<1>3. Actions(s) # <<>>
  BY <1>1, <1>2
<1>4. /\ Tail(Actions(s)) \in Seq(Docs) /\ Len(Tail(Actions(s))) = Len(s) - 1
      /\ \A i \in 1..(Len(s) - 1) : Tail(Actions(s))[i] = Actions(s)[i + 1]
      /\ Head(Actions(s)) = Actions(s)[1]
  BY <1>2, <1>3, TailFacts
<1>5. Actions(Tail(s)) \in Seq(Docs) /\ Len(Actions(Tail(s))) = Len(s) - 1
  BY <1>1, ActionsType
<1>6. Actions(s)[1] = s[1].action
  BY <1>1 DEF Actions
<1>7. ASSUME NEW i \in 1..(Len(s) - 1) PROVE Actions(Tail(s))[i] = Tail(Actions(s))[i]
  <2>1. i \in 1..Len(Tail(s)) /\ i + 1 \in 1..Len(s)
    BY <1>1
  <2>2. Actions(Tail(s))[i] = Tail(s)[i].action
    BY <2>1 DEF Actions
  <2>3. Actions(s)[i + 1] = s[i + 1].action
    BY <2>1 DEF Actions
  <2>. QED BY <1>1, <1>4, <2>2, <2>3
<1>. DEFINE a == Actions(Tail(s))
            b == Tail(Actions(s))
<1>8. a \in Seq(Docs) /\ b \in Seq(Docs) /\ Len(a) = Len(b) /\ \A i \in 1..Len(a) : a[i] = b[i]
  BY <1>1, <1>4, <1>5, <1>7
<1>. HIDE DEF a, b
<1>9. a = b
  BY <1>8, SeqEqual
<1>. QED BY <1>1, <1>3, <1>4, <1>6, <1>9 DEF a, b

\* The documents of answers are documents.
LEMMA AnsweredType ==
  ASSUME NEW s \in Seq(Answer)
  PROVE  AnsweredIn(s) \in Seq(Docs) /\ Len(AnsweredIn(s)) = Len(s)
<1>1. Len(s) \in Nat
  OBVIOUS
<1>2. ASSUME NEW i \in 1..Len(s) PROVE s[i].doc \in Docs
  <2>1. s[i] \in Answer
    OBVIOUS
  <2>. QED BY <2>1 DEF Answer
<1>3. AnsweredIn(s) \in [1..Len(s) -> Docs]
  BY <1>2 DEF AnsweredIn
<1>4. [1..Len(s) -> Docs] \subseteq Seq(Docs)
  BY <1>1, SeqDef
<1>5. AnsweredIn(s) \in Seq(Docs)
  BY <1>3, <1>4
<1>. QED BY <1>1, <1>3, <1>5, LenProperties

\* The documents answered, when one is appended ...
LEMMA AnsweredAppend ==
  ASSUME NEW s \in Seq(Answer), NEW e \in Answer
  PROVE  AnsweredIn(Append(s, e)) = Append(AnsweredIn(s), e.doc)
<1>1. /\ Append(s, e) \in Seq(Answer) /\ Len(Append(s, e)) = Len(s) + 1 /\ Len(s) \in Nat
      /\ \A i \in 1..Len(s) : Append(s, e)[i] = s[i]
      /\ Append(s, e)[Len(s) + 1] = e
  BY AppendFacts
<1>2. AnsweredIn(s) \in Seq(Docs) /\ Len(AnsweredIn(s)) = Len(s) /\ e.doc \in Docs
  BY AnsweredType DEF Answer
<1>3. /\ Append(AnsweredIn(s), e.doc) \in Seq(Docs)
      /\ Len(Append(AnsweredIn(s), e.doc)) = Len(s) + 1
      /\ \A i \in 1..Len(s) : Append(AnsweredIn(s), e.doc)[i] = AnsweredIn(s)[i]
      /\ Append(AnsweredIn(s), e.doc)[Len(s) + 1] = e.doc
  BY <1>2, AppendFacts
<1>4. AnsweredIn(Append(s, e)) \in Seq(Docs) /\ Len(AnsweredIn(Append(s, e))) = Len(s) + 1
  BY <1>1, AnsweredType
<1>5. ASSUME NEW i \in 1..(Len(s) + 1) PROVE AnsweredIn(Append(s, e))[i] = Append(AnsweredIn(s), e.doc)[i]
  <2>1. AnsweredIn(Append(s, e))[i] = Append(s, e)[i].doc
    BY <1>1 DEF AnsweredIn
  <2>2. CASE i \in 1..Len(s)
    BY <1>1, <1>3, <2>1, <2>2 DEF AnsweredIn
  <2>3. CASE i = Len(s) + 1
    BY <1>1, <1>3, <2>1, <2>3
  <2>4. i \in 1..Len(s) \/ i = Len(s) + 1
    BY <1>1
  <2>. QED BY <2>2, <2>3, <2>4
<1>. DEFINE a == AnsweredIn(Append(s, e))
            b == Append(AnsweredIn(s), e.doc)
<1>6. a \in Seq(Docs) /\ b \in Seq(Docs) /\ Len(a) = Len(b) /\ \A i \in 1..Len(a) : a[i] = b[i]
  BY <1>3, <1>4, <1>5
<1>. HIDE DEF a, b
<1>7. a = b
  BY <1>6, SeqEqual
<1>. QED BY <1>7 DEF a, b

\* ... and when the head is taken.
LEMMA AnsweredTail ==
  ASSUME NEW s \in Seq(Answer), s # <<>>
  PROVE  /\ AnsweredIn(s) # <<>> /\ Head(AnsweredIn(s)) = Head(s).doc
         /\ AnsweredIn(Tail(s)) = Tail(AnsweredIn(s))
<1>1. /\ Tail(s) \in Seq(Answer) /\ Len(Tail(s)) = Len(s) - 1 /\ Len(s) \in Nat \ {0}
      /\ \A i \in 1..(Len(s) - 1) : Tail(s)[i] = s[i + 1]
      /\ Head(s) = s[1]
  BY TailFacts
<1>2. AnsweredIn(s) \in Seq(Docs) /\ Len(AnsweredIn(s)) = Len(s)
  BY AnsweredType
<1>3. AnsweredIn(s) # <<>>
  BY <1>1, <1>2
<1>4. /\ Tail(AnsweredIn(s)) \in Seq(Docs) /\ Len(Tail(AnsweredIn(s))) = Len(s) - 1
      /\ \A i \in 1..(Len(s) - 1) : Tail(AnsweredIn(s))[i] = AnsweredIn(s)[i + 1]
      /\ Head(AnsweredIn(s)) = AnsweredIn(s)[1]
  BY <1>2, <1>3, TailFacts
<1>5. AnsweredIn(Tail(s)) \in Seq(Docs) /\ Len(AnsweredIn(Tail(s))) = Len(s) - 1
  BY <1>1, AnsweredType
<1>6. AnsweredIn(s)[1] = s[1].doc
  BY <1>1 DEF AnsweredIn
<1>7. ASSUME NEW i \in 1..(Len(s) - 1) PROVE AnsweredIn(Tail(s))[i] = Tail(AnsweredIn(s))[i]
  <2>1. i \in 1..Len(Tail(s)) /\ i + 1 \in 1..Len(s)
    BY <1>1
  <2>2. AnsweredIn(Tail(s))[i] = Tail(s)[i].doc
    BY <2>1 DEF AnsweredIn
  <2>3. AnsweredIn(s)[i + 1] = s[i + 1].doc
    BY <2>1 DEF AnsweredIn
  <2>. QED BY <1>1, <1>4, <2>2, <2>3
<1>. DEFINE a == AnsweredIn(Tail(s))
            b == Tail(AnsweredIn(s))
<1>8. a \in Seq(Docs) /\ b \in Seq(Docs) /\ Len(a) = Len(b) /\ \A i \in 1..Len(a) : a[i] = b[i]
  BY <1>1, <1>4, <1>5, <1>7
<1>. HIDE DEF a, b
<1>9. a = b
  BY <1>8, SeqEqual
<1>. QED BY <1>1, <1>3, <1>4, <1>6, <1>9 DEF a, b
-----------------------------------------------------------------------------
(* The inductive invariant                                                 *)

ParallelIInv ==
  /\ ParallelTypeOK /\ Placed /\ Whole /\ InLine /\ Accounting
  /\ OnceInFlight /\ OpenInFlight /\ NoneLost /\ AnswersAreTrue /\ Stages

\* The chunks are kept while no chunk is put and none is worked on.
LEMMA PlacedSame ==
  ASSUME Placed, UNCHANGED <<queue, put, work, done, taken>>
  PROVE  Placed'
BY DEF Placed

\* What is said of each entry of a sequence of records is kept when the numbers grow.
LEMMA QueueGrows ==
  ASSUME NEW m \in Nat, NEW n \in Nat, m <= n,
         NEW q \in Seq([n : 1..m, docs : Seq(Docs)])
  PROVE  q \in Seq([n : 1..n, docs : Seq(Docs)])
<1>1. [n : 1..m, docs : Seq(Docs)] \subseteq [n : 1..n, docs : Seq(Docs)]
  OBVIOUS
<1>. QED BY <1>1, SeqMonotonic

\* The types of the two deques, one by one.
LEMMA ParallelTypes ==
  ASSUME ParallelTypeOK
  PROVE  /\ NDocs \in Nat /\ next \in 1..(NDocs + 1) /\ retries \in Nat
         /\ actions_deque \in Seq(Tracked) /\ actions_retry_deque \in Seq(Tracked)
         /\ retry_actions \in Seq(Tracked) /\ chunk \in Seq(Docs) /\ full \in Seq(Docs)
         /\ put \in Nat /\ taken \in 0..put /\ answers \in Seq(Answer)
         /\ verdict \in [Docs -> Verdicts \cup {"none"}] /\ totals \in [Verdicts -> Nat]
BY ParallelAssumption DEF ParallelTypeOK

\* Feeding an action keeps what is buffered a sequence of documents.
LEMMA FeedType ==
  ASSUME ParallelTypeOK, NEW e \in Tracked, Yield(e)
  PROVE  actions_deque' \in Seq(Tracked) /\ chunk' \in Seq(Docs) /\ full' \in Seq(Docs)
<1>1. /\ actions_deque \in Seq(Tracked) /\ chunk \in Seq(Docs) /\ full \in Seq(Docs)
      /\ e.action \in Docs
  BY ParallelTypes DEF Tracked
<1>2. actions_deque' \in Seq(Tracked)
  BY <1>1, AppendFacts DEF Yield
<1>3. CASE chunk' = Append(chunk, e.action) /\ UNCHANGED full
  BY <1>1, <1>2, <1>3, AppendFacts
<1>4. CASE full' = chunk /\ chunk' = <<e.action>>
  <2>1. <<e.action>> \in Seq(Docs)
    BY <1>1
  <2>. QED BY <1>1, <1>2, <1>4, <2>1
<1>. QED BY <1>3, <1>4 DEF Yield, Feed

\* The steps of the feeder keep the types.
LEMMA FeederType ==
  ASSUME ParallelTypeOK,
         YieldNew \/ Check \/ DrainOne \/ Drained \/ YieldRetry \/ AllResent \/ Exhaust \/ SourceFails
  PROVE  ParallelTypeOK'
<1>. USE DEF At, Goto, deques, poolVars, mainVars, serverVars
<1>1. CASE YieldNew
  <2>. DEFINE e == [retry_count |-> 0, action |-> next]
  <2>1. e \in Tracked /\ next + 1 \in 1..(NDocs + 1)
    BY <1>1, ParallelTypes DEF YieldNew, Tracked, Docs
  <2>. HIDE DEF e
  <2>2. actions_deque' \in Seq(Tracked) /\ chunk' \in Seq(Docs) /\ full' \in Seq(Docs)
    BY <1>1, <2>1, FeedType DEF YieldNew, e
  <2>. QED BY <1>1, <2>1, <2>2 DEF YieldNew, ParallelTypeOK, Places
<1>2. CASE Check
  BY <1>2 DEF Check, ParallelTypeOK, Places
<1>3. CASE DrainOne
  <2>1. actions_retry_deque \in Seq(Tracked) /\ retry_actions \in Seq(Tracked)
    BY ParallelTypes
  <2>2. Tail(actions_retry_deque) \in Seq(Tracked) /\ Head(actions_retry_deque) \in Tracked
    BY <1>3, <2>1, TailFacts DEF DrainOne
  <2>3. Append(retry_actions, Head(actions_retry_deque)) \in Seq(Tracked)
    BY <2>1, <2>2, AppendFacts
  <2>. QED BY <1>3, <2>2, <2>3 DEF DrainOne, ParallelTypeOK
<1>4. CASE Drained \/ AllResent \/ SourceFails
  BY <1>4 DEF Drained, AllResent, SourceFails, ParallelTypeOK, Places
<1>5. CASE YieldRetry
  <2>1. Head(retry_actions) \in Tracked /\ Tail(retry_actions) \in Seq(Tracked)
    BY <1>5, ParallelTypes, TailFacts DEF YieldRetry
  <2>2. actions_deque' \in Seq(Tracked) /\ chunk' \in Seq(Docs) /\ full' \in Seq(Docs)
    BY <1>5, <2>1, FeedType DEF YieldRetry
  <2>. QED BY <1>5, <2>1, <2>2 DEF YieldRetry, ParallelTypeOK
<1>6. CASE Exhaust
  <2>1. <<>> \in Seq(Docs)
    OBVIOUS
  <2>. QED BY <1>6, <2>1 DEF Exhaust, ParallelTypeOK, Places
<1>. QED BY <1>1, <1>2, <1>3, <1>4, <1>5, <1>6

\* Putting a chunk keeps the types, and its number is new.
LEMMA PutType ==
  ASSUME ParallelTypeOK, Put
  PROVE  ParallelTypeOK'
<1>. DEFINE c == [n |-> put + 1, docs |-> full]
<1>1. put \in Nat /\ put' = put + 1 /\ full \in Seq(Docs) /\ queue' = Append(queue, c)
      /\ UNCHANGED <<work, done>> /\ Len(queue) < QueueSize /\ QueueSize \in Nat
  BY ParallelTypes, ParallelAssumption DEF Put, poolVars
<1>2. queue \in Seq([n : 1..put, docs : Seq(Docs)])
  BY DEF ParallelTypeOK
<1>3. queue \in Seq([n : 1..(put + 1), docs : Seq(Docs)])
  <2>1. put + 1 \in Nat /\ put <= put + 1
    BY <1>1
  <2>. QED BY <1>1, <1>2, <2>1, QueueGrows
<1>4. c \in [n : 1..(put + 1), docs : Seq(Docs)]
  BY <1>1
<1>. HIDE DEF c
<1>5. queue' \in Seq([n : 1..(put + 1), docs : Seq(Docs)]) /\ Len(queue') = Len(queue) + 1
      /\ Len(queue) \in Nat
  BY <1>1, <1>3, <1>4, AppendFacts
<1>6. Len(queue') <= QueueSize
  BY <1>1, <1>5
<1>7. work' \in [Workers -> [n : 0..(put + 1), docs : Seq(Docs), answers : Seq(Answer)]]
  <2>1. [n : 0..put, docs : Seq(Docs), answers : Seq(Answer)]
          \subseteq [n : 0..(put + 1), docs : Seq(Docs), answers : Seq(Answer)]
    BY <1>1
  <2>. QED BY <1>1, <2>1 DEF ParallelTypeOK
<1>8. done' \subseteq [n : 1..(put + 1), answers : Seq(Answer)]
  <2>1. [n : 1..put, answers : Seq(Answer)] \subseteq [n : 1..(put + 1), answers : Seq(Answer)]
    BY <1>1
  <2>. QED BY <1>1, <2>1 DEF ParallelTypeOK
<1>9. taken \in 0..(put + 1) /\ <<>> \in Seq(Docs)
  BY <1>1 DEF ParallelTypeOK
<1>. QED
  BY <1>1, <1>5, <1>6, <1>7, <1>8, <1>9
  DEF Put, ParallelTypeOK, deques, mainVars, serverVars

\* What a worker does to its chunk keeps the types.
LEMMA WorkerType ==
  ASSUME ParallelTypeOK, Placed, NEW w \in Workers, Worker(w)
  PROVE  ParallelTypeOK'
<1>. DEFINE C == [n : 0..put, docs : Seq(Docs), answers : Seq(Answer)]
<1>1. work \in [Workers -> C] /\ work[w] \in C /\ Idle \in C /\ put \in Nat
  <2>1. <<>> \in Seq(Docs) /\ <<>> \in Seq(Answer)
    OBVIOUS
  <2>. QED BY <2>1 DEF ParallelTypeOK, Idle
<1>2. CASE TakeChunk(w)
  <2>1. queue \in Seq([n : 1..put, docs : Seq(Docs)]) /\ queue # <<>> /\ Len(queue) <= QueueSize
        /\ QueueSize \in Nat
    BY <1>2, ParallelAssumption DEF TakeChunk, ParallelTypeOK
  <2>2. /\ Tail(queue) \in Seq([n : 1..put, docs : Seq(Docs)])
        /\ Head(queue) \in [n : 1..put, docs : Seq(Docs)]
        /\ Len(Tail(queue)) = Len(queue) - 1 /\ Len(queue) \in Nat
    BY <2>1, TailFacts
  <2>. DEFINE c == [n |-> Head(queue).n, docs |-> Head(queue).docs, answers |-> <<>>]
  <2>3. c \in C
    BY <2>2
  <2>4. Len(Tail(queue)) <= QueueSize
    BY <2>1, <2>2
  <2>5. queue' = Tail(queue) /\ work' = [work EXCEPT ![w] = c]
        /\ UNCHANGED <<deques, feederVars, put, done, mainVars, serverVars>>
    BY <1>2 DEF TakeChunk
  <2>. HIDE DEF c, C
  <2>6. work' \in [Workers -> C]
    BY <1>1, <2>3, <2>5
  <2>. QED
    BY <2>2, <2>4, <2>5, <2>6 DEF ParallelTypeOK, C, deques, feederVars, mainVars, serverVars
<1>3. CASE Serve(w)
  <2>1. PICK code \in {"ok", "409", "400", "other"} :
          /\ Answers(Head(work[w].docs), code)
          /\ work' = [work EXCEPT ![w].docs = Tail(@),
                        ![w].answers = Append(@, [doc |-> Head(work[w].docs), code |-> code])]
          /\ faults' = IF code = "other" THEN faults + 1 ELSE faults
    BY <1>3 DEF Serve
  <2>. DEFINE d == Head(work[w].docs)
              a == [doc |-> d, code |-> code]
  <2>2. work[w].docs # <<>> /\ work[w].docs \in Seq(Docs) /\ work[w].answers \in Seq(Answer)
    BY <1>1, <1>3 DEF Serve
  <2>3. d \in Docs /\ Tail(work[w].docs) \in Seq(Docs)
    BY <2>2, TailFacts
  <2>4. a \in Answer
    BY <2>3 DEF Answer
  <2>. HIDE DEF d, a
  <2>5. Append(work[w].answers, a) \in Seq(Answer)
    BY <2>2, <2>4, AppendFacts
  <2>6. work' = [work EXCEPT ![w] = [n |-> work[w].n, docs |-> Tail(work[w].docs),
                                     answers |-> Append(work[w].answers, a)]]
    <3>. DEFINE W == [work EXCEPT ![w].docs = Tail(@)]
    <3>1. W = [work EXCEPT ![w] = [n |-> work[w].n, docs |-> Tail(work[w].docs),
                                   answers |-> work[w].answers]]
      <4>1. ASSUME NEW c \in C, NEW x
            PROVE  [c EXCEPT !.docs = x] = [n |-> c.n, docs |-> x, answers |-> c.answers]
        OBVIOUS
      <4>2. W = [work EXCEPT ![w] = [work[w] EXCEPT !.docs = Tail(work[w].docs)]]
        BY <1>1
      <4>. HIDE DEF C
      <4>. QED BY <1>1, <4>1, <4>2
    <3>2. W \in [Workers -> C] /\ W[w].answers = work[w].answers
      BY <1>1, <2>3, <3>1
    <3>3. work' = [W EXCEPT ![w].answers = Append(work[w].answers, a)]
      BY <2>1, <3>2 DEF d, a
    <3>. HIDE DEF W
    <3>. QED BY <1>1, <3>1, <3>2, <3>3
  <2>7. work' \in [Workers -> C]
    BY <1>1, <2>3, <2>5, <2>6
  <2>8. creator' \in [Ids -> 0..(NDocs + 1)] /\ faults' \in 0..MaxFaults
    <3>1. /\ creator \in [Ids -> 0..(NDocs + 1)] /\ faults \in 0..MaxFaults /\ d \in 0..(NDocs + 1)
          /\ MaxFaults \in Nat
      BY <2>3, ParallelAssumption DEF ParallelTypeOK, Docs
    <3>2. creator' = creator \/ creator' = [creator EXCEPT ![IdOf[d]] = d]
      BY <2>1 DEF Answers, Stores, d
    <3>3. code = "other" => faults < MaxFaults
      BY <2>1 DEF Answers
    <3>. QED BY <2>1, <3>1, <3>2, <3>3
  <2>. HIDE DEF C
  <2>. QED
    BY <1>3, <2>7, <2>8 DEF Serve, ParallelTypeOK, C, deques, feederVars, mainVars
<1>4. CASE FinishChunk(w)
  <2>1. work[w].n # 0
    BY <1>4 DEF FinishChunk, Placed
  <2>2. [n |-> work[w].n, answers |-> work[w].answers] \in [n : 1..put, answers : Seq(Answer)]
    BY <1>1, <2>1
  <2>. HIDE DEF C
  <2>3. work' \in [Workers -> C]
    BY <1>1, <1>4 DEF FinishChunk
  <2>. QED
    BY <1>4, <2>2, <2>3 DEF FinishChunk, ParallelTypeOK, C, deques, feederVars, mainVars, serverVars
<1>. QED BY <1>2, <1>3, <1>4 DEF Worker

\* The chunks not taken are sequences of documents.
LEMMA ChunksType ==
  ASSUME ParallelTypeOK, Whole
  PROVE  /\ Chunks \in Seq(Seq(Docs)) /\ Len(Chunks) = put - taken
         /\ \A n \in (taken + 1)..put : Held(n) = {Chunk(n)} /\ Chunk(n) \in Seq(Docs)
<1>1. put \in Nat /\ taken \in 0..put /\ put - taken \in Nat
  BY ParallelTypes
<1>2. ASSUME NEW n \in (taken + 1)..put PROVE Held(n) = {Chunk(n)} /\ Chunk(n) \in Seq(Docs)
  <2>1. PICK docs \in Seq(Docs) : Held(n) = {docs}
    BY DEF Whole
  <2>2. Chunk(n) = docs
    BY <2>1 DEF Chunk
  <2>. QED BY <2>1, <2>2
<1>3. \A i \in 1..(put - taken) : Chunk(taken + i) \in Seq(Docs)
  <2>1. \A i \in 1..(put - taken) : taken + i \in (taken + 1)..put
    BY <1>1
  <2>. QED BY <1>2, <2>1
<1>. DEFINE T == Seq(Docs)
<1>4. Chunks \in [1..(put - taken) -> T]
  BY <1>3 DEF Chunks
<1>. HIDE DEF T
<1>5. [1..(put - taken) -> T] \subseteq Seq(T)
  BY <1>1, SeqDef
<1>6. Chunks \in Seq(T)
  BY <1>4, <1>5
<1>7. Len(Chunks) = put - taken
  BY <1>1, <1>4, <1>6, LenProperties
<1>. QED BY <1>2, <1>6, <1>7 DEF T

\* Main has a document of actions_deque for the answer it reads.
LEMMA FirstInLine ==
  ASSUME ParallelTypeOK, InLine, Whole, Reading
  PROVE  /\ answers \in Seq(Answer) /\ answers # <<>> /\ Head(answers) \in Answer
         /\ actions_deque \in Seq(Tracked) /\ actions_deque # <<>> /\ Entry \in Tracked
         /\ Entry.action = Head(answers).doc /\ Entry.action \in Docs
<1>1. /\ answers \in Seq(Answer) /\ answers # <<>> /\ actions_deque \in Seq(Tracked)
      /\ full \in Seq(Docs) /\ chunk \in Seq(Docs)
  BY ParallelTypes DEF Reading
<1>2. Head(answers) \in Answer
  BY <1>1, TailFacts
<1>. DEFINE a == AnsweredIn(answers)
            F == FlattenSeq(Chunks)
<1>3. a \in Seq(Docs) /\ a # <<>> /\ Head(a) = Head(answers).doc
  BY <1>1, AnsweredType, AnsweredTail
<1>4. F \in Seq(Docs)
  BY ChunksType, FlattenType
<1>5. Actions(actions_deque) = a \o F \o full \o chunk
  BY DEF InLine
<1>. HIDE DEF a, F
<1>6. a \o F \in Seq(Docs) /\ a \o F # <<>> /\ Head(a \o F) = Head(a)
  BY <1>3, <1>4, HeadOfLine, ConcatProperties
<1>7. a \o F \o full \in Seq(Docs) /\ a \o F \o full # <<>> /\ Head(a \o F \o full) = Head(a)
  BY <1>1, <1>6, HeadOfLine, ConcatProperties
<1>8. Actions(actions_deque) # <<>> /\ Head(Actions(actions_deque)) = Head(a)
  BY <1>1, <1>5, <1>7, HeadOfLine
<1>9. actions_deque # <<>>
  <2>1. ASSUME actions_deque = <<>> PROVE FALSE
    <3>1. Len(Actions(actions_deque)) = 0 /\ Actions(actions_deque) \in Seq(Docs)
      BY <1>1, <2>1, ActionsType
    <3>. QED BY <1>8, <3>1, EmptySeq
  <2>. QED BY <2>1
<1>10. Entry \in Tracked /\ Head(Actions(actions_deque)) = Entry.action
  BY <1>1, <1>9, ActionsTail, TailFacts DEF Entry
<1>11. Entry.action \in Docs
  BY <1>10 DEF Tracked
<1>. QED BY <1>1, <1>2, <1>3, <1>8, <1>9, <1>10, <1>11

\* What main does keeps the types.
LEMMA MainType ==
  ASSUME ParallelTypeOK, InLine, Whole, Main
  PROVE  ParallelTypeOK'
<1>1. CASE TakeAnswers
  <2>1. PICK r \in done : r.n = taken + 1 /\ answers' = r.answers /\ done' = done \ {r}
    BY <1>1 DEF TakeAnswers
  <2>2. r \in [n : 1..put, answers : Seq(Answer)] /\ put \in Nat /\ taken \in 0..put
    BY <2>1, ParallelTypes DEF ParallelTypeOK
  <2>3. taken + 1 \in 0..put /\ answers' \in Seq(Answer)
    BY <2>1, <2>2
  <2>4. done' \subseteq [n : 1..put, answers : Seq(Answer)]
    BY <2>1 DEF ParallelTypeOK
  <2>. QED BY <1>1, <2>3, <2>4 DEF TakeAnswers, ParallelTypeOK, deques, feederVars, serverVars
<1>2. CASE Consume
  <2>1. /\ answers \in Seq(Answer) /\ answers # <<>> /\ Head(answers) \in Answer
        /\ actions_deque \in Seq(Tracked) /\ actions_deque # <<>> /\ Entry \in Tracked
        /\ Entry.action \in Docs
    BY <1>2, FirstInLine DEF Consume
  <2>2. Tail(answers) \in Seq(Answer) /\ Tail(actions_deque) \in Seq(Tracked)
    BY <2>1, TailFacts
  <2>3. actions_retry_deque' \in Seq(Tracked) /\ totals' \in [Verdicts -> Nat]
        /\ verdict' \in [Docs -> Verdicts \cup {"none"}]
    <3>1. CASE Code = "other"
      <4>1. [Entry EXCEPT !.retry_count = @ + 1] \in Tracked
        BY <2>1 DEF Tracked
      <4>2. Append(actions_retry_deque, [Entry EXCEPT !.retry_count = @ + 1]) \in Seq(Tracked)
        BY <4>1, ParallelTypes, AppendFacts
      <4>. QED BY <1>2, <3>1, <4>2, ParallelTypes DEF Consume
    <3>2. CASE Code # "other"
      <4>1. CountedAs(Entry, Code) \in Verdicts
        BY <2>1, <3>2 DEF CountedAs, Code, Answer, Verdicts
      <4>. DEFINE v == CountedAs(Entry, Code)
      <4>2. totals' = [totals EXCEPT ![v] = @ + 1] /\ verdict' = [verdict EXCEPT ![Entry.action] = v]
            /\ UNCHANGED actions_retry_deque
        BY <1>2, <3>2 DEF Consume
      <4>. HIDE DEF v
      <4>3. v \in Verdicts
        BY <4>1 DEF v
      <4>. QED BY <2>1, <4>2, <4>3, ParallelTypes
    <3>. QED BY <3>1, <3>2
  <2>. QED
    BY <1>2, <2>2, <2>3 DEF Consume, ParallelTypeOK, feederVars, poolVars, serverVars
<1>3. CASE Finish \/ Reraise
  BY <1>3 DEF Finish, Reraise, Ends, ParallelTypeOK, deques, feederVars, poolVars, serverVars
<1>. QED BY <1>1, <1>2, <1>3 DEF Main

\* Every step keeps the types.
LEMMA TypeNext ==
  ASSUME ParallelTypeOK, Placed, InLine, Whole, [Next]_vars
  PROVE  ParallelTypeOK'
<1>1. CASE UNCHANGED vars
  BY <1>1 DEF vars, ParallelTypeOK
<1>. QED BY <1>1, FeederType, PutType, WorkerType, MainType DEF Next, Feeder
-----------------------------------------------------------------------------
(* The places of the chunks                                                *)

\* The types of what is in the pool.
LEMMA PoolTypes ==
  ASSUME ParallelTypeOK
  PROVE  /\ put \in Nat /\ taken \in 0..put /\ Len(queue) \in Nat
         /\ queue \in Seq([n : 1..put, docs : Seq(Docs)])
         /\ work \in [Workers -> [n : 0..put, docs : Seq(Docs), answers : Seq(Answer)]]
         /\ done \subseteq [n : 1..put, answers : Seq(Answer)]
BY LenProperties DEF ParallelTypeOK

\* A worker takes the first chunk of the queue to its place.
LEMMA TakeChunkMoves ==
  ASSUME ParallelTypeOK, Placed, NEW w \in Workers, TakeChunk(w)
  PROVE  Placed' /\ \A n \in 1..put : Held(n)' = Held(n)
<1>. DEFINE L == Len(queue)
            q == Head(queue)
            c == [n |-> q.n, docs |-> q.docs, answers |-> <<>>]
<1>1. /\ queue # <<>> /\ queue' = Tail(queue) /\ work[w] = Idle
      /\ work' = [work EXCEPT ![w] = c]
      /\ UNCHANGED <<put, done, taken>>
  BY DEF TakeChunk, mainVars
<1>2. /\ Len(queue') = L - 1 /\ L \in Nat \ {0} /\ q = queue[1]
      /\ \A i \in 1..(L - 1) : queue'[i] = queue[i + 1]
      /\ q \in [n : 1..put, docs : Seq(Docs)]
  BY <1>1, PoolTypes, TailFacts
<1>3. put \in Nat /\ taken \in 0..put /\ taken + L <= put
  BY PoolTypes DEF Placed
<1>4. q.n = (put - L) + 1 /\ q.n \in (taken + 1)..(put - (L - 1)) /\ q.n # 0
  BY <1>2, <1>3 DEF Placed
<1>5. work'[w] = c /\ \A v \in Workers : v # w => work'[v] = work[v]
  BY <1>1, PoolTypes
<1>6. Placed'
  <2>1. taken + (L - 1) <= put
    BY <1>2, <1>3
  <2>2. ASSUME NEW i \in 1..(L - 1) PROVE queue'[i].n = (put - (L - 1)) + i
    <3>1. i + 1 \in 1..L /\ (put - L) + (i + 1) = (put - (L - 1)) + i
      BY <1>2, <1>3
    <3>. QED BY <1>2, <3>1 DEF Placed
  <2>3. ASSUME NEW v \in Workers
        PROVE  IF work'[v].n = 0 THEN work'[v] = Idle
               ELSE work'[v].n \in (taken + 1)..(put - (L - 1))
    <3>1. CASE v = w
      BY <1>4, <1>5, <3>1
    <3>2. CASE v # w
      <4>1. work'[v] = work[v]
        BY <1>5, <3>2
      <4>2. CASE work[v].n = 0
        BY <4>1, <4>2 DEF Placed
      <4>3. CASE work[v].n # 0
        <5>1. work[v].n \in (taken + 1)..(put - L)
          BY <4>3 DEF Placed
        <5>2. work[v].n \in (taken + 1)..(put - (L - 1))
          BY <1>2, <1>3, <5>1
        <5>. QED BY <4>1, <4>3, <5>2
      <4>. QED BY <4>2, <4>3
    <3>. QED BY <3>1, <3>2
  <2>4. ASSUME NEW v \in Workers, v # w PROVE work[v].n # q.n
    <3>1. CASE work[v].n = 0
      BY <1>4, <3>1
    <3>2. CASE work[v].n # 0
      <4>1. work[v].n \in (taken + 1)..(put - L)
        BY <3>2 DEF Placed
      <4>. QED BY <1>2, <1>3, <1>4, <4>1
    <3>. QED BY <3>1, <3>2
  <2>5. ASSUME NEW v \in Workers, NEW u \in Workers, work'[v].n = work'[u].n
        PROVE  v = u \/ work'[v].n = 0
    <3>1. CASE v # w /\ u # w
      <4>1. work'[v] = work[v] /\ work'[u] = work[u]
        BY <1>5, <3>1
      <4>. QED BY <2>5, <4>1 DEF Placed
    <3>2. CASE v = w
      BY <1>5, <2>4, <2>5, <3>2
    <3>3. CASE u = w
      BY <1>5, <2>4, <2>5, <3>3
    <3>. QED BY <3>1, <3>2, <3>3
  <2>6. ASSUME NEW r \in done
        PROVE  r.n \in (taken + 1)..(put - (L - 1)) /\ r.n # q.n
    <3>1. r.n \in (taken + 1)..(put - L)
      BY DEF Placed
    <3>. QED BY <1>2, <1>3, <1>4, <3>1
  <2>7. ASSUME NEW r \in done, NEW v \in Workers PROVE work'[v].n # r.n
    <3>1. CASE v = w
      BY <1>5, <2>6, <3>1
    <3>2. CASE v # w
      <4>1. work'[v] = work[v]
        BY <1>5, <3>2
      <4>. QED BY <4>1 DEF Placed
    <3>. QED BY <3>1, <3>2
  <2>8. \A r, s \in done : r.n = s.n => r = s
    BY DEF Placed
  <2>. HIDE DEF c, q
  <2>. QED BY <1>1, <1>2, <2>1, <2>2, <2>3, <2>5, <2>6, <2>7, <2>8 DEF Placed
<1>7. ASSUME NEW n \in 1..put PROVE Held(n)' = Held(n)
  <2>1. AnsweredIn(c.answers) \o c.docs = q.docs
    <3>1. AnsweredIn(<<>>) = <<>>
      BY DEF AnsweredIn
    <3>2. q.docs \in Seq(Docs)
      BY <1>2
    <3>3. <<>> \o q.docs = q.docs
      BY <3>2, ConcatEmptySeq
    <3>. QED BY <3>1, <3>3
  <2>. DEFINE D == {AnsweredIn(r.answers) : r \in {r \in done : r.n = n}}
              W == {AnsweredIn(work[v].answers) \o work[v].docs : v \in {v \in Workers : work[v].n = n}}
              Wn == {AnsweredIn(work'[v].answers) \o work'[v].docs : v \in {v \in Workers : work'[v].n = n}}
              Q == {queue[i].docs : i \in {i \in 1..L : queue[i].n = n}}
              Qn == {queue'[i].docs : i \in {i \in 1..(L - 1) : queue'[i].n = n}}
  <2>2. Held(n) = D \cup W \cup Q
    BY DEF Held
  <2>3. Held(n)' = D \cup Wn \cup Qn
    BY <1>1, <1>2 DEF Held
  <2>4. Wn = IF q.n = n THEN W \cup {q.docs} ELSE W
    <3>1. {v \in Workers : work'[v].n = n} =
            {v \in Workers : work[v].n = n} \cup {v \in Workers : v = w /\ q.n = n}
      <4>1. work[w].n # n
        BY <1>1 DEF Idle
      <4>. QED BY <1>5, <4>1
    <3>2. \A v \in Workers : work[v].n = n =>
            AnsweredIn(work'[v].answers) \o work'[v].docs = AnsweredIn(work[v].answers) \o work[v].docs
      <4>1. work[w].n # n
        BY <1>1 DEF Idle
      <4>. QED BY <1>5, <4>1
    <3>3. AnsweredIn(work'[w].answers) \o work'[w].docs = q.docs
      BY <1>5, <2>1
    <3>. QED BY <3>1, <3>2, <3>3
  <2>5. Q = IF q.n = n THEN Qn \cup {q.docs} ELSE Qn
    <3>1. ASSUME NEW i \in 1..L, queue[i].n = n
          PROVE  queue[i].docs \in Qn \/ (q.n = n /\ queue[i].docs = q.docs)
      <4>1. CASE i = 1
        BY <1>2, <3>1, <4>1
      <4>2. CASE i # 1
        <5>1. i - 1 \in 1..(L - 1) /\ (i - 1) + 1 = i
          BY <1>2, <4>2
        <5>2. queue'[i - 1] = queue[i]
          BY <1>2, <5>1
        <5>. QED BY <3>1, <5>1, <5>2
      <4>. QED BY <4>1, <4>2
    <3>2. ASSUME NEW i \in 1..(L - 1), queue'[i].n = n PROVE queue'[i].docs \in Q
      <4>1. i + 1 \in 1..L /\ queue'[i] = queue[i + 1]
        BY <1>2
      <4>. QED BY <3>2, <4>1
    <3>3. q.n = n => q.docs \in Q
      <4>1. 1 \in 1..L
        BY <1>2
      <4>. QED BY <1>2, <4>1
    <3>4. \A x \in Q : x \in Qn \/ (q.n = n /\ x = q.docs)
      BY <3>1
    <3>5. \A x \in Qn : x \in Q
      BY <3>2
    <3>. HIDE DEF Q, Qn
    <3>. QED BY <3>3, <3>4, <3>5
  <2>. HIDE DEF D, W, Wn, Q, Qn, q
  <2>. QED BY <2>2, <2>3, <2>4, <2>5
<1>. QED BY <1>6, <1>7

\* An answer is a document of the chunk that has passed from one side to the other.
LEMMA ServeMoves ==
  ASSUME ParallelTypeOK, Placed, NEW w \in Workers, Serve(w)
  PROVE  Placed' /\ \A n \in 1..put : Held(n)' = Held(n)
<1>1. PICK code \in {"ok", "409", "400", "other"} :
        work' = [work EXCEPT ![w].docs = Tail(@),
                   ![w].answers = Append(@, [doc |-> Head(work[w].docs), code |-> code])]
  BY DEF Serve
<1>. DEFINE a == [doc |-> Head(work[w].docs), code |-> code]
<1>2. /\ work[w].docs # <<>> /\ work[w].docs \in Seq(Docs) /\ work[w].answers \in Seq(Answer)
      /\ UNCHANGED <<queue, put, done, taken>>
  BY PoolTypes DEF Serve, mainVars
<1>3. Head(work[w].docs) \in Docs /\ Tail(work[w].docs) \in Seq(Docs)
  BY <1>2, TailFacts
<1>4. a \in Answer
  BY <1>3 DEF Answer
<1>5. /\ work'[w].n = work[w].n /\ work'[w].docs = Tail(work[w].docs)
      /\ work'[w].answers = Append(work[w].answers, a)
      /\ \A v \in Workers : v # w => work'[v] = work[v]
  BY <1>1, PoolTypes
<1>. HIDE DEF a
<1>6. work[w].n # 0
  <2>1. Idle.docs = <<>>
    BY DEF Idle
  <2>. QED BY <1>2, <2>1 DEF Placed
<1>7. \A v \in Workers : work'[v].n = work[v].n
  BY <1>5
<1>8. Placed'
  <2>1. ASSUME NEW v \in Workers
        PROVE  IF work'[v].n = 0 THEN work'[v] = Idle
               ELSE work'[v].n \in (taken + 1)..(put - Len(queue))
    <3>1. CASE v = w
      BY <1>5, <1>6, <3>1 DEF Placed
    <3>2. CASE v # w
      <4>1. work'[v] = work[v]
        BY <1>5, <3>2
      <4>. QED BY <4>1 DEF Placed
    <3>. QED BY <3>1, <3>2
  <2>. QED BY <1>2, <1>7, <2>1 DEF Placed
<1>9. AnsweredIn(work'[w].answers) \o work'[w].docs = AnsweredIn(work[w].answers) \o work[w].docs
  <2>1. AnsweredIn(Append(work[w].answers, a)) = Append(AnsweredIn(work[w].answers), a.doc)
    BY <1>2, <1>4, AnsweredAppend
  <2>2. a.doc = Head(work[w].docs)
    BY DEF a
  <2>. DEFINE s == AnsweredIn(work[w].answers)
              t == work[w].docs
  <2>3. s \in Seq(Docs) /\ t \in Seq(Docs) /\ t # <<>>
    BY <1>2, AnsweredType
  <2>. HIDE DEF s, t
  <2>4. Append(s, Head(t)) \o Tail(t) = s \o t
    BY <2>3, PassedOn
  <2>. QED BY <1>5, <2>1, <2>2, <2>4 DEF s, t
<1>10. \A v \in Workers :
         AnsweredIn(work'[v].answers) \o work'[v].docs = AnsweredIn(work[v].answers) \o work[v].docs
  BY <1>5, <1>9
<1>11. ASSUME NEW n \in 1..put PROVE Held(n)' = Held(n)
  <2>1. {v \in Workers : work'[v].n = n} = {v \in Workers : work[v].n = n}
    BY <1>7
  <2>2. {AnsweredIn(work'[v].answers) \o work'[v].docs : v \in {v \in Workers : work'[v].n = n}}
          = {AnsweredIn(work[v].answers) \o work[v].docs : v \in {v \in Workers : work[v].n = n}}
    BY <1>10, <2>1
  <2>. QED BY <1>2, <2>2 DEF Held
<1>. QED BY <1>8, <1>11

\* A chunk that is answered goes from its worker to the finished ones.
LEMMA FinishChunkMoves ==
  ASSUME ParallelTypeOK, Placed, NEW w \in Workers, FinishChunk(w)
  PROVE  Placed' /\ \A n \in 1..put : Held(n)' = Held(n)
<1>. DEFINE k == work[w].n
            f == [n |-> k, answers |-> work[w].answers]
<1>1. /\ work[w] # Idle /\ work[w].docs = <<>> /\ done' = done \cup {f}
      /\ work' = [work EXCEPT ![w] = Idle]
      /\ UNCHANGED <<queue, put, taken>>
  BY DEF FinishChunk, mainVars
<1>2. work'[w] = Idle /\ \A v \in Workers : v # w => work'[v] = work[v]
  BY <1>1, PoolTypes
<1>3. k # 0 /\ k \in (taken + 1)..(put - Len(queue)) /\ f.n = k /\ f.answers = work[w].answers
  BY <1>1 DEF Placed
<1>4. Idle.n = 0
  BY DEF Idle
<1>5. \A v \in Workers : v # w => work[v].n # k
  BY <1>3 DEF Placed
<1>6. \A r \in done : r.n # k
  BY DEF Placed
<1>7. Placed'
  <2>1. \A v \in Workers :
          IF work'[v].n = 0 THEN work'[v] = Idle
          ELSE work'[v].n \in (taken + 1)..(put - Len(queue))
    BY <1>2, <1>4 DEF Placed
  <2>2. \A v, u \in Workers : work'[v].n = work'[u].n => v = u \/ work'[v].n = 0
    BY <1>2, <1>4 DEF Placed
  <2>3. \A r \in done' : r.n \in (taken + 1)..(put - Len(queue))
    BY <1>1, <1>3 DEF Placed
  <2>4. \A r, s \in done' : r.n = s.n => r = s
    BY <1>1, <1>3, <1>6 DEF Placed
  <2>5. \A r \in done', v \in Workers : work'[v].n # r.n
    <3>1. ASSUME NEW r \in done', NEW v \in Workers, v # w PROVE work'[v].n # r.n
      <4>1. work'[v] = work[v]
        BY <1>2, <3>1
      <4>2. r \in done \/ r = f
        BY <1>1
      <4>. QED BY <1>3, <1>5, <3>1, <4>1, <4>2 DEF Placed
    <3>2. ASSUME NEW r \in done' PROVE r.n # 0
      <4>1. r.n \in (taken + 1)..(put - Len(queue))
        BY <2>3
      <4>. QED BY <4>1, PoolTypes
    <3>. QED BY <1>2, <1>4, <3>1, <3>2
  <2>. QED BY <1>1, <2>1, <2>2, <2>3, <2>4, <2>5 DEF Placed
<1>8. ASSUME NEW n \in 1..put PROVE Held(n)' = Held(n)
  <2>. DEFINE D == {AnsweredIn(r.answers) : r \in {r \in done : r.n = n}}
              Dn == {AnsweredIn(r.answers) : r \in {r \in done' : r.n = n}}
              W == {AnsweredIn(work[v].answers) \o work[v].docs : v \in {v \in Workers : work[v].n = n}}
              Wn == {AnsweredIn(work'[v].answers) \o work'[v].docs : v \in {v \in Workers : work'[v].n = n}}
              Q == {queue[i].docs : i \in {i \in 1..Len(queue) : queue[i].n = n}}
              x == AnsweredIn(work[w].answers)
  <2>1. Held(n) = D \cup W \cup Q
    BY DEF Held
  <2>2. Held(n)' = Dn \cup Wn \cup Q
    BY <1>1 DEF Held
  <2>3. Dn = IF k = n THEN D \cup {x} ELSE D
    <3>1. {r \in done' : r.n = n} = {r \in done : r.n = n} \cup (IF k = n THEN {f} ELSE {})
      BY <1>1, <1>3
    <3>. QED BY <1>3, <3>1
  <2>4. W = IF k = n THEN Wn \cup {x} ELSE Wn
    <3>1. work[w].answers \in Seq(Answer)
      BY PoolTypes
    <3>2. x \in Seq(Docs)
      BY <3>1, AnsweredType
    <3>3. x \o work[w].docs = x
      <4>. HIDE DEF x
      <4>. QED BY <1>1, <3>2, ConcatEmptySeq
    <3>4. {v \in Workers : work[v].n = n} =
            {v \in Workers : work'[v].n = n} \cup {v \in Workers : v = w /\ k = n}
      BY <1>2, <1>4
    <3>5. \A v \in Workers : work'[v].n = n => v # w /\ work'[v] = work[v]
      BY <1>2, <1>4
    <3>. DEFINE F(v) == AnsweredIn(work[v].answers) \o work[v].docs
                Fn(v) == AnsweredIn(work'[v].answers) \o work'[v].docs
                V == {v \in Workers : work[v].n = n}
                Vn == {v \in Workers : work'[v].n = n}
    <3>6. F(w) = x /\ \A v \in Vn : Fn(v) = F(v)
      BY <3>3, <3>5
    <3>7. V = IF k = n THEN Vn \cup {w} ELSE Vn
      BY <3>4
    <3>8. W = {F(v) : v \in V} /\ Wn = {Fn(v) : v \in Vn}
      OBVIOUS
    <3>. HIDE DEF F, Fn, V, Vn, W, Wn, x, k
    <3>9. Wn = {F(v) : v \in Vn}
      BY <3>6, <3>8
    <3>10. CASE k = n
      BY <3>6, <3>7, <3>8, <3>9, <3>10
    <3>11. CASE k # n
      BY <3>7, <3>8, <3>9, <3>11
    <3>. QED BY <3>10, <3>11
  <2>. HIDE DEF D, Dn, W, Wn, Q, x, k
  <2>. QED BY <2>1, <2>2, <2>3, <2>4
<1>. QED BY <1>7, <1>8

\* A chunk put is at the end of the queue, and its number is new.
LEMMA PutMoves ==
  ASSUME ParallelTypeOK, Placed, Put
  PROVE  /\ Placed' /\ \A n \in 1..put : Held(n)' = Held(n)
         /\ put' = put + 1 /\ taken' = taken /\ \A n : n = put + 1 => Held(n)' = {full}
<1>. DEFINE L == Len(queue)
            c == [n |-> put + 1, docs |-> full]
<1>1. /\ queue' = Append(queue, c) /\ put' = put + 1
      /\ UNCHANGED <<work, done, taken>>
  BY DEF Put, mainVars
<1>2. put \in Nat /\ taken \in 0..put /\ L \in Nat /\ taken + L <= put
  BY PoolTypes DEF Placed
<1>3. queue \in Seq([n : 1..(put + 1), docs : Seq(Docs)]) /\ c \in [n : 1..(put + 1), docs : Seq(Docs)]
  <2>1. put + 1 \in Nat /\ put <= put + 1 /\ full \in Seq(Docs)
    BY <1>2, ParallelTypes
  <2>2. c \in [n : 1..(put + 1), docs : Seq(Docs)]
    <3>1. put + 1 \in 1..(put + 1)
      BY <1>2
    <3>. QED BY <2>1, <3>1
  <2>. QED BY <1>2, <2>1, <2>2, PoolTypes, QueueGrows
<1>4. /\ Len(queue') = L + 1 /\ \A i \in 1..L : queue'[i] = queue[i]
      /\ queue'[L + 1] = c
  <2>. HIDE DEF c
  <2>. QED BY <1>1, <1>3, AppendFacts
<1>5. (put + 1) - (L + 1) = put - L /\ taken + (L + 1) <= put + 1
  BY <1>2
<1>6. ASSUME NEW i \in 1..(L + 1) PROVE queue'[i].n = (put - L) + i
  <2>1. CASE i \in 1..L
    BY <1>4, <2>1 DEF Placed
  <2>2. CASE i = L + 1
    <3>1. queue'[i].n = put + 1 /\ (put - L) + (L + 1) = put + 1
      BY <1>2, <1>4, <2>2
    <3>. QED BY <2>2, <3>1
  <2>3. i \in 1..L \/ i = L + 1
    BY <1>2
  <2>. QED BY <2>1, <2>2, <2>3
<1>7. Placed'
  <2>. HIDE DEF c
  <2>1. /\ \A w \in Workers :
             IF work[w].n = 0 THEN work[w] = Idle ELSE work[w].n \in (taken + 1)..(put - L)
        /\ \A v, w \in Workers : work[v].n = work[w].n => v = w \/ work[v].n = 0
        /\ \A r \in done : r.n \in (taken + 1)..(put - L)
        /\ \A r, s \in done : r.n = s.n => r = s
        /\ \A r \in done, w \in Workers : work[w].n # r.n
    BY DEF Placed
  <2>. QED BY <1>1, <1>4, <1>5, <1>6, <2>1 DEF Placed
<1>. DEFINE D(n) == {AnsweredIn(r.answers) : r \in {r \in done : r.n = n}}
            W(n) == {AnsweredIn(work[v].answers) \o work[v].docs : v \in {v \in Workers : work[v].n = n}}
            Q(n) == {queue[i].docs : i \in {i \in 1..L : queue[i].n = n}}
            Qn(n) == {queue'[i].docs : i \in {i \in 1..(L + 1) : queue'[i].n = n}}
<1>8. \A n : Held(n) = D(n) \cup W(n) \cup Q(n)
  BY DEF Held
<1>9. ASSUME NEW n PROVE Held(n)' = D(n) \cup W(n) \cup Qn(n)
  BY <1>1, <1>4 DEF Held
<1>10. ASSUME NEW n PROVE Qn(n) = IF n = put + 1 THEN Q(n) \cup {full} ELSE Q(n)
  <2>1. c.n = put + 1 /\ c.docs = full
    OBVIOUS
  <2>2. {i \in 1..(L + 1) : queue'[i].n = n} =
          {i \in 1..L : queue[i].n = n} \cup (IF n = put + 1 THEN {L + 1} ELSE {})
    <3>1. \A i : i \in 1..(L + 1) <=> i \in 1..L \/ i = L + 1
      BY <1>2
    <3>2. L + 1 \notin 1..L
      BY <1>2
    <3>. HIDE DEF L, c
    <3>. QED BY <1>4, <2>1, <3>1, <3>2
  <2>3. \A i \in 1..L : queue'[i].docs = queue[i].docs
    BY <1>4
  <2>4. queue'[L + 1].docs = full
    BY <1>4
  <2>. QED BY <2>2, <2>3, <2>4
<1>11. D(put + 1) = {} /\ W(put + 1) = {} /\ Q(put + 1) = {}
  <2>1. \A r \in done : r.n # put + 1
    <3>1. ASSUME NEW r \in done PROVE r.n \in 1..put
      <4>1. r \in [n : 1..put, answers : Seq(Answer)]
        BY PoolTypes
      <4>. QED BY <4>1
    <3>. QED BY <1>2, <3>1
  <2>2. \A v \in Workers : work[v].n # put + 1
    <3>1. \A v \in Workers : work[v].n \in 0..put
      BY PoolTypes
    <3>. QED BY <1>2, <3>1
  <2>3. \A i \in 1..L : queue[i].n # put + 1
    <3>1. \A i \in 1..L : queue[i].n \in 1..put
      <4>1. queue \in Seq([n : 1..put, docs : Seq(Docs)])
        BY PoolTypes
      <4>2. \A i \in 1..L : queue[i] \in [n : 1..put, docs : Seq(Docs)]
        BY <4>1, ElementOfSeq
      <4>. QED BY <4>2
    <3>. QED BY <1>2, <3>1
  <2>. QED BY <2>1, <2>2, <2>3
<1>12. \A n \in 1..put : n # put + 1
  BY <1>2
<1>13. ASSUME NEW n \in 1..put PROVE Held(n)' = Held(n)
  <2>. HIDE DEF D, W, Q, Qn
  <2>. QED BY <1>8, <1>9, <1>10, <1>12
<1>14. ASSUME NEW n, n = put + 1 PROVE Held(n)' = {full}
  <2>1. D(n) = {} /\ W(n) = {} /\ Q(n) = {}
    BY <1>11, <1>14
  <2>2. Held(n)' = D(n) \cup W(n) \cup Qn(n) /\ Qn(n) = Q(n) \cup {full}
    BY <1>9, <1>10, <1>14
  <2>. HIDE DEF D, W, Q, Qn
  <2>. QED BY <2>1, <2>2
<1>. QED BY <1>1, <1>7, <1>13, <1>14

\* Main takes the next chunk, and leaves the others where they are.
LEMMA TakeAnswersMoves ==
  ASSUME ParallelTypeOK, Placed, TakeAnswers
  PROVE  /\ Placed' /\ taken' = taken + 1 /\ put' = put
         /\ \A n \in 1..put : n # taken + 1 => Held(n)' = Held(n)
         /\ taken + 1 \in 1..put /\ AnsweredIn(answers') \in Held(taken + 1)
<1>1. PICK r \in done : r.n = taken + 1 /\ answers' = r.answers /\ done' = done \ {r}
  BY DEF TakeAnswers
<1>2. taken' = taken + 1 /\ UNCHANGED <<queue, put, work>>
  BY DEF TakeAnswers
<1>3. put \in Nat /\ taken \in 0..put /\ Len(queue) \in Nat
  BY PoolTypes
<1>4. taken + 1 \in (taken + 1)..(put - Len(queue))
  BY <1>1 DEF Placed
<1>5. \A s \in done' : s \in done /\ s.n # taken + 1
  BY <1>1 DEF Placed
<1>6. \A v \in Workers : work[v].n # taken + 1
  BY <1>1 DEF Placed
<1>7. Placed'
  <2>1. (taken + 1) + Len(queue) <= put
    BY <1>3, <1>4
  <2>2. ASSUME NEW m, m \in (taken + 1)..(put - Len(queue)), m # taken + 1
        PROVE  m \in ((taken + 1) + 1)..(put - Len(queue))
    BY <1>3, <2>2
  <2>3. \A s \in done' : s.n \in ((taken + 1) + 1)..(put - Len(queue))
    BY <1>5, <2>2 DEF Placed
  <2>4. \A v \in Workers :
          IF work[v].n = 0 THEN work[v] = Idle
          ELSE work[v].n \in ((taken + 1) + 1)..(put - Len(queue))
    BY <1>6, <2>2 DEF Placed
  <2>5. /\ \A i \in 1..Len(queue) : queue[i].n = put - Len(queue) + i
        /\ \A v, w \in Workers : work[v].n = work[w].n => v = w \/ work[v].n = 0
        /\ \A q, s \in done' : q.n = s.n => q = s
        /\ \A s \in done', w \in Workers : work[w].n # s.n
    BY <1>5 DEF Placed
  <2>. QED BY <1>2, <2>1, <2>3, <2>4, <2>5 DEF Placed
<1>8. ASSUME NEW n \in 1..put, n # taken + 1 PROVE Held(n)' = Held(n)
  <2>1. {s \in done' : s.n = n} = {s \in done : s.n = n}
    BY <1>1, <1>8
  <2>. QED BY <1>2, <2>1 DEF Held
<1>9. taken + 1 \in 1..put
  BY <1>3, <1>4
<1>10. AnsweredIn(answers') \in Held(taken + 1)
  BY <1>1 DEF Held
<1>. QED BY <1>2, <1>7, <1>8, <1>9, <1>10
-----------------------------------------------------------------------------
(* What main has not taken                                                 *)

\* While no chunk is put and none is taken, the chunks are the same.
LEMMA ChunksSame ==
  ASSUME ParallelTypeOK, Whole, put' = put, taken' = taken, \A n \in 1..put : Held(n)' = Held(n)
  PROVE  Whole' /\ Chunks' = Chunks
<1>1. put \in Nat /\ taken \in 0..put
  BY ParallelTypes
<1>2. \A n \in (taken + 1)..put : Held(n)' = Held(n)
  <2>1. \A n \in (taken + 1)..put : n \in 1..put
    BY <1>1
  <2>. QED BY <2>1
<1>3. Whole'
  BY <1>2 DEF Whole
<1>4. \A n \in (taken + 1)..put : Chunk(n)' = Chunk(n)
  BY <1>2 DEF Chunk
<1>5. \A i \in 1..(put - taken) : taken + i \in (taken + 1)..put
  BY <1>1
<1>6. \A i \in 1..(put - taken) : Chunk(taken + i)' = Chunk(taken + i)
  BY <1>4, <1>5
<1>. QED BY <1>3, <1>6 DEF Chunks

\* A chunk put is the last one.
LEMMA ChunksPut ==
  ASSUME ParallelTypeOK, Whole, put' = put + 1, taken' = taken,
         \A n \in 1..put : Held(n)' = Held(n), \A n : n = put + 1 => Held(n)' = {full}
  PROVE  Whole' /\ Chunks' = Append(Chunks, full)
<1>1. put \in Nat /\ taken \in 0..put /\ full \in Seq(Docs)
  BY ParallelTypes
<1>2. ASSUME NEW n \in (taken + 1)..(put + 1)
      PROVE  (n \in 1..put /\ n \in (taken + 1)..put) \/ n = put + 1
  BY <1>1
<1>3. Whole'
  <2>1. ASSUME NEW n \in (taken + 1)..(put + 1) PROVE \E docs \in Seq(Docs) : Held(n)' = {docs}
    <3>1. CASE n = put + 1
      BY <1>1, <3>1
    <3>2. CASE n \in 1..put /\ n \in (taken + 1)..put
      <4>1. Held(n)' = Held(n)
        BY <3>2
      <4>. QED BY <3>2, <4>1 DEF Whole
    <3>. QED BY <1>2, <3>1, <3>2
  <2>. QED BY <2>1 DEF Whole
<1>4. /\ Chunks \in Seq(Seq(Docs)) /\ Len(Chunks) = put - taken
      /\ \A n \in (taken + 1)..put : Held(n) = {Chunk(n)} /\ Chunk(n) \in Seq(Docs)
  BY ChunksType
<1>. DEFINE m == put - taken
            T == Seq(Docs)
            b == Append(Chunks, full)
<1>5. m \in Nat /\ (put + 1) - taken = m + 1
  BY <1>1
<1>6. ASSUME NEW i \in 1..(m + 1) PROVE Chunk(taken + i)' \in T /\ Chunk(taken + i)' = b[i]
  <2>1. /\ Len(Chunks) = m /\ \A j \in 1..m : b[j] = Chunks[j]
        /\ b[m + 1] = full
    <3>. HIDE DEF m
    <3>. QED BY <1>1, <1>4, AppendFacts DEF m
  <2>2. CASE i = m + 1
    <3>1. taken + i = put + 1
      BY <1>1, <2>2
    <3>2. Held(taken + i)' = {full}
      BY <3>1
    <3>3. Chunk(taken + i)' = full
      BY <3>2 DEF Chunk
    <3>. QED BY <1>1, <2>1, <2>2, <3>3
  <2>3. CASE i \in 1..m
    <3>1. taken + i \in 1..put /\ taken + i \in (taken + 1)..put
      BY <1>1, <2>3
    <3>2. Held(taken + i)' = Held(taken + i)
      BY <3>1
    <3>3. Chunk(taken + i)' = Chunk(taken + i)
      BY <3>2 DEF Chunk
    <3>4. Chunks[i] = Chunk(taken + i)
      BY <2>3 DEF Chunks
    <3>. QED BY <1>4, <2>1, <2>3, <3>1, <3>3, <3>4
  <2>4. i = m + 1 \/ i \in 1..m
    BY <1>5
  <2>. QED BY <2>2, <2>3, <2>4
<1>7. Chunks' = [i \in 1..(m + 1) |-> Chunk(taken + i)']
  BY <1>5 DEF Chunks
<1>8. b \in Seq(T) /\ Len(b) = m + 1
  <2>1. full \in T /\ Chunks \in Seq(T) /\ Len(Chunks) = m
    BY <1>1, <1>4
  <2>. HIDE DEF T, m
  <2>. QED BY <2>1, AppendFacts
<1>. DEFINE a == Chunks'
<1>9. a \in [1..(m + 1) -> T] /\ \A i \in 1..(m + 1) : a[i] = b[i]
  BY <1>6, <1>7
<1>. HIDE DEF a, b, T, m
<1>10. [1..(m + 1) -> T] \subseteq Seq(T)
  <2>1. m + 1 \in Nat
    BY <1>5
  <2>. QED BY <2>1, SeqDef
<1>11. a \in Seq(T) /\ Len(a) = m + 1
  <2>1. a \in Seq(T)
    BY <1>9, <1>10
  <2>2. m + 1 \in Nat
    BY <1>5
  <2>. QED BY <1>9, <2>1, <2>2, LenProperties
<1>12. a = b
  BY <1>8, <1>9, <1>11, SeqEqual
<1>. QED BY <1>3, <1>12 DEF a, b

\* The chunk taken was the first one.
LEMMA ChunksTake ==
  ASSUME ParallelTypeOK, Whole, put' = put, taken' = taken + 1, taken + 1 \in 1..put,
         \A n \in 1..put : n # taken + 1 => Held(n)' = Held(n)
  PROVE  /\ Whole' /\ Chunks' = Tail(Chunks)
         /\ Chunks # <<>> /\ Held(taken + 1) = {Head(Chunks)}
<1>1. put \in Nat /\ taken \in 0..put
  BY ParallelTypes
<1>2. \A n \in ((taken + 1) + 1)..put : n \in 1..put /\ n # taken + 1 /\ n \in (taken + 1)..put
  BY <1>1
<1>3. Whole'
  <2>1. ASSUME NEW n \in ((taken + 1) + 1)..put PROVE \E docs \in Seq(Docs) : Held(n)' = {docs}
    <3>1. Held(n)' = Held(n) /\ n \in (taken + 1)..put
      BY <1>2
    <3>. QED BY <3>1 DEF Whole
  <2>. QED BY <2>1 DEF Whole
<1>4. /\ Chunks \in Seq(Seq(Docs)) /\ Len(Chunks) = put - taken
      /\ \A n \in (taken + 1)..put : Held(n) = {Chunk(n)} /\ Chunk(n) \in Seq(Docs)
  BY ChunksType
<1>. DEFINE m == put - taken
            T == Seq(Docs)
            b == Tail(Chunks)
<1>5. m \in Nat \ {0} /\ put - (taken + 1) = m - 1
  BY <1>1
<1>6. Chunks # <<>>
  BY <1>4, <1>5
<1>7. /\ b \in Seq(T) /\ Len(b) = m - 1 /\ Head(Chunks) = Chunks[1]
      /\ \A i \in 1..(m - 1) : b[i] = Chunks[i + 1]
  <2>. HIDE DEF T, m
  <2>. QED BY <1>4, <1>6, TailFacts DEF T, m
<1>8. ASSUME NEW i \in 1..(m - 1)
      PROVE  Chunk(taken + i)' \in T /\ Chunk(taken + i)' = b[i]
  <2>1. /\ (taken + 1) + i \in 1..put /\ (taken + 1) + i # taken + 1
        /\ (taken + 1) + i \in (taken + 1)..put
        /\ i + 1 \in 1..m /\ taken + (i + 1) = (taken + 1) + i
    BY <1>1, <1>5
  <2>2. ASSUME NEW n, n = (taken + 1) + i
        PROVE  Chunk(n)' \in T /\ Chunk(n)' = Chunk(n)
    <3>1. Held(n)' = Held(n)
      BY <2>1, <2>2
    <3>2. Chunk(n)' = Chunk(n)
      BY <3>1 DEF Chunk
    <3>. QED BY <1>4, <2>1, <2>2, <3>2
  <2>3. Chunks[i + 1] = Chunk(taken + (i + 1))
    BY <2>1 DEF Chunks
  <2>. QED BY <1>7, <2>1, <2>2, <2>3
<1>9. Chunks' = [i \in 1..(m - 1) |-> Chunk(taken + i)']
  BY <1>5 DEF Chunks
<1>10. Held(taken + 1) = {Head(Chunks)}
  <2>1. taken + 1 \in (taken + 1)..put /\ 1 \in 1..(put - taken)
    BY <1>1
  <2>2. Chunks[1] = Chunk(taken + 1)
    BY <2>1 DEF Chunks
  <2>. QED BY <1>4, <1>7, <2>1, <2>2
<1>. DEFINE a == Chunks'
<1>11. a \in [1..(m - 1) -> T] /\ \A i \in 1..(m - 1) : a[i] = b[i]
  BY <1>8, <1>9
<1>. HIDE DEF a, b, T, m
<1>12. m - 1 \in Nat
  BY <1>5
<1>13. [1..(m - 1) -> T] \subseteq Seq(T)
  BY <1>12, SeqDef
<1>14. a \in Seq(T)
  BY <1>11, <1>13
<1>15. Len(a) = m - 1
  BY <1>11, <1>12, <1>14, LenProperties
<1>16. a = b
  BY <1>7, <1>11, <1>14, <1>15, SeqEqual
<1>. QED BY <1>3, <1>6, <1>10, <1>16 DEF a, b
-----------------------------------------------------------------------------
(* actions_deque follows the chunks                                        *)

\* The parts of the line are sequences of documents.
LEMMA LineTypes ==
  ASSUME ParallelTypeOK, Whole
  PROVE  /\ AnsweredIn(answers) \in Seq(Docs) /\ FlattenSeq(Chunks) \in Seq(Docs)
         /\ full \in Seq(Docs) /\ chunk \in Seq(Docs) /\ Chunks \in Seq(Seq(Docs))
         /\ Actions(actions_deque) \in Seq(Docs)
BY ParallelTypes, AnsweredType, ActionsType, ChunksType, FlattenType

\* What leaves the pool alone leaves the chunks where they are.
LEMMA PoolSame ==
  ASSUME ParallelTypeOK, Placed, Whole, UNCHANGED <<queue, put, work, done, taken>>
  PROVE  Placed' /\ Whole' /\ Chunks' = Chunks
<1>1. \A n \in 1..put : Held(n)' = Held(n)
  BY DEF Held
<1>. QED BY <1>1, PlacedSame, ChunksSame

\* What the generator yields goes to the end of the line, whether or not it closes a chunk.
LEMMA YieldInLine ==
  ASSUME ParallelTypeOK, Whole, InLine, NEW e \in Tracked, Yield(e), full = <<>>,
         answers' = answers, Chunks' = Chunks
  PROVE  InLine'
<1>. DEFINE d == e.action
            p == AnsweredIn(answers) \o FlattenSeq(Chunks)
            a == Actions(actions_deque)
            an == Actions(actions_deque')
<1>0. ASSUME NEW s \in Seq(Docs), NEW t \in Seq(Docs), NEW x \in Docs
      PROVE  Append(s \o t, x) = s \o Append(t, x)
  OBVIOUS
<1>1. an = Append(a, d) /\ d \in Docs
  BY ParallelTypes, ActionsAppend DEF Yield, Tracked
<1>2. p \in Seq(Docs) /\ chunk \in Seq(Docs) /\ full \in Seq(Docs)
  BY LineTypes, ConcatProperties
<1>3. a = (p \o full) \o chunk
  BY DEF InLine
<1>4. p \o full = p
  <2>. HIDE DEF p
  <2>. QED BY <1>2, ConcatEmptySeq
<1>5. (p \o full') \o chunk' = an
  <2>1. CASE chunk' = Append(chunk, d) /\ UNCHANGED full
    <3>. HIDE DEF p, d, a, an
    <3>1. Append(p \o chunk, d) = p \o Append(chunk, d)
      BY <1>0, <1>1, <1>2
    <3>. QED BY <1>1, <1>3, <1>4, <2>1, <3>1
  <2>2. CASE full' = chunk /\ chunk' = <<d>>
    <3>. HIDE DEF p, d, a, an
    <3>1. Append(p \o chunk, d) = (p \o chunk) \o <<d>>
      <4>1. p \o chunk \in Seq(Docs)
        BY <1>2, ConcatProperties
      <4>. QED BY <1>1, <4>1, AppendIsConcat
    <3>. QED BY <1>1, <1>3, <1>4, <2>2, <3>1
  <2>. QED BY <2>1, <2>2 DEF Yield, Feed
<1>6. p' = p
  OBVIOUS
<1>. QED BY <1>5, <1>6 DEF InLine

\* The steps of the feeder keep the line.
LEMMA FeederInLine ==
  ASSUME ParallelTypeOK, Placed, Whole, InLine,
         YieldNew \/ Check \/ DrainOne \/ Drained \/ YieldRetry \/ AllResent \/ Exhaust \/ SourceFails
  PROVE  Placed' /\ Whole' /\ InLine'
<1>1. UNCHANGED <<queue, put, work, done, taken, answers>>
  BY DEF YieldNew, Check, DrainOne, Drained, YieldRetry, AllResent, Exhaust, SourceFails,
         poolVars, mainVars
<1>2. Placed' /\ Whole' /\ Chunks' = Chunks
  BY <1>1, PoolSame
<1>3. CASE Check \/ DrainOne \/ Drained \/ AllResent \/ SourceFails
  <2>1. UNCHANGED <<actions_deque, full, chunk>>
    BY <1>3 DEF Check, DrainOne, Drained, AllResent, SourceFails, deques
  <2>. QED BY <1>1, <1>2, <2>1 DEF InLine
<1>4. CASE YieldNew
  <2>. DEFINE e == [retry_count |-> 0, action |-> next]
  <2>1. e \in Tracked /\ Yield(e) /\ full = <<>>
    BY <1>4 DEF YieldNew, Tracked, At
  <2>. HIDE DEF e
  <2>. QED BY <1>1, <1>2, <2>1, YieldInLine
<1>5. CASE YieldRetry
  <2>1. Head(retry_actions) \in Tracked /\ Yield(Head(retry_actions)) /\ full = <<>>
    BY <1>5, ParallelTypes, TailFacts DEF YieldRetry, At
  <2>. QED BY <1>1, <1>2, <2>1, YieldInLine
<1>6. CASE Exhaust
  <2>. DEFINE p == AnsweredIn(answers) \o FlattenSeq(Chunks)
  <2>1. p \in Seq(Docs) /\ chunk \in Seq(Docs)
    BY LineTypes, ConcatProperties
  <2>2. full = <<>> /\ full' = chunk /\ chunk' = <<>> /\ actions_deque' = actions_deque
    BY <1>6 DEF Exhaust, At, deques
  <2>3. (p \o chunk) \o <<>> = (p \o <<>>) \o chunk
    <3>. HIDE DEF p
    <3>1. p \o chunk \in Seq(Docs)
      BY <2>1, ConcatProperties
    <3>. QED BY <2>1, <3>1, ConcatEmptySeq
  <2>4. p' = p
    BY <1>1, <1>2
  <2>5. Actions(actions_deque) = (p \o full) \o chunk
    BY DEF InLine
  <2>. HIDE DEF p
  <2>6. Actions(actions_deque)' = (p \o full') \o chunk'
    BY <2>2, <2>3, <2>5
  <2>. QED BY <1>2, <2>4, <2>6 DEF InLine, p
<1>. QED BY <1>3, <1>4, <1>5, <1>6

\* A chunk that is put stays in its place of the line ...
LEMMA PutInLine ==
  ASSUME ParallelTypeOK, Placed, Whole, InLine, Put
  PROVE  Placed' /\ Whole' /\ InLine'
<1>1. Placed' /\ Whole' /\ Chunks' = Append(Chunks, full)
  BY PutMoves, ChunksPut
<1>. DEFINE A == AnsweredIn(answers)
            F == FlattenSeq(Chunks)
            Fn == FlattenSeq(Append(Chunks, full))
<1>2. A \in Seq(Docs) /\ F \in Seq(Docs) /\ full \in Seq(Docs) /\ chunk \in Seq(Docs)
  BY LineTypes
<1>3. Fn = F \o full
  BY LineTypes, FlattenAppend
<1>4. full' = <<>> /\ UNCHANGED <<chunk, answers, actions_deque>>
  BY DEF Put, deques, mainVars
<1>5. Actions(actions_deque) = ((A \o F) \o full) \o chunk
  BY DEF InLine
<1>6. ((A \o F) \o full) = (A \o (F \o full)) \o <<>>
  <2>. HIDE DEF A, F
  <2>1. (A \o F) \o full = A \o (F \o full)
    BY <1>2, ConcatAssociative
  <2>2. A \o (F \o full) \in Seq(Docs)
    BY <1>2, ConcatProperties
  <2>. QED BY <2>1, <2>2, ConcatEmptySeq
<1>7. A' = A /\ FlattenSeq(Chunks)' = Fn
  BY <1>1, <1>4
<1>8. Actions(actions_deque)' = Actions(actions_deque)
  BY <1>4
<1>. HIDE DEF A, F, Fn
<1>9. Actions(actions_deque)' = ((A \o Fn) \o <<>>) \o chunk
  BY <1>3, <1>5, <1>6, <1>8
<1>. QED BY <1>1, <1>4, <1>7, <1>9 DEF InLine, A

\* ... and so does one that main takes.
LEMMA TakeInLine ==
  ASSUME ParallelTypeOK, Placed, Whole, InLine, TakeAnswers
  PROVE  Placed' /\ Whole' /\ InLine'
<1>1. /\ Placed' /\ Whole' /\ Chunks' = Tail(Chunks) /\ Chunks # <<>>
      /\ Held(taken + 1) = {Head(Chunks)}
  BY TakeAnswersMoves, ChunksTake
<1>. DEFINE h == AnsweredIn(answers')
            F == FlattenSeq(Chunks)
            Fn == FlattenSeq(Tail(Chunks))
<1>2. h = Head(Chunks)
  BY <1>1, TakeAnswersMoves
<1>3. F = h \o Fn
  BY <1>1, <1>2, LineTypes, FlattenTail
<1>4. answers = <<>> /\ UNCHANGED <<full, chunk, actions_deque>>
  BY DEF TakeAnswers, deques, feederVars
<1>5. AnsweredIn(answers) = <<>> /\ F \in Seq(Docs)
  BY <1>4, LineTypes DEF AnsweredIn
<1>6. Actions(actions_deque) = ((AnsweredIn(answers) \o F) \o full) \o chunk
  BY DEF InLine
<1>7. AnsweredIn(answers) \o F = F
  <2>. HIDE DEF F
  <2>. QED BY <1>5, ConcatEmptySeq
<1>8. FlattenSeq(Chunks)' = Fn /\ AnsweredIn(answers)' = h
  BY <1>1
<1>9. Actions(actions_deque)' = Actions(actions_deque)
  BY <1>4
<1>. HIDE DEF h, F, Fn
<1>. QED BY <1>1, <1>3, <1>4, <1>6, <1>7, <1>8, <1>9 DEF InLine

\* Main reads an answer and takes the entry at the head: both leave the line.
LEMMA ConsumeInLine ==
  ASSUME ParallelTypeOK, Placed, Whole, InLine, Consume
  PROVE  Placed' /\ Whole' /\ InLine'
<1>1. /\ UNCHANGED <<queue, put, work, done, taken, full, chunk>>
      /\ answers' = Tail(answers) /\ actions_deque' = Tail(actions_deque)
  BY DEF Consume, feederVars, poolVars
<1>2. Placed' /\ Whole' /\ Chunks' = Chunks
  BY <1>1, PoolSame
<1>3. /\ answers \in Seq(Answer) /\ answers # <<>>
      /\ actions_deque \in Seq(Tracked) /\ actions_deque # <<>>
  BY FirstInLine DEF Consume
<1>. DEFINE A == AnsweredIn(answers)
            F == FlattenSeq(Chunks)
            q == Actions(actions_deque)
<1>4. A \in Seq(Docs) /\ F \in Seq(Docs) /\ full \in Seq(Docs) /\ chunk \in Seq(Docs)
  BY LineTypes
<1>5. A # <<>> /\ AnsweredIn(Tail(answers)) = Tail(A) /\ Actions(Tail(actions_deque)) = Tail(q)
  BY <1>3, AnsweredTail, ActionsTail
<1>6. q = ((A \o F) \o full) \o chunk
  BY DEF InLine
<1>7. A' = Tail(A) /\ F' = F /\ q' = Tail(q)
  BY <1>1, <1>2, <1>5
<1>8. Tail(((A \o F) \o full) \o chunk) = ((Tail(A) \o F) \o full) \o chunk
  <2>. HIDE DEF A, F, q
  <2>1. A \o F \in Seq(Docs) /\ A \o F # <<>> /\ Tail(A \o F) = Tail(A) \o F
    BY <1>4, <1>5, HeadOfLine, ConcatProperties
  <2>2. /\ (A \o F) \o full \in Seq(Docs) /\ (A \o F) \o full # <<>>
        /\ Tail((A \o F) \o full) = Tail(A \o F) \o full
    BY <1>4, <2>1, HeadOfLine, ConcatProperties
  <2>3. Tail(((A \o F) \o full) \o chunk) = Tail((A \o F) \o full) \o chunk
    BY <1>4, <2>2, HeadOfLine
  <2>. QED BY <2>1, <2>2, <2>3
<1>. HIDE DEF A, F, q
<1>9. q' = ((A' \o F') \o full') \o chunk'
  BY <1>1, <1>6, <1>7, <1>8
<1>. QED BY <1>2, <1>9 DEF InLine, A, F, q

\* Every step keeps the chunks in place, whole and in line.
LEMMA LineNext ==
  ASSUME ParallelTypeOK, Placed, Whole, InLine, [Next]_vars
  PROVE  Placed' /\ Whole' /\ InLine'
<1>1. CASE UNCHANGED vars
  <2>1. UNCHANGED <<queue, put, work, done, taken, answers, actions_deque, full, chunk>>
    BY <1>1 DEF vars
  <2>2. Placed' /\ Whole' /\ Chunks' = Chunks
    BY <2>1, PoolSame
  <2>. QED BY <2>1, <2>2 DEF InLine
<1>2. CASE \E w \in Workers : Worker(w)
  <2>1. PICK w \in Workers : Worker(w)
    BY <1>2
  <2>2. /\ UNCHANGED <<put, taken, answers, actions_deque, full, chunk>>
        /\ Placed' /\ \A n \in 1..put : Held(n)' = Held(n)
    <3>1. CASE TakeChunk(w)
      BY <3>1, TakeChunkMoves DEF TakeChunk, deques, feederVars, mainVars
    <3>2. CASE Serve(w)
      BY <3>2, ServeMoves DEF Serve, deques, feederVars, mainVars
    <3>3. CASE FinishChunk(w)
      BY <3>3, FinishChunkMoves DEF FinishChunk, deques, feederVars, mainVars
    <3>. QED BY <2>1, <3>1, <3>2, <3>3 DEF Worker
  <2>3. Whole' /\ Chunks' = Chunks
    BY <2>2, ChunksSame
  <2>. QED BY <2>2, <2>3 DEF InLine
<1>3. CASE Finish \/ Reraise
  <2>1. UNCHANGED <<queue, put, work, done, taken, answers, actions_deque, full, chunk>>
    BY <1>3 DEF Finish, Reraise, Ends, deques, feederVars, poolVars
  <2>2. Placed' /\ Whole' /\ Chunks' = Chunks
    BY <2>1, PoolSame
  <2>. QED BY <2>1, <2>2 DEF InLine
<1>. QED
  BY <1>1, <1>2, <1>3, FeederInLine, PutInLine, TakeInLine, ConsumeInLine DEF Next, Feeder, Main
-----------------------------------------------------------------------------
(* What waits in the three queues                                          *)

\* The documents of a queue after an append ...
LEMMA DocsOfAppend ==
  ASSUME NEW s \in Seq(Tracked), NEW e \in Tracked
  PROVE  DocsOf(Append(s, e)) = DocsOf(s) \cup {e.action}
<1>1. /\ Len(Append(s, e)) = Len(s) + 1
      /\ Len(s) \in Nat
      /\ \A i \in 1..Len(s) : Append(s, e)[i] = s[i]
      /\ Append(s, e)[Len(s) + 1] = e
  BY AppendFacts
<1>2. ASSUME NEW d \in DocsOf(Append(s, e)) PROVE d \in DocsOf(s) \cup {e.action}
  <2>1. PICK i \in 1..(Len(s) + 1) : d = Append(s, e)[i].action
    BY <1>1, <1>2 DEF DocsOf
  <2>2. CASE i \in 1..Len(s)
    BY <2>1, <2>2, <1>1 DEF DocsOf
  <2>3. CASE i = Len(s) + 1
    BY <2>1, <2>3, <1>1
  <2>. QED BY <2>1, <2>2, <2>3, <1>1
<1>3. ASSUME NEW d \in DocsOf(s) PROVE d \in DocsOf(Append(s, e))
  <2>1. PICK i \in 1..Len(s) : d = s[i].action
    BY <1>3 DEF DocsOf
  <2>2. i \in 1..Len(Append(s, e)) /\ Append(s, e)[i] = s[i]
    BY <2>1, <1>1
  <2>. QED BY <2>1, <2>2 DEF DocsOf
<1>4. e.action \in DocsOf(Append(s, e))
  <2>1. Len(s) + 1 \in 1..Len(Append(s, e))
    BY <1>1
  <2>. QED BY <2>1, <1>1 DEF DocsOf
<1>. QED BY <1>2, <1>3, <1>4

\* ... and before its head was removed.
LEMMA DocsOfTail ==
  ASSUME NEW s \in Seq(Tracked), s # <<>>
  PROVE  DocsOf(s) \subseteq DocsOf(Tail(s)) \cup {Head(s).action}
<1>1. /\ Len(Tail(s)) = Len(s) - 1
      /\ Len(s) \in Nat \ {0}
      /\ \A i \in 1..(Len(s) - 1) : Tail(s)[i] = s[i + 1]
      /\ Head(s) = s[1]
  BY TailFacts
<1>2. SUFFICES ASSUME NEW i \in 1..Len(s)
               PROVE  s[i].action \in DocsOf(Tail(s)) \cup {Head(s).action}
  BY DEF DocsOf
<1>3. CASE i = 1
  BY <1>1, <1>3
<1>4. CASE i # 1
  <2>1. i - 1 \in 1..Len(Tail(s)) /\ Tail(s)[i - 1] = s[i]
    BY <1>1, <1>4
  <2>. QED BY <2>1 DEF DocsOf
<1>. QED BY <1>3, <1>4

\* An empty queue holds no document.
LEMMA DocsOfEmpty == DocsOf(<<>>) = {}
  BY DEF DocsOf

\* A document that is not in the queue may be appended to it.
LEMMA DistinctAppend ==
  ASSUME NEW s \in Seq(Tracked), NEW e \in Tracked, Distinct(s), e.action \notin DocsOf(s)
  PROVE  Distinct(Append(s, e))
<1>1. /\ Len(Append(s, e)) = Len(s) + 1
      /\ Len(s) \in Nat
      /\ \A i \in 1..Len(s) : Append(s, e)[i] = s[i]
      /\ Append(s, e)[Len(s) + 1] = e
  BY AppendFacts
<1>2. \A i \in 1..Len(s) : s[i].action # e.action
  BY DEF DocsOf
<1>3. SUFFICES ASSUME NEW i \in 1..(Len(s) + 1), NEW j \in 1..(Len(s) + 1),
                      Append(s, e)[i].action = Append(s, e)[j].action
               PROVE  i = j
  BY <1>1 DEF Distinct
<1>4. CASE i \in 1..Len(s) /\ j \in 1..Len(s)
  BY <1>1, <1>3, <1>4 DEF Distinct
<1>5. CASE i = Len(s) + 1 \/ j = Len(s) + 1
  <2>1. ASSUME NEW k \in 1..(Len(s) + 1), Append(s, e)[k].action = e.action PROVE k = Len(s) + 1
    <3>1. k \notin 1..Len(s)
      BY <1>1, <1>2, <2>1
    <3>. QED BY <3>1, <1>1
  <2>. QED BY <1>1, <1>3, <1>5, <2>1
<1>. QED BY <1>1, <1>4, <1>5

\* Taking the head of a queue without repetitions takes its document out of the queue.
LEMMA DistinctTail ==
  ASSUME NEW s \in Seq(Tracked), s # <<>>, Distinct(s)
  PROVE  /\ Distinct(Tail(s))
         /\ Head(s).action \notin DocsOf(Tail(s))
         /\ DocsOf(s) = DocsOf(Tail(s)) \cup {Head(s).action}
<1>1. /\ Len(Tail(s)) = Len(s) - 1
      /\ Len(s) \in Nat \ {0}
      /\ \A i \in 1..(Len(s) - 1) : Tail(s)[i] = s[i + 1]
      /\ Head(s) = s[1]
  BY TailFacts
<1>2. ASSUME NEW i \in 1..Len(Tail(s))
      PROVE  i + 1 \in 1..Len(s) /\ Tail(s)[i] = s[i + 1] /\ i + 1 # 1
  BY <1>1
<1>3. Distinct(Tail(s))
  <2>. SUFFICES ASSUME NEW i \in 1..Len(Tail(s)), NEW j \in 1..Len(Tail(s)),
                      Tail(s)[i].action = Tail(s)[j].action
               PROVE  i = j
    BY DEF Distinct
  <2>1. i + 1 = j + 1
    BY <1>2 DEF Distinct
  <2>. QED BY <2>1, <1>1
<1>4. Head(s).action \notin DocsOf(Tail(s))
  <2>. SUFFICES ASSUME NEW i \in 1..Len(Tail(s)), Tail(s)[i].action = s[1].action PROVE FALSE
    BY <1>1 DEF DocsOf
  <2>1. i + 1 = 1
    BY <1>1, <1>2 DEF Distinct
  <2>. QED BY <2>1, <1>2
<1>5. DocsOf(Tail(s)) \cup {Head(s).action} \subseteq DocsOf(s)
  BY <1>1, <1>2 DEF DocsOf
<1>6. DocsOf(s) \subseteq DocsOf(Tail(s)) \cup {Head(s).action}
  BY DocsOfTail
<1>. QED BY <1>3, <1>4, <1>5, <1>6

\* An empty queue has no repetitions.
LEMMA DistinctEmpty == Distinct(<<>>)
  BY DEF Distinct

\* The documents of a queue are documents.
LEMMA DocsOfDocs ==
  ASSUME NEW s \in Seq(Tracked)
  PROVE  DocsOf(s) \subseteq Docs
<1>1. ASSUME NEW i \in 1..Len(s) PROVE s[i].action \in Docs
  <2>1. s[i] \in Tracked
    OBVIOUS
  <2>. QED BY <2>1 DEF Tracked
<1>. QED BY <1>1 DEF DocsOf

\* Nothing is counted, nothing waits elsewhere.
LEMMA FlightSame ==
  ASSUME Accounting, OnceInFlight, OpenInFlight, NoneLost,
         UNCHANGED <<next, actions_deque, actions_retry_deque, retry_actions, verdict, totals>>
  PROVE  Accounting' /\ OnceInFlight' /\ OpenInFlight' /\ NoneLost'
<1>1. Accounting'
  BY DEF Accounting
<1>2. OnceInFlight'
  BY DEF OnceInFlight
<1>3. OpenInFlight'
  BY DEF OpenInFlight, AllOpen
<1>4. NoneLost'
  BY DEF NoneLost
<1>. QED BY <1>1, <1>2, <1>3, <1>4

\* The queues that the accounting adds up.
LEMMA FlightTypes ==
  ASSUME ParallelTypeOK
  PROVE  /\ Len(actions_deque) \in Nat /\ Len(actions_retry_deque) \in Nat
         /\ Len(retry_actions) \in Nat /\ next \in Nat
         /\ totals["success"] \in Nat /\ totals["duplicate"] \in Nat /\ totals["failure"] \in Nat
<1>1. totals["success"] \in Nat /\ totals["duplicate"] \in Nat /\ totals["failure"] \in Nat
  BY ParallelTypes DEF Verdicts
<1>. QED BY <1>1, ParallelTypes, LenProperties

\* An entry that goes from one queue to another keeps the account, and so does a new one.
LEMMA AccountingMoves ==
  ASSUME ParallelTypeOK, Accounting, totals' = totals,
         \/ /\ Len(actions_deque') = Len(actions_deque) + 1 /\ next' = next + 1
            /\ actions_retry_deque' = actions_retry_deque /\ retry_actions' = retry_actions
         \/ /\ Len(actions_retry_deque') = Len(actions_retry_deque) - 1
            /\ Len(retry_actions') = Len(retry_actions) + 1
            /\ actions_deque' = actions_deque /\ next' = next
         \/ /\ Len(retry_actions') = Len(retry_actions) - 1
            /\ Len(actions_deque') = Len(actions_deque) + 1
            /\ actions_retry_deque' = actions_retry_deque /\ next' = next
  PROVE  Accounting'
<1>. DEFINE t == totals["success"] + totals["duplicate"] + totals["failure"]
            a == Len(actions_deque)
            b == Len(actions_retry_deque)
            c == Len(retry_actions)
<1>1. t \in Int /\ a \in Int /\ b \in Int /\ c \in Int /\ next \in Int
  BY FlightTypes
<1>2. ((t + a) + b) + c = next - 1
  BY DEF Accounting
<1>3. \/ a' = a + 1 /\ b' = b /\ c' = c /\ next' = next + 1
      \/ a' = a /\ b' = b - 1 /\ c' = c + 1 /\ next' = next
      \/ a' = a + 1 /\ b' = b /\ c' = c - 1 /\ next' = next
  OBVIOUS
<1>4. t' = t
  OBVIOUS
<1>. HIDE DEF t, a, b, c
<1>5. ((t' + a') + b') + c' = next' - 1
  BY <1>1, <1>2, <1>3, <1>4
<1>. QED BY <1>5 DEF t, a, b, c, Accounting

\* The document pulled is new to the queues.
LEMMA YieldNewFlight ==
  ASSUME ParallelTypeOK, Accounting, OnceInFlight, OpenInFlight, NoneLost, YieldNew
  PROVE  Accounting' /\ OnceInFlight' /\ OpenInFlight' /\ NoneLost'
<1>. DEFINE e == [retry_count |-> 0, action |-> next]
<1>1. /\ actions_deque \in Seq(Tracked) /\ next \in Nat /\ next \in Docs /\ NDocs \in Nat
      /\ actions_deque' = Append(actions_deque, e) /\ next' = next + 1
      /\ UNCHANGED <<actions_retry_deque, retry_actions, verdict, totals>>
  BY ParallelTypes DEF YieldNew, Yield, mainVars, Docs
<1>2. e \in Tracked /\ e.action = next
  BY <1>1 DEF Tracked
<1>3. next \notin DocsOf(actions_deque) /\ next \notin DocsOf(actions_retry_deque)
      /\ next \notin DocsOf(retry_actions)
  BY <1>1 DEF OpenInFlight, AllOpen
<1>. HIDE DEF e
<1>4. DocsOf(actions_deque') = DocsOf(actions_deque) \cup {next}
  BY <1>1, <1>2, DocsOfAppend
<1>5. Distinct(actions_deque') /\ Len(actions_deque') = Len(actions_deque) + 1
  BY <1>1, <1>2, <1>3, DistinctAppend, AppendFacts DEF OnceInFlight
<1>6. Accounting'
  <2>1. /\ Len(actions_deque') = Len(actions_deque) + 1 /\ next' = next + 1
        /\ actions_retry_deque' = actions_retry_deque /\ retry_actions' = retry_actions
        /\ totals' = totals
    BY <1>1, <1>5
  <2>. QED BY <2>1, AccountingMoves
<1>7. OnceInFlight'
  BY <1>1, <1>3, <1>4, <1>5 DEF OnceInFlight
<1>8. OpenInFlight'
  <2>1. verdict[next] = "none"
    BY <1>1 DEF OpenInFlight
  <2>2. ASSUME NEW s \in Seq(Tracked), AllOpen(s), NEW d \in DocsOf(s)
        PROVE  d < next + 1 /\ verdict[d] = "none"
    <3>1. d \in Docs /\ d < next /\ verdict[d] = "none"
      BY <2>2, DocsOfDocs DEF AllOpen
    <3>. QED BY <1>1, <3>1 DEF Docs
  <2>3. AllOpen(actions_deque) /\ AllOpen(actions_retry_deque) /\ AllOpen(retry_actions)
    BY DEF OpenInFlight
  <2>4. \A d \in DocsOf(actions_deque') : d < next + 1 /\ verdict[d] = "none"
    BY <1>1, <1>4, <2>1, <2>2, <2>3
  <2>5. \A d \in DocsOf(actions_retry_deque) : d < next + 1 /\ verdict[d] = "none"
    BY <2>2, <2>3, ParallelTypes
  <2>6. \A d \in DocsOf(retry_actions) : d < next + 1 /\ verdict[d] = "none"
    BY <2>2, <2>3, ParallelTypes
  <2>7. \A d \in Docs : d >= next + 1 => verdict[d] = "none"
    BY <1>1 DEF OpenInFlight, Docs
  <2>. QED BY <1>1, <2>4, <2>5, <2>6, <2>7 DEF OpenInFlight, AllOpen
<1>9. NoneLost'
  <2>1. ASSUME NEW d \in Docs, d < next + 1, verdict[d] = "none"
        PROVE  d \in DocsOf(actions_deque') \cup DocsOf(actions_retry_deque) \cup DocsOf(retry_actions)
    <3>1. d < next \/ d = next
      BY <1>1, <2>1 DEF Docs
    <3>. QED BY <1>4, <2>1, <3>1 DEF NoneLost
  <2>. QED BY <1>1, <2>1 DEF NoneLost
<1>. QED BY <1>6, <1>7, <1>8, <1>9

\* The entry copied leaves one queue of retries for the other, whatever main appends later.
LEMMA DrainOneFlight ==
  ASSUME ParallelTypeOK, Accounting, OnceInFlight, OpenInFlight, NoneLost, DrainOne
  PROVE  Accounting' /\ OnceInFlight' /\ OpenInFlight' /\ NoneLost'
<1>. DEFINE e == Head(actions_retry_deque)
<1>1. /\ actions_retry_deque \in Seq(Tracked) /\ retry_actions \in Seq(Tracked)
      /\ actions_retry_deque # <<>> /\ actions_retry_deque' = Tail(actions_retry_deque)
      /\ retry_actions' = Append(retry_actions, e)
      /\ UNCHANGED <<next, actions_deque, verdict, totals>>
  BY ParallelTypes DEF DrainOne, mainVars
<1>2. e \in Tracked /\ Len(actions_retry_deque') = Len(actions_retry_deque) - 1
  BY <1>1, TailFacts
<1>3. /\ Distinct(actions_retry_deque') /\ e.action \notin DocsOf(actions_retry_deque')
      /\ DocsOf(actions_retry_deque) = DocsOf(actions_retry_deque') \cup {e.action}
  BY <1>1, DistinctTail DEF OnceInFlight
<1>. HIDE DEF e
<1>4. e.action \notin DocsOf(actions_deque) /\ e.action \notin DocsOf(retry_actions)
  BY <1>3 DEF OnceInFlight
<1>5. /\ Distinct(retry_actions') /\ Len(retry_actions') = Len(retry_actions) + 1
      /\ DocsOf(retry_actions') = DocsOf(retry_actions) \cup {e.action}
  BY <1>1, <1>2, <1>4, DistinctAppend, DocsOfAppend, AppendFacts DEF OnceInFlight
<1>6. Accounting'
  <2>1. /\ Len(actions_retry_deque') = Len(actions_retry_deque) - 1
        /\ Len(retry_actions') = Len(retry_actions) + 1
        /\ actions_deque' = actions_deque /\ next' = next
        /\ totals' = totals
    BY <1>1, <1>2, <1>5
  <2>. QED BY <2>1, AccountingMoves
<1>7. OnceInFlight'
  BY <1>1, <1>3, <1>4, <1>5 DEF OnceInFlight
<1>8. OpenInFlight'
  BY <1>1, <1>3, <1>5 DEF OpenInFlight, AllOpen
<1>9. NoneLost'
  BY <1>1, <1>3, <1>5 DEF NoneLost
<1>. QED BY <1>6, <1>7, <1>8, <1>9

\* The entry sent again leaves retry_actions for actions_deque.
LEMMA YieldRetryFlight ==
  ASSUME ParallelTypeOK, Accounting, OnceInFlight, OpenInFlight, NoneLost, YieldRetry
  PROVE  Accounting' /\ OnceInFlight' /\ OpenInFlight' /\ NoneLost'
<1>. DEFINE e == Head(retry_actions)
<1>1. /\ actions_deque \in Seq(Tracked) /\ retry_actions \in Seq(Tracked)
      /\ retry_actions # <<>> /\ retry_actions' = Tail(retry_actions)
      /\ actions_deque' = Append(actions_deque, e)
      /\ UNCHANGED <<next, actions_retry_deque, verdict, totals>>
  BY ParallelTypes DEF YieldRetry, Yield, mainVars
<1>2. e \in Tracked /\ Len(retry_actions') = Len(retry_actions) - 1
  BY <1>1, TailFacts
<1>3. /\ Distinct(retry_actions') /\ e.action \notin DocsOf(retry_actions')
      /\ DocsOf(retry_actions) = DocsOf(retry_actions') \cup {e.action}
  BY <1>1, DistinctTail DEF OnceInFlight
<1>. HIDE DEF e
<1>4. e.action \notin DocsOf(actions_deque) /\ e.action \notin DocsOf(actions_retry_deque)
  BY <1>3 DEF OnceInFlight
<1>5. /\ Distinct(actions_deque') /\ Len(actions_deque') = Len(actions_deque) + 1
      /\ DocsOf(actions_deque') = DocsOf(actions_deque) \cup {e.action}
  BY <1>1, <1>2, <1>4, DistinctAppend, DocsOfAppend, AppendFacts DEF OnceInFlight
<1>6. Accounting'
  <2>1. /\ Len(retry_actions') = Len(retry_actions) - 1
        /\ Len(actions_deque') = Len(actions_deque) + 1
        /\ actions_retry_deque' = actions_retry_deque /\ next' = next
        /\ totals' = totals
    BY <1>1, <1>2, <1>5
  <2>. QED BY <2>1, AccountingMoves
<1>7. OnceInFlight'
  BY <1>1, <1>3, <1>4, <1>5 DEF OnceInFlight
<1>8. OpenInFlight'
  BY <1>1, <1>3, <1>5 DEF OpenInFlight, AllOpen
<1>9. NoneLost'
  BY <1>1, <1>3, <1>5 DEF NoneLost
<1>. QED BY <1>6, <1>7, <1>8, <1>9
\* The entry whose answer is read leaves actions_deque, counted once or to be sent again.
LEMMA ConsumeFlight ==
  ASSUME ParallelTypeOK, InLine, Whole, Accounting, OnceInFlight, OpenInFlight, NoneLost, Consume
  PROVE  Accounting' /\ OnceInFlight' /\ OpenInFlight' /\ NoneLost'
<1>. DEFINE d == Entry.action
            v == CountedAs(Entry, Code)
            r == [Entry EXCEPT !.retry_count = @ + 1]
<1>1. /\ actions_deque \in Seq(Tracked) /\ actions_deque # <<>>
      /\ Entry \in Tracked /\ d \in Docs /\ Head(answers) \in Answer
  BY FirstInLine DEF Consume
<1>2. /\ actions_deque' = Tail(actions_deque)
      /\ next' = next /\ retry_actions' = retry_actions
      /\ verdict \in [Docs -> Verdicts \cup {"none"}] /\ totals \in [Verdicts -> Nat]
      /\ actions_retry_deque \in Seq(Tracked) /\ retry_actions \in Seq(Tracked)
      /\ next \in Nat
  BY ParallelTypes DEF Consume, feederVars
<1>3. Len(actions_deque') = Len(actions_deque) - 1
  BY <1>1, <1>2, TailFacts
<1>4. /\ Distinct(actions_deque') /\ d \notin DocsOf(actions_deque')
      /\ DocsOf(actions_deque) = DocsOf(actions_deque') \cup {d}
  BY <1>1, <1>2, DistinctTail DEF OnceInFlight, Entry
<1>5. /\ d \notin DocsOf(actions_retry_deque) /\ d \notin DocsOf(retry_actions)
      /\ d < next /\ verdict[d] = "none"
  BY <1>4 DEF OnceInFlight, OpenInFlight, AllOpen
<1>6. CASE Code = "other"
  <2>1. /\ actions_retry_deque' = Append(actions_retry_deque, r)
        /\ verdict' = verdict /\ totals' = totals
    BY <1>6 DEF Consume
  <2>2. r \in Tracked /\ r.action = d
    BY <1>1 DEF Tracked
  <2>. HIDE DEF r, d
  <2>3. /\ Distinct(actions_retry_deque')
        /\ DocsOf(actions_retry_deque') = DocsOf(actions_retry_deque) \cup {d}
        /\ Len(actions_retry_deque') = Len(actions_retry_deque) + 1
    BY <1>2, <1>5, <2>1, <2>2, DistinctAppend, DocsOfAppend, AppendFacts DEF OnceInFlight
  <2>4. Accounting'
    <3>. DEFINE t == totals["success"] + totals["duplicate"] + totals["failure"]
                a == Len(actions_deque)
                b == Len(actions_retry_deque)
                c == Len(retry_actions)
    <3>1. t \in Int /\ a \in Int /\ b \in Int /\ c \in Int /\ ((t + a) + b) + c = next - 1
      BY FlightTypes DEF Accounting
    <3>2. t' = t /\ a' = a - 1 /\ b' = b + 1 /\ c' = c
      BY <1>2, <1>3, <2>1, <2>3
    <3>. HIDE DEF t, a, b, c
    <3>3. ((t' + a') + b') + c' = next' - 1
      BY <1>2, <3>1, <3>2
    <3>. QED BY <3>3 DEF t, a, b, c, Accounting
  <2>5. OnceInFlight'
    BY <1>2, <1>4, <1>5, <2>3 DEF OnceInFlight
  <2>6. OpenInFlight'
    BY <1>2, <1>4, <1>5, <2>1, <2>3 DEF OpenInFlight, AllOpen
  <2>7. NoneLost'
    BY <1>2, <1>4, <2>1, <2>3 DEF NoneLost
  <2>. QED BY <2>4, <2>5, <2>6, <2>7
<1>7. CASE Code # "other"
  <2>1. /\ totals' = [totals EXCEPT ![v] = @ + 1] /\ verdict' = [verdict EXCEPT ![d] = v]
        /\ actions_retry_deque' = actions_retry_deque
    BY <1>7 DEF Consume
  <2>2. v \in Verdicts /\ v # "none"
    BY <1>1, <1>7 DEF CountedAs, Code, Answer, Verdicts
  <2>. HIDE DEF v, d
  <2>3. verdict'[d] = v /\ \A e \in Docs : e # d => verdict'[e] = verdict[e]
    BY <1>1, <1>2, <2>1
  <2>4. Accounting'
    <3>. DEFINE t == totals["success"] + totals["duplicate"] + totals["failure"]
                a == Len(actions_deque)
                b == Len(actions_retry_deque)
                c == Len(retry_actions)
    <3>1. t \in Int /\ a \in Int /\ b \in Int /\ c \in Int /\ ((t + a) + b) + c = next - 1
      BY FlightTypes DEF Accounting
    <3>2. t' = t + 1
      BY <1>2, <2>1, <2>2 DEF Verdicts
    <3>3. a' = a - 1 /\ b' = b /\ c' = c
      BY <1>2, <1>3, <2>1
    <3>. HIDE DEF t, a, b, c
    <3>4. ((t' + a') + b') + c' = next' - 1
      BY <1>2, <3>1, <3>2, <3>3
    <3>. QED BY <3>4 DEF t, a, b, c, Accounting
  <2>5. OnceInFlight'
    BY <1>2, <1>4, <2>1 DEF OnceInFlight
  <2>6. OpenInFlight'
    <3>1. ASSUME NEW s \in Seq(Tracked), AllOpen(s), d \notin DocsOf(s), NEW e \in DocsOf(s)
          PROVE  e < next /\ verdict'[e] = "none"
      <4>1. e \in Docs /\ e # d /\ e < next /\ verdict[e] = "none"
        BY <3>1, DocsOfDocs DEF AllOpen
      <4>. QED BY <2>3, <4>1
    <3>2. \A e \in DocsOf(actions_deque') : e < next /\ verdict'[e] = "none"
      <4>1. ASSUME NEW e \in DocsOf(actions_deque') PROVE e < next /\ verdict'[e] = "none"
        <5>1. e \in DocsOf(actions_deque) /\ e # d /\ e \in Docs
          BY <1>1, <1>4, DocsOfDocs
        <5>. QED BY <2>3, <5>1 DEF OpenInFlight, AllOpen
      <4>. QED BY <4>1
    <3>3. \A e \in DocsOf(actions_retry_deque) : e < next /\ verdict'[e] = "none"
      BY <1>2, <1>5, <3>1 DEF OpenInFlight
    <3>4. \A e \in DocsOf(retry_actions) : e < next /\ verdict'[e] = "none"
      BY <1>2, <1>5, <3>1 DEF OpenInFlight
    <3>5. \A e \in Docs : e >= next => verdict'[e] = "none"
      <4>1. ASSUME NEW e \in Docs, e >= next PROVE e # d
        BY <1>1, <1>2, <1>5, <4>1 DEF Docs
      <4>. QED BY <2>3, <4>1 DEF OpenInFlight
    <3>. QED BY <1>2, <2>1, <3>2, <3>3, <3>4, <3>5 DEF OpenInFlight, AllOpen
  <2>7. NoneLost'
    <3>1. ASSUME NEW e \in Docs, e < next, verdict'[e] = "none"
          PROVE  e \in DocsOf(actions_deque') \cup DocsOf(actions_retry_deque) \cup DocsOf(retry_actions)
      <4>1. e # d /\ verdict[e] = "none"
        BY <2>2, <2>3, <3>1
      <4>. QED BY <1>4, <3>1, <4>1 DEF NoneLost
    <3>. QED BY <1>2, <2>1, <3>1 DEF NoneLost
  <2>. QED BY <2>4, <2>5, <2>6, <2>7
<1>. QED BY <1>6, <1>7

\* Every step keeps the account, and each document in one place of one queue.
LEMMA FlightNext ==
  ASSUME ParallelTypeOK, InLine, Whole, Accounting, OnceInFlight, OpenInFlight, NoneLost, [Next]_vars
  PROVE  Accounting' /\ OnceInFlight' /\ OpenInFlight' /\ NoneLost'
<1>1. CASE YieldNew
  BY <1>1, YieldNewFlight
<1>2. CASE DrainOne
  BY <1>2, DrainOneFlight
<1>3. CASE YieldRetry
  BY <1>3, YieldRetryFlight
<1>4. CASE Consume
  BY <1>4, ConsumeFlight
<1>5. CASE Check \/ Drained \/ AllResent \/ Exhaust \/ SourceFails \/ Put
  BY <1>5, FlightSame DEF Check, Drained, AllResent, Exhaust, SourceFails, Put, deques, mainVars
<1>6. CASE \E w \in Workers : Worker(w)
  BY <1>6, FlightSame
  DEF Worker, TakeChunk, Serve, FinishChunk, deques, feederVars, mainVars
<1>7. CASE TakeAnswers \/ Finish \/ Reraise \/ UNCHANGED vars
  BY <1>7, FlightSame DEF TakeAnswers, Finish, Reraise, Ends, deques, feederVars, vars
<1>. QED
  BY <1>1, <1>2, <1>3, <1>4, <1>5, <1>6, <1>7 DEF Next, Feeder, Main
-----------------------------------------------------------------------------
(* What the answers say of the index, and where the feeder and main are     *)

\* A worker's request leaves the index as it is or writes its document.
LEMMA ServeWrites ==
  ASSUME ParallelTypeOK, NEW w \in Workers, Serve(w)
  PROVE  /\ work[w].docs \in Seq(Docs) /\ work[w].docs # <<>> /\ Head(work[w].docs) \in Docs
         /\ work[w].answers \in Seq(Answer)
         /\ creator' = creator \/ (Absent(Head(work[w].docs)) /\ Stores(Head(work[w].docs)))
<1>1. /\ work[w].docs \in Seq(Docs) /\ work[w].docs # <<>> /\ work[w].answers \in Seq(Answer)
  BY PoolTypes DEF Serve
<1>2. Head(work[w].docs) \in Docs
  BY <1>1, TailFacts
<1>3. creator' = creator \/ (Absent(Head(work[w].docs)) /\ Stores(Head(work[w].docs)))
  BY DEF Serve, Answers
<1>. QED BY <1>1, <1>2, <1>3

\* What has been written stays.
LEMMA WrittenStays ==
  ASSUME ParallelTypeOK, [Next]_vars
  PROVE  \A i \in Ids : creator[i] # Nobody => creator'[i] # Nobody
<1>1. CASE \E w \in Workers : Serve(w)
  <2>1. PICK w \in Workers : Serve(w)
    BY <1>1
  <2>. DEFINE d == Head(work[w].docs)
  <2>2. d \in Docs /\ (creator' = creator \/ creator' = [creator EXCEPT ![IdOf[d]] = d])
    BY <2>1, ServeWrites DEF Stores
  <2>3. d # Nobody /\ creator \in [Ids -> 0..(NDocs + 1)]
    BY <2>2 DEF Docs, Nobody, ParallelTypeOK
  <2>. HIDE DEF d
  <2>. QED BY <2>2, <2>3
<1>2. CASE ~(\E w \in Workers : Serve(w))
  <2>1. creator' = creator
    BY <1>2
    DEF Next, Feeder, Worker, Main, YieldNew, Check, DrainOne, Drained, YieldRetry, AllResent,
        Exhaust, SourceFails, Put, TakeChunk, FinishChunk, TakeAnswers, Consume, Finish, Reraise,
        Ends, serverVars, vars
  <2>. QED BY <2>1
<1>. QED BY <1>1, <1>2

\* An answer that was true stays true.
LEMMA TrueStays ==
  ASSUME ParallelTypeOK, [Next]_vars, NEW s \in Seq(Answer), TrueAnswers(s)
  PROVE  TrueAnswers(s)'
<1>1. ASSUME NEW i \in 1..Len(s), s[i].code \in {"ok", "409"}
      PROVE  creator'[IdOf[s[i].doc]] # Nobody
  <2>1. s[i] \in Answer
    OBVIOUS
  <2>2. s[i].doc \in Docs
    BY <2>1 DEF Answer
  <2>3. IdOf[s[i].doc] \in Ids
    BY <2>2, ParallelAssumption DEF Docs
  <2>. QED BY <1>1, <2>3, WrittenStays DEF TrueAnswers
<1>. QED BY <1>1 DEF TrueAnswers

\* What a worker adds to its answers is true when it is added.
LEMMA ServeIsTrue ==
  ASSUME ParallelTypeOK, [Next]_vars, NEW w \in Workers, Serve(w), TrueAnswers(work[w].answers)
  PROVE  TrueAnswers(work[w].answers)'
<1>. DEFINE d == Head(work[w].docs)
            s == work[w].answers
            c == creator'
<1>1. PICK code \in {"ok", "409", "400", "other"} :
        /\ Answers(d, code)
        /\ work' = [work EXCEPT ![w].docs = Tail(@), ![w].answers = Append(@, [doc |-> d, code |-> code])]
  BY DEF Serve
<1>. DEFINE a == [doc |-> d, code |-> code]
<1>2. d \in Docs /\ s \in Seq(Answer)
  BY ServeWrites
<1>3. a \in Answer
  BY <1>2 DEF Answer
<1>4. work'[w].answers = Append(s, a)
  BY <1>1, PoolTypes
<1>5. code \in {"ok", "409"} => creator'[IdOf[d]] # Nobody
  <2>1. IdOf[d] \in Ids /\ creator \in [Ids -> 0..(NDocs + 1)] /\ d # Nobody
    BY <1>2, ParallelAssumption DEF Docs, Nobody, ParallelTypeOK
  <2>. HIDE DEF d
  <2>. QED BY <1>1, <2>1 DEF Answers, Absent, Stores
<1>6. \A i \in 1..Len(s) : s[i].code \in {"ok", "409"} => c[IdOf[s[i].doc]] # Nobody
  <2>1. ASSUME NEW t \in Seq(Answer), TrueAnswers(t) PROVE TrueAnswers(t)'
    BY <2>1, TrueStays
  <2>2. ASSUME NEW t, t = s
        PROVE  \A i \in 1..Len(t) : t[i].code \in {"ok", "409"} => c[IdOf[t[i].doc]] # Nobody
    <3>1. t \in Seq(Answer) /\ TrueAnswers(t)
      BY <1>2, <2>2
    <3>2. TrueAnswers(t)'
      BY <2>1, <3>1
    <3>. QED BY <3>2 DEF TrueAnswers
  <2>. QED BY <2>2
<1>. DEFINE sn == Append(s, a)
<1>7. /\ Len(sn) = Len(s) + 1 /\ Len(s) \in Nat
      /\ \A i \in 1..Len(s) : sn[i] = s[i]
      /\ sn[Len(s) + 1] = a
  <2>. HIDE DEF s, a
  <2>. QED BY <1>2, <1>3, AppendFacts
<1>8. ASSUME NEW i \in 1..Len(sn), sn[i].code \in {"ok", "409"} PROVE c[IdOf[sn[i].doc]] # Nobody
  <2>1. CASE i \in 1..Len(s)
    <3>. HIDE DEF s, sn, a, c
    <3>. QED BY <1>6, <1>7, <1>8, <2>1
  <2>2. CASE i = Len(s) + 1
    <3>1. sn[i] = a
      BY <1>7, <2>2
    <3>2. a.code = code /\ a.doc = d
      OBVIOUS
    <3>. HIDE DEF sn, a, d
    <3>. QED BY <1>5, <1>8, <3>1, <3>2
  <2>3. i \in 1..Len(s) \/ i = Len(s) + 1
    <3>. HIDE DEF s, sn
    <3>. QED BY <1>7
  <2>. QED BY <2>1, <2>2, <2>3
<1>. HIDE DEF s, a, d
<1>9. work'[w].answers = sn
  BY <1>4
<1>. QED BY <1>8, <1>9 DEF TrueAnswers

\* Every answer on its way to main is true.
LEMMA TrueNext ==
  ASSUME ParallelTypeOK, InLine, Whole, AnswersAreTrue, [Next]_vars
  PROVE  AnswersAreTrue'
<1>1. /\ \A w \in Workers : work[w].answers \in Seq(Answer)
      /\ \A r \in done : r.answers \in Seq(Answer)
      /\ answers \in Seq(Answer)
  <2>1. ASSUME NEW r \in done PROVE r.answers \in Seq(Answer)
    <3>1. r \in [n : 1..put, answers : Seq(Answer)]
      BY PoolTypes
    <3>. QED BY <3>1
  <2>2. ASSUME NEW w \in Workers PROVE work[w].answers \in Seq(Answer)
    <3>1. work[w] \in [n : 0..put, docs : Seq(Docs), answers : Seq(Answer)]
      BY PoolTypes
    <3>. QED BY <3>1
  <2>. QED BY <2>1, <2>2, ParallelTypes
<1>2. ASSUME NEW s \in Seq(Answer), TrueAnswers(s) PROVE TrueAnswers(s)'
  BY <1>2, TrueStays
<1>3. ASSUME answers' = answers PROVE TrueAnswers(answers)'
  BY <1>1, <1>2, <1>3 DEF AnswersAreTrue, TrueAnswers
<1>4. ASSUME done' = done PROVE \A r \in done' : TrueAnswers(r.answers)'
  BY <1>1, <1>2, <1>4 DEF AnswersAreTrue
<1>5. ASSUME NEW v \in Workers, work'[v] = work[v] PROVE TrueAnswers(work[v].answers)'
  BY <1>1, <1>2, <1>5 DEF AnswersAreTrue, TrueAnswers
<1>6. CASE \E w \in Workers : TakeChunk(w) \/ FinishChunk(w)
  <2>1. PICK w \in Workers : TakeChunk(w) \/ FinishChunk(w)
    BY <1>6
  <2>2. answers' = answers /\ \A v \in Workers : v # w => work'[v] = work[v]
    BY <2>1, PoolTypes DEF TakeChunk, FinishChunk, mainVars
  <2>3. work'[w].answers = <<>>
    BY <2>1, PoolTypes DEF TakeChunk, FinishChunk, Idle
  <2>4. TrueAnswers(work[w].answers)'
    BY <2>3 DEF TrueAnswers
  <2>5. \A r \in done' : r \in done \/ r.answers = work[w].answers
    BY <2>1 DEF TakeChunk, FinishChunk
  <2>6. \A r \in done' : TrueAnswers(r.answers)'
    BY <1>1, <1>2, <2>5 DEF AnswersAreTrue
  <2>7. \A v \in Workers : TrueAnswers(work[v].answers)'
    BY <1>5, <2>2, <2>4
  <2>. QED BY <1>3, <2>2, <2>6, <2>7 DEF AnswersAreTrue
<1>7. CASE \E w \in Workers : Serve(w)
  <2>1. PICK w \in Workers : Serve(w)
    BY <1>7
  <2>2. answers' = answers /\ done' = done
    BY <2>1 DEF Serve, mainVars
  <2>3. TrueAnswers(work[w].answers)'
    BY <2>1, ServeIsTrue DEF AnswersAreTrue
  <2>4. ASSUME NEW v \in Workers, v # w PROVE work'[v] = work[v]
    BY <2>1, <2>4, PoolTypes DEF Serve
  <2>5. \A v \in Workers : TrueAnswers(work[v].answers)'
    BY <1>5, <2>3, <2>4
  <2>. QED BY <1>3, <1>4, <2>2, <2>5 DEF AnswersAreTrue
<1>8. CASE TakeAnswers
  <2>1. PICK r \in done : answers' = r.answers /\ done' = done \ {r} /\ work' = work
    BY <1>8 DEF TakeAnswers
  <2>2. ASSUME NEW s, s = r.answers PROVE TrueAnswers(s)'
    BY <1>1, <1>2, <2>2 DEF AnswersAreTrue
  <2>3. TrueAnswers(answers)'
    BY <2>1, <2>2 DEF TrueAnswers
  <2>4. \A q \in done' : TrueAnswers(q.answers)'
    BY <1>1, <1>2, <2>1 DEF AnswersAreTrue
  <2>5. \A v \in Workers : TrueAnswers(work[v].answers)'
    BY <1>5, <2>1
  <2>. QED BY <2>3, <2>4, <2>5 DEF AnswersAreTrue
<1>9. CASE Consume
  <2>1. /\ answers' = Tail(answers) /\ answers # <<>> /\ work' = work /\ done' = done
    BY <1>9 DEF Consume, Reading, poolVars
  <2>. DEFINE t == Tail(answers)
  <2>2. t \in Seq(Answer) /\ Len(answers) \in Nat \ {0} /\ Len(t) = Len(answers) - 1
        /\ \A i \in 1..(Len(answers) - 1) : t[i] = answers[i + 1]
    BY <1>1, <2>1, TailFacts
  <2>3. TrueAnswers(t)
    <3>1. ASSUME NEW i \in 1..Len(t) PROVE i + 1 \in 1..Len(answers) /\ t[i] = answers[i + 1]
      <4>. HIDE DEF t
      <4>. QED BY <2>2
    <3>. HIDE DEF t
    <3>. QED BY <3>1 DEF AnswersAreTrue, TrueAnswers
  <2>4. ASSUME NEW s, s = t PROVE TrueAnswers(s)'
    <3>. HIDE DEF t
    <3>. QED BY <1>2, <2>2, <2>3, <2>4
  <2>5. TrueAnswers(answers)'
    <3>1. answers' = t
      BY <2>1
    <3>. HIDE DEF t
    <3>. QED BY <2>4, <3>1 DEF TrueAnswers
  <2>6. \A v \in Workers : TrueAnswers(work[v].answers)'
    BY <1>5, <2>1
  <2>. QED BY <1>4, <2>1, <2>5, <2>6 DEF AnswersAreTrue
<1>10. CASE UNCHANGED <<answers, work, done>>
  <2>1. \A v \in Workers : TrueAnswers(work[v].answers)'
    BY <1>5, <1>10
  <2>. QED BY <1>3, <1>4, <1>10, <2>1 DEF AnswersAreTrue
<1>11. \/ UNCHANGED <<answers, work, done>> \/ TakeAnswers \/ Consume
       \/ \E w \in Workers : TakeChunk(w) \/ Serve(w) \/ FinishChunk(w)
  BY DEF Next, Feeder, Worker, Main, YieldNew, Check, DrainOne, Drained, YieldRetry, AllResent,
         Exhaust, SourceFails, Put, Finish, Reraise, Ends, mainVars, poolVars, vars
<1>. QED BY <1>6, <1>7, <1>8, <1>9, <1>10, <1>11

\* Every step keeps what is known of the feeder and of main.
LEMMA StagesNext ==
  ASSUME ParallelTypeOK, Stages, [Next]_vars
  PROVE  Stages'
<1>1. CASE YieldNew \/ Check \/ DrainOne \/ Drained \/ YieldRetry \/ AllResent \/ Exhaust \/ SourceFails
  <2>1. status = "running" /\ status' = "running" /\ feeder # "ended"
    BY <1>1 DEF YieldNew, Check, DrainOne, Drained, YieldRetry, AllResent, Exhaust, SourceFails,
                At, mainVars
  <2>2. retry_actions' # <<>> => feeder' \in {"drain", "resend"}
    BY <1>1 DEF YieldNew, Check, DrainOne, Drained, YieldRetry, AllResent, Exhaust, SourceFails,
                At, Goto, Stages
  <2>3. feeder' = "ended" => next' = NDocs + 1 /\ chunk' = <<>>
    BY <1>1, <2>1 DEF YieldNew, Check, DrainOne, Drained, YieldRetry, AllResent, Exhaust,
                      SourceFails, At, Goto
  <2>. QED BY <2>1, <2>2, <2>3 DEF Stages
<1>2. CASE Put \/ \E w \in Workers : Worker(w)
  BY <1>2 DEF Put, Worker, TakeChunk, Serve, FinishChunk, Stages, feederVars, mainVars
<1>3. CASE TakeAnswers \/ Consume
  BY <1>3 DEF TakeAnswers, Consume, Reading, Stages, feederVars
<1>4. CASE Finish \/ Reraise
  BY <1>4 DEF Finish, Reraise, Over, Ends, Stages, feederVars, poolVars
<1>5. CASE UNCHANGED vars
  BY <1>5 DEF vars, Stages
<1>. QED BY <1>1, <1>2, <1>3, <1>4, <1>5 DEF Next, Feeder, Main
-----------------------------------------------------------------------------
(* The invariant                                                           *)

\* At the start nothing is buffered, put, taken or counted.
LEMMA InitParallel == Init => ParallelIInv
<1>. SUFFICES ASSUME Init PROVE ParallelIInv
  OBVIOUS
<1>1. ParallelTypeOK
  <2>1. \A S : <<>> \in Seq(S) /\ Len(<<>>) = 0
    OBVIOUS
  <2>2. creator \in [Ids -> 0..(NDocs + 1)] /\ 1 \in 1..(NDocs + 1) /\ 0 \in 0..MaxFaults
    BY ParallelAssumption DEF Init, Nobody, Before
  <2>3. work \in [Workers -> [n : 0..put, docs : Seq(Docs), answers : Seq(Answer)]]
    <3>1. Idle \in [n : 0..put, docs : Seq(Docs), answers : Seq(Answer)]
      BY <2>1 DEF Init, Idle
    <3>. QED BY <3>1 DEF Init
  <2>4. totals \in [Verdicts -> Nat] /\ verdict \in [Docs -> Verdicts \cup {"none"}]
    BY DEF Init
  <2>. QED
    BY <2>1, <2>2, <2>3, <2>4, ParallelAssumption DEF Init, ParallelTypeOK, Places
<1>2. Placed
  BY DEF Init, Placed, Idle
<1>3. Whole
  BY DEF Init, Whole
<1>4. InLine
  <2>1. Chunks = <<>>
    BY DEF Init, Chunks
  <2>2. FlattenSeq(Chunks) = <<>>
    BY <2>1 DEF FlattenSeq
  <2>3. AnsweredIn(answers) = <<>> /\ Actions(actions_deque) = <<>>
    BY DEF Init, AnsweredIn, Actions
  <2>. QED BY <2>2, <2>3 DEF Init, InLine
<1>5. Accounting
  BY DEF Init, Accounting, Verdicts
<1>6. OnceInFlight
  BY DistinctEmpty, DocsOfEmpty DEF Init, OnceInFlight
<1>7. OpenInFlight
  BY DocsOfEmpty DEF Init, OpenInFlight, AllOpen
<1>8. NoneLost
  BY DEF Init, NoneLost, Docs
<1>9. AnswersAreTrue
  BY DEF Init, AnswersAreTrue, TrueAnswers, Idle
<1>10. Stages
  BY DEF Init, Stages
<1>. QED
  BY <1>1, <1>2, <1>3, <1>4, <1>5, <1>6, <1>7, <1>8, <1>9, <1>10 DEF ParallelIInv

\* Every step of every thread keeps the invariant.
LEMMA NextParallel == ParallelIInv /\ [Next]_vars => ParallelIInv'
<1>. SUFFICES ASSUME ParallelIInv, [Next]_vars PROVE ParallelIInv'
  OBVIOUS
<1>1. /\ ParallelTypeOK /\ Placed /\ Whole /\ InLine /\ Accounting
      /\ OnceInFlight /\ OpenInFlight /\ NoneLost /\ AnswersAreTrue /\ Stages
  BY DEF ParallelIInv
<1>2. ParallelTypeOK'
  BY <1>1, TypeNext
<1>3. Placed' /\ Whole' /\ InLine'
  BY <1>1, LineNext
<1>4. Accounting' /\ OnceInFlight' /\ OpenInFlight' /\ NoneLost'
  BY <1>1, FlightNext
<1>5. AnswersAreTrue'
  BY <1>1, TrueNext
<1>6. Stages'
  BY <1>1, StagesNext
<1>. QED BY <1>2, <1>3, <1>4, <1>5, <1>6 DEF ParallelIInv

\* The invariant says what the runs check.
LEMMA ParallelInvHolds == ParallelIInv => ParallelInv
<1>. SUFFICES ASSUME ParallelIInv PROVE ParallelInv
  OBVIOUS
<1>1. ParallelTypeOK /\ Whole /\ InLine /\ Accounting
  BY DEF ParallelIInv
<1>2. ASSUME NEW n \in (taken + 1)..put PROVE Cardinality(Held(n)) = 1
  <2>1. PICK docs \in Seq(Docs) : Held(n) = {docs}
    BY <1>1 DEF Whole
  <2>. QED BY <2>1, FS_Singleton
<1>3. [i \in 1..Len(actions_deque) |-> actions_deque[i].action] =
        AnsweredIn(answers)
        \o FlattenSeq([i \in 1..(put - taken) |-> CHOOSE docs \in Held(taken + i) : TRUE])
        \o full \o chunk
  BY <1>1 DEF InLine, Actions, Chunks, Chunk
<1>. QED BY <1>1, <1>2, <1>3 DEF ParallelInv, Pipeline

\* With any number of threads, between any two of their steps, a chunk is in exactly one
\* place and actions_deque lists the actions in the order in which main will read their
\* answers: what main pops is the action the answer is for, and no document is lost.
THEOREM LineIsKept == Spec => []ParallelInv
<1>1. Init => ParallelIInv
  BY InitParallel
<1>2. ParallelIInv /\ [Next]_vars => ParallelIInv'
  BY NextParallel
<1>3. ParallelIInv => ParallelInv
  BY ParallelInvHolds
<1>. QED BY <1>1, <1>2, <1>3, PTL DEF Spec

\* The stronger invariant, which the refinement needs.
LEMMA AlwaysParallel == Spec => []ParallelIInv
BY InitParallel, NextParallel, PTL DEF Spec
-----------------------------------------------------------------------------
(* The parallel mode implements the ledger                                 *)

\* What the substitutions of Ledger give for ledger and stored.
LedgerView == [d \in Docs |-> IF d >= next THEN "unseen"
                              ELSE IF verdict[d] = "none" THEN "open" ELSE verdict[d]]
StoredView == {i \in Ids : creator[i] # Nobody}

(* The steps of the ledger, in terms of the two views.                     *)

\* The first unseen document is taken.
LEMMA LedgerTake ==
  ASSUME NEW d \in Docs, status = "running", status' = "running",
         LedgerView[d] = "unseen", \A e \in 1..(d - 1) : LedgerView[e] # "unseen",
         LedgerView' = [LedgerView EXCEPT ![d] = "open"],
         UNCHANGED <<StoredView, totals>>
  PROVE  Ledger!LedgerNext
  BY DEF Ledger!LedgerNext, Ledger!Take, Ledger!Docs, Docs, LedgerView, StoredView

\* A document that is open is written to the index.
LEMMA LedgerStore ==
  ASSUME NEW d \in Docs, status = "running", status' = "running",
         LedgerView[d] = "open", StoredView' = StoredView \cup {IdOf[d]},
         UNCHANGED <<LedgerView, totals>>
  PROVE  Ledger!LedgerNext
  BY DEF Ledger!LedgerNext, Ledger!Store, Ledger!Docs, Docs, LedgerView, StoredView

\* An open document gets its verdict; unless it failed, its id is in the index.
LEMMA LedgerSettle ==
  ASSUME NEW d \in Docs, NEW v \in Verdicts, status = "running", status' = "running",
         LedgerView[d] = "open", v # "failure" => IdOf[d] \in StoredView,
         LedgerView' = [LedgerView EXCEPT ![d] = v],
         totals' = [totals EXCEPT ![v] = @ + 1],
         UNCHANGED StoredView
  PROVE  Ledger!LedgerNext
  BY DEF Ledger!LedgerNext, Ledger!Settle, Ledger!Docs, Ledger!Verdicts, Verdicts, Docs,
         LedgerView, StoredView

\* The call returns when every document has a verdict.
LEMMA LedgerReturn ==
  ASSUME status = "running", status' = "returned",
         \A d \in Docs : LedgerView[d] \in Verdicts,
         UNCHANGED <<LedgerView, StoredView, totals>>
  PROVE  Ledger!LedgerNext
  BY DEF Ledger!LedgerNext, Ledger!Return, Ledger!Docs, Ledger!Verdicts, Verdicts, Docs,
         LedgerView, StoredView

\* The call may fail whatever is open.
LEMMA LedgerFail ==
  ASSUME status = "running", status' \in {"raised", "assertion"},
         UNCHANGED <<LedgerView, StoredView, totals>>
  PROVE  Ledger!LedgerNext
  BY DEF Ledger!LedgerNext, Ledger!Fail, LedgerView, StoredView

\* A step that changes neither view is none of the ledger.
LEMMA LedgerStutters ==
  ASSUME UNCHANGED <<LedgerView, StoredView, totals, status>>
  PROVE  UNCHANGED Ledger!ledgerVars
  BY DEF Ledger!ledgerVars, LedgerView, StoredView

\* Every initial state of the module is one of the ledger's.
LEMMA InitLedger == Init => Ledger!LedgerInit
<1>. SUFFICES ASSUME Init PROVE Ledger!LedgerInit
  OBVIOUS
<1>1. \A d \in Docs : LedgerView[d] = "unseen"
  BY ParallelAssumption DEF Init, LedgerView, Docs
<1>2. LedgerView = [d \in Docs |-> "unseen"]
  BY <1>1 DEF LedgerView
<1>3. StoredView \in SUBSET Ids
  BY DEF StoredView
<1>. QED BY <1>2, <1>3 DEF Init, Ledger!LedgerInit, Ledger!Docs, Ledger!Verdicts, Verdicts, Docs,
                   LedgerView, StoredView

\* q consists of four parts, in this order.
InParts(q, s, t, u, v) == q = ((s \o t) \o u) \o v

\* An entry of a part of the line is an entry of the line.
LEMMA EntryOfLine ==
  ASSUME NEW s \in Seq(Docs), NEW t \in Seq(Docs), NEW u \in Seq(Docs), NEW v \in Seq(Docs),
         NEW q, InParts(q, s, t, u, v), NEW m \in 1..Len(t)
  PROVE  \E i \in 1..Len(q) : q[i] = t[m]
<1>1. /\ Len(s) \in Nat /\ Len(t) \in Nat /\ Len(u) \in Nat /\ Len(v) \in Nat
      /\ s \o t \in Seq(Docs) /\ Len(s \o t) = Len(s) + Len(t)
      /\ (s \o t)[Len(s) + m] = t[m]
  OBVIOUS
<1>. DEFINE a == s \o t
            i == Len(s) + m
<1>2. i \in 1..Len(a) /\ a[i] = t[m] /\ a \in Seq(Docs) /\ Len(a) \in Nat
  BY <1>1
<1>. HIDE DEF a, i
<1>. DEFINE b == a \o u
<1>3. i \in 1..Len(b) /\ b[i] = t[m] /\ b \in Seq(Docs) /\ Len(b) \in Nat
  BY <1>1, <1>2
<1>. HIDE DEF b
<1>4. i \in 1..Len(b \o v) /\ (b \o v)[i] = t[m]
  BY <1>1, <1>3
<1>. QED BY <1>4 DEF InParts, a, b

\* A document that a worker is about to send is still in actions_deque, and open.
LEMMA ServedIsOpen ==
  ASSUME ParallelIInv, NEW w \in Workers, Serve(w)
  PROVE  /\ status = "running" /\ Head(work[w].docs) \in Docs
         /\ Head(work[w].docs) < next /\ verdict[Head(work[w].docs)] = "none"
<1>. DEFINE d == Head(work[w].docs)
            s == AnsweredIn(work[w].answers)
            t == work[w].docs
            n == work[w].n
<1>1. ParallelTypeOK /\ Placed /\ Whole /\ InLine /\ OpenInFlight /\ Stages
  BY DEF ParallelIInv
<1>2. t \in Seq(Docs) /\ t # <<>> /\ d \in Docs /\ s \in Seq(Docs)
  BY <1>1, ServeWrites, AnsweredType
<1>3. n # 0
  <2>1. Idle.docs = <<>>
    BY DEF Idle
  <2>. QED BY <1>1, <1>2, <2>1 DEF Placed
<1>4. /\ n \in (taken + 1)..put /\ put \in Nat /\ taken \in 0..put
  <2>1. n \in (taken + 1)..(put - Len(queue))
    BY <1>1, <1>3 DEF Placed
  <2>. QED BY <1>1, <2>1, PoolTypes
<1>5. status = "running"
  BY <1>1, <1>4 DEF Stages
<1>6. Chunk(n) = s \o t
  <2>1. s \o t \in Held(n)
    BY DEF Held
  <2>2. Held(n) = {Chunk(n)}
    BY <1>1, <1>4, ChunksType
  <2>. QED BY <2>1, <2>2
<1>7. \E j \in 1..Len(Chunk(n)) : Chunk(n)[j] = d
  <2>. HIDE DEF s, n
  <2>1. Len(s) + 1 \in 1..Len(s \o t) /\ (s \o t)[Len(s) + 1] = d
    BY <1>2
  <2>. QED BY <1>6, <2>1
<1>8. /\ Chunks \in Seq(Seq(Docs)) /\ Len(Chunks) = put - taken
  BY <1>1, ChunksType
<1>9. n - taken \in 1..Len(Chunks) /\ Chunks[n - taken] = Chunk(n)
  <2>1. n - taken \in 1..(put - taken) /\ taken + (n - taken) = n
    BY <1>4
  <2>2. Chunks[n - taken] = Chunk(taken + (n - taken))
    BY <2>1 DEF Chunks
  <2>. QED BY <1>8, <2>1, <2>2
<1>. DEFINE F == FlattenSeq(Chunks)
            A == AnsweredIn(answers)
            q == Actions(actions_deque)
<1>10. PICK m \in 1..Len(F) : F[m] = d
  <2>1. PICK j \in 1..Len(Chunk(n)) : Chunk(n)[j] = d
    BY <1>7
  <2>. DEFINE i == n - taken
  <2>2. i \in 1..Len(Chunks) /\ j \in 1..Len(Chunks[i]) /\ Chunks[i][j] = d
    BY <1>9, <2>1
  <2>. HIDE DEF i, d, n
  <2>. QED BY <1>8, <2>2, FlattenMember
<1>11. A \in Seq(Docs) /\ F \in Seq(Docs) /\ full \in Seq(Docs) /\ chunk \in Seq(Docs)
  BY <1>1, LineTypes
<1>12. q = ((A \o F) \o full) \o chunk
  BY <1>1 DEF InLine
<1>13. \E i \in 1..Len(q) : q[i] = d
  <2>. HIDE DEF A, F, q, d
  <2>1. InParts(q, A, F, full, chunk)
    BY <1>12 DEF InParts
  <2>2. \E i \in 1..Len(q) : q[i] = F[m]
    BY <1>11, <2>1, EntryOfLine
  <2>. QED BY <1>10, <2>2
<1>14. d \in DocsOf(actions_deque)
  <2>1. PICK i \in 1..Len(q) : q[i] = d
    BY <1>13
  <2>2. Len(q) = Len(actions_deque)
    BY <1>1, ParallelTypes, ActionsType
  <2>3. actions_deque[i].action = d
    BY <2>1, <2>2 DEF Actions
  <2>. QED BY <2>1, <2>2, <2>3 DEF DocsOf
<1>15. d < next /\ verdict[d] = "none"
  BY <1>1, <1>14 DEF OpenInFlight, AllOpen
<1>. QED BY <1>2, <1>5, <1>15

\* Pulling a document from the caller takes it into the ledger.
LEMMA YieldNewTakes ==
  ASSUME ParallelIInv, YieldNew
  PROVE  Ledger!LedgerNext
<1>1. ParallelTypeOK /\ OpenInFlight
  BY DEF ParallelIInv
<1>2. /\ next \in Docs /\ next \in 1..(NDocs + 1) /\ NDocs \in Nat
      /\ next' = next + 1 /\ status = "running" /\ status' = "running"
      /\ verdict \in [Docs -> Verdicts \cup {"none"}]
      /\ UNCHANGED <<verdict, totals, creator>>
  BY <1>1, ParallelTypes DEF YieldNew, At, mainVars, serverVars
<1>3. LedgerView[next] = "unseen" /\ \A e \in 1..(next - 1) : LedgerView[e] # "unseen"
  <2>1. ASSUME NEW e \in 1..(next - 1) PROVE LedgerView[e] # "unseen"
    <3>1. e \in Docs /\ ~(e >= next)
      BY <1>2 DEF Docs
    <3>2. verdict[e] # "unseen"
      BY <1>2, <3>1 DEF Verdicts
    <3>. QED BY <3>1, <3>2 DEF LedgerView
  <2>. QED BY <1>2, <2>1 DEF LedgerView
<1>4. LedgerView' = [LedgerView EXCEPT ![next] = "open"]
  <2>1. verdict[next] = "none"
    BY <1>1, <1>2 DEF OpenInFlight
  <2>2. \A d \in Docs : d >= next' <=> d >= next /\ d # next
    BY <1>2 DEF Docs
  <2>. QED BY <1>2, <2>1, <2>2 DEF LedgerView
<1>5. UNCHANGED StoredView
  BY <1>2 DEF StoredView
<1>. QED BY <1>2, <1>3, <1>4, <1>5, LedgerTake

\* A write of any worker stores a document the ledger has open.
LEMMA ServeStores ==
  ASSUME ParallelIInv, NEW w \in Workers, Serve(w)
  PROVE  [Ledger!LedgerNext]_Ledger!ledgerVars
<1>. DEFINE d == Head(work[w].docs)
<1>1. ParallelTypeOK
  BY DEF ParallelIInv
<1>2. /\ status = "running" /\ d \in Docs /\ d < next /\ verdict[d] = "none"
  BY ServedIsOpen
<1>3. /\ creator' = creator \/ Stores(d)
      /\ UNCHANGED <<next, verdict, totals, status>>
  BY <1>1, ServeWrites DEF Serve, feederVars, mainVars
<1>4. UNCHANGED LedgerView
  BY <1>3 DEF LedgerView
<1>5. CASE creator' = creator
  <2>1. UNCHANGED StoredView
    BY <1>5 DEF StoredView
  <2>. QED BY <1>3, <1>4, <2>1, LedgerStutters
<1>6. CASE Stores(d)
  <2>1. creator \in [Ids -> 0..(NDocs + 1)] /\ IdOf[d] \in Ids /\ d # Nobody
    <3>1. creator \in [Ids -> 0..(NDocs + 1)]
      BY <1>1 DEF ParallelTypeOK
    <3>. HIDE DEF d
    <3>2. IdOf[d] \in Ids
      BY <1>2, ParallelAssumption DEF Docs
    <3>3. d # Nobody
      BY <1>2 DEF Docs, Nobody
    <3>. QED BY <3>1, <3>2, <3>3
  <2>2. ~(d >= next)
    BY <1>1, <1>2, ParallelTypes DEF Docs
  <2>3. LedgerView[d] = "open"
    BY <1>2, <2>2 DEF LedgerView
  <2>4. creator' = [creator EXCEPT ![IdOf[d]] = d]
    BY <1>6 DEF Stores
  <2>. HIDE DEF d
  <2>5. StoredView' = StoredView \cup {IdOf[d]}
    BY <2>1, <2>4 DEF StoredView
  <2>. QED BY <1>2, <1>3, <1>4, <2>3, <2>5, LedgerStore
<1>. QED BY <1>3, <1>5, <1>6

\* Reading an answer settles an open document, as the index warrants, or leaves it open.
LEMMA ConsumeSettles ==
  ASSUME ParallelIInv, Consume
  PROVE  [Ledger!LedgerNext]_Ledger!ledgerVars
<1>. DEFINE d == Entry.action
            v == CountedAs(Entry, Code)
<1>1. ParallelTypeOK /\ InLine /\ Whole /\ OnceInFlight /\ OpenInFlight /\ AnswersAreTrue
  BY DEF ParallelIInv
<1>2. /\ answers \in Seq(Answer) /\ answers # <<>> /\ Head(answers) \in Answer
      /\ actions_deque \in Seq(Tracked) /\ actions_deque # <<>>
      /\ d = Head(answers).doc /\ d \in Docs
  BY <1>1, FirstInLine DEF Consume
<1>3. /\ status = "running" /\ status' = "running" /\ UNCHANGED <<next, creator>>
      /\ next \in Nat /\ verdict \in [Docs -> Verdicts \cup {"none"}]
  BY <1>1, ParallelTypes DEF Consume, Reading, feederVars, serverVars
<1>4. d < next /\ verdict[d] = "none"
  <2>1. d \in DocsOf(actions_deque)
    BY <1>1, <1>2, DistinctTail DEF OnceInFlight, Entry
  <2>. QED BY <1>1, <2>1 DEF OpenInFlight, AllOpen
<1>5. ~(d >= next)
  BY <1>2, <1>3, <1>4 DEF Docs
<1>6. LedgerView[d] = "open"
  BY <1>2, <1>4, <1>5 DEF LedgerView
<1>7. UNCHANGED StoredView
  BY <1>3 DEF StoredView
<1>8. CASE Code = "other"
  <2>1. UNCHANGED <<totals, verdict>>
    BY <1>8 DEF Consume
  <2>2. UNCHANGED LedgerView
    BY <1>3, <2>1 DEF LedgerView
  <2>. QED BY <1>3, <1>7, <2>1, <2>2, LedgerStutters
<1>9. CASE Code # "other"
  <2>1. Code \in {"ok", "409", "400"}
    BY <1>2, <1>9 DEF Code, Answer
  <2>2. v \in Verdicts /\ (v # "failure" => Code \in {"ok", "409"})
    BY <2>1 DEF CountedAs, Verdicts
  <2>3. v # "failure" => IdOf[d] \in StoredView
    <3>1. 1 \in 1..Len(answers) /\ Head(answers) = answers[1]
      BY <1>2, TailFacts
    <3>2. Code \in {"ok", "409"} => creator[IdOf[d]] # Nobody
      BY <1>1, <1>2, <3>1 DEF AnswersAreTrue, TrueAnswers, Code
    <3>3. IdOf[d] \in Ids
      BY <1>2, ParallelAssumption DEF Docs
    <3>. QED BY <2>2, <3>2, <3>3 DEF StoredView
  <2>4. totals' = [totals EXCEPT ![v] = @ + 1] /\ verdict' = [verdict EXCEPT ![d] = v]
    BY <1>9 DEF Consume
  <2>. HIDE DEF d, v
  <2>5. LedgerView' = [LedgerView EXCEPT ![d] = v]
    <3>1. v # "none"
      BY <2>2 DEF Verdicts
    <3>. QED BY <1>2, <1>3, <1>5, <2>4, <3>1 DEF LedgerView
  <2>6. Ledger!LedgerNext
    BY <1>2, <1>3, <1>6, <1>7, <2>2, <2>3, <2>4, <2>5, LedgerSettle
  <2>. QED BY <2>6
<1>. QED BY <1>8, <1>9

\* Main returns when the ledger has settled every document; otherwise it fails.
LEMMA FinishCloses ==
  ASSUME ParallelIInv, Finish \/ Reraise
  PROVE  Ledger!LedgerNext
<1>1. ParallelTypeOK /\ NoneLost /\ Stages
  BY DEF ParallelIInv
<1>2. /\ status = "running" /\ status' \in {"returned", "assertion", "raised"}
      /\ UNCHANGED <<next, verdict, totals, creator>>
  BY DEF Finish, Reraise, Over, Ends, feederVars, serverVars
<1>3. UNCHANGED <<LedgerView, StoredView, totals>>
  BY <1>2 DEF LedgerView, StoredView
<1>4. CASE status' # "returned"
  BY <1>2, <1>3, <1>4, LedgerFail
<1>5. CASE status' = "returned"
  <2>1. feeder = "ended" /\ actions_deque = <<>> /\ actions_retry_deque = <<>>
    BY <1>5 DEF Finish, Reraise, Over, Ends
  <2>2. retry_actions = <<>> /\ next = NDocs + 1
    BY <1>1, <2>1 DEF Stages
  <2>3. \A d \in Docs : ~(d >= next) /\ d < next
    BY <2>2, ParallelAssumption DEF Docs
  <2>4. \A d \in Docs : verdict[d] # "none"
    BY <1>1, <2>1, <2>2, <2>3, DocsOfEmpty DEF NoneLost
  <2>5. \A d \in Docs : verdict[d] \in Verdicts
    BY <1>1, <2>4, ParallelTypes
  <2>6. \A d \in Docs : LedgerView[d] \in Verdicts
    BY <2>3, <2>4, <2>5 DEF LedgerView
  <2>. QED BY <1>2, <1>3, <1>5, <2>6, LedgerReturn
<1>. QED BY <1>4, <1>5

\* Every step of every thread is a step of the ledger or changes nothing in it.
LEMMA NextLedger == ParallelIInv /\ [Next]_vars => [Ledger!LedgerNext]_Ledger!ledgerVars
<1>. SUFFICES ASSUME ParallelIInv, [Next]_vars
              PROVE  [Ledger!LedgerNext]_Ledger!ledgerVars
  OBVIOUS
<1>1. CASE YieldNew
  BY <1>1, YieldNewTakes
<1>2. CASE \E w \in Workers : Serve(w)
  BY <1>2, ServeStores
<1>3. CASE Consume
  BY <1>3, ConsumeSettles
<1>4. CASE Finish \/ Reraise
  BY <1>4, FinishCloses
<1>5. CASE UNCHANGED <<next, verdict, totals, creator, status>>
  <2>1. UNCHANGED <<LedgerView, StoredView>>
    BY <1>5 DEF LedgerView, StoredView
  <2>. QED BY <1>5, <2>1, LedgerStutters
<1>6. \/ YieldNew \/ Consume \/ Finish \/ Reraise \/ \E w \in Workers : Serve(w)
      \/ UNCHANGED <<next, verdict, totals, creator, status>>
  BY DEF Next, Feeder, Worker, Main, Check, DrainOne, Drained, YieldRetry, AllResent,
         Exhaust, SourceFails, Put, TakeChunk, FinishChunk, TakeAnswers,
         deques, feederVars, mainVars, serverVars, vars
<1>. QED BY <1>1, <1>2, <1>3, <1>4, <1>5, <1>6

\* With parallel=True, streaming_bulk still implements the ledger it promises its caller:
\* whatever the threads do, documents are taken in order, settled once, reported as
\* stored only when they are, and the call returns only when every document is settled.
THEOREM ParallelImplementsLedger == Spec => ImplementsLedger
<1>1. Init => Ledger!LedgerInit
  BY InitLedger
<1>2. ParallelIInv /\ [Next]_vars => [Ledger!LedgerNext]_Ledger!ledgerVars
  BY NextLedger
<1>. QED
  BY <1>1, <1>2, AlwaysParallel, PTL DEF Spec, ImplementsLedger, Ledger!LedgerSpec
=============================================================================
