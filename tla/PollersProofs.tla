---------------------------- MODULE PollersProofs ----------------------------
(***************************************************************************)
(* What the tools that poll an external system put in their documents, for *)
(* every number of messages, timeout, version, machine set, node and scale.*)
(***************************************************************************)
EXTENDS MCPollers, TLAPS, FiniteSetTheorems, SequenceTheorems

(* The log generator *)

\* The messages of whole seconds have been written.
WholeSeconds == PerSecond # 0 => \E k \in Nat : count = k * PerSecond

\* The messages that have come to the partitions the consumer was put to.
Sought == {m \in 1..arrived : partition[m] < turn \/ (logAt = "kafka" /\ partition[m] = turn)}

\* A check that is over: what it counted is what messages_received says.
NoCheck == logAt \notin {"turn", "kafka", "exited", "raised"}

\* What was received was there, but for the messages that count twice, and is judged by a
\* number of messages that does not grow any more.
ReceivedInv ==
  /\ logAt = "send" => received = -1
  /\ logAt \in {"send", "query", "turn", "kafka"} => ~received_all
  /\ NoCheck => received <= arrived + Cardinality(Twice)
  /\ NoCheck /\ received_all => arrived + Cardinality(Twice) >= count - Tolerance

\* A check of Kafka has counted, and will count of what the consumer holds, at most the
\* messages of the partitions it has been put to, and those that may come twice.
\* Before the first turn all it holds came after it was opened.
CheckInv ==
  /\ logAt \in {"turn", "kafka"} => backend = "kafka"
  /\ logAt = "kafka" => turn <= Partitions
  /\ logAt = "turn" /\ turn = 1 => counted = 0 /\ unread \subseteq (since + 1)..arrived
  /\ (logAt = "turn" /\ turn > 1) \/ logAt = "kafka" =>
       counted + Cardinality(unread) <= Cardinality(Sought) + Cardinality(Twice)

\* The clock is read again after every look at the backend.
ClockInv ==
  /\ logAt = "loop" /\ received # -1 => post = elapsed
  /\ logAt = "ok" /\ backend # "unchecked" /\ ~received_all => post >= timeout

LogIInv == LogTypeOK /\ WholeSeconds /\ ReceivedInv /\ CheckInv /\ ClockInv

\* Some of the first n numbers are at most n.
LEMMA SomeOf ==
  ASSUME NEW n \in Nat, NEW S \in SUBSET (1..n)
  PROVE  IsFiniteSet(S) /\ Cardinality(S) \in Nat /\ Cardinality(S) <= n
<1>1. IsFiniteSet(1..n) /\ Cardinality(1..n) = n
  BY FS_Interval
<1>. QED BY <1>1, FS_Subset, FS_CardinalityType

\* With the next number they are one more.
LEMMA OneMore ==
  ASSUME NEW n \in Nat, NEW S \in SUBSET (1..n)
  PROVE  Cardinality(S \cup {n + 1}) = Cardinality(S) + 1
<1>1. n + 1 \notin S
  OBVIOUS
<1>. QED BY <1>1, SomeOf, FS_AddElement

\* What two sets contain is not more than both together.
LEMMA AtMostBoth ==
  ASSUME NEW A, NEW B, NEW C, IsFiniteSet(A), IsFiniteSet(B), C \subseteq A \cup B
  PROVE  Cardinality(C) <= Cardinality(A) + Cardinality(B)
<1>1. IsFiniteSet(A \cup B)
      /\ Cardinality(A \cup B) = Cardinality(A) + Cardinality(B) - Cardinality(A \cap B)
  BY FS_Union
<1>2. A \cap B \in SUBSET A
  OBVIOUS
<1>3. IsFiniteSet(A \cap B) /\ IsFiniteSet(C) /\ Cardinality(C) <= Cardinality(A \cup B)
  BY <1>1, <1>2, FS_Subset
<1>. QED BY <1>1, <1>3, FS_CardinalityType

\* The sets of the invariant are sets of messages that have arrived.
LEMMA OfArrived ==
  ASSUME LogTypeOK
  PROVE  /\ arrived \in Nat
         /\ unread \in SUBSET (1..arrived) /\ Twice \in SUBSET (1..arrived)
         /\ Sought \in SUBSET (1..arrived) /\ In(turn) \in SUBSET (1..arrived)
         /\ IsFiniteSet(unread) /\ Cardinality(unread) \in Nat
         /\ IsFiniteSet(Twice) /\ Cardinality(Twice) \in Nat
         /\ IsFiniteSet(Sought) /\ Cardinality(Sought) \in Nat /\ Cardinality(Sought) <= arrived
         /\ IsFiniteSet(In(turn)) /\ Cardinality(In(turn)) \in Nat
<1>1. arrived \in Nat /\ since \in Nat /\ unread \in SUBSET (1..arrived)
  BY LogAssumption DEF LogTypeOK
<1>2. Twice \in SUBSET (1..arrived) /\ Sought \in SUBSET (1..arrived)
      /\ In(turn) \in SUBSET (1..arrived)
  BY <1>1 DEF Twice, Sought, In
<1>. QED BY <1>1, <1>2, SomeOf

\* A step that brings no message and opens no consumer leaves Twice alone.
LEMMA SameTwice == UNCHANGED <<backend, partition, arrived, since>> => Twice' = Twice
BY DEF Twice

\* The messages of one more second are not more than all: the rate divides the total.
LEMMA NextSecond ==
  ASSUME NEW p \in Nat \ {0}, NEW n \in Nat, n % p = 0, NEW k \in Nat, k * p < n
  PROVE  (k + 1) * p <= n /\ k * p + p = (k + 1) * p
<1>. DEFINE q == n \div p
<1>1. q \in Nat /\ n = q * p
  OBVIOUS
<1>. HIDE DEF q
<1>2. k < q
  <2>1. ASSUME q <= k PROVE FALSE
    <3>1. PICK d \in Nat : k = q + d
      <4>1. k - q \in Nat /\ k = q + (k - q)
        BY <1>1, <2>1
      <4>. QED BY <4>1
    <3>2. k * p = q * p + d * p
      BY <1>1, <3>1
    <3>3. d * p \in Nat /\ q * p \in Nat
      BY <1>1
    <3>. QED BY <1>1, <3>2, <3>3
  <2>. QED BY <1>1, <2>1
<1>3. PICK d \in Nat : q = (k + 1) + d
  <2>1. q - (k + 1) \in Nat /\ q = (k + 1) + (q - (k + 1))
    BY <1>1, <1>2
  <2>. QED BY <2>1
<1>4. q * p = (k + 1) * p + d * p
  BY <1>3
<1>5. d * p \in Nat /\ (k + 1) * p \in Nat
  OBVIOUS
<1>. QED BY <1>1, <1>4, <1>5

\* Every step of the log generator keeps its invariant.
LEMMA LogStep ==
  ASSUME LogIInv, [LogNext]_logVars
  PROVE  LogIInv'
<1>. USE LogAssumption DEF LogIInv, LogOver, static, consumer, result, NoCheck
<1>t. /\ backend \in Backends /\ timeout \in Timeouts /\ timeout \in Int
      /\ partition \in [1..Total -> 1..Partitions]
      /\ count \in 0..Total /\ arrived \in 0..count /\ elapsed \in Nat /\ post \in Nat
      /\ turn \in 1..(Partitions + 1) /\ unread \subseteq 1..arrived /\ counted \in Nat
      /\ since \in 0..arrived /\ received \in Nat \cup {-1} /\ received_all \in BOOLEAN
      /\ Cardinality(Twice) \in Nat
  BY OfArrived DEF LogTypeOK
<1>u. ASSUME UNCHANGED <<static, arrived, consumer>>, NoCheck \/ ~NoCheck', logAt' \notin {"turn", "kafka"},
             UNCHANGED <<count, received, received_all>>
      PROVE  (NoCheck' => received' <= arrived' + Cardinality(Twice)')
             /\ (NoCheck' /\ received_all' => arrived' + Cardinality(Twice)' >= count' - Tolerance)
             /\ CheckInv'
  <2>1. Twice' = Twice
    BY <1>u, SameTwice
  <2>. QED BY <1>u, <2>1 DEF ReceivedInv, CheckInv
<1>1. CASE Send
  <2>1. logAt = "send" /\ count < Total /\ received = -1 /\ ~received_all
        /\ UNCHANGED <<static, logAt, arrived, elapsed, query, consumer, busy, result>>
    BY <1>1 DEF Send, ReceivedInv
  <2>2. count' \in count..Total /\ WholeSeconds'
    <3>1. CASE PerSecond = 0
      <4>1. count' = count + 1
        BY <1>1, <3>1 DEF Send
      <4>. QED BY <1>t, <2>1, <3>1, <4>1 DEF WholeSeconds
    <3>2. CASE PerSecond # 0
      <4>1. count' = count + PerSecond
        BY <1>1, <3>2 DEF Send
      <4>2. PICK k \in Nat : count = k * PerSecond
        BY <3>2 DEF WholeSeconds
      <4>3. (k + 1) * PerSecond <= Total /\ k * PerSecond + PerSecond = (k + 1) * PerSecond
        BY <2>1, <3>2, <4>2, NextSecond
      <4>4. count' = (k + 1) * PerSecond /\ k + 1 \in Nat
        BY <4>1, <4>2, <4>3
      <4>5. count' \in count..Total
        BY <1>t, <4>1, <4>2, <4>3
      <4>. QED BY <4>4, <4>5 DEF WholeSeconds
    <3>. QED BY <3>1, <3>2
  <2>3. LogTypeOK'
    BY <1>t, <2>1, <2>2 DEF LogTypeOK
  <2>4. Twice' = Twice
    BY <2>1, SameTwice
  <2>. QED BY <1>t, <2>1, <2>2, <2>3, <2>4 DEF ReceivedInv, CheckInv, ClockInv
<1>2. CASE AllSent
  BY <1>2, <1>u DEF AllSent, LogTypeOK, WholeSeconds, ReceivedInv, ClockInv
<1>3. CASE Arrive
  <2>1. arrived' = arrived + 1 /\ arrived' \in 1..count /\ logAt \notin LogOver
        /\ UNCHANGED <<static, logAt, count, elapsed, query, turn, counted, since, busy, result>>
    BY <1>t, <1>3 DEF Arrive
  <2>2. unread' = (IF logAt \in {"turn", "kafka"} THEN unread \cup {arrived'} ELSE unread)
    BY <1>3 DEF Arrive
  <2>3. LogTypeOK'
    <3>1. unread' \subseteq 1..arrived'
      BY <1>t, <2>1, <2>2
    <3>. QED BY <1>t, <2>1, <3>1 DEF LogTypeOK
  <2>4. Twice' = (IF backend = "kafka" /\ partition[arrived'] # 1 THEN Twice \cup {arrived + 1} ELSE Twice)
    BY <1>t, <2>1 DEF Twice
  <2>5. Cardinality(Twice') = Cardinality(Twice)
                              + (IF backend = "kafka" /\ partition[arrived'] # 1 THEN 1 ELSE 0)
    BY <2>4, OfArrived, OneMore
  <2>6. ReceivedInv' /\ ClockInv' /\ WholeSeconds'
    BY <1>t, <2>1, <2>5 DEF ReceivedInv, ClockInv, WholeSeconds
  <2>7. ASSUME (logAt = "turn" /\ turn > 1) \/ logAt = "kafka"
        PROVE  counted + Cardinality(unread)' <= Cardinality(Sought)' + Cardinality(Twice)'
    <3>1. Cardinality(unread)' = Cardinality(unread) + 1
      BY <1>t, <2>1, <2>2, <2>7, OfArrived, OneMore
    <3>2. Sought' = (IF partition[arrived'] < turn \/ (logAt = "kafka" /\ partition[arrived'] = turn)
                       THEN Sought \cup {arrived + 1} ELSE Sought)
      <4>1. \A m : m \in 1..arrived' <=> m \in 1..arrived \/ m = arrived + 1
        BY <1>t, <2>1
      <4>2. Sought' = {m \in 1..arrived' :
                          partition[m] < turn \/ (logAt = "kafka" /\ partition[m] = turn)}
        BY <2>1 DEF Sought
      <4>. QED BY <2>1, <4>1, <4>2 DEF Sought
    <3>3. Cardinality(Sought') = Cardinality(Sought)
            + (IF partition[arrived'] < turn \/ (logAt = "kafka" /\ partition[arrived'] = turn)
                 THEN 1 ELSE 0)
      BY <3>2, OfArrived, OneMore
    <3>4. backend = "kafka" /\ partition[arrived'] \in 1..Partitions
      BY <1>t, <2>1, <2>7 DEF CheckInv
    <3>5. partition[arrived'] = 1 => partition[arrived'] < turn \/ (logAt = "kafka" /\ partition[arrived'] = turn)
      <4>1. turn \in Int /\ turn >= 1
        BY <1>t, LogAssumption
      <4>. QED BY <2>7, <4>1
    <3>6. counted + Cardinality(unread) <= Cardinality(Sought) + Cardinality(Twice)
      BY <2>7 DEF CheckInv
    <3>7. Cardinality(unread) \in Nat /\ Cardinality(Sought) \in Nat
      BY OfArrived
    <3>. QED BY <1>t, <2>5, <3>1, <3>3, <3>4, <3>5, <3>6, <3>7
  <2>8. CheckInv'
    <3>1. logAt = "turn" /\ turn = 1 => counted = 0 /\ unread' \subseteq (since + 1)..arrived'
      BY <1>t, <2>1, <2>2 DEF CheckInv
    <3>. QED BY <2>1, <2>7, <3>1 DEF CheckInv
  <2>. QED BY <2>3, <2>6, <2>8
<1>4. CASE StartQuery
  BY <1>4, <1>u DEF StartQuery, Again, LogTypeOK, WholeSeconds, ReceivedInv, ClockInv
<1>5. CASE QueryEnds \/ PollQuery \/ Others \/ UNCHANGED logVars
  <2>1. UNCHANGED <<static, logAt, count, arrived, elapsed, consumer, result>>
        /\ query' \in {"none", "Running", "Complete", "Failed"} /\ busy' \in BOOLEAN
    BY <1>5 DEF QueryEnds, PollQuery, Others, logVars, LogTypeOK
  <2>2. Twice' = Twice /\ Sought' = Sought
    BY <2>1 DEF Twice, Sought
  <2>. QED BY <2>1, <2>2 DEF LogTypeOK, WholeSeconds, ReceivedInv, CheckInv, ClockInv
<1>6. ASSUME NEW n \in Nat, n <= arrived + Cardinality(Twice), Gets(n), logAt \in {"loop", "query", "turn"},
             UNCHANGED <<static, count, arrived, elapsed, consumer, busy, post>>,
             query' \in {"none", "Running", "Complete", "Failed"}
      PROVE  LogIInv'
  <2>1. Twice' = Twice
    BY <1>6, SameTwice
  <2>. QED BY <1>t, <1>6, <2>1
           DEF Gets, Enough, LogTypeOK, WholeSeconds, ReceivedInv, CheckInv, ClockInv
<1>7. CASE QueryResult
  <2>1. PICK n \in 0..arrived : Gets(n)
    BY <1>7 DEF QueryResult
  <2>2. n \in Nat /\ n <= arrived + Cardinality(Twice)
    BY <1>t, <2>1
  <2>. QED BY <1>6, <1>7, <2>1, <2>2 DEF QueryResult
<1>8. CASE Ask
  <2>1. PICK n \in {0, arrived} : Gets(n)
    BY <1>8 DEF Ask
  <2>2. n \in Nat /\ n <= arrived + Cardinality(Twice)
    BY <1>t, <2>1
  <2>. QED BY <1>6, <1>8, <2>1, <2>2 DEF Ask, LogTypeOK
<1>9. CASE Tally
  <2>1. counted + Cardinality(unread) <= Cardinality(Sought) + Cardinality(Twice)
    BY <1>t, <1>9 DEF Tally, CheckInv
  <2>2. Cardinality(unread) \in Nat /\ Cardinality(Sought) \in Nat /\ Cardinality(Sought) <= arrived
    BY OfArrived
  <2>3. counted <= arrived + Cardinality(Twice)
    BY <1>t, <2>1, <2>2
  <2>. QED BY <1>t, <1>6, <1>9, <2>3 DEF Tally, LogTypeOK
<1>10. CASE Connect
  <2>1. CASE logAt' = "exited" /\ UNCHANGED consumer
    BY <1>10, <1>u, <2>1 DEF Connect, LogTypeOK, WholeSeconds, ReceivedInv, ClockInv
  <2>2. CASE logAt' = "turn" /\ turn' = 1 /\ unread' = {} /\ counted' = 0 /\ since' = arrived
    BY <1>t, <1>10, <2>2
       DEF Connect, Again, LogTypeOK, WholeSeconds, ReceivedInv, CheckInv, ClockInv
  <2>. QED BY <1>10, <2>1, <2>2 DEF Connect
<1>11. CASE Seek
  <2>1. logAt = "turn" /\ turn <= Partitions /\ backend = "kafka" /\ ~received_all
        /\ UNCHANGED <<static, count, arrived, elapsed, query, counted, since, busy, result>>
    BY <1>11 DEF Seek, CheckInv, ReceivedInv
  <2>2. Twice' = Twice
    BY <2>1, SameTwice
  <2>3. /\ IsFiniteSet(Twice) /\ IsFiniteSet(unread) /\ IsFiniteSet(Sought) /\ IsFiniteSet(In(turn))
        /\ Cardinality(unread) \in Nat /\ Cardinality(In(turn)) \in Nat
        /\ Cardinality(Sought) \in Nat
    BY OfArrived
  <2>4. Sought' = (Sought \cup In(turn)) /\ Sought \cap In(turn) = {}
    BY <1>t, <1>11, <2>1 DEF Seek, Sought, In
  <2>5. Cardinality(Sought') = Cardinality(Sought) + Cardinality(In(turn))
    <3>1. Cardinality(Sought \cap In(turn)) = Cardinality({})
      BY <2>4, Zenon
    <3>2. Cardinality(Sought') = Cardinality(Sought \cup In(turn))
      BY <2>4, Zenon
    <3>3. Cardinality({}) = 0
      BY FS_EmptySet
    <3>4. Cardinality(Sought \cup In(turn))
            = Cardinality(Sought) + Cardinality(In(turn)) - Cardinality(Sought \cap In(turn))
      BY <2>3, FS_Union
    <3>. QED BY <2>3, <3>1, <3>2, <3>3, <3>4
  <2>6. ASSUME turn = 1 PROVE unread \subseteq In(turn) \cup Twice /\ Sought = {}
    BY <1>t, <2>1, <2>6 DEF Sought, In, Twice, CheckInv
  <2>7. counted + Cardinality(unread \cup In(turn)) <= Cardinality(Sought') + Cardinality(Twice)
    <3>1. Cardinality(unread \cup In(turn)) \in Nat
      BY <2>3, FS_Union, FS_CardinalityType
    <3>2. CASE turn = 1
      <4>1. unread \cup In(turn) \subseteq In(turn) \cup Twice /\ counted = 0
        BY <2>1, <2>6, <3>2 DEF CheckInv
      <4>2. Cardinality(unread \cup In(turn)) <= Cardinality(In(turn)) + Cardinality(Twice)
        BY <2>3, <4>1, AtMostBoth
      <4>. QED BY <1>t, <2>3, <2>5, <3>1, <4>1, <4>2
    <3>3. CASE turn # 1
      <4>1. counted + Cardinality(unread) <= Cardinality(Sought) + Cardinality(Twice)
        BY <1>t, <2>1, <3>3 DEF CheckInv
      <4>2. Cardinality(unread \cup In(turn)) <= Cardinality(unread) + Cardinality(In(turn))
        BY <2>3, AtMostBoth
      <4>. QED BY <1>t, <2>3, <2>5, <3>1, <4>1, <4>2
    <3>. QED BY <3>2, <3>3
  <2>8. CASE logAt' = "kafka" /\ unread' = unread \cup In(turn) /\ UNCHANGED turn
    <3>1. LogTypeOK'
      BY <2>1, <2>8 DEF LogTypeOK, In
    <3>2. CheckInv'
      BY <2>1, <2>2, <2>7, <2>8 DEF CheckInv
    <3>. QED BY <2>1, <2>8, <3>1, <3>2 DEF WholeSeconds, ReceivedInv, ClockInv
  <2>9. CASE In(turn) = {} /\ turn' = turn + 1 /\ UNCHANGED <<logAt, unread>>
    <3>1. LogTypeOK'
      BY <1>t, <2>1, <2>9 DEF LogTypeOK
    <3>2. unread \cup In(turn) = unread
      BY <2>9
    <3>3. CheckInv'
      BY <1>t, <2>1, <2>2, <2>7, <2>9, <3>2 DEF CheckInv
    <3>. QED BY <2>1, <2>2, <2>9, <3>1, <3>3 DEF WholeSeconds, ReceivedInv, ClockInv
  <2>. QED BY <1>11, <2>8, <2>9 DEF Seek
<1>12. CASE ReadOwn
  <2>1. logAt = "kafka" /\ counted' = counted + 1
        /\ UNCHANGED <<static, logAt, count, arrived, elapsed, query, turn, since, busy, result>>
    BY <1>12 DEF ReadOwn
  <2>2. PICK m \in unread : unread' = unread \ {m}
    BY <1>12 DEF ReadOwn
  <2>3. Twice' = Twice /\ Sought' = Sought
    BY <2>1 DEF Twice, Sought
  <2>4. Cardinality(unread') = Cardinality(unread) - 1 /\ Cardinality(unread) \in Nat
    BY <1>t, <2>2, OfArrived, FS_RemoveElement
  <2>5. Cardinality(Sought) \in Nat
    BY OfArrived
  <2>6. CheckInv'
    BY <1>t, <2>1, <2>3, <2>4, <2>5 DEF CheckInv
  <2>7. LogTypeOK'
    BY <2>1, <2>2 DEF LogTypeOK
  <2>. QED BY <2>1, <2>6, <2>7 DEF WholeSeconds, ReceivedInv, ClockInv
<1>13. CASE Silence \/ BreakOff
  <2>1. /\ logAt = "kafka" /\ logAt' = "turn" /\ turn' = turn + 1
        /\ UNCHANGED <<static, count, arrived, elapsed, query, counted, since, busy, result>>
    BY <1>13 DEF Silence, BreakOff
  <2>2. unread' \subseteq unread
    BY <1>13 DEF Silence, BreakOff
  <2>3. turn <= Partitions
    BY <2>1 DEF CheckInv
  <2>4. Twice' = Twice /\ Sought' = Sought
    <3>1. \A m \in 1..arrived : partition[m] \in Int
      BY <1>t
    <3>2. \A m \in 1..arrived : partition[m] < turn + 1 <=> partition[m] < turn \/ partition[m] = turn
      BY <1>t, <3>1
    <3>3. Sought = {m \in 1..arrived : partition[m] < turn \/ partition[m] = turn}
      BY <2>1 DEF Sought
    <3>4. Sought' = {m \in 1..arrived : partition[m] < turn + 1}
      BY <2>1 DEF Sought
    <3>5. Sought' = Sought
      BY <3>2, <3>3, <3>4
    <3>. QED BY <2>1, <3>5, SameTwice
  <2>5. Cardinality(unread') <= Cardinality(unread) /\ Cardinality(unread') \in Nat
        /\ Cardinality(unread) \in Nat /\ Cardinality(Sought) \in Nat
    BY <2>2, OfArrived, FS_Subset, FS_CardinalityType
  <2>6. CheckInv'
    BY <1>t, <2>1, <2>4, <2>5 DEF CheckInv
  <2>7. LogTypeOK'
    BY <1>t, <2>1, <2>2, <2>3 DEF LogTypeOK
  <2>. QED BY <2>1, <2>6, <2>7 DEF WholeSeconds, ReceivedInv, ClockInv
<1>14. CASE CheckRaises
  BY <1>14, <1>u DEF CheckRaises, LogTypeOK, WholeSeconds, ReceivedInv, ClockInv
<1>15. CASE Sleep
  BY <1>15, <1>u DEF Sleep, LogTypeOK, WholeSeconds, ReceivedInv, ClockInv
<1>16. CASE Report
  BY <1>t, <1>16, <1>u DEF Report, Again, LogTypeOK, WholeSeconds, ReceivedInv, ClockInv
<1>. QED BY <1>1, <1>2, <1>3, <1>4, <1>5, <1>7, <1>8, <1>9, <1>10, <1>11, <1>12, <1>13, <1>14,
            <1>15, <1>16 DEF LogNext, LogSteps

\* A log generator that has written nothing.
LEMMA LogStarts == LogInit => LogIInv
<1>. SUFFICES ASSUME LogInit PROVE LogIInv
  OBVIOUS
<1>1. PerSecond # 0 => 0 = 0 * PerSecond /\ 0 \in Nat
  BY LogAssumption
<1>2. WholeSeconds
  BY <1>1 DEF WholeSeconds, LogInit
<1>3. LogTypeOK
  <2>1. Total \in Nat
    BY LogAssumption
  <2>2. 0 \in 0..Total /\ 0 \in 0..0 /\ -1 \in Nat \cup {-1} /\ 1 \in 1..(Partitions + 1)
    BY <2>1, LogAssumption
  <2>. QED BY <2>2 DEF LogInit, LogTypeOK
<1>4. Twice = {} /\ Cardinality({}) = 0
  BY FS_EmptySet DEF LogInit, Twice
<1>5. ReceivedInv /\ CheckInv /\ ClockInv
  BY <1>4 DEF LogInit, ReceivedInv, CheckInv, ClockInv, NoCheck
<1>. QED BY <1>2, <1>3, <1>5 DEF LogIInv
-----------------------------------------------------------------------------
(* The upgrade *)

\* The cluster goes from Old to the target once, when it was asked to; the head of its
\* history is of a version that it wanted.
ClusterInv ==
  /\ desired \in {Old, target}
  /\ desired # Old => asked
  /\ upAt \in {"start", "command"} => ~asked
  /\ head.version \in {Old, desired}

\* What the wrapper has read is a state the cluster was in, and one that is final when
\* it is Completed at another version than Old.
SeenInv ==
  /\ init_version = Old
  /\ desired_version \in {Old, desired}
  /\ c_head.state = "Completed" /\ c_head.version # Old => c_head = head /\ c_head.version = desired

\* The loop is only entered for another version, and left for a time within the timeout
\* when the upgrade was seen.
LoopInv ==
  /\ upAt \in {"loop", "read", "nap", "finish", "startedTime", "completionTime"}
       => desired_version # Old
  /\ upAt \in {"read", "nap"} => waited <= up_timeout
  /\ upAt \in {"finish", "startedTime", "completionTime"} /\ waited <= up_timeout => Upgraded
  /\ upAt = "completionTime" /\ waited <= up_timeout => started = target
  /\ total_time = "some" => upAt \in UpOver
  /\ upAt = "ok" /\ total_time = "some" /\ waited <= up_timeout
       => desired_version # Old /\ Upgraded /\ started = target

UpIInv == UpTypeOK /\ ClusterInv /\ SeenInv /\ LoopInv

\* Every step of the wrapper and of the cluster keeps its invariant.
LEMMA UpStep ==
  ASSUME UpIInv, [UpNext]_upVars
  PROVE  UpIInv'
<1>. USE UpgradeAssumption DEF UpIInv, UpTypeOK, UpOver, Versions, Heads, NoHead, params, cluster, yielded
<1>1. CASE UpStart
  BY <1>1 DEF UpStart, ClusterInv, SeenInv, LoopInv, Upgraded
<1>2. CASE Command
  <2>1. UpTypeOK'
    <3>1. asked' \in BOOLEAN /\ upAt' \in {"wanted", "exited"} /\ desired_version' = desired
          /\ UNCHANGED <<params, desired, head, init_version, c_head, retries, waited, yielded>>
      BY <1>2 DEF Command
    <3>. QED BY <3>1
  <2>2. ClusterInv' /\ SeenInv'
    BY <1>2 DEF Command, ClusterInv, SeenInv
  <2>3. LoopInv'
    BY <1>2 DEF Command, ClusterInv, SeenInv, LoopInv, Upgraded
  <2>. QED BY <2>1, <2>2, <2>3
<1>3. CASE LookAgain
  BY <1>3 DEF LookAgain, ClusterInv, SeenInv, LoopInv, Upgraded
<1>4. CASE AlreadyThere
  <2>1. UpTypeOK'
    BY <1>4 DEF AlreadyThere, LoopInv
  <2>2. ClusterInv' /\ SeenInv'
    BY <1>4 DEF AlreadyThere, ClusterInv, SeenInv
  <2>3. LoopInv'
    BY <1>4 DEF AlreadyThere, ClusterInv, SeenInv, LoopInv, Upgraded
  <2>. QED BY <2>1, <2>2, <2>3
<1>5. CASE Changed
  BY <1>5 DEF Changed, ClusterInv, SeenInv, LoopInv, Upgraded
<1>6. CASE EnterLoop
  BY <1>6 DEF EnterLoop, InTime, ClusterInv, SeenInv, LoopInv, Upgraded
<1>7. CASE ReadHead
  BY <1>7 DEF ReadHead, ClusterInv, SeenInv, LoopInv, Upgraded
<1>8. CASE Nap
  <2>1. UpTypeOK'
    BY <1>8 DEF Nap, LoopInv
  <2>2. ClusterInv' /\ SeenInv'
    BY <1>8 DEF Nap, ClusterInv, SeenInv
  <2>3. LoopInv'
    BY <1>8 DEF Nap, ClusterInv, SeenInv, LoopInv, Upgraded
  <2>. QED BY <2>1, <2>2, <2>3
<1>9. CASE Finish
  BY <1>9 DEF Finish, ClusterInv, SeenInv, LoopInv, Upgraded
<1>13. CASE StartTime
  BY <1>13 DEF StartTime, ClusterInv, SeenInv, LoopInv, Upgraded
<1>14. CASE EndTime
  <2>1. UpTypeOK'
    BY <1>14 DEF EndTime, LoopInv
  <2>2. ClusterInv' /\ SeenInv'
    BY <1>14 DEF EndTime, ClusterInv, SeenInv
  <2>3. LoopInv'
    BY <1>14 DEF EndTime, ClusterInv, SeenInv, LoopInv, Upgraded
  <2>. QED BY <2>1, <2>2, <2>3
<1>10. CASE CallFails
  BY <1>10 DEF CallFails, ClusterInv, SeenInv, LoopInv, Upgraded
<1>11. CASE Cluster
  <2>1. UNCHANGED <<params, upAt, init_version, desired_version, c_head, retries, waited, yielded>>
    BY <1>11 DEF Cluster
  <2>2. CASE TakeUp
    BY <2>1, <2>2 DEF TakeUp, ClusterInv, SeenInv, LoopInv, Upgraded
  <2>3. CASE NewEntry
    BY <2>1, <2>3 DEF NewEntry, ClusterInv, SeenInv, LoopInv, Upgraded
  <2>4. CASE Complete
    <3>1. UpTypeOK' /\ ClusterInv'
      BY <2>1, <2>4 DEF Complete, ClusterInv
    <3>2. SeenInv' /\ LoopInv'
      BY <2>1, <2>4 DEF Complete, ClusterInv, SeenInv, LoopInv, Upgraded
    <3>. QED BY <3>1, <3>2
  <2>. QED BY <1>11, <2>2, <2>3, <2>4 DEF Cluster
<1>12. CASE UNCHANGED upVars
  BY <1>12 DEF upVars, ClusterInv, SeenInv, LoopInv, Upgraded
<1>. QED BY <1>1, <1>2, <1>3, <1>4, <1>5, <1>6, <1>7, <1>8, <1>9, <1>10, <1>11, <1>12, <1>13, <1>14
         DEF UpNext, UpSteps

\* A cluster at Old that nobody has asked for anything.
LEMMA UpStarts == UpInit => UpIInv
<1>. SUFFICES ASSUME UpInit PROVE UpIInv
  OBVIOUS
<1>1. UpTypeOK
  <2>1. 0 \in 0..WaitTries /\ up_timeout \in Nat
    BY UpgradeAssumption DEF UpInit
  <2>2. 0 \in 0..(up_timeout + 1)
    BY <2>1
  <2>. QED BY <2>1, <2>2 DEF UpInit, UpTypeOK, Versions, NoHead
<1>2. ClusterInv /\ SeenInv /\ LoopInv
  BY DEF UpInit, ClusterInv, SeenInv, LoopInv, NoHead
<1>. QED BY <1>1, <1>2 DEF UpIInv

\* What the document of an upgrade says follows from its invariant.
LEMMA UpFollows == UpIInv => UpInv
BY UpgradeAssumption
   DEF UpIInv, UpInv, UpTypeOK, UpgradeHonest, ClusterInv, SeenInv, LoopInv, Upgraded, Heads, NoHead
-----------------------------------------------------------------------------
(* Counting nodes *)

\* The numbers of a set are ranked from 1 on.
LEMMA Ranked ==
  ASSUME NEW S \in SUBSET Int, IsFiniteSet(S), NEW k \in 1..Cardinality(S)
  PROVE  \E n \in S : Cardinality({m \in S : m <= n}) = k
<1>. DEFINE Below(n) == {m \in S : m <= n}
            rank == [n \in S |-> Cardinality(Below(n))]
<1>1. ASSUME NEW n \in S
      PROVE  /\ IsFiniteSet(Below(n)) /\ Cardinality(Below(n)) \in 1..Cardinality(S)
  <2>1. Below(n) \in SUBSET S
    OBVIOUS
  <2>2. IsFiniteSet(Below(n)) /\ Cardinality(Below(n)) <= Cardinality(S)
    BY <2>1, FS_Subset
  <2>3. Cardinality(Below(n)) \in Nat /\ Cardinality(S) \in Nat
    BY <2>2, FS_CardinalityType
  <2>4. Below(n) # {}
    OBVIOUS
  <2>5. Cardinality(Below(n)) # 0
    BY <2>2, <2>4, FS_EmptySet
  <2>. QED BY <2>2, <2>3, <2>5
<1>2. ASSUME NEW a \in S, NEW b \in S, a < b PROVE Cardinality(Below(a)) # Cardinality(Below(b))
  <2>. DEFINE A == Below(a)
              B == Below(b)
  <2>a. a \in Int /\ b \in Int
    OBVIOUS
  <2>b. \A m \in S : m \in Int /\ (m <= a => m <= b)
    BY <1>2, <2>a
  <2>c. b <= b /\ ~(b <= a)
    BY <1>2, <2>a
  <2>1. A \in SUBSET B /\ b \in B /\ b \notin A
    BY <2>b, <2>c
  <2>2. IsFiniteSet(B)
    BY <1>1
  <2>. SUFFICES Cardinality(A) # Cardinality(B)
    OBVIOUS
  <2>. HIDE DEF A, B
  <2>. QED BY <2>1, <2>2, FS_Subset
<1>3. rank \in Injection(S, 1..Cardinality(S))
  <2>1. rank \in [S -> 1..Cardinality(S)]
    BY <1>1
  <2>2. \A a, b \in S : a = b \/ a < b \/ b < a
    OBVIOUS
  <2>3. ASSUME NEW a \in S, NEW b \in S, rank[a] = rank[b] PROVE a = b
    BY <1>2, <2>2, <2>3
  <2>. HIDE DEF rank
  <2>. QED BY <2>1, <2>3 DEF Injection, IsInjective
<1>4. Cardinality(S) \in Nat
  BY FS_CardinalityType
<1>5. IsFiniteSet(1..Cardinality(S)) /\ Cardinality(1..Cardinality(S)) = Cardinality(S)
  BY <1>4, FS_Interval
<1>. HIDE DEF rank
<1>6. rank \in Surjection(S, 1..Cardinality(S))
  BY <1>3, <1>5, FS_Injection
<1>7. PICK n \in S : rank[n] = k
  BY <1>6 DEF Surjection
<1>. QED BY <1>7 DEF rank

\* A set in n parts, the first r of which have q + 1 members and the others q.
LEMMA CountParts ==
  ASSUME NEW R, IsFiniteSet(R), NEW n \in Nat \ {0}, NEW part \in [R -> 1..n],
         NEW q \in Nat, NEW r \in 0..n,
         \A m \in 1..n : Cardinality({x \in R : part[x] = m}) = q + (IF m <= r THEN 1 ELSE 0)
  PROVE  Cardinality(R) = n * q + r
<1>. DEFINE Part(m) == {x \in R : part[x] = m}
            size(m) == q + (IF m <= r THEN 1 ELSE 0)
            b == [m \in 1..n |-> CHOOSE f : f \in Bijection(1..size(m), Part(m))]
            P == {p \in (1..n) \X (1..(q + 1)) : p[2] <= size(p[1])}
            F == [p \in P |-> b[p[1]][p[2]]]
<1>1. ASSUME NEW m \in 1..n PROVE b[m] \in Bijection(1..size(m), Part(m))
  <2>1. Part(m) \in SUBSET R
    OBVIOUS
  <2>2. IsFiniteSet(Part(m)) /\ Cardinality(Part(m)) = size(m)
    BY <2>1, FS_Subset
  <2>. HIDE DEF Part, size
  <2>3. \E f : f \in Bijection(1..size(m), Part(m))
    BY <2>2, FS_CardinalityType DEF ExistsBijection
  <2>. QED BY <2>3
<1>. HIDE DEF b
<1>2. ASSUME NEW m \in 1..n
      PROVE  /\ size(m) \in Nat /\ size(m) <= q + 1
             /\ \A i \in 1..size(m) : b[m][i] \in R /\ part[b[m][i]] = m
             /\ \A i, j \in 1..size(m) : b[m][i] = b[m][j] => i = j
             /\ \A x \in R : part[x] = m => \E i \in 1..size(m) : b[m][i] = x
  <2>1. size(m) \in Nat /\ size(m) <= q + 1
    OBVIOUS
  <2>2. b[m] \in [1..size(m) -> Part(m)] /\ IsInjective(b[m])
        /\ \A t \in Part(m) : \E s \in 1..size(m) : b[m][s] = t
    BY <1>1 DEF Bijection, Injection, Surjection
  <2>. HIDE DEF size
  <2>3. \A i, j \in 1..size(m) : b[m][i] = b[m][j] => i = j
    BY <2>2 DEF IsInjective
  <2>. QED BY <2>1, <2>2, <2>3
<1>3. ASSUME NEW p \in P PROVE p[1] \in 1..n /\ p[2] \in 1..size(p[1])
  BY <1>3
<1>4. ASSUME NEW m \in 1..n, NEW i \in 1..size(m) PROVE <<m, i>> \in P
  BY <1>4
<1>5. P \subseteq (1..n) \X (1..(q + 1))
  OBVIOUS
<1>6. F \in Bijection(P, R)
  <2>. HIDE DEF P, size
  <2>1. F \in [P -> R]
    BY <1>2, <1>3
  <2>2. ASSUME NEW p \in P, NEW o \in P, F[p] = F[o] PROVE p = o
    <3>1. b[p[1]][p[2]] = b[o[1]][o[2]]
      BY <2>2
    <3>2. p[1] = part[b[p[1]][p[2]]] /\ o[1] = part[b[o[1]][o[2]]]
      BY <1>2, <1>3
    <3>3. p[1] = o[1]
      BY <3>1, <3>2
    <3>4. p[2] = o[2]
      BY <1>2, <1>3, <3>1, <3>3
    <3>5. p = <<p[1], p[2]>> /\ o = <<o[1], o[2]>>
      BY <1>5
    <3>. QED BY <3>3, <3>4, <3>5
  <2>3. ASSUME NEW x \in R PROVE \E p \in P : F[p] = x
    <3>1. part[x] \in 1..n
      OBVIOUS
    <3>2. PICK i \in 1..size(part[x]) : b[part[x]][i] = x
      BY <1>2, <3>1
    <3>3. <<part[x], i>> \in P
      BY <1>4, <3>1
    <3>4. F[<<part[x], i>>] = x
      BY <3>2, <3>3
    <3>. QED BY <3>3, <3>4
  <2>. HIDE DEF F
  <2>. QED BY <2>1, <2>2, <2>3 DEF Bijection, Injection, Surjection, IsInjective
<1>. DEFINE A == (1..n) \X (1..q)
            B == (1..r) \X {q + 1}
<1>7. P = A \cup B /\ A \cap B = {}
  <2>1. ASSUME NEW m \in 1..n, NEW i \in 1..(q + 1)
        PROVE  i <= size(m) <=> (i \in 1..q \/ (m \in 1..r /\ i = q + 1))
    OBVIOUS
  <2>2. 1..r \subseteq 1..n /\ 1..q \subseteq 1..(q + 1) /\ q + 1 \in 1..(q + 1) /\ q + 1 \notin 1..q
    OBVIOUS
  <2>. HIDE DEF size
  <2>3. A \cup B \subseteq (1..n) \X (1..(q + 1))
    BY <2>2
  <2>4. ASSUME NEW p \in (1..n) \X (1..(q + 1)) PROVE p \in P <=> p \in A \cup B
    <3>1. p[1] \in 1..n /\ p[2] \in 1..(q + 1) /\ p = <<p[1], p[2]>>
      OBVIOUS
    <3>2. p \in P <=> (p[2] \in 1..q \/ (p[1] \in 1..r /\ p[2] = q + 1))
      BY <2>1, <3>1
    <3>. QED BY <3>1, <3>2
  <2>5. A \cap B = {}
    BY <2>2
  <2>6. P \subseteq (1..n) \X (1..(q + 1))
    BY <1>5
  <2>. HIDE DEF P, A, B
  <2>. QED BY <2>3, <2>4, <2>5, <2>6
<1>8. IsFiniteSet(1..n) /\ Cardinality(1..n) = n
  BY FS_Interval
<1>9. IsFiniteSet(1..q) /\ Cardinality(1..q) = q
  BY FS_Interval
<1>10. IsFiniteSet(1..r) /\ Cardinality(1..r) = r
  BY FS_Interval
<1>11. IsFiniteSet({q + 1}) /\ Cardinality({q + 1}) = 1
  BY FS_Singleton
<1>12. IsFiniteSet(A) /\ Cardinality(A) = n * q
  BY <1>8, <1>9, FS_Product
<1>13. IsFiniteSet(B) /\ Cardinality(B) = r
  <2>1. Cardinality(B) = r * 1 /\ IsFiniteSet(B)
    BY <1>10, <1>11, FS_Product
  <2>. QED BY <2>1
<1>. HIDE DEF A, B, P, F
<1>14. IsFiniteSet(P) /\ Cardinality(P) = n * q + r
  <2>1. IsFiniteSet(A \cup B) /\ Cardinality(A \cup B) = Cardinality(A) + Cardinality(B) - Cardinality(A \cap B)
    BY <1>12, <1>13, FS_Union
  <2>2. Cardinality(A \cap B) = 0
    BY <1>7, FS_EmptySet
  <2>3. n * q \in Nat /\ r \in Nat
    OBVIOUS
  <2>. QED BY <1>7, <1>12, <1>13, <2>1, <2>2, <2>3
<1>15. ExistsBijection(P, R)
  BY <1>6 DEF ExistsBijection
<1>. QED BY <1>14, <1>15, FS_Bijection

\* Fewer nodes than names are there.
LEMMA NodesFinite ==
  ASSUME ScaleTypeOK
  PROVE  /\ IsFiniteSet(Names) /\ Cardinality(Names) \in Nat
         /\ IsFiniteSet(Nodes) /\ Cardinality(Nodes) \in 0..Cardinality(Names)
         /\ Nodes \in SUBSET Names /\ Nodes \in SUBSET Int
<1>1. Nodes \in SUBSET Names /\ Nodes \in SUBSET Int /\ IsFiniteSet(Names)
  BY ScaleAssumption DEF Nodes
<1>2. IsFiniteSet(Nodes) /\ Cardinality(Nodes) <= Cardinality(Names)
  BY <1>1, FS_Subset
<1>3. Cardinality(Nodes) \in Nat /\ Cardinality(Names) \in Nat
  BY <1>1, <1>2, FS_CardinalityType
<1>. QED BY <1>1, <1>2, <1>3

\* nodes.get lists nodes, although each is chosen by its place among the names.
LEMMA ListedType ==
  ASSUME ScaleTypeOK
  PROVE  Listed \in Seq([name : Names, unschedulable : BOOLEAN])
<1>. DEFINE C == Cardinality(Nodes)
            At(k) == CHOOSE n \in Nodes : Cardinality({m \in Nodes : m <= n}) = k
<1>1. C \in Nat /\ IsFiniteSet(Nodes) /\ Nodes \in SUBSET Int /\ Nodes \in SUBSET Names
  BY NodesFinite
<1>2. ASSUME NEW k \in 1..C PROVE At(k) \in Names
  <2>1. \E n \in Nodes : Cardinality({m \in Nodes : m <= n}) = k
    BY <1>1, Ranked
  <2>2. At(k) \in Nodes
    BY <2>1
  <2>. QED BY <1>1, <2>2
<1>3. Listed = [k \in 1..C |-> [name |-> At(k), unschedulable |-> node[At(k)] = "cordoned"]]
  BY DEF Listed
<1>. HIDE DEF At, C
<1>4. Listed \in [1..C -> [name : Names, unschedulable : BOOLEAN]]
  BY <1>2, <1>3
<1>. DEFINE T == [name : Names, unschedulable : BOOLEAN]
<1>. HIDE DEF T
<1>5. [1..C -> T] \in {[1..n -> T] : n \in Nat}
  BY <1>1 DEF C
<1>6. Listed \in [1..C -> T]
  BY <1>4 DEF T
<1>7. Listed \in UNION {[1..n -> T] : n \in Nat}
  BY <1>5, <1>6
<1>8. Listed \in Seq(T)
  BY <1>7, SeqDef
<1>. QED BY <1>8 DEF T
-----------------------------------------------------------------------------
(* The scaling *)

\* Where the loops of trigger_scale.py are, and what they have done: the machine sets
\* before idx are patched, then those before idx have the ready nodes wanted of them.
LoopsInv ==
  /\ \A n \in Infra : node[n] = "ready"
  /\ scaleAt = "start" => idx = 1
  /\ scaleAt \in {"patch", "wait", "list", "walk"} => nsets = NSets /\ machine_spread = Spread
  /\ scaleAt \in {"patch", "wait"} => idx \in 1..NSets
  /\ scaleAt = "patch" => (is_rosa => idx = 1)
                          /\ \A m \in 1..NSets : m < idx => replicas[m] = machine_spread[m]
  /\ scaleAt \in {"wait", "list", "walk"} => replicas = machine_spread
  /\ scaleAt = "wait" => \A m \in 1..NSets : m < idx => Ready(m) = machine_spread[m]
  /\ scaleAt \in {"list", "walk"} => \A m \in 1..NSets : Ready(m) = machine_spread[m]

\* The number of workers in the document.
Counted ==
  scaleAt = "ok" /\ report.action # "scale_nochange" =>
    report.worker >= scale + Cardinality(Infra)

ScaleIInv == ScaleTypeOK /\ LoopsInv /\ Counted

\* The ready nodes of all machine sets, in sum.
Workers == {n \in Nodes : Owner[n] # 0 /\ node[n] = "ready"}

\* Division with a rest.
LEMMA Divided ==
  ASSUME NEW a \in Nat, NEW n \in Nat \ {0}
  PROVE  a \div n \in Nat /\ a % n \in 0..n /\ a = n * (a \div n) + (a % n)
OBVIOUS

\* The spread is a number of nodes for each machine set.
LEMMA SpreadType ==
  ASSUME ScaleTypeOK
  PROVE  /\ scale \div NSets \in Nat /\ scale % NSets \in 0..NSets
         /\ scale = NSets * (scale \div NSets) + (scale % NSets)
         /\ Spread \in [1..NSets -> Nat]
<1>1. scale \in Nat /\ NSets \in Nat \ {0}
  BY ScaleAssumption DEF ScaleTypeOK
<1>2. scale \div NSets \in Nat /\ scale % NSets \in 0..NSets
      /\ scale = NSets * (scale \div NSets) + (scale % NSets)
  BY <1>1, Divided
<1>3. Spread \in [1..NSets -> Nat]
  BY <1>2 DEF Spread
<1>. QED BY <1>2, <1>3

\* The sum of the spread is what was asked for, however it divides.
LEMMA WorkersAsAsked ==
  ASSUME ScaleTypeOK, machine_spread = Spread,
         \A m \in 1..NSets : Ready(m) = machine_spread[m]
  PROVE  Cardinality(Workers) = scale
<1>. DEFINE part == [x \in Workers |-> Owner[x]]
            q == scale \div NSets
            r == scale % NSets
<1>1. IsFiniteSet(Workers)
  <2>1. Workers \in SUBSET Nodes
    BY DEF Workers
  <2>. QED BY <2>1, NodesFinite, FS_Subset
<1>2. part \in [Workers -> 1..NSets]
  <2>1. \A x \in Workers : Owner[x] \in 0..NSets /\ Owner[x] # 0
    BY ScaleAssumption DEF Workers, Nodes
  <2>2. \A i \in 0..NSets : i # 0 => i \in 1..NSets
    BY ScaleAssumption
  <2>. QED BY <2>1, <2>2
<1>3. q \in Nat /\ r \in 0..NSets /\ scale = NSets * q + r /\ NSets \in Nat \ {0}
  <2>1. NSets \in Nat \ {0}
    BY ScaleAssumption
  <2>2. /\ scale \div NSets \in Nat /\ scale % NSets \in 0..NSets
        /\ scale = NSets * (scale \div NSets) + (scale % NSets)
    BY SpreadType
  <2>. QED BY <2>1, <2>2
<1>4. ASSUME NEW m \in 1..NSets
      PROVE  Cardinality({x \in Workers : part[x] = m}) = q + (IF m <= r THEN 1 ELSE 0)
  <2>1. {x \in Workers : part[x] = m} = {n \in Names : Owner[n] = m /\ node[n] = "ready"}
    BY DEF Workers, Nodes
  <2>2. Ready(m) = Spread[m]
    OBVIOUS
  <2>3. Spread[m] = q + (IF m <= r THEN 1 ELSE 0)
    BY DEF Spread
  <2>. QED BY <2>1, <2>2, <2>3 DEF Ready
<1>. HIDE DEF part, q, r
<1>5. Cardinality(Workers) = NSets * q + r
  <2>1. q \in Nat
    BY <1>3
  <2>2. r \in 0..NSets
    BY <1>3
  <2>3. NSets \in Nat \ {0}
    BY <1>3
  <2>4. \A m \in 1..NSets :
          Cardinality({x \in Workers : part[x] = m}) = q + (IF m <= r THEN 1 ELSE 0)
    BY <1>4
  <2>. QED BY <1>1, <1>2, <2>1, <2>2, <2>3, <2>4, CountParts, ZenonT(60)
<1>. QED BY <1>3, <1>5

\* Infra nodes are counted on top of them.
LEMMA InfraOnTop ==
  ASSUME ScaleTypeOK, \A n \in Infra : node[n] = "ready", Cardinality(Workers) = scale
  PROVE  Cardinality(Nodes) >= scale + Cardinality(Infra)
<1>1. /\ Workers \in SUBSET Nodes /\ Infra \in SUBSET Nodes /\ Workers \cap Infra = {}
      /\ Workers \cup Infra \in SUBSET Nodes
  BY ScaleAssumption DEF Workers, Nodes
<1>2. IsFiniteSet(Workers) /\ IsFiniteSet(Infra) /\ IsFiniteSet(Nodes)
  BY <1>1, NodesFinite, FS_Subset
<1>3. Cardinality(Infra) \in Nat /\ Cardinality(Nodes) \in Nat /\ scale \in Nat
  BY <1>2, FS_CardinalityType, ScaleAssumption DEF ScaleTypeOK
<1>4. Cardinality(Workers \cup Infra) =
        Cardinality(Workers) + Cardinality(Infra) - Cardinality(Workers \cap Infra)
  BY <1>2, FS_Union
<1>5. Cardinality(Workers \cap Infra) = 0
  BY <1>1, FS_EmptySet
<1>6. Cardinality(Workers \cup Infra) <= Cardinality(Nodes)
  BY <1>1, <1>2, FS_Subset
<1>. QED BY <1>3, <1>4, <1>5, <1>6

\* The cluster leaves a machine set alone that has the replicas wanted of it.
LEMMA ReadyKept ==
  ASSUME ScaleTypeOK, NEW n \in Names, Join(n) \/ Delete(n) \/ Cordon(n) \/ Gone(n),
         NEW m \in 1..NSets, Ready(m) = replicas[m]
  PROVE  Ready(m)' = Ready(m)
<1>1. replicas[m] \in Nat
  BY DEF ScaleTypeOK
<1>2. node' \in [Names -> {"absent", "ready", "deleting", "cordoned"}]
      /\ \A x \in Names : x # n => node'[x] = node[x]
  BY DEF Join, Delete, Cordon, Gone, Becomes, ScaleTypeOK
<1>3. Owner[n] = m => node[n] # "ready" /\ node'[n] # "ready"
  BY <1>1 DEF Join, Delete, Cordon, Gone, Becomes, ScaleTypeOK
<1>4. {x \in Names : Owner[x] = m /\ node'[x] = "ready"}
        = {x \in Names : Owner[x] = m /\ node[x] = "ready"}
  BY <1>2, <1>3
<1>. QED BY <1>4 DEF Ready

\* The cluster keeps the invariant, at any point of the wrapper.
LEMMA MachinesStep ==
  ASSUME ScaleIInv, Machines
  PROVE  ScaleIInv'
<1>1. PICK n \in Names : Join(n) \/ Delete(n) \/ Cordon(n) \/ Gone(n)
  BY DEF Machines
<1>2. UNCHANGED <<arguments, replicas, scaleAt, idx, machine_spread, node_list, walk, draining, report>>
  BY DEF Machines
<1>3. node' \in [Names -> {"absent", "ready", "deleting", "cordoned"}]
      /\ \A x \in Names : x # n => node'[x] = node[x]
  BY <1>1 DEF Join, Delete, Cordon, Gone, Becomes, ScaleIInv, ScaleTypeOK
<1>4. ScaleTypeOK'
  BY <1>2, <1>3 DEF ScaleIInv, ScaleTypeOK, arguments
<1>5. \A x \in Infra : node'[x] = "ready"
  <2>1. n \notin Infra
    BY <1>1, ScaleAssumption DEF Join, Delete, Cordon, Gone, Becomes, ScaleIInv, LoopsInv
  <2>2. Infra \subseteq Names
    BY ScaleAssumption
  <2>. QED BY <1>3, <2>1, <2>2 DEF ScaleIInv, LoopsInv
<1>6. ASSUME NEW m \in 1..NSets, replicas = machine_spread, Ready(m) = machine_spread[m]
      PROVE  Ready(m)' = machine_spread[m]
  BY <1>1, <1>6, ReadyKept DEF ScaleIInv
<1>7. LoopsInv'
  BY <1>2, <1>5, <1>6 DEF ScaleIInv, LoopsInv, arguments, Spread
<1>8. Counted'
  BY <1>2 DEF ScaleIInv, Counted, arguments
<1>. QED BY <1>4, <1>7, <1>8 DEF ScaleIInv

\* What the steps of the wrapper leave of the cluster.
LEMMA ReadySame ==
  ASSUME UNCHANGED node
  PROVE  Nodes' = Nodes /\ \A m \in 1..NSets : Ready(m)' = Ready(m)
BY DEF Nodes, Ready

\* Every step of the wrapper and of the cluster keeps the invariant.
LEMMA ScaleStep ==
  ASSUME ScaleIInv, [ScaleNext]_scaleVars
  PROVE  ScaleIInv'
<1>. USE DEF ScaleIInv, arguments
<1>1. CASE ScaleStart
  <2>1. CASE scaleAt' \in ScaleOver /\ UNCHANGED machine_spread /\ report'.action = "scale_nochange"
    BY <1>1, <2>1 DEF ScaleStart, ScaleTypeOK, LoopsInv, Counted, ScaleOver
  <2>2. CASE scaleAt' = "raised" /\ UNCHANGED machine_spread
    BY <1>1, <2>2 DEF ScaleStart, ScaleTypeOK, LoopsInv, Counted, ScaleOver
  <2>3. CASE nsets # 0 /\ scaleAt' = "patch" /\ machine_spread' = Spread
    <3>1. /\ UNCHANGED <<arguments, node, replicas, idx, node_list, walk, draining>>
          /\ scaleAt = "start" /\ idx = 1 /\ nsets = NSets /\ Spread' = Spread
      BY <1>1, <2>3 DEF ScaleStart, LoopsInv, ScaleTypeOK, Spread
    <3>2. ScaleTypeOK'
      BY <2>3, <3>1, SpreadType DEF ScaleTypeOK
    <3>3. 1 \in 1..NSets
      BY ScaleAssumption
    <3>4. LoopsInv' /\ Counted'
      BY <2>3, <3>1, <3>3 DEF LoopsInv, Counted
    <3>. QED BY <3>2, <3>4
  <2>4. \A w : Count(w, "scale_nochange").action = "scale_nochange"
    BY DEF Count
  <2>. DEFINE w == Cardinality(Nodes \ Infra)
  <2>5. CASE w = scale
    <3>1. scaleAt' = "ok" /\ report' = Count(w, "scale_nochange") /\ UNCHANGED machine_spread
      BY <1>1, <2>5 DEF ScaleStart
    <3>. QED BY <2>1, <2>4, <3>1 DEF ScaleOver
  <2>6. CASE w # scale /\ nsets = 0
    <3>1. scaleAt' = "raised" /\ UNCHANGED machine_spread
      BY <1>1, <2>6 DEF ScaleStart
    <3>. QED BY <2>2, <3>1
  <2>7. CASE w # scale /\ nsets # 0
    <3>1. scaleAt' = "patch" /\ machine_spread' = Spread
      BY <1>1, <2>7 DEF ScaleStart
    <3>. QED BY <2>3, <2>7, <3>1
  <2>. QED BY <2>5, <2>6, <2>7
<1>2. CASE Patch
  <2>1. /\ UNCHANGED <<arguments, node, machine_spread, node_list, walk, draining, report>>
        /\ scaleAt = "patch" /\ ~is_rosa /\ nsets = NSets /\ machine_spread = Spread
        /\ idx \in 1..NSets /\ replicas' = [replicas EXCEPT ![idx] = machine_spread[idx]]
        /\ NSets \in Nat \ {0}
    BY <1>2, ScaleAssumption DEF Patch, LoopsInv
  <2>2. replicas' \in [1..NSets -> Nat]
    BY <2>1 DEF ScaleTypeOK
  <2>3. \A m \in 1..NSets : m <= idx => replicas'[m] = machine_spread[m]
    BY <2>1 DEF LoopsInv, ScaleTypeOK
  <2>4. Spread' = Spread
    BY <2>1 DEF Spread
  <2>5. CASE idx < nsets
    <3>1. idx' = idx + 1 /\ scaleAt' = scaleAt
      BY <1>2, <2>5 DEF Patch
    <3>2. idx' \in 1..NSets /\ idx' \in Nat
      BY <2>1, <2>5, <3>1
    <3>3. \A m \in 1..NSets : m < idx' => replicas'[m] = machine_spread'[m]
      BY <2>1, <2>3, <3>1
    <3>4. LoopsInv' /\ Counted'
      BY <2>1, <2>4, <3>1, <3>2, <3>3 DEF LoopsInv, Counted
    <3>. QED BY <2>1, <2>2, <3>1, <3>2, <3>4 DEF ScaleTypeOK
  <2>6. CASE ~(idx < nsets)
    <3>1. idx' = 1 /\ scaleAt' = "wait"
      BY <1>2, <2>6 DEF Patch
    <3>2. replicas' = machine_spread'
      <4>1. \A m \in 1..NSets : replicas'[m] = machine_spread[m]
        BY <2>1, <2>3, <2>6
      <4>. QED BY <2>1, <2>2, <4>1 DEF ScaleTypeOK
    <3>3. 1 \in 1..NSets /\ \A m \in 1..NSets : ~(m < 1)
      BY <2>1
    <3>4. LoopsInv' /\ Counted'
      BY <2>1, <2>4, <3>1, <3>2, <3>3 DEF LoopsInv, Counted
    <3>. QED BY <2>1, <2>2, <3>1, <3>4 DEF ScaleTypeOK
  <2>. QED BY <2>5, <2>6
<1>3. CASE RosaScale
  <2>1. /\ UNCHANGED <<arguments, node, idx, machine_spread, node_list, walk, draining, report>>
        /\ scaleAt = "patch" /\ idx = 1 /\ nsets = NSets /\ machine_spread = Spread
        /\ NSets \in Nat \ {0} /\ Spread' = Spread
    BY <1>3, ScaleAssumption DEF RosaScale, LoopsInv, Spread
  <2>2. CASE scaleAt' = "exited" /\ UNCHANGED replicas
    BY <2>1, <2>2 DEF ScaleTypeOK, ScaleOver, LoopsInv, Counted
  <2>3. CASE /\ scale % nsets = 0 /\ scaleAt' = "wait"
             /\ replicas' = [m \in 1..NSets |-> scale \div nsets]
    <3>1. scale \div NSets \in Nat
      BY SpreadType
    <3>2. \A m \in 1..NSets : Spread[m] = scale \div NSets
      BY <2>1, <2>3, <3>1 DEF Spread
    <3>3. replicas' = Spread /\ replicas' \in [1..NSets -> Nat]
      BY <2>1, <2>3, <3>1, <3>2 DEF Spread
    <3>4. 1 \in 1..NSets /\ \A m \in 1..NSets : ~(m < 1)
      BY <2>1
    <3>5. LoopsInv' /\ Counted'
      BY <2>1, <2>3, <3>3, <3>4 DEF LoopsInv, Counted
    <3>. QED BY <2>1, <2>3, <3>3, <3>5 DEF ScaleTypeOK
  <2>. QED BY <1>3, <2>2, <2>3 DEF RosaScale
<1>4. CASE SetReady
  <2>1. /\ UNCHANGED <<arguments, node, replicas, machine_spread, node_list, walk, draining, report>>
        /\ scaleAt = "wait" /\ nsets = NSets /\ machine_spread = Spread /\ idx \in 1..NSets
        /\ Ready(idx) = machine_spread[idx] /\ replicas = machine_spread
        /\ NSets \in Nat \ {0} /\ Spread' = Spread
    BY <1>4, ScaleAssumption DEF SetReady, LoopsInv, Spread
  <2>2. \A m \in 1..NSets : m <= idx => Ready(m) = machine_spread[m]
    BY <2>1 DEF LoopsInv
  <2>3. \A m \in 1..NSets : Ready(m)' = Ready(m)
    BY <2>1, ReadySame
  <2>4. CASE idx < nsets
    <3>1. idx' = idx + 1 /\ scaleAt' = scaleAt
      BY <1>4, <2>4 DEF SetReady
    <3>2. idx' \in 1..NSets /\ idx' \in Nat
      BY <2>1, <2>4, <3>1
    <3>3. \A m \in 1..NSets : m < idx' => Ready(m)' = machine_spread'[m]
      BY <2>1, <2>2, <2>3, <3>1
    <3>4. LoopsInv' /\ Counted'
      BY <2>1, <3>1, <3>2, <3>3 DEF LoopsInv, Counted
    <3>. QED BY <2>1, <3>1, <3>2, <3>4 DEF ScaleTypeOK
  <2>5. CASE ~(idx < nsets)
    <3>1. idx' = 1 /\ scaleAt' = "list"
      BY <1>4, <2>5 DEF SetReady
    <3>2. \A m \in 1..NSets : Ready(m)' = machine_spread'[m]
      BY <2>1, <2>2, <2>3, <2>5
    <3>3. LoopsInv' /\ Counted'
      BY <2>1, <3>1, <3>2 DEF LoopsInv, Counted
    <3>. QED BY <2>1, <3>1, <3>3 DEF ScaleTypeOK
  <2>. QED BY <2>4, <2>5
<1>5. CASE FirstList \/ Refetch \/ NextNode
  <2>1. /\ UNCHANGED <<arguments, node, replicas, machine_spread, report>>
        /\ scaleAt \in {"list", "walk"} /\ scaleAt' = "walk" /\ Spread' = Spread
        /\ walk' \in {walk, Cardinality(Nodes)} /\ node_list' \in {node_list, Listed}
        /\ draining' \subseteq Names /\ idx' \in {idx, idx + 1}
    BY <1>5 DEF FirstList, Refetch, NextNode, Spread, ScaleTypeOK
  <2>2. ScaleTypeOK'
    BY <2>1, ListedType, NodesFinite DEF ScaleTypeOK
  <2>3. \A m \in 1..NSets : Ready(m)' = Ready(m)
    BY <2>1, ReadySame
  <2>4. LoopsInv' /\ Counted'
    BY <2>1, <2>3 DEF LoopsInv, Counted
  <2>. QED BY <2>2, <2>4
<1>6. CASE CountAgain
  <2>1. /\ UNCHANGED <<arguments, node, replicas, idx, machine_spread, node_list, walk, draining>>
        /\ scaleAt = "walk" /\ scaleAt' = "ok" /\ report' = Count(report.init, report.action)
    BY <1>6 DEF CountAgain
  <2>2. Cardinality(Nodes) >= scale + Cardinality(Infra)
    BY <2>1, WorkersAsAsked, InfraOnTop DEF LoopsInv
  <2>3. report'.action # "scale_nochange" => report'.worker = Cardinality(Nodes)
    BY <2>1 DEF Count
  <2>4. Counted'
    BY <2>1, <2>2, <2>3 DEF Counted
  <2>. QED BY <2>1, <2>4 DEF ScaleTypeOK, ScaleOver, LoopsInv
<1>7. CASE ScaleCallFails
  BY <1>7 DEF ScaleCallFails, ScaleTypeOK, ScaleOver, LoopsInv, Counted
<1>8. CASE Machines
  BY <1>8, MachinesStep
<1>9. CASE UNCHANGED scaleVars
  BY <1>9, ReadySame DEF scaleVars, ScaleTypeOK, LoopsInv, Counted, Spread
<1>. QED BY <1>1, <1>2, <1>3, <1>4, <1>5, <1>6, <1>7, <1>8, <1>9 DEF ScaleNext, ScaleSteps

\* A cluster at rest.
LEMMA ScaleStarts == ScaleInit => ScaleIInv
<1>. SUFFICES ASSUME ScaleInit PROVE ScaleIInv
  OBVIOUS
<1>1. PICK there \in SUBSET Names :
        /\ Infra \subseteq there
        /\ node = [n \in Names |-> IF n \in there THEN "ready" ELSE "absent"]
        /\ replicas = [m \in 1..NSets |-> Cardinality({n \in there : Owner[n] = m})]
  BY DEF ScaleInit
<1>2. ASSUME NEW m \in 1..NSets PROVE Cardinality({n \in there : Owner[n] = m}) \in Nat
  <2>1. {n \in there : Owner[n] = m} \in SUBSET Names /\ IsFiniteSet(Names)
    BY ScaleAssumption
  <2>2. IsFiniteSet({n \in there : Owner[n] = m})
    BY <2>1, FS_Subset
  <2>. QED BY <2>2, FS_CardinalityType
<1>3. replicas \in [1..NSets -> Nat]
  BY <1>1, <1>2
<1>4. 0 \in 0..Cardinality(Names)
  <2>1. Cardinality(Names) \in Nat
    BY ScaleAssumption, FS_CardinalityType
  <2>. QED BY <2>1
<1>5. node \in [Names -> {"absent", "ready", "deleting", "cordoned"}]
  BY <1>1
<1>6. ScaleTypeOK
  BY <1>3, <1>4, <1>5 DEF ScaleInit, ScaleTypeOK
<1>7. \A n \in Infra : node[n] = "ready"
  BY <1>1, ScaleAssumption
<1>8. LoopsInv /\ Counted
  BY <1>7 DEF ScaleInit, LoopsInv, Counted
<1>. QED BY <1>6, <1>8 DEF ScaleIInv

\* What the documents of a scaling say follows from its invariant.
LEMMA ScaleFollows == ScaleIInv => ScaleInv
<1>. SUFFICES ASSUME ScaleIInv PROVE ScaleInv
  OBVIOUS
<1>1. scaleAt = "walk" => Cardinality(Workers) = scale
  BY WorkersAsAsked DEF ScaleIInv, LoopsInv
<1>. QED BY <1>1 DEF ScaleIInv, ScaleInv, ScaleHonest, Counted, Workers
-----------------------------------------------------------------------------
(* The theorems *)

\* One of the tools runs, and the others stay where they are.
LEMMA OneTool ==
  ASSUME [Next]_vars
  PROVE  [LogNext]_logVars /\ [UpNext]_upVars /\ [ScaleNext]_scaleVars
BY DEF Next, vars, Log, Upgrade, Scale, Script

\* The document of the log generator: what it says was received was there, messages are
\* confirmed when all but the tolerance are, up to those a check of Kafka may deliver twice,
\* and a run without a confirmation has waited for the whole timeout.
THEOREM LogReportIsHonest == Spec => []LogInv
<1>1. Init => LogIInv
  BY LogStarts DEF Init
<1>2. LogIInv /\ [Next]_vars => LogIInv'
  BY LogStep, OneTool
<1>3. LogIInv => LogInv
  BY DEF LogIInv, LogInv, LogTypeOK, ReportHonest, ReceivedInv, ClockInv, NoCheck
<1>. QED BY <1>1, <1>2, <1>3, PTL DEF Spec

\* The document of an upgrade that ended within its timeout is about the version asked
\* for, and the cluster completed it, whenever the cluster took the request up.
THEOREM UpgradeReportIsHonest == Spec => []UpInv
<1>1. Init => UpIInv
  BY UpStarts DEF Init
<1>2. UpIInv /\ [Next]_vars => UpIInv'
  BY UpStep, OneTool
<1>. QED BY <1>1, <1>2, UpFollows, PTL DEF Spec

\* When the workers are counted the machine sets have the number of ready nodes asked
\* for, however it divides, and the document tells no fewer.
THEOREM ScaleReportIsHonest == Spec => []ScaleInv
<1>1. Init => ScaleIInv
  BY ScaleStarts DEF Init
<1>2. ScaleIInv /\ [Next]_vars => ScaleIInv'
  BY ScaleStep, OneTool
<1>. QED BY <1>1, <1>2, ScaleFollows, PTL DEF Spec
=============================================================================
