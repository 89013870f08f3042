---------------------------- MODULE LogGenerator ----------------------------
(***************************************************************************)
(* snafu/log_generator_wrapper/trigger_log_generator.py: messages are      *)
(* written at a rate, then a backend is asked until all but Tolerance of   *)
(* them are there or the timeout has passed, and one document reports it.  *)
(* The way of the messages to the backend is external: they arrive late,   *)
(* in any number, or never.  Kafka's consumer is external too: it delivers *)
(* the messages of all partitions that have come since it was opened, and  *)
(* those after the offset it is put to; messages are numbered as they come.*)
(***************************************************************************)
EXTENDS Integers, FiniteSets

CONSTANTS PerSecond,   \* messages_per_second, or 0 with messages_per_minute
          Total,       \* total_messages
          Tolerance,   \* 10: so many messages may miss (line 286)
          Timeouts,    \* values of --timeout
          Partitions   \* of the Kafka topic

ASSUME LogAssumption ==
  /\ PerSecond \in Nat /\ Total \in Nat \ {0} /\ Tolerance \in Nat /\ Timeouts \subseteq Int
  /\ PerSecond # 0 => Total % PerSecond = 0
  /\ Partitions \in Nat \ {0}

Backends == {"cloudwatch", "es", "kafka", "unchecked"}

VARIABLES
  backend, timeout,
  partition,    \* where in the topic each message comes to
  logAt,        \* "send", "loop", "query", "turn", "kafka", "checked", or how it ended
  count,        \* messages written
  arrived,      \* messages the backend holds
  elapsed,      \* current_time - end_time
  query,        \* the CloudWatch query: "none", "Running", "Complete" or "Failed"
  turn,         \* the partition whose turn it is in a check of Kafka
  unread,       \* the messages the consumer is going to deliver
  counted,      \* count of _check_kafka
  since,        \* the messages that were there when the consumer was opened
  busy,         \* less than a second lies between other messages on the topic
  received,     \* messages_received; -1: not bound
  received_all,
  post          \* post_complete_time

logVars  == <<backend, timeout, partition, logAt, count, arrived, elapsed, query, turn, unread,
              counted, since, busy, received, received_all, post>>
static   == <<backend, timeout, partition>>
consumer == <<turn, unread, counted, since>>
result   == <<received, received_all, post>>

LogOver == {"ok", "exited", "raised"}

LogTypeOK ==
  /\ backend \in Backends /\ timeout \in Timeouts /\ partition \in [1..Total -> 1..Partitions]
  /\ logAt \in {"send", "loop", "query", "turn", "kafka", "checked"} \cup LogOver
  /\ count \in 0..Total /\ arrived \in 0..count /\ elapsed \in Nat
  /\ query \in {"none", "Running", "Complete", "Failed"}
  /\ turn \in 1..(Partitions + 1) /\ unread \subseteq 1..arrived /\ counted \in Nat
  /\ since \in 0..arrived /\ busy \in BOOLEAN
  /\ received \in Nat \cup {-1} /\ received_all \in BOOLEAN /\ post \in Nat

LogInit ==
  /\ backend \in Backends /\ timeout \in Timeouts /\ partition \in [1..Total -> 1..Partitions]
  /\ logAt = "send" /\ count = 0 /\ arrived = 0 /\ elapsed = 0 /\ query = "none"
  /\ turn = 1 /\ unread = {} /\ counted = 0 /\ since = 0 /\ busy = FALSE
  /\ received = -1 /\ received_all = FALSE /\ post = 0

\* One message and the delay, or the messages of one second.
Send ==
  /\ logAt = "send" /\ count < Total
  /\ count' = count + (IF PerSecond = 0 THEN 1 ELSE PerSecond)
  /\ UNCHANGED <<static, logAt, arrived, elapsed, query, consumer, busy, result>>

\* end_time is taken; current_time is later, by less than a second.
AllSent ==
  /\ logAt = "send" /\ count = Total
  /\ logAt' = IF backend = "unchecked" THEN "ok" ELSE "loop"
  /\ UNCHANGED <<static, count, arrived, elapsed, query, consumer, busy, result>>

\* A message is there.  A consumer that is open is going to deliver it.
Arrive ==
  /\ arrived < count /\ logAt \notin LogOver
  /\ arrived' = arrived + 1
  /\ unread' = IF logAt \in {"turn", "kafka"} THEN unread \cup {arrived'} ELSE unread
  /\ UNCHANGED <<static, logAt, count, elapsed, query, turn, counted, since, busy, result>>

\* current_time is a fraction after end_time + elapsed.
Again == ~received_all /\ elapsed < timeout

\* CloudWatch: a query is started, and looked at every second.
StartQuery ==
  /\ logAt = "loop" /\ Again /\ backend = "cloudwatch"
  /\ logAt' = "query" /\ query' = "Running"
  /\ UNCHANGED <<static, count, arrived, elapsed, consumer, busy, result>>

QueryEnds ==
  /\ query = "Running" /\ query' \in {"Complete", "Failed"}
  /\ UNCHANGED <<static, logAt, count, arrived, elapsed, consumer, busy, result>>

\* A query that is not Complete is looked at again, a failed one too.
PollQuery == logAt = "query" /\ query # "Complete" /\ UNCHANGED logVars

\* Variant of Enough: the tolerance counts on both sides.
EnoughTwice(n) == n >= count - 2 * Tolerance

Enough(n) == n >= count - Tolerance

\* The number of messages is compared, and post_complete_time is taken.
Gets(n) ==
  /\ received' = n /\ received_all' = Enough(n)
  /\ logAt' = "checked"

\* What is counted may be less than what is there by now.
QueryResult ==
  /\ logAt = "query" /\ query = "Complete"
  /\ \E n \in 0..arrived : Gets(n)
  /\ query' = "none"
  /\ UNCHANGED <<static, count, arrived, elapsed, consumer, busy, post>>

\* Elasticsearch: a query that fails counts for 0.
Ask ==
  /\ logAt = "loop" /\ Again /\ backend = "es"
  /\ \E n \in {0, arrived} : Gets(n)
  /\ UNCHANGED <<static, count, arrived, elapsed, query, consumer, busy, post>>

\* A consumer of the topic is opened, and polled so that it can be put to an offset; no
\* connection ends the process.
Connect ==
  /\ logAt = "loop" /\ Again /\ backend = "kafka"
  /\ \/ logAt' = "turn" /\ turn' = 1 /\ unread' = {} /\ counted' = 0 /\ since' = arrived
     \/ logAt' = "exited" /\ UNCHANGED consumer
  /\ UNCHANGED <<static, count, arrived, elapsed, query, busy, result>>

\* The messages in a partition.
In(p) == {m \in 1..arrived : partition[m] = p}

\* The consumer is put to the first message of the partition whose turn it is, whatever
\* it has delivered of it; a partition without messages is passed over.
Seek ==
  /\ logAt = "turn" /\ turn <= Partitions
  /\ \/ logAt' = "kafka" /\ unread' = unread \cup In(turn) /\ UNCHANGED turn
     \/ In(turn) = {} /\ turn' = turn + 1 /\ UNCHANGED <<logAt, unread>>
  /\ UNCHANGED <<static, count, arrived, elapsed, query, counted, since, busy, result>>

\* The consumer delivers a message, of any partition, and it is counted.
ReadOwn ==
  /\ logAt = "kafka"
  /\ \E m \in unread : unread' = unread \ {m}
  /\ counted' = counted + 1
  /\ UNCHANGED <<static, logAt, count, arrived, elapsed, query, turn, since, busy, result>>

\* No message for a second (consumer_timeout_ms), from a topic that is silent or a slow
\* broker: the turn of the next partition.
Silence ==
  /\ logAt = "kafka" /\ ~busy
  /\ logAt' = "turn" /\ turn' = turn + 1
  /\ UNCHANGED <<static, count, arrived, elapsed, query, unread, counted, since, busy, result>>

\* A message past the end breaks the loop: one of somebody else or a late one of ours.
BreakOff ==
  /\ logAt = "kafka"
  /\ logAt' = "turn" /\ turn' = turn + 1
  /\ unread' = unread \/ \E m \in unread : unread' = unread \ {m}
  /\ UNCHANGED <<static, count, arrived, elapsed, query, counted, since, busy, result>>

\* Every partition had its turn.
Tally ==
  /\ logAt = "turn" /\ turn > Partitions
  /\ Gets(counted)
  /\ UNCHANGED <<static, count, arrived, elapsed, query, consumer, busy, post>>

\* Nothing guards the calls of AWS and of an open consumer, nor the reading of a message
\* that is not JSON or has no "message".
CheckRaises ==
  /\ \/ logAt = "loop" /\ Again /\ backend \in {"cloudwatch", "kafka"}
     \/ logAt \in {"query", "turn", "kafka"}
  /\ logAt' = "raised"
  /\ UNCHANGED <<static, count, arrived, elapsed, query, consumer, busy, result>>

\* The other producers of the topic begin or stop.
Others ==
  /\ logAt = "kafka" /\ busy' = ~busy
  /\ UNCHANGED <<static, logAt, count, arrived, elapsed, query, consumer, result>>

\* Variant of Sleep: current_time is not read again.
SleepStale ==
  /\ logAt = "checked"
  /\ logAt' = "loop"
  /\ post' = elapsed + 1
  /\ UNCHANGED <<static, elapsed, count, arrived, query, consumer, busy, received, received_all>>

\* A second, 31 of them with Kafka, before the next look at the clock.
Sleep ==
  /\ logAt = "checked"
  /\ logAt' = "loop"
  /\ elapsed' = IF received_all THEN elapsed ELSE elapsed + 1
  /\ post' = elapsed'
  /\ UNCHANGED <<static, count, arrived, query, consumer, busy, received, received_all>>

\* The loop is over.  When it was never entered, messages_received has no value.
Report ==
  /\ logAt = "loop" /\ ~Again
  /\ logAt' = IF received = -1 THEN "raised" ELSE "ok"
  /\ UNCHANGED <<static, count, arrived, elapsed, query, consumer, busy, result>>

LogSteps ==
  \/ Send \/ AllSent \/ StartQuery \/ QueryResult \/ Ask
  \/ Connect \/ Seek \/ ReadOwn \/ Silence \/ Tally \/ Sleep \/ Report
LogNext  == LogSteps \/ PollQuery \/ BreakOff \/ CheckRaises \/ Arrive \/ QueryEnds \/ Others
-----------------------------------------------------------------------------
\* The messages that came while Kafka was checked, to a partition but the first: one of
\* them may be delivered before the turn of its partition, and again in it.
Twice == {m \in (since + 1)..arrived : backend = "kafka" /\ partition[m] # 1}

\* What the document says: messages are confirmed when all but Tolerance of them are in
\* the backend, and a run that is not confirmed has waited for the whole timeout.  Kafka's
\* consumer loop counts at most those twice that came during the last check.
ReportHonest ==
  logAt = "ok" /\ backend # "unchecked" =>
    /\ received <= arrived + Cardinality(Twice)
    /\ received_all => arrived + Cardinality(Twice) >= count - Tolerance
    /\ ~received_all => post >= timeout

\* Each variable has a value the code can give it, and ReportHonest.
LogInv == LogTypeOK /\ ReportHonest

\* The generator ends, if the queries CloudWatch is given complete and the other
\* producers of the Kafka topic leave a second between two messages in the end.
LogEnds ==
  (query = "Running" ~> query = "Complete") /\ <>[]~busy => <>(logAt \in LogOver)
=============================================================================
