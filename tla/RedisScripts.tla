---------------------------- MODULE RedisScripts ----------------------------
(***************************************************************************)
(* snafu/utils/redis_scripts: publisher.py waits until pod_count           *)
(* subscribers are there and publishes "run"; subscriber.py waits for it.  *)
(* The server holds the subscriptions and a queue for each.                *)
(***************************************************************************)
EXTENDS Naturals, FiniteSets, Sequences

CONSTANTS Subscribers, pod_count

VARIABLES
  numsub,         \* the publisher's: the answer to NUMSUB
  publisher,     \* "poll", "publish", "returned" or "failed"
  subscriber,    \* per pod: "new", "listen", "returned" or "failed"
  channel,       \* the server: pods subscribed
  inbox          \* the server: messages to each that it has not taken

redisVars == <<numsub, publisher, subscriber, channel, inbox>>

ScriptOver == {"returned", "failed"}

ScriptInit ==
  /\ numsub = 0 /\ publisher = "poll"
  /\ subscriber = [p \in Subscribers |-> "new"] /\ channel = {}
  /\ inbox = [p \in Subscribers |-> <<>>]

\* p.subscribe; the server answers with a message of its own.
SubscribeTo(p) ==
  /\ subscriber[p] = "new"
  /\ subscriber' = [subscriber EXCEPT ![p] = "listen"]
  /\ channel' = channel \cup {p}
  /\ inbox' = [inbox EXCEPT ![p] = Append(@, "subscribe")]
  /\ UNCHANGED <<numsub, publisher>>

\* get_message takes one message; any other than "run" is passed over.
GetMessage(p) ==
  /\ subscriber[p] = "listen" /\ inbox[p] # <<>>
  /\ inbox' = [inbox EXCEPT ![p] = Tail(@)]
  /\ IF Head(inbox[p]) = "run"
     THEN subscriber' = [subscriber EXCEPT ![p] = "returned"] /\ channel' = channel \ {p}
     ELSE UNCHANGED <<subscriber, channel>>
  /\ UNCHANGED <<numsub, publisher>>

\* One turn of the loop, which ends when the number is pod_count, no more and no less.
PollNumsub ==
  /\ publisher = "poll"
  /\ numsub' = Cardinality(channel)
  /\ publisher' = IF numsub' = pod_count THEN "publish" ELSE "poll"
  /\ UNCHANGED <<subscriber, channel, inbox>>

\* A second later: r.publish reaches those that are subscribed by then.
Publish ==
  /\ publisher = "publish"
  /\ publisher' = "returned"
  /\ inbox' = [p \in Subscribers |-> IF p \in channel THEN Append(inbox[p], "run") ELSE inbox[p]]
  /\ UNCHANGED <<numsub, subscriber, channel>>

\* An exception of the connection: the script prints it and returns; a pod's subscription
\* is gone.
PublisherFails ==
  /\ publisher \notin ScriptOver
  /\ publisher' = "failed"
  /\ UNCHANGED <<numsub, subscriber, channel, inbox>>

SubscriberFails(p) ==
  /\ subscriber[p] \notin ScriptOver
  /\ subscriber' = [subscriber EXCEPT ![p] = "failed"] /\ channel' = channel \ {p}
  /\ UNCHANGED <<numsub, publisher, inbox>>

ScriptSteps == PollNumsub \/ Publish \/ \E p \in Subscribers : SubscribeTo(p) \/ GetMessage(p)
ScriptNext  == ScriptSteps \/ PublisherFails \/ \E p \in Subscribers : SubscriberFails(p)
-----------------------------------------------------------------------------
\* When as many pods as the publisher waits for come, and no connection fails, all of
\* them and the publisher return.
ScriptsEnd ==
  Cardinality(Subscribers) = pod_count =>
    \/ <>(publisher = "returned" /\ \A p \in Subscribers : subscriber[p] = "returned")
    \/ <>("failed" \in {publisher} \cup {subscriber[p] : p \in Subscribers})
=============================================================================
