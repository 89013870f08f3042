----------------------------- MODULE RedisSync -----------------------------
(***************************************************************************)
(* snafu/utils/sync_pods_with_redis.py:redis_sync_pods, run by every pod   *)
(* of a benchmark on a sequence of syncpoints (one channel each), and the  *)
(* Redis server it talks to, which is external.                            *)
(*                                                                         *)
(* p.subscribe sends SUBSCRIBE on the connection of the PubSub object and  *)
(* does not wait for the reply; pubsub_numsub and publish use another      *)
(* connection of the pool.  The server orders commands per connection, so  *)
(* NUMSUB may be served before the SUBSCRIBE of the same pod (overtaking). *)
(* A pod that raises leaves its process, and the kernel closes its         *)
(* connections.  Restarting a pod is not done by this code and not         *)
(* modelled.                                                               *)
(***************************************************************************)
EXTENDS Integers, Sequences, FiniteSets

CONSTANTS Pods,      \* the pods of one benchmark; "clients" is their number
          Channels   \* the syncpoints

ASSUME PodsAssumption == IsFiniteSet(Pods) /\ Channels # {}

clients == Cardinality(Pods)

VARIABLES
  at,          \* per pod: where it is in redis_sync_pods, or outside of it
  chan,        \* per pod: the channel of the call it is in, or was last in
  registered,  \* per channel: the pods whose subscription the server holds
  inbox,       \* per pod: messages on its subscription it has not read
  overtakes,   \* environment: TRUE when NUMSUB may overtake SUBSCRIBE
  arrived,     \* history: per channel, the pods that called redis_sync_pods
  passed       \* history: per channel, the pods whose call returned

syncVars == <<at, chan, registered, inbox, overtakes, arrived, passed>>

Places   == {"outside", "subscribed", "complete", "listening", "leaving", "closing", "raised"}
Messages == {"continue", "running"}

SyncTypeOK ==
  /\ at \in [Pods -> Places]
  /\ chan \in [Pods -> Channels]
  /\ registered \in [Channels -> SUBSET Pods]
  /\ inbox \in [Pods -> Seq(Messages)]
  /\ overtakes \in BOOLEAN
  /\ arrived \in [Channels -> SUBSET Pods]
  /\ passed \in [Channels -> SUBSET Pods]

SyncInit ==
  /\ at = [p \in Pods |-> "outside"]
  /\ chan = [p \in Pods |-> CHOOSE c \in Channels : TRUE]
  /\ registered = [c \in Channels |-> {}]
  /\ inbox = [p \in Pods |-> <<>>]
  /\ overtakes \in BOOLEAN
  /\ arrived = [c \in Channels |-> {}]
  /\ passed = [c \in Channels |-> {}]

Goes(p, from, to) == at[p] = from /\ at' = [at EXCEPT ![p] = to]

\* The server appends the message to the inbox of every subscriber of the channel.
Deliver(c, m) ==
  inbox' = [p \in Pods |-> IF p \in registered[c] THEN Append(inbox[p], m) ELSE inbox[p]]

\* The server drops the subscription of a connection that was closed.
Close(p) ==
  /\ registered' = [registered EXCEPT ![chan[p]] = @ \ {p}]
  /\ inbox' = [inbox EXCEPT ![p] = <<>>]

\* SUBSCRIBE is sent.
Subscribe(p, c) ==
  /\ Goes(p, "outside", "subscribed")
  /\ chan' = [chan EXCEPT ![p] = c]
  /\ arrived' = [arrived EXCEPT ![c] = @ \cup {p}]
  /\ UNCHANGED <<registered, inbox, overtakes, passed>>

\* SUBSCRIBE is served; the confirmation, whose data is a number, is not kept.
Register(p) ==
  /\ at[p] \in {"subscribed", "complete", "listening"}
  /\ p \notin registered[chan[p]]
  /\ registered' = [registered EXCEPT ![chan[p]] = @ \cup {p}]
  /\ UNCHANGED <<at, chan, inbox, overtakes, arrived, passed>>

\* Variants of Full: one subscriber short; one too many.
FullButOne(c)   == Cardinality(registered[c]) >= clients - 1
FullPlusOne(c)  == Cardinality(registered[c]) = clients + 1
Full(c) == Cardinality(registered[c]) = clients

Numsub(p) ==
  /\ overtakes \/ p \in registered[chan[p]]
  /\ Goes(p, "subscribed", IF Full(chan[p]) THEN "complete" ELSE "listening")
  /\ UNCHANGED <<chan, registered, inbox, overtakes, arrived, passed>>

PublishContinue(p) ==
  /\ Goes(p, "complete", "listening")
  /\ Deliver(chan[p], "continue")
  /\ UNCHANGED <<chan, registered, overtakes, arrived, passed>>

\* p.listen: "continue" ends the loop, anything else is dropped.
Listen(p) ==
  /\ inbox[p] # <<>>
  /\ Goes(p, "listening", IF Head(inbox[p]) = "continue" THEN "leaving" ELSE "listening")
  /\ inbox' = [inbox EXCEPT ![p] = Tail(@)]
  /\ UNCHANGED <<chan, registered, overtakes, arrived, passed>>

PublishRunning(p) ==
  /\ Goes(p, "leaving", "closing")
  /\ Deliver(chan[p], "running")
  /\ UNCHANGED <<chan, registered, overtakes, arrived, passed>>

\* r.connection_pool.disconnect(), and the call returns.
Disconnect(p) ==
  /\ Goes(p, "closing", "outside")
  /\ Close(p)
  /\ passed' = [passed EXCEPT ![chan[p]] = @ \cup {p}]
  /\ UNCHANGED <<chan, overtakes, arrived>>

\* Variants of Timeout: the error is caught and the pod goes on; no timeout is set.
TimeoutGoesOn(p) ==
  /\ inbox[p] = <<>>
  /\ Goes(p, "listening", "closing")
  /\ UNCHANGED <<chan, registered, inbox, overtakes, arrived, passed>>
TimeoutNever(p) == FALSE /\ UNCHANGED syncVars

\* Nothing came within socket_timeout: the call raises and the process ends.
Timeout(p) ==
  /\ inbox[p] = <<>>
  /\ Goes(p, "listening", "raised")
  /\ Close(p)
  /\ UNCHANGED <<chan, overtakes, arrived, passed>>

\* The process dies outside or inside the call.
Die(p) ==
  /\ at[p] # "raised"
  /\ at' = [at EXCEPT ![p] = "raised"]
  /\ Close(p)
  /\ UNCHANGED <<chan, overtakes, arrived, passed>>

\* The steps of a call after its first, timeouts aside.
Proceed(p) ==
  \/ Register(p) \/ Numsub(p) \/ PublishContinue(p)
  \/ Listen(p) \/ PublishRunning(p) \/ Disconnect(p)
-----------------------------------------------------------------------------
\* Each pod calls redis_sync_pods at most once per channel: the channel's name
\* has the sample and the operation in it.
SyncNext ==
  \E p \in Pods :
    \/ \E c \in Channels : p \notin arrived[c] /\ Subscribe(p, c)
    \/ Proceed(p) \/ Timeout(p) \/ Die(p)

SyncSpec == SyncInit /\ [][SyncNext]_syncVars
-----------------------------------------------------------------------------
Inbox(p) == {inbox[p][i] : i \in 1..Len(inbox[p])}

\* Whoever is told to continue, or is about to tell, is on a channel where every
\* pod has arrived.
ContinueMeansAllArrived ==
  \A p \in Pods :
    at[p] \in {"complete", "leaving", "closing"} \/ "continue" \in Inbox(p)
      => arrived[chan[p]] = Pods

\* Only pods that arrived are registered, and only on the channel they are on.
RegisteredArrived ==
  \A c \in Channels : \A p \in registered[c] : p \in arrived[c] /\ chan[p] = c

\* A pod passes a syncpoint only after every pod arrived at it.
PassedMeansAllArrived ==
  \A c \in Channels : passed[c] # {} => arrived[c] = Pods

\* A pod that is not in a call has no subscription and no messages.
OutsideIsClean ==
  \A p \in Pods :
    at[p] \in {"outside", "raised"} => inbox[p] = <<>> /\ \A c \in Channels : p \notin registered[c]

\* A pod in a call has arrived at its channel.
CallersArrived ==
  \A p \in Pods : at[p] \notin {"outside", "raised"} => p \in arrived[chan[p]]

SyncInv ==
  /\ SyncTypeOK
  /\ CallersArrived
  /\ RegisteredArrived
  /\ OutsideIsClean
  /\ ContinueMeansAllArrived
  /\ PassedMeansAllArrived

\* "This message is sent to the channel by the latest smallfile client"
\* (smallfile_wrapper/README.md): the pods are never all subscribed to a channel
\* and waiting for a message that nobody has sent.
SomebodyPublishes ==
  \A c \in Channels :
    ~ \A p \in Pods :
        p \in registered[c] /\ chan[p] = c /\ at[p] = "listening" /\ inbox[p] = <<>>

Barrier == INSTANCE PodBarrier

\* redis_sync_pods implements the barrier it promises.
ImplementsBarrier == Barrier!BarrierSpec
=============================================================================
