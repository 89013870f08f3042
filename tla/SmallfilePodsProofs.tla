------------------------ MODULE SmallfilePodsProofs ------------------------
(***************************************************************************)
(* redis_sync_pods is a barrier for every finite set of pods and every set *)
(* of syncpoints, whatever order the server serves NUMSUB and SUBSCRIBE    *)
(* in, and whichever pods time out or die.  With its syncpoints around it, *)
(* an operation that is measured never runs while another pod drops the    *)
(* caches or is at another operation, for every sequence of operations.    *)
(***************************************************************************)
EXTENDS SmallfilePods, TLAPS, FiniteSetTheorems

\* NUMSUB equal to "clients" means that every pod is registered, and so arrived.
LEMMA FullMeansAllArrived ==
  ASSUME SyncInv, NEW c \in Channels, Full(c)
  PROVE  arrived[c] = Pods
<1>1. registered[c] \subseteq Pods /\ arrived[c] \subseteq Pods
  BY DEF SyncInv, SyncTypeOK
<1>2. registered[c] \subseteq arrived[c]
  BY DEF SyncInv, RegisteredArrived
<1>3. IsFiniteSet(Pods) /\ Cardinality(registered[c]) = Cardinality(Pods)
  BY PodsAssumption DEF Full, clients
<1>4. registered[c] = Pods
  BY <1>1, <1>3, FS_Subset
<1> QED
  BY <1>1, <1>2, <1>4

\* The messages in an inbox after an append and before its head was removed.
LEMMA InboxFacts ==
  ASSUME NEW s \in Seq(Messages), NEW m \in Messages
  PROVE  /\ Append(s, m) \in Seq(Messages)
         /\ \A i \in 1..Len(Append(s, m)) :
              Append(s, m)[i] = m \/ \E j \in 1..Len(s) : s[j] = Append(s, m)[i]
         /\ s # <<>> => /\ Tail(s) \in Seq(Messages)
                        /\ Head(s) = s[1] /\ 1 \in 1..Len(s)
                        /\ \A i \in 1..Len(Tail(s)) : \E j \in 1..Len(s) : s[j] = Tail(s)[i]
<1>1. Append(s, m) \in Seq(Messages)
  OBVIOUS
<1>2. ASSUME NEW i \in 1..Len(Append(s, m))
      PROVE  Append(s, m)[i] = m \/ \E j \in 1..Len(s) : s[j] = Append(s, m)[i]
  <2>1. CASE i = Len(s) + 1
    BY <2>1
  <2>2. CASE i \in 1..Len(s)
    BY <2>2
  <2> QED
    BY <2>1, <2>2
<1>3. ASSUME s # <<>>
      PROVE  /\ Tail(s) \in Seq(Messages)
             /\ Head(s) = s[1] /\ 1 \in 1..Len(s)
             /\ \A i \in 1..Len(Tail(s)) : \E j \in 1..Len(s) : s[j] = Tail(s)[i]
  <2>1. /\ Tail(s) \in Seq(Messages) /\ Len(Tail(s)) = Len(s) - 1
        /\ Head(s) = s[1] /\ Len(s) \in Nat \ {0}
        /\ \A i \in 1..Len(Tail(s)) : Tail(s)[i] = s[i + 1] /\ i + 1 \in 1..Len(s)
    BY <1>3
  <2> QED
    BY <2>1
<1> QED
  BY <1>1, <1>2, <1>3
-----------------------------------------------------------------------------
\* Nothing has arrived, nobody is registered.
LEMMA SyncInitInv == SyncInit => SyncInv
<1> SUFFICES ASSUME SyncInit PROVE SyncInv
  OBVIOUS
<1>1. (CHOOSE c \in Channels : TRUE) \in Channels
  BY PodsAssumption
<1>2. SyncTypeOK
  BY <1>1 DEF SyncInit, SyncTypeOK, Places
<1>3. CallersArrived /\ RegisteredArrived /\ OutsideIsClean /\ PassedMeansAllArrived
  BY DEF SyncInit, CallersArrived, RegisteredArrived, OutsideIsClean, PassedMeansAllArrived
<1>4. ContinueMeansAllArrived
  BY DEF SyncInit, ContinueMeansAllArrived, Inbox
<1> QED
  BY <1>2, <1>3, <1>4 DEF SyncInv

\* A pod enters a call: its channel changes while it has no subscription and no
\* messages, and the pods arrived at the channel only grow.
LEMMA SubscribeInv ==
  ASSUME SyncInv, NEW p \in Pods, NEW c \in Channels, Subscribe(p, c)
  PROVE  SyncInv'
<1>1. /\ SyncTypeOK /\ at[p] = "outside"
      /\ at' = [at EXCEPT ![p] = "subscribed"] /\ chan' = [chan EXCEPT ![p] = c]
      /\ arrived' = [arrived EXCEPT ![c] = @ \cup {p}]
      /\ UNCHANGED <<registered, inbox, overtakes, passed>>
  BY DEF SyncInv, Subscribe, Goes
<1>2. inbox[p] = <<>> /\ \A d \in Channels : p \notin registered[d]
  BY <1>1 DEF SyncInv, OutsideIsClean
<1>3. SyncTypeOK'
  BY <1>1 DEF SyncTypeOK, Places
<1>4. \A d \in Channels : arrived[d] \subseteq arrived'[d] /\ arrived'[d] \subseteq Pods
  BY <1>1 DEF SyncTypeOK
<1>5. RegisteredArrived'
  BY <1>1, <1>2, <1>4 DEF SyncInv, SyncTypeOK, RegisteredArrived
<1>6. OutsideIsClean'
  BY <1>1, <1>2 DEF SyncInv, SyncTypeOK, OutsideIsClean
<1>7. ContinueMeansAllArrived'
  <2> SUFFICES ASSUME NEW q \in Pods,
                      at'[q] \in {"complete", "leaving", "closing"} \/ "continue" \in Inbox(q)'
               PROVE  arrived'[chan'[q]] = Pods
    BY DEF ContinueMeansAllArrived
  <2>1. q # p
    BY <1>1, <1>2 DEF SyncTypeOK, Inbox
  <2>2. at'[q] = at[q] /\ chan'[q] = chan[q] /\ Inbox(q)' = Inbox(q)
    BY <2>1, <1>1 DEF SyncTypeOK, Inbox
  <2>3. arrived[chan[q]] = Pods /\ chan[q] \in Channels
    BY <2>2, <1>1 DEF SyncInv, SyncTypeOK, ContinueMeansAllArrived
  <2> QED
    BY <2>2, <2>3, <1>4
<1>8. PassedMeansAllArrived'
  BY <1>1, <1>4 DEF SyncInv, PassedMeansAllArrived
<1>9. CallersArrived'
  BY <1>1, <1>4 DEF SyncInv, SyncTypeOK, CallersArrived
<1> QED
  BY <1>3, <1>5, <1>6, <1>7, <1>8, <1>9 DEF SyncInv

\* The server registers a subscription.
LEMMA RegisterInv == ASSUME SyncInv, NEW p \in Pods, Register(p) PROVE SyncInv'
<1>1. /\ SyncTypeOK /\ at[p] \in {"subscribed", "complete", "listening"}
      /\ registered' = [registered EXCEPT ![chan[p]] = @ \cup {p}]
      /\ UNCHANGED <<at, chan, inbox, overtakes, arrived, passed>>
  BY DEF SyncInv, Register
<1>2. SyncTypeOK'
  BY <1>1 DEF SyncTypeOK
<1>3. CallersArrived' /\ PassedMeansAllArrived'
  BY <1>1 DEF SyncInv, CallersArrived, PassedMeansAllArrived
<1>4. p \in arrived[chan[p]]
  BY <1>1 DEF SyncInv, CallersArrived
<1>5. RegisteredArrived'
  BY <1>1, <1>4 DEF SyncInv, SyncTypeOK, RegisteredArrived
<1>6. OutsideIsClean'
  BY <1>1 DEF SyncInv, SyncTypeOK, OutsideIsClean
<1>7. ContinueMeansAllArrived'
  BY <1>1 DEF SyncInv, ContinueMeansAllArrived, Inbox
<1> QED
  BY <1>2, <1>3, <1>5, <1>6, <1>7 DEF SyncInv

\* A pod reads the number of subscribers.
LEMMA NumsubInv == ASSUME SyncInv, NEW p \in Pods, Numsub(p) PROVE SyncInv'
<1>1. /\ SyncTypeOK /\ at[p] = "subscribed"
      /\ at' = [at EXCEPT ![p] = IF Full(chan[p]) THEN "complete" ELSE "listening"]
      /\ UNCHANGED <<chan, registered, inbox, overtakes, arrived, passed>>
  BY DEF SyncInv, Numsub, Goes
<1>2. SyncTypeOK'
  BY <1>1 DEF SyncTypeOK, Places
<1>3. (CallersArrived /\ RegisteredArrived /\ PassedMeansAllArrived)'
  BY <1>1 DEF SyncInv, SyncTypeOK, CallersArrived, RegisteredArrived, PassedMeansAllArrived
<1>4. OutsideIsClean'
  BY <1>1 DEF SyncInv, SyncTypeOK, OutsideIsClean
<1>5. Full(chan[p]) => arrived[chan[p]] = Pods
  BY <1>1, FullMeansAllArrived DEF SyncTypeOK
<1>6. ContinueMeansAllArrived'
  BY <1>1, <1>5 DEF SyncInv, SyncTypeOK, ContinueMeansAllArrived, Inbox
<1> QED
  BY <1>2, <1>3, <1>4, <1>6 DEF SyncInv

\* A message delivered to a channel reaches only pods registered on it; a
\* "continue" is delivered only where every pod has arrived.
LEMMA DeliverInv ==
  ASSUME SyncInv, NEW c \in Channels, NEW m \in Messages, Deliver(c, m),
         m = "continue" => arrived[c] = Pods
  PROVE  /\ inbox' \in [Pods -> Seq(Messages)]
         /\ \A q \in Pods : inbox'[q] # inbox[q] => q \in registered[c]
         /\ \A q \in Pods : "continue" \in Inbox(q)' => arrived[chan[q]] = Pods
<1>1. /\ SyncTypeOK
      /\ inbox' = [q \in Pods |-> IF q \in registered[c] THEN Append(inbox[q], m) ELSE inbox[q]]
  BY DEF SyncInv, Deliver
<1>2. inbox' \in [Pods -> Seq(Messages)]
  BY <1>1, InboxFacts DEF SyncTypeOK
<1>3. \A q \in Pods : inbox'[q] # inbox[q] => q \in registered[c]
  BY <1>1
<1>4. ASSUME NEW q \in Pods, "continue" \in Inbox(q)' PROVE arrived[chan[q]] = Pods
  <2>1. CASE "continue" \in Inbox(q)
    BY <2>1 DEF SyncInv, ContinueMeansAllArrived
  <2>2. CASE "continue" \notin Inbox(q)
    <3>1. q \in registered[c] /\ inbox'[q] = Append(inbox[q], m) /\ inbox[q] \in Seq(Messages)
      BY <1>1, <1>4, <2>2 DEF Inbox, SyncTypeOK
    <3>2. m = "continue"
      BY <3>1, <1>4, <2>2, InboxFacts DEF Inbox
    <3>3. chan[q] = c
      BY <3>1 DEF SyncInv, RegisteredArrived
    <3> QED
      BY <3>2, <3>3
  <2> QED
    BY <2>1, <2>2
<1> QED
  BY <1>2, <1>3, <1>4

\* The pods that saw every subscriber publish "continue"; the pods that leave
\* publish "running".
LEMMA PublishInv ==
  ASSUME SyncInv, NEW p \in Pods, PublishContinue(p) \/ PublishRunning(p)
  PROVE  SyncInv'
<1>1. PICK m \in Messages, to \in {"listening", "closing"} :
        /\ at[p] \in {"complete", "leaving"}
        /\ at' = [at EXCEPT ![p] = to]
        /\ Deliver(chan[p], m)
        /\ UNCHANGED <<chan, registered, overtakes, arrived, passed>>
  BY DEF PublishContinue, PublishRunning, Goes, Messages
<1>2. SyncTypeOK /\ chan[p] \in Channels /\ arrived[chan[p]] = Pods
  BY <1>1 DEF SyncInv, SyncTypeOK, ContinueMeansAllArrived
<1>3. /\ inbox' \in [Pods -> Seq(Messages)]
      /\ \A q \in Pods : inbox'[q] # inbox[q] => q \in registered[chan[p]]
      /\ \A q \in Pods : "continue" \in Inbox(q)' => arrived[chan[q]] = Pods
  BY <1>1, <1>2, DeliverInv
<1>4. SyncTypeOK'
  BY <1>1, <1>2, <1>3 DEF SyncTypeOK, Places
<1>5. (CallersArrived /\ RegisteredArrived /\ PassedMeansAllArrived)'
  BY <1>1, <1>2 DEF SyncInv, SyncTypeOK, CallersArrived, RegisteredArrived, PassedMeansAllArrived
<1>6. OutsideIsClean'
  BY <1>1, <1>2, <1>3 DEF SyncInv, SyncTypeOK, OutsideIsClean
<1>7. ContinueMeansAllArrived'
  BY <1>1, <1>2, <1>3 DEF SyncInv, SyncTypeOK, ContinueMeansAllArrived
<1> QED
  BY <1>4, <1>5, <1>6, <1>7 DEF SyncInv

\* A pod reads a message, and leaves its loop only on a "continue".
LEMMA ListenInv == ASSUME SyncInv, NEW p \in Pods, Listen(p) PROVE SyncInv'
<1>1. /\ SyncTypeOK /\ at[p] = "listening" /\ inbox[p] # <<>>
      /\ at' = [at EXCEPT ![p] = IF Head(inbox[p]) = "continue" THEN "leaving" ELSE "listening"]
      /\ inbox' = [inbox EXCEPT ![p] = Tail(@)]
      /\ UNCHANGED <<chan, registered, overtakes, arrived, passed>>
  BY DEF SyncInv, Listen, Goes
<1>2. /\ Tail(inbox[p]) \in Seq(Messages)
      /\ Head(inbox[p]) \in Inbox(p)
      /\ \A q \in Pods : Inbox(q)' \subseteq Inbox(q)
  <2>1. /\ inbox[p] \in Seq(Messages) /\ Tail(inbox[p]) \in Seq(Messages)
        /\ Head(inbox[p]) = inbox[p][1] /\ 1 \in 1..Len(inbox[p])
        /\ \A i \in 1..Len(Tail(inbox[p])) :
             \E j \in 1..Len(inbox[p]) : inbox[p][j] = Tail(inbox[p])[i]
    BY <1>1, InboxFacts DEF SyncTypeOK, Messages
  <2>2. ASSUME NEW q \in Pods PROVE Inbox(q)' \subseteq Inbox(q)
    <3>1. CASE q = p
      <4>1. inbox'[p] = Tail(inbox[p])
        BY <1>1 DEF SyncTypeOK
      <4> QED
        BY <3>1, <4>1, <2>1 DEF Inbox
    <3>2. CASE q # p
      BY <3>2, <1>1 DEF Inbox, SyncTypeOK
    <3> QED
      BY <3>1, <3>2
  <2> QED
    BY <2>1, <2>2 DEF Inbox
<1>3. SyncTypeOK'
  BY <1>1, <1>2 DEF SyncTypeOK, Places
<1>4. (CallersArrived /\ RegisteredArrived /\ PassedMeansAllArrived)'
  BY <1>1 DEF SyncInv, SyncTypeOK, CallersArrived, RegisteredArrived, PassedMeansAllArrived
<1>5. OutsideIsClean'
  BY <1>1 DEF SyncInv, SyncTypeOK, OutsideIsClean
<1>6. ContinueMeansAllArrived'
  BY <1>1, <1>2 DEF SyncInv, SyncTypeOK, ContinueMeansAllArrived
<1> QED
  BY <1>3, <1>4, <1>5, <1>6 DEF SyncInv

\* A pod that closes its connection, by returning, by a timeout or by dying, takes
\* its subscription and its messages with it.
LEMMA CloseInv ==
  ASSUME SyncInv, NEW p \in Pods, Close(p),
         NEW to \in {"outside", "raised"}, at' = [at EXCEPT ![p] = to],
         UNCHANGED <<chan, overtakes, arrived>>,
         \/ passed' = passed
         \/ at[p] = "closing" /\ passed' = [passed EXCEPT ![chan[p]] = @ \cup {p}]
  PROVE  SyncInv'
<1>1. /\ SyncTypeOK /\ chan[p] \in Channels
      /\ registered' = [registered EXCEPT ![chan[p]] = @ \ {p}]
      /\ inbox' = [inbox EXCEPT ![p] = <<>>]
  BY DEF SyncInv, SyncTypeOK, Close
<1>2. \A c \in Channels : p \notin registered'[c] /\ registered'[c] \subseteq registered[c]
  BY <1>1 DEF SyncInv, SyncTypeOK, RegisteredArrived
<1>3. SyncTypeOK'
  <2>1. <<>> \in Seq(Messages)
    OBVIOUS
  <2>2. inbox' \in [Pods -> Seq(Messages)]
    BY <1>1, <2>1 DEF SyncTypeOK
  <2>3. registered' \in [Channels -> SUBSET Pods]
    BY <1>1 DEF SyncTypeOK
  <2>4. at' \in [Pods -> Places]
    BY <1>1 DEF SyncTypeOK, Places
  <2>5. passed' \in [Channels -> SUBSET Pods]
    BY <1>1 DEF SyncTypeOK
  <2> QED
    BY <1>1, <2>1, <2>2, <2>3, <2>4, <2>5 DEF SyncTypeOK
<1>4. (CallersArrived /\ RegisteredArrived)'
  BY <1>1, <1>2 DEF SyncInv, SyncTypeOK, CallersArrived, RegisteredArrived
<1>5. OutsideIsClean'
  BY <1>1, <1>2 DEF SyncInv, SyncTypeOK, OutsideIsClean
<1>6. ContinueMeansAllArrived'
  BY <1>1 DEF SyncInv, SyncTypeOK, ContinueMeansAllArrived, Inbox
<1>7. PassedMeansAllArrived'
  <2>1. at[p] = "closing" => arrived[chan[p]] = Pods
    BY DEF SyncInv, ContinueMeansAllArrived
  <2> QED
    BY <1>1, <2>1 DEF SyncInv, SyncTypeOK, PassedMeansAllArrived
<1> QED
  BY <1>3, <1>4, <1>5, <1>6, <1>7 DEF SyncInv

\* A call returns: the pod had read "continue", so the syncpoint it passes is full.
LEMMA DisconnectInv == ASSUME SyncInv, NEW p \in Pods, Disconnect(p) PROVE SyncInv'
  BY CloseInv DEF Disconnect, Goes

\* A call raises when nothing came within the socket timeout.
LEMMA TimeoutInv == ASSUME SyncInv, NEW p \in Pods, Timeout(p) PROVE SyncInv'
  BY CloseInv DEF Timeout, Goes

\* A pod dies, wherever it is.
LEMMA DieInv == ASSUME SyncInv, NEW p \in Pods, Die(p) PROVE SyncInv'
  BY CloseInv DEF Die

\* Every step of a call that is under way keeps the invariant.
LEMMA ProceedInv == ASSUME SyncInv, NEW p \in Pods, Proceed(p) PROVE SyncInv'
  BY RegisterInv, NumsubInv, PublishInv, ListenInv, DisconnectInv DEF Proceed

\* Nothing changes.
LEMMA SyncStutterInv == SyncInv /\ UNCHANGED syncVars => SyncInv'
  BY DEF SyncInv, syncVars, SyncTypeOK, CallersArrived, RegisteredArrived, OutsideIsClean,
         ContinueMeansAllArrived, PassedMeansAllArrived, Inbox

\* Every step, and every stutter, keeps the invariant.
LEMMA SyncNextInv == SyncInv /\ [SyncNext]_syncVars => SyncInv'
  BY SubscribeInv, ProceedInv, TimeoutInv, DieInv, SyncStutterInv DEF SyncNext

\* SyncInv holds in every state: in particular nobody passes a syncpoint, and
\* nobody is told to, before every pod has arrived at it.
THEOREM SyncInvariant == SyncSpec => []SyncInv
  BY SyncInitInv, SyncNextInv, PTL DEF SyncSpec
-----------------------------------------------------------------------------
\* A call begins by arriving at the barrier, ends by passing it, and does
\* nothing to it in between.
LEMMA SyncStepRefines ==
  SyncInv /\ [SyncNext]_syncVars => [Barrier!BarrierNext]_(Barrier!barrierVars)
<1> SUFFICES ASSUME SyncInv, [SyncNext]_syncVars
             PROVE  Barrier!BarrierNext \/ UNCHANGED <<arrived, passed>>
  BY DEF Barrier!barrierVars
<1>1. CASE UNCHANGED syncVars
  BY <1>1 DEF syncVars
<1>2. ASSUME NEW p \in Pods, NEW c \in Channels, p \notin arrived[c], Subscribe(p, c)
      PROVE  Barrier!BarrierNext
  BY <1>2 DEF Subscribe, Barrier!BarrierNext, Barrier!Arrive
<1>3. ASSUME NEW p \in Pods, Disconnect(p)
      PROVE  Barrier!BarrierNext \/ UNCHANGED <<arrived, passed>>
  <2>1. /\ passed' = [passed EXCEPT ![chan[p]] = @ \cup {p}] /\ UNCHANGED arrived
        /\ at[p] = "closing"
    BY <1>3 DEF Disconnect, Goes
  <2>2. chan[p] \in Channels /\ arrived[chan[p]] = Pods /\ passed \in [Channels -> SUBSET Pods]
    BY <2>1 DEF SyncInv, SyncTypeOK, ContinueMeansAllArrived
  <2>3. CASE p \in passed[chan[p]]
    <3>1. passed' = passed
      BY <2>1, <2>2, <2>3
    <3> QED
      BY <3>1, <2>1
  <2>4. CASE p \notin passed[chan[p]]
    BY <2>1, <2>2, <2>4 DEF Barrier!BarrierNext, Barrier!Pass
  <2> QED
    BY <2>3, <2>4
<1>4. ASSUME NEW p \in Pods,
             \/ Register(p) \/ Numsub(p) \/ PublishContinue(p) \/ Listen(p)
             \/ PublishRunning(p) \/ Timeout(p) \/ Die(p)
      PROVE  UNCHANGED <<arrived, passed>>
  BY <1>4 DEF Register, Numsub, PublishContinue, Listen, PublishRunning, Timeout, Die
<1> QED
  BY <1>1, <1>2, <1>3, <1>4 DEF SyncNext, Proceed

\* redis_sync_pods implements PodBarrier.
THEOREM SyncImplementsBarrier == SyncSpec => ImplementsBarrier
<1>1. SyncInit => Barrier!BarrierInit
  BY DEF SyncInit, Barrier!BarrierInit
<1> QED
  BY <1>1, SyncInvariant, SyncStepRefines, PTL DEF SyncSpec, ImplementsBarrier, Barrier!BarrierSpec
-----------------------------------------------------------------------------
(* The pods around the barrier                                             *)

\* A pod that has arrived before or after step k is at that part of it, or past it.
ArrivedBefore ==
  \A p \in Pods, k \in Steps :
    p \in arrived[Side(k, "before")]
      => step[p] > k \/ (step[p] = k /\ pc[p] \in {"before", "run", "report", "after", "failed"})

ArrivedAfter ==
  \A p \in Pods, k \in Steps :
    p \in arrived[Side(k, "after")]
      => step[p] > k \/ (step[p] = k /\ pc[p] \in {"after", "failed"})

\* A pod runs a step once every pod is ready for it, and leaves a measured one once
\* every pod has measured it.
RunsWhenAllReady ==
  \A p \in Pods :
    pc[p] \in {"run", "report", "after"} => arrived[Side(step[p], "before")] = Pods

LeavesWhenAllMeasured ==
  \A p \in Pods, k \in Steps :
    step[p] > k /\ StepOps[k] # "cleanup" => arrived[Side(k, "after")] = Pods

Working == \A p \in Pods : pc[p] \notin {"done", "failed"} => step[p] \in Steps

LockStep ==
  /\ PodsInv
  /\ Working
  /\ ArrivedBefore /\ ArrivedAfter
  /\ RunsWhenAllReady /\ LeavesWhenAllMeasured
-----------------------------------------------------------------------------
\* The sides of the steps are different channels.
LEMMA SidesAreChannels ==
  /\ Len(StepOps) \in Nat
  /\ \A k \in Steps : Side(k, "before") \in Channels /\ Side(k, "after") \in Channels
  /\ \A j, k \in Steps : \A s, t \in {"before", "after"} :
       Side(j, s) = Side(k, t) <=> j = k /\ s = t
<1>1. Len(StepOps) \in Nat
  BY StepsAssumption
<1>2. \A k \in Steps : Side(k, "before") \in Channels /\ Side(k, "after") \in Channels
  BY ChannelsAssumption DEF SmallfileChannels
<1>3. \A j, k \in Steps : \A s, t \in {"before", "after"} :
        Side(j, s) = Side(k, t) <=> j = k /\ s = t
  BY DEF Side
<1> QED
  BY <1>1, <1>2, <1>3

\* Every pod begins with the cache drop of step 1.
LEMMA LockStepInit == PodsInit => LockStep
<1> SUFFICES ASSUME PodsInit PROVE LockStep
  OBVIOUS
<1>0. Len(StepOps) \in Nat \ {0}
  BY StepsAssumption, PodsAssumption, ChannelsAssumption DEF SmallfileChannels, Steps
<1>1. /\ \A p \in Pods : pc[p] = "drop" /\ step[p] = 1
      /\ \A c \in Channels : arrived[c] = {}
  BY DEF PodsInit, SyncInit
<1>2. SyncInv /\ PodsTypeOK
  BY <1>0, SyncInitInv DEF PodsInit, PodsTypeOK, Parts
<1>3. Working
  BY <1>0, <1>1 DEF Working, Steps
<1>4. ArrivedBefore /\ ArrivedAfter
  BY <1>1, SidesAreChannels DEF ArrivedBefore, ArrivedAfter
<1>5. RunsWhenAllReady /\ LeavesWhenAllMeasured
  BY <1>1, SidesAreChannels DEF RunsWhenAllReady, LeavesWhenAllMeasured, Steps
<1> QED
  BY <1>2, <1>3, <1>4, <1>5 DEF LockStep, PodsInv

\* A pod moves on within its step: nobody arrives anywhere, and what the new part
\* of the step requires holds.
LEMMA MoveKeepsLockStep ==
  ASSUME LockStep, SyncInv', NEW p \in Pods, NEW to \in Parts \ {"done"},
         pc' = [pc EXCEPT ![p] = to], Stays, arrived' = arrived,
         \/ pc[p] = "drop" /\ to = "dropping"
         \/ pc[p] = "dropping" /\ to = "before"
         \/ pc[p] = "before" /\ to = "run" /\ arrived[Side(step[p], "before")] = Pods
         \/ pc[p] = "run" /\ to = "report"
         \/ pc[p] = "report" /\ to = "after"
         \/ to = "failed"
  PROVE  LockStep'
<1>1. PodsTypeOK
  BY DEF LockStep, PodsInv
<1>2. /\ pc'[p] = to /\ step' = step /\ calm' = calm
      /\ \A q \in Pods : q # p => pc'[q] = pc[q]
  BY <1>1 DEF PodsTypeOK, Stays
<1>3. PodsTypeOK'
  BY <1>1, <1>2 DEF PodsTypeOK
<1>4. Working'
  BY <1>2 DEF LockStep, Working
<1>5. ArrivedBefore'
  BY <1>1, <1>2, SidesAreChannels DEF LockStep, ArrivedBefore, PodsTypeOK, Steps
<1>6. ArrivedAfter'
  BY <1>1, <1>2, SidesAreChannels DEF LockStep, ArrivedAfter, PodsTypeOK, Steps
<1>7. RunsWhenAllReady'
  BY <1>2 DEF LockStep, RunsWhenAllReady
<1>8. LeavesWhenAllMeasured'
  BY <1>2 DEF LockStep, LeavesWhenAllMeasured
<1> QED
  BY <1>3, <1>4, <1>5, <1>6, <1>7, <1>8 DEF LockStep, PodsInv

\* A pod goes to its next step, leaving a measured one only when every pod has
\* arrived after it.
LEMMA AdvanceKeepsLockStep ==
  ASSUME LockStep, NEW p \in Pods, Advance(p), pc[p] \in {"run", "after"},
         StepOps[step[p]] # "cleanup" => arrived[Side(step[p], "after")] = Pods
  PROVE  LockStep'
<1>1. PodsTypeOK /\ step[p] \in Steps
  BY DEF LockStep, PodsInv, Working
<1>2. /\ step'[p] = step[p] + 1
      /\ pc'[p] = IF step[p] = Len(StepOps) THEN "done" ELSE "drop"
      /\ \A q \in Pods : q # p => pc'[q] = pc[q] /\ step'[q] = step[q]
      /\ arrived' = arrived
  BY <1>1 DEF PodsTypeOK, Advance, syncVars
<1>3. PodsTypeOK'
  BY <1>1, SidesAreChannels DEF PodsTypeOK, Advance, Steps, Parts
<1>4. SyncInv'
  BY SyncStutterInv DEF LockStep, PodsInv, Advance
<1>5. Working'
  BY <1>1, <1>2, SidesAreChannels DEF LockStep, Working, Steps
<1>t. Len(StepOps) \in Nat /\ \A q \in Pods : step[q] \in Nat
  BY <1>1, SidesAreChannels DEF PodsTypeOK
<1>6. ArrivedBefore'
  <2> SUFFICES ASSUME NEW q \in Pods, NEW k \in Steps, q \in arrived[Side(k, "before")]
               PROVE  \/ step'[q] > k
                      \/ step'[q] = k /\ pc'[q] \in {"before", "run", "report", "after", "failed"}
    BY <1>2 DEF ArrivedBefore
  <2>1. \/ step[q] > k
        \/ step[q] = k /\ pc[q] \in {"before", "run", "report", "after", "failed"}
    BY DEF LockStep, ArrivedBefore
  <2> QED
    BY <2>1, <1>1, <1>2, <1>t DEF Steps
<1>7. ArrivedAfter'
  <2> SUFFICES ASSUME NEW q \in Pods, NEW k \in Steps, q \in arrived[Side(k, "after")]
               PROVE  step'[q] > k \/ (step'[q] = k /\ pc'[q] \in {"after", "failed"})
    BY <1>2 DEF ArrivedAfter
  <2>1. step[q] > k \/ (step[q] = k /\ pc[q] \in {"after", "failed"})
    BY DEF LockStep, ArrivedAfter
  <2> QED
    BY <2>1, <1>1, <1>2, <1>t DEF Steps
<1>8. RunsWhenAllReady'
  BY <1>2 DEF LockStep, RunsWhenAllReady
<1>9. LeavesWhenAllMeasured'
  <2> SUFFICES ASSUME NEW q \in Pods, NEW k \in Steps, step'[q] > k, StepOps[k] # "cleanup"
               PROVE  arrived[Side(k, "after")] = Pods
    BY <1>2 DEF LeavesWhenAllMeasured
  <2>1. CASE step[q] > k
    BY <2>1 DEF LockStep, LeavesWhenAllMeasured
  <2>2. CASE q = p /\ step[p] = k
    BY <2>2
  <2> QED
    BY <2>1, <2>2, <1>1, <1>2, <1>t DEF Steps
<1> QED
  BY <1>3, <1>4, <1>5, <1>6, <1>7, <1>8, <1>9 DEF LockStep, PodsInv

\* A pod enters a syncpoint of the step it is at.
LEMMA EnterKeepsLockStep ==
  ASSUME LockStep, NEW p \in Pods, NEW side \in {"before", "after"}, Enter(p, side)
  PROVE  LockStep'
<1>1. /\ PodsTypeOK /\ SyncInv /\ SyncTypeOK /\ pc[p] = side /\ step[p] \in Steps
      /\ Side(step[p], side) \in Channels
  BY SidesAreChannels DEF LockStep, PodsInv, Working, Enter, SyncInv
<1>2. SyncInv'
  BY <1>1, SubscribeInv DEF Enter
<1>3. UNCHANGED podVars
  BY DEF Enter
<1>4. \A c \in Channels :
        /\ \A q \in arrived'[c] : q \in arrived[c] \/ (q = p /\ c = Side(step[p], side))
        /\ arrived[c] \subseteq arrived'[c] /\ arrived'[c] \subseteq Pods
  BY <1>1 DEF Enter, Subscribe, SyncTypeOK
<1>5. PodsTypeOK' /\ Working'
  BY <1>1, <1>3 DEF podVars, PodsTypeOK, LockStep, Working
<1>6. ArrivedBefore'
  <2> SUFFICES ASSUME NEW q \in Pods, NEW k \in Steps, q \in arrived'[Side(k, "before")]
               PROVE  \/ step[q] > k
                      \/ step[q] = k /\ pc[q] \in {"before", "run", "report", "after", "failed"}
    BY <1>3 DEF ArrivedBefore, podVars
  <2>1. CASE q \in arrived[Side(k, "before")]
    BY <2>1 DEF LockStep, ArrivedBefore
  <2>2. CASE q = p /\ Side(k, "before") = Side(step[p], side)
    BY <2>2, <1>1, SidesAreChannels
  <2> QED
    BY <2>1, <2>2, <1>4, SidesAreChannels
<1>7. ArrivedAfter'
  <2> SUFFICES ASSUME NEW q \in Pods, NEW k \in Steps, q \in arrived'[Side(k, "after")]
               PROVE  step[q] > k \/ (step[q] = k /\ pc[q] \in {"after", "failed"})
    BY <1>3 DEF ArrivedAfter, podVars
  <2>1. CASE q \in arrived[Side(k, "after")]
    BY <2>1 DEF LockStep, ArrivedAfter
  <2>2. CASE q = p /\ Side(k, "after") = Side(step[p], side)
    BY <2>2, <1>1, SidesAreChannels
  <2> QED
    BY <2>1, <2>2, <1>4, SidesAreChannels
<1>8. RunsWhenAllReady'
  <2> SUFFICES ASSUME NEW q \in Pods, pc[q] \in {"run", "report", "after"}
               PROVE  arrived'[Side(step[q], "before")] = Pods
    BY <1>3 DEF RunsWhenAllReady, podVars
  <2>1. arrived[Side(step[q], "before")] = Pods /\ Side(step[q], "before") \in Channels
    BY SidesAreChannels DEF LockStep, RunsWhenAllReady, Working
  <2>2. /\ arrived[Side(step[q], "before")] \subseteq arrived'[Side(step[q], "before")]
        /\ arrived'[Side(step[q], "before")] \subseteq Pods
    BY <2>1, <1>4
  <2> QED
    BY <2>1, <2>2
<1>9. LeavesWhenAllMeasured'
  <2> SUFFICES ASSUME NEW q \in Pods, NEW k \in Steps, step[q] > k, StepOps[k] # "cleanup"
               PROVE  arrived'[Side(k, "after")] = Pods
    BY <1>3 DEF LeavesWhenAllMeasured, podVars
  <2>1. arrived[Side(k, "after")] = Pods /\ Side(k, "after") \in Channels
    BY SidesAreChannels DEF LockStep, LeavesWhenAllMeasured
  <2> QED
    BY <2>1, <1>4
<1> QED
  BY <1>2, <1>5, <1>6, <1>7, <1>8, <1>9 DEF LockStep, PodsInv

\* Nothing the lock step depends on changes but the state of a call.
LEMMA CallKeepsLockStep ==
  ASSUME LockStep, SyncInv', UNCHANGED podVars, arrived' = arrived PROVE LockStep'
<1>1. PodsTypeOK' /\ Working'
  BY DEF LockStep, PodsInv, podVars, PodsTypeOK, Working
<1>2. (ArrivedBefore /\ ArrivedAfter)'
  BY DEF LockStep, podVars, ArrivedBefore, ArrivedAfter
<1>3. (RunsWhenAllReady /\ LeavesWhenAllMeasured)'
  BY DEF LockStep, podVars, RunsWhenAllReady, LeavesWhenAllMeasured
<1> QED
  BY <1>1, <1>2, <1>3 DEF LockStep, PodsInv

\* A pod that passed a syncpoint of its step passed it together with all others.
LEMMA SyncedMeansAllArrived ==
  ASSUME LockStep, NEW p \in Pods, NEW side \in {"before", "after"}, pc[p] = side, Synced(p, side)
  PROVE  step[p] \in Steps /\ arrived[Side(step[p], side)] = Pods
<1>1. step[p] \in Steps /\ Side(step[p], side) \in Channels
  BY SidesAreChannels DEF LockStep, Working
<1> QED
  BY <1>1 DEF LockStep, PodsInv, SyncInv, PassedMeansAllArrived, Synced

\* Every step of a pod keeps the lock step.
LEMMA LockStepNext == LockStep /\ [PodsNext]_allVars => LockStep'
<1> SUFFICES ASSUME LockStep, [PodsNext]_allVars PROVE LockStep'
  OBVIOUS
<1>a. SyncInv /\ Working
  BY DEF LockStep, PodsInv
<1>b. UNCHANGED syncVars => SyncInv' /\ arrived' = arrived
  BY <1>a, SyncStutterInv DEF syncVars
<1>1. CASE UNCHANGED allVars
  BY <1>1, <1>b, CallKeepsLockStep DEF allVars, syncVars, podVars
<1>2. ASSUME NEW p \in Pods, StartDrop(p) \/ EndDrop(p) \/ Report(p) PROVE LockStep'
  <2>1. UNCHANGED syncVars
    BY <1>2 DEF StartDrop, EndDrop, Report
  <2> QED
    BY <1>2, <2>1, <1>b, MoveKeepsLockStep DEF StartDrop, EndDrop, Report, Moves, Parts
<1>3. ASSUME NEW p \in Pods, Enter(p, "before") \/ Enter(p, "after") PROVE LockStep'
  BY <1>3, EnterKeepsLockStep
<1>4. ASSUME NEW p \in Pods, InCall(p) PROVE LockStep'
  <2>1. arrived' = arrived
    BY <1>4 DEF InCall, Proceed, Register, Numsub, PublishContinue, Listen, PublishRunning, Disconnect
  <2> QED
    BY <1>4, <2>1, <1>a, ProceedInv, CallKeepsLockStep DEF InCall
<1>5. ASSUME NEW p \in Pods, Run(p) PROVE LockStep'
  <2>1. step[p] \in Steps /\ arrived[Side(step[p], "before")] = Pods
    BY <1>5, SyncedMeansAllArrived DEF Run, Moves
  <2> QED
    BY <1>5, <2>1, <1>b, MoveKeepsLockStep DEF Run, Moves, Parts
<1>6. ASSUME NEW p \in Pods, EndRun(p) PROVE LockStep'
  <2>1. CASE Moves(p, "run", "report") /\ Stays /\ UNCHANGED syncVars
    BY <2>1, <1>b, MoveKeepsLockStep DEF Moves, Parts
  <2>2. CASE pc[p] = "run" /\ Op(p) = "cleanup" /\ Advance(p)
    BY <2>2, AdvanceKeepsLockStep DEF Op
  <2> QED
    BY <1>6, <2>1, <2>2 DEF EndRun
<1>7. ASSUME NEW p \in Pods, NextStep(p) PROVE LockStep'
  <2>1. arrived[Side(step[p], "after")] = Pods
    BY <1>7, SyncedMeansAllArrived DEF NextStep
  <2> QED
    BY <1>7, <2>1, AdvanceKeepsLockStep DEF NextStep
<1>8. ASSUME NEW p \in Pods, PartFails(p) PROVE LockStep'
  <2>1. SyncInv' /\ arrived' = arrived
    BY <1>8, <1>a, DieInv DEF PartFails, Die
  <2> QED
    BY <1>8, <2>1, MoveKeepsLockStep DEF PartFails, Parts
<1>9. ASSUME NEW p \in Pods, SyncTimesOut(p) PROVE LockStep'
  <2>1. SyncInv' /\ arrived' = arrived
    BY <1>9, <1>a, TimeoutInv DEF SyncTimesOut, Timeout
  <2> QED
    BY <1>9, <2>1, MoveKeepsLockStep DEF SyncTimesOut, Parts
<1> QED
  BY <1>1, <1>2, <1>3, <1>4, <1>5, <1>6, <1>7, <1>8, <1>9 DEF PodsNext, Works
-----------------------------------------------------------------------------
\* In lock step, a pod that measures has every other pod at its own step, past its
\* cache drop.
LEMMA LockStepMeasures == LockStep => NoDropWhileMeasuring /\ MeasuredTogether
<1> SUFFICES ASSUME LockStep, NEW p \in Pods, NEW q \in Pods, Measuring(p)
             PROVE  /\ step[q] = step[p]
                    /\ pc[q] \in {"before", "run", "report", "after", "failed"}
  BY DEF NoDropWhileMeasuring, MeasuredTogether
<1>1. /\ step[p] \in Steps /\ step[q] \in Nat
      /\ pc[p] = "run" /\ StepOps[step[p]] # "cleanup"
  BY SidesAreChannels DEF LockStep, PodsInv, PodsTypeOK, Working, Measuring, Op, Steps
<1>2. q \in arrived[Side(step[p], "before")]
  BY <1>1 DEF LockStep, RunsWhenAllReady
<1>3. ~ (step[q] > step[p])
  <2> SUFFICES ASSUME step[q] > step[p] PROVE FALSE
    OBVIOUS
  <2>1. p \in arrived[Side(step[p], "after")]
    BY <1>1 DEF LockStep, LeavesWhenAllMeasured
  <2> QED
    BY <1>1, <2>1, SidesAreChannels DEF LockStep, ArrivedAfter, Steps
<1> QED
  BY <1>1, <1>2, <1>3 DEF LockStep, ArrivedBefore

\* The pods are in lock step in every state.
LEMMA AlwaysLockStep == PodsSpec => []LockStep
  BY LockStepInit, LockStepNext, PTL DEF PodsSpec

\* The types, and the invariant of the barrier, hold of the pods that use it.
THEOREM PodsInvariant == PodsSpec => []PodsInv
<1>1. LockStep => PodsInv
  BY DEF LockStep
<1> QED
  BY <1>1, AlwaysLockStep, PTL

\* No pod drops the caches of the cluster while another pod measures.
THEOREM NobodyDropsWhileMeasuring == PodsSpec => []NoDropWhileMeasuring
  BY AlwaysLockStep, LockStepMeasures, PTL

\* All pods measure the same operation at the same time.
THEOREM EverybodyMeasuresTogether == PodsSpec => []MeasuredTogether
  BY AlwaysLockStep, LockStepMeasures, PTL
=============================================================================
