----------------------------- MODULE PodBarrier -----------------------------
(***************************************************************************)
(* What snafu/utils/sync_pods_with_redis.py promises: on each syncpoint no *)
(* pod goes on before every pod has arrived.  A pod may also give up.      *)
(***************************************************************************)
CONSTANTS Pods, Channels

VARIABLES arrived,  \* per syncpoint, the pods that have reached it
          passed    \* per syncpoint, the pods that went on

barrierVars == <<arrived, passed>>

BarrierInit ==
  /\ arrived = [c \in Channels |-> {}]
  /\ passed  = [c \in Channels |-> {}]

Arrive(p, c) ==
  /\ p \notin arrived[c]
  /\ arrived' = [arrived EXCEPT ![c] = @ \cup {p}]
  /\ UNCHANGED passed

Pass(p, c) ==
  /\ arrived[c] = Pods
  /\ p \notin passed[c]
  /\ passed' = [passed EXCEPT ![c] = @ \cup {p}]
  /\ UNCHANGED arrived

BarrierNext == \E p \in Pods, c \in Channels : Arrive(p, c) \/ Pass(p, c)

BarrierSpec == BarrierInit /\ [][BarrierNext]_barrierVars
=============================================================================
