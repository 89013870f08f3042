--------------------------- MODULE SmallfilePods ---------------------------
(***************************************************************************)
(* Several pods run the smallfile wrapper in lock step: for every sample   *)
(* and operation, run_snafu.process_generator drops the caches of the      *)
(* cluster and _trigger_smallfile.emit_actions synchronises, runs the      *)
(* operation, reports its results and synchronises again (clients > 1 and  *)
(* a redis_host).  An exception ends the pod's run_snafu process.          *)
(***************************************************************************)
EXTENDS RedisSync

CONSTANTS StepOps   \* the operation of each step: samples times --operations

ASSUME StepsAssumption == StepOps \in Seq({"cleanup", "other"})

Steps == 1..Len(StepOps)
Side(k, s) == <<k, s>>
SmallfileChannels == {Side(k, s) : k \in Steps, s \in {"before", "after"}}

ASSUME ChannelsAssumption == Channels = SmallfileChannels

VARIABLES
  pc,    \* per pod: the part of the step it is in
  step,  \* per pod: the step it is at
  calm   \* environment: no failure, no timeout, and commands served in order

podVars == <<pc, step, calm>>
allVars == <<at, chan, registered, inbox, overtakes, arrived, passed, pc, step, calm>>

Parts == {"drop", "dropping", "before", "run", "report", "after", "done", "failed"}

PodsTypeOK ==
  /\ pc \in [Pods -> Parts]
  /\ step \in [Pods -> 1..(Len(StepOps) + 1)]
  /\ calm \in BOOLEAN

PodsInit ==
  /\ SyncInit
  /\ pc = [p \in Pods |-> "drop"]
  /\ step = [p \in Pods |-> 1]
  /\ calm \in BOOLEAN
  /\ calm => ~overtakes

Op(p) == StepOps[step[p]]

Moves(p, from, to) == pc[p] = from /\ pc' = [pc EXCEPT ![p] = to]
Stays == UNCHANGED <<step, calm>>

\* drop_cache sends its requests, and returns when every answer is OK.
StartDrop(p) == Moves(p, "drop", "dropping") /\ Stays /\ UNCHANGED syncVars
EndDrop(p)   == Moves(p, "dropping", "before") /\ Stays /\ UNCHANGED syncVars

\* The syncpoint of one side of the step.
Enter(p, side) ==
  /\ pc[p] = side
  /\ p \notin arrived[Side(step[p], side)]
  /\ Subscribe(p, Side(step[p], side))
  /\ UNCHANGED podVars

InCall(p) == Proceed(p) /\ UNCHANGED podVars

Synced(p, side) == at[p] = "outside" /\ p \in passed[Side(step[p], side)]

\* Variant of Run: the operation starts without the syncpoint before it.
RunUnsynced(p) == Moves(p, "before", "run") /\ Stays /\ UNCHANGED syncVars

Run(p) == Moves(p, "before", "run") /\ Synced(p, "before") /\ Stays /\ UNCHANGED syncVars

\* The step after this one, or the end of the wrapper's run.
Advance(p) ==
  /\ step' = [step EXCEPT ![p] = @ + 1]
  /\ pc' = [pc EXCEPT ![p] = IF step[p] = Len(StepOps) THEN "done" ELSE "drop"]
  /\ UNCHANGED calm /\ UNCHANGED syncVars

\* smallfile_cli.py ended with 0; a cleanup returns here, and reports nothing.
EndRun(p) ==
  \/ Moves(p, "run", "report") /\ Op(p) # "cleanup" /\ Stays /\ UNCHANGED syncVars
  \/ pc[p] = "run" /\ Op(p) = "cleanup" /\ Advance(p)

\* The results and the response times are yielded.
Report(p) == Moves(p, "report", "after") /\ Stays /\ UNCHANGED syncVars

\* Variant of NextStep: the syncpoint after the operation is left out.
NextStepUnsynced(p) == pc[p] = "after" /\ at[p] = "outside" /\ Advance(p)

NextStep(p) == pc[p] = "after" /\ Synced(p, "after") /\ Advance(p)

\* A cache drop is refused, Redis cannot be reached, smallfile_cli.py or the
\* response time script fails.
PartFails(p) ==
  /\ ~calm
  /\ pc[p] \in {"dropping", "before", "run", "report", "after"}
  /\ Die(p)
  /\ pc' = [pc EXCEPT ![p] = "failed"]
  /\ Stays

SyncTimesOut(p) ==
  /\ ~calm
  /\ Timeout(p)
  /\ pc' = [pc EXCEPT ![p] = "failed"]
  /\ Stays

Works(p) ==
  \/ StartDrop(p) \/ EndDrop(p) \/ Enter(p, "before") \/ Enter(p, "after") \/ InCall(p)
  \/ Run(p) \/ EndRun(p) \/ Report(p) \/ NextStep(p)

PodsNext == \E p \in Pods : Works(p) \/ PartFails(p) \/ SyncTimesOut(p)

PodsSpec == PodsInit /\ [][PodsNext]_allVars

\* Every pod is a process of its own that keeps running; a call to the server
\* is answered, and a pod that waits for ever is ended by its socket timeout.
PodsFairSpec ==
  PodsSpec /\ \A p \in Pods : WF_allVars(Works(p)) /\ WF_allVars(SyncTimesOut(p))
-----------------------------------------------------------------------------
PodsInv == PodsTypeOK /\ SyncInv

Measuring(p) == pc[p] = "run" /\ Op(p) # "cleanup"

\* "only do 1 operation at a time in emit_actions so that cache dropping works
\* right" (trigger_smallfile.py:91): no pod drops the caches while another one
\* runs an operation that is measured.
NoDropWhileMeasuring ==
  \A p, q \in Pods : Measuring(p) => pc[q] # "dropping"

\* While a pod runs a measured operation every other pod is at the same step, with
\* its cache drop behind it and, unless it failed, still short of the next step.
MeasuredTogether ==
  \A p, q \in Pods :
    Measuring(p) => /\ step[q] = step[p]
                    /\ pc[q] \in {"before", "run", "report", "after", "failed"}

\* Every pod ends: it finishes its steps, fails, or is freed by its timeout.
EveryPodEnds == \A p \in Pods : <>(pc[p] \in {"done", "failed"})

\* Without failures nobody waits in vain: every pod finishes all its steps.
CalmPodsFinish == calm => <>(\A p \in Pods : pc[p] = "done")
=============================================================================
