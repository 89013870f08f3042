----------------------------- MODULE MCPollers ------------------------------
(***************************************************************************)
(* Tools and scripts that wait for others, one of them in each behaviour,  *)
(* as run_snafu.py makes one benchmark per process: three that poll an     *)
(* external system, and the publisher and subscribers of                   *)
(* utils/redis_scripts.                                                    *)
(***************************************************************************)
EXTENDS LogGenerator, UpgradeOpenShift, ScaleOpenShift, RedisScripts

VARIABLE tool    \* --tool, or the scripts

MCOwner == [n \in Names |-> IF n \in Infra THEN 0 ELSE 1 + (n % 2)]

vars == <<tool, logVars, upVars, scaleVars, redisVars>>

Init ==
  /\ tool \in {"log_generator", "upgrade_openshift", "scale_openshift", "redis_scripts"}
  \* the parameters of a tool that is not the one that runs do not matter
  /\ LogInit   /\ (tool = "log_generator" \/ (backend = "es" /\ timeout = 0))
  /\ backend # "kafka" => partition = [m \in 1..Total |-> 1]    \* only Kafka has any
  /\ UpInit    /\ (tool = "upgrade_openshift"
                   \/ (options = "one" /\ target = New /\ up_timeout = 0 /\ head.state = "Completed"))
  /\ ScaleInit /\ (tool = "scale_openshift" \/ (scale = 1 /\ ~is_rosa /\ nsets = NSets /\ Nodes = Infra))
  /\ ScriptInit

\* A step of one of them.
Log(A)     == tool = "log_generator"     /\ A /\ UNCHANGED <<tool, upVars, scaleVars, redisVars>>
Upgrade(A) == tool = "upgrade_openshift" /\ A /\ UNCHANGED <<tool, logVars, scaleVars, redisVars>>
Scale(A)   == tool = "scale_openshift"   /\ A /\ UNCHANGED <<tool, logVars, upVars, redisVars>>
Script(A)  == tool = "redis_scripts"     /\ A /\ UNCHANGED <<tool, logVars, upVars, scaleVars>>

Stop ==
  \/ logAt \in LogOver \/ upAt \in UpOver \/ scaleAt \in ScaleOver
  \/ publisher \in ScriptOver    \* a subscriber that comes later waits for ever

Next ==
  \/ Log(LogNext) \/ Upgrade(UpNext) \/ Scale(ScaleNext) \/ Script(ScriptNext)
  \/ Stop /\ UNCHANGED vars

\* Each program goes on; of the outside only the machine sets of a cluster are assumed to
\* come to what they want.
Fairness ==
  /\ WF_vars(Log(LogSteps))
  /\ WF_vars(Upgrade(UpSteps))
  /\ WF_vars(Scale(ScaleSteps))
  /\ WF_vars(Scale(Machines))
  /\ WF_vars(Script(PollNumsub \/ Publish))
  /\ \A p \in Subscribers : WF_vars(Script(SubscribeTo(p) \/ GetMessage(p)))

Spec == Init /\ [][Next]_vars /\ Fairness

\* Every tool ends, under what its own property assumes of the outside.
PollersEnd ==
  /\ tool = "log_generator"     => LogEnds
  /\ tool = "upgrade_openshift" => UpgradeEnds
  /\ tool = "scale_openshift"   => ScaleEnds
  /\ tool = "redis_scripts"     => ScriptsEnd
=============================================================================
