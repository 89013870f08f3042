-------------------------- MODULE UpgradeOpenShift --------------------------
(***************************************************************************)
(* snafu/upgrade_openshift_wrapper/trigger_upgrade.py: `oc adm upgrade` is *)
(* run, the version the cluster wants is polled until it changes, the head *)
(* of the cluster's history is polled until it is Completed at that        *)
(* version or the timeout has passed, and a document tells how long the    *)
(* upgrade took.  The cluster is external: it takes up the request, writes *)
(* the head of the history and completes the upgrade in steps of its own.  *)
(***************************************************************************)
EXTENDS Integers

CONSTANTS Old, New,     \* two versions of the cluster
          WaitTries,    \* 10: looks at the wanted version after the command (line 106)
          UpTimeouts    \* values of --timeout, in poll intervals

ASSUME UpgradeAssumption == Old # New /\ WaitTries \in Nat /\ UpTimeouts \subseteq Nat

VARIABLES
  options,          \* how many of toimage and latest or version are given: "none", "one", "both"
  target,           \* the version they name
  up_timeout,
  asked,            \* the cluster has the request
  desired,          \* status.desired.version
  head,             \* status.history[0]
  upAt,             \* "command", "wanted", "loop", "read", "nap", "finish", "startedTime",
                    \* "completionTime", or how it ended
  init_version, desired_version, c_head,
  retries, waited,
  end_version,
  started,          \* the version of the history entry start_time is from
  total_time        \* "none", "zero" or "some": update_time of the document

upVars == <<options, target, up_timeout, asked, desired, head, upAt, init_version,
            desired_version, c_head, retries, waited, end_version, started, total_time>>
yielded == <<end_version, started, total_time>>
params  == <<options, target, up_timeout>>
cluster == <<asked, desired, head>>

UpOver   == {"ok", "exited", "raised"}
Versions == {Old, New}
Heads    == [version : Versions, state : {"Partial", "Completed"}]

\* c_state and c_version before the first look.
NoHead == [version |-> "0.0.0", state |-> "incomplete"]

UpTypeOK ==
  /\ options \in {"none", "one", "both"} /\ target \in Versions /\ up_timeout \in UpTimeouts
  /\ asked \in BOOLEAN /\ desired \in Versions /\ head \in Heads
  /\ upAt \in {"start", "command", "wanted", "loop", "read", "nap", "finish", "startedTime",
              "completionTime"} \cup UpOver
  /\ init_version \in Versions /\ desired_version \in Versions
  /\ end_version \in Versions /\ started \in Versions
  /\ c_head \in Heads \cup {NoHead}
  /\ retries \in 0..WaitTries /\ waited \in 0..(up_timeout + 1)
  /\ total_time \in {"none", "zero", "some"}

UpInit ==
  /\ options \in {"none", "one", "both"} /\ target \in Versions /\ up_timeout \in UpTimeouts
  /\ asked = FALSE /\ desired = Old /\ head \in {h \in Heads : h.version = Old}
  /\ upAt = "start" /\ init_version = Old /\ desired_version = Old /\ c_head = NoHead
  /\ end_version = Old /\ started = Old
  /\ retries = 0 /\ waited = 0 /\ total_time = "none"

\* The version is read, and the parameters are looked at.
UpStart ==
  /\ upAt = "start"
  /\ init_version' = desired
  /\ upAt' = IF options = "one" THEN "command" ELSE "exited"
  /\ UNCHANGED <<params, cluster, desired_version, c_head, retries, waited, yielded>>

\* The command gives the cluster the request, or fails; only 1 is looked at among
\* the return codes of a failure.  The wanted version is read for the first time.
Command ==
  /\ upAt = "command"
  /\ \/ /\ asked' = (target # desired)
        /\ upAt' = "wanted"
     \/ /\ upAt' \in {"exited", "wanted"}
        /\ UNCHANGED asked
  /\ desired_version' = desired
  /\ UNCHANGED <<params, desired, head, init_version, c_head, retries, waited, yielded>>

\* The version is not yet the wanted one: it is read again, three seconds later.
LookAgain ==
  /\ upAt = "wanted" /\ init_version = desired_version /\ retries < WaitTries
  /\ desired_version' = desired /\ retries' = retries + 1
  /\ UNCHANGED <<params, cluster, upAt, init_version, c_head, waited, yielded>>

\* "Cluster version is already at desired version": a document with a time of 0,
\* unless the head of the history has no completionTime any more.
AlreadyThere ==
  /\ upAt = "wanted" /\ init_version = desired_version /\ retries = WaitTries
  /\ IF head.state = "Completed"
       THEN upAt' = "ok" /\ total_time' = "zero"
       ELSE upAt' = "raised" /\ UNCHANGED total_time
  /\ UNCHANGED <<params, cluster, init_version, desired_version, c_head, retries, waited,
                 end_version, started>>

Changed ==
  /\ upAt = "wanted" /\ init_version # desired_version
  /\ upAt' = "loop"
  /\ UNCHANGED <<params, cluster, init_version, desired_version, c_head, retries, waited, yielded>>

\* Variant of Upgraded: the version is not compared.
UpgradedAny == c_head.state = "Completed"

Upgraded == c_head.state = "Completed" /\ c_head.version = desired_version

InTime == waited <= up_timeout

EnterLoop ==
  /\ upAt = "loop"
  /\ upAt' = IF InTime /\ ~Upgraded THEN "read" ELSE "finish"
  /\ UNCHANGED <<params, cluster, init_version, desired_version, c_head, retries, waited, yielded>>

\* One of ten tries gets the head of the history.  Or none does: i is never 10, so the
\* error of the last try is only logged and what was known of the head stays.
ReadHead ==
  /\ upAt = "read"
  /\ \/ c_head' = head
     \/ UNCHANGED c_head
  /\ upAt' = "nap"
  /\ UNCHANGED <<params, cluster, init_version, desired_version, retries, waited, yielded>>

\* Break, or a sleep of poll_interval.
Nap ==
  /\ upAt = "nap"
  /\ IF Upgraded
       THEN upAt' = "finish" /\ UNCHANGED waited
       ELSE upAt' = "loop" /\ waited' = waited + 1
  /\ UNCHANGED <<params, cluster, init_version, desired_version, c_head, retries, yielded>>

\* The version the cluster wants by now.
Finish ==
  /\ upAt = "finish"
  /\ upAt' = "startedTime" /\ end_version' = desired
  /\ UNCHANGED <<params, cluster, init_version, desired_version, c_head, retries, waited,
                 started, total_time>>

\* start_time is that of the head of the history, end_time that of the head of the
\* history when it is read again.
StartTime ==
  /\ upAt = "startedTime"
  /\ upAt' = "completionTime" /\ started' = head.version
  /\ UNCHANGED <<params, cluster, init_version, desired_version, c_head, retries, waited,
                 end_version, total_time>>

\* A head without completionTime raises.  The documents are yielded; then end_version is
\* compared with desired_version.
EndTime ==
  /\ upAt = "completionTime"
  /\ IF head.state = "Completed"
       THEN /\ total_time' = "some"
            /\ upAt' = IF end_version = desired_version THEN "ok" ELSE "exited"
       ELSE upAt' = "raised" /\ UNCHANGED total_time
  /\ UNCHANGED <<params, cluster, init_version, desired_version, c_head, retries, waited,
                 end_version, started>>

\* A call of the cluster outside the ten tries is not guarded.
CallFails ==
  /\ \/ upAt \in {"start", "wanted", "finish", "startedTime", "completionTime"}
     \/ upAt = "nap" /\ Upgraded
  /\ upAt' = "raised"
  /\ UNCHANGED <<params, cluster, init_version, desired_version, c_head, retries, waited, yielded>>

UpSteps ==
  \/ UpStart \/ Command \/ LookAgain \/ AlreadyThere \/ Changed
  \/ EnterLoop \/ ReadHead \/ Nap \/ Finish \/ StartTime \/ EndTime

\* The cluster wants the version it was asked for; a history entry is made for it; the
\* entry is completed.
TakeUp ==
  /\ asked /\ desired # target
  /\ desired' = target
  /\ UNCHANGED <<asked, head>>

NewEntry ==
  /\ head.version # desired
  /\ head' = [version |-> desired, state |-> "Partial"]
  /\ UNCHANGED <<asked, desired>>

Complete ==
  /\ head.state = "Partial"
  /\ head' = [head EXCEPT !.state = "Completed"]
  /\ UNCHANGED <<asked, desired>>

Cluster ==
  /\ TakeUp \/ NewEntry \/ Complete
  /\ UNCHANGED <<params, upAt, init_version, desired_version, c_head, retries, waited, yielded>>

UpNext == UpSteps \/ CallFails \/ Cluster
-----------------------------------------------------------------------------
\* A document with the time of an upgrade, made before the timeout, is about the
\* upgrade asked for, and that upgrade is complete: the history was seen Completed at
\* the version the cluster was told to go to, never at the one it came from, and both
\* times are of its entry, though they are read one after the other.
UpgradeHonest ==
  upAt = "ok" /\ total_time = "some" /\ waited <= up_timeout =>
    head = [version |-> target, state |-> "Completed"] /\ target # init_version
    /\ started = target

\* Each variable has a value the code can give it, and UpgradeHonest.
UpInv == UpTypeOK /\ UpgradeHonest

\* The wrapper ends, whatever the cluster does.
UpgradeEnds == <>(upAt \in UpOver)
=============================================================================
