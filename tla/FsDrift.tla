------------------------------- MODULE FsDrift -------------------------------
(***************************************************************************)
(* snafu/fs_drift_wrapper: every pod runs fs-drift in a working directory, *)
(* sample by sample, and turns the files that fs-drift leaves in           *)
(* network-shared into documents.  The directory may be shared by the pods *)
(* and may hold files of an earlier run; a pod's steps on it interleave    *)
(* with those of the others.  Documents are yielded one by one, so that    *)
(* time passes between a list of the directory and the files of the list.  *)
(***************************************************************************)
EXTENDS Integers, Sequences, FiniteSets, Functions

CONSTANTS DriftPods,      \* host names
          DriftSamples,   \* --samples
          DriftThreads,   \* threads of fs-drift in a pod
          CounterLogs,    \* what a counters file may hold: sequences of [elapsed, count]
          Leftovers       \* files of an earlier run

ASSUME DriftAssumption ==
  /\ DriftSamples \in Nat \ {0}
  /\ \A log \in CounterLogs : log \in Seq([elapsed : Nat, count : Nat])
  /\ \A f \in Leftovers : f.log \in Seq([elapsed : Nat, count : Nat])

VARIABLES
  pods,      \* the pods that use the working directory
  there,     \* the working directory exists
  shared,    \* network-shared: a set of files
  drift      \* the state of every pod

driftVars == <<pods, there, shared, drift>>

DriftOver == {"ok", "raised"}
NoSnapshot == [elapsed |-> 0, count |-> 0]

\* kind "counters": counters.<thread>.<host>.json; kind "rsptimes": rsptimes_<..>.csv;
\* kind "stats": stats-rsptimes.csv, one for all pods.
File(p, kind, t, s, log) == [pod |-> p, kind |-> kind, thread |-> t, sample |-> s, log |-> log]
SameName(f, g) ==
  f.kind = g.kind /\ (f.kind = "stats" \/ (f.pod = g.pod /\ f.thread = g.thread))
Put(files) == {f \in shared : \A g \in files : ~SameName(f, g)} \cup files

DriftInit ==
  /\ pods \in SUBSET DriftPods \ {{}}
  /\ there \in BOOLEAN
  /\ shared \in IF there THEN SUBSET Leftovers ELSE {{}}
  /\ drift = [p \in DriftPods |->
       [at |-> "start", sample |-> 1, todo |-> {}, long |-> FALSE, previous |-> NoSnapshot, docs |-> {}]]

at(p)    == drift[p].at
Go(p, r) == drift' = [drift EXCEPT ![p] = r]
To(p, a) == Go(p, [drift[p] EXCEPT !.at = a])

\* ensure_dir_exists, the test and the mkdir: the second pod to make it fails.
TestDir(p) ==
  /\ at(p) = "start"
  /\ To(p, IF there THEN "list" ELSE "mkdir")
  /\ UNCHANGED <<pods, there, shared>>

MakeDir(p) ==
  /\ at(p) = "mkdir"
  /\ there' = TRUE
  /\ To(p, IF there THEN "raised" ELSE "list")
  /\ UNCHANGED <<pods, shared>>

\* Variant of Unconsumed: the response times alone.
UnconsumedTimes == {f \in shared : f.kind # "counters"}

\* What is cleared before a sample: *.csv and counters*.
Unconsumed == shared

ListOld(p) ==
  /\ at(p) = "list"
  /\ Go(p, [drift[p] EXCEPT !.at = "clear", !.todo = Unconsumed])
  /\ UNCHANGED <<pods, there, shared>>

\* os.unlink of one of the listed names; another pod may have been there before.
Unlink(p) ==
  /\ at(p) = "clear"
  /\ \E f \in drift[p].todo :
       LET named == {g \in shared : SameName(f, g)} IN
       /\ shared' = shared \ named
       /\ Go(p, [drift[p] EXCEPT !.todo = @ \ {f}, !.at = IF named = {} THEN "raised" ELSE @])
  /\ UNCHANGED <<pods, there>>

Cleared(p) ==
  /\ at(p) = "clear" /\ drift[p].todo = {}
  /\ To(p, "run")
  /\ UNCHANGED <<pods, there, shared>>

\* fs-drift.py: it fails, or leaves its files; long: elapsed is 240 s or more.
RunDrift(p) ==
  /\ at(p) = "run"
  /\ \/ To(p, "raised") /\ UNCHANGED shared
     \/ \E logs \in [DriftThreads -> CounterLogs], long \in BOOLEAN :
          /\ shared' = Put({File(p, "counters", t, drift[p].sample, logs[t]) : t \in DriftThreads}
                           \cup {File(p, "rsptimes", t, drift[p].sample, <<>>) : t \in DriftThreads})
          /\ Go(p, [drift[p] EXCEPT !.at = IF long THEN "stats" ELSE "counters"])
  /\ UNCHANGED <<pods, there>>

\* rsptime_stats.py reads the response times that are there, and fails without any.
RspTimes(p) ==
  /\ at(p) = "stats"
  /\ \/ To(p, "raised") /\ UNCHANGED shared
     \/ /\ \E f \in shared : f.kind = "rsptimes"
        /\ shared' = Put({File(p, "stats", 0, drift[p].sample, <<>>)})
        /\ To(p, "rsptimes")
  /\ UNCHANGED <<pods, there>>

\* The file is opened, if it is still there; its intervals are yielded.
ReadStats(p) ==
  /\ at(p) = "rsptimes"
  /\ To(p, IF \E f \in shared : f.kind = "stats" THEN "counters" ELSE "raised")
  /\ UNCHANGED <<pods, there, shared>>

ListCounters(p) ==
  /\ at(p) = "counters"
  /\ Go(p, [drift[p] EXCEPT !.at = "rates", !.todo = {f \in shared : f.kind = "counters"}])
  /\ UNCHANGED <<pods, there, shared>>

\* Variant of Previous: previous_obj is that of the file read before.
PreviousKept(p) == drift[p].previous

\* previous_obj at the first snapshot of a file: nothing, which counts as zero.
Previous(p) == NoSnapshot

\* compute_rates for each snapshot, in half seconds: what it divides, and by what.
Rates(log, first) ==
  LET Before(i) == IF i = 1 THEN first ELSE log[i - 1]
  IN [i \in 1..Len(log) |-> [delta |-> log[i].elapsed - Before(i).elapsed,
                             diff  |-> log[i].count - Before(i).count]]

\* assert delta_time > 0.5: the documents end before the first rate of less.
Asserted(rates) ==
  {i \in 1..Len(rates) : \A j \in 1..i : rates[j].delta > 1}

\* One file of the list, if it is still there, with a document for every snapshot.
ReadCounters(p) ==
  /\ at(p) = "rates"
  /\ \E f \in drift[p].todo :
       LET opened == {g \in shared : SameName(f, g)} IN
       \/ opened = {} /\ To(p, "raised")
       \/ \E g \in opened :
            LET rates == Rates(g.log, Previous(p))
                kept  == SubSeq(rates, 1, Cardinality(Asserted(rates)))
            IN Go(p, [drift[p] EXCEPT
                 !.todo = @ \ {f},
                 !.previous = IF g.log = <<>> THEN @ ELSE g.log[Len(g.log)],
                 !.docs = @ \cup {[sample |-> drift[p].sample, of |-> g, rates |-> kept]},
                 !.at = IF kept = rates THEN @ ELSE "raised"])
  /\ UNCHANGED <<pods, there, shared>>

\* The directory of the results is the pod's own, and is only made when it is missing.
NextDriftSample(p) ==
  /\ at(p) = "rates" /\ drift[p].todo = {}
  /\ IF drift[p].sample < DriftSamples
     THEN Go(p, [drift[p] EXCEPT !.at = "start", !.sample = @ + 1])
     ELSE To(p, "ok")
  /\ UNCHANGED <<pods, there, shared>>

DriftSteps(p) ==
  \/ TestDir(p) \/ MakeDir(p) \/ ListOld(p) \/ Unlink(p) \/ Cleared(p)
  \/ RunDrift(p) \/ RspTimes(p) \/ ReadStats(p)
  \/ ListCounters(p) \/ ReadCounters(p) \/ NextDriftSample(p)

DriftNext == \E p \in pods : DriftSteps(p)
-----------------------------------------------------------------------------
\* Unless two snapshots are too close, every one has its rates, and these, each over its
\* time, add up to the counter at the end.
AddUp(doc) ==
  LET log    == doc.of.log
      Gap(i) == log[i].elapsed - (IF i = 1 THEN 0 ELSE log[i - 1].elapsed)
  IN (\A i \in 1..Len(log) : Gap(i) > 1) /\ log # <<>> =>
       /\ Len(doc.rates) = Len(log)
       /\ SumFunction([i \in 1..Len(log) |-> doc.rates[i].diff]) = log[Len(log)].count
       /\ SumFunction([i \in 1..Len(log) |-> doc.rates[i].delta]) = log[Len(log)].elapsed

\* Whatever the other pods do in the directory, no document is made of a file that an
\* earlier sample of the pod has left, and the rates of a file are all there and add up to
\* its counters.  A pod that has the directory to itself reads its own files and nothing of
\* an earlier run, and has read them all when it ends well.  (With others there, it takes
\* their files for its own: that is why the last two are not said of them.)
RatesOfThisSample ==
  \A p \in pods :
    /\ \A doc \in drift[p].docs :
         /\ doc.of.pod = p => doc.of.sample = doc.sample
         /\ AddUp(doc)
         /\ pods = {p} => doc.of.pod = p
    /\ pods = {p} /\ at(p) = "ok" =>
         \A s \in 1..DriftSamples, t \in DriftThreads :
           \E doc \in drift[p].docs : doc.sample = s /\ doc.of.thread = t
=============================================================================
