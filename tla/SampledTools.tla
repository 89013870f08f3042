---------------------------- MODULE SampledTools ----------------------------
(***************************************************************************)
(* The tools that run one command per sample and report what it printed or *)
(* wrote: the Benchmark life cycle (_benchmark.py: setup, collect,         *)
(* cleanup) of uperf, coremark-pro and nighthawk, and emit_actions of the  *)
(* wrappers of the same shape.  A tool is the record of what differs:      *)
(*   many     it takes Samples samples, not one                            *)
(*   retries  how often a failed command is run again                      *)
(*   bad      the outcomes it takes for a failure                          *)
(*   fails    what a failed sample does: exit, raise, skip or report       *)
(*   file     the results are read from a file that the command writes     *)
(*   empty    a sample may end without a result                            *)
(*   setup    what is checked first: nothing, input (to refuse or to exit  *)
(*            without it) or build                                         *)
(*   ingest   no command is run, the results of an earlier run are read    *)
(***************************************************************************)
EXTENDS ProcessSample

CONSTANTS Samples,   \* config.sample, config.samples, args.sample
          Retries,   \* retries of image_pull
          MaxDocs    \* bound: results of a sample

ASSUME SampledAssumption == Samples \in Nat \ {0} /\ Retries \in Nat /\ MaxDocs \in Nat \ {0}

NonZero == {"one", "other"}
Shape   == [many |-> TRUE, retries |-> 0, bad |-> NonZero, fails |-> "exit", file |-> FALSE,
            empty |-> FALSE, setup |-> "nothing", ingest |-> FALSE]
OneShot == [Shape EXCEPT !.many = FALSE]

uperf       == [Shape EXCEPT !.retries = 2, !.empty = TRUE, !.setup = "input or refuse"]
coremarkpro == [Shape EXCEPT !.retries = 2, !.fails = "skip", !.file = TRUE, !.empty = TRUE,
                             !.setup = "build"]
coremarkpro_ingest == [coremarkpro EXCEPT !.ingest = TRUE]
nighthawk   == [Shape EXCEPT !.file = TRUE, !.setup = "input or refuse"]
vegeta      == [Shape EXCEPT !.file = TRUE, !.empty = TRUE, !.setup = "input or exit"]
vegeta_results == [vegeta EXCEPT !.ingest = TRUE, !.setup = "nothing"]
cyclictest  == [Shape EXCEPT !.fails = "raise", !.setup = "input or exit"]
oslat       == [Shape EXCEPT !.fails = "raise", !.setup = "input or exit"]
ycsb        == [OneShot EXCEPT !.bad = NonZero \cup {"complains"}, !.empty = TRUE]
flent       == [OneShot EXCEPT !.bad = NonZero \cup {"complains"}, !.file = TRUE]
dns_perf    == OneShot
sysbench    == [OneShot EXCEPT !.setup = "input or exit"]
trex        == [OneShot EXCEPT !.empty = TRUE]
pgbench     == [OneShot EXCEPT !.retries = 1, !.bad = {"one"}]
hammerdb    == [OneShot EXCEPT !.retries = 1, !.bad = {"one"}]
stressng    == [OneShot EXCEPT !.retries = 1, !.bad = {"one"}, !.file = TRUE]
image_pull  == [OneShot EXCEPT !.retries = Retries, !.fails = "report", !.setup = "input or exit"]

Tools == {uperf, coremarkpro, coremarkpro_ingest, nighthawk, vegeta, vegeta_results,
          cyclictest, oslat, ycsb, flent, dns_perf, sysbench, trex, pgbench, hammerdb,
          stressng, image_pull}

VARIABLES
  tool,
  pc,
  sample,    \* the number of the current sample
  file,      \* the process that wrote the file of results; 0: it is of an earlier run
  docs,      \* results of this sample so far
  reported   \* history: the results yielded

toolVars == <<tool, file, docs, reported>>
vars     == <<sampleVars, tool, pc, sample, file, docs, reported>>

Results == [sample : Nat, by : Nat, successful : BOOLEAN, failures : Nat]
Over    == {"done", "refused", "exited", "raised", "closed"}

SampledTypeOK ==
  /\ SampleTypeOK
  /\ tool \in Tools /\ pc \in {"setup", "build", "collect", "run", "report"} \cup Over
  /\ sample \in 0..Samples /\ file \in 0..Len(ran) /\ docs \in 0..MaxDocs
  /\ reported \subseteq Results

SampleCount == IF tool.many THEN Samples ELSE 1

Init ==
  /\ ran = <<>> /\ first = 0 /\ tries = 0
  /\ failed = <<>> /\ successful = 0 /\ success = "none" /\ attempts = 0
  /\ tool \in Tools /\ pc = "setup" /\ sample = 0 /\ file = 0 /\ docs = 0 /\ reported = {}

Goes(from, to) == pc = from /\ pc' = to
-----------------------------------------------------------------------------
(* setup *)

SetUp ==
  /\ Goes("setup", IF tool.setup = "build" THEN "build" ELSE "collect")
  /\ UNCHANGED <<sampleVars, sample, toolVars>>

\* The workload, the targets, the script or the options are not there.
InputMissing ==
  /\ \/ tool.setup = "input or refuse" /\ Goes("setup", "refused")
     \/ tool.setup = "input or exit" /\ Goes("setup", "exited")
  /\ UNCHANGED <<sampleVars, sample, toolVars>>

\* make build, a sample of its own (number 0).
Build ==
  /\ pc = "build"
  /\ \/ \E o \in Outcomes : Attempt(0, tool.retries, tool.bad, o)
     \/ GiveUp(tool.retries)
  /\ UNCHANGED <<tool, pc, sample, file, docs, reported>>

Built ==
  /\ success = "yes" /\ Goes("build", "collect")
  /\ UNCHANGED <<sampleVars, sample, toolVars>>

BuildFailed ==
  /\ success = "no" /\ Goes("build", "refused")
  /\ UNCHANGED <<sampleVars, sample, toolVars>>
-----------------------------------------------------------------------------
(* collect, emit_actions *)

NextSample ==
  /\ ~tool.ingest /\ sample < SampleCount
  /\ Goes("collect", "run")
  /\ sample' = sample + 1 /\ docs' = 0
  /\ StartSample
  /\ UNCHANGED <<tool, file, reported>>

\* coremark-pro reports the earlier results as those of its last sample.
Ingest ==
  /\ tool.ingest /\ Goes("collect", "report")
  /\ sample' = (IF tool = coremarkpro_ingest THEN Samples ELSE 1)
  /\ UNCHANGED <<sampleVars, toolVars>>

Finish ==
  /\ ~tool.ingest /\ sample = SampleCount
  /\ Goes("collect", "done")
  /\ UNCHANGED <<sampleVars, sample, toolVars>>

\* A process that ends well has written its results; another may have.
Run ==
  /\ pc = "run"
  /\ \E o \in Outcomes :
       /\ Attempt(sample, tool.retries, tool.bad, o)
       /\ o = "hollow" => tool = vegeta
       /\ file' \in IF o \in NonZero THEN {file, Len(ran) + 1} ELSE {Len(ran) + 1}
  /\ UNCHANGED <<tool, pc, sample, docs, reported>>

OutOfTries ==
  /\ pc = "run" /\ GiveUp(tool.retries)
  /\ UNCHANGED <<tool, pc, sample, file, docs, reported>>

Succeeded ==
  /\ success = "yes" /\ Goes("run", "report")
  /\ UNCHANGED <<sampleVars, sample, toolVars>>

AfterFailure == CASE tool.fails = "exit"   -> "exited"
                  [] tool.fails = "raise"  -> "raised"
                  [] tool.fails = "skip"   -> "collect"
                  [] tool.fails = "report" -> "report"

\* Variant of Failed: a failed sample is reported like another.
FailedUnseen ==
  /\ success = "no" /\ Goes("run", "report")
  /\ UNCHANGED <<sampleVars, sample, toolVars>>

Failed ==
  /\ success = "no" /\ Goes("run", AfterFailure)
  /\ UNCHANGED <<sampleVars, sample, toolVars>>

\* What the results are made of.
Source == CASE tool.ingest -> 0
            [] tool.file /\ ~tool.ingest -> file
            [] OTHER -> Len(ran)

\* Variant of Yield: the attempts are reported for the failures.
YieldAttempts ==
  /\ pc = "report" /\ docs < MaxDocs
  /\ docs' = docs + 1
  /\ reported' = reported \cup
       {[sample |-> sample, by |-> Source, successful |-> success = "yes",
         failures |-> attempts]}
  /\ UNCHANGED <<sampleVars, tool, pc, sample, file>>

Yield ==
  /\ pc = "report" /\ docs < MaxDocs
  /\ docs' = docs + 1
  /\ reported' = reported \cup
       {[sample |-> sample, by |-> Source, successful |-> success = "yes",
         failures |-> Len(failed)]}
  /\ UNCHANGED <<sampleVars, tool, pc, sample, file>>

\* Variant of EndSample: a sample without results is no failure.
EndSampleEmpty ==
  /\ Goes("report", IF tool.ingest THEN "done" ELSE "collect")
  /\ UNCHANGED <<sampleVars, sample, toolVars>>

EndSample ==
  /\ docs > 0 \/ tool.empty
  /\ Goes("report", IF tool.ingest THEN "done" ELSE "collect")
  /\ UNCHANGED <<sampleVars, sample, toolVars>>

\* The output is not what the tool reads, or holds no result; image_pull reads none.
ParseFails ==
  /\ tool # image_pull /\ Goes("report", "raised")
  /\ UNCHANGED <<sampleVars, sample, toolVars>>

\* The consumer closes the generator where it yields.
Close ==
  /\ docs > 0 /\ Goes("report", "closed")
  /\ UNCHANGED <<sampleVars, sample, toolVars>>

Steps ==
  \/ SetUp \/ InputMissing \/ Build \/ Built \/ BuildFailed
  \/ NextSample \/ Ingest \/ Finish
  \/ Run \/ OutOfTries \/ Succeeded \/ Failed
  \/ Yield \/ EndSample \/ ParseFails

Next == Steps \/ Close

Spec     == Init /\ [][Next]_vars
FairSpec == Spec /\ WF_vars(Steps)
-----------------------------------------------------------------------------
\* The ProcessSample of the current sample tells what its processes did (process.py).
SampleRecord == RecordOf(tool.retries, tool.bad)

\* The tools that take every nonzero return code for a failure.
Strict == NonZero \subseteq tool.bad

\* Where every nonzero return code is a failure that is not reported itself, a result
\* comes from a process of the sample that it is reported for, and from one that ended
\* well: no file of an earlier sample or attempt is read (stressng, which takes return
\* codes above 1 for success, may read one).
FreshResults ==
  Strict /\ tool.fails # "report" /\ ~tool.ingest => \A d \in reported :
    d.by \in 1..Len(ran) /\ ran[d.by].sample = d.sample /\ ran[d.by].outcome \notin tool.bad

\* A result of image_pull says how many times the command failed and whether the last
\* run of it succeeded.
HonestFailures ==
  \A d \in reported : d.by # 0 /\ tool.fails = "report" =>
    /\ d.successful = (ran[d.by].outcome \notin tool.bad)
    /\ d.failures = Cardinality({i \in 1..Len(ran) : ran[i].outcome \in tool.bad})

\* Each variable has a value the code can give it, and HonestFailures.
SampledInv == SampledTypeOK /\ HonestFailures

\* A tool that ends well has results of every sample, unless it is one that skips
\* failed samples or that takes a sample without results.
DoneMeansAll ==
  pc = "done" /\ tool.fails # "skip" /\ ~tool.empty
    => \A n \in 1..SampleCount : \E d \in reported : d.sample = n

\* Every run of a tool ends.
EveryToolEnds == <>(pc \in Over)
=============================================================================
