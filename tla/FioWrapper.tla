----------------------------- MODULE FioWrapper -----------------------------
(***************************************************************************)
(* snafu/fio_wrapper: fio_wrapper.run makes a _trigger_fio per sample, and *)
(* emit_actions runs the jobs of the job file on all hosts, indexes what   *)
(* fio reports and the logs fio wrote, and hands the results to the        *)
(* analyzer, which comes last.  An invocation may be followed by another   *)
(* one with the same arguments, over the directories the first one left.   *)
(*                                                                         *)
(* The working directory is an absolute path; every line of a log has five *)
(* values.  The histogram branch (356-374) is not modelled: the wrapper    *)
(* passes its flag as numjob, so that process_histogram is always False.   *)
(* fio and the Ceph pod are external.                                      *)
(***************************************************************************)
EXTENDS FioAnalyzer, Sequences, SequencesExt

CONSTANTS
  NSamples,        \* --sample
  NJobs,           \* sections of the job file, without the global one
  Hosts,           \* the lines of the host file, a sequence
  JobLists,        \* the options the jobs may have
  GlobalChoices,   \* the options the global section may have, or its absence
  Iops(_, _, _, _), \* what fio measures: per sample, job, operation and host
  MaxRuns          \* bound: invocations

ASSUME FioAssumption ==
  /\ {NSamples, NJobs, MaxRuns} \subseteq Nat \ {0} /\ Hosts \in Seq(ToSet(Hosts))
  /\ AllClients \notin ToSet(Hosts)
  /\ \A l \in JobLists, s \in 1..NSamples, j \in 1..NJobs, h \in ToSet(Hosts) :
       {Iops(s, j, l[j].rw, h).read, Iops(s, j, l[j].rw, h).write} \subseteq Nat
  /\ LET FlagSets   == SUBSET {"gtod_reduce", "disable_lat", "disable_slat", "disable_clat", "disable_bw"}
         PrefixSets == SUBSET {"bw", "iops", "lat"}
         FormatSet  == {"none", "good", "other"}
     IN  /\ JobLists \subseteq [1..NJobs ->
              [flags : FlagSets, zero : FlagSets, prefixes : PrefixSets, numjobs : Nat,
               ramp_time : BOOLEAN, filename_format : FormatSet, rw : STRING, bs : STRING]]
         /\ GlobalChoices \subseteq
              [present : BOOLEAN, flags : FlagSets, zero : FlagSets, prefixes : PrefixSets,
               numjobs : Nat, filename_format : FormatSet, bs : STRING]

VARIABLES
  fioRun,          \* the number of the invocation
  fioAt,           \* where the wrapper is
  jobs, global,    \* fio_jobs_dict
  hasIp, drop,     \* ceph_cache_drop_pod_ip is set; the name "drop"
  sample, job,     \* positions in the two loops
  fio_starttime,   \* the hosts it has a time for
  wrote,           \* history: the hosts whose fio wrote its logs, of the job at hand
  files,           \* the log files, each with the invocation that wrote it last
  results,         \* what the analyzer was given
  logged,          \* the log documents yielded
  triggered,       \* the jobs for which Prometheus data was asked for
  analyzed         \* what the analyzer yielded

fioVars == <<fioRun, fioAt, jobs, global, hasIp, drop, sample, job, fio_starttime, wrote, files,
             results, logged, triggered, analyzed>>
given == <<fioRun, jobs, global, hasIp>>

FioOver  == {"done", "exit", "raised"}
HostSet  == ToSet(Hosts)
LogNames == <<"bw", "iops", "lat", "clat", "slat">>

Path(s, j, log, host, n) == [sample |-> s, job |-> j, log |-> log, host |-> host, numjob |-> n]

FioInit ==
  /\ jobs \in JobLists /\ global \in GlobalChoices
  /\ hasIp \in BOOLEAN
  /\ fioRun = 1 /\ fioAt = "sample" /\ drop = "unbound" /\ sample = 1 /\ job = 1
  /\ fio_starttime = {} /\ wrote = {} /\ files = <<>>
  /\ results = {} /\ logged = {} /\ triggered = {} /\ analyzed = {}

o == jobs[job]

GoOn(to) ==
  /\ fioAt' = to
  /\ UNCHANGED <<given, drop, sample, job, fio_starttime, wrote, files, results, logged,
                 triggered, analyzed>>
-----------------------------------------------------------------------------
(* The Ceph pod: an unsuccessful answer is only logged, and after a failed *)
(* request the name keeps the answer of an earlier sample, if it has one.  *)

DropOsdCaches(answer) ==
  /\ fioAt = "sample"
  /\ IF ~hasIp THEN answer = "failed" /\ fioAt' = "fio" /\ UNCHANGED drop
     ELSE /\ drop' = IF answer = "failed" THEN drop ELSE answer
          /\ fioAt' = IF drop' = "unbound" THEN "raised" ELSE "fio"
  /\ UNCHANGED <<given, sample, job, fio_starttime, wrote, files, results, logged,
                 triggered, analyzed>>
-----------------------------------------------------------------------------
(* fio                                                                     *)

Reports(reported) ==
  {[sample |-> sample, job |-> job, rw |-> o.rw, bs |-> o.bs, host |-> h,
    read |-> Iops(sample, job, o.rw, h).read, write |-> Iops(sample, job, o.rw, h).write] : h \in reported}

Summary(reported) ==
  {[sample |-> sample, job |-> job, rw |-> o.rw, bs |-> o.bs, host |-> AllClients,
    read |-> SumFunction([h \in reported |-> Iops(sample, job, o.rw, h).read]),
    write |-> SumFunction([h \in reported |-> Iops(sample, job, o.rw, h).write])]}

NumJobs == IF o.numjobs > 0 THEN o.numjobs ELSE IF global.present THEN global.numjobs ELSE 0

GlobalPrefixes == IF global.present THEN global.prefixes ELSE {}
GlobalFlags    == IF global.present THEN global.flags \ global.zero ELSE {}
Prefix(log)    == IF log \in {"clat", "slat"} THEN "lat" ELSE log
Named(log)     == Prefix(log) \in o.prefixes \cup GlobalPrefixes

\* The options that take one log off the list.
Disables == [lat |-> "disable_lat", slat |-> "disable_slat", clat |-> "disable_clat", bw |-> "disable_bw"]

\* What fio obeys: a flag the job gives as 0 is off, and off too where the global section
\* sets it.  The wrapper looks only at the job, and only whether it gives the flag.
Obeyed == (o.flags \ o.zero) \cup (GlobalFlags \ o.flags)

\* gtod_reduce and the disable_ options.
Removed(flags) ==
  (IF "gtod_reduce" \in flags THEN {"slat", "clat", "bw"} ELSE {}) \cup
  {log \in DOMAIN Disables : Disables[log] \in flags}

WrittenBy(ok) ==
  {Path(sample, job, log, h, n) : log \in {l \in ToSet(LogNames) :
                                             Named(l) /\ l \notin Removed(Obeyed)},
                                  h \in ok, n \in 1..NumJobs}

\* fio ends with code 0, even when it failed on some hosts: one that failed wrote no
\* logs, and may be in the report or not.
FioEndsWell(ok, reported) ==
  /\ fioAt = "fio"
  /\ wrote' = ok
  /\ files' = [p \in WrittenBy(ok) \cup DOMAIN files |-> IF p \in WrittenBy(ok) THEN fioRun ELSE files[p]]
  /\ fio_starttime' = reported
  /\ IF reported # {} /\ ~o.ramp_time /\ ~global.present
     THEN fioAt' = "raised" /\ UNCHANGED results
     ELSE /\ results' = results \cup Reports(reported) \cup Summary(reported)
          /\ fioAt' = "logs"
  /\ UNCHANGED <<given, drop, sample, job, logged, triggered, analyzed>>

\* fio fails, its output cannot be cleaned, or is no JSON
FioFails == fioAt = "fio" /\ (GoOn("exit") \/ GoOn("raised"))
-----------------------------------------------------------------------------
(* _log_payload                                                            *)

\* exit(1) for a format of the global section is swallowed by the except around it.
WrongFormat == o.filename_format = "other"

\* An entry of _current_log_files is deleted twice.
DoubleDelete ==
  "gtod_reduce" \in o.flags /\ o.flags \cap {"disable_slat", "disable_clat", "disable_bw"} # {}

\* The triples of log, host and numjob in the order of the three loops.
Triples ==
  FlattenSeq([i \in 1..Len(LogNames) |->
    IF LogNames[i] \in Removed(o.flags) THEN <<>>
    ELSE FlattenSeq([h \in 1..Len(Hosts) |->
           [n \in 1..NumJobs |-> Path(sample, job, LogNames[i], Hosts[h], n)]])])

\* Variant of LogFileName: the global section is not asked.
LogFileNameOfJob(names, p) == IF Prefix(p.log) \in o.prefixes THEN {p} ELSE names

\* log_file_name, as a set of at most one file: it keeps the last file when no prefix is
\* set for this one.
LogFileName(names, p) == IF Named(p.log) THEN {p} ELSE names

Begun == [end |-> "none", log_file_name |-> {}, docs |-> {}]

\* Variant of ReadLog: a missing file is passed over.
ReadLogOrNone(acc, p) ==
  LET names == LogFileName(acc.log_file_name, p)
  IN  IF acc.end # "none" THEN acc
      ELSE IF names = {} \/ (names \subseteq DOMAIN files /\ p.host \notin fio_starttime)
           THEN [acc EXCEPT !.end = "raised"]
      ELSE [acc EXCEPT !.log_file_name = names,
                       !.docs = @ \cup {[of |-> p, from |-> f] : f \in names \cap DOMAIN files}]

\* One file: the name may be unbound, the file missing, the host without a start time.
ReadLog(acc, p) ==
  LET names == LogFileName(acc.log_file_name, p)
  IN  IF acc.end # "none" THEN acc
      ELSE IF names = {} THEN [acc EXCEPT !.end = "raised"]
      ELSE IF ~(names \subseteq DOMAIN files) THEN [acc EXCEPT !.end = "exit"]
      ELSE IF p.host \notin fio_starttime THEN [acc EXCEPT !.end = "raised"]
      ELSE [acc EXCEPT !.log_file_name = names,
                       !.docs = @ \cup {[of |-> p, from |-> f] : f \in names}]

LogPayload ==
  IF WrongFormat THEN [Begun EXCEPT !.end = "exit"]
  ELSE IF DoubleDelete \/ NumJobs = 0 THEN [Begun EXCEPT !.end = "raised"]
  ELSE FoldLeft(ReadLog, Begun, Triples)

\* All files are read before the first of their documents is yielded.
CollectLogs ==
  /\ fioAt = "logs"
  /\ LET payload == LogPayload
     IN  IF payload.end # "none" THEN GoOn(payload.end)
         ELSE /\ logged' = logged \cup payload.docs
              /\ fioAt' = "trigger"
              /\ UNCHANGED <<given, drop, sample, job, fio_starttime, wrote, files, results,
                             triggered, analyzed>>

\* The Prometheus trigger ends a job, the last job a sample, the last sample the run.
EndJob ==
  /\ fioAt = "trigger"
  /\ triggered' = triggered \cup {<<sample, job>>}
  /\ job' = IF job < NJobs THEN job + 1 ELSE 1
  /\ sample' = IF job < NJobs \/ sample = NSamples THEN sample ELSE sample + 1
  /\ fioAt' = IF job < NJobs THEN "fio" ELSE IF sample < NSamples THEN "sample" ELSE "analyze"
  /\ wrote' = {} /\ fio_starttime' = {}
  /\ UNCHANGED <<given, drop, files, results, logged, analyzed>>

Analyze ==
  /\ fioAt = "analyze"
  /\ IF AnalysisRaises(results, global) THEN GoOn("raised")
     ELSE /\ analyzed' = Analyzed(results, global)
          /\ fioAt' = "done"
          /\ UNCHANGED <<given, drop, sample, job, fio_starttime, wrote, files, results, logged,
                         triggered>>

\* The same command again: what the process held is gone, the files are there.
RunAgain ==
  /\ fioAt \in FioOver /\ fioRun < MaxRuns
  /\ fioRun' = fioRun + 1
  /\ fioAt' = "sample" /\ drop' = "unbound" /\ sample' = 1 /\ job' = 1
  /\ fio_starttime' = {} /\ wrote' = {} /\ results' = {} /\ logged' = {} /\ triggered' = {}
  /\ analyzed' = {}
  /\ UNCHANGED <<jobs, global, hasIp, files>>

FioNext ==
  \/ \E answer \in {"SUCCESS", "error", "failed"} : DropOsdCaches(answer)
  \/ \E ok \in SUBSET HostSet : \E reported \in SUBSET HostSet :
       ok \subseteq reported /\ FioEndsWell(ok, reported)
  \/ FioFails \/ CollectLogs \/ EndJob \/ Analyze \/ RunAgain
-----------------------------------------------------------------------------
(* Properties                                                              *)

\* What job j is to leave behind in sample s: a document per log, host and job number.
Expected(s, j) ==
  LET n == IF jobs[j].numjobs > 0 THEN jobs[j].numjobs ELSE global.numjobs
  IN  {Path(s, j, log, h, k) : log \in ToSet(LogNames) \ Removed(jobs[j].flags), h \in HostSet, k \in 1..n}

\* A prefix is set, for the job or for all, for each log the wrapper looks for.
FullyNamed(j) ==
  \A log \in ToSet(LogNames) \ Removed(jobs[j].flags) :
    Prefix(log) \in jobs[j].prefixes \cup GlobalPrefixes

\* When a job is over, every log of every host is indexed, and from its own file; a log
\* whose disable_ option the job gives is passed over, be it given as 0.
LogsComplete ==
  \A t \in triggered : FullyNamed(t[2]) =>
    LET docs == {d \in logged : d.of.sample = t[1] /\ d.of.job = t[2]}
    IN  /\ {d.of : d \in docs} = Expected(t[1], t[2])
        /\ \A d \in docs : d.from = d.of

\* fio may end with 0 after it failed.  In directories that were empty such a failure ends
\* the run before the next job, and nothing of the job is indexed but what fio reported.
SilentFailureFound ==
  fioRun = 1 /\ fioAt = "trigger" => wrote = HostSet /\ fio_starttime = HostSet

\* The analyzer comes to its averages only when they are of all samples and hosts: for an
\* operation, of every job that does it, each host counted once.
AnalysisWhole ==
  \A a \in analyzed :
    LET done == {x \in (1..NSamples) \X (1..NJobs) \X HostSet : jobs[x[2]].rw = a.operation}
    IN  /\ a.samples = NSamples
        /\ a.read  = SumFunction([x \in done |-> Iops(x[1], x[2], a.operation, x[3]).read])
        /\ a.write = SumFunction([x \in done |-> Iops(x[1], x[2], a.operation, x[3]).write])

\* "results are analyzed based on operation and io size" (fio_analyzer.py:8): the jobs whose
\* results are added up have the io size under which they are reported.
AnalyzedByIoSize ==
  \A a \in analyzed : \A j \in 1..NJobs :
    jobs[j].rw = a.operation => jobs[j].bs \in {"none", a.object_size}
=============================================================================
