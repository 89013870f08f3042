------------------------------ MODULE MCReports ------------------------------
(***************************************************************************)
(* What turns the output of others into documents or lists: the fio        *)
(* wrapper with its analyzer, the parser of histogram logs (which the      *)
(* wrapper does not reach), the fs_drift wrapper, systemd_analyze and      *)
(* ci/build_matrix.py.  One of them runs in each behaviour.                *)
(***************************************************************************)
EXTENDS FioWrapper, FioHistogram, FsDrift, SystemdAnalyze, BuildMatrix

VARIABLE part

fioBoth   == <<fioVars, histVars>>
otherVars == <<driftVars, blameVars, matrixVars>>
vars == <<part, fioBoth, otherVars>>

MCHosts == <<"a", "b">>

\* A job with everything, and what may be different in one of the two.
Plain == [flags |-> {}, zero |-> {}, prefixes |-> {"bw", "iops", "lat"}, numjobs |-> 1,
          ramp_time |-> FALSE, filename_format |-> "good", rw |-> "randread", bs |-> "none"]

MCJobs ==
  {Plain,
   [Plain EXCEPT !.prefixes = {}, !.rw = "write"],
   [Plain EXCEPT !.prefixes = {"bw"}, !.flags = {"disable_lat", "disable_clat"}],
   [Plain EXCEPT !.flags = {"gtod_reduce", "disable_slat"}],
   [Plain EXCEPT !.flags = {"gtod_reduce"}, !.filename_format = "none", !.rw = "readwrite"],
   [Plain EXCEPT !.bs = "4k", !.numjobs = 0, !.rw = "readwrite"],
   [Plain EXCEPT !.flags = {"disable_lat"}, !.zero = {"disable_lat"}, !.rw = "none"],
   [Plain EXCEPT !.filename_format = "other", !.ramp_time = TRUE]}

MCJobLists == {<<Plain, j>> : j \in MCJobs} \cup {<<j, Plain>> : j \in MCJobs}

Section == [present |-> TRUE, flags |-> {}, zero |-> {}, prefixes |-> {"bw", "iops", "lat"},
            numjobs |-> 2, filename_format |-> "other", bs |-> "64k"]

MCGlobals ==
  {Section,
   [Section EXCEPT !.prefixes = {"lat"}, !.numjobs = 0],
   [Section EXCEPT !.flags = {"disable_lat"}],
   [Section EXCEPT !.bs = "none"],
   [Section EXCEPT !.present = FALSE]}

\* All different, and no read at all in a readwrite of job 2.
MCIops(s, j, rw, h) ==
  LET n == s + 3 * j + (IF h = "a" THEN 0 ELSE 10)
  IN  [read  |-> IF rw = "write" \/ (rw = "readwrite" /\ j = 2) THEN 0 ELSE n,
       write |-> IF rw = "randread" THEN 0 ELSE 2 * n]

Lines(times, directions) == [time : times, direction : directions, wellFormed : {TRUE}]

Broken == [time |-> 4, direction |-> 0, wellFormed |-> FALSE]

\* Unix times from 4 on: a log of reads and writes beside one of reads; and logs from 0.
MCLogPairs ==
  (BoundedSeq(Lines(4..7, {0, 1}), 3) \X {<<a, b>> : a, b \in Lines(5..8, {0})})
  \cup (BoundedSeq(Lines(4..6, {0, 1}) \cup {Broken}, 2) \X BoundedSeq(Lines({5}, {0}), 1))
  \cup ({s \in BoundedSeq(Lines({0, 2, 3}, {0, 1}), 4) : Len(s) = 4} \X {<<a>> : a \in Lines(2..3, {0})})

\* A counters file that is right, one whose second snapshot comes too early, an empty one.
MCCounterLogs == {<<[elapsed |-> 4, count |-> 3], [elapsed |-> 8, count |-> 7]>>,
                  <<[elapsed |-> 4, count |-> 1], [elapsed |-> 5, count |-> 2]>>,
                  <<>>}
MCLeftovers == {File("gone", kind, 1, 0, <<[elapsed |-> 2, count |-> 9]>>) : kind \in {"counters", "rsptimes"}}

Dockerfiles(dir) == {dir \o <<"/", "Dockerfile">>, dir \o <<"/", "Dockerfile", ".", "ppc64le">>}
MCUperfDir == <<"snafu", "/", "benchmarks", "/", "uperf">>
MCFioDir   == <<"snafu", "/", "fio", "_", "wrapper">>
MCFound == Dockerfiles(MCUperfDir) \cup {MCFioDir \o <<"/", "Dockerfile">>, <<"snafu", "/", "iperf", "/", "Dockerfile">>}

\* A wrapper's file, two of the core that are bones and two that are not, a document.
MCDiffs == SUBSET {MCFioDir \o <<"/", "trigger", "_", "fio", ".", "py">>,
                   MCUperfDir \o <<"/", "uperf", ".", "py">>,
                   <<"snafu", "/", "process", ".", "py">>,
                   <<"snafu", "/", "utils", "/", "py", "_", "es", "_", "bulk", ".", "py">>,
                   <<"snafu", "/", "run", "_", "snafu", ".", "py">>,
                   <<"snafu", "/", "utils", "/", "wrapper", "_", "factory", ".", "py">>,
                   <<"docs", "/", "index", ".", "md">>}

\* The input of the parts that do not run does not matter.
Init ==
  /\ part \in {"fio", "histogram", "fs_drift", "systemd_analyze", "build_matrix"}
  /\ \/ part = "fio"
     \/ part # "fio" /\ jobs = [j \in 1..NJobs |-> Plain] /\ global = Section /\ hasIp = FALSE
  /\ \/ part = "histogram"
     \/ part # "histogram" /\ logs = <<<<>>, <<>>>> /\ time_quantum = 1 /\ log_hist_msec = 0
  /\ \/ part = "fs_drift"
     \/ part # "fs_drift" /\ pods = DriftPods /\ there = FALSE
  /\ \/ part = "systemd_analyze"
     \/ part # "systemd_analyze" /\ known = Facts /\ boot = <<>>
  /\ \/ part = "build_matrix"
     \/ part # "build_matrix" /\ changed_set = {} /\ changed_only = TRUE
  /\ FioInit /\ HistInit /\ DriftInit /\ BlameInit /\ MatrixInit

Is(p)     == part = p /\ UNCHANGED part
Fio       == Is("fio")             /\ FioNext    /\ UNCHANGED <<histVars, otherVars>>
Histogram == Is("histogram")       /\ HistNext   /\ UNCHANGED <<fioVars, otherVars>>
Drift     == Is("fs_drift")        /\ DriftNext  /\ UNCHANGED <<fioBoth, blameVars, matrixVars>>
Blame     == Is("systemd_analyze") /\ BlameNext  /\ UNCHANGED <<fioBoth, driftVars, matrixVars>>
Matrix    == Is("build_matrix")    /\ MatrixNext /\ UNCHANGED <<fioBoth, driftVars, blameVars>>

Next == Fio \/ Histogram \/ Drift \/ Blame \/ Matrix
Spec == Init /\ [][Next]_vars
=============================================================================
