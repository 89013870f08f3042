----------------------------- MODULE FioAnalyzer ----------------------------
(***************************************************************************)
(* snafu/fio_wrapper/fio_analyzer.py: the iops of all hosts are added up   *)
(* by sample and operation, and averaged over the samples.                 *)
(*                                                                         *)
(* Pure operators over the results that were added; FioWrapper adds them.  *)
(* An average is kept as its sum and the number of samples it is divided   *)
(* by.  Of a standard deviation only the average it is divided by is kept. *)
(***************************************************************************)
EXTENDS Integers, FiniteSets, Functions

AllClients == "All clients"   \* the summary fio adds to the results of the hosts

\* Variant of PerHost: the summary is taken for one host more.
EveryResult(results) == results

PerHost(results) == {r \in results : r.host # AllClients}

sample_list(results)    == {r.sample : r \in PerHost(results)}
operation_list(results) == {r.rw : r \in PerHost(results)}

\* The size comes from the global section alone, whatever the job says.
bs_value(global) == global.bs

sumdoc(results, sample, rw) ==
  LET group == {r \in PerHost(results) : r.sample = sample /\ r.rw = rw}
  IN  [read  |-> SumFunction([r \in group |-> r.read]),
       write |-> SumFunction([r \in group |-> r.write])]

Averaged(results, global, rw) ==
  LET sums(s) == sumdoc(results, s, rw)
  IN  [operation |-> rw, object_size |-> bs_value(global),
       read    |-> SumFunction([s \in sample_list(results) |-> sums(s).read]),
       write   |-> SumFunction([s \in sample_list(results) |-> sums(s).write]),
       samples |-> Cardinality(sample_list(results))]

Analyzed(results, global) == {Averaged(results, global, rw) : rw \in operation_list(results)}

\* "read" in oper, which holds of readwrite too
DividesByReads  == {"read", "randread", "readwrite"}
DividesByWrites == {"write", "randwrite"}

ZeroDivision(a) ==
  /\ a.samples > 1 /\ a.read + a.write > 0
  /\ \/ a.operation \in DividesByReads  /\ a.read = 0
     \/ a.operation \in DividesByWrites /\ a.write = 0

\* global_options is missing, no size was ever assigned, a job has its rw from the global
\* section, an operation has no result in some sample, or an average divided by is 0.
AnalysisRaises(results, global) ==
  /\ PerHost(results) # {}
  /\ \/ ~global.present \/ global.bs = "none"
     \/ \E r \in PerHost(results) : r.rw = "none"
     \/ \E s \in sample_list(results), rw \in operation_list(results) :
          ~\E r \in PerHost(results) : r.sample = s /\ r.rw = rw
     \/ \E a \in Analyzed(results, global) : ZeroDivision(a)
=============================================================================
