---------------------------- MODULE FioHistogram ----------------------------
(***************************************************************************)
(* snafu/fio_wrapper/fio_hist_parser.py: the histogram logs of several     *)
(* threads are parsed, cut at the borders of common intervals and added.   *)
(*                                                                         *)
(* A record of a log is its time and direction; its buckets are left out:  *)
(* all of them are weighted alike, so that an interval is the set of the   *)
(* shares of records added to it.  A share is the overlap it stands for    *)
(* and the duration it is divided by, both in milliseconds.                *)
(*                                                                         *)
(* get_pctiles is not modelled: get_samples, which comes before it, uses   *)
(* reduce, which is not imported, and raises (298).                        *)
(***************************************************************************)
EXTENDS Integers, Sequences, FiniteSets, SequencesExt

CONSTANTS
  LogPairs,        \* the pairs of files; a file is a sequence of lines
  MsPerSec,        \* msec_per_sec
  Epoch,           \* the least time that is taken for a Unix time (1000000)
  Quanta,          \* values of time_quantum, in seconds
  HistMsecs        \* values of log_hist_msec, 0 for None

ASSUME HistAssumption ==
  /\ {MsPerSec, Epoch} \cup Quanta \subseteq Nat \ {0} /\ HistMsecs \subseteq Nat
  /\ LogPairs \subseteq [1..2 -> Seq([time : Nat, direction : {0, 1}, wellFormed : BOOLEAN])]

VARIABLES
  logs, time_quantum, log_hist_msec,   \* the arguments
  histAt,      \* "parse", "align", "report", "done", "aborted" or "raised"
  thread,      \* the file at hand
  record,      \* the record of it that is aligned next
  hist,        \* hist_files: the records of each file parsed
  starts, ends,  \* log_start_time and log_end_time of each
  shares       \* what was added to the intervals

histVars == <<logs, time_quantum, log_hist_msec, histAt, thread, record, hist, starts, ends, shares>>
arguments == <<logs, time_quantum, log_hist_msec>>
HistOver == {"done", "aborted", "raised"}

HistInit ==
  /\ logs \in LogPairs /\ time_quantum \in Quanta /\ log_hist_msec \in HistMsecs
  /\ histAt = "parse" /\ thread = 1 /\ record = 1
  /\ hist = <<>> /\ starts = <<>> /\ ends = <<>> /\ shares = {}
-----------------------------------------------------------------------------
(* parse_hist_file                                                         *)

\* A line that is not well formed, or whose time is less than the one before it in its
\* direction, ends the parsing; one like the line before it is left out.
ParseLine(acc, line) ==
  IF acc.bad \/ ~line.wellFormed \/ line.time < acc.previous[line.direction]
  THEN [acc EXCEPT !.bad = TRUE]
  ELSE [acc EXCEPT !.previous[line.direction] = line.time,
                   !.intervals =
                     IF @ # <<>> /\ Last(@) = line THEN @ ELSE Append(@, line)]

Parsed(lines) ==
  FoldLeft(ParseLine, [bad |-> FALSE, previous |-> [d \in {0, 1} |-> -1], intervals |-> <<>>], lines)

NoStart == -1

StartTime(intervals) ==
  LET first == intervals[1].time
  IN  CASE first < Epoch        -> 0
        [] log_hist_msec > 0    -> first - log_hist_msec
        [] Len(intervals) > 1   -> first - (intervals[2].time - first)
        [] OTHER                -> NoStart

\* FioHistoLogExc: compute_percentiles_from_logs ends the process.
ParseFails(p) == p.bad \/ p.intervals = <<>> \/ StartTime(p.intervals) = NoStart

MaxOf(f) == CHOOSE x \in Range(f) : \A y \in Range(f) : y <= x
MinOf(f) == CHOOSE x \in Range(f) : \A y \in Range(f) : x <= y

\* test_start_time, which begins at 0.
TestStart(times) == MaxOf(<<0>> \o times)

ParseLog ==
  /\ histAt = "parse"
  /\ LET p == Parsed(logs[thread])
     IN  IF ParseFails(p) THEN histAt' = "aborted" /\ UNCHANGED <<thread, hist, starts, ends>>
         ELSE /\ hist' = Append(hist, p.intervals)
              /\ starts' = Append(starts, StartTime(p.intervals))
              /\ ends' = Append(ends, Last(p.intervals).time)
              /\ thread' = IF thread < Len(logs) THEN thread + 1 ELSE 1
              /\ histAt' = IF thread < Len(logs) THEN "parse"
                           ELSE IF TestStart(starts') >= MinOf(ends') THEN "raised" ELSE "align"
  /\ UNCHANGED <<arguments, record, shares>>
-----------------------------------------------------------------------------
(* get_time_intervals and align_histo_log                                  *)

\* All threads have started; one of the logs has ended.
min_timestamp_ms == TestStart(starts)
max_timestamp_ms == MinOf(ends)

time_qtm_ms == time_quantum * MsPerSec

time_interval_count ==
  LET seconds == (max_timestamp_ms \div MsPerSec) - (min_timestamp_ms \div MsPerSec)
  IN  (seconds + time_quantum) \div time_quantum

\* The end is rounded down to whole seconds, the intervals start at the millisecond.
end_time_ms == ((min_timestamp_ms \div MsPerSec) + time_interval_count * time_quantum) * MsPerSec

\* The next record of the same direction is one of the next three.
NextRecord(recs, k) ==
  LET same == {i \in {k + 1, k + 2, k + 3} \cap DOMAIN recs : recs[i].direction = recs[k].direction}
  IN  IF same = {} THEN 0 ELSE MinOf([i \in same |-> i])

AssertionFails(recs, k) == NextRecord(recs, k) = 0 /\ k + 3 <= Len(recs)

\* Variant of RecordEnd: the next record ends this one whatever its direction.
RecordEndAny(recs, k) == IF k < Len(recs) THEN recs[k + 1].time ELSE end_time_ms

RecordEnd(recs, k) ==
  IF NextRecord(recs, k) = 0 THEN end_time_ms ELSE recs[NextRecord(recs, k)].time

QuantumStart(q) == min_timestamp_ms + q * time_qtm_ms

\* The indices the inner loop goes through; a record before the start has negative ones.
QuantaOf(time, end) ==
  LET first == (time - min_timestamp_ms) \div time_qtm_ms
  IN  {q \in first..(time_interval_count - 1) : QuantumStart(q) < end}

Greater(a, b) == IF a > b THEN a ELSE b
Lesser(a, b)  == IF a < b THEN a ELSE b

\* A negative index of a Python list counts from its end.
Share(k, q, time, end) ==
  [thread |-> thread, record |-> k, quantum |-> q,
   interval |-> IF q < 0 THEN time_interval_count + q ELSE q,
   overlap |-> Lesser(QuantumStart(q + 1), end) - Greater(QuantumStart(q), time),
   duration |-> end - time]

\* A duration of 0 is divided by, or the index is below that of the first interval.
AlignRaises(quanta, time, end) ==
  quanta # {} /\ (end = time \/ \E q \in quanta : q < -time_interval_count)

AlignRecord ==
  /\ histAt = "align"
  /\ LET recs == hist[thread]
         time == recs[record].time
         end  == RecordEnd(recs, record)
         quanta == QuantaOf(time, end)
     IN  IF AssertionFails(recs, record) \/ AlignRaises(quanta, time, end)
         THEN histAt' = "raised" /\ UNCHANGED <<thread, record, shares>>
         ELSE /\ shares' = shares \cup {Share(record, q, time, end) : q \in quanta}
              /\ IF record < Len(recs)
                 THEN record' = record + 1 /\ UNCHANGED <<histAt, thread>>
                 ELSE /\ record' = 1
                      /\ thread' = IF thread < Len(logs) THEN thread + 1 ELSE 1
                      /\ histAt' = IF thread < Len(logs) THEN "align" ELSE "report"
  /\ UNCHANGED <<arguments, hist, starts, ends>>

\* No line is written for the first interval; the first one that is written needs
\* get_samples, which raises.
Report ==
  /\ histAt = "report"
  /\ histAt' = IF time_interval_count > 1 THEN "raised" ELSE "done"
  /\ UNCHANGED <<arguments, thread, record, hist, starts, ends, shares>>

HistNext == ParseLog \/ AlignRecord \/ Report
-----------------------------------------------------------------------------
(* Properties                                                              *)

Aligned(f, k) == histAt = "report" \/ f < thread \/ (f = thread /\ k < record)

\* A record lasts until the next one of its direction, however far that is.
Until(f, k) ==
  LET later == {i \in (k + 1)..Len(hist[f]) : hist[f][i].direction = hist[f][k].direction}
  IN  IF later = {} THEN end_time_ms ELSE MinOf([i \in later |-> hist[f][i].time])

\* The milliseconds a record has in interval j, counted one by one.
MsIn(f, k, j) ==
  Cardinality({ms \in hist[f][k].time..(Until(f, k) - 1) :
                 QuantumStart(j) <= ms /\ ms < QuantumStart(j + 1)})

SharesOf(f, k, j) == {s \in shares : s.thread = f /\ s.record = k /\ s.interval = j}

ExactIn(f, k, j) ==
  IF MsIn(f, k, j) = 0 THEN SharesOf(f, k, j) = {}
  ELSE \E s \in SharesOf(f, k, j) : SharesOf(f, k, j) = {s} /\ s.overlap = MsIn(f, k, j)

\* A record that starts when all threads run and lasts for a while is split without loss:
\* each interval gets the milliseconds the record has in it, once, until the last interval.
SplitExactly ==
  histAt \in {"align", "report"} =>
    \A f \in 1..Len(hist) : \A k \in 1..Len(hist[f]) :
      LET time == hist[f][k].time
      IN  Aligned(f, k) /\ min_timestamp_ms <= time /\ time < Until(f, k) =>
            \A j \in 0..(time_interval_count - 1) : ExactIn(f, k, j)
=============================================================================
