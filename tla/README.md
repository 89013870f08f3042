# Specifications of benchmark-wrapper (snafu)

TLA+ models of the code under `snafu/` and of `ci/build_matrix.py`, the TLC configurations that check them, and TLAPS
proofs about them. Every definition is translated from the Python source; `PROJECT.json`
maps each one to the lines it stands for. What is outside the repository (Elasticsearch and its
client, Redis, the cache drop pods, the commands that are benchmarked, git) is modelled from how
the code uses it and marked external there.

Run `tlc -config X.cfg M` for a run, `tlapm M.tla` for the proofs of a module.

## The system

`run_snafu.py` is one process: it makes the object of one tool, pulls what the tool yields,
and pushes it through `streaming_bulk` into Elasticsearch, into an archive file, or both. Most
of the program is generators pulling from generators in one thread; concurrency comes from
the outside: several pods of one benchmark that synchronise through Redis, servers that answer
late, twice or not at all, privileged pods that drop caches, commands that fail and are retried,
and invocations that follow each other over the same archive file.

| component | state | operations | hard because | what makes it right |
|---|---|---|---|---|
| `py_es_bulk.streaming_bulk` | two deques shared by a generator and a result loop, counters | pull, yield, drain, resend, consume an answer, the final assertions | the helper pulls ahead of the answers; answers may be retryable; a write may be carried out and still fail | every document is counted once, truly, and in order; memory stays bounded; the call ends |
| `run_snafu` | `index_args` (prefix, indexing flag), archive file | main, process_generator, index_prom_data, archive write and read | kills in the middle of a line, settings changed in the middle of a run, two clusters | archive and index are both complete; documents go to the index that was named; every invocation ends |
| `drop_cache` | a connection per address | requests to all pods, responses, the Ceph pod | one pod of several fails, or drops after the caller gave up | no sample starts with a cache that was to be dropped |
| `redis_sync_pods` | a subscription per pod | SUBSCRIBE, NUMSUB, PUBLISH, listen, disconnect | two connections per pod are served in any order; pods time out and die | nobody passes before all arrived; nobody waits for ever |
| smallfile wrapper | sample, operation | drop, sync, run, report, sync | pods run in lock step, each drops caches of the cluster they share | no drop while another pod measures |
| `process.get_process_sample` | ProcessSample | run, retry, give up | retries, and what counts as a failure, differ by tool | the record tells what happened |
| `Benchmark.run` and the one-command tools | sample, result file, documents | setup, collect, report, cleanup | a failed attempt may leave a result file; failures exit, raise, skip or are reported | a result is of its sample and of a run that ended well |
| `get_prometheus_data` | time range, include list | one query per metric | a query may fail | (seen through index_prom_data) |
| `wrapper_factory`, `registry`, `config`, `_load_benchmarks` | the tools found | import, look-up, arguments | unknown tools | (seen through main) |
| fio wrapper | sample, job, the log files of a job, the name of the last one | Ceph request, fio, results, logs, trigger | fio ends with 0 after it failed; names of logs come from two sections and three loops; directories are used again | a job's logs are all indexed, each from its own file; a silent failure ends the run |
| `Fio_Analyzer` | results of all samples, one document | add, sum, average, yield | it is filled by every sample and read at the end; its document is yielded while it changes | an average is of all samples and hosts, each once |
| `fio_hist_parser` | records, intervals | parse, align, add, report | intervals cut at borders; two directions interleaved; logs of different lengths | a record is split without loss |
| fs_drift wrapper | files of a shared directory, the snapshot before | make, clear, run, read | pods do the same in one directory; time passes between a list and its files | a sample reads nothing of an earlier one; rates add up to the counters |
| log generator | messages sent, messages the backend holds, the clock | send, query, compare, wait | messages that arrive late or never, a query that fails, a timeout | what is confirmed has arrived; what is not was waited for |
| scale_openshift | spread, machine sets, the list of workers | patch, wait for replicas, walk the list, count | nodes join, drain and vanish between two looks | the machine sets are at the number asked for, and drained nodes are gone, when the workers are counted |
| upgrade_openshift | wanted version, head of the history, the clock | command, two polls, report | version, history and state change one after the other; calls fail | a time is reported for the upgrade asked for, complete; it ends |
| systemd_analyze | `etime`, `data_point` | set-up, summary, a line of blame | both are carried from line to line | a service has its own time, and no other's |
| `redis_scripts` | subscriptions | poll NUMSUB, publish, poll messages | whoever comes after the message waits for ever | with as many pods as expected, all return |
| `ci/build_matrix.py` | changed files, two matrices | parse, match, add, reset | regular expressions over paths; two lists that are to fit | manifests join the images that are built; a core change rebuilds everything |

The three wrappers that poll (log generator, scale_openshift, upgrade_openshift) share one shape:
something is asked of an external system, the system is polled, and one document tells how it went.

`vfs_stat`, the logging set-up and the linpack script are straight-line code without state
and are left out.

## Modules

    BulkLedger          what streaming_bulk promises: each document unseen, open, then settled once
    EsBulk              streaming_bulk in serial mode            implements BulkLedger
    EsBulkProofs        its inductive invariant; the ledger, duplicates, abandoned chunks and bodies
    EsBulkParallel      streaming_bulk with parallel=True         implements BulkLedger
    EsBulkParallelProofs  its inductive invariant, and the ledger again
    PodBarrier          what redis_sync_pods promises: a barrier per channel
    RedisSync           redis_sync_pods and the Redis server      implements PodBarrier
    SmallfilePods       EXTENDS RedisSync: the smallfile wrapper of every pod
    SmallfilePodsProofs the barrier and its refinement; lock step of the pods
    DropCache           drop_cache and the pods it asks
    RunSnafu            EXTENDS DropCache: run_snafu.py over several invocations
    RunSnafuProofs      index, archive and cold caches
    ProcessSample       get_process_sample
    SampledTools        EXTENDS ProcessSample: Benchmark.run and the one-command tools
    SampledToolsProofs  records, results, and what a tool that ends well leaves out
    LogGenerator        the log generator and a backend
    ScaleOpenShift      scale_openshift and the cluster's machine sets
    UpgradeOpenShift    upgrade_openshift and the cluster's version
    PollersProofs       what the three tools above report, held against the system they poll
    RedisScripts        publisher.py, subscriber.py and the Redis server
    EsBulkBodies        EXTENDS EsBulk: what is sent for a document that changes while it waits
    FioAnalyzer         the sums and averages, as operators
    FioWrapper          EXTENDS FioAnalyzer: fio, its logs, and the analyzer at the end
    FioHistogram        parsing and alignment of histogram logs
    FsDrift             the fs_drift wrapper of pods that share a directory
    SystemdAnalyze      the reading of systemd-analyze blame
    BuildMatrix         ci/build_matrix.py
    ReportsProofs       the five modules above: logs, averages, shares, rates, times, matrices
    FoldProofs          sums, folds and flattened sequences, for the proofs that need them
    MC*                 the instances TLC checks

Operators named in a comment as a *variant* of another one are mutated forms of it; they are in
no specification and serve to show that each property can fail.

### EsBulk

One action per place where control changes hands between the three parts that share the
thread. The generator `actions_tracking_closure` is `YieldNew`, `DrainRetries`, `YieldRetry`,
`Exhaust` and `SourceRaises` (the benchmark behind it fails). `Feed` is the chunker of the
helper, which sends a chunk when it is full, when the next action would take it over the byte
limit (a free choice), or when the generator ends. The server answers the actions of a request
in order: created, conflict, rejected (400), or a retryable error, which may follow a write that
was carried out; `Resent` is the retry inside the transport that `streaming_bulk` does not see.
`Consume` is the body of the result loop and `Finish` its two assertions. A document is its
position in the caller's iterable; `IdOf` gives the `_id`, which two documents may share.
`creator` remembers which document made each id, so that "counted as a duplicate" can be held
against what the index holds.

### EsBulkParallel

The helper gives the generator to the task thread of a pool: the *feeder* runs the generator and
makes chunks, *workers* send them, and *main* reads the answers in the order of the chunks. What
was one thread is now three kinds of actors over the two deques. A `popleft` and an `append` are
atomic, so that `DrainOne` moves one action while main may append between two of its steps, and
`Check` (is there anything to retry?) reads a deque that may change right after. `Put` blocks
while the queue is full; an exception in the feeder reaches main after the chunks before it
(`Reraise`). A benchmark that calls `exit()` ends the feeder with SystemExit, which the pool does
not hand on: main then waits for ever, and `EndsUnlessExited` says so.

### RedisSync and SmallfilePods

`at[p]` is the place of pod `p` inside one call. The server keeps `registered` per channel and
an `inbox` per pod. SUBSCRIBE is sent in `Subscribe` and served in `Register`; `Numsub` is sent
on another connection of the pool, and with `overtakes` may be served before. Closing the
connections, by the call or by the death of the process, drops the registration. `SmallfilePods`
adds what a pod does around the calls: `StartDrop`, `EndDrop`, the syncpoint before, `Run`,
`EndRun`, `Report`, the syncpoint after. A cleanup returns before the report and the
second syncpoint, as the code does. `calm` behaviours have no failures and no overtaking; they
are needed to say that without failures everybody finishes.

### DropCache and RunSnafu

`RunSnafu` runs `main` for a sequence of invocations. `env` holds the command line and the
environment; `Work` is what the tool yields, as documents and Prometheus triggers per data
object. The caches a pod dropped since the tool last ran are `cold`. `archive` is the file, line by
line: a document, `Torn` (a last line without end) or `Corrupt` (what a torn line becomes when
the next one is appended to it); at the start there is none, or one with a torn line. `kept` remembers
every document ever written to it. `streaming_bulk` appears by its ledger: `sending` holds what
it took, `Settle` decides one document, which is then in the index (`stored`) or counted as a failure (`failed`):
main prints the number of failures and ends well, so an archive is restored up to those. With `parallel` the
generator runs in a feeder thread, and `exit()` in a tool, a parser or `process_archive_file` (`Exits`) ends that thread
alone: main stays at `waits`, for the rest of its days or until it is killed. Exceptions do reach main.

### ProcessSample and SampledTools

A tool is a record of what differs between the wrappers (samples, retries, which outcomes are
failures, what a failure does, whether results are read from a file, what setup needs). `ran`
lists every process with the sample it ran for and its outcome; `file` is the process that wrote
the result file last. A process that fails may or may not have written it.

### LogGenerator, ScaleOpenShift, UpgradeOpenShift

Each has the wrapper's steps and, apart, those of the outside. `LogGenerator`: `Arrive` brings any
number of the messages sent to the backend at any time; a count that is asked for may be behind
what has arrived. A CloudWatch query is started, ends by itself as Complete or Failed, and is polled until it is Complete.
A check of Kafka is as many turns as the topic has partitions: in each the consumer is put to the first message of
the partition (`Seek`), and then delivers (`ReadOwn`) what is `unread` of *any* partition, until a second passes without a message (`Silence`) or
one past the end is delivered (`BreakOff`). `busy` says that other producers leave no such second. `elapsed` is the whole part of the time since the last message was sent, so that
a timeout of 0 passes before the first query, as it does in the code (`messages_received` is then
unbound and the run raises). `UpgradeOpenShift`: the cluster takes up the request (`TakeUp`), makes the
history entry (`NewEntry`) and completes it (`Complete`), whenever it likes or never, also between the three
reads after the loop (`Finish`, `StartTime`, `EndTime`), each of which may fail. Nobody else
is assumed to change the version. `ScaleOpenShift`: a machine set comes to its replicas by `Join`, or
by `Delete` (a machine is marked, and no longer counted as ready), `Cordon` and `Gone`. The list
of workers is a snapshot in the order of the names; the walk over it keeps its position when the list is
fetched again, as the code does. `RedisScripts` is the older synchronisation: the publisher polls
NUMSUB until it is exactly `pod_count`, and each subscriber takes the messages of its queue, the
confirmation of its own subscription first. `MCPollers` runs one of the four in each behaviour.

### FioWrapper, FioAnalyzer, EsBulkBodies

`FioWrapper` follows `emit_actions`: `DropOsdCaches` (where the answer of a failed request is a name
that is unbound, or an old one), `FioEndsWell` with the hosts on which fio really ran and those it
reports, `CollectLogs`, `EndJob`. `LogPayload` folds `ReadLog` over the triples of log, host and job
number, and carries what the code carries: the documents, and `log_file_name`, a set of at most one
file, empty while the name is unbound. `files` remembers which invocation wrote a file last; `RunAgain` starts
over in the same directories. The options of a job are the ones `_log_payload` looks at. The wrapper looks whether the job gives a flag; fio obeys those of
both sections, unless they are given as 0 (`zero`, `Obeyed`).
`FioAnalyzer` has the sums by sample and operation. An average is a sum beside the number it is
divided by; of the standard deviation the division by zero is kept. `EsBulkBodies` puts the analyzer's way of
yielding, one dictionary for all documents, under `streaming_bulk`: a body is what the object holds when the
helper serialises it, so that a document which waits to be resent has become a later one. `StoredAsYielded` says that
this is the only way in which something else is stored than what was yielded.

### FioHistogram

A record is its time and direction, a share of it the overlap and the duration it is weighted by; buckets
are all weighted alike and are left out. `ParseLine` is the loop of `parse_hist_file`; `AlignRecord` is one
turn of the outer loop of `align_histo_log`, with the inner one as the set of the shares it adds. `SplitExactly`
holds the shares against a count of single milliseconds. The program ends in `Report`: as soon as there are two
intervals, `get_samples` uses `reduce`, which is not imported, so that `get_pctiles` is never reached.

### FsDrift

Every pod's steps on the file system are apart: the test and the mkdir of `ensure_dir_exists`, the list of
network-shared and each unlink, the run, the list of the counters and each file. A file is named by pod, kind and thread,
and carries the sample that wrote it. Counters are in half seconds, as the assertion of `compute_rates` asks for more than
half a second.

### SystemdAnalyze, BuildMatrix

`SystemdAnalyze` reads lines as the three expressions of the code find their parts: minutes, seconds with
decimals, milliseconds; hours and whole seconds are found by none. `Told` says what that makes of each time: the time
itself when the line can be read, else a part of it, or the time told of the service before. `BuildMatrix` matches words and marks of a
path against the bones, and adds the entries of one Dockerfile per step, in any order; the builder is used twice, as in its unit
test. `MCReports` runs one of the five programs in each behaviour.

## Runs

| run | module | bounds | shows |
|---|---|---|---|
| es_bulk | MCEsBulk | 5 documents, two with one id, the last two one object of the analyzer, chunks of 2, 3 retryable answers | counting, order, bounds, bodies, ledger, termination |
| es_bulk_parallel | MCEsBulkParallel | 3 documents, two with one id, 2 workers, a queue of 1 chunk, 2 retryable answers | order, nothing lost between threads, ledger, ends |
| es_bulk_last_chunk | MCEsBulk | the same | violation: a push-back in the last chunk is never resent |
| smallfile_pods | MCSmallfilePods | 3 pods, measured + cleanup + measured | lock step, barrier, ends |
| redis_overtaken | MCSmallfilePods | the same | violation: nobody publishes |
| run_snafu | MCRunSnafu | 2 data objects, 2 invocations over no archive or a torn one, 2 cache pods and Ceph, the settings that differ, serial and parallel | archive, index, caches, ends |
| samples | MCSampledTools | 17 tools, 2 samples, 2 retries, 2 results a sample | records and results |
| pollers | MCPollers | 3 messages in 2 partitions, tolerance 1, timeouts 0 and 2; 3 looks at the wanted version; 4 workers and an infra node in 2 machine sets, scaled to 0, 1 or 3; 3 subscribers, of 3 expected | reports are true, tools end |
| scale_drained | MCPollers | the same, timeouts 0 | violation: an unschedulable worker is passed by |
| reports | MCReports | 2 samples, 2 jobs, 2 hosts, 2 invocations; 2 histogram logs of up to 4 records; 2 pods, 2 samples; 4 services; 4 Dockerfiles, 128 sets of changes | reports are whole and attributed to their origin |
| reports_io_size | MCReports | the same | violation: results of two io sizes are added up |
| reports_rebuild | MCReports | the same | violation: a change of `run_snafu.py` rebuilds nothing |

`BulkInv` of es_bulk has the type, the accounting (`Accounting`, `NoDocLost`, `AllCountedOnReturn`), the bound on what is in
flight (`BoundedInFlight`) and `CountedIsStored` among its conjuncts. `ParallelInv`, `PodsInv`, `RunInv`, `SampledInv`, `LogInv`, `UpInv` and `ScaleInv`
have the type invariant of their module and what it is for: that the deque follows the chunks and nothing is lost between
threads; that a pod told to continue is on a channel where all have arrived; that a run which ends well has settled what it
sent (`OkMeansSettled`), and that only a parallel bulk leaves main waiting (`WaitsForFeeder`); that a failure count is true (`HonestFailures`); and that what is reported is so (`ReportHonest`, `UpgradeHonest`, `ScaleHonest`).

Why the bounds are enough. Five documents in chunks of two make three chunks, the last of
them partly filled; three faults can push back a whole chunk and one action of the chunk
that resends it, so that retried, drained and new actions meet in one chunk. Three pods are the fewest of
which one can be late while another is told to continue and a third has left; the cleanup between
two measured steps is where a syncpoint is missing. Two invocations are one that is cut short and
one that reads or extends what it left. Two samples and two retries let a file of an earlier sample,
and one of an earlier attempt, be there to be read by mistake. In the parallel run, two workers
answer two chunks in either order while a third waits for room and the feeder holds a fourth. With two
nodes in each machine set, one can vanish while another one drains, a number to scale to can have a
rest, be less than the machine sets, or be 0. A tolerance of one of three messages stands for ten of many; two partitions are enough for a
message of the second to be delivered in the turn of the first and again in its own.
Two jobs, one of which is plain while the other one is any of eight, let a name of the first be left over for the second;
two hosts let fio fail on one of them; two invocations let it leave old logs. Histogram logs of three records of two directions have every order
of directions that `align_histo_log` tells apart, and one more record in the logs from 0 has the assertion fail; an interval is 2 or 4 time units. Two pods are enough
for one to remove what the other has listed. The eight durations are each of the forms in which systemd writes a time, with and without hours, and four services
put any two of them one after the other. The changed files are one for each way to match or to miss a bone or a benchmark.

Deadlock is not checked, but in MCPollers, where an end is a step of its own: in every other
model the program stops when it is done, and liveness properties say that it is. The programs of `MCReports` are loops over
finite lists, without a wait for anybody: that they end is no question there, and no fairness is stated.

## Fairness

- `EsBulk`: weak fairness of the thread and of the server's answers. Whether the caller's iterable
  raises is not assumed. Retryable answers are bounded by `MaxFaults`: the code resends without
  limit, so a server that never accepts keeps it for ever, and no property says otherwise.
- `EsBulkParallel`: weak fairness of the feeder, of each worker and of main, since the operating
  system schedules threads; the server answers. None for the caller's iterable to fail.
- `SmallfilePods`: weak fairness of each pod's own steps and of its timeout, since pods are
  processes of their own and `socket_timeout` is set. No fairness of `Die`.
- `RunSnafu`: weak fairness of the process, and of settling while the process feeds `streaming_bulk`. None of the cache pods: the HTTP
  timeout ends a wait. `EveryRunEnds` exempts `waits`, where no step is left to the process.
- `SampledTools`: weak fairness of the tool's steps. No wrapper passes a timeout, so that a
  command returns at all is an assumption: `Attempt` is a step that ends.
- `MCPollers`: weak fairness of the wrapper that runs. Messages may never arrive and an upgrade may
  never complete. `scale_openshift` waits without a timeout, so the machine sets are assumed to come
  to what they want. `LogEnds` has two assumptions, without which the generator may stay for ever: each CloudWatch query that is
  started completes, and the other producers of a Kafka topic leave a second between two messages in the end. The loop over the
  queries, and the loop over partitions and messages, are steps of the model, so that it says they end. The Redis publisher and each subscriber are processes of their own, and each goes on; connections
  may fail, and `ScriptsEnd` says nothing then, since a subscriber whose publisher has failed waits for ever.

## What the violations show

- `es_bulk_last_chunk`: retries are yielded only by the generator, and only after another action
  (`py_es_bulk.py:124-139`). A retryable answer to the last chunk comes when the generator has
  ended; it stays in the deque, and the assertion of line 216 fails.
- `redis_overtaken`: `subscribe` does not wait and `pubsub_numsub` uses another connection
  (`sync_pods_with_redis.py:10-11`); the last pod may count one too few.
- `scale_drained`: the walk over the workers (`trigger_scale.py:306-313`) keeps its position in a list that
  gets shorter. A node passed while it was schedulable is cordoned and removed, the rest moves
  down, and the node that was waited for is now behind the position. It is counted as a worker, which the
  comment of lines 302 to 304 says the loop is there to prevent.

- `reports_io_size`: the analyzer takes the io size from the global section alone (`fio_analyzer.py:43-46`); a
  job's own `bs`, which fio obeys, changes nothing, though results are said to be analysed by operation and io size.
- `reports_rebuild`: `snafu/[a-z]*.py` does not match `snafu/run_snafu.py` (`build_matrix.py:77`): after the letters the dot
  takes the underscore, and `py` has to follow. `build_testing.md:37` takes that very file as its example of a change that
  rebuilds every image. (`snafu/utils/py_es_bulk.py` matches, by accident: `utils`, any character, `py`.)

What else the models show of the code, without a run of its own:

- `index_prom_data` replaces the index prefix for the rest of the run (`run_snafu.py:272`): with `prom_es` and without
  `es_index` the documents after the first trigger go to an index without the default prefix. `NamedIndexKept` says that this is
  the only case: with `es_index`, before a trigger, or with a `prom_es` that is empty, the prefix is the one main chose.
- With `parallel`, a tool that calls `exit(1)` leaves `run_snafu.py` waiting for ever; without, it ends with an error.
- A message that comes to a Kafka partition while an earlier one has its turn may be counted twice, once in that turn and again in
  its own (`trigger_log_generator.py:234`): `ReportHonest` allows as many more as came during the last check. A
  topic that others never leave silent for a second, and that has no offset past the end, keeps the consumer loop for ever.
- `end_version`, `startedTime` and `completionTime` are read one after the other (`trigger_upgrade.py:160-168`), and after a timeout
  the times may be of two history entries; `UpgradeHonest` says that they are of one before it.
- The wrapper takes a log off its list for `disable_lat=0` too (`trigger_fio.py:108`), though fio writes that log then; a job that has its
  `rw` from the global section alone ends the analyzer (`fio_analyzer.py:48`).
- A line of `systemd-analyze blame` with hours, or with minutes and whole seconds, is reported with a part of its time or that of the line before.
- A document that cannot be archived ends the run and its indexing: without `--archive-file` for want of `clustername`
  (`run_snafu.py:339`), with it in the middle of a line for a document with a datetime (line 346). Archive and index are
  not independent, and `BackupComplete` is said of what was written.
- A histogram record older than the start of all threads is added to the last intervals, since its index is
  negative (`fio_hist_parser.py:254`); `SplitExactly` is said of the others. `get_samples` raises for want of an import (line 299).
- In a directory of two pods, a pod of fs_drift reports the counters of the other one for its own, or ends because
  a listed file is gone; `RatesOfThisSample` says what holds all the same.
- The wanted version may take longer to change than the ten polls of `trigger_upgrade.py:106`: the upgrade is then reported as
  one that was not needed. `total_count` of scale_openshift counts infra and workload nodes twice (`trigger_scale.py:319`).
- `-hp` of the fio wrapper is passed as `numjob` (`fio_wrapper.py:93`), and an `exit(1)` for a wrong global
  `filename_format` is swallowed by the `except` around it (`trigger_fio.py:346`).

## Proofs

All theorems are for every value of the constants allowed by the named assumptions: any number of
documents, pods, workers, nodes, samples, retries and faults, where a run has two or three. Every inductive
invariant was first checked by TLC as an invariant of the run of its module. The assumptions are those of the
modules; `LineAssumption` of `RunSnafu` (the marks for a torn line and a corrupt one are no documents, and differ) is
the one that a proof made necessary: a document that looks like a torn line would be repaired away. Others are types of what comes from outside (options,
counters, lines of a log); `FioAssumption` adds that no host is called like fio's summary of all clients (`AllClients`), and
`MatrixAssumption` that no two Dockerfiles are of wrappers with one name, as it is in the repository: one image would
otherwise be built from both.

- `EsBulkProofs`. `BulkInv` is inductive. Its heart is `QueueOrder`: `actions_deque` lists the
  actions answered and not read, then those sent, then those in the chunk. That alone makes
  `AnswersMatchActions` follow, which is not inductive, because a wrong order shows only many steps later.
  `Accounting` and `NoDocLost` need the drained `retry_actions` beside the two deques;
  `BoundedInFlight` needs that a chunk never exceeds `ChunkSize`; `CountedIsStored` needs `AnswersAreTrue`,
  since an answer is counted long after the server gave it. From it: `AlwaysAligned`.
  `BulkInv` says that nothing is lost, `OnceInv` adds that nothing is held twice: no document waits at two
  places of the queues, and what waits is not counted. With it every step of `EsBulk` is a step of `BulkLedger` or a
  stutter (`BulkImplementsLedger`; `Consume` settles one document, which must still be open, and for success the id must
  already be stored). `OwnInv`, for `NeverItsOwnDuplicate`: a document that was never retried and has no
  answer yet has not created its id, so a conflict that it meets comes from another document, or from
  a resend. `LastChunkInv`, for `OneChunkAtMost`: what is not counted when an exception or an assertion ends the
  call is in one queue, which holds at most a chunk: with the generator ended only the last chunk is in flight. `BodyInv`, for `BodiesAreTheirOwn`: what is on the wire for a
  document is its own body or, for the analyzer's single dictionary and after a push-back, a later one; nothing is sent
  again without a fault.
- `EsBulkParallelProofs`. With threads the order of the chunks is not the order in which they are answered. `Placed` gives a
  chunk's number as the key to where it is: the last ones put are in the queue, the others at one worker each or done; `InLine`
  is then `QueueOrder` again, over the chunks that main has not taken, put in the order of their numbers. A worker that
  answers the last document of its chunk moves it from `work` to `done`, and the line does not change. The
  order of `actions_deque` therefore does not depend on how the workers are scheduled. `Stages` ties the program counters of the three kinds
  of threads to each other (nothing is put after the feeder has ended, main ends only when everything is taken).
  `LineIsKept` gives `ParallelInv`, `ParallelImplementsLedger` the refinement.
- `SmallfilePodsProofs`. `SyncInv` says who can hold a "continue": a message in an inbox, or a pod that
  saw the full count, implies that every pod arrived at that channel; it needs that only pods
  that arrived are registered, and that a closed connection holds nothing. It does not depend on the order in
  which commands are served. `SyncImplementsBarrier`: each step maps to a step of `PodBarrier` or a stutter.
  The lock step: where each pod is determines which syncpoints it has passed,
  so that a pod which measures at step k has passed "before" of k, hence every pod arrived there, and
  none has passed "after" of k. `NobodyDropsWhileMeasuring`, `EverybodyMeasuresTogether`.
- `RunSnafuProofs`. `RunIInv` is one invariant for five theorems. `SettleInv` (what was yielded to streaming_bulk is sent or
  settled, and what is settled is stored or failed) gives `EndsSettled`; `PrefixInv` says when the prefix is the one main chose, which
  `NamedIndexIsKept` needs at a place where the prefix has long been set, and `Triggered` that an empty one means a trigger behind the
  position in the work. `LinesRead` (what precedes the line that is read was
  yielded) gives `ArchivesAreRestored` with `KeptInv`: a document written to the archive, in any invocation, is a line of it, or
  there is a line that cannot be read, which ends an invocation that comes to it. `BackInv`, for `ArchiveIsABackup`: an archive that ends in a
  torn line has had nothing written after the tear, so that only the first document of an invocation can be lost to it. `DropInv`, for
  `SamplesStartCold`: which pods were asked and which have answered, in the order of the list, and that a pod whose answer
  was good is cold; a pod that drops late does so in any state.
- `SampledToolsProofs`. The record of attempts (`RecordOf`) is inductive together with the assumption
  on retries and with what `ran` held before this sample; `FreshResults` needs that a sample that
  succeeded wrote its file last (`Current`). `FailuresAreHonest` adds the counts that a tool reports (`OneSample`: such
  a tool has one), `NoSampleLeftOut` that results of every sample before this one are there (`AllSoFar`).
- `PollersProofs`. Three tools that look at a system which changes while they look. `LogIInv`: what was received had arrived and is
  judged by a number of messages that no longer grows (`ReceivedInv`), and the clock is read after every look (`ClockInv`).
  For Kafka what is counted and unread is bounded in each turn by the messages of the partitions that had theirs, and by those that
  came since the consumer was opened, which are the only ones it can deliver out of their turn (`CheckInv`, `Sought`);
  the division into whole seconds (`NextSecond`) is needed for the type. `UpIInv`: a version seen in the history belongs to
  the request, once the request has been taken up (`SeenInv`), a loop is left only after the last look or the
  timeout (`LoopInv`), and from then on the history does not change, so that the reads after it agree. `ScaleIInv`: the spread over the machine sets sums up to `scale`, by the cardinality of the
  sets that get one more, and the counts are those of the loops (`Counted`).

- `ReportsProofs`, over the specification `MCReports` checks. One invariant for each of the five programs:
  - `MatrixIInv`: between two calls the matrices are empty, in one they list, without repetition, the entries of the
    Dockerfiles taken so far; two of them share no entry. `SetToSeqLists` says that `SetToSeq` lists a finite set.
  - `BlameIInv`: the list is that of the lines read so far, in their order, and `etime` is a time of the line at hand or is
    carried from the one before (`EtimeFound` says what the three expressions find, in terms of `Told`).
  - `DriftIInv`: at each place of a pod's code, what it knows of its own files: counters that are there while it clears are
    still on its list, none is there when it starts to run, afterwards they are of this sample. What needs the pod to be
    alone in the directory is a part of its own (`AloneFiles`, `AloneDocs`). Rates add up because they telescope
    (`RatesAddUp`).
  - `FioIInv`: the fold of `LogPayload` is gone through file by file (`FoldSteps`); each file that is to be there is
    looked for, so a document is missing only when the run ends (`LogsWhole`). `FreshFiles` says that in the first run a file is of the job
    at hand or an earlier one, and `HostsFound` that hosts on which fio failed wrote none, which is why
    `NoFailurePassedOver` is limited to the first run. It needs that the iops log can be switched off by no flag.
  - `AnalysisIInv`: the results of every job that is over are there (`ResultsWhole`), for a host that is missing ends
    the run at its logs. `SumOverSamples` then renames the sum over results to one over samples, jobs and hosts, and
    groups it by sample.
  - `HistIInv`: times grow in each direction (`ParsedGrows`), so that the end which the code looks for among the next three
    records is the next one of the direction (`RecordEndIsUntil`), and its overlap counts milliseconds (`OverlapExact`).
- `FoldProofs`. The community modules define `FlattenSeq`, `SumFunction` and the folds by recursion, and no induction
  over data is available. What is needed of them is shown by the least size, or the least index, at which it
  would not hold, with the well-foundedness of finite sets (`UpTo`): the recursive function exists and is unique, a sum is
  that of its parts, survives a renaming, can be grouped by a key and telescopes, a fold of a sequence takes its elements one after the other.

Only model-checked: liveness (`Terminates`, `EveryPodEnds`, `CalmPodsFinish`, `EveryRunEnds`,
`EveryToolEnds`, `EndsUnlessExited`, `PollersEnd`), since fairness and ENABLED are out of
the prover's reach. Every invariant, every action property and both refinements that the passing runs check are stated by a theorem.

## Not modelled

- The histogram branch of the fio wrapper (`trigger_fio.py:191-223, 242-267, 356-374`), which it cannot reach, and `time_ranges` and
  `get_pctiles` of the parser, which come after an exception.
- What parsers of the one-command tools compute from an output, the queries of `get_prometheus_data`, the parsing of
  smallfile's results: straight-line conversions of text.
- `put_template` of `py_es_bulk.py`, which nothing calls; `vfs_stat`, the logging set-up, the parsing of arguments
  and the linpack script, which have no state to reason about.
- The notebook and the documents under `docs/`, which hold no code of the program.

## Plan

Nothing that a run checks and the provers can reach is left to prove. What is left is to say more: of the parts
that are modelled only in part (the fio wrapper's histogram branch once it can be reached, the parsers of the one-command
tools), and an abstract specification of `run_snafu`, that each document is indexed and archived once, which
`RunSnafu` would implement as far as its violations of it are named.
