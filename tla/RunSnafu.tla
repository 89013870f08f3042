------------------------------ MODULE RunSnafu ------------------------------
(***************************************************************************)
(* snafu/run_snafu.py: main, process_generator, get_valid_es_document,     *)
(* index_prom_data, process_archive_file and write_to_archive_file, over a *)
(* sequence of invocations that share one archive file and one             *)
(* Elasticsearch cluster.  An invocation may be killed at any moment.      *)
(*                                                                         *)
(* What the tool does is external here: it emits the items of Work, or     *)
(* fails.  streaming_bulk is seen from its caller (module BulkLedger): it  *)
(* settles the documents it took, in the index or as a failure, and        *)
(* returns when all are settled, or raises.                                *)
(***************************************************************************)
EXTENDS DropCache

CONSTANTS Work,          \* per data object the tool makes: what emit_actions yields
          Environments,  \* command lines and environment variables of an invocation
          PodLists,      \* values of kcache_drop_pod_ips
          MaxRuns,       \* bound: number of invocations
          Torn,          \* in the archive: a last line without its end
          Corrupt        \* in the archive: a line that is not JSON

Servers == {"absent", "empty", "up", "down"}
Tools   == {"wrapper", "benchmark", "unknown", "archive"}

ASSUME WorkAssumption ==
  /\ Work \in Seq(Seq({"doc", "trigger"}))
  /\ Environments \subseteq
       [tool : Tools, es : Servers \ {"empty"}, prom_es : Servers,
        es_index : BOOLEAN, create_archive : BOOLEAN, archive_file : BOOLEAN,
        dates : BOOLEAN,    \* the tool puts datetimes in its documents
        parallel : BOOLEAN]
  /\ PodLists \subseteq Seq(CachePods)
  /\ MaxRuns \in Nat \ {0}

Prefixes == {"snafu-tool", "es_index", ""}
Docs == [run : 1..MaxRuns, obj : Nat, item : Nat, kind : {"result", "prometheus_data"},
         prefix : Prefixes]

ASSUME LineAssumption == Torn # Corrupt /\ {Torn, Corrupt} \cap Docs = {}

VARIABLES
  env,       \* the environment of this invocation
  run,       \* its number
  pc,        \* where main is
  index_results, prefix,   \* of index_args
  streaming, \* main hands the documents to streaming_bulk
  obj, item, \* the position in Work
  line,      \* the position in the archive file
  archive,   \* the lines of the archive file
  kept,      \* history: the documents written to it, in any invocation
  yielded,   \* history: the documents process_generator yielded in this invocation
  sending,   \* those streaming_bulk has taken and not settled
  settled,   \* history: those settled in this invocation
  failed,    \* history: of these, the ones counted as failures
  stored,    \* the documents in the index of "es"
  prom,      \* the documents in the index of "prom_es"
  tears      \* history: lines of the archive that were cut short

mainVars == <<env, run, pc, index_results, prefix, streaming, obj, item, line>>
esVars   == <<yielded, sending, settled, failed, stored>>
vars == <<podList, hasCeph, dropAt, nth, conn, cold, env, run, pc, index_results, prefix,
          streaming, obj, item, line, archive, kept, yielded, sending, settled, failed, stored,
          prom, tears>>

Places == {"start", "factory", "drop", "emit", "prom", "lines", "closing", "waits",
           "ok", "error", "killed"}
Over   == {"ok", "error", "killed"}

TypeOK ==
  /\ DropTypeOK
  /\ env \in Environments /\ run \in 1..MaxRuns /\ pc \in Places
  /\ index_results \in BOOLEAN /\ streaming \in BOOLEAN /\ prefix \in Prefixes
  /\ obj \in 1..(Len(Work) + 1) /\ item \in Nat /\ line \in Nat
  /\ archive \in Seq(Docs \cup {Torn, Corrupt})
  /\ kept \subseteq Docs /\ yielded \subseteq Docs /\ sending \subseteq Docs
  /\ settled \subseteq Docs /\ failed \subseteq Docs /\ stored \subseteq Docs /\ prom \subseteq Docs
  /\ tears \in 0..(MaxRuns + 1)

Fresh ==
  /\ pc' = "start" /\ index_results' = FALSE /\ prefix' = "snafu-tool" /\ streaming' = FALSE
  /\ obj' = 1 /\ item' = 1 /\ line' = 1 /\ yielded' = {} /\ sending' = {} /\ settled' = {}
  /\ failed' = {}

\* There is no archive yet, or an earlier invocation left one that it did not write a whole
\* line of.
Init ==
  /\ podList \in PodLists /\ hasCeph \in BOOLEAN
  /\ dropAt = "idle" /\ nth = 1 /\ conn = [c \in AllCaches |-> "none"] /\ cold = {}
  /\ env \in Environments /\ run = 1
  /\ pc = "start" /\ index_results = FALSE /\ prefix = "snafu-tool" /\ streaming = FALSE
  /\ obj = 1 /\ item = 1 /\ line = 1 /\ yielded = {} /\ sending = {} /\ settled = {}
  /\ failed = {} /\ kept = {} /\ stored = {} /\ prom = {}
  /\ archive \in {<<>>, <<Torn>>} /\ tears = Len(archive)

At(from) == pc = from
Goto(to) == pc' = to

\* Only pc, or pc and the position in Work, change.
GoesTo(to) ==
  /\ Goto(to)
  /\ UNCHANGED <<dropVars, env, run, index_results, prefix, streaming, obj, item, line,
                 archive, kept, esVars, prom, tears>>
-----------------------------------------------------------------------------
(* main *)

ToolPrefix == IF env.es_index THEN "es_index" ELSE "snafu-tool"

\* The connection to "es": without one the results are not indexed, and an archive
\* cannot be.
Connect ==
  /\ At("start")
  /\ prefix' = IF env.es = "absent" THEN prefix ELSE ToolPrefix
  /\ index_results' = (env.es = "up")
  /\ streaming' = (env.es = "up")
  /\ Goto(CASE env.tool = "archive" /\ env.es = "down" -> "error"
            [] env.tool = "archive" /\ ~env.archive_file -> "error"
            [] env.tool = "archive" -> "lines"
            [] OTHER -> "factory")
  /\ UNCHANGED <<dropVars, env, run, obj, item, line, archive, kept, esVars, prom, tears>>

\* exit() in the generator: main ends, unless the generator runs in the feeder thread of
\* parallel_bulk.  SystemExit ends that thread alone, and main waits for the next answer.
Exits == GoesTo(IF streaming /\ env.parallel THEN "waits" ELSE "error")

\* wrapper_factory: an unknown tool gives the number 1, which has no run().  The parsers
\* of the others end the process over a wrong argument.  setup of a Benchmark may fail:
\* run() then returns without a result, and main ends well.
Factory ==
  /\ At("factory")
  /\ CASE env.tool = "unknown"   -> GoesTo("error")
       [] env.tool = "wrapper"   -> GoesTo("drop") \/ Exits
       [] env.tool = "benchmark" -> GoesTo("emit") \/ GoesTo("closing") \/ Exits

\* Variant of End: the results are not read to the end.
EndEarly == At("closing") /\ GoesTo("ok")

\* The generator is exhausted and streaming_bulk has settled everything it took.
End == At("closing") /\ sending = {} /\ GoesTo("ok")

\* The last assertion of streaming_bulk fails.
BulkRaises == At("closing") /\ streaming /\ GoesTo("error")
-----------------------------------------------------------------------------
(* process_generator *)

Drop ==
  /\ At("drop")
  /\ BeginDrop \/ DropWorks
  /\ UNCHANGED <<mainVars, archive, kept, esVars, prom, tears>>

\* Variant of Dropped: emit_actions starts while drop_cache is under way.
DroppedAnyway ==
  /\ At("drop") /\ dropAt # "idle" /\ dropAt' = "idle"
  /\ Goto("emit")
  /\ UNCHANGED <<podList, hasCeph, nth, conn, cold, env, run, index_results, prefix, streaming,
                 obj, item, line, archive, kept, esVars, prom, tears>>

Dropped ==
  /\ At("drop") /\ DropReturns
  /\ Goto("emit")
  /\ UNCHANGED <<env, run, index_results, prefix, streaming, obj, item, line,
                 archive, kept, esVars, prom, tears>>

DropFails ==
  /\ At("drop") /\ DropRaises
  /\ Goto("error")
  /\ UNCHANGED <<env, run, index_results, prefix, streaming, obj, item, line,
                 archive, kept, esVars, prom, tears>>

\* The line is appended to what is in the file: after a torn line it completes that
\* line instead of being one of its own.
WriteLine(d) ==
  archive' = IF archive # <<>> /\ archive[Len(archive)] = Torn
             THEN [archive EXCEPT ![Len(archive)] = IF d = Torn THEN Torn ELSE Corrupt]
             ELSE Append(archive, d)

Document(kind) == [run |-> run, obj |-> obj, item |-> item, kind |-> kind, prefix |-> prefix]

\* What emit_actions or run() of the tool makes next; no Benchmark makes a trigger.
InObject == At("emit") /\ obj <= Len(Work) /\ item <= Len(Work[obj])
Makes(kind) ==
  InObject /\ kind = IF env.tool = "benchmark" THEN "doc" ELSE Work[obj][item]

\* The default name of the archive is made from _source["clustername"], a key that
\* no tool sets (they set cluster_name).
NoArchiveName == env.create_archive /\ ~env.archive_file

\* json.dump knows no datetime, though the client that indexes does: it raises in the
\* middle of the line.
NotJson == env.create_archive /\ env.dates

\* get_valid_es_document: the document is archived before it is yielded.
Archived(d) ==
  IF env.create_archive THEN WriteLine(d) /\ kept' = kept \cup {d} ELSE UNCHANGED <<archive, kept>>

Taken(d) ==
  /\ yielded' = yielded \cup {d}
  /\ sending' = IF streaming THEN sending \cup {d} ELSE sending
  /\ UNCHANGED <<settled, failed, stored>>

\* Variant of EmitDoc: the document is archived only when it cannot be indexed.
EmitDocEither ==
  /\ Makes("doc") /\ ~NoArchiveName /\ ~NotJson
  /\ IF streaming THEN UNCHANGED <<archive, kept>> ELSE Archived(Document("result"))
  /\ Taken(Document("result"))
  /\ item' = item + 1 /\ Warm
  /\ UNCHANGED <<env, run, pc, index_results, prefix, streaming, obj, line, prom, tears>>

EmitDoc ==
  /\ Makes("doc") /\ ~NoArchiveName /\ ~NotJson
  /\ Archived(Document("result")) /\ Taken(Document("result"))
  /\ item' = item + 1 /\ Warm
  /\ UNCHANGED <<env, run, pc, index_results, prefix, streaming, obj, line, prom, tears>>

\* The document cannot be archived: the exception leaves through streaming_bulk.
EmitDocFails ==
  /\ Makes("doc")
  /\ \/ NoArchiveName /\ UNCHANGED <<archive, tears>>
     \/ ~NoArchiveName /\ NotJson /\ WriteLine(Torn) /\ tears' = tears + 1
  /\ Goto("error")
  /\ UNCHANGED <<dropVars, env, run, index_results, prefix, streaming, obj, item, line, kept,
                 esVars, prom>>

\* Without prom_es the trigger is a document like any other.
EmitTriggerDoc ==
  /\ Makes("trigger") /\ env.prom_es = "absent" /\ ~NoArchiveName
  /\ Archived(Document("result")) /\ Taken(Document("result"))
  /\ item' = item + 1 /\ Warm
  /\ UNCHANGED <<env, run, pc, index_results, prefix, streaming, obj, line, prom, tears>>

\* The tool raises, or calls exit(1).
ToolFails == At("emit") /\ (GoesTo("error") \/ Exits)

\* Variant of NextObject: the cache is dropped once, before the first sample.
NextObjectWarm ==
  /\ At("emit") /\ obj < Len(Work) /\ item > Len(Work[obj])
  /\ obj' = obj + 1 /\ item' = 1
  /\ UNCHANGED <<dropVars, env, run, pc, index_results, prefix, streaming, line,
                 archive, kept, esVars, prom, tears>>

NextObject ==
  /\ At("emit") /\ obj < Len(Work) /\ item > Len(Work[obj])
  /\ obj' = obj + 1 /\ item' = 1
  /\ Goto(IF env.tool = "wrapper" THEN "drop" ELSE "emit")
  /\ UNCHANGED <<dropVars, env, run, index_results, prefix, streaming, line,
                 archive, kept, esVars, prom, tears>>

LastObject == At("emit") /\ obj = Len(Work) /\ item > Len(Work[obj]) /\ GoesTo("closing")
-----------------------------------------------------------------------------
(* index_prom_data *)

\* Variant of TakeTrigger: es_index is not looked up.
TakeTriggerBare ==
  /\ Makes("trigger") /\ env.prom_es # "absent"
  /\ prefix' = "" /\ index_results' = (env.prom_es = "up")
  /\ Goto("prom") /\ Warm
  /\ UNCHANGED <<env, run, streaming, obj, item, line, archive, kept, esVars, prom, tears>>

\* index_args.prefix and index_args.index_results are assigned here, for good.
TakeTrigger ==
  /\ Makes("trigger") /\ env.prom_es # "absent"
  /\ IF env.prom_es = "empty" THEN UNCHANGED <<index_results, prefix>>
     ELSE /\ prefix' = IF env.es_index THEN "es_index" ELSE ""
          /\ index_results' = (env.prom_es = "up")
  /\ Goto("prom") /\ Warm
  /\ UNCHANGED <<env, run, streaming, obj, item, line, archive, kept, esVars, prom, tears>>

\* A metric is indexed by a streaming_bulk of its own.
PromDoc ==
  /\ At("prom") /\ env.prom_es = "up" /\ ~NoArchiveName
  /\ Document("prometheus_data") \notin prom
  /\ Archived(Document("prometheus_data"))
  /\ prom' = prom \cup {Document("prometheus_data")}
  /\ UNCHANGED <<dropVars, mainVars, esVars, tears>>

\* The metrics end, or "es" is not indexed.
PromReturns ==
  /\ At("prom")
  /\ env.prom_es = "up" \/ ~index_results
  /\ Goto("emit") /\ item' = item + 1
  /\ UNCHANGED <<dropVars, env, run, index_results, prefix, streaming, obj, line,
                 archive, kept, esVars, prom, tears>>

\* The action is not what get_prometheus_data reads, the name of the archive cannot
\* be made, streaming_bulk raises, or there is no prom_es and so no client.
PromRaises == At("prom") /\ index_results /\ GoesTo("error")
-----------------------------------------------------------------------------
(* process_archive_file *)

\* Variant of ReadLine: a line that is not JSON is skipped.
ReadLineSkipping ==
  /\ At("lines") /\ line <= Len(archive)
  /\ IF archive[line] \in {Torn, Corrupt} THEN UNCHANGED esVars ELSE Taken(archive[line])
  /\ line' = line + 1
  /\ UNCHANGED <<dropVars, env, run, pc, index_results, prefix, streaming, obj, item,
                 archive, kept, prom, tears>>

ReadLine ==
  /\ At("lines") /\ line <= Len(archive) /\ archive[line] \notin {Torn, Corrupt}
  /\ Taken(archive[line])
  /\ line' = line + 1
  /\ UNCHANGED <<dropVars, env, run, pc, index_results, prefix, streaming, obj, item,
                 archive, kept, prom, tears>>

BadLine ==
  /\ At("lines") /\ line <= Len(archive) /\ archive[line] \in {Torn, Corrupt}
  /\ GoesTo("error")

EndOfFile == At("lines") /\ archive # <<>> /\ line > Len(archive) /\ GoesTo("closing")

NoArchive == At("lines") /\ archive = <<>> /\ Exits
-----------------------------------------------------------------------------
(* The cluster and the operator *)

\* streaming_bulk settles a document: it is in the index, or it was rejected for good
\* and is counted among the failures main reports.
Settle(d) ==
  /\ pc \notin Over /\ d \in sending
  /\ sending' = sending \ {d}
  /\ settled' = settled \cup {d}
  /\ \/ stored' = stored \cup {d} /\ UNCHANGED failed
     \/ failed' = failed \cup {d} /\ UNCHANGED stored
  /\ UNCHANGED <<dropVars, mainVars, archive, kept, yielded, prom, tears>>

CacheDropped(c) == PodDrops(c) /\ UNCHANGED <<mainVars, archive, kept, esVars, prom, tears>>

\* The process is killed, perhaps in the middle of a line.
Kill ==
  /\ pc \notin Over /\ pc # "start"
  /\ Goto("killed") /\ dropAt' = "idle"
  /\ \/ UNCHANGED <<archive, tears>>
     \/ /\ pc \in {"emit", "prom"} /\ env.create_archive /\ env.archive_file
        /\ WriteLine(Torn) /\ tears' = tears + 1
  /\ UNCHANGED <<podList, hasCeph, nth, conn, cold, env, run, index_results, prefix, streaming,
                 obj, item, line, kept, esVars, prom>>

\* The same command again, or the archive is indexed.
Invoke ==
  /\ pc \in Over /\ run < MaxRuns
  /\ run' = run + 1 /\ Fresh
  /\ env' = env \/ env' \in {e \in Environments : e.tool = "archive"}
  /\ dropAt' = "idle" /\ nth' = 1 /\ conn' = [c \in AllCaches |-> "none"]
  /\ cold' = {}
  /\ UNCHANGED <<podList, hasCeph, archive, kept, stored, prom, tears>>

Steps ==
  \/ Connect \/ Factory \/ End \/ BulkRaises
  \/ Drop \/ Dropped \/ DropFails
  \/ EmitDoc \/ EmitDocFails \/ EmitTriggerDoc \/ ToolFails \/ NextObject \/ LastObject
  \/ TakeTrigger \/ PromDoc \/ PromReturns \/ PromRaises
  \/ ReadLine \/ BadLine \/ EndOfFile \/ NoArchive

Next ==
  \/ Steps
  \/ \E d \in sending : Settle(d)
  \/ \E c \in AllCaches : CacheDropped(c)
  \/ Kill \/ Invoke

Spec == Init /\ [][Next]_vars

\* The process keeps running, streaming_bulk settles what it took while it is fed.
FairSpec == Spec /\ WF_vars(Steps) /\ WF_vars(pc # "waits" /\ \E d \in sending : Settle(d))
-----------------------------------------------------------------------------
\* "drop cache after every sample": when a tool starts to work on a data object every
\* cache that can be dropped is dropped since the last one, and no pod is at it.
ColdStart ==
  env.tool = "wrapper" /\ pc = "emit" /\ item = 1
    => Asked \subseteq cold /\ \A c \in AllCaches : conn[c] # "asked"

\* With --create-archive and --archive-file every document yielded, indexed or not, is
\* a line of the archive, save the one that completed a line that was cut short.
BackupComplete ==
  env.create_archive /\ env.tool # "archive" =>
    LET lost == yielded \ Range(archive)
    IN  Cardinality(lost) <= 1 /\ (lost # {} => tears > 0)

\* An invocation that indexes an archive and ends well leaves every document that was
\* ever written to that archive in the index, or has counted it among the failures it
\* reports: a document that went into a torn line is not passed over, it ends the
\* invocation with an error.
RestoredOnOk ==
  pc = "ok" /\ env.tool = "archive" /\ streaming => kept \subseteq stored \cup failed

\* main ends well only when every document it indexed is settled.
OkMeansSettled == pc = "ok" /\ streaming => yielded \subseteq settled

\* Main is left waiting only for a parallel_bulk whose feeder thread has exited.
WaitsForFeeder == pc = "waits" => streaming /\ env.parallel

\* An item before d in the work asks for Prometheus data.
AfterTrigger(d) ==
  \E o \in 1..Len(Work) : \E i \in 1..Len(Work[o]) :
    Work[o][i] = "trigger" /\ (o < d.obj \/ (o = d.obj /\ i < d.item))

\* The documents of an invocation go to the index main chose at the connection, the one of
\* es_index or the tool's own, whatever Prometheus data is collected between them; only
\* without es_index, and after a trigger that found a prom_es, is there no prefix left.
NamedIndexKept ==
  env.tool # "archive" /\ env.es # "absent"
    => \A d \in yielded :
         \/ d.prefix = ToolPrefix
         \/ /\ ~env.es_index /\ env.prom_es \in {"up", "down"}
            /\ d.prefix = "" /\ AfterTrigger(d)

\* Every invocation ends, by itself or by its end from outside, save the one that waits for
\* the feeder thread of parallel_bulk after the tool has called exit().
EveryRunEnds == [](pc = "start" => <>(pc \in Over \cup {"waits"}))

\* Each variable has a value the code can give it, OkMeansSettled and WaitsForFeeder.
RunInv == TypeOK /\ OkMeansSettled /\ WaitsForFeeder
=============================================================================
