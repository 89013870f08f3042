--------------------------- MODULE RunSnafuProofs ---------------------------
(***************************************************************************)
(* What an invocation of run_snafu leaves behind, for every list of work,  *)
(* every set of environments and of cache pods, and any number of          *)
(* invocations that share an archive: the index that the documents go to,  *)
(* the archive as a backup and as a source, and the caches cold at the     *)
(* start of every sample.                                                  *)
(***************************************************************************)
EXTENDS RunSnafu, TLAPS, FiniteSetTheorems

Lines == Docs \cup {Torn, Corrupt}

TornLast == archive # <<>> /\ archive[Len(archive)] = Torn
Backed   == env.create_archive /\ env.tool # "archive"

\* Only an invocation that ends cuts a line short, and one may have been there before.
TearsInv == tears <= run + (IF pc \in Over THEN 1 ELSE 0)

Positions == item >= 1 /\ line >= 1 /\ (pc \in {"start", "factory", "drop"} => item = 1)

Unstarted == pc = "start" => yielded = {}

\* What streaming_bulk was handed is under way or settled, and what is settled is in the
\* index or counted as a failure.
SettleInv ==
  /\ streaming => yielded \subseteq sending \cup settled
  /\ settled \subseteq stored \cup failed
  /\ pc = "ok" => sending = {}
  /\ WaitsForFeeder

\* A trigger was taken, and the tool is past it or main still collects its metrics.
Triggered ==
  \E o \in 1..Len(Work) : \E i \in 1..Len(Work[o]) :
    Work[o][i] = "trigger" /\ (o < obj \/ (o = obj /\ (i < item \/ (i = item /\ pc = "prom"))))

Unprefixed ==
  ~env.es_index /\ env.prom_es \in {"up", "down"} /\ prefix = "" /\ Triggered

PrefixInv ==
  env.tool # "archive" /\ env.es # "absent" /\ pc \notin Over \cup {"start"}
    => prefix = ToolPrefix \/ Unprefixed

\* The lines of an archive are read by the invocations whose tool is "archive", which
\* do nothing else.
ArchivePcs ==
  IF env.tool = "archive" THEN pc \in {"start", "lines", "closing", "waits"} \cup Over
  ELSE pc # "lines"

LinesRead ==
  env.tool = "archive" =>
    /\ \A i \in 1..Len(archive) : i < line => archive[i] \in yielded
    /\ pc \in {"closing", "ok"} => line > Len(archive)

\* A document that was written is a line, or there is a line that is not JSON.
KeptInv == \A d \in kept : d \in Range(archive) \/ Corrupt \in Range(archive)

BackInv ==
  /\ Torn \in Range(archive) => tears > 0
  /\ Backed /\ pc \notin Over /\ TornLast => yielded = {}
  /\ Backed => \A a, b \in yielded \ Range(archive) : a = b /\ tears > 0

\* A drop_cache under way: a pod was asked once drop_cache asked it, and is dropped
\* once its answer is good.
Dropping ==
  /\ dropAt # "idle" => \A c \in AllCaches : conn[c] \in {"ok", "read"} => c \in cold
  /\ dropAt \in {"requests", "responses"}
       => \A c \in AllCaches : conn[c] # "none" => c \in Range(podList)
  /\ dropAt = "responses" => \A i \in 1..Len(podList) : i < nth => conn[podList[i]] = "read"
  /\ dropAt \in {"ceph", "cephResponse"}
       => /\ \A c \in Range(podList) : conn[c] = "read"
          /\ \A c \in CachePods \ Range(podList) : conn[c] = "none"
  /\ dropAt = "ceph" => conn[Ceph] = "none"

DropInv ==
  /\ pc # "drop" => dropAt = "idle"
  /\ pc = "drop" => Dropping

TypeIInv == TypeOK /\ TearsInv /\ Positions
-----------------------------------------------------------------------------
(* The archive *)

\* A line of the archive is a line wherever it is read.
LEMMA LineType ==
  ASSUME archive \in Seq(Lines), NEW i \in 1..Len(archive)
  PROVE  archive[i] \in Lines
OBVIOUS

\* WriteLine keeps every document in the archive, adds the new one unless it completes
\* a torn line, which then is not JSON, and leaves a torn line at the end only when it
\* writes one.
LEMMA Written ==
  ASSUME archive \in Seq(Lines), NEW d \in Lines, WriteLine(d)
  PROVE  /\ archive' \in Seq(Lines)
         /\ \A e \in Range(archive) : e # Torn => e \in Range(archive')
         /\ ~TornLast => d \in Range(archive')
         /\ TornLast /\ d # Torn => Corrupt \in Range(archive')
         /\ TornLast' => d = Torn
         /\ Torn \in Range(archive') => (d = Torn \/ Torn \in Range(archive))
<1>1. CASE TornLast
  <2>1. /\ archive' = [archive EXCEPT ![Len(archive)] = IF d = Torn THEN Torn ELSE Corrupt]
        /\ Len(archive) \in DOMAIN archive /\ DOMAIN archive = 1..Len(archive)
    BY <1>1 DEF WriteLine, TornLast
  <2>2. archive' \in Seq(Lines) /\ Len(archive') = Len(archive)
    BY <2>1 DEF Lines
  <2>3. DOMAIN archive' = DOMAIN archive
    BY <2>1
  <2>4. archive[Len(archive)] = Torn
    BY <1>1 DEF TornLast
  <2>5. ASSUME NEW e \in Range(archive), e # Torn PROVE e \in Range(archive')
    BY <2>1, <2>3, <2>4, <2>5 DEF Range
  <2>6. TornLast' => d = Torn
    BY <2>1, <2>2, LineAssumption DEF TornLast
  <2>7. Torn \in Range(archive)
    BY <2>1, <2>4 DEF Range
  <2>8. d # Torn => Corrupt \in Range(archive')
    BY <2>1, <2>2, <2>3 DEF Range
  <2>. QED BY <1>1, <2>2, <2>5, <2>6, <2>7, <2>8
<1>2. CASE ~TornLast
  <2>1. archive' = Append(archive, d)
    BY <1>2 DEF WriteLine, TornLast
  <2>2. /\ archive' \in Seq(Lines) /\ Len(archive') = Len(archive) + 1
        /\ DOMAIN archive' = 1..(Len(archive) + 1) /\ DOMAIN archive = 1..Len(archive)
        /\ archive'[Len(archive) + 1] = d /\ Len(archive) \in Nat
        /\ \A i \in 1..Len(archive) : archive'[i] = archive[i]
    BY <2>1
  <2>3. Range(archive') = Range(archive) \cup {d}
    <3>1. \A i \in DOMAIN archive' : i \in DOMAIN archive \/ i = Len(archive) + 1
      BY <2>2
    <3>2. Len(archive) + 1 \in DOMAIN archive' /\ \A i \in DOMAIN archive : i \in DOMAIN archive'
      BY <2>2
    <3>. QED BY <2>2, <3>1, <3>2 DEF Range
  <2>4. TornLast' => d = Torn
    BY <2>2 DEF TornLast
  <2>. QED BY <1>2, <2>2, <2>3, <2>4
<1>. QED BY <1>1, <1>2
-----------------------------------------------------------------------------
(* Types *)

\* What get_valid_es_document makes is a document.
LEMMA DocumentType ==
  ASSUME TypeOK, obj \in 1..(Len(Work) + 1), NEW k \in {"result", "prometheus_data"}
  PROVE  Document(k) \in Docs /\ Document(k) \in Lines
BY WorkAssumption DEF TypeOK, Document, Docs, Lines

\* The environments name tools and servers.
LEMMA EnvironmentType ==
  ASSUME TypeOK
  PROVE  env.tool \in Tools /\ env.es \in Servers /\ env.prom_es \in Servers
BY WorkAssumption DEF TypeOK

\* The place of main is one of Places, and what only moves there keeps the types.
LEMMA MovesType ==
  ASSUME TypeIInv, NEW to \in Places, GoesTo(to), pc \notin Over,
         to \in {"start", "factory", "drop"} => item = 1
  PROVE  TypeIInv'
BY DEF TypeIInv, TypeOK, TearsInv, Positions, GoesTo, Goto, dropVars, esVars, DropTypeOK, Over

\* drop_cache and its pods keep the types.
LEMMA DropType ==
  ASSUME DropTypeOK, \/ BeginDrop \/ DropWorks \/ DropReturns \/ DropRaises \/ Warm
                     \/ \E c \in AllCaches : PodDrops(c)
  PROVE  DropTypeOK'
<1>. USE DEF DropTypeOK
<1>1. CASE BeginDrop
  BY <1>1 DEF BeginDrop
<1>2. CASE Request
  <2>1. podList[nth] \in AllCaches
    BY <1>2 DEF Request, AllCaches
  <2>. QED BY <1>2, <2>1 DEF Request
<1>3. CASE AwaitResponses
  BY <1>3 DEF AwaitResponses
<1>4. CASE Response
  <2>1. podList[nth] \in AllCaches
    BY <1>4 DEF Response, AllCaches
  <2>. QED BY <1>4, <2>1 DEF Response
<1>5. CASE KernelDropped
  BY <1>5 DEF KernelDropped
<1>6. CASE RequestCeph
  BY <1>6 DEF RequestCeph
<1>7. CASE DropReturns
  BY <1>7 DEF DropReturns
<1>8. CASE DropRaises
  BY <1>8 DEF DropRaises
<1>9. CASE Warm
  BY <1>9 DEF Warm
<1>10. ASSUME NEW c \in AllCaches, PodDrops(c) PROVE DropTypeOK'
  BY <1>10 DEF PodDrops
<1>. QED BY <1>1, <1>2, <1>3, <1>4, <1>5, <1>6, <1>7, <1>8, <1>9, <1>10 DEF DropWorks

\* What a document does to the archive, written or not, keeps its type.
LEMMA ArchivedType ==
  ASSUME TypeOK, NEW d \in Docs, Archived(d)
  PROVE  archive' \in Seq(Lines) /\ kept' \subseteq Docs
<1>1. archive \in Seq(Lines) /\ d \in Lines /\ kept \subseteq Docs
  BY DEF TypeOK, Lines
<1>. QED BY <1>1, Written DEF Archived

\* No step takes the invocation of a tool to the archive, nor one of "archive" to a tool.
LEMMA ArchiveNext ==
  ASSUME TypeOK, ArchivePcs, [Next]_vars
  PROVE  ArchivePcs'
<1>. USE DEF ArchivePcs, At, Goto, Over
<1>1. CASE Connect
  BY <1>1 DEF Connect
<1>2. CASE Factory
  <2>1. pc = "factory" /\ env.tool \in Tools \ {"archive"}
    BY <1>2, EnvironmentType DEF Factory
  <2>2. PICK to \in {"error", "drop", "emit", "closing", "waits"} : GoesTo(to)
    BY <1>2, <2>1 DEF Factory, Tools, Exits
  <2>. QED BY <2>1, <2>2 DEF GoesTo
<1>3. CASE End \/ BulkRaises \/ ToolFails \/ LastObject \/ PromRaises \/ BadLine \/ EndOfFile
         \/ NoArchive
  BY <1>3 DEF End, BulkRaises, ToolFails, LastObject, PromRaises, BadLine, EndOfFile,
       NoArchive, Exits, InObject, GoesTo
<1>4. CASE Drop \/ Dropped \/ DropFails
  BY <1>4 DEF Drop, Dropped, DropFails, mainVars
<1>5. CASE EmitDoc \/ EmitTriggerDoc \/ EmitDocFails \/ TakeTrigger
  BY <1>5 DEF EmitDoc, EmitTriggerDoc, EmitDocFails, TakeTrigger, Makes, InObject
<1>6. CASE NextObject \/ PromDoc \/ PromReturns
  BY <1>6 DEF NextObject, PromDoc, PromReturns, mainVars
<1>7. CASE ReadLine
  BY <1>7 DEF ReadLine
<1>8. CASE (\E d \in sending : Settle(d)) \/ (\E c \in AllCaches : CacheDropped(c))
  BY <1>8 DEF Settle, CacheDropped, mainVars
<1>9. CASE Kill \/ Invoke \/ UNCHANGED vars
  BY <1>9 DEF Kill, Invoke, Fresh, vars
<1>. QED BY <1>1, <1>2, <1>3, <1>4, <1>5, <1>6, <1>7, <1>8, <1>9 DEF Next, Steps

\* Every step keeps the types and the bounds.
LEMMA TypeNext ==
  ASSUME TypeIInv, ArchivePcs, [Next]_vars
  PROVE  TypeIInv'
<1>. USE DEF At, Goto, Over
<1>1. CASE Connect
  <2>1. DropTypeOK'
    BY <1>1 DEF Connect, TypeIInv, TypeOK, DropTypeOK, dropVars
  <2>2. pc' \in {"error", "lines", "factory"} /\ prefix' \in Prefixes
        /\ index_results' \in BOOLEAN /\ streaming' \in BOOLEAN
    BY <1>1 DEF Connect, TypeIInv, TypeOK, ToolPrefix, Prefixes
  <2>. QED BY <1>1, <2>1, <2>2
         DEF Connect, TypeIInv, TypeOK, TearsInv, Positions, Places, esVars
<1>2. CASE Factory
  <2>1. env.tool \in Tools /\ pc = "factory" /\ item = 1
    BY <1>2, EnvironmentType DEF TypeIInv, Factory, Positions
  <2>2. env.tool # "archive"
    BY <2>1 DEF ArchivePcs
  <2>3. PICK to \in {"error", "drop", "emit", "closing", "waits"} : GoesTo(to)
    BY <1>2, <2>1, <2>2 DEF Factory, Tools, Exits
  <2>. QED BY <2>1, <2>3, MovesType DEF Places
<1>3. CASE End \/ BulkRaises \/ ToolFails \/ LastObject \/ PromRaises \/ BadLine \/ EndOfFile
         \/ NoArchive
  <2>1. PICK to \in {"ok", "error", "closing", "waits"} : GoesTo(to) /\ pc \notin Over
    BY <1>3 DEF End, BulkRaises, ToolFails, LastObject, PromRaises, BadLine, EndOfFile,
         NoArchive, Exits, InObject
  <2>. QED BY <2>1, MovesType DEF Places
<1>4. CASE Drop
  <2>1. DropTypeOK'
    BY <1>4, DropType DEF Drop, TypeIInv, TypeOK
  <2>. QED BY <1>4, <2>1 DEF Drop, TypeIInv, TypeOK, TearsInv, Positions, mainVars, esVars
<1>5. CASE Dropped \/ DropFails
  <2>1. DropTypeOK'
    BY <1>5, DropType DEF Dropped, DropFails, TypeIInv, TypeOK
  <2>. QED BY <1>5, <2>1
         DEF Dropped, DropFails, TypeIInv, TypeOK, TearsInv, Positions, Places, esVars
<1>6. CASE EmitDoc \/ EmitTriggerDoc
  <2>1. Document("result") \in Docs /\ pc = "emit"
    BY <1>6, DocumentType DEF EmitDoc, EmitTriggerDoc, Makes, InObject, TypeIInv, TypeOK
  <2>2. archive' \in Seq(Lines) /\ kept' \subseteq Docs /\ DropTypeOK'
    BY <1>6, <2>1, ArchivedType, DropType DEF EmitDoc, EmitTriggerDoc, TypeIInv, TypeOK
  <2>3. yielded' \subseteq Docs /\ sending' \subseteq Docs
    BY <1>6, <2>1 DEF EmitDoc, EmitTriggerDoc, Taken, TypeIInv, TypeOK
  <2>. QED BY <1>6, <2>1, <2>2, <2>3
         DEF EmitDoc, EmitTriggerDoc, Taken, TypeIInv, TypeOK, TearsInv, Positions, Lines
<1>7. CASE EmitDocFails
  <2>1. archive' \in Seq(Lines) /\ pc = "emit"
    <3>1. archive \in Seq(Lines) /\ Torn \in Lines
      BY DEF TypeIInv, TypeOK, Lines
    <3>. QED BY <1>7, <3>1, Written DEF EmitDocFails, Makes, InObject
  <2>2. tears' \in {tears, tears + 1}
    BY <1>7 DEF EmitDocFails
  <2>3. tears' \in 0..(MaxRuns + 1) /\ tears' <= run + 1
    BY <2>1, <2>2, WorkAssumption DEF TypeIInv, TypeOK, TearsInv
  <2>4. DropTypeOK'
    BY <1>7 DEF EmitDocFails, TypeIInv, TypeOK, DropTypeOK, dropVars
  <2>. QED BY <1>7, <2>1, <2>3, <2>4
         DEF EmitDocFails, TypeIInv, TypeOK, TearsInv, Positions, Places, Lines, esVars
<1>8. CASE NextObject
  <2>1. DropTypeOK' /\ pc' \in {"drop", "emit"} /\ obj' \in 1..(Len(Work) + 1)
    BY <1>8, WorkAssumption DEF NextObject, TypeIInv, TypeOK, DropTypeOK, dropVars
  <2>. QED BY <1>8, <2>1 DEF NextObject, TypeIInv, TypeOK, TearsInv, Positions, Places, esVars
<1>9. CASE TakeTrigger
  <2>1. DropTypeOK'
    BY <1>9, DropType DEF TakeTrigger, TypeIInv, TypeOK
  <2>2. prefix' \in Prefixes /\ index_results' \in BOOLEAN /\ pc = "emit"
    BY <1>9 DEF TakeTrigger, Makes, InObject, TypeIInv, TypeOK, Prefixes
  <2>. QED BY <1>9, <2>1, <2>2
         DEF TakeTrigger, TypeIInv, TypeOK, TearsInv, Positions, Places, esVars
<1>10. CASE PromDoc
  <2>1. Document("prometheus_data") \in Docs
    BY <1>10, DocumentType DEF TypeIInv, TypeOK
  <2>2. archive' \in Seq(Lines) /\ kept' \subseteq Docs /\ prom' \subseteq Docs
    BY <1>10, <2>1, ArchivedType DEF PromDoc, TypeIInv, TypeOK
  <2>3. DropTypeOK'
    BY <1>10 DEF PromDoc, TypeIInv, TypeOK, DropTypeOK, dropVars
  <2>. QED BY <1>10, <2>2, <2>3
         DEF PromDoc, TypeIInv, TypeOK, TearsInv, Positions, Lines, mainVars, esVars
<1>11. CASE PromReturns
  <2>1. DropTypeOK'
    BY <1>11 DEF PromReturns, TypeIInv, TypeOK, DropTypeOK, dropVars
  <2>. QED BY <1>11, <2>1 DEF PromReturns, TypeIInv, TypeOK, TearsInv, Positions, Places, esVars
<1>12. CASE ReadLine
  <2>1. archive[line] \in Docs
    <3>1. archive \in Seq(Lines) /\ line \in 1..Len(archive)
      BY <1>12 DEF ReadLine, TypeIInv, TypeOK, Positions, Lines
    <3>. QED BY <1>12, <3>1, LineType DEF ReadLine, Lines
  <2>2. yielded' \subseteq Docs /\ sending' \subseteq Docs
    BY <1>12, <2>1 DEF ReadLine, Taken, TypeIInv, TypeOK
  <2>3. DropTypeOK'
    BY <1>12 DEF ReadLine, TypeIInv, TypeOK, DropTypeOK, dropVars
  <2>. QED BY <1>12, <2>2, <2>3 DEF ReadLine, Taken, TypeIInv, TypeOK, TearsInv, Positions
<1>13. ASSUME NEW d \in sending, Settle(d) PROVE TypeIInv'
  <2>1. DropTypeOK'
    BY <1>13 DEF Settle, TypeIInv, TypeOK, DropTypeOK, dropVars
  <2>. QED BY <1>13, <2>1 DEF Settle, TypeIInv, TypeOK, TearsInv, Positions, mainVars
<1>14. ASSUME NEW c \in AllCaches, CacheDropped(c) PROVE TypeIInv'
  <2>1. DropTypeOK'
    BY <1>14, DropType DEF CacheDropped, TypeIInv, TypeOK
  <2>. QED BY <1>14, <2>1 DEF CacheDropped, TypeIInv, TypeOK, TearsInv, Positions, mainVars, esVars
<1>15. CASE Kill
  <2>1. archive' \in Seq(Lines)
    <3>1. archive \in Seq(Lines) /\ Torn \in Lines
      BY DEF TypeIInv, TypeOK, Lines
    <3>. QED BY <1>15, <3>1, Written DEF Kill
  <2>2. tears' \in {tears, tears + 1} /\ pc \notin Over
    BY <1>15 DEF Kill
  <2>3. tears' \in 0..(MaxRuns + 1) /\ tears' <= run + 1
    BY <2>2, WorkAssumption DEF TypeIInv, TypeOK, TearsInv
  <2>4. DropTypeOK'
    BY <1>15 DEF Kill, TypeIInv, TypeOK, DropTypeOK
  <2>. QED BY <1>15, <2>1, <2>3, <2>4
         DEF Kill, TypeIInv, TypeOK, TearsInv, Positions, Places, Lines, esVars
<1>16. CASE Invoke
  <2>1. DropTypeOK'
    BY <1>16 DEF Invoke, TypeIInv, TypeOK, DropTypeOK
  <2>2. run' \in 1..MaxRuns /\ env' \in Environments
    BY <1>16, WorkAssumption DEF Invoke, TypeIInv, TypeOK
  <2>3. TearsInv' /\ Positions'
    BY <1>16 DEF Invoke, Fresh, TypeIInv, TypeOK, TearsInv, Positions
  <2>4. 1 \in 1..(Len(Work) + 1)
    BY WorkAssumption
  <2>. QED BY <1>16, <2>1, <2>2, <2>3, <2>4
         DEF Invoke, Fresh, TypeIInv, TypeOK, Places, Prefixes
<1>17. CASE UNCHANGED vars
  BY <1>17 DEF vars, TypeIInv, TypeOK, DropTypeOK, TearsInv, Positions
<1>. QED BY <1>1, <1>2, <1>3, <1>4, <1>5, <1>6, <1>7, <1>8, <1>9, <1>10, <1>11, <1>12, <1>13,
           <1>14, <1>15, <1>16, <1>17 DEF Next, Steps
-----------------------------------------------------------------------------
(* Settled, the named index, the lines of an archive *)

\* No step loses a document that streaming_bulk took.
LEMMA SettleNext ==
  ASSUME TypeOK, ArchivePcs, Unstarted, SettleInv, [Next]_vars
  PROVE  Unstarted' /\ SettleInv'
<1>. USE DEF Unstarted, SettleInv, WaitsForFeeder, At, Goto, Over
<1>1. CASE Connect
  BY <1>1 DEF Connect, esVars
<1>2. CASE Factory
  <2>1. pc = "factory" /\ env.tool \in Tools \ {"archive"}
    BY <1>2, EnvironmentType DEF Factory, ArchivePcs
  <2>2. PICK to \in {"error", "drop", "emit", "closing", "waits"} :
          GoesTo(to) /\ (to = "waits" => streaming /\ env.parallel)
    BY <1>2, <2>1 DEF Factory, Tools, Exits
  <2>. QED BY <2>1, <2>2 DEF GoesTo, esVars
<1>3. CASE BulkRaises \/ ToolFails \/ LastObject \/ PromRaises \/ BadLine \/ EndOfFile
         \/ NoArchive
  BY <1>3 DEF BulkRaises, ToolFails, LastObject, PromRaises, BadLine, EndOfFile,
       NoArchive, Exits, InObject, GoesTo, esVars
<1>4. CASE End
  BY <1>4 DEF End, GoesTo, esVars
<1>5. CASE Drop \/ Dropped \/ DropFails
  BY <1>5 DEF Drop, Dropped, DropFails, mainVars, esVars
<1>6. CASE EmitDoc \/ EmitTriggerDoc
  BY <1>6 DEF EmitDoc, EmitTriggerDoc, Makes, InObject, Taken
<1>7. CASE EmitDocFails \/ TakeTrigger
  <2>1. /\ pc' \in {"error", "prom"}
        /\ UNCHANGED <<streaming, yielded, sending, settled, failed, stored>>
    BY <1>7 DEF EmitDocFails, TakeTrigger, esVars
  <2>. QED BY <2>1
<1>8. CASE NextObject \/ PromDoc \/ PromReturns
  BY <1>8 DEF NextObject, PromDoc, PromReturns, mainVars, esVars
<1>9. CASE ReadLine
  BY <1>9 DEF ReadLine, Taken
<1>10. ASSUME NEW d \in sending, Settle(d) PROVE Unstarted' /\ SettleInv'
  BY <1>10 DEF Settle, mainVars
<1>11. CASE \E c \in AllCaches : CacheDropped(c)
  BY <1>11 DEF CacheDropped, mainVars, esVars
<1>12. CASE Kill \/ Invoke \/ UNCHANGED vars
  BY <1>12 DEF Kill, Invoke, Fresh, vars, esVars
<1>. QED BY <1>1, <1>2, <1>3, <1>4, <1>5, <1>6, <1>7, <1>8, <1>9, <1>10, <1>11, <1>12
         DEF Next, Steps

\* A trigger that was taken stays behind the position in the work.
LEMMA TriggeredKept ==
  ASSUME TypeOK, Triggered,
         \/ UNCHANGED <<obj, item>> /\ (pc # "prom" \/ pc' = "prom")
         \/ obj' = obj /\ item' = item + 1
         \/ obj' = obj + 1 /\ pc # "prom"
  PROVE  Triggered'
<1>0. PICK o \in 1..Len(Work) : \E i \in 1..Len(Work[o]) :
        Work[o][i] = "trigger" /\ (o < obj \/ (o = obj /\ (i < item \/ (i = item /\ pc = "prom"))))
  BY DEF Triggered
<1>1. PICK i \in 1..Len(Work[o]) :
        Work[o][i] = "trigger" /\ (o < obj \/ (o = obj /\ (i < item \/ (i = item /\ pc = "prom"))))
  BY <1>0
<1>2. o \in Nat /\ i \in Nat /\ obj \in Nat /\ item \in Nat
  <2>1. Work[o] \in Seq({"doc", "trigger"})
    BY WorkAssumption
  <2>. QED BY <2>1, WorkAssumption DEF TypeOK
<1>3. o < obj' \/ (o = obj' /\ (i < item' \/ (i = item' /\ pc' = "prom")))
  BY <1>1, <1>2
<1>. QED BY <1>1, <1>3 DEF Triggered

\* index_args.prefix is the one chosen at the connection, whatever a trigger assigns to it,
\* unless es_index is not set, and so are the documents made with it.
LEMMA IndexNext ==
  ASSUME TypeIInv, ArchivePcs, Unstarted, PrefixInv, NamedIndexKept, [Next]_vars
  PROVE  PrefixInv' /\ NamedIndexKept'
<1>. USE DEF At, Goto
<1>0. TypeOK /\ Positions
  BY DEF TypeIInv
<1>. DEFINE Quiet == /\ UNCHANGED <<env, prefix, yielded>>
                     /\ pc # "start"
                     /\ pc \in Over => pc' \in Over
                     /\ \/ pc' \in Over
                        \/ UNCHANGED <<obj, item>> /\ (pc # "prom" \/ pc' = "prom")
                        \/ obj' = obj /\ item' = item + 1
                        \/ obj' = obj + 1 /\ pc # "prom"
<1>q. ASSUME Quiet PROVE PrefixInv' /\ NamedIndexKept'
  <2>1. NamedIndexKept'
    BY <1>q DEF NamedIndexKept, ToolPrefix
  <2>2. ASSUME pc' \notin Over, Unprefixed PROVE Unprefixed'
    BY <1>q, <2>2, <1>0, TriggeredKept DEF Unprefixed
  <2>3. PrefixInv'
    BY <1>q, <2>2 DEF PrefixInv, ToolPrefix
  <2>. QED BY <2>1, <2>3
<1>1. CASE Connect
  BY <1>1 DEF Connect, ToolPrefix, esVars, Unstarted, PrefixInv, NamedIndexKept, Over
<1>2. CASE Factory
  <2>1. pc = "factory" /\ env.tool \in Tools \ {"archive"}
    BY <1>2, <1>0, EnvironmentType DEF Factory, ArchivePcs, Over
  <2>2. PICK to \in {"error", "drop", "emit", "closing", "waits"} : GoesTo(to)
    BY <1>2, <2>1 DEF Factory, Tools, Exits
  <2>. QED BY <2>1, <2>2, <1>q DEF GoesTo, esVars, Over
<1>3. CASE End \/ BulkRaises \/ ToolFails \/ LastObject \/ PromRaises \/ BadLine \/ EndOfFile
         \/ NoArchive
  BY <1>3, <1>q DEF End, BulkRaises, ToolFails, LastObject, PromRaises, BadLine, EndOfFile,
       NoArchive, Exits, InObject, GoesTo, esVars, Over
<1>4. CASE Drop \/ Dropped \/ DropFails
  BY <1>4, <1>q DEF Drop, Dropped, DropFails, mainVars, esVars, Over
<1>5. CASE EmitDoc \/ EmitTriggerDoc
  <2>1. /\ pc = "emit" /\ yielded' = yielded \cup {Document("result")}
        /\ UNCHANGED <<pc, env, prefix, obj>> /\ item' = item + 1
    BY <1>5 DEF EmitDoc, EmitTriggerDoc, Makes, InObject, Taken, Warm
  <2>2. /\ Document("result").prefix = prefix /\ Document("result").obj = obj
        /\ Document("result").item = item
    BY DEF Document
  <2>3. Unprefixed => Unprefixed'
    BY <1>0, <2>1, TriggeredKept DEF Unprefixed
  <2>4. Unprefixed => AfterTrigger(Document("result"))
    <3>. HIDE DEF Quiet
    <3>. QED BY <2>1, <2>2 DEF Unprefixed, Triggered, AfterTrigger
  <2>5. PrefixInv'
    BY <2>1, <2>3 DEF PrefixInv, ToolPrefix
  <2>6. ASSUME env.tool # "archive", env.es # "absent"
        PROVE  \/ prefix = ToolPrefix
               \/ /\ ~env.es_index /\ env.prom_es \in {"up", "down"}
                  /\ prefix = "" /\ AfterTrigger(Document("result"))
    BY <2>1, <2>4, <2>6 DEF PrefixInv, Unprefixed, Over
  <2>7. NamedIndexKept'
    BY <2>1, <2>2, <2>6 DEF NamedIndexKept, ToolPrefix
  <2>. QED BY <2>5, <2>7
<1>6. CASE TakeTrigger
  <2>1. /\ pc = "emit" /\ pc' = "prom" /\ UNCHANGED <<env, obj, item, yielded>>
        /\ Work[obj][item] = "trigger" /\ obj <= Len(Work) /\ item <= Len(Work[obj])
    BY <1>6 DEF TakeTrigger, Makes, InObject, esVars
  <2>2. NamedIndexKept'
    BY <2>1 DEF NamedIndexKept, ToolPrefix
  <2>3. CASE env.prom_es = "empty"
    <3>1. prefix' = prefix
      BY <1>6, <2>3 DEF TakeTrigger
    <3>. QED BY <3>1, <2>1, <1>q DEF Over
  <2>4. CASE env.prom_es # "empty"
    <3>1. prefix' = (IF env.es_index THEN "es_index" ELSE "") /\ env.prom_es \in {"up", "down"}
      BY <1>6, <2>4, <1>0, EnvironmentType DEF TakeTrigger, Servers
    <3>2. obj \in 1..Len(Work) /\ item \in 1..Len(Work[obj])
      <4>1. obj \in 1..(Len(Work) + 1) /\ item \in Nat /\ item >= 1
        BY <1>0 DEF TypeOK, Positions
      <4>2. Len(Work) \in Nat /\ obj \in 1..Len(Work)
        BY <2>1, <4>1, WorkAssumption
      <4>3. Work[obj] \in Seq({"doc", "trigger"})
        BY <4>2, WorkAssumption
      <4>4. Len(Work[obj]) \in Nat
        BY <4>3
      <4>. QED BY <2>1, <4>1, <4>2, <4>4
    <3>3. Triggered'
      BY <2>1, <3>2 DEF Triggered
    <3>4. PrefixInv'
      BY <2>1, <3>1, <3>3 DEF PrefixInv, ToolPrefix, Unprefixed
    <3>. QED BY <2>2, <3>4
  <2>. QED BY <2>3, <2>4
<1>7. CASE NextObject \/ PromDoc \/ PromReturns \/ EmitDocFails
  BY <1>7, <1>q DEF NextObject, PromDoc, PromReturns, EmitDocFails, Makes, InObject, mainVars,
       esVars, Over
<1>8. CASE ReadLine
  BY <1>8 DEF ReadLine, ArchivePcs, PrefixInv, NamedIndexKept
<1>9. CASE Kill
  BY <1>9, <1>q DEF Kill, esVars, Over
<1>10. CASE Invoke
  BY <1>10 DEF Invoke, Fresh, PrefixInv, NamedIndexKept
<1>11. CASE (\E d \in sending : Settle(d)) \/ (\E c \in AllCaches : CacheDropped(c))
            \/ UNCHANGED vars
  <2>1. UNCHANGED <<env, prefix, yielded, pc, obj, item>>
    BY <1>11 DEF Settle, CacheDropped, mainVars, esVars, vars
  <2>2. Unprefixed => Unprefixed'
    BY <2>1 DEF Unprefixed, Triggered
  <2>. QED BY <2>1, <2>2 DEF PrefixInv, NamedIndexKept, ToolPrefix
<1>. QED BY <1>1, <1>2, <1>3, <1>4, <1>5, <1>6, <1>7, <1>8, <1>9, <1>10, <1>11 DEF Next, Steps

\* The archive does not change under the invocation that reads it, which takes line
\* after line and ends well after the last.
LEMMA LinesNext ==
  ASSUME TypeIInv, ArchivePcs, LinesRead, [Next]_vars
  PROVE  LinesRead'
<1>. USE DEF LinesRead, ArchivePcs, At, Goto, Over
<1>1. CASE Connect
  BY <1>1 DEF Connect, esVars
<1>2. CASE Factory
  <2>1. pc = "factory" /\ env.tool \in Tools \ {"archive"}
    BY <1>2, EnvironmentType DEF Factory, TypeIInv
  <2>2. PICK to \in {"error", "drop", "emit", "closing", "waits"} : GoesTo(to)
    BY <1>2, <2>1 DEF Factory, Tools, Exits
  <2>. QED BY <2>1, <2>2 DEF GoesTo
<1>3. CASE End \/ BulkRaises \/ ToolFails \/ LastObject \/ PromRaises \/ BadLine \/ EndOfFile
         \/ NoArchive
  BY <1>3 DEF End, BulkRaises, ToolFails, LastObject, PromRaises, BadLine, EndOfFile,
       NoArchive, Exits, InObject, GoesTo, esVars
<1>4. CASE Drop \/ Dropped \/ DropFails
  BY <1>4 DEF Drop, Dropped, DropFails, mainVars, esVars
<1>5. CASE EmitDoc \/ EmitTriggerDoc \/ EmitDocFails \/ TakeTrigger
  BY <1>5 DEF EmitDoc, EmitTriggerDoc, EmitDocFails, TakeTrigger, Makes, InObject
<1>6. CASE NextObject \/ PromDoc \/ PromReturns
  BY <1>6 DEF NextObject, PromDoc, PromReturns, mainVars
<1>7. CASE ReadLine
  <2>1. /\ pc = "lines" /\ UNCHANGED <<pc, env, archive>> /\ line' = line + 1
        /\ yielded' = yielded \cup {archive[line]}
    BY <1>7 DEF ReadLine, Taken
  <2>2. line \in Nat
    BY DEF TypeIInv, TypeOK
  <2>3. ASSUME NEW i \in 1..Len(archive), i < line + 1, env.tool = "archive"
        PROVE  archive[i] \in yielded \cup {archive[line]}
    BY <2>2, <2>3
  <2>. QED BY <2>1, <2>3
<1>8. CASE (\E d \in sending : Settle(d)) \/ (\E c \in AllCaches : CacheDropped(c))
  BY <1>8 DEF Settle, CacheDropped, mainVars, esVars
<1>9. CASE Kill
  BY <1>9 DEF Kill, esVars
<1>10. CASE Invoke
  BY <1>10 DEF Invoke, Fresh
<1>11. CASE UNCHANGED vars
  BY <1>11 DEF vars
<1>. QED BY <1>1, <1>2, <1>3, <1>4, <1>5, <1>6, <1>7, <1>8, <1>9, <1>10, <1>11 DEF Next, Steps
-----------------------------------------------------------------------------
(* The archive as a backup *)

\* A document that goes to the archive in place of a torn line is the first of its
\* invocation; any other is there.
LEMMA ArchivedBack ==
  ASSUME TypeOK, BackInv, pc \notin Over, NEW d \in Docs, Archived(d), tears' = tears,
         UNCHANGED <<env, pc>>, yielded' \in {yielded, yielded \cup {d}},
         env.tool # "archive"
  PROVE  BackInv'
<1>1. archive \in Seq(Lines) /\ d \in Lines /\ d # Torn /\ yielded \subseteq Docs
  BY LineAssumption DEF TypeOK, Lines
<1>2. CASE ~env.create_archive
  <2>1. archive' = archive
    BY <1>2 DEF Archived
  <2>. QED BY <1>2, <2>1 DEF BackInv, Backed
<1>3. CASE env.create_archive
  <2>1. WriteLine(d)
    BY <1>3 DEF Archived
  <2>2. /\ \A e \in Range(archive) : e # Torn => e \in Range(archive')
        /\ ~TornLast => d \in Range(archive')
        /\ ~TornLast'
        /\ Torn \in Range(archive') => Torn \in Range(archive)
    BY <1>1, <2>1, Written
  <2>3. Torn \in Range(archive') => tears' > 0
    BY <2>2 DEF BackInv
  <2>4. \A a, b \in yielded' \ Range(archive') : a = b /\ tears' > 0
    <3>1. CASE TornLast
      <4>1. yielded' \subseteq {d}
        BY <1>3, <3>1 DEF BackInv, Backed
      <4>2. Torn \in Range(archive)
        BY <1>1, <3>1 DEF TornLast, Range
      <4>. QED BY <4>1, <4>2 DEF BackInv
    <3>2. CASE ~TornLast
      <4>1. \A a \in yielded' \ Range(archive') : a \in yielded \ Range(archive)
        BY <1>1, <2>2, <3>2, LineAssumption
      <4>. QED BY <1>3, <4>1 DEF BackInv, Backed
    <3>. QED BY <3>1, <3>2
  <2>. QED BY <2>2, <2>3, <2>4 DEF BackInv
<1>. QED BY <1>2, <1>3

\* What is written stays a line, or leaves a line that is not JSON behind.
LEMMA KeptWritten ==
  ASSUME TypeOK, KeptInv, NEW d \in Lines, WriteLine(d),
         kept' = kept \/ (kept' = kept \cup {d} /\ d # Torn)
  PROVE  KeptInv'
<1>1. archive \in Seq(Lines) /\ kept \subseteq Docs /\ Corrupt # Torn /\ Torn \notin Docs
  BY LineAssumption DEF TypeOK, Lines
<1>2. /\ \A e \in Range(archive) : e # Torn => e \in Range(archive')
      /\ ~TornLast => d \in Range(archive')
      /\ TornLast /\ d # Torn => Corrupt \in Range(archive')
  BY <1>1, Written
<1>3. ASSUME NEW e \in kept PROVE e \in Range(archive') \/ Corrupt \in Range(archive')
  BY <1>1, <1>2, <1>3 DEF KeptInv
<1>4. d # Torn => d \in Range(archive') \/ Corrupt \in Range(archive')
  BY <1>2
<1>. QED BY <1>3, <1>4 DEF KeptInv

\* Every step keeps what was written.
LEMMA KeptNext ==
  ASSUME TypeOK, ArchivePcs, KeptInv, [Next]_vars
  PROVE  KeptInv'
<1>. USE DEF At, Goto
<1>q. ASSUME UNCHANGED <<archive, kept>> PROVE KeptInv'
  BY <1>q DEF KeptInv
<1>1. CASE Connect \/ Drop \/ Dropped \/ DropFails
  BY <1>1, <1>q DEF Connect, Drop, Dropped, DropFails
<1>2. CASE Factory
  <2>1. env.tool \in Tools \ {"archive"}
    BY <1>2, EnvironmentType DEF Factory, ArchivePcs, Over
  <2>2. PICK to \in {"error", "drop", "emit", "closing", "waits"} : GoesTo(to)
    BY <1>2, <2>1 DEF Factory, Tools, Exits
  <2>. QED BY <2>2, <1>q DEF GoesTo
<1>3. CASE End \/ BulkRaises \/ ToolFails \/ LastObject \/ PromRaises \/ BadLine \/ EndOfFile
         \/ NoArchive
  BY <1>3, <1>q DEF End, BulkRaises, ToolFails, LastObject, PromRaises, BadLine, EndOfFile,
       NoArchive, Exits, GoesTo
<1>4. CASE EmitDoc \/ EmitTriggerDoc \/ PromDoc
  <2>1. PICK k \in {"result", "prometheus_data"} : Archived(Document(k))
    BY <1>4 DEF EmitDoc, EmitTriggerDoc, PromDoc
  <2>2. Document(k) \in Docs /\ Document(k) \in Lines /\ Document(k) # Torn
    BY DocumentType, LineAssumption DEF TypeOK
  <2>3. CASE env.create_archive
    BY <2>1, <2>2, <2>3, KeptWritten DEF Archived
  <2>4. CASE ~env.create_archive
    BY <2>1, <2>4, <1>q DEF Archived
  <2>. QED BY <2>3, <2>4
<1>5. CASE EmitDocFails \/ Kill
  <2>1. kept' = kept /\ (archive' = archive \/ WriteLine(Torn)) /\ Torn \in Lines
    BY <1>5 DEF EmitDocFails, Kill, Lines
  <2>. QED BY <2>1, <1>q, KeptWritten
<1>6. CASE TakeTrigger \/ NextObject \/ PromReturns \/ ReadLine \/ Invoke \/ UNCHANGED vars
  BY <1>6, <1>q DEF TakeTrigger, NextObject, PromReturns, ReadLine, Invoke, vars
<1>7. CASE (\E d \in sending : Settle(d)) \/ (\E c \in AllCaches : CacheDropped(c))
  BY <1>7, <1>q DEF Settle, CacheDropped
<1>. QED BY <1>1, <1>2, <1>3, <1>4, <1>5, <1>6, <1>7 DEF Next, Steps

\* A torn line takes no document out of the archive.
LEMMA TornBack ==
  ASSUME TypeOK, BackInv, WriteLine(Torn), tears' = tears + 1, UNCHANGED <<env, yielded>>,
         pc' \in Over
  PROVE  BackInv'
<1>1. archive \in Seq(Lines) /\ Torn \in Lines /\ yielded \subseteq Docs /\ tears \in Nat
  BY WorkAssumption DEF TypeOK, Lines
<1>2. \A a \in yielded' \ Range(archive') : a \in yielded \ Range(archive)
  BY <1>1, Written, LineAssumption
<1>3. tears' > 0
  BY <1>1
<1>. QED BY <1>2, <1>3 DEF BackInv, Backed

\* What touches neither the archive nor the documents keeps the backup.
LEMMA QuietBack ==
  ASSUME BackInv, UNCHANGED <<env, archive, yielded, tears>>, pc \notin Over \/ pc' \in Over
  PROVE  BackInv'
BY DEF BackInv, Backed, TornLast

\* Every step keeps the archive a backup of what the invocation yielded.
LEMMA BackNext ==
  ASSUME TypeOK, ArchivePcs, BackInv, [Next]_vars
  PROVE  BackInv'
<1>. USE DEF At, Goto
<1>. DEFINE Quiet == /\ UNCHANGED <<env, archive, yielded, tears>>
                     /\ pc \notin Over \/ pc' \in Over
<1>1. CASE Connect
  BY <1>1, QuietBack DEF Connect, esVars, Over
<1>2. CASE Factory
  <2>1. pc = "factory" /\ env.tool \in Tools \ {"archive"}
    BY <1>2, EnvironmentType DEF Factory, ArchivePcs, Over
  <2>2. PICK to \in {"error", "drop", "emit", "closing", "waits"} : GoesTo(to)
    BY <1>2, <2>1 DEF Factory, Tools, Exits
  <2>3. Quiet
    BY <2>1, <2>2 DEF GoesTo, esVars, Over
  <2>. QED BY <2>3, QuietBack
<1>3. CASE End \/ BulkRaises \/ ToolFails \/ LastObject \/ PromRaises \/ BadLine \/ EndOfFile
         \/ NoArchive
  <2>1. Quiet
    BY <1>3 DEF End, BulkRaises, ToolFails, LastObject, PromRaises, BadLine, EndOfFile,
         NoArchive, Exits, InObject, GoesTo, esVars, Over
  <2>. QED BY <2>1, QuietBack
<1>4. CASE Drop \/ Dropped \/ DropFails
  <2>1. Quiet
    BY <1>4 DEF Drop, Dropped, DropFails, mainVars, esVars, Over
  <2>. QED BY <2>1, QuietBack
<1>5. CASE EmitDoc \/ EmitTriggerDoc
  <2>1. /\ pc = "emit" /\ Archived(Document("result"))
        /\ yielded' = yielded \cup {Document("result")}
        /\ UNCHANGED <<pc, env, tears>>
    BY <1>5 DEF EmitDoc, EmitTriggerDoc, Makes, InObject, Taken
  <2>2. Document("result") \in Docs
    BY DocumentType DEF TypeOK
  <2>3. pc \notin Over /\ env.tool # "archive"
    BY <2>1 DEF ArchivePcs, Over
  <2>. QED BY <2>1, <2>2, <2>3, ArchivedBack
<1>6. CASE EmitDocFails
  <2>1. pc = "emit" /\ pc' = "error" /\ UNCHANGED <<env, yielded>>
    BY <1>6 DEF EmitDocFails, Makes, InObject, esVars
  <2>2. CASE UNCHANGED <<archive, tears>>
    BY <2>1, <2>2, QuietBack DEF Over
  <2>3. CASE WriteLine(Torn) /\ tears' = tears + 1
    BY <2>1, <2>3, TornBack DEF Over
  <2>. QED BY <1>6, <2>2, <2>3 DEF EmitDocFails
<1>7. CASE TakeTrigger \/ NextObject \/ PromReturns
  <2>1. Quiet
    BY <1>7 DEF TakeTrigger, NextObject, PromReturns, Makes, InObject, esVars, Over
  <2>. QED BY <2>1, QuietBack
<1>8. CASE PromDoc
  <2>1. /\ pc = "prom" /\ Archived(Document("prometheus_data")) /\ yielded' = yielded
        /\ UNCHANGED <<pc, env, tears>>
    BY <1>8 DEF PromDoc, mainVars, esVars
  <2>2. Document("prometheus_data") \in Docs
    BY DocumentType DEF TypeOK
  <2>3. pc \notin Over /\ env.tool # "archive"
    BY <2>1 DEF ArchivePcs, Over
  <2>. QED BY <2>1, <2>2, <2>3, ArchivedBack
<1>9. CASE ReadLine
  <2>1. pc = "lines" /\ UNCHANGED <<env, archive, tears>>
    BY <1>9 DEF ReadLine
  <2>2. ~Backed /\ ~Backed'
    BY <2>1 DEF ArchivePcs, Backed
  <2>. QED BY <2>1, <2>2 DEF BackInv
<1>10. CASE (\E d \in sending : Settle(d)) \/ (\E c \in AllCaches : CacheDropped(c))
  <2>1. UNCHANGED <<env, archive, yielded, tears, pc>>
    BY <1>10 DEF Settle, CacheDropped, mainVars, esVars
  <2>. QED BY <2>1, QuietBack
<1>11. CASE Kill
  <2>1. pc \notin Over /\ pc' = "killed" /\ UNCHANGED <<env, yielded>>
    BY <1>11 DEF Kill, esVars
  <2>2. CASE UNCHANGED <<archive, tears>>
    BY <2>1, <2>2, QuietBack
  <2>3. CASE WriteLine(Torn) /\ tears' = tears + 1
    BY <2>1, <2>3, TornBack DEF Over
  <2>. QED BY <1>11, <2>2, <2>3 DEF Kill
<1>12. CASE Invoke
  BY <1>12 DEF Invoke, Fresh, BackInv
<1>13. CASE UNCHANGED vars
  <2>1. UNCHANGED <<env, archive, yielded, tears, pc>>
    BY <1>13 DEF vars
  <2>. QED BY <2>1, QuietBack
<1>. QED BY <1>1, <1>2, <1>3, <1>4, <1>5, <1>6, <1>7, <1>8, <1>9, <1>10, <1>11, <1>12, <1>13
         DEF Next, Steps
-----------------------------------------------------------------------------
(* The caches *)

\* The addresses of the list are of kernel cache pods, none of the Ceph pod.
LEMMA PodListFacts ==
  ASSUME DropTypeOK
  PROVE  /\ Len(podList) \in Nat /\ DOMAIN podList = 1..Len(podList)
         /\ \A i \in 1..Len(podList) : podList[i] \in CachePods /\ podList[i] # Ceph
         /\ Range(podList) = {podList[i] : i \in 1..Len(podList)}
         /\ Range(podList) \subseteq CachePods /\ Ceph \notin Range(podList)
<1>1. Len(podList) \in Nat /\ DOMAIN podList = 1..Len(podList)
  BY DEF DropTypeOK
<1>2. \A i \in 1..Len(podList) : podList[i] \in CachePods /\ podList[i] # Ceph
  BY CephAssumption DEF DropTypeOK
<1>. QED BY <1>1, <1>2, CephAssumption DEF Range

\* A step of drop_cache keeps it.
LEMMA DroppingStep ==
  ASSUME DropTypeOK, Dropping, BeginDrop \/ DropWorks
  PROVE  Dropping'
<1>. USE PodListFacts DEF DropTypeOK
<1>1. CASE BeginDrop
  <2>1. podList = <<>> => Range(podList) = {}
    BY DEF Range
  <2>2. \A c \in AllCaches : conn'[c] = "none"
    BY <1>1 DEF BeginDrop
  <2>. QED BY <1>1, <2>1, <2>2 DEF BeginDrop, Dropping, AllCaches
<1>2. CASE Request
  <2>1. podList[nth] \in AllCaches /\ podList[nth] \in Range(podList)
    BY <1>2 DEF Request, AllCaches, Range
  <2>. QED BY <1>2, <2>1 DEF Request, Dropping
<1>3. CASE AwaitResponses
  BY <1>3 DEF AwaitResponses, Dropping
<1>4. CASE Response
  <2>1. podList[nth] \in AllCaches /\ podList[nth] \in Range(podList) /\ conn[podList[nth]] = "ok"
    BY <1>4 DEF Response, AllCaches, Range
  <2>2. /\ conn' = [conn EXCEPT ![podList[nth]] = "read"] /\ nth' = nth + 1
        /\ UNCHANGED <<podList, dropAt, cold>> /\ dropAt = "responses"
    BY <1>4 DEF Response
  <2>3. \A i \in 1..Len(podList) : i < nth' => conn'[podList[i]] = "read"
    BY <2>1, <2>2 DEF Dropping, AllCaches
  <2>4. \A c \in AllCaches : conn'[c] \in {"ok", "read"} => c \in cold
    BY <2>1, <2>2 DEF Dropping
  <2>5. \A c \in AllCaches : conn'[c] # "none" => c \in Range(podList)
    BY <2>1, <2>2 DEF Dropping
  <2>. QED BY <2>2, <2>3, <2>4, <2>5 DEF Dropping
<1>5. CASE KernelDropped
  <2>1. dropAt = "responses" /\ nth > Len(podList) /\ dropAt' = "ceph"
        /\ UNCHANGED <<podList, nth, conn, cold>>
    BY <1>5 DEF KernelDropped
  <2>2. \A i \in 1..Len(podList) : conn[podList[i]] = "read"
    BY <2>1 DEF Dropping
  <2>3. \A c \in AllCaches : conn[c] # "none" => c \in Range(podList)
    BY <2>1 DEF Dropping
  <2>. QED BY <2>1, <2>2, <2>3 DEF Dropping, AllCaches
<1>6. CASE RequestCeph
  <2>1. Ceph \in AllCaches /\ conn'[Ceph] = "asked" /\ dropAt = "ceph" /\ dropAt' = "cephResponse"
        /\ UNCHANGED <<podList, cold>>
    BY <1>6 DEF RequestCeph, AllCaches
  <2>2. \A c \in AllCaches : c # Ceph => conn'[c] = conn[c]
    BY <1>6 DEF RequestCeph
  <2>3. \A c \in AllCaches : conn'[c] \in {"ok", "read"} => c \in cold'
    BY <2>1, <2>2 DEF Dropping
  <2>4. \A c \in CachePods : conn'[c] = conn[c]
    BY <2>2, CephAssumption DEF AllCaches
  <2>5. (\A c \in Range(podList') : conn'[c] = "read")
        /\ \A c \in CachePods \ Range(podList') : conn'[c] = "none"
    BY <2>1, <2>4 DEF Dropping
  <2>. QED BY <2>1, <2>3, <2>5 DEF Dropping
<1>. QED BY <1>1, <1>2, <1>3, <1>4, <1>5, <1>6 DEF DropWorks

\* So does a pod that serves a request, late or not.
LEMMA DroppingPod ==
  ASSUME DropTypeOK, Dropping, NEW c \in AllCaches, PodDrops(c)
  PROVE  Dropping'
<1>. USE PodListFacts DEF DropTypeOK
<1>1. conn[c] = "asked" /\ UNCHANGED <<podList, dropAt, nth>> /\ conn'[c] \in {"ok", "error"}
  BY DEF PodDrops
<1>2. \A e \in AllCaches : e # c => conn'[e] = conn[e]
  BY DEF PodDrops
<1>3. cold \subseteq cold' /\ (conn'[c] = "ok" => c \in cold')
  BY DEF PodDrops
<1>. QED BY <1>1, <1>2, <1>3 DEF Dropping, AllCaches

\* Every step keeps the invariant of drop_cache.
LEMMA DropNext ==
  ASSUME TypeOK, ArchivePcs, DropInv, [Next]_vars
  PROVE  DropInv'
<1>. USE DEF At, Goto
<1>a. DropTypeOK /\ (pc # "drop" => dropAt = "idle") /\ (pc = "drop" => Dropping)
  BY DEF DropInv, Dropping, TypeOK
<1>b. ASSUME pc' = "drop" => Dropping', pc' # "drop" => dropAt' = "idle"
      PROVE  DropInv'
  BY <1>b DEF DropInv, Dropping
<1>c. dropAt' = "idle" => Dropping'
  BY DEF Dropping
<1>1. CASE Drop
  BY <1>1, <1>a, <1>b, DroppingStep DEF Drop, mainVars
<1>2. CASE Dropped \/ DropFails
  BY <1>2, <1>b, <1>c DEF Dropped, DropFails, DropReturns, DropRaises
<1>3. CASE \E c \in AllCaches : CacheDropped(c)
  <2>1. PICK c \in AllCaches : PodDrops(c) /\ pc' = pc
    BY <1>3 DEF CacheDropped, mainVars
  <2>. QED BY <2>1, <1>a, <1>b, DroppingPod DEF PodDrops
<1>4. CASE Kill \/ Invoke
  BY <1>4, <1>b, <1>c DEF Kill, Invoke
<1>5. CASE Factory
  <2>1. pc = "factory" /\ env.tool \in Tools \ {"archive"}
    BY <1>5, EnvironmentType DEF Factory, ArchivePcs, Over
  <2>2. PICK to \in {"error", "drop", "emit", "closing", "waits"} : GoesTo(to)
    BY <1>5, <2>1 DEF Factory, Tools, Exits
  <2>. QED BY <2>1, <2>2, <1>a, <1>b, <1>c DEF GoesTo, dropVars
<1>6. CASE Connect \/ End \/ BulkRaises \/ ToolFails \/ LastObject \/ PromRaises \/ NoArchive
  <2>1. pc # "drop" /\ dropAt' = dropAt
    BY <1>6 DEF Connect, End, BulkRaises, ToolFails, LastObject, PromRaises, NoArchive, Exits,
         InObject, GoesTo, dropVars
  <2>. QED BY <2>1, <1>a, <1>b, <1>c
<1>7. CASE BadLine \/ EndOfFile \/ EmitDoc \/ EmitDocFails \/ EmitTriggerDoc
  <2>1. pc # "drop" /\ dropAt' = dropAt
    BY <1>7 DEF BadLine, EndOfFile, EmitDoc, EmitDocFails, EmitTriggerDoc, Makes, InObject,
         GoesTo, Warm, dropVars
  <2>. QED BY <2>1, <1>a, <1>b, <1>c
<1>8. CASE TakeTrigger \/ PromDoc \/ PromReturns \/ NextObject \/ ReadLine
  <2>1. pc # "drop" /\ dropAt' = dropAt
    BY <1>8 DEF TakeTrigger, PromDoc, PromReturns, NextObject, ReadLine, Makes, InObject,
         Warm, dropVars
  <2>. QED BY <2>1, <1>a, <1>b, <1>c
<1>9. CASE (\E d \in sending : Settle(d)) \/ UNCHANGED vars
  <2>1. UNCHANGED <<pc, dropVars>>
    BY <1>9 DEF Settle, mainVars, dropVars, vars
  <2>. QED BY <2>1, <1>a, <1>b DEF Dropping, dropVars
<1>. QED BY <1>1, <1>2, <1>3, <1>4, <1>5, <1>6, <1>7, <1>8, <1>9 DEF Next, Steps

\* When drop_cache returns every cache it asked for is dropped, and no pod is at it.
LEMMA DropReturnsCold ==
  ASSUME DropTypeOK, Dropping, DropReturns
  PROVE  Asked \subseteq cold /\ \A c \in AllCaches : conn[c] # "asked"
<1>1. dropAt \in {"ceph", "cephResponse"}
  BY DEF DropReturns
<1>2. \A c \in Range(podList) : c \in AllCaches /\ conn[c] = "read" /\ c \in cold
  BY <1>1, PodListFacts DEF Dropping, AllCaches
<1>3. \A c \in CachePods : conn[c] # "asked"
  BY <1>1 DEF Dropping
<1>4. conn[Ceph] # "asked" /\ (hasCeph => Ceph \in cold)
  BY <1>1 DEF DropReturns, Dropping, AllCaches
<1>. QED BY <1>2, <1>3, <1>4 DEF Asked, AllCaches

\* Every step keeps the start of a sample cold.
LEMMA ColdNext ==
  ASSUME TypeIInv, ArchivePcs, DropInv, ColdStart, [Next]_vars
  PROVE  ColdStart'
<1>. USE DEF At, Goto
<1>1. CASE Connect
  BY <1>1 DEF Connect, ColdStart
<1>2. CASE Factory
  <2>1. pc = "factory" /\ env.tool \in Tools \ {"archive"}
    BY <1>2, EnvironmentType DEF Factory, ArchivePcs, Over, TypeIInv
  <2>2. PICK to \in {"error", "drop", "emit", "closing", "waits"} :
          GoesTo(to) /\ (to = "emit" => env.tool # "wrapper")
    BY <1>2, <2>1 DEF Factory, Tools, Exits
  <2>. QED BY <2>1, <2>2 DEF GoesTo, ColdStart
<1>3. CASE End \/ BulkRaises \/ ToolFails \/ LastObject \/ PromRaises \/ BadLine \/ EndOfFile
         \/ NoArchive
  <2>1. pc' # "emit"
    BY <1>3 DEF End, BulkRaises, ToolFails, LastObject, PromRaises, BadLine, EndOfFile,
         NoArchive, Exits, GoesTo
  <2>. QED BY <2>1 DEF ColdStart
<1>4. CASE Drop \/ DropFails
  BY <1>4 DEF Drop, DropFails, mainVars, ColdStart
<1>5. CASE Dropped
  <2>1. DropTypeOK /\ Dropping /\ DropReturns /\ UNCHANGED <<podList, hasCeph, conn, cold>>
    BY <1>5 DEF Dropped, DropReturns, DropInv, TypeIInv, TypeOK
  <2>. QED BY <2>1, DropReturnsCold DEF ColdStart, Asked
<1>6. CASE EmitDoc \/ EmitTriggerDoc \/ PromReturns
  <2>1. item' = item + 1 /\ item >= 1 /\ item \in Nat
    BY <1>6 DEF EmitDoc, EmitTriggerDoc, PromReturns, TypeIInv, TypeOK, Positions
  <2>. QED BY <2>1 DEF ColdStart
<1>7. CASE EmitDocFails \/ TakeTrigger \/ PromDoc \/ ReadLine \/ Kill \/ Invoke
  <2>1. pc' # "emit"
    BY <1>7 DEF EmitDocFails, TakeTrigger, PromDoc, ReadLine, Kill, Invoke, Fresh, mainVars
  <2>. QED BY <2>1 DEF ColdStart
<1>8. CASE NextObject
  BY <1>8 DEF NextObject, ColdStart
<1>9. CASE \E c \in AllCaches : CacheDropped(c)
  <2>1. PICK c \in AllCaches : PodDrops(c) /\ UNCHANGED mainVars
    BY <1>9 DEF CacheDropped
  <2>2. conn[c] = "asked" /\ UNCHANGED <<env, pc, item>>
    BY <2>1 DEF PodDrops, mainVars
  <2>. QED BY <2>2 DEF ColdStart
<1>10. CASE (\E d \in sending : Settle(d)) \/ UNCHANGED vars
  <2>1. UNCHANGED <<env, pc, item, podList, hasCeph, conn, cold>>
    BY <1>10 DEF Settle, mainVars, dropVars, vars
  <2>. QED BY <2>1 DEF ColdStart, Asked
<1>. QED BY <1>1, <1>2, <1>3, <1>4, <1>5, <1>6, <1>7, <1>8, <1>9, <1>10 DEF Next, Steps
-----------------------------------------------------------------------------
(* The theorems *)

RunIInv ==
  /\ TypeIInv /\ ArchivePcs /\ Unstarted /\ SettleInv
  /\ PrefixInv /\ NamedIndexKept
  /\ LinesRead /\ BackInv /\ KeptInv
  /\ DropInv /\ ColdStart

\* The first invocation starts with no document in the archive.
LEMMA RunInit == Init => RunIInv
<1>. SUFFICES ASSUME Init PROVE RunIInv
  OBVIOUS
<1>1. TypeIInv
  <2>1. podList \in Seq(CachePods) /\ 1 \in 1..(Len(podList) + 1) /\ 1 \in 1..(Len(Work) + 1)
    BY WorkAssumption DEF Init
  <2>2. 1 \in 1..MaxRuns /\ 0 \in 0..(MaxRuns + 1) /\ 1 \in 0..(MaxRuns + 1)
    BY WorkAssumption
  <2>3. DropTypeOK
    BY <2>1 DEF Init, DropTypeOK
  <2>4. archive \in Seq(Docs \cup {Torn, Corrupt})
    <3>1. <<>> \in Seq(Docs \cup {Torn, Corrupt}) /\ <<Torn>> \in Seq(Docs \cup {Torn, Corrupt})
      OBVIOUS
    <3>. QED BY <3>1 DEF Init
  <2>5. tears \in {0, 1} /\ run = 1 /\ item = 1 /\ line = 1 /\ pc = "start" /\ "start" \notin Over
    BY DEF Init, Over
  <2>6. TearsInv /\ Positions
    BY <2>5 DEF TearsInv, Positions
  <2>7. /\ env \in Environments /\ pc \in Places /\ index_results \in BOOLEAN
        /\ streaming \in BOOLEAN /\ prefix \in Prefixes /\ obj = 1
        /\ kept = {} /\ yielded = {} /\ sending = {} /\ settled = {} /\ failed = {}
        /\ stored = {} /\ prom = {}
    BY DEF Init, Places, Prefixes
  <2>. QED BY <2>1, <2>2, <2>3, <2>4, <2>5, <2>6, <2>7 DEF TypeIInv, TypeOK
<1>2. ArchivePcs /\ Unstarted /\ SettleInv /\ PrefixInv /\ NamedIndexKept /\ LinesRead
  BY DEF Init, ArchivePcs, Unstarted, SettleInv, WaitsForFeeder, PrefixInv, NamedIndexKept,
       LinesRead
<1>3. BackInv /\ KeptInv
  <2>1. yielded = {} /\ kept = {} /\ tears = Len(archive) /\ archive \in {<<>>, <<Torn>>}
    BY DEF Init
  <2>2. Torn \in Range(archive) => tears > 0
    BY <2>1 DEF Range
  <2>. QED BY <2>1, <2>2 DEF BackInv, KeptInv
<1>4. DropInv /\ ColdStart
  BY DEF Init, DropInv, ColdStart
<1>. QED BY <1>1, <1>2, <1>3, <1>4 DEF RunIInv

\* RunIInv holds in every reachable state.
LEMMA RunInvariant == Spec => []RunIInv
<1>1. ASSUME RunIInv, [Next]_vars PROVE RunIInv'
  <2>1. TypeIInv' /\ ArchivePcs' /\ Unstarted' /\ SettleInv'
    BY <1>1, TypeNext, ArchiveNext, SettleNext DEF RunIInv, TypeIInv
  <2>2. PrefixInv' /\ NamedIndexKept'
    BY <1>1, IndexNext DEF RunIInv, TypeIInv
  <2>3. LinesRead' /\ BackInv' /\ KeptInv'
    BY <1>1, LinesNext, BackNext, KeptNext DEF RunIInv, TypeIInv
  <2>4. DropInv' /\ ColdStart'
    BY <1>1, DropNext, ColdNext DEF RunIInv, TypeIInv
  <2>. QED BY <2>1, <2>2, <2>3, <2>4 DEF RunIInv
<1>. QED BY <1>1, RunInit, PTL DEF Spec

\* Every variable has a value the code can give it, main ends well only when each document
\* it indexed is settled by streaming_bulk, and is left waiting only by a parallel one.
THEOREM EndsSettled == Spec => []RunInv
<1>1. RunIInv => RunInv
  BY DEF RunIInv, TypeIInv, SettleInv, RunInv, OkMeansSettled
<1>. QED BY <1>1, RunInvariant, PTL

\* The results of an invocation go to the index main chose, although each trigger of
\* Prometheus data assigns index_args.prefix anew: only where es_index is not set does a
\* trigger, and nothing else, take the prefix away.
THEOREM NamedIndexIsKept == Spec => []NamedIndexKept
<1>1. RunIInv => NamedIndexKept
  BY DEF RunIInv
<1>. QED BY <1>1, RunInvariant, PTL

\* An invocation that indexes an archive and ends well leaves every document that any
\* invocation wrote to it in the index, or has counted it among its failures.
THEOREM ArchivesAreRestored == Spec => []RestoredOnOk
<1>1. ASSUME RunIInv, pc = "ok", env.tool = "archive", streaming
      PROVE  kept \subseteq stored \cup failed
  <2>1. line > Len(archive) /\ \A i \in 1..Len(archive) : i < line => archive[i] \in yielded
    BY <1>1 DEF RunIInv, LinesRead
  <2>2. DOMAIN archive = 1..Len(archive) /\ Len(archive) \in Nat /\ line \in Nat
    BY <1>1 DEF RunIInv, TypeIInv, TypeOK
  <2>3. \A i \in DOMAIN archive : archive[i] \in yielded
    BY <2>1, <2>2
  <2>4. Range(archive) \subseteq yielded
    BY <2>3 DEF Range
  <2>5. Corrupt \notin Range(archive)
    BY <1>1, <2>4, LineAssumption DEF RunIInv, TypeIInv, TypeOK
  <2>6. kept \subseteq yielded
    BY <1>1, <2>4, <2>5 DEF RunIInv, KeptInv
  <2>7. yielded \subseteq stored \cup failed
    BY <1>1 DEF RunIInv, SettleInv
  <2>. QED BY <2>6, <2>7
<1>2. RunIInv => RestoredOnOk
  BY <1>1 DEF RestoredOnOk
<1>. QED BY <1>2, RunInvariant, PTL

\* The archive is a backup: one document at most of an invocation is not a line of it,
\* the one that completed a line that an earlier invocation left torn.
THEOREM ArchiveIsABackup == Spec => []BackupComplete
<1>1. ASSUME RunIInv, Backed
      PROVE  LET lost == yielded \ Range(archive)
             IN  Cardinality(lost) <= 1 /\ (lost # {} => tears > 0)
  <2>. DEFINE lost == yielded \ Range(archive)
  <2>1. \A a, b \in lost : a = b /\ tears > 0
    BY <1>1 DEF RunIInv, BackInv
  <2>2. lost = {} \/ \E a : lost = {a}
    BY <2>1
  <2>3. Cardinality({}) = 0 /\ \A a : Cardinality({a}) = 1
    BY FS_EmptySet, FS_Singleton
  <2>4. Cardinality(lost) \in {0, 1}
    <3>. HIDE DEF lost
    <3>1. CASE lost = {}
      BY <3>1, <2>3
    <3>2. CASE \E a : lost = {a}
      <4>1. PICK a : lost = {a}
        BY <3>2
      <4>. QED BY <4>1, <2>3
    <3>. QED BY <3>1, <3>2, <2>2
  <2>. QED BY <2>1, <2>4
<1>2. RunIInv => BackupComplete
  BY <1>1 DEF BackupComplete, Backed
<1>. QED BY <1>2, RunInvariant, PTL

\* A tool starts on a data object with every configured cache dropped since it last ran,
\* and no pod still at it, however the answers of the pods interleave with drop_cache.
THEOREM SamplesStartCold == Spec => []ColdStart
<1>1. RunIInv => ColdStart
  BY DEF RunIInv
<1>. QED BY <1>1, RunInvariant, PTL
=============================================================================
