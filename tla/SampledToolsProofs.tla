------------------------- MODULE SampledToolsProofs -------------------------
(***************************************************************************)
(* What a tool reports comes from the processes that it says, for every    *)
(* number of samples, retries and results.                                 *)
(***************************************************************************)
EXTENDS SampledTools, TLAPS, FiniteSetTheorems

\* What the proofs use of the tools.
PolicyOK ==
  /\ tool.retries \in Nat /\ tool.bad \subseteq Outcomes
  /\ tool.ingest \in BOOLEAN /\ tool.file \in BOOLEAN
  /\ tool.fails \in {"exit", "raise", "skip", "report"}

HistoryOK ==
  /\ ran \in Seq(Runs) /\ first \in Nat /\ tries \in Nat
  /\ failed \in Seq(Nat) /\ success \in {"none", "yes", "no"}
  /\ sample \in Nat /\ file \in Nat
  /\ SampleRecord

\* The last process is one of the current sample as soon as there is one, and it is
\* the one that wrote the file once it ended well.
Current ==
  /\ pc = "run" /\ success = "yes"
       => ran[Len(ran)].sample = sample /\ (Strict /\ tool.file => file = Len(ran))
  /\ pc = "report" /\ ~tool.ingest /\ tool.fails # "report"
       => /\ success = "yes" /\ ran[Len(ran)].sample = sample
          /\ Strict /\ tool.file => file = Len(ran)

SampleIInv == PolicyOK /\ HistoryOK /\ Current /\ FreshResults

\* A tool keeps what the proofs use of it.
LEMMA ToolFacts == ASSUME tool \in Tools PROVE PolicyOK
<1>. DEFINE Policy(t) == /\ t.retries \in Nat /\ t.bad \subseteq Outcomes
                        /\ t.ingest \in BOOLEAN /\ t.file \in BOOLEAN
                        /\ t.fails \in {"exit", "raise", "skip", "report"}
<1>1. Policy(uperf) /\ Policy(coremarkpro) /\ Policy(coremarkpro_ingest)
  BY DEF Shape, NonZero, Outcomes, uperf, coremarkpro, coremarkpro_ingest
<1>2. Policy(nighthawk) /\ Policy(vegeta) /\ Policy(vegeta_results)
  BY DEF Shape, NonZero, Outcomes, nighthawk, vegeta, vegeta_results
<1>3. Policy(cyclictest) /\ Policy(oslat)
  BY DEF Shape, NonZero, Outcomes, cyclictest, oslat
<1>4. Policy(ycsb) /\ Policy(flent) /\ Policy(dns_perf)
  BY DEF Shape, OneShot, NonZero, Outcomes, ycsb, flent, dns_perf
<1>5. Policy(sysbench) /\ Policy(trex) /\ Policy(pgbench)
  BY DEF Shape, OneShot, NonZero, Outcomes, sysbench, trex, pgbench
<1>6. Policy(hammerdb) /\ Policy(stressng) /\ Policy(image_pull)
  BY SampledAssumption DEF Shape, OneShot, NonZero, Outcomes, hammerdb, stressng, image_pull
<1>. HIDE DEF Policy
<1>7. \A t \in Tools : Policy(t)
  BY <1>1, <1>2, <1>3, <1>4, <1>5, <1>6 DEF Tools
<1>. QED BY <1>7 DEF Policy, PolicyOK

\* An attempt keeps the record of the sample, and adds one process of that sample.
LEMMA AttemptRecord ==
  ASSUME HistoryOK, PolicyOK, UNCHANGED <<tool, sample>>, file' \in Nat,
         NEW s \in Nat, NEW o \in Outcomes, Attempt(s, tool.retries, tool.bad, o)
  PROVE  /\ HistoryOK' /\ PolicyOK'
         /\ Len(ran') = Len(ran) + 1 /\ ran'[Len(ran) + 1] = [sample |-> s, outcome |-> o]
         /\ \A i \in 1..Len(ran) : ran'[i] = ran[i]
         /\ success' = "yes" => o \notin tool.bad
<1>. USE DEF Attempt, TriesLeft, HistoryOK, PolicyOK, SampleRecord, RecordOf
<1>1. [sample |-> s, outcome |-> o] \in Runs
  BY DEF Runs
<1>2. /\ ran' \in Seq(Runs) /\ Len(ran') = Len(ran) + 1
      /\ ran'[Len(ran) + 1] = [sample |-> s, outcome |-> o]
      /\ \A i \in 1..Len(ran) : ran'[i] = ran[i]
  BY <1>1
<1>3. PolicyOK'
  OBVIOUS
<1>4. CASE o \in tool.bad
  <2>1. /\ failed' = Append(failed, Len(ran) + 1) /\ success' = "none" /\ tries' = tries + 1
        /\ first' = first /\ successful' = successful
    BY <1>4
  <2>2. failed' \in Seq(Nat) /\ Len(failed') = tries' /\ tries' \in Nat
    BY <2>1
  <2>3. \A i \in 1..Len(failed') : failed'[i] = first' + i /\ ran'[first' + i].outcome \in tool'.bad
    <3>. SUFFICES ASSUME NEW i \in 1..Len(failed')
                  PROVE  failed'[i] = first + i /\ ran'[first + i].outcome \in tool.bad
      BY <2>1
    <3>1. /\ i \in 1..(tries + 1) /\ Len(failed) = tries /\ Len(ran) = first + tries
          /\ failed \in Seq(Nat) /\ tries \in Nat /\ first \in Nat
      BY <2>1, <2>2
    <3>2. CASE i \in 1..tries
      <4>1. i \in 1..Len(failed) /\ failed'[i] = failed[i]
        <5>. HIDE DEF Attempt, TriesLeft, HistoryOK, PolicyOK, SampleRecord, RecordOf
        <5>. QED BY <2>1, <3>1, <3>2
      <4>2. first + i \in 1..Len(ran)
        <5>. HIDE DEF Attempt, TriesLeft, HistoryOK, PolicyOK, SampleRecord, RecordOf
        <5>. QED BY <3>1, <3>2
      <4>3. failed[i] = first + i /\ ran[first + i].outcome \in tool.bad
        BY <4>1
      <4>. QED BY <4>1, <4>2, <4>3, <1>2
    <3>3. CASE i = tries + 1
      <4>1. failed'[i] = Len(ran) + 1
        BY <2>1, <3>1, <3>3
      <4>2. ran'[Len(ran) + 1].outcome = o
        BY <1>2
      <4>3. first + i = Len(ran) + 1
        BY <3>1, <3>3
      <4>. HIDE DEF Attempt, TriesLeft, HistoryOK, PolicyOK, SampleRecord, RecordOf
      <4>. QED BY <1>4, <4>1, <4>2, <4>3
    <3>4. i \in 1..tries \/ i = tries + 1
      <4>. HIDE DEF Attempt, TriesLeft, HistoryOK, PolicyOK, SampleRecord, RecordOf
      <4>. QED BY <3>1
    <3>. HIDE DEF Attempt, TriesLeft, HistoryOK, PolicyOK, SampleRecord, RecordOf
    <3>. QED BY <3>2, <3>3, <3>4
  <2>. QED BY <1>2, <1>3, <2>1, <2>2, <2>3
<1>5. CASE o \notin tool.bad
  <2>1. /\ failed' = failed /\ success' = "yes" /\ tries' = tries + 1 /\ attempts' = tries + 1
        /\ first' = first /\ successful' = Len(ran) + 1
    BY <1>5
  <2>2. \A i \in 1..Len(failed) : ran'[first + i] = ran[first + i]
    <3>1. /\ Len(failed) = tries /\ Len(ran) = first + tries /\ tries \in Nat /\ first \in Nat
      BY <2>1
    <3>2. \A i \in 1..Len(failed) : first + i \in 1..Len(ran)
      <4>. HIDE DEF Attempt, TriesLeft, HistoryOK, PolicyOK, SampleRecord, RecordOf
      <4>. QED BY <3>1
    <3>. HIDE DEF Attempt, TriesLeft, HistoryOK, PolicyOK, SampleRecord, RecordOf
    <3>. QED BY <1>2, <3>2
  <2>3. \A i \in 1..Len(failed') : failed'[i] = first' + i /\ ran'[first' + i].outcome \in tool'.bad
    <3>1. \A i \in 1..Len(failed) : failed[i] = first + i /\ ran[first + i].outcome \in tool.bad
      OBVIOUS
    <3>. HIDE DEF Attempt, TriesLeft, HistoryOK, PolicyOK, SampleRecord, RecordOf
    <3>. QED BY <2>1, <2>2, <3>1
  <2>4. /\ Len(ran') = first' + tries' /\ tries' <= tool'.retries + 1
        /\ Len(failed') = tries' - 1
    BY <1>2, <2>1
  <2>5. successful' = Len(ran') /\ ran'[successful'].outcome \notin tool'.bad
    <3>. HIDE DEF TriesLeft, HistoryOK, PolicyOK, SampleRecord, RecordOf, Attempt
    <3>. QED BY <1>2, <1>5, <2>1
  <2>6. SampleRecord'
    BY <2>1, <2>3, <2>4, <2>5
  <2>7. HistoryOK'
    BY <1>2, <2>1, <2>6
  <2>. HIDE DEF Attempt, TriesLeft, HistoryOK, PolicyOK, SampleRecord, RecordOf
  <2>. QED BY <1>2, <1>3, <1>5, <2>7
<1>. QED BY <1>4, <1>5

\* Processes that run later do not touch the results that were reported.
LEMMA OldResultsStayFresh ==
  ASSUME FreshResults, UNCHANGED <<tool, reported>>, Len(ran) \in Nat, Len(ran') \in Nat,
         Len(ran') >= Len(ran), \A i \in 1..Len(ran) : ran'[i] = ran[i]
  PROVE  FreshResults'
BY DEF FreshResults, Strict

\* The first state.
LEMMA InitSampled == Init => SampleIInv
<1>. SUFFICES ASSUME Init PROVE SampleIInv
  OBVIOUS
<1>1. PolicyOK
  BY ToolFacts DEF Init
<1>2. HistoryOK
  BY <1>1 DEF Init, HistoryOK, SampleRecord, RecordOf, PolicyOK
<1>. QED BY <1>1, <1>2 DEF Init, SampleIInv, Current, FreshResults

\* A step that changes neither the processes nor the results keeps the invariant when it
\* comes to report only from a sample that succeeded, or to report its failure.
LEMMA MovesOn ==
  ASSUME SampleIInv, UNCHANGED <<sampleVars, tool, sample, file, reported>>,
         pc' # "run" \/ pc' = pc,
         \/ pc' # "report" \/ pc' = pc
         \/ pc = "run" /\ success = "yes"
         \/ tool.ingest \/ tool.fails = "report"
  PROVE  SampleIInv'
<1>1. PolicyOK' /\ HistoryOK'
  BY DEF SampleIInv, sampleVars, PolicyOK, HistoryOK, SampleRecord, RecordOf
<1>2. Current'
  BY DEF SampleIInv, sampleVars, Current, Strict
<1>3. FreshResults'
  BY DEF SampleIInv, sampleVars, FreshResults, Strict
<1>. QED BY <1>1, <1>2, <1>3 DEF SampleIInv

\* setup, the moves from one place to another, and closing the generator.
LEMMA PlainSteps ==
  ASSUME SampleIInv,
         \/ SetUp \/ InputMissing \/ Built \/ BuildFailed \/ Finish
         \/ Succeeded \/ Failed \/ EndSample \/ ParseFails \/ Close
  PROVE  SampleIInv'
<1>1. UNCHANGED <<sampleVars, tool, sample, file, reported>>
  BY DEF SetUp, InputMissing, Built, BuildFailed, Finish, Succeeded, Failed, EndSample,
         ParseFails, Close, toolVars
<1>2. CASE SetUp \/ InputMissing \/ Built \/ BuildFailed \/ Finish
  BY <1>1, <1>2, MovesOn DEF SetUp, InputMissing, Built, BuildFailed, Finish, Goes
<1>3. CASE Succeeded
  BY <1>1, <1>3, MovesOn DEF Succeeded, Goes
<1>4. CASE Failed
  <2>1. pc' = AfterFailure /\ pc = "run" /\ tool.fails \in {"exit", "raise", "skip", "report"}
    BY <1>4 DEF Failed, Goes, SampleIInv, PolicyOK
  <2>2. pc' # "run" /\ (pc' = "report" => tool.fails = "report")
    BY <2>1 DEF AfterFailure
  <2>. QED BY <1>1, <2>2, MovesOn
<1>5. CASE EndSample \/ ParseFails \/ Close
  BY <1>1, <1>5, MovesOn DEF EndSample, ParseFails, Close, Goes
<1>. QED BY <1>2, <1>3, <1>4, <1>5

\* The earlier results of an ingest are reported without running anything.
LEMMA IngestStep == ASSUME SampleIInv, Ingest PROVE SampleIInv'
<1>1. /\ UNCHANGED <<ran, first, tries, failed, successful, success, attempts, tool, file, reported>>
      /\ tool.ingest /\ pc' = "report" /\ sample' \in Nat
  BY SampledAssumption DEF Ingest, Goes, sampleVars, toolVars
<1>2. PolicyOK' /\ HistoryOK'
  BY <1>1 DEF SampleIInv, PolicyOK, HistoryOK, SampleRecord, RecordOf
<1>3. Current' /\ FreshResults'
  BY <1>1 DEF SampleIInv, Current, FreshResults, Strict
<1>. QED BY <1>2, <1>3 DEF SampleIInv

\* A new sample starts with an empty record.
LEMMA NextSampleStep == ASSUME SampleIInv, NextSample PROVE SampleIInv'
<1>1. /\ UNCHANGED <<ran, tool, file, reported>> /\ pc' = "run" /\ sample' = sample + 1
      /\ first' = Len(ran) /\ tries' = 0 /\ failed' = <<>> /\ success' = "none"
  BY DEF NextSample, Goes, StartSample
<1>2. PolicyOK'
  BY <1>1 DEF SampleIInv, PolicyOK
<1>3. HistoryOK'
  BY <1>1, <1>2 DEF SampleIInv, HistoryOK, SampleRecord, RecordOf, PolicyOK
<1>4. Current' /\ FreshResults'
  BY <1>1 DEF SampleIInv, Current, FreshResults, Strict
<1>. QED BY <1>2, <1>3, <1>4 DEF SampleIInv

\* A process of the build or of a sample has run.
LEMMA AttemptStep ==
  ASSUME SampleIInv, UNCHANGED <<tool, pc, sample, reported>>, file' \in Nat, pc # "report",
         NEW s \in Nat, NEW o \in Outcomes, Attempt(s, tool.retries, tool.bad, o),
         pc = "run" => s = sample /\ (o \notin NonZero => file' = Len(ran) + 1)
  PROVE  SampleIInv'
<1>1. /\ HistoryOK' /\ PolicyOK'
      /\ Len(ran') = Len(ran) + 1 /\ ran'[Len(ran) + 1] = [sample |-> s, outcome |-> o]
      /\ \A i \in 1..Len(ran) : ran'[i] = ran[i]
      /\ success' = "yes" => o \notin tool.bad
  BY AttemptRecord DEF SampleIInv
<1>2. Len(ran) \in Nat /\ Len(ran') \in Nat
  BY <1>1 DEF SampleIInv, HistoryOK
<1>3. FreshResults'
  BY <1>1, <1>2, OldResultsStayFresh DEF SampleIInv
<1>4. Current'
  BY <1>1, <1>2 DEF Current, Strict
<1>. QED BY <1>1, <1>3, <1>4 DEF SampleIInv

\* A sample, or the build, that has no tries left fails.
LEMMA GiveUpStep ==
  ASSUME SampleIInv, UNCHANGED <<tool, pc, sample, file, reported>>, pc # "report",
         GiveUp(tool.retries)
  PROVE  SampleIInv'
<1>1. /\ UNCHANGED <<ran, first, tries, failed, successful>> /\ success' = "no"
      /\ success = "none" /\ attempts' = tries /\ ~(tries <= tool.retries)
  BY DEF GiveUp, TriesLeft
<1>2. PolicyOK' /\ HistoryOK'
  BY <1>1 DEF SampleIInv, PolicyOK, HistoryOK, SampleRecord, RecordOf
<1>3. Current' /\ FreshResults'
  BY <1>1 DEF SampleIInv, Current, FreshResults, Strict
<1>. QED BY <1>2, <1>3 DEF SampleIInv

\* A result is made of the file or the output of the last process.
LEMMA YieldStep == ASSUME SampleIInv, Yield PROVE SampleIInv'
<1>1. /\ UNCHANGED <<ran, first, tries, failed, successful, success, attempts, tool, pc, sample, file>>
      /\ pc = "report"
      /\ reported' = reported \cup {[sample |-> sample, by |-> Source,
                                     successful |-> success = "yes", failures |-> Len(failed)]}
  BY DEF Yield, sampleVars
<1>2. PolicyOK' /\ HistoryOK'
  BY <1>1 DEF SampleIInv, PolicyOK, HistoryOK, SampleRecord, RecordOf
<1>3. Current'
  BY <1>1 DEF SampleIInv, Current, Strict
<1>4. ASSUME Strict, tool.fails # "report", ~tool.ingest
      PROVE  /\ Source \in 1..Len(ran) /\ ran[Source].sample = sample
             /\ ran[Source].outcome \notin tool.bad
  <2>1. /\ success = "yes" /\ ran[Len(ran)].sample = sample /\ (tool.file => file = Len(ran))
    BY <1>1, <1>4 DEF SampleIInv, Current
  <2>2. Source = Len(ran)
    BY <1>4, <2>1 DEF Source, SampleIInv, PolicyOK
  <2>3. Len(ran) \in Nat \ {0} /\ ran[Len(ran)].outcome \notin tool.bad
    <3>1. /\ Len(ran) = first + tries /\ Len(failed) = tries - 1 /\ Len(failed) \in Nat
          /\ first \in Nat /\ tries \in Nat /\ ran[Len(ran)].outcome \notin tool.bad
      BY <2>1 DEF SampleIInv, HistoryOK, SampleRecord, RecordOf
    <3>. QED BY <3>1
  <2>. QED BY <2>1, <2>2, <2>3
<1>5. FreshResults'
  BY <1>1, <1>4 DEF SampleIInv, FreshResults, Strict
<1>. QED BY <1>2, <1>3, <1>5 DEF SampleIInv

\* Every step keeps the invariant.
LEMMA NextSampled == SampleIInv /\ [Next]_vars => SampleIInv'
<1>. SUFFICES ASSUME SampleIInv, [Next]_vars PROVE SampleIInv'
  OBVIOUS
<1>1. CASE SetUp \/ InputMissing \/ Built \/ BuildFailed \/ Finish \/ Succeeded \/ Failed
           \/ EndSample \/ ParseFails \/ Close
  BY <1>1, PlainSteps
<1>2. CASE Ingest
  BY <1>2, IngestStep
<1>3. CASE NextSample
  BY <1>3, NextSampleStep
<1>4. CASE Build
  <2>1. CASE \E o \in Outcomes : Attempt(0, tool.retries, tool.bad, o)
    <3>1. PICK o \in Outcomes : Attempt(0, tool.retries, tool.bad, o)
      BY <2>1
    <3>2. UNCHANGED <<tool, pc, sample, reported>> /\ file' \in Nat /\ pc = "build"
      BY <1>4 DEF Build, SampleIInv, HistoryOK
    <3>. QED BY <3>1, <3>2, AttemptStep
  <2>2. CASE GiveUp(tool.retries)
    BY <1>4, <2>2, GiveUpStep DEF Build
  <2>. QED BY <1>4, <2>1, <2>2 DEF Build
<1>5. CASE Run
  <2>1. PICK o \in Outcomes :
          /\ Attempt(sample, tool.retries, tool.bad, o)
          /\ file' \in IF o \in NonZero THEN {file, Len(ran) + 1} ELSE {Len(ran) + 1}
    BY <1>5 DEF Run
  <2>2. /\ UNCHANGED <<tool, pc, sample, reported>> /\ pc = "run" /\ sample \in Nat
        /\ file' \in Nat /\ (o \notin NonZero => file' = Len(ran) + 1)
    BY <1>5, <2>1 DEF Run, SampleIInv, HistoryOK
  <2>. QED BY <2>1, <2>2, AttemptStep
<1>6. CASE OutOfTries
  BY <1>6, GiveUpStep DEF OutOfTries
<1>7. CASE Yield
  BY <1>7, YieldStep
<1>8. CASE UNCHANGED vars
  BY <1>8, MovesOn DEF vars
<1>. QED BY <1>1, <1>2, <1>3, <1>4, <1>5, <1>6, <1>7, <1>8 DEF Next, Steps

\* The record of a sample (process.py:get_process_sample) is that of its processes,
\* however many retries a tool allows.
THEOREM RecordsAreTrue == Spec => []SampleRecord
<1>1. SampleIInv => SampleRecord
  BY DEF SampleIInv, HistoryOK
<1>. QED BY <1>1, InitSampled, NextSampled, PTL DEF Spec

\* What a tool that stops at a failure, or skips it, reports of a sample comes from a
\* process of that sample which ended well, however many samples are taken.
THEOREM ResultsAreFresh == Spec => []FreshResults
<1>1. SampleIInv => FreshResults
  BY DEF SampleIInv
<1>. QED BY <1>1, InitSampled, NextSampled, PTL DEF Spec
-----------------------------------------------------------------------------
(* Types                                                                   *)

\* The one tool that reports failures takes one sample, of a command it runs; a tool
\* that insists on results runs commands.
ShapeOK ==
  /\ tool.many \in BOOLEAN
  /\ tool.fails = "report" => ~tool.many /\ ~tool.ingest /\ ~tool.file /\ tool.setup # "build"
  /\ ~tool.empty => ~tool.ingest

LEMMA ToolShapes == ASSUME tool \in Tools PROVE ShapeOK
<1>. DEFINE Fits(t) ==
       /\ t.many \in BOOLEAN
       /\ t.fails = "report" => ~t.many /\ ~t.ingest /\ ~t.file /\ t.setup # "build"
       /\ ~t.empty => ~t.ingest
<1>1. Fits(uperf) /\ Fits(coremarkpro) /\ Fits(coremarkpro_ingest)
  BY DEF Shape, uperf, coremarkpro, coremarkpro_ingest
<1>2. Fits(nighthawk) /\ Fits(vegeta) /\ Fits(vegeta_results)
  BY DEF Shape, nighthawk, vegeta, vegeta_results
<1>3. Fits(cyclictest) /\ Fits(oslat)
  BY DEF Shape, cyclictest, oslat
<1>4. Fits(ycsb) /\ Fits(flent) /\ Fits(dns_perf)
  BY DEF Shape, OneShot, ycsb, flent, dns_perf
<1>5. Fits(sysbench) /\ Fits(trex) /\ Fits(pgbench)
  BY DEF Shape, OneShot, sysbench, trex, pgbench
<1>6. Fits(hammerdb) /\ Fits(stressng) /\ Fits(image_pull)
  BY DEF Shape, OneShot, hammerdb, stressng, image_pull
<1>. HIDE DEF Fits
<1>7. \A t \in Tools : Fits(t)
  BY <1>1, <1>2, <1>3, <1>4, <1>5, <1>6 DEF Tools
<1>. QED BY <1>7 DEF Fits, ShapeOK

\* The initial values.
LEMMA InitTyped == Init => SampledTypeOK
BY SampledAssumption DEF Init, SampledTypeOK, SampleTypeOK, Results

\* An attempt keeps the types of the record.
LEMMA AttemptTyped ==
  ASSUME SampleTypeOK, NEW s \in Nat, NEW r, NEW bad, NEW o \in Outcomes, Attempt(s, r, bad, o)
  PROVE  SampleTypeOK' /\ Len(ran') = Len(ran) + 1 /\ Len(ran) \in Nat
<1>1. [sample |-> s, outcome |-> o] \in Runs
  BY DEF Runs
<1>2. ran' \in Seq(Runs) /\ Len(ran') = Len(ran) + 1 /\ Len(ran) \in Nat
  BY <1>1 DEF SampleTypeOK, Attempt
<1>3. failed' \in Seq(Nat) /\ successful' \in Nat /\ attempts' \in Nat
  <2>1. CASE o \in bad
    <3>1. /\ failed' = Append(failed, Len(ran) + 1) /\ failed \in Seq(Nat)
          /\ UNCHANGED <<successful, attempts>> /\ successful \in Nat /\ attempts \in Nat
      BY <2>1 DEF SampleTypeOK, Attempt
    <3>2. Len(ran) + 1 \in Nat
      BY <1>2
    <3>. QED BY <3>1, <3>2
  <2>2. CASE o \notin bad
    BY <1>2, <2>2 DEF SampleTypeOK, Attempt
  <2>. QED BY <2>1, <2>2
<1>. QED BY <1>2, <1>3 DEF SampleTypeOK, Attempt

\* Steps that move pc, and perhaps give up, keep the types.
LEMMA MovesTyped ==
  ASSUME SampledTypeOK, UNCHANGED toolVars, UNCHANGED sampleVars, UNCHANGED sample,
         pc' \in {"setup", "build", "collect", "run", "report"} \cup Over
  PROVE  SampledTypeOK'
BY DEF SampledTypeOK, SampleTypeOK, toolVars, sampleVars

\* Every step keeps the types.
LEMMA NextTyped == SampledTypeOK /\ [Next]_vars => SampledTypeOK'
<1>. SUFFICES ASSUME SampledTypeOK, [Next]_vars PROVE SampledTypeOK'
  OBVIOUS
<1>1. PolicyOK /\ ShapeOK /\ sample \in Nat
  BY ToolFacts, ToolShapes, SampledAssumption DEF SampledTypeOK
<1>2. CASE SetUp \/ InputMissing \/ Built \/ BuildFailed \/ Finish \/ Succeeded \/ EndSample
           \/ ParseFails \/ Close
  <2>1. pc' \in {"setup", "build", "collect", "run", "report"} \cup Over
    BY <1>2 DEF SetUp, InputMissing, Built, BuildFailed, Finish, Succeeded, EndSample,
                ParseFails, Close, Goes, Over
  <2>2. UNCHANGED toolVars /\ UNCHANGED sampleVars /\ UNCHANGED sample
    BY <1>2 DEF SetUp, InputMissing, Built, BuildFailed, Finish, Succeeded, EndSample,
                ParseFails, Close
  <2>. QED BY <2>1, <2>2, MovesTyped
<1>3. CASE Failed
  <2>1. AfterFailure \in {"exited", "raised", "collect", "report"}
    BY <1>1 DEF AfterFailure, PolicyOK
  <2>. QED BY <1>3, <2>1, MovesTyped DEF Failed, Goes, Over
<1>4. CASE NextSample
  <2>1. SampleCount <= Samples /\ SampleCount \in Nat
    BY SampledAssumption DEF SampleCount
  <2>2. SampleTypeOK' /\ UNCHANGED ran
    BY <1>4 DEF SampledTypeOK, SampleTypeOK, NextSample, StartSample
  <2>. QED BY <1>1, <1>4, <2>1, <2>2, SampledAssumption DEF SampledTypeOK, NextSample, Goes
<1>5. CASE Ingest
  BY <1>5, SampledAssumption
     DEF SampledTypeOK, SampleTypeOK, Ingest, Goes, toolVars, sampleVars
<1>6. CASE Build
  <2>1. CASE GiveUp(tool.retries)
    BY <1>6, <2>1 DEF Build, GiveUp, SampledTypeOK, SampleTypeOK
  <2>2. CASE \E o \in Outcomes : Attempt(0, tool.retries, tool.bad, o)
    <3>1. SampleTypeOK' /\ Len(ran') = Len(ran) + 1 /\ Len(ran) \in Nat
      BY <2>2, AttemptTyped DEF SampledTypeOK
    <3>. QED BY <1>6, <3>1 DEF Build, SampledTypeOK
  <2>. QED BY <1>6, <2>1, <2>2 DEF Build
<1>7. CASE Run
  <2>1. PICK o \in Outcomes :
          /\ Attempt(sample, tool.retries, tool.bad, o)
          /\ file' \in IF o \in NonZero THEN {file, Len(ran) + 1} ELSE {Len(ran) + 1}
    BY <1>7 DEF Run
  <2>2. SampleTypeOK' /\ Len(ran') = Len(ran) + 1 /\ Len(ran) \in Nat
    BY <1>1, <2>1, AttemptTyped DEF SampledTypeOK
  <2>3. file' \in 0..Len(ran')
    BY <2>1, <2>2 DEF SampledTypeOK
  <2>. QED BY <1>7, <2>2, <2>3 DEF Run, SampledTypeOK
<1>8. CASE OutOfTries
  BY <1>8 DEF OutOfTries, GiveUp, SampledTypeOK, SampleTypeOK
<1>9. CASE Yield
  <2>1. Source \in Nat /\ Len(failed) \in Nat
    BY DEF SampledTypeOK, SampleTypeOK, Source
  <2>2. [sample |-> sample, by |-> Source, successful |-> success = "yes",
         failures |-> Len(failed)] \in Results
    BY <1>1, <2>1 DEF Results
  <2>3. docs' \in 0..MaxDocs
    BY <1>9, SampledAssumption DEF Yield, SampledTypeOK
  <2>. QED BY <1>9, <2>2, <2>3 DEF Yield, SampledTypeOK, SampleTypeOK, sampleVars
<1>10. CASE UNCHANGED vars
  BY <1>10 DEF vars, sampleVars, SampledTypeOK, SampleTypeOK
<1>. QED BY <1>2, <1>3, <1>4, <1>5, <1>6, <1>7, <1>8, <1>9, <1>10 DEF Next, Steps
-----------------------------------------------------------------------------
(* What image_pull reports                                                 *)

\* A tool that reports failures has one sample, and nothing is run after its first
\* result: every result tells of the record as it still is.
OneSample == tool.fails = "report" =>
  /\ first = 0 /\ sample <= 1 /\ pc # "build"
  /\ pc = "setup" => sample = 0
  /\ pc \in {"run", "report"} => sample = 1
  /\ sample = 0 \/ pc = "run" => reported = {}
  /\ sample = 0 => ran = <<>>
  /\ pc = "report" \/ reported # {} => success # "none"
  /\ \A d \in reported : /\ d.by = Len(ran)
                         /\ d.successful = (success = "yes")
                         /\ d.failures = Len(failed)

TypedInv == SampledTypeOK /\ SampleIInv

\* A step that touches neither the record nor the results, and does not come to run or
\* report but after a sample has run.
LEMMA OneSampleMoves ==
  ASSUME TypedInv, OneSample, UNCHANGED <<sampleVars, tool, sample, reported>>,
         pc' # "build" \/ tool.setup = "build", pc' # "setup" \/ pc' = pc,
         pc' = "run" => pc = "run",
         pc' = "report" => pc = "report" \/ (pc = "run" /\ success # "none")
  PROVE  OneSample'
<1>1. ShapeOK
  BY ToolShapes DEF TypedInv, SampledTypeOK
<1>. QED BY <1>1 DEF OneSample, sampleVars, ShapeOK

\* Every step keeps OneSample.
LEMMA NextOneSample == TypedInv /\ OneSample /\ [Next]_vars => OneSample'
<1>. SUFFICES ASSUME TypedInv, OneSample, [Next]_vars PROVE OneSample'
  OBVIOUS
<1>1. PolicyOK /\ ShapeOK /\ sample \in Nat /\ ran \in Seq(Runs)
  BY ToolFacts, ToolShapes, SampledAssumption DEF TypedInv, SampledTypeOK, SampleTypeOK
<1>2. CASE SetUp \/ InputMissing \/ Built \/ BuildFailed \/ Finish \/ EndSample
           \/ ParseFails \/ Close
  <2>1. UNCHANGED <<sampleVars, tool, sample, reported>>
    BY <1>2 DEF SetUp, InputMissing, Built, BuildFailed, Finish, EndSample, ParseFails, Close,
                toolVars
  <2>2. pc' \notin {"setup", "run", "report"} /\ (pc' # "build" \/ tool.setup = "build")
    BY <1>2 DEF SetUp, InputMissing, Built, BuildFailed, Finish, EndSample, ParseFails, Close,
                Goes
  <2>. QED BY <2>1, <2>2, OneSampleMoves
<1>3. CASE Succeeded \/ Failed
  <2>1. /\ UNCHANGED <<sampleVars, tool, sample, reported>>
        /\ pc = "run" /\ success # "none" /\ pc' \in {"report", "exited", "raised", "collect"}
    BY <1>1, <1>3 DEF Succeeded, Failed, Goes, toolVars, AfterFailure, PolicyOK
  <2>. QED BY <2>1, OneSampleMoves
<1>4. CASE NextSample
  <2>1. SUFFICES ASSUME tool.fails = "report" PROVE OneSample'
    BY <1>4 DEF OneSample, NextSample
  <2>2. SampleCount = 1
    BY <1>1, <2>1 DEF SampleCount, ShapeOK
  <2>3. sample = 0 /\ ran = <<>> /\ reported = {}
    BY <1>1, <1>4, <2>1, <2>2 DEF NextSample, OneSample
  <2>. QED BY <1>4, <2>3 DEF NextSample, StartSample, Goes, OneSample
<1>5. CASE Ingest
  BY <1>1, <1>5 DEF Ingest, ShapeOK, OneSample, toolVars
<1>6. CASE Build
  BY <1>6 DEF Build, OneSample
<1>7. CASE Run
  BY <1>7 DEF Run, Attempt, OneSample
<1>8. CASE OutOfTries
  BY <1>8 DEF OutOfTries, GiveUp, OneSample
<1>9. CASE Yield
  <2>1. SUFFICES ASSUME tool.fails = "report" PROVE OneSample'
    BY <1>9 DEF OneSample, Yield
  <2>2. Source = Len(ran)
    BY <1>1, <2>1 DEF Source, ShapeOK
  <2>3. /\ UNCHANGED <<ran, first, failed, success, tool, pc, sample>> /\ pc = "report"
        /\ reported' = reported \cup {[sample |-> sample, by |-> Len(ran),
                                       successful |-> success = "yes", failures |-> Len(failed)]}
    BY <1>9, <2>2 DEF Yield, sampleVars
  <2>. QED BY <2>1, <2>3 DEF OneSample
<1>10. CASE UNCHANGED vars
  BY <1>10 DEF vars, sampleVars, OneSample
<1>. QED BY <1>2, <1>3, <1>4, <1>5, <1>6, <1>7, <1>8, <1>9, <1>10 DEF Next, Steps

\* When all of the processes are those of one sample, its record counts their failures.
LEMMA RecordCounts ==
  ASSUME TypedInv, OneSample, tool.fails = "report", reported # {}, Len(ran) # 0
  PROVE  /\ (success = "yes") = (ran[Len(ran)].outcome \notin tool.bad)
         /\ Len(failed) = Cardinality({i \in 1..Len(ran) : ran[i].outcome \in tool.bad})
<1> DEFINE Bad == {i \in 1..Len(ran) : ran[i].outcome \in tool.bad}
<1>1. /\ first = 0 /\ success \in {"yes", "no"} /\ Len(ran) = tries
      /\ Len(ran) \in Nat /\ tries \in Nat /\ Len(failed) \in Nat
      /\ Len(failed) = IF success = "yes" THEN tries - 1 ELSE tries
      /\ \A i \in 1..Len(failed) : ran[i].outcome \in tool.bad
      /\ success = "yes" => ran[Len(ran)].outcome \notin tool.bad
  BY DEF TypedInv, SampleIInv, HistoryOK, SampleRecord, RecordOf, OneSample
<1>2. Bad = 1..Len(failed)
  <2>1. CASE success = "yes"
    BY <1>1, <2>1
  <2>2. CASE success = "no"
    BY <1>1, <2>2
  <2>. QED BY <1>1, <2>1, <2>2
<1>3. Cardinality(Bad) = Len(failed)
  <2>. HIDE DEF Bad
  <2>1. Len(failed) \in Nat
    BY <1>1
  <2>2. Cardinality(1..Len(failed)) = IF 1 > Len(failed) THEN 0 ELSE Len(failed) - 1 + 1
    BY <2>1, FS_Interval
  <2>3. Cardinality(1..Len(failed)) = Len(failed)
    BY <2>1, <2>2
  <2>. QED BY <1>2, <2>3
<1>4. (success = "yes") = (ran[Len(ran)].outcome \notin tool.bad)
  <2>1. CASE success = "no"
    <3>1. Len(ran) \in 1..Len(failed)
      BY <1>1, <2>1
    <3>. QED BY <1>1, <2>1, <3>1
  <2>. QED BY <1>1, <2>1
<1>. QED BY <1>3, <1>4

\* What image_pull (image_pull_wrapper) reports of its command is what the command did,
\* however many retries it was given; each variable keeps its type.
THEOREM FailuresAreHonest == Spec => []SampledInv
<1>1. Init => TypedInv /\ OneSample
  BY InitTyped, InitSampled DEF Init, TypedInv, OneSample
<1>2. TypedInv /\ OneSample /\ [Next]_vars => TypedInv' /\ OneSample'
  BY NextTyped, NextSampled, NextOneSample DEF TypedInv
<1>3. TypedInv /\ OneSample => SampledInv
  <2> SUFFICES ASSUME TypedInv, OneSample, NEW d \in reported,
                      d.by # 0, tool.fails = "report"
               PROVE  /\ d.successful = (ran[d.by].outcome \notin tool.bad)
                      /\ d.failures = Cardinality({i \in 1..Len(ran) :
                                                     ran[i].outcome \in tool.bad})
    BY DEF SampledInv, HonestFailures, TypedInv
  <2>1. d.by = Len(ran) /\ d.successful = (success = "yes") /\ d.failures = Len(failed)
    BY DEF OneSample
  <2>. QED BY <2>1, RecordCounts
<1>. QED BY <1>1, <1>2, <1>3, PTL DEF Spec
-----------------------------------------------------------------------------
(* No sample is left out                                                   *)

HasResult(n) == \E d \in reported : d.sample = n

\* A tool that neither skips a failed sample nor takes one without results has
\* reported every sample that it has ended.
AllSoFar == tool.fails # "skip" /\ ~tool.empty =>
  /\ \A n \in 1..(sample - 1) : HasResult(n)
  /\ pc \in {"setup", "build"} => sample = 0
  /\ pc = "run" => docs = 0
  /\ pc \in {"collect", "done"} => sample = 0 \/ HasResult(sample)
  /\ pc = "report" /\ docs > 0 => HasResult(sample)
  /\ pc = "done" => sample = SampleCount

\* Every step keeps AllSoFar.
LEMMA NextAllSoFar == TypedInv /\ AllSoFar /\ [Next]_vars => AllSoFar'
<1>. SUFFICES ASSUME TypedInv, AllSoFar, [Next]_vars PROVE AllSoFar'
  OBVIOUS
<1>0. tool' = tool
  <2>1. CASE SetUp \/ InputMissing \/ Build \/ Built \/ BuildFailed \/ NextSample \/ Ingest
    BY <2>1 DEF SetUp, InputMissing, Build, Built, BuildFailed, NextSample, Ingest, toolVars
  <2>2. CASE Finish \/ Run \/ OutOfTries \/ Succeeded \/ Failed
    BY <2>2 DEF Finish, Run, OutOfTries, Succeeded, Failed, toolVars
  <2>3. CASE Yield \/ EndSample \/ ParseFails \/ Close \/ UNCHANGED vars
    BY <2>3 DEF Yield, EndSample, ParseFails, Close, vars, toolVars
  <2>. QED BY <2>1, <2>2, <2>3 DEF Next, Steps
<1>. SUFFICES ASSUME tool.fails # "skip", ~tool.empty PROVE AllSoFar'
  BY <1>0 DEF AllSoFar
<1>1. PolicyOK /\ ShapeOK /\ sample \in Nat /\ docs \in Nat
  BY ToolFacts, ToolShapes, SampledAssumption DEF TypedInv, SampledTypeOK
<1>2. CASE SetUp \/ InputMissing \/ Built \/ BuildFailed
  BY <1>2 DEF SetUp, InputMissing, Built, BuildFailed, Goes, toolVars, AllSoFar, HasResult
<1>3. CASE NextSample
  <2>1. sample' = sample + 1 /\ docs' = 0 /\ pc' = "run" /\ reported' = reported
        /\ pc = "collect"
    BY <1>3 DEF NextSample, Goes
  <2>2. \A n \in 1..sample : HasResult(n)
    <3>1. \A n \in 1..sample : n \in 1..(sample - 1) \/ n = sample
      BY <1>1
    <3>. QED BY <2>1, <3>1 DEF AllSoFar
  <2>. QED BY <1>1, <2>1, <2>2 DEF AllSoFar, HasResult
<1>4. CASE Ingest
  BY <1>1, <1>4 DEF Ingest, ShapeOK
<1>5. CASE Finish
  BY <1>5 DEF Finish, Goes, toolVars, AllSoFar, HasResult, SampleCount
<1>6. CASE Build \/ OutOfTries
  BY <1>6 DEF Build, OutOfTries, AllSoFar, HasResult, SampleCount
<1>7. CASE Run
  BY <1>7 DEF Run, AllSoFar, HasResult, SampleCount
<1>8. CASE Succeeded
  BY <1>8 DEF Succeeded, Goes, toolVars, AllSoFar, HasResult
<1>9. CASE Failed
  <2>1. /\ pc = "run" /\ pc' = AfterFailure /\ UNCHANGED <<tool, sample, docs, reported>>
    BY <1>9 DEF Failed, Goes, toolVars
  <2>2. AfterFailure \in {"exited", "raised", "report"}
    BY <1>1 DEF AfterFailure, PolicyOK
  <2>. QED BY <2>1, <2>2 DEF AllSoFar, HasResult
<1>10. CASE Yield
  <2>1. /\ pc = "report" /\ UNCHANGED <<tool, pc, sample>> /\ reported \subseteq reported'
    BY <1>10 DEF Yield
  <2>2. \E d \in reported' : d.sample = sample
    <3> DEFINE d == [sample |-> sample, by |-> Source, successful |-> success = "yes",
                     failures |-> Len(failed)]
    <3>1. d \in reported' /\ d.sample = sample
      BY <1>10 DEF Yield
    <3>. QED BY <3>1
  <2>. QED BY <2>1, <2>2 DEF AllSoFar, HasResult
<1>11. CASE EndSample
  <2>1. /\ pc = "report" /\ pc' = "collect" /\ docs > 0
        /\ UNCHANGED <<tool, sample, reported>>
    BY <1>1, <1>11 DEF EndSample, Goes, toolVars, ShapeOK
  <2>. QED BY <2>1 DEF AllSoFar, HasResult
<1>12. CASE ParseFails \/ Close
  BY <1>12 DEF ParseFails, Close, Goes, toolVars, AllSoFar, HasResult
<1>13. CASE UNCHANGED vars
  BY <1>13 DEF vars, AllSoFar, HasResult, SampleCount
<1>. QED BY <1>2, <1>3, <1>4, <1>5, <1>6, <1>7, <1>8, <1>9, <1>10, <1>11, <1>12, <1>13
         DEF Next, Steps

\* A tool that ends well has results of every sample, unless it is one that skips
\* failed samples or that takes a sample without results.
THEOREM NoSampleLeftOut == Spec => []DoneMeansAll
<1>1. Init => TypedInv /\ AllSoFar
  BY InitTyped, InitSampled DEF Init, TypedInv, AllSoFar
<1>2. TypedInv /\ AllSoFar /\ [Next]_vars => TypedInv' /\ AllSoFar'
  BY NextTyped, NextSampled, NextAllSoFar DEF TypedInv
<1>3. TypedInv /\ AllSoFar => DoneMeansAll
  <2> SUFFICES ASSUME TypedInv, AllSoFar, pc = "done", tool.fails # "skip", ~tool.empty,
                      NEW n \in 1..SampleCount
               PROVE  HasResult(n)
    BY DEF DoneMeansAll, HasResult
  <2>1. sample = SampleCount /\ SampleCount \in Nat
    BY SampledAssumption DEF AllSoFar, SampleCount
  <2>2. n \in 1..(sample - 1) \/ n = sample
    BY <2>1
  <2>. QED BY <2>1, <2>2 DEF AllSoFar
<1>. QED BY <1>1, <1>2, <1>3, PTL DEF Spec
=============================================================================
