---------------------------- MODULE ProcessSample ----------------------------
(***************************************************************************)
(* snafu/process.py: get_process_sample runs a command until it ends well, *)
(* retries + 1 times at most, and returns the record of its attempts       *)
(* (ProcessSample).  Processes are named by their place in ran.            *)
(***************************************************************************)
EXTENDS Naturals, Sequences, FiniteSets

\* What a process ends with: return code 0, 1 or another (or a signal), return code
\* 0 with an error in stderr, return code 0 of a pipeline whose first command failed.
Outcomes == {"zero", "one", "other", "complains", "hollow"}

VARIABLES
  ran,        \* history: for every process run, the sample it ran for and its outcome
  first,      \* history: processes run before this sample
  tries,
  failed, successful, success, attempts   \* of the ProcessSample; 0 is None

sampleVars == <<ran, first, tries, failed, successful, success, attempts>>

Runs == [sample : Nat, outcome : Outcomes]

SampleTypeOK ==
  /\ ran \in Seq(Runs) /\ first \in Nat /\ tries \in Nat
  /\ failed \in Seq(Nat) /\ successful \in Nat /\ attempts \in Nat
  /\ success \in {"none", "yes", "no"}

StartSample ==
  /\ first' = Len(ran) /\ tries' = 0
  /\ failed' = <<>> /\ successful' = 0 /\ success' = "none" /\ attempts' = 0
  /\ UNCHANGED ran

\* Variant of TriesLeft: a retry too many.
TriesLeftAndOne(retries) == tries <= retries + 1

TriesLeft(retries) == tries <= retries

\* subprocess.run, and its outcome o held against what is expected.
Attempt(sample, retries, bad, o) ==
  /\ success = "none" /\ TriesLeft(retries)
  /\ ran' = Append(ran, [sample |-> sample, outcome |-> o])
  /\ tries' = tries + 1
  /\ IF o \in bad
     THEN /\ failed' = Append(failed, Len(ran) + 1)
          /\ UNCHANGED <<successful, success, attempts>>
     ELSE /\ successful' = Len(ran) + 1 /\ success' = "yes" /\ attempts' = tries + 1
          /\ UNCHANGED failed
  /\ UNCHANGED first

\* Variant of GiveUp: the end of the loop is tested with one too many.
GiveUpLate(retries) ==
  /\ success = "none" /\ tries > retries + 1
  /\ success' = "no" /\ attempts' = tries
  /\ UNCHANGED <<ran, first, tries, failed, successful>>

\* The else branch of the loop.
GiveUp(retries) ==
  /\ success = "none" /\ ~TriesLeft(retries)
  /\ success' = "no" /\ attempts' = tries
  /\ UNCHANGED <<ran, first, tries, failed, successful>>

\* The record is that of the processes run since the sample was started, in their
\* order: all of them failed but the last of a sample that succeeded, and a sample
\* fails only after retries + 1 of them.
RecordOf(retries, bad) ==
  /\ Len(ran) = first + tries
  /\ tries <= retries + 1
  /\ Len(failed) = IF success = "yes" THEN tries - 1 ELSE tries
  /\ \A i \in 1..Len(failed) : failed[i] = first + i /\ ran[first + i].outcome \in bad
  /\ success = "yes" => successful = Len(ran) /\ ran[successful].outcome \notin bad
  /\ success = "no"  => tries = retries + 1
  /\ success # "none" => attempts = tries
=============================================================================
