--------------------------- MODULE SystemdAnalyze ---------------------------
(***************************************************************************)
(* snafu/benchmarks/systemd_analyze: the configuration of the host, one    *)
(* document with the times of the boot, and one per line that              *)
(* "systemd-analyze blame" prints.  Services are named by their line.      *)
(***************************************************************************)
EXTENDS Integers, Sequences

CONSTANTS Durations,    \* times of services, in milliseconds
          Services      \* most lines of the output

ASSUME BlameAssumption == Durations \subseteq Nat \ {0} /\ Services \in Nat

\* What lscpu and the environment may not have.
Facts  == {"Model name", "CPU(s)", "CPU max MHz", "clustername"}
Unset  == -1       \* a name that is not bound, a part of a time that is not shown
NoPoint == [name |-> 0, time |-> Unset]

VARIABLES
  known,     \* the facts that are there
  boot,      \* the time of each service, the longest first
  blameAt,   \* "setup", "time", "blame", "points", "ok" or "raised"
  line,      \* the line of the output that is read
  etime, point,
  blame_list,
  yielded    \* blame data points that were yielded

blameVars == <<known, boot, blameAt, line, etime, point, blame_list, yielded>>

BlameOver == {"ok", "raised"}

BlameInit ==
  /\ known \in SUBSET Facts
  /\ boot \in UNION {[1..n -> Durations] : n \in 0..Services}
  /\ \A i \in 1..(Len(boot) - 1) : boot[i] >= boot[i + 1]
  /\ blameAt = "setup" /\ line = 1 /\ etime = Unset /\ point = NoPoint
  /\ blame_list = <<>> /\ yielded = <<>>

\* How systemd writes a time: hours, which none of the three expressions finds, minutes
\* unless there are none, then seconds with decimals, or milliseconds, or whole seconds,
\* which none of them finds either.
Hour == 3600000
Minutes(t)  == IF t % Hour >= 60000 THEN (t % Hour) \div 60000 ELSE Unset
Seconds(t)  == IF t % 60000 > 1000 /\ t % 1000 # 0 THEN t % 60000 ELSE Unset
Millisec(t) == IF t % 60000 \in 1..999 THEN t % 60000 ELSE Unset

\* A fact that is missing leaves a name unbound; so does a cluster without a name.
Setup ==
  /\ blameAt = "setup"
  /\ blameAt' = IF known = Facts THEN "time" ELSE "raised"
  /\ UNCHANGED <<known, boot, line, etime, point, blame_list, yielded>>

\* The summary: each of the five times, or "" when it is not in the output.
CollectTime ==
  /\ blameAt = "time"
  /\ blameAt' = "blame"
  /\ UNCHANGED <<known, boot, line, etime, point, blame_list, yielded>>

\* The time that is found in a line, or the one that stood there before.
EtimeOf(t, minutes) ==
  CASE Seconds(t) # Unset -> Seconds(t) + (IF minutes = Unset THEN 0 ELSE minutes * 60000)
    [] Seconds(t) = Unset /\ Millisec(t) # Unset -> Millisec(t)
    [] OTHER -> etime

\* Variant of Etime: the minutes are lost.
EtimeSeconds(t) == EtimeOf(t, Unset)

Etime(t) == EtimeOf(t, Minutes(t))

\* One turn of the loop.  The line after the last is empty and names no service: the data
\* point is the one of the line before.
HasService == line <= Len(boot)

BlameLine ==
  /\ blameAt = "blame" /\ line <= Len(boot) + 1
  /\ line' = line + 1
  /\ etime' = IF HasService THEN Etime(boot[line]) ELSE etime
  /\ point' = IF HasService THEN [name |-> line, time |-> etime'] ELSE point
  /\ IF point'.time = Unset
     THEN blameAt' = "raised" /\ UNCHANGED blame_list
     ELSE blame_list' = Append(blame_list, point') /\ UNCHANGED blameAt
  /\ UNCHANGED <<known, boot, yielded>>

EndOfBlame ==
  /\ blameAt = "blame" /\ line > Len(boot) + 1
  /\ blameAt' = "points"
  /\ UNCHANGED <<known, boot, line, etime, point, blame_list, yielded>>

YieldPoint ==
  /\ blameAt = "points"
  /\ IF Len(yielded) < Len(blame_list)
     THEN yielded' = Append(yielded, blame_list[Len(yielded) + 1]) /\ UNCHANGED blameAt
     ELSE blameAt' = "ok" /\ UNCHANGED yielded
  /\ UNCHANGED <<known, boot, line, etime, point, blame_list>>

BlameNext == Setup \/ CollectTime \/ BlameLine \/ EndOfBlame \/ YieldPoint
-----------------------------------------------------------------------------
\* A time that is read whole: less than an hour with decimals, or less than a second.
Readable(t) == t < 1000 \/ (t < Hour /\ Seconds(t) # Unset)

\* One of the expressions finds a part of the time.
Matched(t) == Seconds(t) # Unset \/ Millisec(t) # Unset

\* What is told of a service that took t, after one of which before was told: t when it can
\* be read; else t without its hours, or without hours and minutes; and when nothing of t
\* is found, what was told before.
Told(t, time, before) ==
  IF Readable(t) THEN time = t
  ELSE IF Matched(t) THEN time \in {t % Hour, t % 60000}
  ELSE before # Unset /\ time = before

\* Every service is reported, in order, and the last one twice.  The time is its own when
\* its line can be read; when it cannot, it lacks whole hours or minutes, or is that of the
\* service before: never that of a later service, and never one made of the parts of two.
BlameOfItsLine ==
  blameAt = "ok" =>
    /\ Len(yielded) = Len(boot) + 1
    /\ \A i \in 1..Len(yielded) :
         LET n == IF i <= Len(boot) THEN i ELSE Len(boot) IN
         /\ yielded[i].name = n
         /\ Told(boot[n], yielded[i].time, IF n > 1 THEN yielded[n - 1].time ELSE Unset)
=============================================================================
