--------------------------- MODULE ScaleOpenShift ---------------------------
(***************************************************************************)
(* snafu/scale_openshift_wrapper/trigger_scale.py: the wanted number of    *)
(* workers is spread over the worker machine sets, each is patched, its    *)
(* ready replicas are awaited, then the list of worker nodes is walked     *)
(* until none of them is unschedulable, and the nodes are counted.  The    *)
(* cluster is external: nodes join, are marked for deletion (a ready       *)
(* replica less), cordoned and removed, in steps of its own.               *)
(***************************************************************************)
EXTENDS Integers, Sequences, FiniteSets

CONSTANTS NSets,    \* worker machine sets of a cluster that has some
          Names,    \* names of nodes: the API lists them in this order
          Owner,    \* the machine set of a node; 0: none
          Infra,    \* nodes labelled infra as well as worker
          Scales    \* values of --scale

ASSUME ScaleAssumption ==
  /\ NSets \in Nat \ {0} /\ Names \subseteq Int /\ IsFiniteSet(Names)
  /\ Owner \in [Names -> 0..NSets] /\ Infra \subseteq {n \in Names : Owner[n] = 0}
  /\ Scales \subseteq Nat

VARIABLES
  scale, is_rosa,
  nsets,         \* length of machineset_worker_list
  node,          \* the state of each node
  replicas,      \* spec.replicas of the machine sets
  scaleAt,       \* "start", "patch", "wait", "list", "walk", "count", or how it ended
  idx,           \* i of the loop it is in
  machine_spread,
  node_list,     \* new_worker_list
  walk,          \* the range of the walk: the length of the first list
  draining,      \* the unschedulable nodes of the first list
  report

scaleVars == <<scale, is_rosa, nsets, node, replicas, scaleAt, idx, machine_spread,
               node_list, walk, draining, report>>
arguments == <<scale, is_rosa, nsets>>

ScaleOver == {"ok", "exited", "raised"}
NoReport  == [action |-> "none"]

\* The nodes there are, and those of them a machine set counts as ready.
Nodes    == {n \in Names : node[n] # "absent"}
Ready(m) == Cardinality({n \in Names : Owner[n] = m /\ node[n] = "ready"})

ScaleTypeOK ==
  /\ scale \in Scales /\ is_rosa \in BOOLEAN /\ nsets \in {0, NSets}
  /\ node \in [Names -> {"absent", "ready", "deleting", "cordoned"}]
  /\ replicas \in [1..NSets -> Nat] /\ machine_spread \in [1..NSets -> Nat]
  /\ scaleAt \in {"start", "patch", "wait", "list", "walk"} \cup ScaleOver
  /\ idx \in Nat /\ walk \in 0..Cardinality(Names)
  /\ node_list \in Seq([name : Names, unschedulable : BOOLEAN]) /\ draining \subseteq Names

\* A cluster at rest: infra nodes, and as many workers as the machine sets want.
ScaleInit ==
  /\ scale \in Scales /\ is_rosa \in BOOLEAN /\ nsets \in {0, NSets}
  /\ \E there \in SUBSET Names :
        /\ Infra \subseteq there
        /\ node = [n \in Names |-> IF n \in there THEN "ready" ELSE "absent"]
        /\ replicas = [m \in 1..NSets |-> Cardinality({n \in there : Owner[n] = m})]
  /\ scaleAt = "start" /\ idx = 1 /\ machine_spread = [m \in 1..NSets |-> 0]
  /\ node_list = <<>> /\ walk = 0 /\ draining = {} /\ report = NoReport

\* Variant of Spread: what does not divide is dropped.
SpreadEven == [m \in 1..NSets |-> scale \div NSets]

\* add_per for every machine set, and one more for the first `extra` of them.
Spread == [m \in 1..NSets |-> scale \div NSets + (IF m <= scale % NSets THEN 1 ELSE 0)]

Count(init, action) ==
  [action |-> action, init |-> init, infra |-> Cardinality(Infra),
   \* the first count leaves infra nodes out, the last one does not
   worker |-> IF action = "scale_nochange" THEN init ELSE Cardinality(Nodes)]

\* Nothing to do; or no worker machine set, and a division by zero; or the spread.
ScaleStart ==
  /\ scaleAt = "start"
  /\ LET workers == Cardinality(Nodes \ Infra) IN
       CASE workers = scale ->
              scaleAt' = "ok" /\ report' = Count(workers, "scale_nochange")
              /\ UNCHANGED machine_spread
         [] workers # scale /\ nsets = 0 ->
              scaleAt' = "raised" /\ UNCHANGED <<report, machine_spread>>
         [] OTHER ->
              /\ scaleAt' = "patch" /\ machine_spread' = Spread
              /\ report' = [action |-> IF workers > scale THEN "scale_down" ELSE "scale_up",
                            init |-> workers]
  /\ UNCHANGED <<arguments, node, replicas, idx, node_list, walk, draining>>

\* One machine set is patched.
Patch ==
  /\ scaleAt = "patch" /\ ~is_rosa
  /\ replicas' = [replicas EXCEPT ![idx] = machine_spread[idx]]
  /\ IF idx < nsets THEN idx' = idx + 1 /\ UNCHANGED scaleAt
                    ELSE idx' = 1 /\ scaleAt' = "wait"
  /\ UNCHANGED <<arguments, node, machine_spread, node_list, walk, draining, report>>

\* On ROSA the machine pool is edited, with a zone for each machine set; the number
\* must be a multiple of the zones.
RosaScale ==
  /\ scaleAt = "patch" /\ is_rosa
  /\ IF scale % nsets # 0
       THEN scaleAt' = "exited" /\ UNCHANGED replicas
       ELSE \/ scaleAt' = "exited" /\ UNCHANGED replicas
            \/ scaleAt' = "wait" /\ replicas' = [m \in 1..NSets |-> scale \div nsets]
  /\ UNCHANGED <<arguments, node, idx, machine_spread, node_list, walk, draining, report>>

\* The next machine set has its ready replicas (none are shown when there are 0); until
\* then it is fetched again and again.
SetReady ==
  /\ scaleAt = "wait" /\ Ready(idx) = machine_spread[idx]
  /\ IF idx < nsets THEN idx' = idx + 1 /\ UNCHANGED scaleAt
                    ELSE idx' = 1 /\ scaleAt' = "list"
  /\ UNCHANGED <<arguments, node, replicas, machine_spread, node_list, walk, draining, report>>

\* What nodes.get returns, in the order of the names.
Listed == [k \in 1..Cardinality(Nodes) |->
             LET n == CHOOSE n \in Nodes : Cardinality({m \in Nodes : m <= n}) = k
             IN  [name |-> n, unschedulable |-> node[n] = "cordoned"]]

FirstList ==
  /\ scaleAt = "list"
  /\ node_list' = Listed /\ walk' = Cardinality(Nodes)
  /\ draining' = {n \in Names : node[n] = "cordoned"}
  /\ scaleAt' = "walk"
  /\ UNCHANGED <<arguments, node, replicas, idx, machine_spread, report>>

Waits(i) == i <= Len(node_list) /\ node_list[i].unschedulable

\* The node at i is unschedulable: the list is fetched again, i stays.
Refetch ==
  /\ scaleAt = "walk" /\ idx <= walk /\ Waits(idx)
  /\ node_list' = Listed
  /\ UNCHANGED <<arguments, node, replicas, scaleAt, idx, machine_spread, walk, draining, report>>

NextNode ==
  /\ scaleAt = "walk" /\ idx <= walk /\ ~Waits(idx)
  /\ idx' = idx + 1
  /\ UNCHANGED <<arguments, node, replicas, scaleAt, machine_spread, node_list, walk, draining, report>>

\* The workers are counted again, and the document is yielded.
CountAgain ==
  /\ scaleAt = "walk" /\ idx > walk
  /\ report' = Count(report.init, report.action)
  /\ scaleAt' = "ok"
  /\ UNCHANGED <<arguments, node, replicas, idx, machine_spread, node_list, walk, draining>>

\* The client, the nodes or the machine sets cannot be had: exit(1).  Any other call of
\* the cluster that fails raises.
ScaleCallFails ==
  /\ scaleAt \notin ScaleOver
  /\ scaleAt' \in (IF scaleAt = "start" THEN {"exited", "raised"} ELSE {"raised"})
  /\ UNCHANGED <<arguments, node, replicas, idx, machine_spread, node_list, walk, draining, report>>

ScaleSteps ==
  \/ ScaleStart \/ Patch \/ RosaScale \/ SetReady \/ FirstList \/ Refetch \/ NextNode \/ CountAgain

\* The cluster brings the nodes of a machine set to its replicas.
Becomes(from, to, n) == node[n] = from /\ node' = [node EXCEPT ![n] = to]

Join(n)   == /\ Owner[n] # 0 /\ Ready(Owner[n]) < replicas[Owner[n]]
             /\ Becomes("absent", "ready", n)
Delete(n) == /\ Owner[n] # 0 /\ Ready(Owner[n]) > replicas[Owner[n]]
             /\ Becomes("ready", "deleting", n)
Cordon(n) == Becomes("deleting", "cordoned", n)
Gone(n)   == Becomes("cordoned", "absent", n)

Machines ==
  /\ \E n \in Names : Join(n) \/ Delete(n) \/ Cordon(n) \/ Gone(n)
  /\ UNCHANGED <<arguments, replicas, scaleAt, idx, machine_spread, node_list, walk, draining, report>>

ScaleNext == ScaleSteps \/ ScaleCallFails \/ Machines
-----------------------------------------------------------------------------
\* When the workers are counted, the machine sets have as many ready nodes as were asked
\* for in sum, however the number divides and whatever is still on its way out; so the
\* document of a scaling never tells fewer workers than were asked for.
ScaleHonest ==
  /\ scaleAt = "walk" /\ idx > walk =>
       Cardinality({n \in Nodes : Owner[n] # 0 /\ node[n] = "ready"}) = scale
  /\ scaleAt = "ok" /\ report.action # "scale_nochange" =>
       report.worker >= scale + Cardinality(Infra)

\* Each variable has a value the code can give it, and ScaleHonest.
ScaleInv == ScaleTypeOK /\ ScaleHonest

\* "Ensure all workers are not listed as unschedulable. If we don't do this it will
\* auto-complete a scale-down even though the workers have not been eliminated yet"
\* (trigger_scale.py:302): none that was unschedulable when the walk began is left when
\* the workers are counted.
DrainedBeforeCount ==
  scaleAt = "walk" /\ idx > walk => draining \cap Nodes = {}

\* The wrapper ends when the cluster brings its machine sets to what they want: no
\* other call needs to fail for that.
ScaleEnds == <>(scaleAt \in ScaleOver)
=============================================================================
