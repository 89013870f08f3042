----------------------------- MODULE DropCache -----------------------------
(***************************************************************************)
(* snafu/utils/request_cache_drop.py:drop_cache, and the privileged pods   *)
(* it asks, which are external.  The requests to the kernel cache pods are *)
(* all sent before the first response is read, so the pods drop their      *)
(* caches at the same time; the Ceph pod is asked after them.              *)
(*                                                                         *)
(* cached_connections is indexed by address: when an address is listed     *)
(* twice its second connection replaces the first, the response is read    *)
(* once, and the second read raises.                                       *)
(***************************************************************************)
EXTENDS Naturals, Sequences, FiniteSets, Functions

CONSTANTS CachePods,  \* addresses of the privileged pods of the kernel caches
          Ceph        \* the address of the one of the Ceph caches

ASSUME CephAssumption == Ceph \notin CachePods

AllCaches == CachePods \cup {Ceph}

VARIABLES
  podList,  \* kcache_drop_pod_ips, split
  hasCeph,  \* ceph_osd_cache_drop_pod_ip is set
  dropAt,   \* "idle", or the part of drop_cache that runs
  nth,      \* position in podList of the loop that runs
  conn,     \* per address: "none", "asked", "ok", "error" or "read"
  cold      \* the caches dropped since the benchmark last ran

dropVars == <<podList, hasCeph, dropAt, nth, conn, cold>>

DropTypeOK ==
  /\ podList \in Seq(CachePods)
  /\ hasCeph \in BOOLEAN
  /\ dropAt \in {"idle", "requests", "responses", "ceph", "cephResponse"}
  /\ nth \in 1..(Len(podList) + 1)
  /\ conn \in [AllCaches -> {"none", "asked", "ok", "error", "read"}]
  /\ cold \subseteq AllCaches

Asked == Range(podList) \cup (IF hasCeph THEN {Ceph} ELSE {})

\* No address is configured, or none is for the kernel caches: nothing happens there.
BeginDrop ==
  /\ dropAt = "idle"
  /\ dropAt' = IF podList # <<>> THEN "requests" ELSE "ceph"
  /\ nth' = 1
  /\ conn' = [c \in AllCaches |-> "none"]
  /\ UNCHANGED <<podList, hasCeph, cold>>

\* conn.request returns once the request is sent.
Request ==
  /\ dropAt = "requests" /\ nth <= Len(podList)
  /\ conn' = [conn EXCEPT ![podList[nth]] = "asked"]
  /\ nth' = nth + 1
  /\ UNCHANGED <<podList, hasCeph, dropAt, cold>>

AwaitResponses ==
  /\ dropAt = "requests" /\ nth > Len(podList)
  /\ dropAt' = "responses" /\ nth' = 1
  /\ UNCHANGED <<podList, hasCeph, conn, cold>>

\* Variant of Response: the status is not looked at.
ResponseUnchecked ==
  /\ dropAt = "responses" /\ nth <= Len(podList) /\ conn[podList[nth]] \in {"ok", "error"}
  /\ conn' = [conn EXCEPT ![podList[nth]] = "read"]
  /\ nth' = nth + 1
  /\ UNCHANGED <<podList, hasCeph, dropAt, cold>>

Response ==
  /\ dropAt = "responses" /\ nth <= Len(podList) /\ conn[podList[nth]] = "ok"
  /\ conn' = [conn EXCEPT ![podList[nth]] = "read"]
  /\ nth' = nth + 1
  /\ UNCHANGED <<podList, hasCeph, dropAt, cold>>

\* Every kernel cache was dropped, and cache_reload_time has passed.
KernelDropped ==
  /\ dropAt = "responses" /\ nth > Len(podList)
  /\ dropAt' = "ceph"
  /\ UNCHANGED <<podList, hasCeph, nth, conn, cold>>

RequestCeph ==
  /\ dropAt = "ceph" /\ hasCeph
  /\ dropAt' = "cephResponse"
  /\ conn' = [conn EXCEPT ![Ceph] = "asked"]
  /\ UNCHANGED <<podList, hasCeph, nth, cold>>

DropWorks == Request \/ AwaitResponses \/ Response \/ KernelDropped \/ RequestCeph

\* drop_cache returns.
DropReturns ==
  /\ \/ dropAt = "ceph" /\ ~hasCeph
     \/ dropAt = "cephResponse" /\ conn[Ceph] = "ok"
  /\ dropAt' = "idle"
  /\ UNCHANGED <<podList, hasCeph, nth, conn, cold>>

\* Variant of DropRaises: the connections have no timeout.
DropRaisesNoTimeout ==
  /\ \/ dropAt = "requests" /\ nth <= Len(podList)
     \/ dropAt = "responses" /\ nth <= Len(podList) /\ conn[podList[nth]] \in {"error", "read"}
     \/ dropAt = "ceph" /\ hasCeph
     \/ dropAt = "cephResponse" /\ conn[Ceph] = "error"
  /\ dropAt' = "idle"
  /\ UNCHANGED <<podList, hasCeph, nth, conn, cold>>

\* drop_cache raises: a connection is refused, a response is not OK, does not come
\* within http_timeout, or was read before.
DropRaises ==
  /\ \/ dropAt = "requests" /\ nth <= Len(podList)
     \/ dropAt = "responses" /\ nth <= Len(podList) /\ conn[podList[nth]] # "ok"
     \/ dropAt = "ceph" /\ hasCeph
     \/ dropAt = "cephResponse" /\ conn[Ceph] # "ok"
  /\ dropAt' = "idle"
  /\ UNCHANGED <<podList, hasCeph, nth, conn, cold>>

\* A privileged pod serves a request; it may, whether or not its caller still waits.
PodDrops(c) ==
  /\ conn[c] = "asked"
  /\ \/ conn' = [conn EXCEPT ![c] = "ok"] /\ cold' = cold \cup {c}
     \/ conn' = [conn EXCEPT ![c] = "error"] /\ UNCHANGED cold
  /\ UNCHANGED <<podList, hasCeph, dropAt, nth>>

\* The benchmark reads and writes: every cache fills.
Warm == cold' = {} /\ UNCHANGED <<podList, hasCeph, dropAt, nth, conn>>
=============================================================================
