---------------------------- MODULE DurableBackend ----------------------------
(***************************************************************************)
(* What a disk backend promises its caller across operations, errors and   *)
(* restarts: an operation returns one of the states BpannBackend lists for *)
(* it, and a restart loses no row that was acknowledged and opens a        *)
(* backend as OpenBackends has it.  BpannStore is shown to implement this. *)
(***************************************************************************)
EXTENDS BpannBackend

CONSTANTS MaxBatch

VARIABLES
  db,     \* the backend, or None while no process runs
  acked   \* the rows the last operation to return left in it

durableVars == <<db, acked>>

Init == db = None /\ acked = 0

(* The rows of an append that was cut short may appear.  FlushController   *)
(* starts with the backends an open may leave.                             *)
Open ==
  /\ db = None
  /\ db' # None /\ db'.rows >= acked
  /\ \E m \in Metrics : db' \in OpenBackends(db'.rows, m)

Appends(b)  == UNION {{AppendRows(b, n)} \cup AppendRowsFailed(b, n) : n \in 1 .. MaxBatch}
Syncs(b)    == {EnsureSync(b)} \cup EnsureSyncFailed(b)
Persists(b) == PersistIndex(b) \cup PersistFailed(b)
Metrified(b) == {SetMetric(b, m, rebuild) : m \in Metrics, rebuild \in BOOLEAN}
Scales(b)   == UNION {Syncs(RebuildUnder(b, m)) : m \in Metrics}
Publishes(b) == IF SoftBuild(b) = None THEN {} ELSE {SoftPublish(b, SoftBuild(b))}

(* One operation, which may have failed.                                   *)
Operate ==
  /\ db # None
  /\ db' \in Appends(db) \cup Syncs(db) \cup Persists(db) \cup Metrified(db)
               \cup Scales(db) \cup Publishes(db)

Crash ==
  /\ db # None
  /\ db' = None
  /\ UNCHANGED acked

Next ==
  \/ (Open \/ Operate) /\ acked' = db'.rows
  \/ Crash

Spec == Init /\ [][Next]_durableVars
=============================================================================
