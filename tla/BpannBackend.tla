---------------------------- MODULE BpannBackend ----------------------------
(***************************************************************************)
(* The in-memory state of one disk BPANN backend, and every operation that *)
(* changes it (rust/crates/bpann/src/backend.rs and backend/metric.rs).    *)
(*                                                                         *)
(* The module has no variables: a backend is a record, an operation is an  *)
(* operator on it, and an operation that may fail has an operator for the  *)
(* set of states an error return can leave behind.  FlushController runs   *)
(* these operators under its locks.                                        *)
(*                                                                         *)
(* Rows are identified with their position in train_x, so a set of rows is *)
(* a number; a diagonal metric (x_scale) is a member of Metrics.           *)
(***************************************************************************)
EXTENDS Naturals

CONSTANTS
  Metrics,        \* the diagonal metrics observations can be scaled by
  Unscaled,       \* the metric a fresh backend starts with (scale_x = false)
  SoftThreshold,  \* pending rows that make a background flush worthwhile
  HardThreshold,  \* pending rows that make the caller flush synchronously
  NLimit,         \* at most this many rows are searched through the row cache
  None            \* Option::None

\* What DiskBpannEnnBackend::new_thresholds validates, and that None is no value.
ASSUME BackendAssumption ==
  /\ Unscaled \in Metrics
  /\ SoftThreshold \in Nat \ {0}
  /\ HardThreshold \in Nat
  /\ SoftThreshold <= HardThreshold
  /\ NLimit \in Nat

-----------------------------------------------------------------------------
(* An index covers rows 0..rows-1, each placed under one of `metrics`.     *)
Index == [rows: Nat, metrics: SUBSET Metrics]

EmptyIndex == [rows |-> 0, metrics |-> {}]

(* The resident copy of the first n rows, scaled by one metric.            *)
RowCache == [n: Nat, metric: Metrics]

Backend ==
  [rows:    Nat,                      \* train_x.nrows
   index:   Index,                    \* the published IncrementalIndex
   pending: Nat,                      \* pending_unindexed
   metric:  Metrics,                  \* scale_x, x_scale
   dirty:   BOOLEAN,                  \* index_dirty
   header:  Nat \cup {None},          \* disk_rows: rows counted by index/header.json,
                                      \* None if it cannot be read
   cache:   RowCache \cup {None}]     \* small_n_x_cache

(* BpannBackend::new on a directory of n rows, i of which it could bring    *)
(* back into an index: the others are pending.                             *)
OpenBackend(n, i, m, h) ==
  [rows |-> n, index |-> [rows |-> i, metrics |-> IF i = 0 THEN {} ELSE {m}],
   pending |-> n - i, metric |-> m, dirty |-> i < n, header |-> h, cache |-> None]

(* The backends an open of n rows may leave.  The header counts no more     *)
(* rows than it brought back, if any; otherwise it may be of other rows, or *)
(* unreadable.                                                             *)
OpenBackends(n, m) ==
  UNION {{OpenBackend(n, i, m, h) : h \in IF i > 0 THEN 0 .. i ELSE (0 .. n) \cup {None}} :
           i \in 0 .. n}

-----------------------------------------------------------------------------
(* IncrementalIndex::index_through: the rows an index lacks are placed     *)
(* under the current metric; an index that covers `end` is left alone.     *)
IndexThrough(ix, end, m) ==
  IF ix.rows >= end THEN ix
  ELSE [rows |-> end, metrics |-> ix.metrics \cup {m}]

(* Mutant: stored coordinates are left as they are.                        *)
RescaleIndexKept(ix, old, new) == ix

(* IncrementalIndex::rescale multiplies stored coordinates by old/new: a   *)
(* row placed under `old` ends up under `new`, any other row does not.     *)
RescaleIndex(ix, old, new) ==
  [ix EXCEPT !.metrics = {IF m = old THEN new ELSE old : m \in ix.metrics}]

(* Mutant: the pending count is not restarted.                             *)
ResetIndexKeepsPending(b) ==
  [b EXCEPT !.index = EmptyIndex, !.dirty = TRUE]

ResetIndex(b) ==
  [b EXCEPT !.index = EmptyIndex, !.pending = b.rows, !.dirty = TRUE]

(* ensure_sync that returns Ok, whether or not it had anything to index.   *)
EnsureSync(b) ==
  [b EXCEPT !.index = IndexThrough(b.index, b.rows, b.metric), !.pending = 0]

(* ensure_sync that returns Err: the fragment was not built, or it was     *)
(* pushed and writing indexed_rows.bin or releasing pages failed.  Either  *)
(* way the pending count is not reset, except by a failing page release.   *)
EnsureSyncFailed(b) ==
  {b,
   [b EXCEPT !.index = IndexThrough(b.index, b.rows, b.metric)],
   EnsureSync(b)}

(* Mutant: an append does not mark the index dirty.                        *)
NoteRowsClean(b, n) ==
  [b EXCEPT !.rows = b.rows + n, !.pending = b.pending + n, !.cache = None]

(* append_rows up to its hard-cap test.                                    *)
NoteRows(b, n) ==
  [b EXCEPT !.rows = b.rows + n, !.pending = b.pending + n,
            !.dirty = TRUE, !.cache = None]

AppendRows(b, n) ==
  LET noted == NoteRows(b, n) IN
  IF noted.pending >= HardThreshold THEN EnsureSync(noted) ELSE noted

AppendRowsFailed(b, n) ==
  LET noted == NoteRows(b, n) IN
  IF noted.pending >= HardThreshold THEN EnsureSyncFailed(noted) ELSE {}

(* ensure_scale, when the metric it is given is not the one in force.      *)
RebuildUnder(b, m) == [ResetIndex(b) EXCEPT !.metric = m, !.cache = None]

(* Mutant: the row cache survives a metric change.                         *)
SetMetricKeepsCache(b, m, rebuild) ==
  IF m = b.metric THEN b
  ELSE IF rebuild THEN RebuildUnder(b, m)
  ELSE [b EXCEPT !.index = RescaleIndex(b.index, b.metric, m), !.metric = m, !.dirty = TRUE]

SetMetric(b, m, rebuild) ==
  IF m = b.metric THEN b
  ELSE IF rebuild THEN RebuildUnder(b, m)
  ELSE [b EXCEPT !.index = RescaleIndex(b.index, b.metric, m), !.metric = m,
                 !.cache = None, !.dirty = TRUE]

-----------------------------------------------------------------------------
(* soft_build: a detached copy of the index that covers every row, or None *)
(* when the published one already does.                                    *)
SoftBuild(b) ==
  IF b.index.rows >= b.rows THEN None
  ELSE IndexThrough(b.index, b.rows, b.metric)

(* soft_publish: the built index replaces the published one wholesale.     *)
SoftPublish(b, built) ==
  [b EXCEPT !.index = built, !.pending = 0]

-----------------------------------------------------------------------------
(* needs_rewrite can be false only for a clean index whose header counts   *)
(* every row; a second fragment or a page mismatch also forces a rewrite,  *)
(* so a clean index may still be rewritten.                                *)
MaySkipRewrite(b) == ~b.dirty /\ b.header = b.rows

PersistSkipped(b) == [b EXCEPT !.pending = 0, !.dirty = FALSE]

PersistWritten(b) ==
  [EnsureSync(b) EXCEPT !.dirty = FALSE, !.header = b.rows]

PersistIndex(b) ==
  {PersistWritten(b)} \cup (IF MaySkipRewrite(b) THEN {PersistSkipped(b)} ELSE {})

(* persist_index that returns Err: the rows may have been indexed and the  *)
(* header replaced, or truncated and left unreadable; neither `pending`    *)
(* nor `dirty` is touched.                                                 *)
PersistFailed(b) ==
  LET indexed == [b EXCEPT !.index = IndexThrough(b.index, b.rows, b.metric)] IN
  {b, indexed} \cup {[indexed EXCEPT !.header = h] : h \in {b.rows, None}}

-----------------------------------------------------------------------------
(* search: at most NLimit rows go through the row cache, which is reused   *)
(* when it holds exactly the current number of rows; more rows go through  *)
(* the index, and the rows it lacks are scanned under the current metric.  *)
UsesCache(b) == b.rows <= NLimit

CacheUsable(b) == b.cache # None /\ b.cache.n = b.rows

FillCache(b) ==
  IF b.rows > 0 /\ UsesCache(b) /\ ~CacheUsable(b)
  THEN [b EXCEPT !.cache = [n |-> b.rows, metric |-> b.metric]]
  ELSE b

(* The metrics a search ranks row r under.                                 *)
RankedUnder(b, r) ==
  IF UsesCache(b)
  THEN IF CacheUsable(b) THEN {b.cache.metric} ELSE {b.metric}
  ELSE IF r < b.index.rows THEN b.index.metrics ELSE {b.metric}

(* The row ids a search may return.                                        *)
Reachable(b) ==
  0 .. (IF ~UsesCache(b) /\ b.index.rows > b.rows THEN b.index.rows ELSE b.rows) - 1

-----------------------------------------------------------------------------
(* What holds of a backend between two operations, the part of the         *)
(* controller's inductive invariant that is about the data.                *)
IndexConsistent(b) ==
  /\ b.index.rows <= b.rows
  /\ b.index.metrics = IF b.index.rows = 0 THEN {} ELSE {b.metric}

PendingConsistent(b) ==
  /\ b.rows <= b.index.rows + b.pending
  /\ b.pending <= b.rows

CacheConsistent(b) ==
  b.cache # None => b.cache.metric = b.metric

CleanConsistent(b) ==
  b.dirty \/ b.index.rows = b.rows

Consistent(b) ==
  /\ b \in Backend
  /\ IndexConsistent(b)
  /\ PendingConsistent(b)
  /\ CacheConsistent(b)
  /\ CleanConsistent(b)
=============================================================================
