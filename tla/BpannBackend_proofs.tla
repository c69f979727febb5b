------------------------- MODULE BpannBackend_proofs -------------------------
(***************************************************************************)
(* Every operation of a backend keeps it consistent.  The controller's     *)
(* proof cites these lemmas instead of opening the operators.              *)
(***************************************************************************)
EXTENDS BpannBackend, TLAPS

(* A backend that was just opened is consistent.                           *)
LEMMA OpenConsistent ==
  ASSUME NEW n \in Nat, NEW i \in 0 .. n, NEW m \in Metrics, NEW h \in Nat \cup {None}
  PROVE  Consistent(OpenBackend(n, i, m, h))
  <1> DEFINE ix == [rows |-> i, metrics |-> IF i = 0 THEN {} ELSE {m}]
             b == OpenBackend(n, i, m, h)
  <1>1. /\ ix \in Index
        /\ ix.rows = i
        /\ ix.metrics = IF i = 0 THEN {} ELSE {m}
    BY DEF Index
  <1>2. n - i \in Nat /\ i \in Nat /\ i <= n
    OBVIOUS
  <1>3. /\ b.rows = n
        /\ b.index = ix
        /\ b.pending = n - i
        /\ b.metric = m
        /\ b.dirty = (i < n)
        /\ b.header = h
        /\ b.cache = None
    BY DEF OpenBackend
  <1>4. b \in Backend
    <2> HIDE DEF ix
    <2>1. b = [rows |-> n, index |-> ix, pending |-> n - i, metric |-> m,
               dirty |-> i < n, header |-> h, cache |-> None]
      BY DEF OpenBackend, ix
    <2>2. (i < n) \in BOOLEAN
      OBVIOUS
    <2> QED BY <1>1, <1>2, <2>1, <2>2 DEF Backend
  <1> HIDE DEF ix, b
  <1>5. IndexConsistent(b) /\ PendingConsistent(b)
    BY <1>1, <1>2, <1>3 DEF IndexConsistent, PendingConsistent
  <1>6. CacheConsistent(b) /\ CleanConsistent(b)
    <2>1. CacheConsistent(b)
      BY <1>3 DEF CacheConsistent
    <2>2. b.dirty \/ ~(i < n)
      BY <1>3
    <2>3. i < n \/ i = n
      BY <1>2
    <2>4. CleanConsistent(b)
      BY <1>1, <1>3, <2>2, <2>3 DEF CleanConsistent
    <2> QED BY <2>1, <2>4
  <1>7. Consistent(b)
    BY <1>4, <1>5, <1>6 DEF Consistent
  <1> QED BY <1>7 DEF b

(* So is every backend an open may leave, and nothing of it is cached.     *)
LEMMA OpenedConsistent ==
  ASSUME NEW n \in Nat, NEW m \in Metrics, NEW b \in OpenBackends(n, m)
  PROVE  /\ Consistent(b)
         /\ b.rows = n /\ b.metric = m /\ b.cache = None
  <1>1. PICK i \in 0 .. n :
          b \in {OpenBackend(n, i, m, h) : h \in IF i > 0 THEN 0 .. i ELSE (0 .. n) \cup {None}}
    BY DEF OpenBackends
  <1>2. PICK h \in Nat \cup {None} : b = OpenBackend(n, i, m, h)
    BY <1>1
  <1>3. Consistent(b)
    BY <1>2, OpenConsistent
  <1> QED BY <1>2, <1>3 DEF OpenBackend

(* A consistent backend, field by field.                                   *)
LEMMA Fields ==
  ASSUME NEW b, Consistent(b)
  PROVE  /\ b.rows \in Nat /\ b.index \in Index /\ b.pending \in Nat
         /\ b.metric \in Metrics /\ b.dirty \in BOOLEAN
         /\ b.header \in Nat \cup {None}
         /\ b.cache \in RowCache \cup {None}
         /\ b.index.rows \in Nat /\ b.index.rows <= b.rows
         /\ b.index.metrics = IF b.index.rows = 0 THEN {} ELSE {b.metric}
         /\ b.rows <= b.index.rows + b.pending
         /\ b.pending <= b.rows
         /\ b.cache # None => b.cache.metric = b.metric
         /\ b.dirty \/ b.index.rows = b.rows
  BY DEF Consistent, Backend, Index, IndexConsistent, PendingConsistent,
         CacheConsistent, CleanConsistent

(* Indexing the rows an index lacks makes it cover all of them, each under *)
(* the metric in force.                                                    *)
LEMMA IndexThroughCovers ==
  ASSUME NEW b, Consistent(b)
  PROVE  LET ix == IndexThrough(b.index, b.rows, b.metric) IN
         /\ ix \in Index
         /\ ix.rows = b.rows
         /\ ix.metrics = IF b.rows = 0 THEN {} ELSE {b.metric}
  BY DEF Consistent, Backend, Index, IndexThrough, IndexConsistent

(* A detached build covers every row under the metric in force.            *)
LEMMA SoftBuildCurrent ==
  ASSUME NEW b, Consistent(b), None \notin Index, SoftBuild(b) # None
  PROVE  /\ b.rows # 0
         /\ SoftBuild(b) \in Index
         /\ SoftBuild(b) = [rows |-> b.rows, metrics |-> {b.metric}]
  BY DEF Consistent, Backend, Index, IndexThrough, IndexConsistent, SoftBuild

(* What publishing needs of the built index: it is current.                *)
LEMMA PublishConsistent ==
  ASSUME NEW b, Consistent(b), b.rows # 0,
         NEW ix, ix = [rows |-> b.rows, metrics |-> {b.metric}]
  PROVE  /\ Consistent(SoftPublish(b, ix))
         /\ SoftPublish(b, ix).rows = b.rows
         /\ SoftPublish(b, ix).metric = b.metric
  <1> DEFINE x == SoftPublish(b, ix)
  <1>0. b.rows \in Nat /\ b.metric \in Metrics
    BY Fields
  <1>1. /\ ix \in Index /\ ix.rows = b.rows
        /\ ix.metrics = {b.metric}
    BY <1>0 DEF Index
  <1>2. b \in Backend
    BY DEF Consistent
  <1>3. /\ x \in Backend
        /\ x.rows = b.rows
        /\ x.index = ix
        /\ x.pending = 0
        /\ x.metric = b.metric
        /\ x.dirty = b.dirty
        /\ x.header = b.header
        /\ x.cache = b.cache
    BY <1>1, <1>2 DEF SoftPublish, Backend
  <1> HIDE DEF x
  <1>4. IndexConsistent(x)
    BY <1>0, <1>1, <1>3 DEF IndexConsistent
  <1>5. PendingConsistent(x)
    BY <1>0, <1>1, <1>3 DEF PendingConsistent
  <1>6. CacheConsistent(x) /\ CleanConsistent(x)
    BY <1>1, <1>3, Fields DEF CacheConsistent, CleanConsistent
  <1>7. Consistent(x)
    BY <1>3, <1>4, <1>5, <1>6 DEF Consistent
  <1> QED BY <1>3, <1>7 DEF x

(* An index may replace the published one while pending stays: the count   *)
(* then overstates the backlog.                                            *)
LEMMA IndexedConsistent ==
  ASSUME NEW b, Consistent(b)
  PROVE  LET c == [b EXCEPT !.index = IndexThrough(b.index, b.rows, b.metric)] IN
         /\ Consistent(c)
         /\ c.rows = b.rows
         /\ c.metric = b.metric
         /\ c.index.rows = b.rows
  <1> DEFINE ix == IndexThrough(b.index, b.rows, b.metric)
             x == [b EXCEPT !.index = ix]
  <1>1. /\ ix \in Index
        /\ ix.rows = b.rows
        /\ ix.metrics = IF b.rows = 0 THEN {} ELSE {b.metric}
    BY IndexThroughCovers
  <1>2. b \in Backend
    BY DEF Consistent
  <1> HIDE DEF ix
  <1>3. /\ x \in Backend
        /\ x.rows = b.rows
        /\ x.index = ix
        /\ x.pending = b.pending
        /\ x.metric = b.metric
        /\ x.dirty = b.dirty
        /\ x.header = b.header
        /\ x.cache = b.cache
    BY <1>1, <1>2 DEF Backend
  <1> HIDE DEF x
  <1>4. Consistent(x)
    <2>0. /\ b.rows \in Nat /\ b.index.rows \in Nat /\ b.pending \in Nat
          /\ b.index.rows <= b.rows
          /\ b.rows <= b.index.rows + b.pending
          /\ b.pending <= b.rows
          /\ b.index.metrics = IF b.index.rows = 0 THEN {} ELSE {b.metric}
      BY Fields
    <2>1. IndexConsistent(x) BY <1>1, <1>3, <2>0 DEF IndexConsistent
    <2>2. PendingConsistent(x) BY <1>1, <1>3, <2>0 DEF PendingConsistent
    <2>3. CacheConsistent(x) BY <1>1, <1>3, Fields DEF CacheConsistent
    <2>4. CleanConsistent(x) BY <1>1, <1>3, Fields DEF CleanConsistent
    <2> QED BY <1>3, <2>1, <2>2, <2>3, <2>4 DEF Consistent
  <1> QED BY <1>1, <1>3, <1>4 DEF x, ix

(* A sync that succeeds keeps a backend consistent.                        *)
LEMMA EnsureSyncConsistent ==
  ASSUME NEW b, Consistent(b)
  PROVE  /\ Consistent(EnsureSync(b))
         /\ EnsureSync(b).rows = b.rows
         /\ EnsureSync(b).metric = b.metric
         /\ EnsureSync(b).index.rows = b.rows
  <1> DEFINE ix == IndexThrough(b.index, b.rows, b.metric)
             x == EnsureSync(b)
  <1>1. /\ ix \in Index
        /\ ix.rows = b.rows
        /\ ix.metrics = IF b.rows = 0 THEN {} ELSE {b.metric}
    BY IndexThroughCovers
  <1>2. b \in Backend /\ x = [b EXCEPT !.index = ix, !.pending = 0]
    BY DEF Consistent, EnsureSync
  <1> HIDE DEF ix, x
  <1>3. /\ x \in Backend
        /\ x.rows = b.rows
        /\ x.index = ix
        /\ x.pending = 0
        /\ x.metric = b.metric
        /\ x.dirty = b.dirty
        /\ x.header = b.header
        /\ x.cache = b.cache
    BY <1>1, <1>2 DEF Backend
  <1>4. Consistent(x)
    <2>0. /\ b.rows \in Nat /\ b.index.rows \in Nat /\ b.pending \in Nat
          /\ b.index.rows <= b.rows
          /\ b.rows <= b.index.rows + b.pending
          /\ b.pending <= b.rows
          /\ b.index.metrics = IF b.index.rows = 0 THEN {} ELSE {b.metric}
      BY Fields
    <2>1. IndexConsistent(x) BY <1>1, <1>3, <2>0 DEF IndexConsistent
    <2>2. PendingConsistent(x) BY <1>1, <1>3, <2>0 DEF PendingConsistent
    <2>3. CacheConsistent(x) BY <1>1, <1>3, Fields DEF CacheConsistent
    <2>4. CleanConsistent(x) BY <1>1, <1>3, Fields DEF CleanConsistent
    <2> QED BY <1>3, <2>1, <2>2, <2>3, <2>4 DEF Consistent
  <1> QED BY <1>1, <1>3, <1>4 DEF x

(* So does one that fails, at whichever of its steps.                      *)
LEMMA EnsureSyncFailedConsistent ==
  ASSUME NEW b, Consistent(b), NEW c \in EnsureSyncFailed(b)
  PROVE  Consistent(c) /\ c.rows = b.rows /\ c.metric = b.metric
  BY IndexedConsistent, EnsureSyncConsistent DEF EnsureSyncFailed

(* The part of append_rows before its hard-cap test.                       *)
LEMMA NoteRowsConsistent ==
  ASSUME NEW b, Consistent(b), NEW n \in Nat
  PROVE  /\ Consistent(NoteRows(b, n))
         /\ NoteRows(b, n).rows = b.rows + n
         /\ NoteRows(b, n).metric = b.metric
  <1> DEFINE x == NoteRows(b, n)
  <1>0. b \in Backend /\ b.rows \in Nat /\ b.pending \in Nat
    BY Fields DEF Consistent
  <1>1. b \in Backend /\ b.rows + n \in Nat /\ b.pending + n \in Nat
    BY <1>0
  <1>2. /\ x \in Backend
        /\ x.rows = b.rows + n
        /\ x.index = b.index
        /\ x.pending = b.pending + n
        /\ x.metric = b.metric
        /\ x.dirty = TRUE
        /\ x.header = b.header
        /\ x.cache = None
    BY <1>1 DEF NoteRows, Backend
  <1> HIDE DEF x
  <1>3. Consistent(x)
    <2>0. /\ b.rows \in Nat /\ b.index.rows \in Nat /\ b.pending \in Nat
          /\ b.index.rows <= b.rows
          /\ b.rows <= b.index.rows + b.pending
          /\ b.pending <= b.rows
          /\ b.index.metrics = IF b.index.rows = 0 THEN {} ELSE {b.metric}
      BY Fields
    <2>1. IndexConsistent(x) BY <1>2, <2>0 DEF IndexConsistent
    <2>2. PendingConsistent(x) BY <1>2, <2>0 DEF PendingConsistent
    <2>3. CacheConsistent(x) BY <1>2, Fields DEF CacheConsistent
    <2>4. CleanConsistent(x) BY <1>2, Fields DEF CleanConsistent
    <2> QED BY <1>2, <2>1, <2>2, <2>3, <2>4 DEF Consistent
  <1> QED BY <1>2, <1>3 DEF x

(* An append, whether or not its synchronous flush fails, adds its rows.   *)
LEMMA AppendConsistent ==
  ASSUME NEW b, Consistent(b), NEW n \in Nat,
         NEW c \in {AppendRows(b, n)} \cup AppendRowsFailed(b, n)
  PROVE  Consistent(c) /\ c.rows = b.rows + n /\ c.metric = b.metric
  BY NoteRowsConsistent, EnsureSyncConsistent, EnsureSyncFailedConsistent
  DEF AppendRows, AppendRowsFailed

(* A rebuild starts from an empty index: every row is pending.             *)
LEMMA RebuildConsistent ==
  ASSUME NEW b, Consistent(b), NEW m \in Metrics
  PROVE  /\ Consistent(RebuildUnder(b, m))
         /\ RebuildUnder(b, m).rows = b.rows
         /\ RebuildUnder(b, m).metric = m
  <1> DEFINE x == RebuildUnder(b, m)
  <1>1. b \in Backend
    BY DEF Consistent
  <1>2. EmptyIndex \in Index /\ EmptyIndex.rows = 0 /\ EmptyIndex.metrics = {}
    BY DEF EmptyIndex, Index
  <1>3. /\ x \in Backend
        /\ x.rows = b.rows
        /\ x.index = EmptyIndex
        /\ x.pending = b.rows
        /\ x.metric = m
        /\ x.dirty = TRUE
        /\ x.header = b.header
        /\ x.cache = None
    BY <1>1, <1>2 DEF RebuildUnder, ResetIndex, Backend
  <1> HIDE DEF x
  <1>4. Consistent(x)
    BY <1>2, <1>3, Fields DEF Consistent, IndexConsistent, PendingConsistent,
       CacheConsistent, CleanConsistent
  <1> QED BY <1>3, <1>4 DEF x

(* set_metric, by rescaling or by a rebuild.                               *)
LEMMA SetMetricConsistent ==
  ASSUME NEW b, Consistent(b), NEW m \in Metrics, NEW rebuild \in BOOLEAN
  PROVE  /\ Consistent(SetMetric(b, m, rebuild))
         /\ SetMetric(b, m, rebuild).rows = b.rows
         /\ SetMetric(b, m, rebuild).metric = m
  <1> DEFINE x == SetMetric(b, m, rebuild)
  <1>1. b \in Backend
    BY DEF Consistent
  <1>2. CASE m = b.metric
    BY <1>2 DEF SetMetric
  <1>3. CASE m # b.metric /\ rebuild
    BY <1>3, RebuildConsistent DEF SetMetric
  <1>4. CASE m # b.metric /\ ~rebuild
    <2> DEFINE ix == RescaleIndex(b.index, b.metric, m)
    <2>1. /\ ix \in Index
          /\ ix.rows = b.index.rows
          /\ ix.metrics = IF b.index.rows = 0 THEN {} ELSE {m}
      BY <1>4, Fields DEF RescaleIndex, Index
    <2> HIDE DEF ix
    <2>2. /\ x \in Backend
          /\ x.rows = b.rows
          /\ x.index = ix
          /\ x.pending = b.pending
          /\ x.metric = m
          /\ x.dirty = TRUE
          /\ x.header = b.header
          /\ x.cache = None
      BY <1>1, <1>4, <2>1 DEF SetMetric, Backend, ix
    <2> HIDE DEF x
    <2>3. Consistent(x)
      BY <2>1, <2>2, Fields DEF Consistent, IndexConsistent, PendingConsistent,
         CacheConsistent, CleanConsistent
    <2> QED BY <2>2, <2>3 DEF x
  <1> QED BY <1>2, <1>3, <1>4

(* Once every row is indexed the header may be rewritten, before or        *)
(* together with the dirty flag being cleared.                             *)
LEMMA HeaderConsistent ==
  ASSUME NEW b, Consistent(b), b.index.rows = b.rows,
         NEW h \in Nat \cup {None},
         NEW x \in {[b EXCEPT !.header = h], [b EXCEPT !.dirty = FALSE, !.header = h]}
  PROVE  Consistent(x) /\ x.rows = b.rows /\ x.metric = b.metric
  <1>1. b \in Backend
    BY DEF Consistent
  <1>2. /\ x \in Backend
        /\ x.rows = b.rows
        /\ x.index = b.index
        /\ x.pending = b.pending
        /\ x.metric = b.metric
        /\ x.dirty \in BOOLEAN
        /\ x.header = h
        /\ x.cache = b.cache
    BY <1>1 DEF Backend
  <1>3. Consistent(x)
    BY <1>2, Fields DEF Consistent, IndexConsistent, PendingConsistent,
         CacheConsistent, CleanConsistent
  <1> QED BY <1>2, <1>3

(* persist_index, skipped, written or failed.                              *)
LEMMA PersistConsistent ==
  ASSUME NEW b, Consistent(b), NEW c \in PersistIndex(b) \cup PersistFailed(b)
  PROVE  Consistent(c) /\ c.rows = b.rows /\ c.metric = b.metric
  <1>1. CASE c = PersistWritten(b)
    <2> DEFINE s == EnsureSync(b)
    <2>1. /\ Consistent(s) /\ s.rows = b.rows /\ s.metric = b.metric
          /\ s.index.rows = b.rows
      BY EnsureSyncConsistent
    <2>2. c = [s EXCEPT !.dirty = FALSE, !.header = b.rows]
      BY <1>1 DEF PersistWritten
    <2>3. b.rows \in Nat \cup {None}
      BY Fields
    <2> HIDE DEF s
    <2> QED BY <2>1, <2>2, <2>3, HeaderConsistent
  <1>2. CASE MaySkipRewrite(b) /\ c = PersistSkipped(b)
    <2>1. b \in Backend
      BY DEF Consistent
    <2>2. /\ c \in Backend
          /\ c.rows = b.rows
          /\ c.index = b.index
          /\ c.pending = 0
          /\ c.metric = b.metric
          /\ c.dirty = FALSE
          /\ c.header = b.header
          /\ c.cache = b.cache
      BY <1>2, <2>1 DEF PersistSkipped, Backend
    <2>3. b.index.rows = b.rows
      BY <1>2, Fields DEF MaySkipRewrite
    <2>4. Consistent(c)
      BY <2>2, <2>3, Fields DEF Consistent, IndexConsistent, PendingConsistent,
         CacheConsistent, CleanConsistent
    <2> QED BY <2>2, <2>4
  <1>3. CASE c \in PersistFailed(b)
    <2> DEFINE i == [b EXCEPT !.index = IndexThrough(b.index, b.rows, b.metric)]
    <2>1. Consistent(i) /\ i.rows = b.rows /\ i.metric = b.metric /\ i.index.rows = b.rows
      BY IndexedConsistent
    <2>2. c \in {b, i, [i EXCEPT !.header = b.rows], [i EXCEPT !.header = None]}
      BY <1>3 DEF PersistFailed
    <2>3. b.rows \in Nat \cup {None} /\ None \in Nat \cup {None}
      BY Fields
    <2> HIDE DEF i
    <2>4. /\ Consistent([i EXCEPT !.header = b.rows])
          /\ [i EXCEPT !.header = b.rows].rows = i.rows
          /\ [i EXCEPT !.header = b.rows].metric = i.metric
      BY <2>1, <2>3, HeaderConsistent
    <2>5. /\ Consistent([i EXCEPT !.header = None])
          /\ [i EXCEPT !.header = None].rows = i.rows
          /\ [i EXCEPT !.header = None].metric = i.metric
      BY <2>1, <2>3, HeaderConsistent
    <2> QED
      BY <2>1, <2>2, <2>4, <2>5
  <1> QED BY <1>1, <1>2, <1>3 DEF PersistIndex

(* The row cache a search fills is under the metric in force.              *)
LEMMA FillCacheConsistent ==
  ASSUME NEW b, Consistent(b)
  PROVE  /\ Consistent(FillCache(b))
         /\ FillCache(b).rows = b.rows
         /\ FillCache(b).metric = b.metric
  <1> DEFINE ca == [n |-> b.rows, metric |-> b.metric]
             x == [b EXCEPT !.cache = ca]
  <1>1. b \in Backend
    BY DEF Consistent
  <1>2. ca \in RowCache /\ ca.metric = b.metric
    BY Fields DEF RowCache
  <1>3. FillCache(b) \in {b, x}
    BY DEF FillCache
  <1> HIDE DEF ca
  <1>4. /\ x \in Backend
        /\ x.rows = b.rows
        /\ x.index = b.index
        /\ x.pending = b.pending
        /\ x.metric = b.metric
        /\ x.dirty = b.dirty
        /\ x.header = b.header
        /\ x.cache = ca
    BY <1>1, <1>2 DEF Backend
  <1> HIDE DEF x
  <1>5. Consistent(x)
    BY <1>2, <1>4, Fields DEF Consistent, IndexConsistent, PendingConsistent,
         CacheConsistent, CleanConsistent
  <1> QED BY <1>3, <1>4, <1>5

(* A search of a consistent backend ranks exactly its rows, each under the *)
(* metric in force, whichever way it takes.                                *)
LEMMA ConsistentSearch ==
  ASSUME NEW b, Consistent(b)
  PROVE  [r \in Reachable(b) |-> RankedUnder(b, r)]
           = [r \in 0 .. b.rows - 1 |-> {b.metric}]
  <1>1. Reachable(b) = 0 .. b.rows - 1
    BY DEF Reachable, Consistent, Backend, Index, IndexConsistent
  <1>2. ASSUME NEW r \in 0 .. b.rows - 1
        PROVE  RankedUnder(b, r) = {b.metric}
    BY DEF RankedUnder, CacheUsable, Consistent, Backend, Index, IndexConsistent,
           CacheConsistent
  <1> QED BY <1>1, <1>2

(* No operation but a rebuilding metric change makes the index smaller.    *)
LEMMA SyncKeepsIndex ==
  ASSUME NEW b, Consistent(b), NEW c \in {EnsureSync(b)} \cup EnsureSyncFailed(b)
  PROVE  b.index.rows <= c.index.rows
  <1>0. b.index.rows \in Nat /\ b.index.rows <= b.rows
    BY Fields
  <1>1. b.index.rows <= b.rows /\ b.index.rows <= b.index.rows
    BY <1>0
  <1> QED BY <1>1, EnsureSyncConsistent, IndexedConsistent DEF EnsureSyncFailed

(* Nor does an append, with its flush or with a failing one.               *)
LEMMA AppendKeepsIndex ==
  ASSUME NEW b, Consistent(b), NEW n \in Nat,
         NEW c \in {AppendRows(b, n)} \cup AppendRowsFailed(b, n)
  PROVE  b.index.rows <= c.index.rows
  <1> DEFINE x == NoteRows(b, n)
  <1>1. Consistent(x)
    BY NoteRowsConsistent
  <1>0. b \in Backend /\ b.index.rows \in Nat
    BY Fields DEF Consistent
  <1>2. b \in Backend /\ b.index.rows <= b.index.rows
    BY <1>0
  <1>3. x.index = b.index
    BY <1>2 DEF NoteRows, Backend
  <1> HIDE DEF x
  <1>4. c = x \/ c \in {EnsureSync(x)} \cup EnsureSyncFailed(x)
    BY DEF AppendRows, AppendRowsFailed, x
  <1> QED BY <1>1, <1>2, <1>3, <1>4, SyncKeepsIndex

(* Nor does a persist.                                                     *)
LEMMA PersistKeepsIndex ==
  ASSUME NEW b, Consistent(b), NEW c \in PersistIndex(b) \cup PersistFailed(b)
  PROVE  b.index.rows <= c.index.rows
  <1> DEFINE i == [b EXCEPT !.index = IndexThrough(b.index, b.rows, b.metric)]
             e == EnsureSync(b)
  <1>0. b \in Backend /\ b.index.rows \in Nat /\ b.index.rows <= b.rows
    BY Fields DEF Consistent
  <1>1. b \in Backend /\ b.index.rows <= b.rows /\ b.index.rows <= b.index.rows
    BY <1>0
  <1>2. /\ i \in Backend /\ i.index.rows = b.rows
        /\ e \in Backend /\ e.index.rows = b.rows
    BY IndexedConsistent, EnsureSyncConsistent DEF Consistent
  <1>3. c \in {b, i, [i EXCEPT !.header = b.rows], [i EXCEPT !.header = None],
               PersistSkipped(b),
               [e EXCEPT !.dirty = FALSE, !.header = b.rows]}
    BY DEF PersistIndex, PersistFailed, PersistWritten
  <1> HIDE DEF i, e
  <1>4. c.index \in {b.index, i.index, e.index}
    BY <1>1, <1>2, <1>3 DEF PersistSkipped, Backend
  <1> QED BY <1>1, <1>2, <1>4
=============================================================================
