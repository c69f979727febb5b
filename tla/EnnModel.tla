------------------------------ MODULE EnnModel ------------------------------
(***************************************************************************)
(* ENN (crates/ennx/src/model.rs) over a disk backend: the counts and      *)
(* moments it keeps beside the stored rows, the bounds its outputs are     *)
(* warped under, and the AUTO metric, whose weights live in the            *)
(* controller, in the model, in the backend, in the fragments of the       *)
(* index and in three files.  The process may crash between any two file   *)
(* writes; what was written stays.                                         *)
(*                                                                         *)
(* A metric is an integer weight and Unit the unscaled one; the drift of   *)
(* two metrics is their distance.  A row is represented by the bounds its  *)
(* outputs were warped under.  How the index cuts rows into fragments is   *)
(* IncrementalIndex, and which rows survive a crash is BpannStore.         *)
(***************************************************************************)
EXTENDS Integers, FiniteSets

CONSTANTS
    Weights,        \* metrics the estimator or the caller may propose
    Unit,           \* the metric that leaves rows unscaled
    DriftLimit,     \* REBUILD_DRIFT
    FirstRefit,     \* DEPENDENCE_ROWS
    Chunk,          \* rows learn_metric observes at a time
    Unbounded, Box, \* bounds of the outputs
    None,
    MaxRows, MaxBatch, MaxOpens,    \* bounds of the run
    CanCrash

ASSUME EnnModelAssumption ==
    /\ Weights \subseteq Nat /\ IsFiniteSet(Weights) /\ Unit \in Weights
    /\ DriftLimit \in Nat
    /\ {FirstRefit, Chunk, MaxBatch} \subseteq Nat \ {0}
    /\ MaxRows \in Nat /\ MaxOpens \in Nat
    /\ Unbounded # Box /\ None \notin {Unbounded, Box} /\ None \notin Weights
    /\ CanCrash \in BOOLEAN

Bounds == {Unbounded, Box}

VARIABLES
    phase,      \* what the process is doing
    closing,    \* whether the running persist is the drop of the model
    bounds, xscale, metric, numObs, summed,     \* the model
    be,         \* the backend: its metric, its fragments, index_dirty
    disk,       \* metric.bin, metric.pending, pages and metadata.json
    rows, warps,    \* rows stored, and the bounds they were warped under
    lost,       \* rows a failed append stored without telling the model
    exposed,    \* metadata.json may have lost the bounds of the rows
    mixed,      \* a model was opened over such a metadata.json
    opens

model == <<bounds, xscale, metric, numObs, summed>>
store == <<rows, warps, lost>>
ghosts == <<exposed, mixed, opens>>
vars == <<phase, closing, model, be, disk, store, ghosts>>

-----------------------------------------------------------------------------
(* The controller of the metric.                                           *)

Drift(v, w) == IF v < w THEN w - v ELSE v - w

NewMetric == [weights |-> Unit, built |-> Unit, seen |-> 0, next |-> FirstRefit]

Ingested(c, n) == [c EXCEPT !.seen = @ + n]

Ready(c) == c.seen >= c.next

\* A proposal sets the next refit before anything is applied.
Proposed(c) ==
    LET grown == (3 * c.seen + 1) \div 2
    IN [c EXCEPT !.next = IF grown > FirstRefit THEN grown ELSE FirstRefit]

Rebuilds(c, w) == Drift(w, c.built) > DriftLimit

SetWeights(c, w) ==
    [c EXCEPT !.weights = w, !.built = IF Rebuilds(c, w) THEN w ELSE @]

\* Controllers that may have observed n more rows, refitting when ready.
ObservedMetrics(c, n) ==
    LET seen == Ingested(c, n)
    IN IF ~Ready(seen) THEN {seen}
       ELSE {IF w = seen.weights THEN Proposed(seen)
             ELSE SetWeights(Proposed(seen), w) : w \in Weights}

\* The next chunk of n rows.
Chunked(c, n) == IF n - c.seen < Chunk THEN n - c.seen ELSE Chunk

\* Controllers that may follow c in learn_metric's loop over n rows.
ChunkObserved(c, n) ==
    IF c.seen = n THEN {c} ELSE ObservedMetrics(c, Chunked(c, n))

\* Controllers learn_metric may end with: n rows are at most n chunks.
LearnedMetrics(n) ==
    LET after[i \in 0..n] ==
            IF i = 0 THEN {NewMetric}
            ELSE UNION {ChunkObserved(c, n) : c \in after[i - 1]}
    IN after[n]

-----------------------------------------------------------------------------
(* The backend.  forest holds the metrics its fragments are laid out in.   *)

Effective(b) == IF b.scaled THEN b.scale ELSE Unit

Indexed(b, n) ==
    IF b.indexed >= n THEN b
    ELSE [b EXCEPT !.indexed = n, !.forest = @ \cup {Effective(b)}]

Stored(b) == [b EXCEPT !.dirty = TRUE]

\* Every fragment is rescaled in place unless the forest is rebuilt.
Rescaled(b, w, rebuild) ==
    IF b.scaled /\ b.scale = w THEN b
    ELSE [scaled |-> TRUE, scale |-> w, dirty |-> TRUE,
          indexed |-> IF rebuild THEN 0 ELSE b.indexed,
          forest |-> IF rebuild \/ b.forest = {} THEN {} ELSE {w}]

\* metric.pending is written before the index changes.
Pended(b, w) == disk.marker \/ ~(b.scaled /\ b.scale = w)

NoBackend == [scaled |-> FALSE, scale |-> Unit, forest |-> {}, indexed |-> 0,
              dirty |-> FALSE]

\* Persisted pages are used only under the metric they were written in.
MetricMatches == ~disk.marker /\ disk.bin \in {None, Unit}

OpenedBackend ==
    LET used == IF MetricMatches /\ disk.pages # None
                THEN disk.pages ELSE [scales |-> {}, rows |-> 0]
    IN [NoBackend EXCEPT !.forest = used.scales, !.indexed = used.rows,
                         !.dirty = used.rows < rows]

NeedsRewrite(b) ==
    \/ b.dirty
    \/ disk.pages = None
    \/ disk.pages # None /\ disk.pages.rows # rows

-----------------------------------------------------------------------------
NoModel ==
    /\ bounds' = Unbounded /\ xscale' = Unit /\ metric' = None
    /\ numObs' = 0 /\ summed' = 0
    /\ be' = NoBackend /\ closing' = FALSE

Init ==
    /\ phase = "closed" /\ closing = FALSE
    /\ bounds = Unbounded /\ xscale = Unit /\ metric = None
    /\ numObs = 0 /\ summed = 0
    /\ be = NoBackend
    /\ disk = [bin |-> None, marker |-> FALSE, pages |-> None, kept |-> None]
    /\ rows = 0 /\ warps = {} /\ lost = 0
    /\ exposed = FALSE /\ mixed = FALSE /\ opens = 0

\* new_options: bounds are read, then the backend rewrites metadata.json
\* without them.
Open(asked) ==
    /\ phase = "closed" /\ opens < MaxOpens
    /\ asked # None /\ disk.kept # None => asked = disk.kept
    /\ bounds' = IF asked # None THEN asked
                 ELSE IF disk.kept # None THEN disk.kept ELSE Unbounded
    /\ be' = OpenedBackend
    /\ disk' = [disk EXCEPT !.kept = None]
    /\ opens' = opens + 1 /\ exposed' = TRUE
    /\ mixed' = (mixed \/ (exposed /\ rows > 0))
    /\ phase' = "opening" /\ lost' = 0
    /\ UNCHANGED <<closing, xscale, metric, numObs, summed, rows, warps>>

\* Mutation: a reopened model counts its rows and keeps empty moments.
SyncedCountOnly ==
    numObs' = rows /\ UNCHANGED summed

\* sync_backend: counts and moments are taken from the rows.
Synced ==
    /\ numObs' = rows /\ summed' = rows

FinishOpen ==
    /\ phase = "opening"
    /\ Synced
    /\ be' = Indexed(be, rows)
    /\ disk' = [disk EXCEPT !.kept = bounds]
    /\ exposed' = FALSE /\ phase' = "idle"
    /\ UNCHANGED <<closing, bounds, xscale, metric, store, mixed, opens>>

\* new_empty: the bounds are read after the backend has rewritten them away.
OpenEmpty ==
    /\ phase = "closed" /\ opens < MaxOpens
    /\ Synced
    /\ bounds' = Unbounded
    /\ be' = Indexed(OpenedBackend, rows)
    /\ disk' = [disk EXCEPT !.kept = None]
    /\ opens' = opens + 1 /\ exposed' = TRUE
    /\ mixed' = (mixed \/ rows > 0)
    /\ phase' = "idle" /\ lost' = 0
    /\ UNCHANGED <<closing, xscale, metric, rows, warps>>

-----------------------------------------------------------------------------
\* Mutation: the controller takes the weights before the backend does.
MetricWeightsFirst(c, b, w) ==
    \/ /\ be' = Rescaled(b, w, Rebuilds(c, w))
       /\ disk' = [disk EXCEPT !.marker = Pended(b, w)]
       /\ xscale' = w
       /\ metric' = SetWeights(c, w)
    \/ be' = b /\ metric' = SetWeights(c, w) /\ UNCHANGED <<xscale, disk>>

\* apply_metric, then the weights of the controller; when the backend refuses
\* neither changes.
MetricWeights(c, b, w) ==
    \/ /\ be' = Rescaled(b, w, Rebuilds(c, w))
       /\ disk' = [disk EXCEPT !.marker = Pended(b, w)]
       /\ xscale' = w
       /\ metric' = SetWeights(c, w)
    \/ be' = b /\ metric' = c /\ UNCHANGED <<xscale, disk>>

Unobserved(b) == be' = b /\ UNCHANGED <<metric, xscale, disk>>

ObserveMetric(b, n) ==
    LET c == Ingested(metric, n)
    IN IF metric = None THEN Unobserved(b)
       ELSE IF ~Ready(c)
       THEN be' = b /\ metric' = c /\ UNCHANGED <<xscale, disk>>
       ELSE \E w \in Weights :
                IF w = c.weights
                THEN be' = b /\ metric' = Proposed(c) /\ UNCHANGED <<xscale, disk>>
                ELSE MetricWeights(Proposed(c), b, w)

Summed(n) == summed' = summed + n

\* The append may reach the hard threshold and index what is stored.
Add(n) ==
    /\ phase = "idle" /\ rows + n <= MaxRows
    /\ rows' = rows + n /\ warps' = warps \cup {bounds}
    /\ Summed(n) /\ numObs' = rows + n
    /\ \E hard \in BOOLEAN :
           ObserveMetric(IF hard THEN Indexed(Stored(be), rows + n)
                                 ELSE Stored(be), n)
    /\ UNCHANGED <<phase, closing, bounds, lost, ghosts>>

\* The rows are stored and the append still fails.
AddFailed(n) ==
    /\ phase = "idle" /\ rows + n <= MaxRows
    /\ rows' = rows + n /\ warps' = warps \cup {bounds} /\ lost' = lost + n
    /\ be' = Stored(be)
    /\ UNCHANGED <<phase, closing, model, disk, ghosts>>

LearnMetric ==
    /\ phase = "idle" /\ metric = None
    /\ \E c \in LearnedMetrics(numObs) :
           /\ be' = Rescaled(be, c.weights, TRUE)
           /\ disk' = [disk EXCEPT !.marker = Pended(be, c.weights)]
           /\ xscale' = c.weights /\ metric' = c
    /\ UNCHANGED <<phase, closing, bounds, numObs, summed, store, ghosts>>

CallerWeights(w) ==
    /\ phase = "idle" /\ metric # None
    /\ MetricWeights(metric, be, w)
    /\ UNCHANGED <<phase, closing, bounds, numObs, summed, store, ghosts>>

EnsureSync ==
    /\ phase = "idle" /\ be.indexed < rows
    /\ be' = Indexed(be, rows)
    /\ UNCHANGED <<phase, closing, model, disk, store, ghosts>>

-----------------------------------------------------------------------------
\* ENN::persist_index, or the drop of the model, when nothing is to be
\* written.  A forest of several fragments is written again even when clean.
PersistClean(drop) ==
    /\ phase = "idle" /\ ~NeedsRewrite(be)
    /\ IF drop
       THEN phase' = "closed" /\ NoModel /\ UNCHANGED <<disk, exposed>>
       ELSE /\ disk' = [disk EXCEPT !.kept = bounds] /\ exposed' = FALSE
            /\ UNCHANGED <<phase, closing, model, be>>
    /\ UNCHANGED <<store, mixed, opens>>

PersistMark(drop) ==
    /\ phase = "idle"
    /\ NeedsRewrite(be) \/ be.forest # {}
    /\ disk' = [disk EXCEPT !.marker = TRUE]
    /\ be' = Indexed(be, rows)
    /\ phase' = (IF rows = 0 THEN "described" ELSE "marked") /\ closing' = drop
    /\ UNCHANGED <<model, store, ghosts>>

PersistPages ==
    /\ phase = "marked" /\ phase' = "paged"
    /\ disk' = [disk EXCEPT !.pages = [scales |-> be.forest, rows |-> be.indexed]]
    /\ UNCHANGED <<closing, model, be, store, ghosts>>

PersistMetadata ==
    /\ phase = "paged" /\ phase' = "described"
    /\ disk' = [disk EXCEPT !.kept = None] /\ exposed' = TRUE
    /\ UNCHANGED <<closing, model, be, store, mixed, opens>>

PersistMetric ==
    /\ phase = "described" /\ phase' = "scaled"
    /\ disk' = [disk EXCEPT !.bin = Effective(be)]
    /\ UNCHANGED <<closing, model, be, store, ghosts>>

\* A dropped model stops here; only ENN::persist_index goes on.
PersistUnmark ==
    /\ phase = "scaled"
    /\ disk' = [disk EXCEPT !.marker = FALSE]
    /\ IF closing THEN phase' = "closed" /\ NoModel
       ELSE /\ phase' = "bounding" /\ be' = [be EXCEPT !.dirty = FALSE]
            /\ UNCHANGED <<closing, model>>
    /\ UNCHANGED <<store, ghosts>>

\* Mutation: persist_index leaves out y_metadata.
PersistBoundsSkipped ==
    /\ phase = "bounding" /\ phase' = "idle" /\ exposed' = FALSE
    /\ UNCHANGED <<closing, model, be, disk, store, mixed, opens>>

PersistBounds ==
    /\ phase = "bounding" /\ phase' = "idle"
    /\ disk' = [disk EXCEPT !.kept = bounds] /\ exposed' = FALSE
    /\ UNCHANGED <<closing, model, be, store, mixed, opens>>

Crash ==
    /\ CanCrash /\ phase # "closed"
    /\ phase' = "closed" /\ NoModel
    /\ UNCHANGED <<disk, store, ghosts>>

Next ==
    \/ \E asked \in Bounds \cup {None} : Open(asked)
    \/ FinishOpen
    \/ OpenEmpty
    \/ \E n \in 1..MaxBatch : Add(n) \/ AddFailed(n)
    \/ LearnMetric
    \/ \E w \in Weights : CallerWeights(w)
    \/ EnsureSync
    \/ \E drop \in BOOLEAN : PersistClean(drop) \/ PersistMark(drop)
    \/ PersistPages
    \/ PersistMetadata
    \/ PersistMetric
    \/ PersistUnmark
    \/ PersistBounds
    \/ Crash

Spec == Init /\ [][Next]_vars

-----------------------------------------------------------------------------
Phases == {"closed", "opening", "idle", "marked", "paged", "described",
           "scaled", "bounding"}

TypeOK ==
    /\ phase \in Phases /\ closing \in BOOLEAN
    /\ bounds \in Bounds /\ xscale \in Weights
    /\ metric = None \/ metric \in [weights : Weights, built : Weights,
                                    seen : 0..MaxRows, next : Nat]
    /\ numObs \in 0..MaxRows /\ summed \in 0..MaxRows
    /\ be \in [scaled : BOOLEAN, scale : Weights, forest : SUBSET Weights,
               indexed : 0..MaxRows, dirty : BOOLEAN]
    /\ disk.bin \in Weights \cup {None} /\ disk.marker \in BOOLEAN
    /\ disk.kept \in Bounds \cup {None}
    /\ rows \in 0..MaxRows /\ warps \subseteq Bounds /\ lost \in 0..MaxRows
    /\ exposed \in BOOLEAN /\ mixed \in BOOLEAN /\ opens \in 0..MaxOpens

\* The copies of the metric never part: the model scales a query with the
\* weights its controller holds, the backend measures distances in them, and
\* every fragment in memory is laid out in them, also after a change the
\* backend refused (ENN::metric_weights, BpannBackend::set_metric).
MetricAgrees ==
    /\ xscale = Effective(be)
    /\ metric # None => be.scaled /\ metric.weights = be.scale
    /\ be.forest \subseteq {Effective(be)}

\* Whenever a crash leaves no metric.pending behind, metric.bin names the
\* metric the persisted pages were written in (set_metric, persist_index).
PagesAreOfTheirMetric ==
    ~disk.marker /\ disk.pages # None =>
        disk.pages.scales \subseteq {IF disk.bin = None THEN Unit ELSE disk.bin}

\* The state is well formed, the copies of the metric agree, and pages are
\* never read in another metric (model/metric.rs, backend/metric.rs).
ModelOK == TypeOK /\ MetricAgrees /\ PagesAreOfTheirMetric

\* The moments a model scales its outputs by cover every row it was told was
\* stored, an add whose metric change failed included (ENN::add).
MomentsCoverRows ==
    phase = "idle" => summed + lost = rows /\ summed <= numObs /\ numObs <= rows

\* Rows are read back through the bounds they were warped under, whatever
\* crashes and reopenings lie between, unless a model was opened while the
\* index had written metadata.json last (ENN::new_options, persist_index).
RowsOfOneBounds == phase = "idle" /\ ~mixed => warps \subseteq {bounds}

\* What these rest on: which files a persist has written so far, and that
\* pages are of some row.
StepInv ==
    /\ phase = "closed" => metric = None /\ xscale = Unit
    /\ phase = "opening" => lost = 0 /\ exposed
    /\ phase = "marked" \/ disk.pages # None => rows > 0
    /\ phase \in {"marked", "paged", "described", "scaled"} => disk.marker
    /\ phase \in {"paged", "described", "scaled"} /\ disk.pages # None =>
           disk.pages.scales \subseteq {Effective(be)}
    /\ phase = "scaled" => disk.bin = Effective(be)

FilesOK ==
    disk \in [bin : Weights \cup {None}, marker : BOOLEAN,
              pages : {None} \cup [scales : SUBSET Weights, rows : 0..MaxRows],
              kept : Bounds \cup {None}]

MomentsInv ==
    /\ phase \notin {"closed", "opening"} =>
           summed + lost = rows /\ summed <= numObs /\ numObs <= rows
    /\ metric # None => phase # "opening" /\ metric.seen <= numObs

\* The bounds in metadata.json are those of the rows, unless it is exposed.
BoundsInv ==
    /\ rows = 0 => warps = {}
    /\ phase # "closed" /\ ~mixed => warps \subseteq {bounds}
    /\ phase \notin {"closed", "opening"} /\ ~exposed => disk.kept = bounds
    /\ rows > 0 /\ ~mixed /\ ~exposed => disk.kept # None /\ warps \subseteq {disk.kept}

IInv == ModelOK /\ FilesOK /\ StepInv /\ MomentsInv /\ BoundsInv

\* The test disk_reopen: a directory whose rows were warped under bounds is not
\* reopened by new_options as one that has none.
ReopenedBounds ==
    phase = "opening" /\ bounds = Unbounded => Box \notin warps
=============================================================================
