--------------------------- MODULE IncrementalIndex ---------------------------
(***************************************************************************)
(* The forest of index fragments that BpannBackend searches, as its rows   *)
(* arrive, are indexed, compacted, persisted and reopened                  *)
(* (rust/crates/bpann/src: index/sync.rs, index/build.rs, lgnsrch.rs,      *)
(* merge.rs, and the calls of backend.rs).                                 *)
(*                                                                         *)
(* Rows are 0, 1, 2, ... in the order they were appended.  What matters of *)
(* a fragment is which rows it holds and which rows the centroid it is     *)
(* placed at was computed from.  A query is the choice of the fragments    *)
(* that are nearest to it; of its answer only the size matters.  How the   *)
(* callers interleave is the subject of FlushController, and what a killed *)
(* process leaves behind that of BpannStore: an operation is one step here.*)
(***************************************************************************)
EXTENDS Integers, Sequences, FiniteSets, FiniteSetsExt, SequencesExt

CONSTANTS
  StructuredLimit,  \* most pending rows that make one fragment of row ids
  HardThreshold,    \* pending rows at which an append indexes
  FlatRows,         \* indexed rows up to which one fragment is wanted
  IndexFragment,    \* indexed rows per fragment beyond that
  IndexMin,         \* least and
  IndexMax,         \*   most fragments wanted beyond that
  FragmentRows,     \* rows of a fragment that is still small
  SearchFragment,   \* indexed rows per fragment searched
  SearchLimit,      \* most fragments searched
  ExhaustiveLimit,  \* rows of a fragment that is searched exhaustively
  NLimit,           \* rows that are searched without the forest
  MaxRows,          \* bound: rows ever stored
  MaxBatch,         \* bound: rows of one append
  MaxNeighbors,     \* bound: neighbours of one search
  CanFail           \* whether a store or a build may return an error

(* index_threshold and the tuning give every forest at least one fragment. *)
ASSUME IncrementalIndexAssumption ==
  /\ {StructuredLimit, HardThreshold, FlatRows, IndexFragment, IndexMin, IndexMax,
      FragmentRows, SearchFragment, SearchLimit, ExhaustiveLimit, NLimit, MaxRows,
      MaxBatch, MaxNeighbors} \subseteq Nat
  /\ {IndexFragment, IndexMin, IndexMax, SearchFragment} \subseteq Nat \ {0}
  /\ MaxBatch <= MaxRows

VARIABLES
  rows,     \* rows of train_x
  forest,   \* the fragments, in order
  indexed,  \* indexed_rows
  noted,    \* the rows whose sum the accumulator holds
  pending,  \* pending_unindexed
  stored,   \* the one fragment in the page files, or none
  counted,  \* indexed_rows.bin
  marked,   \* metric.pending exists
  answer    \* what the last step, if it was a search, answered

vars == <<rows, forest, indexed, noted, pending, stored, counted, marked, answer>>

-----------------------------------------------------------------------------
Larger(a, b)  == IF a > b THEN a ELSE b
Smaller(a, b) == IF a < b THEN a ELSE b

RowIds == 0 .. MaxRows - 1

Fragment == [start: 0 .. MaxRows, end: 0 .. MaxRows, seen: SUBSET RowIds]

RowsOf(f) == f.start .. f.end - 1
SizeOf(f) == f.end - f.start

NoFragment == [start |-> 0, end |-> 0, seen |-> {}]
NoAnswer   == [columns |-> 0, filled |-> 0, complete |-> TRUE]

TypeOK ==
  /\ rows \in 0 .. MaxRows
  /\ forest \in Seq(Fragment)
  /\ indexed \in 0 .. MaxRows
  /\ noted \subseteq RowIds
  /\ pending \in 0 .. MaxRows
  /\ stored \in Fragment
  /\ counted \in 0 .. MaxRows
  /\ marked \in BOOLEAN
  /\ answer \in [columns: Nat, filled: Nat, complete: BOOLEAN]

-----------------------------------------------------------------------------
(* Compaction.                                                             *)

(* index_threshold: the fragments a forest of n rows should have.          *)
IndexThreshold(n) ==
  IF n <= FlatRows THEN 1
  ELSE Smaller(Larger(n \div IndexFragment, IndexMin), IndexMax)

CompactLimit(n) == Larger(2 * IndexThreshold(n), IndexThreshold(n) + 1)

(* concat_merge: the parts become the children of a new root, whose        *)
(* centroid is the mean of theirs.                                         *)
ConcatMerge(parts) ==
  [start |-> Head(parts).start, end |-> Last(parts).end,
   seen  |-> UNION {f.seen : f \in ToSet(parts)}]

(* The run of n fragments to merge: one of small fragments before any      *)
(* other, then one of the fewest rows, then the first.                     *)
BestRun(fs, n) ==
  LET run(i)   == SubSeq(fs, i, i + n - 1)
      count(i) == Last(run(i)).end - Head(run(i)).start
      small(i) == \A f \in ToSet(run(i)) : SizeOf(f) <= FragmentRows
      Better(i, j) == IF small(i) # small(j) THEN small(i)
                      ELSE count(i) < count(j) \/ (count(i) = count(j) /\ i <= j)
      starts   == 1 .. Len(fs) - n + 1
  IN CHOOSE i \in starts : \A j \in starts : Better(i, j)

(* Mutant: the merged fragment is put at the end.                          *)
AmalgamateAtEnd(fs, n) ==
  LET i == BestRun(fs, n)
  IN SubSeq(fs, 1, i - 1) \o SubSeq(fs, i + n, Len(fs))
       \o <<ConcatMerge(SubSeq(fs, i, i + n - 1))>>

(* Mutant: the last part of the run is taken out and not merged.           *)
AmalgamateDrops(fs, n) ==
  LET i == BestRun(fs, n)
  IN SubSeq(fs, 1, i - 1) \o <<ConcatMerge(SubSeq(fs, i, i + n - 2))>>
       \o SubSeq(fs, i + n, Len(fs))

AmalgamateRun(fs, n) ==
  LET i == BestRun(fs, n)
  IN SubSeq(fs, 1, i - 1) \o <<ConcatMerge(SubSeq(fs, i, i + n - 1))>>
       \o SubSeq(fs, i + n, Len(fs))

(* One round of compact's loop.                                            *)
Shrunk(fs, most) ==
  IF Len(fs) <= most THEN fs
  ELSE LET over == Smaller(Larger(Len(fs) - most, 2), 4)
       IN AmalgamateRun(fs, Smaller(over, Len(fs)))

(* Every round takes a fragment away, so the loop has ended by this one.   *)
Compact(fs, most) ==
  LET Rounds[i \in 0 .. Len(fs)] ==
        IF i = 0 THEN fs ELSE Shrunk(Rounds[i - 1], most)
  IN  Rounds[Len(fs)]

(* Mutant: the limit is not looked at until it is passed by one more.      *)
MaybeCompactLate(fs, n) ==
  IF Len(fs) > CompactLimit(n) + 1 THEN Compact(fs, IndexThreshold(n)) ELSE fs

MaybeCompact(fs, n) ==
  IF Len(fs) > CompactLimit(n) THEN Compact(fs, IndexThreshold(n)) ELSE fs

-----------------------------------------------------------------------------
(* Indexing.                                                               *)

(* Mutant: the accumulator is taken only by a fragment it is used for.     *)
DrainedSmallOnly(n) == IF n <= StructuredLimit THEN {} ELSE noted

(* What take_centroid leaves in the accumulator, in each of the bands.     *)
Drained(n) == {}

(* take_centroid, or else centroid_rows.                                   *)
CentroidOf(acc, start, end) ==
  IF acc = {} THEN start .. end - 1 ELSE acc

(* build_batch, build_vectors or build_ranges: rows start to end - 1.      *)
BuildFragment(acc, start, end) ==
  [start |-> start, end |-> end,
   seen |-> IF end - start <= StructuredLimit THEN CentroidOf(acc, start, end)
            ELSE start .. end - 1]

(* index_through, on the forest fs of n rows, for the rows up to end.      *)
IndexThrough(fs, n, acc, end) ==
  IF n >= end THEN fs
  ELSE MaybeCompact(Append(fs, BuildFragment(acc, n, end)), end)

(* The forest and the files after index_through(len()).                    *)
Indexed(k, acc) ==
  /\ forest' = IndexThrough(forest, indexed, acc, k)
  /\ indexed' = Larger(indexed, k)
  /\ counted' = IF indexed < k THEN k ELSE counted

-----------------------------------------------------------------------------
(* The operations.                                                         *)

(* An append whose second store fails leaves its rows in the first, where  *)
(* they count, and does not note them.                                     *)
AppendFailed ==
  /\ CanFail
  /\ \E n \in 1 .. MaxBatch :
       /\ rows + n <= MaxRows
       /\ rows' = rows + n
  /\ answer' = NoAnswer
  /\ UNCHANGED <<forest, indexed, noted, pending, stored, counted, marked>>

(* note_rows.                                                              *)
NewRows(n) == rows .. rows + n - 1

AppendRows ==
  \E n \in 1 .. MaxBatch :
    LET all == noted \cup NewRows(n)
    IN /\ rows + n <= MaxRows
       /\ rows' = rows + n
       /\ IF pending + n >= HardThreshold
          THEN /\ Indexed(rows + n, all)
               /\ noted' = Drained(rows + n - indexed)
               /\ pending' = 0
          ELSE /\ noted' = all
               /\ pending' = pending + n
               /\ UNCHANGED <<forest, indexed, counted>>
       /\ answer' = NoAnswer
       /\ UNCHANGED <<stored, marked>>

(* ensure_sync; and soft_build with soft_publish, which no append comes    *)
(* between.                                                                *)
EnsureSync ==
  /\ indexed < rows
  /\ Indexed(rows, noted)
  /\ noted' = Drained(rows - indexed)
  /\ pending' = 0
  /\ answer' = NoAnswer
  /\ UNCHANGED <<rows, stored, marked>>

(* A tree whose rows cannot be read is not built; the accumulator is gone. *)
SyncFailed ==
  /\ CanFail
  /\ rows - indexed > StructuredLimit
  /\ noted' = {}
  /\ answer' = NoAnswer
  /\ UNCHANGED <<rows, forest, indexed, pending, stored, counted, marked>>

(* set_metric or ensure_scale with a metric that needs another forest.     *)
Reset ==
  /\ forest' = <<>>
  /\ indexed' = 0
  /\ noted' = {}
  /\ pending' = rows
  /\ marked' = TRUE
  /\ answer' = NoAnswer
  /\ UNCHANGED <<rows, stored, counted>>

(* persist_index: all rows are indexed, and one merged fragment is stored; *)
(* the forest in memory keeps its fragments.                               *)
PersistIndex ==
  LET fs == IndexThrough(forest, indexed, noted, rows)
  IN /\ rows > 0
     /\ forest' = fs
     /\ indexed' = rows
     /\ counted' = rows
     /\ noted' = IF indexed < rows THEN Drained(rows - indexed) ELSE noted
     /\ stored' = ConcatMerge(fs)
     /\ pending' = 0
     /\ marked' = FALSE
     /\ answer' = NoAnswer
     /\ UNCHANGED rows

(* BpannBackend::new: the forest is what the page files hold, if the count *)
(* of indexed rows and the metric agree, and a fragment of the counted     *)
(* rows they miss.                                                         *)
Reopen ==
  LET i == IF marked THEN 0 ELSE Smaller(counted, rows)
      fs == IF stored # NoFragment /\ i > 0 THEN <<stored>> ELSE <<>>
      persisted == IF fs = <<>> THEN 0 ELSE stored.end
  IN /\ forest' = IndexThrough(fs, Smaller(persisted, i), {}, i)
     /\ indexed' = i
     /\ noted' = {}
     /\ pending' = rows - i
     /\ answer' = NoAnswer
     /\ UNCHANGED <<rows, stored, counted, marked>>

-----------------------------------------------------------------------------
(* Searches of more rows than the resident matrix takes.                   *)

SearchBudget ==
  IF Len(forest) <= 2 THEN Len(forest)
  ELSE Smaller(Smaller(Larger(indexed \div SearchFragment, 2), Len(forest)),
               SearchLimit)

(* How many rows of the chosen fragments a search may rank: all of a small *)
(* one, and some leaves, at least one row, of a larger one.                *)
Ranked(chosen) ==
  LET Least(f) == IF SizeOf(f) <= ExhaustiveLimit THEN RowsOf(f) ELSE {f.start}
  IN Cardinality(UNION {Least(forest[i]) : i \in chosen}) ..
       Cardinality(UNION {RowsOf(forest[i]) : i \in chosen})

(* merge_dist: the nearest of n candidates is dropped if it is to be       *)
(* excluded and is not the only one, and k of the others are kept.         *)
Merged(n, k, excludeNearest) ==
  Smaller(k, IF excludeNearest /\ n > 1 THEN n - 1 ELSE n)

(* Mutant: the rows that are not indexed yet are not searched.             *)
PendingForgotten(k) == 0

(* The candidates among the rows that are not indexed yet: all are scanned.*)
Pending(k) == Smaller(k, rows - indexed)

(* search_pending for k neighbours.  The two legs have no row in common.   *)
(* A column that no candidate fills answers row 0 at distance 0.           *)
Search ==
  /\ rows > NLimit
  /\ \E k \in 1 .. MaxNeighbors, excludeNearest \in BOOLEAN,
        chosen \in kSubset(SearchBudget, DOMAIN forest) :
       LET columns == Smaller(k, rows)
           pool == IF excludeNearest THEN Smaller(k + 1, rows) ELSE columns
           depth == IF excludeNearest THEN Larger(pool, 2 * columns) ELSE columns
       IN \E ranked \in Ranked(chosen) :
            answer' = [columns  |-> columns,
                       filled   |-> Merged(Smaller(depth, ranked) + Pending(pool),
                                           columns, excludeNearest),
                       complete |-> SearchBudget = Len(forest)]
  /\ UNCHANGED <<rows, forest, indexed, noted, pending, stored, counted, marked>>

-----------------------------------------------------------------------------
(* new, on an empty directory, with k rows of its own; they are not noted. *)
Init ==
  /\ rows \in 0 .. MaxBatch
  /\ forest = <<>>
  /\ indexed = 0
  /\ noted = {}
  /\ pending = rows
  /\ stored = NoFragment
  /\ counted = 0
  /\ marked = FALSE
  /\ answer = NoAnswer

Next ==
  \/ AppendRows
  \/ AppendFailed
  \/ EnsureSync
  \/ SyncFailed
  \/ Reset
  \/ PersistIndex
  \/ Reopen
  \/ Search

Spec == Init /\ [][Next]_vars

-----------------------------------------------------------------------------
(* Properties.                                                             *)

(* The fragments hold the indexed rows, each row once and in order, after  *)
(* any compaction, persist and reopen: a search misses no indexed row for  *)
(* want of a fragment and the scan of the pending rows repeats none.       *)
FragmentsTile ==
  /\ \A i \in 1 .. Len(forest) : forest[i].start < forest[i].end
  /\ \A i \in 1 .. Len(forest) - 1 : forest[i].end = forest[i + 1].start
  /\ forest # <<>> => Head(forest).start = 0 /\ Last(forest).end = indexed
  /\ forest = <<>> => indexed = 0

FragmentsBounded == Len(forest) <= CompactLimit(indexed)

(* The state is well formed and, however the rows arrive, the forest stays *)
(* within its compaction limit.                                            *)
ForestOK == TypeOK /\ FragmentsBounded

(* No fragment is placed by rows it does not hold: what the accumulator    *)
(* has of indexed rows never reaches a later fragment.                     *)
CentroidNotPoisoned ==
  \A f \in ToSet(forest) : f.seen # {} /\ f.seen \subseteq RowsOf(f)

(* A search with every fragment in its budget fills every column with a    *)
(* row of its own, short of the excluded one when no other is left.        *)
FullSearchesFill ==
  answer.complete /\ (\A f \in ToSet(forest) : SizeOf(f) <= ExhaustiveLimit) =>
    answer.filled >= Smaller(answer.columns, rows - 1)

(* So does any search.                                                     *)
SearchesFill == answer.filled >= Smaller(answer.columns, rows - 1)

(* No step but a rebuild or a reopen splits a fragment or loses a part of  *)
(* one: indexing appends and compaction joins neighbours.                  *)
CompactionJoins ==
  [][~Reset /\ ~Reopen =>
       \A f \in ToSet(forest) : \E g \in ToSet(forest') :
         RowsOf(f) \subseteq RowsOf(g)]_vars

-----------------------------------------------------------------------------
(* What these rest on.  The accumulator holds rows that are not indexed    *)
(* yet, and nothing of those that are; no more rows are pending than there *)
(* are; the page files hold the first rows, up to one that was indexed     *)
(* when they were counted.                                                 *)
NotedInv == noted \subseteq indexed .. rows - 1 /\ pending <= rows

StoredInv ==
  /\ indexed <= rows /\ counted <= rows
  /\ stored # NoFragment =>
       /\ stored.start = 0 /\ 0 < stored.end /\ stored.end <= counted
       /\ stored.seen # {} /\ stored.seen \subseteq RowsOf(stored)

IInv ==
  /\ FragmentsTile /\ ForestOK /\ CentroidNotPoisoned /\ FullSearchesFill
  /\ NotedInv /\ StoredInv
=============================================================================
