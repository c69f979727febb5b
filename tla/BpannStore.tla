------------------------------ MODULE BpannStore ------------------------------
(***************************************************************************)
(* The files of one disk backend, and what a process that is killed        *)
(* between any two writes finds when it opens them again                   *)
(* (rust/crates/bpann/src: backend.rs, backend/metric.rs, observation.rs,  *)
(* index/persist_atomic.rs).                                               *)
(*                                                                         *)
(* The operations are those of BpannBackend, which has each as one step;   *)
(* here an operation is a walk through the files it writes.  A rename, the *)
(* removal of a file, and a store into a mapped file are one step each;    *)
(* fs::write is two, since it truncates the file before it fills it.       *)
(* Killing a process loses its memory and nothing it wrote.                *)
(***************************************************************************)
EXTENDS BpannBackend

CONSTANTS
  MaxRows,   \* bound: rows ever written
  MaxBatch,  \* bound: rows of one append
  CanFail,   \* whether a write or a build may return an error
  Torn       \* the content of a file that was truncated and not filled

VARIABLES
  disk,    \* the files
  mem,     \* the backend of the running process, or None
  entry,   \* that backend when the running operation began
  op,      \* the running operation
  step,    \* the write it does next
  backup,  \* the page files persist_files read before it replaced them
  acked    \* rows the caller of the last operation that returned knows of

vars == <<disk, mem, entry, op, step, backup, acked>>

-----------------------------------------------------------------------------
Meta == [n: Nat, indexed: Nat]

ASSUME StoreAssumption ==
  /\ MaxRows \in Nat /\ MaxBatch \in Nat
  /\ CanFail \in BOOLEAN
  /\ {None, Torn} \cap (Nat \cup Index \cup Metrics \cup Meta \cup Backend) = {}
  /\ None # Torn

Unread == {None, Torn}

Files ==
  [data:   Nat,                              \* rows written to train_x and train_y
   count:  Nat,                              \* num_obs.bin, a mapped counter
   meta:   Meta \cup Unread,                 \* metadata.json
   rows:   Nat \cup Unread,                  \* indexed_rows.bin
   header: Nat \cup Unread,                  \* index/header.json
   pages:  Index \cup Unread,                \* index/pages.bin
   edges:  Index \cup Unread,                \* index/skip_edges.bin
   metric: Metrics \cup {None},              \* metric.bin
   marker: BOOLEAN]                          \* whether metric.pending exists

EmptyFiles ==
  [data |-> 0, count |-> 0, meta |-> None, rows |-> None, header |-> None,
   pages |-> None, edges |-> None, metric |-> None, marker |-> FALSE]

Larger(a, b)  == IF a > b THEN a ELSE b
Smaller(a, b) == IF a < b THEN a ELSE b

(* Mutant: metadata.json is believed whenever it can be read.              *)
KnownRowsFromMeta(d) == IF d.meta \in Unread THEN d.count ELSE d.meta.n

(* bpann_obs: the rows an opened store holds.                              *)
KnownRows(d) == IF d.meta \in Unread THEN d.count ELSE Larger(d.count, d.meta.n)

(* load_rows: the rows that were indexed.                                  *)
LoadRows(d) ==
  IF d.rows \notin Unread THEN d.rows
  ELSE IF d.meta \in Unread THEN 0 ELSE d.meta.indexed

(* disk_rows: a header that is missing counts no rows.                     *)
DiskRows(d) ==
  IF d.header = None THEN 0 ELSE IF d.header = Torn THEN None ELSE d.header

(* Mutant: the marker is not looked at.                                    *)
MetricMatchesUnmarked(d, m) ==
  m = IF d.metric = None THEN Unscaled ELSE d.metric

(* metric_matches: the stored pages may be placed under metric m.          *)
MetricMatches(d, m) ==
  /\ ~d.marker
  /\ m = IF d.metric = None THEN Unscaled ELSE d.metric

(* The rows whose index an open under metric m of n rows brings back, and  *)
(* whether it starts from the stored pages.                                *)
IndexedRows(d, m, n) ==
  IF MetricMatches(d, m) THEN Smaller(LoadRows(d), n) ELSE 0

ReadsIndex(d, m, n) == d.header # None /\ IndexedRows(d, m, n) > 0

(* The backend as BpannBackend has it.  The header is a file here, and the *)
(* field of that name in mem is 0.                                         *)
Held(b, d) == [b EXCEPT !.header = DiskRows(d)]

-----------------------------------------------------------------------------
Operations ==
  {"none", "open", "append", "sync", "soft", "persist", "metric", "scale"}

Steps ==
  {"idle", "mark", "counter", "index", "rows", "pages", "edges", "header",
   "meta", "recount", "metric", "unmark", "drain", "undo pages", "undo edges"}

TypeOK ==
  /\ disk \in Files
  /\ mem \in Backend \cup {None}
  /\ entry \in Backend \cup {None}
  /\ op \in Operations
  /\ step \in Steps
  /\ backup \in [pages: Index \cup Unread, edges: Index \cup Unread]
  /\ acked \in Nat

NoBackup == [pages |-> None, edges |-> None]

Init ==
  /\ disk = EmptyFiles
  /\ mem = None
  /\ entry = None
  /\ op = "none"
  /\ step = "idle"
  /\ backup = NoBackup
  /\ acked = 0

Idle == mem # None /\ op = "none"

(* An operation begins: b is its working copy of the backend.              *)
Start(o, s, b) ==
  /\ op' = o
  /\ step' = s
  /\ mem' = b
  /\ entry' = IF mem = None THEN None ELSE Held(mem, disk)
  /\ UNCHANGED <<backup, acked>>

(* It returns, with a value or with an error, and leaves b.                *)
Return(b) ==
  /\ op' = "none"
  /\ step' = "idle"
  /\ mem' = IF b = None THEN None ELSE [b EXCEPT !.header = 0]
  /\ entry' = None
  /\ acked' = IF b = None THEN acked ELSE b.rows
  /\ backup' = NoBackup

(* fs::write(f, v): the file is truncated, then filled.                    *)
Truncate(f) ==
  /\ disk[f] # Torn
  /\ disk' = [disk EXCEPT ![f] = Torn]
  /\ UNCHANGED <<mem, entry, op, step, backup, acked>>

Fill(f, v) ==
  /\ disk[f] = Torn
  /\ disk' = [disk EXCEPT ![f] = v]

Goto(s) ==
  /\ step' = s
  /\ UNCHANGED <<mem, entry, op, backup, acked>>

-----------------------------------------------------------------------------
(* BpannBackend::new on the files as they are, under metric m, with k rows *)
(* of its own if the files have none.  The rows that are indexed but not   *)
(* in the stored pages are indexed anew.  An open that cannot read the     *)
(* stored pages, or whose build fails, changes nothing.                    *)
BeginOpen ==
  /\ mem = None
  /\ \E m \in Metrics, k \in 0 .. MaxBatch :
       LET n == IF KnownRows(disk) = 0 THEN k ELSE KnownRows(disk)
           i == IndexedRows(disk, m, n)
           persisted == IF ReadsIndex(disk, m, n) THEN disk.header ELSE 0
           stored == IF ReadsIndex(disk, m, n) THEN disk.pages.metrics ELSE {}
           opened == OpenBackend(n, i, m, 0)
       IN /\ ReadsIndex(disk, m, n) => {disk.header, disk.pages} \cap Unread = {}
          /\ n <= MaxRows
          /\ disk' = [disk EXCEPT !.data = Larger(disk.data, n)]
          /\ Start("open", IF persisted < i THEN "rows" ELSE "meta",
                   [opened EXCEPT !.index.metrics =
                      stored \cup IF persisted < i THEN {m} ELSE {}])

(* append_rows: both stores are written and the rows noted, ...            *)
BeginAppend ==
  /\ Idle
  /\ \E n \in 1 .. MaxBatch :
       /\ mem.rows + n <= MaxRows
       /\ disk' = [disk EXCEPT !.data = Larger(disk.data, mem.rows + n)]
       /\ Start("append", "counter", NoteRows(mem, n))

(* Mutant: the counter is stored only by a persist.                        *)
CounterSkipped ==
  /\ step = "counter"
  /\ IF op = "append" /\ mem.pending >= HardThreshold THEN Goto("index")
     ELSE Return(mem)
  /\ UNCHANGED disk

(* ... then the counter makes them part of the store.                      *)
Counter ==
  /\ step = "counter"
  /\ disk' = [disk EXCEPT !.count = mem.rows]
  /\ IF op = "append" /\ mem.pending >= HardThreshold THEN Goto("index")
     ELSE Return(mem)

BeginSync ==
  /\ Idle
  /\ Start("sync", "index", mem)
  /\ UNCHANGED disk

(* ensure_scale rebuilds when the metric differs, and syncs in any case.   *)
(* The unscaled metric has two names: no scale, and a scale of ones.       *)
BeginScale ==
  /\ Idle
  /\ \E m \in Metrics :
       \/ m = mem.metric /\ Start("scale", "index", mem)
       \/ m \in {Unscaled} \cup (Metrics \ {mem.metric})
          /\ Start("scale", "mark", RebuildUnder(mem, m))
  /\ UNCHANGED disk

BeginMetric ==
  /\ Idle
  /\ \E m \in Metrics \ {Unscaled, mem.metric}, rebuild \in BOOLEAN :
       Start("metric", "mark", SetMetric(mem, m, rebuild))
  /\ UNCHANGED disk

(* soft_build and soft_publish.                                            *)
BeginSoft ==
  /\ Idle
  /\ SoftBuild(mem) # None
  /\ Start("soft", "rows", SoftPublish(mem, SoftBuild(mem)))
  /\ UNCHANGED disk

(* persist_index: needs_rewrite compares the page files with the index.    *)
(* An index of several fragments is rewritten even if nothing changed.     *)
Rewritten ==
  /\ ~mem.dirty
  /\ DiskRows(disk) = mem.rows
  /\ mem.rows > 0 => disk.pages = mem.index /\ disk.edges = mem.index

BeginPersist ==
  /\ Idle
  /\ Rewritten => mem.rows > 0
  /\ Start("persist", "mark", mem)
  /\ UNCHANGED disk

SkipPersist ==
  /\ Idle
  /\ Rewritten
  /\ Return(PersistSkipped(mem))
  /\ UNCHANGED disk

-----------------------------------------------------------------------------
(* metric_pending, before the metric or the page files change.             *)
Mark ==
  /\ step = "mark"
  /\ disk' = [disk EXCEPT !.marker = TRUE]
  /\ IF op = "metric" THEN Return(mem) ELSE Goto("index")

(* index_through builds the fragment that is missing, ...                  *)
BuildIndex ==
  /\ step = "index"
  /\ mem.index.rows < mem.rows
  /\ mem' = [mem EXCEPT !.index = IndexThrough(mem.index, mem.rows, mem.metric)]
  /\ step' = "rows"
  /\ UNCHANGED <<disk, entry, op, backup, acked>>

(* ... unless none is missing; a persist of no rows writes no pages, ...   *)
NothingToIndex ==
  /\ step = "index"
  /\ mem.index.rows >= mem.rows
  /\ IF op = "persist" THEN Goto(IF mem.rows = 0 THEN "metric" ELSE "pages")
     ELSE Return([mem EXCEPT !.pending = 0])
  /\ UNCHANGED disk

(* ... and writes indexed_rows.bin.                                        *)
WriteRows ==
  /\ step = "rows"
  /\ \/ Truncate("rows")
     \/ /\ Fill("rows", mem.index.rows)
        /\ \/ op = "soft" /\ Return(mem)
           \/ op = "open" /\ Goto("meta")
           \/ op = "persist" /\ Goto("pages")
           \/ op \in {"append", "sync", "scale"} /\ Goto("drain")

(* Mutant: every row is subtracted from the pending count.                 *)
DrainSubtracts ==
  /\ step = "drain"
  /\ Return([mem EXCEPT !.pending = mem.pending - mem.rows])
  /\ UNCHANGED disk

(* ensure_sync restarts the pending count, then releases pages.            *)
Drain ==
  /\ step = "drain"
  /\ Return([mem EXCEPT !.pending = 0])
  /\ UNCHANGED disk

(* persist_files: both page files are renamed into place, ...              *)
RenamePages ==
  /\ step = "pages"
  /\ backup' = [pages |-> disk.pages, edges |-> disk.edges]
  /\ disk' = [disk EXCEPT !.pages = mem.index]
  /\ step' = "edges"
  /\ UNCHANGED <<mem, entry, op, acked>>

RenameEdges ==
  /\ step = "edges"
  /\ disk' = [disk EXCEPT !.edges = mem.index]
  /\ Goto("header")

(* ... the header is written, ...                                          *)
WriteHeader ==
  /\ step = "header"
  /\ Truncate("header") \/ (Fill("header", mem.index.rows) /\ Goto("meta"))

(* ... and if any of it fails the page files are put back, as far as that  *)
(* is possible; the header is not.                                         *)
Undo(f, next) ==
  \/ backup[f] # None /\ Truncate(f)
  \/ backup[f] # None /\ Fill(f, backup[f]) /\ next
  \/ backup[f] = None /\ UNCHANGED disk /\ next
  \/ CanFail /\ UNCHANGED disk /\ next

UndoPages ==
  /\ step = "undo pages"
  /\ Undo("pages", Goto("undo edges"))

UndoEdges ==
  /\ step = "undo edges"
  /\ Undo("edges", Return(mem))

(* write_metadata, of an open and of a persist.                            *)
WriteMeta ==
  /\ step = "meta"
  /\ \/ Truncate("meta")
     \/ /\ Fill("meta", [n |-> mem.rows, indexed |-> mem.index.rows])
        /\ Goto(IF op = "open" THEN "counter" ELSE "recount")

RewriteRows ==
  /\ step = "recount"
  /\ Truncate("rows") \/ (Fill("rows", mem.index.rows) /\ Goto("metric"))

(* persist_metric: metric.bin is renamed into place, ...                   *)
RenameMetric ==
  /\ step = "metric"
  /\ disk' = [disk EXCEPT !.metric = mem.metric]
  /\ Goto("unmark")

(* Mutant: the marker stays.                                               *)
UnmarkForgotten ==
  /\ step = "unmark"
  /\ Return([mem EXCEPT !.pending = 0, !.dirty = FALSE])
  /\ UNCHANGED disk

(* ... and the marker removed; now the index is clean.                     *)
Unmark ==
  /\ step = "unmark"
  /\ disk' = [disk EXCEPT !.marker = FALSE]
  /\ Return([mem EXCEPT !.pending = 0, !.dirty = FALSE])

-----------------------------------------------------------------------------
(* A step returns an error.  Nothing of an operation was done if it is an  *)
(* open, or could not place the marker, or could not finish a detached     *)
(* build; any other keeps what it did.  The counter cannot fail.           *)
FailStep ==
  /\ CanFail
  /\ step \in Steps \ {"idle", "counter", "pages", "edges", "header",
                       "undo pages", "undo edges"}
  /\ step = "index" => mem.index.rows < mem.rows
  /\ Return(IF op \in {"open", "soft"} \/ step = "mark" THEN entry
            ELSE IF step = "drain" THEN [mem EXCEPT !.pending = 0] ELSE mem)
  /\ UNCHANGED disk

FailPersistFiles ==
  /\ CanFail
  /\ step \in {"pages", "edges", "header"}
  /\ backup' = IF step = "pages" THEN [pages |-> disk.pages, edges |-> disk.edges]
               ELSE backup
  /\ step' = "undo pages"
  /\ UNCHANGED <<disk, mem, entry, op, acked>>

(* The process is killed, or exits.                                        *)
Crash ==
  /\ mem # None
  /\ Return(None)
  /\ UNCHANGED disk

-----------------------------------------------------------------------------
Begin ==
  \/ BeginOpen
  \/ BeginAppend
  \/ BeginSync
  \/ BeginScale
  \/ BeginMetric
  \/ BeginSoft
  \/ BeginPersist
  \/ SkipPersist

Continue ==
  \/ Mark
  \/ Counter
  \/ BuildIndex
  \/ NothingToIndex
  \/ WriteRows
  \/ Drain
  \/ RenamePages
  \/ RenameEdges
  \/ WriteHeader
  \/ UndoPages
  \/ UndoEdges
  \/ WriteMeta
  \/ RewriteRows
  \/ RenameMetric
  \/ Unmark

Next == Begin \/ Continue \/ FailStep \/ FailPersistFiles \/ Crash

Spec == Init /\ [][Next]_vars

-----------------------------------------------------------------------------
(* Properties.                                                             *)

(* Whenever the process is killed, the row count the next open believes is *)
(* one whose rows were all written, and no row that was acknowledged is    *)
(* missing from it.                                                        *)
RecoveredRowsAreWritten ==
  acked <= KnownRows(disk) /\ KnownRows(disk) <= disk.data

(* Whenever the process is killed, an open that starts from the stored     *)
(* pages finds them readable, complete, written together, counted by their *)
(* header, no more than the rows it takes for indexed, and placed under    *)
(* the metric it asks for: a persist cut short is never trusted.           *)
TrustedIndexIsWhole ==
  \A m \in Metrics : ReadsIndex(disk, m, KnownRows(disk)) =>
    /\ disk.header \in Nat
    /\ disk.pages = [rows |-> disk.header, metrics |-> {m}]
    /\ disk.edges = disk.pages
    /\ disk.header <= IndexedRows(disk, m, KnownRows(disk))

(* When persist_index finds nothing to write, as it does after it returned *)
(* Ok, the files serve: an open under the same metric starts from the      *)
(* stored pages and has nothing left to index.                             *)
PersistedIndexIsReopened ==
  Idle /\ Rewritten /\ mem.rows > 0 =>
    /\ ReadsIndex(disk, mem.metric, mem.rows)
    /\ IndexedRows(disk, mem.metric, mem.rows) = mem.rows

(* What the caller sees, the operations being atomic.                      *)
Seen == IF op # "none" \/ mem = None THEN entry ELSE Held(mem, disk)

Durable == INSTANCE DurableBackend WITH db <- Seen

ImplementsDurableBackend == Durable!Spec
-----------------------------------------------------------------------------
(* The inductive invariant behind these properties, in parts.              *)

(* Which operation makes which write.                                      *)
OperationsOf(s) ==
  CASE s = "mark" -> {"metric", "scale", "persist"}
    [] s = "index" -> {"append", "sync", "scale", "persist"}
    [] s = "rows" -> {"open", "soft", "append", "sync", "scale", "persist"}
    [] s = "drain" -> {"append", "sync", "scale"}
    [] s = "counter" -> {"open", "append"}
    [] s = "meta" -> {"open", "persist"}
    [] s = "idle" -> {"none"}
    [] OTHER -> {"persist"}

StepInv ==
  /\ op \in OperationsOf(step)
  /\ step # "idle" => mem # None

MemInv ==
  /\ mem # None => Consistent(mem)
  /\ entry # None => Consistent(entry)

(* A count is stored only after its rows; all rows but those of an append  *)
(* or an open that is on its way are counted.                              *)
RowsInv ==
  /\ acked <= disk.count
  /\ entry # None /\ op # "append" => entry.rows = disk.count
  /\ mem # None =>
       /\ disk.count <= mem.rows /\ mem.rows <= disk.data
       /\ op # "open" /\ step # "counter" => mem.rows <= disk.count

After(s) == step \in
  CASE s = "rows" -> {"pages", "edges", "header", "meta", "recount"}
    [] s = "pages" -> {"edges", "header", "meta", "recount", "metric", "unmark"}
    [] s = "edges" -> {"header", "meta", "recount", "metric", "unmark"}
    [] s = "header" -> {"meta", "recount", "metric", "unmark"}
    [] s = "meta" -> {"recount", "metric", "unmark"}
    [] s = "recount" -> {"metric", "unmark"}
    [] s = "metric" -> {"unmark"}

(* What a sync has indexed and a persist has written so far.               *)
ProgressInv ==
  /\ op \in {"append", "sync", "scale"} /\ step \in {"rows", "drain"} =>
       mem.index.rows = mem.rows
  /\ op = "persist" =>
    /\ step # "mark" => disk.marker
    /\ step = "rows" \/ After("rows") => mem.rows > 0
    /\ step = "rows" \/ After("rows") \/ After("recount") => mem.index.rows = mem.rows
    /\ After("metric") => disk.metric = mem.metric
    /\ mem.rows > 0 =>
         /\ After("pages") => disk.pages = mem.index
         /\ After("edges") => disk.edges = mem.index
         /\ After("header") => disk.header = mem.rows
         /\ After("meta") => disk.meta = [n |-> mem.rows, indexed |-> mem.rows]
         /\ After("recount") => disk.rows = mem.rows

StoredMetric == IF disk.metric = None THEN Unscaled ELSE disk.metric

(* Without the marker the page files are those of one persist, and a count *)
(* of indexed rows is of no fewer rows, or zero.                           *)
FilesInv ==
  /\ disk.count <= disk.data
  /\ disk.meta \notin Unread => disk.meta.n <= disk.data
  /\ disk.header # None => disk.count > 0
  /\ ~disk.marker /\ disk.header # None =>
       /\ disk.header \in Nat
       /\ disk.pages = [rows |-> disk.header, metrics |-> {StoredMetric}]
       /\ disk.edges = disk.pages
       /\ disk.header <= disk.count
       /\ disk.rows \notin Unread => disk.rows = 0 \/ disk.header <= disk.rows
       /\ disk.meta \notin Unread => disk.meta.indexed = 0 \/ disk.header <= disk.meta.indexed

(* The same of a count about to be written.                                *)
IndexedInv ==
  ~disk.marker /\ disk.header # None =>
    /\ step = "rows" => disk.header <= mem.index.rows
    /\ step = "meta" => mem.index.rows = 0 \/ disk.header <= mem.index.rows

IInv ==
  /\ TypeOK
  /\ StepInv
  /\ MemInv
  /\ RowsInv
  /\ ProgressInv
  /\ FilesInv
  /\ IndexedInv

-----------------------------------------------------------------------------
(* What the refinement rests on: how far the working copy of an operation  *)
(* has come from the backend it began with.  Both have the same header.    *)
Working == [mem EXCEPT !.header = entry.header]

Indexed(b) == [b EXCEPT !.index = IndexThrough(b.index, b.rows, b.metric)]

SyncsFrom(b) ==
  /\ step = "index" => Working = b
  /\ step \in {"rows", "drain"} => Working = Indexed(b)

AppendsFrom(b) ==
  IF step = "counter" THEN Working = b
  ELSE b.pending >= HardThreshold /\ SyncsFrom(b)

RebuildsFrom(b) ==
  IF step = "mark" THEN Working = b ELSE SyncsFrom(b)

WorkInv ==
  /\ entry = None <=> op \in {"none", "open"}
  /\ mem # None => mem.header = 0
  /\ op = "open" => mem.cache = None
  /\ op = "append" => \E n \in 1 .. MaxBatch : AppendsFrom(NoteRows(entry, n))
  /\ op = "sync" => SyncsFrom(entry)
  /\ op = "scale" =>
       \/ step # "mark" /\ SyncsFrom(entry)
       \/ \E m \in Metrics : RebuildsFrom(RebuildUnder(entry, m))
  /\ op = "metric" =>
       \E m \in Metrics, rebuild \in BOOLEAN : Working = SetMetric(entry, m, rebuild)
  /\ op = "soft" =>
       SoftBuild(entry) # None /\ Working = SoftPublish(entry, SoftBuild(entry))
  /\ op = "persist" =>
       Working = IF step \in {"mark", "index"} THEN entry ELSE Indexed(entry)

(* No write but a persist's changes what the header counts.                *)
HeaderInv ==
  entry # None =>
    \/ DiskRows(disk) = entry.header
    \/ disk.header = Torn /\ step \in {"header", "undo pages", "undo edges"}
    \/ After("header")

(* No header counts rows that num_obs.bin does not, and an open has brought *)
(* back the rows of its header, if any.                                    *)
OpenInv ==
  /\ disk.header \notin Unread => disk.header <= disk.count
  /\ op = "open" =>
       /\ mem = OpenBackend(mem.rows, mem.index.rows, mem.metric, 0)
       /\ mem.index.rows > 0 => DiskRows(disk) \in 0 .. mem.index.rows

(* What PersistedIndexIsReopened rests on, where no write fails: a backend *)
(* is clean only if the files are those a persist or an open left, and is  *)
(* dirty before an operation changes them.                                 *)
Dirtying ==
  \/ op \in {"append", "soft", "metric"}
  \/ op = "scale" /\ step = "mark"
  \/ op \in {"sync", "scale"} /\ step \in {"rows", "drain"}

CleanInv ==
  /\ step \notin {"undo pages", "undo edges"}
  /\ Dirtying => mem.dirty
  /\ mem # None /\ op # "persist" /\ ~mem.dirty /\ mem.rows > 0 =>
       /\ ~disk.marker
       /\ StoredMetric = mem.metric
       /\ op # "open" \/ step = "counter" => mem.rows <= LoadRows(disk)
       /\ step = "meta" /\ disk.rows \notin Unread => mem.rows <= disk.rows
=============================================================================
