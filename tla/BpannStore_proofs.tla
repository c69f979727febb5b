-------------------------- MODULE BpannStore_proofs --------------------------
(***************************************************************************)
(* The files of a disk backend are safe to open again whenever the process *)
(* is killed, for any number of rows and metrics.                          *)
(***************************************************************************)
EXTENDS BpannStore, BpannBackend_proofs

(* Writing one file leaves the others as they are.                         *)
LEMMA DataFile ==
  ASSUME NEW d \in Files, NEW v \in Nat,
         NEW e, e = [d EXCEPT !.data = v]
  PROVE  /\ e \in Files /\ e.data = v
         /\ e.count = d.count /\ e.meta = d.meta /\ e.rows = d.rows /\ e.header = d.header
         /\ e.pages = d.pages /\ e.edges = d.edges /\ e.metric = d.metric /\ e.marker = d.marker
  BY DEF Files

LEMMA CountFile ==
  ASSUME NEW d \in Files, NEW v \in Nat,
         NEW e, e = [d EXCEPT !.count = v]
  PROVE  /\ e \in Files /\ e.count = v
         /\ e.data = d.data /\ e.meta = d.meta /\ e.rows = d.rows /\ e.header = d.header
         /\ e.pages = d.pages /\ e.edges = d.edges /\ e.metric = d.metric /\ e.marker = d.marker
  BY DEF Files

LEMMA MetaFile ==
  ASSUME NEW d \in Files, NEW v \in Meta \cup Unread,
         NEW e, e = [d EXCEPT !.meta = v]
  PROVE  /\ e \in Files /\ e.meta = v
         /\ e.data = d.data /\ e.count = d.count /\ e.rows = d.rows /\ e.header = d.header
         /\ e.pages = d.pages /\ e.edges = d.edges /\ e.metric = d.metric /\ e.marker = d.marker
  BY DEF Files

LEMMA RowsFile ==
  ASSUME NEW d \in Files, NEW v \in Nat \cup Unread,
         NEW e, e = [d EXCEPT !.rows = v]
  PROVE  /\ e \in Files /\ e.rows = v
         /\ e.data = d.data /\ e.count = d.count /\ e.meta = d.meta /\ e.header = d.header
         /\ e.pages = d.pages /\ e.edges = d.edges /\ e.metric = d.metric /\ e.marker = d.marker
  BY DEF Files

LEMMA HeaderFile ==
  ASSUME NEW d \in Files, NEW v \in Nat \cup Unread,
         NEW e, e = [d EXCEPT !.header = v]
  PROVE  /\ e \in Files /\ e.header = v
         /\ e.data = d.data /\ e.count = d.count /\ e.meta = d.meta /\ e.rows = d.rows
         /\ e.pages = d.pages /\ e.edges = d.edges /\ e.metric = d.metric /\ e.marker = d.marker
  BY DEF Files

LEMMA PagesFile ==
  ASSUME NEW d \in Files, NEW v \in Index \cup Unread,
         NEW e, e = [d EXCEPT !.pages = v]
  PROVE  /\ e \in Files /\ e.pages = v
         /\ e.data = d.data /\ e.count = d.count /\ e.meta = d.meta /\ e.rows = d.rows
         /\ e.header = d.header /\ e.edges = d.edges /\ e.metric = d.metric /\ e.marker = d.marker
  BY DEF Files

LEMMA EdgesFile ==
  ASSUME NEW d \in Files, NEW v \in Index \cup Unread,
         NEW e, e = [d EXCEPT !.edges = v]
  PROVE  /\ e \in Files /\ e.edges = v
         /\ e.data = d.data /\ e.count = d.count /\ e.meta = d.meta /\ e.rows = d.rows
         /\ e.header = d.header /\ e.pages = d.pages /\ e.metric = d.metric /\ e.marker = d.marker
  BY DEF Files

LEMMA MetricFile ==
  ASSUME NEW d \in Files, NEW v \in Metrics,
         NEW e, e = [d EXCEPT !.metric = v]
  PROVE  /\ e \in Files /\ e.metric = v
         /\ e.data = d.data /\ e.count = d.count /\ e.meta = d.meta /\ e.rows = d.rows
         /\ e.header = d.header /\ e.pages = d.pages /\ e.edges = d.edges /\ e.marker = d.marker
  BY DEF Files

-----------------------------------------------------------------------------
(* The header is not part of what makes a backend consistent.              *)
LEMMA HeaderChanged ==
  ASSUME NEW b, Consistent(b), NEW h \in Nat \cup {None}
  PROVE  /\ Consistent([b EXCEPT !.header = h])
         /\ [b EXCEPT !.header = h].rows = b.rows
  <1> DEFINE x == [b EXCEPT !.header = h]
  <1>1. b \in Backend
    BY DEF Consistent
  <1>2. /\ x \in Backend
        /\ x.rows = b.rows /\ x.index = b.index /\ x.pending = b.pending
        /\ x.metric = b.metric /\ x.dirty = b.dirty /\ x.cache = b.cache
    BY <1>1 DEF Backend
  <1>3. IndexConsistent(x) /\ PendingConsistent(x) /\ CacheConsistent(x) /\ CleanConsistent(x)
    BY <1>2 DEF Consistent, IndexConsistent, PendingConsistent, CacheConsistent,
                CleanConsistent
  <1> QED BY <1>2, <1>3 DEF Consistent

(* Zeroing the pending count is safe once the rows are indexed: before it  *)
(* a sync has indexed them all.                                            *)
LEMMA Drained ==
  ASSUME NEW b, Consistent(b), b.index.rows = b.rows
  PROVE  /\ Consistent([b EXCEPT !.pending = 0])
         /\ [b EXCEPT !.pending = 0].rows = b.rows
  <1>1. b \in Backend /\ b.rows \in Nat /\ b.index.rows = b.rows
    BY Fields DEF Consistent
  <1>2. IndexThrough(b.index, b.rows, b.metric) = b.index
    BY <1>1 DEF IndexThrough
  <1>3. [b EXCEPT !.index = b.index, !.pending = 0] = [b EXCEPT !.pending = 0]
    BY <1>1 DEF Backend
  <1> QED BY <1>2, <1>3, EnsureSyncConsistent DEF EnsureSync

LEMMA DrainedClean ==
  ASSUME NEW b, Consistent(b), b.index.rows = b.rows
  PROVE  /\ Consistent([b EXCEPT !.pending = 0, !.dirty = FALSE])
         /\ [b EXCEPT !.pending = 0, !.dirty = FALSE].rows = b.rows
  <1> DEFINE c == [b EXCEPT !.pending = 0]
  <1>1. Consistent(c) /\ c.rows = b.rows /\ c.index.rows = b.rows /\ c.header = b.header
        /\ c \in Backend /\ c.header \in Nat \cup {None}
    BY Drained, Fields DEF Consistent, Backend
  <1>2. /\ Consistent([c EXCEPT !.dirty = FALSE, !.header = c.header])
        /\ [c EXCEPT !.dirty = FALSE, !.header = c.header].rows = c.rows
    BY <1>1, HeaderConsistent
  <1>3. [c EXCEPT !.dirty = FALSE, !.header = c.header]
          = [b EXCEPT !.pending = 0, !.dirty = FALSE]
    BY <1>1 DEF Consistent, Backend
  <1> QED BY <1>1, <1>2, <1>3

LEMMA NoneIsNoBackend ==
  ASSUME NEW b, Consistent(b)
  PROVE  b # None
  BY StoreAssumption DEF Consistent

LEMMA DiskRowsType ==
  ASSUME NEW d \in Files
  PROVE  DiskRows(d) \in Nat \cup {None}
  BY DEF DiskRows, Files, Unread

(* An operation begins, ...                                                *)
LEMMA Started ==
  ASSUME IInv, mem = None \/ op = "none",
         NEW o \in Operations, NEW s \in Steps, NEW b, Start(o, s, b), Consistent(b),
         o \in OperationsOf(s), o # "persist" \/ s = "mark",
         o \in {"append", "sync", "scale"} => s \notin {"rows", "drain"},
         disk' \in Files, FilesInv', disk'.count = disk.count,
         disk.count <= b.rows, b.rows <= disk'.data,
         o = "open" \/ s = "counter" \/ b.rows = disk.count,
         IndexedInv'
  PROVE  IInv'
  <1> USE DEF IInv, Start
  <1>0. disk.count \in Nat
    BY DEF TypeOK, Files
  <1>1. entry' # None =>
          Consistent(entry') /\ entry'.rows = mem.rows /\ mem # None /\ op = "none"
    BY HeaderChanged, DiskRowsType DEF MemInv, TypeOK, Held
  <1>2. MemInv'
    BY <1>1 DEF MemInv
  <1>3. TypeOK'
    BY <1>2 DEF TypeOK, MemInv, Consistent
  <1>4. StepInv'
    BY NoneIsNoBackend DEF StepInv
  <1>5. entry' # None => entry'.rows = disk.count
    <2>1. op = "none" => step # "counter"
      BY DEF StepInv, OperationsOf
    <2>2. mem # None => mem.rows \in Nat
      BY Fields DEF MemInv
    <2> QED BY <1>0, <1>1, <2>1, <2>2 DEF RowsInv
  <1>6. RowsInv'
    BY <1>5 DEF RowsInv
  <1>7. ProgressInv'
    BY DEF ProgressInv, After
  <1> QED BY <1>2, <1>3, <1>4, <1>6, <1>7

(* ... goes on to its next write, ...                                      *)
LEMMA Moved ==
  ASSUME IInv, op # "none",
         NEW s \in Steps, Goto(s), op \in OperationsOf(s), s \notin {"idle", "counter"},
         step # "counter",
         disk' \in Files, FilesInv', disk'.count = disk.count, disk'.data = disk.data,
         ProgressInv', IndexedInv'
  PROVE  IInv'
  <1> USE DEF IInv, Goto
  <1>1. TypeOK'
    BY DEF TypeOK
  <1>2. StepInv'
    BY DEF StepInv, OperationsOf
  <1>3. MemInv'
    BY DEF MemInv
  <1>4. RowsInv'
    BY DEF RowsInv
  <1> QED BY <1>1, <1>2, <1>3, <1>4

(* ... truncates a file first, ...                                         *)
LEMMA Kept ==
  ASSUME IInv, UNCHANGED <<mem, entry, op, step, backup, acked>>,
         disk' \in Files, FilesInv', disk'.count = disk.count, disk'.data = disk.data,
         ProgressInv', IndexedInv'
  PROVE  IInv'
  <1> USE DEF IInv
  <1>1. TypeOK' /\ StepInv' /\ MemInv' /\ RowsInv'
    BY DEF TypeOK, StepInv, MemInv, RowsInv
  <1> QED BY <1>1

(* ... and returns.                                                        *)
LEMMA Returned ==
  ASSUME IInv, NEW b, b # None => Consistent(b) /\ b.rows = disk'.count,
         Return(b),
         disk' \in Files, FilesInv', acked <= disk'.count
  PROVE  IInv'
  <1> USE DEF IInv, Return
  <1>1. mem' # None => b # None /\ Consistent(mem') /\ mem'.rows = b.rows
    BY HeaderChanged
  <1>2. MemInv'
    BY <1>1 DEF MemInv
  <1>3. acked' \in Nat
    BY <1>1, Fields DEF TypeOK
  <1>4. TypeOK'
    BY <1>2, <1>3 DEF TypeOK, MemInv, Consistent, Operations, Steps, NoBackup, Unread
  <1>5. StepInv'
    BY DEF StepInv, OperationsOf
  <1>6. RowsInv'
    <2>1. disk'.count \in Nat /\ disk'.count <= disk'.data /\ disk'.count <= disk'.count
      BY DEF FilesInv, Files
    <2> QED BY <1>1, <2>1 DEF RowsInv
  <1>7. ProgressInv' /\ IndexedInv'
    BY DEF ProgressInv, IndexedInv
  <1> QED BY <1>2, <1>4, <1>5, <1>6, <1>7

-----------------------------------------------------------------------------
(* The steps of an operation, in the order of the module.                  *)
LEMMA IdleRows ==
  ASSUME IInv, mem # None, op # "open", step # "counter"
  PROVE  Consistent(mem) /\ mem.rows = disk.count /\ mem.rows \in Nat
  <1>1. Consistent(mem) /\ mem.rows \in Nat /\ disk.count \in Nat
    BY Fields DEF IInv, MemInv, TypeOK, Files
  <1> QED BY <1>1 DEF IInv, RowsInv

LEMMA MarkStep == IInv /\ Mark => IInv'
  <1> SUFFICES ASSUME IInv, Mark PROVE IInv'
    OBVIOUS
  <1> USE DEF IInv, Mark
  <1>1. /\ disk' \in Files /\ disk'.marker = TRUE
        /\ disk'.count = disk.count /\ disk'.data = disk.data
        /\ disk'.meta = disk.meta /\ disk'.header = disk.header
    BY DEF TypeOK, Files
  <1>2. mem # None /\ op \in {"metric", "scale", "persist"}
    BY DEF StepInv, OperationsOf
  <1>3. FilesInv'
    BY <1>1 DEF FilesInv
  <1>4. CASE op = "metric"
    BY <1>1, <1>2, <1>3, <1>4, IdleRows, Returned DEF RowsInv
  <1>5. CASE op # "metric"
    <2>1. ProgressInv' /\ IndexedInv'
      BY <1>1, <1>5 DEF ProgressInv, IndexedInv, After, Goto
    <2> QED BY <1>1, <1>2, <1>3, <1>5, <2>1, Moved DEF Steps, OperationsOf
  <1> QED BY <1>4, <1>5

LEMMA CounterStep == IInv /\ Counter => IInv'
  <1> SUFFICES ASSUME IInv, Counter PROVE IInv'
    OBVIOUS
  <1> USE DEF IInv, Counter
  <1>1. mem # None /\ op \in {"open", "append"}
    BY DEF StepInv, OperationsOf
  <1>2. /\ Consistent(mem) /\ mem.rows \in Nat /\ disk.count \in Nat
        /\ disk.count <= mem.rows /\ mem.rows <= disk.data
        /\ acked \in Nat /\ acked <= disk.count
    BY <1>1, Fields DEF MemInv, TypeOK, Files, RowsInv
  <1>3. /\ disk' \in Files /\ disk'.count = mem.rows
        /\ disk'.data = disk.data /\ disk'.meta = disk.meta /\ disk'.rows = disk.rows
        /\ disk'.header = disk.header /\ disk'.pages = disk.pages
        /\ disk'.edges = disk.edges /\ disk'.metric = disk.metric
        /\ disk'.marker = disk.marker
    BY <1>2, CountFile DEF TypeOK
  <1>4. FilesInv'
    BY <1>2, <1>3 DEF FilesInv, StoredMetric
  <1>5. CASE Return(mem)
    BY <1>2, <1>3, <1>4, <1>5, Returned
  <1>6. CASE Goto("index") /\ op = "append"
    <2>1. TypeOK' /\ StepInv' /\ MemInv'
      BY <1>1, <1>3, <1>6 DEF TypeOK, StepInv, MemInv, Goto, Steps, OperationsOf
    <2>2. RowsInv'
      BY <1>2, <1>3, <1>6 DEF RowsInv, Goto
    <2>3. ProgressInv' /\ IndexedInv'
      BY <1>6 DEF ProgressInv, IndexedInv, Goto
    <2> QED BY <1>4, <2>1, <2>2, <2>3
  <1> QED BY <1>5, <1>6

LEMMA BuildIndexStep == IInv /\ BuildIndex => IInv'
  <1> SUFFICES ASSUME IInv, BuildIndex PROVE IInv'
    OBVIOUS
  <1> USE DEF IInv, BuildIndex
  <1>1. mem # None /\ op \in {"append", "sync", "scale", "persist"}
    BY DEF StepInv, OperationsOf
  <1>2. Consistent(mem) /\ mem.rows = disk.count /\ mem.rows \in Nat
    BY <1>1, IdleRows
  <1>3. /\ Consistent(mem') /\ mem'.rows = mem.rows /\ mem'.index.rows = mem.rows
    BY <1>2, IndexedConsistent
  <1>4. mem.rows > 0
    <2>1. mem.index.rows \in Nat
      BY <1>2, Fields
    <2> QED BY <1>2, <2>1
  <1>5. TypeOK' /\ StepInv' /\ MemInv'
    BY <1>1, <1>3, NoneIsNoBackend
    DEF TypeOK, StepInv, MemInv, Steps, OperationsOf, Consistent
  <1>6. RowsInv'
    BY <1>1, <1>3, <1>2 DEF RowsInv
  <1>7. ProgressInv'
    BY <1>3, <1>4 DEF ProgressInv, After
  <1>8. FilesInv'
    BY DEF FilesInv, StoredMetric
  <1>9. IndexedInv'
    BY <1>2, <1>3 DEF IndexedInv, FilesInv
  <1> QED BY <1>5, <1>6, <1>7, <1>8, <1>9

LEMMA NothingToIndexStep == IInv /\ NothingToIndex => IInv'
  <1> SUFFICES ASSUME IInv, NothingToIndex PROVE IInv'
    OBVIOUS
  <1> USE DEF IInv, NothingToIndex
  <1>1. mem # None /\ op \in {"append", "sync", "scale", "persist"}
    BY DEF StepInv, OperationsOf
  <1>2. Consistent(mem) /\ mem.rows = disk.count /\ mem.rows \in Nat
    BY <1>1, IdleRows
  <1>3. mem.index.rows = mem.rows
    <2>1. mem.index.rows \in Nat /\ mem.index.rows <= mem.rows
      BY <1>2, Fields
    <2> QED BY <1>2, <2>1
  <1>4. disk' \in Files /\ FilesInv'
    BY DEF FilesInv, StoredMetric, TypeOK
  <1>5. CASE op # "persist"
    BY <1>2, <1>3, <1>4, <1>5, Drained, Returned DEF RowsInv
  <1>6. CASE op = "persist"
    <2>1. ProgressInv'
      BY <1>2, <1>3, <1>6 DEF ProgressInv, After, Goto
    <2>2. IndexedInv'
      BY <1>6 DEF IndexedInv, Goto
    <2> QED BY <1>4, <1>6, <2>1, <2>2, Moved DEF Steps, OperationsOf
  <1> QED BY <1>5, <1>6

(* indexed_rows.bin, written by a sync or by a persist.                    *)
LEMMA WriteRowsStep == IInv /\ WriteRows => IInv'
  <1> SUFFICES ASSUME IInv, WriteRows PROVE IInv'
    OBVIOUS
  <1> USE DEF IInv, WriteRows
  <1>1. mem # None /\ op \in {"open", "soft", "append", "sync", "scale", "persist"}
    BY DEF StepInv, OperationsOf
  <1>2. /\ Consistent(mem) /\ mem.rows \in Nat /\ mem.index.rows \in Nat
    BY <1>1, Fields DEF MemInv
  <1>3. PICK v \in Nat \cup Unread : /\ disk' = [disk EXCEPT !.rows = v]
                                     /\ v \notin Unread => v = mem.index.rows
    BY <1>2 DEF Truncate, Fill, Unread
  <1>4. /\ disk' \in Files /\ disk'.rows = v
        /\ disk'.data = disk.data /\ disk'.count = disk.count /\ disk'.meta = disk.meta
        /\ disk'.header = disk.header /\ disk'.pages = disk.pages
        /\ disk'.edges = disk.edges /\ disk'.metric = disk.metric
        /\ disk'.marker = disk.marker
    BY <1>3, RowsFile DEF TypeOK
  <1>5. FilesInv'
    BY <1>3, <1>4 DEF FilesInv, IndexedInv, StoredMetric
  <1>6. CASE Truncate("rows")
    <2>1. ProgressInv' /\ IndexedInv'
      BY <1>4, <1>6 DEF ProgressInv, IndexedInv, After, Truncate
    <2> QED BY <1>4, <1>5, <1>6, <2>1, Kept DEF Truncate
  <1>7. CASE op = "soft" /\ Return(mem)
    BY <1>1, <1>4, <1>5, <1>7, IdleRows, Returned DEF RowsInv
  <1>8. CASE op = "open" /\ Goto("meta")
    <2>1. ProgressInv' /\ IndexedInv'
      BY <1>4, <1>8 DEF ProgressInv, IndexedInv, Goto
    <2> QED BY <1>4, <1>5, <1>8, <2>1, Moved DEF Steps, OperationsOf
  <1>9. CASE op = "persist" /\ Goto("pages")
    <2>1. ProgressInv' /\ IndexedInv'
      BY <1>4, <1>9 DEF ProgressInv, IndexedInv, After, Goto
    <2> QED BY <1>4, <1>5, <1>9, <2>1, Moved DEF Steps, OperationsOf
  <1>10. CASE op \in {"append", "sync", "scale"} /\ Goto("drain")
    <2>1. ProgressInv' /\ IndexedInv'
      BY <1>4, <1>10 DEF ProgressInv, IndexedInv, After, Goto
    <2> QED BY <1>4, <1>5, <1>10, <2>1, Moved DEF Steps, OperationsOf
  <1> QED BY <1>6, <1>7, <1>8, <1>9, <1>10

LEMMA RenamePagesStep == IInv /\ RenamePages => IInv'
  <1> SUFFICES ASSUME IInv, RenamePages PROVE IInv'
    OBVIOUS
  <1> USE DEF IInv, RenamePages
  <1>1. mem # None /\ op = "persist" /\ disk.marker
    BY DEF StepInv, OperationsOf, ProgressInv
  <1>2. Consistent(mem) /\ mem.index \in Index
    BY <1>1, Fields DEF MemInv
  <1>3. /\ disk' \in Files /\ disk'.pages = mem.index
        /\ disk'.data = disk.data /\ disk'.count = disk.count /\ disk'.meta = disk.meta
        /\ disk'.header = disk.header /\ disk'.marker = disk.marker
    BY <1>2, PagesFile DEF TypeOK
  <1>4. FilesInv' /\ IndexedInv'
    BY <1>1, <1>3 DEF FilesInv, IndexedInv
  <1>5. ProgressInv'
    BY <1>1, <1>3 DEF ProgressInv, After
  <1>6. disk.pages \in Index \cup Unread /\ disk.edges \in Index \cup Unread
    BY DEF TypeOK, Files
  <1>7. TypeOK' /\ StepInv' /\ MemInv'
    BY <1>1, <1>3, <1>6 DEF TypeOK, Steps, StepInv, OperationsOf, MemInv
  <1>8. RowsInv'
    BY <1>1, <1>3 DEF RowsInv
  <1> QED BY <1>4, <1>5, <1>7, <1>8

LEMMA RenameEdgesStep == IInv /\ RenameEdges => IInv'
  <1> SUFFICES ASSUME IInv, RenameEdges PROVE IInv'
    OBVIOUS
  <1> USE DEF IInv, RenameEdges
  <1>1. mem # None /\ op = "persist" /\ disk.marker
    BY DEF StepInv, OperationsOf, ProgressInv
  <1>2. Consistent(mem) /\ mem.index \in Index
    BY <1>1, Fields DEF MemInv
  <1>3. /\ disk' \in Files /\ disk'.edges = mem.index /\ disk'.pages = disk.pages
        /\ disk'.data = disk.data /\ disk'.count = disk.count /\ disk'.meta = disk.meta
        /\ disk'.header = disk.header /\ disk'.marker = disk.marker
    BY <1>2, EdgesFile DEF TypeOK
  <1>4. FilesInv' /\ IndexedInv'
    BY <1>1, <1>3 DEF FilesInv, IndexedInv
  <1>5. ProgressInv'
    BY <1>1, <1>3 DEF ProgressInv, After, Goto
  <1> QED BY <1>1, <1>3, <1>4, <1>5, Moved DEF Steps, OperationsOf

LEMMA WriteHeaderStep == IInv /\ WriteHeader => IInv'
  <1> SUFFICES ASSUME IInv, WriteHeader PROVE IInv'
    OBVIOUS
  <1> USE DEF IInv, WriteHeader
  <1>1. mem # None /\ op = "persist" /\ disk.marker /\ mem.rows > 0 /\ mem.index.rows = mem.rows
    BY DEF StepInv, OperationsOf, ProgressInv, After
  <1>2. Consistent(mem) /\ mem.rows = disk.count /\ mem.rows \in Nat
    BY <1>1, IdleRows
  <1>3. PICK v \in Nat \cup Unread : /\ disk' = [disk EXCEPT !.header = v]
                                     /\ v \notin Unread => v = mem.rows
    BY <1>1, <1>2 DEF Truncate, Fill, Unread
  <1>4. /\ disk' \in Files /\ disk'.header = v
        /\ disk'.pages = disk.pages /\ disk'.edges = disk.edges
        /\ disk'.data = disk.data /\ disk'.count = disk.count /\ disk'.meta = disk.meta
        /\ disk'.marker = disk.marker
    BY <1>3, HeaderFile DEF TypeOK
  <1>5. FilesInv' /\ IndexedInv'
    BY <1>1, <1>2, <1>4 DEF FilesInv, IndexedInv
  <1>6. CASE Truncate("header")
    <2>1. ProgressInv'
      BY <1>4, <1>6 DEF ProgressInv, After, Truncate
    <2> QED BY <1>4, <1>5, <1>6, <2>1, Kept DEF Truncate
  <1>7. CASE Fill("header", mem.index.rows) /\ Goto("meta")
    <2>1. disk'.header = mem.rows
      BY <1>1, <1>7 DEF Fill, TypeOK, Files
    <2>2. ProgressInv'
      BY <1>4, <1>7, <2>1 DEF ProgressInv, After, Goto
    <2> QED BY <1>1, <1>4, <1>5, <1>7, <2>2, Moved DEF Steps, OperationsOf
  <1> QED BY <1>6, <1>7

LEMMA DrainStep == IInv /\ Drain => IInv'
  <1> SUFFICES ASSUME IInv, Drain PROVE IInv'
    OBVIOUS
  <1> USE DEF IInv, Drain
  <1>1. mem # None /\ op \in {"append", "sync", "scale"} /\ mem.index.rows = mem.rows
    BY DEF StepInv, OperationsOf, ProgressInv
  <1>2. Consistent(mem) /\ mem.rows = disk.count
    BY <1>1, IdleRows
  <1>3. disk' \in Files /\ FilesInv'
    BY DEF FilesInv, StoredMetric, TypeOK
  <1> QED BY <1>1, <1>2, <1>3, Drained, Returned DEF RowsInv

LEMMA WriteMetaStep == IInv /\ WriteMeta => IInv'
  <1> SUFFICES ASSUME IInv, WriteMeta PROVE IInv'
    OBVIOUS
  <1> USE DEF IInv, WriteMeta
  <1> DEFINE new == [n |-> mem.rows, indexed |-> mem.index.rows]
  <1>1. mem # None /\ op \in {"open", "persist"}
    BY DEF StepInv, OperationsOf
  <1>2. /\ Consistent(mem) /\ mem.rows \in Nat /\ mem.index.rows \in Nat
        /\ mem.rows <= disk.data
    BY <1>1, Fields DEF MemInv, RowsInv
  <1>3. new \in Meta /\ new.n = mem.rows /\ new.indexed = mem.index.rows
    BY <1>2 DEF Meta
  <1>4. PICK v \in Meta \cup Unread : /\ disk' = [disk EXCEPT !.meta = v]
                                      /\ v \notin Unread => v = new
    BY <1>3 DEF Truncate, Fill, Unread
  <1> HIDE DEF new
  <1>5. /\ disk' \in Files /\ disk'.meta = v
        /\ disk'.data = disk.data /\ disk'.count = disk.count /\ disk'.rows = disk.rows
        /\ disk'.header = disk.header /\ disk'.pages = disk.pages
        /\ disk'.edges = disk.edges /\ disk'.metric = disk.metric
        /\ disk'.marker = disk.marker
    BY <1>4, MetaFile DEF TypeOK
  <1>6. FilesInv'
    BY <1>2, <1>3, <1>4, <1>5 DEF FilesInv, IndexedInv, StoredMetric
  <1>7. CASE Truncate("meta")
    <2>1. ProgressInv' /\ IndexedInv'
      BY <1>5, <1>7 DEF ProgressInv, IndexedInv, After, Truncate
    <2> QED BY <1>5, <1>6, <1>7, <2>1, Kept DEF Truncate
  <1>8. CASE op = "open" /\ Fill("meta", new) /\ Goto("counter")
    <2>1. TypeOK' /\ StepInv' /\ MemInv'
      BY <1>1, <1>5, <1>8 DEF TypeOK, StepInv, MemInv, Goto, Steps, OperationsOf
    <2>2. RowsInv' /\ ProgressInv' /\ IndexedInv'
      BY <1>5, <1>8 DEF RowsInv, ProgressInv, IndexedInv, Goto
    <2> QED BY <1>6, <2>1, <2>2
  <1>9. CASE op = "persist" /\ Fill("meta", new) /\ Goto("recount")
    <2>1. disk'.meta = new
      BY <1>9 DEF Fill, TypeOK, Files
    <2>2. mem.index.rows = mem.rows
      BY <1>9 DEF ProgressInv, After
    <2>3. disk'.meta = [n |-> mem.rows, indexed |-> mem.rows]
      BY <2>1, <2>2 DEF new
    <2>4. ProgressInv' /\ IndexedInv'
      BY <1>5, <1>9, <2>3 DEF ProgressInv, IndexedInv, After, Goto
    <2> QED BY <1>5, <1>6, <1>9, <2>4, Moved DEF Steps, OperationsOf
  <1> QED BY <1>1, <1>7, <1>8, <1>9 DEF new

LEMMA RewriteRowsStep == IInv /\ RewriteRows => IInv'
  <1> SUFFICES ASSUME IInv, RewriteRows PROVE IInv'
    OBVIOUS
  <1> USE DEF IInv, RewriteRows
  <1>1. mem # None /\ op = "persist" /\ disk.marker /\ mem.index.rows = mem.rows
    BY DEF StepInv, OperationsOf, ProgressInv, After
  <1>2. mem.rows \in Nat
    BY <1>1, Fields DEF MemInv
  <1>3. PICK v \in Nat \cup Unread : disk' = [disk EXCEPT !.rows = v]
    BY <1>1, <1>2 DEF Truncate, Fill, Unread
  <1>4. /\ disk' \in Files
        /\ disk'.data = disk.data /\ disk'.count = disk.count /\ disk'.meta = disk.meta
        /\ disk'.header = disk.header /\ disk'.pages = disk.pages
        /\ disk'.edges = disk.edges /\ disk'.marker = disk.marker
    BY <1>3, RowsFile DEF TypeOK
  <1>5. FilesInv' /\ IndexedInv'
    BY <1>1, <1>4 DEF FilesInv, IndexedInv
  <1>6. CASE Truncate("rows")
    <2>1. ProgressInv'
      BY <1>4, <1>6 DEF ProgressInv, After, Truncate
    <2> QED BY <1>4, <1>5, <1>6, <2>1, Kept DEF Truncate
  <1>7. CASE Fill("rows", mem.index.rows) /\ Goto("metric")
    <2>1. disk'.rows = mem.rows
      BY <1>1, <1>7 DEF Fill, TypeOK, Files
    <2>2. ProgressInv'
      BY <1>4, <1>7, <2>1 DEF ProgressInv, After, Goto
    <2> QED BY <1>1, <1>4, <1>5, <1>7, <2>2, Moved DEF Steps, OperationsOf
  <1> QED BY <1>6, <1>7

LEMMA RenameMetricStep == IInv /\ RenameMetric => IInv'
  <1> SUFFICES ASSUME IInv, RenameMetric PROVE IInv'
    OBVIOUS
  <1> USE DEF IInv, RenameMetric
  <1>1. mem # None /\ op = "persist" /\ disk.marker
    BY DEF StepInv, OperationsOf, ProgressInv, After
  <1>2. mem.metric \in Metrics
    BY <1>1, Fields DEF MemInv
  <1>3. /\ disk' \in Files /\ disk'.metric = mem.metric
        /\ disk'.data = disk.data /\ disk'.count = disk.count /\ disk'.meta = disk.meta
        /\ disk'.rows = disk.rows
        /\ disk'.header = disk.header /\ disk'.pages = disk.pages
        /\ disk'.edges = disk.edges /\ disk'.marker = disk.marker
    BY <1>2, MetricFile DEF TypeOK
  <1>4. FilesInv' /\ IndexedInv'
    BY <1>1, <1>3 DEF FilesInv, IndexedInv
  <1>5. ProgressInv'
    BY <1>1, <1>3 DEF ProgressInv, After, Goto
  <1> QED BY <1>1, <1>3, <1>4, <1>5, Moved DEF Steps, OperationsOf

(* The marker is removed when everything else is in place.                 *)
LEMMA UnmarkStep == IInv /\ Unmark => IInv'
  <1> SUFFICES ASSUME IInv, Unmark PROVE IInv'
    OBVIOUS
  <1> USE DEF IInv, Unmark
  <1>1. mem # None /\ op = "persist"
    BY DEF StepInv, OperationsOf
  <1>2. Consistent(mem) /\ mem.rows = disk.count /\ mem.rows \in Nat
    BY <1>1, IdleRows
  <1>3. mem.index.rows = mem.rows /\ disk.metric = mem.metric
    BY <1>1 DEF ProgressInv, After
  <1>4. /\ disk' \in Files /\ disk'.marker = FALSE
        /\ disk'.data = disk.data /\ disk'.count = disk.count /\ disk'.rows = disk.rows
        /\ disk'.meta = disk.meta /\ disk'.header = disk.header
        /\ disk'.pages = disk.pages /\ disk'.edges = disk.edges
        /\ disk'.metric = disk.metric
    BY DEF TypeOK, Files
  <1>5. ASSUME disk.header # None
        PROVE  /\ disk.header = mem.rows /\ disk.pages = mem.index /\ disk.edges = mem.index
               /\ disk.rows = mem.rows /\ disk.meta.indexed = mem.rows
    <2>1. mem.rows > 0
      BY <1>2, <1>5 DEF FilesInv
    <2>2. disk.meta = [n |-> mem.rows, indexed |-> mem.rows]
      BY <1>1, <2>1 DEF ProgressInv, After
    <2> QED BY <1>1, <2>1, <2>2 DEF ProgressInv, After
  <1>6. ASSUME disk.header # None
        PROVE  mem.index = [rows |-> mem.rows, metrics |-> {mem.metric}]
    <2>1. mem.rows > 0
      BY <1>2, <1>6 DEF FilesInv
    <2>2. mem.index \in Index /\ mem.index.metrics = IF mem.index.rows = 0 THEN {} ELSE {mem.metric}
      BY <1>2, Fields
    <2>3. mem.index.metrics = {mem.metric}
      BY <1>2, <1>3, <2>1, <2>2
    <2> QED BY <1>3, <2>2, <2>3 DEF Index
  <1>7. mem.metric # None
    BY <1>2, Fields, StoreAssumption
  <1>8. FilesInv'
    <2>1. CASE disk.header = None
      BY <1>4, <2>1 DEF FilesInv
    <2>2. CASE disk.header # None
      <3>1. StoredMetric' = mem.metric
        BY <1>3, <1>4, <1>7 DEF StoredMetric
      <3>2. mem.rows <= mem.rows
        BY <1>2
      <3> QED BY <1>2, <1>4, <1>5, <1>6, <2>2, <3>1, <3>2 DEF FilesInv
    <2> QED BY <2>1, <2>2
  <1> QED BY <1>2, <1>3, <1>4, <1>8, DrainedClean, Returned DEF RowsInv

(* The rollback writes page files, under the marker.                       *)
LEMMA UndoStep == IInv /\ (UndoPages \/ UndoEdges) => IInv'
  <1> SUFFICES ASSUME IInv, UndoPages \/ UndoEdges PROVE IInv'
    OBVIOUS
  <1> USE DEF IInv
  <1>1. mem # None /\ op = "persist" /\ disk.marker
    BY DEF StepInv, OperationsOf, ProgressInv, UndoPages, UndoEdges
  <1>2. Consistent(mem) /\ mem.rows = disk.count /\ mem.rows \in Nat
    BY <1>1, IdleRows DEF UndoPages, UndoEdges
  <1>3. backup.pages \in Index \cup Unread /\ backup.edges \in Index \cup Unread
    BY DEF TypeOK
  <1>4. \E v \in Index \cup Unread :
          \/ disk' = disk
          \/ disk' = [disk EXCEPT !.pages = v]
          \/ disk' = [disk EXCEPT !.edges = v]
    BY <1>3 DEF UndoPages, UndoEdges, Undo, Truncate, Fill, Unread
  <1>5. /\ disk' \in Files
        /\ disk'.data = disk.data /\ disk'.count = disk.count /\ disk'.meta = disk.meta
        /\ disk'.header = disk.header /\ disk'.marker = disk.marker
    BY <1>4, PagesFile, EdgesFile DEF TypeOK
  <1>6. FilesInv' /\ IndexedInv'
    BY <1>1, <1>5 DEF FilesInv, IndexedInv
  <1>7. CASE UNCHANGED <<mem, entry, op, step, backup, acked>>
    <2>1. ProgressInv'
      BY <1>1, <1>5, <1>7 DEF ProgressInv, After, UndoPages, UndoEdges
    <2> QED BY <1>5, <1>6, <1>7, <2>1, Kept
  <1>8. CASE Goto("undo edges")
    <2>1. ProgressInv'
      BY <1>1, <1>5, <1>8 DEF ProgressInv, After, Goto
    <2> QED BY <1>1, <1>5, <1>6, <1>8, <2>1, Moved
        DEF Steps, OperationsOf, UndoPages, UndoEdges
  <1>9. CASE Return(mem)
    BY <1>2, <1>5, <1>6, <1>9, Returned DEF RowsInv
  <1> QED BY <1>7, <1>8, <1>9 DEF UndoPages, UndoEdges, Undo, Truncate

LEMMA FailPersistFilesStep == IInv /\ FailPersistFiles => IInv'
  <1> SUFFICES ASSUME IInv, FailPersistFiles PROVE IInv'
    OBVIOUS
  <1> USE DEF IInv, FailPersistFiles
  <1>1. mem # None /\ op = "persist" /\ disk.marker
    BY DEF StepInv, OperationsOf, ProgressInv
  <1>2. disk.pages \in Index \cup Unread /\ disk.edges \in Index \cup Unread
    BY DEF TypeOK, Files
  <1>3. TypeOK' /\ StepInv' /\ MemInv'
    BY <1>1, <1>2 DEF TypeOK, Steps, StepInv, OperationsOf, MemInv
  <1>4. RowsInv' /\ ProgressInv' /\ FilesInv' /\ IndexedInv'
    BY <1>1 DEF RowsInv, ProgressInv, After, FilesInv, IndexedInv, StoredMetric
  <1> QED BY <1>3, <1>4

(* An error leaves what the operation did, or what it started from.        *)
LEMMA FailStepStep == IInv /\ FailStep => IInv'
  <1> SUFFICES ASSUME IInv, FailStep PROVE IInv'
    OBVIOUS
  <1> USE DEF IInv, FailStep
  <1>1. mem # None /\ step # "counter" /\ step # "idle" /\ op # "none"
    BY DEF StepInv, OperationsOf, Steps
  <1>2. disk' \in Files /\ FilesInv' /\ acked <= disk'.count
    BY DEF FilesInv, StoredMetric, TypeOK, RowsInv
  <1>3. CASE op \in {"open", "soft"} \/ step = "mark"
    <2>1. Return(entry) /\ op # "append"
      BY <1>3 DEF StepInv, OperationsOf
    <2>2. entry # None => Consistent(entry) /\ entry.rows = disk'.count
      BY <2>1 DEF MemInv, RowsInv
    <2> QED BY <1>2, <2>1, <2>2, Returned
  <1>4. CASE op \notin {"open", "soft"} /\ step # "mark"
    <2>1. Consistent(mem) /\ mem.rows = disk'.count
      BY <1>1, <1>4, IdleRows
    <2>2. CASE step = "drain"
      <3>1. mem.index.rows = mem.rows
        BY <2>2 DEF ProgressInv, StepInv, OperationsOf
      <3> QED BY <1>2, <1>4, <2>1, <2>2, <3>1, Drained, Returned
    <2>3. CASE step # "drain"
      BY <1>2, <1>4, <2>1, <2>3, Returned
    <2> QED BY <2>2, <2>3
  <1> QED BY <1>3, <1>4

LEMMA CrashStep == IInv /\ Crash => IInv'
  <1> SUFFICES ASSUME IInv, Crash PROVE IInv'
    OBVIOUS
  <1>1. disk' \in Files /\ FilesInv' /\ acked <= disk'.count
    BY DEF IInv, Crash, FilesInv, StoredMetric, TypeOK, RowsInv
  <1> QED BY <1>1, Returned DEF Crash

(* Operations that begin without a write.                                  *)
LEMMA BeginStep ==
  IInv /\ (BeginSync \/ BeginPersist \/ BeginMetric \/ BeginScale \/ BeginSoft) => IInv'
  <1> SUFFICES ASSUME IInv,
                      BeginSync \/ BeginPersist \/ BeginMetric \/ BeginScale \/ BeginSoft
               PROVE  IInv'
    OBVIOUS
  <1> USE DEF IInv
  <1>1. mem # None /\ op = "none" /\ step = "idle"
    BY DEF BeginSync, BeginPersist, BeginMetric, BeginScale, BeginSoft, Idle,
           StepInv, OperationsOf
  <1>2. /\ Consistent(mem) /\ mem.rows = disk.count /\ mem.rows \in Nat
        /\ mem.rows <= disk.data
    BY <1>1, IdleRows DEF RowsInv
  <1>3. disk' = disk /\ disk' \in Files /\ FilesInv'
    BY DEF BeginSync, BeginPersist, BeginMetric, BeginScale, BeginSoft, FilesInv,
           StoredMetric, TypeOK
  <1> DEFINE Begins(o, s, b) ==
               /\ Start(o, s, b) /\ Consistent(b) /\ b.rows = mem.rows
               /\ o \in OperationsOf(s) /\ (o # "persist" \/ s = "mark")
               /\ s \in {"mark", "index", "rows"}
               /\ s = "rows" => o = "soft" /\ b.index.rows = mem.rows
  <1>4. \E o \in Operations, s \in Steps : \E b : Begins(o, s, b)
    <2>1. CASE BeginSync
      BY <1>2, <2>1 DEF BeginSync, Operations, Steps, OperationsOf
    <2>2. CASE BeginPersist
      BY <1>2, <2>2 DEF BeginPersist, Operations, Steps, OperationsOf
    <2>3. CASE BeginMetric
      <3>1. PICK m \in Metrics, rebuild \in BOOLEAN :
              Start("metric", "mark", SetMetric(mem, m, rebuild))
        BY <2>3 DEF BeginMetric
      <3> QED BY <1>2, <3>1, SetMetricConsistent DEF Operations, Steps, OperationsOf
    <2>4. CASE BeginScale
      <3>1. PICK m \in Metrics : \/ Start("scale", "index", mem)
                                 \/ Start("scale", "mark", RebuildUnder(mem, m))
        BY <2>4, BackendAssumption DEF BeginScale
      <3> QED BY <1>2, <3>1, RebuildConsistent DEF Operations, Steps, OperationsOf
    <2>5. CASE BeginSoft
      <3> DEFINE built == SoftBuild(mem)
      <3>1. /\ mem.rows # 0 /\ built = [rows |-> mem.rows, metrics |-> {mem.metric}]
            /\ Start("soft", "rows", SoftPublish(mem, built))
        BY <1>2, <2>5, SoftBuildCurrent, StoreAssumption DEF BeginSoft
      <3>2. /\ Consistent(SoftPublish(mem, built)) /\ SoftPublish(mem, built).rows = mem.rows
        BY <1>2, <3>1, PublishConsistent
      <3>3. SoftPublish(mem, built).index = built
        BY <1>2 DEF SoftPublish, Consistent, Backend
      <3>4. SoftPublish(mem, built).index.rows = mem.rows
        BY <3>1, <3>3
      <3> QED BY <3>1, <3>2, <3>4 DEF Operations, Steps, OperationsOf
    <2> QED BY <2>1, <2>2, <2>3, <2>4, <2>5
  <1>5. PICK o \in Operations, s \in Steps : \E b : Begins(o, s, b)
    BY <1>4
  <1>6. PICK b : Begins(o, s, b)
    BY <1>5
  <1>7. IndexedInv'
    BY <1>2, <1>3, <1>6 DEF IndexedInv, FilesInv, Start
  <1>8. disk.count <= b.rows /\ b.rows <= disk'.data
    BY <1>2, <1>3, <1>6
  <1> QED BY <1>1, <1>2, <1>3, <1>6, <1>7, <1>8, Started

LEMMA BeginAppendStep == IInv /\ BeginAppend => IInv'
  <1> SUFFICES ASSUME IInv, BeginAppend PROVE IInv'
    OBVIOUS
  <1> USE DEF IInv
  <1>1. mem # None /\ op = "none" /\ step = "idle"
    BY DEF BeginAppend, Idle, StepInv, OperationsOf
  <1>2. Consistent(mem) /\ mem.rows = disk.count /\ mem.rows \in Nat /\ disk.data \in Nat
    BY <1>1, IdleRows DEF TypeOK, Files
  <1>3. PICK n \in 1 .. MaxBatch :
          /\ disk' = [disk EXCEPT !.data = Larger(disk.data, mem.rows + n)]
          /\ Start("append", "counter", NoteRows(mem, n))
    BY DEF BeginAppend
  <1>4. n \in Nat
    BY StoreAssumption
  <1>5. /\ Larger(disk.data, mem.rows + n) \in Nat
        /\ disk.data <= Larger(disk.data, mem.rows + n)
        /\ mem.rows + n <= Larger(disk.data, mem.rows + n)
        /\ disk.count <= mem.rows + n
    BY <1>2, <1>4 DEF Larger
  <1>6. /\ disk' \in Files /\ disk'.data = Larger(disk.data, mem.rows + n)
        /\ disk'.count = disk.count /\ disk'.meta = disk.meta /\ disk'.rows = disk.rows
        /\ disk'.header = disk.header /\ disk'.pages = disk.pages
        /\ disk'.edges = disk.edges /\ disk'.metric = disk.metric
        /\ disk'.marker = disk.marker
    BY <1>3, <1>5, DataFile DEF TypeOK
  <1>7. FilesInv'
    <2>1. disk'.count <= disk'.data
      BY <1>2, <1>5, <1>6 DEF FilesInv
    <2>2. disk'.meta \notin Unread => disk'.meta.n <= disk'.data
      <3>1. disk.meta \notin Unread => disk.meta.n \in Nat /\ disk.meta.n <= disk.data
        BY DEF FilesInv, TypeOK, Files, Meta
      <3> QED BY <1>2, <1>5, <1>6, <3>1
    <2> QED BY <1>6, <2>1, <2>2 DEF FilesInv, StoredMetric
  <1>8. Consistent(NoteRows(mem, n)) /\ NoteRows(mem, n).rows = mem.rows + n
    BY <1>2, <1>4, NoteRowsConsistent
  <1>9. IndexedInv'
    BY <1>3 DEF IndexedInv, Start
  <1> QED BY <1>1, <1>3, <1>5, <1>6, <1>7, <1>8, <1>9, Started
      DEF Operations, Steps, OperationsOf

LEMMA SkipPersistStep == IInv /\ SkipPersist => IInv'
  <1> SUFFICES ASSUME IInv, SkipPersist PROVE IInv'
    OBVIOUS
  <1> USE DEF IInv, SkipPersist
  <1>1. mem # None /\ op = "none" /\ step = "idle" /\ ~mem.dirty
    BY DEF Idle, Rewritten, StepInv, OperationsOf
  <1>2. Consistent(mem) /\ mem.rows = disk.count /\ mem.index.rows = mem.rows
    BY <1>1, IdleRows DEF Consistent, CleanConsistent
  <1>3. disk' \in Files /\ FilesInv'
    BY DEF FilesInv, StoredMetric, TypeOK
  <1> QED BY <1>2, <1>3, DrainedClean, Returned DEF RowsInv, PersistSkipped

-----------------------------------------------------------------------------
(* What an open finds.                                                     *)
LEMMA KnownRowsBounds ==
  ASSUME IInv
  PROVE  /\ KnownRows(disk) \in Nat /\ disk.count \in Nat /\ disk.data \in Nat
         /\ disk.count <= KnownRows(disk) /\ KnownRows(disk) <= disk.data
  <1>1. /\ disk.count \in Nat /\ disk.data \in Nat
        /\ disk.meta \notin Unread => disk.meta.n \in Nat
    BY DEF IInv, TypeOK, Files, Meta
  <1> QED BY <1>1 DEF IInv, FilesInv, KnownRows, Larger

LEMMA IndexedRowsBounds ==
  ASSUME IInv, NEW m, NEW n \in Nat
  PROVE  IndexedRows(disk, m, n) \in 0 .. n
  <1>1. LoadRows(disk) \in Nat
    BY DEF IInv, TypeOK, Files, Meta, LoadRows
  <1> QED BY <1>1 DEF IndexedRows, Smaller

LEMMA OpenFindsPages ==
  ASSUME IInv, NEW m \in Metrics, NEW n \in Nat, disk.count <= n, ReadsIndex(disk, m, n)
  PROVE  /\ disk.header \in Nat
         /\ disk.pages = [rows |-> disk.header, metrics |-> {m}]
         /\ disk.edges = disk.pages
         /\ disk.header <= IndexedRows(disk, m, n)
  <1>1. ~disk.marker /\ m = StoredMetric /\ disk.header # None /\ IndexedRows(disk, m, n) > 0
    BY DEF ReadsIndex, IndexedRows, MetricMatches, StoredMetric
  <1>2. /\ disk.header \in Nat /\ disk.header <= disk.count
        /\ disk.pages = [rows |-> disk.header, metrics |-> {m}]
        /\ disk.edges = disk.pages
    BY <1>1 DEF IInv, FilesInv
  <1>3. disk.count \in Nat /\ LoadRows(disk) \in Nat
    BY DEF IInv, TypeOK, Files, Meta, LoadRows
  <1>4. LoadRows(disk) = 0 \/ disk.header <= LoadRows(disk)
    BY <1>1 DEF IInv, FilesInv, LoadRows
  <1>5. IndexedRows(disk, m, n) = Smaller(LoadRows(disk), n)
    BY <1>1 DEF IndexedRows
  <1>6. disk.header <= IndexedRows(disk, m, n)
    BY <1>1, <1>2, <1>3, <1>4, <1>5 DEF Smaller
  <1> QED BY <1>2, <1>6

(* It leaves the backend the rows and the index make, whichever of the     *)
(* index's rows the stored pages have.                                     *)
LEMMA OpenBegun ==
  ASSUME IInv, BeginOpen
  PROVE  \E m \in Metrics, n \in Nat : \E i \in 0 .. n, s \in {"rows", "meta"} :
           /\ i = IndexedRows(disk, m, n)
           /\ disk.count <= n
           /\ disk' = [disk EXCEPT !.data = Larger(disk.data, n)]
           /\ Start("open", s, OpenBackend(n, i, m, 0))
           /\ disk.header # None => disk.header <= i \/ (s = "meta" /\ i = 0)
           /\ i > 0 => DiskRows(disk) \in 0 .. i
  <1>1. PICK m \in Metrics, k \in 0 .. MaxBatch :
          LET n == IF KnownRows(disk) = 0 THEN k ELSE KnownRows(disk)
              i == IndexedRows(disk, m, n)
              persisted == IF ReadsIndex(disk, m, n) THEN disk.header ELSE 0
              stored == IF ReadsIndex(disk, m, n) THEN disk.pages.metrics ELSE {}
              opened == OpenBackend(n, i, m, 0)
          IN /\ disk' = [disk EXCEPT !.data = Larger(disk.data, n)]
             /\ Start("open", IF persisted < i THEN "rows" ELSE "meta",
                      [opened EXCEPT !.index.metrics =
                         stored \cup IF persisted < i THEN {m} ELSE {}])
    BY DEF BeginOpen
  <1> DEFINE n == IF KnownRows(disk) = 0 THEN k ELSE KnownRows(disk)
             i == IndexedRows(disk, m, n)
             persisted == IF ReadsIndex(disk, m, n) THEN disk.header ELSE 0
             stored == IF ReadsIndex(disk, m, n) THEN disk.pages.metrics ELSE {}
             added == IF persisted < i THEN {m} ELSE {}
             opened == OpenBackend(n, i, m, 0)
  <1>2. n \in Nat /\ disk.count <= n /\ disk.count \in Nat /\ disk.data \in Nat
    BY KnownRowsBounds, StoreAssumption
  <1>3. i \in 0 .. n
    BY <1>2, IndexedRowsBounds
  <1>4. ReadsIndex(disk, m, n) =>
          /\ disk.header \in Nat /\ disk.header <= i /\ i > 0
          /\ persisted = disk.header /\ stored = {m}
    <2>1. SUFFICES ASSUME ReadsIndex(disk, m, n)
                   PROVE  /\ disk.header \in Nat /\ disk.header <= i /\ i > 0
                          /\ persisted = disk.header /\ stored = {m}
      OBVIOUS
    <2>2. persisted = disk.header /\ stored = disk.pages.metrics /\ i > 0
      BY <2>1 DEF ReadsIndex
    <2> HIDE DEF n, persisted, stored
    <2>3. /\ disk.header \in Nat /\ disk.header <= i
          /\ disk.pages = [rows |-> disk.header, metrics |-> {m}]
      BY <1>2, <2>1, OpenFindsPages
    <2>4. disk.pages.metrics = {m}
      BY <2>3
    <2> QED BY <2>2, <2>3, <2>4
  <1>5. ~ReadsIndex(disk, m, n) =>
          persisted = 0 /\ stored = {} /\ (disk.header # None => i = 0)
    BY <1>3 DEF ReadsIndex
  <1>6. stored \cup added = IF i = 0 THEN {} ELSE {m}
    BY <1>3, <1>4, <1>5
  <1>7. [opened EXCEPT !.index.metrics = stored \cup added] = opened
    <2> DEFINE all == stored \cup added
               ix == opened.index
    <2> HIDE DEF n, i, stored, added
    <2>1. ix = [rows |-> i, metrics |-> all] /\ [ix EXCEPT !.metrics = all] = ix
      BY <1>6 DEF OpenBackend
    <2>2. [opened EXCEPT !.index = ix] = opened
      BY DEF OpenBackend
    <2> QED BY <2>1, <2>2
  <1>8. disk' = [disk EXCEPT !.data = Larger(disk.data, n)]
    BY <1>1
  <1> DEFINE s == IF persisted < i THEN "rows" ELSE "meta"
  <1>9. Start("open", s, opened)
    BY <1>1, <1>7
  <1>10. disk.header # None => disk.header <= i \/ (s = "meta" /\ i = 0)
    BY <1>3, <1>4, <1>5
  <1>11. i > 0 => DiskRows(disk) \in 0 .. i
    <2>1. CASE ReadsIndex(disk, m, n)
      <3>1. disk.header \notin Unread
        BY <1>4, <2>1, StoreAssumption DEF Unread
      <3> HIDE DEF n, i
      <3> QED BY <1>4, <2>1, <3>1 DEF DiskRows, Unread
    <2>2. CASE ~ReadsIndex(disk, m, n)
      <3> HIDE DEF n, i
      <3>1. i = 0 \/ DiskRows(disk) = 0
        BY <1>5, <2>2 DEF DiskRows
      <3> QED BY <1>3, <3>1
    <2> QED BY <2>1, <2>2
  <1>12. i = IndexedRows(disk, m, n) /\ s \in {"rows", "meta"}
    OBVIOUS
  <1>13. opened = OpenBackend(n, i, m, 0)
    OBVIOUS
  <1> HIDE DEF n, i, s, opened
  <1> QED BY <1>2, <1>3, <1>8, <1>9, <1>10, <1>11, <1>12, <1>13

LEMMA BeginOpenStep == IInv /\ BeginOpen => IInv'
  <1> SUFFICES ASSUME IInv, BeginOpen PROVE IInv'
    OBVIOUS
  <1>1. PICK m \in Metrics, n \in Nat : \E i \in 0 .. n, s \in {"rows", "meta"} :
           /\ i = IndexedRows(disk, m, n)
           /\ disk.count <= n
           /\ disk' = [disk EXCEPT !.data = Larger(disk.data, n)]
           /\ Start("open", s, OpenBackend(n, i, m, 0))
           /\ disk.header # None => disk.header <= i \/ (s = "meta" /\ i = 0)
           /\ i > 0 => DiskRows(disk) \in 0 .. i
    BY OpenBegun
  <1>2. PICK i \in 0 .. n, s \in {"rows", "meta"} :
           /\ disk.count <= n
           /\ disk' = [disk EXCEPT !.data = Larger(disk.data, n)]
           /\ Start("open", s, OpenBackend(n, i, m, 0))
           /\ disk.header # None => disk.header <= i \/ (s = "meta" /\ i = 0)
    BY <1>1
  <1> DEFINE opened == OpenBackend(n, i, m, 0)
  <1>3. mem = None /\ disk.count \in Nat /\ disk.data \in Nat
    BY KnownRowsBounds DEF BeginOpen
  <1>4. Consistent(opened) /\ opened.rows = n /\ opened.index.rows = i
    BY OpenConsistent DEF OpenBackend
  <1>5. /\ Larger(disk.data, n) \in Nat /\ disk.data <= Larger(disk.data, n)
        /\ n <= Larger(disk.data, n)
    BY <1>3 DEF Larger
  <1>6. /\ disk' \in Files /\ disk'.data = Larger(disk.data, n)
        /\ disk'.count = disk.count /\ disk'.meta = disk.meta /\ disk'.rows = disk.rows
        /\ disk'.header = disk.header /\ disk'.pages = disk.pages
        /\ disk'.edges = disk.edges /\ disk'.metric = disk.metric
        /\ disk'.marker = disk.marker
    BY <1>2, <1>5, DataFile DEF IInv, TypeOK
  <1>7. FilesInv'
    <2>1. disk.count <= disk.data /\ (disk.meta \notin Unread => disk.meta.n \in Nat
                                        /\ disk.meta.n <= disk.data)
      BY DEF IInv, FilesInv, TypeOK, Files, Meta
    <2>2. disk'.count <= disk'.data /\ (disk'.meta \notin Unread => disk'.meta.n <= disk'.data)
      BY <1>3, <1>5, <1>6, <2>1
    <2> QED BY <1>6, <2>2 DEF IInv, FilesInv, StoredMetric
  <1>8. IndexedInv'
    <2>1. mem' = opened /\ step' = s
      BY <1>2 DEF Start
    <2> QED BY <1>2, <1>4, <1>6, <2>1 DEF IndexedInv
  <1> HIDE DEF opened
  <1>9. Start("open", s, opened)
    BY <1>2 DEF opened
  <1> QED BY <1>2, <1>3, <1>4, <1>5, <1>6, <1>7, <1>8, <1>9, Started
      DEF Operations, Steps, OperationsOf

-----------------------------------------------------------------------------
(* The invariant, ...                                                      *)
LEMMA StoreInitInv == Init => IInv
  <1> SUFFICES ASSUME Init PROVE IInv
    OBVIOUS
  <1> USE DEF Init
  <1>1. EmptyFiles \in Files
    BY DEF EmptyFiles, Files, Unread
  <1>2. TypeOK
    BY <1>1 DEF TypeOK, Operations, Steps, NoBackup, Unread
  <1>3. StepInv /\ MemInv /\ ProgressInv
    BY DEF StepInv, OperationsOf, MemInv, ProgressInv
  <1>4. RowsInv /\ FilesInv /\ IndexedInv
    BY DEF RowsInv, FilesInv, IndexedInv, EmptyFiles, Unread
  <1> QED BY <1>2, <1>3, <1>4 DEF IInv

LEMMA StoreStutter == IInv /\ UNCHANGED vars => IInv'
  BY DEF IInv, vars, TypeOK, StepInv, MemInv, RowsInv, ProgressInv, After, FilesInv,
         IndexedInv, StoredMetric

LEMMA StoreStepInv == IInv /\ [Next]_vars => IInv'
  BY StoreStutter, BeginStep, BeginAppendStep, BeginOpenStep, SkipPersistStep, MarkStep,
     CounterStep, BuildIndexStep, NothingToIndexStep, WriteRowsStep, DrainStep,
     RenamePagesStep, RenameEdgesStep, WriteHeaderStep, UndoStep, WriteMetaStep,
     RewriteRowsStep, RenameMetricStep, UnmarkStep, FailStepStep, FailPersistFilesStep,
     CrashStep
  DEF Next, Begin, Continue

(* holds of every behaviour, however often the process is killed and       *)
(* whatever fails, for any number of rows and metrics.                     *)
THEOREM StoreInvariance == Spec => []IInv
  <1>1. Init => IInv BY StoreInitInv
  <1>2. IInv /\ [Next]_vars => IInv' BY StoreStepInv
  <1> QED BY <1>1, <1>2, PTL DEF Spec

(* Files, backend and the write in progress are of the types declared.     *)
THEOREM StoreTypeCorrect == Spec => []TypeOK
  <1>1. IInv => TypeOK BY DEF IInv
  <1> QED BY <1>1, StoreInvariance, PTL

(* However a process ends, the next open finds every acknowledged row and  *)
(* counts none that was not written.                                       *)
THEOREM RowsAreRecovered == Spec => []RecoveredRowsAreWritten
  <1>1. ASSUME IInv PROVE RecoveredRowsAreWritten
    <2>1. acked \in Nat /\ acked <= disk.count
      BY <1>1 DEF IInv, TypeOK, RowsInv
    <2> QED BY <1>1, <2>1, KnownRowsBounds DEF RecoveredRowsAreWritten
  <1> QED BY <1>1, StoreInvariance, PTL

(* However a process ends, the stored pages are used only if they are      *)
(* those of one persist, under the metric that is asked for.               *)
THEOREM IndexIsTrustedWhole == Spec => []TrustedIndexIsWhole
  <1>1. ASSUME IInv PROVE TrustedIndexIsWhole
    BY <1>1, KnownRowsBounds, OpenFindsPages DEF TrustedIndexIsWhole
  <1> QED BY <1>1, StoreInvariance, PTL

-----------------------------------------------------------------------------
(* The refinement of DurableBackend.                                       *)

(* The states one operation of the abstract backend may return.            *)
Outcomes(b) ==
  Durable!Appends(b) \cup Durable!Syncs(b) \cup Durable!Persists(b) \cup Durable!Metrified(b)
    \cup Durable!Scales(b) \cup Durable!Publishes(b)

(* DurableBackend has the operations of BpannBackend.                      *)
LEMMA SameOperations ==
  ASSUME NEW b, NEW n, NEW m, NEW rebuild
  PROVE  /\ Durable!EnsureSync(b) = EnsureSync(b)
         /\ Durable!EnsureSyncFailed(b) = EnsureSyncFailed(b)
         /\ Durable!NoteRows(b, n) = NoteRows(b, n)
         /\ Durable!RebuildUnder(b, m) = RebuildUnder(b, m)
         /\ Durable!SetMetric(b, m, rebuild) = SetMetric(b, m, rebuild)
  BY DEF Durable!EnsureSync, Durable!EnsureSyncFailed, Durable!IndexThrough,
         Durable!NoteRows, Durable!RebuildUnder, Durable!ResetIndex, Durable!EmptyIndex,
         Durable!SetMetric, Durable!RescaleIndex,
         EnsureSync, EnsureSyncFailed, IndexThrough, NoteRows, RebuildUnder, ResetIndex,
         EmptyIndex, SetMetric, RescaleIndex

(* What each operation, or its failure, leaves is an outcome.              *)
LEMMA AppendOutcome ==
  ASSUME NEW b, NEW n \in 1 .. MaxBatch,
         NEW c \in {AppendRows(b, n)} \cup AppendRowsFailed(b, n)
  PROVE  c \in Outcomes(b)
  <1>1. /\ Durable!AppendRows(b, n) = AppendRows(b, n)
        /\ Durable!AppendRowsFailed(b, n) = AppendRowsFailed(b, n)
    BY SameOperations DEF Durable!AppendRows, Durable!AppendRowsFailed, AppendRows,
                          AppendRowsFailed
  <1>2. c \in Durable!Appends(b)
    BY <1>1 DEF Durable!Appends
  <1> QED BY <1>2 DEF Outcomes

LEMMA SyncOutcome ==
  ASSUME NEW b, NEW c \in {EnsureSync(b)} \cup EnsureSyncFailed(b)
  PROVE  c \in Outcomes(b)
  <1>1. c \in Durable!Syncs(b)
    BY DEF Durable!Syncs, Durable!EnsureSync, Durable!EnsureSyncFailed, Durable!IndexThrough,
           EnsureSync, EnsureSyncFailed, IndexThrough
  <1> QED BY <1>1 DEF Outcomes

LEMMA PersistOutcome ==
  ASSUME NEW b, NEW c \in PersistIndex(b) \cup PersistFailed(b)
  PROVE  c \in Outcomes(b)
  <1>1. c \in Durable!Persists(b)
    BY DEF Durable!Persists, Durable!PersistIndex, Durable!PersistFailed,
           Durable!PersistWritten, Durable!PersistSkipped, Durable!MaySkipRewrite,
           Durable!EnsureSync, Durable!IndexThrough,
           PersistIndex, PersistFailed, PersistWritten, PersistSkipped, MaySkipRewrite,
           EnsureSync, IndexThrough
  <1> QED BY <1>1 DEF Outcomes

LEMMA MetricOutcome ==
  ASSUME NEW b, NEW m \in Metrics, NEW rebuild \in BOOLEAN
  PROVE  SetMetric(b, m, rebuild) \in Outcomes(b)
  <1>1. SetMetric(b, m, rebuild) \in Durable!Metrified(b)
    BY SameOperations DEF Durable!Metrified
  <1> QED BY <1>1 DEF Outcomes

LEMMA ScaleOutcome ==
  ASSUME NEW b, NEW m \in Metrics,
         NEW c \in {EnsureSync(RebuildUnder(b, m))} \cup EnsureSyncFailed(RebuildUnder(b, m))
  PROVE  c \in Outcomes(b)
  <1>1. Durable!Syncs(Durable!RebuildUnder(b, m))
          = {EnsureSync(RebuildUnder(b, m))} \cup EnsureSyncFailed(RebuildUnder(b, m))
    BY SameOperations DEF Durable!Syncs
  <1>2. c \in Durable!Scales(b)
    BY <1>1 DEF Durable!Scales
  <1> QED BY <1>2 DEF Outcomes

LEMMA PublishOutcome ==
  ASSUME NEW b, SoftBuild(b) # None
  PROVE  SoftPublish(b, SoftBuild(b)) \in Outcomes(b)
  <1>1. SoftPublish(b, SoftBuild(b)) \in Durable!Publishes(b)
    BY DEF Durable!Publishes, Durable!SoftPublish, Durable!SoftBuild, Durable!IndexThrough,
           SoftPublish, SoftBuild, IndexThrough
  <1> QED BY <1>1 DEF Outcomes

-----------------------------------------------------------------------------
(* Only a persist looks at the header: in any other operation it can be    *)
(* set before or after.                                                    *)
LEMMA Reheaded ==
  ASSUME NEW b \in Backend, NEW g, NEW h
  PROVE  /\ [[b EXCEPT !.header = g] EXCEPT !.header = h] = [b EXCEPT !.header = h]
         /\ [b EXCEPT !.header = b.header] = b
         /\ [[b EXCEPT !.pending = 0] EXCEPT !.header = h]
              = [[b EXCEPT !.header = h] EXCEPT !.pending = 0]
         /\ [[b EXCEPT !.pending = 0, !.dirty = FALSE] EXCEPT !.header = h]
              = [[b EXCEPT !.header = h] EXCEPT !.pending = 0, !.dirty = FALSE]
  BY DEF Backend

LEMMA OtherFields ==
  ASSUME NEW b \in Backend, NEW h
  PROVE  LET c == [b EXCEPT !.header = h] IN
         /\ c.rows = b.rows /\ c.index = b.index /\ c.pending = b.pending
         /\ c.metric = b.metric /\ c.dirty = b.dirty /\ c.cache = b.cache /\ c.header = h
  BY DEF Backend

LEMMA NoteRowsAside ==
  ASSUME NEW b \in Backend, NEW h, NEW c, c = [b EXCEPT !.header = h], NEW n
  PROVE  [NoteRows(b, n) EXCEPT !.header = h] = NoteRows(c, n)
  BY OtherFields DEF Backend, NoteRows

LEMMA IndexedAside ==
  ASSUME NEW b \in Backend, NEW h, NEW c, c = [b EXCEPT !.header = h]
  PROVE  [Indexed(b) EXCEPT !.header = h] = Indexed(c)
  <1> DEFINE x == IndexThrough(b.index, b.rows, b.metric)
  <1>1. IndexThrough(c.index, c.rows, c.metric) = x
    BY OtherFields
  <1> HIDE DEF x
  <1> QED BY <1>1 DEF Backend, Indexed

LEMMA RebuildAside ==
  ASSUME NEW b \in Backend, NEW h, NEW c, c = [b EXCEPT !.header = h], NEW m
  PROVE  [RebuildUnder(b, m) EXCEPT !.header = h] = RebuildUnder(c, m)
  BY OtherFields DEF Backend, RebuildUnder, ResetIndex

LEMMA MetricAside ==
  ASSUME NEW b \in Backend, NEW h, NEW c, c = [b EXCEPT !.header = h],
         NEW m, NEW rebuild \in BOOLEAN
  PROVE  [SetMetric(b, m, rebuild) EXCEPT !.header = h] = SetMetric(c, m, rebuild)
  <1> DEFINE x == RescaleIndex(b.index, b.metric, m)
  <1>1. RescaleIndex(c.index, c.metric, m) = x /\ c.metric = b.metric
    BY OtherFields
  <1> HIDE DEF x
  <1>2. [[b EXCEPT !.index = x, !.metric = m, !.cache = None, !.dirty = TRUE]
           EXCEPT !.header = h]
          = [c EXCEPT !.index = x, !.metric = m, !.cache = None, !.dirty = TRUE]
    BY DEF Backend
  <1>3. [RebuildUnder(b, m) EXCEPT !.header = h] = RebuildUnder(c, m)
    BY RebuildAside
  <1>4. /\ SetMetric(b, m, rebuild) =
             IF m = b.metric THEN b ELSE IF rebuild THEN RebuildUnder(b, m)
             ELSE [b EXCEPT !.index = x, !.metric = m, !.cache = None, !.dirty = TRUE]
        /\ SetMetric(c, m, rebuild) =
             IF m = b.metric THEN c ELSE IF rebuild THEN RebuildUnder(c, m)
             ELSE [c EXCEPT !.index = x, !.metric = m, !.cache = None, !.dirty = TRUE]
    BY <1>1 DEF SetMetric, x
  <1> QED BY <1>2, <1>3, <1>4

LEMMA PublishAside ==
  ASSUME NEW b \in Backend, NEW h, NEW c, c = [b EXCEPT !.header = h], NEW ix
  PROVE  /\ [SoftPublish(b, ix) EXCEPT !.header = h] = SoftPublish(c, ix)
         /\ SoftBuild(c) = SoftBuild(b)
  <1>1. [SoftPublish(b, ix) EXCEPT !.header = h] = SoftPublish(c, ix)
    BY DEF Backend, SoftPublish
  <1>2. SoftBuild(c) = SoftBuild(b)
    BY OtherFields DEF SoftBuild
  <1> QED BY <1>1, <1>2

(* The working copy and the backend an operation began with.               *)
LEMMA WorkFacts ==
  ASSUME IInv, WorkInv, op \notin {"none", "open"}
  PROVE  /\ mem # None /\ mem \in Backend /\ Consistent(mem) /\ mem.header = 0
         /\ entry # None /\ entry \in Backend /\ Consistent(entry)
         /\ entry.header \in Nat \cup {None}
         /\ Working \in Backend
         /\ Working.rows = mem.rows /\ Working.index = mem.index
         /\ Working.pending = mem.pending /\ Working.metric = mem.metric
         /\ Working.dirty = mem.dirty /\ Working.header = entry.header
         /\ Seen = entry
  <1>1. /\ mem # None /\ mem \in Backend /\ Consistent(mem) /\ mem.header = 0
        /\ entry # None /\ entry \in Backend /\ Consistent(entry)
    BY DEF IInv, StepInv, OperationsOf, MemInv, WorkInv, Consistent
  <1>2. entry.header \in Nat \cup {None} /\ Seen = entry
    BY <1>1 DEF Backend, Seen
  <1>3. Working \in Backend
    BY <1>1, <1>2 DEF Backend, Working
  <1> QED BY <1>1, <1>2, <1>3, OtherFields DEF Working

(* Nothing is seen of an operation before it returns, ...                  *)
LEMMA Unseen ==
  ASSUME op # "none", UNCHANGED <<op, entry, acked>>
  PROVE  UNCHANGED <<Seen, acked>>
  BY DEF Seen

(* ... nor when it begins.                                                 *)
LEMMA StartUnseen ==
  ASSUME IInv, WorkInv, mem # None, op = "none",
         NEW o, NEW s, NEW b, Start(o, s, b), o \notin {"none", "open"},
         b # None, b.header = 0, disk'.header = disk.header
  PROVE  /\ UNCHANGED <<Seen, acked>>
         /\ HeaderInv'
         /\ mem' = b /\ op' = o /\ step' = s
         /\ entry' = [mem EXCEPT !.header = DiskRows(disk)]
         /\ entry' # None
         /\ Working' = [b EXCEPT !.header = DiskRows(disk)]
         /\ mem \in Backend
  <1>1. Consistent(mem) /\ mem \in Backend
    BY DEF IInv, MemInv, Consistent
  <1>2. disk \in Files /\ DiskRows(disk) \in Nat \cup {None} /\ DiskRows(disk') = DiskRows(disk)
    BY DiskRowsType DEF IInv, TypeOK, DiskRows
  <1>3. entry' = [mem EXCEPT !.header = DiskRows(disk)] /\ entry' = Held(mem, disk)
    BY DEF Start, Held
  <1>4. Consistent(entry') /\ entry' # None /\ entry'.header = DiskRows(disk)
    BY <1>1, <1>2, <1>3, HeaderChanged, NoneIsNoBackend, OtherFields
  <1>5. UNCHANGED <<Seen, acked>>
    BY <1>3 DEF Seen, Start
  <1>6. HeaderInv'
    BY <1>2, <1>4 DEF HeaderInv
  <1>7. Working' = [b EXCEPT !.header = DiskRows(disk)]
    BY <1>4 DEF Working, Start
  <1> QED BY <1>1, <1>3, <1>4, <1>5, <1>6, <1>7 DEF Start

(* What it returns is what the abstract operation may leave.               *)
LEMMA ReturnSeen ==
  ASSUME IInv', NEW b, Consistent(b), Return(b), Seen # None,
         [b EXCEPT !.header = DiskRows(disk')] \in Outcomes(Seen)
  PROVE  /\ WorkInv' /\ HeaderInv'
         /\ Durable!Operate /\ acked' = Seen'.rows
  <1>1. b \in Backend /\ b # None
    BY NoneIsNoBackend DEF Consistent
  <1>2. /\ op' = "none" /\ step' = "idle" /\ entry' = None /\ acked' = b.rows
        /\ mem' = [b EXCEPT !.header = 0]
    BY <1>1 DEF Return
  <1>3. mem' # None /\ mem'.header = 0
    BY <1>1, <1>2, HeaderChanged, NoneIsNoBackend, OtherFields
  <1>4. WorkInv' /\ HeaderInv'
    BY <1>2, <1>3 DEF WorkInv, HeaderInv
  <1>5. Seen' = [b EXCEPT !.header = DiskRows(disk')]
    <2> DEFINE h == DiskRows(disk')
    <2>1. Seen' = [mem' EXCEPT !.header = h]
      BY <1>2, <1>3 DEF Seen, Held
    <2> HIDE DEF h
    <2>2. [[b EXCEPT !.header = 0] EXCEPT !.header = h] = [b EXCEPT !.header = h]
      BY <1>1, Reheaded
    <2>3. Seen' = [b EXCEPT !.header = h]
      BY <1>2, <2>1, <2>2
    <2> QED BY <2>3 DEF h
  <1>6. Seen'.rows = b.rows
    BY <1>1, <1>5, OtherFields
  <1>7. Durable!Operate
    BY <1>5 DEF Outcomes, Durable!Operate
  <1> QED BY <1>2, <1>4, <1>6, <1>7

(* An error that undoes an operation leaves what it began with.            *)
LEMMA UndoneSeen ==
  ASSUME IInv, IInv', WorkInv, op \notin {"none", "open"}, Return(entry),
         disk' = disk, DiskRows(disk) = entry.header
  PROVE  /\ WorkInv' /\ HeaderInv'
         /\ Durable!Operate /\ acked' = Seen'.rows
  <1>1. Consistent(entry) /\ entry \in Backend /\ Seen = entry /\ entry # None
    BY WorkFacts
  <1>2. [entry EXCEPT !.header = DiskRows(disk')] = entry
    BY <1>1, Reheaded
  <1>3. entry \in Outcomes(entry)
    BY SyncOutcome DEF EnsureSyncFailed
  <1> QED BY <1>1, <1>2, <1>3, ReturnSeen

-----------------------------------------------------------------------------
(* The sync within an append, a metric change or by itself: it began with  *)
(* some backend b, and what it returns is a sync of b.                     *)
LEMMA SyncBase ==
  ASSUME IInv, WorkInv, op \in {"append", "sync", "scale"}, step \in {"index", "rows", "drain"}
  PROVE  \E b \in Backend :
           /\ SyncsFrom(b)
           /\ {EnsureSync(b)} \cup EnsureSyncFailed(b) \subseteq Outcomes(entry)
  <1>1. entry \in Backend /\ Consistent(entry)
    BY WorkFacts
  <1>2. CASE op = "sync"
    BY <1>1, <1>2, SyncOutcome DEF WorkInv
  <1>3. CASE op = "append"
    <2>1. PICK n \in 1 .. MaxBatch : AppendsFrom(NoteRows(entry, n))
      BY <1>3 DEF WorkInv
    <2> DEFINE b == NoteRows(entry, n)
    <2>2. b \in Backend
      BY <1>1, NoteRowsConsistent, StoreAssumption DEF Consistent
    <2>3. SyncsFrom(b) /\ b.pending >= HardThreshold
      BY <2>1 DEF AppendsFrom
    <2>4. {EnsureSync(b)} \cup EnsureSyncFailed(b)
            = {AppendRows(entry, n)} \cup AppendRowsFailed(entry, n)
      BY <2>3 DEF AppendRows, AppendRowsFailed
    <2> HIDE DEF b
    <2> QED BY <2>2, <2>3, <2>4, AppendOutcome
  <1>4. CASE op = "scale"
    <2>1. CASE SyncsFrom(entry)
      BY <1>1, <2>1, SyncOutcome
    <2>2. CASE ~SyncsFrom(entry)
      <3>1. PICK m \in Metrics : RebuildsFrom(RebuildUnder(entry, m))
        BY <1>4, <2>2 DEF WorkInv
      <3>2. RebuildUnder(entry, m) \in Backend
        BY <1>1, RebuildConsistent DEF Consistent
      <3>3. SyncsFrom(RebuildUnder(entry, m))
        BY <3>1 DEF RebuildsFrom
      <3> QED BY <3>2, <3>3, ScaleOutcome
    <2> QED BY <2>1, <2>2
  <1> QED BY <1>2, <1>3, <1>4

(* Before a persist writes it, the header is that of the beginning.        *)
LEMMA EarlyHeader ==
  ASSUME IInv, WorkInv, HeaderInv, op \notin {"none", "open"},
         step \in {"mark", "counter", "index", "rows", "drain"} \/ step = "pages" \/ step = "edges"
  PROVE  DiskRows(disk) = entry.header
  BY WorkFacts DEF HeaderInv, After

(* However far it has come, a sync that returns has done one of the things *)
(* a sync may do, as one step.                                             *)
LEMMA SyncReturns ==
  ASSUME IInv, IInv', WorkInv, HeaderInv,
         op \in {"append", "sync", "scale"}, step \in {"index", "rows", "drain"},
         disk' = disk,
         NEW c, c \in {mem, [mem EXCEPT !.pending = 0]}, Consistent(c), Return(c),
         c = mem \/ step = "drain" \/ (step = "index" /\ mem.index.rows >= mem.rows)
  PROVE  /\ WorkInv' /\ HeaderInv'
         /\ Durable!Operate /\ acked' = Seen'.rows
  <1>1. PICK b \in Backend : /\ SyncsFrom(b)
                             /\ {EnsureSync(b)} \cup EnsureSyncFailed(b) \subseteq Outcomes(entry)
    BY SyncBase
  <1>2. /\ mem \in Backend /\ Working.rows = mem.rows /\ Working.index = mem.index
        /\ Working.metric = mem.metric /\ Seen = entry /\ entry # None
        /\ DiskRows(disk') = entry.header
    BY WorkFacts, EarlyHeader
  <1>3. /\ [mem EXCEPT !.header = DiskRows(disk')] = Working
        /\ [[mem EXCEPT !.pending = 0] EXCEPT !.header = DiskRows(disk')]
             = [Working EXCEPT !.pending = 0]
    <2> DEFINE h == entry.header
    <2>1. DiskRows(disk') = h /\ Working = [mem EXCEPT !.header = h]
      BY <1>2 DEF Working
    <2> HIDE DEF h
    <2>2. [[mem EXCEPT !.pending = 0] EXCEPT !.header = h]
            = [[mem EXCEPT !.header = h] EXCEPT !.pending = 0]
      BY <1>2, Reheaded
    <2> QED BY <2>1, <2>2
  <1>4. EnsureSync(b) = [Indexed(b) EXCEPT !.pending = 0]
    BY DEF EnsureSync, Indexed, Backend
  <1>5. CASE c = mem
    <2>1. Working \in {b, Indexed(b)}
      BY <1>1 DEF SyncsFrom
    <2>2. Working \in EnsureSyncFailed(b)
      BY <2>1 DEF EnsureSyncFailed, Indexed
    <2> QED BY <1>1, <1>2, <1>3, <1>5, <2>2, ReturnSeen
  <1>6. CASE c = [mem EXCEPT !.pending = 0] /\ step = "drain"
    <2>1. [Working EXCEPT !.pending = 0] = EnsureSync(b)
      BY <1>1, <1>4, <1>6 DEF SyncsFrom
    <2> QED BY <1>1, <1>2, <1>3, <1>6, <2>1, ReturnSeen
  <1>7. CASE c = [mem EXCEPT !.pending = 0] /\ step = "index" /\ mem.index.rows >= mem.rows
    <2>1. Working = b /\ b.index.rows >= b.rows
      BY <1>1, <1>2, <1>7 DEF SyncsFrom
    <2>2. Indexed(b) = b
      BY <2>1 DEF Indexed, IndexThrough, Backend
    <2>3. [Working EXCEPT !.pending = 0] = EnsureSync(b)
      BY <1>4, <2>1, <2>2
    <2> QED BY <1>1, <1>2, <1>3, <1>7, <2>3, ReturnSeen
  <1> QED BY <1>5, <1>6, <1>7

LEMMA MemFacts ==
  ASSUME IInv, mem # None
  PROVE  /\ mem \in Backend /\ Consistent(mem) /\ mem.dirty \in BOOLEAN
         /\ mem.rows \in Nat /\ mem.index.rows \in Nat /\ mem.index.rows <= mem.rows
         /\ (mem.dirty \/ mem.index.rows = mem.rows)
  BY Fields DEF IInv, MemInv, Consistent

(* The backend of an open, and the header it read: no step but a persist's *)
(* writes a header, and an open changes no backend.                        *)
LEMMA HeaderKept ==
  ASSUME IInv, IInv', OpenInv, disk'.header = disk.header, disk.count <= disk'.count,
         op' = "open" => op = "open" /\ mem' = mem
  PROVE  OpenInv'
  <1>1. DiskRows(disk') = DiskRows(disk)
    BY DEF DiskRows
  <1>2. /\ disk.count \in Nat /\ disk'.count \in Nat
        /\ disk.header \notin Unread => disk.header \in Nat
    BY DEF IInv, TypeOK, Files
  <1>3. disk'.header \notin Unread => disk'.header <= disk'.count
    BY <1>2 DEF OpenInv
  <1> QED BY <1>1, <1>3 DEF OpenInv

LEMMA OpenStep == IInv /\ IInv' /\ OpenInv /\ [Next]_vars => OpenInv'
  <1> SUFFICES ASSUME IInv, IInv', OpenInv, [Next]_vars PROVE OpenInv'
    OBVIOUS
  <1>1. /\ disk \in Files /\ disk.count \in Nat
    BY DEF IInv, TypeOK, Files
  <1>2. ASSUME NEW f \in DOMAIN disk \ {"header", "count"}, NEW v,
               disk' = [disk EXCEPT ![f] = v] \/ disk' = disk
        PROVE  disk'.header = disk.header /\ disk.count <= disk'.count
    BY <1>1, <1>2 DEF Files
  <1>3. {"data", "rows", "meta", "pages", "edges", "metric", "marker"}
          \subseteq DOMAIN disk \ {"header", "count"}
    BY <1>1 DEF Files
  <1>4. CASE BeginOpen
    <2>1. PICK m \in Metrics, n \in Nat : \E i \in 0 .. n, s \in {"rows", "meta"} :
             /\ i = IndexedRows(disk, m, n)
             /\ disk.count <= n
             /\ disk' = [disk EXCEPT !.data = Larger(disk.data, n)]
             /\ Start("open", s, OpenBackend(n, i, m, 0))
             /\ disk.header # None => disk.header <= i \/ (s = "meta" /\ i = 0)
             /\ i > 0 => DiskRows(disk) \in 0 .. i
      BY <1>4, OpenBegun
    <2>2. PICK i \in 0 .. n :
             /\ disk' = [disk EXCEPT !.data = Larger(disk.data, n)]
             /\ mem' = OpenBackend(n, i, m, 0)
             /\ i > 0 => DiskRows(disk) \in 0 .. i
      BY <2>1 DEF Start
    <2>3. disk'.header = disk.header /\ disk'.count = disk.count
      BY <1>1, <2>2 DEF Files
    <2>4. mem'.rows = n /\ mem'.index.rows = i /\ mem'.metric = m
      BY <2>2 DEF OpenBackend
    <2>5. DiskRows(disk') = DiskRows(disk)
      BY <2>3 DEF DiskRows
    <2> QED BY <2>2, <2>3, <2>4, <2>5 DEF OpenInv
  <1>5. CASE BeginAppend \/ BeginSync \/ BeginScale \/ BeginMetric \/ BeginSoft
               \/ BeginPersist \/ SkipPersist
    <2>1. op' # "open"
      BY <1>5 DEF BeginAppend, BeginSync, BeginScale, BeginMetric, BeginSoft, BeginPersist,
                  SkipPersist, Start, Return
    <2>2. \E v : disk' = [disk EXCEPT !.data = v] \/ disk' = disk
      BY <1>5 DEF BeginAppend, BeginSync, BeginScale, BeginMetric, BeginSoft, BeginPersist,
                  SkipPersist
    <2> QED BY <1>2, <1>3, <2>1, <2>2, HeaderKept
  <1>6. CASE WriteRows \/ WriteMeta \/ RewriteRows
    <2>1. PICK f \in {"rows", "meta"} :
            Truncate(f) \/ \E v : Fill(f, v) /\ (Return(mem) \/ \E s : Goto(s))
      BY <1>6 DEF WriteRows, WriteMeta, RewriteRows
    <2>2. \E v : disk' = [disk EXCEPT ![f] = v]
      BY <2>1 DEF Truncate, Fill
    <2>3. op' = "open" => op = "open" /\ mem' = mem
      BY <2>1 DEF Truncate, Goto, Return
    <2> QED BY <1>2, <1>3, <2>2, <2>3, HeaderKept
  <1>7. CASE Mark \/ RenamePages \/ RenameEdges \/ RenameMetric \/ Unmark
    <2>1. \E f \in {"marker", "pages", "edges", "metric"} : \E v : disk' = [disk EXCEPT ![f] = v]
      BY <1>7 DEF Mark, RenamePages, RenameEdges, RenameMetric, Unmark
    <2>2. op' = "open" => op = "open" /\ mem' = mem
      BY <1>7 DEF Mark, RenamePages, RenameEdges, RenameMetric, Unmark, Goto, Return
    <2> QED BY <1>2, <1>3, <2>1, <2>2, HeaderKept
  <1>8. CASE UndoPages \/ UndoEdges
    <2>1. op = "persist"
      BY <1>8 DEF UndoPages, UndoEdges, IInv, StepInv, OperationsOf
    <2>2. \E f \in {"pages", "edges"} : \E v : disk' = [disk EXCEPT ![f] = v] \/ disk' = disk
      BY <1>8 DEF UndoPages, UndoEdges, Undo, Truncate, Fill
    <2>3. op' # "open"
      BY <1>8, <2>1 DEF UndoPages, UndoEdges, Undo, Truncate, Goto, Return
    <2> QED BY <1>2, <1>3, <2>2, <2>3, HeaderKept
  <1>9. CASE BuildIndex \/ NothingToIndex \/ Drain \/ FailStep \/ FailPersistFiles
               \/ Crash \/ UNCHANGED vars
    <2>1. disk' = disk
      BY <1>9 DEF BuildIndex, NothingToIndex, Drain, FailStep, FailPersistFiles, Crash, vars
    <2>2. op' = "open" => op = "open" /\ mem' = mem
      BY <1>9 DEF BuildIndex, NothingToIndex, Drain, FailStep, FailPersistFiles, Crash, vars,
                  Goto, Return, IInv, StepInv, OperationsOf
    <2> QED BY <1>1, <2>1, <2>2, HeaderKept
  <1>10. CASE Counter
    <2>1. disk'.count = mem.rows /\ disk'.header = disk.header
      BY <1>1, <1>10 DEF Counter, Files
    <2>2. disk.count <= mem.rows
      BY <1>10 DEF Counter, IInv, StepInv, RowsInv
    <2>3. op' # "open"
      BY <1>10 DEF Counter, IInv, StepInv, OperationsOf, Goto, Return
    <2> QED BY <2>1, <2>2, <2>3, HeaderKept
  <1>11. CASE WriteHeader
    <2>1. op = "persist" /\ mem # None /\ step = "header"
      BY <1>11 DEF WriteHeader, IInv, StepInv, OperationsOf
    <2>2. op' # "open"
      BY <1>11, <2>1 DEF WriteHeader, Truncate, Goto
    <2>3. disk'.count = disk.count /\ disk'.header \in {Torn, mem.index.rows}
      BY <1>1, <1>11 DEF WriteHeader, Truncate, Fill, Files
    <2>4. mem.rows \in Nat /\ mem.index.rows \in Nat /\ mem.index.rows <= mem.rows
      BY <2>1, MemFacts
    <2>5. mem.rows <= disk.count
      BY <2>1 DEF IInv, RowsInv
    <2>6. mem.index.rows <= disk.count
      BY <1>1, <2>4, <2>5
    <2> QED BY <2>2, <2>3, <2>6 DEF OpenInv, Unread
  <1> QED
    BY <1>4, <1>5, <1>6, <1>7, <1>8, <1>9, <1>10, <1>11 DEF Next, Begin, Continue

(* A step of the store is one of the abstract backend, or unseen.          *)
SeenNext == [Durable!Next]_(Durable!durableVars)

LEMMA UnseenNext ==
  ASSUME UNCHANGED <<Seen, acked>>
  PROVE  SeenNext
  BY DEF SeenNext, Durable!durableVars

LEMMA OperateNext ==
  ASSUME Durable!Operate, acked' = Seen'.rows
  PROVE  SeenNext
  BY DEF SeenNext, Durable!Next

(* An operation begins.                                                    *)
LEMMA BeginAppendSeen ==
  IInv /\ WorkInv /\ BeginAppend => WorkInv' /\ HeaderInv' /\ SeenNext
  <1> SUFFICES ASSUME IInv, WorkInv, BeginAppend PROVE WorkInv' /\ HeaderInv' /\ SeenNext
    OBVIOUS
  <1>1. mem # None /\ op = "none" /\ mem \in Backend /\ Consistent(mem) /\ mem.header = 0
    BY DEF BeginAppend, Idle, WorkInv, IInv, MemInv, Consistent
  <1>2. PICK n \in 1 .. MaxBatch :
          /\ disk' = [disk EXCEPT !.data = Larger(disk.data, mem.rows + n)]
          /\ Start("append", "counter", NoteRows(mem, n))
    BY DEF BeginAppend
  <1>3. NoteRows(mem, n) # None /\ NoteRows(mem, n).header = 0 /\ disk'.header = disk.header
    <2>1. NoteRows(mem, n) # None
      BY <1>1, NoteRowsConsistent, NoneIsNoBackend, StoreAssumption
    <2>2. NoteRows(mem, n).header = 0
      BY <1>1 DEF NoteRows, Backend
    <2>3. disk'.header = disk.header
      BY <1>2 DEF IInv, TypeOK, Files
    <2> QED BY <2>1, <2>2, <2>3
  <1>4. /\ UNCHANGED <<Seen, acked>>
        /\ HeaderInv'
        /\ mem' = NoteRows(mem, n) /\ op' = "append" /\ step' = "counter"
        /\ entry' = [mem EXCEPT !.header = DiskRows(disk)] /\ entry' # None
        /\ Working' = [NoteRows(mem, n) EXCEPT !.header = DiskRows(disk)]
    BY <1>1, <1>2, <1>3, StartUnseen
  <1>5. Working' = NoteRows(entry', n)
    BY <1>1, <1>4, NoteRowsAside
  <1>6. WorkInv'
    BY <1>3, <1>4, <1>5 DEF WorkInv, AppendsFrom
  <1> QED BY <1>4, <1>6, UnseenNext

LEMMA BeginSyncSeen ==
  IInv /\ WorkInv /\ BeginSync => WorkInv' /\ HeaderInv' /\ SeenNext
  <1> SUFFICES ASSUME IInv, WorkInv, BeginSync PROVE WorkInv' /\ HeaderInv' /\ SeenNext
    OBVIOUS
  <1>1. /\ mem # None /\ op = "none" /\ mem.header = 0
        /\ Start("sync", "index", mem) /\ disk' = disk
    BY DEF BeginSync, Idle, WorkInv
  <1>2. /\ UNCHANGED <<Seen, acked>>
        /\ HeaderInv'
        /\ mem' = mem /\ op' = "sync" /\ step' = "index"
        /\ entry' = [mem EXCEPT !.header = DiskRows(disk)] /\ entry' # None
        /\ Working' = [mem EXCEPT !.header = DiskRows(disk)]
    BY <1>1, StartUnseen
  <1>3. WorkInv'
    BY <1>1, <1>2 DEF WorkInv, SyncsFrom
  <1> QED BY <1>2, <1>3, UnseenNext

LEMMA BeginPersistSeen ==
  IInv /\ WorkInv /\ BeginPersist => WorkInv' /\ HeaderInv' /\ SeenNext
  <1> SUFFICES ASSUME IInv, WorkInv, BeginPersist PROVE WorkInv' /\ HeaderInv' /\ SeenNext
    OBVIOUS
  <1>1. /\ mem # None /\ op = "none" /\ mem.header = 0
        /\ Start("persist", "mark", mem) /\ disk' = disk
    BY DEF BeginPersist, Idle, WorkInv
  <1>2. /\ UNCHANGED <<Seen, acked>>
        /\ HeaderInv'
        /\ mem' = mem /\ op' = "persist" /\ step' = "mark"
        /\ entry' = [mem EXCEPT !.header = DiskRows(disk)] /\ entry' # None
        /\ Working' = [mem EXCEPT !.header = DiskRows(disk)]
    BY <1>1, StartUnseen
  <1>3. WorkInv'
    BY <1>1, <1>2 DEF WorkInv
  <1> QED BY <1>2, <1>3, UnseenNext

LEMMA BeginScaleSeen ==
  IInv /\ WorkInv /\ BeginScale => WorkInv' /\ HeaderInv' /\ SeenNext
  <1> SUFFICES ASSUME IInv, WorkInv, BeginScale PROVE WorkInv' /\ HeaderInv' /\ SeenNext
    OBVIOUS
  <1>1. /\ mem # None /\ op = "none" /\ mem.header = 0 /\ disk' = disk
        /\ mem \in Backend /\ Consistent(mem)
    BY DEF BeginScale, Idle, WorkInv, IInv, MemInv, Consistent
  <1>2. CASE Start("scale", "index", mem)
    <2>1. /\ UNCHANGED <<Seen, acked>>
          /\ HeaderInv'
          /\ mem' = mem /\ op' = "scale" /\ step' = "index"
          /\ entry' = [mem EXCEPT !.header = DiskRows(disk)] /\ entry' # None
          /\ Working' = [mem EXCEPT !.header = DiskRows(disk)]
      BY <1>1, <1>2, StartUnseen
    <2>2. WorkInv'
      BY <1>1, <2>1 DEF WorkInv, SyncsFrom
    <2> QED BY <2>1, <2>2, UnseenNext
  <1>3. ASSUME NEW m \in Metrics, Start("scale", "mark", RebuildUnder(mem, m))
        PROVE  WorkInv' /\ HeaderInv' /\ SeenNext
    <2>1. RebuildUnder(mem, m) # None /\ RebuildUnder(mem, m).header = 0
      BY <1>1, RebuildConsistent, NoneIsNoBackend DEF RebuildUnder, ResetIndex, Backend
    <2>2. /\ UNCHANGED <<Seen, acked>>
          /\ HeaderInv'
          /\ mem' = RebuildUnder(mem, m) /\ op' = "scale" /\ step' = "mark"
          /\ entry' = [mem EXCEPT !.header = DiskRows(disk)] /\ entry' # None
          /\ Working' = [RebuildUnder(mem, m) EXCEPT !.header = DiskRows(disk)]
      BY <1>1, <1>3, <2>1, StartUnseen
    <2>3. Working' = RebuildUnder(entry', m)
      BY <1>1, <2>2, RebuildAside
    <2>4. WorkInv'
      BY <2>1, <2>2, <2>3 DEF WorkInv, RebuildsFrom
    <2> QED BY <2>2, <2>4, UnseenNext
  <1> QED BY <1>2, <1>3, BackendAssumption DEF BeginScale

LEMMA BeginMetricSeen ==
  IInv /\ WorkInv /\ BeginMetric => WorkInv' /\ HeaderInv' /\ SeenNext
  <1> SUFFICES ASSUME IInv, WorkInv, BeginMetric PROVE WorkInv' /\ HeaderInv' /\ SeenNext
    OBVIOUS
  <1>1. /\ mem # None /\ op = "none" /\ mem.header = 0 /\ disk' = disk
        /\ mem \in Backend /\ Consistent(mem)
    BY DEF BeginMetric, Idle, WorkInv, IInv, MemInv, Consistent
  <1>2. PICK m \in Metrics, rebuild \in BOOLEAN :
          Start("metric", "mark", SetMetric(mem, m, rebuild))
    BY DEF BeginMetric
  <1> DEFINE b == SetMetric(mem, m, rebuild)
  <1>3. b # None /\ b.header = 0
    <2>1. b # None
      BY <1>1, SetMetricConsistent, NoneIsNoBackend
    <2>2. RebuildUnder(mem, m).header = 0
      BY <1>1 DEF RebuildUnder, ResetIndex, Backend
    <2>3. ASSUME NEW ix
          PROVE  [mem EXCEPT !.index = ix, !.metric = m, !.cache = None,
                             !.dirty = TRUE].header = 0
      BY <1>1 DEF Backend
    <2>4. b.header = 0
      BY <1>1, <2>2, <2>3 DEF SetMetric
    <2> QED BY <2>1, <2>4
  <1> HIDE DEF b
  <1>4. /\ UNCHANGED <<Seen, acked>>
        /\ HeaderInv'
        /\ mem' = b /\ op' = "metric" /\ step' = "mark"
        /\ entry' = [mem EXCEPT !.header = DiskRows(disk)] /\ entry' # None
        /\ Working' = [b EXCEPT !.header = DiskRows(disk)]
    BY <1>1, <1>2, <1>3, StartUnseen DEF b
  <1>5. Working' = SetMetric(entry', m, rebuild)
    BY <1>1, <1>4, MetricAside DEF b
  <1>6. WorkInv'
    BY <1>3, <1>4, <1>5 DEF WorkInv
  <1> QED BY <1>4, <1>6, UnseenNext

LEMMA BeginSoftSeen ==
  IInv /\ WorkInv /\ BeginSoft => WorkInv' /\ HeaderInv' /\ SeenNext
  <1> SUFFICES ASSUME IInv, WorkInv, BeginSoft PROVE WorkInv' /\ HeaderInv' /\ SeenNext
    OBVIOUS
  <1>1. /\ mem # None /\ op = "none" /\ mem.header = 0 /\ disk' = disk
        /\ mem \in Backend /\ Consistent(mem) /\ SoftBuild(mem) # None
    BY DEF BeginSoft, Idle, WorkInv, IInv, MemInv, Consistent
  <1> DEFINE built == SoftBuild(mem)
             b == SoftPublish(mem, built)
  <1>2. b # None
    BY <1>1, SoftBuildCurrent, PublishConsistent, NoneIsNoBackend, StoreAssumption
  <1>3. b.header = 0
    BY <1>1 DEF SoftPublish, Backend
  <1>4. Start("soft", "rows", b)
    BY DEF BeginSoft
  <1> HIDE DEF b, built
  <1>5. /\ UNCHANGED <<Seen, acked>>
        /\ HeaderInv'
        /\ mem' = b /\ op' = "soft" /\ step' = "rows"
        /\ entry' = [mem EXCEPT !.header = DiskRows(disk)] /\ entry' # None
        /\ Working' = [b EXCEPT !.header = DiskRows(disk)]
    BY <1>1, <1>2, <1>3, <1>4, StartUnseen
  <1>6. Working' = SoftPublish(entry', built) /\ SoftBuild(entry') = built
    BY <1>1, <1>5, PublishAside DEF b, built
  <1>7. WorkInv'
    BY <1>1, <1>3, <1>5, <1>6 DEF WorkInv, built
  <1> QED BY <1>5, <1>7, UnseenNext

LEMMA SkipPersistSeen ==
  IInv /\ IInv' /\ WorkInv /\ SkipPersist => WorkInv' /\ HeaderInv' /\ SeenNext
  <1> SUFFICES ASSUME IInv, IInv', WorkInv, SkipPersist
               PROVE  WorkInv' /\ HeaderInv' /\ SeenNext
    OBVIOUS
  <1>1. /\ mem # None /\ op = "none" /\ disk' = disk /\ Consistent(mem) /\ mem \in Backend
        /\ ~mem.dirty /\ DiskRows(disk) = mem.rows /\ mem.index.rows = mem.rows
        /\ Return(PersistSkipped(mem))
    BY DEF SkipPersist, Rewritten, Idle, IInv, MemInv, Consistent, CleanConsistent
  <1> DEFINE h == DiskRows(disk)
             b == [mem EXCEPT !.header = h]
  <1>2. Seen = b
    BY <1>1 DEF Seen, Held
  <1>3. b.rows = mem.rows /\ b.dirty = mem.dirty /\ b.header = h
    BY <1>1, OtherFields
  <1>4. Consistent(PersistSkipped(mem))
    BY <1>1, DrainedClean DEF PersistSkipped
  <1>5. b # None
    <2>1. Consistent(b)
      BY <1>1, HeaderChanged, Fields
    <2> QED BY <2>1, NoneIsNoBackend
  <1>6. PersistSkipped(b) \in PersistIndex(b)
    BY <1>1, <1>3 DEF PersistIndex, MaySkipRewrite
  <1>7. [PersistSkipped(mem) EXCEPT !.header = DiskRows(disk')] = PersistSkipped(b)
    <2>1. DiskRows(disk') = h
      BY <1>1
    <2> HIDE DEF h
    <2> QED BY <1>1, <2>1, Reheaded DEF PersistSkipped
  <1> HIDE DEF b, h
  <1>8. PersistSkipped(b) \in Outcomes(Seen)
    BY <1>2, <1>6, PersistOutcome
  <1> QED BY <1>1, <1>2, <1>4, <1>5, <1>7, <1>8, ReturnSeen, OperateNext

LEMMA BeginOpenSeen ==
  IInv /\ IInv' /\ WorkInv /\ BeginOpen => WorkInv' /\ HeaderInv' /\ SeenNext
  <1> SUFFICES ASSUME IInv, IInv', WorkInv, BeginOpen
               PROVE  WorkInv' /\ HeaderInv' /\ SeenNext
    OBVIOUS
  <1>1. mem = None /\ op = "none" /\ entry = None
    BY DEF BeginOpen, WorkInv, IInv, StepInv, OperationsOf
  <1>2. op' = "open" /\ entry' = None /\ acked' = acked
    BY <1>1 DEF BeginOpen, Start
  <1>3. mem'.header = 0 /\ mem'.cache = None
    <2>1. \E n, i, m : mem' = OpenBackend(n, i, m, 0)
      BY OpenBegun DEF Start
    <2> QED BY <2>1 DEF OpenBackend
  <1>4. UNCHANGED <<Seen, acked>>
    BY <1>1, <1>2 DEF Seen
  <1>5. WorkInv' /\ HeaderInv'
    BY <1>2, <1>3 DEF WorkInv, HeaderInv
  <1> QED BY <1>4, <1>5, UnseenNext

-----------------------------------------------------------------------------
(* Its writes, in the order of the module.                                 *)

(* An operation goes on: nothing is seen of it, the working copy and the   *)
(* header are kept.                                                        *)
LEMMA GoneOn ==
  ASSUME op # "none", UNCHANGED <<mem, entry, op, acked>>
  PROVE  Working' = Working /\ SeenNext
  BY Unseen, UnseenNext DEF Working

LEMMA MarkSeen ==
  IInv /\ IInv' /\ WorkInv /\ HeaderInv /\ Mark => WorkInv' /\ HeaderInv' /\ SeenNext
  <1> SUFFICES ASSUME IInv, IInv', WorkInv, HeaderInv, Mark
               PROVE  WorkInv' /\ HeaderInv' /\ SeenNext
    OBVIOUS
  <1>1. op \in {"metric", "scale", "persist"} /\ step = "mark"
    BY DEF Mark, IInv, StepInv, OperationsOf
  <1>2. /\ disk'.header = disk.header /\ DiskRows(disk') = DiskRows(disk)
        /\ DiskRows(disk) = entry.header
    BY <1>1, EarlyHeader DEF Mark, IInv, TypeOK, Files, DiskRows
  <1>3. CASE op = "metric"
    <2>1. /\ Return(mem) /\ Consistent(mem) /\ Seen = entry /\ entry # None
          /\ [mem EXCEPT !.header = DiskRows(disk')] = Working
      BY <1>2, <1>3, WorkFacts DEF Mark, Working
    <2>2. Working \in Outcomes(Seen)
      BY <1>3, <2>1, MetricOutcome DEF WorkInv
    <2> QED BY <2>1, <2>2, ReturnSeen, OperateNext
  <1>4. CASE op # "metric"
    <2>1. step' = "index" /\ UNCHANGED <<mem, entry, op, acked>>
      BY <1>4 DEF Mark, Goto
    <2>2. Working' = Working /\ SeenNext
      BY <1>1, <2>1, GoneOn
    <2>3. HeaderInv'
      BY <1>2, <2>1 DEF HeaderInv
    <2>4. WorkInv'
      BY <1>1, <1>4, <2>1, <2>2 DEF WorkInv, RebuildsFrom, SyncsFrom
    <2> QED BY <2>2, <2>3, <2>4
  <1> QED BY <1>3, <1>4

(* What an open returns, and the header it does it with.                   *)
LEMMA OpenedUnder ==
  ASSUME OpenInv, op = "open", NEW h
  PROVE  [mem EXCEPT !.header = h]
           = OpenBackend(mem.rows, mem.index.rows, mem.metric, h)
  <1> DEFINE n == mem.rows
             i == mem.index.rows
             m == mem.metric
  <1>1. mem = OpenBackend(n, i, m, 0)
    BY DEF OpenInv
  <1> HIDE DEF n, i, m
  <1>2. [OpenBackend(n, i, m, 0) EXCEPT !.header = h] = OpenBackend(n, i, m, h)
    BY DEF OpenBackend
  <1>3. [mem EXCEPT !.header = h] = OpenBackend(n, i, m, h)
    BY <1>1, <1>2
  <1> QED BY <1>3 DEF n, i, m

LEMMA AmongOpened ==
  ASSUME NEW n, NEW m, NEW i \in 0 .. n,
         NEW h \in IF i > 0 THEN 0 .. i ELSE (0 .. n) \cup {None}
  PROVE  OpenBackend(n, i, m, h) \in Durable!OpenBackends(n, m)
  <1> DEFINE of(j) == {OpenBackend(n, j, m, g) :
                         g \in IF j > 0 THEN 0 .. j ELSE (0 .. n) \cup {None}}
  <1>1. Durable!OpenBackends(n, m) = UNION {of(j) : j \in 0 .. n}
    BY DEF Durable!OpenBackends, Durable!OpenBackend, OpenBackend
  <1>2. OpenBackend(n, i, m, h) \in of(i)
    OBVIOUS
  <1> HIDE DEF of
  <1> QED BY <1>1, <1>2

LEMMA OpenedHeader ==
  ASSUME IInv, IInv', OpenInv, op = "open", mem # None, Counter
  PROVE  DiskRows(disk') \in IF mem.index.rows > 0 THEN 0 .. mem.index.rows
                             ELSE (0 .. mem.rows) \cup {None}
  <1>1. disk'.header = disk.header /\ DiskRows(disk') = DiskRows(disk)
    BY DEF Counter, IInv, TypeOK, Files, DiskRows
  <1>2. /\ disk.header \notin Unread => disk.header \in Nat
        /\ disk.count \in Nat /\ disk.count <= mem.rows /\ mem.rows \in Nat
    BY MemFacts DEF IInv, TypeOK, Files, RowsInv
  <1>3. DiskRows(disk) \in (0 .. mem.rows) \cup {None}
    <2>1. CASE disk.header \in Unread
      BY <1>2, <2>1 DEF DiskRows, Unread
    <2>2. CASE disk.header \notin Unread
      <3>1. disk.header \in 0 .. mem.rows
        BY <1>2, <2>2 DEF OpenInv
      <3> QED BY <2>2, <3>1 DEF DiskRows, Unread
    <2> QED BY <2>1, <2>2
  <1> QED BY <1>1, <1>3 DEF OpenInv

LEMMA CounterSeen ==
  IInv /\ IInv' /\ OpenInv /\ WorkInv /\ HeaderInv /\ Counter
    => WorkInv' /\ HeaderInv' /\ SeenNext
  <1> SUFFICES ASSUME IInv, IInv', OpenInv, WorkInv, HeaderInv, Counter
               PROVE  WorkInv' /\ HeaderInv' /\ SeenNext
    OBVIOUS
  <1>1. op \in {"open", "append"} /\ step = "counter" /\ mem # None
        /\ Consistent(mem) /\ mem \in Backend /\ acked \in Nat /\ disk.count \in Nat
        /\ acked <= mem.rows
    <2>1. op \in {"open", "append"} /\ step = "counter" /\ mem # None
          /\ Consistent(mem) /\ mem \in Backend /\ mem.rows \in Nat
      BY Fields DEF Counter, IInv, StepInv, OperationsOf, MemInv, Consistent
    <2>2. acked \in Nat /\ disk.count \in Nat /\ acked <= disk.count /\ disk.count <= mem.rows
      BY <2>1 DEF IInv, TypeOK, Files, RowsInv
    <2> QED BY <2>1, <2>2
  <1>2. disk'.header = disk.header /\ DiskRows(disk') = DiskRows(disk)
    BY DEF Counter, IInv, TypeOK, Files, DiskRows
  <1>3. CASE op = "open"
    <2>1. Return(mem) /\ mem.cache = None /\ entry = None
      BY <1>3 DEF Counter, WorkInv
    <2>2. /\ mem' = [mem EXCEPT !.header = 0] /\ acked' = mem.rows /\ entry' = None
          /\ op' = "none" /\ step' = "idle"
      BY <1>1, <2>1 DEF Return
    <2> DEFINE h == DiskRows(disk')
    <2>3. h \in Nat \cup {None}
      BY DiskRowsType DEF IInv, TypeOK
    <2>4. mem' # None /\ mem'.header = 0
      BY <1>1, <2>2, HeaderChanged, NoneIsNoBackend, OtherFields
    <2>5. Seen = None /\ Seen' = [mem' EXCEPT !.header = h]
      BY <1>3, <2>1, <2>2, <2>4 DEF Seen, Held
    <2> HIDE DEF h
    <2>6. Seen' = [mem EXCEPT !.header = h]
      BY <1>1, <2>2, <2>5, Reheaded
    <2>7. Consistent(Seen') /\ Seen' # None /\ Seen'.rows = mem.rows
      BY <1>1, <2>3, <2>6, HeaderChanged, NoneIsNoBackend, OtherFields
    <2>8. /\ Seen' \in Durable!OpenBackends(mem.rows, mem.metric)
          /\ mem.metric \in Metrics
      <3>1. h \in IF mem.index.rows > 0 THEN 0 .. mem.index.rows ELSE (0 .. mem.rows) \cup {None}
        BY <1>1, <1>3, OpenedHeader DEF h
      <3>2. Seen' = OpenBackend(mem.rows, mem.index.rows, mem.metric, h)
        BY <1>3, <2>6, OpenedUnder
      <3>3. mem.index.rows \in 0 .. mem.rows /\ mem.metric \in Metrics
        <4>1. /\ mem.rows \in Nat /\ mem.index.rows \in Nat /\ mem.index.rows <= mem.rows
              /\ mem.metric \in Metrics
          BY <1>1, Fields
        <4> QED BY <4>1
      <3> QED BY <3>1, <3>2, <3>3, AmongOpened
    <2>9. Durable!Open /\ acked' = Seen'.rows
      BY <1>1, <2>2, <2>5, <2>7, <2>8 DEF Durable!Open
    <2>10. SeenNext
      BY <2>9 DEF SeenNext, Durable!Next
    <2> QED BY <2>2, <2>4, <2>10 DEF WorkInv, HeaderInv
  <1>4. CASE op = "append"
    <2>1. DiskRows(disk) = entry.header /\ Working.pending = mem.pending
          /\ entry # None /\ Seen = entry
      BY <1>1, <1>4, EarlyHeader, WorkFacts
    <2>2. PICK n \in 1 .. MaxBatch : Working = NoteRows(entry, n)
      BY <1>1, <1>4 DEF WorkInv, AppendsFrom
    <2>3. CASE mem.pending >= HardThreshold
      <3>1. step' = "index" /\ UNCHANGED <<mem, entry, op, acked>>
        BY <1>4, <2>3 DEF Counter, Goto
      <3>2. Working' = Working /\ SeenNext
        BY <1>4, <3>1, GoneOn
      <3>3. HeaderInv'
        BY <1>2, <2>1, <3>1 DEF HeaderInv
      <3>4. Working' = NoteRows(entry', n) /\ NoteRows(entry', n).pending >= HardThreshold
        BY <2>1, <2>2, <2>3, <3>1, <3>2
      <3>5. AppendsFrom(NoteRows(entry, n))'
        BY <3>1, <3>4 DEF AppendsFrom, SyncsFrom
      <3>6. WorkInv'
        BY <1>4, <3>1, <3>5 DEF WorkInv
      <3> QED BY <3>2, <3>3, <3>6
    <2>4. CASE ~(mem.pending >= HardThreshold)
      <3>1. Return(mem)
        BY <1>4, <2>4 DEF Counter
      <3>2. [mem EXCEPT !.header = DiskRows(disk')] = Working
        BY <1>2, <2>1 DEF Working
      <3>3. Working = AppendRows(entry, n)
        BY <2>1, <2>2, <2>4 DEF AppendRows
      <3>4. Working \in Outcomes(Seen)
        BY <2>1, <3>3, AppendOutcome
      <3> QED BY <1>1, <2>1, <3>1, <3>2, <3>4, ReturnSeen, OperateNext
    <2> QED BY <2>3, <2>4
  <1> QED BY <1>1, <1>3, <1>4

LEMMA BuildIndexSeen ==
  IInv /\ WorkInv /\ HeaderInv /\ BuildIndex => WorkInv' /\ HeaderInv' /\ SeenNext
  <1> SUFFICES ASSUME IInv, WorkInv, HeaderInv, BuildIndex
               PROVE  WorkInv' /\ HeaderInv' /\ SeenNext
    OBVIOUS
  <1>1. /\ op \in {"append", "sync", "scale", "persist"} /\ step = "index" /\ step' = "rows"
        /\ UNCHANGED <<disk, entry, op, acked>> /\ mem' = Indexed(mem)
    BY DEF BuildIndex, IInv, StepInv, OperationsOf, Indexed
  <1>2. /\ mem \in Backend /\ mem.header = 0 /\ Consistent(mem)
        /\ DiskRows(disk) = entry.header
    BY <1>1, WorkFacts, EarlyHeader
  <1>3. SeenNext
    BY <1>1, Unseen, UnseenNext
  <1>4. HeaderInv'
    BY <1>1, <1>2 DEF HeaderInv
  <1>5. Working' = Indexed(Working)
    <2> DEFINE h == entry.header
    <2>1. Working' = [Indexed(mem) EXCEPT !.header = h] /\ Working = [mem EXCEPT !.header = h]
      BY <1>1 DEF Working
    <2> HIDE DEF h
    <2> QED BY <1>2, <2>1, IndexedAside
  <1>6. mem'.header = 0
    BY <1>1, <1>2 DEF Indexed, Backend
  <1>7. ASSUME NEW b, SyncsFrom(b)
        PROVE  step' = "rows" /\ Working' = Indexed(b)
    BY <1>1, <1>5, <1>7 DEF SyncsFrom
  <1>8. CASE op = "append"
    <2>1. PICK n \in 1 .. MaxBatch : AppendsFrom(NoteRows(entry, n))
      BY <1>8 DEF WorkInv
    <2>2. AppendsFrom(NoteRows(entry, n))'
      BY <1>1, <1>7, <2>1 DEF AppendsFrom, SyncsFrom
    <2> QED BY <1>1, <1>3, <1>4, <1>6, <1>8, <2>2 DEF WorkInv
  <1>9. CASE op = "sync"
    <2>1. SyncsFrom(entry)'
      BY <1>1, <1>7, <1>9 DEF WorkInv, SyncsFrom
    <2> QED BY <1>1, <1>3, <1>4, <1>6, <1>9, <2>1 DEF WorkInv
  <1>10. CASE op = "scale"
    <2>1. CASE SyncsFrom(entry)
      <3>1. SyncsFrom(entry)'
        BY <1>1, <1>7, <2>1 DEF SyncsFrom
      <3> QED BY <1>1, <1>3, <1>4, <1>6, <1>10, <3>1 DEF WorkInv
    <2>2. CASE ~SyncsFrom(entry)
      <3>1. PICK m \in Metrics : RebuildsFrom(RebuildUnder(entry, m))
        BY <1>10, <2>2 DEF WorkInv
      <3>2. RebuildsFrom(RebuildUnder(entry, m))'
        BY <1>1, <1>7, <3>1 DEF RebuildsFrom, SyncsFrom
      <3> QED BY <1>1, <1>3, <1>4, <1>6, <1>10, <3>2 DEF WorkInv
    <2> QED BY <2>1, <2>2
  <1>11. CASE op = "persist"
    <2>1. Working' = Indexed(entry')
      BY <1>1, <1>5, <1>11 DEF WorkInv
    <2> QED BY <1>1, <1>3, <1>4, <1>6, <1>11, <2>1 DEF WorkInv
  <1> QED BY <1>1, <1>8, <1>9, <1>10, <1>11

LEMMA NothingToIndexSeen ==
  IInv /\ IInv' /\ WorkInv /\ HeaderInv /\ NothingToIndex => WorkInv' /\ HeaderInv' /\ SeenNext
  <1> SUFFICES ASSUME IInv, IInv', WorkInv, HeaderInv, NothingToIndex
               PROVE  WorkInv' /\ HeaderInv' /\ SeenNext
    OBVIOUS
  <1>1. op \in {"append", "sync", "scale", "persist"} /\ step = "index"
        /\ mem.index.rows >= mem.rows /\ disk' = disk
    BY DEF NothingToIndex, IInv, StepInv, OperationsOf
  <1>2. /\ Consistent(mem) /\ DiskRows(disk) = entry.header /\ entry \in Backend
        /\ mem.index.rows \in Nat /\ mem.rows \in Nat /\ mem.index.rows <= mem.rows
    BY <1>1, WorkFacts, EarlyHeader, Fields
  <1>3. CASE op = "persist"
    <2>1. /\ step' \in {"metric", "pages"} /\ UNCHANGED <<mem, entry, op, acked>>
      BY <1>3 DEF NothingToIndex, Goto
    <2>2. Working' = Working /\ SeenNext
      BY <1>3, <2>1, GoneOn
    <2>3. HeaderInv'
      BY <1>1, <1>2, <2>1 DEF HeaderInv
    <2>4. Working = entry /\ entry.index.rows >= entry.rows
      BY <1>1, <1>3, WorkFacts DEF WorkInv
    <2>5. Indexed(entry) = entry
      BY <1>2, <2>4 DEF Indexed, IndexThrough, Backend
    <2> QED BY <1>3, <2>1, <2>2, <2>3, <2>4, <2>5 DEF WorkInv
  <1>4. CASE op # "persist"
    <2>1. mem.index.rows = mem.rows
      BY <1>1, <1>2
    <2>2. Consistent([mem EXCEPT !.pending = 0])
      BY <1>2, <2>1, Drained
    <2>3. Return([mem EXCEPT !.pending = 0])
      BY <1>4 DEF NothingToIndex
    <2> QED BY <1>1, <1>4, <2>2, <2>3, SyncReturns, OperateNext
  <1> QED BY <1>3, <1>4

LEMMA WriteRowsSeen ==
  IInv /\ IInv' /\ WorkInv /\ HeaderInv /\ WriteRows => WorkInv' /\ HeaderInv' /\ SeenNext
  <1> SUFFICES ASSUME IInv, IInv', WorkInv, HeaderInv, WriteRows
               PROVE  WorkInv' /\ HeaderInv' /\ SeenNext
    OBVIOUS
  <1>1. op \in {"open", "soft", "append", "sync", "scale", "persist"} /\ step = "rows"
    BY DEF WriteRows, IInv, StepInv, OperationsOf
  <1>2. disk'.header = disk.header /\ DiskRows(disk') = DiskRows(disk)
    BY DEF WriteRows, Truncate, Fill, IInv, TypeOK, Files, DiskRows
  <1>3. op # "open" => DiskRows(disk) = entry.header
    BY <1>1, EarlyHeader
  <1>4. entry = None <=> op = "open"
    BY <1>1 DEF WorkInv
  <1>5. CASE Truncate("rows")
    <2>1. UNCHANGED <<mem, entry, op, step, acked>>
      BY <1>5 DEF Truncate
    <2>2. Working' = Working /\ SeenNext
      BY <1>1, <2>1, GoneOn
    <2>3. HeaderInv'
      BY <1>2, <1>3, <1>4, <2>1 DEF HeaderInv
    <2> QED BY <2>1, <2>2, <2>3 DEF WorkInv, AppendsFrom, RebuildsFrom, SyncsFrom
  <1>6. CASE op = "soft" /\ Return(mem)
    <2>1. /\ Consistent(mem) /\ Seen = entry /\ entry # None
          /\ [mem EXCEPT !.header = DiskRows(disk')] = Working
      BY <1>2, <1>3, <1>6, WorkFacts DEF Working
    <2>2. Working \in Outcomes(Seen)
      BY <1>6, <2>1, PublishOutcome DEF WorkInv
    <2> QED BY <1>6, <2>1, <2>2, ReturnSeen, OperateNext
  <1>7. CASE \/ op = "open" /\ Goto("meta")
             \/ op = "persist" /\ Goto("pages")
             \/ op \in {"append", "sync", "scale"} /\ Goto("drain")
    <2>1. /\ UNCHANGED <<mem, entry, op, acked>>
          /\ step' = IF op = "open" THEN "meta" ELSE IF op = "persist" THEN "pages" ELSE "drain"
      BY <1>7 DEF Goto
    <2>2. Working' = Working /\ SeenNext
      BY <1>1, <2>1, GoneOn
    <2>3. HeaderInv'
      BY <1>2, <1>3, <1>4, <2>1 DEF HeaderInv
    <2>4. ASSUME NEW b, SyncsFrom(b), op \in {"append", "sync", "scale"}
          PROVE  step' = "drain" /\ Working' = Indexed(b)
      BY <1>1, <2>1, <2>2, <2>4 DEF SyncsFrom
    <2>5. WorkInv'
      BY <1>1, <2>1, <2>2, <2>4 DEF WorkInv, AppendsFrom, RebuildsFrom, SyncsFrom
    <2> QED BY <2>2, <2>3, <2>5
  <1> QED BY <1>5, <1>6, <1>7 DEF WriteRows

LEMMA DrainSeen ==
  IInv /\ IInv' /\ WorkInv /\ HeaderInv /\ Drain => WorkInv' /\ HeaderInv' /\ SeenNext
  <1> SUFFICES ASSUME IInv, IInv', WorkInv, HeaderInv, Drain
               PROVE  WorkInv' /\ HeaderInv' /\ SeenNext
    OBVIOUS
  <1>1. op \in {"append", "sync", "scale"} /\ step = "drain" /\ disk' = disk
        /\ Return([mem EXCEPT !.pending = 0])
    BY DEF Drain, IInv, StepInv, OperationsOf
  <1>2. Consistent([mem EXCEPT !.pending = 0])
    BY <1>1, WorkFacts, Drained DEF IInv, ProgressInv
  <1> QED BY <1>1, <1>2, SyncReturns, OperateNext

(* The writes of a persist after it has indexed, and the meta write of an  *)
(* open, leave the working copy alone.                                     *)
PersistSteps == {"pages", "edges", "header", "meta", "recount", "metric", "unmark",
                 "undo pages", "undo edges"}

LEMMA WritesOn ==
  ASSUME IInv, WorkInv, step \in PersistSteps,
         UNCHANGED <<mem, entry, op, acked>>, step' \in PersistSteps \cup {"counter"},
         op = "open" \/ step' # "counter", HeaderInv'
  PROVE  WorkInv' /\ HeaderInv' /\ SeenNext
  <1>1. op \in {"open", "persist"}
    BY DEF PersistSteps, IInv, StepInv, OperationsOf
  <1>2. Working' = Working /\ SeenNext
    BY <1>1, GoneOn
  <1>3. WorkInv'
    BY <1>1, <1>2 DEF WorkInv, PersistSteps
  <1> QED BY <1>2, <1>3

LEMMA RenameSeen ==
  IInv /\ WorkInv /\ HeaderInv /\ (RenamePages \/ RenameEdges)
    => WorkInv' /\ HeaderInv' /\ SeenNext
  <1> SUFFICES ASSUME IInv, WorkInv, HeaderInv, RenamePages \/ RenameEdges
               PROVE  WorkInv' /\ HeaderInv' /\ SeenNext
    OBVIOUS
  <1>1. /\ op = "persist" /\ step \in {"pages", "edges"} /\ step' \in {"edges", "header"}
        /\ UNCHANGED <<mem, entry, op, acked>>
    BY DEF RenamePages, RenameEdges, Goto, IInv, StepInv, OperationsOf
  <1>2. DiskRows(disk') = DiskRows(disk)
    BY DEF RenamePages, RenameEdges, IInv, TypeOK, Files, DiskRows
  <1>3. HeaderInv'
    BY <1>1, <1>2, EarlyHeader DEF HeaderInv
  <1> QED BY <1>1, <1>3, WritesOn DEF PersistSteps

LEMMA WriteHeaderSeen ==
  IInv /\ WorkInv /\ HeaderInv /\ WriteHeader => WorkInv' /\ HeaderInv' /\ SeenNext
  <1> SUFFICES ASSUME IInv, WorkInv, HeaderInv, WriteHeader
               PROVE  WorkInv' /\ HeaderInv' /\ SeenNext
    OBVIOUS
  <1>1. /\ op = "persist" /\ step = "header" /\ step' \in {"header", "meta"}
        /\ UNCHANGED <<mem, entry, op, acked>>
    BY DEF WriteHeader, Truncate, Goto, IInv, StepInv, OperationsOf
  <1>2. step' = "header" => disk'.header = Torn
    BY <1>1 DEF WriteHeader, Truncate, Goto, IInv, TypeOK, Files
  <1>3. HeaderInv'
    BY <1>1, <1>2 DEF HeaderInv, After
  <1> QED BY <1>1, <1>3, WritesOn DEF PersistSteps

LEMMA LateSeen ==
  IInv /\ WorkInv /\ HeaderInv /\ (WriteMeta \/ RewriteRows \/ RenameMetric)
    => WorkInv' /\ HeaderInv' /\ SeenNext
  <1> SUFFICES ASSUME IInv, WorkInv, HeaderInv, WriteMeta \/ RewriteRows \/ RenameMetric
               PROVE  WorkInv' /\ HeaderInv' /\ SeenNext
    OBVIOUS
  <1>1. /\ op \in {"open", "persist"} /\ step \in {"meta", "recount", "metric"}
        /\ UNCHANGED <<mem, entry, op, acked>>
        /\ step' \in {"meta", "recount", "metric", "unmark"}
             \/ (op = "open" /\ step' = "counter")
    BY DEF WriteMeta, RewriteRows, RenameMetric, Truncate, Goto, IInv, StepInv, OperationsOf
  <1>2. HeaderInv'
    <2>1. CASE op = "open"
      BY <1>1, <2>1 DEF WorkInv, HeaderInv
    <2>2. CASE op = "persist"
      BY <1>1, <2>2 DEF HeaderInv, After
    <2> QED BY <1>1, <2>1, <2>2
  <1> QED BY <1>1, <1>2, WritesOn DEF PersistSteps

LEMMA FailPersistFilesSeen ==
  IInv /\ WorkInv /\ HeaderInv /\ FailPersistFiles => WorkInv' /\ HeaderInv' /\ SeenNext
  <1> SUFFICES ASSUME IInv, WorkInv, HeaderInv, FailPersistFiles
               PROVE  WorkInv' /\ HeaderInv' /\ SeenNext
    OBVIOUS
  <1>1. /\ op = "persist" /\ step \in {"pages", "edges", "header"} /\ step' = "undo pages"
        /\ UNCHANGED <<disk, mem, entry, op, acked>>
    BY DEF FailPersistFiles, IInv, StepInv, OperationsOf
  <1>2. HeaderInv'
    BY <1>1 DEF HeaderInv, After
  <1> QED BY <1>1, <1>2, WritesOn DEF PersistSteps

(* A persist that fails once its rows are indexed.                         *)
LEMMA PersistGivenUp ==
  ASSUME IInv, IInv', WorkInv, op = "persist", step \notin {"mark", "index"},
         Return(mem), DiskRows(disk') \in {entry.header, entry.rows, None}
  PROVE  WorkInv' /\ HeaderInv' /\ SeenNext
  <1> DEFINE h == DiskRows(disk')
             i == Indexed(entry)
  <1>1. /\ Consistent(mem) /\ mem \in Backend /\ Seen = entry /\ entry # None
        /\ entry \in Backend
    BY WorkFacts
  <1>2. Working = i /\ Working = [mem EXCEPT !.header = entry.header]
    BY DEF WorkInv, Working
  <1>3. i \in Backend /\ i.header = entry.header
    <2>1. i \in Backend
      BY WorkFacts, IndexedConsistent DEF Indexed, Consistent
    <2>2. i.header = entry.header
      BY <1>1 DEF Indexed, Backend
    <2> QED BY <2>1, <2>2
  <1>4. [mem EXCEPT !.header = h] = [i EXCEPT !.header = h]
    <2> DEFINE g == entry.header
    <2>1. i = [mem EXCEPT !.header = g]
      BY <1>2
    <2> HIDE DEF h, i, g
    <2>2. [[mem EXCEPT !.header = g] EXCEPT !.header = h] = [mem EXCEPT !.header = h]
      BY <1>1, Reheaded
    <2> QED BY <2>1, <2>2
  <1>5. [i EXCEPT !.header = h] \in PersistFailed(entry)
    <2>1. [i EXCEPT !.header = entry.header] = i
      BY <1>3 DEF Backend
    <2>2. PersistFailed(entry)
            = {entry, i} \cup {[i EXCEPT !.header = x] : x \in {entry.rows, None}}
      BY DEF PersistFailed, Indexed
    <2> HIDE DEF h, i
    <2> QED BY <2>1, <2>2 DEF h
  <1>6. [mem EXCEPT !.header = h] \in Outcomes(Seen)
    BY <1>1, <1>4, <1>5, PersistOutcome
  <1> QED BY <1>1, <1>6, ReturnSeen, OperateNext

LEMMA UndoSeen ==
  IInv /\ IInv' /\ WorkInv /\ HeaderInv /\ (UndoPages \/ UndoEdges)
    => WorkInv' /\ HeaderInv' /\ SeenNext
  <1> SUFFICES ASSUME IInv, IInv', WorkInv, HeaderInv, UndoPages \/ UndoEdges
               PROVE  WorkInv' /\ HeaderInv' /\ SeenNext
    OBVIOUS
  <1>1. op = "persist" /\ step \in {"undo pages", "undo edges"}
    BY DEF UndoPages, UndoEdges, IInv, StepInv, OperationsOf
  <1>2. disk'.header = disk.header /\ DiskRows(disk') = DiskRows(disk)
    BY DEF UndoPages, UndoEdges, Undo, Truncate, Fill, IInv, TypeOK, Files, DiskRows
  <1>3. DiskRows(disk) = entry.header \/ disk.header = Torn
    BY <1>1, WorkFacts DEF HeaderInv, After
  <1>4. CASE Return(mem)
    <2>1. DiskRows(disk') \in {entry.header, None}
      BY <1>2, <1>3, StoreAssumption DEF DiskRows
    <2> QED BY <1>1, <1>4, <2>1, PersistGivenUp
  <1>5. CASE UNCHANGED <<mem, entry, op, acked>> /\ step' \in {"undo pages", "undo edges"}
    <2>1. HeaderInv'
      BY <1>2, <1>3, <1>5 DEF HeaderInv
    <2> QED BY <1>1, <1>5, <2>1, WritesOn DEF PersistSteps
  <1> QED BY <1>1, <1>4, <1>5 DEF UndoPages, UndoEdges, Undo, Truncate, Goto

(* The header a persist has written counts every row.                      *)
LEMMA LateHeader ==
  ASSUME IInv, op = "persist", step \in {"meta", "recount", "metric", "unmark"}
  PROVE  DiskRows(disk) = mem.rows
  <1>1. mem # None /\ mem.rows = disk.count /\ mem.rows \in Nat
    BY IdleRows DEF IInv, StepInv, OperationsOf
  <1>2. CASE mem.rows = 0
    <2>1. disk.header = None
      BY <1>1, <1>2 DEF IInv, FilesInv
    <2> QED BY <1>2, <2>1 DEF DiskRows
  <1>3. CASE mem.rows # 0
    <2>1. disk.header = mem.rows
      BY <1>1, <1>3 DEF IInv, ProgressInv, After
    <2> QED BY <1>1, <2>1, StoreAssumption DEF DiskRows
  <1> QED BY <1>2, <1>3

LEMMA UnmarkSeen ==
  IInv /\ IInv' /\ WorkInv /\ Unmark => WorkInv' /\ HeaderInv' /\ SeenNext
  <1> SUFFICES ASSUME IInv, IInv', WorkInv, Unmark
               PROVE  WorkInv' /\ HeaderInv' /\ SeenNext
    OBVIOUS
  <1> DEFINE r == entry.rows
             b == [mem EXCEPT !.pending = 0, !.dirty = FALSE]
             i == Indexed(entry)
  <1>1. op = "persist" /\ step = "unmark" /\ Return(b)
    BY DEF Unmark, IInv, StepInv, OperationsOf
  <1>2. /\ Consistent(mem) /\ mem \in Backend /\ Seen = entry /\ entry # None
        /\ entry \in Backend /\ Consistent(entry) /\ Working.rows = mem.rows
    BY <1>1, WorkFacts
  <1>3. Working = i /\ i \in Backend /\ i.rows = r
    BY <1>1, <1>2, IndexedConsistent DEF WorkInv, Indexed, Consistent
  <1>4. DiskRows(disk') = r
    <2>1. DiskRows(disk) = mem.rows
      BY <1>1, LateHeader
    <2>2. DiskRows(disk') = DiskRows(disk)
      BY DEF Unmark, IInv, TypeOK, Files, DiskRows
    <2> QED BY <1>2, <1>3, <2>1, <2>2
  <1>5. Consistent(b)
    <2>1. mem.index.rows = mem.rows
      <3>1. mem.rows \in Nat /\ mem.index.rows \in Nat /\ mem.index.rows <= mem.rows
        BY <1>2, Fields
      <3> QED BY <1>1, <3>1 DEF IInv, ProgressInv, After
    <2> QED BY <1>2, <2>1, DrainedClean
  <1>6. [b EXCEPT !.header = r] = [i EXCEPT !.pending = 0, !.dirty = FALSE, !.header = r]
    <2>1. i = [mem EXCEPT !.header = entry.header]
      BY <1>3 DEF Working
    <2> HIDE DEF r, i
    <2> QED BY <1>2, <2>1 DEF Backend
  <1>7. PersistWritten(entry) = [i EXCEPT !.pending = 0, !.dirty = FALSE, !.header = r]
    <2> DEFINE x == IndexThrough(entry.index, entry.rows, entry.metric)
    <2>1. i = [entry EXCEPT !.index = x] /\ EnsureSync(entry) = [entry EXCEPT !.index = x, !.pending = 0]
      BY DEF Indexed, EnsureSync
    <2> HIDE DEF x, i, r
    <2> QED BY <1>2, <2>1 DEF PersistWritten, Backend, r
  <1>8. [b EXCEPT !.header = DiskRows(disk')] \in Outcomes(Seen)
    BY <1>2, <1>4, <1>6, <1>7, PersistOutcome DEF PersistIndex
  <1> HIDE DEF b
  <1> QED BY <1>1, <1>2, <1>5, <1>8, ReturnSeen, OperateNext

LEMMA FailStepSeen ==
  IInv /\ IInv' /\ WorkInv /\ HeaderInv /\ FailStep => WorkInv' /\ HeaderInv' /\ SeenNext
  <1> SUFFICES ASSUME IInv, IInv', WorkInv, HeaderInv, FailStep
               PROVE  WorkInv' /\ HeaderInv' /\ SeenNext
    OBVIOUS
  <1>1. /\ op # "none" /\ disk' = disk /\ mem # None
        /\ step \in Steps \ {"idle", "counter", "pages", "edges", "header",
                             "undo pages", "undo edges"}
        /\ Return(IF op \in {"open", "soft"} \/ step = "mark" THEN entry
                  ELSE IF step = "drain" THEN [mem EXCEPT !.pending = 0] ELSE mem)
    BY DEF FailStep, IInv, StepInv, OperationsOf, Steps
  <1>2. CASE op = "open"
    <2>1. entry = None
      BY <1>2 DEF WorkInv
    <2>2. /\ mem' = None /\ entry' = None /\ op' = "none" /\ acked' = acked
      BY <1>1, <1>2, <2>1 DEF Return
    <2> QED BY <1>1, <2>1, <2>2, UnseenNext DEF WorkInv, HeaderInv, Seen
  <1>3. CASE op = "soft" \/ step = "mark"
    <2>1. op \notin {"none", "open"} /\ step \in {"mark", "rows"}
      BY <1>1, <1>3 DEF IInv, StepInv, OperationsOf, Steps
    <2>2. DiskRows(disk) = entry.header
      BY <2>1, EarlyHeader
    <2>3. Return(entry)
      BY <1>1, <1>3
    <2> QED BY <1>1, <2>1, <2>2, <2>3, UndoneSeen, OperateNext
  <1>4. CASE op \in {"append", "sync", "scale"} /\ step # "mark"
    <2>1. step \in {"index", "rows", "drain"}
      BY <1>1, <1>4 DEF IInv, StepInv, OperationsOf, Steps
    <2>2. CASE step = "drain"
      <3>1. Consistent([mem EXCEPT !.pending = 0])
        BY <1>4, <2>2, WorkFacts, Drained DEF IInv, ProgressInv
      <3>2. Return([mem EXCEPT !.pending = 0])
        BY <1>1, <1>4, <2>2
      <3> QED BY <1>1, <1>4, <2>2, <3>1, <3>2, SyncReturns, OperateNext
    <2>3. CASE step # "drain"
      <3>1. Consistent(mem) /\ Return(mem)
        BY <1>1, <1>4, <2>3, WorkFacts
      <3> QED BY <1>1, <1>4, <2>1, <2>3, <3>1, SyncReturns, OperateNext
    <2> QED BY <2>2, <2>3
  <1>5. CASE op = "persist" /\ step # "mark"
    <2>1. Return(mem) /\ step \in {"index", "rows", "meta", "recount", "metric", "unmark"}
      BY <1>1, <1>5 DEF Steps, IInv, StepInv, OperationsOf
    <2>2. CASE step = "index"
      <3>1. /\ Consistent(mem) /\ Seen = entry /\ entry # None /\ Working = entry
            /\ DiskRows(disk') = entry.header
        BY <1>1, <1>5, <2>2, WorkFacts, EarlyHeader DEF WorkInv
      <3>2. [mem EXCEPT !.header = DiskRows(disk')] = entry
        BY <3>1 DEF Working
      <3>3. entry \in Outcomes(Seen)
        BY <3>1, PersistOutcome DEF PersistFailed
      <3> QED BY <2>1, <3>1, <3>2, <3>3, ReturnSeen, OperateNext
    <2>3. CASE step # "index"
      <3>1. DiskRows(disk') \in {entry.header, entry.rows}
        <4>1. CASE step = "rows"
          BY <1>1, <1>5, <4>1, EarlyHeader
        <4>2. CASE step # "rows"
          <5>1. DiskRows(disk) = mem.rows
            BY <1>5, <2>1, <2>3, <4>2, LateHeader
          <5>2. mem.rows = entry.rows
            <6>1. Working = Indexed(entry) /\ Working.rows = mem.rows /\ Consistent(entry)
              BY <1>5, <2>3, WorkFacts DEF WorkInv
            <6>2. Indexed(entry).rows = entry.rows
              BY <6>1, IndexedConsistent DEF Indexed
            <6> QED BY <6>1, <6>2
          <5> QED BY <1>1, <5>1, <5>2
        <4> QED BY <4>1, <4>2
      <3> QED BY <1>5, <2>1, <2>3, <3>1, PersistGivenUp
    <2> QED BY <2>2, <2>3
  <1>6. op \in {"open", "soft", "append", "sync", "scale", "persist"} \/ step = "mark"
    BY <1>1 DEF IInv, StepInv, OperationsOf, Steps
  <1> QED BY <1>2, <1>3, <1>4, <1>5, <1>6

LEMMA CrashSeen ==
  IInv /\ WorkInv /\ Crash => WorkInv' /\ HeaderInv' /\ SeenNext
  <1> SUFFICES ASSUME IInv, WorkInv, Crash PROVE WorkInv' /\ HeaderInv' /\ SeenNext
    OBVIOUS
  <1>1. mem # None /\ mem' = None /\ entry' = None /\ op' = "none" /\ acked' = acked
    BY DEF Crash, Return
  <1>2. Seen' = None
    BY <1>1 DEF Seen
  <1>3. CASE Seen = None
    BY <1>1, <1>2, <1>3, UnseenNext DEF WorkInv, HeaderInv
  <1>4. CASE Seen # None
    <2>1. SeenNext
      BY <1>1, <1>2, <1>4 DEF SeenNext, Durable!Next, Durable!Crash
    <2> QED BY <1>1, <2>1 DEF WorkInv, HeaderInv
  <1> QED BY <1>3, <1>4

LEMMA SeenStutter ==
  WorkInv /\ HeaderInv /\ UNCHANGED vars => WorkInv' /\ HeaderInv' /\ SeenNext
  <1> SUFFICES ASSUME WorkInv, HeaderInv, UNCHANGED vars
               PROVE  WorkInv' /\ HeaderInv' /\ SeenNext
    OBVIOUS
  <1>1. UNCHANGED <<Seen, acked>>
    BY DEF vars, Seen, Held, DiskRows
  <1>2. WorkInv' /\ HeaderInv'
    BY DEF vars, WorkInv, HeaderInv, AppendsFrom, RebuildsFrom, SyncsFrom, Working, After,
           DiskRows
  <1> QED BY <1>1, <1>2, UnseenNext

(* All steps together.                                                     *)
LEMMA EveryStepSeen ==
  IInv /\ OpenInv /\ WorkInv /\ HeaderInv /\ [Next]_vars
    => OpenInv' /\ WorkInv' /\ HeaderInv' /\ SeenNext
  <1>1. IInv /\ [Next]_vars => IInv'
    BY StoreStepInv
  <1> QED
    BY <1>1, OpenStep, SeenStutter, BeginOpenSeen, BeginAppendSeen, BeginSyncSeen, BeginScaleSeen,
       BeginMetricSeen, BeginSoftSeen, BeginPersistSeen, SkipPersistSeen, MarkSeen,
       CounterSeen, BuildIndexSeen, NothingToIndexSeen, WriteRowsSeen, DrainSeen, RenameSeen,
       WriteHeaderSeen, UndoSeen, LateSeen, UnmarkSeen, FailStepSeen, FailPersistFilesSeen,
       CrashSeen
    DEF Next, Begin, Continue

(* The store implements the durable backend: an operation is one step to   *)
(* one of the states BpannBackend lists for it, whichever write fails, and *)
(* a kill loses nothing that was acknowledged (backend.rs, open and        *)
(* append_rows; persist_atomic.rs, persist_files).                         *)
THEOREM OperationsAreDurable == Spec => ImplementsDurableBackend
  <1>1. Init => OpenInv /\ WorkInv /\ HeaderInv /\ Durable!Init
    BY DEF Init, OpenInv, EmptyFiles, Unread, WorkInv, HeaderInv, Seen, Durable!Init
  <1>2. IInv /\ OpenInv /\ WorkInv /\ HeaderInv /\ [Next]_vars
          => OpenInv' /\ WorkInv' /\ HeaderInv' /\ [Durable!Next]_(Durable!durableVars)
    BY EveryStepSeen DEF SeenNext
  <1> QED BY <1>1, <1>2, StoreInvariance, PTL DEF Spec, ImplementsDurableBackend, Durable!Spec

-----------------------------------------------------------------------------
(* A clean backend has files that serve.  A dirty one, and one that is     *)
(* being persisted, promises nothing of them.                              *)
LEMMA DirtyStaysOut ==
  ASSUME mem'.dirty = TRUE, step' \notin {"undo pages", "undo edges"}
  PROVE  CleanInv'
  BY DEF CleanInv

LEMMA PersistStaysOut ==
  ASSUME op' = "persist", step' \notin {"undo pages", "undo edges"}
  PROVE  CleanInv'
  BY DEF CleanInv, Dirtying

(* An open on its way, and an operation that returns.                      *)
LEMMA OpeningClean ==
  ASSUME op' = "open", step' \in {"rows", "meta"},
         ~mem'.dirty /\ mem'.rows > 0 =>
           /\ ~disk'.marker /\ StoredMetric' = mem'.metric
           /\ step' = "meta" /\ disk'.rows \notin Unread => mem'.rows <= disk'.rows
  PROVE  CleanInv'
  BY DEF CleanInv, Dirtying

LEMMA CleanReturn ==
  ASSUME NEW b \in Backend, b # None, Return(b),
         ~b.dirty /\ b.rows > 0 =>
           ~disk'.marker /\ StoredMetric' = b.metric /\ b.rows <= LoadRows(disk')
  PROVE  CleanInv'
  <1>1. /\ op' = "none" /\ step' = "idle" /\ mem' = [b EXCEPT !.header = 0]
    BY DEF Return
  <1>2. mem'.dirty = b.dirty /\ mem'.rows = b.rows /\ mem'.metric = b.metric
    BY <1>1, OtherFields
  <1> QED BY <1>1, <1>2 DEF CleanInv, Dirtying

LEMMA DirtyReturn ==
  ASSUME NEW b \in Backend, b # None, Return(b), b.dirty
  PROVE  CleanInv'
  BY CleanReturn

LEMMA BeginOpenClean ==
  IInv /\ CleanInv /\ BeginOpen => CleanInv'
  <1> SUFFICES ASSUME IInv, CleanInv, BeginOpen PROVE CleanInv'
    OBVIOUS
  <1>1. PICK m \in Metrics, n \in Nat : \E i \in 0 .. n, s \in {"rows", "meta"} :
           /\ i = IndexedRows(disk, m, n)
           /\ disk' = [disk EXCEPT !.data = Larger(disk.data, n)]
           /\ Start("open", s, OpenBackend(n, i, m, 0))
    BY OpenBegun
  <1>2. PICK i \in 0 .. n, s \in {"rows", "meta"} :
           /\ i = IndexedRows(disk, m, n)
           /\ disk' = [disk EXCEPT !.data = Larger(disk.data, n)]
           /\ mem' = OpenBackend(n, i, m, 0)
           /\ op' = "open" /\ step' = s
    BY <1>1 DEF Start
  <1>3. disk'.marker = disk.marker /\ disk'.metric = disk.metric /\ disk'.rows = disk.rows
    BY <1>2 DEF IInv, TypeOK, Files
  <1>4. ASSUME i = n, n > 0
        PROVE  /\ ~disk.marker /\ StoredMetric = m
               /\ disk.rows \notin Unread => n <= disk.rows
    <2>1. MetricMatches(disk, m) /\ n = Smaller(LoadRows(disk), n)
      BY <1>2, <1>4 DEF IndexedRows
    <2>2. LoadRows(disk) \in Nat /\ (disk.rows \notin Unread => LoadRows(disk) = disk.rows)
      BY DEF IInv, TypeOK, Files, Meta, LoadRows
    <2>3. n <= LoadRows(disk)
      BY <2>1, <2>2 DEF Smaller
    <2> QED BY <2>1, <2>2, <2>3 DEF MetricMatches, StoredMetric
  <1>5. mem'.rows = n /\ mem'.metric = m /\ mem'.dirty = (i < n)
    BY <1>2 DEF OpenBackend
  <1>6. ~mem'.dirty => i = n
    <2>1. ~mem'.dirty => ~(i < n)
      BY <1>5, Zenon
    <2> QED BY <2>1
  <1>7. ~mem'.dirty /\ mem'.rows > 0 =>
           /\ ~disk'.marker /\ StoredMetric' = mem'.metric
           /\ step' = "meta" /\ disk'.rows \notin Unread => mem'.rows <= disk'.rows
    BY <1>3, <1>4, <1>5, <1>6 DEF StoredMetric
  <1> QED BY <1>2, <1>7, OpeningClean

LEMMA BeginClean ==
  IInv /\ CleanInv /\ (BeginSync \/ BeginScale \/ BeginMetric \/ BeginSoft \/ BeginPersist
                         \/ BeginAppend)
    => CleanInv'
  <1> SUFFICES ASSUME IInv, CleanInv,
                      BeginSync \/ BeginScale \/ BeginMetric \/ BeginSoft \/ BeginPersist
                        \/ BeginAppend
               PROVE  CleanInv'
    OBVIOUS
  <1>1. /\ mem # None /\ op = "none"
    BY DEF BeginSync, BeginScale, BeginMetric, BeginSoft, BeginPersist, BeginAppend, Idle
  <1>2. /\ mem \in Backend /\ mem.dirty \in BOOLEAN /\ mem.rows \in Nat
        /\ mem.index.rows \in Nat /\ (mem.dirty \/ mem.index.rows = mem.rows)
    BY <1>1, MemFacts
  <1>3. ASSUME NEW o \in {"sync", "scale"}, Start(o, "index", mem), disk' = disk
        PROVE  CleanInv'
    BY <1>1, <1>3 DEF CleanInv, Dirtying, Start, StoredMetric
  <1>4. ASSUME NEW m \in Metrics PROVE RebuildUnder(mem, m).dirty = TRUE
    BY <1>2 DEF RebuildUnder, ResetIndex, Backend
  <1>5. CASE BeginSync
    BY <1>3, <1>5 DEF BeginSync
  <1>6. CASE BeginScale
    <2>1. ASSUME NEW m \in Metrics, Start("scale", "mark", RebuildUnder(mem, m))
          PROVE  CleanInv'
      BY <1>4, <2>1, DirtyStaysOut DEF Start
    <2> QED BY <1>3, <1>6, <2>1, BackendAssumption DEF BeginScale
  <1>7. CASE BeginMetric
    <2>1. PICK m \in Metrics \ {Unscaled, mem.metric}, rebuild \in BOOLEAN :
            Start("metric", "mark", SetMetric(mem, m, rebuild))
      BY <1>7 DEF BeginMetric
    <2>2. ASSUME NEW ix
          PROVE  [mem EXCEPT !.index = ix, !.metric = m, !.cache = None,
                             !.dirty = TRUE].dirty = TRUE
      BY <1>2 DEF Backend
    <2>3. SetMetric(mem, m, rebuild).dirty = TRUE
      BY <1>4, <2>2 DEF SetMetric
    <2> QED BY <2>1, <2>3, DirtyStaysOut DEF Start
  <1>8. CASE BeginSoft
    <2>1. mem.dirty = TRUE
      BY <1>2, <1>8 DEF BeginSoft, SoftBuild
    <2>2. SoftPublish(mem, SoftBuild(mem)).dirty = TRUE
      BY <1>2, <2>1 DEF SoftPublish, Backend
    <2> QED BY <1>8, <2>2, DirtyStaysOut DEF BeginSoft, Start
  <1>9. CASE BeginPersist
    BY <1>9, PersistStaysOut DEF BeginPersist, Start
  <1>10. CASE BeginAppend
    <2>1. PICK n \in 1 .. MaxBatch : Start("append", "counter", NoteRows(mem, n))
      BY <1>10 DEF BeginAppend
    <2>2. NoteRows(mem, n).dirty = TRUE
      BY <1>2 DEF NoteRows, Backend
    <2> QED BY <2>1, <2>2, DirtyStaysOut DEF Start
  <1> QED BY <1>5, <1>6, <1>7, <1>8, <1>9, <1>10

LEMMA SkipPersistClean ==
  IInv /\ CleanInv /\ SkipPersist => CleanInv'
  <1> SUFFICES ASSUME IInv, CleanInv, SkipPersist PROVE CleanInv'
    OBVIOUS
  <1> DEFINE b == PersistSkipped(mem)
  <1>1. /\ mem # None /\ op = "none" /\ ~mem.dirty /\ disk' = disk /\ Return(b)
    BY DEF SkipPersist, Idle, Rewritten
  <1>2. mem \in Backend /\ mem.rows \in Nat
    BY <1>1, MemFacts
  <1>3. b \in Backend /\ b.rows = mem.rows /\ b.metric = mem.metric
    BY <1>2 DEF PersistSkipped, Backend
  <1>4. b # None
    BY <1>3, StoreAssumption
  <1>5. mem.rows > 0 =>
          ~disk'.marker /\ StoredMetric' = mem.metric /\ mem.rows <= LoadRows(disk')
    BY <1>1 DEF CleanInv, StoredMetric
  <1> HIDE DEF b
  <1> QED BY <1>1, <1>3, <1>4, <1>5, CleanReturn

LEMMA SyncClean ==
  IInv /\ CleanInv /\ (Mark \/ BuildIndex \/ NothingToIndex \/ Drain) => CleanInv'
  <1> SUFFICES ASSUME IInv, CleanInv, Mark \/ BuildIndex \/ NothingToIndex \/ Drain
               PROVE  CleanInv'
    OBVIOUS
  <1>1. /\ mem # None
        /\ op \in {"metric", "append", "sync", "scale", "persist"}
        /\ step \in {"mark", "index", "drain"}
    BY DEF Mark, BuildIndex, NothingToIndex, Drain, IInv, StepInv, OperationsOf
  <1>2. /\ mem \in Backend /\ mem.dirty \in BOOLEAN /\ mem.rows \in Nat
        /\ mem.index.rows \in Nat /\ (mem.dirty \/ mem.index.rows = mem.rows)
    BY <1>1, MemFacts
  <1> DEFINE b == [mem EXCEPT !.pending = 0]
  <1>3. b \in Backend /\ b.rows = mem.rows /\ b.metric = mem.metric /\ b.dirty = mem.dirty
    BY <1>2 DEF Backend
  <1>4. b # None
    BY <1>3, StoreAssumption
  <1> HIDE DEF b
  <1>5. CASE Mark
    <2>1. step = "mark" /\ op \in {"metric", "scale", "persist"}
      BY <1>5 DEF Mark, IInv, StepInv, OperationsOf
    <2>2. CASE op = "metric"
      <3>1. mem.dirty /\ Return(mem)
        BY <1>5, <2>2 DEF Mark, CleanInv, Dirtying
      <3> QED BY <1>1, <1>2, <3>1, DirtyReturn
    <2>3. CASE op = "scale"
      <3>1. mem.dirty = TRUE /\ Goto("index")
        BY <1>2, <1>5, <2>1, <2>3 DEF Mark, CleanInv, Dirtying
      <3> QED BY <3>1, DirtyStaysOut DEF Goto
    <2>4. CASE op = "persist"
      BY <1>5, <2>4, PersistStaysOut DEF Mark, Goto
    <2> QED BY <2>1, <2>2, <2>3, <2>4
  <1>6. CASE BuildIndex
    <2>1. mem.dirty = TRUE
      BY <1>2, <1>6 DEF BuildIndex
    <2>2. mem'.dirty = TRUE /\ step' = "rows"
      BY <1>2, <1>6, <2>1 DEF BuildIndex, Backend
    <2> QED BY <2>2, DirtyStaysOut
  <1>7. CASE NothingToIndex
    <2>1. CASE op = "persist"
      BY <1>7, <2>1, PersistStaysOut DEF NothingToIndex, Goto
    <2>2. CASE op # "persist"
      <3>1. Return(b) /\ disk' = disk /\ op # "open" /\ step = "index"
        BY <1>1, <1>7, <2>2 DEF NothingToIndex, b
      <3>2. ~mem.dirty /\ mem.rows > 0 =>
              ~disk'.marker /\ StoredMetric' = mem.metric /\ mem.rows <= LoadRows(disk')
        BY <1>1, <2>2, <3>1 DEF CleanInv, StoredMetric
      <3> QED BY <1>3, <1>4, <3>1, <3>2, CleanReturn
    <2> QED BY <2>1, <2>2
  <1>8. CASE Drain
    <2>1. step = "drain" /\ op \in {"append", "sync", "scale"} /\ Return(b)
      BY <1>8 DEF Drain, IInv, StepInv, OperationsOf, b
    <2>2. b.dirty
      BY <1>3, <2>1 DEF CleanInv, Dirtying
    <2> QED BY <1>3, <1>4, <2>1, <2>2, DirtyReturn
  <1> QED BY <1>5, <1>6, <1>7, <1>8

LEMMA CounterClean ==
  IInv /\ CleanInv /\ Counter => CleanInv'
  <1> SUFFICES ASSUME IInv, CleanInv, Counter PROVE CleanInv'
    OBVIOUS
  <1>1. mem # None /\ op \in {"open", "append"} /\ step = "counter"
    BY DEF Counter, IInv, StepInv, OperationsOf
  <1>2. mem \in Backend /\ mem.rows \in Nat /\ mem.dirty \in BOOLEAN
    BY <1>1, MemFacts
  <1>3. /\ disk'.marker = disk.marker /\ disk'.metric = disk.metric
        /\ disk'.rows = disk.rows /\ disk'.meta = disk.meta
    BY DEF Counter, IInv, TypeOK, Files
  <1>4. CASE Return(mem)
    <2>1. ~mem.dirty /\ mem.rows > 0 =>
            ~disk.marker /\ StoredMetric = mem.metric /\ mem.rows <= LoadRows(disk)
      BY <1>1 DEF CleanInv
    <2> QED BY <1>1, <1>2, <1>3, <1>4, <2>1, CleanReturn DEF StoredMetric, LoadRows
  <1>5. CASE op = "append" /\ Goto("index")
    <2>1. mem.dirty = TRUE
      BY <1>2, <1>5 DEF CleanInv, Dirtying
    <2> QED BY <1>5, <2>1, DirtyStaysOut DEF Goto
  <1> QED BY <1>4, <1>5 DEF Counter

LEMMA WriteRowsClean ==
  IInv /\ CleanInv /\ WriteRows => CleanInv'
  <1> SUFFICES ASSUME IInv, CleanInv, WriteRows PROVE CleanInv'
    OBVIOUS
  <1>1. /\ mem # None /\ step = "rows"
        /\ op \in {"open", "soft", "append", "sync", "scale", "persist"}
    BY DEF WriteRows, IInv, StepInv, OperationsOf
  <1>2. /\ mem \in Backend /\ mem.dirty \in BOOLEAN /\ mem.rows \in Nat
        /\ (mem.dirty \/ mem.index.rows = mem.rows)
    BY <1>1, MemFacts
  <1>3. CASE op = "persist"
    BY <1>1, <1>3, PersistStaysOut DEF WriteRows, Truncate, Goto
  <1>4. CASE op = "open"
    <2>1. /\ disk'.marker = disk.marker /\ disk'.metric = disk.metric
      BY DEF WriteRows, Truncate, Fill, IInv, TypeOK, Files
    <2>2. UNCHANGED <<mem, op>> /\ step' \in {"rows", "meta"}
      BY <1>1, <1>4 DEF WriteRows, Truncate, Goto
    <2>3. step' = "meta" => disk'.rows = mem.index.rows
      BY <1>1, <1>4 DEF WriteRows, Truncate, Goto, Fill, IInv, TypeOK, Files
    <2>4. ASSUME ~mem.dirty, mem.rows > 0
          PROVE  /\ ~disk'.marker /\ StoredMetric' = mem.metric
                 /\ step' = "meta" => mem.rows <= disk'.rows
      BY <1>1, <1>2, <1>4, <2>1, <2>3, <2>4 DEF CleanInv, StoredMetric
    <2> QED BY <1>4, <2>2, <2>4, OpeningClean
  <1>5. CASE op \in {"soft", "append", "sync", "scale"}
    <2>1. mem.dirty = TRUE
      BY <1>1, <1>2, <1>5 DEF CleanInv, Dirtying
    <2>2. CASE Return(mem)
      BY <1>1, <1>2, <2>1, <2>2, DirtyReturn
    <2>3. CASE mem' = mem /\ step' \in {"rows", "drain"}
      BY <2>1, <2>3, DirtyStaysOut
    <2> QED BY <1>1, <1>5, <2>2, <2>3 DEF WriteRows, Truncate, Goto
  <1> QED BY <1>1, <1>3, <1>4, <1>5

LEMMA WriteMetaClean ==
  IInv /\ CleanInv /\ WriteMeta => CleanInv'
  <1> SUFFICES ASSUME IInv, CleanInv, WriteMeta PROVE CleanInv'
    OBVIOUS
  <1>1. mem # None /\ op \in {"open", "persist"} /\ step = "meta"
    BY DEF WriteMeta, IInv, StepInv, OperationsOf
  <1>2. /\ mem \in Backend /\ mem.dirty \in BOOLEAN /\ mem.rows \in Nat
        /\ mem.index.rows \in Nat /\ (mem.dirty \/ mem.index.rows = mem.rows)
    BY <1>1, MemFacts
  <1>3. CASE op = "persist"
    BY <1>1, <1>3, PersistStaysOut DEF WriteMeta, Truncate, Goto
  <1>4. CASE op = "open"
    <2>1. /\ disk'.marker = disk.marker /\ disk'.metric = disk.metric
          /\ disk'.rows = disk.rows
      BY DEF WriteMeta, Truncate, Fill, IInv, TypeOK, Files
    <2>2. UNCHANGED <<mem, op>> /\ step' \in {"meta", "counter"}
      BY <1>1, <1>4 DEF WriteMeta, Truncate, Goto
    <2>3. step' = "counter" => disk'.meta = [n |-> mem.rows, indexed |-> mem.index.rows]
      BY <1>1, <1>4 DEF WriteMeta, Truncate, Goto, Fill, IInv, TypeOK, Files
    <2>4. ASSUME ~mem.dirty, mem.rows > 0, step' = "counter"
          PROVE  mem.rows <= LoadRows(disk')
      <3>1. mem.index.rows = mem.rows
        BY <1>2, <2>4
      <3>2. disk.rows \notin Unread => mem.rows <= disk.rows
        BY <1>1, <1>4, <2>4 DEF CleanInv
      <3>3. disk'.meta \notin Unread /\ disk'.meta.indexed = mem.rows
        <4>1. disk'.meta \in Meta /\ disk'.meta.indexed = mem.rows
          BY <1>2, <2>3, <2>4, <3>1 DEF Meta
        <4> QED BY <4>1, StoreAssumption DEF Unread
      <3> QED BY <1>2, <2>1, <3>2, <3>3 DEF LoadRows
    <2> QED BY <1>1, <1>2, <1>4, <2>1, <2>2, <2>4 DEF CleanInv, Dirtying, StoredMetric
  <1> QED BY <1>1, <1>3, <1>4

LEMMA PersistClean ==
  IInv /\ CleanInv /\ (RenamePages \/ RenameEdges \/ WriteHeader \/ RewriteRows \/ RenameMetric)
    => CleanInv'
  <1> SUFFICES ASSUME IInv, CleanInv,
                      RenamePages \/ RenameEdges \/ WriteHeader \/ RewriteRows \/ RenameMetric
               PROVE  CleanInv'
    OBVIOUS
  <1>1. op = "persist"
    BY DEF RenamePages, RenameEdges, WriteHeader, RewriteRows, RenameMetric, IInv, StepInv,
           OperationsOf
  <1>2. op' = op /\ step' \in {"edges", "header", "meta", "recount", "metric", "unmark"}
    BY DEF RenamePages, RenameEdges, WriteHeader, RewriteRows, RenameMetric, Truncate, Goto
  <1> QED BY <1>1, <1>2, PersistStaysOut

LEMMA UnmarkClean ==
  IInv /\ CleanInv /\ Unmark => CleanInv'
  <1> SUFFICES ASSUME IInv, CleanInv, Unmark PROVE CleanInv'
    OBVIOUS
  <1> DEFINE b == [mem EXCEPT !.pending = 0, !.dirty = FALSE]
  <1>1. mem # None /\ op = "persist" /\ step = "unmark" /\ Return(b)
    BY DEF Unmark, IInv, StepInv, OperationsOf
  <1>2. mem \in Backend /\ mem.rows \in Nat
    BY <1>1, MemFacts
  <1>3. b \in Backend /\ b.rows = mem.rows /\ b.metric = mem.metric /\ b.metric \in Metrics
    BY <1>2 DEF Backend
  <1>4. b # None
    BY <1>3, StoreAssumption
  <1>5. /\ disk'.marker = FALSE /\ disk'.metric = disk.metric
        /\ disk'.rows = disk.rows /\ disk'.meta = disk.meta
    BY DEF Unmark, IInv, TypeOK, Files
  <1>6. disk.metric = mem.metric /\ (mem.rows > 0 => disk.rows = mem.rows)
    BY <1>1 DEF IInv, ProgressInv, After
  <1>7. StoredMetric' = b.metric
    BY <1>3, <1>5, <1>6, StoreAssumption DEF StoredMetric
  <1>8. mem.rows > 0 => mem.rows <= LoadRows(disk')
    BY <1>2, <1>5, <1>6, StoreAssumption DEF LoadRows, Unread
  <1> HIDE DEF b
  <1> QED BY <1>1, <1>3, <1>4, <1>5, <1>7, <1>8, CleanReturn

(* All steps together, none of which fails.                                *)
LEMMA CleanStep ==
  ASSUME CanFail = FALSE
  PROVE  IInv /\ CleanInv /\ [Next]_vars => CleanInv'
  <1> SUFFICES ASSUME IInv, CleanInv, [Next]_vars PROVE CleanInv'
    OBVIOUS
  <1>1. ~FailStep /\ ~FailPersistFiles /\ ~UndoPages /\ ~UndoEdges
    BY DEF FailStep, FailPersistFiles, UndoPages, UndoEdges, CleanInv
  <1>2. CASE Crash
    BY <1>2 DEF Crash, Return, CleanInv, Dirtying
  <1>3. CASE UNCHANGED vars
    BY <1>3 DEF vars, CleanInv, Dirtying, StoredMetric, LoadRows
  <1> QED
    BY <1>1, <1>2, <1>3, BeginOpenClean, BeginClean, SkipPersistClean, SyncClean,
       CounterClean, WriteRowsClean, WriteMetaClean, PersistClean, UnmarkClean
    DEF Next, Begin, Continue

(* Where no write fails, every backend persist_index would find nothing to *)
(* write for is reopened from its stored pages with nothing left to index, *)
(* however its process was killed before (backend.rs, persist_index;       *)
(* persist_atomic.rs, needs_rewrite).                                      *)
THEOREM PersistedIsReopened ==
  ASSUME CanFail = FALSE
  PROVE  Spec => []PersistedIndexIsReopened
  <1>1. Init => CleanInv
    BY DEF Init, CleanInv, Dirtying
  <1>2. IInv /\ CleanInv /\ [Next]_vars => CleanInv'
    BY CleanStep
  <1>3. IInv /\ CleanInv => PersistedIndexIsReopened
    <2> SUFFICES ASSUME IInv, CleanInv, Idle, Rewritten, mem.rows > 0
                 PROVE  /\ ReadsIndex(disk, mem.metric, mem.rows)
                        /\ IndexedRows(disk, mem.metric, mem.rows) = mem.rows
      BY DEF PersistedIndexIsReopened
    <2>1. mem # None /\ op = "none" /\ ~mem.dirty /\ DiskRows(disk) = mem.rows
      BY DEF Idle, Rewritten
    <2>2. ~disk.marker /\ StoredMetric = mem.metric /\ mem.rows <= LoadRows(disk)
      BY <2>1 DEF CleanInv
    <2>3. mem.rows \in Nat /\ LoadRows(disk) \in Nat
      BY <2>1, MemFacts DEF IInv, TypeOK, Files, Meta, LoadRows
    <2>4. IndexedRows(disk, mem.metric, mem.rows) = mem.rows
      BY <2>2, <2>3 DEF IndexedRows, MetricMatches, StoredMetric, Smaller
    <2>5. disk.header # None
      BY <2>1, <2>3 DEF DiskRows
    <2> QED BY <2>3, <2>4, <2>5 DEF ReadsIndex
  <1> QED BY <1>1, <1>2, <1>3, StoreInvariance, PTL DEF Spec

=============================================================================
