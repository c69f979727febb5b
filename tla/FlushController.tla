--------------------------- MODULE FlushController ---------------------------
(***************************************************************************)
(* The disk backend shared by several threads: one BpannBackend behind a   *)
(* read-write lock, beside it a slot for one background flush job and a    *)
(* latch for its error (rust/crates/ennx/src/backend/flush_controller.rs), *)
(* and the operations of EnnBackend and the model that go through them.    *)
(*                                                                         *)
(* A step is one critical section.  A write-locked section is one action,  *)
(* enabled while nobody holds a read lock; the two read-locked sections    *)
(* that last, a search and a background build, take the lock in one action *)
(* and release it in another.  The job and last_error mutexes are each     *)
(* held for one action.  `add` and the metric operations borrow the model  *)
(* mutably, so they run while no other client is inside an operation.      *)
(***************************************************************************)
EXTENDS BpannBackend, FiniteSets

CONSTANTS
  Clients,   \* threads that share the model
  Workers,   \* threads a flush can be spawned on
  Ops,       \* the operations clients begin: all of them, or a bounded few
  OpenRows,  \* bound: rows a directory holds when it is opened
  MaxRows,   \* bound: rows ever held
  MaxBatch,  \* bound: rows of one append
  CanFail,   \* whether builds, syncs and persists may return an error
  WritersFirst \* whether the RwLock keeps new readers out while a writer waits

(* Operations that borrow the model mutably, and those that share it.      *)
Exclusive == {"add", "metric"}
Shared    == {"wait", "sync", "persist", "schedule", "search"}
Waiting   == {"add", "metric", "wait", "sync", "persist"}  \* begin with wait_flush

ASSUME ControllerAssumption ==
  /\ Clients \cap Workers = {}
  /\ None \notin Clients \cup Workers
  /\ None \notin Index /\ None \notin RowCache
  /\ OpenRows \in Nat /\ MaxRows \in Nat /\ MaxBatch \in Nat
  /\ Ops \subseteq Exclusive \cup Shared
  /\ {CanFail, WritersFirst} \subseteq BOOLEAN

VARIABLES
  db,         \* the backend the RwLock protects
  readers,    \* threads holding its read lock
  job,        \* the stored JoinHandle: a worker, or None
  lastError,  \* whether last_error holds a message
  worker,     \* worker[w]: how far thread w is
  built,      \* built[w]: the index w built and has not published
  op,         \* op[c]: the operation client c is inside
  pc,         \* pc[c]: where it is in that operation
  held        \* held[c]: the handle c took or spawned and must store or join

vars == <<db, readers, job, lastError, worker, built, op, pc, held>>
flush == <<readers, worker, built>>

-----------------------------------------------------------------------------
Phases == {"idle", "spawned", "building", "built", "ok", "failed"}

Labels == {"idle", "take", "join", "latch", "write",
           "errcheck", "snapshot", "slot", "store", "spare", "search", "scan"}

TypeOK ==
  /\ db \in Backend
  /\ readers \subseteq Clients \cup Workers
  /\ job \in Workers \cup {None}
  /\ lastError \in BOOLEAN
  /\ worker \in [Workers -> Phases]
  /\ built \in [Workers -> Index \cup {None}]
  /\ op \in [Clients -> Exclusive \cup Shared \cup {"none"}]
  /\ pc \in [Clients -> Labels]
  /\ held \in [Clients -> Workers \cup {None}]

(* ENN::new_options opens the directory and, when it held rows, indexes    *)
(* those the backend could not bring back.                                 *)
OpenStates(n) == UNION {{b, EnsureSync(b)} : b \in OpenBackends(n, Unscaled)}

Init ==
  /\ \E n \in 0 .. OpenRows : db \in OpenStates(n)
  /\ readers = {}
  /\ job = None
  /\ lastError = FALSE
  /\ worker = [w \in Workers |-> "idle"]
  /\ built = [w \in Workers |-> None]
  /\ op = [c \in Clients |-> "none"]
  /\ pc = [c \in Clients |-> "idle"]
  /\ held = [c \in Clients |-> None]

Goto(c, from, to) == pc[c] = from /\ pc' = [pc EXCEPT ![c] = to]

(* The operation returns, with a value or with an error.                   *)
Return(c, from) ==
  /\ Goto(c, from, "idle")
  /\ op' = [op EXCEPT ![c] = "none"]

(* std leaves the lock's priority policy to the platform.  The futex lock  *)
(* of Linux admits no new reader while a writer waits; a lock that does    *)
(* not is WritersFirst = FALSE, which allows every interleaving of both.   *)
WriteLockFree == readers = {}

ReadLockFree ==
  WritersFirst => /\ \A c \in Clients : pc[c] # "write"
                  /\ \A w \in Workers : worker[w] # "built"

-----------------------------------------------------------------------------
(* A client enters operation o, `waiting` being the operations that start  *)
(* with wait_flush.  Rust's borrow rules: a mutable borrow excludes every  *)
(* other one.                                                              *)
Enter(c, o, waiting) ==
  /\ o = "add" => db.rows < MaxRows
  /\ \A d \in Clients \ {c} : pc[d] = "idle" \/ {o, op[d]} \subseteq Shared
  /\ op' = [op EXCEPT ![c] = o]
  /\ Goto(c, "idle", IF o \in waiting THEN "take"
                     ELSE IF o = "schedule" THEN "errcheck"
                     ELSE IF o = "search" THEN "search" ELSE "write")
  /\ UNCHANGED <<db, job, lastError, held, flush>>

(* Mutants: add, or a metric change, does not wait for the flush.          *)
BeginAddUnwaited(c) == \E o \in Ops : Enter(c, o, Waiting \ {"add"})
BeginMetricUnwaited(c) == \E o \in Ops : Enter(c, o, Waiting \ {"metric"})

Begin(c) == \E o \in Ops : Enter(c, o, Waiting)

(* wait_flush: take the handle out of the slot, ...                        *)
TakeJob(c) ==
  /\ Goto(c, "take", IF job = None THEN "latch" ELSE "join")
  /\ held' = [held EXCEPT ![c] = job]
  /\ job' = None
  /\ UNCHANGED <<db, lastError, op, flush>>

(* Mutant: the thread is detached instead of joined.                       *)
JoinJobDetached(c) ==
  /\ Goto(c, "join", "latch")
  /\ held' = [held EXCEPT ![c] = None]
  /\ UNCHANGED <<db, job, lastError, op, flush>>

(* ... join it without any lock held; a failure is latched and returned,   *)
JoinJob(c) ==
  /\ pc[c] = "join"
  /\ worker[held[c]] \in {"ok", "failed"}
  /\ IF worker[held[c]] = "failed"
     THEN Return(c, "join") /\ lastError' = TRUE
     ELSE Goto(c, "join", "latch") /\ UNCHANGED <<op, lastError>>
  /\ worker' = [worker EXCEPT ![held[c]] = "idle"]
  /\ held' = [held EXCEPT ![c] = None]
  /\ UNCHANGED <<db, readers, job, built>>

(* ... and a latched error is taken and returned.                          *)
CheckLatch(c) ==
  /\ pc[c] = "latch"
  /\ IF lastError \/ op[c] = "wait"
     THEN Return(c, "latch")
     ELSE Goto(c, "latch", "write") /\ UNCHANGED op
  /\ lastError' = FALSE
  /\ UNCHANGED <<db, job, held, flush>>

(* A write-locked section of an operation ends the operation.              *)
Locked(c, o) ==
  /\ op[c] = o
  /\ WriteLockFree
  /\ Return(c, "write")
  /\ UNCHANGED <<job, lastError, held, flush>>

AppendLocked(c) ==
  /\ Locked(c, "add")
  /\ \E n \in 1 .. MaxBatch :
       /\ db.rows + n <= MaxRows
       /\ \/ db' = AppendRows(db, n)
          \/ CanFail /\ db' \in AppendRowsFailed(db, n)

SetMetricLocked(c) ==
  /\ Locked(c, "metric")
  /\ \E m \in Metrics \ {Unscaled}, rebuild \in BOOLEAN :
       db' = SetMetric(db, m, rebuild)

SyncLocked(c) ==
  /\ Locked(c, "sync")
  /\ \/ db' = EnsureSync(db)
     \/ CanFail /\ db.index.rows < db.rows /\ db' \in EnsureSyncFailed(db)

PersistLocked(c) ==
  /\ Locked(c, "persist")
  /\ \/ db' \in PersistIndex(db)
     \/ CanFail /\ db' \in PersistFailed(db)

-----------------------------------------------------------------------------
(* schedule_flush: a latched error is returned but stays latched.          *)
ScheduleErrCheck(c) ==
  /\ IF lastError
     THEN Return(c, "errcheck")
     ELSE Goto(c, "errcheck", "snapshot") /\ UNCHANGED op
  /\ UNCHANGED <<db, job, lastError, held, flush>>

(* The pending count is read under the read lock and used after it; the    *)
(* branch it selects is all that is kept of it.                            *)
Snapshot(c) ==
  /\ pc[c] = "snapshot"
  /\ ReadLockFree
  /\ \/ db.pending >= HardThreshold /\ Goto(c, "snapshot", "take") /\ UNCHANGED op
     \/ /\ db.pending < HardThreshold /\ db.pending >= SoftThreshold
        /\ Goto(c, "snapshot", "slot") /\ UNCHANGED op
     \/ db.pending < SoftThreshold /\ Return(c, "snapshot")
  /\ UNCHANGED <<db, job, lastError, held, flush>>

(* Below the soft threshold the code still looks into the slot, and        *)
(* returns Ok whatever it finds: Snapshot returns at once.                 *)
SlotTaken(c) ==
  /\ job # None
  /\ Return(c, "slot")
  /\ UNCHANGED <<db, job, lastError, held, flush>>

Spawn(c) ==
  /\ job = None
  /\ Goto(c, "slot", "store")
  /\ \E w \in Workers :
       /\ worker[w] = "idle"
       /\ worker' = [worker EXCEPT ![w] = "spawned"]
       /\ held' = [held EXCEPT ![c] = w]
  /\ UNCHANGED <<db, readers, job, lastError, built, op>>

(* Mutant: the handle is stored without looking at the slot again.         *)
StoreJobOverwrites(c) ==
  /\ Return(c, "store")
  /\ job' = held[c]
  /\ held' = [held EXCEPT ![c] = None]
  /\ UNCHANGED <<db, lastError, flush>>

(* The slot is looked at again: if another caller stored its handle in     *)
(* between, this one is joined and its result dropped.                     *)
StoreJob(c) ==
  /\ job = None
  /\ Return(c, "store")
  /\ job' = held[c]
  /\ held' = [held EXCEPT ![c] = None]
  /\ UNCHANGED <<db, lastError, flush>>

(* Mutant: the caller that lost the race for the slot tries it again.      *)
FindSlotTakenRetries(c) ==
  /\ job # None
  /\ Goto(c, "store", "errcheck")
  /\ UNCHANGED <<db, job, lastError, op, held, flush>>

FindSlotTaken(c) ==
  /\ job # None
  /\ Goto(c, "store", "spare")
  /\ UNCHANGED <<db, job, lastError, op, held, flush>>

JoinSpare(c) ==
  /\ pc[c] = "spare"
  /\ worker[held[c]] \in {"ok", "failed"}
  /\ Return(c, "spare")
  /\ worker' = [worker EXCEPT ![held[c]] = "idle"]
  /\ held' = [held EXCEPT ![c] = None]
  /\ UNCHANGED <<db, readers, job, lastError, built>>

(* Mutant: the build's result is published without a look whether there    *)
(* was anything to build.                                                  *)
HardFlushUnchecked(c) ==
  /\ Locked(c, "schedule")
  /\ db' = IF db.pending >= HardThreshold THEN SoftPublish(db, SoftBuild(db)) ELSE db

(* Above the hard threshold the caller builds and publishes itself, under  *)
(* the write lock, unless pending was drained since the snapshot.          *)
HardFlush(c) ==
  /\ Locked(c, "schedule")
  /\ db' = IF db.pending >= HardThreshold /\ SoftBuild(db) # None
           THEN SoftPublish(db, SoftBuild(db))
           ELSE db

(* build_detached under the write lock returns an error.                   *)
HardFlushFails(c) ==
  /\ Locked(c, "schedule")
  /\ CanFail /\ db.pending >= HardThreshold /\ SoftBuild(db) # None
  /\ UNCHANGED db

-----------------------------------------------------------------------------
(* The background thread: build under the read lock, publish under the     *)
(* write lock, the lock free in between.                                   *)
BuildBegin(w) ==
  /\ worker[w] = "spawned"
  /\ ReadLockFree
  /\ worker' = [worker EXCEPT ![w] = "building"]
  /\ readers' = readers \cup {w}
  /\ UNCHANGED <<db, job, lastError, built, op, pc, held>>

(* Mutant: the read lock is kept until the thread ends.                    *)
BuildEndHoldsLock(w) ==
  /\ worker[w] = "building"
  /\ built' = [built EXCEPT ![w] = SoftBuild(db)]
  /\ worker' = [worker EXCEPT ![w] = IF SoftBuild(db) = None THEN "ok" ELSE "built"]
  /\ UNCHANGED <<db, readers, job, lastError, op, pc, held>>

BuildEnd(w) ==
  /\ worker[w] = "building"
  /\ readers' = readers \ {w}
  /\ \/ /\ built' = [built EXCEPT ![w] = SoftBuild(db)]
        /\ worker' = [worker EXCEPT ![w] = IF SoftBuild(db) = None THEN "ok" ELSE "built"]
     \/ /\ CanFail /\ SoftBuild(db) # None
        /\ worker' = [worker EXCEPT ![w] = "failed"]
        /\ UNCHANGED built
  /\ UNCHANGED <<db, job, lastError, op, pc, held>>

(* Mutant: the pending count is reset but the index is not replaced.       *)
PublishDropsIndex(w) ==
  /\ worker[w] = "built"
  /\ WriteLockFree
  /\ db' = [db EXCEPT !.pending = 0]
  /\ built' = [built EXCEPT ![w] = None]
  /\ worker' = [worker EXCEPT ![w] = "ok"]
  /\ UNCHANGED <<readers, job, lastError, op, pc, held>>

Publish(w) ==
  /\ worker[w] = "built"
  /\ WriteLockFree
  /\ db' = SoftPublish(db, built[w])
  /\ built' = [built EXCEPT ![w] = None]
  /\ worker' = [worker EXCEPT ![w] = "ok"]
  /\ UNCHANGED <<readers, job, lastError, op, pc, held>>

-----------------------------------------------------------------------------
(* search holds the read lock from its first look at the rows to its last; *)
(* the row cache has a mutex of its own and is filled under the read lock. *)
SearchBegin(c) ==
  /\ ReadLockFree
  /\ Goto(c, "search", "scan")
  /\ readers' = readers \cup {c}
  /\ UNCHANGED <<db, job, lastError, worker, built, op, held>>

SearchEnd(c) ==
  /\ Return(c, "scan")
  /\ readers' = readers \ {c}
  /\ db' = FillCache(db)
  /\ UNCHANGED <<job, lastError, worker, built, held>>

-----------------------------------------------------------------------------
LockedStep(c) ==
  \/ Snapshot(c)
  \/ SearchBegin(c)
  \/ AppendLocked(c)
  \/ SetMetricLocked(c)
  \/ SyncLocked(c)
  \/ PersistLocked(c)
  \/ HardFlush(c)
  \/ HardFlushFails(c)

Continue(c) ==
  \/ TakeJob(c)
  \/ JoinJob(c)
  \/ CheckLatch(c)
  \/ ScheduleErrCheck(c)
  \/ SlotTaken(c)
  \/ Spawn(c)
  \/ StoreJob(c)
  \/ FindSlotTaken(c)
  \/ JoinSpare(c)
  \/ SearchEnd(c)

Next ==
  \/ \E c \in Clients : Begin(c) \/ Continue(c) \/ LockedStep(c)
  \/ \E w \in Workers : BuildBegin(w) \/ BuildEnd(w) \/ Publish(w)

Spec == Init /\ [][Next]_vars

(* Every thread that can take a step is eventually scheduled, and a lock   *)
(* that is free again and again is eventually granted.  A client need      *)
(* never begin an operation.                                               *)
Fairness ==
  /\ \A c \in Clients : WF_vars(Continue(c)) /\ SF_vars(LockedStep(c))
  /\ \A w \in Workers : SF_vars(BuildBegin(w)) /\ WF_vars(BuildEnd(w)) /\ SF_vars(Publish(w))

FairSpec == Spec /\ Fairness

-----------------------------------------------------------------------------
(* Properties.                                                             *)

(* The pending count never understates the rows the index lacks, so a      *)
(* backlog past a threshold is always noticed, whatever the order in which *)
(* builds are published and appends happen (soft_publish zeroes the count  *)
(* of the moment, not the count of its snapshot).                          *)
BacklogCounted ==
  /\ db.rows <= db.index.rows + db.pending
  /\ db.pending <= db.rows
  /\ db.index.rows <= db.rows

(* An index a background thread has built but not published still covers   *)
(* every row, each under the metric in force: nothing was appended and no  *)
(* metric changed between its read-locked and its write-locked section.    *)
DetachedBuildIsCurrent ==
  \A w \in Workers : worker[w] = "built" =>
    built[w] = [rows |-> db.rows, metrics |-> {db.metric}]

(* When a mutating operation reaches the data it is alone: no thread it    *)
(* does not know of is still building or waiting to publish, and no handle *)
(* is left in the slot.                                                    *)
MutatorsAlone ==
  \A c \in Clients : op[c] \in Exclusive /\ pc[c] = "write" =>
    /\ job = None
    /\ \A w \in Workers : worker[w] = "idle"

Owners(w) == {c \in Clients : held[c] = w}

(* No thread leaks and none is joined twice: a spawned thread has exactly  *)
(* one owner, the slot or one client, until it is joined.                  *)
OneOwnerPerThread ==
  \A w \in Workers :
    /\ worker[w] # "idle" <=> job = w \/ Owners(w) # {}
    /\ job = w => Owners(w) = {}
    /\ \A c, d \in Owners(w) : c = d

(* A cache a search would reuse holds the rows under the metric in force.  *)
CacheCoherent ==
  CacheUsable(db) => db.cache.metric = db.metric

(* persist_index skips its work only if the dirty flag is clear, and then  *)
(* forgets the pending rows: a clear flag means that every row is indexed, *)
(* whichever flush, append, metric change or failure came last.            *)
CleanMeansIndexed ==
  ~db.dirty => db.index.rows = db.rows

(* Indexed rows are given up only by a metric change that rebuilds: a late *)
(* publish never replaces the index by one that covers fewer rows.         *)
IndexShrinksOnlyOnRebuild ==
  [][db'.index.rows < db.index.rows => db'.metric # db.metric]_db

(* Searches see exactly the appended rows under the metric in force.       *)
Visible == INSTANCE SearchableRows WITH
  rows <- db.rows,
  ranked <- [r \in Reachable(db) |-> RankedUnder(db, r)],
  metric <- db.metric

SearchesSeeEveryRow == Visible!Spec

(* Where client c, or thread w, is not waiting for a lock or for another   *)
(* thread, and has a step to take there.                                   *)
Going(c) ==
  \/ pc[c] \in {"take", "latch", "errcheck", "store", "scan"}
  \/ pc[c] \in {"join", "spare"} /\ worker[held[c]] \in {"ok", "failed"}
  \/ pc[c] = "slot" /\ (job # None \/ \E w \in Workers : worker[w] = "idle")
  \/ pc[c] \in {"snapshot", "search"} /\ ReadLockFree
  \/ /\ pc[c] = "write" /\ WriteLockFree
     /\ \/ op[c] = "add" /\ \E n \in 1 .. MaxBatch : db.rows + n <= MaxRows
        \/ op[c] = "metric" /\ Metrics # {Unscaled}
        \/ op[c] \in {"sync", "persist", "schedule"}

Working(w) ==
  \/ worker[w] = "building"
  \/ worker[w] = "spawned" /\ ReadLockFree
  \/ worker[w] = "built" /\ WriteLockFree

(* Joins, the slot and the lock never have everyone wait for someone who   *)
(* waits: while an operation has not returned, someone has a step to take. *)
NobodyIsStuck ==
  (\E c \in Clients : pc[c] # "idle") =>
    (\E c \in Clients : Going(c)) \/ (\E w \in Workers : Working(w))

(* How many steps a client at each place, and a thread in each phase, may  *)
(* still take, a client with those of the thread it may spawn.             *)
ClientSteps ==
  [errcheck |-> 8, snapshot |-> 7, slot |-> 6, take |-> 4, join |-> 3,
   latch |-> 2, store |-> 2, search |-> 2, write |-> 1, spare |-> 1,
   scan |-> 1, idle |-> 0]

ThreadSteps ==
  [spawned |-> 3, building |-> 2, built |-> 1, ok |-> 0, failed |-> 0, idle |-> 0]

StepsAhead ==
  Cardinality({p \in Clients \X (1 .. 8) : p[2] <= ClientSteps[pc[p[1]]]}
              \cup {p \in Workers \X (1 .. 3) : p[2] <= ThreadSteps[worker[p[1]]]})

(* No operation is retried for ever: every step that begins none uses up   *)
(* one of a bounded number of steps, whoever takes it.                     *)
StepsRunOut ==
  [][(\A c \in Clients : pc[c] = "idle" => pc'[c] = "idle")
       => StepsAhead' < StepsAhead]_vars

(* The inductive invariant behind the safety properties.  Mutators are     *)
(* alone because they exclude every other client, every unfinished thread  *)
(* has an owner, and wait_flush empties the one owner that is left.        *)
HeldInv ==
  /\ \A c \in Clients : held[c] # None <=> pc[c] \in {"join", "store", "spare"}
  /\ \A c, d \in Clients : held[c] # None /\ held[c] = held[d] => c = d
  /\ \A c \in Clients : held[c] # None => held[c] # job

OwnerInv ==
  /\ job # None => worker[job] # "idle"
  /\ \A c \in Clients : held[c] # None => worker[held[c]] # "idle"
  /\ \A w \in Workers :
       worker[w] # "idle" => job = w \/ \E c \in Clients : held[c] = w

BorrowInv ==
  /\ \A c \in Clients : op[c] = "none" <=> pc[c] = "idle"
  /\ \A c \in Clients : op[c] \in Exclusive =>
       /\ \A d \in Clients \ {c} : pc[d] = "idle"
       /\ pc[c] \in {"take", "join", "latch", "write"}
       /\ pc[c] # "take" => job = None

DataInv ==
  /\ Consistent(db)
  /\ DetachedBuildIsCurrent
  /\ \A w \in Workers : worker[w] = "built" => db.rows # 0

IInv ==
  /\ TypeOK
  /\ DataInv
  /\ HeldInv
  /\ OwnerInv
  /\ BorrowInv

(* Nobody is stuck because, besides, the lock is held only by those who    *)
(* search and build, and an operation is at a place of its own.            *)
PlaceInv ==
  /\ readers = {c \in Clients : pc[c] = "scan"}
                 \cup {w \in Workers : worker[w] = "building"}
  /\ \A c \in Clients :
       /\ op[c] = "search" => pc[c] \in {"search", "scan"}
       /\ op[c] = "wait" => pc[c] \in {"take", "join", "latch"}
       /\ op[c] = "add" => db.rows < MaxRows

(* Every operation returns: joins, locks and the slot never leave a caller *)
(* waiting for a thread that waits for it.                                 *)
OperationsReturn ==
  \A c \in Clients : pc[c] # "idle" ~> pc[c] = "idle"

(* A flush that was spawned indexes the whole backlog or fails.            *)
FlushDrains ==
  \A w \in Workers : worker[w] = "spawned" ~>
    db.index.rows = db.rows \/ worker[w] = "failed"
=============================================================================
