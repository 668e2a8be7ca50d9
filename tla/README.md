# A verification project for mpedb

mpedb is an embedded database: processes map one file, work on it directly and
may be killed at any instruction. There is no server; what keeps the file
correct is a handful of protocols over shared memory. This directory models
those protocols in TLA+, checks them with TLC on small instances and proves the
two that everything rests on with TLAPS.

Every definition is translated from the source; `PROJECT.json` maps it to its
file and lines. Paths below are relative to `src/crates/mpedb-core/src/` unless
they start with another crate.

## 1. Inventory

### State shared by all processes

| state | where | who writes it |
|---|---|---|
| two meta pages: body and checksum | `shm/pages.rs` | lock holder, alternating |
| lock page: robust mutex, `durable_txn`, `oldest_pinned_cache`, `wal_len`, `wal_ckpt` | `shm/pages.rs`, `shm/wal.rs` | lock holder; flusher for `wal_len` |
| reader table: word, txn, start time per slot | `shm/readers.rs` | slot owner; sweepers by CAS |
| intent ring: header, payload, stamp, result per slot | `ring.rs` | owner, then leader |
| notify page: generations, futex words, waiter registry | `shm/notify.rs` | committer, listeners, sweepers |
| committed-footprint ring | `shm/optimistic.rs` | lock holder |
| data pages, freelist tree, extents | `engine/freelist.rs`, `engine/extent.rs` | the write transaction, copy on write |
| the log `<path>-wal` | `shm/wal.rs` | lock holder; synced by committer or flusher |

### Parts and how they interact

* A **write transaction** takes the writer lock, reads the newest meta, copies
  pages on write, settles the freelist, makes the data durable as the mode
  demands (`none`, `commit`, `async`, `wal`), flips the meta page and unlocks.
  The holder of the lock may die anywhere; the next one is told (EOWNERDEAD) and
  recovers.
* A **read transaction** claims a reader slot, pins the newest meta in it and
  rereads the meta to confirm. It takes no lock. Writers reuse a page only when
  the transaction that freed it is at or below the oldest pin.
* A **write statement** of the facade crate publishes an intent in the ring and
  waits; whoever holds the lock leads a round that executes all intents and
  commits once. Waiters that time out lead themselves.
* **Sessions** (`BEGIN ... COMMIT`) take the same lock and commit without the ring.
* In `async` mode a **flusher** thread syncs the log off the lock.
* **Attach** after a boot replays the log and resets what was volatile.

### What is hard about it

Lock-free reads of two pages that are being rewritten; pins that race scans;
slots whose owner dies, whose pid is recycled, whose next owner races a stale
sweeper or leader; results that must be posted once to the right waiter although
leaders die; a log, a mapping and a lock page that reach the disk in any order.
`PROJECT.json` lists these as hazards with the line where each bites and the
property that watches it.

## 2. Modules

| module | models | checked by |
|---|---|---|
| `MetaPages` | meta pages, durability gate, lock and owner death, `newest_meta` load by load, the pin recheck | `MCMetaPages`: run `meta`; `MetaPagesProofs` |
| `Mvcc` | copy on write, page pool, freelist, oldest-pin cache and its scan, pins | `MCMvcc`: runs `mvcc`, `mvcc_straddled`; `MvccInvariant`, `MvccPool`, `MvccProofs` |
| `ReaderTable` | what the reader table promises (abstract) | refined by `ReaderSlots` |
| `ReaderSlots` | claim, pin, release, sweep load by load; processes, threads, pid reuse | `MCReaderSlots`: runs `slots`, `slots_sweep` |
| `IntentRing` | the ring, wait-or-lead, group commit, recovery of dead leaders and owners | `MCIntentRing`: runs `ring`, `ring_live`, `ring_mispost`, `ring_alias` |
| `Wal` | log, checkpoint, flusher, power loss, replay | runs `wal`, `wal_orphan`, `wal_torn` |

They meet at named abstractions. `Mvcc` publishes a commit in one step, which
`MetaPages` opens up; the answers `newest_meta` may give in `Mvcc` are those
`MetaPages` establishes (`FreshUnlessStraddled`), and the one bad answer it found
is the constant `StraddledReads`. The sweep of `Mvcc` is the sweep that
`ReaderSlots` shows to be safe against live readers. `IntentRing` uses the lock
and the flip as single steps. `Wal` uses copy on write: a page of the current
tree is never overwritten, which `Mvcc` proves.

Operators with a suffix after an underscore (`Found_NoRecheck`,
`refill_reusable_Early`, ...) are mutated forms of the definition they precede.
No specification uses them; they document which slip of the code each property
would catch.

### MetaPages

`page[s]` is a meta page: the transaction id and an attempt number stand for the
body, and the checksum is the attempt it was computed for, so a page validates
when the two agree. Two attempts at the same transaction id are told apart: this
is what makes a retried commit after a death visible. `gate` is `durable_txn`.
The writer's actions follow `writer_lock`, `make_write_txn`, `wal_commit`,
`write_meta_slot` (body, then checksum), `msync_page`, the gate's `fetch_max` and
`writer_unlock`; any of them may be the last one of its process. The reader's
actions are single loads. The variable `durability` is chosen in `Init` and never
changes, so one run covers every mode; `none` also stands for `async`, which takes
the same branches here.

Three variables say what `durable` means. `durable` holds the attempts whose data
and meta a power failure cannot erase. In `commit` mode a failed `msync_page` leaves
the page published and above the gate: a *ghost*. The next transaction allocates
from below it, so its pages may be overwritten; from then on the attempt is
`doubtful`, and no sync of the meta pages makes it durable. In `wal` mode a writer
killed between its record and its meta checksum leaves an orphan record (`log`);
replay stops behind it, so what is logged after it is `doubtful` until a checkpoint
(part of `writer_unlock`) syncs the mapping.

* `GateHasPage`: a page that the gate names always validates, whatever step a
  writer died or failed in; the database can always be opened.
* `DurableBeforeVisible`: no reader is given a commit that is not yet durable,
  unless a writer was killed with the lock held and the commit is doubtful: a ghost
  that `recover_after_owner_death` made visible, or a commit behind an orphan.
* `VisibleMonotone`: the newest visible meta never goes back.
* `FreshUnlessStraddled`: an answer is as new as the call, unless two commits
  overtook a single pass of it.
* `CorruptOnlyWhenOutrun`: a healthy file is reported corrupt only in the first
  moments of a fresh one (section 4), or when all `Retries` passes failed and a meta
  write began in each of them. The code has 64 passes; the run has 2, so that the
  last one is reached.

### Mvcc

Trees are a map from keys to pages; writing a key copies its page. The content of
a page is the number of the attempt that wrote it. `Put` and `alloc` follow `cow`,
`alloc_id` and `refill_reusable`, with the scan of `compute_oldest_pinned` taking
two loads per slot; `freelist_plan` and `commit` follow the commit's freelist
fixpoint, taken as a whole (see section 6). `abort` is also the drop of an
unfinished transaction. `commit_MetaUnsynced` is the commit whose last msync fails:
its meta (`gtree`, `gstamp`, `gfree`, `ghw`) stays in the file above the gate.
`recover_after_owner_death` is a writer's death and what the next locker does: the
ghost, if its page still validates, becomes the newest commit, and `surfaced`
remembers the first transaction this happened to.

* `SnapshotIntact`: a pinned snapshot holds what was committed, unless it is or
  descends from a ghost that surfaced.
* `CommittedIntact`: nor does an open, failed or dead transaction touch the newest
  commit, again until a ghost surfaces.
* `CacheBelowPins`: `oldest_pinned_cache` is a bound that stays valid.
* `PageAccounting`: what `verify_page_accounting` asserts, of every commit.

### ReaderTable and ReaderSlots

`ReaderTable` is the promise: a slot belongs to one reader from claim to release,
and only a dead reader loses its slot. `ReaderSlots` has the packed word (pid,
CLAIMING, generation), the side fields and the three looks a sweep takes at a
process, each a step. A pid has successive incarnations with their own start
time. `PidOf` gives every thread its pid; the runs have one thread per process. The
refinement maps a slot to the thread that owns its current generation.

* `OwnerOnly`: from reservation to release the word, the identity and the pin of a
  slot are the ones its owner stored.
* `ImplementsTable`: the refinement; no live reader is evicted.
* `SweepFreesOrphans`: a sweep that runs to its end frees the slots of the dead.

### IntentRing

A slot has header (state, generation), statement, stamp and result. Client and
leader steps are those of `run_write_plan`, `enqueue`, `read_result`, `release`,
`lead_and_execute`, `recover_orphans`, `collect_ready`, `stage_result`,
`post_done`, `reclaim_dead`. The database is the bag of committed statements, so
executing one twice is visible. Commits may fail, before the flip or in the msync
after it, and sessions commit beside the ring (`SessionTxns` names the transaction
ids at which they do). A round whose msync fails leaves a `ghost`, the work in its
meta page; the next commit writes over it, but if the next holder of the lock dies,
the recovery makes it the newest commit (`surfaced`). Two constants switch on what the passing runs leave out because it breaks
the contract: a death between the two stores of a post (`DieMidPost`), and a
session that commits while an intent carries a stamp above the committed
transaction (`StaleStamps`).

* `AtMostOnce`: no statement commits twice, unless a ghost surfaced.
* `VerdictIsTruth`: a statement reported as executed is committed, one reported as
  failed by its leader is not and does not get there later, unless a ghost surfaced.
* `PostHitsItsIntent`: a posted result reaches the incarnation it was made for.
* `BatchIsPinned`: a collected intent stays where it is until its round ends.
* `Answered` (liveness): every statement of a process that survives is answered.

### Wal

A record is a transaction id with its page images. Memory and disk are separate:
for each page, record and the lock page the disk holds one of the values stored
since its last sync, chosen when power fails (`Survivors`), which is what a kernel
that writes back whenever it likes can leave. `Begin` to `Flip` is a commit,
`Checkpoint*` and `Punch` the checkpoint, `Flush*` the flusher, `Replay*` and
`Recover*` the recovery, which may itself be cut by a death or a second loss.
`durability` is `wal` or `async`, chosen in `Init`. A writer may stop at any step
(`Stop`: it dies, or a system call fails), the two stores of a checkpoint are two
steps, and what a replay cannot reach stays in the log.

Not every log is one line of commits. A record is *stray* when it belongs to no
branch the newest meta continues, when it lies past the cursor although the newest
meta contains it, or when a later record does not descend from it: an orphan of a
writer that stopped before its flip, or a record behind a torn one that an earlier
recovery left there. `astray` remembers that the power failed over such a log.

* `NothingLost`: what was acknowledged (`wal`), or made durable by the flusher or a
  checkpoint (`async`), is there after recovery. Finding 4 refutes it.
* `DurableSurvives`: it holds as long as no power loss met a stray record.
* `RefusedForCause`: recovery answers Corrupt only over a stray record or, in
  `async`, when the lock page was written back between the two stores of a
  checkpoint.
* `IntactInWal`: the recovered trees hold the pages of one commit, in `wal` mode and
  without a stray record; `Intact` says it of both modes and is finding 5.
* `LockPageIsSafe`: whatever version of the lock page the disk may hold, but for the
  one between the two stores, the records between its `wal_ckpt` and its `wal_len`
  are durable in the log.

## 3. Runs

Each run asks one question. Bounds are constants named in the module; they are
the smallest at which the case in question happens, and the mutated forms show
that it does.

| run | instance | question |
|---|---|---|
| `meta` | all three modes, 1 reader with 2 passes, 5 commits, failed commits and deaths together, at most 1 death | the meta protocol: a failed commit, one over its pages and a death; an orphan, commits behind it and a checkpoint; a reader outrun in both its passes |
| `mvcc` | 2 readers, 1 slot, 1 key, 3 pages, 4 commits, 4 attempts | every page reused, pool dry, file full, the slot handed from reader to reader under a scan, a ghost surfaces |
| `mvcc_straddled` | 1 reader, 5 commits | finding 1 |
| `slots` | 2 processes, 2 slots, 2 incarnations each | claims, walks and sweeps interleaved load by load |
| `slots_sweep` | 1 slot, 3 incarnations, fairness | refinement of `ReaderTable` with a pid recycled twice under a sweep; orphans are freed |
| `ring` | 3 processes, 2 slots, 1 statement each, 2 deaths, sessions at transaction 2 | batches of two, torn rounds, replays, failed commits, stamps against a moving txn id |
| `ring_live` | 3 processes, 1 slot, 1 death, fairness | nobody waits forever |
| `ring_mispost` | 1 slot, 2 statements each, 1 death | finding 2 |
| `ring_alias` | 1 statement each, 1 death, 1 session commit | finding 3 |
| `wal` | both modes, 1 cell, 2 pages, 3 commits, 2 power losses | pages freed before a checkpoint are reused after it; recovery interrupted; a record left behind by a first recovery met by a second; what the flusher acknowledged survives |
| `wal_orphan` | `wal`, 2 cells, 4 pages, 3 commits, 1 power loss | finding 4 |
| `wal_torn` | both modes, 2 cells, 2 commits, 1 power loss | finding 5 |

A single reader suffices in `MetaPages` because readers do not write there; in
`Mvcc` one protects its snapshot and a second one takes over its slot. With one slot
a scan has no second slot to race on its other side: that case rests on the proofs,
which hold for any `NSlots`. In `Wal` the three commits of one cell on two pages
reuse each page; the exception in `IntactInWal` needs two cells to matter. Symmetry is
used over readers, keys and processes, never in a run with a liveness property.
Deadlock is checked in `Mvcc`; elsewhere the system may stop, because bounds on
attempts, generations or statements are used up, or everybody died.

### Fairness

`ring_live` assumes weak fairness of each living process's own steps: a thread
that can run does run, and the futex waits of the ring are bounded by a timeout
(2 ms) after which the waiter tries to lead, so waiting never depends on a wake.
Nothing is assumed of deaths, and nothing of sessions. `slots_sweep` assumes that a
thread that started a sweep, a claim or a release finishes it.

## 4. Findings

Statements of the documentation or of comments that the code does not keep. Each
of the first five is a run whose property states the sentence and which TLC
refutes; the passing runs check what remains true.

1. `mvcc_straddled` - a pin can be confirmed although two commits passed during one
   pass of the recheck, against "any pin published after a writer's scan is >= the
   newest committed txn at publish time" (DESIGN.md 4.3); a page of the pinned
   snapshot is then reused.
2. `ring_mispost` - a leader's death between the two stores of a post lets its
   successor post into the next incarnation of the slot.
3. `ring_alias` - a session that follows a dead leader commits the txn id of its
   stamps; the next leader takes them for committed.
4. `wal_orphan` - death between the log append and the flip leads to two records
   of one txn id; recovery stops between them.
5. `wal_torn` - async: a meta page written back early is trusted when the log
   holds no record.

Met while modelling, and kept out of the properties rather than given a run:

* `newest_meta` does not retry when the stale gate is 0, the gate of a fresh file
  (`shm/pages.rs:244` against 229-233), so a call that two first commits overtake
  answers Corrupt; and it answers Corrupt when commits outran all its passes: the
  two cases of `CorruptOnlyWhenOutrun`.
* In `commit` mode, when the msync of the meta page fails (`engine/commit.rs:542`) the
  commit reports an error and its page stays, hidden by the gate. The next writer
  reuses the pages it allocated; if that writer is killed,
  `recover_after_owner_death` (`shm/pages.rs:630-631`) raises the gate to the ghost.
  The newest commit then has overwritten pages, against "a writer dying at any
  instruction leaves the previous commit fully intact" (DESIGN.md:158-161), and in
  the ring a statement reported as failed is committed, or runs twice. `CommittedIntact`,
  `SnapshotIntact`, `DurableBeforeVisible`, `AtMostOnce` and `VerdictIsTruth` name
  this case as their exception; TLC refutes each of them without it.
* A recovery does not cut the log behind the prefix it replayed (`shm/wal.rs:472-478`).
  In `async` a record behind a torn one can stay valid; when new commits have filled
  the gap, the next recovery replays into it, against "no stale-but-checksum-valid
  record can ever sit at an offset a later scan will visit" (`shm/wal.rs:233-235`).
  It is one of the stray records of `Wal`.
* A claim leaked in the CLAIMING window does pin, namely the txn of the slot's
  previous owner (`shm/readers.rs:222`): it delays reuse until it is swept.
* Two readers, two slots, and `ReadersFull`: a walk can pass each slot in the moment
  the other reader holds it (`shm/readers.rs:203`; DESIGN.md:332-333).
* No writer sweeps (`shm/open.rs:605`; DESIGN.md:349-351 has the writer do it), so a
  dead pin stays until somebody attaches or finds the table full.
* A waiter that leads a failing round returns the error and leaves its intent in
  the ring for the next leader (`mpedb/src/database_query.rs:1343` against
  1288-1294).
* async: the checkpoint stores a `wal_len` that no sync of the log covers yet
  (`shm/wal.rs:280`); when the lock page is written back before `wal_ckpt` follows
  (`shm/wal.rs:282`) and the power fails, recovery refuses the file, against "every
  `wal_len` value that can reach disk was stored after its fdatasync returned"
  (`shm/wal.rs:391-396`): the exception in `RefusedForCause` and `LockPageIsSafe`.

## 5. Proofs

`MetaPagesProofs` proves, for any number of readers, transactions, attempts, deaths
and retries, the inductive invariant of `MetaPages` and from it `TypeCorrect`,
`PageSurvives`, `OnlyDurableVisible` and `VisibleNeverBack` - the properties
`TypeOK`, `GateHasPage`, `DurableBeforeVisible` and `VisibleMonotone` of the runs.
`GateHasPage` is not inductive: what keeps it is that a writer only ever touches the
slot its base is not in, and that its base is the page the gate names. The
invariant says so for every position of the writer and for the state a dead one
left, together with the order of attempts and transaction ids in the two pages. For
`OnlyDurableVisible` it adds that a page at or below the gate, and whatever a reader
has loaded through it, is durable or, after a death, doubtful.

`MvccInvariant`, `MvccPool` and `MvccProofs` (the invariant and the steps of readers
and of writes; allocation; commit, abort, owner death and the theorems) prove
`TypeCorrect`, `SnapshotIsolation`, `CommittedNeverTouched`, `CacheIsBound` and
`Accounting` for any number of readers, slots, keys and pages,
under the hypothesis `~StraddledReads`: that `newest_meta` answers with a meta that
was newest at some instant of the call. Finding 1 shows that the hypothesis is
needed. The argument: a pin counts from the moment its recheck began while it named
the newest commit, for then it was already in the table; a scan in progress has
either passed it and taken it into account, or began no earlier and is bounded by
the newest commit. So the cached bound never passes such a pin. A page in the entry
of transaction f is in no snapshot from f on, and only entries at or below the
bound are drawn; hence a drawn page is in no snapshot at or above the bound, and
writing to it disturbs no pin. The accounting needs the working state of the open
transaction: every page below its high water is in its tree, in its pool, freed, or
in an entry it has not drawn.

A ghost takes part in the invariant. What a commit may follow the newest one with is
one predicate (`Follows`: the pages of the tree, the freelist entries and the high
water fit the committed state), the plan of a commit satisfies it (`PlanFollows`), and
a ghost keeps satisfying it (`GhostInv`), because a failed, aborted or dead
transaction changes only the contents of pages. So publishing a ghost or a commit is
the same step (`PublishInv`), which keeps accounting, reuse and the cache bound; only
what the ghost's pages hold is lost, and with it `SnapshotIsolation` and
`CommittedNeverTouched` from that transaction on.

Both rest only on the named assumptions of their modules: bounds are natural
numbers and there is at least one retry. The proofs about `MetaPages` hold in every
mode; what they say of the gate concerns the modes that have one (`Gated`).

Only model-checked: everything about `ReaderSlots`, `IntentRing` and `Wal`; the
freshness and no-corruption properties of `MetaPages`; and liveness, which the
proof system does not reach (nor does it reach `ENABLED`, recursive operators, or
induction over data).

## 6. What is abstracted or left out

* The shape of the trees and the freelist's own pages: `Mvcc` takes the commit
  fixpoint as the plan it settles on. Whether it settles is a question of its own.
* Extents, private in-memory databases, the lock of macOS and Windows, savepoints,
  change notification, optimistic writes and guards, creation and format: on the
  plan below.
* The memory model: loads and stores are sequentially consistent. The code pairs
  SeqCst fences where it needs store-to-load order; the models cannot show that a
  weaker ordering would do.
* The SQL front end, executor, types and language crates: large sequential code
  without a protocol, tested differentially against sqlite. Bindings, servers,
  tools and benchmarks.

## 7. Plan

Done: `MetaPages`, `Mvcc` with proofs; `ReaderTable`, `ReaderSlots`; `IntentRing`;
`Wal`. Next, in this order:

1. `Notify`: publisher, parked listeners, waiter registry and sweep; no change is
   slept through. Key filters, two tables in one slot, a listener killed while
   parked. Liveness under fairness of the listener.
2. `FootprintRing`: optimistic writes, guards and splice rebase against a history of
   commits, with a ring of 2 or 3 slots so that it wraps; property: first committer
   wins, no conflicting write is missed. Theorem: soundness of `opt_conflict`.
3. `FreelistFixpoint`: the commit loop with the tree's page use abstracted; it
   settles within its cap, and its result is the plan `Mvcc` uses (refinement).
4. `Savepoints`: statement and named savepoints, in-place undo, page journal;
   rolled back means as before, with no page in two places.
5. `OpenFormat`: creation, debris, READY, boot epoch, death at every step.
6. `PrivateMode` (exclusive in-place writes against pins), `DirtyLock` (flock and the
   DIRTY word), `SchemaReload` (generation, reload, captured bundle).
7. Proofs: `OwnerOnly` of `ReaderSlots` (generations grow, a sweeper's word is stale
   once the slot moved), `AtMostOnce` and `VerdictIsTruth` of `IntentRing`,
   `LockPageIsSafe` and `DurableSurvives` of `Wal`; the refinement of `ReaderTable`.
8. Later: plan registry against DDL, sync and tiering across two files, the ingest
   receipt protocol, the mirror's pull, push and authority switch.
