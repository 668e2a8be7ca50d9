--------------------------------- MODULE Wal ---------------------------------
(***************************************************************************)
(* The write-ahead log of durability = wal and async (shm/wal.rs): the     *)
(* commit's append, the deferred flusher, the checkpoint, and the recovery *)
(* of the first attach after a power loss (post_attach).                   *)
(*                                                                         *)
(* A database is a few cells, each held by a page; a commit writes one     *)
(* cell into a page free for reuse.  A snapshot stands for a meta page and *)
(* the trees below it: which page holds which cell, which write of the     *)
(* cell that page must contain, and which pages are free since when.  A    *)
(* log record has length 1; its page images, its txn id and its meta are   *)
(* kept.                                                                   *)
(*                                                                         *)
(* What is on the disk is a set of candidates: every value a page of the   *)
(* mapping (or a record of the log) had since it was last synced may be    *)
(* what the kernel wrote back.  A sync leaves the current value alone; a   *)
(* power loss picks one of the candidates for each page and each record.   *)
(***************************************************************************)
EXTENDS Naturals, FiniteSets

CONSTANTS
  Cells, NPages,
  MaxId,         \* bound: commits attempted, the formatted database being 1
  MaxAsyncId,    \* the same, for durability = async
  MaxLoss        \* bound: power losses

ASSUME ConstAssumption ==
  /\ IsFiniteSet(Cells) /\ Cells # {} /\ NPages \in Nat /\ Cardinality(Cells) < NPages
  /\ MaxId \in Nat /\ MaxAsyncId \in 0..MaxId /\ MaxLoss \in Nat

Pages == 1..NPages
Offsets == 0..MaxId

VARIABLES
  durability,          \* "wal" or "async", fixed by format
  mem, disk,           \* the data pages in the mapping; their candidates
  meta, metaDisk,      \* the two meta slots
  lk, lkDisk,          \* the lock page: wal_len, wal_ckpt; `mid` marks, for the
                       \* properties, the value between a checkpoint's two stores
  appended,            \* wal_appended (lock page; recovery never reads it)
  log, logDisk,        \* the log file
  w,                   \* the holder of the writer lock, or the recovering process
  fl,                  \* the flusher
  ids, losses,         \* counters behind the bounds
  acked, flushed,      \* history: the newest commit acknowledged, and known durable
  astray               \* history: a power loss met a log with a stray record

Async == durability = "async"
mapping == <<mem, disk, meta, metaDisk>>
logs == <<log, logDisk>>
vars == <<durability, mapping, lk, lkDisk, appended, logs, w, fl, ids, losses, acked, flushed, astray>>

NoRec == [txn |-> 0, page |-> 0, img |-> 0]
Torn == [txn |-> 0, page |-> 1, img |-> 0]
IsRec(r) == r.txn > 0

(* The formatted database: cells in the first pages, the others never used. *)
Home == CHOOSE f \in [Cells -> 1..Cardinality(Cells)] : \A c, d \in Cells : f[c] = f[d] => c = d
Genesis ==
  [txn |-> 0, id |-> 1, page |-> Home, ver |-> [c \in Cells |-> 1],
   free |-> {<<p, 0>> : p \in (Cardinality(Cells) + 1)..NPages}, anc |-> {1}]

Idle == [pc |-> "idle", s |-> Genesis, off |-> 0, prev |-> 0]
FlIdle == [pc |-> "load", a |-> 0, s |-> Genesis]

Init ==
  /\ durability \in {"wal", "async"}
  /\ mem = [p \in Pages |-> IF p <= Cardinality(Cells) THEN 1 ELSE 0]
  /\ disk = [p \in Pages |-> {mem[p]}]
  /\ meta = [i \in 0..1 |-> Genesis] /\ metaDisk = [i \in 0..1 |-> {Genesis}]
  /\ lk = [len |-> 0, ckpt |-> 0, mid |-> FALSE] /\ lkDisk = {lk} /\ appended = 0
  /\ log = [o \in Offsets |-> NoRec] /\ logDisk = [o \in Offsets |-> {NoRec}]
  /\ w = Idle /\ fl = FlIdle
  /\ ids = 1 /\ losses = 0 /\ acked = Genesis /\ flushed = Genesis /\ astray = FALSE

(* newest_meta, and the slot write_meta_slot writes. *)
NewestSlot == IF meta[1].txn > meta[0].txn THEN 1 ELSE 0
Newest == meta[NewestSlot]

(* Stores into the mapping, and msync of all of it. *)
StorePage(p, v) ==
  /\ mem' = [mem EXCEPT ![p] = v]
  /\ disk' = [disk EXCEPT ![p] = @ \cup {v}]
StoreLock(l) == lk' = l /\ lkDisk' = lkDisk \cup {l}
msync_page_LOCK == lkDisk' = {lk} /\ UNCHANGED lk
msync_all ==
  /\ disk' = [p \in Pages |-> {mem[p]}] /\ metaDisk' = [i \in 0..1 |-> {meta[i]}]
  /\ lkDisk' = {lk}
  /\ UNCHANGED <<mem, meta, lk>>

At(c) == w.pc = c
Goto(c) == w' = [w EXCEPT !.pc = c]

-----------------------------------------------------------------------------
(* The commit, under the writer lock. *)

(* A writer begins on the newest meta and stores its page into the mapping;
   no reader is pinned, so every page freed by a commit may be reused. *)
Begin ==
  /\ At("idle") /\ ids < (IF Async THEN MaxAsyncId ELSE MaxId)
  /\ ids' = ids + 1
  /\ LET b == Newest IN
     \E c \in Cells, e \in b.free :
       /\ e[2] <= b.txn
       /\ StorePage(e[1], ids')
       /\ w' = [pc |-> "append", off |-> e[1], prev |-> 0,
                s |-> [txn |-> b.txn + 1, id |-> ids',
                       page |-> [b.page EXCEPT ![c] = e[1]],
                       ver |-> [b.ver EXCEPT ![c] = ids'],
                       free |-> (b.free \ {e}) \cup {<<b.page[c], b.txn + 1>>},
                       anc |-> b.anc \cup {ids'}]]
  /\ UNCHANGED <<durability, meta, metaDisk, lk, lkDisk, appended, logs, fl, losses, acked, flushed, astray>>

(* write_all_at of the record at the cursor. *)
Cursor == IF Async THEN appended ELSE lk.len

WriteRecord ==
  /\ At("append")
  /\ LET r == [txn |-> w.s.txn, page |-> w.off, img |-> w.s.id, s |-> w.s] IN
     /\ log' = [log EXCEPT ![Cursor] = r]
     /\ logDisk' = [logDisk EXCEPT ![Cursor] = @ \cup {r, Torn}]
  /\ Goto(IF Async THEN "cursor" ELSE "sync")
  /\ UNCHANGED <<durability, mapping, lk, lkDisk, appended, fl, ids, losses, acked, flushed, astray>>

fdatasync == logDisk' = [o \in Offsets |-> {log[o]}] /\ UNCHANGED log

(* Mutated form: no fdatasync before the cursor moves. *)
SyncRecord_Skip ==
  /\ At("sync") /\ UNCHANGED logs /\ Goto("cursor")
  /\ UNCHANGED <<durability, mapping, lk, lkDisk, appended, fl, ids, losses, acked, flushed, astray>>

SyncRecord ==
  /\ At("sync") /\ fdatasync /\ Goto("cursor")
  /\ UNCHANGED <<durability, mapping, lk, lkDisk, appended, fl, ids, losses, acked, flushed, astray>>

(* Mutated form: the length of the record is added twice. *)
AdvanceCursor_Twice ==
  /\ At("cursor") /\ Goto("flip")
  /\ IF Async THEN appended' = appended + 1 /\ UNCHANGED <<lk, lkDisk>>
     ELSE StoreLock([lk EXCEPT !.len = @ + 2]) /\ UNCHANGED appended
  /\ UNCHANGED <<durability, mapping, logs, fl, ids, losses, acked, flushed, astray>>

AdvanceCursor ==
  /\ At("cursor") /\ Goto("flip")
  /\ IF Async THEN appended' = appended + 1 /\ UNCHANGED <<lk, lkDisk>>
     ELSE StoreLock([lk EXCEPT !.len = @ + 1]) /\ UNCHANGED appended
  /\ UNCHANGED <<durability, mapping, logs, fl, ids, losses, acked, flushed, astray>>

(* write_meta_slot; the commit is acknowledged (the ring's results are posted)
   before the checkpoint. *)
Flip ==
  /\ At("flip")
  /\ LET i == 1 - NewestSlot IN
     /\ meta' = [meta EXCEPT ![i] = w.s]
     /\ metaDisk' = [metaDisk EXCEPT ![i] = @ \cup {w.s}]
  /\ acked' = w.s
  /\ flushed' = IF Async THEN flushed ELSE w.s
  /\ w' = [Idle EXCEPT !.pc = "maybe_ckpt"]
  /\ UNCHANGED <<durability, mem, disk, lk, lkDisk, appended, logs, fl, ids, losses, astray>>

(* The writer dies and the lock passes on (recover_after_owner_death changes
   nothing of this), or one of its system calls fails and it unlocks.  Behind
   the cursor it leaves an orphan: a complete record of a commit that was never
   published, whose txn id the next writer logs again. *)
Stop ==
  /\ w.pc \in {"append", "sync", "cursor", "flip", "ckpt_store", "ckpt_len", "ckpt_lock", "punch"}
  /\ w' = Idle
  /\ UNCHANGED <<durability, mapping, lk, lkDisk, appended, logs, fl, ids, losses, acked, flushed, astray>>

-----------------------------------------------------------------------------
(* wal_maybe_checkpoint, still under the lock: the threshold is reached or not. *)
NoCheckpoint ==
  /\ At("maybe_ckpt") /\ w' = Idle
  /\ UNCHANGED <<durability, mapping, lk, lkDisk, appended, logs, fl, ids, losses, acked, flushed, astray>>

(* The main file catches up with the log. *)
CheckpointSync ==
  /\ At("maybe_ckpt") /\ Cursor > lk.ckpt
  /\ msync_all
  /\ w' = [Idle EXCEPT !.pc = "ckpt_store", !.off = Cursor]
  /\ UNCHANGED <<durability, appended, logs, fl, ids, losses, acked, flushed, astray>>

Larger(a, b) == IF a > b THEN a ELSE b

(* async moves wal_len to the target first: from here until wal_ckpt follows,
   the lock page claims records that nothing has synced. *)
CheckpointLen ==
  /\ At("ckpt_store") /\ Async /\ Goto("ckpt_len")
  /\ StoreLock([lk EXCEPT !.len = Larger(@, w.off), !.mid = w.off > lk.len \/ lk.mid])
  /\ UNCHANGED <<durability, mapping, appended, logs, fl, ids, losses, acked, flushed, astray>>

CheckpointStore ==
  /\ At(IF Async THEN "ckpt_len" ELSE "ckpt_store") /\ Goto("ckpt_lock")
  /\ StoreLock([lk EXCEPT !.ckpt = w.off, !.mid = FALSE])
  /\ UNCHANGED <<durability, mapping, appended, logs, fl, ids, losses, acked, flushed, astray>>

(* Mutated form: the log is reclaimed without syncing the lock page. *)
CheckpointLock_Skip ==
  /\ At("ckpt_lock") /\ Goto("punch") /\ UNCHANGED <<lk, lkDisk>>
  /\ flushed' = Newest
  /\ UNCHANGED <<durability, mapping, appended, logs, fl, ids, losses, acked, astray>>

(* Only when the new offset is durable are the commits below it: until then a
   recovery may start at the old one, and end in the log's unsynced part. *)
CheckpointLock ==
  /\ At("ckpt_lock") /\ Goto("punch") /\ msync_page_LOCK
  /\ flushed' = Newest
  /\ UNCHANGED <<durability, mapping, appended, logs, fl, ids, losses, acked, astray>>

(* punch_hole below the target. *)
Punch ==
  /\ At("punch") /\ w' = Idle
  /\ log' = [o \in Offsets |-> IF o < w.off THEN NoRec ELSE log[o]]
  /\ logDisk' = [o \in Offsets |-> IF o < w.off THEN {NoRec} ELSE logDisk[o]]
  /\ UNCHANGED <<durability, mapping, lk, lkDisk, appended, fl, ids, losses, acked, flushed, astray>>

-----------------------------------------------------------------------------
(* wal_flush_deferred, off the lock. *)
Running == w.pc \notin {"replay", "rec_sync", "rec_store", "rec_lock", "up", "refused"}

FlushLoad ==
  /\ Async /\ Running /\ fl.pc = "load" /\ appended > lk.len
  /\ fl' = [pc |-> "sync", a |-> appended, s |-> acked]
  /\ UNCHANGED <<durability, mapping, lk, lkDisk, appended, logs, w, ids, losses, acked, flushed, astray>>

FlushSync ==
  /\ Running /\ fl.pc = "sync" /\ fdatasync
  /\ fl' = [fl EXCEPT !.pc = "max"]
  /\ UNCHANGED <<durability, mapping, lk, lkDisk, appended, w, ids, losses, acked, flushed, astray>>

(* Mutated form: wal_len is taken from the append cursor of now. *)
FlushMax_Now ==
  /\ Running /\ fl.pc = "max"
  /\ StoreLock([lk EXCEPT !.len = Larger(@, appended)])
  /\ flushed' = IF fl.s.txn > flushed.txn THEN fl.s ELSE flushed
  /\ fl' = FlIdle
  /\ UNCHANGED <<durability, mapping, appended, logs, w, ids, losses, acked, astray>>

FlushMax ==
  /\ Running /\ fl.pc = "max"
  /\ StoreLock([lk EXCEPT !.len = Larger(@, fl.a)])
  /\ flushed' = IF fl.s.txn > flushed.txn THEN fl.s ELSE flushed
  /\ fl' = FlIdle
  /\ UNCHANGED <<durability, mapping, appended, logs, w, ids, losses, acked, astray>>

-----------------------------------------------------------------------------
(* The ways to pick a candidate for each x; cur[x] is the only one of a synced x. *)
Survivors(cand, cur) ==
  LET U == {x \in DOMAIN cand : cand[x] # {cur[x]}} IN
  {[x \in DOMAIN cand |-> IF x \in U THEN f[x] ELSE cur[x]] :
     f \in {g \in [U -> UNION {cand[x] : x \in U}] : \A x \in U : g[x] \in cand[x]}}

(* The records a replay may meet. *)
Visited(o) == {r.s : r \in {q \in logDisk[o] : IsRec(q) /\ \E l \in lkDisk : l.ckpt <= o}}

(* They are not one line of commits: one is on another branch than the newest
   meta, or lies past the cursor though the newest meta contains it, or two of
   them do not follow one another. *)
Stray ==
  \E o \in Offsets : \E s \in Visited(o) :
    \/ s.id \notin Newest.anc /\ Newest.id \notin s.anc
    \/ s.id \in Newest.anc /\ o >= Cursor
    \/ \E q \in Offsets : \E t \in Visited(q) : o < q /\ s.id \notin t.anc

(* The power fails: of every page and every record one candidate is left. *)
PowerLoss ==
  /\ losses < MaxLoss /\ ~At("refused")
  /\ losses' = losses + 1
  /\ mem' \in Survivors(disk, mem) /\ meta' \in Survivors(metaDisk, meta)
  /\ lk' \in lkDisk /\ log' \in Survivors(logDisk, log)
  /\ disk' = [p \in Pages |-> {mem'[p]}] /\ metaDisk' = [i \in 0..1 |-> {meta'[i]}]
  /\ lkDisk' = {lk'} /\ logDisk' = [o \in Offsets |-> {log'[o]}]
  /\ w' = [Idle EXCEPT !.pc = "replay", !.off = lk'.ckpt]
  /\ fl' = FlIdle /\ appended' = 0
  /\ astray' = (astray \/ (Running /\ Stray))
  /\ UNCHANGED <<durability, ids, acked, flushed>>

(* wal_recover: the next valid record with the next txn id is replayed. *)
Follows == IsRec(log[w.off]) /\ (w.prev = 0 \/ log[w.off].txn = w.prev + 1)

Replay ==
  /\ At("replay") /\ Follows
  /\ LET r == log[w.off] IN
     /\ StorePage(r.page, r.img)
     /\ w' = [w EXCEPT !.off = @ + 1, !.prev = r.txn, !.s = r.s]
  /\ UNCHANGED <<durability, meta, metaDisk, lk, lkDisk, appended, logs, fl, ids, losses, acked, flushed, astray>>

(* The valid prefix ends: below the recorded wal_len it is refused, otherwise
   the last replayed meta goes into both slots. *)
ReplayEnd ==
  /\ At("replay") /\ ~Follows
  /\ \/ /\ w.off < lk.len
        /\ Goto("refused") /\ UNCHANGED <<meta, metaDisk>>
     \/ /\ w.off >= lk.len
        /\ Goto("rec_sync")
        /\ IF w.prev = 0 THEN UNCHANGED <<meta, metaDisk>>
           ELSE /\ meta' = [i \in 0..1 |-> w.s]
                /\ metaDisk' = [i \in 0..1 |-> metaDisk[i] \cup {w.s}]
  /\ UNCHANGED <<durability, mem, disk, lk, lkDisk, appended, logs, fl, ids, losses, acked, flushed, astray>>

(* Mutated form: the offsets are published before the mapping is synced. *)
RecoverSync_Skip ==
  /\ At("rec_sync") /\ Goto("rec_store")
  /\ UNCHANGED <<durability, mapping, lk, lkDisk, appended, logs, fl, ids, losses, acked, flushed, astray>>

RecoverSync ==
  /\ At("rec_sync") /\ msync_all /\ Goto("rec_store")
  /\ UNCHANGED <<durability, appended, logs, fl, ids, losses, acked, flushed, astray>>

RecoverStore ==
  /\ At("rec_store") /\ Goto("rec_lock")
  /\ lk' = [len |-> w.off, ckpt |-> w.off, mid |-> FALSE]
  /\ lkDisk' = lkDisk \cup {[lk EXCEPT !.ckpt = w.off, !.mid = FALSE], lk'}
  /\ appended' = w.off
  /\ UNCHANGED <<durability, mapping, logs, fl, ids, losses, acked, flushed, astray>>

RecoverLock ==
  /\ At("rec_lock") /\ Goto("up") /\ msync_page_LOCK
  /\ UNCHANGED <<durability, mapping, appended, logs, fl, ids, losses, acked, flushed, astray>>

(* The recovering process dies: the boot id is still the old one, and the next
   attach starts over. *)
RecoverDies ==
  /\ w.pc \in {"rec_sync", "rec_store", "rec_lock", "replay"}
  /\ w' = [Idle EXCEPT !.pc = "replay", !.off = lk.ckpt]
  /\ UNCHANGED <<durability, mapping, lk, lkDisk, appended, logs, fl, ids, losses, acked, flushed, astray>>

(* The database serves again what it recovered. *)
Serve ==
  /\ At("up") /\ w' = Idle
  /\ acked' = Newest /\ flushed' = Newest
  /\ UNCHANGED <<durability, mapping, lk, lkDisk, appended, logs, fl, ids, losses, astray>>

Commit == Begin \/ WriteRecord \/ SyncRecord \/ AdvanceCursor \/ Flip \/ Stop
Checkpoint == NoCheckpoint \/ CheckpointSync \/ CheckpointLen \/ CheckpointStore \/ CheckpointLock \/ Punch
Flush == FlushLoad \/ FlushSync \/ FlushMax
Recover ==
  Replay \/ ReplayEnd \/ RecoverSync \/ RecoverStore \/ RecoverLock \/ RecoverDies \/ Serve
Next == Commit \/ Checkpoint \/ Flush \/ PowerLoss \/ Recover

Spec == Init /\ [][Next]_vars

-----------------------------------------------------------------------------
IsSnapshot(s) ==
  /\ s.txn \in Nat /\ s.id \in 1..MaxId /\ s.page \in [Cells -> Pages]
  /\ s.ver \in [Cells -> 1..MaxId] /\ s.anc \subseteq 1..MaxId
TypeOK ==
  /\ durability \in {"wal", "async"}
  /\ mem \in [Pages -> 0..MaxId] /\ \A p \in Pages : mem[p] \in disk[p]
  /\ \A i \in 0..1 : IsSnapshot(meta[i]) /\ meta[i] \in metaDisk[i]
  /\ lk \in lkDisk /\ \A l \in lkDisk : l \in [len : Offsets, ckpt : Offsets, mid : BOOLEAN]
  /\ appended \in Offsets
  /\ \A o \in Offsets : log[o] \in logDisk[o]
  /\ IsSnapshot(w.s) /\ w.off \in 0..Larger(MaxId, NPages) /\ fl.a \in Offsets
  /\ ids \in 1..MaxId /\ losses \in 0..MaxLoss /\ IsSnapshot(acked) /\ IsSnapshot(flushed)
  /\ astray \in BOOLEAN

(* wal.rs on wal_recover: replay ends "exactly at the newest durable commit".
   After every power loss the database that comes up contains each commit that
   was acknowledged (wal), or that the flusher or a checkpoint had made durable
   (async): the recovered meta descends from it. *)
NothingLost == At("up") => flushed.id \in Newest.anc

(* That holds unless the power failed over a log with a stray record: an orphan
   of a writer that stopped before its flip, or a record that an earlier
   recovery could not reach and left in the log, once a commit went past it. *)
DurableSurvives == ~astray => NothingLost

(* wal_recover refuses a file whose valid records end below the recorded wal_len
   ("truncated or replaced behind our back").  After a mere power loss it does so
   only over a stray record, or in async with the lock page written back between
   the two stores of a checkpoint. *)
RefusedForCause == At("refused") => astray \/ (Async /\ lk.mid)

(* DESIGN.md on async: power loss may lose a bounded recent window, "never a
   torn/partial database".  The pages of the newest meta hold what its commit
   wrote, after a recovery as well as before. *)
Intact == Running \/ At("up") => \A c \in Cells : mem[Newest.page[c]] = Newest.ver[c]

(* durability = wal never comes up torn, also when the power fails again, or the
   recovering process dies, in the middle of wal_recover; only a power loss over
   a stray record can leave it so. *)
IntactInWal == durability = "wal" /\ ~astray => Intact

(* Whatever version of the lock page reached the disk, the records between its
   wal_ckpt and its wal_len are durable in the log and recovery may start there:
   every version but the one between a checkpoint's two stores in async. *)
LockPageIsSafe ==
  \A l \in lkDisk, o \in Offsets :
    l.ckpt <= o /\ o < l.len /\ ~(Async /\ l.mid) => logDisk[o] = {log[o]} /\ IsRec(log[o])

=============================================================================
