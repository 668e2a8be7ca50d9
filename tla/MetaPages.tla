----------------------------- MODULE MetaPages -----------------------------
(***************************************************************************)
(* The double-buffered meta pages of one database file, the durable gate   *)
(* that hides a commit a power failure could still erase, and the lock-    *)
(* free reads of them (shm/pages.rs, the publish step of engine/commit.rs).*)
(*                                                                         *)
(* A meta page is a body and a checksum.  The body of a commit is stood    *)
(* for by its transaction id and a number `id` that tells two attempts at  *)
(* the same transaction id apart; the checksum by the id it was computed   *)
(* for, so a page validates exactly when the two ids agree.                *)
(***************************************************************************)
EXTENDS Naturals, Sequences

CONSTANTS
  Readers,      \* processes reading the metas without the writer lock
  MaxTxn,       \* bound: last transaction id a run reaches
  MaxAttempts,  \* bound: calls of write_meta_slot and deaths of writers in a run
  MaxDeaths,    \* bound: writers killed while they hold the lock
  Retries       \* passes of the read loop before it gives up (64)

ASSUME BoundAssumption ==
  /\ MaxTxn \in Nat /\ MaxAttempts \in Nat /\ MaxDeaths \in Nat
  /\ Retries \in Nat \ {0}

VARIABLES
  durability, \* the file's mode, fixed by format; "none" stands for "async" too
  page,      \* page[s]: the meta page in slot s (0 = META_PAGE_A, 1 = META_PAGE_B)
  gate,      \* the durable_txn word of the lock page
  lock,      \* "free", "held", or "dead": its holder was killed
  wpc,       \* where the lock holder is
  base,      \* the meta the writing transaction started from
  attempt,   \* calls of write_meta_slot so far (names the next body)
  deaths,
  log,       \* "clean", or "orphan": a complete record of a commit that was never
             \* published is in the log, and replay will stop behind it
  durable,   \* history: ids of bodies that are durable with their data
  doubtful,  \* history: ids of bodies whose data or record is known not to be safe:
             \* a published commit whose msync failed and over whose pages another
             \* transaction wrote, a commit logged behind an orphan
  rd         \* rd[r]: the newest_meta call of reader r

vars == <<durability, page, gate, lock, wpc, base, attempt, deaths, log, durable, doubtful, rd>>

Slot == {0, 1}
Modes == {"none", "commit", "wal"}
Gated == durability \in {"commit", "wal"}
Txn == 0..MaxTxn
Id == 0..MaxAttempts

Meta == [slot: Slot, txn: Txn, id: Id]
NoMeta == [slot |-> 2, txn |-> 0, id |-> 0]
Page == [txn: Txn, id: Id, sum: Id]

Newer(m, n) == IF m.txn >= n.txn THEN m ELSE n
MaxOf(m, n) == IF m >= n THEN m ELSE n

(* read_meta_slot of a page nobody is writing: None unless it validates. *)
SlotRead(s) ==
  IF page[s].sum = page[s].id
    THEN [slot |-> s, txn |-> page[s].txn, id |-> page[s].id]
    ELSE NoMeta

(* The choice between two slot reads: both filters, then the newer one. *)
Pick(a, b) ==
  IF a = NoMeta THEN b ELSE IF b = NoMeta THEN a ELSE Newer(a, b)

Filter(m, g) == IF m # NoMeta /\ m.txn <= g THEN m ELSE NoMeta

newest_meta_gated(g) == Pick(Filter(SlotRead(0), g), Filter(SlotRead(1), g))
newest_meta_ungated == Pick(SlotRead(0), SlotRead(1))

(* What the writer reads under the lock, when no page is in motion. *)
NewestUnderLock == IF Gated THEN newest_meta_gated(gate) ELSE newest_meta_ungated

(***************************************************************************)
(* Reader state.  `pc` walks one pass: gate, checksum and body of slot A,  *)
(* checksum and body of slot B, decision.  `seen` is what the last failed  *)
(* pass left behind: the gate it used, or the words of both slots.         *)
(***************************************************************************)
Words == <<page[0].txn, page[0].sum, page[1].txn, page[1].sum>>

IdleReader ==
  [op |-> "newest", pc |-> "idle", gate |-> 0, sum |-> 0, a |-> NoMeta, b |-> NoMeta,
   seen |-> <<>>, pass |-> 0,
   out |-> NoMeta,      \* the meta read; for a pin, the one stored in the reader slot
   check |-> FALSE,     \* the pin protocol's second read is under way
   from |-> 0,          \* history: attempt at the first pass of this newest_meta call
   span |-> 0,          \* history: attempt at the start of the pass, then how far it moved
   floor |-> 0]         \* history: newest visible txn at the call, then at the pin store

Init ==
  /\ durability \in Modes
  /\ page = [s \in Slot |-> [txn |-> 0, id |-> 0, sum |-> 0]]
  /\ gate = 0
  /\ lock = "free"
  /\ wpc = "idle"
  /\ base = NoMeta
  /\ attempt = 0
  /\ deaths = 0
  /\ log = "clean"
  /\ durable = {0}
  /\ doubtful = {}
  /\ rd = [r \in Readers |-> IdleReader]

-----------------------------------------------------------------------------
(* The writer. *)

WriterVars == <<durability, page, gate, lock, wpc, base, attempt, deaths, log, durable, doubtful>>

ValidIds == {page[s].id : s \in {t \in Slot : SlotRead(t) # NoMeta}}

(* The bound on a run's length. *)
Room == attempt + deaths < MaxAttempts

(* Owner-death recovery: in commit mode both meta pages are synced, which
   completes the commits whose data still is what it was, then the gate is
   raised to the newest valid page. *)
recover_after_owner_death ==
  /\ durable' = IF durability = "commit" THEN durable \cup (ValidIds \ doubtful) ELSE durable
  /\ gate' = MaxOf(gate, newest_meta_ungated.txn)

writer_lock ==
  /\ \/ lock = "free" /\ UNCHANGED <<gate, durable>>
     \/ lock = "dead" /\ recover_after_owner_death
  /\ lock' = "held"
  /\ wpc' = "begin"
  /\ UNCHANGED <<durability, page, base, attempt, deaths, log, doubtful, rd>>

(* The transaction allocates from the state of its base: a commit published
   above it, which the gate still hides, loses its pages to this one. *)
make_write_txn ==
  /\ wpc = "begin"
  /\ base' = NewestUnderLock
  /\ IF base' = NoMeta
       THEN wpc' = "idle" /\ lock' = "free" /\ UNCHANGED doubtful
       ELSE /\ wpc' = "write" /\ lock' = lock
            /\ doubtful' = doubtful \cup {page[s].id : s \in {t \in Slot : page[t].txn > base'.txn}}
  /\ UNCHANGED <<durability, page, gate, attempt, deaths, log, durable, rd>>

abort ==
  /\ wpc = "write"
  /\ wpc' = "idle" /\ lock' = "free"
  /\ UNCHANGED <<durability, page, gate, base, attempt, deaths, log, durable, doubtful, rd>>

(* wal: the record is synced, and wal_len moved past it, before the meta is
   published.  A failure of this step, or of the data msync of commit mode,
   is `abort`. *)
wal_commit ==
  /\ wpc = "write" /\ durability = "wal"
  /\ base.txn < MaxTxn /\ Room
  /\ wpc' = "publish"
  /\ UNCHANGED <<durability, page, gate, lock, base, attempt, deaths, log, durable, doubtful, rd>>

(* Mutated forms, used only to show that the properties can fail. *)
write_meta_body_SameSlot ==
  /\ \/ wpc = "write" /\ durability # "wal"
     \/ wpc = "publish"
  /\ base.txn < MaxTxn /\ Room
  /\ attempt' = attempt + 1
  /\ page' = [page EXCEPT ![base.slot] =
                [@ EXCEPT !.txn = base.txn + 1, !.id = attempt + 1]]
  /\ durable' = IF wpc = "publish" /\ log = "clean" THEN durable \cup {attempt + 1} ELSE durable
  /\ doubtful' = IF wpc = "publish" /\ log = "orphan" THEN doubtful \cup {attempt + 1} ELSE doubtful
  /\ wpc' = "sum"
  /\ UNCHANGED <<durability, gate, lock, base, deaths, log, rd>>

(* write_meta_slot, first half: the body goes into the alternate slot.  In
   wal mode its record is in the log by now: durable, unless an orphan lies
   in front of it. *)
write_meta_body ==
  /\ \/ wpc = "write" /\ durability # "wal"
     \/ wpc = "publish"
  /\ base.txn < MaxTxn /\ Room
  /\ attempt' = attempt + 1
  /\ page' = [page EXCEPT ![1 - base.slot] =
                [@ EXCEPT !.txn = base.txn + 1, !.id = attempt + 1]]
  /\ durable' = IF wpc = "publish" /\ log = "clean" THEN durable \cup {attempt + 1} ELSE durable
  /\ doubtful' = IF wpc = "publish" /\ log = "orphan" THEN doubtful \cup {attempt + 1} ELSE doubtful
  /\ wpc' = "sum"
  /\ UNCHANGED <<durability, gate, lock, base, deaths, log, rd>>

write_meta_sum_NoMsync ==
  /\ wpc = "sum"
  /\ page' = [page EXCEPT ![1 - base.slot].sum = page[1 - base.slot].id]
  /\ wpc' = "gate"
  /\ UNCHANGED <<durability, gate, lock, base, attempt, deaths, log, durable, doubtful, rd>>

(* write_meta_slot, second half: the Release store of the checksum. *)
write_meta_sum ==
  /\ wpc = "sum"
  /\ page' = [page EXCEPT ![1 - base.slot].sum = page[1 - base.slot].id]
  /\ wpc' = CASE durability = "commit" -> "msync"
              [] durability = "wal"    -> "gate"
              [] OTHER                 -> "unlock"
  /\ UNCHANGED <<durability, gate, lock, base, attempt, deaths, log, durable, doubtful, rd>>

(* msync of the new meta page; an error leaves the page published, the gate
   where it was, and the lock free: the commit reports failure, and its page
   waits above the gate. *)
msync_meta ==
  /\ wpc = "msync"
  /\ \/ /\ durable' = durable \cup {attempt}
        /\ wpc' = "gate" /\ lock' = lock
     \/ /\ wpc' = "idle" /\ lock' = "free"
        /\ UNCHANGED durable
  /\ UNCHANGED <<durability, page, gate, base, attempt, deaths, log, doubtful, rd>>

advance_gate_OffByOne ==
  /\ wpc = "gate"
  /\ gate' = MaxOf(gate, base.txn + 2)
  /\ wpc' = "unlock"
  /\ UNCHANGED <<durability, page, lock, base, attempt, deaths, log, durable, doubtful, rd>>

(* durable_txn.fetch_max, then the lock is released. *)
advance_gate ==
  /\ wpc = "gate"
  /\ gate' = MaxOf(gate, base.txn + 1)
  /\ wpc' = "unlock"
  /\ UNCHANGED <<durability, page, lock, base, attempt, deaths, log, durable, doubtful, rd>>

(* The end of a commit.  In wal mode it may find the log due for a checkpoint:
   the whole mapping is synced and the log, an orphan in it included, is
   started over. *)
writer_unlock ==
  /\ wpc = "unlock"
  /\ \/ UNCHANGED <<log, durable>>
     \/ /\ durability = "wal"
        /\ log' = "clean"
        /\ durable' = durable \cup {NewestUnderLock.id}
  /\ wpc' = "idle" /\ lock' = "free"
  /\ UNCHANGED <<durability, page, gate, base, attempt, deaths, doubtful, rd>>

(* A death between the record and the checksum leaves the record in the log
   and the old meta in charge: the next commit will log its id a second time. *)
WriterDies ==
  /\ lock = "held" /\ deaths < MaxDeaths /\ Room
  /\ deaths' = deaths + 1
  /\ lock' = "dead" /\ wpc' = "idle"
  /\ log' = IF durability = "wal" /\ wpc \in {"publish", "sum"} THEN "orphan" ELSE log
  /\ UNCHANGED <<durability, page, gate, base, attempt, durable, doubtful, rd>>

-----------------------------------------------------------------------------
(* newest_meta of a reader, one shared-memory load at a time. *)

(* A call of newest_meta for its own sake, or of claim_and_pin. *)
Call(r, op) ==
  /\ rd[r].pc = "idle"
  /\ rd' = [rd EXCEPT ![r] = [IdleReader EXCEPT !.op = op, !.pc = "gate",
                                                !.floor = NewestUnderLock.txn]]
  /\ UNCHANGED WriterVars

LoadGate(r) ==
  /\ rd[r].pc = "gate"
  /\ rd' = [rd EXCEPT ![r].pc = "sumA",
                      ![r].gate = IF Gated THEN gate ELSE MaxTxn,
                      ![r].span = attempt,
                      ![r].from = IF rd[r].pass = 0 THEN attempt ELSE @]
  /\ UNCHANGED WriterVars

LoadSum(r, s) ==
  /\ rd[r].pc = IF s = 0 THEN "sumA" ELSE "sumB"
  /\ rd' = [rd EXCEPT ![r].pc = IF s = 0 THEN "bodyA" ELSE "bodyB",
                      ![r].sum = page[s].sum]
  /\ UNCHANGED WriterVars

(* The body is compared with the checksum loaded before it: a write that
   went between the two loads makes the slot read None. *)
LoadBody(r, s) ==
  LET m == IF rd[r].sum = page[s].id
             THEN [slot |-> s, txn |-> page[s].txn, id |-> page[s].id]
             ELSE NoMeta
      f == Filter(m, rd[r].gate)
  IN /\ rd[r].pc = IF s = 0 THEN "bodyA" ELSE "bodyB"
     /\ rd' = [rd EXCEPT ![r].pc = IF s = 0 THEN "sumB" ELSE "decide",
                         ![r].sum = 0,
                         ![r].a = IF s = 0 THEN f ELSE @,
                         ![r].b = IF s = 0 THEN @ ELSE f]
     /\ UNCHANGED WriterVars

Stable_NoRetry(r) == TRUE

(* A pass that found no page gives up when it saw nothing move since the
   last one: the same gate (0 before the first pass) in the gated modes,
   the same four words in the others. *)
Stable(r) ==
  IF Gated THEN rd[r].gate = (IF rd[r].seen = <<>> THEN 0 ELSE rd[r].seen[1])
           ELSE rd[r].seen = Words

Failed(r) ==
  IF Stable(r) \/ rd[r].pass + 1 = Retries
    THEN [rd[r] EXCEPT !.pc = "corrupt"]
    ELSE [rd[r] EXCEPT !.pc = "gate", !.pass = @ + 1,
                       !.seen = IF Gated THEN <<rd[r].gate>> ELSE Words]

Found_NoRecheck(r, m) ==
  IF rd[r].op = "pin" /\ ~rd[r].check
    THEN [rd[r] EXCEPT !.pass = 0, !.seen = <<>>, !.pc = "store", !.out = m]
    ELSE [rd[r] EXCEPT !.pc = "ok", !.out = IF rd[r].check THEN @ ELSE m]

(* newest_meta has its answer m: it is the result, or the candidate of a pin,
   or the recheck of one - which must name the same transaction, else the
   loop of claim_and_pin starts over. *)
Found(r, m) ==
  LET again == [rd[r] EXCEPT !.pass = 0, !.seen = <<>>]
  IN CASE rd[r].op = "newest" -> [rd[r] EXCEPT !.pc = "ok", !.out = m]
       [] rd[r].op = "pin" /\ ~rd[r].check -> [again EXCEPT !.pc = "store", !.out = m]
       [] rd[r].check /\ m.txn = rd[r].out.txn -> [rd[r] EXCEPT !.pc = "ok"]
       [] OTHER -> [again EXCEPT !.pc = "gate", !.check = FALSE]

Decide(r) ==
  LET m == Pick(rd[r].a, rd[r].b)
  IN /\ rd[r].pc = "decide"
     /\ rd' = [rd EXCEPT ![r] =
          [(IF m = NoMeta THEN Failed(r) ELSE Found(r, m))
             EXCEPT !.a = NoMeta, !.b = NoMeta, !.span = attempt - rd[r].span]]
     /\ UNCHANGED WriterVars

(* The pin: the candidate's id goes into the reader slot, before the fence. *)
StorePin(r) ==
  /\ rd[r].pc = "store"
  /\ rd' = [rd EXCEPT ![r].pc = "gate", ![r].check = TRUE,
                      ![r].floor = NewestUnderLock.txn]
  /\ UNCHANGED WriterVars

Return(r) ==
  /\ rd[r].pc \in {"ok", "corrupt"}
  /\ rd' = [rd EXCEPT ![r] = IdleReader]
  /\ UNCHANGED WriterVars

-----------------------------------------------------------------------------
Writer ==
  \/ writer_lock \/ make_write_txn \/ abort \/ wal_commit
  \/ write_meta_body \/ write_meta_sum \/ msync_meta \/ advance_gate
  \/ writer_unlock \/ WriterDies

newest_meta(r) ==
  \/ \E op \in {"newest", "pin"} : Call(r, op)
  \/ LoadGate(r) \/ Decide(r) \/ StorePin(r) \/ Return(r)
  \/ \E s \in Slot : LoadSum(r, s) \/ LoadBody(r, s)

Next == Writer \/ \E r \in Readers : newest_meta(r)

Spec == Init /\ [][Next]_vars

-----------------------------------------------------------------------------
Reader ==
  [op: {"newest", "pin"},
   pc: {"idle", "gate", "sumA", "bodyA", "sumB", "bodyB", "decide", "store", "ok", "corrupt"},
   gate: Txn, sum: Id, a: Meta \cup {NoMeta}, b: Meta \cup {NoMeta}, seen: Seq(Nat),
   pass: 0..(Retries - 1), from: Id, out: Meta \cup {NoMeta}, check: BOOLEAN,
   span: Id, floor: Txn]

TypeOK ==
  /\ durability \in Modes
  /\ page \in [Slot -> Page]
  /\ gate \in Txn
  /\ lock \in {"free", "held", "dead"}
  /\ wpc \in {"idle", "begin", "write", "publish", "sum", "msync", "gate", "unlock"}
  /\ base \in Meta \cup {NoMeta}
  /\ attempt \in Id
  /\ deaths \in 0..MaxDeaths
  /\ log \in {"clean", "orphan"}
  /\ durable \subseteq Id
  /\ doubtful \subseteq Id
  /\ rd \in [Readers -> Reader]

(* One of the two pages always validates, whatever step a writer died in, and
   in the gated modes it holds exactly the transaction the gate names: the
   shadow-paging argument behind write_meta_slot and recover_after_owner_death. *)
GateHasPage ==
  \E s \in Slot : SlotRead(s) # NoMeta /\ (Gated => page[s].txn = gate)

(* Gated modes: whatever newest_meta returned is durable, so no reader acted on
   a commit that a power failure could still erase (the purpose of durable_txn
   stated at newest_meta).  It takes a writer killed with the lock held to make
   an exception, and then it is one of two: a commit that reported a failed
   msync, lost its pages to a later transaction and was brought back by
   recover_after_owner_death, or one logged behind the killed writer's orphan. *)
DurableBeforeVisible ==
  Gated => \A r \in Readers :
    rd[r].pc = "ok" =>
      \/ rd[r].out.id \in durable
      \/ deaths > 0 /\ rd[r].out.id \in doubtful

(* Every read, a pin or a plain newest_meta, is that fresh (the latter measured
   from the call) when fewer than two meta writes began during its last pass:
   only a pass descheduled across two commits can lose the newest page and
   settle for the older one. *)
FreshUnlessStraddled ==
  \A r \in Readers :
    rd[r].pc = "ok" /\ rd[r].span < 2 => rd[r].out.txn >= rd[r].floor

(* newest_meta reports corruption of a healthy file only when commits outran
   it: the first pass used the genesis gate 0, which the loop takes for "nothing
   moved", or every one of its passes failed, and then at least one meta write
   began in each of them. *)
CorruptOnlyWhenOutrun ==
  \A r \in Readers : rd[r].pc = "corrupt" =>
    \/ Gated /\ rd[r].pass = 0 /\ rd[r].gate = 0
    \/ rd[r].pass + 1 = Retries /\ attempt - rd[r].from >= Retries

(* A commit that was visible stays: the newest meta under the gate never goes
   back to an older transaction, across aborts, failed msyncs and deaths. *)
VisibleMonotone ==
  [][Gated => newest_meta_gated(gate)'.txn >= newest_meta_gated(gate).txn]_vars

=============================================================================
