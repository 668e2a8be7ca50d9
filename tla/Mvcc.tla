-------------------------------- MODULE Mvcc --------------------------------
(***************************************************************************)
(* Snapshots and page reuse: readers pin a committed snapshot in the       *)
(* reader table without a lock, the one writer copies pages on write and   *)
(* takes pages freed by earlier commits back once no pinned snapshot can   *)
(* reference them (shm/readers.rs, engine/freelist.rs, pagestore.rs and    *)
(* the freelist half of engine/commit.rs).                                 *)
(*                                                                         *)
(* The trees of a database are a map from Keys to pages: writing a key     *)
(* stands for copying the page that holds it, deleting one for freeing it. *)
(* The contents of a page are the number of the transaction attempt that   *)
(* wrote it last.  Publishing a commit is one step; MetaPages opens it up, *)
(* and StraddledReads lets newest_meta answer the way MetaPages shows it   *)
(* can when a pass is descheduled across two commits.                      *)
(***************************************************************************)
EXTENDS Integers, FiniteSets

CONSTANTS
  Readers,         \* read transactions that may run at the same time
  NSlots,          \* max_readers
  Keys,
  NPages,          \* page_count: the data pages are 1..NPages, the file cannot grow
  PoolTarget,      \* FREELIST_POOL_TARGET (32)
  PoolDraws,       \* FREELIST_POOL_DRAWS (4)
  MaxTxn,          \* bound: commits in a run
  MaxAttempts,     \* bound: write transactions begun in a run
  StraddledReads   \* newest_meta may lose the newest page (see RecheckEnd)

ASSUME SizeAssumption ==
  /\ NSlots \in Nat /\ NPages \in Nat /\ MaxTxn \in Nat /\ MaxAttempts \in Nat
  /\ PoolTarget \in Nat /\ PoolDraws \in Nat
  /\ StraddledReads \in BOOLEAN

Txn == 0..MaxTxn
UNPINNED == MaxTxn + 1        \* u64::MAX: claimed, not yet pinned
Slots == 0..(NSlots - 1)
Pages == 1..NPages
NoPage == 0
Attempts == 0..MaxAttempts

VARIABLES
  (* committed state *)
  newest,      \* transaction id of the newest visible meta
  tree,        \* tree[t][k]: the page of key k in snapshot t
  stamp,       \* stamp[t][k]: what that page held when t was committed
  free,        \* free[t]: pages of the freelist entry of transaction t
  hw,          \* high_water of the newest meta (first page never used)
  (* the ghost: the same of the meta page whose msync failed, hidden by the gate *)
  gtree, gstamp, gfree,
  ghw,         \* its high_water, 0 when there is none
  surfaced,    \* history: the first ghost that became the newest commit
  (* shared memory *)
  content,     \* content[p]: the attempt that last wrote page p
  slot,        \* slot[i]: [word, txn] of the reader table
  cache,       \* oldest_pinned_cache
  (* the write transaction, under the writer lock *)
  wpc, attempt, wtree, wstamp, dirty, reusable, freed, taken, cursor, recomputed,
  whw, wkey, draws, scan, occupied, oldest,
  (* read transactions *)
  rd           \* rd[r]: [pc, slot, meta, at]

committed == <<newest, tree, stamp, free, hw, gtree, gstamp, gfree, ghw, surfaced>>
txnvars == <<attempt, wtree, wstamp, dirty, freed, whw>>
poolvars == <<reusable, taken, cursor>>
scanvars == <<recomputed, scan, occupied, oldest>>
writer == <<wpc, txnvars, poolvars, scanvars, wkey, draws>>
vars == <<committed, content, slot, cache, writer, rd>>

IdleReader == [pc |-> "idle", slot |-> 0, meta |-> 0, at |-> 0]

(* A freshly formatted file: transaction 0, empty trees, nothing free. *)
Init ==
  /\ newest = 0
  /\ tree = [t \in Txn |-> [k \in Keys |-> NoPage]]
  /\ stamp = [t \in Txn |-> [k \in Keys |-> 0]]
  /\ free = [t \in Txn |-> {}]
  /\ hw = 1
  /\ gtree = [k \in Keys |-> NoPage] /\ gstamp = [k \in Keys |-> 0]
  /\ gfree = [t \in Txn |-> {}] /\ ghw = 0 /\ surfaced = MaxTxn + 1
  /\ content = [p \in Pages |-> 0]
  /\ slot = [i \in Slots |-> [word |-> "free", txn |-> 0]]
  /\ cache = 0
  /\ wpc = "idle" /\ attempt = 0
  /\ wtree = [k \in Keys |-> NoPage] /\ wstamp = [k \in Keys |-> 0]
  /\ dirty = {} /\ reusable = {} /\ freed = {} /\ taken = {} /\ cursor = 0
  /\ recomputed = FALSE /\ whw = 1
  /\ wkey \in Keys
  /\ draws = 0 /\ scan = 0 /\ occupied = FALSE /\ oldest = 0
  /\ rd = [r \in Readers |-> IdleReader]

-----------------------------------------------------------------------------
(* The write transaction. *)

(* The working state of no transaction. *)
Dropped ==
  /\ wpc' = "idle"
  /\ wtree' = [k \in Keys |-> NoPage] /\ wstamp' = [k \in Keys |-> 0]
  /\ dirty' = {} /\ reusable' = {} /\ freed' = {} /\ taken' = {} /\ cursor' = 0
  /\ recomputed' = FALSE /\ whw' = 1
  /\ draws' = 0 /\ scan' = 0 /\ occupied' = FALSE /\ oldest' = 0
  /\ UNCHANGED <<attempt, wkey>>

(* begin_write: the lock is taken and the newest meta is the base. *)
make_write_txn ==
  /\ wpc = "idle" /\ attempt < MaxAttempts /\ newest < MaxTxn
  /\ wpc' = "open" /\ attempt' = attempt + 1
  /\ wtree' = tree[newest] /\ wstamp' = stamp[newest]
  /\ whw' = hw
  /\ UNCHANGED <<committed, content, slot, cache, dirty, freed, poolvars, scanvars, wkey,
                 draws, rd>>

(* A mutation of key k.  cow() of a dirty page is the page itself; a
   committed page, or no page, needs an allocation, which draws on the
   freelist first when the pool is dry. *)
Put(k) ==
  /\ wpc = "open"
  /\ IF wtree[k] \in dirty
       THEN /\ content' = [content EXCEPT ![wtree[k]] = attempt]
            /\ wstamp' = [wstamp EXCEPT ![k] = attempt]
            /\ UNCHANGED <<wpc, wkey, draws>>
       ELSE /\ wkey' = k /\ draws' = 0
            /\ wpc' = IF reusable = {} THEN "refill" ELSE "take"
            /\ UNCHANGED <<content, wstamp>>
  /\ UNCHANGED <<committed, slot, cache, attempt, wtree, dirty, freed, whw, poolvars,
                 scanvars, rd>>

(* The oldest entry behind the cursor; the freelist is keyed by transaction. *)
NextEntry(f) ==
  /\ f > cursor /\ free[f] # {}
  /\ \A g \in Txn : g > cursor /\ free[g] # {} => f <= g

draw(f) ==
  /\ reusable' = reusable \cup free[f]
  /\ taken' = taken \cup {f} /\ cursor' = f
  /\ draws' = draws + 1 /\ wpc' = "refill"

stop_drawing ==
  wpc' = "take" /\ UNCHANGED <<poolvars, draws>>

(* Mutated form: reuse of an entry one transaction too early. *)
refill_reusable_Early ==
  /\ wpc = "refill"
  /\ IF draws < PoolDraws /\ Cardinality(reusable) < PoolTarget
        /\ \E f \in Txn : NextEntry(f)
       THEN \E f \in Txn :
              /\ NextEntry(f)
              /\ IF f <= cache + 1 THEN draw(f) /\ UNCHANGED scanvars
                 ELSE IF ~recomputed
                   THEN /\ recomputed' = TRUE /\ wpc' = "scan_word"
                        /\ scan' = 0 /\ oldest' = newest
                        /\ UNCHANGED <<poolvars, draws, occupied>>
                   ELSE stop_drawing /\ UNCHANGED scanvars
       ELSE stop_drawing /\ UNCHANGED scanvars
  /\ UNCHANGED <<committed, content, slot, cache, txnvars, wkey, rd>>

(* One turn of the draw loop of alloc_id.  An entry is taken when its
   transaction is at or below the cached bound; when it is above, the bound
   is computed afresh once per transaction, else the loop ends. *)
refill_reusable ==
  /\ wpc = "refill"
  /\ IF draws < PoolDraws /\ Cardinality(reusable) < PoolTarget
        /\ \E f \in Txn : NextEntry(f)
       THEN \E f \in Txn :
              /\ NextEntry(f)
              /\ IF f <= cache THEN draw(f) /\ UNCHANGED scanvars
                 ELSE IF ~recomputed
                   THEN /\ recomputed' = TRUE /\ wpc' = "scan_word"
                        /\ scan' = 0 /\ oldest' = newest
                        /\ UNCHANGED <<poolvars, draws, occupied>>
                   ELSE stop_drawing /\ UNCHANGED scanvars
       ELSE stop_drawing /\ UNCHANGED scanvars
  /\ UNCHANGED <<committed, content, slot, cache, txnvars, wkey, rd>>

(* compute_oldest_pinned, one load at a time. *)
ScanWord ==
  /\ wpc = "scan_word" /\ scan < NSlots
  /\ occupied' = (slot[scan].word # "free")
  /\ wpc' = "scan_txn"
  /\ UNCHANGED <<committed, content, slot, cache, txnvars, poolvars, recomputed, scan, oldest,
                 wkey, draws, rd>>

ScanTxn ==
  /\ wpc = "scan_txn"
  /\ LET t == IF slot[scan].txn = UNPINNED THEN newest ELSE slot[scan].txn
     IN oldest' = IF occupied /\ t < oldest THEN t ELSE oldest
  /\ scan' = scan + 1 /\ wpc' = "scan_word"
  /\ UNCHANGED <<committed, content, slot, cache, txnvars, poolvars, recomputed, occupied,
                 wkey, draws, rd>>

(* The scan ends: the bound goes into the cache (fetch_max), and the entry
   that caused it is drawn if it is now at or below the bound. *)
ScanDone ==
  /\ wpc = "scan_word" /\ scan = NSlots
  /\ cache' = IF oldest > cache THEN oldest ELSE cache
  /\ \E f \in Txn : NextEntry(f) /\ IF f <= oldest THEN draw(f) ELSE stop_drawing
  /\ scan' = 0 /\ occupied' = FALSE /\ oldest' = 0
  /\ UNCHANGED <<committed, content, slot, txnvars, recomputed, wkey, rd>>

(* The rest of alloc, and of cow: the highest reusable page, else the page at
   high water, else DbFull, which fails the statement and leaves the tree.
   The new page is written, then the copied page is freed. *)
TakePage(p) ==
  /\ content' = [content EXCEPT ![p] = attempt]
  /\ dirty' = dirty \cup {p}
  /\ wtree' = [wtree EXCEPT ![wkey] = p]
  /\ wstamp' = [wstamp EXCEPT ![wkey] = attempt]
  /\ freed' = IF wtree[wkey] = NoPage THEN freed ELSE freed \cup {wtree[wkey]}

(* Mutated form: the capacity check is off by one. *)
alloc_PastEnd ==
  /\ wpc = "take" /\ wpc' = "open"
  /\ \/ \E p \in reusable :
          /\ \A q \in reusable : q <= p
          /\ reusable' = reusable \ {p}
          /\ TakePage(p) /\ UNCHANGED whw
     \/ /\ reusable = {} /\ whw <= NPages + 1
        /\ whw' = whw + 1
        /\ TakePage(whw) /\ UNCHANGED reusable
  /\ UNCHANGED <<committed, slot, cache, attempt, taken, cursor, scanvars, wkey, draws, rd>>

alloc ==
  /\ wpc = "take" /\ wpc' = "open"
  /\ \/ \E p \in reusable :
          /\ \A q \in reusable : q <= p
          /\ reusable' = reusable \ {p}
          /\ TakePage(p) /\ UNCHANGED whw
     \/ /\ reusable = {} /\ whw <= NPages
        /\ whw' = whw + 1
        /\ TakePage(whw) /\ UNCHANGED reusable
     \/ /\ reusable = {} /\ whw > NPages
        /\ UNCHANGED <<content, dirty, wtree, wstamp, freed, reusable, whw>>
  /\ UNCHANGED <<committed, slot, cache, attempt, taken, cursor, scanvars, wkey, draws, rd>>

(* Mutated form: a committed page goes back to the pool at once. *)
Del_Recycle(k) ==
  /\ wpc = "open" /\ wtree[k] # NoPage
  /\ reusable' = reusable \cup {wtree[k]}
  /\ dirty' = dirty \ {wtree[k]} /\ UNCHANGED freed
  /\ wtree' = [wtree EXCEPT ![k] = NoPage]
  /\ UNCHANGED <<committed, content, slot, cache, wpc, attempt, wstamp, whw, taken, cursor,
                 scanvars, wkey, draws, rd>>

(* free: a page this transaction wrote goes back to the pool, a committed one
   into the set freed by this commit. *)
Del(k) ==
  /\ wpc = "open" /\ wtree[k] # NoPage
  /\ IF wtree[k] \in dirty
       THEN reusable' = reusable \cup {wtree[k]} /\ UNCHANGED freed
       ELSE freed' = freed \cup {wtree[k]} /\ UNCHANGED reusable
  /\ dirty' = dirty \ {wtree[k]}
  /\ wtree' = [wtree EXCEPT ![k] = NoPage]
  /\ UNCHANGED <<committed, content, slot, cache, wpc, attempt, wstamp, whw, taken, cursor,
                 scanvars, wkey, draws, rd>>

(* Mutated form: recycled pages of this transaction are forgotten. *)
freelist_plan_Drop(t) ==
  [f \in Txn |-> IF f = t THEN freed ELSE IF f \in taken THEN free[f] \cap reusable ELSE free[f]]

(* freelist_plan: every drawn entry keeps what is still in the pool; the rest
   of the pool and the freed pages become the entry of this commit. *)
freelist_plan(t) ==
  [f \in Txn |->
     IF f = t THEN freed \cup (reusable \ UNION {free[g] : g \in taken})
     ELSE IF f \in taken THEN free[f] \cap reusable
     ELSE free[f]]

(* A meta page is written over the ghost, or torn by it. *)
NoGhost ==
  /\ gtree' = [k \in Keys |-> NoPage] /\ gstamp' = [k \in Keys |-> 0]
  /\ gfree' = [t \in Txn |-> {}] /\ ghw' = 0

Publish(T, S, F, H) ==
  /\ newest' = newest + 1
  /\ tree' = [tree EXCEPT ![newest + 1] = T]
  /\ stamp' = [stamp EXCEPT ![newest + 1] = S]
  /\ free' = F
  /\ hw' = H
  /\ NoGhost

commit ==
  /\ wpc = "open"
  /\ Publish(wtree, wstamp, freelist_plan(newest + 1), whw)
  /\ Dropped
  /\ UNCHANGED <<surfaced, content, slot, cache, rd>>

(* durability = commit: the meta page is in the mapping, its msync fails and the
   gate does not move.  The transaction is dropped; the page stays. *)
commit_MetaUnsynced ==
  /\ wpc = "open"
  /\ gtree' = wtree /\ gstamp' = wstamp /\ gfree' = freelist_plan(newest + 1) /\ ghw' = whw
  /\ Dropped
  /\ UNCHANGED <<newest, tree, stamp, free, hw, surfaced, content, slot, cache, rd>>

(* abort, and the Drop of an unfinished transaction: the pages it wrote stay as
   they are, nothing refers to them. *)
abort ==
  /\ wpc # "idle"
  /\ Dropped
  /\ UNCHANGED <<committed, content, slot, cache, rd>>

(* The process of the writer dies, and the next locker recovers: the gate moves
   to the newest meta page there is.  That is the ghost when there is one, unless
   the dead writer was writing its own meta page over it. *)
recover_after_owner_death ==
  /\ wpc # "idle"
  /\ \/ /\ ghw # 0
        /\ Publish(gtree, gstamp, gfree, ghw)
        /\ surfaced' = IF newest < surfaced THEN newest + 1 ELSE surfaced
     \/ /\ ghw = 0 \/ wpc = "open"
        /\ NoGhost
        /\ UNCHANGED <<newest, tree, stamp, free, hw, surfaced>>
  /\ Dropped
  /\ UNCHANGED <<content, slot, cache, rd>>

-----------------------------------------------------------------------------
(* Read transactions. *)

(* claim_slot: the CAS that marks the slot CLAIMING leaves the pin of its
   last owner in place; the owner then stores UNPINNED and goes live. *)
Claim(r, i) ==
  /\ rd[r].pc = "idle" /\ slot[i].word = "free"
  /\ slot' = [slot EXCEPT ![i] = [word |-> "claiming", txn |-> @.txn]]
  /\ rd' = [rd EXCEPT ![r] = [IdleReader EXCEPT !.pc = "init", !.slot = i]]
  /\ UNCHANGED <<committed, content, cache, writer>>

GoLive(r) ==
  /\ rd[r].pc = "init"
  /\ slot' = [slot EXCEPT ![rd[r].slot] = [word |-> "live", txn |-> UNPINNED]]
  /\ rd' = [rd EXCEPT ![r].pc = "meta"]
  /\ UNCHANGED <<committed, content, cache, writer>>

(* claim_and_pin: the candidate, its store into the slot, and the recheck. *)
ReadMeta(r) ==
  /\ rd[r].pc = "meta"
  /\ rd' = [rd EXCEPT ![r].pc = "store", ![r].meta = newest]
  /\ UNCHANGED <<committed, content, slot, cache, writer>>

(* Mutated form: the pin is trusted without the recheck. *)
StorePin_Unchecked(r) ==
  /\ rd[r].pc = "store"
  /\ slot' = [slot EXCEPT ![rd[r].slot] = [word |-> "live", txn |-> rd[r].meta]]
  /\ rd' = [rd EXCEPT ![r].pc = "pinned"]
  /\ UNCHANGED <<committed, content, cache, writer>>

StorePin(r) ==
  /\ rd[r].pc = "store"
  /\ slot' = [slot EXCEPT ![rd[r].slot] = [word |-> "live", txn |-> rd[r].meta]]
  /\ rd' = [rd EXCEPT ![r].pc = "recheck"]
  /\ UNCHANGED <<committed, content, cache, writer>>

RecheckBegin(r) ==
  /\ rd[r].pc = "recheck"
  /\ rd' = [rd EXCEPT ![r].pc = "answer", ![r].at = newest]
  /\ UNCHANGED <<committed, content, slot, cache, writer>>

(* newest_meta answers with a meta that was the newest at some instant of the
   call.  A pass that two commits overtook can instead answer with the one
   before the newest at its start: that page, in the slot read first (the
   even transactions), was read before the first of them replaced it, the
   newest one after the second replaced that (MetaPages, FreshUnlessStraddled). *)
Answers(r) ==
  {t \in Txn : rd[r].at <= t /\ t <= newest}
    \cup {t \in Txn : StraddledReads /\ t % 2 = 0 /\ t + 1 = rd[r].at /\ rd[r].at + 2 <= newest}

RecheckEnd(r) ==
  /\ rd[r].pc = "answer"
  /\ \E t \in Answers(r) :
       rd' = [rd EXCEPT ![r].pc = IF t = rd[r].meta THEN "pinned" ELSE "meta"]
  /\ UNCHANGED <<committed, content, slot, cache, writer>>

(* finish or Drop: the slot is free again, its txn word stays. *)
release_slot(r) ==
  /\ rd[r].pc = "pinned"
  /\ slot' = [slot EXCEPT ![rd[r].slot].word = "free"]
  /\ rd' = [rd EXCEPT ![r] = IdleReader]
  /\ UNCHANGED <<committed, content, cache, writer>>

ReaderDies(r) ==
  /\ rd[r].pc \notin {"idle", "dead"}
  /\ rd' = [rd EXCEPT ![r].pc = "dead"]
  /\ UNCHANGED <<committed, content, slot, cache, writer>>

(* sweep_dead_readers, on attach or on slot exhaustion (ReaderSlots opens it
   up): the slot of a process that is gone is freed. *)
Sweep(r) ==
  /\ rd[r].pc = "dead"
  /\ slot' = [slot EXCEPT ![rd[r].slot].word = "free"]
  /\ rd' = [rd EXCEPT ![r] = IdleReader]
  /\ UNCHANGED <<committed, content, cache, writer>>

-----------------------------------------------------------------------------
WriteTxn ==
  \/ make_write_txn \/ refill_reusable \/ ScanWord \/ ScanTxn \/ ScanDone \/ alloc
  \/ commit \/ commit_MetaUnsynced \/ abort \/ recover_after_owner_death
  \/ \E k \in Keys : Put(k) \/ Del(k)

ReadTxn(r) ==
  \/ \E i \in Slots : Claim(r, i)
  \/ GoLive(r) \/ ReadMeta(r) \/ StorePin(r) \/ RecheckBegin(r) \/ RecheckEnd(r)
  \/ release_slot(r) \/ ReaderDies(r) \/ Sweep(r)

Next == WriteTxn \/ \E r \in Readers : ReadTxn(r)

Spec == Init /\ [][Next]_vars

-----------------------------------------------------------------------------
SlotState == [word: {"free", "claiming", "live"}, txn: Txn \cup {UNPINNED}]
ReaderState ==
  [pc: {"idle", "init", "meta", "store", "recheck", "answer", "pinned", "dead"},
   slot: Nat, meta: Txn, at: Txn]
Map(S) == [Keys -> S]

TypeOK ==
  /\ newest \in Txn
  /\ tree \in [Txn -> Map(Pages \cup {NoPage})] /\ stamp \in [Txn -> Map(Attempts)]
  /\ free \in [Txn -> SUBSET Pages] /\ hw \in 1..(NPages + 1)
  /\ gtree \in Map(Pages \cup {NoPage}) /\ gstamp \in Map(Attempts)
  /\ gfree \in [Txn -> SUBSET Pages] /\ ghw \in 0..(NPages + 1)
  /\ surfaced \in 1..(MaxTxn + 1)
  /\ content \in [Pages -> Attempts]
  /\ slot \in [Slots -> SlotState] /\ cache \in Txn
  /\ wpc \in {"idle", "open", "refill", "scan_word", "scan_txn", "take"}
  /\ attempt \in Attempts
  /\ wtree \in Map(Pages \cup {NoPage}) /\ wstamp \in Map(Attempts)
  /\ dirty \subseteq Pages /\ reusable \subseteq Pages /\ freed \subseteq Pages
  /\ taken \subseteq Txn /\ cursor \in Txn
  /\ recomputed \in BOOLEAN /\ whw \in 1..(NPages + 1)
  /\ wkey \in Keys /\ draws \in Nat
  /\ scan \in 0..NSlots /\ occupied \in BOOLEAN /\ oldest \in Txn
  /\ rd \in [Readers -> ReaderState]

Intact(t) ==
  \A k \in Keys : tree[t][k] # NoPage => content[tree[t][k]] = stamp[t][k]

(* Snapshot isolation on the page level: while a reader holds its pin, every
   page of its snapshot holds what it held when the snapshot was committed,
   whatever writers began, reused, committed, failed, aborted or died meanwhile.
   The exception is a snapshot that descends from a ghost that surfaced. *)
SnapshotIntact ==
  \A r \in Readers : rd[r].pc = "pinned" /\ rd[r].meta < surfaced => Intact(rd[r].meta)

(* The newest committed state is never overwritten, also by a transaction
   that then aborts or dies ("COW means committed state was never touched"),
   until a ghost surfaces: later writers, who began below it, used its pages. *)
CommittedIntact == newest < surfaced => Intact(newest)

(* The cached bound is a permanently valid conservative bound: no confirmed
   pin is below it (DESIGN.md 4.3 on oldest_pinned). *)
CacheBelowPins == \A r \in Readers : rd[r].pc = "pinned" => cache <= rd[r].meta

(* verify_page_accounting, of every committed state: a page below high water
   is reachable or in exactly one freelist entry, never both, never neither. *)
PageAccounting ==
  LET reachable == {tree[newest][k] : k \in Keys} \ {NoPage}
      listed == UNION {free[t] : t \in Txn}
  IN /\ reachable \cap listed = {}
     /\ reachable \cup listed = 1..(hw - 1)
     /\ \A s, t \in Txn : s # t => free[s] \cap free[t] = {}
     /\ \A j, k \in Keys : j # k /\ tree[newest][j] # NoPage => tree[newest][j] # tree[newest][k]

=============================================================================
