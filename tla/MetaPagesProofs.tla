-------------------------- MODULE MetaPagesProofs --------------------------
(***************************************************************************)
(* Proofs about MetaPages, for every number of readers and every bound.    *)
(*                                                                         *)
(* The inductive invariant follows the lock holder: while it works, the    *)
(* page it started from validates and is the one the gate names, and the   *)
(* only page it touches is the other one.  A page whose transaction the    *)
(* gate admits is settled - also a torn one, which is what makes the       *)
(* lock-free body load safe - and so is every meta a reader took from it.  *)
(***************************************************************************)
EXTENDS MetaPages, TLAPS

Valid(s) == page[s].sum = page[s].id

(* A commit that is durable with its data, or one of the two exceptions a
   killed writer can leave behind. *)
Settled(i) == i \in durable \/ (deaths > 0 /\ i \in doubtful)

(* The lock is held exactly while a writer is between lock and unlock, and
   only a death leaves it dead or an orphan in the log. *)
LockInv ==
  /\ wpc # "idle" <=> lock = "held"
  /\ lock = "dead" \/ log = "orphan" => deaths > 0

(* The page a writing transaction started from is intact until its unlock. *)
BaseInv ==
  wpc \in {"write", "publish", "sum", "msync", "gate", "unlock"} =>
    /\ base \in Meta
    /\ Valid(base.slot) /\ page[base.slot].txn = base.txn
    /\ Gated /\ wpc # "unlock" => base.txn = gate

(* What write_meta_slot has put into the other page so far. *)
AltInv ==
  /\ wpc = "sum" => page[1 - base.slot].txn = base.txn + 1
  /\ wpc \in {"msync", "gate"} =>
       Valid(1 - base.slot) /\ page[1 - base.slot].txn = base.txn + 1
  /\ wpc = "publish" => durability = "wal" /\ Room /\ base.txn < MaxTxn
  /\ wpc = "msync" => durability = "commit"
  /\ wpc = "gate" => Gated
  /\ wpc = "msync" => page[1 - base.slot].id = attempt
  /\ wpc \in {"sum", "msync", "gate"} => base.txn < MaxTxn
  /\ wpc = "sum" => page[1 - base.slot].id = attempt

(* Which bodies are durable. *)
DurableInv ==
  /\ Gated => \A s \in Slot : page[s].txn <= gate => Settled(page[s].id)
  /\ durability = "wal" => \A s \in Slot : Settled(page[s].id)
  /\ wpc = "gate" => Settled(page[1 - base.slot].id)

(* What a reader loaded and has not thrown away. *)
ReaderInv ==
  /\ \A r \in Readers :
       rd[r].pc \in {"sumA", "bodyA", "sumB", "bodyB", "decide"} => rd[r].span <= attempt
  /\ Gated => \A r \in Readers :
       /\ rd[r].gate <= gate
       /\ \A m \in {rd[r].a, rd[r].b, rd[r].out} : m # NoMeta => Settled(m.id)
       /\ rd[r].pc \in {"store", "ok"} \/ rd[r].check => rd[r].out # NoMeta

IInv ==
  TypeOK /\ LockInv /\ GateHasPage /\ BaseInv /\ AltInv /\ DurableInv /\ ReaderInv

-----------------------------------------------------------------------------
(* What a slot read of a page at rest returns: nothing, or that page. *)
LEMMA SlotReadType ==
  ASSUME TypeOK, NEW s \in Slot
  PROVE  /\ SlotRead(s) \in Meta \cup {NoMeta}
         /\ NoMeta \notin Meta
         /\ Valid(s) <=> SlotRead(s) # NoMeta
         /\ Valid(s) => SlotRead(s) = [slot |-> s, txn |-> page[s].txn, id |-> page[s].id]
BY DEF TypeOK, SlotRead, Slot, Meta, NoMeta, Page, Valid, Txn, Id

(* Both pages read without a gate: the newer of the valid ones. *)
LEMMA NewestUngated ==
  ASSUME TypeOK, GateHasPage, NEW m, m = newest_meta_ungated
  PROVE  /\ m \in Meta /\ Valid(m.slot)
         /\ page[m.slot].txn = m.txn /\ page[m.slot].id = m.id
         /\ \A s \in Slot : Valid(s) => page[s].txn <= m.txn
<1>1. /\ SlotRead(0) \in Meta \cup {NoMeta} /\ SlotRead(1) \in Meta \cup {NoMeta}
      /\ \A s \in Slot : Valid(s) <=> SlotRead(s) # NoMeta
      /\ \A s \in Slot : Valid(s) =>
           SlotRead(s) = [slot |-> s, txn |-> page[s].txn, id |-> page[s].id]
  BY SlotReadType DEF Slot
<1>2. PICK s \in Slot : Valid(s)
  BY <1>1 DEF GateHasPage
<1>3. \A t \in Slot : page[t].txn \in Nat
  BY DEF TypeOK, Page, Txn
<1> QED
  BY <1>1, <1>2, <1>3 DEF newest_meta_ungated, Pick, Newer, Slot

(* Under the gate, the newest meta is the one the gate names. *)
LEMMA NewestGated ==
  ASSUME TypeOK, GateHasPage, Gated, NEW m, m = newest_meta_gated(gate)
  PROVE  /\ m \in Meta /\ Valid(m.slot) /\ m.txn = gate
         /\ page[m.slot].txn = m.txn /\ page[m.slot].id = m.id
<1>1. /\ SlotRead(0) \in Meta \cup {NoMeta} /\ SlotRead(1) \in Meta \cup {NoMeta}
      /\ \A s \in Slot : Valid(s) <=> SlotRead(s) # NoMeta
      /\ \A s \in Slot : Valid(s) =>
           SlotRead(s) = [slot |-> s, txn |-> page[s].txn, id |-> page[s].id]
  BY SlotReadType DEF Slot
<1>2. PICK s \in Slot : Valid(s) /\ page[s].txn = gate
  BY <1>1 DEF GateHasPage
<1>3. gate \in Nat /\ \A t \in Slot : page[t].txn \in Nat
  BY DEF TypeOK, Page, Txn
<1> QED
  BY <1>1, <1>2, <1>3 DEF newest_meta_gated, Filter, Pick, Newer, Slot

LEMMA NewestIsGate ==
  TypeOK /\ GateHasPage /\ Gated => newest_meta_gated(gate).txn = gate
BY NewestGated

(* What make_write_txn starts from. *)
LEMMA NewestBase ==
  ASSUME TypeOK, GateHasPage, NEW m, m = NewestUnderLock
  PROVE  /\ m \in Meta /\ Valid(m.slot) /\ page[m.slot].txn = m.txn
         /\ Gated => m.txn = gate
BY NewestGated, NewestUngated DEF NewestUnderLock

LEMMA InitIInv == Init => IInv
BY BoundAssumption
   DEF Init, IInv, TypeOK, Modes, Gated, LockInv, GateHasPage, BaseInv, AltInv, DurableInv, ReaderInv,
       Settled, Page, Meta, NoMeta, Txn, Id, Slot, IdleReader, Reader, SlotRead, Valid

(* Facts about the pieces of the state that the steps below use. *)
LEMMA Shape ==
  ASSUME IInv
  PROVE  /\ gate \in Nat /\ gate <= MaxTxn /\ attempt \in Nat /\ attempt <= MaxAttempts
         /\ \A s \in Slot : /\ page[s] \in Page /\ page[s].txn \in Nat
                            /\ page[s].id \in Nat
         /\ wpc \in {"write", "publish", "sum", "msync", "gate", "unlock"} =>
              /\ base.slot \in Slot /\ 1 - base.slot \in Slot /\ 1 - base.slot # base.slot
              /\ base.txn \in Nat /\ base.txn <= MaxTxn
         /\ MaxTxn \in Nat /\ MaxAttempts \in Nat
         /\ deaths \in Nat /\ (Room => attempt < MaxAttempts)
BY BoundAssumption DEF IInv, TypeOK, BaseInv, Meta, Page, Txn, Id, Slot, Room

(* What is settled stays so. *)
LEMMA SettledStays ==
  ASSUME durable \subseteq durable', doubtful \subseteq doubtful', deaths > 0 => deaths' > 0
  PROVE  \A i : Settled(i) => Settled(i)'
BY DEF Settled

(* GateHasPage with the page itself instead of what a read of it returns. *)
LEMMA PageForm ==
  TypeOK => (GateHasPage <=> \E s \in Slot : Valid(s) /\ (Gated => page[s].txn = gate))
BY SlotReadType DEF GateHasPage

(* Taking the lock, with the recovery a dead owner calls for. *)
LEMMA LockStep == IInv /\ writer_lock => IInv'
<1> SUFFICES ASSUME IInv, writer_lock PROVE IInv'
  OBVIOUS
<1> USE DEF writer_lock
<1> durability' = durability /\ (Gated' <=> Gated)
  BY DEF Gated
<1>m. newest_meta_ungated \in Meta /\ Valid(newest_meta_ungated.slot)
      /\ page[newest_meta_ungated.slot].txn = newest_meta_ungated.txn
      /\ page[newest_meta_ungated.slot].id = newest_meta_ungated.id
      /\ \A s \in Slot : Valid(s) => page[s].txn <= newest_meta_ungated.txn
  BY NewestUngated DEF IInv
<1>w. wpc = "idle" /\ wpc' = "begin" /\ lock' = "held"
  BY DEF IInv, LockInv, TypeOK
<1>g. /\ gate' \in Txn /\ gate <= gate'
      /\ durable \subseteq durable' /\ durable' \subseteq Id
      /\ doubtful' = doubtful /\ deaths' = deaths /\ page' = page /\ base' = base
  <2>1. CASE lock = "free"
    BY <2>1 DEF IInv, TypeOK, Txn
  <2>2. CASE lock = "dead"
    <3>1. ValidIds \subseteq Id
      BY DEF IInv, TypeOK, ValidIds, Page
    <3>2. newest_meta_ungated.txn \in Txn
      BY <1>m DEF Meta
    <3> QED
      BY <2>2, <3>1, <3>2 DEF recover_after_owner_death, MaxOf, IInv, TypeOK, Txn
  <2> QED
    BY <2>1, <2>2
<1>1. TypeOK'
  BY <1>g, <1>w DEF IInv, TypeOK
<1>s. \A i : Settled(i) => Settled(i)'
  BY <1>g, SettledStays
<1>2. LockInv' /\ BaseInv' /\ AltInv'
  BY <1>w DEF IInv, LockInv, BaseInv, AltInv
<1>3. GateHasPage'
  <2>1. PICK s \in Slot : Valid(s) /\ (Gated => page[s].txn = gate)
    BY PageForm DEF IInv
  <2>2. newest_meta_ungated.txn \in Nat /\ gate \in Nat
        /\ newest_meta_ungated.slot \in Slot
    BY <1>m DEF Meta, Txn, IInv, TypeOK
  <2>3. gate' = gate \/ gate' = newest_meta_ungated.txn
    BY DEF recover_after_owner_death, MaxOf
  <2>4. \E t \in Slot : Valid(t) /\ (Gated => page[t].txn = gate')
    BY <2>1, <2>2, <2>3, <1>m
  <2> QED
    BY <2>4, <1>1, SlotReadType DEF GateHasPage, SlotRead, Valid, NoMeta, Slot
<1>4. DurableInv'
  <2>1. CASE lock = "free"
    BY <2>1, <1>w, <1>g, <1>s DEF IInv, DurableInv
  <2>2. CASE lock = "dead"
    <3>1. ASSUME Gated, NEW s \in Slot, page[s].txn <= gate', ~(page[s].txn <= gate)
          PROVE  Settled(page[s].id)'
      <4>0. page[s].txn \in Nat /\ gate \in Nat /\ newest_meta_ungated.txn \in Nat
            /\ newest_meta_ungated.slot \in Slot
        BY <1>m, Shape DEF Meta, Txn
      <4>1. gate' = newest_meta_ungated.txn
        BY <2>2, <3>1, <4>0 DEF recover_after_owner_death, MaxOf
      <4>2. PICK t \in Slot : Valid(t) /\ page[t].txn = gate
        BY PageForm, <3>1 DEF IInv
      <4>3. newest_meta_ungated.slot = s
        BY <4>0, <4>1, <4>2, <3>1, <1>m DEF Slot
      <4>4. page[s].id \in ValidIds
        BY <4>3, <1>m, SlotReadType DEF IInv, ValidIds
      <4>5. CASE durability = "commit"
        <5>1. page[s].id \in durable' \/ page[s].id \in doubtful'
          BY <2>2, <4>4, <4>5, <1>g DEF recover_after_owner_death
        <5>2. deaths' > 0
          BY <2>2, <1>g DEF IInv, LockInv
        <5> QED
          BY <5>1, <5>2, <1>g DEF Settled
      <4>6. CASE durability = "wal"
        BY <1>g, <1>s, <4>6 DEF IInv, DurableInv
      <4> QED
        BY <4>5, <4>6, <3>1 DEF Gated
    <3> QED
      BY <3>1, <1>g, <1>w, <1>s DEF IInv, DurableInv
  <2> QED
    BY <2>1, <2>2
<1>5. ReaderInv'
  <2>1. \A r \in Readers : rd[r].gate \in Nat
    BY DEF IInv, TypeOK, Reader, Txn
  <2> QED
    BY <1>g, <1>s, <2>1, Shape DEF IInv, ReaderInv, Txn
<1> QED
  BY <1>1, <1>2, <1>3, <1>4, <1>5 DEF IInv

(* Steps that change neither a page, nor the gate, nor a reader. *)
LEMMA QuietStep ==
  IInv /\ (make_write_txn \/ abort \/ wal_commit \/ msync_meta \/ writer_unlock \/ WriterDies)
    => IInv'
<1> SUFFICES ASSUME IInv, make_write_txn \/ abort \/ wal_commit \/ msync_meta
                            \/ writer_unlock \/ WriterDies
             PROVE  IInv'
  OBVIOUS
<1> durability' = durability /\ (Gated' <=> Gated)
  BY DEF make_write_txn, abort, wal_commit, msync_meta, writer_unlock, WriterDies, Gated
<1>0. /\ page' = page /\ gate' = gate /\ rd' = rd /\ attempt' = attempt
      /\ durable \subseteq durable' /\ doubtful \subseteq doubtful'
      /\ deaths > 0 => deaths' > 0
  BY Shape DEF make_write_txn, abort, wal_commit, msync_meta, writer_unlock, WriterDies
<1>s. \A i : Settled(i) => Settled(i)'
  BY <1>0, SettledStays
<1>1. GateHasPage'
  BY <1>0 DEF IInv, GateHasPage, SlotRead
<1>2. ReaderInv'
  BY <1>0, <1>s DEF IInv, ReaderInv
<1>3. CASE make_write_txn
  <2>1. /\ NewestUnderLock \in Meta /\ Valid(NewestUnderLock.slot)
        /\ page[NewestUnderLock.slot].txn = NewestUnderLock.txn
        /\ Gated => NewestUnderLock.txn = gate
        /\ NewestUnderLock # NoMeta
    BY NewestBase DEF IInv, Meta, NoMeta, Slot
  <2>2. /\ wpc' = "write" /\ base' = NewestUnderLock /\ lock' = "held" /\ lock = "held"
        /\ durable' = durable /\ deaths' = deaths /\ log' = log
        /\ doubtful' = doubtful \cup {page[s].id : s \in {t \in Slot : page[t].txn > base'.txn}}
    BY <1>3, <2>1 DEF make_write_txn, IInv, LockInv
  <2>d. doubtful' \subseteq Id
    BY <2>2 DEF IInv, TypeOK, Page
  <2>3. TypeOK'
    BY <1>0, <1>3, <2>1, <2>2, <2>d DEF IInv, TypeOK, make_write_txn
  <2>4. LockInv' /\ BaseInv' /\ AltInv'
    BY <1>0, <2>1, <2>2 DEF IInv, LockInv, BaseInv, AltInv, Valid
  <2>5. DurableInv'
    BY <1>0, <1>s, <2>2 DEF IInv, DurableInv
  <2> QED
    BY <1>1, <1>2, <2>3, <2>4, <2>5 DEF IInv
<1>4. CASE abort \/ writer_unlock \/ WriterDies
  <2>0. NewestUnderLock.id \in Id
    BY NewestBase DEF IInv, Meta
  <2>1. /\ wpc' = "idle" /\ lock' \in {"free", "dead"} /\ base' = base /\ doubtful' = doubtful
        /\ durable' \subseteq Id /\ log' \in {"clean", "orphan"} /\ deaths' \in 0..MaxDeaths
        /\ lock' = "dead" \/ (log' = "orphan" /\ log # "orphan") => deaths' > 0
    <3>1. CASE abort
      BY <3>1 DEF abort, IInv, TypeOK
    <3>2. CASE writer_unlock
      BY <3>2, <2>0 DEF writer_unlock, IInv, TypeOK
    <3>3. CASE WriterDies
      BY <3>3, Shape, BoundAssumption DEF WriterDies, IInv, TypeOK
    <3> QED
      BY <1>4, <3>1, <3>2, <3>3
  <2>2. TypeOK'
    BY <1>0, <1>4, <2>1 DEF IInv, TypeOK
  <2>3. LockInv' /\ BaseInv' /\ AltInv'
    BY <1>0, <2>1 DEF IInv, LockInv, BaseInv, AltInv
  <2>4. DurableInv'
    BY <1>0, <1>s, <2>1 DEF IInv, DurableInv
  <2> QED
    BY <1>1, <1>2, <2>2, <2>3, <2>4 DEF IInv
<1>5. CASE wal_commit
  <2>1. TypeOK'
    BY <1>5 DEF wal_commit, IInv, TypeOK
  <2>2. LockInv' /\ BaseInv' /\ AltInv'
    BY <1>5 DEF wal_commit, IInv, LockInv, BaseInv, AltInv, Valid, Room
  <2>3. DurableInv'
    BY <1>5, <1>0, <1>s DEF wal_commit, IInv, DurableInv
  <2> QED
    BY <1>1, <1>2, <2>1, <2>2, <2>3 DEF IInv
<1>6. CASE msync_meta
  <2>1. TypeOK'
    BY <1>6, Shape, Zenon DEF msync_meta, IInv, TypeOK, Id
  <2>2. LockInv' /\ BaseInv' /\ AltInv'
    BY <1>6 DEF msync_meta, IInv, LockInv, BaseInv, AltInv, Valid, Gated
  <2>3. wpc' = "gate" => Settled(page[1 - base.slot].id)'
    BY <1>6 DEF msync_meta, IInv, AltInv, Settled
  <2>4. DurableInv'
    BY <1>6, <1>0, <1>s, <2>3 DEF msync_meta, IInv, DurableInv
  <2> QED
    BY <1>1, <1>2, <2>1, <2>2, <2>4 DEF IInv
<1> QED
  BY <1>3, <1>4, <1>5, <1>6

(* write_meta_slot: only the page the transaction did not start from moves. *)
LEMMA WriteMetaStep == IInv /\ (write_meta_body \/ write_meta_sum) => IInv'
<1> SUFFICES ASSUME IInv, write_meta_body \/ write_meta_sum PROVE IInv'
  OBVIOUS
<1> durability' = durability /\ (Gated' <=> Gated)
  BY DEF write_meta_body, write_meta_sum, Gated
<1>0. /\ base \in Meta /\ base.slot \in Slot /\ 1 - base.slot \in Slot
      /\ 1 - base.slot # base.slot
      /\ Valid(base.slot) /\ page[base.slot].txn = base.txn
      /\ Gated => base.txn = gate
      /\ page'[base.slot] = page[base.slot]
      /\ \A s \in Slot : s = base.slot \/ s = 1 - base.slot
      /\ gate' = gate /\ base' = base /\ rd' = rd /\ lock' = lock
      /\ deaths' = deaths /\ log' = log
      /\ durable \subseteq durable' /\ doubtful \subseteq doubtful'
  BY Shape DEF IInv, TypeOK, BaseInv, write_meta_body, write_meta_sum, Slot
<1>s. \A i : Settled(i) => Settled(i)'
  BY <1>0, SettledStays
<1>1. GateHasPage'
  <2>1. SlotRead(base.slot) # NoMeta
    BY <1>0, SlotReadType DEF IInv
  <2>2. SlotRead(base.slot)' # NoMeta
    BY <1>0, <2>1 DEF SlotRead
  <2> QED
    BY <1>0, <2>2 DEF GateHasPage
<1>2. CASE write_meta_body
  <2>1. page' = [page EXCEPT ![1 - base.slot] =
                     [page[1 - base.slot] EXCEPT !.txn = base.txn + 1, !.id = attempt + 1]]
        /\ attempt' = attempt + 1 /\ wpc' = "sum" /\ deaths' = deaths
        /\ base.txn < MaxTxn /\ Room /\ wpc # "idle"
        /\ ((wpc = "write" /\ durability # "wal") \/ wpc = "publish")
    BY <1>2 DEF write_meta_body
  <2>d. /\ durable' \subseteq Id /\ doubtful' \subseteq Id
        /\ \A i : durability = "wal" /\ i = attempt + 1 => Settled(i)'
    <3>1. attempt + 1 \in Id
      BY <2>1, Shape DEF Id
    <3>2. /\ durable' = IF wpc = "publish" /\ log = "clean" THEN durable \cup {attempt + 1} ELSE durable
          /\ doubtful' = IF wpc = "publish" /\ log = "orphan" THEN doubtful \cup {attempt + 1} ELSE doubtful
          /\ durability = "wal" => wpc = "publish"
      BY <1>2, Zenon DEF write_meta_body
    <3>3. /\ log \in {"clean", "orphan"} /\ durable \subseteq Id /\ doubtful \subseteq Id
          /\ log = "orphan" => deaths' > 0
      BY <1>0 DEF IInv, TypeOK, LockInv
    <3> QED
      BY <3>1, <3>2, <3>3 DEF Settled
  <2>p. /\ page'[1 - base.slot].txn = base.txn + 1 /\ page'[1 - base.slot].id = attempt + 1
        /\ page'[1 - base.slot] \in Page
    <3>1. page[1 - base.slot] \in Page /\ base.txn + 1 \in Txn /\ attempt + 1 \in Id
      BY <2>1, <1>0, Shape DEF Txn, Id
    <3>2. page'[1 - base.slot] =
            [page[1 - base.slot] EXCEPT !.txn = base.txn + 1, !.id = attempt + 1]
      BY <2>1, <1>0, Zenon DEF IInv, TypeOK
    <3> QED
      BY <3>1, <3>2, Zenon DEF Page
  <2>2. TypeOK'
    <3>1. page' \in [Slot -> Page]
      BY <2>1, <2>p, <1>0, Zenon DEF IInv, TypeOK
    <3> QED
      BY <3>1, <2>1, <2>d, <1>0, Shape DEF IInv, TypeOK, Id
  <2>3. LockInv' /\ BaseInv' /\ AltInv'
    BY <2>1, <2>p, <1>0 DEF IInv, LockInv, BaseInv, AltInv, Valid
  <2>4. DurableInv'
    <3>1. \A s \in Slot : s # base.slot => page'[s].id = attempt + 1 /\ page'[s].txn = base.txn + 1
      BY <2>p, <1>0
    <3>2. gate \in Nat /\ base.txn \in Nat
      BY Shape, <1>0 DEF Meta, Txn
    <3>3. ASSUME Gated, NEW s \in Slot, page'[s].txn <= gate' PROVE Settled(page[s].id)'
      BY <3>1, <3>2, <3>3, <1>0, <1>s DEF IInv, DurableInv
    <3>4. ASSUME durability = "wal", NEW s \in Slot PROVE Settled(page[s].id)'
      <4>1. CASE s = base.slot
        BY <4>1, <3>4, <1>0, <1>s DEF IInv, DurableInv
      <4>2. CASE s # base.slot
        BY <4>2, <3>1, <3>4, <2>d
      <4> QED
        BY <4>1, <4>2
    <3> QED
      BY <3>3, <3>4, <2>1 DEF DurableInv
  <2>5. ReaderInv'
    <3>1. \A r \in Readers : rd[r].span \in Nat /\ attempt \in Nat
      BY Shape DEF IInv, TypeOK, Reader, Id
    <3>2. \A r \in Readers : rd[r].span <= attempt => rd[r].span <= attempt'
      BY <3>1, <2>1
    <3> QED
      BY <3>2, <1>0, <1>s DEF IInv, ReaderInv
  <2> QED
    BY <1>1, <2>2, <2>3, <2>4, <2>5 DEF IInv
<1>3. CASE write_meta_sum
  <2>1. page' = [page EXCEPT ![1 - base.slot].sum = page[1 - base.slot].id]
        /\ attempt' = attempt /\ wpc = "sum" /\ durable' = durable /\ doubtful' = doubtful
        /\ wpc' = (IF durability = "commit" THEN "msync"
                    ELSE IF durability = "wal" THEN "gate" ELSE "unlock")
    BY <1>3 DEF write_meta_sum
  <2>p. /\ page'[1 - base.slot].txn = page[1 - base.slot].txn
        /\ page'[1 - base.slot].id = page[1 - base.slot].id
        /\ page'[1 - base.slot].sum = page[1 - base.slot].id
        /\ page'[1 - base.slot] \in Page
    BY <2>1, <1>0, Shape DEF IInv, TypeOK, Page
  <2>2. TypeOK'
    <3>1. page' \in [Slot -> Page]
      BY <2>1, <2>p, <1>0 DEF IInv, TypeOK
    <3> QED
      BY <3>1, <2>1, <1>0 DEF IInv, TypeOK
  <2>3. LockInv' /\ BaseInv' /\ AltInv'
    BY <2>1, <2>p, <1>0 DEF IInv, LockInv, BaseInv, AltInv, Valid, Gated
  <2>4. DurableInv'
    <3>1. \A s \in Slot : page'[s].txn = page[s].txn /\ page'[s].id = page[s].id
      BY <2>p, <1>0
    <3>2. wpc' = "gate" => durability = "wal"
      BY <2>1
    <3> QED
      BY <3>1, <3>2, <1>0, <1>s DEF IInv, DurableInv
  <2>5. ReaderInv'
    BY <2>1, <1>0, <1>s DEF IInv, ReaderInv
  <2> QED
    BY <1>1, <2>2, <2>3, <2>4, <2>5 DEF IInv
<1> QED
  BY <1>2, <1>3

(* The gate moves to the page just published. *)
LEMMA GateStep == IInv /\ advance_gate => IInv'
<1> SUFFICES ASSUME IInv, advance_gate PROVE IInv'
  OBVIOUS
<1> durability' = durability /\ (Gated' <=> Gated)
  BY DEF advance_gate, Gated
<1>0. /\ base \in Meta /\ base.slot \in Slot /\ 1 - base.slot \in Slot
      /\ \A s \in Slot : s = base.slot \/ s = 1 - base.slot
      /\ Valid(base.slot) /\ page[base.slot].txn = base.txn /\ base.txn = gate
      /\ Valid(1 - base.slot) /\ page[1 - base.slot].txn = base.txn + 1
      /\ Settled(page[1 - base.slot].id)
      /\ Gated /\ base.txn < MaxTxn
      /\ wpc = "gate" /\ wpc' = "unlock"
  BY Shape DEF IInv, BaseInv, AltInv, DurableInv, advance_gate, Slot
<1>1. gate' = gate + 1 /\ gate \in Nat /\ gate' \in Txn
  BY <1>0, Shape DEF advance_gate, MaxOf, Txn
<1>2. TypeOK'
  BY <1>0, <1>1 DEF IInv, TypeOK, advance_gate
<1>3. GateHasPage'
  <2>1. SlotRead(1 - base.slot) # NoMeta
    BY <1>0, SlotReadType DEF IInv
  <2> QED
    BY <1>0, <1>1, <2>1 DEF GateHasPage, SlotRead, advance_gate
<1>4. LockInv' /\ BaseInv' /\ AltInv'
  BY <1>0, <1>1 DEF IInv, LockInv, BaseInv, AltInv, advance_gate, Valid
<1>s. \A i : Settled(i)' <=> Settled(i)
  BY DEF Settled, advance_gate
<1>5. DurableInv'
  BY <1>0, <1>1, <1>s DEF IInv, DurableInv, advance_gate
<1>6. ReaderInv'
  BY <1>1, <1>s DEF IInv, TypeOK, ReaderInv, Reader, Txn, advance_gate
<1> QED
  BY <1>2, <1>3, <1>4, <1>5, <1>6 DEF IInv

(* ReaderInv for one reader record, so that a step of one reader needs no
   argument about the others. *)
ReaderGood(x) ==
  /\ x \in Reader
  /\ x.pc \in {"sumA", "bodyA", "sumB", "bodyB", "decide"} => x.span <= attempt
  /\ Gated => /\ x.gate <= gate
              /\ x.a # NoMeta => Settled(x.a.id)
              /\ x.b # NoMeta => Settled(x.b.id)
              /\ x.out # NoMeta => Settled(x.out.id)
              /\ x.pc \in {"store", "ok"} \/ x.check => x.out # NoMeta

(* A step that leaves the writer's state alone and one reader good keeps IInv. *)
LEMMA OneReader ==
  ASSUME IInv, UNCHANGED WriterVars, NEW r \in Readers, NEW x,
         rd' = [rd EXCEPT ![r] = x], ReaderGood(x)
  PROVE  IInv'
<1> durability' = durability /\ (Gated' <=> Gated)
  BY DEF WriterVars, Gated
<1>s. \A i : Settled(i)' <=> Settled(i)
  BY DEF Settled, WriterVars
<1>1. TypeOK'
  BY DEF IInv, TypeOK, WriterVars, ReaderGood
<1>2. LockInv' /\ BaseInv' /\ AltInv' /\ DurableInv' /\ GateHasPage'
  BY <1>s DEF IInv, WriterVars, LockInv, BaseInv, AltInv, DurableInv, GateHasPage, Valid, SlotRead, Room
<1>3. ReaderInv'
  BY <1>s DEF IInv, TypeOK, WriterVars, ReaderInv, ReaderGood
<1> QED
  BY <1>1, <1>2, <1>3 DEF IInv

(* One load or decision of newest_meta or claim_and_pin. *)
LEMMA ReaderStep == ASSUME IInv, NEW r \in Readers, newest_meta(r) PROVE IInv'
<1>0. /\ UNCHANGED WriterVars
      /\ rd[r] \in Reader /\ ReaderGood(rd[r])
  BY Zenon DEF IInv, TypeOK, ReaderInv, ReaderGood, newest_meta, Call, LoadGate, LoadSum, LoadBody,
         Decide, StorePin, Return
<1>f. NewestUnderLock.txn \in Txn
  BY NewestBase DEF IInv, Meta
<1>i. ReaderGood(IdleReader)
  BY BoundAssumption, Shape DEF ReaderGood, IdleReader, Reader, NoMeta, Txn, Id
<1>1. ASSUME NEW op \in {"newest", "pin"}, Call(r, op) PROVE IInv'
  <2> DEFINE x == [IdleReader EXCEPT !.op = op, !.pc = "gate", !.floor = NewestUnderLock.txn]
  <2>1. ReaderGood(x)
    BY <1>i, <1>f, Zenon DEF ReaderGood, Reader, IdleReader
  <2> QED
    BY <1>0, <1>1, <2>1, OneReader, Zenon DEF Call
<1>2. CASE LoadGate(r)
  <2> DEFINE x == [rd[r] EXCEPT !.pc = "sumA", !.gate = IF Gated THEN gate ELSE MaxTxn,
                                !.span = attempt,
                                !.from = IF rd[r].pass = 0 THEN attempt ELSE rd[r].from]
  <2>1. gate \in Txn /\ MaxTxn \in Txn /\ attempt \in Id /\ gate <= gate /\ attempt <= attempt
        /\ rd[r].from \in Id
    BY <1>0, Shape DEF Txn, Id, Reader
  <2>2. ReaderGood(x)
    BY <1>0, <2>1, <1>2, Zenon DEF ReaderGood, Reader, LoadGate
  <2>3. rd' = [rd EXCEPT ![r] = x]
    BY <1>2, Zenon DEF LoadGate, IInv, TypeOK
  <2> QED
    BY <1>0, <2>2, <2>3, OneReader, Zenon
<1>3. ASSUME NEW s \in Slot, LoadSum(r, s) PROVE IInv'
  <2> DEFINE x == [rd[r] EXCEPT !.pc = IF s = 0 THEN "bodyA" ELSE "bodyB", !.sum = page[s].sum]
  <2>1. page[s].sum \in Id
    BY DEF IInv, TypeOK, Page
  <2>2. ReaderGood(x)
    BY <1>0, <1>3, <2>1, Zenon DEF ReaderGood, Reader, LoadSum
  <2>3. rd' = [rd EXCEPT ![r] = x]
    BY <1>3, Zenon DEF LoadSum
  <2> QED
    BY <1>0, <2>2, <2>3, OneReader, Zenon
<1>4. ASSUME NEW s \in Slot, LoadBody(r, s) PROVE IInv'
  <2> DEFINE m == IF rd[r].sum = page[s].id
                    THEN [slot |-> s, txn |-> page[s].txn, id |-> page[s].id]
                    ELSE NoMeta
             f == Filter(m, rd[r].gate)
             x == [rd[r] EXCEPT !.pc = IF s = 0 THEN "sumB" ELSE "decide", !.sum = 0,
                                !.a = IF s = 0 THEN f ELSE rd[r].a,
                                !.b = IF s = 0 THEN rd[r].b ELSE f]
  <2>1. f \in Meta \cup {NoMeta} /\ (Gated /\ f # NoMeta => Settled(f.id))
    <3>1. m \in Meta \cup {NoMeta}
      BY DEF IInv, TypeOK, Page, Meta
    <3>2. f = NoMeta \/ (f = [slot |-> s, txn |-> page[s].txn, id |-> page[s].id]
                          /\ page[s].txn <= rd[r].gate)
      BY DEF Filter
    <3>3. page[s].txn \in Nat /\ gate \in Nat /\ rd[r].gate \in Nat
      BY <1>0, Shape DEF Reader, Txn
    <3>4. Gated /\ page[s].txn <= rd[r].gate => Settled(page[s].id)
      BY <1>0, <3>3 DEF IInv, DurableInv, ReaderGood
    <3> QED
      BY <3>1, <3>2, <3>4 DEF Filter
  <2>2. ReaderGood(x)
    <3> HIDE DEF f
    <3>z. 0 \in Id
      BY BoundAssumption DEF Id
    <3>0. rd[r].pc = (IF s = 0 THEN "bodyA" ELSE "bodyB")
      BY <1>4 DEF LoadBody
    <3>1. CASE s = 0
      <4>1. x = [rd[r] EXCEPT !.pc = "sumB", !.sum = 0, !.a = f]
        BY <3>1, <1>0, Zenon DEF Reader
      <4> HIDE DEF x
      <4> QED
        BY <3>z, <3>0, <3>1, <4>1, <1>0, <2>1, Zenon DEF ReaderGood, Reader
    <3>2. CASE s # 0
      <4>1. x = [rd[r] EXCEPT !.pc = "decide", !.sum = 0, !.b = f]
        BY <3>2, <1>0, Zenon DEF Reader
      <4> HIDE DEF x
      <4> QED
        BY <3>z, <3>0, <3>2, <4>1, <1>0, <2>1, Zenon DEF ReaderGood, Reader
    <3> QED
      BY <3>1, <3>2
  <2>3. rd' = [rd EXCEPT ![r] = x]
    BY <1>4, Zenon DEF LoadBody
  <2> QED
    BY <1>0, <2>2, <2>3, OneReader, Zenon
<1>5. CASE Decide(r)
  <2> DEFINE m == Pick(rd[r].a, rd[r].b)
             y == IF m = NoMeta THEN Failed(r) ELSE Found(r, m)
             x == [y EXCEPT !.a = NoMeta, !.b = NoMeta, !.span = attempt - rd[r].span]
  <2>1. m \in Meta \cup {NoMeta} /\ (Gated /\ m # NoMeta => Settled(m.id))
    BY <1>0 DEF Pick, Newer, ReaderGood, Reader
  <2>2. attempt - rd[r].span \in Id
    BY <1>0, <1>5, Shape DEF ReaderGood, Reader, Decide, Id
  <2>3. /\ y \in Reader /\ y.pc \in {"gate", "store", "ok", "corrupt"}
        /\ y.gate = rd[r].gate
        /\ y.out = rd[r].out \/ (m # NoMeta /\ y.out = m)
        /\ y.pc \in {"store", "ok"} \/ y.check =>
             (m # NoMeta /\ y.out = m) \/ (rd[r].check /\ y.out = rd[r].out)
    <3> HIDE DEF m
    <3>1. CASE m = NoMeta
      <4>1. y = Failed(r)
        BY <3>1
      <4>2. <<rd[r].gate>> \in Seq(Nat)
        <5>1. rd[r].gate \in Nat
          BY <1>0, BoundAssumption DEF Reader, Txn
        <5> QED
          BY <5>1
      <4>3. Words \in Seq(Nat)
        BY DEF Words, IInv, TypeOK, Page, Slot, Txn, Id
      <4>4. rd[r].pass + 1 # Retries => rd[r].pass + 1 \in 0..(Retries - 1)
        BY <1>0, BoundAssumption DEF Reader
      <4> DEFINE sn == IF Gated THEN <<rd[r].gate>> ELSE Words
      <4>5. sn \in Seq(Nat)
        BY <4>2, <4>3
      <4>6. \/ y = [rd[r] EXCEPT !.pc = "corrupt"]
            \/ /\ rd[r].pass + 1 # Retries
               /\ y = [rd[r] EXCEPT !.pc = "gate", !.pass = rd[r].pass + 1, !.seen = sn]
        BY <4>1, <1>0 DEF Failed, Reader
      <4> HIDE DEF sn, y
      <4>7. CASE y = [rd[r] EXCEPT !.pc = "corrupt"]
        BY <4>7, <3>1, <1>0 DEF Reader
      <4>8. CASE /\ rd[r].pass + 1 # Retries
                 /\ y = [rd[r] EXCEPT !.pc = "gate", !.pass = rd[r].pass + 1, !.seen = sn]
        BY <4>8, <4>4, <4>5, <3>1, <1>0, Zenon DEF Reader
      <4> QED
        BY <4>6, <4>7, <4>8
    <3>2. CASE m # NoMeta
      <4>1. \/ y = [rd[r] EXCEPT !.pc = "ok", !.out = m]
            \/ y = [rd[r] EXCEPT !.pass = 0, !.seen = <<>>, !.pc = "store", !.out = m]
            \/ rd[r].check /\ y = [rd[r] EXCEPT !.pc = "ok"]
            \/ y = [rd[r] EXCEPT !.pass = 0, !.seen = <<>>, !.pc = "gate", !.check = FALSE]
        BY <3>2, <1>0 DEF Found, Reader
      <4>2. <<>> \in Seq(Nat) /\ 0 \in 0..(Retries - 1)
        BY BoundAssumption
      <4> HIDE DEF y
      <4>3. CASE y = [rd[r] EXCEPT !.pc = "ok", !.out = m]
        BY <4>3, <3>2, <2>1, <1>0, Zenon DEF Reader
      <4>4. CASE y = [rd[r] EXCEPT !.pass = 0, !.seen = <<>>, !.pc = "store", !.out = m]
        BY <4>4, <4>2, <3>2, <2>1, <1>0, Zenon DEF Reader
      <4>5. CASE rd[r].check /\ y = [rd[r] EXCEPT !.pc = "ok"]
        BY <4>5, <1>0 DEF Reader
      <4>6. CASE y = [rd[r] EXCEPT !.pass = 0, !.seen = <<>>, !.pc = "gate", !.check = FALSE]
        BY <4>6, <4>2, <1>0, Zenon DEF Reader
      <4> QED
        BY <4>1, <4>3, <4>4, <4>5, <4>6
    <3> QED
      BY <3>1, <3>2
  <2>4. ReaderGood(x)
    <3> HIDE DEF y, m
    <3>1. x \in Reader /\ x.pc = y.pc /\ x.gate = y.gate /\ x.a = NoMeta /\ x.b = NoMeta
          /\ x.out = y.out /\ x.check = y.check
      BY <2>2, <2>3 DEF Reader
    <3> QED
      BY <1>0, <2>1, <2>3, <3>1 DEF ReaderGood
  <2>5. rd' = [rd EXCEPT ![r] = x]
    BY <1>5 DEF Decide
  <2> QED
    BY <1>0, <2>4, <2>5, OneReader, Zenon
<1>6. CASE StorePin(r)
  <2> DEFINE x == [rd[r] EXCEPT !.pc = "gate", !.check = TRUE, !.floor = NewestUnderLock.txn]
  <2>1. ReaderGood(x)
    BY <1>0, <1>6, <1>f, Zenon DEF ReaderGood, Reader, StorePin
  <2>2. rd' = [rd EXCEPT ![r] = x]
    BY <1>6, Zenon DEF StorePin
  <2> QED
    BY <1>0, <2>1, <2>2, OneReader, Zenon
<1>7. CASE Return(r)
  BY <1>0, <1>7, <1>i, OneReader, Zenon DEF Return
<1> QED
  BY <1>1, <1>2, <1>3, <1>4, <1>5, <1>6, <1>7 DEF newest_meta

(* A call of newest_meta stores nothing the writer sees. *)
LEMMA ReaderLeavesWriter ==
  ASSUME NEW r \in Readers, newest_meta(r)
  PROVE  UNCHANGED WriterVars
BY Zenon DEF newest_meta, Call, LoadGate, LoadSum, LoadBody, Decide, StorePin, Return

(* The invariant is inductive and holds always. *)
THEOREM Inductive == Spec => []IInv
<1>1. IInv /\ [Next]_vars => IInv'
  <2> SUFFICES ASSUME IInv, [Next]_vars PROVE IInv'
    OBVIOUS
  <2>1. CASE Writer
    BY <2>1, LockStep, QuietStep, WriteMetaStep, GateStep DEF Writer
  <2>2. CASE \E r \in Readers : newest_meta(r)
    BY <2>2, ReaderStep
  <2>3. CASE UNCHANGED vars
    <3>1. TypeOK' /\ LockInv' /\ GateHasPage'
      BY <2>3 DEF vars, IInv, TypeOK, LockInv, GateHasPage, Valid, SlotRead, Gated
    <3>2. BaseInv' /\ AltInv'
      BY <2>3 DEF vars, IInv, BaseInv, AltInv, Valid, Room, Gated
    <3>3. DurableInv' /\ ReaderInv'
      BY <2>3 DEF vars, IInv, DurableInv, ReaderInv, Settled, Gated
    <3> QED
      BY <3>1, <3>2, <3>3 DEF IInv
  <2> QED
    BY <2>1, <2>2, <2>3 DEF Next
<1> QED
  BY <1>1, InitIInv, PTL DEF Spec

(* Every variable keeps its type. *)
THEOREM TypeCorrect == Spec => []TypeOK
BY Inductive, PTL DEF IInv

(* Shadow paging: one meta page always validates and is the one the durable
   gate names, whatever step of commit_inner the writer died in. *)
THEOREM PageSurvives == Spec => []GateHasPage
BY Inductive, PTL DEF IInv

(* The durable gate: what newest_meta and claim_and_pin return is durable with
   its data, unless a writer was killed with the lock held and the commit is one
   that reported a failed msync and lost its pages, or one logged behind the
   killed writer's record. *)
THEOREM OnlyDurableVisible == Spec => []DurableBeforeVisible
<1>1. IInv => DurableBeforeVisible
  BY DEF IInv, ReaderInv, DurableBeforeVisible, Settled
<1> QED
  BY <1>1, Inductive, PTL

(* No step takes a visible commit back: not an abort, a failed msync of the
   meta page, a writer's death, or the recovery after it. *)
THEOREM VisibleNeverBack == Spec => VisibleMonotone
<1>1. IInv /\ IInv' /\ [Next]_vars =>
        [Gated => newest_meta_gated(gate)'.txn >= newest_meta_gated(gate).txn]_vars
  <2> SUFFICES ASSUME IInv, IInv', Next, Gated
               PROVE  newest_meta_gated(gate)'.txn >= newest_meta_gated(gate).txn
    BY DEF vars
  <2>1. newest_meta_gated(gate).txn = gate
    BY NewestGated DEF IInv
  <2>2. newest_meta_gated(gate)'.txn = gate'
    <3>1. (TypeOK /\ GateHasPage /\ Gated => newest_meta_gated(gate).txn = gate)'
      BY NewestIsGate, PTL
    <3>2. durability' = durability
      <4>1. CASE Writer
        BY <4>1 DEF Writer, writer_lock, make_write_txn, abort, wal_commit, write_meta_body,
                    write_meta_sum, msync_meta, advance_gate, writer_unlock, WriterDies
      <4>2. CASE \E r \in Readers : newest_meta(r)
        BY <4>2, ReaderLeavesWriter DEF WriterVars
      <4> QED
        BY <4>1, <4>2 DEF Next
    <3> QED
      BY <3>1, <3>2 DEF IInv, Gated
  <2>3. gate' >= gate
    <3>1. gate \in Nat /\ gate' \in Nat
      BY BoundAssumption DEF IInv, TypeOK, Txn
    <3>2. gate' = gate \/ gate' = MaxOf(gate, newest_meta_ungated.txn)
          \/ (gate' = MaxOf(gate, base.txn + 1) /\ wpc = "gate")
      <4>1. CASE Writer
        BY <4>1 DEF Writer, writer_lock, recover_after_owner_death, make_write_txn, abort,
                    wal_commit, write_meta_body, write_meta_sum, msync_meta, advance_gate,
                    writer_unlock, WriterDies
      <4>2. CASE \E r \in Readers : newest_meta(r)
        BY <4>2, ReaderLeavesWriter DEF WriterVars
      <4> QED
        BY <4>1, <4>2 DEF Next
    <3>3. newest_meta_ungated.txn \in Nat
      BY NewestUngated DEF IInv, Meta, Txn
    <3>4. wpc = "gate" => base.txn + 1 \in Nat
      BY Shape
    <3> QED
      BY <3>1, <3>2, <3>3, <3>4 DEF MaxOf
  <2> QED
    BY <2>1, <2>2, <2>3
<1> QED
  BY <1>1, Inductive, PTL DEF Spec, VisibleMonotone

=============================================================================
