----------------------------- MODULE MvccProofs -----------------------------
(***************************************************************************)
(* The theorems about Mvcc: commit, failed or not, abort and the recovery  *)
(* after a death preserve the invariant, so it is inductive (with          *)
(* MvccInvariant and MvccPool), and it implies the properties the runs     *)
(* check.                                                                  *)
(***************************************************************************)
EXTENDS MvccPool

(* The end of a transaction leaves no working state. *)
LEMMA DroppedType ==
  ASSUME IInv, Dropped
  PROVE  /\ wpc' = "idle" /\ attempt' \in Attempts
         /\ wtree' \in Map(Pages \cup {NoPage}) /\ wstamp' \in Map(Attempts)
         /\ dirty' \subseteq Pages /\ reusable' \subseteq Pages /\ freed' \subseteq Pages
         /\ taken' \subseteq Txn /\ cursor' \in Txn
         /\ recomputed' \in BOOLEAN /\ whw' \in 1..(NPages + 1)
         /\ wkey' \in Keys /\ draws' \in Nat
         /\ scan' \in 0..NSlots /\ occupied' \in BOOLEAN /\ oldest' \in Txn
         /\ TxnInv' /\ IdleInv' /\ ScanInv'
<1>1. wtree' \in Map(Pages \cup {NoPage}) /\ wstamp' \in Map(Attempts)
  BY SizeAssumption DEF Dropped, Map, Attempts
<1>2. cursor' \in Txn /\ oldest' \in Txn /\ whw' \in 1..(NPages + 1) /\ scan' \in 0..NSlots
      /\ draws' \in Nat
  BY SizeAssumption DEF Dropped, Txn
<1>3. recomputed' \in BOOLEAN /\ occupied' \in BOOLEAN
  BY Zenon DEF Dropped
<1>4. attempt' \in Attempts /\ wkey' \in Keys
  BY DEF Dropped, IInv, TypeOK
<1>5. dirty' \subseteq Pages /\ reusable' \subseteq Pages /\ freed' \subseteq Pages
      /\ taken' \subseteq Txn /\ wpc' = "idle"
  BY DEF Dropped
<1>6. TxnInv' /\ IdleInv' /\ ScanInv'
  BY DEF Dropped, TxnInv, IdleInv, ScanInv
<1> QED
  BY <1>1, <1>2, <1>3, <1>4, <1>5, <1>6

LEMMA AbortStep ==
  ASSUME IInv, abort PROVE IInv'
<1>1. Dropped /\ UNCHANGED <<committed, content, slot, cache, rd>>
  BY DEF abort
<1>2. TableInv' /\ FreeInv' /\ AccountInv' /\ GhostInv' /\ PinInv' /\ SnapInv'
  BY <1>1, WriterFrame, CacheFrame, ContentFrame
<1>3. TypeOK'
  BY <1>1, DroppedType, Zenon DEF IInv, TypeOK, committed
<1> QED
  BY <1>1, <1>2, <1>3, DroppedType DEF IInv

LEMMA NoGhostType ==
  ASSUME NoGhost
  PROVE  /\ gtree' \in Map(Pages \cup {NoPage}) /\ gstamp' \in Map(Attempts)
         /\ gfree' \in [Txn -> SUBSET Pages] /\ ghw' \in 0..(NPages + 1)
BY SizeAssumption DEF NoGhost, Map, Attempts

(* What freelist_plan lists can follow the newest commit. *)
LEMMA PlanFollows ==
  ASSUME IInv, wpc = "open"
  PROVE  /\ Follows(wtree, freelist_plan(newest + 1), whw)
         /\ freelist_plan(newest + 1) \in [Txn -> SUBSET Pages]
<1> DEFINE n == newest + 1
           F == freelist_plan(n)
<1>2. PoolInv /\ WorkInv /\ CoverInv
  BY DEF IInv, TxnInv
<1>3. n \in Txn /\ n \in Nat /\ newest \in Nat /\ newest \in Txn /\ newest < n
      /\ hw \in Nat /\ whw \in Nat /\ hw <= whw /\ cache \in Nat /\ cache <= newest
  BY <1>2, Numbers, AtBound DEF PoolInv, Txn
<1>5. /\ F[n] = freed \cup (reusable \ UNION {free[g] : g \in taken})
      /\ \A f \in taken : f # n => F[f] = free[f] \cap reusable
      /\ \A f \in Txn : f # n /\ f \notin taken => F[f] = free[f]
      /\ taken \subseteq Txn /\ F = [f \in Txn |-> F[f]]
  BY <1>3 DEF IInv, TypeOK, freelist_plan
<1> HIDE DEF F
<1>6. free[n] = {} /\ n \notin taken
  <2>1. free[n] = {}
    BY <1>3 DEF IInv, FreeInv
  <2>2. ASSUME n \in taken PROVE FALSE
    <3>1. n <= cache
      BY <1>2, <2>2 DEF PoolInv
    <3> QED
      BY <1>3, <3>1
  <2> QED
    BY <2>1, <2>2
<1>7. \A f \in Txn \ {n} : F[f] \subseteq free[f]
  BY <1>5
<1>8. \A p \in F[n] : /\ p \in freed \/ (p \in reusable /\ Fresh(p))
                      /\ \A f \in Txn : p \notin free[f]
  <2> SUFFICES ASSUME NEW p \in F[n]
               PROVE  /\ p \in freed \/ (p \in reusable /\ Fresh(p))
                      /\ \A f \in Txn : p \notin free[f]
    OBVIOUS
  <2>1. CASE p \in freed
    <3>1. PICK k \in Keys : tree[newest][k] = p
      BY <1>2, <2>1 DEF PoolInv
    <3>2. \A f \in Txn : free[f] # {} => f <= newest
      BY DEF IInv, FreeInv
    <3>3. \A f \in Txn : p \notin free[f]
      BY <3>1, <3>2, AtBound DEF IInv, FreeInv
    <3> QED
      BY <2>1, <3>3
  <2>2. CASE p \in reusable /\ \A g \in taken : p \notin free[g]
    <3>1. Fresh(p)
      BY <1>2, <2>2 DEF PoolInv, Drawn
    <3>2. hw <= p
      BY <3>1 DEF Fresh
    <3>3. \A f \in Txn \ taken : p \notin free[f]
      BY <3>2, OwnPageNotBase
    <3> QED
      BY <2>2, <3>1, <3>3
  <2> QED
    BY <1>5, <2>1, <2>2
<1>9. F \in [Txn -> SUBSET Pages]
  <2>1. ASSUME NEW f \in Txn PROVE F[f] \subseteq Pages
    <3>1. CASE f = n
      BY <1>5, <3>1, PoolTypes
    <3>2. CASE f # n
      BY <1>5, <3>2, PoolTypes
    <3> QED
      BY <3>1, <3>2
  <2> QED
    BY <1>5, <2>1
<1>10. \A f \in Txn : f <= newest => f # n
  BY <1>3
<1>11. \A f \in Txn : F[f] # {} => f <= n
  <2> SUFFICES ASSUME NEW f \in Txn, f # n, free[f] # {} PROVE f <= n
    BY <1>3, <1>7
  <2>1. f <= newest /\ f \in Nat
    BY DEF IInv, FreeInv, Txn
  <2> QED
    BY <1>3, <2>1
<1> HIDE DEF n
<1>12. \A k \in Keys : \A f \in Txn : wtree[k] \notin F[f]
  <2> SUFFICES ASSUME NEW k \in Keys, NEW f \in Txn, wtree[k] \in F[f] PROVE FALSE
    OBVIOUS
  <2>0. wtree[k] \notin freed \cup reusable
    BY <1>2 DEF WorkInv
  <2>1. f # n /\ f \notin taken /\ wtree[k] \in free[f]
    BY <1>5, <2>0
  <2>2. CASE wtree[k] \in dirty
    <3>1. Drawn(wtree[k]) \/ hw <= wtree[k]
      BY <1>2, <2>2 DEF PoolInv, Fresh
    <3> QED
      BY <2>1, <3>1, OwnPageNotBase
  <2>3. CASE wtree[k] = NoPage
    <3>1. wtree[k] \in Pages
      BY <2>1, PoolTypes
    <3> QED
      BY <2>3, <3>1 DEF NoPage, Pages
  <2>4. CASE wtree[k] = tree[newest][k]
    BY <2>1, <2>4, AtBound DEF IInv, FreeInv
  <2> QED
    BY <1>2, <2>2, <2>3, <2>4 DEF WorkInv
<1>13. \A k \in Keys : wtree[k] < whw
  <2> SUFFICES ASSUME NEW k \in Keys PROVE wtree[k] < whw
    OBVIOUS
  <2>0. wtree[k] \in Nat
    BY DEF IInv, TypeOK, Map, Pages, NoPage
  <2>1. CASE Fresh(wtree[k])
    BY <2>1 DEF Fresh
  <2>2. CASE Drawn(wtree[k])
    <3>1. wtree[k] < hw
      BY <2>2 DEF Drawn, IInv, FreeInv, TypeOK
    <3> QED
      BY <1>3, <2>0, <3>1
  <2>3. CASE wtree[k] = NoPage
    BY <1>3, <2>3, Numbers DEF NoPage
  <2>4. CASE wtree[k] = tree[newest][k]
    <3>1. wtree[k] < hw
      BY <2>4, AtBound DEF IInv, FreeInv
    <3> QED
      BY <1>3, <2>0, <3>1
  <2> QED
    BY <1>2, <2>1, <2>2, <2>3, <2>4 DEF WorkInv, PoolInv
<1>14. ASSUME NEW f \in Txn, NEW g \in Txn, f # g PROVE F[f] \cap F[g] = {}
  <2>1. CASE f # n /\ g # n
    BY <1>7, <1>14, <2>1 DEF IInv, FreeInv
  <2>2. CASE f = n \/ g = n
    BY <1>7, <1>8, <1>14, <2>2
  <2> QED
    BY <2>1, <2>2
<1>15. ASSUME NEW f \in Txn, NEW p \in F[f] PROVE p < whw
  <2>0. p \in Pages /\ p \in Nat
    BY <1>9, <1>15 DEF Pages
  <2>1. CASE f # n
    <3>1. p < hw
      BY <1>7, <1>15, <2>1 DEF IInv, FreeInv
    <3> QED
      BY <1>3, <2>0, <3>1
  <2>2. CASE f = n /\ p \in freed
    <3>1. p < hw
      BY <1>2, <2>2, AtBound DEF PoolInv, IInv, FreeInv
    <3> QED
      BY <1>3, <2>0, <3>1
  <2>3. CASE f = n /\ Fresh(p)
    BY <2>3 DEF Fresh
  <2> QED
    BY <1>8, <1>15, <2>1, <2>2, <2>3
<1>16. ASSUME NEW p \in 1..(whw - 1)
       PROVE  (\E k \in Keys : wtree[k] = p) \/ \E f \in Txn : p \in F[f]
  <2>1. CASE \E k \in Keys : wtree[k] = p
    BY <2>1
  <2>2. CASE p \in freed
    BY <1>3, <1>5, <2>2
  <2>3. CASE p \in reusable
    <3>1. CASE \E g \in taken : p \in free[g]
      BY <1>5, <1>6, <2>3, <3>1
    <3>2. CASE ~ \E g \in taken : p \in free[g]
      BY <1>3, <1>5, <2>3, <3>2
    <3> QED
      BY <3>1, <3>2
  <2>4. CASE \E f \in Txn \ taken : p \in free[f]
    BY <1>5, <1>6, <2>4
  <2> QED
    BY <1>2, <2>1, <2>2, <2>3, <2>4 DEF CoverInv
<1>17. Follows(wtree, F, whw)
  BY <1>2, <1>3, <1>7, <1>10, <1>11, <1>12, <1>13, <1>14, <1>15, <1>16
     DEF Follows, PoolInv, WorkInv, n
<1> QED
  BY <1>9, <1>17 DEF F, n

(* A state that follows the newest commit becomes the newest commit. *)
LEMMA PublishInv ==
  ASSUME IInv, NEW T, NEW S, NEW F, NEW H, Follows(T, F, H), Publish(T, S, F, H), Dropped,
         T \in Map(Pages \cup {NoPage}), S \in Map(Attempts), F \in [Txn -> SUBSET Pages],
         H \in 1..(NPages + 1), UNCHANGED <<content, slot, cache, rd>>,
         surfaced' \in 1..(MaxTxn + 1), surfaced' = surfaced \/ surfaced' <= newest + 1,
         newest < surfaced \/ surfaced' = surfaced,
         newest + 1 < surfaced' => \A k \in Keys : T[k] # NoPage => content[T[k]] = S[k]
  PROVE  IInv'
<1> DEFINE n == newest + 1
<1>1. /\ newest' = n /\ hw' = H /\ ghw' = 0
      /\ tree' = [tree EXCEPT ![n] = T] /\ stamp' = [stamp EXCEPT ![n] = S]
      /\ free' = F /\ NoGhost
  BY DEF Publish, NoGhost
<1>3. n \in Txn /\ n \in Nat /\ newest \in Nat /\ newest \in Txn /\ newest < n
      /\ hw \in Nat /\ H \in Nat /\ hw <= H /\ cache \in Nat /\ cache <= newest
  BY Numbers, AtBound DEF Follows, Txn
<1>4. /\ tree'[n] = T /\ stamp'[n] = S
      /\ \A t \in Txn : t # n => tree'[t] = tree[t] /\ stamp'[t] = stamp[t]
  BY <1>1, <1>3 DEF IInv, TypeOK
<1>9. TypeOK'
  <2>1. tree' \in [Txn -> Map(Pages \cup {NoPage})] /\ stamp' \in [Txn -> Map(Attempts)]
    BY <1>1, Zenon DEF IInv, TypeOK
  <2>2. newest' \in Txn /\ hw' \in 1..(NPages + 1)
    BY <1>1, <1>3
  <2>3. gtree' \in Map(Pages \cup {NoPage}) /\ gstamp' \in Map(Attempts)
        /\ gfree' \in [Txn -> SUBSET Pages] /\ ghw' \in 0..(NPages + 1)
    BY <1>1, NoGhostType
  <2> QED
    BY <1>1, <2>1, <2>2, <2>3, DroppedType, Zenon DEF IInv, TypeOK
<1>10. TableInv' /\ GhostInv'
  BY <1>1 DEF IInv, TableInv, GhostInv
<1>11. PinInv'
  <2>1. \A r \in Readers : rd[r].meta <= newest /\ rd[r].meta \in Nat
    BY Numbers DEF IInv, PinInv
  <2>2. \A r \in Readers : rd[r].meta <= n
    <3>1. newest <= n
      BY <1>3
    <3> HIDE DEF n
    <3> QED
      BY <1>3, <2>1, <3>1, Transitive
  <2>3. cache <= n
    BY <1>3
  <2> QED
    BY <1>1, <2>2, <2>3 DEF IInv, PinInv, Confirmed
<1> HIDE DEF n
<1>14. FreeInv'
  <2>1. \A f \in Txn : F[f] # {} => f <= n
    BY DEF Follows, n
  <2>2. ASSUME NEW f \in Txn, NEW t \in Txn, f <= t, t <= n, NEW k \in Keys
        PROVE  tree'[t][k] \notin F[f]
    <3>1. CASE t = n
      BY <1>4, <3>1 DEF Follows
    <3>2. CASE t # n
      <4>1. t <= newest /\ f <= newest
        BY <1>3, <2>2, <3>2 DEF n, Txn
      <4>2. tree[t][k] \notin free[f]
        BY <2>2, <4>1 DEF IInv, FreeInv
      <4>3. F[f] \subseteq free[f]
        BY <4>1 DEF Follows
      <4> QED
        BY <1>4, <3>2, <4>2, <4>3
    <3> QED
      BY <3>1, <3>2
  <2>3. /\ \A f, g \in Txn : f # g => F[f] \cap F[g] = {}
        /\ \A f \in Txn : \A p \in F[f] : p < H
    BY DEF Follows
  <2>5. ASSUME NEW t \in Txn, t <= n, NEW k \in Keys PROVE tree'[t][k] < H
    <3>1. CASE t = n
      BY <1>4, <3>1 DEF Follows
    <3>2. CASE t # n
      <4>1. t <= newest
        <5>1. t \in Nat
          BY SizeAssumption DEF Txn
        <5> QED
          BY <1>3, <2>5, <3>2, <5>1 DEF n
      <4>2. tree[t][k] < hw
        BY <4>1 DEF IInv, FreeInv
      <4>3. tree[t][k] \in Nat
        <5>1. tree[t][k] \in Pages \cup {NoPage}
          BY DEF IInv, TypeOK, Map
        <5> QED
          BY <5>1 DEF Pages, NoPage
      <4>4. tree'[t][k] = tree[t][k]
        BY <1>4, <3>2
      <4> QED
        BY <1>3, <4>2, <4>3, <4>4
    <3> QED
      BY <3>1, <3>2
  <2> QED
    BY <1>1, <2>1, <2>2, <2>3, <2>5 DEF FreeInv
<1>15. SnapInv'
  <2> SUFFICES ASSUME NEW t \in Txn, cache <= t, t <= n, t < surfaced' PROVE Intact(t)'
    BY <1>1 DEF SnapInv
  <2>1. CASE t = n
    <3>1. tree'[t] = T /\ stamp'[t] = S /\ content' = content
      BY <1>1, <1>4, <2>1
    <3>2. \A k \in Keys : T[k] # NoPage => content[T[k]] = S[k]
      BY <2>1 DEF n
    <3> QED
      BY <3>1, <3>2 DEF Intact
  <2>2. CASE t # n
    <3>1. t <= newest /\ t \in Nat
      BY <1>3, <2>2 DEF n, Txn
    <3>2. t < surfaced
      BY <1>3, <3>1, Numbers
    <3>3. Intact(t)
      BY <3>1, <3>2 DEF IInv, SnapInv
    <3> QED
      BY <1>1, <1>4, <2>2, <3>3 DEF Intact
  <2> QED
    BY <2>1, <2>2
<1>16. AccountInv'
  <2>1. tree'[newest'] = T
    BY <1>1, <1>4
  <2>2. free' = F /\ hw' = H
    BY <1>1
  <2>3. /\ \A p \in 1..(H - 1) : (\E k \in Keys : T[k] = p) \/ \E f \in Txn : p \in F[f]
        /\ \A j, k \in Keys : j # k /\ T[j] # NoPage => T[j] # T[k]
    BY DEF Follows
  <2> QED
    BY <2>1, <2>2, <2>3, Zenon DEF AccountInv
<1> QED
  BY <1>1, <1>9, <1>10, <1>11, <1>14, <1>15, <1>16, DroppedType DEF IInv

LEMMA CommitStep ==
  ASSUME IInv, commit PROVE IInv'
<1>1. /\ wpc = "open" /\ Publish(wtree, wstamp, freelist_plan(newest + 1), whw) /\ Dropped
      /\ UNCHANGED <<content, slot, cache, rd>> /\ surfaced' = surfaced
  BY DEF commit
<1>2. Follows(wtree, freelist_plan(newest + 1), whw)
      /\ freelist_plan(newest + 1) \in [Txn -> SUBSET Pages]
  BY <1>1, PlanFollows
<1>3. surfaced \in 1..(MaxTxn + 1) /\ wtree \in Map(Pages \cup {NoPage})
      /\ wstamp \in Map(Attempts) /\ whw \in 1..(NPages + 1)
  BY DEF IInv, TypeOK
<1>4. newest + 1 < surfaced =>
        \A k \in Keys : wtree[k] # NoPage => content[wtree[k]] = wstamp[k]
  <2>1. newest + 1 < surfaced => newest < surfaced
    BY Numbers
  <2> QED
    BY <1>1, <2>1 DEF IInv, TxnInv, StampInv
<1> QED
  BY <1>1, <1>2, <1>3, <1>4, PublishInv, Zenon

(* A failed commit leaves a ghost and the committed state alone. *)
LEMMA CommitUnsyncedStep ==
  ASSUME IInv, commit_MetaUnsynced PROVE IInv'
<1>1. /\ wpc = "open" /\ gtree' = wtree /\ gstamp' = wstamp /\ ghw' = whw
      /\ gfree' = freelist_plan(newest + 1) /\ Dropped
      /\ newest' = newest /\ tree' = tree /\ stamp' = stamp /\ free' = free /\ hw' = hw
      /\ surfaced' = surfaced /\ UNCHANGED <<content, slot, cache, rd>>
  BY DEF commit_MetaUnsynced
<1>2. Follows(wtree, freelist_plan(newest + 1), whw)
      /\ freelist_plan(newest + 1) \in [Txn -> SUBSET Pages]
  BY <1>1, PlanFollows
<1>3. TypeOK'
  <2>1. whw \in 1..(NPages + 1) => whw \in 0..(NPages + 1)
    BY SizeAssumption
  <2> QED
    BY <1>1, <1>2, <2>1, DroppedType, Zenon DEF IInv, TypeOK
<1>4. TableInv' /\ FreeInv' /\ AccountInv'
  BY <1>1 DEF IInv, TableInv, FreeInv, AccountInv
<1>5. PinInv' /\ SnapInv'
  BY <1>1 DEF IInv, PinInv, SnapInv, Intact, Confirmed
<1>6. GhostInv'
  BY <1>1, <1>2 DEF GhostInv, Follows
<1> QED
  BY <1>1, <1>3, <1>4, <1>5, <1>6, DroppedType DEF IInv

(* A death, after which the ghost becomes the newest commit or is gone. *)
LEMMA OwnerDeathStep ==
  ASSUME IInv, recover_after_owner_death PROVE IInv'
<1>1. Dropped /\ UNCHANGED <<content, slot, cache, rd>>
  BY DEF recover_after_owner_death
<1>2. CASE /\ ghw # 0 /\ Publish(gtree, gstamp, gfree, ghw)
           /\ surfaced' = IF newest < surfaced THEN newest + 1 ELSE surfaced
  <2>1. Follows(gtree, gfree, ghw)
    BY <1>2 DEF IInv, GhostInv
  <2>2. gtree \in Map(Pages \cup {NoPage}) /\ gstamp \in Map(Attempts)
        /\ gfree \in [Txn -> SUBSET Pages]
    BY DEF IInv, TypeOK
  <2>3. ghw \in 1..(NPages + 1)
    BY <1>2, SizeAssumption DEF IInv, TypeOK
  <2>4. newest < MaxTxn
    BY <2>1 DEF Follows
  <2>5. surfaced' \in 1..(MaxTxn + 1) /\ (surfaced' = surfaced \/ surfaced' <= newest + 1)
        /\ (newest < surfaced \/ surfaced' = surfaced) /\ ~ (newest + 1 < surfaced')
    <3>1. surfaced \in 1..(MaxTxn + 1) /\ newest \in Nat /\ MaxTxn \in Nat
      BY Numbers DEF IInv, TypeOK
    <3>2. CASE newest < surfaced
      <4>1. surfaced' = newest + 1
        BY <1>2, <3>2
      <4> QED
        BY <2>4, <3>1, <3>2, <4>1
    <3>3. CASE ~ (newest < surfaced)
      <4>1. surfaced' = surfaced
        BY <1>2, <3>3
      <4> QED
        BY <3>1, <3>3, <4>1
    <3> QED
      BY <3>2, <3>3
  <2> QED
    BY <1>1, <1>2, <2>1, <2>2, <2>3, <2>5, PublishInv, Zenon
<1>3. CASE NoGhost /\ UNCHANGED <<newest, tree, stamp, free, hw, surfaced>>
  <2>1. TypeOK'
    BY <1>1, <1>3, DroppedType, NoGhostType, Zenon DEF IInv, TypeOK
  <2>2. TableInv' /\ FreeInv' /\ AccountInv'
    BY <1>1, <1>3 DEF IInv, TableInv, FreeInv, AccountInv
  <2>3. PinInv' /\ SnapInv' /\ GhostInv'
    BY <1>1, <1>3 DEF IInv, PinInv, SnapInv, Intact, Confirmed, GhostInv, NoGhost
  <2> QED
    BY <1>1, <2>1, <2>2, <2>3, DroppedType DEF IInv
<1> QED
  BY <1>2, <1>3 DEF recover_after_owner_death

-----------------------------------------------------------------------------
LEMMA StepIInv ==
  ~StraddledReads /\ IInv /\ [Next]_vars => IInv'
<1> SUFFICES ASSUME ~StraddledReads, IInv, [Next]_vars PROVE IInv'
  OBVIOUS
<1>1. CASE WriteTxn
  BY <1>1, BeginStep, RefillStep, ScanWordStep, ScanTxnStep, ScanDoneStep, AllocStep,
     CommitStep, CommitUnsyncedStep, AbortStep, OwnerDeathStep, PutStep, DelStep DEF WriteTxn
<1>2. CASE \E r \in Readers : ReadTxn(r)
  BY <1>2, ReaderStep
<1>3. CASE UNCHANGED vars
  <2>1. UNCHANGED <<committed, content, cache, writer>> /\ UNCHANGED <<slot, rd>>
    BY <1>3 DEF vars
  <2>2. FreeInv' /\ SnapInv' /\ AccountInv' /\ GhostInv' /\ TxnInv' /\ IdleInv'
    BY <2>1, ReaderFrame
  <2>3. TypeOK'
    BY <2>1, Zenon DEF IInv, TypeOK, committed, writer, txnvars, poolvars, scanvars
  <2>4. TableInv' /\ PinInv' /\ ScanInv'
    BY <2>1 DEF IInv, TableInv, PinInv, ScanInv, Confirmed, committed, writer, scanvars
  <2> QED
    BY <2>2, <2>3, <2>4 DEF IInv
<1> QED
  BY <1>1, <1>2, <1>3 DEF Next

LEMMA IInvProperties ==
  IInv => /\ TypeOK /\ SnapshotIntact /\ CommittedIntact /\ CacheBelowPins /\ PageAccounting
<1> SUFFICES ASSUME IInv
             PROVE  /\ TypeOK /\ SnapshotIntact /\ CommittedIntact /\ CacheBelowPins
                    /\ PageAccounting
  OBVIOUS
<1>1. TypeOK
  BY DEF IInv
<1>2. CacheBelowPins
  BY DEF IInv, PinInv, Confirmed, CacheBelowPins
<1>3. SnapshotIntact
  <2>1. \A r \in Readers : rd[r].meta \in Txn /\ rd[r].meta <= newest
    BY DEF IInv, TypeOK, ReaderState, PinInv
  <2> QED
    BY <1>2, <2>1 DEF IInv, SnapInv, CacheBelowPins, SnapshotIntact
<1>4. CommittedIntact
  BY AtBound DEF IInv, SnapInv, CommittedIntact
<1>5. PageAccounting
  <2> DEFINE reachable == {tree[newest][k] : k \in Keys} \ {NoPage}
             listed == UNION {free[t] : t \in Txn}
  <2>1. reachable \cap listed = {}
    <3> SUFFICES ASSUME NEW k \in Keys, NEW f \in Txn, tree[newest][k] \in free[f] PROVE FALSE
      OBVIOUS
    <3>1. f <= newest
      BY DEF IInv, FreeInv
    <3> QED
      BY <3>1, AtBound DEF IInv, FreeInv
  <2>2. reachable \subseteq 1..(hw - 1)
    <3> SUFFICES ASSUME NEW k \in Keys, tree[newest][k] # NoPage
                 PROVE  tree[newest][k] \in 1..(hw - 1)
      OBVIOUS
    <3>1. tree[newest][k] \in Pages
      BY DEF IInv, TypeOK, Map
    <3>2. tree[newest][k] < hw
      BY AtBound DEF IInv, FreeInv
    <3>3. hw \in Nat
      BY Numbers
    <3>4. tree[newest][k] \in Nat /\ 1 <= tree[newest][k]
      BY <3>1 DEF Pages
    <3> HIDE DEF reachable, listed
    <3> QED
      BY <3>2, <3>3, <3>4
  <2>3. listed \subseteq 1..(hw - 1)
    <3> SUFFICES ASSUME NEW f \in Txn, NEW p \in free[f] PROVE p \in 1..(hw - 1)
      OBVIOUS
    <3>1. p \in Pages /\ p < hw
      BY DEF IInv, TypeOK, FreeInv
    <3> QED
      BY <3>1, Numbers DEF Pages
  <2>4. 1..(hw - 1) \subseteq reachable \cup listed
    BY DEF IInv, AccountInv, NoPage
  <2>5. /\ \A s, t \in Txn : s # t => free[s] \cap free[t] = {}
        /\ \A j, k \in Keys :
             j # k /\ tree[newest][j] # NoPage => tree[newest][j] # tree[newest][k]
    BY DEF IInv, FreeInv, AccountInv
  <2> QED
    BY <2>1, <2>2, <2>3, <2>4, <2>5 DEF PageAccounting
<1> QED
  BY <1>1, <1>2, <1>3, <1>4, <1>5

(* The inductive invariant of the reader table, the scan, the freelist and
   the open transaction holds in every reachable state. *)
THEOREM Inductive == ~StraddledReads => (Spec => []IInv)
<1> SUFFICES ASSUME ~StraddledReads PROVE Spec => []IInv
  OBVIOUS
<1>1. Init => IInv
  BY InitIInv
<1>2. IInv /\ [Next]_vars => IInv'
  BY StepIInv
<1> QED
  BY <1>1, <1>2, PTL DEF Spec

(* Type correctness of the writer, the freelist and the reader table. *)
THEOREM TypeCorrect == ~StraddledReads => (Spec => []TypeOK)
BY Inductive, IInvProperties, PTL

(* claim_and_pin and the reuse rule of refill_reusable together keep every
   page of a pinned snapshot as it was committed, for any number of readers,
   slots, keys and pages, failed meta msyncs and deaths of writers included,
   unless the snapshot descends from a ghost that surfaced. *)
THEOREM SnapshotIsolation == ~StraddledReads => (Spec => []SnapshotIntact)
BY Inductive, IInvProperties, PTL

(* Failed, aborted and dead write transactions leave the newest commit
   untouched for as long as no recovery published a ghost. *)
THEOREM CommittedNeverTouched == ~StraddledReads => (Spec => []CommittedIntact)
BY Inductive, IInvProperties, PTL

(* oldest_pinned_cache never passes a confirmed pin. *)
THEOREM CacheIsBound == ~StraddledReads => (Spec => []CacheBelowPins)
BY Inductive, IInvProperties, PTL

(* freelist_plan keeps every page reachable or listed exactly once, as
   verify_page_accounting demands. *)
THEOREM Accounting == ~StraddledReads => (Spec => []PageAccounting)
BY Inductive, IInvProperties, PTL

=============================================================================
