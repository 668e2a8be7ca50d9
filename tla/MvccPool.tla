------------------------------ MODULE MvccPool ------------------------------
(***************************************************************************)
(* Allocation preserves the invariant of MvccInvariant: drawing freelist   *)
(* entries, the scan of the reader table behind the bound, and handing out *)
(* a page.                                                                 *)
(***************************************************************************)
EXTENDS MvccInvariant

(* An entry behind the cursor joins the pool. *)
LEMMA DrawInv ==
  ASSUME IInv, wpc \notin {"idle", "open"}, NEW f \in Txn, NextEntry(f), draw(f),
         f <= cache', cache <= cache', cache' \in Nat,
         UNCHANGED <<committed, content, txnvars, wkey>>
  PROVE  TxnInv' /\ reusable' \subseteq Pages /\ taken' \subseteq Txn /\ cursor' \in Txn
<1>1. PoolInv /\ WorkInv /\ StampInv /\ CoverInv /\ KeyInv
  BY DEF IInv, TxnInv
<1>2. /\ newest' = newest /\ surfaced' = surfaced /\ tree' = tree /\ free' = free /\ hw' = hw /\ whw' = whw
      /\ content' = content /\ wtree' = wtree /\ wstamp' = wstamp /\ dirty' = dirty
      /\ freed' = freed /\ wkey' = wkey /\ wpc' = "refill"
      /\ reusable' = reusable \cup free[f] /\ taken' = taken \cup {f} /\ cursor' = f
  BY DEF committed, txnvars, draw
<1>3. f \notin taken /\ free[f] # {} /\ f > cursor /\ cursor \in Nat /\ f \in Nat
  <2>1. free[f] # {} /\ f > cursor /\ cursor \in Nat /\ f \in Nat
    BY DEF NextEntry, IInv, TypeOK, Txn
  <2>2. f \in taken => f <= cursor
    BY <1>1 DEF PoolInv
  <2> QED
    BY <2>1, <2>2
<1>4. reusable' \subseteq Pages /\ taken' \subseteq Txn /\ cursor' \in Txn
  BY <1>2 DEF IInv, TypeOK
<1>5. \A p : Drawn(p)' <=> Drawn(p) \/ p \in free[f]
  BY <1>2 DEF Drawn
<1>6. \A p : Fresh(p)' <=> Fresh(p)
  BY <1>2 DEF Fresh
<1>7. PoolInv'
  <2>1. \A g \in taken' : g <= cache' /\ g <= cursor'
    <3>1. f <= cache' /\ f <= f
      BY <1>3
    <3> SUFFICES ASSUME NEW g \in taken PROVE g <= cache' /\ g <= f
      BY <1>2, <3>1, Zenon
    <3>2. g \in Nat /\ cache \in Nat
      BY PoolTypes, Numbers
    <3>3. g <= cache /\ g <= cursor
      BY <1>1 DEF PoolInv
    <3>4. g <= cache'
      BY <3>2, <3>3, Transitive
    <3>5. cursor <= f
      BY <1>3
    <3> QED
      BY <1>3, <3>2, <3>3, <3>4, <3>5, Transitive
  <2>2. \A p \in dirty' \cup reusable' : Drawn(p)' \/ Fresh(p)'
    BY <1>1, <1>2, <1>5, <1>6 DEF PoolInv
  <2> QED
    BY <1>1, <1>2, <2>1, <2>2 DEF PoolInv
<1>8. \A k \in Keys : wtree[k] \notin free[f]
  <2> SUFFICES ASSUME NEW k \in Keys PROVE wtree[k] \notin free[f]
    OBVIOUS
  <2>1. CASE wtree[k] \in dirty
    BY <1>1, <1>3, <2>1, OwnPageNotBase DEF PoolInv, Fresh
  <2>2. CASE wtree[k] = NoPage
    BY <2>2 DEF IInv, TypeOK, NoPage, Pages
  <2>3. CASE wtree[k] = tree[newest][k]
    BY <1>3, <2>3, AtBound, Zenon DEF IInv, FreeInv
  <2> QED
    BY <1>1, <2>1, <2>2, <2>3 DEF WorkInv
<1>9. WorkInv' /\ StampInv' /\ KeyInv'
  BY <1>1, <1>2, <1>8 DEF WorkInv, StampInv, KeyInv
<1>10. CoverInv'
  BY <1>1, <1>2 DEF CoverInv
<1> QED
  BY <1>4, <1>7, <1>9, <1>10 DEF TxnInv

(* A step inside an allocation that leaves pool and trees alone. *)
LEMMA StayInv ==
  ASSUME IInv, wpc \notin {"idle", "open"}, wpc' \notin {"idle", "open"},
         cache <= cache', cache' \in Nat,
         UNCHANGED <<committed, content, txnvars, poolvars, wkey>>
  PROVE  TxnInv'
<1>1. PoolInv /\ WorkInv /\ StampInv /\ CoverInv /\ KeyInv
  BY DEF IInv, TxnInv
<1>2. /\ newest' = newest /\ surfaced' = surfaced /\ tree' = tree /\ free' = free /\ hw' = hw /\ whw' = whw
      /\ content' = content /\ wtree' = wtree /\ wstamp' = wstamp /\ dirty' = dirty
      /\ freed' = freed /\ wkey' = wkey
      /\ reusable' = reusable /\ taken' = taken /\ cursor' = cursor
  BY DEF committed, txnvars, poolvars
<1>3. \A g \in taken : g <= cache'
  <2> SUFFICES ASSUME NEW g \in taken PROVE g <= cache'
    OBVIOUS
  <2>1. g \in Nat /\ cache \in Nat
    BY PoolTypes, Numbers
  <2>2. g <= cache
    BY <1>1 DEF PoolInv
  <2> QED
    BY <2>1, <2>2, Transitive
<1>4. PoolInv'
  BY <1>1, <1>2, <1>3 DEF PoolInv, Drawn, Fresh
<1>5. WorkInv' /\ StampInv' /\ KeyInv' /\ CoverInv'
  BY <1>1, <1>2 DEF WorkInv, StampInv, KeyInv, CoverInv
<1> QED
  BY <1>4, <1>5 DEF TxnInv

LEMMA RefillStep ==
  ASSUME IInv, refill_reusable PROVE IInv'
<1>1. wpc = "refill" /\ wpc' # "idle"
      /\ UNCHANGED <<committed, content, slot, cache, txnvars, wkey, rd>>
  BY DEF refill_reusable, draw, stop_drawing
<1>2. TableInv' /\ FreeInv' /\ AccountInv' /\ GhostInv' /\ PinInv' /\ SnapInv' /\ IdleInv'
  BY <1>1, WriterFrame, CacheFrame, ContentFrame DEF IdleInv
<1>3. cache' = cache /\ cache \in Nat /\ cache <= cache'
  BY <1>1, Numbers
<1>4. CASE \E f \in Txn : NextEntry(f) /\ f <= cache /\ draw(f) /\ UNCHANGED scanvars
  <2>1. PICK f \in Txn : NextEntry(f) /\ f <= cache /\ draw(f) /\ UNCHANGED scanvars
    BY <1>4
  <2>2. TxnInv' /\ reusable' \subseteq Pages /\ taken' \subseteq Txn /\ cursor' \in Txn
    BY <1>1, <1>3, <2>1, DrawInv
  <2>3. TypeOK'
    <3>1. draws' \in Nat /\ wpc' = "refill"
      BY <2>1 DEF IInv, TypeOK, draw
    <3> QED
      BY <1>1, <2>1, <2>2, <3>1, Zenon DEF IInv, TypeOK, scanvars, committed, txnvars
  <2>4. ScanInv'
    BY <2>1 DEF draw, ScanInv
  <2> QED
    BY <1>2, <2>2, <2>3, <2>4 DEF IInv
<1>5. CASE /\ recomputed' = TRUE /\ wpc' = "scan_word" /\ scan' = 0 /\ oldest' = newest
           /\ UNCHANGED <<poolvars, draws, occupied>>
  <2>1. TxnInv'
    BY <1>1, <1>3, <1>5, StayInv
  <2>2. TypeOK'
    <3>1. scan' \in 0..NSlots
      BY <1>5, SizeAssumption
    <3>2. oldest' \in Txn /\ recomputed' \in BOOLEAN
      BY <1>5 DEF IInv, TypeOK
    <3> QED
      BY <1>1, <1>5, <3>1, <3>2, Zenon DEF IInv, TypeOK, committed, txnvars, poolvars
  <2>3. ScanInv'
    <3>1. \A r \in Readers : Confirmed(r)' => rd'[r].slot \in Slots
      BY <1>1 DEF IInv, TableInv, Confirmed
    <3>2. newest' = newest
      BY <1>1 DEF committed
    <3>3. newest <= newest
      <4>1. newest \in Nat
        BY Numbers
      <4> QED
        BY <4>1
    <3> QED
      BY <1>5, <3>1, <3>2, <3>3, SizeAssumption DEF ScanInv, Slots
  <2> QED
    BY <1>2, <2>1, <2>2, <2>3 DEF IInv
<1>6. CASE stop_drawing /\ UNCHANGED scanvars
  <2>1. TxnInv'
    BY <1>1, <1>3, <1>6, StayInv DEF stop_drawing
  <2>2. TypeOK'
    BY <1>1, <1>6, Zenon DEF IInv, TypeOK, committed, txnvars, poolvars, scanvars, stop_drawing
  <2>3. ScanInv'
    BY <1>6 DEF stop_drawing, ScanInv
  <2> QED
    BY <1>2, <2>1, <2>2, <2>3 DEF IInv
<1> QED
  BY <1>4, <1>5, <1>6, Zenon DEF refill_reusable

LEMMA ScanWordStep ==
  ASSUME IInv, ScanWord PROVE IInv'
<1>1. wpc = "scan_word" /\ wpc' = "scan_txn" /\ occupied' = (slot[scan].word # "free")
      /\ scan < NSlots /\ scan' = scan /\ oldest' = oldest
      /\ UNCHANGED <<committed, content, slot, cache, txnvars, poolvars, recomputed, wkey, draws, rd>>
  BY DEF ScanWord
<1>2. TableInv' /\ FreeInv' /\ AccountInv' /\ GhostInv' /\ PinInv' /\ SnapInv' /\ IdleInv'
  BY <1>1, WriterFrame, CacheFrame, ContentFrame DEF IdleInv
<1>3. cache' = cache /\ cache \in Nat /\ cache <= cache'
  BY <1>1, Numbers
<1>4. TxnInv'
  BY <1>1, <1>3, StayInv
<1>5. TypeOK'
  BY <1>1, Zenon DEF IInv, TypeOK, committed, txnvars, poolvars
<1>6. ScanInv'
  <2>1. \A r \in Readers : (Confirmed(r)' <=> Confirmed(r)) /\ rd'[r] = rd[r]
    BY <1>1 DEF Confirmed
  <2>2. \A r \in Readers : Confirmed(r) /\ rd[r].slot = scan => occupied'
    BY <1>1, Zenon DEF IInv, TableInv, Confirmed
  <2>3. newest' = newest
    BY <1>1 DEF committed
  <2> QED
    BY <1>1, <2>1, <2>2, <2>3 DEF IInv, ScanInv
<1> QED
  BY <1>2, <1>4, <1>5, <1>6 DEF IInv

LEMMA ScanTxnStep ==
  ASSUME IInv, ScanTxn PROVE IInv'
<1> DEFINE t == IF slot[scan].txn = UNPINNED THEN newest ELSE slot[scan].txn
<1>1. wpc = "scan_txn" /\ wpc' = "scan_word" /\ scan' = scan + 1 /\ occupied' = occupied
      /\ oldest' = (IF occupied /\ t < oldest THEN t ELSE oldest)
      /\ UNCHANGED <<committed, content, slot, cache, txnvars, poolvars, recomputed, wkey, draws, rd>>
  BY DEF ScanTxn
<1>2. TableInv' /\ FreeInv' /\ AccountInv' /\ GhostInv' /\ PinInv' /\ SnapInv' /\ IdleInv'
  BY <1>1, WriterFrame, CacheFrame, ContentFrame DEF IdleInv
<1>3. cache' = cache /\ cache \in Nat /\ cache <= cache'
  BY <1>1, Numbers
<1>4. TxnInv'
  BY <1>1, <1>3, StayInv
<1>5. scan \in Slots /\ scan + 1 \in 0..NSlots /\ scan \in Nat
  <2>1. scan \in Nat /\ scan < NSlots /\ NSlots \in Nat
    BY <1>1, Numbers DEF IInv, ScanInv
  <2> QED
    BY <2>1 DEF Slots
<1>6. t \in Txn /\ oldest \in Txn /\ oldest' \in Txn
  BY <1>1, <1>5 DEF IInv, TypeOK, SlotState
<1>7. TypeOK'
  BY <1>1, <1>5, <1>6, Zenon DEF IInv, TypeOK, committed, txnvars, poolvars
<1>8. ScanInv'
  <2>1. \A r \in Readers : (Confirmed(r)' <=> Confirmed(r)) /\ rd'[r] = rd[r]
    BY <1>1 DEF Confirmed
  <2>2. t \in Nat /\ oldest \in Nat /\ newest \in Nat /\ oldest' <= oldest /\ oldest' \in Nat
        /\ (occupied => oldest' <= t)
    BY <1>1, <1>6, Numbers DEF Txn
  <2>3. newest' = newest /\ oldest <= newest
    BY <1>1 DEF committed, IInv, ScanInv
  <2>4. ASSUME NEW r \in Readers, Confirmed(r), rd[r].slot < scan + 1
        PROVE  oldest' <= rd[r].meta
    <3>0. rd[r].slot \in Nat /\ rd[r].meta \in Nat /\ rd[r].slot \in Slots
      <4>1. rd[r].slot \in Slots
        BY <2>4 DEF IInv, TableInv, Confirmed
      <4>2. rd[r].slot \in Nat
        BY <4>1, SizeAssumption DEF Slots
      <4> QED
        BY <4>1, <4>2, Numbers
    <3>1. CASE rd[r].slot < scan
      <4>1. oldest <= rd[r].meta
        BY <1>1, <2>4, <3>1 DEF IInv, ScanInv
      <4> QED
        BY <2>2, <3>0, <4>1
    <3>2. CASE rd[r].slot = scan
      <4>1. slot[scan].txn = rd[r].meta /\ rd[r].meta <= newest /\ rd[r].meta # UNPINNED
        <5>1. slot[scan].txn = rd[r].meta
          BY <2>4, <3>2 DEF IInv, TableInv, Confirmed
        <5>2. rd[r].meta \in Txn
          BY DEF IInv, TypeOK, ReaderState
        <5>3. rd[r].meta <= newest
          BY DEF IInv, PinInv
        <5>4. rd[r].meta # UNPINNED
          BY <5>2, SizeAssumption DEF UNPINNED, Txn
        <5> QED
          BY <5>1, <5>3, <5>4
      <4>2. occupied \/ rd[r].meta = newest
        BY <1>1, <2>4, <3>2 DEF IInv, ScanInv
      <4>3. t = rd[r].meta
        BY <4>1
      <4> QED
        BY <2>2, <2>3, <3>0, <4>2, <4>3
    <3> QED
      BY <1>5, <2>4, <3>0, <3>1, <3>2
  <2>5. oldest' <= newest
    BY <2>2, <2>3
  <2> QED
    BY <1>1, <2>1, <2>3, <2>4, <2>5 DEF ScanInv
<1> QED
  BY <1>2, <1>4, <1>7, <1>8 DEF IInv

LEMMA ScanDoneStep ==
  ASSUME IInv, ScanDone PROVE IInv'
<1>1. /\ wpc = "scan_word" /\ scan = NSlots
      /\ scan' = 0 /\ occupied' = FALSE /\ oldest' = 0
      /\ cache' = (IF oldest > cache THEN oldest ELSE cache)
      /\ UNCHANGED <<committed, content, slot, txnvars, recomputed, wkey, rd>>
  BY DEF ScanDone
<1>2. PICK f \in Txn : NextEntry(f) /\ IF f <= oldest THEN draw(f) ELSE stop_drawing
  BY DEF ScanDone
<1>3. /\ cache' \in Txn /\ cache' \in Nat /\ cache <= cache' /\ oldest <= cache'
      /\ (cache' = oldest \/ cache' = cache)
  <2>1. cache \in Txn /\ oldest \in Txn /\ cache \in Nat /\ oldest \in Nat
    BY Numbers, Zenon DEF IInv, TypeOK
  <2> QED
    BY <1>1, <2>1
<1>4. newest' = newest /\ surfaced' = surfaced /\ tree' = tree /\ stamp' = stamp /\ rd' = rd /\ content' = content
  BY <1>1 DEF committed
<1>5. PinInv'
  <2>1. cache' <= newest
    BY <1>1, <1>3 DEF IInv, PinInv, ScanInv
  <2>2. ASSUME NEW r \in Readers, Confirmed(r) PROVE cache' <= rd[r].meta
    <3>1. rd[r].slot < scan
      <4>1. rd[r].slot \in Slots
        BY <2>2 DEF IInv, TableInv, Confirmed
      <4> QED
        BY <1>1, <4>1, SizeAssumption DEF Slots
    <3>2. oldest <= rd[r].meta /\ cache <= rd[r].meta
      BY <1>1, <2>2, <3>1 DEF IInv, ScanInv, PinInv
    <3> QED
      BY <1>3, <3>2
  <2> QED
    BY <1>4, <2>1, <2>2 DEF IInv, PinInv, Confirmed
<1>6. SnapInv'
  <2> SUFFICES ASSUME NEW t \in Txn, cache' <= t, t <= newest, t < surfaced PROVE Intact(t)
    BY <1>4 DEF SnapInv, Intact
  <2>1. cache <= t
    BY <1>3, Numbers DEF Txn
  <2> QED
    BY <2>1 DEF IInv, SnapInv
<1>7. TableInv' /\ FreeInv' /\ AccountInv' /\ GhostInv'
  BY <1>1, WriterFrame
<1>8. wpc' \in {"refill", "take"} /\ draws' \in Nat
  <2>1. draws \in Nat
    BY DEF IInv, TypeOK
  <2> QED
    BY <1>2, <2>1 DEF draw, stop_drawing
<1>9. ScanInv' /\ IdleInv'
  BY <1>8, NoScan DEF IdleInv
<1>10. TxnInv' /\ reusable' \subseteq Pages /\ taken' \subseteq Txn /\ cursor' \in Txn
  <2>1. CASE f <= oldest
    <3>1. f <= cache' /\ draw(f)
      BY <1>2, <1>3, <2>1, Numbers DEF Txn
    <3> QED
      BY <1>1, <1>2, <1>3, <3>1, DrawInv
  <2>2. CASE ~(f <= oldest)
    <3>1. UNCHANGED poolvars
      BY <1>2, <2>2 DEF stop_drawing
    <3>2. TxnInv'
      BY <1>1, <1>3, <1>8, <3>1, StayInv
    <3> QED
      BY <3>1, <3>2 DEF poolvars, IInv, TypeOK
  <2> QED
    BY <2>1, <2>2
<1>11. TypeOK'
  <2>1. scan' \in 0..NSlots /\ oldest' \in Txn
    BY <1>1, SizeAssumption DEF Txn
  <2>2. occupied' \in BOOLEAN
    BY <1>1, Zenon
  <2> QED
    BY <1>1, <1>3, <1>8, <1>10, <2>1, <2>2, Zenon DEF IInv, TypeOK, committed, txnvars
<1> QED
  BY <1>5, <1>6, <1>7, <1>9, <1>10, <1>11 DEF IInv

LEMMA BelowOr ==
  ASSUME NEW w \in Nat, NEW v \in Nat, NEW p, NEW q, q \in 1..(v - 1), q # p,
         v = w \/ (p = w /\ v = w + 1)
  PROVE  q \in 1..(w - 1)
OBVIOUS

(* alloc hands out page p: out of the pool, or the one at high water. *)
LEMMA TakeInv ==
  ASSUME IInv, wpc = "take", wpc' = "open", NEW p \in Pages, TakePage(p), whw' \in 1..(NPages + 1),
         \/ p \in reusable /\ reusable' = reusable \ {p} /\ whw' = whw
         \/ p = whw /\ reusable' = reusable /\ reusable = {} /\ whw' = whw + 1,
         UNCHANGED <<committed, slot, cache, attempt, taken, cursor, scanvars, wkey, draws, rd>>
  PROVE  IInv'
<1>1. PoolInv /\ WorkInv /\ StampInv /\ CoverInv /\ wtree[wkey] \notin dirty
  BY DEF IInv, TxnInv, KeyInv
<1>2. /\ content' = [content EXCEPT ![p] = attempt] /\ dirty' = dirty \cup {p}
      /\ wtree' = [wtree EXCEPT ![wkey] = p] /\ wstamp' = [wstamp EXCEPT ![wkey] = attempt]
      /\ freed' = (IF wtree[wkey] = NoPage THEN freed ELSE freed \cup {wtree[wkey]})
  BY DEF TakePage
<1>3. /\ newest' = newest /\ surfaced' = surfaced /\ tree' = tree /\ free' = free /\ hw' = hw /\ cache' = cache
      /\ taken' = taken /\ cursor' = cursor /\ stamp' = stamp
  BY DEF committed
<1>4. /\ hw \in Nat /\ whw \in Nat /\ whw' \in Nat /\ hw <= whw /\ whw <= whw' /\ p \in Nat
      /\ 1 <= p /\ p # NoPage /\ wkey \in Keys
  <2>1. hw \in Nat /\ whw \in Nat /\ wkey \in Keys
    BY Numbers, PoolTypes
  <2>2. hw <= whw
    BY <1>1 DEF PoolInv
  <2>3. whw' \in Nat /\ whw <= whw'
    BY <2>1
  <2>4. p \in Nat /\ 1 <= p /\ p # NoPage
    BY DEF Pages, NoPage
  <2> QED
    BY <2>1, <2>2, <2>3, <2>4
<1>5. \A q : Drawn(q)' <=> Drawn(q)
  BY <1>3 DEF Drawn
<1>6. \A q \in Pages : Fresh(q) => Fresh(q)'
  <2> SUFFICES ASSUME NEW q \in Pages, hw <= q, q < whw PROVE q < whw'
    BY <1>3 DEF Fresh
  <2> QED
    BY <1>4 DEF Pages
<1>7. Drawn(p) \/ hw <= p
  BY <1>1, <1>4 DEF PoolInv, Fresh
<1>8. Drawn(p) \/ Fresh(p)'
  <2>1. CASE p \in reusable
    BY <1>1, <1>6, <2>1 DEF PoolInv
  <2>2. CASE p = whw /\ whw' = whw + 1
    BY <1>3, <1>4, <2>2 DEF Fresh
  <2> QED
    BY <2>1, <2>2
<1>9. (\A k \in Keys : tree[newest][k] # p) /\ \A f \in Txn \ taken : p \notin free[f]
  BY <1>7, OwnPageNotBase
<1>10. /\ wtree \in [Keys -> Pages \cup {NoPage}] /\ wtree'[wkey] = p
       /\ \A k \in Keys : k # wkey => wtree'[k] = wtree[k]
  BY <1>2, <1>4 DEF IInv, TypeOK, Map
<1>11. \A k \in Keys : wtree[k] # p
  <2>1. CASE p \in reusable
    BY <1>1, <2>1 DEF WorkInv
  <2>2. CASE p = whw
    <3> SUFFICES ASSUME NEW k \in Keys PROVE wtree[k] # whw
      BY <2>2
    <3>1. CASE wtree[k] \in dirty
      <4>1. CASE Fresh(wtree[k])
        BY <1>4, <4>1, <1>10 DEF Fresh, Pages
      <4>2. CASE Drawn(wtree[k])
        <5>1. wtree[k] < hw
          BY <4>2 DEF Drawn, IInv, FreeInv, TypeOK
        <5> QED
          BY <1>4, <1>10, <5>1 DEF Pages
      <4> QED
        BY <1>1, <3>1, <4>1, <4>2 DEF PoolInv
    <3>2. CASE wtree[k] = NoPage
      BY <1>4, <2>2, <3>2
    <3>3. CASE wtree[k] = tree[newest][k]
      BY <1>9, <2>2, <3>3
    <3> QED
      BY <1>1, <3>1, <3>2, <3>3 DEF WorkInv
  <2> QED
    BY <2>1, <2>2
<1>12. SnapInv' /\ content' \in [Pages -> Attempts]
  BY <1>2, <1>7, WriteOwn, Zenon
<1>13. TypeOK'
  <2>1. wtree' \in Map(Pages \cup {NoPage}) /\ wstamp' \in Map(Attempts)
    BY <1>2 DEF IInv, TypeOK, Map
  <2>2. dirty' \subseteq Pages /\ reusable' \subseteq Pages
    BY <1>2 DEF IInv, TypeOK
  <2>3. freed' \subseteq Pages
    BY <1>2, <1>4, <1>10, Zenon DEF IInv, TypeOK
  <2> QED
    BY <1>12, <2>1, <2>2, <2>3, Zenon DEF IInv, TypeOK, committed, scanvars
<1>14. TableInv' /\ FreeInv' /\ AccountInv' /\ GhostInv' /\ PinInv' /\ ScanInv' /\ IdleInv'
  BY WriterFrame, CacheFrame, NoScan DEF IdleInv
<1>15. wtree[wkey] # NoPage => wtree[wkey] = tree[newest][wkey]
  BY <1>1, <1>4 DEF WorkInv
<1>16. PoolInv'
  <2>1. \A q \in dirty' \cup reusable' : Drawn(q)' \/ Fresh(q)'
    <3>1. \A q \in dirty \cup reusable : Drawn(q)' \/ Fresh(q)'
      BY <1>1, <1>5, <1>6 DEF PoolInv, IInv, TypeOK
    <3> QED
      BY <1>2, <1>5, <1>8, <3>1
  <2>2. \A q \in freed' : \E k \in Keys : tree[newest][k] = q
    BY <1>1, <1>2, <1>4, <1>15, Zenon DEF PoolInv
  <2>3. hw <= whw'
    BY <1>4, Transitive, Zenon
  <2> QED
    BY <1>1, <1>3, <2>1, <2>2, <2>3 DEF PoolInv
<1>17. WorkInv'
  <2>1. \A k \in Keys : wtree'[k] \in dirty' \/ wtree'[k] = NoPage \/ wtree'[k] = tree[newest][k]
    BY <1>1, <1>2, <1>10 DEF WorkInv
  <2>2. p \notin freed' \cup reusable'
    <3>1. p \notin freed'
      BY <1>1, <1>2, <1>9, <1>11, <1>4 DEF PoolInv
    <3>2. p \notin reusable'
      OBVIOUS
    <3> QED
      BY <3>1, <3>2
  <2>3. ASSUME NEW k \in Keys, k # wkey PROVE wtree[k] \notin freed' \cup reusable'
    <3>1. wtree[wkey] # NoPage => wtree[k] # wtree[wkey]
      BY <1>1, <1>4, <2>3 DEF WorkInv
    <3>2. wtree[k] \notin freed \cup reusable
      BY <1>1 DEF WorkInv
    <3> QED
      BY <1>2, <3>1, <3>2
  <2>4. \A j, k \in Keys : j # k /\ wtree'[j] # NoPage => wtree'[j] # wtree'[k]
    <3>1. \A j, k \in Keys : j # k /\ wtree[j] # NoPage => wtree[j] # wtree[k]
      BY <1>1 DEF WorkInv
    <3> QED
      BY <1>10, <1>11, <3>1
  <2>5. \A q \in dirty' : \E k \in Keys : wtree'[k] = q
    <3>1. \E k \in Keys : wtree'[k] = p
      BY <1>4, <1>10
    <3>2. ASSUME NEW q \in dirty PROVE \E k \in Keys : wtree'[k] = q
      <4>1. PICK k \in Keys : wtree[k] = q
        BY <1>1 DEF WorkInv
      <4>2. k # wkey
        BY <1>1, <4>1
      <4> QED
        BY <1>10, <4>1, <4>2
    <3> QED
      BY <1>2, <3>1, <3>2
  <2> QED
    BY <1>3, <1>10, <2>1, <2>2, <2>3, <2>4, <2>5 DEF WorkInv
<1>18. StampInv' /\ KeyInv'
  <2>1. ASSUME newest < surfaced, NEW k \in Keys, wtree'[k] # NoPage
        PROVE  content'[wtree'[k]] = wstamp'[k]
    <3>1. CASE k = wkey
      BY <1>2, <1>10, <3>1 DEF IInv, TypeOK, Map
    <3>2. CASE k # wkey
      <4>1. wtree'[k] = wtree[k] /\ wtree[k] \in Pages /\ wtree[k] # p
        BY <1>10, <1>11, <2>1, <3>2
      <4>2. content[wtree[k]] = wstamp[k]
        BY <1>1, <2>1, <4>1 DEF StampInv
      <4> QED
        BY <1>2, <3>2, <4>1, <4>2 DEF IInv, TypeOK, Map
    <3> QED
      BY <3>1, <3>2
  <2> QED
    BY <1>3, <2>1 DEF StampInv, KeyInv
<1>19. CoverInv'
  <2> SUFFICES ASSUME NEW q, q \in 1..(whw' - 1)
               PROVE  \/ \E k \in Keys : wtree'[k] = q
                      \/ q \in reusable' \cup freed'
                      \/ \E f \in Txn \ taken : q \in free[f]
    BY <1>3 DEF CoverInv
  <2>1. CASE q = p
    BY <1>4, <1>10, <2>1
  <2>2. CASE q # p
    <3>1. q \in 1..(whw - 1)
      <4>1. whw' = whw \/ (p = whw /\ whw' = whw + 1)
        OBVIOUS
      <4>2. whw \in Nat /\ whw' \in Nat
        BY <1>4
      <4>3. q \in 1..(whw' - 1)
        BY Zenon
      <4> QED
        BY <2>2, <4>1, <4>2, <4>3, BelowOr, Zenon
    <3>2. CASE \E k \in Keys : wtree[k] = q
      <4>1. PICK k \in Keys : wtree[k] = q
        BY <3>2
      <4>2. q # NoPage
        BY DEF NoPage
      <4> QED
        BY <1>2, <1>10, <4>1, <4>2
    <3>3. CASE q \in reusable \cup freed
      BY <1>2, <2>2, <3>3
    <3> QED
      BY <1>1, <3>1, <3>2, <3>3 DEF CoverInv
  <2> QED
    BY <2>1, <2>2
<1> QED
  BY <1>12, <1>13, <1>14, <1>16, <1>17, <1>18, <1>19 DEF IInv, TxnInv

LEMMA AllocStep ==
  ASSUME IInv, alloc PROVE IInv'
<1>1. /\ wpc = "take" /\ wpc' = "open"
      /\ UNCHANGED <<committed, slot, cache, attempt, taken, cursor, scanvars, wkey, draws, rd>>
  BY DEF alloc
<1>2. CASE \E p \in reusable : reusable' = reusable \ {p} /\ TakePage(p) /\ UNCHANGED whw
  <2>1. PICK p \in reusable : reusable' = reusable \ {p} /\ TakePage(p) /\ UNCHANGED whw
    BY <1>2
  <2>2. p \in Pages /\ whw' \in 1..(NPages + 1)
    BY <2>1 DEF IInv, TypeOK
  <2> QED
    BY <1>1, <2>1, <2>2, TakeInv
<1>3. CASE /\ reusable = {} /\ whw <= NPages /\ whw' = whw + 1
           /\ TakePage(whw) /\ UNCHANGED reusable
  <2>1. whw \in Pages /\ whw' \in 1..(NPages + 1)
    BY <1>3, Numbers DEF Pages
  <2> QED
    BY <1>1, <1>3, <2>1, TakeInv
<1>4. CASE UNCHANGED <<content, dirty, wtree, wstamp, freed, reusable, whw>>
  <2>1. TypeOK'
    BY <1>1, <1>4, Zenon DEF IInv, TypeOK, committed, scanvars
  <2>2. TableInv' /\ FreeInv' /\ AccountInv' /\ GhostInv' /\ PinInv' /\ SnapInv' /\ ScanInv' /\ IdleInv'
    BY <1>1, <1>4, WriterFrame, CacheFrame, ContentFrame, NoScan DEF IdleInv
  <2>3. PoolInv' /\ WorkInv' /\ StampInv' /\ CoverInv' /\ KeyInv'
    BY <1>1, <1>4 DEF IInv, TxnInv, PoolInv, WorkInv, StampInv, CoverInv, KeyInv, Drawn, Fresh,
                      committed
  <2> QED
    BY <2>1, <2>2, <2>3 DEF IInv, TxnInv
<1> QED
  BY <1>2, <1>3, <1>4 DEF alloc

=============================================================================
