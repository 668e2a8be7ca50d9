--------------------------- MODULE MvccInvariant ----------------------------
(***************************************************************************)
(* Proofs about Mvcc, for every number of readers, slots, keys and pages,  *)
(* under the assumption that newest_meta answers with a meta that was the  *)
(* newest at some instant of the call (StraddledReads = FALSE).            *)
(*                                                                         *)
(* The argument: a pin is as good as confirmed once its recheck began at a *)
(* moment when it named the newest commit, because from then on it stands  *)
(* in the table; so a scan either finds it or began no earlier, and the    *)
(* cached bound never passes a confirmed pin.  A page of the entry of      *)
(* transaction f is in no snapshot from f on, and only entries at or below *)
(* the bound are drawn: a drawn page is in no snapshot a pin protects.     *)
(* A ghost fits the committed state it would follow, so its pages stay     *)
(* accounted for when it surfaces; what they hold is another matter: the   *)
(* facts about contents end at the first ghost that surfaced.              *)
(***************************************************************************)
EXTENDS Mvcc, TLAPS

Confirmed(r) == rd[r].pc = "pinned" \/ (rd[r].pc = "answer" /\ rd[r].at = rd[r].meta)

(* Every read transaction has a slot of its own, in the state its step implies. *)
TableInv ==
  \A r \in Readers : rd[r].pc # "idle" =>
    /\ rd[r].slot \in Slots
    /\ \A s \in Readers : s # r /\ rd[s].pc # "idle" => rd[s].slot # rd[r].slot
    /\ slot[rd[r].slot].word # "free"
    /\ rd[r].pc \in {"recheck", "answer", "pinned"} => slot[rd[r].slot].txn = rd[r].meta

(* No confirmed pin is below the cached bound or above the newest commit. *)
PinInv ==
  /\ cache <= newest
  /\ \A r \in Readers : /\ rd[r].meta <= newest
                        /\ rd[r].pc = "answer" => rd[r].meta <= rd[r].at
                        /\ Confirmed(r) => cache <= rd[r].meta

(* A scan under way has accounted for every confirmed pin it has passed. *)
ScanInv ==
  wpc \in {"scan_word", "scan_txn"} =>
    /\ oldest <= newest
    /\ \A r \in Readers : Confirmed(r) =>
         /\ rd[r].slot < scan => oldest <= rd[r].meta
         /\ wpc = "scan_txn" /\ rd[r].slot = scan => occupied \/ rd[r].meta = newest
    /\ wpc = "scan_txn" => scan < NSlots

(* The freelist entry of f lists pages that no snapshot from f on refers to. *)
FreeInv ==
  /\ \A f \in Txn : free[f] # {} => f <= newest
  /\ \A f, t \in Txn : f <= t /\ t <= newest => \A k \in Keys : tree[t][k] \notin free[f]
  /\ \A f, g \in Txn : f # g => free[f] \cap free[g] = {}
  /\ \A f \in Txn : \A p \in free[f] : p < hw
  /\ \A t \in Txn : t <= newest => \A k \in Keys : tree[t][k] < hw

(* Every snapshot from the cached bound on is intact, below a ghost. *)
SnapInv == \A t \in Txn : cache <= t /\ t <= newest /\ t < surfaced => Intact(t)

(* Accounting of the newest committed state. *)
AccountInv ==
  /\ \A p \in 1..(hw - 1) : (\E k \in Keys : tree[newest][k] = p) \/ \E f \in Txn : p \in free[f]
  /\ \A j, k \in Keys : j # k /\ tree[newest][j] # NoPage => tree[newest][j] # tree[newest][k]

(* Trees T, freelist F and high water H can follow the newest commit: they
   only shrink its entries, and account for every page exactly once. *)
Follows(T, F, H) ==
  /\ newest < MaxTxn /\ hw <= H
  /\ \A f \in Txn : F[f] # {} => f <= newest + 1
  /\ \A f \in Txn : f <= newest => F[f] \subseteq free[f]
  /\ \A k \in Keys : \A f \in Txn : T[k] \notin F[f]
  /\ \A f, g \in Txn : f # g => F[f] \cap F[g] = {}
  /\ \A f \in Txn : \A p \in F[f] : p < H
  /\ \A k \in Keys : T[k] < H
  /\ \A p \in 1..(H - 1) : (\E k \in Keys : T[k] = p) \/ \E f \in Txn : p \in F[f]
  /\ \A j, k \in Keys : j # k /\ T[j] # NoPage => T[j] # T[k]

(* So can the ghost. *)
GhostInv == ghw # 0 => Follows(gtree, gfree, ghw)

(* The working state of the open write transaction. *)
Drawn(p) == \E f \in taken : p \in free[f]
Fresh(p) == hw <= p /\ p < whw

(* Only entries at or below the bound are drawn, oldest first; what the
   transaction may write was drawn or lies above the committed high water. *)
PoolInv ==
  /\ newest < MaxTxn /\ hw <= whw
  /\ \A f \in taken : f <= cache /\ f <= cursor
  /\ \A p \in dirty \cup reusable : Drawn(p) \/ Fresh(p)
  /\ \A p \in freed : \E k \in Keys : tree[newest][k] = p

(* The working trees: own pages or those of the base, each in one place. *)
WorkInv ==
  /\ \A k \in Keys : wtree[k] \in dirty \/ wtree[k] = NoPage \/ wtree[k] = tree[newest][k]
  /\ \A k \in Keys : wtree[k] \notin freed \cup reusable
  /\ \A j, k \in Keys : j # k /\ wtree[j] # NoPage => wtree[j] # wtree[k]
  /\ \A p \in dirty : \E k \in Keys : wtree[k] = p

(* They hold what the transaction last wrote there, below a ghost. *)
StampInv ==
  newest < surfaced => \A k \in Keys : wtree[k] # NoPage => content[wtree[k]] = wstamp[k]

(* No page below high water is lost. *)
CoverInv ==
  \A p \in 1..(whw - 1) :
    \/ \E k \in Keys : wtree[k] = p
    \/ p \in reusable \cup freed
    \/ \E f \in Txn \ taken : p \in free[f]

(* Between Put and alloc the page of the key is not the transaction's own. *)
KeyInv == wpc # "open" => wtree[wkey] \notin dirty

TxnInv == wpc # "idle" => PoolInv /\ WorkInv /\ StampInv /\ CoverInv /\ KeyInv

(* Between transactions there is no working state. *)
IdleInv == wpc = "idle" => dirty = {} /\ reusable = {} /\ freed = {} /\ taken = {}

IInv ==
  /\ TypeOK /\ TableInv /\ PinInv /\ ScanInv /\ FreeInv /\ SnapInv /\ AccountInv
  /\ GhostInv /\ TxnInv /\ IdleInv

-----------------------------------------------------------------------------
LEMMA IdleType == IdleReader \in ReaderState /\ 0 \in Txn
BY SizeAssumption DEF IdleReader, ReaderState, Txn

LEMMA InitIInv == Init => IInv
<1> SUFFICES ASSUME Init PROVE IInv
  OBVIOUS
<1> USE SizeAssumption DEF Init
<1>1. TypeOK
  <2>1. /\ newest \in Txn /\ cache \in Txn /\ cursor \in Txn /\ oldest \in Txn
        /\ attempt \in Attempts
    BY DEF Txn, Attempts
  <2>2. /\ tree \in [Txn -> Map(Pages \cup {NoPage})] /\ stamp \in [Txn -> Map(Attempts)]
        /\ wtree \in Map(Pages \cup {NoPage}) /\ wstamp \in Map(Attempts)
        /\ gtree \in Map(Pages \cup {NoPage}) /\ gstamp \in Map(Attempts)
        /\ content \in [Pages -> Attempts]
    BY DEF Map, Attempts
  <2>3. free \in [Txn -> SUBSET Pages] /\ gfree \in [Txn -> SUBSET Pages]
        /\ ghw \in 0..(NPages + 1) /\ surfaced \in 1..(MaxTxn + 1)
        /\ hw \in 1..(NPages + 1) /\ whw \in 1..(NPages + 1)
        /\ scan \in 0..NSlots
    OBVIOUS
  <2>4. slot \in [Slots -> SlotState]
    BY DEF SlotState, Txn
  <2>5. rd \in [Readers -> ReaderState]
    BY IdleType
  <2> QED
    BY <2>1, <2>2, <2>3, <2>4, <2>5, Zenon DEF TypeOK
<1>2. TableInv /\ PinInv /\ ScanInv
  BY DEF TableInv, PinInv, ScanInv, IdleReader, Confirmed
<1>3. FreeInv
  BY DEF FreeInv, NoPage, Txn
<1>4. SnapInv /\ AccountInv /\ GhostInv /\ TxnInv /\ IdleInv
  BY DEF SnapInv, AccountInv, GhostInv, TxnInv, IdleInv, Intact, NoPage, Txn
<1> QED
  BY <1>1, <1>2, <1>3, <1>4 DEF IInv

-----------------------------------------------------------------------------
(* Steps of readers leave the committed state and the writer alone. *)
LEMMA ReaderFrame ==
  ASSUME IInv, UNCHANGED <<committed, content, cache, writer>>
  PROVE  FreeInv' /\ SnapInv' /\ AccountInv' /\ GhostInv' /\ TxnInv' /\ IdleInv'
<1>1. FreeInv' /\ AccountInv' /\ GhostInv'
  BY DEF IInv, FreeInv, AccountInv, GhostInv, Follows, committed
<1>2. SnapInv'
  BY DEF IInv, SnapInv, Intact, committed
<1>3. TxnInv' /\ IdleInv'
  BY DEF IInv, TxnInv, IdleInv, PoolInv, WorkInv, StampInv, CoverInv, KeyInv, Drawn, Fresh,
         committed, writer, txnvars, poolvars, scanvars
<1> QED
  BY <1>1, <1>2, <1>3

(* What the proofs below need of the numbers in the state. *)
LEMMA Numbers ==
  ASSUME IInv
  PROVE  /\ newest \in Nat /\ cache \in Nat /\ oldest \in Nat /\ scan \in Nat
         /\ MaxTxn \in Nat /\ NSlots \in Nat /\ NPages \in Nat
         /\ hw \in Nat /\ whw \in Nat /\ 1 <= hw /\ 1 <= whw
         /\ ghw \in Nat /\ surfaced \in Nat /\ 1 <= surfaced
         /\ \A r \in Readers : rd[r].meta \in Nat /\ rd[r].at \in Nat /\ rd[r].slot \in Int
BY SizeAssumption DEF IInv, TypeOK, Txn, ReaderState, Slots

LEMMA PoolTypes ==
  ASSUME IInv
  PROVE  /\ dirty \subseteq Pages /\ reusable \subseteq Pages /\ freed \subseteq Pages
         /\ taken \subseteq Nat /\ wkey \in Keys /\ \A f \in Txn : free[f] \subseteq Pages
<1>1. taken \subseteq Txn
  BY DEF IInv, TypeOK
<1>2. Txn \subseteq Nat
  BY SizeAssumption DEF Txn
<1>3. dirty \subseteq Pages /\ reusable \subseteq Pages /\ freed \subseteq Pages /\ wkey \in Keys
  BY DEF IInv, TypeOK
<1>4. \A f \in Txn : free[f] \subseteq Pages
  BY DEF IInv, TypeOK
<1> QED
  BY <1>1, <1>2, <1>3, <1>4, Zenon

LEMMA Transitive ==
  ASSUME NEW a \in Nat, NEW b \in Nat, NEW c \in Nat, a <= b, b <= c
  PROVE  a <= c
OBVIOUS

LEMMA ClaimStep ==
  ASSUME IInv, NEW r \in Readers, NEW i \in Slots, Claim(r, i) PROVE IInv'
<1>1. TypeOK'
  <2>1. slot' \in [Slots -> SlotState]
    BY DEF IInv, TypeOK, Claim, SlotState
  <2>2. rd' \in [Readers -> ReaderState]
    <3>1. [IdleReader EXCEPT !.pc = "init", !.slot = i] \in ReaderState
      <4>1. i \in Nat
        BY SizeAssumption DEF Slots
      <4> QED
        BY <4>1, IdleType, Zenon DEF ReaderState, IdleReader
    <3> QED
      BY <3>1 DEF IInv, TypeOK, Claim
  <2> QED
    BY <2>1, <2>2, Zenon DEF IInv, TypeOK, Claim, committed, writer, txnvars, poolvars, scanvars
<1>2. TableInv'
  <2>1. \A s \in Readers : s # r => rd'[s] = rd[s]
    BY DEF Claim, IInv, TypeOK
  <2>2. rd'[r].pc = "init" /\ rd'[r].slot = i
    BY DEF Claim, IInv, TypeOK, IdleReader
  <2>3. \A j \in Slots : /\ slot'[j].txn = slot[j].txn
                         /\ slot'[j].word # "free" <=> (j = i \/ slot[j].word # "free")
    BY DEF Claim, IInv, TypeOK, SlotState
  <2>4. slot[i].word = "free"
    BY DEF Claim
  <2> QED
    BY <2>1, <2>2, <2>3, <2>4 DEF IInv, TableInv
<1>3. PinInv' /\ ScanInv'
  <2>1. \A s \in Readers : s # r => rd'[s] = rd[s]
    BY DEF Claim, IInv, TypeOK
  <2>2. rd'[r].pc = "init" /\ rd'[r].meta = 0
    BY DEF Claim, IInv, TypeOK, IdleReader
  <2>3. newest' = newest /\ cache' = cache /\ wpc' = wpc /\ oldest' = oldest /\ scan' = scan
        /\ occupied' = occupied
    BY DEF Claim, committed, writer, scanvars
  <2>4. \A s \in Readers : Confirmed(s)' <=> s # r /\ Confirmed(s)
    BY <2>1, <2>2 DEF Confirmed
  <2> QED
    BY <2>1, <2>2, <2>3, <2>4, Numbers DEF IInv, PinInv, ScanInv
<1>4. FreeInv' /\ SnapInv' /\ AccountInv' /\ GhostInv' /\ TxnInv' /\ IdleInv'
  BY ReaderFrame DEF Claim
<1> QED
  BY <1>1, <1>2, <1>3, <1>4 DEF IInv

(* A step that changes one reader and at most the slot it owns. *)
OwnStep(r) ==
  /\ rd[r].pc # "idle"
  /\ \A s \in Readers \ {r} : rd'[s] = rd[s]
  /\ \A j \in Slots \ {rd[r].slot} : slot'[j] = slot[j]
  /\ UNCHANGED <<committed, content, cache, writer>>

LEMMA OwnStepInv ==
  ASSUME IInv, NEW r \in Readers, OwnStep(r), TypeOK',
         rd'[r].pc # "idle" =>
           /\ rd'[r].slot = rd[r].slot
           /\ slot'[rd[r].slot].word # "free"
           /\ rd'[r].pc \in {"recheck", "answer", "pinned"} =>
                slot'[rd[r].slot].txn = rd'[r].meta,
         rd'[r].meta <= newest,
         rd'[r].pc = "answer" => rd'[r].meta <= rd'[r].at,
         Confirmed(r)' => (Confirmed(r) /\ rd'[r].meta = rd[r].meta) \/ rd'[r].meta = newest
  PROVE  IInv'
<1>1. TableInv'
  BY DEF IInv, TableInv, OwnStep
<1>2. newest' = newest /\ cache' = cache /\ wpc' = wpc /\ oldest' = oldest /\ scan' = scan
      /\ occupied' = occupied
  BY DEF OwnStep, committed, writer, scanvars
<1>3. \A s \in Readers : s # r => (Confirmed(s)' <=> Confirmed(s)) /\ rd'[s] = rd[s]
  BY DEF OwnStep, Confirmed
<1>4. Confirmed(r)' => rd'[r].slot = rd[r].slot
  BY DEF Confirmed
<1>5. PinInv'
  BY <1>2, <1>3, Numbers DEF IInv, PinInv
<1>6. ScanInv'
  BY <1>2, <1>3, <1>4, Numbers DEF IInv, ScanInv
<1>7. FreeInv' /\ SnapInv' /\ AccountInv' /\ GhostInv' /\ TxnInv' /\ IdleInv'
  BY ReaderFrame DEF OwnStep
<1> QED
  BY <1>1, <1>5, <1>6, <1>7 DEF IInv

LEMMA ReaderTypes ==
  ASSUME IInv, NEW r \in Readers, OwnStep(r), NEW x \in ReaderState, rd' = [rd EXCEPT ![r] = x],
         slot' \in [Slots -> SlotState]
  PROVE  TypeOK'
BY Zenon DEF IInv, TypeOK, OwnStep, committed, writer, txnvars, poolvars, scanvars

(* The steps of claim_and_pin, release and death that follow the claim. *)
LEMMA OwnSteps ==
  ASSUME IInv, ~StraddledReads, NEW r \in Readers,
         \/ GoLive(r) \/ ReadMeta(r) \/ StorePin(r) \/ RecheckBegin(r) \/ RecheckEnd(r)
         \/ release_slot(r) \/ ReaderDies(r) \/ Sweep(r)
  PROVE  IInv'
<1>0. /\ rd \in [Readers -> ReaderState] /\ rd[r] \in ReaderState
      /\ slot \in [Slots -> SlotState] /\ newest \in Txn
      /\ rd[r].pc # "idle" => rd[r].slot \in Slots /\ slot[rd[r].slot].word # "free"
      /\ rd[r].meta <= newest
      /\ UNPINNED \in Txn \cup {UNPINNED}
  BY DEF IInv, TypeOK, TableInv, PinInv
<1>1. CASE GoLive(r)
  <2> DEFINE x == [rd[r] EXCEPT !.pc = "meta"]
             y == [word |-> "live", txn |-> UNPINNED]
  <2>1. rd' = [rd EXCEPT ![r] = x] /\ x \in ReaderState
    BY <1>0, <1>1 DEF GoLive, ReaderState
  <2>2. slot' = [slot EXCEPT ![rd[r].slot] = y] /\ y \in SlotState
    BY <1>0, <1>1 DEF GoLive, SlotState
  <2>3. OwnStep(r)
    BY <1>0, <1>1, <2>1, <2>2 DEF OwnStep, GoLive
  <2>4. rd'[r].pc = "meta" /\ rd'[r].slot = rd[r].slot /\ rd'[r].meta = rd[r].meta
        /\ slot'[rd[r].slot].word = "live"
    BY <1>0, <1>1, <2>1, <2>2, <2>3 DEF OwnStep, ReaderState
  <2>5. TypeOK'
    <3>1. slot' \in [Slots -> SlotState]
      BY <1>0, <2>2, Zenon
    <3> QED
      BY <2>1, <2>3, <3>1, ReaderTypes, Zenon
  <2> QED
    BY <1>0, <2>3, <2>4, <2>5, OwnStepInv DEF Confirmed
<1>2. CASE ReadMeta(r)
  <2> DEFINE x == [rd[r] EXCEPT !.pc = "store", !.meta = newest]
  <2>1. rd' = [rd EXCEPT ![r] = x] /\ x \in ReaderState /\ slot' = slot
    BY <1>0, <1>2, Zenon DEF ReadMeta, ReaderState
  <2>3. OwnStep(r)
    BY <1>0, <1>2, <2>1 DEF OwnStep, ReadMeta
  <2>4. rd'[r].pc = "store" /\ rd'[r].slot = rd[r].slot /\ rd'[r].meta = newest
    BY <1>0, <2>1 DEF ReaderState
  <2>5. TypeOK'
    BY <1>0, <2>1, <2>3, ReaderTypes, Zenon
  <2> QED
    BY <1>0, <2>1, <2>3, <2>4, <2>5, OwnStepInv, Numbers DEF Confirmed, OwnStep
<1>3. CASE StorePin(r)
  <2> DEFINE x == [rd[r] EXCEPT !.pc = "recheck"]
             y == [word |-> "live", txn |-> rd[r].meta]
  <2>1. rd' = [rd EXCEPT ![r] = x] /\ x \in ReaderState
    BY <1>0, <1>3 DEF StorePin, ReaderState
  <2>2. slot' = [slot EXCEPT ![rd[r].slot] = y] /\ y \in SlotState
    BY <1>0, <1>3 DEF StorePin, SlotState, ReaderState
  <2>3. OwnStep(r)
    BY <1>0, <1>3, <2>1, <2>2 DEF OwnStep, StorePin
  <2>4. rd'[r].pc = "recheck" /\ rd'[r].slot = rd[r].slot /\ rd'[r].meta = rd[r].meta
        /\ slot'[rd[r].slot] = y
    BY <1>0, <1>3, <2>1, <2>2, <2>3 DEF OwnStep, ReaderState
  <2>5. TypeOK'
    <3>1. slot' \in [Slots -> SlotState]
      BY <1>0, <2>2, Zenon
    <3> QED
      BY <2>1, <2>3, <3>1, ReaderTypes, Zenon
  <2> QED
    BY <1>0, <2>3, <2>4, <2>5, OwnStepInv DEF Confirmed
<1>4. CASE RecheckBegin(r)
  <2> DEFINE x == [rd[r] EXCEPT !.pc = "answer", !.at = newest]
  <2>1. rd' = [rd EXCEPT ![r] = x] /\ x \in ReaderState /\ slot' = slot
    BY <1>0, <1>4, Zenon DEF RecheckBegin, ReaderState
  <2>3. OwnStep(r)
    BY <1>0, <1>4, <2>1 DEF OwnStep, RecheckBegin
  <2>4. rd'[r].pc = "answer" /\ rd'[r].slot = rd[r].slot /\ rd'[r].meta = rd[r].meta
        /\ rd'[r].at = newest
    BY <1>0, <2>1 DEF ReaderState
  <2>5. slot[rd[r].slot].txn = rd[r].meta
    BY <1>4 DEF IInv, TableInv, RecheckBegin
  <2>6. TypeOK'
    BY <1>0, <2>1, <2>3, ReaderTypes, Zenon
  <2> QED
    BY <1>0, <2>1, <2>3, <2>4, <2>5, <2>6, OwnStepInv DEF Confirmed, OwnStep
<1>5. CASE RecheckEnd(r)
  <2>1. PICK t \in Answers(r) :
          rd' = [rd EXCEPT ![r].pc = IF t = rd[r].meta THEN "pinned" ELSE "meta"]
    BY <1>5, Zenon DEF RecheckEnd
  <2> DEFINE c == IF t = rd[r].meta THEN "pinned" ELSE "meta"
             x == [rd[r] EXCEPT !.pc = c]
  <2>2. rd' = [rd EXCEPT ![r] = x] /\ x \in ReaderState /\ slot' = slot
    BY <1>0, <1>5, <2>1, Zenon DEF RecheckEnd, ReaderState
  <2>3. OwnStep(r)
    BY <1>0, <1>5, <2>2 DEF OwnStep, RecheckEnd
  <2>4. rd'[r].pc = c /\ rd'[r].slot = rd[r].slot /\ rd'[r].meta = rd[r].meta
    BY <1>0, <2>2 DEF ReaderState
  <2>5. rd[r].pc = "answer" /\ slot[rd[r].slot].txn = rd[r].meta /\ rd[r].meta <= rd[r].at
    BY <1>5 DEF IInv, TableInv, PinInv, RecheckEnd
  <2>6. rd[r].at <= t /\ t \in Nat
    BY SizeAssumption DEF Answers, Txn
  <2>7. c = "pinned" => Confirmed(r)
    BY <2>5, <2>6, Numbers DEF Confirmed
  <2>8. TypeOK'
    BY <1>0, <2>2, <2>3, ReaderTypes, Zenon
  <2> QED
    BY <1>0, <2>2, <2>3, <2>4, <2>5, <2>7, <2>8, OwnStepInv DEF Confirmed, OwnStep
<1>6. CASE release_slot(r) \/ Sweep(r)
  <2> DEFINE y == [slot[rd[r].slot] EXCEPT !.word = "free"]
  <2>1. rd' = [rd EXCEPT ![r] = IdleReader] /\ IdleReader \in ReaderState
    BY <1>6, IdleType DEF release_slot, Sweep
  <2>2. slot' = [slot EXCEPT ![rd[r].slot] = y] /\ y \in SlotState /\ rd[r].pc # "idle"
    BY <1>0, <1>6 DEF release_slot, Sweep, SlotState
  <2>3. OwnStep(r)
    BY <1>0, <1>6, <2>1, <2>2 DEF OwnStep, release_slot, Sweep
  <2>4. rd'[r].pc = "idle" /\ rd'[r].meta = 0
    BY <1>0, <2>1 DEF IdleReader
  <2>5. TypeOK'
    <3>1. slot' \in [Slots -> SlotState]
      BY <1>0, <2>2
    <3> QED
      BY <2>1, <2>3, <3>1, ReaderTypes, Zenon
  <2> QED
    BY <1>0, <2>3, <2>4, <2>5, OwnStepInv, Numbers DEF Confirmed
<1>7. CASE ReaderDies(r)
  <2> DEFINE x == [rd[r] EXCEPT !.pc = "dead"]
  <2>1. rd' = [rd EXCEPT ![r] = x] /\ x \in ReaderState /\ slot' = slot
    BY <1>0, <1>7 DEF ReaderDies, ReaderState
  <2>3. OwnStep(r)
    BY <1>0, <1>7, <2>1 DEF OwnStep, ReaderDies
  <2>4. rd'[r].pc = "dead" /\ rd'[r].slot = rd[r].slot /\ rd'[r].meta = rd[r].meta
    BY <1>0, <2>1 DEF ReaderState
  <2>5. TypeOK'
    BY <1>0, <2>1, <2>3, ReaderTypes, Zenon
  <2> QED
    BY <1>0, <2>1, <2>3, <2>4, <2>5, OwnStepInv DEF Confirmed, OwnStep
<1> QED
  BY <1>1, <1>2, <1>3, <1>4, <1>5, <1>6, <1>7

LEMMA ReaderStep ==
  ASSUME IInv, ~StraddledReads, NEW r \in Readers, ReadTxn(r) PROVE IInv'
BY ClaimStep, OwnSteps DEF ReadTxn

-----------------------------------------------------------------------------
(* Steps of the writer before its commit. *)
LEMMA WriterFrame ==
  ASSUME IInv, UNCHANGED <<committed, slot, rd>>
  PROVE  TableInv' /\ FreeInv' /\ AccountInv' /\ GhostInv'
BY DEF IInv, TableInv, FreeInv, AccountInv, GhostInv, Follows, committed

LEMMA CacheFrame ==
  ASSUME IInv, UNCHANGED <<committed, rd, cache>>
  PROVE  PinInv'
BY DEF IInv, PinInv, Confirmed, committed

LEMMA ContentFrame ==
  ASSUME IInv, UNCHANGED <<committed, cache, content>>
  PROVE  SnapInv'
BY DEF IInv, SnapInv, Intact, committed

LEMMA NoScan ==
  ASSUME wpc' \notin {"scan_word", "scan_txn"}
  PROVE  ScanInv'
BY DEF ScanInv

LEMMA AtBound ==
  ASSUME IInv
  PROVE  cache <= newest /\ newest <= newest /\ newest \in Txn
<1>1. cache <= newest /\ newest \in Txn
  BY DEF IInv, PinInv, TypeOK
<1>2. newest <= newest
  BY Numbers
<1> QED
  BY <1>1, <1>2

(* A page the transaction may write is in no snapshot from the bound on. *)
LEMMA OwnPage ==
  ASSUME IInv, wpc # "idle", NEW p, Drawn(p) \/ hw <= p
  PROVE  \A t \in Txn : cache <= t /\ t <= newest => \A k \in Keys : tree[t][k] # p
<1> SUFFICES ASSUME NEW t \in Txn, cache <= t, t <= newest, NEW k \in Keys PROVE tree[t][k] # p
  OBVIOUS
<1>1. t \in Nat /\ cache \in Nat /\ hw \in Nat /\ tree[t][k] \in Nat
  BY Numbers, SizeAssumption DEF IInv, TypeOK, Txn, Map, Pages, NoPage
<1>2. CASE Drawn(p)
  <2>1. PICK f \in taken : p \in free[f]
    BY <1>2 DEF Drawn
  <2>2. f <= cache /\ f \in Txn
    BY DEF IInv, TypeOK, TxnInv, PoolInv
  <2>3. f <= t
    BY <1>1, <2>2 DEF Txn
  <2> QED
    BY <2>1, <2>2, <2>3 DEF IInv, FreeInv
<1>3. CASE hw <= p
  <2>1. tree[t][k] < hw /\ hw <= p
    BY <1>3 DEF IInv, FreeInv
  <2> QED
    BY <1>1, <2>1
<1> QED
  BY <1>2, <1>3

(* Such a page is not in the base of the transaction, nor in an entry that was
   not drawn. *)
LEMMA OwnPageNotBase ==
  ASSUME IInv, wpc # "idle", NEW p, Drawn(p) \/ hw <= p
  PROVE  /\ \A k \in Keys : tree[newest][k] # p
         /\ \A f \in Txn \ taken : p \notin free[f]
<1>1. cache <= newest /\ newest <= newest /\ newest \in Txn
  BY AtBound
<1>2. \A k \in Keys : tree[newest][k] # p
  BY <1>1, OwnPage
<1>3. ASSUME NEW f \in Txn \ taken, p \in free[f] PROVE FALSE
  <2>1. CASE Drawn(p)
    BY <1>3, <2>1 DEF Drawn, IInv, FreeInv, TypeOK
  <2>2. CASE hw <= p
    <3>1. p < hw /\ hw <= p /\ p \in Pages
      BY <1>3, <2>2 DEF IInv, FreeInv, TypeOK
    <3> QED
      BY <3>1, Numbers DEF Pages
  <2> QED
    BY <2>1, <2>2
<1> QED
  BY <1>2, <1>3

LEMMA WriteOwn ==
  ASSUME IInv, wpc # "idle", NEW p \in Pages, Drawn(p) \/ hw <= p,
         content' = [content EXCEPT ![p] = attempt], UNCHANGED <<committed, cache>>
  PROVE  SnapInv' /\ content' \in [Pages -> Attempts]
<1>1. content' \in [Pages -> Attempts]
  BY DEF IInv, TypeOK
<1>2. ASSUME NEW t \in Txn, cache <= t, t <= newest, t < surfaced, NEW k \in Keys,
             tree[t][k] # NoPage
      PROVE  content'[tree[t][k]] = stamp[t][k]
  <2>1. tree[t][k] # p /\ tree[t][k] \in Pages
    BY <1>2, OwnPage DEF IInv, TypeOK, Map
  <2>2. content[tree[t][k]] = stamp[t][k]
    BY <1>2 DEF IInv, SnapInv, Intact
  <2> QED
    BY <2>1, <2>2 DEF IInv, TypeOK
<1>3. newest' = newest /\ tree' = tree /\ stamp' = stamp /\ cache' = cache
      /\ surfaced' = surfaced
  BY DEF committed
<1>4. SnapInv'
  BY <1>2, <1>3 DEF SnapInv, Intact
<1> QED
  BY <1>1, <1>4

LEMMA BeginStep ==
  ASSUME IInv, make_write_txn PROVE IInv'
<1>1. TypeOK'
  <2>1. attempt' \in Attempts
    BY SizeAssumption DEF IInv, TypeOK, make_write_txn, Attempts
  <2>2. wtree' \in Map(Pages \cup {NoPage}) /\ wstamp' \in Map(Attempts)
    BY Zenon DEF IInv, TypeOK, make_write_txn
  <2> QED
    BY <2>1, <2>2, Zenon DEF IInv, TypeOK, make_write_txn, committed, poolvars, scanvars
<1>2. TableInv' /\ FreeInv' /\ AccountInv' /\ GhostInv' /\ PinInv' /\ SnapInv' /\ ScanInv'
  BY WriterFrame, CacheFrame, ContentFrame, NoScan DEF make_write_txn
<1>3. dirty = {} /\ reusable = {} /\ freed = {} /\ taken = {}
  BY DEF IInv, IdleInv, make_write_txn
<1>4. IdleInv'
  BY DEF IdleInv, make_write_txn
<1>5. TxnInv'
  <2>1. newest' = newest /\ tree' = tree /\ free' = free /\ hw' = hw /\ content' = content
        /\ dirty' = {} /\ reusable' = {} /\ freed' = {} /\ taken' = {} /\ cursor' = cursor
        /\ wtree' = tree[newest] /\ wstamp' = stamp[newest] /\ whw' = hw /\ newest < MaxTxn
        /\ wpc' = "open" /\ surfaced' = surfaced
    BY <1>3 DEF make_write_txn, committed, poolvars
  <2>2. PoolInv' /\ KeyInv'
    BY <2>1, Numbers DEF PoolInv, KeyInv
  <2>3. WorkInv'
    BY <2>1 DEF WorkInv, IInv, AccountInv
  <2>4. StampInv'
    <3>1. newest < surfaced => Intact(newest)
      BY AtBound DEF IInv, SnapInv
    <3> QED
      BY <2>1, <3>1 DEF StampInv, Intact
  <2>5. CoverInv'
    BY <2>1 DEF CoverInv, IInv, AccountInv
  <2> QED
    BY <2>2, <2>3, <2>4, <2>5 DEF TxnInv
<1> QED
  BY <1>1, <1>2, <1>4, <1>5 DEF IInv

LEMMA PutStep ==
  ASSUME IInv, NEW k \in Keys, Put(k) PROVE IInv'
<1>1. CASE wtree[k] \in dirty
  <2> DEFINE p == wtree[k]
  <2>1. p \in Pages /\ (Drawn(p) \/ Fresh(p)) /\ wpc = "open"
    BY <1>1 DEF IInv, TypeOK, TxnInv, PoolInv, Put
  <2>2. /\ content' = [content EXCEPT ![p] = attempt] /\ wstamp' = [wstamp EXCEPT ![k] = attempt]
        /\ UNCHANGED <<committed, slot, rd, cache, wpc, attempt, wtree, dirty, freed, whw,
                       poolvars, scanvars, wkey, draws>>
    BY <1>1 DEF Put
  <2>3. SnapInv' /\ content' \in [Pages -> Attempts]
    BY <2>1, <2>2, WriteOwn, Zenon DEF Fresh
  <2>4. TypeOK'
    <3>1. wstamp' \in Map(Attempts)
      BY <2>2 DEF IInv, TypeOK, Map
    <3> QED
      BY <2>2, <2>3, <3>1, Zenon DEF IInv, TypeOK, committed, poolvars, scanvars
  <2>5. TableInv' /\ FreeInv' /\ AccountInv' /\ GhostInv' /\ PinInv' /\ ScanInv' /\ IdleInv'
    BY <2>1, <2>2, WriterFrame, CacheFrame, NoScan DEF IdleInv
  <2>6. PoolInv' /\ WorkInv' /\ CoverInv' /\ KeyInv'
    BY <2>1, <2>2 DEF IInv, TxnInv, PoolInv, WorkInv, CoverInv, KeyInv, Drawn, Fresh, committed,
                      poolvars
  <2>7. StampInv'
    <3> SUFFICES ASSUME newest < surfaced, NEW j \in Keys, wtree[j] # NoPage
                 PROVE  content'[wtree[j]] = wstamp'[j]
      BY <2>2 DEF StampInv, committed
    <3>0. content[wtree[j]] = wstamp[j] /\ wtree[j] \in Pages
      BY <2>1 DEF IInv, TxnInv, StampInv, TypeOK, Map
    <3>1. CASE j = k
      BY <2>1, <2>2, <3>1 DEF IInv, TypeOK, Map
    <3>2. CASE j # k
      <4>1. wtree[j] # p
        BY <2>1, <3>2 DEF IInv, TxnInv, WorkInv
      <4> QED
        BY <2>2, <3>0, <3>2, <4>1 DEF IInv, TypeOK, Map
    <3> QED
      BY <3>1, <3>2
  <2> QED
    BY <2>3, <2>4, <2>5, <2>6, <2>7 DEF IInv, TxnInv
<1>2. CASE wtree[k] \notin dirty
  <2>1. /\ wkey' = k /\ draws' = 0 /\ wpc' \in {"refill", "take"} /\ wpc = "open"
        /\ UNCHANGED <<content, wstamp, committed, slot, rd, cache, attempt, wtree, dirty, freed,
                       whw, poolvars, scanvars>>
    BY <1>2 DEF Put
  <2>2. TypeOK'
    BY <2>1, Zenon DEF IInv, TypeOK, committed, poolvars, scanvars
  <2>3. TableInv' /\ FreeInv' /\ AccountInv' /\ GhostInv' /\ PinInv' /\ SnapInv' /\ ScanInv' /\ IdleInv'
    BY <2>1, WriterFrame, CacheFrame, ContentFrame, NoScan DEF IdleInv
  <2>4. PoolInv' /\ WorkInv' /\ CoverInv' /\ StampInv' /\ KeyInv'
    BY <1>2, <2>1, Zenon DEF IInv, TxnInv, PoolInv, WorkInv, StampInv, CoverInv, KeyInv, Drawn, Fresh,
                      committed, poolvars
  <2> QED
    BY <2>2, <2>3, <2>4 DEF IInv, TxnInv
<1> QED
  BY <1>1, <1>2

LEMMA DelStep ==
  ASSUME IInv, NEW k \in Keys, Del(k) PROVE IInv'
<1> DEFINE p == wtree[k]
<1>1. /\ wpc = "open" /\ p # NoPage /\ p \in Pages
      /\ dirty' = dirty \ {p} /\ wtree' = [wtree EXCEPT ![k] = NoPage]
      /\ UNCHANGED <<committed, content, slot, rd, cache, wpc, attempt, wstamp, whw, taken, cursor,
                     scanvars, wkey, draws>>
  BY DEF IInv, TypeOK, Map, Del
<1>2. \/ p \in dirty /\ reusable' = reusable \cup {p} /\ freed' = freed
      \/ p \notin dirty /\ freed' = freed \cup {p} /\ reusable' = reusable
  BY DEF Del
<1>3. TypeOK'
  <2>1. wtree' \in Map(Pages \cup {NoPage})
    BY <1>1 DEF IInv, TypeOK, Map
  <2>2. dirty' \subseteq Pages /\ reusable' \subseteq Pages /\ freed' \subseteq Pages
    BY <1>1, <1>2, Zenon DEF IInv, TypeOK
  <2> QED
    BY <1>1, <2>1, <2>2, Zenon DEF IInv, TypeOK, committed, scanvars
<1>4. TableInv' /\ FreeInv' /\ AccountInv' /\ GhostInv' /\ PinInv' /\ SnapInv' /\ ScanInv' /\ IdleInv'
  BY <1>1, WriterFrame, CacheFrame, ContentFrame, NoScan DEF IdleInv
<1>5. PoolInv /\ WorkInv /\ StampInv /\ CoverInv
  BY <1>1 DEF IInv, TxnInv
<1>6. newest' = newest /\ tree' = tree /\ free' = free /\ hw' = hw /\ whw' = whw
      /\ taken' = taken /\ cursor' = cursor /\ cache' = cache /\ surfaced' = surfaced
      /\ \A q : (Drawn(q) <=> Drawn(q)') /\ (Fresh(q) <=> Fresh(q)')
  BY <1>1 DEF committed, Drawn, Fresh
<1>7. wtree \in [Keys -> Pages \cup {NoPage}] /\ wtree'[k] = NoPage
      /\ (\A j \in Keys : j # k => wtree'[j] = wtree[j] /\ wtree[j] # p)
      /\ NoPage \notin Pages
  BY <1>1, <1>5 DEF IInv, TypeOK, Map, WorkInv, NoPage, Pages
<1>8. PoolInv'
  <2>1. \A q \in dirty' \cup reusable' : Drawn(q) \/ Fresh(q)
    BY <1>1, <1>2, <1>5, Zenon DEF PoolInv
  <2>2. \A q \in freed' : \E j \in Keys : tree[newest][j] = q
    BY <1>1, <1>2, <1>5 DEF PoolInv, WorkInv
  <2> QED
    BY <1>5, <1>6, <2>1, <2>2 DEF PoolInv
<1>9. WorkInv'
  <2>1. \A j \in Keys : wtree'[j] \in dirty' \/ wtree'[j] = NoPage \/ wtree'[j] = tree[newest][j]
    BY <1>1, <1>5, <1>7 DEF WorkInv
  <2>2. \A j \in Keys : wtree'[j] \notin freed' \cup reusable'
    BY <1>1, <1>2, <1>5, <1>7 DEF WorkInv, IInv, TypeOK
  <2>3. \A i, j \in Keys : i # j /\ wtree'[i] # NoPage => wtree'[i] # wtree'[j]
    BY <1>5, <1>7 DEF WorkInv
  <2>4. \A q \in dirty' : \E j \in Keys : wtree'[j] = q
    BY <1>1, <1>5, <1>7 DEF WorkInv
  <2> QED
    BY <1>6, <2>1, <2>2, <2>3, <2>4 DEF WorkInv
<1>10. StampInv' /\ KeyInv'
  BY <1>1, <1>5, <1>6, <1>7 DEF StampInv, KeyInv
<1>11. CoverInv'
  <2> SUFFICES ASSUME NEW q \in 1..(whw - 1)
               PROVE  \/ \E j \in Keys : wtree'[j] = q
                      \/ q \in reusable' \cup freed'
                      \/ \E f \in Txn \ taken : q \in free[f]
    BY <1>6 DEF CoverInv
  <2>1. CASE q = p
    BY <1>2, <2>1
  <2>2. CASE q # p
    <3>1. (\E j \in Keys : wtree[j] = q) => \E j \in Keys : wtree'[j] = q
      BY <1>7, <2>2
    <3> QED
      BY <1>2, <1>5, <3>1 DEF CoverInv
  <2> QED
    BY <2>1, <2>2
<1> QED
  BY <1>3, <1>4, <1>8, <1>9, <1>10, <1>11 DEF IInv, TxnInv

=============================================================================
