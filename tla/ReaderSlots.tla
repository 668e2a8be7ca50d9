----------------------------- MODULE ReaderSlots -----------------------------
(***************************************************************************)
(* The reader table in shared memory, one load, store or CAS at a time     *)
(* (shm/readers.rs): threads of several processes claim slots, pin,        *)
(* release, and sweep the slots of processes that are gone; processes die  *)
(* at any step, and their pids are given to new processes.                 *)
(*                                                                         *)
(* A slot is {word, txn, pid_start}.  A word packs a pid (0: the slot is   *)
(* free), the CLAIMING bit and a generation; every change of it is a CAS   *)
(* that counts the generation up.  Of a pinned transaction the model keeps *)
(* only that it is one ("id"); which one is pinned is Mvcc's business.     *)
(***************************************************************************)
EXTENDS Naturals, FiniteSets

CONSTANTS
  Threads, Pids, PidOf,   \* PidOf[t]: the pid thread t runs under
  NSlots,                 \* max_readers
  Tries,                  \* attempts of claim_slot at one slot (4)
  MaxSeq,                 \* bound: generations of a slot that are claimed
  MaxInc,                 \* bound: processes that get the same pid, one after another
  None

ASSUME ConstAssumption ==
  /\ Pids \subseteq Nat \ {0} /\ PidOf \in [Threads -> Pids]
  /\ NSlots \in Nat \ {0} /\ Tries \in Nat \ {0} /\ MaxSeq \in Nat /\ MaxInc \in Nat
  /\ None \notin Threads \X Nat

Slots == 0..(NSlots - 1)
FREE == 0
Pin == {"id", "max"}                \* "max": u64::MAX, claimed but not pinned

VARIABLES
  inc, up,           \* the current process of a pid: its start time, whether it lives
  word, txn, start,  \* the fields of the slots
  th,                \* th[t]: the thread's step and locals
  owner              \* history: the thread and process that last claimed the slot

slots == <<word, txn, start>>
procs == <<inc, up>>
vars == <<procs, slots, th, owner>>

FreeWord(s) == [pid |-> FREE, claiming |-> FALSE, seq |-> s]
(* The locals of no thread; a thread forgets those it no longer uses. *)
Gone ==
  [pc |-> "gone", i |-> 0, left |-> 0, tries |-> 0, w |-> FreeWord(0), mine |-> FreeWord(0),
   rec |-> 0, why |-> "attach"]

Init ==
  /\ inc = [p \in Pids |-> 0] /\ up = [p \in Pids |-> FALSE]
  /\ word = [i \in Slots |-> FreeWord(0)]
  /\ txn = [i \in Slots |-> "id"] /\ start = [i \in Slots |-> 0]
  /\ th = [t \in Threads |-> Gone]
  /\ owner = [i \in Slots |-> None]

-----------------------------------------------------------------------------
(* Processes. *)

(* A process starts under pid p and its threads open the file: post_attach
   ends with a sweep. *)
Start(p) ==
  /\ ~up[p] /\ inc[p] < MaxInc
  /\ up' = [up EXCEPT ![p] = TRUE] /\ inc' = [inc EXCEPT ![p] = @ + 1]
  /\ th' = [t \in Threads |->
              IF PidOf[t] = p THEN [Gone EXCEPT !.pc = "sw_load"] ELSE th[t]]
  /\ UNCHANGED <<slots, owner>>

Die(p) ==
  /\ up[p] /\ up' = [up EXCEPT ![p] = FALSE]
  /\ th' = [t \in Threads |-> IF PidOf[t] = p THEN Gone ELSE th[t]]
  /\ UNCHANGED <<inc, slots, owner>>

-----------------------------------------------------------------------------
(* claim_slot. *)
At(t, c) == th[t].pc = c

Goto(t, c) == th' = [th EXCEPT ![t] = [@ EXCEPT !.pc = c]]

BeginRead(t) ==
  /\ th[t].pc \in {"idle", "full"}
  /\ \E i \in Slots :
       th' = [th EXCEPT ![t] = [Gone EXCEPT !.pc = "load", !.i = i, !.left = NSlots,
                                            !.why = "claim"]]
  /\ UNCHANGED <<procs, slots, owner>>

(* Mutated form: the scan does not wrap around. *)
NextSlot_NoWrap(t) ==
  IF th[t].left > 1
    THEN [Gone EXCEPT !.pc = "load", !.i = th[t].i + 1, !.left = th[t].left - 1,
                      !.why = th[t].why]
    ELSE IF th[t].why = "claim" THEN [Gone EXCEPT !.pc = "sw_load", !.why = "full"]
    ELSE [Gone EXCEPT !.pc = "full"]

(* The scan moves on; after the last slot it sweeps and scans once more, and
   the second time it fails with ReadersFull. *)
NextSlot(t) ==
  IF th[t].left > 1
    THEN [Gone EXCEPT !.pc = "load", !.i = (th[t].i + 1) % NSlots, !.left = th[t].left - 1,
                      !.why = th[t].why]
    ELSE IF th[t].why = "claim" THEN [Gone EXCEPT !.pc = "sw_load", !.why = "full"]
    ELSE [Gone EXCEPT !.pc = "full"]

LoadWord(t) ==
  /\ At(t, "load")
  /\ th' = [th EXCEPT ![t] =
              IF word[th[t].i].pid # FREE THEN NextSlot(t)
              ELSE [@ EXCEPT !.pc = "cas", !.w = word[th[t].i]]]
  /\ UNCHANGED <<procs, slots, owner>>

(* The reservation; when it loses a race the same slot is tried again. *)
CasClaim(t) ==
  /\ At(t, "cas")
  /\ LET i == th[t].i
         claim == [pid |-> PidOf[t], claiming |-> TRUE, seq |-> th[t].w.seq + 1]
     IN IF word[i] = th[t].w
          THEN /\ th[t].w.seq < MaxSeq
               /\ word' = [word EXCEPT ![i] = claim]
               /\ owner' = [owner EXCEPT ![i] = <<t, inc[PidOf[t]]>>]
               /\ th' = [th EXCEPT ![t] = [@ EXCEPT !.pc = "set_txn", !.mine = claim,
                                                         !.w = Gone.w, !.tries = 0]]
          ELSE /\ th' = [th EXCEPT ![t] = IF th[t].tries + 1 < Tries
                                            THEN [@ EXCEPT !.pc = "load", !.tries = @ + 1,
                                                           !.w = Gone.w]
                                            ELSE NextSlot(t)]
               /\ UNCHANGED <<word, owner>>
  /\ UNCHANGED <<procs, txn, start>>

(* The owner's initialisation of the other fields. *)
SetTxn(t) ==
  /\ At(t, "set_txn")
  /\ txn' = [txn EXCEPT ![th[t].i] = "max"]
  /\ Goto(t, "set_start")
  /\ UNCHANGED <<procs, word, start, owner>>

SetPidStart(t) ==
  /\ At(t, "set_start")
  /\ start' = [start EXCEPT ![th[t].i] = inc[PidOf[t]]]
  /\ Goto(t, "go_live")
  /\ UNCHANGED <<procs, word, txn, owner>>

(* The CAS that drops the CLAIMING bit; if the slot was reclaimed meanwhile
   the scan moves on without touching it. *)
GoLive(t) ==
  /\ At(t, "go_live")
  /\ LET i == th[t].i
         live == [th[t].mine EXCEPT !.claiming = FALSE]
     IN IF word[i] = th[t].mine
          THEN /\ word' = [word EXCEPT ![i] = live]
               /\ th' = [th EXCEPT ![t] = [Gone EXCEPT !.pc = "live", !.i = i, !.mine = live]]
          ELSE /\ th' = [th EXCEPT ![t] = NextSlot(t)]
               /\ UNCHANGED word
  /\ UNCHANGED <<procs, txn, start, owner>>

(* claim_and_pin stores the newest transaction; a recheck that fails stores
   again, so the step may repeat. *)
StorePin(t) ==
  /\ th[t].pc \in {"live", "pinned"}
  /\ txn' = [txn EXCEPT ![th[t].i] = "id"]
  /\ Goto(t, "pinned")
  /\ UNCHANGED <<procs, word, start, owner>>

(* release_slot, at the end of the read or on an error while pinning. *)
release_slot(t) ==
  /\ th[t].pc \in {"live", "pinned"}
  /\ LET i == th[t].i
     IN word' = IF word[i] = th[t].mine
                  THEN [word EXCEPT ![i] = FreeWord(th[t].mine.seq + 1)] ELSE word
  /\ th' = [th EXCEPT ![t] = [Gone EXCEPT !.pc = "idle"]]
  /\ UNCHANGED <<procs, txn, start, owner>>

-----------------------------------------------------------------------------
(* sweep_dead_readers. *)
NextSwept(t) ==
  [Gone EXCEPT !.pc = "sw_load", !.i = th[t].i + 1, !.why = th[t].why]

(* Mutated form: the identity of a slot that is being claimed is trusted. *)
SwLoad_Trusting(t) ==
  /\ At(t, "sw_load") /\ th[t].i < NSlots
  /\ LET w == word[th[t].i]
     IN th' = [th EXCEPT ![t] =
                 IF w.pid = FREE THEN NextSwept(t) ELSE [@ EXCEPT !.w = w, !.pc = "sw_rec"]]
  /\ UNCHANGED <<procs, slots, owner>>

SwLoad(t) ==
  /\ At(t, "sw_load") /\ th[t].i < NSlots
  /\ LET w == word[th[t].i]
     IN th' = [th EXCEPT ![t] =
                 IF w.pid = FREE THEN NextSwept(t)
                 ELSE [@ EXCEPT !.w = w, !.pc = IF w.claiming THEN "sw_esrch" ELSE "sw_rec"]]
  /\ UNCHANGED <<procs, slots, owner>>

(* A slot that is being claimed is dead only if its pid is: pid_start is not
   written yet. *)
SwEsrch(t) ==
  /\ At(t, "sw_esrch")
  /\ th' = [th EXCEPT ![t] =
              IF ~up[th[t].w.pid] THEN [@ EXCEPT !.pc = "sw_cas"] ELSE NextSwept(t)]
  /\ UNCHANGED <<procs, slots, owner>>

SwRec(t) ==
  /\ At(t, "sw_rec")
  /\ th' = [th EXCEPT ![t] = [@ EXCEPT !.rec = start[th[t].i], !.pc = "sw_kill"]]
  /\ UNCHANGED <<procs, slots, owner>>

(* pid_definitely_dead: kill(pid, 0) says ESRCH. *)
SwKill(t) ==
  /\ At(t, "sw_kill")
  /\ th' = [th EXCEPT ![t] =
              IF ~up[th[t].w.pid] THEN [@ EXCEPT !.pc = "sw_cas"]
              ELSE [@ EXCEPT !.pc = "sw_start"]]
  /\ UNCHANGED <<procs, slots, owner>>

(* Mutated form: a pid that exists is taken for the process that claimed. *)
SwStart_PidOnly(t) ==
  /\ At(t, "sw_start")
  /\ th' = [th EXCEPT ![t] = NextSwept(t)]
  /\ UNCHANGED <<procs, slots, owner>>

(* pid_alive_identity: the start time the pid has now; none, when the process
   exited after the check, asks for a second check. *)
SwStart(t) ==
  /\ At(t, "sw_start")
  /\ th' = [th EXCEPT ![t] =
              IF ~up[th[t].w.pid] THEN [@ EXCEPT !.pc = "sw_kill2"]
              ELSE IF inc[th[t].w.pid] = th[t].rec THEN NextSwept(t)
              ELSE [@ EXCEPT !.pc = "sw_cas"]]
  /\ UNCHANGED <<procs, slots, owner>>

SwKill2(t) ==
  /\ At(t, "sw_kill2")
  /\ th' = [th EXCEPT ![t] =
              IF ~up[th[t].w.pid] THEN [@ EXCEPT !.pc = "sw_cas"] ELSE NextSwept(t)]
  /\ UNCHANGED <<procs, slots, owner>>

(* Mutated form: the slot is freed by a store, not a CAS of the word seen dead. *)
SwCas_Store(t) ==
  /\ At(t, "sw_cas")
  /\ word' = [word EXCEPT ![th[t].i] = FreeWord(th[t].w.seq + 1)]
  /\ th' = [th EXCEPT ![t] = NextSwept(t)]
  /\ UNCHANGED <<procs, txn, start, owner>>

SwCas(t) ==
  /\ At(t, "sw_cas")
  /\ LET i == th[t].i
     IN word' = IF word[i] = th[t].w THEN [word EXCEPT ![i] = FreeWord(th[t].w.seq + 1)] ELSE word
  /\ th' = [th EXCEPT ![t] = NextSwept(t)]
  /\ UNCHANGED <<procs, txn, start, owner>>

(* The sweep is over: the attach returns, the claim scans once more. *)
SwDone(t) ==
  /\ At(t, "sw_load") /\ th[t].i = NSlots
  /\ IF th[t].why = "attach"
       THEN th' = [th EXCEPT ![t] = [Gone EXCEPT !.pc = "idle"]]
       ELSE \E i \in Slots :
              th' = [th EXCEPT ![t] = [@ EXCEPT !.pc = "load", !.i = i, !.left = NSlots]]
  /\ UNCHANGED <<procs, slots, owner>>

-----------------------------------------------------------------------------
Step(t) ==
  \/ LoadWord(t) \/ CasClaim(t) \/ SetTxn(t) \/ SetPidStart(t) \/ GoLive(t)
  \/ SwLoad(t) \/ SwEsrch(t) \/ SwRec(t) \/ SwKill(t) \/ SwStart(t) \/ SwKill2(t) \/ SwCas(t) \/ SwDone(t)

Next ==
  \/ \E t \in Threads : BeginRead(t) \/ Step(t) \/ StorePin(t) \/ release_slot(t)
  \/ \E p \in Pids : Start(p) \/ Die(p)

Spec == Init /\ [][Next]_vars

(* A thread inside claim_slot or a sweep of a living process keeps running:
   neither blocks. *)
FairSpec == Spec /\ \A t \in Threads : WF_vars(Step(t))

-----------------------------------------------------------------------------
Word == [pid: Pids \cup {FREE}, claiming: BOOLEAN, seq: Nat]
Scanning == {"load", "cas", "set_txn", "set_start", "go_live", "live", "pinned"}
Sweeping == {"sw_load", "sw_esrch", "sw_rec", "sw_kill", "sw_start", "sw_kill2", "sw_cas"}

TypeOK ==
  /\ inc \in [Pids -> 0..MaxInc] /\ up \in [Pids -> BOOLEAN]
  /\ word \in [Slots -> Word] /\ txn \in [Slots -> Pin] /\ start \in [Slots -> 0..MaxInc]
  /\ th \in [Threads -> [pc: {"gone", "idle", "full"} \cup Scanning \cup Sweeping,
                         i: 0..NSlots, left: 0..NSlots, tries: 0..(Tries - 1), w: Word, mine: Word,
                         rec: 0..MaxInc, why: {"attach", "claim", "full"}]]
  /\ \A t \in Threads : th[t].pc \in Scanning \cup (Sweeping \ {"sw_load"}) => th[t].i \in Slots
  /\ owner \in [Slots -> (Threads \X (1..MaxInc)) \cup {None}]

Owning(t) == th[t].pc \in {"set_txn", "set_start", "go_live", "live", "pinned"}

(* "Every store into a slot must be owner-only", and a live owner is never
   evicted: from its reservation on the word is the owner's, so no sweep that
   raced deaths and recycled pids frees it, and once live its identity and
   its pin are the ones it stored. *)
OwnerOnly ==
  \A t \in Threads : Owning(t) =>
    /\ word[th[t].i] = th[t].mine
    /\ th[t].pc \in {"go_live", "live", "pinned"} => start[th[t].i] = inc[PidOf[t]]
    /\ th[t].pc \in {"set_start", "go_live", "live"} => txn[th[t].i] = "max"
    /\ th[t].pc = "pinned" => txn[th[t].i] = "id"

(* The table implements its abstraction: the reservation takes the slot, and
   only the release of its owner or a sweep after the owner's death frees it. *)
Holder == [i \in Slots |-> IF word[i].pid = FREE THEN None ELSE owner[i]]
Reading == {<<t, inc[PidOf[t]]>> : t \in {u \in Threads : Owning(u)}}
Dead ==
  {o \in Threads \X (1..MaxInc) :
     o[2] < inc[PidOf[o[1]]] \/ (o[2] = inc[PidOf[o[1]]] /\ ~up[PidOf[o[1]]])}
Table ==
  INSTANCE ReaderTable
    WITH Owners <- Threads \X (1..MaxInc), Slots <- Slots, None <- None,
         holder <- Holder, reading <- Reading, dead <- Dead
ImplementsTable == Table!Spec

(* A live slot whose process is gone, its pid recycled or not. *)
Orphaned(i) ==
  /\ word[i].pid # FREE /\ ~word[i].claiming
  /\ ~up[word[i].pid] \/ inc[word[i].pid] # start[i]

(* A sweep frees every orphaned slot: whoever starts one (an attach, a reader
   that found no free slot) ends with the slot reclaimed, unless it dies
   itself or a process vanished between the two looks at it. *)
SweepFreesOrphans ==
  \A t \in Threads, i \in Slots :
    (At(t, "sw_load") /\ th[t].i = 0 /\ Orphaned(i))
      ~> (~Orphaned(i) \/ At(t, "gone") \/ At(t, "sw_kill2"))

=============================================================================
