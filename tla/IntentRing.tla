------------------------------ MODULE IntentRing ------------------------------
(***************************************************************************)
(* The intent ring (ring.rs) with its clients (run_write_plan) and leaders *)
(* (lead_and_execute): statements wait in shared slots, the holder of the  *)
(* writer lock executes every READY one in one transaction and posts the   *)
(* results.  Steps are single loads, stores and CASes wherever another     *)
(* process can see the difference; a process may die between any two.      *)
(*                                                                         *)
(* A statement is <<p, n>>, the n-th of process p.  Its outcome is "ok"    *)
(* (its effects are in the transaction), "err" (rolled back) or "unknown"  *)
(* (the leader cannot load the plan); what it writes is not modelled, only *)
(* how often it was committed.                                             *)
(***************************************************************************)
EXTENDS Naturals, FiniteSets

CONSTANTS
  Procs, None,
  NSlots,        \* RING_SLOTS
  MaxStmts,      \* bound: statements of one process
  MaxDead,       \* bound: processes that die
  SessionTxns,   \* bound: the transactions that sessions, outside the ring, may make
  DieMidPost,    \* a leader may die between the two stores of post_done
  StaleStamps    \* a session may commit while a round that did not has left its stamps

ASSUME ConstAssumption ==
  /\ None \notin Procs /\ NSlots \in Nat \ {0}
  /\ MaxStmts \in Nat /\ MaxDead \in Nat /\ SessionTxns \subseteq Nat
  /\ {DieMidPost, StaleStamps} \subseteq BOOLEAN

Slots == 0..(NSlots - 1)
Stmts == Procs \X (1..MaxStmts)
Outcomes == {"ok", "err", "unknown"}

VARIABLES
  hd, res, out, stamp, req,  \* the slots: header, result_state, result, committed_in, payload
  txnId,                     \* meta.txn_id, the newest commit
  lock,                      \* the holder of the writer lock
  cl,                        \* cl[p]: the step and locals of run_write_plan
  ld,                        \* the step and locals of the holder's lead_and_execute
  ghost,                     \* the work in a meta page whose msync failed, or NoGhost
  surfaced,                  \* history: a ghost became the newest commit
  applied,                   \* history: how often a statement was committed
  verdict                    \* history: what its caller was told

ring == <<hd, res, out, stamp, req>>
ghosts == <<ghost, surfaced>>
vars == <<ring, txnId, ghosts, lock, cl, ld, applied, verdict>>

Header(p, g, s) == [pid |-> p, gen |-> g, st |-> s]
EmptyHeader(g) == Header(None, g, "empty")
(* Locals are forgotten when they are no longer used. *)
Client == [pc |-> "idle", n |-> 0, i |-> 0, left |-> 0, w |-> EmptyHeader(0), got |-> "none"]
NoLeader ==
  [pc |-> "none", i |-> 0, w |-> EmptyHeader(0), own |-> FALSE, batch |-> {}, todo |-> {},
   pre |-> {}, ownpre |-> FALSE, work |-> {}, ownres |-> "none"]

NoGhost == {None}

Init ==
  /\ hd = [i \in Slots |-> EmptyHeader(0)]
  /\ res = [i \in Slots |-> 0] /\ out = [i \in Slots |-> "none"]
  /\ stamp = [i \in Slots |-> 0] /\ req = [i \in Slots |-> None]
  /\ txnId = 0 /\ ghost = NoGhost /\ surfaced = FALSE /\ lock = None
  /\ cl = [p \in Procs |-> Client] /\ ld = NoLeader
  /\ applied = [s \in Stmts |-> 0] /\ verdict = [s \in Stmts |-> "none"]

Alive(p) == cl[p].pc # "dead"
Stmt(p) == <<p, cl[p].n>>
At(p, c) == cl[p].pc = c
Goto(p, c) == cl' = [cl EXCEPT ![p] = [@ EXCEPT !.pc = c]]
Idle(p) == [Client EXCEPT !.n = cl[p].n]

(* The caller gets the result of its statement. *)
Answer(p, v) ==
  /\ verdict' = [verdict EXCEPT ![Stmt(p)] = v]
  /\ cl' = [cl EXCEPT ![p] = Idle(p)]

-----------------------------------------------------------------------------
(* The writer lock; a new holder starts a round, with its own statement or
   without.  *)
Lead(p, own) ==
  /\ lock = None /\ lock' = p
  /\ ld' = [NoLeader EXCEPT !.pc = "rec", !.own = own]

(* The round ends: the client returns own's result, or looks at its slot. *)
Return(p) ==
  /\ lock' = None /\ ld' = NoLeader
  /\ IF ld.own
       THEN Answer(p, ld.ownres)
       ELSE Goto(p, "after") /\ UNCHANGED verdict

(* It ends with an error: a client whose own intent waits in a slot leaves
   it there. *)
ReturnError(p) == lock' = None /\ ld' = NoLeader /\ Answer(p, "fail")

(* A transaction becomes the newest commit, and its work part of the database. *)
Publishes(work) ==
  /\ txnId' = txnId + 1
  /\ applied' = [s \in Stmts |-> IF s \in work THEN applied[s] + 1 ELSE applied[s]]

(* A commit writes its meta page over a ghost; when the msync fails, it is one. *)
LeaveGhost(g) == ghost' = g /\ UNCHANGED surfaced

(* A round with nothing to commit is aborted before it writes a meta page. *)
NothingToCommit == ld.batch = {} /\ ld.ownres # "ok"

(* recover_after_owner_death, by whoever locks next: the gate moves to the newest
   meta page there is, which is the ghost when there is one, unless the meta write
   of the dead leader or session has torn it. *)
OwnerDeath ==
  \/ /\ ghost # NoGhost
     /\ Publishes(ghost) /\ ghost' = NoGhost /\ surfaced' = TRUE
  \/ /\ ghost = NoGhost \/ ld.pc = "none" \/ (ld.pc = "commit" /\ ~NothingToCommit)
     /\ LeaveGhost(NoGhost) /\ UNCHANGED <<txnId, applied>>

(* A process dies, maybe as the holder of the writer lock: in a round, or in a
   session. *)
Die(p) ==
  /\ Alive(p)
  /\ Cardinality({q \in Procs : ~Alive(q)}) < MaxDead
  /\ lock = p /\ ld.pc \in {"rec_cas", "post_cas"} => DieMidPost
  /\ cl' = [cl EXCEPT ![p] = [Client EXCEPT !.pc = "dead", !.n = cl[p].n]]
  /\ \/ /\ lock = p \/ (lock = None /\ At(p, "idle"))
        /\ lock' = None /\ ld' = NoLeader /\ OwnerDeath
     \/ lock # p /\ UNCHANGED <<lock, ld, txnId, ghosts, applied>>
  /\ UNCHANGED <<ring, verdict>>

(* A session commits: begin_write .. commit, with no round, and so with no look
   at the stamps an earlier leader left; or the msync of its meta page fails. *)
SessionCommit ==
  /\ lock = None /\ txnId + 1 \in SessionTxns
  /\ StaleStamps \/ \A i \in Slots : hd[i].st = "ready" => stamp[i] <= txnId
  /\ \E p \in Procs : Alive(p)
  /\ \/ Publishes({}) /\ LeaveGhost(NoGhost)
     \/ LeaveGhost({}) /\ UNCHANGED <<txnId, applied>>
  /\ UNCHANGED <<ring, lock, cl, ld, verdict>>

-----------------------------------------------------------------------------
(* run_write_plan. *)

(* The fast path leads at once; a contended statement is enqueued. *)
Execute(p) ==
  /\ At(p, "idle") /\ cl[p].n < MaxStmts
  /\ LET c == [Client EXCEPT !.n = cl[p].n + 1] IN
     \/ /\ Lead(p, TRUE)
        /\ cl' = [cl EXCEPT ![p] = [c EXCEPT !.pc = "lead"]]
     \/ /\ lock # None
        /\ \E i \in Slots :
             cl' = [cl EXCEPT ![p] = [c EXCEPT !.pc = "scan", !.i = i, !.left = NSlots]]
        /\ UNCHANGED <<lock, ld>>
  /\ UNCHANGED <<ring, txnId, ghosts, applied, verdict>>

(* enqueue goes on to the next slot; when it has tried them all the statement
   takes the lock directly. *)
NextSlot(p) ==
  cl' = [cl EXCEPT ![p] =
           IF cl[p].left > 1
             THEN [Idle(p) EXCEPT !.pc = "scan", !.i = (cl[p].i + 1) % NSlots,
                                  !.left = cl[p].left - 1]
             ELSE [Idle(p) EXCEPT !.pc = "block"]]

Scan(p) ==
  /\ At(p, "scan")
  /\ LET w == hd[cl[p].i] IN
     IF w.st = "empty"
       THEN cl' = [cl EXCEPT ![p] = [@ EXCEPT !.pc = "reserve", !.w = w]]
       ELSE NextSlot(p)
  /\ UNCHANGED <<ring, txnId, ghosts, lock, ld, applied, verdict>>

Reserve(p) ==
  /\ At(p, "reserve")
  /\ LET i == cl[p].i
         reserved == Header(p, cl[p].w.gen + 1, "reserved")
     IN IF hd[i] = cl[p].w
          THEN /\ hd' = [hd EXCEPT ![i] = reserved]
               /\ cl' = [cl EXCEPT ![p] = [@ EXCEPT !.pc = "fill", !.w = reserved, !.left = 0]]
          ELSE NextSlot(p) /\ UNCHANGED hd
  /\ UNCHANGED <<res, out, stamp, req, txnId, ghosts, lock, ld, applied, verdict>>

(* The owner's initialisation of its reserved slot; err_code 0 is "ok". *)
Fill(p) ==
  /\ At(p, "fill")
  /\ LET i == cl[p].i IN
     /\ res' = [res EXCEPT ![i] = 0] /\ out' = [out EXCEPT ![i] = "ok"]
     /\ stamp' = [stamp EXCEPT ![i] = 0] /\ req' = [req EXCEPT ![i] = Stmt(p)]
  /\ Goto(p, "publish")
  /\ UNCHANGED <<hd, txnId, ghosts, lock, ld, applied, verdict>>

(* RESERVED to READY; a slot reclaimed meanwhile is given up. *)
Publish(p) ==
  /\ At(p, "publish")
  /\ LET i == cl[p].i
         ready == [cl[p].w EXCEPT !.st = "ready"]
     IN IF hd[i] = cl[p].w
          THEN /\ hd' = [hd EXCEPT ![i] = ready]
               /\ cl' = [cl EXCEPT ![p] = [@ EXCEPT !.pc = "wait", !.w = ready]]
          ELSE /\ cl' = [cl EXCEPT ![p] = [Idle(p) EXCEPT !.pc = "block"]]
               /\ UNCHANGED hd
  /\ UNCHANGED <<res, out, stamp, req, txnId, ghosts, lock, ld, applied, verdict>>

(* wait_result, and try_take_result after a round of its own: a posted result
   is read; after a timeout the client tries to lead.  Only a result it waited
   for may send the client to the direct path. *)
TakeResult(p) ==
  /\ cl[p].pc \in {"wait", "after"}
  /\ LET i == cl[p].i IN
     IF res[i] = 1
       THEN cl' = [cl EXCEPT ![p] =
                     [@ EXCEPT !.pc = "release_done",
                               !.got = IF At(p, "after") /\ out[i] = "unknown"
                                         THEN "err" ELSE out[i]]]
       ELSE Goto(p, IF At(p, "wait") THEN "try" ELSE "wait")
  /\ UNCHANGED <<ring, txnId, ghosts, lock, ld, applied, verdict>>

(* Mutated form: the client withdraws its intent and takes the lock. *)
TryLead_GivesUp(p) ==
  /\ At(p, "try")
  /\ hd' = IF hd[cl[p].i] = cl[p].w THEN [hd EXCEPT ![cl[p].i] = EmptyHeader(cl[p].w.gen + 1)]
                                    ELSE hd
  /\ cl' = [cl EXCEPT ![p] = [Idle(p) EXCEPT !.pc = "block"]]
  /\ UNCHANGED <<res, out, stamp, req, lock, ld, txnId, ghosts, applied, verdict>>

(* Mutated form: the client only ever waits. *)
TryLead_Never(p) ==
  /\ At(p, "try")
  /\ Goto(p, "wait") /\ UNCHANGED <<lock, ld>>
  /\ UNCHANGED <<ring, txnId, ghosts, applied, verdict>>

(* try_begin_write of a waiting client. *)
TryLead(p) ==
  /\ At(p, "try")
  /\ \/ Lead(p, FALSE) /\ Goto(p, "lead")
     \/ lock # None /\ Goto(p, "wait") /\ UNCHANGED <<lock, ld>>
  /\ UNCHANGED <<ring, txnId, ghosts, applied, verdict>>

(* begin_write: the direct path blocks. *)
Block(p) ==
  /\ At(p, "block")
  /\ Lead(p, TRUE) /\ Goto(p, "lead")
  /\ UNCHANGED <<ring, txnId, ghosts, applied, verdict>>

(* After the release the client returns; the statement of an unknown plan runs
   directly. *)
Finish(p) ==
  IF cl[p].got = "unknown"
    THEN /\ cl' = [cl EXCEPT ![p] = [Idle(p) EXCEPT !.pc = "block"]]
         /\ UNCHANGED verdict
    ELSE Answer(p, cl[p].got)

(* release: a CAS from DONE, then one from READY. *)
release(p) ==
  /\ cl[p].pc \in {"release_done", "release_ready"}
  /\ LET i == cl[p].i
         held == [cl[p].w EXCEPT !.st = IF At(p, "release_done") THEN "done" ELSE "ready"]
     IN \/ /\ hd[i] = held
           /\ hd' = [hd EXCEPT ![i] = EmptyHeader(held.gen + 1)]
           /\ Finish(p)
        \/ /\ hd[i] # held /\ UNCHANGED hd
           /\ IF At(p, "release_done")
                THEN Goto(p, "release_ready") /\ UNCHANGED verdict
                ELSE Finish(p)
  /\ UNCHANGED <<res, out, stamp, req, txnId, ghosts, lock, ld, applied>>

-----------------------------------------------------------------------------
(* lead_and_execute, by the holder p of the writer lock. *)
Leading(p, c) == lock = p /\ ld.pc = c

(* The loops over the slots: the next slot, or the first of the next loop. *)
NextIn(c, next) ==
  IF ld.i + 1 < NSlots
    THEN [ld EXCEPT !.pc = c, !.i = ld.i + 1, !.w = NoLeader.w]
    ELSE [ld EXCEPT !.pc = next, !.i = 0, !.w = NoLeader.w]

leader == <<txnId, ghosts, lock, cl, applied, verdict>>

(* Mutated form: slots that are DONE are recovered too. *)
RecoverLoad_Done(p) ==
  /\ Leading(p, "rec")
  /\ ld' = IF hd[ld.i].st \in {"ready", "done"}
             THEN [ld EXCEPT !.pc = "rec_stamp", !.w = hd[ld.i]]
             ELSE NextIn("rec", "reclaim")
  /\ UNCHANGED <<ring, leader>>

(* recover_orphans: the header, *)
RecoverLoad(p) ==
  /\ Leading(p, "rec")
  /\ ld' = IF hd[ld.i].st = "ready"
             THEN [ld EXCEPT !.pc = "rec_stamp", !.w = hd[ld.i]]
             ELSE NextIn("rec", "reclaim")
  /\ UNCHANGED <<ring, leader>>

(* Mutated form: the batch of the newest commit counts as not committed. *)
RecoverStamp_Strict(p) ==
  /\ Leading(p, "rec_stamp")
  /\ LET i == ld.i IN
     \/ /\ stamp[i] = 0
        /\ ld' = NextIn("rec", "reclaim") /\ UNCHANGED stamp
     \/ /\ stamp[i] # 0 /\ stamp[i] < txnId
        /\ ld' = [ld EXCEPT !.pc = "rec_post"] /\ UNCHANGED stamp
     \/ /\ stamp[i] # 0 /\ stamp[i] >= txnId
        /\ stamp' = [stamp EXCEPT ![i] = 0]
        /\ ld' = NextIn("rec", "reclaim")
  /\ UNCHANGED <<hd, res, out, req, leader>>

(* then the stamp: a batch that committed gets its results posted, one that
   did not runs again. *)
RecoverStamp(p) ==
  /\ Leading(p, "rec_stamp")
  /\ LET i == ld.i IN
     \/ /\ stamp[i] = 0
        /\ ld' = NextIn("rec", "reclaim") /\ UNCHANGED stamp
     \/ /\ stamp[i] # 0 /\ stamp[i] <= txnId
        /\ ld' = [ld EXCEPT !.pc = "rec_post"] /\ UNCHANGED stamp
     \/ /\ stamp[i] > txnId
        /\ stamp' = [stamp EXCEPT ![i] = 0]
        /\ ld' = NextIn("rec", "reclaim")
  /\ UNCHANGED <<hd, res, out, req, leader>>

(* post_done stores the result and then moves the header it was given. *)
PostResult(i) == res' = [res EXCEPT ![i] = 1]
PostDone(i, w) ==
  hd' = IF hd[i] = w THEN [hd EXCEPT ![i] = [w EXCEPT !.st = "done"]] ELSE hd

RecoverPost(p) ==
  /\ Leading(p, "rec_post") /\ PostResult(ld.i)
  /\ ld' = [ld EXCEPT !.pc = "rec_cas"]
  /\ UNCHANGED <<hd, out, stamp, req, leader>>

RecoverDone(p) ==
  /\ Leading(p, "rec_cas") /\ PostDone(ld.i, ld.w)
  /\ ld' = NextIn("rec", "reclaim")
  /\ UNCHANGED <<res, out, stamp, req, leader>>

(* reclaim_dead: nobody else moves the header of a dead owner's slot, so the
   load, the look at the pid and the CAS are one step. *)
ReclaimDead(p) ==
  /\ Leading(p, "reclaim")
  /\ LET w == hd[ld.i] IN
     hd' = IF w.st \in {"reserved", "done"} /\ ~Alive(w.pid)
             THEN [hd EXCEPT ![ld.i] = EmptyHeader(w.gen + 1)] ELSE hd
  /\ ld' = NextIn("reclaim", "collect")
  /\ UNCHANGED <<res, out, stamp, req, leader>>

(* Mutated form: slots that are still being filled are collected. *)
CollectLoad_Reserved(p) ==
  /\ Leading(p, "collect")
  /\ ld' = IF hd[ld.i].st \in {"ready", "reserved"}
             THEN [ld EXCEPT !.pc = "collect_stamp", !.w = hd[ld.i]]
             ELSE NextIn("collect", "exec")
  /\ UNCHANGED <<ring, leader>>

(* collect_ready: the header, then the stamp and the payload. *)
CollectLoad(p) ==
  /\ Leading(p, "collect")
  /\ ld' = IF hd[ld.i].st = "ready"
             THEN [ld EXCEPT !.pc = "collect_stamp", !.w = hd[ld.i]]
             ELSE NextIn("collect", "exec")
  /\ UNCHANGED <<ring, leader>>

CollectStamp(p) ==
  /\ Leading(p, "collect_stamp")
  /\ LET b == [i |-> ld.i, w |-> ld.w, stmt |-> req[ld.i]]
         l == NextIn("collect", "exec")
     IN ld' = IF stamp[ld.i] = 0
                THEN [l EXCEPT !.batch = @ \cup {b}, !.todo = @ \cup {b}] ELSE l
  /\ UNCHANGED <<ring, leader>>

stage_result(i, o) ==
  out' = [out EXCEPT ![i] = o] /\ stamp' = [stamp EXCEPT ![i] = txnId + 1]

(* One intent of the batch, in the order of the locality sort (any order):
   executed and staged, or, when an earlier attempt of the round tore the
   transaction on it, staged with that error. *)
ExecIntent(p) ==
  /\ Leading(p, "exec")
  /\ \E b \in ld.todo :
       \/ /\ b \in ld.pre
          /\ stage_result(b.i, "err")
          /\ ld' = [ld EXCEPT !.todo = @ \ {b}]
       \/ /\ b \notin ld.pre
          /\ \E o \in Outcomes :
               /\ o = "unknown" => b.stmt[1] # p
               /\ stage_result(b.i, o)
               /\ ld' = [ld EXCEPT !.todo = @ \ {b},
                                   !.work = IF o = "ok" THEN @ \cup {b.stmt} ELSE @]
  /\ UNCHANGED <<hd, res, req, leader>>

(* Mutated form: the torn round keeps what it executed. *)
ExecTorn_KeepWork(p) ==
  /\ Leading(p, "exec")
  /\ \E b \in ld.todo \ ld.pre :
       ld' = [ld EXCEPT !.pre = @ \cup {b}, !.todo = ld.batch, !.work = @ \cup {b.stmt}]
  /\ UNCHANGED <<ring, leader>>

(* An error the savepoint cannot undo: restart drops the transaction's work,
   keeps the lock, and the round is replayed with the error decided. *)
ExecTorn(p) ==
  /\ Leading(p, "exec")
  /\ \E b \in ld.todo \ ld.pre :
       ld' = [ld EXCEPT !.pre = @ \cup {b}, !.todo = ld.batch, !.work = {}]
  /\ UNCHANGED <<ring, leader>>

(* The caller's own statement comes last. *)
ExecOwn(p) ==
  /\ Leading(p, "exec") /\ ld.todo = {}
  /\ \/ /\ ~ld.own
        /\ ld' = [ld EXCEPT !.pc = "commit"]
     \/ /\ ld.own /\ ld.ownpre
        /\ ld' = [ld EXCEPT !.pc = "commit", !.ownres = "err"]
     \/ /\ ld.own /\ ~ld.ownpre
        /\ \/ ld' = [ld EXCEPT !.pc = "commit", !.ownres = "ok", !.work = @ \cup {Stmt(p)}]
           \/ ld' = [ld EXCEPT !.pc = "commit", !.ownres = "err"]
           \/ ld' = [ld EXCEPT !.ownpre = TRUE, !.todo = ld.batch, !.work = {}]
  /\ UNCHANGED <<ring, leader>>

Abort(p) ==
  /\ Leading(p, "commit") /\ NothingToCommit
  /\ Return(p)
  /\ UNCHANGED <<ring, txnId, ghosts, applied>>

(* The meta flip: the work of the round is committed. *)
Flip(p) ==
  /\ Leading(p, "commit") /\ ~NothingToCommit
  /\ Publishes(ld.work) /\ LeaveGhost(NoGhost)
  /\ ld' = [ld EXCEPT !.pc = IF ld.batch = {} THEN "unlock" ELSE "post", !.todo = ld.batch]
  /\ UNCHANGED <<ring, lock, cl, verdict>>

(* The commit returns an error; nothing is unstaged and nothing is posted.  When
   it is the msync of the meta page that failed (durability = commit), the page
   stays in the mapping as a ghost: the gate hides it from the next leader. *)
FailCommit(p) ==
  /\ Leading(p, "commit") /\ ~NothingToCommit
  /\ UNCHANGED ghosts \/ LeaveGhost(ld.work)
  /\ ReturnError(p)
  /\ UNCHANGED <<ring, txnId, applied>>

(* After the flip, under the lock: each result is posted. *)
Post(p) ==
  /\ Leading(p, "post")
  /\ \E b \in ld.todo :
       /\ PostResult(b.i)
       /\ ld' = [ld EXCEPT !.pc = "post_cas", !.i = b.i, !.w = b.w, !.todo = @ \ {b}]
  /\ UNCHANGED <<hd, out, stamp, req, leader>>

PostCas(p) ==
  /\ Leading(p, "post_cas") /\ PostDone(ld.i, ld.w)
  /\ ld' = [ld EXCEPT !.pc = IF ld.todo = {} THEN "unlock" ELSE "post", !.i = 0,
                      !.w = NoLeader.w]
  /\ UNCHANGED <<res, out, stamp, req, leader>>

Unlock(p) ==
  /\ Leading(p, "unlock") /\ Return(p)
  /\ UNCHANGED <<ring, txnId, ghosts, applied>>

-----------------------------------------------------------------------------
(* What a process does by itself once it has a statement to execute. *)
ClientStep(p) ==
  \/ Scan(p) \/ Reserve(p) \/ Fill(p) \/ Publish(p)
  \/ TakeResult(p) \/ TryLead(p) \/ Block(p) \/ release(p)

LeaderStep(p) ==
  \/ RecoverLoad(p) \/ RecoverStamp(p) \/ RecoverPost(p) \/ RecoverDone(p)
  \/ ReclaimDead(p) \/ CollectLoad(p) \/ CollectStamp(p)
  \/ ExecIntent(p) \/ ExecTorn(p) \/ ExecOwn(p)
  \/ Abort(p) \/ Flip(p) \/ FailCommit(p) \/ Post(p) \/ PostCas(p) \/ Unlock(p)

Next ==
  \/ \E p \in Procs : Execute(p) \/ ClientStep(p) \/ LeaderStep(p) \/ Die(p)
  \/ SessionCommit

Spec == Init /\ [][Next]_vars

(* A running process goes on running: the futex wait of a client ends after
   2 ms, and a lock holder is not suspended for ever.  Nothing makes a client
   issue a statement, a session commit, or a process die. *)
FairSpec == Spec /\ \A p \in Procs : WF_vars(ClientStep(p)) /\ WF_vars(LeaderStep(p))

-----------------------------------------------------------------------------
Headers == [pid : Procs \cup {None}, gen : Nat, st : {"empty", "reserved", "ready", "done"}]
Intents == [i : Slots, w : Headers, stmt : Stmts]
TypeOK ==
  /\ hd \in [Slots -> Headers] /\ res \in [Slots -> 0..1]
  /\ out \in [Slots -> Outcomes \cup {"none"}]
  /\ stamp \in [Slots -> Nat] /\ req \in [Slots -> Stmts \cup {None}]
  /\ txnId \in Nat /\ ghost \in SUBSET Stmts \cup {NoGhost} /\ surfaced \in BOOLEAN
  /\ lock \in Procs \cup {None}
  /\ cl \in [Procs -> [pc : {"idle", "scan", "reserve", "fill", "publish", "wait", "try",
                             "after", "lead", "block", "release_done", "release_ready",
                             "dead"},
                       n : 0..MaxStmts, i : Slots, left : 0..NSlots, w : Headers,
                       got : Outcomes \cup {"none"}]]
  /\ ld.i \in Slots /\ ld.w \in Headers /\ ld.own \in BOOLEAN /\ ld.ownpre \in BOOLEAN
  /\ ld.todo \subseteq ld.batch /\ ld.pre \subseteq ld.batch /\ ld.batch \subseteq Intents
  /\ ld.work \subseteq Stmts /\ ld.ownres \in {"none", "ok", "err"}
  /\ applied \in [Stmts -> Nat] /\ verdict \in [Stmts -> {"none", "ok", "err", "fail"}]

(* No statement is committed twice, however leaders die, fail and take over
   (recover_orphans must not run a committed batch again), before a ghost
   surfaces, whose intents may have run again. *)
AtMostOnce == ~surfaced => \A s \in Stmts : applied[s] <= 1

(* What a caller of run_write_plan was told is what happened: a statement
   reported as executed is in the database, one reported as failed is not and
   does not get there later, before a ghost surfaces. *)
VerdictIsTruth ==
  ~surfaced => \A s \in Stmts :
    /\ verdict[s] = "ok" => applied[s] = 1
    /\ verdict[s] = "err" => applied[s] = 0

(* The result store of post_done never lands in a later incarnation of the
   slot: the leader that is about to store it still sees the header it was
   given (ring.rs: "this cannot mis-post"). *)
PostHitsItsIntent ==
  /\ ld.pc = "rec_post" => hd[ld.i] = ld.w
  /\ ld.pc = "post" => \A b \in ld.todo : hd[b.i] = b.w

(* The leader stages into the intent it executes: between collect_ready and
   the flip the slot neither moves on nor gets another payload. *)
BatchIsPinned ==
  ld.pc \in {"exec", "commit"} =>
    \A b \in ld.batch : hd[b.i] = b.w /\ req[b.i] = b.stmt /\ res[b.i] = 0

(* A leader that dies never strands its waiters: every statement a living
   process started is answered. *)
Answered ==
  \A s \in Stmts :
    (cl[s[1]].n = s[2]) ~> (verdict[s] # "none" \/ ~Alive(s[1]))

=============================================================================
