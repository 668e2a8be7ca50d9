----------------------------- MODULE ReaderTable -----------------------------
(***************************************************************************)
(* What the reader table promises: a slot is taken by one live reader at a *)
(* time, and it is given back by that reader, or by anyone once the        *)
(* reader's process is gone.  Readers that are alive are never evicted.    *)
(***************************************************************************)
CONSTANTS Owners, Slots, None

VARIABLES
  holder,   \* holder[i]: the reader that holds slot i, or None
  reading,  \* the readers that are using their slot
  dead      \* the readers whose process is gone

vars == <<holder, reading, dead>>

Init ==
  /\ holder = [i \in Slots |-> None]
  /\ reading = {} /\ dead = {}

Acquire(o, i) ==
  /\ o \notin dead \cup reading /\ holder[i] = None
  /\ holder' = [holder EXCEPT ![i] = o] /\ reading' = reading \cup {o}
  /\ UNCHANGED dead

Release(o, i) ==
  /\ o \in reading /\ holder[i] = o
  /\ holder' = [holder EXCEPT ![i] = None] /\ reading' = reading \ {o}
  /\ UNCHANGED dead

Reap(i) ==
  /\ holder[i] \in dead
  /\ holder' = [holder EXCEPT ![i] = None]
  /\ UNCHANGED <<reading, dead>>

Die ==
  /\ \E D \in SUBSET Owners : dead' = dead \cup D /\ reading' = reading \ D
  /\ UNCHANGED holder

Next ==
  \/ \E i \in Slots : Reap(i) \/ \E o \in Owners : Acquire(o, i) \/ Release(o, i)
  \/ Die

Spec == Init /\ [][Next]_vars

=============================================================================
