--------------------------- MODULE MCReaderSlots ---------------------------
(* Small instances of ReaderSlots. *)
EXTENDS ReaderSlots, TLC

CONSTANTS t1, t2, t3

(* One thread in each of two processes. *)
TwoProcesses == (t1 :> 1) @@ (t2 :> 2)

(* Two threads of one process and one of another. *)
SharedPid == (t1 :> 1) @@ (t2 :> 1) @@ (t3 :> 2)

=============================================================================
