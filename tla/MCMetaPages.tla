---- MODULE MCMetaPages ----
(* TLC instance of MetaPages. *)
EXTENDS MetaPages
====
