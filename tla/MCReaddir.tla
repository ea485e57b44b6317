----------------------------- MODULE MCReaddir -----------------------------
(* Names of two lengths; buffers for nothing, for some entries exactly, for*)
(* some and a half, and for all.                                           *)
EXTENDS Readdir

MCNames == {"a", "bb", "c"}
MCRecLen == [n \in MCNames \cup {".", ".."} |-> IF n \in {"a", "c", "."} THEN 2 ELSE 3]
MCBufSizes == {2, 3, 4, 7, 8, 9, 20}
=============================================================================
