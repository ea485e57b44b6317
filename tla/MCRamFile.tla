----------------------------- MODULE MCRamFile -----------------------------
(***************************************************************************)
(* A file of two byte values, under requests that grow it from nothing,    *)
(* grow it again, or fit, and that overlap.                                *)
(***************************************************************************)
EXTENDS RamFile, Sequences

CONSTANTS b0, b1

Buf(s) == [k \in 0 .. Len(s) - 1 |-> s[k + 1]]
W(offset, s) == [op |-> "write", offset |-> offset, count |-> Len(s), buf |-> Buf(s)]
R(offset, count) == [op |-> "read", offset |-> offset, count |-> count]

MCBytes == {b0, b1}
MCRequests == {W(0, <<b1>>), W(0, <<b0, b1>>), R(0, 2), R(1, 2)}
=============================================================================
