----------------------------- MODULE MCConsole -----------------------------
(* Two CPUs, a counter of two bits, one letter and the two modifiers.      *)
EXTENDS Console

MCCPUs == {0, 1}
MCSleepArgs == {1, 2}
MCLetters == {"a"}
=============================================================================
