------------------------------- MODULE MCProc -------------------------------
(* Instance of Proc for TLC: two CPUs, as init_cpu() starts them. *)
EXTENDS Proc

=============================================================================
