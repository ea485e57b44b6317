------------------------------- MODULE MCSlab -------------------------------
(***************************************************************************)
(* The heap on pages of 8 words.  With a struct slab of 6 words, a slab    *)
(* holds 2 blocks of 1 word or 1 of 4, which reaches over the end of the   *)
(* page; with one of 5 words, as in the kernel, 3 blocks of 1 word or 2 of *)
(* 2, the second of which reaches over the end.  9 words are a large       *)
(* allocation, 2 pages and the metadata.                                   *)
(***************************************************************************)
EXTENDS Slab

=============================================================================
