----------------------------- MODULE MCSpscQueue -----------------------------
(* SpscQueue for TLC: three slots, so two usable and a wrap every third push. *)
EXTENDS SpscQueue
=============================================================================
