-------------------------- MODULE MCHandleCounter ---------------------------
(***************************************************************************)
(* The counter alone, with one wakeup that nobody asked for.               *)
(***************************************************************************)
EXTENDS HandleCounter
=============================================================================
