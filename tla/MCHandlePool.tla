---------------------------- MODULE MCHandlePool ----------------------------
(***************************************************************************)
(* Small instances of HandlePool.                                          *)
(***************************************************************************)
EXTENDS HandlePool, TLC

CONSTANT Nesting    \* the threads that ask for a handle while they have one

References == [t \in Thread |-> IF t \in Nesting THEN 2 ELSE 1]
=============================================================================
