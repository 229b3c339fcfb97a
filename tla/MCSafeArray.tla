----------------------------- MODULE MCSafeArray ----------------------------
(***************************************************************************)
(* A small instance of SafeArray.  Positions -1..2 are below, in and beyond   *)
(* arrays of up to two items, and on the edge of those that grew.          *)
(***************************************************************************)
EXTENDS SafeArray, TLC

Positions == -1..2

AllMethods == Readers \cup Writers \cup {"get"}
=============================================================================
