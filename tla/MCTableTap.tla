----------------------------- MODULE MCTableTap -----------------------------
(***************************************************************************)
(* A small instance of TableTap, with the ways of handling taps.  Two      *)
(* cells and two or three rows: a reload can give a touched cell another   *)
(* row, and scrolling reuses cells.  The user need not touch again, but    *)
(* the menu can always be toggled, so no state is final.                   *)
(***************************************************************************)
EXTENDS TableTap
=============================================================================
