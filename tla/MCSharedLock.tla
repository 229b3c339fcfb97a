---------------------------- MODULE MCSharedLock ----------------------------
(***************************************************************************)
(* Small instances of SharedLock.                                          *)
(***************************************************************************)
EXTENDS SharedLock, TLC

=============================================================================
