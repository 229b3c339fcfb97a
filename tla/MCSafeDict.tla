----------------------------- MODULE MCSafeDict -----------------------------
(* A small instance of SafeDict: two threads, every method of the class.    *)
EXTENDS SafeDict, TLC

AllMethods == KeyedSetters \cup KeyedGetters \cup Snapshots
=============================================================================
