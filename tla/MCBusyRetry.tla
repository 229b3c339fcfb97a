---------------------------- MODULE MCBusyRetry -----------------------------
(* The main thread writes, one thread writes, rolls back or checkpoints,    *)
(* one reads.                                                                 *)
EXTENDS BusyRetry, TLC

CONSTANTS main, writer, reader

Work == main :> {"write"} @@ writer :> {"write", "rollBack", "checkpoint"} @@ reader :> {"read"}
Times == main :> 1 @@ writer :> 2 @@ reader :> 1
=============================================================================
