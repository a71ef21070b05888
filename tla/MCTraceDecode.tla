---------------------------- MODULE MCTraceDecode ----------------------------
(* A small instance of TraceDecode. *)
EXTENDS TraceDecode
MCEnumOrigins == {"occurrence", "config", "event"}
=============================================================================
