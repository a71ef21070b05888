--------------------------- MODULE MCTestSessions ---------------------------
(* A small instance of TestSessions. *)
EXTENDS TestSessions
=============================================================================
