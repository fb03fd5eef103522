--------------------------- MODULE MCSQLiteSession --------------------------
(* SQLiteSession with two isolates and callbacks of at most two statements. *)
EXTENDS SQLiteSession, TLC

CONSTANTS i1, i2

MCIsolate == {i1, i2}
=============================================================================
