----------------------------- MODULE MCTaskRing -----------------------------
(* Small instances of TaskRing for TLC.                                    *)
EXTENDS TaskRing

CONSTANTS server, compositor

BothConsume == {server, compositor}
=============================================================================
