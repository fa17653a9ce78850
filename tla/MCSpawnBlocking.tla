-------------------------- MODULE MCSpawnBlocking --------------------------
(* Instances of SpawnBlocking for TLC: two callers of spawn_blocking(),    *)
(* whose tasks compete for the only slot.                                  *)
EXTENDS SpawnBlocking

CONSTANTS t1, t2

Two == {t1, t2}
First == {t1}
Second == {t2}
None == {}
OneCode == {"zero"}
=============================================================================
