---------------------------- MODULE MCSupervisor ----------------------------
(* Instances of Supervisor for TLC. *)
EXTENDS Supervisor, TLC

CONSTANTS t1, t2, t3

Two == {t1, t2}
Three == {t1, t2, t3}
First == {t1}
Last == {t3}
None == {}
FailureCode == {"other"}
\* With one code the escalations still add the signal's.
OneCode == {"zero"}

\* The tasks are interchangeable in the runs that treat them alike.
TaskSymmetry == Permutations(Tasks)
=============================================================================
