--------------------------- MODULE MCRunLifecycle ---------------------------
(* Two tasks, the second depending on the first.                           *)
EXTENDS RunLifecycle

CONSTANTS t1, t2

MCTasks == {t1, t2}
MCDependsOn == [t \in MCTasks |-> IF t = t2 THEN {t1} ELSE {}]
=============================================================================
