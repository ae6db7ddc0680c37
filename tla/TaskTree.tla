------------------------------ MODULE TaskTree ------------------------------
(***************************************************************************)
(* FairTask: the tree of the tasks of a run.  Every walk of the tree       *)
(* (InitTask, ReInitTask, ExecuteTask, FinishEvent, FinishTask) leaves out *)
(* an inactive task with everything below it.  The main task of the run,   *)
(* which is always active, is the root and is not one of the tasks.        *)
(***************************************************************************)
CONSTANTS Task, Root,
          Parent  \* Parent[t]: the task t was added to, or Root

ASSUME ParentAssumption == Root \notin Task /\ Parent \in [Task -> Task \cup {Root}]

\* The tasks above a task.
Above == LET up[t \in Task \cup {Root}] ==
               IF t = Root THEN {} ELSE {Parent[t]} \cup up[Parent[t]]
         IN  [t \in Task |-> up[t] \cap Task]

\* The tasks a walk visits.
Visited(active) == {t \in Task : active[t] /\ \A a \in Above[t] : active[a]}

\* InitTask and ReInitTask: a task whose function returns kERROR becomes
\* inactive, but the walk still goes on to the tasks below it.
AfterInit(active, errors) == [t \in Task |-> active[t] /\ t \notin Visited(active) \cap errors]
=============================================================================
