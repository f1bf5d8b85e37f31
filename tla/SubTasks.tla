------------------------------- MODULE SubTasks -------------------------------
(***************************************************************************)
(* The Jira sub-tasks the collecting scripts keep under a parent issue     *)
(* (create_sub_task of collect_case_result.py and of                       *)
(* collect_lowpassratio_profiles.py): a subject whose name occurs in the   *)
(* summary of a listed sub-task gets a comment there and the sub-task is   *)
(* reopened; any other subject gets a new one.  People close sub-tasks.    *)
(***************************************************************************)
EXTENDS Calls, FiniteSetsExt

CONSTANTS Subject,
          Within,     \* <<s, t>> when the name of s occurs in the summary of t's sub-task
          MaxCloses   \* bound on the sub-tasks people close

ASSUME SubTaskAssumption ==
    /\ Within \subseteq Subject \X Subject /\ \A s \in Subject : <<s, s>> \in Within
    /\ MaxCloses \in Nat

VARIABLES
    tasks,    \* the sub-tasks in the order of their creation: [subject, open]
    closed    \* sub-tasks people closed: in this run, and in all

jira == <<tasks, closed>>

TasksInit == tasks = <<>> /\ closed = [now |-> 0, all |-> 0]

\* Mutant: sub-tasks that were closed are not looked at.
NamingOpen(s, n) == {i \in 1..n : tasks[i].open /\ <<s, tasks[i].subject>> \in Within}
\* Those among the first n sub-tasks, the ones the script listed.
Naming(s, n) == {i \in 1..n : <<s, tasks[i].subject>> \in Within}
Target(s, n) == IF Naming(s, n) = {} THEN Len(tasks) + 1 ELSE Min(Naming(s, n))

\* Mutant: a sub-task that is found is not reopened.
CommentSubTask(s, n, a) ==
    tasks' = IF a = "error" \/ Naming(s, n) # {} THEN tasks
             ELSE Append(tasks, [subject |-> s, open |-> TRUE])

CreateSubTask(s, n, a) ==
    tasks' = IF a = "error" THEN tasks
             ELSE IF Naming(s, n) # {} THEN [tasks EXCEPT ![Target(s, n)].open = TRUE]
             ELSE Append(tasks, [subject |-> s, open |-> TRUE])

CloseTask(i) ==
    /\ closed.all < MaxCloses /\ tasks[i].open
    /\ tasks' = [tasks EXCEPT ![i].open = FALSE]
    /\ closed' = [now |-> closed.now + 1, all |-> closed.all + 1]

\* A sub-task that names s, open unless people closed one since the run began.
Tracked(s) ==
    \E i \in DOMAIN tasks : <<s, tasks[i].subject>> \in Within /\ (tasks[i].open \/ closed.now > 0)
-----------------------------------------------------------------------------
\* However runs die and whatever answers are lost, a subject never gets a second
\* sub-task: the next run finds the one whose creation was not acknowledged.
OneTaskPerSubject ==
    \A i, j \in DOMAIN tasks : tasks[i].subject = tasks[j].subject => i = j
=============================================================================
