------------------------------ MODULE TaskLife ------------------------------
(* What the line controller promises of a robot task, whichever controller  *)
(* runs it.  A task is given, then accepted, then finished or failed; or it *)
(* fails, or is done with at once because there is nothing to spray.  An    *)
(* arm works on one task at a time, takes the others in the order they were *)
(* given in, and every task ends.                                           *)
EXTENDS Naturals, Sequences

CONSTANTS Arms, MaxTasks,
          Noop(_)   \* whether a task has nothing to spray

VARIABLE tasks      \* every task given, with its arm and its stage

Working(a) == \E i \in DOMAIN tasks : tasks[i].arm = a /\ tasks[i].stage = "accepted"

Init == tasks = <<>>

(* One or two tasks are given.  One with nothing to spray may be finished   *)
(* at once, ahead of those that wait, by an arm that is not working.        *)
Give ==
    /\ Len(tasks') \in Len(tasks) + 1 .. Len(tasks) + 2
    /\ SubSeq(tasks', 1, Len(tasks)) = tasks
    /\ \A k \in Len(tasks) + 1 .. Len(tasks') :
         \/ tasks'[k].stage \in {"given", "failed"}
         \/ /\ tasks'[k].stage = "finished"
            /\ Noop(tasks'[k]) /\ ~Working(tasks'[k].arm)

Accept(i) ==
    /\ tasks[i].stage = "given"
    /\ ~Working(tasks[i].arm)
    /\ \A j \in 1 .. i - 1 : tasks[j].arm = tasks[i].arm => tasks[j].stage # "given"
    /\ tasks' = [tasks EXCEPT ![i].stage = "accepted"]

End(i) ==
    /\ tasks[i].stage = "accepted"
    /\ \E s \in {"finished", "failed"} : tasks' = [tasks EXCEPT ![i].stage = s]

Moves(i) == i \in DOMAIN tasks /\ (Accept(i) \/ End(i))

Next == (\E i \in DOMAIN tasks : Moves(i)) \/ Give

Spec == Init /\ [][Next]_tasks /\ \A i \in 1 .. MaxTasks : WF_tasks(Moves(i))
=============================================================================
