------------------------------ MODULE LineRobot ------------------------------
(* Dequeueing and the robot of the C++ line controller: DequeueCoordinator, *)
(* the two IRobotController classes, the Duco motion worker and the plan it *)
(* runs.  All of it happens on one event loop.  The fake robot works with   *)
(* timers.  The Duco controller runs a motion inside an event: the loop     *)
(* takes no other event until the arm has no pending task left.  The Duco   *)
(* client is external: a call on an open client may succeed or not, and a   *)
(* call that is reported as failed may have been carried out all the same.  *)
EXTENDS LineQueue

CONSTANTS Robots,   \* the settings considered: robot.mode, and for a Duco robot
                    \* whether it is prepared on start or only connected
          MaxTasks  \* bound: tasks given to the robot

VARIABLES
    robot,      \* the controller that initialize() constructed
    link,       \* status_.connectionState
    motion,     \* motionClient_: "none", "closed" or "open"
    tasks,      \* every task given so far, with what was signalled of it
    pending,    \* arms_[a].pending: positions in tasks
    running,    \* the task arms_[a].busy stands for, 0 for none
    worker,     \* where the event loop is inside DucoRobotController::tryStartNext
    gun,        \* the spray output of an arm, at the robot
    answered    \* whether the last command to that output was confirmed

robotVars == <<robot, link, motion, tasks, pending, running, worker, gun, answered>>
lineVars == <<queueVars, robotVars>>

IdleWorker == [arm |-> 0, at |-> "idle", segment |-> 1, active |-> FALSE]

Duco == robot \in {"duco_connect", "duco_prepare"}

(* main() leaves start() with the robot connected, or ends the program.     *)
RobotInit ==
    /\ robot \in Robots
    /\ link = IF robot = "duco_connect" THEN "Connected" ELSE "Prepared"
    /\ motion = IF Duco THEN "open" ELSE "none"
    /\ tasks = <<>>
    /\ pending = [a \in Arms |-> <<>>]
    /\ running = [a \in Arms |-> 0]
    /\ worker = IdleWorker
    /\ gun = [a \in Arms |-> "off"]
    /\ answered = [a \in Arms |-> TRUE]

LoopFree == worker.at = "idle"

Signalled(i, stage) == [tasks EXCEPT ![i].stage = stage]

-----------------------------------------------------------------------------
(* MotionPlanner::plan.  Payloads name what a text amounts to: "spray" has  *)
(* a plan, "idle" is a default text a camera sent and has no segments, and  *)
(* every other one fails the parser or the recipe.                          *)
PlanOk(task) == task.data \in {"spray", "idle"}

Segments(task) == IF task.data = "idle" THEN <<>> ELSE <<"approach", "open", "line", "close">>

(* What enqueueTask says of a task before it returns.                       *)
DucoAnswer(task) ==
    IF Noop(task) THEN "finished"
    ELSE IF link # "Prepared" \/ ~PlanOk(task) THEN "failed" ELSE "given"

Answer(task) == IF Duco THEN DucoAnswer(task) ELSE "given"

(* A plausible bug: busy is not looked at.                                  *)
MayStartBusy(r, q) == q # <<>>

(* tryStartNext of both controllers.                                        *)
MayStart(r, q) == r = 0 /\ q # <<>>

(* The fake robot starts the timer of a free arm.                           *)
FakeStarts(a, q) == robot = "fake" /\ MayStart(running[a], q)

(* enqueueTask: an arm's queue when the task at place i was given to it.    *)
Enqueued(a, i, answer) == IF answer = "given" THEN Append(pending[a], i) ELSE pending[a]

(* onDequeueFrame: the tasks are made for both arms, then given to the      *)
(* robot one by one.                                                        *)
OnDequeueFrame(f) ==
    LET task(a) == TaskFor(a, f[a])
        given(a) == [arm |-> a, count |-> task(a).count, pointer |-> task(a).pointer,
                     data |-> task(a).data, stage |-> Answer(task(a))]
        new == IF Moved(f) = Arms THEN <<given(1), given(2)>>
               ELSE <<given(CHOOSE a \in Moved(f) : TRUE)>>
        place(a) == Len(tasks) + (IF Moved(f) = Arms THEN a ELSE 1)
        waiting(a) == IF a \in Moved(f) THEN Enqueued(a, place(a), Answer(task(a)))
                      ELSE pending[a]
    IN
    /\ LoopFree /\ Moved(f) # {}
    /\ Len(tasks) + Len(new) <= MaxTasks
    /\ DequeuePointers(f, {a \in Moved(f) : Answer(task(a)) = "finished"})
    /\ tasks' = tasks \o new
    /\ pending' = [a \in Arms |-> IF FakeStarts(a, waiting(a)) THEN Tail(waiting(a))
                                  ELSE waiting(a)]
    /\ running' = [a \in Arms |-> IF FakeStarts(a, waiting(a)) THEN Head(waiting(a))
                                  ELSE running[a]]
    /\ UNCHANGED <<robot, link, motion, worker, gun, answered>>

-----------------------------------------------------------------------------
(* FakeRobotController: the accept timer, then the finish timer.            *)
AcceptTimer(a) ==
    /\ robot = "fake" /\ running[a] # 0 /\ tasks[running[a]].stage = "given"
    /\ tasks' = Signalled(running[a], "accepted")
    /\ MarkTaskAccepted(tasks[running[a]])
    /\ UNCHANGED <<robot, link, motion, pending, running, worker, gun, answered>>

FinishTimer(a) ==
    /\ robot = "fake" /\ running[a] # 0 /\ tasks[running[a]].stage = "accepted"
    /\ tasks' = Signalled(running[a], "finished")
    /\ MarkTaskDone(tasks[running[a]])
    /\ running' = [running EXCEPT ![a] = IF MayStart(0, pending[a])
                                         THEN Head(pending[a]) ELSE 0]
    /\ pending' = [pending EXCEPT ![a] = IF MayStart(0, @) THEN Tail(@) ELSE @]
    /\ UNCHANGED <<robot, link, motion, worker, gun, answered>>

-----------------------------------------------------------------------------
(* DucoRobotController.  Every planned task posts a tryStartNext; one that  *)
(* finds nothing pending does nothing.                                      *)
StartNext(a) ==
    /\ Duco /\ MayStart(running[a], pending[a])
    /\ LoopFree \/ (worker.arm = a /\ worker.at = "next")
    /\ pending' = [pending EXCEPT ![a] = Tail(@)]
    /\ running' = [running EXCEPT ![a] = Head(pending[a])]
    /\ tasks' = Signalled(Head(pending[a]), "accepted")
    /\ MarkTaskAccepted(tasks[Head(pending[a])])
    /\ worker' = [arm |-> a, at |-> "segment", segment |-> 1, active |-> FALSE]
    /\ UNCHANGED <<robot, link, motion, gun, answered>>

(* A command to a client that is not open is not carried out.               *)
Works == motion = "open"

(* The spray output after a command to it, and what the worker is told.     *)
SetOutput(a, value, ok) ==
    /\ \/ Works /\ gun' = [gun EXCEPT ![a] = value]
       \/ ~ok /\ gun' = gun
    /\ answered' = [answered EXCEPT ![a] = ok]

(* A plausible bug: the output is thought open from the line on.            *)
SprayActiveFromLine(kind, active) == kind = "line" \/ (active /\ kind # "close")

(* sprayIoActive after a segment that succeeded.                            *)
SprayActive(kind, active) == kind = "open" \/ (active /\ kind # "close")

(* executeSegment and the rest of execute()'s loop.                         *)
ExecuteSegment ==
    LET a == worker.arm
        plan == Segments(tasks[running[a]])
        kind == plan[worker.segment]
    IN
    /\ worker.at = "segment" /\ motion # "none" /\ worker.segment <= Len(plan)
    /\ \E ok \in {FALSE} \cup {Works} :
         /\ CASE kind = "open" -> SetOutput(a, "on", ok)
              [] kind = "close" -> SetOutput(a, "off", ok)
              [] OTHER -> UNCHANGED <<gun, answered>>
         /\ worker' = IF ok
                      THEN [worker EXCEPT !.segment = @ + 1, !.active = SprayActive(kind, @)]
                      ELSE [worker EXCEPT !.at = IF worker.active THEN "close" ELSE "failed"]
    /\ UNCHANGED <<robot, link, motion, tasks, pending, running, queueVars>>

(* closeSprayIo: a failure is a warning only.                               *)
CloseSprayIo ==
    /\ worker.at = "close"
    /\ \E ok \in {FALSE} \cup {Works} : SetOutput(worker.arm, "off", ok)
    /\ worker' = [worker EXCEPT !.at = "failed"]
    /\ UNCHANGED <<robot, link, motion, tasks, pending, running, queueVars>>

(* The rest of tryStartNext: it goes on with the arm's next task, after a   *)
(* failure too.                                                             *)
WorkerAfter(a) ==
    IF pending[a] = <<>> THEN IdleWorker ELSE [IdleWorker EXCEPT !.arm = a, !.at = "next"]

TaskSucceeds ==
    LET a == worker.arm IN
    /\ worker.at = "segment" /\ motion # "none"
    /\ worker.segment > Len(Segments(tasks[running[a]]))
    /\ tasks' = Signalled(running[a], "finished")
    /\ MarkTaskDone(tasks[running[a]])
    /\ running' = [running EXCEPT ![a] = 0]
    /\ worker' = WorkerAfter(a)
    /\ UNCHANGED <<robot, link, motion, pending, gun, answered>>

TaskFails ==
    LET a == worker.arm IN
    /\ worker.at = "failed" \/ (worker.at = "segment" /\ motion = "none")
    /\ tasks' = Signalled(running[a], "failed")
    /\ link' = "Faulted"
    /\ running' = [running EXCEPT ![a] = 0]
    /\ worker' = WorkerAfter(a)
    /\ UNCHANGED <<robot, motion, pending, gun, answered, queueVars>>

WorkerStep ==
    \/ ExecuteSegment \/ CloseSprayIo \/ TaskSucceeds \/ TaskFails
    \/ (worker.at = "next" /\ StartNext(worker.arm))
=============================================================================
