------------------------------ MODULE SprayLine ------------------------------
(* The C++ line controller: core/EnqueueWorkflow.cpp (the dual camera flow) *)
(* and the start and stop of app/Application.cpp, with the queue and the    *)
(* robot, on one event loop.  A handler is one step; the frames of the      *)
(* cameras come complete.  events bounds what comes from outside.           *)
EXTENDS LineRobot

CONSTANTS Parts,          \* <<count, pointer>> pairs of the PLC's start frames
          Dequeues,       \* the PLC's dequeue frames: a pointer for each arm
          Frames,         \* the 3D camera's frames: for some arms, a count and data
          MaxEvents       \* bound: events from outside

ASSUME LineAssumption ==
    /\ Parts \subseteq Counts \X Pointers
    /\ Dequeues \subseteq [Arms -> Pointers]
    /\ \A frame \in Frames : /\ DOMAIN frame \subseteq Arms
                             /\ \A a \in DOMAIN frame :
                                  frame[a] \in [count : Counts, data : Payloads]
    /\ MaxEvents \in Nat /\ MaxTasks \in Nat
    /\ Robots \subseteq {"fake", "duco_connect", "duco_prepare"}

VARIABLES
    cycles,     \* cycles_
    window,     \* active2dWindowCount_
    listening,  \* the endpoints that listen
    events      \* events from outside so far

flowVars == <<cycles, window>>
allVars == <<lineVars, flowVars, listening, events>>

NoCycle == [open |-> FALSE, pointer |-> 0, ended |-> FALSE, requested |-> FALSE,
            endSent |-> FALSE, ready |-> {}]
NoWindow == -1

LineInit ==
    /\ QueueInit /\ RobotInit
    /\ cycles = [n \in Counts |-> NoCycle]
    /\ window = NoWindow
    /\ listening = {"camera", "plc"}
    /\ events = 0

(* An event from one of the endpoints.                                      *)
Comes(from) ==
    /\ LoopFree /\ events < MaxEvents /\ from \in listening
    /\ events' = events + 1

-----------------------------------------------------------------------------
(* handleStart: the cycle of an earlier part with this count is replaced.   *)
HandleStart(n, p) ==
    /\ Comes("plc")
    /\ cycles' = [cycles EXCEPT ![n] = [NoCycle EXCEPT !.open = TRUE, !.pointer = p]]
    /\ window' = n
    /\ EnqueuePair(n, p)
    /\ UNCHANGED <<robotVars, listening>>

(* send3dEnd: sent once, unless the send fails.                             *)
EndSent(c, ok) == [c EXCEPT !.endSent = @ \/ ok]

HandleEnd(n) ==
    /\ Comes("plc") /\ cycles[n].open
    /\ \E ok \in BOOLEAN :
         cycles' = [cycles EXCEPT ![n] = EndSent([@ EXCEPT !.ended = TRUE], ok)]
    /\ window' = IF window = n THEN NoWindow ELSE window
    /\ UNCHANGED <<queueVars, robotVars, listening>>

(* handle2dReady: the window's part is asked for once.                      *)
AsksFor2d == window # NoWindow /\ cycles[window].open
                /\ ~cycles[window].ended /\ ~cycles[window].requested

Handle2dReady ==
    /\ Comes("camera") /\ AsksFor2d
    /\ \E ok \in BOOLEAN : cycles' = [cycles EXCEPT ![window].requested = ok]
    /\ UNCHANGED <<queueVars, robotVars, window, listening>>

(* handle2dResult: its type goes with the end, which a late result sends.   *)
Handle2dResult(n) ==
    /\ Comes("camera")
    /\ cycles[n].open /\ ~cycles[n].endSent /\ cycles[n].ended
    /\ \E ok \in BOOLEAN : cycles' = [cycles EXCEPT ![n] = EndSent(@, ok)]
    /\ UNCHANGED <<queueVars, robotVars, window, listening>>

(* handle3dFrame.  frame[a] is what it says of arm a; segments that do not  *)
(* parse are left out.  Data that is stored makes the arm ready; a cycle    *)
(* with both arms ready is done and forgotten, whether Done is sent or not. *)
StoredArms(frame, n) ==
    {a \in DOMAIN frame : /\ frame[a].count = n /\ cycles[n].open
                          /\ Storable(a, n, cycles[n].pointer)}

Ready(frame, n) == cycles[n].ready \cup StoredArms(frame, n)

(* A plausible bug: the arms have to become ready in one frame.             *)
CycleAfterWhole(frame, n) ==
    IF StoredArms(frame, n) = Arms THEN NoCycle
    ELSE [cycles[n] EXCEPT !.ready = Ready(frame, n)]

CycleAfter(frame, n) ==
    IF Ready(frame, n) = Arms THEN NoCycle
    ELSE [cycles[n] EXCEPT !.ready = Ready(frame, n)]

Handle3dFrame(frame) ==
    /\ Comes("camera")
    /\ \E n \in Counts : StoredArms(frame, n) # {}
    /\ cycles' = [n \in Counts |-> CycleAfter(frame, n)]
    /\ queue' = [a \in Arms |->
                   IF \E n \in Counts : a \in StoredArms(frame, n)
                   THEN [queue[a] EXCEPT ![cycles[frame[a].count].pointer].data =
                                           frame[a].data]
                   ELSE queue[a]]
    /\ UNCHANGED <<nextSeq, lastPointers, caches, robotVars, window, listening>>

HandleDequeue(f) ==
    /\ Comes("plc") /\ OnDequeueFrame(f)
    /\ UNCHANGED <<flowVars, listening>>

-----------------------------------------------------------------------------
(* connectRobot and prepare of the Duco controller: what they may leave.    *)
(* The motion client is the first of four that are opened.                  *)
Connects(l, m) ==
    \/ l = "Connected" /\ m = "open"
    \/ l = "Faulted" /\ m \in {"none", "closed", "open"}

IsConnected == link \in {"Connected", "Prepared"}

Prepares(l, m) ==
    \/ IsConnected /\ l \in {"Prepared", "Faulted"} /\ m = motion
    \/ ~IsConnected /\ \/ l \in {"Prepared", "Faulted"} /\ m = "open"
                       \/ l = "Faulted" /\ m \in {"none", "closed"}

RobotStarts(l, m) ==
    \/ robot = "fake" /\ l = "Prepared" /\ m = motion
    \/ robot = "duco_connect" /\ Connects(l, m)
    \/ robot = "duco_prepare" /\ Prepares(l, m)

(* disconnectRobot closes the clients there are; tasks stay pending.        *)
Disconnected(m) == IF m = "none" THEN "none" ELSE "closed"
LinkDown == IF robot = "fake" THEN "Prepared" ELSE "Disconnected"

(* Application::start, from the operator's button.  A listen fails when the *)
(* endpoint already listens, or the port is taken.                          *)
Start ==
    /\ LoopFree /\ events < MaxEvents /\ events' = events + 1
    /\ \E l \in {"Connected", "Prepared", "Faulted"}, m \in {"none", "closed", "open"} :
         /\ RobotStarts(l, m)
         /\ \/ /\ l = "Faulted"
               /\ link' = l /\ motion' = m /\ UNCHANGED listening
            \/ /\ l # "Faulted" \* the cameras' listen fails
               /\ link' = LinkDown /\ motion' = Disconnected(m) /\ UNCHANGED listening
            \/ /\ l # "Faulted" /\ "camera" \notin listening \* the PLC's listen fails
               /\ link' = LinkDown /\ motion' = Disconnected(m)
               /\ listening' = listening \ {"camera"}
            \/ /\ l # "Faulted" /\ listening = {}
               /\ link' = l /\ motion' = m /\ listening' = {"camera", "plc"}
    /\ UNCHANGED <<queueVars, robot, tasks, pending, running, worker, gun, answered, flowVars>>

(* Application::stop, the emergency stop button.                            *)
Stop ==
    /\ LoopFree /\ events < MaxEvents /\ events' = events + 1
    /\ link' = LinkDown /\ motion' = Disconnected(motion)
    /\ listening' = {}
    /\ UNCHANGED <<queueVars, robot, tasks, pending, running, worker, gun, answered, flowVars>>

-----------------------------------------------------------------------------
(* A step the event loop takes by itself.                                   *)
NoEvent == UNCHANGED <<flowVars, listening, events>>

LineNext ==
    \/ \E part \in Parts : HandleStart(part[1], part[2])
    \/ \E n \in Counts : HandleEnd(n) \/ Handle2dResult(n)
    \/ Handle2dReady
    \/ \E frame \in Frames : Handle3dFrame(frame)
    \/ \E f \in Dequeues : HandleDequeue(f)
    \/ Start \/ Stop
    \/ \E a \in Arms :
         (AcceptTimer(a) \/ FinishTimer(a) \/ (LoopFree /\ StartNext(a))) /\ NoEvent
    \/ WorkerStep /\ NoEvent

LineSpec == LineInit /\ [][LineNext]_allVars

(* Timers fire, the posted tryStartNext of either arm has its turn, and a   *)
(* call to the robot returns.                                               *)
LineFairSpec ==
    /\ LineSpec
    /\ WF_allVars(WorkerStep /\ NoEvent)
    /\ \A a \in Arms :
         /\ WF_allVars((AcceptTimer(a) \/ FinishTimer(a)) /\ NoEvent)
         /\ SF_allVars(LoopFree /\ StartNext(a) /\ NoEvent)

-----------------------------------------------------------------------------
LineTypeOK ==
    /\ QueueTypeOK
    /\ robot \in Robots
    /\ link \in {"Disconnected", "Connected", "Prepared", "Faulted"}
    /\ motion \in {"none", "closed", "open"}
    /\ tasks \in Seq([arm : Arms, count : Counts \cup {0}, pointer : Pointers,
                      data : Payloads \cup {"default"},
                      stage : {"given", "accepted", "finished", "failed"}])
    /\ pending \in [Arms -> Seq(DOMAIN tasks)]
    /\ running \in [Arms -> DOMAIN tasks \cup {0}]
    /\ worker \in [arm : Arms \cup {0}, at : {"idle", "segment", "close", "failed", "next"},
                   segment : 1 .. 5, active : BOOLEAN]
    /\ gun \in [Arms -> {"on", "off"}] /\ answered \in [Arms -> BOOLEAN]
    /\ cycles \in [Counts -> [open : BOOLEAN, pointer : Pointers, ended : BOOLEAN,
                              requested : BOOLEAN, endSent : BOOLEAN, ready : {{}, {1}, {2}}]]
    /\ window \in Counts \cup {NoWindow}
    /\ listening \subseteq {"camera", "plc"}
    /\ events \in 0 .. MaxEvents

(* No way out of a motion task leaves a spray gun open that was confirmed   *)
(* to open: between two tasks, an arm's output is off unless the last       *)
(* command to it was not confirmed.  After an opening command that was not  *)
(* confirmed the code does not try to close, though the design note of the  *)
(* task executor asks for it after every motion or IO command that failed.  *)
GunClosed == worker.at \in {"idle", "next"} => \A a \in Arms : gun[a] = "on" => ~answered[a]

(* Done is decided for a part only when the camera data of both its arms    *)
(* is in the queue at that moment, for that part: not evicted since, not    *)
(* another part's that took over the pointer or the count.                  *)
DoneHasBothItems ==
    [][\A n \in Counts :
         cycles[n].open /\ ~cycles'[n].open =>
           \A a \in Arms : LET item == queue'[a][cycles[n].pointer] IN
                           item.count = n /\ item.data \in Payloads]_allVars

(* The two controllers, with stop, restart and faults, give every task the  *)
(* life that TaskLife describes: in order, one at a time, and to an end.    *)
Life == INSTANCE TaskLife
ImplementsTaskLife == Life!Spec
=============================================================================
