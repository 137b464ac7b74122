--------------------------- MODULE EnqueueWorkflow ---------------------------
(***************************************************************************)
(* The dual-camera enqueue flow: EnqueueWorkflowCoordinator in             *)
(* core/enqueue_workflow.py, working on the queue manager's double queue.  *)
(*                                                                         *)
(* Three threads run its code: the PLC's enqueue connection (frames 11 and *)
(* 12), the receiver of the 2D camera and the receiver of the 3D camera.   *)
(* The coordinator has a lock of its own; it is never held during a call   *)
(* of the queue manager or a send.  Each locked section, each call of the  *)
(* queue manager and each send is a step, and a cycle is looked up by its  *)
(* count again in every section: another thread may have replaced it.      *)
(*                                                                         *)
(* A cycle's ready_received and a frame's text are left out (display       *)
(* only), and done_sent_to_plc, which is set in the section that removes   *)
(* the cycle and so is never seen TRUE.  Complete camera frames arrive:    *)
(* the buffers that put them together belong to one thread each.  Of       *)
(* unknown_enqueue_policy the default "ignore" is modelled, in which other *)
(* PLC commands change nothing.                                            *)
(***************************************************************************)
EXTENDS QueueManager

CONSTANTS
    Parts,              \* the [count, pointer] pairs the PLC announces
    MaxStarts,          \* bound: 11 frames the PLC sends for a part
    MaxEnds,            \* bound: 12 frames the PLC sends for a part
    MaxFrames,          \* bound: 3D frames for a count
    SendMayFail         \* whether a send to a camera or the PLC may fail

ASSUME WorkflowAssumption ==
    /\ Parts \subseteq [count : Counts, pointer : Pointers]
    /\ MaxStarts \in Nat /\ MaxEnds \in Nat /\ MaxFrames \in Nat
    /\ SendMayFail \in BOOLEAN
    /\ Frames = Counts           \* a 3D payload shows the count it is for

(* A 2D result has a type; "00,00" is the default the 12 frame falls back  *)
(* to.  "none" is Python's None.                                           *)
Types == {"none", "typed", "00,00"}

(* EnqueueCycle; NoCycle is the absence of the count in _cycles.           *)
Cycle == [pointer : Pointers, part_type : {"none", "typed"},
          request_sent_to_2d : BOOLEAN, end_received : BOOLEAN,
          end_sent_to_3d : BOOLEAN, arm_ready : SUBSET Arms]
NewCycle(p) == [pointer |-> p, part_type |-> "none",
                request_sent_to_2d |-> FALSE, end_received |-> FALSE,
                end_sent_to_3d |-> FALSE, arm_ready |-> {}]
NoCycle == [NewCycle(None) EXCEPT !.pointer = None]

VARIABLES
    cycles,        \* _cycles, by count
    window,        \* _active_2d_window_count
    caller,        \* the threads that may send the 3D end: "plc" and "2d"
    frame3d,       \* the 3D receiver thread and the frame it works on
    starts,        \* 11 frames of each count the PLC has sent
    ends,          \* 12 frames of each count the PLC has sent
    asked2d,       \* counts the 2D camera was asked for and has not answered
    ends3d,        \* "12" messages of each count the 3D camera has received
    frames3d,      \* frames of each count the 3D camera has sent
    dones          \* "Done" messages the PLC has got for each count

workflowVars == <<cycles, window, caller, frame3d>>
worldVars == <<starts, ends, asked2d, ends3d, frames3d, dones>>
allVars == <<vars, workflowVars, worldVars>>

Callers == {"plc", "2d"}
Working(at, c, p, type) == [at |-> at, count |-> c, pointer |-> p, type |-> type]
Idle == Working("idle", None, None, "none")
IdleFrame == [at |-> "idle", count |-> None, rest |-> {}, arm |-> 0,
              pointer |-> None, touched |-> {}]

WorkflowInit ==
    /\ Init
    /\ cycles = [c \in Counts |-> NoCycle]
    /\ window = None
    /\ caller = [t \in Callers |-> Idle]
    /\ frame3d = IdleFrame
    /\ starts = [c \in Counts |-> 0]
    /\ ends = [c \in Counts |-> 0]
    /\ asked2d = {}
    /\ ends3d = [c \in Counts |-> 0]
    /\ frames3d = [c \in Counts |-> 0]
    /\ dones = [c \in Counts |-> 0]

Plc == caller["plc"]

-----------------------------------------------------------------------------
(* _handle_start: frame 11 opens a cycle, then the queue pair is enqueued, *)
(* then the 3D camera is triggered; the result of that send is ignored.    *)

HandleStart(part) ==
    /\ Plc.at = "idle"
    /\ starts[part.count] < MaxStarts
    /\ starts' = [starts EXCEPT ![part.count] = @ + 1]
    /\ cycles' = [cycles EXCEPT ![part.count] = NewCycle(part.pointer)]
    /\ window' = part.count
    /\ caller' = [caller EXCEPT !["plc"] = Working("enqueue", part.count, part.pointer, "none")]
    /\ UNCHANGED <<vars, frame3d, ends, asked2d, ends3d, frames3d, dones>>

StartEnqueue ==
    /\ Plc.at = "enqueue"
    /\ EnqueueItem(Plc.count, Plc.pointer)
    /\ caller' = [caller EXCEPT !["plc"] = Idle]
    /\ UNCHANGED <<cycles, window, frame3d, worldVars>>

-----------------------------------------------------------------------------
(* _handle_end and _send_3d_end.                                           *)

(* A plausible bug: the READY window stays open after the 12 frame.        *)
WindowAfterEndOpen(c) == window

WindowAfterEnd(c) == IF window = c THEN None ELSE window

(* The first locked section of _handle_end decides whether the default     *)
(* type is sent.  The PLC sends a part's 12 after its 11.                  *)
HandleEnd(part) ==
    LET c   == part.count
        old == IF cycles[c] = NoCycle THEN NewCycle(part.pointer) ELSE cycles[c]
    IN
    /\ Plc.at = "idle"
    /\ starts[c] > 0 /\ ends[c] < MaxEnds
    /\ ends' = [ends EXCEPT ![c] = @ + 1]
    /\ cycles' = [cycles EXCEPT ![c] = [old EXCEPT !.pointer = part.pointer,
                                                  !.end_received = TRUE]]
    /\ window' = WindowAfterEnd(c)
    /\ caller' = [caller EXCEPT !["plc"] = Working("end", c, None,
                    IF old.part_type = "none" THEN "00,00" ELSE "none")]
    /\ UNCHANGED <<vars, frame3d, starts, asked2d, ends3d, frames3d, dones>>

(* A plausible bug: the end that was already sent is not looked at.        *)
MaySendEndTwice(c) == cycles[c] # NoCycle

MaySendEnd(c) == cycles[c] # NoCycle /\ ~cycles[c].end_sent_to_3d

(* The first locked section of _send_3d_end: type holds the override on    *)
(* entry and the type to send on exit.                                     *)
ClaimEnd(t) ==
    LET c == caller[t].count
        type == IF caller[t].type # "none" THEN caller[t].type ELSE cycles[c].part_type
    IN
    /\ caller[t].at = "end"
    /\ IF MaySendEnd(c)
       THEN /\ cycles' = [cycles EXCEPT ![c].end_sent_to_3d = TRUE]
            /\ caller' = [caller EXCEPT ![t] = Working("send_end", c, None,
                            IF type = "none" THEN "00,00" ELSE type)]
       ELSE /\ caller' = [caller EXCEPT ![t] = Idle]
            /\ UNCHANGED cycles
    /\ UNCHANGED <<vars, window, frame3d, worldVars>>

EndDelivered(t) ==
    /\ caller[t].at = "send_end"
    /\ ends3d' = [ends3d EXCEPT ![caller[t].count] = @ + 1]
    /\ caller' = [caller EXCEPT ![t] = Idle]
    /\ UNCHANGED <<vars, cycles, window, frame3d, starts, ends, asked2d,
                   frames3d, dones>>

EndSendFails(t) ==
    /\ SendMayFail
    /\ caller[t].at = "send_end"
    /\ caller' = [caller EXCEPT ![t].at = "rollback_end"]
    /\ UNCHANGED <<vars, cycles, window, frame3d, worldVars>>

RollbackEnd(t) ==
    LET c == caller[t].count IN
    /\ caller[t].at = "rollback_end"
    /\ cycles' = IF cycles[c] = NoCycle THEN cycles
                 ELSE [cycles EXCEPT ![c].end_sent_to_3d = FALSE]
    /\ caller' = [caller EXCEPT ![t] = Idle]
    /\ UNCHANGED <<vars, window, frame3d, worldVars>>

-----------------------------------------------------------------------------
(* The 2D camera.                                                          *)

(* _handle_2d_ready: a READY in an open window asks for the result, once.  *)
Handle2dReady ==
    /\ caller["2d"].at = "idle"
    /\ window # None
    /\ cycles[window] # NoCycle
    /\ ~cycles[window].end_received
    /\ ~cycles[window].request_sent_to_2d
    /\ cycles' = [cycles EXCEPT ![window].request_sent_to_2d = TRUE]
    /\ caller' = [caller EXCEPT !["2d"] = Working("request", window, None, "none")]
    /\ UNCHANGED <<vars, window, frame3d, worldVars>>

RequestDelivered ==
    /\ caller["2d"].at = "request"
    /\ asked2d' = asked2d \cup {caller["2d"].count}
    /\ caller' = [caller EXCEPT !["2d"] = Idle]
    /\ UNCHANGED <<vars, cycles, window, frame3d, starts, ends, ends3d, frames3d, dones>>

RequestSendFails ==
    /\ SendMayFail
    /\ caller["2d"].at = "request"
    /\ caller' = [caller EXCEPT !["2d"].at = "rollback_request"]
    /\ UNCHANGED <<vars, cycles, window, frame3d, worldVars>>

RollbackRequest ==
    LET c == caller["2d"].count IN
    /\ caller["2d"].at = "rollback_request"
    /\ cycles' = IF cycles[c] = NoCycle THEN cycles
                 ELSE [cycles EXCEPT ![c].request_sent_to_2d = FALSE]
    /\ caller' = [caller EXCEPT !["2d"] = Idle]
    /\ UNCHANGED <<vars, window, frame3d, worldVars>>

(* _handle_2d_frame: the result is kept unless the cycle is gone or its    *)
(* end went out; if the 12 frame came before it, this thread sends the end.*)
Handle2dResult(c) ==
    /\ caller["2d"].at = "idle"
    /\ c \in asked2d
    /\ asked2d' = asked2d \ {c}
    /\ IF cycles[c] = NoCycle \/ cycles[c].end_sent_to_3d
       THEN UNCHANGED <<cycles, caller>>
       ELSE /\ cycles' = [cycles EXCEPT ![c].part_type = "typed"]
            /\ IF cycles[c].end_received
               THEN caller' = [caller EXCEPT !["2d"] = Working("end", c, None, "none")]
               ELSE UNCHANGED caller
    /\ UNCHANGED <<vars, window, frame3d, starts, ends, ends3d, frames3d, dones>>

-----------------------------------------------------------------------------
(* The 3D camera: _handle_3d_frame and _try_send_done.                     *)

(* A frame has a segment for each arm; a segment that does not parse is    *)
(* skipped, so arms are those with a valid one.                            *)
Frame3dArrives(c, arms) ==
    /\ frame3d.at = "idle"
    /\ ends3d[c] > 0 /\ frames3d[c] < MaxFrames
    /\ frames3d' = [frames3d EXCEPT ![c] = @ + 1]
    /\ frame3d' = [IdleFrame EXCEPT !.at = "lookup", !.count = c, !.rest = arms]
    /\ UNCHANGED <<vars, cycles, window, caller, starts, ends, asked2d, ends3d, dones>>

(* The loop over the segments ends: Done is tried if one was stored.       *)
SegmentsDone ==
    /\ frame3d.at = "lookup" /\ frame3d.rest = {}
    /\ frame3d' = IF frame3d.touched = {} THEN IdleFrame
                  ELSE [frame3d EXCEPT !.at = "try_done"]
    /\ UNCHANGED <<vars, cycles, window, caller, worldVars>>

LookupCycle(a) ==
    /\ frame3d.at = "lookup" /\ a \in frame3d.rest
    /\ \A b \in frame3d.rest : a <= b
    /\ frame3d' =
         IF cycles[frame3d.count] = NoCycle
         THEN [frame3d EXCEPT !.rest = @ \ {a}]
         ELSE [frame3d EXCEPT !.at = "store", !.rest = @ \ {a}, !.arm = a,
                              !.pointer = cycles[frame3d.count].pointer]
    /\ UNCHANGED <<vars, cycles, window, caller, worldVars>>

(* store_camera_data keeps the data by arm and pointer.                    *)
StoreSegment ==
    /\ frame3d.at = "store"
    /\ StoreCameraData(frame3d.arm, frame3d.pointer, frame3d.count)
    /\ frame3d' = [frame3d EXCEPT !.at = "mark"]
    /\ UNCHANGED <<cycles, window, caller, worldVars>>

(* store_camera_data refuses: the part is not queued, or is dequeued.      *)
StoreRejected ==
    /\ frame3d.at = "store"
    /\ ~Storable(frame3d.arm, frame3d.pointer)
    /\ frame3d' = [frame3d EXCEPT !.at = "lookup"]
    /\ UNCHANGED <<vars, cycles, window, caller, worldVars>>

MarkReady ==
    LET c == frame3d.count IN
    /\ frame3d.at = "mark"
    /\ IF cycles[c] = NoCycle
       THEN /\ frame3d' = [frame3d EXCEPT !.at = "lookup"]
            /\ UNCHANGED cycles
       ELSE /\ cycles' = [cycles EXCEPT ![c].arm_ready = @ \cup {frame3d.arm}]
            /\ frame3d' = [frame3d EXCEPT !.at = "lookup",
                                          !.touched = @ \cup {frame3d.arm}]
    /\ UNCHANGED <<vars, window, caller, worldVars>>

(* Plausible bugs: one arm's data is enough for the Done; only the frame's *)
(* own segments count; the cycle stays open, or is emptied and not         *)
(* removed, after its Done.                                                *)
ReadyForDoneOneArm(c) == cycles[c] # NoCycle /\ cycles[c].arm_ready # {}
ReadyForDoneThisFrame(c) == cycles[c] # NoCycle /\ frame3d.touched = Arms
CyclesAfterDoneKept(c) == cycles
CyclesAfterDoneEmptied(c) == [cycles EXCEPT ![c].pointer = None]

ReadyForDone(c) == cycles[c] # NoCycle /\ cycles[c].arm_ready = Arms

CyclesAfterDone(c) == [cycles EXCEPT ![c] = NoCycle]

TrySendDone ==
    LET c == frame3d.count IN
    /\ frame3d.at = "try_done"
    /\ IF ReadyForDone(c)
       THEN /\ cycles' = CyclesAfterDone(c)
            /\ frame3d' = [frame3d EXCEPT !.at = "send_done"]
       ELSE /\ frame3d' = IdleFrame
            /\ UNCHANGED cycles
    /\ UNCHANGED <<vars, window, caller, worldVars>>

(* send_enqueue_feedback runs after the cycle was removed.                 *)
SendDone ==
    /\ frame3d.at = "send_done"
    /\ dones' = [dones EXCEPT ![frame3d.count] = @ + 1]
    /\ frame3d' = IdleFrame
    /\ UNCHANGED <<vars, cycles, window, caller, starts, ends, asked2d, ends3d, frames3d>>

(* No connection to the PLC, or none that takes the message: the False it  *)
(* returns is not looked at, and this Done is never sent again.            *)
DoneSendFails ==
    /\ SendMayFail
    /\ frame3d.at = "send_done"
    /\ frame3d' = IdleFrame
    /\ UNCHANGED <<vars, cycles, window, caller, worldVars>>

-----------------------------------------------------------------------------
(* The threads of the flow, and the dequeue side of the queue manager.     *)

(* Of an arm's calls only a completion changes what this flow reads.  Its  *)
(* data requests find the default filled in by the dequeue                 *)
(* (dequeue_timeout), and their race guard does what a dequeue frame does. *)
QueueStep == DequeueStep \/ \E a \in ActiveArms : CompleteFromCache(a) \/ SendD(a)

EndStep(t) == ClaimEnd(t) \/ EndDelivered(t) \/ EndSendFails(t) \/ RollbackEnd(t)

Camera2dStep ==
    \/ Handle2dReady \/ RequestDelivered \/ RequestSendFails \/ RollbackRequest
    \/ \E c \in Counts : Handle2dResult(c)

Frame3dStep ==
    \/ SegmentsDone \/ StoreSegment \/ StoreRejected \/ MarkReady
    \/ TrySendDone \/ SendDone \/ DoneSendFails
    \/ \E a \in Arms : LookupCycle(a)

WorkflowNext ==
    \/ \E part \in Parts : HandleStart(part) \/ HandleEnd(part)
    \/ StartEnqueue
    \/ \E t \in Callers : EndStep(t)
    \/ Camera2dStep
    \/ \E c \in Counts, arms \in SUBSET Arms : Frame3dArrives(c, arms)
    \/ Frame3dStep
    \/ QueueStep /\ UNCHANGED <<workflowVars, worldVars>>

WorkflowSpec == WorkflowInit /\ [][WorkflowNext]_allVars

(* The 3D receiver finishes the frame it works on.                         *)
WorkflowFairSpec == WorkflowSpec /\ WF_allVars(Frame3dStep)

-----------------------------------------------------------------------------
(* Properties.                                                             *)

(* Every variable has its type.                                            *)
CallerType == [at : {"idle", "enqueue", "end", "send_end", "rollback_end",
                     "request", "rollback_request"},
               count : Counts \cup {None}, pointer : Pointers \cup {None}, type : Types]
FrameType == [at : {"idle", "lookup", "store", "mark", "try_done", "send_done"},
              count : Counts \cup {None}, rest : SUBSET Arms, arm : Arms \cup {0},
              pointer : Pointers \cup {None}, touched : SUBSET Arms]
WorldTypeOK ==
    /\ starts \in [Counts -> Nat] /\ ends \in [Counts -> Nat]
    /\ ends3d \in [Counts -> Nat] /\ frames3d \in [Counts -> Nat]
    /\ dones \in [Counts -> Nat]
    /\ asked2d \subseteq Counts
ControlTypeOK ==
    /\ cycles \in [Counts -> Cycle \cup {NoCycle}]
    /\ window \in Counts \cup {None}
    /\ caller \in [Callers -> CallerType]
    /\ frame3d \in FrameType
    /\ WorldTypeOK

WorkflowTypeOK == TypeOK /\ ControlTypeOK

(* When Done goes to the PLC, both arms' parts of that count hold the      *)
(* camera data of that count.                                              *)
DoneHasBothArms ==
    frame3d.at = "send_done" =>
        \A a \in Arms, s \in Seqs :
            items[a][s].count = frame3d.count
                => items[a][s].data = CameraData(frame3d.count)

(* The 3D camera gets the end of a part at most once, though the PLC's     *)
(* thread and the 2D receiver may both send it, and retry after a failure. *)
EndSentOnce == \A c \in Counts : ends3d[c] <= 1

(* A part gets at most one Done.                                           *)
DoneOnce == \A c \in Counts : dones[c] <= 1

(* While the READY window is open, its cycle exists and waits for its 12.  *)
WindowIsLive ==
    window # None => cycles[window] # NoCycle /\ ~cycles[window].end_received

(* Once both arms' data of a cycle are in, by whatever frames, its Done is *)
(* tried: handed to the PLC's connections.  Whether the PLC gets it is     *)
(* another matter: it is tried once, and a failure is not noticed.         *)
DoneTried(c) == frame3d.at = "send_done" /\ frame3d.count = c
CompleteLeadsToDone ==
    \A c \in Counts : cycles[c].arm_ready = Arms ~> DoneTried(c)

(* The threads together implement the flow of a part that PartFlow states: *)
(* one end, then the data, then one Done, which is sent or lost.  A cycle  *)
(* that is gone without a Done is one whose Done was lost.                 *)
Stage(c) == IF dones[c] > 0 THEN "done"
            ELSE IF DoneTried(c) THEN "complete"
            ELSE IF cycles[c] # NoCycle THEN "open"
            ELSE IF starts[c] > 0 THEN "lost" ELSE "absent"

Part == INSTANCE PartFlow WITH stage <- [c \in Counts |-> Stage(c)],
                                told <- ends3d,
                                data <- [c \in Counts |-> cycles[c].arm_ready]

ImplementsPartFlow == Part!FlowFairSpec
=============================================================================
