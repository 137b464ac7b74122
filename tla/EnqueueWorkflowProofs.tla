------------------------ MODULE EnqueueWorkflowProofs ------------------------
(***************************************************************************)
(* What holds of the dual-camera enqueue flow (EnqueueWorkflow) for every  *)
(* set of parts and counts, queue length and number of 3D frames, when the *)
(* PLC sends one 11 and one 12 for a part.                                 *)
(*                                                                         *)
(* ControlInv is about the three threads and the cycles alone: what a      *)
(* thread that is between two locked sections may rely on.  It gives the   *)
(* single end, the live window, the single Done and the implementation of  *)
(* PartFlow.  PartInv ties the cycles to what the queue manager stored:    *)
(* with it a Done means data for both arms.  FlowUsesQueue carries over    *)
(* what QueueManagerProofs shows of the queue manager alone.               *)
(***************************************************************************)
EXTENDS EnqueueWorkflow, QueueManagerProofs

(* The PLC announces a part once and ends it once.                         *)
OnePass == MaxStarts <= 1 /\ MaxEnds <= 1

-----------------------------------------------------------------------------
(* Types.                                                                  *)

(* A thread at work has a part to work on.                                 *)
CallersHavePart ==
    /\ \A t \in Callers : caller[t].at # "idle" => caller[t].count \in Counts
    /\ caller["plc"].at = "enqueue" => caller["plc"].pointer \in Pointers

FrameHasPart ==
    /\ frame3d.at # "idle" => frame3d.count \in Counts
    /\ frame3d.at \in {"store", "mark"} => frame3d.arm \in Arms /\ frame3d.pointer \in Pointers

WorkInv == ControlTypeOK /\ CallersHavePart /\ FrameHasPart

(* The cycle table stays one when a field of an open cycle is set.         *)
LEMMA CycleUpdateType ==
    ASSUME ControlTypeOK, NEW c \in Counts, cycles[c] # NoCycle
    PROVE  /\ cycles[c] \in Cycle
           /\ \A b \in BOOLEAN :
                /\ [cycles EXCEPT ![c].end_sent_to_3d = b] \in [Counts -> Cycle \cup {NoCycle}]
                /\ [cycles EXCEPT ![c].request_sent_to_2d = b] \in [Counts -> Cycle \cup {NoCycle}]
           /\ [cycles EXCEPT ![c].part_type = "typed"] \in [Counts -> Cycle \cup {NoCycle}]
           /\ \A a \in Arms : [cycles EXCEPT ![c].arm_ready = @ \cup {a}]
                                \in [Counts -> Cycle \cup {NoCycle}]
<1>1. cycles[c] \in Cycle /\ cycles \in [Counts -> Cycle \cup {NoCycle}]
  BY DEF ControlTypeOK
<1> QED
  BY <1>1 DEF Cycle

(* A new cycle is one.                                                     *)
LEMMA NewCycleType ==
    ASSUME NEW p \in Pointers
    PROVE  NewCycle(p) \in Cycle /\ NewCycle(p) # NoCycle
BY ConstantsAssumption DEF NewCycle, NoCycle, Cycle, None

(* The cycle of an 11 and of a 12.                                         *)
LEMMA StepCycleType ==
    ASSUME ControlTypeOK, NEW part \in Parts
    PROVE  /\ part.count \in Counts /\ part.pointer \in Pointers
           /\ \A old \in {NewCycle(part.pointer), cycles[part.count]} :
                 old # NoCycle =>
                 LET new == [old EXCEPT !.pointer = part.pointer, !.end_received = TRUE] IN
                 /\ new \in Cycle /\ new # NoCycle
                 /\ new.end_sent_to_3d = old.end_sent_to_3d
                 /\ new.arm_ready = old.arm_ready /\ new.end_received
<1>1. part.count \in Counts /\ part.pointer \in Pointers
  BY WorkflowAssumption
<1>2. ASSUME NEW old \in Cycle
      PROVE  LET new == [old EXCEPT !.pointer = part.pointer, !.end_received = TRUE] IN
             /\ new \in Cycle /\ new.pointer = part.pointer
             /\ new.end_sent_to_3d = old.end_sent_to_3d
             /\ new.arm_ready = old.arm_ready /\ new.end_received
  BY <1>1, <1>2 DEF Cycle
<1>3. \A new \in Cycle : new # NoCycle
  BY ConstantsAssumption DEF Cycle, NoCycle, NewCycle, None
<1>4. NewCycle(part.pointer) \in Cycle /\ cycles[part.count] \in Cycle \cup {NoCycle}
  BY <1>1, NewCycleType DEF ControlTypeOK
<1> QED
  BY <1>1, <1>2, <1>3, <1>4

(* A thread that moves on keeps the threads' types.                        *)
LEMMA CallerMoves ==
    ASSUME WorkInv, NEW t \in Callers, NEW r \in CallerType,
           caller' = [caller EXCEPT ![t] = r],
           r.at # "idle" => r.count \in Counts,
           r.at = "enqueue" => r.pointer \in Pointers
    PROVE  caller' \in [Callers -> CallerType] /\ CallersHavePart'
BY DEF WorkInv, ControlTypeOK, CallersHavePart, Callers

(* The states a thread moves to.                                           *)
LEMMA WorkingType ==
    ASSUME NEW at \in {"enqueue", "end", "send_end", "request"}, NEW c \in Counts,
           NEW p \in Pointers \cup {None}, NEW type \in Types
    PROVE  LET r == Working(at, c, p, type)
           IN  r \in CallerType /\ r.at = at /\ r.count = c /\ r.pointer = p
BY DEF Working, CallerType

(* A thread that takes up work keeps the threads' types.                   *)
LEMMA CallerWorks ==
    ASSUME WorkInv, NEW t \in Callers, NEW c \in Counts, NEW type \in Types,
           NEW at \in {"enqueue", "end", "send_end", "request"},
           NEW p \in Pointers \cup {None}, at = "enqueue" => p \in Pointers,
           caller' = [caller EXCEPT ![t] = Working(at, c, p, type)]
    PROVE  caller' \in [Callers -> CallerType] /\ CallersHavePart'
<1> DEFINE r == Working(at, c, p, type)
<1>1. r \in CallerType /\ r.at = at /\ r.count = c /\ r.pointer = p
  BY WorkingType
<1>2. caller' = [caller EXCEPT ![t] = r]
  OBVIOUS
<1> HIDE DEF r
<1> QED
  BY <1>1, <1>2, CallerMoves

LEMMA IdleType == Idle \in CallerType /\ Idle.at = "idle"
BY DEF Idle, Working, CallerType, Types

LEMMA CallerUpdates ==
    ASSUME NEW r \in CallerType
    PROVE  \A at \in {"rollback_end", "rollback_request"} :
              LET s == [r EXCEPT !.at = at]
              IN  s \in CallerType /\ s.at = at /\ s.count = r.count
BY DEF CallerType

(* Every step of the flow keeps its types, and gives a thread that starts  *)
(* to work a part to work on.                                              *)
LEMMA WorkStep == WorkInv /\ [WorkflowNext]_allVars => WorkInv'
<1> SUFFICES ASSUME WorkInv, [WorkflowNext]_allVars
             PROVE  WorkInv'
  OBVIOUS
<1> DEFINE CycleTable == [Counts -> Cycle \cup {NoCycle}]
<1>0. /\ cycles \in CycleTable /\ window \in Counts \cup {None}
      /\ caller \in [Callers -> CallerType] /\ frame3d \in FrameType
      /\ WorldTypeOK /\ CallersHavePart /\ FrameHasPart
      /\ ControlTypeOK
  BY DEF WorkInv, ControlTypeOK
(* The frames of the cases: what a step of one thread leaves alone.        *)
<1>a. ASSUME UNCHANGED frame3d, cycles' \in CycleTable, window' \in Counts \cup {None},
             WorldTypeOK',
             caller' \in [Callers -> CallerType] /\ CallersHavePart'
      PROVE  WorkInv'
  BY <1>0, <1>a DEF WorkInv, ControlTypeOK, FrameHasPart
<1>b. ASSUME UNCHANGED <<caller, window>>, cycles' \in CycleTable, WorldTypeOK',
             frame3d' \in FrameType, FrameHasPart'
      PROVE  WorkInv'
  BY <1>0, <1>b DEF WorkInv, ControlTypeOK, CallersHavePart
<1>c. Callers = {"plc", "2d"} /\ \A t \in Callers : caller[t] \in CallerType
  BY <1>0 DEF Callers
<1>1. ASSUME NEW part \in Parts, HandleStart(part)
      PROVE  WorkInv'
  <2>1. /\ NewCycle(part.pointer) \in Cycle
        /\ part.count \in Counts /\ part.pointer \in Pointers
    BY <1>0, StepCycleType, NewCycleType
  <2>2. cycles' \in CycleTable /\ window' \in Counts \cup {None} /\ UNCHANGED frame3d
    BY <1>0, <1>1, <2>1 DEF HandleStart
  <2>3. WorldTypeOK'
    BY <1>0, <1>1, <2>1 DEF HandleStart, WorldTypeOK
  <2>4. caller' \in [Callers -> CallerType] /\ CallersHavePart'
    <3>1. caller' = [caller EXCEPT !["plc"] =
                       Working("enqueue", part.count, part.pointer, "none")]
      BY <1>1 DEF HandleStart
    <3> QED
      BY <1>c, <2>1, <3>1, CallerWorks DEF Types
  <2> QED
    BY <1>a, <2>2, <2>3, <2>4
<1>2. ASSUME NEW part \in Parts, HandleEnd(part)
      PROVE  WorkInv'
  <2> DEFINE old == IF cycles[part.count] = NoCycle THEN NewCycle(part.pointer)
                    ELSE cycles[part.count]
             new == [old EXCEPT !.pointer = part.pointer, !.end_received = TRUE]
             type == IF old.part_type = "none" THEN "00,00" ELSE "none"
  <2>1. part.count \in Counts /\ new \in Cycle /\ part.pointer \in Pointers
    BY <1>0, StepCycleType, NewCycleType
  <2>2. cycles' = [cycles EXCEPT ![part.count] = new] /\ UNCHANGED frame3d
    BY <1>2 DEF HandleEnd
  <2>3. cycles' \in CycleTable /\ window' \in Counts \cup {None}
    BY <1>0, <1>2, <2>1, <2>2 DEF HandleEnd, WindowAfterEnd
  <2>4. WorldTypeOK'
    <3>1. /\ ends' = [ends EXCEPT ![part.count] = ends[part.count] + 1]
          /\ UNCHANGED <<starts, asked2d, ends3d, frames3d, dones>>
      BY <1>2 DEF HandleEnd
    <3> QED
      BY <1>0, <2>1, <3>1 DEF WorldTypeOK
  <2>5. /\ caller' = [caller EXCEPT !["plc"] = Working("end", part.count, None, type)]
        /\ type \in Types
    BY <1>2 DEF HandleEnd, Types
  <2>6. caller' \in [Callers -> CallerType] /\ CallersHavePart'
    BY <1>c, <2>1, <2>5, CallerWorks
  <2> QED
    BY <1>a, <2>2, <2>3, <2>4, <2>6
<1>3. CASE StartEnqueue
  <2>1. caller' \in [Callers -> CallerType] /\ CallersHavePart'
    BY <1>3, <1>c, CallerMoves, IdleType DEF StartEnqueue
  <2> QED
    BY <1>3, <1>0, <1>a, <2>1 DEF StartEnqueue, worldVars, WorldTypeOK
<1>4. ASSUME NEW t \in Callers, EndStep(t)
      PROVE  WorkInv'
  <2>1. CASE ClaimEnd(t)
    <3>1. caller[t].count \in Counts
      BY <1>0, <2>1 DEF ClaimEnd, CallersHavePart
    <3>2. cycles' \in CycleTable
      <4>1. CASE UNCHANGED cycles
        BY <1>0, <4>1
      <4>2. CASE /\ cycles[caller[t].count] # NoCycle
                 /\ cycles' = [cycles EXCEPT ![caller[t].count].end_sent_to_3d = TRUE]
        BY <1>0, <3>1, <4>2, CycleUpdateType
      <4> QED
        BY <2>1, <4>1, <4>2 DEF ClaimEnd, MaySendEnd
    <3>3. /\ cycles[caller[t].count] # NoCycle => cycles[caller[t].count].part_type \in Types
          /\ caller[t].type \in Types /\ "00,00" \in Types
      BY <1>0, <1>c, <3>1 DEF Cycle, Types, CallerType
    <3>4. \/ caller' = [caller EXCEPT ![t] = Idle]
          \/ \E type \in Types :
                caller' = [caller EXCEPT ![t] = Working("send_end", caller[t].count, None, type)]
      BY <1>0, <2>1, <3>3 DEF ClaimEnd, MaySendEnd
    <3>5. caller' \in [Callers -> CallerType] /\ CallersHavePart'
      BY <3>1, <3>4, CallerWorks, CallerMoves, IdleType
    <3> QED
      BY <1>0, <1>a, <2>1, <3>2, <3>5 DEF ClaimEnd, worldVars, WorldTypeOK
  <2>2. CASE EndDelivered(t)
    <3>1. caller' \in [Callers -> CallerType] /\ CallersHavePart'
      BY <2>2, CallerMoves, IdleType DEF EndDelivered
    <3>2. caller[t].count \in Counts
      BY <1>0, <2>2 DEF EndDelivered, CallersHavePart
    <3>3. WorldTypeOK'
      BY <1>0, <2>2, <3>2 DEF EndDelivered, WorldTypeOK
    <3> QED
      BY <1>0, <1>a, <2>2, <3>1, <3>3 DEF EndDelivered
  <2>3. CASE EndSendFails(t)
    <3>1. /\ caller' = [caller EXCEPT ![t] = [caller[t] EXCEPT !.at = "rollback_end"]]
          /\ caller[t].count \in Counts
      BY <1>0, <2>3 DEF EndSendFails, CallersHavePart
    <3>2. caller' \in [Callers -> CallerType] /\ CallersHavePart'
      BY <1>c, <3>1, CallerMoves, CallerUpdates
    <3> QED
      BY <1>0, <1>a, <2>3, <3>2 DEF EndSendFails, worldVars, WorldTypeOK
  <2>4. CASE RollbackEnd(t)
    <3>1. caller[t].count \in Counts
      BY <1>0, <2>4 DEF RollbackEnd, CallersHavePart
    <3>2. cycles' \in CycleTable
      BY <1>0, <2>4, <3>1, CycleUpdateType DEF RollbackEnd
    <3>3. caller' \in [Callers -> CallerType] /\ CallersHavePart'
      BY <2>4, CallerMoves, IdleType DEF RollbackEnd
    <3> QED
      BY <1>0, <1>a, <2>4, <3>2, <3>3 DEF RollbackEnd, worldVars, WorldTypeOK
  <2> QED
    BY <1>4, <2>1, <2>2, <2>3, <2>4 DEF EndStep
<1>5. CASE Camera2dStep
  <2>1. CASE Handle2dReady
    <3>1. window \in Counts
      BY <1>0, <2>1 DEF Handle2dReady
    <3>2. cycles' \in CycleTable
      BY <1>0, <2>1, <3>1, CycleUpdateType DEF Handle2dReady
    <3>3. caller' \in [Callers -> CallerType] /\ CallersHavePart'
      <4>1. caller' = [caller EXCEPT !["2d"] = Working("request", window, None, "none")]
        BY <2>1 DEF Handle2dReady
      <4> QED
        BY <1>c, <3>1, <4>1, CallerWorks DEF Types
    <3> QED
      BY <1>0, <1>a, <2>1, <3>2, <3>3 DEF Handle2dReady, worldVars, WorldTypeOK
  <2>2. CASE RequestDelivered
    <3>1. caller["2d"].count \in Counts
      BY <1>0, <1>c, <2>2 DEF RequestDelivered, CallersHavePart
    <3>2. WorldTypeOK'
      BY <1>0, <2>2, <3>1 DEF RequestDelivered, WorldTypeOK
    <3>3. caller' \in [Callers -> CallerType] /\ CallersHavePart'
      BY <2>2, <1>c, CallerMoves, IdleType DEF RequestDelivered
    <3> QED
      BY <1>0, <1>a, <2>2, <3>2, <3>3 DEF RequestDelivered
  <2>3. CASE RequestSendFails
    <3>1. /\ caller' = [caller EXCEPT !["2d"] = [caller["2d"] EXCEPT !.at = "rollback_request"]]
          /\ caller["2d"].count \in Counts
      BY <1>0, <1>c, <2>3 DEF RequestSendFails, CallersHavePart
    <3>2. caller' \in [Callers -> CallerType] /\ CallersHavePart'
      BY <1>c, <3>1, CallerMoves, CallerUpdates
    <3> QED
      BY <1>0, <1>a, <2>3, <3>2 DEF RequestSendFails, worldVars, WorldTypeOK
  <2>4. CASE RollbackRequest
    <3>1. caller["2d"].count \in Counts
      BY <1>0, <1>c, <2>4 DEF RollbackRequest, CallersHavePart
    <3>2. cycles' \in CycleTable
      BY <1>0, <2>4, <3>1, CycleUpdateType DEF RollbackRequest
    <3>3. caller' \in [Callers -> CallerType] /\ CallersHavePart'
      BY <2>4, <1>c, CallerMoves, IdleType DEF RollbackRequest
    <3> QED
      BY <1>0, <1>a, <2>4, <3>2, <3>3 DEF RollbackRequest, worldVars, WorldTypeOK
  <2>5. ASSUME NEW c \in Counts, Handle2dResult(c)
        PROVE  WorkInv'
    <3>1. cycles' \in CycleTable
      BY <1>0, <2>5, CycleUpdateType DEF Handle2dResult
    <3>2. WorldTypeOK'
      BY <1>0, <2>5 DEF Handle2dResult, WorldTypeOK
    <3>3. CASE UNCHANGED caller
      BY <1>0, <1>a, <2>5, <3>1, <3>2, <3>3 DEF Handle2dResult, CallersHavePart
    <3>4. CASE caller' = [caller EXCEPT !["2d"] = Working("end", c, None, "none")]
      <4>1. caller' \in [Callers -> CallerType] /\ CallersHavePart'
        BY <3>4, <1>c, CallerWorks DEF Types
      <4> QED
        BY <1>0, <1>a, <2>5, <3>1, <3>2, <4>1 DEF Handle2dResult
    <3> QED
      BY <2>5, <3>3, <3>4 DEF Handle2dResult
  <2> QED
    BY <1>5, <2>1, <2>2, <2>3, <2>4, <2>5 DEF Camera2dStep
<1>6. ASSUME NEW c \in Counts, NEW arms \in SUBSET Arms, Frame3dArrives(c, arms)
      PROVE  WorkInv'
  <2>1. WorldTypeOK'
    BY <1>0, <1>6 DEF Frame3dArrives, WorldTypeOK
  <2>2. frame3d' \in FrameType /\ FrameHasPart'
    BY <1>6 DEF Frame3dArrives, IdleFrame, FrameType, FrameHasPart
  <2> QED
    BY <1>0, <1>b, <1>6, <2>1, <2>2 DEF Frame3dArrives
<1>7. CASE Frame3dStep
  <2> USE DEF FrameType, FrameHasPart, IdleFrame
  <2>1. CASE SegmentsDone
    BY <1>0, <1>b, <2>1 DEF SegmentsDone, worldVars, WorldTypeOK
  <2>2. CASE StoreSegment
    BY <1>0, <1>b, <2>2 DEF StoreSegment, worldVars, WorldTypeOK
  <2>3. CASE StoreRejected
    BY <1>0, <1>b, <2>3 DEF StoreRejected, worldVars, WorldTypeOK
  <2>4. CASE MarkReady
    <3>1. frame3d.count \in Counts /\ frame3d.arm \in Arms
      BY <1>0, <2>4 DEF MarkReady
    <3>2. cycles' \in CycleTable
      <4>1. CASE UNCHANGED cycles
        BY <1>0, <4>1
      <4>2. CASE /\ cycles[frame3d.count] # NoCycle
                 /\ cycles' = [cycles EXCEPT ![frame3d.count].arm_ready = @ \cup {frame3d.arm}]
        BY <1>0, <3>1, <4>2, CycleUpdateType
      <4> QED
        BY <2>4, <4>1, <4>2 DEF MarkReady
    <3>3. \/ frame3d' = [frame3d EXCEPT !.at = "lookup"]
          \/ frame3d' = [frame3d EXCEPT !.at = "lookup", !.touched = @ \cup {frame3d.arm}]
      BY <2>4 DEF MarkReady
    <3>4. frame3d' \in FrameType
      <4>1. CASE frame3d' = [frame3d EXCEPT !.at = "lookup"]
        BY <1>0, <4>1
      <4>2. CASE frame3d' = [frame3d EXCEPT !.at = "lookup", !.touched = @ \cup {frame3d.arm}]
        BY <1>0, <3>1, <4>2
      <4> QED
        BY <3>3, <4>1, <4>2
    <3>5. frame3d'.at = "lookup" /\ frame3d'.count = frame3d.count
      BY <1>0, <3>3
    <3>6. FrameHasPart'
      BY <3>1, <3>5 DEF FrameHasPart
    <3> QED
      BY <1>0, <1>b, <2>4, <3>2, <3>4, <3>6 DEF MarkReady, worldVars, WorldTypeOK
  <2>5. CASE TrySendDone
    BY <1>0, <1>b, <2>5 DEF TrySendDone, CyclesAfterDone, worldVars, WorldTypeOK
  <2>6. CASE SendDone
    <3>1. WorldTypeOK'
      BY <1>0, <2>6 DEF SendDone, WorldTypeOK
    <3>2. frame3d' \in FrameType /\ FrameHasPart'
      BY <2>6 DEF SendDone
    <3> QED
      BY <1>0, <1>b, <2>6, <3>1, <3>2 DEF SendDone
  <2>8. CASE DoneSendFails
    <3>1. frame3d' \in FrameType /\ FrameHasPart'
      BY <2>8 DEF DoneSendFails
    <3> QED
      BY <1>0, <1>b, <2>8, <3>1 DEF DoneSendFails, worldVars, WorldTypeOK
  <2>7. ASSUME NEW a \in Arms, LookupCycle(a)
        PROVE  WorkInv'
    <3>1. cycles[frame3d.count] # NoCycle => cycles[frame3d.count].pointer \in Pointers
      BY <1>0, <2>7 DEF LookupCycle, Cycle
    <3>2. frame3d' \in FrameType /\ FrameHasPart'
      BY <1>0, <2>7, <3>1 DEF LookupCycle
    <3> QED
      BY <1>0, <1>b, <2>7, <3>2 DEF LookupCycle, worldVars, WorldTypeOK
  <2> QED
    BY <1>7, <2>1, <2>2, <2>3, <2>4, <2>5, <2>6, <2>7, <2>8 DEF Frame3dStep
<1>8. CASE UNCHANGED <<workflowVars, worldVars>>
  BY <1>0, <1>8 DEF workflowVars, worldVars, WorkInv, ControlTypeOK, WorldTypeOK,
                    CallersHavePart, FrameHasPart
<1> QED
  BY <1>1, <1>2, <1>3, <1>4, <1>5, <1>6, <1>7, <1>8 DEF WorkflowNext, allVars

-----------------------------------------------------------------------------
(* What the threads may rely on between two of their locked sections.      *)

AtEnd(t, c) == caller[t].at \in {"end", "send_end", "rollback_end"} /\ caller[t].count = c
EndClaimed(t, c) == caller[t].at \in {"send_end", "rollback_end"} /\ caller[t].count = c
Sealed(c) == cycles[c] = NoCycle \/ cycles[c].end_sent_to_3d

(* What happened to a part: its 11, its 12, the end for the 3D camera,     *)
(* the camera's frames.                                                    *)
InOrder(c) ==
    /\ starts[c] <= 1 /\ ends[c] <= 1
    /\ ends[c] > 0 => starts[c] > 0
    /\ starts[c] = 0 => cycles[c] = NoCycle
    /\ cycles[c].end_received => ends[c] > 0
    /\ \A t \in Callers : AtEnd(t, c) => ends[c] > 0
    /\ ends3d[c] > 0 => ends[c] > 0
    /\ frame3d.at # "idle" /\ frame3d.count = c => ends3d[c] > 0
    /\ cycles[c].arm_ready # {} => ends3d[c] > 0

(* One thread claims the end; the cycle stays sealed from its claim on,    *)
(* and once the camera has the end.                                        *)
OneEnd(c) ==
    /\ ends3d[c] <= 1
    /\ ends3d[c] = 1 => Sealed(c)
    /\ \A t \in Callers : EndClaimed(t, c) => ends3d[c] = 0 /\ Sealed(c)
    /\ ~(EndClaimed("plc", c) /\ EndClaimed("2d", c))

(* A cycle is gone for its Done, after the end went out, and does not come *)
(* back.                                                                   *)
OneDone(c) ==
    /\ dones[c] <= 1
    /\ dones[c] = 1 => cycles[c] = NoCycle /\ ends3d[c] > 0 /\ ~DoneTried(c)
    /\ DoneTried(c) => cycles[c] = NoCycle
    /\ cycles[c] = NoCycle /\ starts[c] > 0 => ends3d[c] > 0

(* The window belongs to a part whose 12 is still to come.                 *)
WindowOpen(c) == window = c => starts[c] > 0 /\ ends[c] = 0 /\ cycles[c] # NoCycle

ControlInv == \A c \in Counts : InOrder(c) /\ OneEnd(c) /\ OneDone(c) /\ WindowOpen(c)

(* The fields of an absent and of a new cycle.                             *)
LEMMA CycleFields ==
    /\ ~NoCycle.end_received /\ ~NoCycle.end_sent_to_3d /\ NoCycle.arm_ready = {}
    /\ \A p : ~NewCycle(p).end_received /\ ~NewCycle(p).end_sent_to_3d
              /\ NewCycle(p).arm_ready = {}
BY DEF NoCycle, NewCycle

(* Threads at work are not idle.                                           *)
LEMMA IdleFields == Idle.at = "idle" /\ IdleFrame.at = "idle"
BY DEF Idle, Working, IdleFrame

LEMMA StartKeepsControl ==
    ASSUME OnePass, WorkInv, ControlInv, NEW part \in Parts, HandleStart(part)
    PROVE  ControlInv'
<1> DEFINE c == part.count
<1>1. c \in Counts /\ part.pointer \in Pointers
  BY WorkflowAssumption
<1>2. /\ starts[c] \in Nat /\ ends[c] \in Nat /\ ends3d[c] \in Nat /\ dones[c] \in Nat
      /\ starts[c] < 1 /\ MaxStarts \in Nat
  BY <1>1, WorkflowAssumption DEF WorkInv, ControlTypeOK, WorldTypeOK, HandleStart, OnePass
<1>3. /\ starts[c] = 0 /\ ends[c] = 0 /\ ends3d[c] = 0 /\ dones[c] = 0
      /\ \A t \in Callers : ~AtEnd(t, c)
      /\ ~(frame3d.at # "idle" /\ frame3d.count = c)
  BY <1>1, <1>2 DEF ControlInv, InOrder, OneDone
<1>4. /\ starts'[c] = 1 /\ cycles'[c] = NewCycle(part.pointer) /\ window' = c
      /\ \A d \in Counts \ {c} : starts'[d] = starts[d] /\ cycles'[d] = cycles[d]
  BY <1>1, <1>3 DEF HandleStart, WorkInv, ControlTypeOK, WorldTypeOK
<1>5. /\ cycles'[c] # NoCycle /\ ~cycles'[c].end_received /\ cycles'[c].arm_ready = {}
  BY <1>1, <1>4, NewCycleType, CycleFields
<1>6. /\ caller'["plc"].at = "enqueue" /\ caller'["2d"] = caller["2d"]
      /\ UNCHANGED <<frame3d, ends, ends3d, dones>>
  BY DEF HandleStart, WorkInv, ControlTypeOK, Callers, Working
<1>7. \A t \in Callers, d \in Counts :
         /\ AtEnd(t, d)' => AtEnd(t, d)
         /\ EndClaimed(t, d)' => EndClaimed(t, d)
  BY <1>6 DEF AtEnd, EndClaimed, Callers
<1>8. "plc" \in Callers /\ "2d" \in Callers
  BY DEF Callers
<1>9. \A d \in Counts : EndClaimed("plc", d)' \/ EndClaimed("2d", d)' => d # c
  BY <1>3, <1>7, <1>8 DEF EndClaimed, AtEnd
<1> HIDE DEF c
<1> SUFFICES ASSUME NEW d \in Counts
             PROVE  (InOrder(d) /\ OneEnd(d) /\ OneDone(d) /\ WindowOpen(d))'
  BY DEF ControlInv
<1>10. InOrder(d) /\ OneEnd(d) /\ OneDone(d) /\ WindowOpen(d)
  BY DEF ControlInv
<1>11. CASE d = c
  <2>1. InOrder(d)'
    BY <1>3, <1>4, <1>5, <1>6, <1>7, <1>11 DEF InOrder
  <2>2. OneEnd(d)'
    BY <1>3, <1>6, <1>9, <1>8, <1>11 DEF OneEnd, EndClaimed, Callers
  <2>3. OneDone(d)' /\ WindowOpen(d)'
    BY <1>3, <1>4, <1>5, <1>6, <1>11 DEF OneDone, DoneTried, WindowOpen
  <2> QED
    BY <2>1, <2>2, <2>3
<1>12. CASE d # c
  <2>1. starts'[d] = starts[d] /\ cycles'[d] = cycles[d]
    BY <1>4, <1>12
  <2>2. InOrder(d)'
    BY <1>6, <1>7, <1>10, <2>1 DEF InOrder
  <2>3. OneEnd(d)'
    BY <1>6, <1>7, <1>8, <1>10, <2>1 DEF OneEnd, Sealed
  <2>4. OneDone(d)' /\ WindowOpen(d)'
    BY <1>4, <1>6, <1>10, <1>12, <2>1 DEF OneDone, DoneTried, WindowOpen
  <2> QED
    BY <2>2, <2>3, <2>4
<1> QED
  BY <1>11, <1>12

LEMMA EndKeepsControl ==
    ASSUME OnePass, WorkInv, ControlInv, NEW part \in Parts, HandleEnd(part)
    PROVE  ControlInv'
<1> DEFINE c == part.count
           old == IF cycles[c] = NoCycle THEN NewCycle(part.pointer) ELSE cycles[c]
           new == [old EXCEPT !.pointer = part.pointer, !.end_received = TRUE]
<1>1. c \in Counts /\ part.pointer \in Pointers
  BY WorkflowAssumption
<1>2. /\ starts[c] \in Nat /\ ends[c] \in Nat /\ ends3d[c] \in Nat /\ dones[c] \in Nat
      /\ starts[c] > 0 /\ ends[c] < 1
  <2>1. starts[c] > 0 /\ ends[c] < MaxEnds
    BY DEF HandleEnd
  <2> QED
    BY <1>1, <2>1, WorkflowAssumption DEF WorkInv, ControlTypeOK, WorldTypeOK, OnePass
<1>3. /\ ends[c] = 0 /\ ends3d[c] = 0 /\ dones[c] = 0 /\ starts[c] = 1
      /\ \A t \in Callers : ~AtEnd(t, c)
      /\ ~(frame3d.at # "idle" /\ frame3d.count = c)
      /\ cycles[c].arm_ready = {}
  BY <1>1, <1>2 DEF ControlInv, InOrder, OneDone
<1>4. /\ ends'[c] = 1 /\ cycles'[c] = new
      /\ window' = (IF window = c THEN None ELSE window)
      /\ \A d \in Counts \ {c} : ends'[d] = ends[d] /\ cycles'[d] = cycles[d]
  <2>1. /\ ends' = [ends EXCEPT ![c] = ends[c] + 1]
        /\ cycles' = [cycles EXCEPT ![c] = new]
        /\ window' = (IF window = c THEN None ELSE window)
    BY DEF HandleEnd, WindowAfterEnd
  <2> HIDE DEF new
  <2> QED
    BY <1>1, <1>3, <2>1 DEF WorkInv, ControlTypeOK, WorldTypeOK
<1>5. old \in Cycle /\ old # NoCycle /\ old.arm_ready = {}
  BY <1>1, <1>3, NewCycleType, CycleFields DEF WorkInv, ControlTypeOK
<1>6. new # NoCycle /\ new.arm_ready = {}
  BY <1>1, <1>5, StepCycleType DEF WorkInv
<1>7. /\ caller'["plc"].at = "end" /\ caller'["plc"].count = c
      /\ caller'["2d"] = caller["2d"]
      /\ UNCHANGED <<frame3d, starts, ends3d, dones>>
  BY DEF HandleEnd, WorkInv, ControlTypeOK, Callers, Working
<1>8. \A t \in Callers, d \in Counts :
         /\ AtEnd(t, d)' => AtEnd(t, d) \/ d = c
         /\ EndClaimed(t, d)' => EndClaimed(t, d)
  BY <1>7 DEF AtEnd, EndClaimed, Callers
<1>9. "plc" \in Callers /\ "2d" \in Callers
  BY DEF Callers
<1>10. \A t \in Callers, d \in Counts : EndClaimed(t, d)' => d # c
  BY <1>3, <1>8 DEF EndClaimed, AtEnd
<1>11. c # None
  BY <1>1, ConstantsAssumption DEF None
<1> HIDE DEF c, new
<1> SUFFICES ASSUME NEW d \in Counts
             PROVE  (InOrder(d) /\ OneEnd(d) /\ OneDone(d) /\ WindowOpen(d))'
  BY DEF ControlInv
<1>12. InOrder(d) /\ OneEnd(d) /\ OneDone(d) /\ WindowOpen(d)
  BY DEF ControlInv
<1>13. CASE d = c
  <2>1. InOrder(d)'
    BY <1>3, <1>4, <1>6, <1>7, <1>13 DEF InOrder
  <2>2. OneEnd(d)'
    BY <1>3, <1>7, <1>10, <1>9, <1>13 DEF OneEnd
  <2>3. OneDone(d)' /\ WindowOpen(d)'
    BY <1>3, <1>4, <1>6, <1>7, <1>11, <1>13 DEF OneDone, DoneTried, WindowOpen
  <2> QED
    BY <2>1, <2>2, <2>3
<1>14. CASE d # c
  <2>1. ends'[d] = ends[d] /\ cycles'[d] = cycles[d] /\ (window' = d => window = d)
    BY <1>4, <1>14, ConstantsAssumption DEF None
  <2>2. InOrder(d)'
    BY <1>7, <1>8, <1>12, <1>14, <2>1 DEF InOrder
  <2>3. OneEnd(d)'
    BY <1>7, <1>8, <1>9, <1>12, <2>1 DEF OneEnd, Sealed
  <2>4. OneDone(d)' /\ WindowOpen(d)'
    BY <1>7, <1>12, <2>1 DEF OneDone, DoneTried, WindowOpen
  <2> QED
    BY <2>2, <2>3, <2>4
<1> QED
  BY <1>13, <1>14

(* One cycle's field changes, and one thread moves: what the steps of the  *)
(* two threads that may send the end have in common.                       *)
LEMMA EndStepKeepsControl ==
    ASSUME OnePass, WorkInv, ControlInv, NEW t \in Callers, EndStep(t),
           NEW c, c = caller[t].count
    PROVE  ControlInv'
<1>1. c \in Counts
  BY DEF WorkInv, CallersHavePart, EndStep, ClaimEnd, EndDelivered, EndSendFails, RollbackEnd
<1>2. /\ \A u \in Callers \ {t} : caller'[u] = caller[u]
      /\ \A d \in Counts \ {c} : cycles'[d] = cycles[d] /\ ends3d'[d] = ends3d[d]
      /\ UNCHANGED <<window, frame3d, starts, ends, dones>>
  BY <1>1 DEF WorkInv, ControlTypeOK, WorldTypeOK, EndStep, ClaimEnd, EndDelivered,
              EndSendFails, RollbackEnd, worldVars
<1>3. InOrder(c) /\ OneEnd(c) /\ OneDone(c) /\ WindowOpen(c)
  BY <1>1 DEF ControlInv
<1>4. caller[t] \in CallerType /\ cycles[c] \in Cycle \cup {NoCycle} /\ ends3d[c] \in Nat
  BY <1>1 DEF WorkInv, ControlTypeOK, WorldTypeOK
(* The thread stays with its part or becomes idle.                         *)
<1>5. caller'[t].at = "idle" \/ (caller'[t].count = c /\ caller'[t].at # "idle")
  <2>1. \/ caller' = [caller EXCEPT ![t] = Idle]
        \/ caller' = [caller EXCEPT ![t].at = "rollback_end"]
        \/ \E type : caller' = [caller EXCEPT ![t] = Working("send_end", c, None, type)]
    BY DEF EndStep, ClaimEnd, EndDelivered, EndSendFails, RollbackEnd
  <2>2. /\ Idle.at = "idle"
        /\ [caller[t] EXCEPT !.at = "rollback_end"].at = "rollback_end"
        /\ [caller[t] EXCEPT !.at = "rollback_end"].count = c
        /\ \A type : /\ Working("send_end", c, None, type).at = "send_end"
                     /\ Working("send_end", c, None, type).count = c
    BY <1>4, IdleFields DEF Working, CallerType
  <2> QED
    BY <2>1, <2>2 DEF WorkInv, ControlTypeOK
<1>6. AtEnd(t, c)
  BY DEF AtEnd, EndStep, ClaimEnd, EndDelivered, EndSendFails, RollbackEnd
<1>7. ends[c] > 0 /\ starts[c] > 0 /\ window # c
  BY <1>1, <1>3, <1>6 DEF InOrder, WindowOpen
<1>8. /\ cycles'[c] = NoCycle <=> cycles[c] = NoCycle
      /\ cycles'[c].end_received = cycles[c].end_received
      /\ cycles'[c].arm_ready = cycles[c].arm_ready
  <2>1. \A b \in BOOLEAN :
           cycles[c] # NoCycle =>
              LET new == [cycles[c] EXCEPT !.end_sent_to_3d = b]
              IN  /\ new # NoCycle /\ new.end_received = cycles[c].end_received
                  /\ new.arm_ready = cycles[c].arm_ready
    BY <1>4, ConstantsAssumption DEF Cycle, NoCycle, NewCycle, None
  <2>2. \/ cycles' = cycles
        \/ /\ cycles[c] # NoCycle
           /\ \E b \in BOOLEAN : cycles' = [cycles EXCEPT ![c].end_sent_to_3d = b]
    BY DEF EndStep, ClaimEnd, EndDelivered, EndSendFails, RollbackEnd, MaySendEnd, worldVars
  <2> QED
    BY <1>1, <2>1, <2>2 DEF WorkInv, ControlTypeOK
<1>9. \A d \in Counts : InOrder(d)' /\ OneDone(d)' /\ WindowOpen(d)'
  <2> SUFFICES ASSUME NEW d \in Counts
               PROVE  (InOrder(d) /\ OneDone(d) /\ WindowOpen(d))'
    OBVIOUS
  <2>1. InOrder(d) /\ OneDone(d) /\ WindowOpen(d)
    BY DEF ControlInv
  <2>2. \A u \in Callers : AtEnd(u, d)' => AtEnd(u, d)
    BY <1>2, <1>5, <1>6 DEF AtEnd
  <2>3. ends3d'[d] > 0 => ends[d] > 0
    BY <1>2, <1>7, <2>1 DEF InOrder
  <2>4. ends3d[d] > 0 => ends3d'[d] > 0
    <3>1. ends3d' = ends3d \/ ends3d' = [ends3d EXCEPT ![c] = ends3d[c] + 1]
      BY DEF EndStep, ClaimEnd, EndDelivered, EndSendFails, RollbackEnd, worldVars
    <3> QED
      BY <1>1, <1>4, <3>1 DEF WorkInv, ControlTypeOK, WorldTypeOK
  <2>5. /\ cycles'[d] = NoCycle <=> cycles[d] = NoCycle
        /\ cycles'[d].end_received = cycles[d].end_received
        /\ cycles'[d].arm_ready = cycles[d].arm_ready
    BY <1>2, <1>8
  <2>6. InOrder(d)'
    BY <1>2, <2>1, <2>2, <2>3, <2>4, <2>5 DEF InOrder
  <2>7. OneDone(d)' /\ WindowOpen(d)'
    BY <1>2, <2>1, <2>4, <2>5 DEF OneDone, DoneTried, WindowOpen
  <2> QED
    BY <2>6, <2>7
(* Claims: a thread claims a cycle that is not sealed, so no other has.    *)
<1>10. \A d \in Counts \ {c} : OneEnd(d)'
  <2> SUFFICES ASSUME NEW d \in Counts \ {c}
               PROVE  OneEnd(d)'
    OBVIOUS
  <2>1. OneEnd(d) /\ cycles'[d] = cycles[d] /\ ends3d'[d] = ends3d[d]
    BY <1>2 DEF ControlInv
  <2>2. \A u \in Callers : EndClaimed(u, d)' => EndClaimed(u, d)
    BY <1>2, <1>5 DEF EndClaimed
  <2> QED
    BY <2>1, <2>2 DEF OneEnd, Sealed, Callers
<1>11. OneEnd(c)'
  <2>0. \A u \in Callers \ {t} : EndClaimed(u, c)' <=> EndClaimed(u, c)
    BY <1>2 DEF EndClaimed
  <2>1. CASE ClaimEnd(t)
    <3>1. CASE MaySendEnd(c)
      <4>1. ~Sealed(c) /\ ends3d[c] = 0 /\ \A u \in Callers : ~EndClaimed(u, c)
        BY <1>3, <1>4, <3>1 DEF MaySendEnd, Sealed, OneEnd
      <4>2. Sealed(c)' /\ ends3d'[c] = 0
        <5>1. cycles' = [cycles EXCEPT ![c].end_sent_to_3d = TRUE]
          BY <2>1, <3>1 DEF ClaimEnd
        <5>2. cycles'[c] = [cycles[c] EXCEPT !.end_sent_to_3d = TRUE] /\ cycles[c] \in Cycle
          BY <1>1, <1>4, <3>1, <5>1 DEF WorkInv, ControlTypeOK, MaySendEnd
        <5> QED
          BY <2>1, <4>1, <5>2 DEF Sealed, Cycle, ClaimEnd, worldVars
      <4> QED
        BY <2>0, <4>1, <4>2 DEF OneEnd, Callers
    <3>2. CASE ~MaySendEnd(c)
      <4>1. UNCHANGED cycles /\ ends3d' = ends3d /\ caller' = [caller EXCEPT ![t] = Idle]
        BY <2>1, <3>2 DEF ClaimEnd, worldVars
      <4>2. ~EndClaimed(t, c)'
        BY <4>1, IdleFields DEF EndClaimed, WorkInv, ControlTypeOK
      <4> QED
        BY <1>3, <2>0, <4>1, <4>2 DEF OneEnd, Sealed, Callers
    <3> QED
      BY <3>1, <3>2
  <2>2. CASE EndDelivered(t)
    <3>1. EndClaimed(t, c) /\ ends3d[c] = 0 /\ Sealed(c)
      BY <1>3, <2>2 DEF EndDelivered, EndClaimed, OneEnd
    <3>2. \A u \in Callers : ~EndClaimed(u, c)'
      BY <1>3, <2>0, <2>2, <3>1, IdleFields
         DEF EndDelivered, EndClaimed, OneEnd, Callers, WorkInv, ControlTypeOK
    <3>3. ends3d'[c] = 1 /\ Sealed(c)'
      BY <1>1, <2>2, <3>1 DEF EndDelivered, Sealed, WorkInv, ControlTypeOK, WorldTypeOK
    <3> QED
      BY <3>2, <3>3 DEF OneEnd, Callers
  <2>3. CASE EndSendFails(t)
    <3>1. EndClaimed(t, c) /\ UNCHANGED <<cycles, ends3d>>
      BY <2>3 DEF EndSendFails, EndClaimed, worldVars
    <3>2. \A u \in Callers : EndClaimed(u, c)' => EndClaimed(u, c)
      BY <2>0, <3>1
    <3> QED
      BY <1>3, <3>1, <3>2 DEF OneEnd, Sealed, Callers
  <2>4. CASE RollbackEnd(t)
    <3>1. EndClaimed(t, c) /\ ends3d[c] = 0 /\ UNCHANGED ends3d
      BY <1>3, <2>4 DEF RollbackEnd, EndClaimed, OneEnd, worldVars
    <3>2. \A u \in Callers : ~EndClaimed(u, c)'
      BY <1>3, <2>0, <2>4, <3>1, IdleFields
         DEF RollbackEnd, EndClaimed, OneEnd, Callers, WorkInv, ControlTypeOK
    <3> QED
      BY <3>1, <3>2 DEF OneEnd, Callers
  <2> QED
    BY <2>1, <2>2, <2>3, <2>4 DEF EndStep
<1> QED
  BY <1>9, <1>10, <1>11 DEF ControlInv

(* The 2D camera's thread marks a request and keeps a type; it takes up an *)
(* end only where the 12 was received, and claims nothing here.            *)
LEMMA Camera2dKeepsControl ==
    ASSUME OnePass, WorkInv, ControlInv, Camera2dStep
    PROVE  ControlInv'
<1>1. /\ UNCHANGED <<window, frame3d, starts, ends, ends3d, dones>>
      /\ caller'["plc"] = caller["plc"]
  BY DEF WorkInv, ControlTypeOK, Callers, Camera2dStep, Handle2dReady, RequestDelivered,
         RequestSendFails, RollbackRequest, Handle2dResult, worldVars
<1>2. ASSUME NEW d \in Counts
      PROVE  /\ cycles'[d] = NoCycle <=> cycles[d] = NoCycle
             /\ cycles'[d].end_received = cycles[d].end_received
             /\ cycles'[d].end_sent_to_3d = cycles[d].end_sent_to_3d
             /\ cycles'[d].arm_ready = cycles[d].arm_ready
  <2>1. ASSUME NEW r \in Cycle
        PROVE  /\ r # NoCycle
               /\ [r EXCEPT !.part_type = "typed"] \in Cycle
               /\ \A b \in BOOLEAN : [r EXCEPT !.request_sent_to_2d = b] \in Cycle
    BY <2>1, ConstantsAssumption DEF Cycle, NoCycle, NewCycle, None
  <2>2. ASSUME NEW r \in Cycle
        PROVE  /\ [r EXCEPT !.part_type = "typed"].end_received = r.end_received
               /\ [r EXCEPT !.part_type = "typed"].end_sent_to_3d = r.end_sent_to_3d
               /\ [r EXCEPT !.part_type = "typed"].arm_ready = r.arm_ready
               /\ \A b \in BOOLEAN :
                    LET new == [r EXCEPT !.request_sent_to_2d = b]
                    IN  /\ new.end_received = r.end_received
                        /\ new.end_sent_to_3d = r.end_sent_to_3d
                        /\ new.arm_ready = r.arm_ready
    BY <2>2 DEF Cycle
  <2>3. \/ UNCHANGED cycles
        \/ \E c \in Counts :
             /\ cycles[c] # NoCycle
             /\ \/ cycles' = [cycles EXCEPT ![c] = [cycles[c] EXCEPT !.part_type = "typed"]]
                \/ \E b \in BOOLEAN :
                     cycles' = [cycles EXCEPT ![c] = [cycles[c] EXCEPT !.request_sent_to_2d = b]]
    <3>1. Handle2dReady => window \in Counts
      BY DEF Handle2dReady, WorkInv, ControlTypeOK
    <3>2. RollbackRequest => caller["2d"].count \in Counts
      BY DEF RollbackRequest, WorkInv, CallersHavePart, Callers
    <3>3. CASE Handle2dReady
      BY <3>1, <3>3 DEF Handle2dReady
    <3>4. CASE RollbackRequest
      BY <3>2, <3>4 DEF RollbackRequest
    <3>5. CASE RequestDelivered \/ RequestSendFails
      BY <3>5 DEF RequestDelivered, RequestSendFails
    <3>6. CASE \E c \in Counts : Handle2dResult(c)
      BY <3>6 DEF Handle2dResult
    <3> QED
      BY <3>3, <3>4, <3>5, <3>6 DEF Camera2dStep
  <2>4. CASE UNCHANGED cycles
    BY <2>4
  <2>5. ASSUME NEW c \in Counts, cycles[c] # NoCycle, NEW r,
               r # NoCycle, r.end_received = cycles[c].end_received,
               r.end_sent_to_3d = cycles[c].end_sent_to_3d, r.arm_ready = cycles[c].arm_ready,
               cycles' = [cycles EXCEPT ![c] = r]
        PROVE  /\ cycles'[d] = NoCycle <=> cycles[d] = NoCycle
               /\ cycles'[d].end_received = cycles[d].end_received
               /\ cycles'[d].end_sent_to_3d = cycles[d].end_sent_to_3d
               /\ cycles'[d].arm_ready = cycles[d].arm_ready
    BY <2>5 DEF WorkInv, ControlTypeOK
  <2>6. \A c \in Counts : cycles[c] # NoCycle => cycles[c] \in Cycle
    BY DEF WorkInv, ControlTypeOK
  <2>7. ASSUME NEW c \in Counts, cycles[c] # NoCycle,
               cycles' = [cycles EXCEPT ![c] = [cycles[c] EXCEPT !.part_type = "typed"]]
        PROVE  /\ cycles'[d] = NoCycle <=> cycles[d] = NoCycle
               /\ cycles'[d].end_received = cycles[d].end_received
               /\ cycles'[d].end_sent_to_3d = cycles[d].end_sent_to_3d
               /\ cycles'[d].arm_ready = cycles[d].arm_ready
    <3> DEFINE r == [cycles[c] EXCEPT !.part_type = "typed"]
    <3>1. /\ r # NoCycle /\ r.end_received = cycles[c].end_received
          /\ r.end_sent_to_3d = cycles[c].end_sent_to_3d /\ r.arm_ready = cycles[c].arm_ready
      BY <2>1, <2>2, <2>6, <2>7
    <3>2. cycles' = [cycles EXCEPT ![c] = r]
      BY <2>7
    <3> HIDE DEF r
    <3> QED
      BY <2>5, <2>7, <3>1, <3>2
  <2>8. ASSUME NEW c \in Counts, cycles[c] # NoCycle, NEW b \in BOOLEAN,
               cycles' = [cycles EXCEPT ![c] = [cycles[c] EXCEPT !.request_sent_to_2d = b]]
        PROVE  /\ cycles'[d] = NoCycle <=> cycles[d] = NoCycle
               /\ cycles'[d].end_received = cycles[d].end_received
               /\ cycles'[d].end_sent_to_3d = cycles[d].end_sent_to_3d
               /\ cycles'[d].arm_ready = cycles[d].arm_ready
    <3> DEFINE r == [cycles[c] EXCEPT !.request_sent_to_2d = b]
    <3>1. /\ r # NoCycle /\ r.end_received = cycles[c].end_received
          /\ r.end_sent_to_3d = cycles[c].end_sent_to_3d /\ r.arm_ready = cycles[c].arm_ready
      BY <2>1, <2>2, <2>6, <2>8
    <3>2. cycles' = [cycles EXCEPT ![c] = r]
      BY <2>8
    <3> HIDE DEF r
    <3> QED
      BY <2>5, <2>8, <3>1, <3>2
  <2> QED
    BY <2>3, <2>4, <2>7, <2>8
<1>3. /\ \A d \in Counts : ~EndClaimed("2d", d)'
      /\ \A d \in Counts : AtEnd("2d", d)' => cycles[d].end_received
  <2>1. \/ caller' = [caller EXCEPT !["2d"] = Idle]
        \/ caller' = caller /\ caller["2d"].at = "idle"
        \/ caller["2d"].at = "request" /\ caller' = [caller EXCEPT !["2d"].at = "rollback_request"]
        \/ \E c : caller' = [caller EXCEPT !["2d"] = Working("request", c, None, "none")]
        \/ \E c \in Counts : /\ caller' = [caller EXCEPT !["2d"] = Working("end", c, None, "none")]
                             /\ cycles[c].end_received
    BY DEF Camera2dStep, Handle2dReady, RequestDelivered, RequestSendFails, RollbackRequest,
           Handle2dResult
  <2>2. /\ Idle.at = "idle"
        /\ \A at, c, p, type : Working(at, c, p, type).at = at /\ Working(at, c, p, type).count = c
        /\ [caller["2d"] EXCEPT !.at = "rollback_request"].at = "rollback_request"
    BY IdleFields DEF Working, WorkInv, ControlTypeOK, CallerType, Callers
  <2>3. "2d" \in Callers
    BY DEF Callers
  <2>4. \/ caller'["2d"].at \in {"idle", "request", "rollback_request"}
        \/ \E c \in Counts : /\ caller'["2d"].at = "end" /\ caller'["2d"].count = c
                             /\ cycles[c].end_received
    <3>1. \A r : caller' = [caller EXCEPT !["2d"] = r] => caller'["2d"] = r
      BY <2>3 DEF WorkInv, ControlTypeOK
    <3>2. \/ caller'["2d"] = Idle
          \/ caller'["2d"].at = "idle"
          \/ caller'["2d"] = [caller["2d"] EXCEPT !.at = "rollback_request"]
          \/ \E c : caller'["2d"] = Working("request", c, None, "none")
          \/ \E c \in Counts : /\ caller'["2d"] = Working("end", c, None, "none")
                               /\ cycles[c].end_received
      BY <2>1, <3>1, Zenon
    <3>3. ASSUME NEW c, caller'["2d"] = Working("request", c, None, "none")
          PROVE  caller'["2d"].at = "request"
      BY <2>2, <3>3
    <3>4. ASSUME NEW c, caller'["2d"] = Working("end", c, None, "none")
          PROVE  caller'["2d"].at = "end" /\ caller'["2d"].count = c
      BY <2>2, <3>4
    <3> QED
      BY <2>2, <3>2, <3>3, <3>4
  <2> QED
    BY <2>4 DEF EndClaimed, AtEnd
<1> SUFFICES ASSUME NEW d \in Counts
             PROVE  (InOrder(d) /\ OneEnd(d) /\ OneDone(d) /\ WindowOpen(d))'
  BY DEF ControlInv
<1>4. InOrder(d) /\ OneEnd(d) /\ OneDone(d) /\ WindowOpen(d)
  BY DEF ControlInv
<1>5. \A t \in Callers : AtEnd(t, d)' => AtEnd(t, d) \/ cycles[d].end_received
  BY <1>1, <1>3 DEF AtEnd, Callers
<1>6. \A t \in Callers : EndClaimed(t, d)' => EndClaimed(t, d) /\ t = "plc"
  BY <1>1, <1>3 DEF EndClaimed, Callers
<1>7. InOrder(d)'
  BY <1>1, <1>2, <1>4, <1>5 DEF InOrder
<1>8. OneEnd(d)'
  BY <1>1, <1>2, <1>4, <1>6 DEF OneEnd, Sealed, Callers
<1>9. OneDone(d)' /\ WindowOpen(d)'
  BY <1>1, <1>2, <1>4 DEF OneDone, DoneTried, WindowOpen
<1> QED
  BY <1>7, <1>8, <1>9

(* The 3D camera sends frames of a part it was told the end of; the thread *)
(* marks an open cycle, removes a complete one, and sends its Done.        *)
LEMMA Frame3dKeepsControl ==
    ASSUME OnePass, WorkInv, ControlInv,
           Frame3dStep \/ \E d \in Counts, arms \in SUBSET Arms : Frame3dArrives(d, arms)
    PROVE  ControlInv'
<1>1. UNCHANGED <<caller, window, starts, ends, ends3d>>
  BY DEF Frame3dStep, Frame3dArrives, SegmentsDone, StoreSegment, StoreRejected, MarkReady,
         TrySendDone, SendDone, DoneSendFails, LookupCycle, worldVars
<1>2. /\ frame3d \in FrameType /\ cycles \in [Counts -> Cycle \cup {NoCycle}]
      /\ dones \in [Counts -> Nat]
      /\ frame3d.at # "idle" => frame3d.count \in Counts
      /\ \A d \in Counts : cycles[d] # NoCycle => cycles[d] \in Cycle
  BY DEF WorkInv, ControlTypeOK, WorldTypeOK, FrameHasPart
<1>3. \A d \in Counts : InOrder(d) /\ OneEnd(d) /\ OneDone(d) /\ WindowOpen(d)
  BY DEF ControlInv
(* What the parts of the invariant about the other threads need.           *)
<1>4. ASSUME NEW d \in Counts,
             cycles'[d] = NoCycle => cycles[d] = NoCycle \/ ends3d[d] > 0,
             cycles[d] = NoCycle => cycles'[d] = NoCycle,
             cycles'[d] # NoCycle =>
                /\ cycles'[d].end_received = cycles[d].end_received
                /\ cycles'[d].end_sent_to_3d = cycles[d].end_sent_to_3d,
             cycles'[d] # NoCycle /\ cycles'[d].arm_ready # {} => ends3d[d] > 0,
             frame3d'.at # "idle" /\ frame3d'.count = d => ends3d[d] > 0,
             OneDone(d)'
      PROVE  (InOrder(d) /\ OneEnd(d) /\ OneDone(d) /\ WindowOpen(d))'
  <2>1. InOrder(d) /\ OneEnd(d) /\ WindowOpen(d)
    BY <1>3
  <2>2. \A t \in Callers : /\ AtEnd(t, d)' <=> AtEnd(t, d)
                           /\ EndClaimed(t, d)' <=> EndClaimed(t, d)
    BY <1>1 DEF AtEnd, EndClaimed
  <2>3. InOrder(d)'
    BY <1>1, <1>4, <2>1, <2>2, CycleFields DEF InOrder
  <2>4. Sealed(d) => Sealed(d)'
    BY <1>4 DEF Sealed
  <2>5. OneEnd(d)'
    BY <1>1, <2>1, <2>2, <2>4 DEF OneEnd, Callers
  <2>6. WindowOpen(d)'
    <3>1. window = d => ~(ends3d[d] > 0)
      BY <2>1 DEF InOrder, WindowOpen, WorkInv, ControlTypeOK, WorldTypeOK
    <3> QED
      BY <1>1, <1>4, <2>1, <3>1 DEF WindowOpen
  <2> QED
    BY <1>4, <2>3, <2>5, <2>6
(* The steps that leave the cycles and the Dones alone.                    *)
<1>5. ASSUME UNCHANGED <<cycles, dones>>,
             frame3d'.at \notin {"idle", "send_done"}
                => frame3d'.count \in Counts /\ ends3d[frame3d'.count] > 0,
             frame3d'.at # "send_done"
      PROVE  ControlInv'
  <2> SUFFICES ASSUME NEW d \in Counts
               PROVE  (InOrder(d) /\ OneEnd(d) /\ OneDone(d) /\ WindowOpen(d))'
    BY DEF ControlInv
  <2>1. OneDone(d)'
    BY <1>1, <1>3, <1>5 DEF OneDone, DoneTried
  <2>2. cycles[d].arm_ready # {} => ends3d[d] > 0
    BY <1>3 DEF InOrder
  <2> QED
    BY <1>4, <1>5, <2>1, <2>2
<1>6. frame3d.at # "idle" => ends3d[frame3d.count] > 0
  BY <1>2, <1>3 DEF InOrder
<1>7. ASSUME NEW d \in Counts, NEW arms \in SUBSET Arms, Frame3dArrives(d, arms)
      PROVE  ControlInv'
  <2>1. frame3d'.at = "lookup" /\ frame3d'.count = d /\ ends3d[d] > 0
    BY <1>7 DEF Frame3dArrives, IdleFrame
  <2>2. UNCHANGED <<cycles, dones>>
    BY <1>7 DEF Frame3dArrives
  <2> QED
    BY <1>5, <2>1, <2>2
<1>8. CASE SegmentsDone \/ StoreSegment \/ StoreRejected \/ \E a \in Arms : LookupCycle(a)
  <2>1. /\ frame3d.at \in {"lookup", "store"}
        /\ \/ frame3d'.at = "idle"
           \/ frame3d'.at \in {"lookup", "store", "mark", "try_done"}
              /\ frame3d'.count = frame3d.count
    BY <1>2, <1>8, IdleFields DEF SegmentsDone, StoreSegment, StoreRejected, LookupCycle, FrameType
  <2>2. UNCHANGED <<cycles, dones>>
    BY <1>8 DEF SegmentsDone, StoreSegment, StoreRejected, LookupCycle, worldVars
  <2> QED
    BY <1>2, <1>5, <1>6, <2>1, <2>2
<1>9. CASE MarkReady
  <2>1. /\ frame3d.at = "mark" /\ frame3d'.at = "lookup" /\ frame3d'.count = frame3d.count
        /\ frame3d.count \in Counts /\ UNCHANGED dones
    BY <1>2, <1>9 DEF MarkReady, worldVars, FrameType
  <2>2. CASE UNCHANGED cycles
    BY <1>5, <1>6, <2>1, <2>2
  <2>3. CASE /\ cycles[frame3d.count] # NoCycle
             /\ cycles' = [cycles EXCEPT ![frame3d.count].arm_ready = @ \cup {frame3d.arm}]
    <3> SUFFICES ASSUME NEW d \in Counts
                 PROVE  (InOrder(d) /\ OneEnd(d) /\ OneDone(d) /\ WindowOpen(d))'
      BY DEF ControlInv
    <3>1. CASE d = frame3d.count
      <4>1. /\ cycles[d] \in Cycle
            /\ cycles'[d] = [cycles[d] EXCEPT !.arm_ready = @ \cup {frame3d.arm}]
        BY <1>2, <2>3, <3>1
      <4>2. /\ cycles'[d].end_received = cycles[d].end_received
            /\ cycles'[d].end_sent_to_3d = cycles[d].end_sent_to_3d
            /\ cycles'[d].pointer = cycles[d].pointer
        BY <4>1 DEF Cycle
      <4>3. \A r : r.pointer \in Pointers => r # NoCycle
        BY ConstantsAssumption DEF NoCycle, NewCycle, None
      <4>4. cycles[d] # NoCycle /\ cycles'[d] # NoCycle
        BY <2>3, <3>1, <4>1, <4>2, <4>3 DEF Cycle
      <4>5. OneDone(d)'
        BY <1>1, <1>2, <1>3, <2>1, <4>4 DEF OneDone, DoneTried
      <4>6. ends3d[d] > 0
        BY <1>6, <2>1, <3>1
      <4> QED
        BY <1>4, <2>1, <4>2, <4>4, <4>5, <4>6
    <3>2. CASE d # frame3d.count
      <4>1. cycles'[d] = cycles[d]
        BY <1>2, <2>1, <2>3, <3>2
      <4>2. OneDone(d)'
        BY <1>1, <1>3, <2>1, <3>2, <4>1 DEF OneDone, DoneTried
      <4>3. cycles[d].arm_ready # {} => ends3d[d] > 0
        BY <1>3 DEF InOrder
      <4> QED
        BY <1>4, <2>1, <3>2, <4>1, <4>2, <4>3
    <3> QED
      BY <3>1, <3>2
  <2> QED
    BY <1>9, <2>2, <2>3 DEF MarkReady
<1>10. CASE TrySendDone
  <2>1. frame3d.at = "try_done" /\ frame3d.count \in Counts /\ UNCHANGED dones
    BY <1>2, <1>10 DEF TrySendDone, worldVars
  <2>2. CASE ~ReadyForDone(frame3d.count)
    BY <1>5, <1>10, <2>1, <2>2, IdleFields DEF TrySendDone
  <2>3. CASE ReadyForDone(frame3d.count)
    <3>1. /\ frame3d'.at = "send_done" /\ frame3d'.count = frame3d.count
          /\ cycles' = [cycles EXCEPT ![frame3d.count] = NoCycle]
          /\ cycles[frame3d.count] # NoCycle
      BY <1>2, <1>10, <2>3 DEF TrySendDone, FrameType, CyclesAfterDone, ReadyForDone
    <3> SUFFICES ASSUME NEW d \in Counts
                 PROVE  (InOrder(d) /\ OneEnd(d) /\ OneDone(d) /\ WindowOpen(d))'
      BY DEF ControlInv
    <3>2. cycles'[d] = IF d = frame3d.count THEN NoCycle ELSE cycles[d]
      BY <1>2, <3>1
    <3>3. ends3d[frame3d.count] > 0
      BY <1>6, <2>1
    <3>4. dones[frame3d.count] # 1
      BY <1>3, <2>1, <3>1 DEF OneDone
    <3>5. OneDone(d)'
      BY <1>1, <1>2, <1>3, <2>1, <3>1, <3>2, <3>3, <3>4 DEF OneDone, DoneTried
    <3>6. cycles[d].arm_ready # {} => ends3d[d] > 0
      BY <1>3 DEF InOrder
    <3> QED
      BY <1>4, <3>1, <3>2, <3>3, <3>5, <3>6
  <2> QED
    BY <2>2, <2>3
<1>11. CASE SendDone
  <2>1. /\ frame3d.at = "send_done" /\ frame3d.count \in Counts /\ frame3d'.at = "idle"
        /\ UNCHANGED cycles /\ dones' = [dones EXCEPT ![frame3d.count] = dones[frame3d.count] + 1]
    BY <1>2, <1>11, IdleFields DEF SendDone
  <2>2. /\ cycles[frame3d.count] = NoCycle /\ dones[frame3d.count] = 0
        /\ ends3d[frame3d.count] > 0
    BY <1>2, <1>3, <1>6, <2>1 DEF OneDone, DoneTried
  <2> SUFFICES ASSUME NEW d \in Counts
               PROVE  (InOrder(d) /\ OneEnd(d) /\ OneDone(d) /\ WindowOpen(d))'
    BY DEF ControlInv
  <2>3. OneDone(d)'
    BY <1>1, <1>2, <1>3, <2>1, <2>2 DEF OneDone, DoneTried
  <2>4. cycles[d].arm_ready # {} => ends3d[d] > 0
    BY <1>3 DEF InOrder
  <2> QED
    BY <1>4, <2>1, <2>3, <2>4
<1>12. CASE DoneSendFails
  <2>1. UNCHANGED <<cycles, dones>> /\ frame3d'.at = "idle"
    BY <1>12, IdleFields DEF DoneSendFails, worldVars
  <2> QED
    BY <1>5, <2>1
<1> QED
  BY <1>7, <1>8, <1>9, <1>10, <1>11, <1>12 DEF Frame3dStep

(* The enqueue of a part, and the dequeue side, change none of this.       *)
LEMMA OthersKeepControl ==
    ASSUME ControlInv, WorkInv,
           UNCHANGED <<cycles, window, frame3d, worldVars>>,
           caller' = caller \/ caller' = [caller EXCEPT !["plc"] = Idle]
    PROVE  ControlInv'
<1>1. \A t \in Callers, d \in Counts :
         /\ AtEnd(t, d)' => AtEnd(t, d)
         /\ EndClaimed(t, d)' => EndClaimed(t, d)
  BY IdleFields DEF AtEnd, EndClaimed, WorkInv, ControlTypeOK
<1>2. UNCHANGED <<starts, ends, ends3d, dones>>
  BY DEF worldVars
<1>3. "plc" \in Callers /\ "2d" \in Callers
  BY DEF Callers
<1> SUFFICES ASSUME NEW d \in Counts
             PROVE  (InOrder(d) /\ OneEnd(d) /\ OneDone(d) /\ WindowOpen(d))'
  BY DEF ControlInv
<1>4. InOrder(d) /\ OneEnd(d) /\ OneDone(d) /\ WindowOpen(d)
  BY DEF ControlInv
<1>5. InOrder(d)'
  BY <1>1, <1>2, <1>4 DEF InOrder
<1>6. OneEnd(d)'
  BY <1>1, <1>2, <1>3, <1>4 DEF OneEnd, Sealed
<1>7. OneDone(d)' /\ WindowOpen(d)'
  BY <1>2, <1>4 DEF OneDone, DoneTried, WindowOpen
<1> QED
  BY <1>5, <1>6, <1>7

(* ControlInv is inductive, given the types.                               *)
LEMMA ControlStep ==
    ASSUME OnePass, WorkInv, ControlInv, [WorkflowNext]_allVars
    PROVE  ControlInv'
<1>1. CASE StartEnqueue
  BY <1>1, OthersKeepControl DEF StartEnqueue
<1>2. CASE UNCHANGED <<workflowVars, worldVars>>
  BY <1>2, OthersKeepControl DEF workflowVars
<1>3. ASSUME NEW t \in Callers, EndStep(t)
      PROVE  ControlInv'
  BY <1>3, EndStepKeepsControl
<1>4. ASSUME NEW part \in Parts, HandleStart(part) \/ HandleEnd(part)
      PROVE  ControlInv'
  BY <1>4, StartKeepsControl, EndKeepsControl
<1> QED
  BY <1>1, <1>2, <1>3, <1>4, Camera2dKeepsControl, Frame3dKeepsControl DEF WorkflowNext, allVars

LEMMA ControlInit == WorkflowInit => WorkInv /\ ControlInv
<1> SUFFICES ASSUME WorkflowInit
             PROVE  WorkInv /\ ControlInv
  OBVIOUS
<1>1. WorkInv
  <2>1. caller \in [Callers -> CallerType] /\ CallersHavePart
    BY IdleType DEF WorkflowInit, CallersHavePart, Callers
  <2>2. frame3d \in FrameType /\ FrameHasPart
    BY DEF WorkflowInit, IdleFrame, FrameType, FrameHasPart
  <2> QED
    BY <2>1, <2>2 DEF WorkInv, ControlTypeOK, WorldTypeOK, WorkflowInit
<1>2. ASSUME NEW c \in Counts
      PROVE  /\ cycles[c] = NoCycle /\ starts[c] = 0 /\ ends[c] = 0 /\ ends3d[c] = 0
             /\ dones[c] = 0 /\ window # c /\ frame3d.at = "idle"
             /\ \A t \in Callers : ~AtEnd(t, c) /\ ~EndClaimed(t, c)
  BY IdleFields, ConstantsAssumption DEF WorkflowInit, AtEnd, EndClaimed, Callers, None
<1>3. "plc" \in Callers
  BY DEF Callers
<1>4. ControlInv
  BY <1>2, <1>3, CycleFields DEF ControlInv, InOrder, OneEnd, OneDone, WindowOpen, Sealed, DoneTried
<1> QED
  BY <1>1, <1>4

LEMMA ControlCorrect ==
    ASSUME OnePass
    PROVE  WorkflowSpec => [](WorkInv /\ ControlInv)
<1>1. WorkInv /\ ControlInv /\ [WorkflowNext]_allVars => (WorkInv /\ ControlInv)'
  BY WorkStep, ControlStep
<1> QED
  BY <1>1, ControlInit, PTL DEF WorkflowSpec

(* Whatever the threads' order, and though a failed send is tried again,   *)
(* the 3D camera gets the end of a part at most once.                      *)
THEOREM OneEndPerPart ==
    ASSUME OnePass
    PROVE  WorkflowSpec => []EndSentOnce
<1>1. WorkInv /\ ControlInv => EndSentOnce
  BY DEF ControlInv, OneEnd, EndSentOnce
<1> QED
  BY <1>1, ControlCorrect, PTL

(* The READY window never outlives the cycle it was opened for, nor its 12.*)
THEOREM WindowStaysLive ==
    ASSUME OnePass
    PROVE  WorkflowSpec => []WindowIsLive
<1>1. WorkInv /\ ControlInv => WindowIsLive
  <2> SUFFICES ASSUME WorkInv, ControlInv, window # None
               PROVE  cycles[window] # NoCycle /\ ~cycles[window].end_received
    BY DEF WindowIsLive
  <2>1. window \in Counts
    BY DEF WorkInv, ControlTypeOK
  <2>2. InOrder(window) /\ WindowOpen(window)
    BY <2>1 DEF ControlInv
  <2> QED
    BY <2>1, <2>2 DEF InOrder, WindowOpen
<1> QED
  BY <1>1, ControlCorrect, PTL

(* The PLC gets at most one Done for a part.                               *)
THEOREM OneDonePerPart ==
    ASSUME OnePass
    PROVE  WorkflowSpec => []DoneOnce
<1>1. WorkInv /\ ControlInv => DoneOnce
  BY DEF ControlInv, OneDone, DoneOnce
<1> QED
  BY <1>1, ControlCorrect, PTL

-----------------------------------------------------------------------------
(* The threads implement PartFlow.                                         *)

(* A part's stage by what happened to it.                                  *)
LEMMA StageOf ==
    ASSUME WorkInv, ControlInv, NEW c \in Counts
    PROVE  /\ cycles[c] # NoCycle => Stage(c) = "open"
           /\ DoneTried(c) => Stage(c) = "complete"
           /\ starts[c] > 0 /\ ends3d[c] = 0 => cycles[c] # NoCycle
           /\ starts[c] = 0 => Stage(c) = "absent"
           /\ starts[c] = 0 => dones[c] = 0
<1>1. InOrder(c) /\ OneDone(c)
  BY DEF ControlInv
<1>2. starts[c] \in Nat /\ ends[c] \in Nat /\ ends3d[c] \in Nat /\ dones[c] \in Nat
  BY DEF WorkInv, ControlTypeOK, WorldTypeOK
<1> QED
  BY <1>1, <1>2 DEF InOrder, OneDone, Stage, DoneTried

(* A step that keeps these keeps the stages.                               *)
LEMMA StageKept ==
    ASSUME UNCHANGED <<starts, dones>>,
           \A c \in Counts : cycles'[c] = NoCycle <=> cycles[c] = NoCycle,
           \/ UNCHANGED frame3d
           \/ frame3d'.at # "send_done" /\ frame3d.at # "send_done"
    PROVE  \A c \in Counts : Stage(c)' = Stage(c)
BY DEF Stage, DoneTried

(* The absent cycle is the one without a pointer.                          *)
LEMMA AbsentCycle ==
    ASSUME NEW r \in Cycle \cup {NoCycle}
    PROVE  r = NoCycle <=> r.pointer = None
BY ConstantsAssumption DEF Cycle, NoCycle, NewCycle, None

(* Setting any other field of a cycle keeps the arms that have data, and   *)
(* its pointer.                                                            *)
LEMMA DataKept ==
    ASSUME WorkInv, NEW c \in Counts,
           NEW cs, cs \in {[cycles EXCEPT ![c].end_sent_to_3d = b] : b \in BOOLEAN}
                     \cup {[cycles EXCEPT ![c].request_sent_to_2d = b] : b \in BOOLEAN}
                     \cup {[cycles EXCEPT ![c].part_type = "typed"], cycles}
    PROVE  \A d \in Counts : /\ cs[d].arm_ready = cycles[d].arm_ready
                              /\ cs[d].pointer = cycles[d].pointer
<1>1. cycles \in [Counts -> Cycle \cup {NoCycle}]
  BY DEF WorkInv, ControlTypeOK
<1> DEFINE Same(r, q) == r.arm_ready = q.arm_ready /\ r.pointer = q.pointer
<1>2. ASSUME NEW r \in Cycle \cup {NoCycle}, NEW b \in BOOLEAN
      PROVE  /\ Same([r EXCEPT !.end_sent_to_3d = b], r)
             /\ Same([r EXCEPT !.request_sent_to_2d = b], r)
             /\ Same([r EXCEPT !.part_type = "typed"], r)
  BY <1>2 DEF Cycle, NoCycle, NewCycle
<1> HIDE DEF Same
<1>3. \A r : Same(r, r)
  BY DEF Same
<1>4. ASSUME NEW d \in Counts, NEW b \in BOOLEAN
      PROVE  /\ Same([cycles EXCEPT ![c].end_sent_to_3d = b][d], cycles[d])
             /\ Same([cycles EXCEPT ![c].request_sent_to_2d = b][d], cycles[d])
             /\ Same([cycles EXCEPT ![c].part_type = "typed"][d], cycles[d])
  BY <1>1, <1>2, <1>3
<1>5. \A d \in Counts : Same(cs[d], cycles[d])
  BY <1>3, <1>4
<1> QED
  BY <1>5 DEF Same

(* Every step of the threads is a step of PartFlow, or none of its.        *)
LEMMA FlowStep ==
    ASSUME OnePass, WorkInv, ControlInv, [WorkflowNext]_allVars
    PROVE  [Part!FlowNext]_(Part!flowVars)
<1> DEFINE stage == [c \in Counts |-> Stage(c)]
           data == [c \in Counts |-> cycles[c].arm_ready]
<1>0. /\ cycles \in [Counts -> Cycle \cup {NoCycle}] /\ frame3d \in FrameType
      /\ starts \in [Counts -> Nat] /\ ends \in [Counts -> Nat]
      /\ ends3d \in [Counts -> Nat] /\ dones \in [Counts -> Nat]
      /\ frame3d.at # "idle" => frame3d.count \in Counts
      /\ \A t \in Callers : caller[t].at # "idle" => caller[t].count \in Counts
  BY DEF WorkInv, ControlTypeOK, WorldTypeOK, FrameHasPart, CallersHavePart
<1>1. \A c \in Counts : InOrder(c) /\ OneEnd(c) /\ OneDone(c)
  BY DEF ControlInv
<1>2. \A c \in Counts :
         /\ cycles[c] # NoCycle => Stage(c) = "open"
         /\ DoneTried(c) => Stage(c) = "complete"
         /\ starts[c] > 0 /\ ends3d[c] = 0 => cycles[c] # NoCycle
         /\ starts[c] = 0 => Stage(c) = "absent" /\ dones[c] = 0
  BY StageOf
<1>o. \A c \in Counts : cycles'[c].pointer = cycles[c].pointer
                          => (cycles'[c] = NoCycle <=> cycles[c] = NoCycle)
  <2>1. cycles' \in [Counts -> Cycle \cup {NoCycle}]
    BY WorkStep DEF WorkInv, ControlTypeOK
  <2> QED
    BY <1>0, <2>1, AbsentCycle
<1>k. ASSUME UNCHANGED <<starts, dones>>,
             \A c \in Counts : cycles'[c].pointer = cycles[c].pointer,
             \/ UNCHANGED frame3d
             \/ frame3d'.at # "send_done" /\ frame3d.at # "send_done"
      PROVE  \A c \in Counts : Stage(c)' = Stage(c)
  BY <1>o, <1>k, StageKept
(* A step that keeps the stages, the ends told and the data stutters.      *)
<1>s. ASSUME \A c \in Counts : Stage(c)' = Stage(c), UNCHANGED ends3d,
             \A c \in Counts : cycles'[c].arm_ready = cycles[c].arm_ready
      PROVE  UNCHANGED Part!flowVars
  <2>1. stage' = stage /\ data' = data
    BY <1>s
  <2> QED
    BY <1>s, <2>1 DEF Part!flowVars
<1>3. ASSUME NEW part \in Parts, HandleStart(part)
      PROVE  Part!FlowNext
  <2> DEFINE c == part.count
  <2>1. c \in Counts /\ part.pointer \in Pointers
    BY WorkflowAssumption
  <2>2. starts[c] = 0 /\ starts' = [starts EXCEPT ![c] = 1]
    <3>1. starts[c] < MaxStarts /\ starts' = [starts EXCEPT ![c] = starts[c] + 1]
      BY <1>3 DEF HandleStart
    <3>2. starts[c] = 0
      BY <1>0, <2>1, <3>1, WorkflowAssumption DEF OnePass
    <3> QED
      BY <3>1, <3>2
  <2>3. /\ UNCHANGED <<frame3d, dones, ends3d>>
        /\ cycles' = [cycles EXCEPT ![c] = NewCycle(part.pointer)]
    BY <1>3 DEF HandleStart
  <2>4. Stage(c) = "absent" /\ dones[c] = 0 /\ cycles[c] = NoCycle /\ ~DoneTried(c)
    <3>1. InOrder(c)
      BY <1>1, <2>1
    <3> QED
      BY <1>0, <1>2, <2>1, <2>2, <3>1 DEF InOrder, DoneTried
  <2>5. Stage(c)' = "open"
    <3>1. NewCycle(part.pointer) # NoCycle
      BY <2>1, NewCycleType
    <3> QED
      BY <1>0, <2>1, <2>2, <2>3, <2>4, <3>1 DEF Stage, DoneTried
  <2>6. \A d \in Counts \ {c} : Stage(d)' = Stage(d)
    BY <1>0, <2>2, <2>3 DEF Stage, DoneTried
  <2>7. \A d \in Counts : cycles'[d].arm_ready = cycles[d].arm_ready
    BY <1>0, <2>1, <2>3, <2>4, CycleFields
  <2> HIDE DEF c
  <2>8. stage' = [stage EXCEPT ![c] = "open"] /\ data' = data
    BY <2>1, <2>5, <2>6, <2>7
  <2>9. Part!Start(c)
    BY <2>1, <2>3, <2>4, <2>8 DEF Part!Start
  <2> QED
    BY <2>1, <2>9 DEF Part!FlowNext
<1>4. ASSUME NEW part \in Parts, HandleEnd(part)
      PROVE  UNCHANGED Part!flowVars
  <2> DEFINE old == IF cycles[part.count] = NoCycle THEN NewCycle(part.pointer)
                    ELSE cycles[part.count]
             new == [old EXCEPT !.pointer = part.pointer, !.end_received = TRUE]
  <2>1. part.count \in Counts /\ part.pointer \in Pointers
    BY WorkflowAssumption
  <2>2. cycles' = [cycles EXCEPT ![part.count] = new] /\ UNCHANGED <<frame3d, starts, dones, ends3d>>
    BY <1>4 DEF HandleEnd
  <2>3. old \in Cycle /\ old.arm_ready = cycles[part.count].arm_ready
    BY <1>0, <2>1, NewCycleType, CycleFields
  <2>4. new.arm_ready = cycles[part.count].arm_ready
    <3> HIDE DEF old
    <3> QED
      BY <2>3 DEF Cycle
  <2>5. new # NoCycle
    <3>1. new.pointer = part.pointer
      <4> HIDE DEF old
      <4> QED
        BY <2>3 DEF Cycle
    <3>2. NoCycle.pointer = None /\ part.pointer # None
      BY <2>1, ConstantsAssumption DEF NoCycle, NewCycle, None
    <3> HIDE DEF new
    <3> QED
      BY <3>1, <3>2
  <2>6. starts[part.count] > 0 /\ ends[part.count] = 0
    <3>1. starts[part.count] > 0 /\ ends[part.count] < MaxEnds
      BY <1>4 DEF HandleEnd
    <3> QED
      BY <1>0, <2>1, <3>1, WorkflowAssumption DEF OnePass
  <2>7. cycles[part.count] # NoCycle
    BY <1>0, <1>1, <1>2, <2>1, <2>6 DEF InOrder
  <2> HIDE DEF new
  <2>8. \A d \in Counts : cycles'[d].arm_ready = cycles[d].arm_ready
    BY <1>0, <2>1, <2>2, <2>4
  <2>9. \A d \in Counts : cycles'[d] = NoCycle <=> cycles[d] = NoCycle
    BY <1>0, <2>1, <2>2, <2>5, <2>7
  <2>10. UNCHANGED <<frame3d, starts, dones, ends3d>>
    BY <2>2
  <2>11. \A d \in Counts : Stage(d)' = Stage(d)
    BY <2>9, <2>10, StageKept
  <2> QED
    BY <1>s, <2>8, <2>10, <2>11
<1>5. CASE StartEnqueue
  BY <1>5, <1>k, <1>s DEF StartEnqueue, worldVars
<1>6. ASSUME NEW t \in Callers, EndStep(t), NEW c, c = caller[t].count
      PROVE  [Part!FlowNext]_(Part!flowVars)
  <2>1. c \in Counts /\ UNCHANGED <<frame3d, starts, dones>>
    BY <1>0, <1>6 DEF EndStep, ClaimEnd, EndDelivered, EndSendFails, RollbackEnd, worldVars
  <2>2. CASE EndDelivered(t)
    <3>1. ends3d[c] = 0 /\ starts[c] > 0
      BY <1>0, <1>1, <1>6, <2>1, <2>2 DEF EndDelivered, OneEnd, EndClaimed, InOrder, AtEnd
    <3>2. ends3d' = [ends3d EXCEPT ![c] = 1] /\ UNCHANGED cycles
      <4>1. ends3d' = [ends3d EXCEPT ![c] = ends3d[c] + 1] /\ UNCHANGED cycles
        BY <1>6, <2>2 DEF EndDelivered
      <4> QED
        BY <3>1, <4>1
    <3>3. Stage(c) = "open"
      BY <1>2, <2>1, <3>1
    <3>4. stage' = stage /\ data' = data
      BY <1>k, <2>1, <3>2
    <3>5. Part!TellEnd(c)
      BY <2>1, <3>1, <3>2, <3>3, <3>4 DEF Part!TellEnd
    <3> QED
      BY <2>1, <3>5 DEF Part!FlowNext
  <2>3. CASE ClaimEnd(t) \/ EndSendFails(t) \/ RollbackEnd(t)
    <3>1. /\ UNCHANGED ends3d
          /\ cycles' \in {[cycles EXCEPT ![c].end_sent_to_3d = b] : b \in BOOLEAN} \cup {cycles}
      BY <1>6, <2>3 DEF ClaimEnd, EndSendFails, RollbackEnd, worldVars
    <3>2. \A d \in Counts : /\ cycles'[d].arm_ready = cycles[d].arm_ready
                             /\ cycles'[d].pointer = cycles[d].pointer
      BY <2>1, <3>1, DataKept
    <3> QED
      BY <1>k, <1>s, <2>1, <3>1, <3>2
  <2> QED
    BY <1>6, <2>2, <2>3 DEF EndStep
<1>7. CASE Camera2dStep
  <2>1. UNCHANGED <<frame3d, starts, dones, ends3d>>
    BY <1>7 DEF Camera2dStep, Handle2dReady, RequestDelivered, RequestSendFails,
                RollbackRequest, Handle2dResult, worldVars
  <2>2. \/ UNCHANGED cycles
        \/ \E c \in Counts :
             cycles' \in {[cycles EXCEPT ![c].request_sent_to_2d = b] : b \in BOOLEAN}
                         \cup {[cycles EXCEPT ![c].part_type = "typed"]}
    <3>1. Handle2dReady => window \in Counts
      BY DEF Handle2dReady, WorkInv, ControlTypeOK
    <3>2. RollbackRequest => caller["2d"].count \in Counts
      BY <1>0 DEF RollbackRequest, Callers
    <3> QED
      BY <1>7, <3>1, <3>2 DEF Camera2dStep, Handle2dReady, RequestDelivered, RequestSendFails,
                              RollbackRequest, Handle2dResult
  <2>3. \A d \in Counts : /\ cycles'[d].arm_ready = cycles[d].arm_ready
                           /\ cycles'[d].pointer = cycles[d].pointer
    BY <2>2, DataKept
  <2> QED
    BY <1>k, <1>s, <2>1, <2>3
<1>8. ASSUME NEW c \in Counts, NEW arms \in SUBSET Arms, Frame3dArrives(c, arms)
      PROVE  UNCHANGED Part!flowVars
  <2>1. /\ frame3d.at = "idle" /\ frame3d'.at = "lookup"
        /\ UNCHANGED <<starts, dones, ends3d, cycles>>
    BY <1>8 DEF Frame3dArrives, IdleFrame
  <2> QED
    BY <1>k, <1>s, <2>1
<1>9. CASE SegmentsDone \/ StoreSegment \/ StoreRejected \/ \E a \in Arms : LookupCycle(a)
  <2>1. /\ frame3d.at # "send_done" /\ frame3d'.at # "send_done"
        /\ UNCHANGED <<starts, dones, ends3d, cycles>>
    BY <1>0, <1>9, IdleFields DEF SegmentsDone, StoreSegment, StoreRejected, LookupCycle, worldVars,
                                  FrameType
  <2> QED
    BY <1>k, <1>s, <2>1
<1>10. ASSUME MarkReady, NEW c, c = frame3d.count, NEW a, a = frame3d.arm
       PROVE  [Part!FlowNext]_(Part!flowVars)
  <2>1. /\ frame3d.at = "mark" /\ frame3d'.at = "lookup" /\ c \in Counts /\ a \in Arms
        /\ UNCHANGED <<starts, dones, ends3d>>
    BY <1>0, <1>10 DEF MarkReady, worldVars, FrameType, WorkInv, FrameHasPart
  <2>3. CASE UNCHANGED cycles
    BY <1>k, <1>s, <2>1, <2>3
  <2>4. CASE cycles[c] # NoCycle /\ cycles' = [cycles EXCEPT ![c].arm_ready = @ \cup {a}]
    <3>1. Stage(c) = "open"
      BY <1>2, <2>1, <2>4
    <3>2. ends3d[c] = 1
      <4>1. ends3d[c] > 0 /\ ends3d[c] <= 1
        BY <1>1, <1>10, <2>1 DEF InOrder, OneEnd
      <4> QED
        BY <1>0, <2>1, <4>1
    <3>3. /\ cycles'[c].arm_ready = cycles[c].arm_ready \cup {a}
          /\ cycles'[c].pointer = cycles[c].pointer
      <4>1. cycles[c] \in Cycle
        BY <1>0, <2>1, <2>4
      <4> QED
        BY <1>0, <2>1, <2>4, <4>1 DEF Cycle
    <3>4. \A d \in Counts \ {c} : cycles'[d] = cycles[d]
      BY <1>0, <2>4
    <3>5. stage' = stage
      <4>1. \A d \in Counts : cycles'[d].pointer = cycles[d].pointer
        BY <3>3, <3>4
      <4> QED
        BY <1>k, <2>1, <4>1
    <3>6. data' = [data EXCEPT ![c] = data[c] \cup {a}]
      BY <2>1, <3>3, <3>4
    <3>7. Part!Collect(c, a)
      BY <2>1, <3>1, <3>2, <3>5, <3>6 DEF Part!Collect
    <3> QED
      BY <2>1, <3>7 DEF Part!FlowNext
  <2> QED
    BY <1>10, <2>3, <2>4 DEF MarkReady
<1>11. ASSUME TrySendDone, NEW c, c = frame3d.count
       PROVE  [Part!FlowNext]_(Part!flowVars)
  <2>1. /\ frame3d.at = "try_done" /\ c \in Counts /\ UNCHANGED <<starts, dones, ends3d>>
    BY <1>0, <1>11 DEF TrySendDone, worldVars
  <2>2. CASE ~ReadyForDone(c)
    BY <1>11, <1>k, <1>s, <2>1, <2>2, IdleFields DEF TrySendDone
  <2>3. CASE ReadyForDone(c)
    <3>1. /\ frame3d'.at = "send_done" /\ frame3d'.count = c
          /\ cycles' = [cycles EXCEPT ![c] = NoCycle]
          /\ cycles[c] # NoCycle /\ cycles[c].arm_ready = Arms
      BY <1>0, <1>11, <2>3 DEF TrySendDone, FrameType, CyclesAfterDone, ReadyForDone
    <3>2. Stage(c) = "open" /\ dones[c] = 0
      <4>1. dones[c] # 1 /\ dones[c] <= 1
        BY <1>1, <2>1, <3>1 DEF OneDone
      <4> QED
        BY <1>0, <1>2, <2>1, <3>1, <4>1
    <3>3. Stage(c)' = "complete"
      BY <2>1, <3>1, <3>2 DEF Stage, DoneTried
    <3>4. \A d \in Counts \ {c} : Stage(d)' = Stage(d)
      BY <1>0, <2>1, <3>1 DEF Stage, DoneTried
    <3>5. \A d \in Counts : cycles'[d].arm_ready = IF d = c THEN {} ELSE cycles[d].arm_ready
      BY <1>0, <2>1, <3>1, CycleFields
    <3>6. stage' = [stage EXCEPT ![c] = "complete"] /\ data' = [data EXCEPT ![c] = {}]
      BY <2>1, <3>3, <3>4, <3>5
    <3>7. Part!Complete(c)
      BY <2>1, <3>1, <3>2, <3>6 DEF Part!Complete
    <3> QED
      BY <2>1, <3>7 DEF Part!FlowNext
  <2> QED
    BY <2>2, <2>3
<1>12. ASSUME SendDone, NEW c, c = frame3d.count
       PROVE  Part!FlowNext
  <2>1. /\ frame3d.at = "send_done" /\ c \in Counts /\ frame3d'.at = "idle"
        /\ UNCHANGED <<cycles, starts, ends3d>>
        /\ dones' = [dones EXCEPT ![c] = dones[c] + 1]
    BY <1>0, <1>12, IdleFields DEF SendDone
  <2>2. DoneTried(c) /\ Stage(c) = "complete"
    BY <1>2, <1>12, <2>1 DEF DoneTried
  <2>3. Stage(c)' = "done" /\ \A d \in Counts \ {c} : Stage(d)' = Stage(d)
    BY <1>0, <1>12, <2>1 DEF Stage, DoneTried
  <2>4. stage' = [stage EXCEPT ![c] = "done"] /\ data' = data
    BY <2>1, <2>3
  <2>5. Part!Done(c)
    BY <2>1, <2>2, <2>4 DEF Part!Done
  <2> QED
    BY <2>1, <2>5 DEF Part!FlowNext
<1>13. ASSUME DoneSendFails, NEW c, c = frame3d.count
       PROVE  Part!FlowNext
  <2>1. /\ frame3d.at = "send_done" /\ c \in Counts /\ frame3d'.at = "idle"
        /\ UNCHANGED <<cycles, starts, ends3d, dones>>
    BY <1>0, <1>13, IdleFields DEF DoneSendFails, worldVars
  <2>2. DoneTried(c) /\ Stage(c) = "complete"
    BY <1>2, <1>13, <2>1 DEF DoneTried
  <2>3. cycles[c] = NoCycle /\ dones[c] = 0 /\ starts[c] > 0
    BY <1>0, <1>1, <1>13, <2>1, <2>2 DEF OneDone, InOrder
  <2>4. Stage(c)' = "lost" /\ \A d \in Counts \ {c} : Stage(d)' = Stage(d)
    BY <1>0, <1>13, <2>1, <2>3 DEF Stage, DoneTried
  <2>5. stage' = [stage EXCEPT ![c] = "lost"] /\ data' = data
    BY <2>1, <2>4
  <2>6. Part!LoseDone(c)
    BY <2>1, <2>2, <2>5 DEF Part!LoseDone
  <2> QED
    BY <2>1, <2>6 DEF Part!FlowNext
<1>14. CASE UNCHANGED <<workflowVars, worldVars>>
  BY <1>14, <1>k, <1>s DEF workflowVars, worldVars
<1> QED
  BY <1>3, <1>4, <1>5, <1>6, <1>7, <1>8, <1>9, <1>10, <1>11, <1>12, <1>13, <1>14
     DEF WorkflowNext, Frame3dStep, allVars

(* The flow's safety part: whatever the threads do, a part is told its end *)
(* once, its data is collected after that, and the Done follows both arms' *)
(* data.                                                                   *)
THEOREM ImplementsFlow ==
    ASSUME OnePass
    PROVE  WorkflowSpec => Part!FlowSpec
<1>1. WorkflowInit => Part!FlowInit
  <2> SUFFICES ASSUME WorkflowInit
               PROVE  Part!FlowInit
    OBVIOUS
  <2>1. \A c \in Counts : Stage(c) = "absent" /\ cycles[c].arm_ready = {}
    BY CycleFields, IdleFields DEF WorkflowInit, Stage, DoneTried
  <2> QED
    BY <2>1 DEF WorkflowInit, Part!FlowInit
<1>2. WorkInv /\ ControlInv /\ [WorkflowNext]_allVars => [Part!FlowNext]_(Part!flowVars)
  BY FlowStep
<1> QED
  BY <1>1, <1>2, ControlCorrect, PTL DEF WorkflowSpec, Part!FlowSpec

-----------------------------------------------------------------------------
(* The flow drives the double queue through the queue's own operations.    *)

LEMMA WorkCorrect == WorkflowSpec => []WorkInv
BY ControlInit, WorkStep, PTL DEF WorkflowSpec

LEMMA QueueUsed ==
    ASSUME Flow = "dual_camera_11_12", ActiveArms = Arms, WorkInv, [WorkflowNext]_allVars
    PROVE  [Next]_vars
<1>1. ASSUME StartEnqueue, NEW c, NEW p, c = Plc.count, p = Plc.pointer
      PROVE  Next
  <2>1. c \in Counts /\ p \in Pointers
    BY <1>1 DEF StartEnqueue, WorkInv, CallersHavePart, Callers, Plc
  <2>2. EnqueueItem(c, p)
    BY <1>1 DEF StartEnqueue, EnqueueItem, EnqueuePair
  <2> QED
    BY <2>1, <2>2 DEF Next, DualStep
<1>2. ASSUME StoreSegment, NEW a, NEW p, NEW f,
             a = frame3d.arm, p = frame3d.pointer, f = frame3d.count
      PROVE  Next
  <2>1. a \in Arms /\ p \in Pointers /\ f \in Frames
    BY <1>2, WorkflowAssumption DEF StoreSegment, WorkInv, FrameHasPart
  <2>2. StoreCameraData(a, p, f)
    BY <1>2 DEF StoreSegment, StoreCameraData, Storable
  <2> QED
    BY <2>1, <2>2 DEF Next, DualStep
<1>3. QueueStep => Next
  BY DEF QueueStep, Next, ArmStep, ArmCompletion
<1>4. \/ UNCHANGED vars \/ QueueStep \/ StartEnqueue \/ StoreSegment
  BY DEF WorkflowNext, allVars, HandleStart, HandleEnd, EndStep, ClaimEnd, EndDelivered,
         EndSendFails, RollbackEnd, Camera2dStep, Handle2dReady, RequestDelivered,
         RequestSendFails, RollbackRequest, Handle2dResult, Frame3dArrives, Frame3dStep,
         SegmentsDone, StoreRejected, MarkReady, TrySendDone, SendDone, DoneSendFails, LookupCycle
<1> QED
  BY <1>1, <1>2, <1>3, <1>4

(* The threads of the flow, taken together, do to the double queue only    *)
(* what QueueManager lets its callers do: what is proved of the queue      *)
(* holds under the flow.                                                   *)
THEOREM FlowUsesQueue ==
    ASSUME Flow = "dual_camera_11_12", ActiveArms = Arms
    PROVE  WorkflowSpec => Spec
<1>1. WorkflowInit => Init
  BY DEF WorkflowInit
<1>2. WorkInv /\ [WorkflowNext]_allVars => [Next]_vars
  BY QueueUsed
<1> QED
  BY <1>1, <1>2, WorkCorrect, PTL DEF WorkflowSpec, Spec

(* Every variable of the flow and of the queue under it keeps its type.    *)
THEOREM FlowTypeCorrect ==
    ASSUME Flow = "dual_camera_11_12", ActiveArms = Arms
    PROVE  WorkflowSpec => []WorkflowTypeOK
<1>1. WorkInv /\ TypeOK => WorkflowTypeOK
  BY DEF WorkInv, WorkflowTypeOK
<1> QED
  BY <1>1, FlowUsesQueue, TypeCorrect, WorkCorrect, PTL

-----------------------------------------------------------------------------
(* The data behind a Done, when every part has a count and a pointer of    *)
(* its own.                                                                *)

DistinctParts ==
    \A x, y \in Parts : x.count = y.count \/ x.pointer = y.pointer => x = y

Announced(c, p) == [count |-> c, pointer |-> p] \in Parts

(* An item, a cycle, and what a thread carries all belong to a part that   *)
(* was announced; a part is queued once, after its 11 and before its 12.   *)
OwnItem(a, s) ==
    LET it == items[a][s] IN
    it.count \in Counts \/ it.pointer \in Pointers =>
        /\ Announced(it.count, it.pointer)
        /\ starts[it.count] > 0
        /\ ~(Plc.at = "enqueue" /\ Plc.count = it.count)
        /\ \A t \in Seqs : items[a][t].count = it.count => t = s
OwnThreads ==
    /\ \A c \in Counts : cycles[c] # NoCycle => Announced(c, cycles[c].pointer)
    /\ frame3d.at \in {"store", "mark"} => Announced(frame3d.count, frame3d.pointer)
    /\ Plc.at = "enqueue" => /\ Announced(Plc.count, Plc.pointer)
                             /\ starts[Plc.count] > 0 /\ ends[Plc.count] = 0

(* An arm's data that is counted towards the Done is in its queue's item.  *)
Collected(a, c) ==
    \/ a \in cycles[c].arm_ready
    \/ frame3d.at = "mark" /\ frame3d.count = c /\ frame3d.arm = a
    \/ DoneTried(c)
DataStored(a, c) ==
    \A s \in Seqs : items[a][s].count = c => items[a][s].data = CameraData(c)

PartInv ==
    /\ \A a \in Arms, s \in Seqs : OwnItem(a, s)
    /\ OwnThreads
    /\ \A a \in Arms, c \in Counts : Collected(a, c) => DataStored(a, c)

(* An announced part is one of Parts, and the only one with its pointer.   *)
LEMMA AnnouncedPart ==
    ASSUME DistinctParts, NEW c, NEW p, Announced(c, p)
    PROVE  /\ c \in Counts /\ p \in Pointers
           /\ \A d : Announced(d, p) => d = c
           /\ \A q : Announced(c, q) => q = p
BY WorkflowAssumption DEF DistinctParts, Announced

(* The steps that leave the queue alone collect nothing new, and announce  *)
(* a part before it has an item.                                           *)
LEMMA ThreadsKeepParts ==
    ASSUME OnePass, DistinctParts, WorkInv, ControlInv, PartInv, UNCHANGED items,
           \A c \in Counts : starts[c] > 0 => starts'[c] > 0,
           OwnThreads',
           Plc'.at = "enqueue" => Plc' = Plc \/ starts[Plc'.count] = 0,
           \A a \in Arms, c \in Counts : Collected(a, c)' => Collected(a, c)
    PROVE  PartInv'
<1>1. ASSUME NEW a \in Arms, NEW s \in Seqs
      PROVE  OwnItem(a, s)'
  <2>1. OwnItem(a, s)
    BY DEF PartInv
  <2>2. \A c \in Counts : starts[c] \in Nat
    BY DEF WorkInv, ControlTypeOK, WorldTypeOK
  <2>3. items[a][s].count \in Counts \/ items[a][s].pointer \in Pointers
           => items[a][s].count \in Counts
    BY <2>1, AnnouncedPart DEF OwnItem
  <2> QED
    BY <2>1, <2>2, <2>3 DEF OwnItem
<1>2. \A a \in Arms, c \in Counts : DataStored(a, c)' <=> DataStored(a, c)
  BY DEF DataStored
<1> QED
  BY <1>1, <1>2 DEF PartInv

(* Setting any other field of an open cycle keeps its pointer.             *)
LEMMA PointerKept ==
    ASSUME WorkInv, NEW c \in Counts, cycles[c] # NoCycle,
           NEW cs, cs \in {[cycles EXCEPT ![c].end_sent_to_3d = b] : b \in BOOLEAN}
                     \cup {[cycles EXCEPT ![c].request_sent_to_2d = b] : b \in BOOLEAN}
                     \cup {[cycles EXCEPT ![c].part_type = "typed"]}
    PROVE  \A d \in Counts : cs[d] # NoCycle => /\ cycles[d] # NoCycle
                                                /\ cs[d].pointer = cycles[d].pointer
<1>1. cycles[c] \in Cycle /\ cycles \in [Counts -> Cycle \cup {NoCycle}]
  BY DEF WorkInv, ControlTypeOK
<1>2. PICK r : cs = [cycles EXCEPT ![c] = r] /\ r.pointer = cycles[c].pointer
  <2>1. \A b \in BOOLEAN :
           /\ [cycles[c] EXCEPT !.end_sent_to_3d = b].pointer = cycles[c].pointer
           /\ [cycles[c] EXCEPT !.request_sent_to_2d = b].pointer = cycles[c].pointer
           /\ [cycles[c] EXCEPT !.part_type = "typed"].pointer = cycles[c].pointer
    BY <1>1 DEF Cycle
  <2>2. CASE cs \in {[cycles EXCEPT ![c].end_sent_to_3d = b] : b \in BOOLEAN}
    BY <2>1, <2>2
  <2>3. CASE cs \in {[cycles EXCEPT ![c].request_sent_to_2d = b] : b \in BOOLEAN}
    BY <2>1, <2>3
  <2>4. CASE cs = [cycles EXCEPT ![c].part_type = "typed"]
    BY <2>1, <2>4
  <2> QED
    BY <2>2, <2>3, <2>4
<1> QED
  BY <1>1, <1>2

LEMMA ThreadStepsKeepParts ==
    ASSUME OnePass, DistinctParts, WorkInv, ControlInv, PartInv,
           [WorkflowNext]_allVars, ~StartEnqueue, ~StoreSegment, UNCHANGED items
    PROVE  PartInv'
<1>0. /\ cycles \in [Counts -> Cycle \cup {NoCycle}] /\ frame3d \in FrameType
      /\ starts \in [Counts -> Nat] /\ ends \in [Counts -> Nat]
      /\ caller \in [Callers -> CallerType]
      /\ frame3d.at # "idle" => frame3d.count \in Counts
      /\ \A t \in Callers : caller[t].at # "idle" => caller[t].count \in Counts
      /\ "plc" \in Callers /\ "2d" \in Callers
  BY DEF WorkInv, ControlTypeOK, WorldTypeOK, FrameHasPart, CallersHavePart, Callers
<1>1. OwnThreads /\ \A a \in Arms, c \in Counts : Collected(a, c) => DataStored(a, c)
  BY DEF PartInv
(* What most steps keep: the cycles' pointers and data, the PLC's work.    *)
<1>k. ASSUME \A c \in Counts : cycles'[c] # NoCycle =>
                /\ cycles[c] # NoCycle
                /\ cycles'[c].pointer = cycles[c].pointer,
             \A c \in Counts : cycles'[c].arm_ready \subseteq cycles[c].arm_ready,
             UNCHANGED <<starts, ends, frame3d>>,
             Plc'.at = "enqueue" => Plc' = Plc
      PROVE  PartInv'
  <2>1. OwnThreads'
    BY <1>1, <1>k DEF OwnThreads
  <2>2. \A a \in Arms, c \in Counts : Collected(a, c)' => Collected(a, c)
    BY <1>k DEF Collected, DoneTried
  <2> QED
    BY <1>k, <2>1, <2>2, ThreadsKeepParts
(* The steps of the 3D camera's thread: the rest stays.                    *)
<1>f. ASSUME \A c \in Counts : cycles'[c] # NoCycle =>
                /\ cycles[c] # NoCycle
                /\ cycles'[c].pointer = cycles[c].pointer,
             UNCHANGED <<caller, starts, ends>>,
             frame3d'.at \in {"store", "mark"} => Announced(frame3d'.count, frame3d'.pointer),
             \A a \in Arms, c \in Counts : Collected(a, c)' => Collected(a, c)
      PROVE  PartInv'
  <2>1. OwnThreads'
    BY <1>1, <1>f DEF OwnThreads, Plc
  <2> QED
    BY <1>f, <2>1, ThreadsKeepParts DEF Plc
<1>2. ASSUME NEW part \in Parts, HandleStart(part)
      PROVE  PartInv'
  <2> DEFINE c == part.count
             p == part.pointer
  <2>1. c \in Counts /\ p \in Pointers /\ part = [count |-> c, pointer |-> p]
    BY WorkflowAssumption
  <2>2. /\ starts' = [starts EXCEPT ![c] = starts[c] + 1] /\ starts[c] < MaxStarts
        /\ cycles' = [cycles EXCEPT ![c] = NewCycle(p)]
        /\ caller' = [caller EXCEPT !["plc"] = Working("enqueue", c, p, "none")]
        /\ UNCHANGED <<frame3d, ends>>
    BY <1>2 DEF HandleStart
  <2>3. starts[c] = 0 /\ ends[c] = 0
    <3>1. starts[c] = 0
      BY <1>0, <2>1, <2>2, WorkflowAssumption DEF OnePass
    <3>2. InOrder(c)
      BY <2>1 DEF ControlInv
    <3> QED
      BY <1>0, <2>1, <3>1, <3>2 DEF InOrder
  <2>4. Plc'.at = "enqueue" /\ Plc'.count = c /\ Plc'.pointer = p
    BY <1>0, <2>2 DEF Plc, Working
  <2>5. NewCycle(p).pointer = p /\ NewCycle(p).arm_ready = {}
    BY DEF NewCycle
  <2>6. Announced(c, p)
    BY <2>1 DEF Announced
  <2> HIDE DEF c, p
  <2>7. OwnThreads'
    BY <1>0, <1>1, <2>1, <2>2, <2>3, <2>4, <2>5, <2>6 DEF OwnThreads
  <2>8. \A a \in Arms, d \in Counts : Collected(a, d)' => Collected(a, d)
    BY <1>0, <2>1, <2>2, <2>5 DEF Collected, DoneTried
  <2>9. \A d \in Counts : starts[d] > 0 => starts'[d] > 0
    BY <1>0, <2>1, <2>2
  <2> QED
    BY <2>3, <2>4, <2>7, <2>8, <2>9, ThreadsKeepParts
<1>3. ASSUME NEW part \in Parts, HandleEnd(part)
      PROVE  PartInv'
  <2> DEFINE c == part.count
             p == part.pointer
             old == IF cycles[c] = NoCycle THEN NewCycle(p) ELSE cycles[c]
             new == [old EXCEPT !.pointer = p, !.end_received = TRUE]
  <2>1. c \in Counts /\ p \in Pointers /\ part = [count |-> c, pointer |-> p]
    BY WorkflowAssumption
  <2>2. cycles' = [cycles EXCEPT ![c] = new] /\ UNCHANGED <<frame3d, starts>>
    BY <1>3 DEF HandleEnd
  <2>3. old \in Cycle /\ old.arm_ready \subseteq cycles[c].arm_ready
    BY <1>0, <2>1, NewCycleType, CycleFields
  <2>4. new.arm_ready = old.arm_ready /\ new.pointer = p
    <3> HIDE DEF old
    <3> QED
      BY <2>1, <2>3 DEF Cycle
  <2>5. Plc'.at = "end"
    BY <1>0, <1>3 DEF HandleEnd, Plc, Working
  <2>6. Announced(c, p)
    BY <2>1 DEF Announced
  <2> HIDE DEF c, p, old, new
  <2>7. OwnThreads'
    BY <1>0, <1>1, <2>1, <2>2, <2>4, <2>5, <2>6 DEF OwnThreads
  <2>8. \A a \in Arms, d \in Counts : Collected(a, d)' => Collected(a, d)
    BY <1>0, <2>1, <2>2, <2>3, <2>4 DEF Collected, DoneTried
  <2> QED
    BY <2>2, <2>5, <2>7, <2>8, ThreadsKeepParts

<1>4. ASSUME NEW t \in Callers, EndStep(t), NEW c, c = caller[t].count
      PROVE  PartInv'
  <2>1. c \in Counts /\ UNCHANGED <<frame3d, starts, ends>>
    BY <1>0, <1>4 DEF EndStep, ClaimEnd, EndDelivered, EndSendFails, RollbackEnd, worldVars
  <2>2. \/ UNCHANGED cycles
        \/ /\ cycles[c] # NoCycle
           /\ cycles' \in {[cycles EXCEPT ![c].end_sent_to_3d = b] : b \in BOOLEAN}
    BY <1>4 DEF EndStep, ClaimEnd, EndDelivered, EndSendFails, RollbackEnd, MaySendEnd
  <2>3. \A d \in Counts : cycles'[d].arm_ready = cycles[d].arm_ready
    BY <2>1, <2>2, DataKept
  <2>4. \A d \in Counts : cycles'[d] # NoCycle => /\ cycles[d] # NoCycle
                                                  /\ cycles'[d].pointer = cycles[d].pointer
    BY <2>1, <2>2, PointerKept
  <2>5. Plc'.at = "enqueue" => Plc' = Plc
    <3>1. \/ caller' = [caller EXCEPT ![t] = Idle]
          \/ caller' = [caller EXCEPT ![t] = [caller[t] EXCEPT !.at = "rollback_end"]]
          \/ \E type : caller' = [caller EXCEPT ![t] = Working("send_end", c, None, type)]
      BY <1>4 DEF EndStep, ClaimEnd, EndDelivered, EndSendFails, RollbackEnd
    <3>2. /\ Idle.at = "idle"
          /\ [caller[t] EXCEPT !.at = "rollback_end"].at = "rollback_end"
          /\ \A type : Working("send_end", c, None, type).at = "send_end"
      BY <1>0, IdleFields DEF Working, CallerType
    <3> QED
      BY <1>0, <3>1, <3>2 DEF Plc
  <2> QED
    BY <1>k, <2>1, <2>3, <2>4, <2>5
<1>5. CASE Camera2dStep
  <2>1. UNCHANGED <<frame3d, starts, ends>> /\ Plc' = Plc
    BY <1>0, <1>5 DEF Camera2dStep, Handle2dReady, RequestDelivered, RequestSendFails,
                RollbackRequest, Handle2dResult, worldVars, Plc
  <2>2. \/ UNCHANGED cycles
        \/ \E c \in Counts :
             /\ cycles[c] # NoCycle
             /\ cycles' \in {[cycles EXCEPT ![c].request_sent_to_2d = b] : b \in BOOLEAN}
                            \cup {[cycles EXCEPT ![c].part_type = "typed"]}
    <3>1. Handle2dReady => window \in Counts
      BY DEF Handle2dReady, WorkInv, ControlTypeOK
    <3>2. RollbackRequest => caller["2d"].count \in Counts
      BY <1>0 DEF RollbackRequest, Callers
    <3> QED
      BY <1>5, <3>1, <3>2 DEF Camera2dStep, Handle2dReady, RequestDelivered, RequestSendFails,
                              RollbackRequest, Handle2dResult
  <2>3. \A d \in Counts : cycles'[d].arm_ready = cycles[d].arm_ready
    BY <2>2, DataKept
  <2>4. \A d \in Counts : cycles'[d] # NoCycle => /\ cycles[d] # NoCycle
                                                  /\ cycles'[d].pointer = cycles[d].pointer
    BY <2>2, PointerKept
  <2> QED
    BY <1>k, <2>1, <2>3, <2>4
<1>6. ASSUME NEW c \in Counts, NEW arms \in SUBSET Arms, Frame3dArrives(c, arms)
      PROVE  PartInv'
  <2>1. frame3d'.at = "lookup" /\ UNCHANGED <<cycles, caller, starts, ends>>
    BY <1>6 DEF Frame3dArrives, IdleFrame
  <2> QED
    BY <1>f, <2>1 DEF Collected, DoneTried
<1>7. CASE SegmentsDone \/ StoreRejected \/ \E a \in Arms : LookupCycle(a)
  <2>1. /\ frame3d'.at \notin {"mark", "send_done"} /\ UNCHANGED <<cycles, caller, starts, ends>>
        /\ frame3d'.at = "store" => /\ frame3d'.count = frame3d.count
                                    /\ cycles[frame3d.count] # NoCycle
                                    /\ frame3d'.pointer = cycles[frame3d.count].pointer
                                    /\ frame3d.count \in Counts
    BY <1>0, <1>7, IdleFields DEF SegmentsDone, StoreRejected, LookupCycle, worldVars, FrameType
  <2>2. frame3d'.at \in {"store", "mark"} => Announced(frame3d'.count, frame3d'.pointer)
    BY <1>1, <2>1 DEF OwnThreads
  <2> QED
    BY <1>f, <2>1, <2>2 DEF Collected, DoneTried
<1>8. CASE MarkReady
  <2>1. /\ frame3d.at = "mark" /\ frame3d'.at = "lookup" /\ frame3d.count \in Counts
        /\ UNCHANGED <<caller, starts, ends>>
    BY <1>0, <1>8 DEF MarkReady, worldVars, FrameType
  <2>2. CASE UNCHANGED cycles
    BY <1>f, <2>1, <2>2 DEF Collected, DoneTried
  <2>3. CASE /\ cycles[frame3d.count] # NoCycle
             /\ cycles' = [cycles EXCEPT ![frame3d.count].arm_ready = @ \cup {frame3d.arm}]
    <3>1. cycles[frame3d.count] \in Cycle
      BY <1>0, <2>1, <2>3
    <3>2. /\ cycles'[frame3d.count].arm_ready = cycles[frame3d.count].arm_ready \cup {frame3d.arm}
          /\ cycles'[frame3d.count].pointer = cycles[frame3d.count].pointer
      BY <1>0, <2>1, <2>3, <3>1 DEF Cycle
    <3>3. \A d \in Counts \ {frame3d.count} : cycles'[d] = cycles[d]
      BY <1>0, <2>3
    <3>4. \A a \in Arms, d \in Counts : Collected(a, d)' => Collected(a, d)
      BY <2>1, <3>2, <3>3 DEF Collected, DoneTried
    <3> QED
      BY <1>f, <2>1, <2>3, <3>2, <3>3, <3>4
  <2> QED
    BY <1>8, <2>2, <2>3 DEF MarkReady
<1>9. CASE TrySendDone
  <2>1. frame3d.at = "try_done" /\ frame3d.count \in Counts /\ UNCHANGED <<caller, starts, ends>>
    BY <1>0, <1>9 DEF TrySendDone, worldVars
  <2>2. CASE ~ReadyForDone(frame3d.count)
    <3>1. UNCHANGED cycles /\ frame3d'.at = "idle"
      BY <1>9, <2>2, IdleFields DEF TrySendDone
    <3> QED
      BY <1>f, <2>1, <3>1 DEF Collected, DoneTried
  <2>3. CASE ReadyForDone(frame3d.count)
    <3>1. /\ frame3d'.at = "send_done" /\ frame3d'.count = frame3d.count
          /\ cycles' = [cycles EXCEPT ![frame3d.count] = NoCycle]
          /\ cycles[frame3d.count].arm_ready = Arms
      BY <1>0, <1>9, <2>3 DEF TrySendDone, FrameType, CyclesAfterDone, ReadyForDone
    <3>2. \A d \in Counts : cycles'[d] = IF d = frame3d.count THEN NoCycle ELSE cycles[d]
      BY <1>0, <3>1
    <3>3. \A a \in Arms, d \in Counts : Collected(a, d)' => Collected(a, d)
      BY <2>1, <3>1, <3>2, CycleFields DEF Collected, DoneTried
    <3> QED
      BY <1>f, <2>1, <3>1, <3>2, <3>3
  <2> QED
    BY <2>2, <2>3
<1>10. CASE SendDone \/ DoneSendFails
  <2>1. frame3d'.at = "idle" /\ UNCHANGED <<cycles, caller, starts, ends>>
    BY <1>10, IdleFields DEF SendDone, DoneSendFails, worldVars
  <2> QED
    BY <1>f, <2>1 DEF Collected, DoneTried
<1>11. CASE UNCHANGED <<workflowVars, worldVars>>
  <2>1. UNCHANGED <<cycles, caller, frame3d, starts, ends>>
    BY <1>11 DEF workflowVars, worldVars
  <2> QED
    BY <1>k, <2>1 DEF Plc
<1> QED
  BY <1>2, <1>3, <1>4, <1>5, <1>6, <1>7, <1>8, <1>9, <1>10, <1>11
     DEF WorkflowNext, Frame3dStep, allVars

(* The dequeue side keeps an item's part, and its data once it has some.   *)
LEMMA QueueStepKeepsItems ==
    ASSUME QueueInv, QueueStep, NEW a \in Arms, NEW s \in Seqs
    PROVE  \/ items'[a][s] = UnusedItem
           \/ /\ items'[a][s].count = items[a][s].count
              /\ items'[a][s].pointer = items[a][s].pointer
              /\ items[a][s].data # NoData => items'[a][s].data = items[a][s].data
<1>0. items \in [Arms -> [Seqs -> Item]]
  BY DEF QueueInv, TypeOK
<1>1. ASSUME NEW ptr, HandleDequeuePointers(ptr)
      PROVE  \/ items'[a][s] = UnusedItem
             \/ /\ items'[a][s].count = items[a][s].count
                /\ items'[a][s].pointer = items[a][s].pointer
                /\ items[a][s].data # NoData => items'[a][s].data = items[a][s].data
  <2>1. \/ items'[a] = Referenced(DequeuedItems(a, ptr[a]), a)
        \/ items'[a] = items[a]
    BY <1>1 DEF HandleDequeuePointers
  <2>2. SameParts(DequeuedItems(a, ptr[a]), items[a])
    BY FillsKeepParts
  <2> QED
    BY <2>1, <2>2 DEF SameParts, Referenced
<1>2. ASSUME NEW b \in Arms, CompleteFromCache(b)
      PROVE  /\ items'[a][s].count = items[a][s].count
             /\ items'[a][s].pointer = items[a][s].pointer
             /\ items'[a][s].data = items[a][s].data
  <2>1. \/ items'[a][s] = items[a][s]
        \/ items'[a][s] = [items[a][s] EXCEPT !.dequeued = TRUE]
    BY <1>0, <1>2 DEF CompleteFromCache
  <2>2. LET it == [items[a][s] EXCEPT !.dequeued = TRUE]
        IN  it.count = items[a][s].count /\ it.pointer = items[a][s].pointer
            /\ it.data = items[a][s].data
    BY <1>0 DEF Item
  <2> QED
    BY <2>1, <2>2
<1>3. ASSUME NEW b \in Arms, SendD(b)
      PROVE  items' = items
  BY <1>3 DEF SendD, queueVars
<1> QED
  BY <1>1, <1>2, <1>3, ConstantsAssumption DEF QueueStep, DequeueStep, Arms

LEMMA QueueStepKeepsParts ==
    ASSUME DistinctParts, QueueInv, PartInv, QueueStep, UNCHANGED <<workflowVars, worldVars>>
    PROVE  PartInv'
<1>1. UNCHANGED <<cycles, caller, frame3d, starts, ends>>
  BY DEF workflowVars, worldVars
<1>2. UnusedItem.count \notin Counts /\ UnusedItem.pointer \notin Pointers
  BY ConstantsAssumption DEF UnusedItem, None
<1>3. ASSUME NEW a \in Arms, NEW s \in Seqs,
             items'[a][s].count \in Counts \/ items'[a][s].pointer \in Pointers
      PROVE  /\ items'[a][s].count = items[a][s].count
             /\ items'[a][s].pointer = items[a][s].pointer
             /\ items[a][s].data # NoData => items'[a][s].data = items[a][s].data
  BY <1>2, <1>3, QueueStepKeepsItems
<1>4. ASSUME NEW a \in Arms, NEW s \in Seqs
      PROVE  OwnItem(a, s)'
  <2>1. OwnItem(a, s)
    BY DEF PartInv
  <2>2. items[a][s].count \in Counts \/ items[a][s].pointer \in Pointers
           => items[a][s].count \in Counts
    BY <2>1, AnnouncedPart DEF OwnItem
  <2>3. \A t \in Seqs : items'[a][t].count \in Counts => items'[a][t].count = items[a][t].count
    BY <1>3
  <2> QED
    BY <1>1, <1>3, <2>1, <2>2, <2>3 DEF OwnItem, Plc
<1>5. OwnThreads'
  BY <1>1 DEF PartInv, OwnThreads, Plc
<1>6. ASSUME NEW a \in Arms, NEW c \in Counts, Collected(a, c)'
      PROVE  DataStored(a, c)'
  <2>1. DataStored(a, c)
    BY <1>1, <1>6 DEF PartInv, Collected, DoneTried
  <2>2. CameraData(c) # NoData
    BY DEF CameraData, NoData
  <2> QED
    BY <1>3, <2>1, <2>2 DEF DataStored
<1> QED
  BY <1>4, <1>5, <1>6 DEF PartInv

(* The enqueue of a part makes its only item, before its data can come.    *)
LEMMA EnqueueKeepsParts ==
    ASSUME DistinctParts, WorkInv, ControlInv, QueueInv, PartInv, StartEnqueue,
           NEW c, NEW p, c = Plc.count, p = Plc.pointer
    PROVE  PartInv'
<1>1. /\ Announced(c, p) /\ c \in Counts /\ p \in Pointers /\ starts[c] > 0 /\ ends[c] = 0
      /\ Plc.at = "enqueue" /\ Plc.count = c
  <2>1. Plc.at = "enqueue"
    BY DEF StartEnqueue
  <2>2. Announced(c, p) /\ starts[c] > 0 /\ ends[c] = 0
    BY <2>1 DEF PartInv, OwnThreads
  <2> QED
    BY <2>1, <2>2, AnnouncedPart
<1>2. /\ UNCHANGED <<cycles, frame3d, starts, ends>> /\ Plc'.at = "idle"
      /\ EnqueuePair(c, p, items)
  BY IdleFields DEF StartEnqueue, EnqueueItem, worldVars, Plc, WorkInv, ControlTypeOK, Callers
<1>3. /\ items \in [Arms -> [Seqs -> Item]] /\ seq + 1 \in Seqs
  BY <1>2, ConstantsAssumption DEF QueueInv, TypeOK, EnqueuePair, Seqs
<1>4. UnusedItem.count \notin Counts /\ UnusedItem.pointer \notin Pointers
  BY ConstantsAssumption DEF UnusedItem, None
<1>5. ASSUME NEW a \in Arms, NEW s \in Seqs,
             items'[a][s].count \in Counts \/ items'[a][s].pointer \in Pointers
      PROVE  IF s = seq + 1 THEN items'[a][s] = NewItem(c, p) ELSE items'[a][s] = items[a][s]
  BY <1>2, <1>3, <1>4, <1>5 DEF EnqueuePair, Referenced
<1>6. \A a \in Arms, s \in Seqs : items[a][s].count # c
  BY <1>1 DEF PartInv, OwnItem
<1>7. NewItem(c, p).count = c /\ NewItem(c, p).pointer = p
  BY DEF NewItem
<1>8. ASSUME NEW a \in Arms, NEW s \in Seqs
      PROVE  OwnItem(a, s)'
  <2>1. OwnItem(a, s)
    BY DEF PartInv
  <2> SUFFICES ASSUME items'[a][s].count \in Counts \/ items'[a][s].pointer \in Pointers
               PROVE  OwnItem(a, s)'
    BY DEF OwnItem
  <2>2. CASE s = seq + 1
    <3>1. items'[a][s].count = c /\ items'[a][s].pointer = p
      BY <1>5, <1>7, <2>2
    <3>2. \A t \in Seqs : items'[a][t].count = c => t = s
      BY <1>1, <1>5, <1>6, <2>2
    <3> QED
      BY <1>1, <1>2, <3>1, <3>2 DEF OwnItem
  <2>3. CASE s # seq + 1
    <3>1. items'[a][s] = items[a][s]
      BY <1>5, <2>3
    <3>2. items[a][s].count \in Counts /\ items[a][s].count # c
      BY <1>6, <2>1, <3>1, AnnouncedPart DEF OwnItem
    <3>3. \A t \in Seqs : items'[a][t].count = items[a][s].count => t = s
      BY <1>5, <1>7, <2>1, <3>2 DEF OwnItem
    <3> QED
      BY <1>2, <2>1, <3>1, <3>2, <3>3 DEF OwnItem
  <2> QED
    BY <2>2, <2>3
<1>9. OwnThreads'
  BY <1>2 DEF PartInv, OwnThreads
<1>10. ASSUME NEW a \in Arms, NEW d \in Counts, Collected(a, d)'
       PROVE  DataStored(a, d)'
  <2>1. Collected(a, d) /\ DataStored(a, d)
    BY <1>2, <1>10 DEF PartInv, Collected, DoneTried
  <2>2. d # c
    <3>1. InOrder(d) /\ (DoneTried(d) => frame3d.at # "idle")
      BY DEF ControlInv, DoneTried
    <3>2. ends3d[d] > 0
      BY <2>1, <3>1 DEF Collected, DoneTried, InOrder
    <3> QED
      BY <1>1, <3>1, <3>2 DEF InOrder
  <2> QED
    BY <1>5, <1>7, <2>1, <2>2 DEF DataStored
<1> QED
  BY <1>8, <1>9, <1>10 DEF PartInv

(* A segment's data goes into the item of the frame's own part.            *)
LEMMA StoreKeepsParts ==
    ASSUME DistinctParts, WorkInv, QueueInv, PartInv, StoreSegment,
           NEW a, NEW c, NEW p, a = frame3d.arm, c = frame3d.count, p = frame3d.pointer
    PROVE  PartInv'
<1> DEFINE x == slot[a][p]
<1>1. /\ frame3d.at = "store" /\ a \in Arms /\ Announced(c, p) /\ c \in Counts /\ p \in Pointers
  <2>1. frame3d.at = "store"
    BY DEF StoreSegment
  <2>2. Announced(c, p) /\ a \in Arms
    BY <2>1 DEF PartInv, OwnThreads, WorkInv, FrameHasPart
  <2> QED
    BY <2>1, <2>2, AnnouncedPart
<1>2. /\ UNCHANGED <<cycles, caller, starts, ends>>
      /\ frame3d'.at = "mark" /\ frame3d'.count = c /\ frame3d'.arm = a /\ frame3d'.pointer = p
      /\ items' = [items EXCEPT ![a][slot[a][p]].data = CameraData(c)] /\ slot[a][p] # 0
  BY DEF StoreSegment, StoreCameraData, Storable, worldVars, WorkInv, ControlTypeOK, FrameType
<1>3. /\ items \in [Arms -> [Seqs -> Item]] /\ x \in Seqs /\ items[a][x].pointer = p
  <2>1. items \in [Arms -> [Seqs -> Item]] /\ x \in Seqs
    BY <1>1, <1>2, ConstantsAssumption DEF QueueInv, TypeOK, Seqs
  <2>2. slot[1] = slot[2] /\ Arms = {1, 2}
    BY DEF QueueInv, PairedQueues, Arms
  <2>3. p \in QueuedPointers(1)
    BY <1>1, <1>2, <2>2 DEF QueuedPointers
  <2> QED
    BY <1>1, <2>1, <2>2, <2>3 DEF QueueInv, PairedQueues
<1>4. /\ items'[a][x] = [items[a][x] EXCEPT !.data = CameraData(c)]
      /\ \A b \in Arms, s \in Seqs : ~(b = a /\ s = x) => items'[b][s] = items[b][s]
  BY <1>1, <1>2, <1>3
<1>5. /\ items'[a][x].count = items[a][x].count /\ items'[a][x].pointer = p
      /\ items'[a][x].data = CameraData(c)
  BY <1>1, <1>3, <1>4 DEF Item
<1>6. items[a][x].count = c
  <2>1. OwnItem(a, x)
    BY <1>1, <1>3 DEF PartInv
  <2> QED
    BY <1>1, <1>3, <2>1, AnnouncedPart DEF OwnItem
<1> HIDE DEF x
<1>7. ASSUME NEW b \in Arms, NEW s \in Seqs
      PROVE  OwnItem(b, s)'
  <2>1. OwnItem(b, s)
    BY DEF PartInv
  <2>2. \A t \in Seqs : items'[b][t].count = items[b][t].count
    BY <1>4, <1>5
  <2>3. items'[b][s].pointer = items[b][s].pointer
    BY <1>3, <1>4, <1>5
  <2> QED
    BY <1>2, <2>1, <2>2, <2>3 DEF OwnItem, Plc
<1>8. OwnThreads'
  BY <1>1, <1>2 DEF PartInv, OwnThreads, Plc
<1>9. ASSUME NEW b \in Arms, NEW d \in Counts, Collected(b, d)'
      PROVE  DataStored(b, d)'
  <2>1. CASE Collected(b, d)
    <3>1. DataStored(b, d)
      BY <2>1 DEF PartInv
    <3> SUFFICES ASSUME NEW s \in Seqs, items'[b][s].count = d
                 PROVE  items'[b][s].data = CameraData(d)
      BY DEF DataStored
    <3>2. CASE b = a /\ s = x
      <4>1. d = c
        BY <1>5, <1>6, <3>2
      <4> QED
        BY <1>5, <3>2, <4>1
    <3>3. CASE ~(b = a /\ s = x)
      BY <1>4, <3>1, <3>3 DEF DataStored
    <3> QED
      BY <3>2, <3>3
  <2>2. CASE ~Collected(b, d)
    <3>1. b = a /\ d = c
      BY <1>2, <1>9, <2>2 DEF Collected, DoneTried
    <3>2. ASSUME NEW s \in Seqs, items'[a][s].count = c
          PROVE  items'[a][s].data = CameraData(c)
      <4>1. CASE s = x
        BY <1>5, <4>1
      <4>2. CASE s # x
        <5>1. items[a][s].count = c
          BY <1>1, <1>4, <3>2, <4>2
        <5>2. OwnItem(a, s)
          BY <1>1 DEF PartInv
        <5> QED
          BY <1>1, <1>3, <1>6, <4>2, <5>1, <5>2 DEF OwnItem
      <4> QED
        BY <4>1, <4>2
    <3> QED
      BY <3>1, <3>2 DEF DataStored
  <2> QED
    BY <2>1, <2>2
<1> QED
  BY <1>7, <1>8, <1>9 DEF PartInv

LEMMA PartStep ==
    ASSUME OnePass, DistinctParts, WorkInv, ControlInv, QueueInv, PartInv,
           [WorkflowNext]_allVars
    PROVE  PartInv'
<1>1. CASE StartEnqueue
  BY <1>1, EnqueueKeepsParts
<1>2. CASE StoreSegment
  BY <1>2, StoreKeepsParts
<1>3. CASE QueueStep /\ UNCHANGED <<workflowVars, worldVars>>
  BY <1>3, QueueStepKeepsParts
<1>4. CASE /\ ~StartEnqueue /\ ~StoreSegment
           /\ ~(QueueStep /\ UNCHANGED <<workflowVars, worldVars>>)
  <2>1. UNCHANGED items
    BY <1>4 DEF WorkflowNext, allVars, vars, queueVars, HandleStart, HandleEnd, EndStep, ClaimEnd,
           EndDelivered, EndSendFails, RollbackEnd, Camera2dStep, Handle2dReady, RequestDelivered,
           RequestSendFails, RollbackRequest, Handle2dResult, Frame3dArrives, Frame3dStep,
           SegmentsDone, StoreRejected, MarkReady, TrySendDone, SendDone, DoneSendFails, LookupCycle
  <2> QED
    BY <1>4, <2>1, ThreadStepsKeepParts
<1> QED
  BY <1>1, <1>2, <1>3, <1>4

LEMMA PartInit == WorkflowInit => PartInv
<1> SUFFICES ASSUME WorkflowInit
             PROVE  PartInv
  OBVIOUS
<1>1. ASSUME NEW a \in Arms, NEW s \in Seqs
      PROVE  OwnItem(a, s)
  BY ConstantsAssumption DEF WorkflowInit, Init, OwnItem, UnusedItem, None
<1>2. Plc.at = "idle" /\ frame3d.at = "idle" /\ \A c \in Counts : cycles[c] = NoCycle
  BY IdleFields DEF WorkflowInit, Plc, Callers
<1>3. OwnThreads /\ \A a \in Arms, c \in Counts : ~Collected(a, c)
  BY <1>2, CycleFields DEF OwnThreads, Collected, DoneTried
<1> QED
  BY <1>1, <1>3 DEF PartInv

(* A Done that goes to the PLC is true: each arm's queue holds the part    *)
(* with the data the 3D camera sent for it, unless the part was evicted;   *)
(* neither a dequeue's default nor another part's frame took its place.    *)
THEOREM DoneIsTrue ==
    ASSUME OnePass, DistinctParts, Flow = "dual_camera_11_12", ActiveArms = Arms
    PROVE  WorkflowSpec => []DoneHasBothArms
<1> DEFINE Inv == WorkInv /\ ControlInv /\ QueueInv
<1>1. WorkflowSpec => []Inv
  BY ControlCorrect, FlowUsesQueue, QueuesAndCachesConsistent, PTL
<1>2. Inv /\ PartInv /\ [WorkflowNext]_allVars => PartInv'
  BY PartStep
<1>3. Inv /\ PartInv => DoneHasBothArms
  <2> SUFFICES ASSUME WorkInv, PartInv, frame3d.at = "send_done", NEW a \in Arms, NEW s \in Seqs,
                      items[a][s].count = frame3d.count
               PROVE  items[a][s].data = CameraData(frame3d.count)
    BY DEF DoneHasBothArms
  <2>1. frame3d.count \in Counts
    BY DEF WorkInv, FrameHasPart
  <2>2. DataStored(a, frame3d.count)
    BY <2>1 DEF PartInv, Collected, DoneTried
  <2> QED
    BY <2>2 DEF DataStored
<1> QED
  BY <1>1, <1>2, <1>3, PartInit, PTL DEF WorkflowSpec
=============================================================================
