------------------------------- MODULE PartFlow -------------------------------
(***************************************************************************)
(* What the dual-camera enqueue flow promises for a part that the PLC      *)
(* announces once: the 3D camera is told the end once, then each arm's     *)
(* data is collected, and with both arms' data in, and not before, one     *)
(* Done is sent to the PLC; when that send fails, the PLC never gets one.  *)
(* The threads, the 2D camera, the retries of the end and the queue of     *)
(* core/enqueue_workflow.py do not show here.                              *)
(***************************************************************************)
EXTENDS Naturals

CONSTANTS
    Counts,     \* the parts, by their count
    Arms        \* the arms whose data a part needs

VARIABLES
    stage,      \* how far a part is
    told,       \* ends the 3D camera was told for a part
    data        \* arms whose data was collected for a part that is open

flowVars == <<stage, told, data>>

Stages == {"absent", "open", "complete", "done", "lost"}

FlowInit ==
    /\ stage = [c \in Counts |-> "absent"]
    /\ told = [c \in Counts |-> 0]
    /\ data = [c \in Counts |-> {}]

Start(c) ==
    /\ stage[c] = "absent"
    /\ stage' = [stage EXCEPT ![c] = "open"]
    /\ UNCHANGED <<told, data>>

TellEnd(c) ==
    /\ stage[c] = "open" /\ told[c] = 0
    /\ told' = [told EXCEPT ![c] = 1]
    /\ UNCHANGED <<stage, data>>

Collect(c, a) ==
    /\ stage[c] = "open" /\ told[c] = 1
    /\ data' = [data EXCEPT ![c] = @ \cup {a}]
    /\ UNCHANGED <<stage, told>>

Complete(c) ==
    /\ stage[c] = "open" /\ data[c] = Arms
    /\ stage' = [stage EXCEPT ![c] = "complete"]
    /\ data' = [data EXCEPT ![c] = {}]
    /\ UNCHANGED told

Done(c) ==
    /\ stage[c] = "complete"
    /\ stage' = [stage EXCEPT ![c] = "done"]
    /\ UNCHANGED <<told, data>>

LoseDone(c) ==
    /\ stage[c] = "complete"
    /\ stage' = [stage EXCEPT ![c] = "lost"]
    /\ UNCHANGED <<told, data>>

FlowNext ==
    \E c \in Counts :
        \/ Start(c) \/ TellEnd(c) \/ Complete(c) \/ Done(c) \/ LoseDone(c)
        \/ \E a \in Arms : Collect(c, a)

FlowSpec == FlowInit /\ [][FlowNext]_flowVars

(* A part whose data is in is completed, and its Done is tried.            *)
FlowFairSpec ==
    FlowSpec /\ \A c \in Counts : /\ WF_flowVars(Complete(c))
                                   /\ WF_flowVars(Done(c) \/ LoseDone(c))
=============================================================================
