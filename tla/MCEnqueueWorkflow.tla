-------------------------- MODULE MCEnqueueWorkflow --------------------------
(* Instances of the dual-camera enqueue flow.                              *)
EXTENDS EnqueueWorkflow

(* One part, so that its pointer is dequeued while its data is on the way. *)
OnePart == {[count |-> 1, pointer |-> 1]}

(* Two parts in a row, each with a pointer of its own.                     *)
TwoParts == OnePart \cup {[count |-> 2, pointer |-> 2]}
=============================================================================
