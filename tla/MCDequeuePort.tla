----------------------------- MODULE MCDequeuePort -----------------------------
(* The dequeue port on small instances.                                    *)
EXTENDS DequeuePort

(* Both arms at the part, and arm 2 back at pointer 0.                     *)
TwoFrames == {[a \in Arms |-> 1], [a \in Arms |-> 2 - a]}
=============================================================================
