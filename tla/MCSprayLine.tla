----------------------------- MODULE MCSprayLine -----------------------------
(* Instance for TLC.  Two parts use the same pointer, and one of them again *)
(* another; 3D frames come whole, in halves, or with two parts mixed up.    *)
EXTENDS SprayLine

ThreeParts == {<<1, 2>>, <<2, 2>>, <<2, 0>>}

Segment(n, d) == [count |-> n, data |-> d]
Whole(n, d) == [a \in Arms |-> Segment(n, d)]
SomeFrames ==
    {Whole(1, "spray"), Whole(2, "spray"), <<Segment(1, "bad"), Segment(1, "idle")>>,
     <<Segment(1, "spray"), Segment(2, "spray")>>}
    \cup {[b \in {a} |-> Segment(n, "spray")] : a \in Arms, n \in Counts}

SomeDequeues == {<<1, 1>>, <<2, 2>>, <<1, 2>>, <<1, 0>>, <<2, 0>>}
=============================================================================
