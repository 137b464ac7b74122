--------------------------- MODULE MCCameraFrames ---------------------------
(* What the cameras send in small instances.                               *)
EXTENDS CameraFrames

Message(chan, event, bytes) == [channel |-> chan, event |-> <<event>>, bytes |-> bytes]

Frame3d(count) ==
    Message("3d", [kind |-> "segments", segments |-> <<[arm |-> 1, count |-> count],
                                                       [arm |-> 2, count |-> count]>>],
            <<"(", "f1", ",">> \o count \o <<")", "E", "A", "(", "f2", ",">> \o count \o <<")", "E">>)

Results == {Message("2d", Result(<<"1", "2">>, <<"t">>), <<"(", "1", "2", ",", "t", ")", "E">>),
            Message("2d", Result(<<"1">>, <<"00,00">>), <<"(", "1", ")", "E">>)}

(* READY as a bare word; 3D frames with heartbeats between them.           *)
BareReady == Results \cup
    {Message("2d", Ready, <<"READY">>), Frame3d(<<"1">>), Frame3d(<<"1", "2">>),
     [channel |-> "3d", event |-> <<>>, bytes |-> <<"H">>],
     [channel |-> "3d", event |-> <<>>, bytes |-> <<"Z", "nl">>]}
=============================================================================
