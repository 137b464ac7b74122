----------------------------- MODULE CameraProofs -----------------------------
(***************************************************************************)
(* What holds of the camera server: of a camera's link (CameraLink) for    *)
(* every number of connections, receiver threads and senders, and of the   *)
(* way from its bytes to the workflow (CameraFrames) for any messages of   *)
(* the shapes that the cameras send.                                       *)
(*                                                                         *)
(* The link.  ReceiverInv: the only receiver thread alive is the one in    *)
(* _recv_threads, because a thread is started only after the lookup found  *)
(* that one dead.  SocketInv: a thread that is about to close a socket     *)
(* took it out of the state of the client before, under the lock, so the   *)
(* client is never among the sockets that are being closed; and the        *)
(* connection the accept thread has just taken is nobody else's yet.       *)
(*                                                                         *)
(* The frames.  FramesInv says what the receive buffer is.  Followed: it   *)
(* is the beginning of a text of whole messages that the wire goes on      *)
(* with, and the last byte of none of them (no event) is in it; READY,     *)
(* which needs no closing mark, is the last word on the 2D channel until   *)
(* it is answered.  After a connection was lost the text (d) is what the   *)
(* parser makes of the wire (w): on the 3D channel a buffer that ends      *)
(* between the two segments of a frame takes the first segment of the next *)
(* frame for its second one, so d says nothing where that frame ends and   *)
(* says the mixed one where its first segment ends (Skips); that frame is  *)
(* Due to be lost.  Stuck: on the 2D channel, where a result that was cut  *)
(* off is in the buffer, no frame is found any more, because the camera    *)
(* says READY and is never asked for a result.  Lost counts what is        *)
(* missing of received in handed; with what is due, and the READY that is  *)
(* to come, it stays within the number of connections lost.  The texts are *)
(* kept as cells, bytes with the events that they carry, so that "a frame  *)
(* is found" (PopFrame, PopNothing) and "a message ends here" are one      *)
(* thing.  A drain and the events of a text are recursive functions; what  *)
(* they are up to a position is shown by the least position where it would *)
(* be false (SmallestExists).                                              *)
(***************************************************************************)
EXTENDS CameraLink, CameraFrames, TcpLinkProofs, WellFoundedInduction,
        FiniteSetTheorems

-----------------------------------------------------------------------------
(* Types.                                                                  *)

ThreadType == [at : {"dead", "check", "recv", "callback", "detach", "close", "leave"},
               holds : Conns \cup {NoSock}]
SenderType == [at : {"idle", "send", "detach", "close"}, holds : Conns \cup {NoSock}]
AccepterType == [at : {"accept", "attach", "close_old", "start", "ended"},
                 holds : Conns \cup {NoSock}, old : Conns \cup {NoSock}]
StopperType == [at : {"idle", "detach", "close", "listener", "stopped"},
                holds : Conns \cup {NoSock}]

(* Every variable of a camera's link has its type, whatever breaks when.   *)
THEOREM LinkTypeCorrect == CameraSpec => []CameraTypeOK
<1>1. CamInit => CameraTypeOK
  <2> SUFFICES ASSUME CamInit PROVE CameraTypeOK
    OBVIOUS
  <2>1. NoConn \in ConnType
    BY DEF NoConn, ConnType
  <2> QED
    BY <2>1 DEF CamInit, CameraTypeOK, TcpInit, NoSock, NoThread, Idle
<1>2. CameraTypeOK /\ [CameraNext]_camVars => CameraTypeOK'
  <2> SUFFICES ASSUME CameraTypeOK, [CameraNext]_camVars PROVE CameraTypeOK'
    OBVIOUS
  <2> USE DEF CameraTypeOK
  <2>1. \A c \in Conns \cup {NoSock} : Close(c) \in [Conns -> ConnType]
    BY CloseStep
  <2>2. CloseListener \in [Conns -> ConnType]
    BY ListenerStep
  <2>3. ASSUME UNCHANGED camVars PROVE CameraTypeOK'
    BY <2>3 DEF camVars
  <2>4. ASSUME AccepterStep PROVE CameraTypeOK'
    <3>1. ASSUME NEW c \in Conns, CameraAccept(c) PROVE CameraTypeOK'
      <4>1. [conns[c] EXCEPT !.ours = "open"] \in ConnType
        BY ConnUpdateType
      <4> QED
        BY <3>1, <4>1 DEF CameraAccept, AccepterBecomes, NoSock
    <3>2. CASE AcceptEnds
      BY <3>2 DEF AcceptEnds, AccepterBecomes, NoSock
    <3>3. CASE AttachClient
      BY <3>3 DEF AttachClient, AccepterBecomes
    <3>4. CASE CloseReplaced
      BY <3>4, <2>1 DEF CloseReplaced, AccepterBecomes, NoSock
    <3>5. CASE StartRecvThread
      <4>1. CASE NeedsReceiver
        <5>1. PICK t \in Threads : threads' = [threads EXCEPT ![t].at = "check"] /\ current' = t
          BY <3>5, <4>1 DEF StartRecvThread
        <5>2. /\ threads'[t].at = "check" /\ threads'[t].holds = threads[t].holds
              /\ \A u \in Threads : u # t => threads'[u] = threads[u]
          BY <5>1
        <5>3. threads' \in [Threads -> ThreadType]
          BY <5>1 DEF ThreadType
        <5>4. \A u \in Threads : threads'[u].at \in {"recv", "callback"}
                                  => threads'[u].holds \in Conns
          BY <5>2
        <5> QED
          BY <3>5, <5>1, <5>3, <5>4 DEF StartRecvThread, AccepterBecomes, ThreadType
      <4>2. CASE ~NeedsReceiver
        BY <3>5, <4>2 DEF StartRecvThread, AccepterBecomes
      <4> QED
        BY <4>1, <4>2
    <3> QED
      BY <2>4, <3>1, <3>2, <3>3, <3>4, <3>5 DEF AccepterStep
  <2>5. ASSUME NEW t \in Threads, ReceiverStep(t) PROVE CameraTypeOK'
    <3>1. CASE SnapshotClient(t)
      <4>1. CASE ReadsOn
        <5>1. client \in Conns
          BY <4>1 DEF ReadsOn
        <5> QED
          BY <3>1, <4>1, <5>1 DEF SnapshotClient, ReceiverBecomes
      <4>2. CASE ~ReadsOn
        <5>1. threads' = [threads EXCEPT ![t] = [at |-> "leave", holds |-> NoSock]]
          BY <3>1, <4>2 DEF SnapshotClient, ReceiverBecomes
        <5>2. UNCHANGED <<client, accepter, current, senders, stopper, conns>>
          BY <3>1, <4>2 DEF SnapshotClient, ReceiverBecomes
        <5> QED
          BY <5>1, <5>2
      <4> QED
        BY <4>1, <4>2
    <3>2. CASE ReceiveData(t)
      <4>1. threads[t].holds \in Conns
        BY <3>2 DEF ReceiveData
      <4>2. conns' \in [Conns -> ConnType]
        BY <3>2, <4>1, TakeStep DEF ReceiveData
      <4>3. PICK p \in {"check", "callback"} :
              threads' = [threads EXCEPT ![t] = [at |-> p, holds |-> threads[t].holds]]
        BY <3>2 DEF ReceiveData, ReceiverBecomes
      <4> QED
        BY <4>1, <4>2, <4>3, <3>2 DEF ReceiveData, ReceiverBecomes
    <3>3. CASE CallbackDone(t)
      BY <3>3 DEF CallbackDone, ReceiverBecomes
    <3>4. CASE ReceiveFails(t)
      BY <3>4 DEF ReceiveFails, ReceiverBecomes
    <3>5. CASE ReceiverDetaches(t)
      BY <3>5 DEF ReceiverDetaches, ReceiverBecomes, Detached, NoSock
    <3>6. CASE ReceiverCloses(t)
      BY <3>6, <2>1 DEF ReceiverCloses, ReceiverBecomes, NoSock
    <3>7. CASE ReceiverLeaves(t)
      BY <3>7 DEF ReceiverLeaves, ReceiverBecomes, NoSock
    <3> QED
      BY <2>5, <3>1, <3>2, <3>3, <3>4, <3>5, <3>6, <3>7 DEF ReceiverStep
  <2>6. ASSUME NEW s \in Senders, SendSnapshot(s) \/ SendEnds(s) PROVE CameraTypeOK'
    <3>1. CASE SendSnapshot(s)
      BY <3>1 DEF SendSnapshot, SenderBecomes
    <3>2. CASE SendDelivered(s)
      BY <3>2 DEF SendDelivered, SenderBecomes, NoSock
    <3>3. CASE SendFails(s)
      BY <3>3 DEF SendFails, SenderBecomes, NoSock
    <3>4. CASE SenderDetaches(s)
      BY <3>4 DEF SenderDetaches, SenderBecomes, Detached, NoSock
    <3>5. CASE SenderCloses(s)
      BY <3>5, <2>1 DEF SenderCloses, SenderBecomes, NoSock
    <3> QED
      BY <2>6, <3>1, <3>2, <3>3, <3>4, <3>5 DEF SendEnds
  <2>7. ASSUME StopBegins \/ StopDetaches \/ StopCloses \/ StopListener PROVE CameraTypeOK'
    BY <2>7, <2>1, <2>2
    DEF StopBegins, StopDetaches, StopCloses, StopListener, StopperBecomes, Detached, NoSock
  <2>8. ASSUME NEW c \in Conns, CameraConnects(c) \/ CameraGivesUp(c)
                                \/ CameraLossNoticed(c) \/ CameraSends(c)
        PROVE  CameraTypeOK'
    BY <2>8, ConnectStep, PeerStep
    DEF CameraConnects, CameraGivesUp, CameraLossNoticed, CameraSends, server
  <2>9. ASSUME CameraLeaves PROVE CameraTypeOK'
    BY <2>9, PeerStep DEF CameraLeaves, server
  <2> QED
    BY <2>3, <2>4, <2>5, <2>6, <2>7, <2>8, <2>9 DEF CameraNext
<1> QED
  BY <1>1, <1>2, PTL DEF CameraSpec

-----------------------------------------------------------------------------
(* One receiver.                                                           *)

(* The receiver thread that is alive is the one in _recv_threads.          *)
ReceiverInv == \A t \in Threads : threads[t].at # "dead" => t = current

(* Types and the one receiver, in every state.                             *)
LEMMA ReceiverKept == CameraSpec => []ReceiverInv
<1>1. CamInit => ReceiverInv
  BY DEF CamInit, ReceiverInv
<1>2. CameraTypeOK /\ ReceiverInv /\ [CameraNext]_camVars => ReceiverInv'
  <2> SUFFICES ASSUME CameraTypeOK, ReceiverInv, [CameraNext]_camVars PROVE ReceiverInv'
    OBVIOUS
  <2> USE DEF ReceiverInv
  <2>0. threads \in [Threads -> ThreadType] /\ current \in Threads \cup {NoThread}
    BY DEF CameraTypeOK, ThreadType
  <2>1. CASE UNCHANGED <<threads, current>>
    BY <2>1
  <2>2. CASE StartRecvThread
    <3>1. CASE NeedsReceiver
      <4>1. \A t \in Threads : threads[t].at = "dead"
        BY <3>1, CameraAssumption DEF NeedsReceiver, NoThread
      <4>2. PICK t \in Threads : threads' = [threads EXCEPT ![t].at = "check"] /\ current' = t
        BY <2>2, <3>1 DEF StartRecvThread
      <4> QED
        BY <4>1, <4>2, <2>0
    <3>2. CASE ~NeedsReceiver
      BY <3>2, <2>2, <2>1 DEF StartRecvThread
    <3> QED
      BY <3>1, <3>2
  <2>3. ASSUME NEW t \in Threads, ReceiverStep(t) PROVE ReceiverInv'
    <3>1. PICK r : threads[t].at # "dead" /\ threads' = [threads EXCEPT ![t] = r]
                   /\ UNCHANGED current
      <4>1. ASSUME NEW p, NEW q, NEW c, ReceiverBecomes(t, p, q, c), p # "dead"
            PROVE  \E r : threads[t].at # "dead" /\ threads' = [threads EXCEPT ![t] = r]
                         /\ UNCHANGED current
        BY <4>1 DEF ReceiverBecomes
      <4>2. \E p, q, c : ReceiverBecomes(t, p, q, c) /\ p # "dead"
        BY <2>3 DEF ReceiverStep, SnapshotClient, ReceiveData, CallbackDone, ReceiveFails,
                    ReceiverDetaches, ReceiverCloses, ReceiverLeaves
      <4> QED
        BY <4>1, <4>2
    <3> QED
      BY <3>1, <2>0
  <2>4. CASE UNCHANGED camVars
    BY <2>4, <2>1 DEF camVars
  <2>5. CASE AccepterStep
    <3>1. StartRecvThread \/ UNCHANGED <<threads, current>>
      BY <2>5 DEF AccepterStep, CameraAccept, AcceptEnds, AttachClient, CloseReplaced
    <3> QED
      BY <3>1, <2>1, <2>2
  <2>6. ASSUME NEW s \in Senders, SendSnapshot(s) \/ SendEnds(s)
        PROVE  UNCHANGED <<threads, current>>
    BY <2>6 DEF SendSnapshot, SendEnds, SendDelivered, SendFails, SenderDetaches,
                SenderCloses, SenderBecomes
  <2>7. CASE StopBegins \/ StopDetaches \/ StopCloses \/ StopListener
    BY <2>7, <2>1 DEF StopBegins, StopDetaches, StopCloses, StopListener, StopperBecomes
  <2>8. ASSUME NEW c \in Conns, CameraConnects(c) \/ CameraGivesUp(c)
                                \/ CameraLossNoticed(c) \/ CameraSends(c)
        PROVE  UNCHANGED <<threads, current>>
    BY <2>8 DEF CameraConnects, CameraGivesUp, CameraLossNoticed, CameraSends, server
  <2>9. CASE CameraLeaves
    BY <2>9, <2>1 DEF CameraLeaves, server
  <2> QED
    BY <2>1, <2>3, <2>4, <2>5, <2>6, <2>7, <2>8, <2>9 DEF CameraNext
<1> QED
  BY <1>1, <1>2, LinkTypeCorrect, PTL DEF CameraSpec

(* A channel never has two receivers, however often the camera reconnects  *)
(* while the old receiver is still cleaning up.                            *)
THEOREM ReceiverAlone == CameraSpec => []OneReceiver
<1>1. ReceiverInv => OneReceiver
  BY DEF ReceiverInv, OneReceiver, AliveThreads
<1> QED
  BY <1>1, ReceiverKept, PTL

-----------------------------------------------------------------------------
(* Sockets.                                                                *)

(* Sockets that a thread is about to close.                                *)
Doomed(c) ==
    \/ accepter.at = "close_old" /\ accepter.old = c
    \/ \E t \in Threads : threads[t].at = "close" /\ threads[t].holds = c
    \/ \E s \in Senders : senders[s].at = "close" /\ senders[s].holds = c
    \/ stopper.at = "close" /\ stopper.holds = c

(* The client, and the connection that is about to become the client.      *)
Fresh(c) == accepter.at = "attach" /\ accepter.holds = c
Kept(c) == c # NoSock /\ (c = client \/ Fresh(c))

KeptIsOpen == \A c \in Conns : Kept(c) => conns[c].ours = "open" /\ ~Doomed(c)
FreshIsNew == accepter.at = "attach" => accepter.holds # NoSock /\ accepter.holds # client
BacklogUnheld == \A c \in Conns : conns[c].ours = "backlog" => ~Held(c)

SocketInv == KeptIsOpen /\ FreshIsNew /\ BacklogUnheld

LEMMA SocketInit == CamInit => SocketInv
BY TcpAssumption
DEF CamInit, SocketInv, KeptIsOpen, FreshIsNew, BacklogUnheld, Kept, Fresh, TcpInit, NoConn, NoSock

(* A thread takes the client out of the state, to close it.                *)
LEMMA DetachKeeps ==
    ASSUME CameraTypeOK, SocketInv, client' = NoSock, UNCHANGED <<accepter, conns>>,
           \A c \in Conns : Doomed(c)' => Doomed(c) \/ c = client,
           \A c \in Conns : Held(c)' => Held(c)
    PROVE  SocketInv'
<1>1. KeptIsOpen'
  BY DEF SocketInv, KeptIsOpen, FreshIsNew, Kept, Fresh
<1>2. FreshIsNew' /\ BacklogUnheld'
  BY DEF SocketInv, FreshIsNew, BacklogUnheld
<1> QED
  BY <1>1, <1>2 DEF SocketInv

(* A thread closes a doomed socket.                                        *)
LEMMA CloseKeeps ==
    ASSUME CameraTypeOK, SocketInv,
           NEW s \in Conns \cup {NoSock}, s # NoSock => Doomed(s), conns' = Close(s),
           UNCHANGED client, \A c \in Conns : Fresh(c)' => Fresh(c),
           accepter'.at = "attach" => accepter.at = "attach" /\ accepter'.holds = accepter.holds,
           \A c \in Conns : Doomed(c)' => Doomed(c),
           \A c \in Conns : Held(c)' => Held(c)
    PROVE  SocketInv'
<1>0. \A c \in Conns : conns'[c].ours = IF c = s THEN "closed" ELSE conns[c].ours
  BY CloseStep DEF CameraTypeOK
<1>1. KeptIsOpen'
  BY <1>0 DEF SocketInv, KeptIsOpen, Kept
<1>2. FreshIsNew'
  BY DEF SocketInv, FreshIsNew
<1>3. BacklogUnheld'
  BY <1>0 DEF SocketInv, BacklogUnheld
<1> QED
  BY <1>1, <1>2, <1>3 DEF SocketInv

(* Nothing is taken out of the state, closed or opened.                    *)
LEMMA QuietKeeps ==
    ASSUME SocketInv, UNCHANGED client,
           \A c \in Conns : Fresh(c)' => Fresh(c),
           accepter'.at = "attach" => accepter.at = "attach" /\ accepter'.holds = accepter.holds,
           \A c \in Conns : Doomed(c)' => Doomed(c),
           \A c \in Conns : Held(c)' => Held(c),
           \A c \in Conns : /\ conns[c].ours = "open" => conns'[c].ours = "open"
                            /\ conns'[c].ours = "backlog" => conns[c].ours = "backlog"
    PROVE  SocketInv'
BY DEF SocketInv, KeptIsOpen, FreshIsNew, BacklogUnheld, Kept

(* The steps of the four sides.                                            *)
LEMMA AccepterKeeps == CameraTypeOK /\ SocketInv /\ AccepterStep => SocketInv'
<1> SUFFICES ASSUME CameraTypeOK, SocketInv, AccepterStep PROVE SocketInv'
  OBVIOUS
<1>0. UNCHANGED <<senders, stopper>>
  BY DEF AccepterStep, CameraAccept, AcceptEnds, AttachClient, CloseReplaced, StartRecvThread,
         AccepterBecomes
<1>1. ASSUME NEW c \in Conns, CameraAccept(c) PROVE SocketInv'
  <2>1. /\ accepter.at = "accept" /\ conns[c].ours = "backlog"
        /\ accepter' = [at |-> "attach", holds |-> c, old |-> NoSock]
        /\ UNCHANGED <<client, threads>>
    BY <1>1 DEF CameraAccept, AccepterBecomes
  <2>2. \A d \in Conns : conns'[d].ours = IF d = c THEN "open" ELSE conns[d].ours
    BY <1>1 DEF CameraAccept, CameraTypeOK, ConnType
  <2>3. ~Held(c)
    BY <2>1 DEF SocketInv, BacklogUnheld
  <2>4. c # client /\ ~Doomed(c)
    BY <2>3 DEF Held, Doomed
  <2>5. \A d \in Conns : Doomed(d)' => Doomed(d)
    BY <2>1, <1>0 DEF Doomed
  <2>6. KeptIsOpen'
    BY <2>1, <2>2, <2>4, <2>5 DEF SocketInv, KeptIsOpen, Kept, Fresh
  <2>7. FreshIsNew'
    BY <2>1, <2>4, SockIsNone DEF FreshIsNew
  <2>8. \A d \in Conns : Held(d)' => Held(d) \/ d = c
    BY <2>1, <1>0, SockIsNone DEF Held
  <2>9. BacklogUnheld'
    BY <2>2, <2>8 DEF SocketInv, BacklogUnheld
  <2> QED
    BY <2>6, <2>7, <2>9 DEF SocketInv
<1>2. CASE AcceptEnds
  <2>1. /\ accepter' = [at |-> "ended", holds |-> NoSock, old |-> NoSock]
        /\ UNCHANGED <<client, threads, conns>>
    BY <1>2 DEF AcceptEnds, AccepterBecomes
  <2>2. /\ \A c \in Conns : Fresh(c)' => Fresh(c)
        /\ \A c \in Conns : Doomed(c)' => Doomed(c)
        /\ \A c \in Conns : Held(c)' => Held(c)
    BY <2>1, <1>0, SockIsNone DEF Fresh, Doomed, Held
  <2> QED
    BY <2>1, <2>2, QuietKeeps
<1>3. CASE AttachClient
  <2>1. /\ accepter.at = "attach"
        /\ accepter' = [at |-> "close_old", holds |-> accepter.holds, old |-> client]
        /\ client' = accepter.holds /\ UNCHANGED <<threads, conns>>
    BY <1>3 DEF AttachClient, AccepterBecomes, CameraTypeOK
  <2>2. \A d \in Conns : Doomed(d)' => Doomed(d) \/ d = client
    BY <2>1, <1>0 DEF Doomed
  <2>3. client' # client /\ Fresh(client')
    BY <2>1 DEF SocketInv, FreshIsNew, Fresh
  <2>4. KeptIsOpen'
    BY <2>1, <2>2, <2>3 DEF SocketInv, KeptIsOpen, Kept, Fresh
  <2>5. FreshIsNew'
    BY <2>1 DEF FreshIsNew
  <2>6. \A d \in Conns : Held(d)' => Held(d)
    BY <2>1, <1>0, SockIsNone DEF Held
  <2>7. BacklogUnheld'
    BY <2>1, <2>6 DEF SocketInv, BacklogUnheld
  <2> QED
    BY <2>4, <2>5, <2>7 DEF SocketInv
<1>4. CASE CloseReplaced
  <2>1. /\ accepter.at = "close_old"
        /\ accepter' = [at |-> "start", holds |-> accepter.holds, old |-> NoSock]
        /\ conns' = Close(accepter.old) /\ UNCHANGED <<client, threads>>
    BY <1>4 DEF CloseReplaced, AccepterBecomes, CameraTypeOK
  <2>2. Doomed(accepter.old) /\ accepter.old \in Conns \cup {NoSock}
    BY <2>1 DEF Doomed, CameraTypeOK
  <2>3. /\ \A c \in Conns : Fresh(c)' => Fresh(c)
        /\ \A c \in Conns : Doomed(c)' => Doomed(c)
        /\ \A c \in Conns : Held(c)' => Held(c)
    BY <2>1, <1>0, SockIsNone DEF Fresh, Doomed, Held
  <2> QED
    BY <2>1, <2>2, <2>3, CloseKeeps
<1>5. CASE StartRecvThread
  <2>1. /\ accepter' = [at |-> "accept", holds |-> accepter.holds, old |-> accepter.old]
        /\ UNCHANGED <<client, conns>>
    BY <1>5 DEF StartRecvThread, AccepterBecomes, CameraTypeOK
  <2>2. \A t \in Threads : /\ threads'[t].holds = threads[t].holds
                           /\ threads'[t].at = "close" => threads[t].at = "close"
    BY <1>5 DEF StartRecvThread, CameraTypeOK
  <2>3. /\ \A c \in Conns : Fresh(c)' => Fresh(c)
        /\ \A c \in Conns : Doomed(c)' => Doomed(c)
        /\ \A c \in Conns : Held(c)' => Held(c)
    BY <2>1, <2>2, <1>0 DEF Fresh, Doomed, Held
  <2> QED
    BY <2>1, <2>3, QuietKeeps
<1> QED
  BY <1>1, <1>2, <1>3, <1>4, <1>5 DEF AccepterStep

LEMMA ReceiverKeeps ==
    ASSUME CameraTypeOK, SocketInv, NEW t \in Threads, ReceiverStep(t)
    PROVE  SocketInv'
<1>0. UNCHANGED <<accepter, senders, stopper>>
  BY DEF ReceiverStep, SnapshotClient, ReceiveData, CallbackDone, ReceiveFails,
         ReceiverDetaches, ReceiverCloses, ReceiverLeaves, ReceiverBecomes
(* Steps that neither detach nor close.                                    *)
<1>2. ASSUME NEW p, NEW q, NEW c, ReceiverBecomes(t, p, q, c), q # "close",
             c \in {client, threads[t].holds, NoSock}, UNCHANGED client,
             \A d \in Conns : conns'[d].ours = conns[d].ours
      PROVE  SocketInv'
  <2>0. \A u \in Threads : threads'[u] = IF u = t THEN [at |-> q, holds |-> c] ELSE threads[u]
    BY <1>2 DEF ReceiverBecomes, CameraTypeOK
  <2>1. \A d \in Conns : Doomed(d)' => Doomed(d)
    BY <1>0, <2>0, <1>2 DEF Doomed
  <2>2. \A d \in Conns : Held(d)' => Held(d)
    BY <1>0, <2>0, <1>2, SockIsNone DEF Held
  <2>3. \A d \in Conns : Fresh(d)' => Fresh(d)
    BY <1>0 DEF Fresh
  <2> QED
    BY <1>0, <1>2, <2>1, <2>2, <2>3, QuietKeeps
<1>3. CASE SnapshotClient(t)
  BY <1>2, <1>3 DEF SnapshotClient
<1>4. CASE ReceiveData(t)
  <2>1. \A d \in Conns : conns'[d].ours = conns[d].ours
    <3>1. threads[t].holds \in Conns \cup {NoSock}
      BY DEF CameraTypeOK
    <3> QED
      BY <1>4, <3>1, TakeStep DEF ReceiveData, CameraTypeOK
  <2> QED
    BY <1>2, <1>4, <2>1 DEF ReceiveData
<1>5. CASE CallbackDone(t) \/ ReceiveFails(t) \/ ReceiverLeaves(t)
  BY <1>2, <1>5 DEF CallbackDone, ReceiveFails, ReceiverLeaves
<1>6. CASE ReceiverDetaches(t)
  <2>1. ReceiverBecomes(t, "detach", "close", client) /\ client' = NoSock /\ UNCHANGED conns
    BY <1>6 DEF ReceiverDetaches, Detached
  <2>1a. \A u \in Threads : threads'[u] = IF u = t THEN [at |-> "close", holds |-> client]
                                         ELSE threads[u]
    BY <2>1 DEF ReceiverBecomes, CameraTypeOK
  <2>2. \A d \in Conns : Doomed(d)' => Doomed(d) \/ d = client
    BY <1>0, <2>1a, <2>1 DEF Doomed
  <2>3. \A d \in Conns : Held(d)' => Held(d)
    BY <1>0, <2>1a, <2>1, SockIsNone DEF Held
  <2> QED
    BY <1>0, <2>1, <2>2, <2>3, DetachKeeps
<1>7. CASE ReceiverCloses(t)
  <2>1. /\ ReceiverBecomes(t, "close", "leave", NoSock) /\ threads[t].at = "close"
        /\ conns' = Close(threads[t].holds) /\ UNCHANGED client
    BY <1>7 DEF ReceiverCloses, ReceiverBecomes
  <2>1a. \A u \in Threads : threads'[u] = IF u = t THEN [at |-> "leave", holds |-> NoSock]
                                         ELSE threads[u]
    BY <2>1 DEF ReceiverBecomes, CameraTypeOK
  <2>2. threads[t].holds \in Conns \cup {NoSock} /\ Doomed(threads[t].holds)
    BY <2>1 DEF Doomed, CameraTypeOK
  <2>3. /\ \A d \in Conns : Doomed(d)' => Doomed(d)
        /\ \A d \in Conns : Fresh(d)' => Fresh(d)
    BY <1>0, <2>1a, <2>1 DEF Doomed, Fresh
  <2>4. \A d \in Conns : Held(d)' => Held(d)
    BY <1>0, <2>1a, <2>1, SockIsNone DEF Held
  <2> QED
    BY <1>0, <2>1, <2>2, <2>3, <2>4, CloseKeeps
<1> QED
  BY <1>3, <1>4, <1>5, <1>6, <1>7 DEF ReceiverStep

LEMMA SenderKeeps ==
    ASSUME CameraTypeOK, SocketInv, NEW s \in Senders, SendSnapshot(s) \/ SendEnds(s)
    PROVE  SocketInv'
<1>0. UNCHANGED <<accepter, threads, stopper>>
  BY DEF SendSnapshot, SendEnds, SendDelivered, SendFails, SenderDetaches, SenderCloses,
         SenderBecomes
<1>2. CASE SendSnapshot(s) \/ SendDelivered(s) \/ SendFails(s)
  <2>1. PICK p, q, c : /\ SenderBecomes(s, p, q, c) /\ q # "close"
                       /\ c \in {client, NoSock} /\ UNCHANGED <<client, conns>>
    BY <1>2 DEF SendSnapshot, SendDelivered, SendFails
  <2>1a. \A u \in Senders : senders'[u] = IF u = s THEN [at |-> q, holds |-> c] ELSE senders[u]
    BY <2>1 DEF SenderBecomes, CameraTypeOK
  <2>2. \A d \in Conns : Doomed(d)' => Doomed(d)
    BY <1>0, <2>1a, <2>1 DEF Doomed
  <2>3. \A d \in Conns : Held(d)' => Held(d)
    BY <1>0, <2>1a, <2>1, SockIsNone DEF Held
  <2>4. \A d \in Conns : Fresh(d)' => Fresh(d)
    BY <1>0 DEF Fresh
  <2> QED
    BY <1>0, <2>1, <2>2, <2>3, <2>4, QuietKeeps
<1>3. CASE SenderDetaches(s)
  <2>1. SenderBecomes(s, "detach", "close", client) /\ client' = NoSock /\ UNCHANGED conns
    BY <1>3 DEF SenderDetaches, Detached
  <2>1a. \A u \in Senders : senders'[u] = IF u = s THEN [at |-> "close", holds |-> client]
                                         ELSE senders[u]
    BY <2>1 DEF SenderBecomes, CameraTypeOK
  <2>2. \A d \in Conns : Doomed(d)' => Doomed(d) \/ d = client
    BY <1>0, <2>1a, <2>1 DEF Doomed
  <2>3. \A d \in Conns : Held(d)' => Held(d)
    BY <1>0, <2>1a, <2>1, SockIsNone DEF Held
  <2> QED
    BY <1>0, <2>1, <2>2, <2>3, DetachKeeps
<1>4. CASE SenderCloses(s)
  <2>1. /\ SenderBecomes(s, "close", "idle", NoSock) /\ senders[s].at = "close"
        /\ conns' = Close(senders[s].holds) /\ UNCHANGED client
    BY <1>4 DEF SenderCloses, SenderBecomes
  <2>1a. \A u \in Senders : senders'[u] = IF u = s THEN [at |-> "idle", holds |-> NoSock]
                                         ELSE senders[u]
    BY <2>1 DEF SenderBecomes, CameraTypeOK
  <2>2. senders[s].holds \in Conns \cup {NoSock} /\ Doomed(senders[s].holds)
    BY <2>1 DEF Doomed, CameraTypeOK
  <2>3. /\ \A d \in Conns : Doomed(d)' => Doomed(d)
        /\ \A d \in Conns : Fresh(d)' => Fresh(d)
    BY <1>0, <2>1a, <2>1 DEF Doomed, Fresh
  <2>4. \A d \in Conns : Held(d)' => Held(d)
    BY <1>0, <2>1a, <2>1, SockIsNone DEF Held
  <2> QED
    BY <1>0, <2>1, <2>2, <2>3, <2>4, CloseKeeps
<1> QED
  BY <1>2, <1>3, <1>4 DEF SendEnds

LEMMA StopperKeeps ==
    ASSUME CameraTypeOK, SocketInv, StopBegins \/ StopDetaches \/ StopCloses \/ StopListener
    PROVE  SocketInv'
<1>0. UNCHANGED <<accepter, threads, senders>>
  BY DEF StopBegins, StopDetaches, StopCloses, StopListener, StopperBecomes
<1>1. CASE StopDetaches
  <2>1. /\ stopper' = [at |-> "close", holds |-> client] /\ client' = NoSock
        /\ UNCHANGED conns
    BY <1>1 DEF StopDetaches, StopperBecomes, Detached
  <2>2. \A d \in Conns : Doomed(d)' => Doomed(d) \/ d = client
    BY <1>0, <2>1 DEF Doomed
  <2>3. \A d \in Conns : Held(d)' => Held(d)
    BY <1>0, <2>1, SockIsNone DEF Held
  <2> QED
    BY <1>0, <2>1, <2>2, <2>3, DetachKeeps
<1>2. CASE StopBegins \/ StopCloses \/ StopListener
  <2>1. stopper'.at # "close" /\ stopper'.holds = NoSock /\ UNCHANGED client
    BY <1>2 DEF StopBegins, StopCloses, StopListener, StopperBecomes
  <2>2. /\ \A d \in Conns : Doomed(d)' => Doomed(d)
        /\ \A d \in Conns : Fresh(d)' => Fresh(d)
    BY <1>0, <2>1 DEF Doomed, Fresh
  <2>3. \A d \in Conns : Held(d)' => Held(d)
    BY <1>0, <2>1, SockIsNone DEF Held
  <2>4. CASE StopCloses
    <3>1. /\ stopper.at = "close" /\ conns' = Close(stopper.holds)
          /\ stopper.holds \in Conns \cup {NoSock}
      BY <2>4 DEF StopCloses, StopperBecomes, CameraTypeOK
    <3>2. Doomed(stopper.holds)
      BY <3>1 DEF Doomed
    <3> QED
      BY <1>0, <2>1, <2>2, <2>3, <3>1, <3>2, CloseKeeps
  <2>5. CASE StopBegins \/ StopListener
    <3>1. \A d \in Conns : /\ conns[d].ours = "open" => conns'[d].ours = "open"
                           /\ conns'[d].ours = "backlog" => conns[d].ours = "backlog"
      BY <2>5 DEF StopBegins, StopListener, CloseListener, CameraTypeOK, ConnType
    <3> QED
      BY <1>0, <2>1, <2>2, <2>3, <3>1, QuietKeeps
  <2> QED
    BY <1>2, <2>4, <2>5
<1> QED
  BY <1>1, <1>2

(* The camera connects only where nothing of ours refers to, and otherwise *)
(* changes its own end.                                                    *)
LEMMA CameraKeeps ==
    ASSUME CameraTypeOK, SocketInv, UNCHANGED server, NEW c \in Conns,
           \/ Free(c) /\ PeerConnects(c)
           \/ PeerCloses(c) \/ PeerVanishes(c) \/ LossNoticed(c)
           \/ \E b \in Batches : PeerSends(c, b)
    PROVE  SocketInv'
<1>1. /\ \A d \in Conns : Doomed(d)' <=> Doomed(d)
      /\ \A d \in Conns : Fresh(d)' <=> Fresh(d)
      /\ \A d \in Conns : Held(d)' <=> Held(d)
      /\ UNCHANGED <<client, accepter>>
  BY DEF server, Doomed, Fresh, Held
<1>2. CASE Free(c) /\ PeerConnects(c)
  <2>1. \A d \in Conns : conns'[d].ours = IF d = c THEN "backlog" ELSE conns[d].ours
    BY <1>2, ConnectStep DEF CameraTypeOK
  <2>2. ~Held(c)
    BY <1>2 DEF Free
  <2>3. ~Kept(c)
    BY <2>2 DEF Held, Kept, Fresh
  <2>4. KeptIsOpen'
    BY <1>1, <2>1, <2>3 DEF SocketInv, KeptIsOpen, Kept
  <2>5. FreshIsNew' /\ BacklogUnheld'
    BY <1>1, <2>1, <2>2 DEF SocketInv, FreshIsNew, BacklogUnheld
  <2> QED
    BY <2>4, <2>5 DEF SocketInv
<1>3. CASE \/ PeerCloses(c) \/ PeerVanishes(c) \/ LossNoticed(c)
           \/ \E b \in Batches : PeerSends(c, b)
  <2>1. \A d \in Conns : conns'[d].ours = conns[d].ours
    BY <1>3, PeerStep DEF CameraTypeOK
  <2> QED
    BY <1>1, <2>1, QuietKeeps
<1> QED
  BY <1>2, <1>3

LEMMA SocketsKept == CameraSpec => []SocketInv
<1>1. CameraTypeOK /\ SocketInv /\ [CameraNext]_camVars => SocketInv'
  <2> SUFFICES ASSUME CameraTypeOK, SocketInv, [CameraNext]_camVars PROVE SocketInv'
    OBVIOUS
  <2>1. CASE UNCHANGED camVars
    BY <2>1 DEF camVars, SocketInv, KeptIsOpen, FreshIsNew, BacklogUnheld, Kept, Fresh, Doomed, Held
  <2>2. CASE AccepterStep
    BY <2>2, AccepterKeeps
  <2>3. ASSUME NEW t \in Threads, ReceiverStep(t) PROVE SocketInv'
    BY <2>3, ReceiverKeeps
  <2>4. ASSUME NEW s \in Senders, SendSnapshot(s) \/ SendEnds(s) PROVE SocketInv'
    BY <2>4, SenderKeeps
  <2>5. CASE StopBegins \/ StopDetaches \/ StopCloses \/ StopListener
    BY <2>5, StopperKeeps
  <2>6. ASSUME NEW c \in Conns, CameraConnects(c) \/ CameraGivesUp(c)
                                \/ CameraLossNoticed(c) \/ CameraSends(c)
        PROVE  SocketInv'
    BY <2>6, CameraKeeps DEF CameraConnects, CameraGivesUp, CameraLossNoticed, CameraSends
  <2>7. CASE CameraLeaves
    BY <2>7, CameraKeeps DEF CameraLeaves
  <2> QED
    BY <2>1, <2>2, <2>3, <2>4, <2>5, <2>6, <2>7 DEF CameraNext
<1> QED
  BY <1>1, SocketInit, LinkTypeCorrect, PTL DEF CameraSpec

(* The socket that the lock shows as the connected client was never closed *)
(* by us, however the accept thread, the old receiver, failing senders and *)
(* stop() interleave.                                                      *)
THEOREM ClientIsOpen == CameraSpec => []ConnectedIsOpen
<1>1. CameraTypeOK /\ SocketInv => ConnectedIsOpen
  BY DEF SocketInv, KeptIsOpen, Kept, ConnectedIsOpen, CameraTypeOK
<1> QED
  BY <1>1, SocketsKept, LinkTypeCorrect, PTL

-----------------------------------------------------------------------------
(* The frames: numbers and the strings of the parsers.                     *)

LEMMA SmallestExists ==
    ASSUME NEW T, T \subseteq Nat, T # {}
    PROVE  \E x \in T : \A y \in T : x <= y
<1> DEFINE R == OpToRel(<, Nat)
<1>1. IsWellFoundedOn(R, Nat)
  BY NatLessThanWellFounded
<1>2. PICK x \in T : \A y \in T : ~(<<y, x>> \in R)
  <2> HIDE DEF R
  <2> QED
    BY <1>1, WFMin
<1>3. \A y \in T : ~(y < x)
  BY <1>2 DEF OpToRel
<1> QED
  BY <1>3

LEMMA LargestExists ==
    ASSUME NEW n \in Nat, NEW T, T \subseteq 1 .. n, T # {}
    PROVE  \E x \in T : \A y \in T : y <= x
<1> DEFINE U == {n - y : y \in T}
<1>1. U \subseteq Nat /\ U # {}
  <2>1. ASSUME NEW y \in T PROVE n - y \in Nat
    <3>1. y \in 1 .. n
      OBVIOUS
    <3> QED
      BY <3>1
  <2>2. PICK y : y \in T
    OBVIOUS
  <2> QED
    BY <2>1, <2>2
<1> HIDE DEF U
<1>2. PICK u \in U : \A v \in U : u <= v
  BY <1>1, SmallestExists
<1>3. PICK x \in T : u = n - x
  BY DEF U
<1>4. ASSUME NEW y \in T PROVE y <= x
  <2>1. n - y \in U
    BY DEF U
  <2>2. n - x <= n - y
    BY <1>2, <1>3, <2>1
  <2>3. x \in Int /\ y \in Int
    OBVIOUS
  <2> QED
    BY <2>2, <2>3
<1> QED
  BY <1>4

LEMMA MinIs ==
    ASSUME NEW T, T \subseteq Int, NEW x \in T, \A y \in T : x <= y
    PROVE  Min(T) = x
<1> DEFINE least == Min(T)
<1>1. least \in T /\ \A y \in T : least <= y
  BY DEF Min
<1> HIDE DEF least
<1>2. least \in Int /\ x \in Int /\ x <= least /\ least <= x
  BY <1>1
<1>3. least = x
  BY <1>2
<1> QED
  BY <1>3 DEF least

LEMMA MaxIs ==
    ASSUME NEW T, T \subseteq Int, NEW x \in T, \A y \in T : y <= x
    PROVE  Max(T) = x
<1> DEFINE most == Max(T)
<1>1. most \in T /\ \A y \in T : y <= most
  BY DEF Max
<1> HIDE DEF most
<1>2. most \in Int /\ x \in Int /\ x <= most /\ most <= x
  BY <1>1
<1>3. most = x
  BY <1>2
<1> QED
  BY <1>3 DEF most

LEMMA FourOf ==
    ASSUME NEW S, NEW q \in Seq(S), Len(q) = 4, NEW w1, NEW w2, NEW w3, NEW w4
    PROVE  q = <<w1, w2, w3, w4>> <=> q[1] = w1 /\ q[2] = w2 /\ q[3] = w3 /\ q[4] = w4
<1>1. ASSUME q[1] = w1 /\ q[2] = w2 /\ q[3] = w3 /\ q[4] = w4 PROVE q = <<w1, w2, w3, w4>>
  <2>1. w1 \in S /\ w2 \in S /\ w3 \in S /\ w4 \in S
    BY <1>1
  <2>2. <<w1, w2, w3, w4>> \in Seq(S) /\ Len(<<w1, w2, w3, w4>>) = 4
    BY <2>1
  <2>3. \A i \in 1 .. 4 : q[i] = <<w1, w2, w3, w4>>[i]
    BY <1>1
  <2> QED
    BY <2>2, <2>3
<1> QED
  BY <1>1

LEMMA TwoOf ==
    ASSUME NEW S, NEW q \in Seq(S), Len(q) = 2, NEW w1, NEW w2
    PROVE  q = <<w1, w2>> <=> q[1] = w1 /\ q[2] = w2
<1>1. ASSUME q[1] = w1 /\ q[2] = w2 PROVE q = <<w1, w2>>
  <2>1. w1 \in S /\ w2 \in S
    BY <1>1
  <2>2. <<w1, w2>> \in Seq(S) /\ Len(<<w1, w2>>) = 2
    BY <2>1
  <2>3. \A i \in 1 .. 2 : q[i] = <<w1, w2>>[i]
    BY <1>1
  <2> QED
    BY <2>2, <2>3
<1> QED
  BY <1>1

(* The positions of a word are where its characters stand.                 *)
LEMMA PositionsOf4 ==
    ASSUME NEW S, NEW b \in Seq(S), NEW w1, NEW w2, NEW w3, NEW w4, NEW i \in Int
    PROVE  i \in Positions(b, <<w1, w2, w3, w4>>) <=>
             /\ i \in 1 .. Len(b) - 3
             /\ b[i] = w1 /\ b[i + 1] = w2 /\ b[i + 2] = w3 /\ b[i + 3] = w4
<1>1. ASSUME i \in 1 .. Len(b) - 3
      PROVE  SubSeq(b, i, i + 3) = <<w1, w2, w3, w4>> <=>
             b[i] = w1 /\ b[i + 1] = w2 /\ b[i + 2] = w3 /\ b[i + 3] = w4
  <2> DEFINE q == SubSeq(b, i, i + 3)
  <2>1. /\ q \in Seq(S) /\ Len(q) = 4
        /\ q[1] = b[i] /\ q[2] = b[i + 1] /\ q[3] = b[i + 2] /\ q[4] = b[i + 3]
    BY <1>1
  <2> HIDE DEF q
  <2>2. q = <<w1, w2, w3, w4>> <=> q[1] = w1 /\ q[2] = w2 /\ q[3] = w3 /\ q[4] = w4
    BY <2>1, FourOf
  <2> QED
    BY <2>1, <2>2 DEF q
<1>2. Len(<<w1, w2, w3, w4>>) = 4
  OBVIOUS
<1> QED
  BY <1>1, <1>2 DEF Positions

LEMMA OneOf ==
    ASSUME NEW S, NEW q \in Seq(S), Len(q) = 1, NEW w
    PROVE  q = <<w>> <=> q[1] = w
<1>1. ASSUME q[1] = w PROVE q = <<w>>
  <2>1. <<w>> \in Seq(S) /\ Len(<<w>>) = 1 /\ <<w>>[1] = w
    BY <1>1
  <2> QED
    BY <1>1, <2>1
<1> QED
  BY <1>1

LEMMA PositionsOf2 ==
    ASSUME NEW S, NEW b \in Seq(S), NEW w1, NEW w2, NEW i \in Int
    PROVE  i \in Positions(b, <<w1, w2>>) <=>
             i \in 1 .. Len(b) - 1 /\ b[i] = w1 /\ b[i + 1] = w2
<1>1. ASSUME i \in 1 .. Len(b) - 1
      PROVE  SubSeq(b, i, i + 1) = <<w1, w2>> <=> b[i] = w1 /\ b[i + 1] = w2
  <2> DEFINE q == SubSeq(b, i, i + 1)
  <2>1. /\ q \in Seq(S) /\ Len(q) = 2
        /\ q[1] = b[i] /\ q[2] = b[i + 1]
    <3>1. i \in 1 .. Len(b) + 1 /\ i + 1 \in i - 1 .. Len(b) /\ i + 1 - i + 1 = 2
      BY <1>1
    <3> QED
      BY <3>1
  <2> HIDE DEF q
  <2>2. q = <<w1, w2>> <=> q[1] = w1 /\ q[2] = w2
    BY <2>1, TwoOf
  <2> QED
    BY <2>1, <2>2 DEF q
<1>2. Len(<<w1, w2>>) = 2
  OBVIOUS
<1> QED
  BY <1>1, <1>2 DEF Positions

LEMMA PositionsOf1 ==
    ASSUME NEW S, NEW b \in Seq(S), NEW w, NEW i \in Int
    PROVE  i \in Positions(b, <<w>>) <=> i \in 1 .. Len(b) /\ b[i] = w
<1>1. ASSUME i \in 1 .. Len(b)
      PROVE  SubSeq(b, i, i) = <<w>> <=> b[i] = w
  <2> DEFINE q == SubSeq(b, i, i)
  <2>1. q \in Seq(S) /\ Len(q) = 1 /\ q[1] = b[i]
    BY <1>1
  <2> HIDE DEF q
  <2>2. q = <<w>> <=> q[1] = w
    BY <2>1, OneOf
  <2> QED
    BY <2>1, <2>2 DEF q
<1>2. Len(<<w>>) = 1
  OBVIOUS
<1> QED
  BY <1>1, <1>2 DEF Positions

-----------------------------------------------------------------------------
(* What the camera has sent and the parser has not taken: cells of a byte  *)
(* and, behind the last byte of a message, its event.                      *)
Events == {m.event[1] : m \in {x \in Messages : x.event # <<>>}}
              \cup {Parse3d(f) : f \in Seq(STRING)}
Cells == [byte : STRING, event : {<<>>} \cup {<<e>> : e \in Events}]

(* The bytes from position i to position j.                                *)
Text(s, i, j) == [x \in 1 .. j - i + 1 |-> s[i + x - 1].byte]

NoEvents(s, i, j) == \A x \in i .. j : s[x].event = <<>>

(* The brackets of two segments that meet at k, as the pattern wants them. *)
Match(s, st, k, e) ==
    /\ st < k /\ k + 3 < e - 1
    /\ s[st].byte = "("
    /\ s[k].byte = ")" /\ s[k + 1].byte = "E" /\ s[k + 2].byte = "A" /\ s[k + 3].byte = "("
    /\ s[e - 1].byte = ")" /\ s[e].byte = "E"
    /\ \A i \in st .. e : s[i].byte \in {"(", ")"} => i \in {st, k, k + 3, e - 1}

(* A 3D frame from st to e: it carries its event on its last byte.         *)
FrameAt(s, st, k, e) ==
    /\ Match(s, st, k, e)
    /\ \A i \in st .. e : s[i].event # <<>> <=> i = e
    /\ s[e].event = <<Parse3d(Text(s, st, e))>>

(* A 3D message that is on the way as the camera sent it.                  *)
Whole(s, st, k, e) ==
    /\ FrameAt(s, st, k, e)
    /\ \A i \in st .. e : /\ s[i].byte \notin {"nl", "Z", "H"}
                          /\ s[i].byte = "A" => i = k + 2

(* The events are where a parser that goes from left to right finds a      *)
(* frame.                                                                  *)
Stream3d(s) ==
    /\ \A e \in 1 .. Len(s) :
          s[e].event # <<>> => \E st, k \in 1 .. Len(s) : FrameAt(s, st, k, e)
    /\ \A st, k, e \in 1 .. Len(s) :
          Match(s, st, k, e) /\ NoEvents(s, st, e - 1) => s[e].event # <<>>

LEMMA TextOf ==
    ASSUME NEW s \in Seq(Cells), NEW i \in Nat \ {0}, NEW j \in Nat, i <= j + 1, j <= Len(s)
    PROVE  /\ Text(s, i, j) \in Seq(STRING) /\ Len(Text(s, i, j)) = j - i + 1
           /\ \A x \in 1 .. j - i + 1 : Text(s, i, j)[x] = s[i + x - 1].byte
<1>1. ASSUME NEW x \in 1 .. j - i + 1 PROVE s[i + x - 1].byte \in STRING
  <2>1. i + x - 1 \in 1 .. Len(s)
    OBVIOUS
  <2>2. s[i + x - 1] \in Cells
    BY <2>1
  <2> QED
    BY <2>2 DEF Cells
<1>2. j - i + 1 \in Nat
  OBVIOUS
<1> QED
  BY <1>1, <1>2 DEF Text

(* The first n bytes.                                                      *)
LEMMA TextUpto ==
    ASSUME NEW s \in Seq(Cells), NEW n \in Nat, n <= Len(s)
    PROVE  /\ Text(s, 1, n) \in Seq(STRING) /\ Len(Text(s, 1, n)) = n
           /\ \A x \in 1 .. n : Text(s, 1, n)[x] = s[x].byte
<1>1. \A x \in 1 .. n : 1 + x - 1 = x
  OBVIOUS
<1>2. n - 1 + 1 = n
  OBVIOUS
<1>3. /\ Text(s, 1, n) \in Seq(STRING) /\ Len(Text(s, 1, n)) = n - 1 + 1
      /\ \A x \in 1 .. n - 1 + 1 : Text(s, 1, n)[x] = s[1 + x - 1].byte
  BY TextOf
<1> QED
  BY <1>1, <1>2, <1>3

(* What is cut out of a text, and what is behind it.                       *)
LEMMA TextCut ==
    ASSUME NEW s \in Seq(Cells), NEW n \in Nat, n <= Len(s),
           NEW i \in Nat \ {0}, NEW j \in Nat, i <= j + 1, j <= n
    PROVE  SubSeq(Text(s, 1, n), i, j) = Text(s, i, j)
<1> DEFINE q == Text(s, 1, n)
<1>1. q \in Seq(STRING) /\ Len(q) = n /\ \A x \in 1 .. n : q[x] = s[x].byte
  BY TextUpto
<1> HIDE DEF q
<1>2. SubSeq(q, i, j) = [x \in 1 .. j - i + 1 |-> q[i + x - 1]]
  BY <1>1
<1>3. \A x \in 1 .. j - i + 1 : q[i + x - 1] = s[i + x - 1].byte
  BY <1>1
<1>4. SubSeq(q, i, j) = Text(s, i, j)
  BY <1>2, <1>3 DEF Text
<1> QED
  BY <1>4 DEF q

(* Where Pop3d looks at a place there are the brackets of a frame.         *)
LEMMA FrameMatch ==
    ASSUME NEW s \in Seq(Cells), NEW n \in Nat, n <= Len(s),
           NEW k \in Frame3dAt(Text(s, 1, n))
    PROVE  \E st, e \in 1 .. n : Match(s, st, k, e) /\ k \in 1 .. n
<1> DEFINE buf == Text(s, 1, n)
<1>1. buf \in Seq(STRING) /\ Len(buf) = n /\ \A x \in 1 .. n : buf[x] = s[x].byte
  BY TextUpto
<1> HIDE DEF buf
<1>2. /\ k \in 1 .. n - 3 /\ buf[k] = ")" /\ buf[k + 1] = "E"
      /\ buf[k + 2] = "A" /\ buf[k + 3] = "("
  <2>1. k \in Int /\ k \in Positions(buf, <<")", "E", "A", "(">>)
    BY <1>1 DEF Frame3dAt, Positions, buf
  <2> QED
    BY <1>1, <2>1, PositionsOf4
<1>3. PICK st \in 0 .. n : /\ st = Opens(buf, k) /\ st < k
                           /\ \A y \in Parens(buf) : y < k => y <= st
                           /\ st # 0 => st \in Parens(buf)
  <2> DEFINE T == {i \in Parens(buf) : i < k}
  <2>1. T \subseteq 1 .. n
    BY <1>1 DEF Parens
  <2>2. CASE T = {}
    <3>1. Max(T \cup {0}) = 0
      <4>1. T \cup {0} \subseteq Int /\ 0 \in T \cup {0} /\ \A y \in T \cup {0} : y <= 0
        BY <2>2
      <4> HIDE DEF T
      <4> QED
        BY <4>1, MaxIs
    <3>2. Opens(buf, k) = 0
      BY <3>1 DEF Opens
    <3> QED
      BY <1>2, <2>2, <3>2
  <2>3. CASE T # {}
    <3>1. PICK x \in T : \A y \in T : y <= x
      <4> HIDE DEF T
      <4> QED
        BY <2>1, <2>3, LargestExists
    <3>2. T \cup {0} \subseteq Int /\ x \in T \cup {0} /\ \A y \in T \cup {0} : y <= x
      BY <2>1, <3>1
    <3>3. Max(T \cup {0}) = x
      <4> HIDE DEF T
      <4> QED
        BY <3>2, MaxIs
    <3>4. Opens(buf, k) = x
      BY <3>3 DEF Opens
    <3> QED
      BY <2>1, <3>1, <3>4
  <2> QED
    BY <2>2, <2>3
<1>4. PICK close \in 1 .. n : /\ close = Closes(buf, k) /\ k + 3 < close
                              /\ \A y \in Parens(buf) : y > k + 3 => close <= y
                              /\ close < n => close \in Parens(buf)
  <2> DEFINE T == {i \in Parens(buf) : i > k + 3} \cup {Len(buf)}
  <2>0. Closes(buf, k) < n
    BY <1>1 DEF Frame3dAt, buf
  <2>1. T \subseteq Nat /\ T # {} /\ T \subseteq 1 .. n
    BY <1>1, <1>2 DEF Parens
  <2>2. PICK x \in T : \A y \in T : x <= y
    <3> HIDE DEF T
    <3> QED
      BY <2>1, SmallestExists
  <2>3. Min(T) = x
    <3>1. T \subseteq Int
      BY <2>1
    <3> HIDE DEF T
    <3> QED
      BY <2>2, <3>1, MinIs
  <2>4. Closes(buf, k) = x
    BY <2>3 DEF Closes
  <2>5. x \in {i \in Parens(buf) : i > k + 3}
    BY <1>1, <2>0, <2>4
  <2> QED
    BY <2>1, <2>2, <2>4, <2>5
<1>5. st > 0 /\ buf[st] = "(" /\ close < n /\ SubSeq(buf, close, close + 1) = <<")", "E">>
  BY <1>1, <1>3, <1>4 DEF Frame3dAt, buf
<1>6. buf[close] = ")" /\ buf[close + 1] = "E"
  <2>1. close \in Positions(buf, <<")", "E">>)
    <3>1. close + 2 - 1 = close + 1 /\ Len(<<")", "E">>) = 2 /\ close \in 1 .. Len(buf) - 2 + 1
      BY <1>1, <1>5
    <3> QED
      BY <1>5, <3>1 DEF Positions
  <2>2. close \in Int
    OBVIOUS
  <2> QED
    BY <1>1, <2>1, <2>2, PositionsOf2
<1>7. PICK e \in 1 .. n : e = close + 1
  <2>1. close + 1 \in 1 .. n
    BY <1>5
  <2> QED
    BY <2>1
<1>8. ASSUME NEW i \in st .. e, s[i].byte \in {"(", ")"} PROVE i \in {st, k, k + 3, e - 1}
  <2>1. i \in 1 .. n /\ i \in Parens(buf) /\ buf[i] \in {"(", ")"}
    BY <1>1, <1>5, <1>7, <1>8 DEF Parens
  <2>2. i # e
    BY <1>6, <1>7, <2>1
  <2>3. i < k => i = st
    BY <1>3, <2>1
  <2>4. i > k + 3 => i = close
    BY <1>4, <1>7, <2>1, <2>2
  <2>5. i # k + 1 /\ i # k + 2
    BY <1>2, <2>1
  <2>6. i < k \/ i = k \/ i = k + 3 \/ i > k + 3
    BY <1>2, <2>1, <2>5
  <2> QED
    BY <1>7, <2>3, <2>4, <2>6
<1>9. /\ s[st].byte = "(" /\ s[e - 1].byte = ")" /\ s[e].byte = "E"
      /\ s[k].byte = ")" /\ s[k + 1].byte = "E" /\ s[k + 2].byte = "A" /\ s[k + 3].byte = "("
  <2>1. st \in 1 .. n /\ e - 1 \in 1 .. n /\ e - 1 = close
        /\ k \in 1 .. n /\ k + 1 \in 1 .. n /\ k + 2 \in 1 .. n /\ k + 3 \in 1 .. n
    BY <1>2, <1>5, <1>7
  <2> QED
    BY <1>1, <1>2, <1>5, <1>6, <1>7, <2>1
<1>10. Match(s, st, k, e)
  <2>1. st < k /\ k + 3 < e - 1
    BY <1>3, <1>4, <1>7
  <2> QED
    BY <1>8, <1>9, <2>1 DEF Match
<1> QED
  BY <1>2, <1>5, <1>10

-----------------------------------------------------------------------------
(* The first event: its message is the frame that is taken.                *)
LEMMA Pop3dFrame ==
    ASSUME NEW s \in Seq(Cells), Stream3d(s), NEW n \in Nat, n <= Len(s),
           NEW e \in Nat \ {0}, e <= n, s[e].event # <<>>, NoEvents(s, 1, e - 1)
    PROVE  \E f : /\ Pop3d(Text(s, 1, n)) =
                        [found |-> TRUE, frame |-> f, rest |-> Text(s, e + 1, n)]
                 /\ s[e].event = <<Parse3d(f)>>
<1> DEFINE buf == Text(s, 1, n)
<1>1. buf \in Seq(STRING) /\ Len(buf) = n /\ \A x \in 1 .. n : buf[x] = s[x].byte
  BY TextUpto
<1>2. PICK st, k \in 1 .. Len(s) : FrameAt(s, st, k, e)
  <2>1. e \in 1 .. Len(s)
    OBVIOUS
  <2> QED
    BY <2>1 DEF Stream3d
<1>t. SubSeq(buf, st, e) = Text(s, st, e) /\ SubSeq(buf, e + 1, n) = Text(s, e + 1, n)
  <2>1. st \in Nat \ {0} /\ st <= e + 1 /\ e + 1 \in Nat \ {0} /\ e + 1 <= n + 1
    BY <1>2 DEF FrameAt, Match
  <2>2. SubSeq(Text(s, 1, n), st, e) = Text(s, st, e)
    BY <2>1, TextCut
  <2>3. SubSeq(Text(s, 1, n), e + 1, n) = Text(s, e + 1, n)
    <3> SUFFICES ASSUME NEW i \in Nat \ {0}, i = e + 1
                 PROVE  SubSeq(Text(s, 1, n), i, n) = Text(s, i, n)
      BY <2>1
    <3>1. i <= n + 1 /\ n <= n
      BY <2>1
    <3> QED
      BY <3>1, TextCut
  <2> QED
    BY <2>2, <2>3
<1> HIDE DEF buf
<1>3. /\ st \in Nat \ {0} /\ k \in Nat /\ st < k /\ k + 3 < e - 1
      /\ buf[st] = "(" /\ buf[k] = ")" /\ buf[k + 1] = "E" /\ buf[k + 2] = "A"
      /\ buf[k + 3] = "(" /\ buf[e - 1] = ")" /\ buf[e] = "E"
  BY <1>1, <1>2 DEF FrameAt, Match
<1>4. \A x \in st .. e : x \in Parens(buf) <=> x \in {st, k, k + 3, e - 1}
  <2> SUFFICES ASSUME NEW x \in st .. e
               PROVE  x \in Parens(buf) <=> x \in {st, k, k + 3, e - 1}
    OBVIOUS
  <2>1. x \in 1 .. Len(buf) /\ buf[x] = s[x].byte
    BY <1>1, <1>3
  <2>2. buf[x] \in {"(", ")"} => x \in {st, k, k + 3, e - 1}
    BY <1>2, <2>1 DEF FrameAt, Match
  <2>3. x \in {st, k, k + 3, e - 1} => buf[x] \in {"(", ")"}
    BY <1>3
  <2> QED
    BY <2>1, <2>2, <2>3 DEF Parens
<1>5. Parens(buf) \subseteq Nat
  BY <1>1 DEF Parens
<1>6. Opens(buf, k) = st
  <2> DEFINE T == {i \in Parens(buf) : i < k} \cup {0}
  <2>1. T \subseteq Int /\ st \in T
    BY <1>3, <1>4, <1>5
  <2>2. ASSUME NEW y \in T PROVE y <= st
    BY <1>3, <1>4, <1>5
  <2> HIDE DEF T
  <2>3. Max(T) = st
    BY <2>1, <2>2, MaxIs
  <2> QED
    BY <2>3 DEF Opens, T
<1>7. Closes(buf, k) = e - 1
  <2> DEFINE T == {i \in Parens(buf) : i > k + 3} \cup {Len(buf)}
  <2>1. T \subseteq Int /\ e - 1 \in T
    BY <1>1, <1>3, <1>4, <1>5
  <2>2. ASSUME NEW y \in T PROVE e - 1 <= y
    <3>1. CASE y = Len(buf)
      BY <1>1, <3>1
    <3>2. CASE y \in Parens(buf) /\ y > k + 3 /\ y < e - 1
      <4>1. y \in st .. e /\ y \notin {st, k, k + 3, e - 1}
        BY <1>3, <1>5, <3>2
      <4> QED
        BY <1>4, <3>2, <4>1
    <3>3. y \in Nat
      BY <1>1, <1>5
    <3> QED
      BY <3>1, <3>2, <3>3
  <2> HIDE DEF T
  <2>3. Min(T) = e - 1
    BY <2>1, <2>2, MinIs
  <2> QED
    BY <2>3 DEF Closes, T
<1>8. k \in Frame3dAt(buf)
  <2>1. k \in Positions(buf, <<")", "E", "A", "(">>)
    <3>1. k \in Int /\ k \in 1 .. Len(buf) - 3
      BY <1>1, <1>3
    <3> QED
      BY <1>1, <1>3, <3>1, PositionsOf4
  <2>2. SubSeq(buf, e - 1, e - 1 + 1) = <<")", "E">>
    <3>1. e - 1 \in Positions(buf, <<")", "E">>)
      <4>1. PICK j \in Int : j = e - 1
        OBVIOUS
      <4>2. j \in 1 .. Len(buf) - 1 /\ j + 1 = e
        BY <1>1, <1>3, <4>1
      <4>3. buf[j] = ")" /\ buf[j + 1] = "E"
        BY <1>3, <4>1, <4>2
      <4>4. j \in Positions(buf, <<")", "E">>)
        BY <1>1, <4>2, <4>3, PositionsOf2
      <4> QED
        BY <4>1, <4>4
    <3>2. Len(<<")", "E">>) = 2 /\ e - 1 + 2 - 1 = e /\ e - 1 + 1 = e
      BY <1>3
    <3> QED
      BY <3>1, <3>2 DEF Positions
  <2> QED
    BY <1>1, <1>3, <1>6, <1>7, <2>1, <2>2 DEF Frame3dAt
<1>9. ASSUME NEW j \in Frame3dAt(buf) PROVE k <= j
  <2>1. PICK st2, e2 \in 1 .. n : Match(s, st2, j, e2) /\ j \in 1 .. n
    BY FrameMatch DEF buf
  <2> SUFFICES ASSUME j < k PROVE FALSE
    BY <1>3, <2>1
  <2>2. e <= e2
    <3> SUFFICES ASSUME e2 < e PROVE FALSE
      BY <2>1
    <3>1. NoEvents(s, st2, e2 - 1) /\ e2 \in 1 .. Len(s) /\ st2 \in 1 .. Len(s)
      BY <2>1 DEF NoEvents
    <3>2. s[e2].event # <<>> /\ e2 \in 1 .. e - 1
      BY <2>1, <3>1 DEF Stream3d
    <3> QED
      BY <3>2 DEF NoEvents
  <2>3. k \in st2 .. e2 /\ s[k].byte = ")"
    BY <1>1, <1>2, <1>3, <2>1, <2>2 DEF Match
  <2>4. k \in {st2, j, j + 3, e2 - 1}
    BY <2>1, <2>3 DEF Match
  <2>5. k # st2 /\ k # j + 3
    BY <2>1, <2>3 DEF Match
  <2> QED
    BY <1>3, <2>1, <2>2, <2>4, <2>5
<1>10. Min(Frame3dAt(buf)) = k
  <2>1. Frame3dAt(buf) \subseteq Int
    BY <1>1 DEF Frame3dAt, Positions
  <2> QED
    BY <1>8, <1>9, <2>1, MinIs
<1>11. /\ From(buf, Closes(buf, k) + 2) = Text(s, e + 1, n)
       /\ SubSeq(buf, Opens(buf, k), Closes(buf, k) + 1) = Text(s, st, e)
  <2>1. e - 1 + 2 = e + 1 /\ e - 1 + 1 = e
    OBVIOUS
  <2> QED
    BY <1>1, <1>t, <1>6, <1>7, <2>1 DEF From
<1>12. Pop3d(buf) = [found |-> TRUE, frame |-> Text(s, st, e), rest |-> Text(s, e + 1, n)]
  BY <1>8, <1>10, <1>11 DEF Pop3d
<1>13. s[e].event = <<Parse3d(Text(s, st, e))>>
  BY <1>2 DEF FrameAt, Match
<1> QED
  BY <1>12, <1>13 DEF buf

(* Without an event there is no whole message, and no frame.               *)
LEMMA Pop3dNothing ==
    ASSUME NEW s \in Seq(Cells), Stream3d(s), NEW n \in Nat, n <= Len(s), NoEvents(s, 1, n)
    PROVE  Pop3d(Text(s, 1, n)) = NoFrame(Text(s, 1, n))
<1> DEFINE buf == Text(s, 1, n)
<1>1. buf \in Seq(STRING) /\ Len(buf) = n /\ \A x \in 1 .. n : buf[x] = s[x].byte
  BY TextUpto
<1> HIDE DEF buf
<1>3. ASSUME NEW j \in Frame3dAt(buf) PROVE FALSE
  <2>1. PICK st, e \in 1 .. n : Match(s, st, j, e) /\ j \in 1 .. n
    BY FrameMatch DEF buf
  <2>2. NoEvents(s, st, e - 1) /\ st \in 1 .. Len(s) /\ e \in 1 .. Len(s) /\ s[e].event = <<>>
    BY <2>1 DEF NoEvents
  <2> QED
    BY <2>1, <2>2 DEF Stream3d
<1>4. Pop3d(buf) = NoFrame(buf)
  BY <1>3 DEF Pop3d
<1> QED
  BY <1>4 DEF buf

-----------------------------------------------------------------------------
LEMMA FindFirst ==
    ASSUME NEW s, NEW w, NEW i \in Positions(s, w), \A j \in Positions(s, w) : i <= j
    PROVE  Find(s, w) = i
<1>1. Positions(s, w) \subseteq Int
  BY DEF Positions
<1>2. Min(Positions(s, w)) = i
  BY <1>1, MinIs
<1> QED
  BY <1>2 DEF Find

LEMMA NothingStripped ==
    ASSUME NEW S, NEW b \in Seq(S), \A i \in 1 .. Len(b) : b[i] # "nl"
    PROVE  StripLeft(b, {"nl"}) = b
<1>1. Solid(b, {"nl"}) = 1 .. Len(b)
  BY DEF Solid
<1>2. CASE b = <<>>
  BY <1>1, <1>2 DEF StripLeft
<1>3. CASE b # <<>>
  <2>1. 1 \in Solid(b, {"nl"}) /\ Solid(b, {"nl"}) \subseteq Int
    BY <1>1, <1>3
  <2>2. \A y \in Solid(b, {"nl"}) : 1 <= y
    BY <1>1
  <2>3. Min(Solid(b, {"nl"})) = 1
    BY <2>1, <2>2, MinIs
  <2>4. SubSeq(b, 1, Len(b)) = b
    OBVIOUS
  <2> QED
    BY <2>1, <2>3, <2>4 DEF StripLeft, From
<1> QED
  BY <1>2, <1>3

(* A 2D result from st to e.                                               *)
ResultAt(s, st, e) ==
    /\ st < e - 1
    /\ s[st].byte = "(" /\ s[e - 1].byte = ")" /\ s[e].byte = "E"
    /\ \A i \in st .. e :
          /\ s[i].byte = "(" => i = st
          /\ s[i].byte = ")" => i = e - 1
          /\ s[i].byte \notin {"nl", "Z", "H", "READY"}
          /\ s[i].event # <<>> <=> i = e
    /\ s[e].event = <<Parse2d(Text(s, st, e))>> /\ s[e].event # <<Ready>>

(* READY is the last that the 2D camera has said: it waits for an answer.  *)
ReadyAt(s, i) == i = Len(s) /\ s[i].byte = "READY" /\ s[i].event = <<Ready>>

Stream2d(s) ==
    \A i \in 1 .. Len(s) :
        ReadyAt(s, i) \/ \E st, e \in 1 .. Len(s) : ResultAt(s, st, e) /\ st <= i /\ i <= e

LEMMA NoBlanks2d ==
    ASSUME NEW s \in Seq(Cells), Stream2d(s), NEW n \in Nat, n <= Len(s)
    PROVE  /\ StripLeft(Text(s, 1, n), {"nl"}) = Text(s, 1, n)
           /\ Find(Text(s, 1, n), <<"nl">>) = 0
<1> DEFINE buf == Text(s, 1, n)
<1>1. buf \in Seq(STRING) /\ Len(buf) = n /\ \A x \in 1 .. n : buf[x] = s[x].byte
  BY TextUpto
<1> HIDE DEF buf
<1>2. ASSUME NEW i \in 1 .. Len(buf) PROVE buf[i] # "nl"
  <2>1. i \in 1 .. Len(s) /\ buf[i] = s[i].byte
    BY <1>1
  <2>2. s[i].byte # "nl"
    BY <2>1 DEF Stream2d, ReadyAt, ResultAt
  <2> QED
    BY <2>1, <2>2
<1>3. StripLeft(buf, {"nl"}) = buf
  BY <1>1, <1>2, NothingStripped
<1>4. ASSUME NEW j \in Positions(buf, <<"nl">>) PROVE FALSE
  <2>1. j \in Int
    BY <1>1 DEF Positions
  <2>2. j \in 1 .. Len(buf) /\ buf[j] = "nl"
    BY <1>1, <2>1, PositionsOf1
  <2> QED
    BY <1>2, <2>2
<1>5. Find(buf, <<"nl">>) = 0
  BY <1>4 DEF Find
<1> QED
  BY <1>3, <1>5 DEF buf

(* Where )E stands a result ends.                                          *)
LEMMA EndsOfResult ==
    ASSUME NEW s \in Seq(Cells), Stream2d(s), NEW n \in Nat, n <= Len(s),
           NEW j \in Positions(Text(s, 1, n), <<")", "E">>)
    PROVE  j \in 1 .. n - 1 /\ s[j + 1].event # <<>>
<1> DEFINE buf == Text(s, 1, n)
<1>1. buf \in Seq(STRING) /\ Len(buf) = n /\ \A x \in 1 .. n : buf[x] = s[x].byte
  BY TextUpto
<1>j. j \in Positions(buf, <<")", "E">>)
  OBVIOUS
<1> HIDE DEF buf
<1>2. j \in 1 .. n - 1 /\ s[j].byte = ")"
  <2>1. j \in Int
    BY <1>1, <1>j DEF Positions
  <2>2. j \in 1 .. Len(buf) - 1 /\ buf[j] = ")"
    BY <1>1, <1>j, <2>1, PositionsOf2
  <2> QED
    BY <1>1, <2>2
<1>3. j \in 1 .. Len(s) /\ ~ReadyAt(s, j)
  BY <1>2 DEF ReadyAt
<1>4. PICK st, e \in 1 .. Len(s) : ResultAt(s, st, e) /\ st <= j /\ j <= e
  BY <1>3 DEF Stream2d
<1>5. j = e - 1
  BY <1>2, <1>4 DEF ResultAt
<1>6. s[e].event # <<>>
  BY <1>4 DEF ResultAt
<1> QED
  BY <1>2, <1>5, <1>6

LEMMA Pop2dResult ==
    ASSUME NEW s \in Seq(Cells), Stream2d(s), NEW n \in Nat, n <= Len(s),
           NEW e \in Nat \ {0}, e <= n, s[e].event # <<>>, NoEvents(s, 1, e - 1),
           NEW st \in 1 .. Len(s), ResultAt(s, st, e)
    PROVE  \E f : /\ Pop2d(Text(s, 1, n)) =
                        [found |-> TRUE, frame |-> f, rest |-> Text(s, e + 1, n)]
                 /\ s[e].event = <<Parse2d(f)>>
<1> DEFINE buf == Text(s, 1, n)
<1>1. buf \in Seq(STRING) /\ Len(buf) = n /\ \A x \in 1 .. n : buf[x] = s[x].byte
  BY TextUpto
<1>2. StripLeft(buf, {"nl"}) = buf
  BY NoBlanks2d
<1>3. \A j \in Positions(buf, <<")", "E">>) :
        j \in 1 .. n - 1 /\ s[j + 1].event # <<>>
  BY EndsOfResult
<1>4. SubSeq(buf, 1, e) = Text(s, 1, e) /\ SubSeq(buf, e + 1, n) = Text(s, e + 1, n)
  <2>1. SubSeq(buf, 1, e) = Text(s, 1, e)
    <3>1. 1 \in Nat \ {0} /\ 1 <= e + 1
      OBVIOUS
    <3> QED
      BY <3>1, TextCut
  <2>2. SubSeq(buf, e + 1, n) = Text(s, e + 1, n)
    <3> SUFFICES ASSUME NEW i \in Nat \ {0}, i = e + 1
                 PROVE  SubSeq(Text(s, 1, n), i, n) = Text(s, i, n)
      OBVIOUS
    <3>1. i <= n + 1 /\ n <= n
      OBVIOUS
    <3> QED
      BY <3>1, TextCut
  <2> QED
    BY <2>1, <2>2
<1> HIDE DEF buf
<1>5. st = 1
  <2> SUFFICES ASSUME st # 1 PROVE FALSE
    OBVIOUS
  <2>1. st - 1 \in 1 .. Len(s) /\ st < e - 1 /\ ~ReadyAt(s, st - 1)
    BY DEF ReadyAt, ResultAt
  <2>2. PICK st2, e2 \in 1 .. Len(s) : ResultAt(s, st2, e2) /\ st2 <= st - 1 /\ st - 1 <= e2
    BY <2>1 DEF Stream2d
  <2>3. e2 >= e
    <3> SUFFICES ASSUME e2 < e PROVE FALSE
      OBVIOUS
    <3>1. e2 \in 1 .. e - 1 /\ e2 \in st2 .. e2 /\ s[e2].event # <<>>
      BY <2>2 DEF ResultAt
    <3> QED
      BY <3>1 DEF NoEvents
  <2>4. st \in st2 .. e2 /\ s[st].byte = "("
    BY <2>1, <2>2, <2>3 DEF ResultAt
  <2>5. st = st2
    BY <2>2, <2>4 DEF ResultAt
  <2> QED
    BY <2>2, <2>5
<1>6. Find(buf, <<")", "E">>) = e - 1
  <2>1. e - 1 \in Int /\ e - 1 \in 1 .. Len(buf) - 1 /\ e - 1 + 1 = e
    BY <1>1, <1>5 DEF ResultAt
  <2>2. buf[e - 1] = ")" /\ buf[e] = "E"
    BY <1>1, <2>1 DEF ResultAt
  <2>3. e - 1 \in Positions(buf, <<")", "E">>)
    BY <1>1, <2>1, <2>2, PositionsOf2
  <2>4. ASSUME NEW j \in Positions(buf, <<")", "E">>) PROVE e - 1 <= j
    <3> SUFFICES ASSUME j < e - 1 PROVE FALSE
      BY <1>3, <2>1
    <3>1. j + 1 \in 1 .. e - 1 /\ s[j + 1].event # <<>>
      BY <1>3, <2>1
    <3> QED
      BY <3>1 DEF NoEvents
  <2> QED
    BY <2>3, <2>4, FindFirst
<1>7. e - 1 > 0 /\ e - 1 + 1 = e /\ e - 1 + 2 = e + 1
  BY <1>5 DEF ResultAt
<1>8. Pop2d(buf) = [found |-> TRUE, frame |-> Text(s, 1, e), rest |-> Text(s, e + 1, n)]
  BY <1>1, <1>2, <1>4, <1>6, <1>7 DEF Pop2d, Upto, From
<1>9. s[e].event = <<Parse2d(Text(s, 1, e))>>
  BY <1>5 DEF ResultAt
<1> QED
  BY <1>8, <1>9 DEF buf

LEMMA Pop2dReady ==
    ASSUME NEW s \in Seq(Cells), Stream2d(s), NEW n \in Nat, n <= Len(s),
           NEW e \in Nat \ {0}, e <= n, NoEvents(s, 1, e - 1), ReadyAt(s, e)
    PROVE  \E f : /\ Pop2d(Text(s, 1, n)) =
                        [found |-> TRUE, frame |-> f, rest |-> Text(s, e + 1, n)]
                 /\ s[e].event = <<Parse2d(f)>>
<1> DEFINE buf == Text(s, 1, n)
<1>1. buf \in Seq(STRING) /\ Len(buf) = n /\ \A x \in 1 .. n : buf[x] = s[x].byte
  BY TextUpto
<1>2. StripLeft(buf, {"nl"}) = buf /\ Find(buf, <<"nl">>) = 0
  BY NoBlanks2d
<1>3. \A j \in Positions(buf, <<")", "E">>) :
        j \in 1 .. n - 1 /\ s[j + 1].event # <<>>
  BY EndsOfResult
<1>4. e = 1 /\ n = 1
  <2>1. n = e /\ e = Len(s)
    BY DEF ReadyAt
  <2> SUFFICES ASSUME e # 1 PROVE FALSE
    BY <2>1
  <2>2. e - 1 \in 1 .. Len(s) /\ ~ReadyAt(s, e - 1)
    BY <2>1 DEF ReadyAt
  <2>3. PICK st2, e2 \in 1 .. Len(s) : ResultAt(s, st2, e2) /\ st2 <= e - 1 /\ e - 1 <= e2
    BY <2>2 DEF Stream2d
  <2>4. e2 # e
    BY <2>3 DEF ResultAt, ReadyAt
  <2>5. e2 \in 1 .. e - 1 /\ s[e2].event # <<>>
    BY <2>1, <2>3, <2>4 DEF ResultAt
  <2> QED
    BY <2>5 DEF NoEvents
<1> HIDE DEF buf
<1>5. buf = <<"READY">>
  <2>1. buf[1] = "READY" /\ Len(buf) = 1
    BY <1>1, <1>4 DEF ReadyAt
  <2> QED
    BY <1>1, <2>1, OneOf
<1>6. Find(buf, <<")", "E">>) = 0
  <2>1. Positions(buf, <<")", "E">>) = {}
    BY <1>3, <1>4
  <2> QED
    BY <2>1 DEF Find
<1>7. buf \in ReadyTexts
  BY <1>5 DEF ReadyTexts
<1>8. Pop2d(buf) = [found |-> TRUE, frame |-> buf, rest |-> <<>>]
  <2>1. LooksLikeLine(buf)
    BY <1>7 DEF LooksLikeLine
  <2>2. ~(Find(buf, <<")", "E">>) > 0) /\ ~(Find(buf, <<"nl">>) > 0)
    BY <1>2, <1>6
  <2>3. StripLeft(buf, {"nl"}) = buf
    BY <1>2
  <2> QED
    BY <2>1, <2>2, <2>3, Zenon DEF Pop2d
<1>9. Parse2d(buf) = Ready
  BY <1>7 DEF Parse2d
<1>10. Text(s, e + 1, n) = <<>>
  <2>1. 1 .. n - (e + 1) + 1 = {}
    BY <1>4
  <2> QED
    BY <2>1 DEF Text
<1> QED
  BY <1>8, <1>9, <1>10 DEF buf, ReadyAt

LEMMA Pop2dFrame ==
    ASSUME NEW s \in Seq(Cells), Stream2d(s), NEW n \in Nat, n <= Len(s),
           NEW e \in Nat \ {0}, e <= n, s[e].event # <<>>, NoEvents(s, 1, e - 1)
    PROVE  \E f : /\ Pop2d(Text(s, 1, n)) =
                        [found |-> TRUE, frame |-> f, rest |-> Text(s, e + 1, n)]
                 /\ s[e].event = <<Parse2d(f)>>
<1>1. CASE ReadyAt(s, e)
  BY <1>1, Pop2dReady
<1>2. CASE ~ReadyAt(s, e)
  <2>1. e \in 1 .. Len(s)
    OBVIOUS
  <2>2. PICK st, f \in 1 .. Len(s) : ResultAt(s, st, f) /\ st <= e /\ e <= f
    BY <1>2, <2>1 DEF Stream2d
  <2>3. f = e
    BY <2>2 DEF ResultAt
  <2> QED
    BY <2>2, <2>3, Pop2dResult
<1> QED
  BY <1>1, <1>2

LEMMA OpenNoNumber ==
    ASSUME NEW S, NEW buf \in Seq(S), Len(buf) # 0, buf[1] = "("
    PROVE  ~Number(FirstField(buf))
<1>1. FirstField(buf) # <<>> => FirstField(buf)[1] = "("
  <2> DEFINE i == Find(buf, <<Comma>>)
  <2>1. CASE i = 0
    BY <2>1 DEF FirstField
  <2>2. CASE i # 0
    <3>1. i \in Positions(buf, <<Comma>>)
      BY <2>2 DEF Find, Min, Positions
    <3>2. i \in 1 .. Len(buf)
      <4> HIDE DEF i
      <4>1. i \in Int
        BY <3>1 DEF Positions
      <4> QED
        BY <3>1, <4>1, PositionsOf1
    <3> HIDE DEF i
    <3>3. FirstField(buf) = SubSeq(buf, 1, i - 1)
      BY <2>2 DEF FirstField, Upto, i
    <3> QED
      BY <3>2, <3>3
  <2> QED
    BY <2>1, <2>2
<1>2. "(" \notin Digits
  BY DEF Digits
<1> QED
  BY <1>1, <1>2 DEF Number

LEMMA Pop2dNothing ==
    ASSUME NEW s \in Seq(Cells), Stream2d(s), NEW n \in Nat, n <= Len(s), NoEvents(s, 1, n)
    PROVE  Pop2d(Text(s, 1, n)) = NoFrame(Text(s, 1, n))
<1> DEFINE buf == Text(s, 1, n)
<1>1. buf \in Seq(STRING) /\ Len(buf) = n /\ \A x \in 1 .. n : buf[x] = s[x].byte
  BY TextUpto
<1>2. StripLeft(buf, {"nl"}) = buf /\ Find(buf, <<"nl">>) = 0
  BY NoBlanks2d
<1>3. \A j \in Positions(buf, <<")", "E">>) :
        j \in 1 .. n - 1 /\ s[j + 1].event # <<>>
  BY EndsOfResult
<1> HIDE DEF buf
<1>4. Find(buf, <<")", "E">>) = 0
  <2>1. Positions(buf, <<")", "E">>) = {}
    BY <1>3 DEF NoEvents
  <2> QED
    BY <2>1 DEF Find
<1>5. \A x \in 1 .. n : buf[x] # "READY"
  <2> SUFFICES ASSUME NEW x \in 1 .. n, s[x].byte = "READY" PROVE FALSE
    BY <1>1
  <2>1. x \in 1 .. Len(s)
    OBVIOUS
  <2>2. ReadyAt(s, x)
    BY <2>1 DEF Stream2d, ResultAt
  <2>3. <<Ready>> # <<>>
    OBVIOUS
  <2> QED
    BY <2>2, <2>3 DEF ReadyAt, NoEvents
<1>6. buf \notin ReadyTexts
  <2>1. n >= 1 => buf[1] # "READY"
    BY <1>5
  <2>2. n >= 2 => buf[2] # "READY"
    BY <1>5
  <2> QED
    BY <1>1, <2>1, <2>2 DEF ReadyTexts
<1>7. ~Number(FirstField(buf))
  <2>1. CASE n = 0
    <3>1. buf = <<>>
      BY <1>1, <2>1
    <3>2. FirstField(buf) = <<>>
      <4>1. ASSUME NEW j \in Positions(buf, <<Comma>>) PROVE FALSE
        <5>1. j \in Int
          BY <1>1 DEF Positions
        <5>2. j \in 1 .. Len(buf)
          BY <1>1, <5>1, PositionsOf1
        <5> QED
          BY <1>1, <2>1, <5>2
      <4>2. Find(buf, <<Comma>>) = 0
        BY <4>1 DEF Find
      <4> QED
        BY <3>1, <4>2 DEF FirstField
    <3> QED
      BY <3>2 DEF Number
  <2>2. CASE n # 0
    <3>1. buf[1] = "("
      <4>1. 1 \in 1 .. Len(s) /\ 1 \in 1 .. n
        BY <2>2
      <4>2. ~ReadyAt(s, 1)
        BY <4>1 DEF ReadyAt, NoEvents
      <4>3. PICK st, e \in 1 .. Len(s) : ResultAt(s, st, e) /\ st <= 1 /\ 1 <= e
        BY <4>1, <4>2 DEF Stream2d
      <4>4. st = 1
        BY <4>3
      <4> QED
        BY <1>1, <4>1, <4>3, <4>4 DEF ResultAt
    <3> QED
      BY <1>1, <2>2, <3>1, OpenNoNumber
  <2> QED
    BY <2>1, <2>2
<1>8. Pop2d(buf) = NoFrame(buf)
  <2>1. ~LooksLikeLine(buf)
    BY <1>6, <1>7 DEF LooksLikeLine
  <2> QED
    BY <1>2, <1>4, <2>1 DEF Pop2d
<1> QED
  BY <1>8 DEF buf

-----------------------------------------------------------------------------
(* w is a and then c.                                                      *)
JoinOf(w, a, c) ==
    /\ Len(w) = Len(a) + Len(c)
    /\ \A i \in 1 .. Len(a) : w[i] = a[i]
    /\ \A i \in 1 .. Len(c) : w[Len(a) + i] = c[i]

LEMMA JoinedBoth ==
    ASSUME NEW S, NEW a \in Seq(S), NEW c \in Seq(S)
    PROVE  a \o c \in Seq(S) /\ JoinOf(a \o c, a, c)
BY DEF JoinOf

LEMMA SameText ==
    ASSUME NEW S, NEW a \in Seq(S), NEW c \in Seq(S), Len(a) = Len(c),
           \A i \in 1 .. Len(c) : a[i] = c[i]
    PROVE  a = c
OBVIOUS

(* Messages may be moved: the same cells at another place are the same.    *)
Moved(s, t, i, j, d) == \A x \in i .. j : t[x + d] = s[x]

LEMMA TextMoved ==
    ASSUME NEW s, NEW t, NEW i \in Int, NEW j \in Int, NEW i2 \in Int, NEW j2 \in Int,
           NEW d \in Int, i2 = i + d, j2 = j + d, Moved(s, t, i, j, d)
    PROVE  Text(t, i2, j2) = Text(s, i, j)
<1>1. j2 - i2 + 1 = j - i + 1
  OBVIOUS
<1>2. ASSUME NEW x \in 1 .. j - i + 1 PROVE t[i2 + x - 1] = s[i + x - 1]
  <2>1. i + x - 1 \in i .. j /\ i2 + x - 1 = (i + x - 1) + d
    OBVIOUS
  <2> QED
    BY <2>1 DEF Moved
<1> QED
  BY <1>1, <1>2 DEF Text

LEMMA MatchMoved ==
    ASSUME NEW s, NEW t, NEW d \in Int,
           NEW st \in Int, NEW k \in Int, NEW e \in Int,
           NEW st2 \in Int, NEW k2 \in Int, NEW e2 \in Int,
           st2 = st + d, k2 = k + d, e2 = e + d,
           Match(s, st, k, e), Moved(s, t, st, e, d)
    PROVE  Match(t, st2, k2, e2)
<1>1. /\ st < k /\ k + 3 < e - 1
      /\ s[st].byte = "(" /\ s[k].byte = ")" /\ s[k + 1].byte = "E" /\ s[k + 2].byte = "A"
      /\ s[k + 3].byte = "(" /\ s[e - 1].byte = ")" /\ s[e].byte = "E"
  BY DEF Match
<1>2. /\ t[st2] = s[st] /\ t[k2] = s[k] /\ t[k2 + 1] = s[k + 1]
      /\ t[k2 + 2] = s[k + 2] /\ t[k2 + 3] = s[k + 3]
      /\ t[e2 - 1] = s[e - 1] /\ t[e2] = s[e]
  <2>1. /\ k2 + 1 = (k + 1) + d /\ k2 + 2 = (k + 2) + d /\ k2 + 3 = (k + 3) + d
        /\ e2 - 1 = (e - 1) + d
    OBVIOUS
  <2>2. ASSUME NEW x \in st .. e PROVE t[x + d] = s[x]
    BY DEF Moved
  <2>3. t[st + d] = s[st] /\ t[k + d] = s[k] /\ t[e + d] = s[e]
    BY <1>1, <2>2
  <2>4. t[(k + 1) + d] = s[k + 1] /\ t[(k + 2) + d] = s[k + 2] /\ t[(k + 3) + d] = s[k + 3]
    BY <1>1, <2>2
  <2>5. t[(e - 1) + d] = s[e - 1]
    BY <1>1, <2>2
  <2> QED
    BY <2>1, <2>3, <2>4, <2>5
<1>3. ASSUME NEW i \in st2 .. e2, t[i].byte \in {"(", ")"}
      PROVE  i \in {st2, k2, k2 + 3, e2 - 1}
  <2>1. i - d \in st .. e /\ (i - d) + d = i
    OBVIOUS
  <2>2. t[i] = s[i - d]
    BY <2>1 DEF Moved
  <2>3. i - d \in {st, k, k + 3, e - 1}
    BY <1>3, <2>1, <2>2 DEF Match
  <2> QED
    BY <2>3
<1>4. st2 < k2 /\ k2 + 3 < e2 - 1
  BY <1>1
<1>5. /\ t[st2].byte = "("
      /\ t[k2].byte = ")" /\ t[k2 + 1].byte = "E" /\ t[k2 + 2].byte = "A"
      /\ t[k2 + 3].byte = "(" /\ t[e2 - 1].byte = ")" /\ t[e2].byte = "E"
  BY <1>1, <1>2
<1> QED
  BY <1>3, <1>4, <1>5, Zenon DEF Match

LEMMA FrameMoved ==
    ASSUME NEW s, NEW t, NEW d \in Int,
           NEW st \in Int, NEW k \in Int, NEW e \in Int,
           NEW st2 \in Int, NEW k2 \in Int, NEW e2 \in Int,
           st2 = st + d, k2 = k + d, e2 = e + d,
           FrameAt(s, st, k, e), Moved(s, t, st, e, d)
    PROVE  FrameAt(t, st2, k2, e2)
<1>1. Match(t, st2, k2, e2)
  BY MatchMoved DEF FrameAt
<1>2. ASSUME NEW i \in st2 .. e2 PROVE t[i].event # <<>> <=> i = e2
  <2>1. i - d \in st .. e /\ (i - d) + d = i
    OBVIOUS
  <2>2. t[i] = s[i - d]
    BY <2>1 DEF Moved
  <2>3. s[i - d].event # <<>> <=> i - d = e
    BY <2>1 DEF FrameAt
  <2>4. i - d = e <=> i = e2
    OBVIOUS
  <2> QED
    BY <2>2, <2>3, <2>4
<1>3. t[e2].event = <<Parse3d(Text(t, st2, e2))>>
  <2>1. Text(t, st2, e2) = Text(s, st, e)
    BY TextMoved
  <2>2. e \in st .. e
    BY DEF FrameAt, Match
  <2>3. t[e + d] = s[e]
    BY <2>2 DEF Moved
  <2> QED
    BY <2>1, <2>3 DEF FrameAt
<1> QED
  BY <1>1, <1>2, <1>3 DEF FrameAt

LEMMA ResultMoved ==
    ASSUME NEW s, NEW t, NEW d \in Int,
           NEW st \in Int, NEW e \in Int, NEW st2 \in Int, NEW e2 \in Int,
           st2 = st + d, e2 = e + d,
           ResultAt(s, st, e), Moved(s, t, st, e, d)
    PROVE  ResultAt(t, st2, e2)
<1>1. st < e - 1
  BY DEF ResultAt
<1>2. t[st2] = s[st] /\ t[e2 - 1] = s[e - 1] /\ t[e2] = s[e]
  <2>1. e2 - 1 = (e - 1) + d /\ {st, e - 1, e} \subseteq st .. e
    BY <1>1
  <2> QED
    BY <2>1 DEF Moved
<1>3. ASSUME NEW i \in st2 .. e2
      PROVE  /\ t[i].byte = "(" => i = st2
             /\ t[i].byte = ")" => i = e2 - 1
             /\ t[i].byte \notin {"nl", "Z", "H", "READY"}
             /\ t[i].event # <<>> <=> i = e2
  <2>1. i - d \in st .. e /\ (i - d) + d = i
    OBVIOUS
  <2>2. t[i] = s[i - d]
    BY <2>1 DEF Moved
  <2>3. /\ s[i - d].byte = "(" => i - d = st
        /\ s[i - d].byte = ")" => i - d = e - 1
        /\ s[i - d].byte \notin {"nl", "Z", "H", "READY"}
        /\ s[i - d].event # <<>> <=> i - d = e
    BY <2>1 DEF ResultAt
  <2> QED
    BY <2>1, <2>2, <2>3
<1>4. Text(t, st2, e2) = Text(s, st, e)
  BY TextMoved
<1> QED
  BY <1>1, <1>2, <1>3, <1>4 DEF ResultAt

(* Behind an event a message begins.                                       *)
StreamOf(chan, s) == IF chan = "2d" THEN Stream2d(s) ELSE Stream3d(s)
Stream(s) == StreamOf(channel, s)

LEMMA BehindIs ==
    ASSUME NEW s \in Seq(Cells), NEW c \in 0 .. Len(s)
    PROVE  /\ From(s, c + 1) \in Seq(Cells) /\ Len(From(s, c + 1)) = Len(s) - c
           /\ \A i \in 1 .. Len(s) - c : From(s, c + 1)[i] = s[c + i]
BY DEF From

(* What is behind c, where no frame is cut in two.                         *)
LEMMA Suffix3d ==
    ASSUME NEW s \in Seq(Cells), Stream3d(s), NEW c \in 0 .. Len(s),
           \A st, k, e \in 1 .. Len(s) : FrameAt(s, st, k, e) /\ c < e => c < st
    PROVE  Stream3d(From(s, c + 1))
<1> DEFINE t == From(s, c + 1)
<1>1. t \in Seq(Cells) /\ Len(t) = Len(s) - c /\ \A i \in 1 .. Len(s) - c : t[i] = s[c + i]
  BY BehindIs
<1> HIDE DEF t
<1>0. c \in Int /\ Len(s) \in Nat /\ Len(t) \in Nat
  BY <1>1
<1>2. ASSUME NEW e \in 1 .. Len(t), t[e].event # <<>>
      PROVE  \E st, k \in 1 .. Len(t) : FrameAt(t, st, k, e)
  <2>1. PICK f \in 1 .. Len(s) : f = c + e
    <3>1. c + e \in 1 .. Len(s)
      BY <1>0, <1>1
    <3> QED
      BY <3>1
  <2>2. s[f].event # <<>> /\ c < f
    <3>1. e \in 1 .. Len(s) - c /\ c < f
      BY <1>0, <1>1, <2>1
    <3>2. t[e] = s[f]
      BY <1>1, <2>1, <3>1
    <3> QED
      BY <1>2, <3>1, <3>2
  <2>3. PICK st, k \in 1 .. Len(s) : FrameAt(s, st, k, f)
    BY <2>2 DEF Stream3d
  <2>4. c < st /\ st < k /\ k < f
    <3>1. c < st
      BY <2>2, <2>3
    <3>2. st < k /\ k + 3 < f - 1
      BY <2>3 DEF FrameAt, Match
    <3>3. k \in Int /\ f \in Int
      BY <1>0
    <3> QED
      BY <3>1, <3>2, <3>3
  <2>5. PICK d \in Int : d = 0 - c
    <3>1. 0 - c \in Int
      BY <1>0
    <3> QED
      BY <3>1
  <2>6. PICK st2, k2 \in 1 .. Len(t) : st2 = st + d /\ k2 = k + d
    <3>1. st + d \in 1 .. Len(t) /\ k + d \in 1 .. Len(t)
      BY <1>0, <1>1, <2>4, <2>5
    <3> QED
      BY <3>1
  <2>7. Moved(s, t, st, f, d)
    <3> SUFFICES ASSUME NEW x \in st .. f PROVE t[x + d] = s[x]
      BY DEF Moved
    <3>1. x - c \in 1 .. Len(s) - c /\ x + d = x - c /\ c + (x - c) = x
      BY <1>0, <2>4, <2>5
    <3> QED
      BY <1>1, <3>1
  <2>8. e = f + d
    BY <1>0, <2>1, <2>5
  <2>9. FrameAt(t, st2, k2, e)
    BY <2>3, <2>6, <2>7, <2>8, FrameMoved
  <2> QED
    BY <2>9
<1>3. ASSUME NEW st \in 1 .. Len(t), NEW k \in 1 .. Len(t), NEW e \in 1 .. Len(t),
             Match(t, st, k, e), NoEvents(t, st, e - 1)
      PROVE  t[e].event # <<>>
  <2>1. PICK st2, k2, e2 \in 1 .. Len(s) : st2 = st + c /\ k2 = k + c /\ e2 = e + c
    <3>1. st + c \in 1 .. Len(s) /\ k + c \in 1 .. Len(s) /\ e + c \in 1 .. Len(s)
      BY <1>0, <1>1
    <3> QED
      BY <3>1
  <2>2. ASSUME NEW x \in 1 .. Len(t) PROVE s[x + c] = t[x]
    <3>1. x + c = c + x /\ x \in 1 .. Len(s) - c
      BY <1>0, <1>1
    <3> QED
      BY <1>1, <3>1
  <2>3. Moved(t, s, st, e, c)
    BY <2>2 DEF Moved
  <2>4. Match(s, st2, k2, e2)
    BY <1>0, <1>3, <2>1, <2>3, MatchMoved
  <2>5. NoEvents(s, st2, e2 - 1)
    <3> SUFFICES ASSUME NEW x \in st2 .. e2 - 1 PROVE s[x].event = <<>>
      BY DEF NoEvents
    <3>1. x - c \in st .. e - 1 /\ x - c \in 1 .. Len(t) /\ (x - c) + c = x
      BY <1>0, <2>1
    <3>2. s[x] = t[x - c]
      BY <2>2, <3>1
    <3> QED
      BY <1>3, <3>1, <3>2 DEF NoEvents
  <2>6. s[e2].event # <<>>
    BY <2>4, <2>5 DEF Stream3d
  <2> QED
    BY <2>1, <2>2, <2>6
<1>4. Stream3d(t)
  BY <1>2, <1>3 DEF Stream3d
<1> QED
  BY <1>4 DEF t

LEMMA Behind3d ==
    ASSUME NEW s \in Seq(Cells), Stream3d(s), NEW c \in 1 .. Len(s), s[c].event # <<>>
    PROVE  Stream3d(From(s, c + 1))
<1>1. ASSUME NEW st \in 1 .. Len(s), NEW k \in 1 .. Len(s), NEW e \in 1 .. Len(s),
             FrameAt(s, st, k, e), c < e
      PROVE  c < st
  <2> SUFFICES ASSUME st <= c PROVE FALSE
    OBVIOUS
  <2>1. c \in st .. e /\ c # e
    BY <1>1
  <2> QED
    BY <1>1, <2>1 DEF FrameAt
<1> QED
  BY <1>1, Suffix3d

LEMMA Behind2d ==
    ASSUME NEW s \in Seq(Cells), Stream2d(s), NEW c \in 1 .. Len(s), s[c].event # <<>>
    PROVE  Stream2d(From(s, c + 1))
<1> DEFINE t == From(s, c + 1)
<1>1. t \in Seq(Cells) /\ Len(t) = Len(s) - c /\ \A i \in 1 .. Len(s) - c : t[i] = s[c + i]
  BY BehindIs
<1> HIDE DEF t
<1>2. ASSUME NEW i \in 1 .. Len(t), ~ReadyAt(t, i)
      PROVE  \E st, e \in 1 .. Len(t) : ResultAt(t, st, e) /\ st <= i /\ i <= e
  <2>1. c + i \in 1 .. Len(s) /\ t[i] = s[c + i] /\ (c + i = Len(s) => i = Len(t))
    BY <1>1
  <2>a. ~ReadyAt(s, c + i)
    BY <1>2, <2>1 DEF ReadyAt
  <2>2. PICK st, e \in 1 .. Len(s) : ResultAt(s, st, e) /\ st <= c + i /\ c + i <= e
    BY <2>1, <2>a DEF Stream2d
  <2>3. c < st
    <3> SUFFICES ASSUME st <= c PROVE FALSE
      BY <2>2
    <3>1. c \in st .. e /\ c # e
      BY <2>1, <2>2
    <3> QED
      BY <2>2, <3>1 DEF ResultAt
  <2>5. PICK d, st2, e2 \in Int : d = 0 - c /\ st2 = st + d /\ e2 = e + d
    OBVIOUS
  <2>6. ResultAt(t, st2, e2)
    <3>1. ASSUME NEW x \in st .. e PROVE t[x + d] = s[x]
      <4>1. x \in Int /\ c < x /\ x <= Len(s) /\ c \in Int
        BY <2>3
      <4>2. x - c \in 1 .. Len(s) - c /\ x + d = x - c /\ c + (x - c) = x
        BY <2>5, <4>1
      <4> QED
        BY <1>1, <4>2
    <3>2. st \in Int /\ e \in Int
      OBVIOUS
    <3>3. Moved(s, t, st, e, d)
      BY <3>1 DEF Moved
    <3> QED
      BY <2>2, <2>5, <3>2, <3>3, ResultMoved
  <2>7. st2 \in 1 .. Len(t) /\ e2 \in 1 .. Len(t) /\ st2 <= i /\ i <= e2
    <3>1. st2 = st - c /\ e2 = e - c
      BY <2>5
    <3> QED
      BY <1>1, <2>2, <2>3, <3>1
  <2> QED
    BY <2>6, <2>7
<1>3. Stream2d(t)
  BY <1>2 DEF Stream2d
<1> QED
  BY <1>3 DEF t

LEMMA BehindEvent ==
    ASSUME NEW s \in Seq(Cells), Stream(s), NEW c \in 0 .. Len(s), c = 0 \/ s[c].event # <<>>
    PROVE  Stream(From(s, c + 1))
<1>1. CASE c = 0
  <2>1. From(s, 1) = s
    BY DEF From
  <2> QED
    BY <1>1, <2>1
<1>2. CASE c # 0
  BY <1>2, Behind2d, Behind3d DEF Stream, StreamOf
<1> QED
  BY <1>1, <1>2

LEMMA PopFrame ==
    ASSUME NEW s \in Seq(Cells), Stream(s), NEW n \in Nat, n <= Len(s),
           NEW e \in Nat \ {0}, e <= n, s[e].event # <<>>, NoEvents(s, 1, e - 1)
    PROVE  \E f : /\ Pop(Text(s, 1, n)) =
                        [found |-> TRUE, frame |-> f, rest |-> Text(s, e + 1, n)]
                 /\ s[e].event = <<Parse(f)>>
<1>1. CASE channel = "2d"
  BY <1>1, Pop2dFrame DEF Pop, Parse, Stream, StreamOf
<1>2. CASE channel # "2d"
  BY <1>2, Pop3dFrame DEF Pop, Parse, Stream, StreamOf
<1> QED
  BY <1>1, <1>2

LEMMA PopNothing ==
    ASSUME NEW s \in Seq(Cells), Stream(s), NEW n \in Nat, n <= Len(s), NoEvents(s, 1, n)
    PROVE  Pop(Text(s, 1, n)) = [found |-> FALSE, frame |-> <<>>, rest |-> Text(s, 1, n)]
BY Pop2dNothing, Pop3dNothing DEF Pop, Stream, StreamOf, NoFrame

-----------------------------------------------------------------------------
(* The events of the first cells: the recursive function of EventsOf.      *)
EventsUpto(g, s, n) == g = [i \in 0 .. n |-> IF i = 0 THEN <<>> ELSE g[i - 1] \o s[i].event]

LEMMA EventsUptoExists ==
    ASSUME NEW s, NEW m \in Nat
    PROVE  \E g : EventsUpto(g, s, m)
<1> DEFINE T == {n \in Nat : ~\E g : EventsUpto(g, s, n)}
<1>1. SUFFICES ASSUME T # {} PROVE FALSE
  OBVIOUS
<1>2. PICK n \in T : \A k \in T : n <= k
  <2>1. T \subseteq Nat /\ T # {}
    BY <1>1
  <2> HIDE DEF T
  <2> QED
    BY <2>1, SmallestExists
<1>3. CASE n = 0
  <2> DEFINE h == [i \in 0 .. 0 |-> <<>>]
  <2>1. h = [i \in 0 .. 0 |-> IF i = 0 THEN <<>> ELSE h[i - 1] \o s[i].event]
    OBVIOUS
  <2> QED
    BY <1>2, <1>3, <2>1 DEF EventsUpto
<1>4. CASE n # 0
  <2>1. n \in Nat /\ n - 1 \in Nat /\ n - 1 \notin T
    BY <1>2, <1>4
  <2>2. PICK g : EventsUpto(g, s, n - 1)
    BY <2>1
  <2> DEFINE h == [i \in 0 .. n |-> IF i = n THEN g[n - 1] \o s[n].event ELSE g[i]]
             next == [i \in 0 .. n |-> IF i = 0 THEN <<>> ELSE h[i - 1] \o s[i].event]
  <2>3. ASSUME NEW i \in 0 .. n PROVE h[i] = next[i]
    <3>1. \A j \in 0 .. n - 1 :
            g[j] = (IF j = 0 THEN <<>> ELSE g[j - 1] \o s[j].event) /\ h[j] = g[j]
      BY <2>1, <2>2 DEF EventsUpto
    <3>2. CASE i = n
      <4>1. h[n] = g[n - 1] \o s[n].event /\ h[n - 1] = g[n - 1]
        BY <2>1, <3>1
      <4> QED
        BY <1>4, <3>2, <4>1
    <3>3. CASE i # n
      <4>1. i \in 0 .. n - 1 /\ (i # 0 => i - 1 \in 0 .. n - 1)
        BY <2>1, <3>3
      <4> QED
        BY <3>1, <4>1
    <3> QED
      BY <3>2, <3>3
  <2>4. h = next
    BY <2>3
  <2>5. EventsUpto(h, s, n)
    BY <2>4 DEF EventsUpto
  <2> HIDE DEF h
  <2> QED
    BY <1>2, <2>5
<1> QED
  BY <1>3, <1>4

Sums(g, s) == g[0] = <<>> /\ \A i \in 1 .. Len(s) : g[i] = g[i - 1] \o s[i].event

LEMMA EventsOfIs ==
    ASSUME NEW s \in Seq(Cells)
    PROVE  \E g : EventsOf(s) = g[Len(s)] /\ Sums(g, s)
<1> DEFINE g == CHOOSE f : EventsUpto(f, s, Len(s))
<1>1. Len(s) \in Nat
  OBVIOUS
<1>2. EventsUpto(g, s, Len(s))
  BY <1>1, EventsUptoExists
<1>3. EventsOf(s) = g[Len(s)]
  BY DEF EventsOf, EventsUpto
<1> HIDE DEF g
<1>4. Sums(g, s)
  BY <1>1, <1>2 DEF EventsUpto, Sums
<1> QED
  BY <1>3, <1>4

CellEvents == {<<>>} \cup {<<e>> : e \in Events}

LEMMA EventsTyped ==
    ASSUME NEW s \in Seq(Cells), NEW g, Sums(g, s)
    PROVE  \A i \in 0 .. Len(s) : g[i] \in Seq(Events)
<1> DEFINE T == {i \in 0 .. Len(s) : g[i] \notin Seq(Events)}
<1>1. SUFFICES ASSUME T # {} PROVE FALSE
  OBVIOUS
<1>2. PICK i \in T : \A k \in T : i <= k
  <2>1. T \subseteq Nat /\ T # {}
    BY <1>1
  <2> HIDE DEF T
  <2> QED
    BY <2>1, SmallestExists
<1>3. i # 0
  <2>1. <<>> \in Seq(Events)
    OBVIOUS
  <2> QED
    BY <1>2, <2>1 DEF Sums
<1>4. i \in 1 .. Len(s) /\ i - 1 \in 0 .. Len(s) /\ i - 1 \notin T
  BY <1>2, <1>3
<1>5. g[i - 1] \in Seq(Events)
  BY <1>4
<1>6. s[i].event \in Seq(Events)
  <2>1. s[i] \in Cells
    BY <1>4
  <2>2. s[i].event \in CellEvents
    BY <2>1 DEF Cells, CellEvents
  <2>3. CASE s[i].event = <<>>
    BY <2>3
  <2>4. CASE s[i].event # <<>>
    <3>1. PICK e \in Events : s[i].event = <<e>>
      BY <2>2, <2>4 DEF CellEvents
    <3> QED
      BY <3>1
  <2> QED
    BY <2>3, <2>4
<1>7. g[i] \in Seq(Events)
  <2>1. g[i] = g[i - 1] \o s[i].event
    BY <1>4 DEF Sums
  <2> QED
    BY <1>5, <1>6, <2>1
<1> QED
  BY <1>2, <1>7

(* Cells without an event add nothing.                                     *)
LEMMA EventsFlat ==
    ASSUME NEW s \in Seq(Cells), NEW g, Sums(g, s),
           NEW i \in Nat, NEW j \in Nat, i <= j, j <= Len(s), NoEvents(s, i + 1, j)
    PROVE  g[j] = g[i]
<1> DEFINE T == {x \in i .. j : g[x] # g[i]}
<1>1. SUFFICES ASSUME T # {} PROVE FALSE
  OBVIOUS
<1>2. PICK x \in T : \A k \in T : x <= k
  <2>1. T \subseteq Nat /\ T # {}
    BY <1>1
  <2> HIDE DEF T
  <2> QED
    BY <2>1, SmallestExists
<1>3. x # i
  BY <1>2
<1>4. x \in 1 .. Len(s) /\ x \in i + 1 .. j /\ x - 1 \in i .. j /\ x - 1 \notin T
  BY <1>2, <1>3
<1>5. g[x - 1] = g[i] /\ g[x] = g[x - 1] \o s[x].event
  BY <1>4 DEF Sums
<1>6. s[x].event = <<>>
  BY <1>4 DEF NoEvents
<1>7. g[x - 1] \in Seq(Events)
  <2>1. x - 1 \in 0 .. Len(s)
    BY <1>4
  <2> QED
    BY <2>1, EventsTyped
<1>8. g[x] = g[i]
  BY <1>5, <1>6, <1>7
<1> QED
  BY <1>2, <1>8

LEMMA EventsOfTyped ==
    ASSUME NEW s \in Seq(Cells)
    PROVE  EventsOf(s) \in Seq(Events)
<1>1. PICK g : EventsOf(s) = g[Len(s)] /\ Sums(g, s)
  BY EventsOfIs
<1>2. \A i \in 0 .. Len(s) : g[i] \in Seq(Events)
  BY <1>1, EventsTyped
<1> QED
  BY <1>1, <1>2

LEMMA NoEventsOf ==
    ASSUME NEW s \in Seq(Cells), NoEvents(s, 1, Len(s))
    PROVE  EventsOf(s) = <<>>
<1>1. PICK g : EventsOf(s) = g[Len(s)] /\ Sums(g, s)
  BY EventsOfIs
<1>2. NoEvents(s, 0 + 1, Len(s)) /\ 0 \in Nat /\ Len(s) \in Nat /\ 0 <= Len(s) /\ Len(s) <= Len(s)
  OBVIOUS
<1>3. g[Len(s)] = g[0]
  BY <1>1, <1>2, EventsFlat
<1> QED
  BY <1>1, <1>3 DEF Sums

LEMMA EventsBehind ==
    ASSUME NEW b \in Seq(Cells), NEW q \in Seq(Cells), NoEvents(b, 1, Len(b))
    PROVE  EventsOf(b \o q) = EventsOf(q)
<1> DEFINE s == b \o q
<1>1. /\ s \in Seq(Cells) /\ Len(s) = Len(b) + Len(q) /\ Len(b) \in Nat /\ Len(q) \in Nat
      /\ \A i \in 1 .. Len(b) : s[i] = b[i]
      /\ \A i \in 1 .. Len(q) : s[Len(b) + i] = q[i]
  OBVIOUS
<1> HIDE DEF s
<1>2. PICK g : EventsOf(s) = g[Len(s)] /\ Sums(g, s)
  BY <1>1, EventsOfIs
<1>3. PICK h : EventsOf(q) = h[Len(q)] /\ Sums(h, q)
  BY EventsOfIs
<1>4. g[Len(b)] = <<>>
  <2>1. PICK z, n \in Nat : z = 0 /\ n = Len(b)
    BY <1>1
  <2>2. NoEvents(s, z + 1, n) /\ z <= n /\ n <= Len(s)
    <3>1. NoEvents(s, 1, n)
      BY <1>1, <2>1 DEF NoEvents
    <3>2. z + 1 = 1
      BY <2>1
    <3> QED
      BY <1>1, <2>1, <3>1, <3>2
  <2>3. g[n] = g[z]
    BY <1>1, <1>2, <2>2, EventsFlat
  <2> QED
    BY <1>2, <2>1, <2>3 DEF Sums
<1> DEFINE T == {j \in 0 .. Len(q) : g[Len(b) + j] # h[j]}
<1>5. T = {}
  <2>1. SUFFICES ASSUME T # {} PROVE FALSE
    OBVIOUS
  <2>2. PICK j \in T : \A k \in T : j <= k
    <3>1. T \subseteq Nat /\ T # {}
      BY <1>1, <2>1
    <3> HIDE DEF T
    <3> QED
      BY <3>1, SmallestExists
  <2>3. j # 0
    BY <1>1, <1>3, <1>4, <2>2 DEF Sums
  <2>4. /\ j \in 1 .. Len(q) /\ j - 1 \in 0 .. Len(q) /\ j - 1 \notin T
        /\ Len(b) + j \in 1 .. Len(s) /\ Len(b) + j - 1 = Len(b) + (j - 1)
    BY <1>1, <2>2, <2>3
  <2>5. g[Len(b) + (j - 1)] = h[j - 1]
    BY <2>4
  <2>6. g[Len(b) + j] = g[Len(b) + j - 1] \o s[Len(b) + j].event
    <3>1. PICK x \in 1 .. Len(s) : x = Len(b) + j
      BY <2>4
    <3>2. g[x] = g[x - 1] \o s[x].event
      BY <1>2 DEF Sums
    <3>3. x - 1 = Len(b) + j - 1
      BY <3>1
    <3> QED
      BY <3>1, <3>2, <3>3, Zenon
  <2>7. s[Len(b) + j] = q[j] /\ h[j] = h[j - 1] \o q[j].event
    BY <1>1, <1>3, <2>4 DEF Sums
  <2>8. g[Len(b) + j] = h[j]
    BY <2>4, <2>5, <2>6, <2>7
  <2> QED
    BY <2>2, <2>8
<1>6. Len(q) \in 0 .. Len(q)
  BY <1>1
<1>7. g[Len(s)] = h[Len(q)]
  BY <1>1, <1>5, <1>6
<1> QED
  BY <1>2, <1>3, <1>7 DEF s
-----------------------------------------------------------------------------
(* The rounds of a drain: the recursive function of Drain.                 *)
Rounds(g, buf, n) == g = [i \in 0 .. n |-> IF i = 0 THEN Undrained(buf) ELSE Round(g[i - 1])]

LEMMA RoundsExist ==
    ASSUME NEW buf, NEW m \in Nat
    PROVE  \E g : Rounds(g, buf, m)
<1> DEFINE T == {n \in Nat : ~\E g : Rounds(g, buf, n)}
<1>1. SUFFICES ASSUME T # {} PROVE FALSE
  OBVIOUS
<1>2. PICK n \in T : \A k \in T : n <= k
  <2>1. T \subseteq Nat /\ T # {}
    BY <1>1
  <2> HIDE DEF T
  <2> QED
    BY <2>1, SmallestExists
<1>3. CASE n = 0
  <2> DEFINE h == [i \in 0 .. 0 |-> Undrained(buf)]
  <2>1. h = [i \in 0 .. 0 |-> IF i = 0 THEN Undrained(buf) ELSE Round(h[i - 1])]
    OBVIOUS
  <2> QED
    BY <1>2, <1>3, <2>1 DEF Rounds
<1>4. CASE n # 0
  <2>1. n \in Nat /\ n - 1 \in Nat /\ n - 1 \notin T
    BY <1>2, <1>4
  <2>2. PICK g : Rounds(g, buf, n - 1)
    BY <2>1
  <2> DEFINE h == [i \in 0 .. n |-> IF i = n THEN Round(g[n - 1]) ELSE g[i]]
             next == [i \in 0 .. n |-> IF i = 0 THEN Undrained(buf) ELSE Round(h[i - 1])]
  <2>3. ASSUME NEW i \in 0 .. n PROVE h[i] = next[i]
    <3>1. \A j \in 0 .. n - 1 :
            g[j] = (IF j = 0 THEN Undrained(buf) ELSE Round(g[j - 1])) /\ h[j] = g[j]
      BY <2>1, <2>2 DEF Rounds
    <3>2. CASE i = n
      <4>1. h[n] = Round(g[n - 1]) /\ h[n - 1] = g[n - 1]
        BY <2>1, <3>1
      <4> QED
        BY <1>4, <3>2, <4>1
    <3>3. CASE i # n
      <4>1. i \in 0 .. n - 1 /\ (i # 0 => i - 1 \in 0 .. n - 1)
        BY <2>1, <3>3
      <4> QED
        BY <3>1, <4>1
    <3> QED
      BY <3>2, <3>3
  <2>4. h = next
    BY <2>3
  <2>5. Rounds(h, buf, n)
    BY <2>4 DEF Rounds
  <2> HIDE DEF h
  <2> QED
    BY <1>2, <2>5
<1> QED
  BY <1>3, <1>4

DrainsBy(g, buf) == g[0] = Undrained(buf) /\ \A i \in 1 .. Len(buf) : g[i] = Round(g[i - 1])

LEMMA DrainIs ==
    ASSUME NEW S, NEW buf \in Seq(S)
    PROVE  \E g : Drain(buf) = g[Len(buf)] /\ DrainsBy(g, buf)
<1> DEFINE g == CHOOSE f : Rounds(f, buf, Len(buf))
<1>1. Len(buf) \in Nat
  OBVIOUS
<1>2. Rounds(g, buf, Len(buf))
  BY <1>1, RoundsExist
<1>3. Drain(buf) = g[Len(buf)]
  BY DEF Drain, Rounds
<1> HIDE DEF g
<1>4. DrainsBy(g, buf)
  BY <1>1, <1>2 DEF Rounds, DrainsBy
<1> QED
  BY <1>3, <1>4
(* The events of a beginning.                                              *)
LEMMA EventsOfUpto ==
    ASSUME NEW s \in Seq(Cells), NEW g, Sums(g, s), NEW n \in Nat, n <= Len(s)
    PROVE  EventsOf(Upto(s, n)) = g[n]
<1> DEFINE u == Upto(s, n)
<1>1. u \in Seq(Cells) /\ Len(u) = n /\ \A i \in 1 .. n : u[i] = s[i]
  BY DEF Upto
<1> HIDE DEF u
<1>2. PICK h : EventsOf(u) = h[Len(u)] /\ Sums(h, u)
  BY <1>1, EventsOfIs
<1> DEFINE T == {j \in 0 .. n : g[j] # h[j]}
<1>3. T = {}
  <2>1. SUFFICES ASSUME T # {} PROVE FALSE
    OBVIOUS
  <2>2. PICK j \in T : \A k \in T : j <= k
    <3>1. T \subseteq Nat /\ T # {}
      BY <2>1
    <3> HIDE DEF T
    <3> QED
      BY <3>1, SmallestExists
  <2>3. j # 0
    BY <1>2, <2>2 DEF Sums
  <2>4. j \in 1 .. n /\ j \in 1 .. Len(s) /\ j - 1 \in 0 .. n /\ j - 1 \notin T
    BY <2>2, <2>3
  <2>5. g[j] = g[j - 1] \o s[j].event /\ h[j] = h[j - 1] \o u[j].event /\ u[j] = s[j]
    BY <1>1, <1>2, <2>4 DEF Sums
  <2>6. g[j - 1] = h[j - 1]
    BY <2>4
  <2>7. g[j] = h[j]
    BY <2>5, <2>6
  <2> QED
    BY <2>2, <2>7
<1>4. n \in 0 .. n
  OBVIOUS
<1>5. h[n] = g[n]
  BY <1>3, <1>4
<1> QED
  BY <1>1, <1>2, <1>5 DEF u

(* A round takes the next message, if there is one.                        *)
LEMMA RoundFound ==
    ASSUME NEW events, NEW buf, NEW f, NEW rest,
           Pop(buf) = [found |-> TRUE, frame |-> f, rest |-> rest]
    PROVE  Round([events |-> events, rest |-> buf]) =
               [events |-> Append(events, Parse(f)), rest |-> rest]
BY DEF Round

LEMMA RoundText ==
    ASSUME NEW s \in Seq(Cells), Stream(s), NEW n \in Nat, n <= Len(s),
           NEW g, Sums(g, s), NEW c \in 0 .. n, c = 0 \/ s[c].event # <<>>
    PROVE  \E x \in c .. n :
             /\ x = 0 \/ s[x].event # <<>>
             /\ x = c => NoEvents(s, c + 1, n)
             /\ Round([events |-> g[c], rest |-> Text(s, c + 1, n)]) =
                    [events |-> g[x], rest |-> Text(s, x + 1, n)]
<1> DEFINE t == From(s, c + 1)
<1>0. c \in 0 .. Len(s)
  OBVIOUS
<1>m. PICK m \in Nat : m = n - c
  OBVIOUS
<1>1. /\ t \in Seq(Cells) /\ Len(t) = Len(s) - c
      /\ \A i \in 1 .. Len(s) - c : t[i] = s[c + i]
      /\ Stream(t)
  BY <1>0, BehindIs, BehindEvent
<1> HIDE DEF t
<1>2. ASSUME NEW i \in Int, NEW i2 \in Int, i2 = i - c, i2 >= 1
      PROVE  Text(s, i, n) = Text(t, i2, m)
  <2>1. PICK d \in Int : d = c
    BY <1>0
  <2>2. Moved(t, s, i2, m, d)
    <3>1. ASSUME NEW x \in i2 .. m PROVE s[x + d] = t[x]
      <4>1. x \in 1 .. Len(s) - c /\ x + d = c + x
        BY <1>m, <1>2, <2>1
      <4> QED
        BY <1>1, <4>1
    <3> QED
      BY <3>1 DEF Moved
  <2>3. i = i2 + d /\ n = m + d
    <3>1. c \in Int
      OBVIOUS
    <3>2. i = i2 + d
      BY <1>2, <2>1, <3>1
    <3>3. n = m + d
      BY <1>m, <2>1, <3>1
    <3> QED
      BY <3>2, <3>3
  <2>4. Text(s, i, n) = Text(t, i2, m)
    BY <2>2, <2>3, TextMoved
  <2> QED
    BY <2>1, <2>4
<1>3. Text(s, c + 1, n) = Text(t, 1, m)
  BY <1>2
<1> DEFINE T == {x \in c + 1 .. n : s[x].event # <<>>}
<1>4. CASE T = {}
  <2>1. NoEvents(s, c + 1, n)
    BY <1>4 DEF NoEvents
  <2>2. NoEvents(t, 1, m)
    <3> SUFFICES ASSUME NEW i \in 1 .. m PROVE t[i].event = <<>>
      BY DEF NoEvents
    <3>1. c + i \in c + 1 .. n /\ i \in 1 .. Len(s) - c
      BY <1>0, <1>m
    <3>2. t[i] = s[c + i] /\ s[c + i].event = <<>>
      BY <1>1, <1>4, <3>1
    <3> QED
      BY <3>2
  <2>3. m <= Len(t)
    BY <1>1, <1>m
  <2> DEFINE b == Text(t, 1, m)
  <2>4. Pop(b) = [found |-> FALSE, frame |-> <<>>, rest |-> b]
    BY <1>0, <1>1, <2>2, <2>3, PopNothing
  <2> HIDE DEF b
  <2>5. Round([events |-> g[c], rest |-> b]) = [events |-> g[c], rest |-> b]
    BY <2>4 DEF Round
  <2>6. Round([events |-> g[c], rest |-> Text(s, c + 1, n)]) =
            [events |-> g[c], rest |-> Text(s, c + 1, n)]
    BY <1>3, <2>5 DEF b
  <2>7. c \in c .. n
    OBVIOUS
  <2> QED
    BY <2>1, <2>6, <2>7, Zenon
<1>5. CASE T # {}
  <2>1. PICK x \in T : \A y \in T : x <= y
    <3>1. T \subseteq Nat
      OBVIOUS
    <3> HIDE DEF T
    <3> QED
      BY <1>5, <3>1, SmallestExists
  <2>2. x \in c + 1 .. n /\ s[x].event # <<>> /\ x - 1 \in Nat
    BY <2>1
  <2>3. NoEvents(s, c + 1, x - 1)
    <3> SUFFICES ASSUME NEW y \in c + 1 .. x - 1, s[y].event # <<>> PROVE FALSE
      BY DEF NoEvents
    <3>1. y \in T
      BY <2>2
    <3> QED
      BY <2>1, <2>2, <3>1
  <2>4. PICK e \in Nat \ {0} : e = x - c
    BY <2>2
  <2>5. t[e] = s[x] /\ e <= m /\ m <= Len(t)
    <3>1. c + e = x /\ e \in 1 .. Len(s) - c
      BY <2>2, <2>4
    <3>2. t[e] = s[x]
      BY <1>1, <3>1
    <3>3. c \in Int /\ x <= n
      BY <2>2
    <3>4. e <= m
      BY <1>m, <2>4, <3>3
    <3>5. m <= Len(t)
      BY <1>1, <1>m, <3>3
    <3> QED
      BY <3>2, <3>4, <3>5
  <2>6. NoEvents(t, 1, e - 1)
    <3> SUFFICES ASSUME NEW i \in 1 .. e - 1 PROVE t[i].event = <<>>
      BY DEF NoEvents
    <3>1. c + i \in c + 1 .. x - 1 /\ i \in 1 .. Len(s) - c
      BY <2>2, <2>4
    <3>2. t[i] = s[c + i] /\ s[c + i].event = <<>>
      BY <1>1, <2>3, <3>1 DEF NoEvents
    <3> QED
      BY <3>2
  <2>7. PICK f : /\ Pop(Text(t, 1, m)) =
                     [found |-> TRUE, frame |-> f, rest |-> Text(t, e + 1, m)]
                 /\ t[e].event = <<Parse(f)>>
    <3>1. t[e].event # <<>>
      BY <2>2, <2>5
    <3> QED
      BY <1>1, <2>5, <2>6, <3>1, PopFrame
  <2>8. Text(t, e + 1, m) = Text(s, x + 1, n)
    <3>1. x + 1 \in Int /\ e + 1 \in Int /\ e + 1 = (x + 1) - c /\ e + 1 >= 1
      BY <2>2, <2>4
    <3> QED
      BY <1>2, <3>1
  <2>9. Append(g[c], Parse(f)) = g[x]
    <3>1. g[x - 1] = g[c]
      <4>1. c <= x - 1 /\ x - 1 <= Len(s) /\ c \in Nat
        BY <2>2
      <4> QED
        BY <2>2, <2>3, <4>1, EventsFlat
    <3>2. g[x] = g[x - 1] \o s[x].event
      <4>1. x \in 1 .. Len(s)
        BY <2>2
      <4> QED
        BY <4>1 DEF Sums
    <3>3. g[c] \in Seq(Events)
      BY <1>0, EventsTyped
    <3>4. g[x] = g[c] \o <<Parse(f)>>
      BY <2>5, <2>7, <3>1, <3>2
    <3> QED
      BY <3>3, <3>4
  <2>10. Round([events |-> g[c], rest |-> Text(t, 1, m)]) =
             [events |-> g[x], rest |-> Text(s, x + 1, n)]
    BY <2>7, <2>8, <2>9, RoundFound
  <2>11. Round([events |-> g[c], rest |-> Text(s, c + 1, n)]) =
             [events |-> g[x], rest |-> Text(s, x + 1, n)]
    BY <1>3, <2>10
  <2>12. x \in c .. n /\ x # c
    BY <2>2
  <2> QED
    BY <2>2, <2>11, <2>12
<1> QED
  BY <1>4, <1>5

(* A drain hands over the event of every whole message, and leaves what is *)
(* behind the last one.                                                    *)
LEMMA DrainText ==
    ASSUME NEW s \in Seq(Cells), Stream(s), NEW n \in Nat, n <= Len(s)
    PROVE  \E c \in 0 .. n :
             /\ c = 0 \/ s[c].event # <<>>
             /\ NoEvents(s, c + 1, n)
             /\ Drain(Text(s, 1, n)) =
                    [events |-> EventsOf(Upto(s, n)), rest |-> Text(s, c + 1, n)]
             /\ c = 0 => EventsOf(Upto(s, n)) = <<>>
             /\ c # 0 => \E p \in Seq(Events) : EventsOf(Upto(s, n)) = p \o s[c].event
<1> DEFINE buf == Text(s, 1, n)
<1>1. buf \in Seq(STRING) /\ Len(buf) = n
  BY TextUpto
<1>2. PICK ev : Sums(ev, s)
  BY EventsOfIs
<1>3. EventsOf(Upto(s, n)) = ev[n]
  BY <1>2, EventsOfUpto
<1> DEFINE at(c) == [events |-> ev[c], rest |-> Text(s, c + 1, n)]
<1>4. at(0) = Undrained(buf)
  BY <1>2 DEF Undrained, Sums
<1> HIDE DEF buf
<1>5. PICK g : Drain(buf) = g[Len(buf)] /\ DrainsBy(g, buf)
  BY <1>1, DrainIs
<1> DEFINE claim(i) == \E c \in 0 .. n :
                          /\ c = 0 \/ s[c].event # <<>>
                          /\ i <= c \/ NoEvents(s, c + 1, n)
                          /\ g[i] = at(c)
           T == {i \in 0 .. n : ~claim(i)}
<1>6. claim(0)
  <2>1. g[0] = at(0)
    BY <1>4, <1>5 DEF DrainsBy
  <2>2. 0 \in 0 .. n /\ 0 <= 0
    OBVIOUS
  <2> HIDE DEF at
  <2> QED
    BY <2>1, <2>2
<1> HIDE DEF claim
<1>7. T = {}
  <2>1. SUFFICES ASSUME T # {} PROVE FALSE
    OBVIOUS
  <2>2. PICK i \in T : \A k \in T : i <= k
    <3>1. T \subseteq Nat /\ T # {}
      BY <2>1
    <3> HIDE DEF T
    <3> QED
      BY <3>1, SmallestExists
  <2>3. i \in 1 .. n /\ i - 1 \in 0 .. n /\ ~(i <= i - 1)
    <3>1. i # 0
      BY <1>6, <2>2
    <3> QED
      BY <2>2, <3>1
  <2>4. claim(i - 1)
    <3>1. i - 1 \notin T
      BY <2>2, <2>3
    <3> QED
      BY <2>3, <3>1
  <2>5. PICK c \in 0 .. n : /\ c = 0 \/ s[c].event # <<>>
                            /\ i - 1 <= c \/ NoEvents(s, c + 1, n)
                            /\ g[i - 1] = at(c)
    BY <2>4 DEF claim
  <2>6. PICK x \in c .. n : /\ x = 0 \/ s[x].event # <<>>
                            /\ x = c => NoEvents(s, c + 1, n)
                            /\ Round(at(c)) = at(x)
    <3>1. \E x \in c .. n :
             /\ x = 0 \/ s[x].event # <<>>
             /\ x = c => NoEvents(s, c + 1, n)
             /\ Round([events |-> ev[c], rest |-> Text(s, c + 1, n)]) =
                    [events |-> ev[x], rest |-> Text(s, x + 1, n)]
      BY <1>2, <2>5, RoundText
    <3> QED
      BY <3>1
  <2>7. g[i] = at(x)
    <3>1. g[i] = Round(g[i - 1])
      BY <1>1, <1>5, <2>3 DEF DrainsBy
    <3> HIDE DEF at
    <3> QED
      BY <2>5, <2>6, <3>1
  <2>8. i <= x \/ NoEvents(s, x + 1, n)
    <3>1. CASE x = c
      BY <2>6, <3>1
    <3>2. CASE x # c /\ i - 1 <= c
      BY <2>3, <3>2
    <3>3. CASE NoEvents(s, c + 1, n)
      <4>1. \A y \in x + 1 .. n : y \in c + 1 .. n
        OBVIOUS
      <4> QED
        BY <3>3, <4>1 DEF NoEvents
    <3> QED
      BY <2>5, <3>1, <3>2, <3>3
  <2>9. claim(i)
    <3>1. x \in 0 .. n
      OBVIOUS
    <3> HIDE DEF at
    <3> QED
      BY <2>6, <2>7, <2>8, <3>1 DEF claim
  <2> QED
    BY <2>2, <2>9
<1>8. PICK c \in 0 .. n : /\ c = 0 \/ s[c].event # <<>>
                          /\ n <= c \/ NoEvents(s, c + 1, n)
                          /\ g[n] = at(c)
  <2>1. claim(n)
    <3>1. n \in 0 .. n /\ n \notin T
      BY <1>7
    <3> QED
      BY <3>1
  <2> QED
    BY <2>1 DEF claim
<1>9. NoEvents(s, c + 1, n)
  <2>1. CASE n <= c
    BY <2>1 DEF NoEvents
  <2> QED
    BY <1>8, <2>1
<1>10. ev[n] = ev[c]
  <2>1. c \in Nat /\ c <= n
    OBVIOUS
  <2> QED
    BY <1>2, <1>9, <2>1, EventsFlat
<1>11. Drain(buf) = [events |-> ev[n], rest |-> Text(s, c + 1, n)]
  BY <1>1, <1>5, <1>8, <1>10
<1>12. c = 0 => ev[n] = <<>>
  BY <1>2, <1>10 DEF Sums
<1>13. c # 0 => \E p \in Seq(Events) : ev[n] = p \o s[c].event
  <2> SUFFICES ASSUME c # 0 PROVE \E p \in Seq(Events) : ev[n] = p \o s[c].event
    OBVIOUS
  <2>1. c \in 1 .. Len(s) /\ c - 1 \in 0 .. Len(s)
    OBVIOUS
  <2>2. ev[c] = ev[c - 1] \o s[c].event
    BY <1>2, <2>1 DEF Sums
  <2>3. ev[c - 1] \in Seq(Events)
    BY <1>2, <2>1, EventsTyped
  <2> QED
    BY <1>10, <2>2, <2>3
<1> QED
  BY <1>3, <1>8, <1>9, <1>11, <1>12, <1>13 DEF buf
-----------------------------------------------------------------------------
(* The parsers on what the cameras send.                                   *)
Chars == STRING \cup Digits \cup {"(", ")", "E", "A", "f1", "f2", "READY", Comma}
Marks == {"(", ")", "E", "A", "READY", "nl", "Z", "H"}

LEMMA CommaIsNoDigit == Comma \notin Digits
BY Zenon DEF Comma, Digits

LEMMA CommaIsNoMark == Comma \notin Marks
BY Zenon DEF Comma, Marks

LEMMA DigitsAreNoMarks == \A d \in Digits : d \notin Marks
BY DEF Digits, Marks

(* A word of three parts.                                                  *)
Joins(w, a, b, c) ==
    /\ Len(w) = Len(a) + Len(b) + Len(c)
    /\ \A i \in 1 .. Len(a) : w[i] = a[i]
    /\ \A i \in 1 .. Len(b) : w[Len(a) + i] = b[i]
    /\ \A i \in 1 .. Len(c) : w[Len(a) + Len(b) + i] = c[i]

LEMMA Joined ==
    ASSUME NEW S, NEW a \in Seq(S), NEW b \in Seq(S), NEW c \in Seq(S)
    PROVE  a \o b \o c \in Seq(S) /\ Joins(a \o b \o c, a, b, c)
<1> DEFINE w == a \o b \o c
<1>1. w \in Seq(S) /\ Len(w) = Len(a) + Len(b) + Len(c)
  OBVIOUS
<1>2. \A i \in 1 .. Len(a) : w[i] = a[i]
  OBVIOUS
<1>3. \A i \in 1 .. Len(b) : w[Len(a) + i] = b[i]
  OBVIOUS
<1>4. \A i \in 1 .. Len(c) : w[Len(a) + Len(b) + i] = c[i]
  OBVIOUS
<1> HIDE DEF w
<1>5. w \in Seq(S) /\ Joins(w, a, b, c)
  BY <1>1, <1>2, <1>3, <1>4 DEF Joins
<1> QED
  BY <1>5 DEF w

(* What is before the first comma, and what is behind it.                  *)
LEMMA FieldsOf ==
    ASSUME NEW S, NEW t \in Seq(S), NEW n \in Nat, n <= Len(t),
           \A i \in 1 .. n : t[i] # Comma, n = Len(t) \/ t[n + 1] = Comma
    PROVE  /\ FirstField(t) = SubSeq(t, 1, n)
           /\ n = Len(t) => Fields(t) = <<>>
           /\ n # Len(t) => Fields(t) = SubSeq(t, n + 2, Len(t))
<1>1. CASE n = Len(t)
  <2>1. ASSUME NEW j \in Positions(t, <<Comma>>) PROVE FALSE
    <3>1. j \in Int
      BY DEF Positions
    <3>2. j \in 1 .. Len(t) /\ t[j] = Comma
      BY <3>1, PositionsOf1
    <3> QED
      BY <1>1, <3>2
  <2>2. Find(t, <<Comma>>) = 0
    BY <2>1 DEF Find
  <2>3. SubSeq(t, 1, n) = t
    BY <1>1
  <2> QED
    BY <1>1, <2>2, <2>3 DEF FirstField, Fields
<1>2. CASE n # Len(t)
  <2>1. PICK x \in 1 .. Len(t) : x = n + 1
    BY <1>2
  <2>2. x \in Positions(t, <<Comma>>)
    <3>1. t[x] = Comma /\ x \in Int
      BY <1>2, <2>1
    <3> QED
      BY <3>1, PositionsOf1
  <2>3. ASSUME NEW j \in Positions(t, <<Comma>>) PROVE x <= j
    <3>1. j \in Int
      BY DEF Positions
    <3>2. j \in 1 .. Len(t) /\ t[j] = Comma
      BY <3>1, PositionsOf1
    <3> QED
      BY <2>1, <3>2
  <2>4. Positions(t, <<Comma>>) \subseteq Int
    BY DEF Positions
  <2> DEFINE P == Positions(t, <<Comma>>)
  <2> HIDE DEF P
  <2>5. Min(P) = x
    BY <2>2, <2>3, <2>4, MinIs DEF P
  <2>6. Find(t, <<Comma>>) = x
    BY <2>2, <2>5 DEF Find, P
  <2>7. x - 1 = n /\ x + 1 = n + 2 /\ x # 0
    BY <2>1
  <2>8. FirstField(t) = SubSeq(t, 1, n) /\ Fields(t) = SubSeq(t, n + 2, Len(t))
    BY <2>6, <2>7 DEF FirstField, Fields, From, Upto
  <2> QED
    BY <1>2, <2>8
<1> QED
  BY <1>1, <1>2

(* What is between the brackets of ( ... )E.                               *)
LEMMA BodyOf ==
    ASSUME NEW S, NEW s \in Seq(S), Len(s) > 2,
           s[1] = "(", s[Len(s) - 1] = ")", s[Len(s)] = "E"
    PROVE  StripBrackets(StripE(s)) = SubSeq(s, 2, Len(s) - 2)
<1> DEFINE u == SubSeq(s, 1, Len(s) - 1)
<1>1. /\ u \in Seq(S) /\ Len(u) = Len(s) - 1
      /\ \A i \in 1 .. Len(s) - 1 : u[i] = s[i]
  OBVIOUS
<1>2. StripE(s) = u
  BY DEF StripE, Upto
<1> HIDE DEF u
<1>3. Bracketed(u)
  <2>1. 1 \in 1 .. Len(s) - 1 /\ Len(u) \in 1 .. Len(s) - 1
    BY <1>1
  <2> QED
    BY <1>1, <2>1 DEF Bracketed
<1>4. SubSeq(u, 2, Len(u) - 1) = SubSeq(s, 2, Len(s) - 2)
  BY <1>1
<1> QED
  BY <1>2, <1>3, <1>4 DEF StripBrackets, Peel
(* A segment from its first bracket to its E.                              *)
SegmentShape(s, f, count, n) ==
    /\ n # 0 /\ n + 5 <= Len(s)
    /\ s[1] = "(" /\ s[2] = f /\ s[3] = Comma
    /\ \A i \in 1 .. n : s[3 + i] = count[i]
    /\ n + 5 = Len(s) \/ s[n + 4] = Comma
    /\ s[Len(s) - 1] = ")" /\ s[Len(s)] = "E"
    /\ \A i \in 2 .. Len(s) - 2 : s[i] \notin Marks

Flag(arm) == IF arm = 1 THEN "f1" ELSE "f2"

LEMMA CountIsText ==
    ASSUME NEW q, Number(q)
    PROVE  /\ q \in Seq(Chars) /\ Len(q) \in Nat \ {0}
           /\ \A i \in 1 .. Len(q) : q[i] # Comma /\ q[i] \notin Marks
<1>1. q \in Seq(Digits) /\ q # <<>>
  BY DEF Number
<1>2. \A i \in 1 .. Len(q) : q[i] \in Digits
  BY <1>1
<1>3. q \in Seq(Chars)
  BY <1>1 DEF Chars
<1> QED
  BY <1>1, <1>2, <1>3, CommaIsNoDigit, DigitsAreNoMarks

LEMMA SegmentIs ==
    ASSUME NEW s \in Seq(STRING), NEW segment, IsSegment(s, segment)
    PROVE  /\ segment = [arm |-> segment.arm, count |-> segment.count]
           /\ segment.arm \in {1, 2} /\ Number(segment.count)
           /\ SegmentShape(s, Flag(segment.arm), segment.count, Len(segment.count))
<1> DEFINE f == Flag(segment.arm)
           q == segment.count
           n == Len(q)
           head == <<"(", f, Comma>> \o q
           more == SubSeq(s, Len(head) + 1, Len(s) - 2)
           tail == <<")", "E">>
<1>1. /\ segment = [arm |-> segment.arm, count |-> segment.count]
      /\ segment.arm \in {1, 2} /\ Number(q)
      /\ s = head \o more \o tail
      /\ Plain(more) /\ (more # <<>> => more[1] = Comma)
  BY DEF IsSegment, Flag
<1>2. f \in {"f1", "f2"} /\ f \in Chars /\ f \notin Marks
  BY <1>1 DEF Flag, Chars, Marks
<1>3. q \in Seq(Chars) /\ n \in Nat \ {0} /\ \A i \in 1 .. n : q[i] \notin Marks
  BY <1>1, CountIsText
<1> HIDE DEF f, q
<1>4. /\ <<"(", f, Comma>> \in Seq(Chars) /\ Len(<<"(", f, Comma>>) = 3
      /\ <<"(", f, Comma>>[1] = "(" /\ <<"(", f, Comma>>[2] = f /\ <<"(", f, Comma>>[3] = Comma
  <2>1. "(" \in Chars /\ Comma \in Chars
    BY DEF Chars
  <2> QED
    BY <1>2, <2>1
<1>5. /\ head \in Seq(Chars) /\ Len(head) = n + 3
      /\ head[1] = "(" /\ head[2] = f /\ head[3] = Comma
      /\ \A i \in 1 .. n : head[3 + i] = q[i]
  BY <1>3, <1>4
<1> HIDE DEF n, head
<1>6. more \in Seq(Chars) /\ \A i \in 1 .. Len(more) : more[i] \notin Marks
  <2>1. more \in Seq(STRING) /\ \A i \in 1 .. Len(more) : more[i] \notin Marks
    BY <1>1 DEF Plain, Marks
  <2> HIDE DEF more
  <2> QED
    BY <2>1 DEF Chars
<1> HIDE DEF more
<1>7. tail \in Seq(Chars) /\ Len(tail) = 2 /\ tail[1] = ")" /\ tail[2] = "E"
  BY DEF Chars
<1> HIDE DEF tail
<1>8. /\ Len(s) = n + 3 + Len(more) + 2
      /\ \A i \in 1 .. n + 3 : s[i] = head[i]
      /\ \A i \in 1 .. Len(more) : s[n + 3 + i] = more[i]
      /\ \A i \in 1 .. 2 : s[n + 3 + Len(more) + i] = tail[i]
  <2> DEFINE w == head \o more \o tail
  <2>1. /\ Len(w) = Len(head) + Len(more) + Len(tail)
        /\ \A i \in 1 .. Len(head) : w[i] = head[i]
        /\ \A i \in 1 .. Len(more) : w[Len(head) + i] = more[i]
        /\ \A i \in 1 .. Len(tail) : w[Len(head) + Len(more) + i] = tail[i]
    <3>1. head \in Seq(Chars) /\ more \in Seq(Chars) /\ tail \in Seq(Chars)
      BY <1>5, <1>6, <1>7
    <3> QED
      BY <3>1
  <2>2. s = w
    BY <1>1
  <2> HIDE DEF w
  <2> QED
    BY <1>5, <1>7, <2>1, <2>2
<1>9. Len(more) \in Nat /\ n \in Nat \ {0}
  BY <1>3, <1>6 DEF n
<1>10. n + 5 <= Len(s) /\ (n + 5 = Len(s) <=> more = <<>>)
  BY <1>6, <1>8, <1>9
<1>11. s[1] = "(" /\ s[2] = f /\ s[3] = Comma
  BY <1>5, <1>8, <1>9
<1>12. \A i \in 1 .. n : s[3 + i] = q[i]
  BY <1>5, <1>8, <1>9
<1>13. n + 5 = Len(s) \/ s[n + 4] = Comma
  <2> SUFFICES ASSUME more # <<>> PROVE s[n + 4] = Comma
    BY <1>10
  <2>1. 1 \in 1 .. Len(more) /\ n + 3 + 1 = n + 4
    BY <1>6, <1>9
  <2>2. s[n + 3 + 1] = more[1]
    BY <1>8, <2>1
  <2> QED
    BY <1>1, <2>1, <2>2
<1>14. s[Len(s) - 1] = ")" /\ s[Len(s)] = "E"
  <2>1. Len(s) - 1 = n + 3 + Len(more) + 1 /\ Len(s) = n + 3 + Len(more) + 2
    BY <1>8, <1>9
  <2> QED
    BY <1>7, <1>8, <2>1
<1>15. ASSUME NEW i \in 2 .. Len(s) - 2 PROVE s[i] \notin Marks
  <2>1. CASE i = 2
    BY <1>2, <1>11, <2>1
  <2>2. CASE i = 3
    BY <1>11, <2>2, CommaIsNoMark
  <2>3. CASE i \in 4 .. n + 3
    <3>1. i - 3 \in 1 .. n /\ 3 + (i - 3) = i
      BY <1>9, <2>3
    <3>2. s[i] = q[i - 3]
      BY <1>12, <3>1
    <3> QED
      BY <1>3, <3>1, <3>2
  <2>4. CASE i > n + 3
    <3>1. i - (n + 3) \in 1 .. Len(more) /\ n + 3 + (i - (n + 3)) = i
      BY <1>8, <1>9, <2>4
    <3>2. s[i] = more[i - (n + 3)]
      BY <1>8, <3>1
    <3> QED
      BY <1>6, <3>1, <3>2
  <2> QED
    BY <1>9, <2>1, <2>2, <2>3, <2>4
<1>16. SegmentShape(s, f, q, n)
  BY <1>9, <1>10, <1>11, <1>12, <1>13, <1>14, <1>15 DEF SegmentShape
<1> QED
  BY <1>1, <1>16 DEF f, q, n

LEMMA SegmentParsed ==
    ASSUME NEW s \in Seq(STRING), NEW segment, IsSegment(s, segment)
    PROVE  ParseSegment(s) = segment
<1> DEFINE f == Flag(segment.arm)
           q == segment.count
           n == Len(q)
<1>1. /\ segment = [arm |-> segment.arm, count |-> q]
      /\ segment.arm \in {1, 2} /\ Number(q) /\ SegmentShape(s, f, q, n)
  BY SegmentIs
<1>2. f = (IF segment.arm = 1 THEN "f1" ELSE "f2")
  BY DEF Flag
<1>3. q \in Seq(Chars) /\ n \in Nat \ {0} /\ \A i \in 1 .. n : q[i] # Comma
  BY <1>1, CountIsText
<1> HIDE DEF f, q, n
<1>4. f # Comma
  BY <1>2, Zenon DEF Comma
<1> DEFINE body == SubSeq(s, 2, Len(s) - 2)
<1>5. StripBrackets(StripE(s)) = body
  BY <1>1, <1>3, BodyOf DEF SegmentShape
<1>6. /\ body \in Seq(STRING) /\ Len(body) = Len(s) - 3 /\ Len(body) >= n + 2
      /\ \A i \in 1 .. Len(s) - 3 : body[i] = s[i + 1]
  BY <1>1, <1>3 DEF SegmentShape
<1>7. /\ body[1] = f /\ body[2] = Comma
      /\ n + 2 = Len(body) \/ body[n + 3] = Comma
      /\ \A i \in 1 .. n : body[i + 2] = q[i]
  <2>1. \A i \in 1 .. n : i + 2 \in 1 .. Len(s) - 3 /\ i + 2 + 1 = 3 + i
    BY <1>3, <1>6
  <2>2. n + 2 # Len(body) => n + 3 \in 1 .. Len(s) - 3 /\ n + 3 + 1 = n + 4 /\ n + 5 # Len(s)
    BY <1>3, <1>6
  <2>3. 1 \in 1 .. Len(s) - 3 /\ 2 \in 1 .. Len(s) - 3
    BY <1>3, <1>6
  <2> QED
    BY <1>1, <1>6, <2>1, <2>2, <2>3 DEF SegmentShape
<1> HIDE DEF body
<1> DEFINE behind == SubSeq(body, 3, Len(body))
<1>8. FirstField(body) = <<f>> /\ Fields(body) = behind
  <2>1. PICK one \in Nat : one = 1
    OBVIOUS
  <2>2. /\ one <= Len(body) /\ \A i \in 1 .. one : body[i] # Comma
        /\ body[one + 1] = Comma /\ one # Len(body)
    <3>1. one + 1 = 2 /\ Len(body) >= 3
      BY <1>3, <1>6, <2>1
    <3>2. \A i \in 1 .. one : i = 1
      BY <2>1
    <3> QED
      BY <1>4, <1>7, <2>1, <3>1, <3>2
  <2>3. FirstField(body) = SubSeq(body, 1, one) /\ Fields(body) = SubSeq(body, one + 2, Len(body))
    BY <1>6, <2>2, FieldsOf
  <2>4. SubSeq(body, 1, 1) = <<f>>
    <3>1. SubSeq(body, 1, 1) \in Seq(STRING) /\ Len(SubSeq(body, 1, 1)) = 1
          /\ SubSeq(body, 1, 1)[1] = f
      BY <1>3, <1>6, <1>7
    <3> QED
      BY <3>1, OneOf
  <2> QED
    BY <2>1, <2>3, <2>4
<1>9. /\ behind \in Seq(STRING) /\ Len(behind) = Len(body) - 2
      /\ \A i \in 1 .. Len(body) - 2 : behind[i] = body[i + 2]
  BY <1>3, <1>6
<1> HIDE DEF behind
<1>10. FirstField(behind) = q
  <2>1. n <= Len(behind) /\ \A i \in 1 .. n : behind[i] = q[i]
    BY <1>3, <1>6, <1>7, <1>9
  <2>2. n = Len(behind) \/ behind[n + 1] = Comma
    <3> SUFFICES ASSUME n # Len(behind) PROVE behind[n + 1] = Comma
      OBVIOUS
    <3>1. n + 1 \in 1 .. Len(body) - 2 /\ n + 1 + 2 = n + 3 /\ n + 2 # Len(body)
      BY <1>3, <1>6, <1>9, <2>1
    <3> QED
      BY <1>7, <1>9, <3>1
  <2>3. FirstField(behind) = SubSeq(behind, 1, n)
    BY <1>3, <1>9, <2>1, <2>2, FieldsOf
  <2>4. SubSeq(behind, 1, n) = q
    BY <1>3, <1>9, <2>1 DEF n
  <2> QED
    BY <2>3, <2>4
<1>11. ParseSegment(s) = [arm |-> IF <<f>> = <<"f1">> THEN 1 ELSE 2, count |-> q]
  <2>1. <<f>> \in {<<"f1">>, <<"f2">>}
    BY <1>2
  <2> QED
    BY <1>1, <1>5, <1>8, <1>10, <2>1 DEF ParseSegment
<1>12. segment.arm = (IF <<f>> = <<"f1">> THEN 1 ELSE 2)
  <2>1. "f1" # "f2"
    OBVIOUS
  <2>2. <<f>> = <<"f1">> <=> f = "f1"
    OBVIOUS
  <2> QED
    BY <1>1, <1>2, <2>1, <2>2
<1> QED
  BY <1>1, <1>11, <1>12
(* A 2D result: what is between its brackets is a count, or a count and a  *)
(* type.                                                                   *)
ResultShape(s, count, type, n) ==
    /\ n # 0 /\ s[1] = "("
    /\ \A i \in 1 .. n : s[1 + i] = count[i]
    /\ \/ n + 3 = Len(s) /\ type = NoType
       \/ /\ type # <<>> /\ n + 4 + Len(type) = Len(s) /\ s[n + 2] = Comma
          /\ \A i \in 1 .. Len(type) : s[n + 2 + i] = type[i]
    /\ s[Len(s) - 1] = ")" /\ s[Len(s)] = "E"
    /\ \A i \in 2 .. Len(s) - 2 : s[i] \notin Marks

LEMMA ResultIs ==
    ASSUME NEW m, IsResultMessage(m)
    PROVE  LET e == m.event[1] IN
           /\ m.event = <<Result(e.count, e.type)>>
           /\ Number(e.count) /\ e.type \in Seq(STRING)
           /\ ResultShape(m.bytes, e.count, e.type, Len(e.count))
<1> DEFINE q == m.event[1].count
           type == m.event[1].type
           s == m.bytes
           n == Len(q)
           tail == <<")", "E">>
           open == <<"(">>
           comma == <<Comma>>
<1>1. /\ m.event = <<Result(q, type)>> /\ Number(q) /\ Plain(type)
      /\ \/ type = NoType /\ s = open \o q \o tail
         \/ type # <<>> /\ s = open \o q \o comma \o type \o tail
  BY DEF IsResultMessage
<1>2. q \in Seq(Chars) /\ n \in Nat \ {0} /\ \A i \in 1 .. n : q[i] \notin Marks
  BY <1>1, CountIsText
<1>3. type \in Seq(STRING) /\ type \in Seq(Chars) /\ \A i \in 1 .. Len(type) : type[i] \notin Marks
  <2>1. type \in Seq(STRING) /\ \A i \in 1 .. Len(type) : type[i] \notin Marks
    BY <1>1 DEF Plain, Marks
  <2> HIDE DEF type
  <2> QED
    BY <2>1 DEF Chars
<1> HIDE DEF q, type, s
<1>4. /\ tail \in Seq(Chars) /\ Len(tail) = 2 /\ tail[1] = ")" /\ tail[2] = "E"
      /\ open \in Seq(Chars) /\ Len(open) = 1 /\ open[1] = "("
      /\ comma \in Seq(Chars) /\ Len(comma) = 1 /\ comma[1] = Comma
  BY DEF Chars
<1>5. n \in Nat \ {0} /\ Len(type) \in Nat
  BY <1>2, <1>3
<1> HIDE DEF n, tail, open, comma
<1>6. CASE type = NoType /\ s = open \o q \o tail
  <2> DEFINE w == open \o q \o tail
  <2>1. /\ Len(w) = n + 3 /\ w[1] = "("
        /\ \A i \in 1 .. n : w[1 + i] = q[i]
        /\ w[n + 2] = ")" /\ w[n + 3] = "E"
    <3>1. w \in Seq(Chars) /\ Joins(w, open, q, tail)
      BY <1>2, <1>4, Joined
    <3> HIDE DEF w
    <3>2. /\ Len(w) = n + 3 /\ w[1] = "("
          /\ \A i \in 1 .. n : w[1 + i] = q[i]
      BY <1>4, <1>5, <3>1 DEF Joins, n
    <3>3. \A i \in 1 .. 2 : w[1 + n + i] = tail[i]
      BY <1>4, <3>1 DEF Joins, n
    <3>4. 1 + n + 1 = n + 2 /\ 1 + n + 2 = n + 3
      BY <1>5
    <3> QED
      BY <1>4, <3>2, <3>3, <3>4
  <2> HIDE DEF w
  <2>2. /\ Len(s) = n + 3 /\ s[1] = "("
        /\ \A i \in 1 .. n : s[1 + i] = q[i]
        /\ s[n + 2] = ")" /\ s[n + 3] = "E"
    BY <1>6, <2>1 DEF w
  <2>3. ASSUME NEW i \in 2 .. Len(s) - 2 PROVE s[i] \notin Marks
    <3>1. i - 1 \in 1 .. n /\ 1 + (i - 1) = i
      BY <1>5, <2>2
    <3>2. s[i] = q[i - 1]
      BY <2>2, <3>1
    <3> QED
      BY <1>2, <3>1, <3>2
  <2>4. Len(s) - 1 = n + 2 /\ Len(s) = n + 3
    BY <1>5, <2>2
  <2>5. ResultShape(s, q, type, n)
    BY <1>5, <1>6, <2>2, <2>3, <2>4 DEF ResultShape
  <2> QED
    BY <1>1, <1>3, <2>5 DEF q, type, s, n
<1>7. CASE type # <<>> /\ s = open \o q \o comma \o type \o tail
  <2> DEFINE w == open \o q \o comma
             v == w \o type \o tail
  <2>1. /\ w \in Seq(Chars) /\ Len(w) = n + 2 /\ w[1] = "("
        /\ \A i \in 1 .. n : w[1 + i] = q[i]
        /\ w[n + 2] = Comma
    <3>1. w \in Seq(Chars) /\ Joins(w, open, q, comma)
      BY <1>2, <1>4, Joined
    <3> HIDE DEF w
    <3>2. /\ Len(w) = n + 2 /\ w[1] = "("
          /\ \A i \in 1 .. n : w[1 + i] = q[i]
      BY <1>4, <1>5, <3>1 DEF Joins, n
    <3>3. \A i \in 1 .. 1 : w[1 + n + i] = comma[i]
      BY <1>4, <3>1 DEF Joins, n
    <3>4. 1 + n + 1 = n + 2
      BY <1>5
    <3> QED
      BY <1>4, <3>1, <3>2, <3>3, <3>4
  <2> HIDE DEF w
  <2>2. /\ Len(v) = n + 4 + Len(type)
        /\ \A i \in 1 .. n + 2 : v[i] = w[i]
        /\ \A i \in 1 .. Len(type) : v[n + 2 + i] = type[i]
        /\ v[n + 3 + Len(type)] = ")" /\ v[n + 4 + Len(type)] = "E"
    <3>1. Joins(v, w, type, tail)
      BY <1>3, <1>4, <2>1, Joined
    <3> HIDE DEF v
    <3>2. /\ Len(v) = n + 4 + Len(type)
          /\ \A i \in 1 .. n + 2 : v[i] = w[i]
          /\ \A i \in 1 .. Len(type) : v[n + 2 + i] = type[i]
      BY <1>4, <1>5, <2>1, <3>1 DEF Joins
    <3>3. \A i \in 1 .. 2 : v[n + 2 + Len(type) + i] = tail[i]
      BY <1>4, <2>1, <3>1 DEF Joins
    <3>4. n + 2 + Len(type) + 1 = n + 3 + Len(type) /\ n + 2 + Len(type) + 2 = n + 4 + Len(type)
      BY <1>5
    <3> QED
      BY <1>4, <3>2, <3>3, <3>4
  <2>3. s = v
    BY <1>7 DEF w
  <2> HIDE DEF v
  <2>4. /\ Len(s) = n + 4 + Len(type) /\ s[1] = "("
        /\ \A i \in 1 .. n : s[1 + i] = q[i]
        /\ s[n + 2] = Comma
        /\ \A i \in 1 .. Len(type) : s[n + 2 + i] = type[i]
        /\ s[n + 3 + Len(type)] = ")" /\ s[n + 4 + Len(type)] = "E"
    <3>1. 1 \in 1 .. n + 2 /\ n + 2 \in 1 .. n + 2 /\ \A i \in 1 .. n : 1 + i \in 1 .. n + 2
      BY <1>5
    <3> QED
      BY <2>1, <2>2, <2>3, <3>1
  <2>5. ASSUME NEW i \in 2 .. Len(s) - 2 PROVE s[i] \notin Marks
    <3>1. CASE i <= n + 1
      <4>1. i - 1 \in 1 .. n /\ 1 + (i - 1) = i
        BY <1>5, <3>1
      <4>2. s[i] = q[i - 1]
        BY <2>4, <4>1
      <4> QED
        BY <1>2, <4>1, <4>2
    <3>2. CASE i = n + 2
      BY <2>4, <3>2, CommaIsNoMark
    <3>3. CASE i > n + 2
      <4>1. i - (n + 2) \in 1 .. Len(type) /\ n + 2 + (i - (n + 2)) = i
        BY <1>5, <2>4, <3>3
      <4>2. s[i] = type[i - (n + 2)]
        BY <2>4, <4>1
      <4> QED
        BY <1>3, <4>1, <4>2
    <3> QED
      BY <1>5, <3>1, <3>2, <3>3
  <2>6. Len(s) - 1 = n + 3 + Len(type) /\ Len(s) = n + 4 + Len(type)
    BY <1>5, <2>4
  <2>7. ResultShape(s, q, type, n)
    BY <1>5, <1>7, <2>4, <2>5, <2>6 DEF ResultShape
  <2> QED
    BY <1>1, <1>3, <2>7 DEF q, type, s, n
<1> QED
  BY <1>1, <1>6, <1>7

LEMMA ResultParsed ==
    ASSUME NEW m, m.bytes \in Seq(STRING), IsResultMessage(m)
    PROVE  m.event = <<Parse2d(m.bytes)>> /\ m.event # <<Ready>>
<1> DEFINE q == m.event[1].count
           type == m.event[1].type
           s == m.bytes
           n == Len(q)
<1>1. /\ m.event = <<Result(q, type)>> /\ Number(q) /\ type \in Seq(STRING)
      /\ ResultShape(s, q, type, n)
  BY ResultIs
<1>2. /\ q \in Seq(Chars) /\ n \in Nat \ {0}
      /\ \A i \in 1 .. n : q[i] # Comma /\ q[i] \notin Marks
  BY <1>1, CountIsText
<1>3. s \in Seq(STRING)
  OBVIOUS
<1> HIDE DEF q, type, s, n
<1>4. Len(s) >= n + 3 /\ Len(type) \in Nat
  BY <1>1, <1>2, <1>3 DEF ResultShape
<1> DEFINE body == SubSeq(s, 2, Len(s) - 2)
<1>5. StripBrackets(StripE(s)) = body
  <2>1. Len(s) > 2
    BY <1>2, <1>4
  <2> QED
    BY <1>1, <1>3, <2>1, BodyOf DEF ResultShape
<1>6. /\ body \in Seq(STRING) /\ Len(body) = Len(s) - 3 /\ Len(body) >= n
      /\ \A i \in 1 .. Len(s) - 3 : body[i] = s[i + 1]
  BY <1>2, <1>3, <1>4
<1> HIDE DEF body
<1>7. \A i \in 1 .. n : body[i] = q[i]
  <2>1. \A i \in 1 .. n : i \in 1 .. Len(s) - 3 /\ i + 1 = 1 + i
    BY <1>2, <1>6
  <2> QED
    BY <1>1, <1>6, <2>1 DEF ResultShape
<1>8. SubSeq(body, 1, n) = q
  BY <1>2, <1>6, <1>7 DEF n
<1> DEFINE given == IF Fields(body) = <<>> THEN NoType ELSE Fields(body)
<1>9. ASSUME n + 3 = Len(s), type = NoType PROVE FirstField(body) = q /\ given = type
  <2>1. n = Len(body) /\ n <= Len(body) /\ \A i \in 1 .. n : body[i] # Comma
    BY <1>2, <1>6, <1>7, <1>9
  <2>2. FirstField(body) = SubSeq(body, 1, n) /\ Fields(body) = <<>>
    BY <1>2, <1>6, <2>1, FieldsOf
  <2>3. FirstField(body) = q
    BY <1>8, <2>2
  <2> QED
    BY <1>9, <2>2, <2>3
<1>10. ASSUME /\ type # <<>> /\ n + 4 + Len(type) = Len(s) /\ s[n + 2] = Comma
              /\ \A i \in 1 .. Len(type) : s[n + 2 + i] = type[i]
       PROVE  FirstField(body) = q /\ given = type
  <2>0. Len(type) \in Nat \ {0} /\ n \in Nat /\ Len(s) \in Nat
    BY <1>1, <1>2, <1>3, <1>10
  <2>a. Len(body) = Len(s) - 3 /\ Len(body) \in Nat
    BY <1>6
  <2>b. n + 4 + Len(type) = Len(s)
    BY <1>10
  <2>1. n + 1 + Len(type) = Len(body) /\ n + 1 \in 1 .. Len(s) - 3 /\ n + 1 + 1 = n + 2
    BY <2>0, <2>a, <2>b
  <2>2. body[n + 1] = Comma
    BY <1>6, <1>10, <2>1
  <2>3. n # Len(body) /\ n <= Len(body) /\ \A i \in 1 .. n : body[i] # Comma
    BY <1>2, <1>6, <1>7, <2>0, <2>1
  <2>4. FirstField(body) = q /\ Fields(body) = SubSeq(body, n + 2, Len(body))
    <3>1. FirstField(body) = SubSeq(body, 1, n) /\ Fields(body) = SubSeq(body, n + 2, Len(body))
      BY <1>2, <1>6, <2>2, <2>3, FieldsOf
    <3> QED
      BY <1>8, <3>1
  <2>5. SubSeq(body, n + 2, Len(body)) = type
    <3> DEFINE u == SubSeq(body, n + 2, Len(body))
    <3>0. PICK k, l \in Nat : k = n + 2 /\ l = Len(body)
      BY <2>0, <2>a
    <3>a. /\ SubSeq(body, k, l) \in Seq(STRING) /\ Len(SubSeq(body, k, l)) = l - k + 1
          /\ \A i \in 1 .. l - k + 1 : SubSeq(body, k, l)[i] = body[k + i - 1]
      <4>1. k >= 1 /\ k <= l + 1 /\ l <= Len(body)
        BY <2>0, <2>1, <3>0
      <4> QED
        BY <1>6, <4>1
    <3>b. l - k + 1 = Len(type) /\ \A i \in 1 .. Len(type) : k + i - 1 = n + 1 + i
      BY <2>0, <2>1, <3>0
    <3>1. /\ u \in Seq(STRING) /\ Len(u) = Len(type)
          /\ \A i \in 1 .. Len(type) : u[i] = body[n + 1 + i]
      BY <3>0, <3>a, <3>b
    <3> HIDE DEF u
    <3>2. ASSUME NEW i \in 1 .. Len(type) PROVE body[n + 1 + i] = type[i]
      <4>1. n + 1 + i \in 1 .. Len(s) - 3 /\ n + 1 + i + 1 = n + 2 + i
        BY <1>6, <2>0, <2>1
      <4> QED
        BY <1>6, <1>10, <4>1
    <3>3. u = type
      BY <1>1, <3>1, <3>2
    <3> QED
      BY <3>3 DEF u
  <2> QED
    BY <1>10, <2>4, <2>5
<1>11. FirstField(body) = q /\ given = type
  BY <1>1, <1>9, <1>10 DEF ResultShape
<1>12. s \notin ReadyTexts /\ body # <<"READY">>
  <2>1. 1 \in 1 .. n /\ 2 \in 2 .. Len(s) - 2
    BY <1>2, <1>4
  <2>2. s[1] = "(" /\ s[2] # "READY" /\ body[1] # "READY"
    BY <1>1, <1>2, <1>7, <2>1 DEF ResultShape, Marks
  <2>3. s # <<"READY">> /\ s # <<"READY", "E">> /\ body # <<"READY">>
    BY <2>2
  <2>4. s # <<"(", "READY", ")">> /\ s # <<"(", "READY", ")", "E">>
    BY <2>2
  <2> QED
    BY <2>3, <2>4 DEF ReadyTexts
<1> HIDE DEF given
<1>13. Parse2d(s) = Result(q, type)
  <2>1. q # <<>>
    BY <1>1 DEF Number
  <2> QED
    BY <1>1, <1>5, <1>11, <1>12, <2>1, Zenon DEF Parse2d, given
<1>14. Result(q, type) # Ready
  <2>1. Result(q, type).kind = "result" /\ Ready.kind = "ready"
    BY DEF Result, Ready
  <2> QED
    BY <2>1
<1>15. m.event = <<Parse2d(s)>> /\ m.event # <<Ready>>
  BY <1>1, <1>13, <1>14
<1> QED
  BY <1>15 DEF s
-----------------------------------------------------------------------------
(* The cells of a message.                                                 *)
LEMMA EncodedIs ==
    ASSUME NEW m \in Messages
    PROVE  /\ Encoded(m) \in Seq(Cells) /\ Len(Encoded(m)) = Len(m.bytes)
           /\ \A i \in 1 .. Len(m.bytes) :
                 /\ Encoded(m)[i].byte = m.bytes[i]
                 /\ Encoded(m)[i].event = IF i = Len(m.bytes) THEN m.event ELSE <<>>
<1>1. m.event \in {<<>>} \cup {<<e>> : e \in Events}
  <2>1. m.event = <<>> \/ m.event = <<m.event[1]>>
    <3>0. ASSUME NEW e, m.event = <<e>> PROVE m.event = <<m.event[1]>>
      BY <3>0
    <3>1. CASE IsHeartbeatMessage(m)
      BY <3>1 DEF IsHeartbeatMessage
    <3>2. CASE IsReadyMessage(m)
      BY <3>0, <3>2 DEF IsReadyMessage
    <3>3. CASE IsResultMessage(m)
      BY <3>0, <3>3 DEF IsResultMessage
    <3>4. CASE IsFrameMessage(m)
      BY <3>0, <3>4 DEF IsFrameMessage
    <3> QED
      BY <3>1, <3>2, <3>3, <3>4, MessagesAssumption
  <2>2. m.event # <<>> => m.event[1] \in Events
    BY DEF Events
  <2> QED
    BY <2>1, <2>2
<1>2. m.bytes \in Seq(STRING)
  BY MessagesAssumption
<1>3. ASSUME NEW i \in 1 .. Len(m.bytes)
      PROVE  [byte |-> m.bytes[i], event |-> IF i = Len(m.bytes) THEN m.event ELSE <<>>] \in Cells
  BY <1>1, <1>2 DEF Cells
<1> QED
  BY <1>2, <1>3 DEF Encoded

LEMMA EncodedText ==
    ASSUME NEW m \in Messages
    PROVE  Text(Encoded(m), 1, Len(m.bytes)) = m.bytes
<1> DEFINE t == Text(Encoded(m), 1, Len(m.bytes))
<1>0. m.bytes \in Seq(STRING) /\ Len(m.bytes) \in Nat
  BY MessagesAssumption
<1>1. /\ t \in Seq(STRING) /\ Len(t) = Len(m.bytes)
      /\ \A i \in 1 .. Len(m.bytes) : t[i] = Encoded(m)[i].byte
  BY <1>0, EncodedIs, TextUpto
<1> HIDE DEF t
<1>2. t = m.bytes
  BY <1>0, <1>1, EncodedIs
<1> QED
  BY <1>2 DEF t

LEMMA ResultEncoded ==
    ASSUME NEW m \in Messages, IsResultMessage(m)
    PROVE  ResultAt(Encoded(m), 1, Len(m.bytes))
<1> DEFINE q == m.event[1].count
           type == m.event[1].type
           s == m.bytes
           n == Len(q)
           c == Encoded(m)
<1>1. s \in Seq(STRING)
  BY MessagesAssumption
<1>2. Number(q) /\ type \in Seq(STRING) /\ ResultShape(s, q, type, n)
  BY ResultIs
<1>3. n \in Nat \ {0}
  BY <1>2, CountIsText
<1>4. m.event = <<Parse2d(s)>> /\ m.event # <<Ready>>
  BY <1>1, ResultParsed
<1>5. Text(c, 1, Len(s)) = s
  BY EncodedText
<1>6. \A i \in 1 .. Len(s) :
         c[i].byte = s[i] /\ c[i].event = (IF i = Len(s) THEN m.event ELSE <<>>)
  BY EncodedIs
<1> HIDE DEF q, type, s, n, c
<1> DEFINE e == Len(s)
<1>7. e \in Nat /\ 1 < e - 1 /\ 1 \in 1 .. e /\ e - 1 \in 1 .. e /\ e \in 1 .. e
  <2>1. Len(type) \in Nat
    BY <1>2
  <2> QED
    BY <1>1, <1>2, <1>3, <2>1 DEF ResultShape
<1>8. s[1] = "(" /\ s[e - 1] = ")" /\ s[e] = "E" /\ \A i \in 2 .. e - 2 : s[i] \notin Marks
  BY <1>2 DEF ResultShape
<1>9. m.event # <<>>
  BY <1>4
<1> HIDE DEF e
<1>10. ASSUME NEW i \in 1 .. e
       PROVE  /\ c[i].byte = "(" => i = 1
              /\ c[i].byte = ")" => i = e - 1
              /\ c[i].byte \notin {"nl", "Z", "H", "READY"}
              /\ c[i].event # <<>> <=> i = e
  <2>1. c[i].byte = s[i] /\ c[i].event = (IF i = e THEN m.event ELSE <<>>)
    BY <1>6 DEF e
  <2>2. i = 1 \/ i = e - 1 \/ i = e \/ i \in 2 .. e - 2
    BY <1>7
  <2> QED
    BY <1>7, <1>8, <1>9, <2>1, <2>2 DEF Marks
<1>11. c[e].event = m.event /\ c[1].byte = "(" /\ c[e - 1].byte = ")" /\ c[e].byte = "E"
  BY <1>6, <1>7, <1>8 DEF e
<1>12. c[e].event = <<Parse2d(Text(c, 1, e))>> /\ c[e].event # <<Ready>>
  BY <1>4, <1>5, <1>11 DEF e
<1>13. ResultAt(c, 1, e)
  BY <1>7, <1>10, <1>11, <1>12 DEF ResultAt
<1> QED
  BY <1>13 DEF c, e, s

LEMMA FrameEncoded ==
    ASSUME NEW m \in Messages, IsFrameMessage(m)
    PROVE  \E k \in 1 .. Len(m.bytes) : Whole(Encoded(m), 1, k, Len(m.bytes))
<1> DEFINE one == m.event[1].segments[1]
           two == m.event[1].segments[2]
           s == m.bytes
           c == Encoded(m)
<1>1. s \in Seq(STRING)
  BY MessagesAssumption
<1>2. m.event = <<Segments(one, two)>>
  BY DEF IsFrameMessage
<1>3. PICK a \in 1 .. Len(s) : /\ s[a] = "A"
                              /\ IsSegment(Upto(s, a - 1), one)
                              /\ IsSegment(From(s, a + 1), two)
  BY DEF IsFrameMessage
<1>4. Text(c, 1, Len(s)) = s
  BY EncodedText
<1>5. \A i \in 1 .. Len(s) :
         c[i].byte = s[i] /\ c[i].event = (IF i = Len(s) THEN m.event ELSE <<>>)
  BY EncodedIs
<1> HIDE DEF one, two, s, c
<1> DEFINE l == Upto(s, a - 1)
           r == From(s, a + 1)
<1>6. /\ l \in Seq(STRING) /\ Len(l) = a - 1 /\ \A i \in 1 .. a - 1 : l[i] = s[i]
      /\ r \in Seq(STRING) /\ Len(r) = Len(s) - a /\ \A i \in 1 .. Len(s) - a : r[i] = s[a + i]
  BY <1>1 DEF Upto, From
<1> HIDE DEF l, r
<1>7. /\ Number(one.count) /\ SegmentShape(l, Flag(one.arm), one.count, Len(one.count))
      /\ Number(two.count) /\ SegmentShape(r, Flag(two.arm), two.count, Len(two.count))
      /\ ParseSegment(l) = one /\ ParseSegment(r) = two
  BY <1>3, <1>6, SegmentIs, SegmentParsed DEF l, r
<1>8. Len(one.count) \in Nat \ {0} /\ Len(two.count) \in Nat \ {0}
  BY <1>7, CountIsText
<1>9. PICK e, k \in Nat : e = Len(s) /\ k = a - 2 /\ k >= 4 /\ a + 6 <= e
  <2>1. Len(l) >= 6 /\ Len(r) >= 6
    BY <1>6, <1>7, <1>8 DEF SegmentShape
  <2>2. Len(s) \in Nat /\ a \in Nat
    BY <1>1
  <2>3. a - 2 \in Nat /\ a - 2 >= 4 /\ a + 6 <= Len(s)
    BY <1>6, <2>1, <2>2
  <2> QED
    BY <2>2, <2>3
<1>10. s[1] = "(" /\ s[k] = ")" /\ s[k + 1] = "E" /\ \A i \in 2 .. k - 1 : s[i] \notin Marks
  <2>1. l[1] = "(" /\ l[Len(l) - 1] = ")" /\ l[Len(l)] = "E"
        /\ \A i \in 2 .. Len(l) - 2 : l[i] \notin Marks
    BY <1>7 DEF SegmentShape
  <2>2. Len(l) - 1 = k /\ Len(l) = k + 1 /\ Len(l) - 2 = k - 1 /\ a - 1 = k + 1
    BY <1>6, <1>9
  <2>3. \A i \in 1 .. k + 1 : l[i] = s[i]
    BY <1>6, <2>2
  <2>4. l[1] = "(" /\ l[k] = ")" /\ l[k + 1] = "E" /\ \A i \in 2 .. k - 1 : l[i] \notin Marks
    BY <2>1, <2>2
  <2>5. 1 \in 1 .. k + 1 /\ k \in 1 .. k + 1 /\ k + 1 \in 1 .. k + 1
        /\ \A i \in 2 .. k - 1 : i \in 1 .. k + 1
    BY <1>9
  <2> QED
    BY <2>3, <2>4, <2>5
<1>11. s[k + 2] = "A" /\ k + 2 = a
  <2>1. k + 2 = a
    BY <1>9
  <2> QED
    BY <1>3, <2>1
<1>12. s[k + 3] = "(" /\ s[e - 1] = ")" /\ s[e] = "E" /\ \A i \in k + 4 .. e - 2 : s[i] \notin Marks
  <2>1. r[1] = "(" /\ r[Len(r) - 1] = ")" /\ r[Len(r)] = "E"
        /\ \A i \in 2 .. Len(r) - 2 : r[i] \notin Marks
    BY <1>7 DEF SegmentShape
  <2>2. Len(r) = e - a /\ \A i \in 1 .. e - a : r[i] = s[a + i]
    BY <1>6, <1>9
  <2>3. /\ 1 \in 1 .. e - a /\ a + 1 = k + 3
        /\ Len(r) - 1 \in 1 .. e - a /\ a + (Len(r) - 1) = e - 1
        /\ Len(r) \in 1 .. e - a /\ a + Len(r) = e
    BY <1>9, <2>2
  <2>4. s[k + 3] = "(" /\ s[e - 1] = ")" /\ s[e] = "E"
    BY <2>1, <2>2, <2>3
  <2>5. ASSUME NEW i \in k + 4 .. e - 2 PROVE s[i] \notin Marks
    <3>1. i - a \in 2 .. Len(r) - 2 /\ i - a \in 1 .. e - a /\ a + (i - a) = i
      BY <1>9, <2>2
    <3> QED
      BY <2>1, <2>2, <3>1
  <2> QED
    BY <2>4, <2>5
<1>13. Find(s, <<"A">>) = a
  <2> DEFINE P == Positions(s, <<"A">>)
  <2>1. a \in P
    BY <1>1, <1>3, PositionsOf1
  <2>2. ASSUME NEW j \in P PROVE a <= j
    <3>1. j \in Int
      BY <1>1 DEF Positions
    <3>2. j \in 1 .. Len(s) /\ s[j] = "A"
      BY <1>1, <3>1, PositionsOf1
    <3>3. j = 1 \/ j \in 2 .. k - 1 \/ j = k \/ j = k + 1 \/ j >= a
      BY <1>9, <3>1, <3>2
    <3> QED
      BY <1>9, <1>10, <3>2, <3>3 DEF Marks
  <2>3. P \subseteq Int
    BY <1>1 DEF Positions
  <2> HIDE DEF P
  <2>4. Min(P) = a
    BY <2>1, <2>2, <2>3, MinIs
  <2> QED
    BY <2>1, <2>4 DEF Find, P
<1>14. m.event = <<Parse3d(s)>> /\ m.event # <<>>
  BY <1>2, <1>7, <1>13 DEF Parse3d, l, r
<1>15. ASSUME NEW i \in 1 .. e
       PROVE  /\ c[i].byte \in {"(", ")"} => i \in {1, k, k + 3, e - 1}
              /\ c[i].byte \notin {"nl", "Z", "H"}
              /\ c[i].byte = "A" => i = k + 2
              /\ c[i].event # <<>> <=> i = e
  <2>1. c[i].byte = s[i] /\ c[i].event = (IF i = e THEN m.event ELSE <<>>)
    BY <1>5, <1>9
  <2>2. \/ i = 1 \/ i \in 2 .. k - 1 \/ i = k \/ i = k + 1 \/ i = k + 2
        \/ i = k + 3 \/ i \in k + 4 .. e - 2 \/ i = e - 1 \/ i = e
    BY <1>9
  <2>3. i \notin {1, k, k + 3, e - 1} => s[i] \notin {"(", ")"}
    BY <1>10, <1>11, <1>12, <2>2 DEF Marks
  <2>4. s[i] \notin {"nl", "Z", "H"}
    BY <1>10, <1>11, <1>12, <2>2 DEF Marks
  <2>5. i # k + 2 => s[i] # "A"
    BY <1>10, <1>12, <2>2 DEF Marks
  <2> QED
    BY <1>14, <2>1, <2>3, <2>4, <2>5
<1>16. /\ c[1].byte = "(" /\ c[k].byte = ")" /\ c[k + 1].byte = "E" /\ c[k + 2].byte = "A"
       /\ c[k + 3].byte = "(" /\ c[e - 1].byte = ")" /\ c[e].byte = "E"
       /\ c[e].event = m.event
  <2>1. {1, k, k + 1, k + 2, k + 3, e - 1, e} \subseteq 1 .. Len(s)
    BY <1>9
  <2> QED
    BY <1>5, <1>9, <1>10, <1>11, <1>12, <2>1
<1>17. 1 < k /\ k + 3 < e - 1
  BY <1>9
<1>18. Whole(c, 1, k, e)
  <2>1. Match(c, 1, k, e)
    BY <1>15, <1>16, <1>17 DEF Match
  <2>2. FrameAt(c, 1, k, e)
    BY <1>4, <1>9, <1>14, <1>15, <1>16, <2>1 DEF FrameAt
  <2> QED
    BY <1>15, <2>2 DEF Whole
<1>19. k \in 1 .. Len(s)
  BY <1>9
<1> QED
  BY <1>9, <1>18, <1>19 DEF c, s
-----------------------------------------------------------------------------
(* Behind white space and heartbeats a message begins.                     *)
Opening(s) ==
    \A i \in 1 .. Len(s) :
        (i = 1 \/ s[i - 1].byte \in {"nl", "Z", "H"}) => s[i].byte \in {"nl", "Z", "H", "("}

(* What ends like a frame that was cut off behind its first segment.       *)
Half(s, st) ==
    /\ st < Len(s) - 2
    /\ s[st].byte = "(" /\ s[Len(s) - 2].byte = ")" /\ s[Len(s) - 1].byte = "E"
    /\ s[Len(s)].byte = "A"
    /\ \A i \in st .. Len(s) : s[i].byte \in {"(", ")"} => i \in {st, Len(s) - 2}

HalfFrame(s) == \E st \in 1 .. Len(s) : Half(s, st)

(* No frame begins in s and ends behind it, unless s ends with a half.     *)
LEMMA NoCross ==
    ASSUME NEW s \in Seq(Cells), NEW c \in Seq(Cells), NEW t \in Seq(Cells), JoinOf(t, s, c),
           Opening(c), c # <<>> /\ c[1].byte = "(" => ~HalfFrame(s),
           NEW st \in 1 .. Len(t), NEW k \in 1 .. Len(t), NEW e \in 1 .. Len(t),
           Match(t, st, k, e), st <= Len(s), Len(s) < e
    PROVE  FALSE
<1>1. /\ Len(t) = Len(s) + Len(c) /\ Len(s) \in Nat /\ Len(c) \in Nat
      /\ \A i \in 1 .. Len(s) : t[i] = s[i]
      /\ \A i \in 1 .. Len(c) : t[Len(s) + i] = c[i]
  BY DEF JoinOf
<1> DEFINE T == {i \in 1 .. Len(c) : c[i].byte \notin {"nl", "Z", "H"}}
<1>2. T \subseteq Nat /\ T # {}
  <2>1. PICK j \in 1 .. Len(c) : e = Len(s) + j
    <3>1. e - Len(s) \in 1 .. Len(c) /\ e = Len(s) + (e - Len(s))
      BY <1>1
    <3> QED
      BY <3>1
  <2>2. c[j].byte = "E"
    BY <1>1, <2>1 DEF Match
  <2>3. j \in T
    BY <2>2
  <2> QED
    BY <2>3
<1>3. PICK p \in T : \A y \in T : p <= y
  <2> HIDE DEF T
  <2> QED
    BY <1>2, SmallestExists
<1>4. p \in 1 .. Len(c) /\ c[p].byte = "(" /\ (p # 1 => c[p - 1].byte \in {"nl", "Z", "H"})
  <2>1. p \in 1 .. Len(c) /\ c[p].byte \notin {"nl", "Z", "H"}
    OBVIOUS
  <2>2. p # 1 => c[p - 1].byte \in {"nl", "Z", "H"}
    <3> SUFFICES ASSUME p # 1, c[p - 1].byte \notin {"nl", "Z", "H"} PROVE FALSE
      OBVIOUS
    <3>1. p - 1 \in T /\ p - 1 < p
      BY <2>1
    <3>2. p <= p - 1
      BY <1>3, <3>1
    <3> QED
      BY <2>1, <3>2
  <2> QED
    BY <2>1, <2>2 DEF Opening
<1>5. Len(s) + p <= e
  <2>1. PICK j \in 1 .. Len(c) : e = Len(s) + j
    <3>0. e \in Nat /\ e <= Len(s) + Len(c)
      BY <1>1
    <3>1. e - Len(s) \in 1 .. Len(c) /\ e = Len(s) + (e - Len(s))
      BY <1>1, <3>0
    <3> QED
      BY <3>1
  <2>2. c[j].byte = "E"
    BY <1>1, <2>1 DEF Match
  <2>3. j \in T
    BY <2>2
  <2>4. p <= j
    BY <1>3, <2>3
  <2> QED
    BY <1>1, <1>4, <2>1, <2>4
<1> HIDE DEF T
<1>6. t[Len(s) + p].byte = "(" /\ Len(s) + p \in st .. e
  BY <1>1, <1>4, <1>5
<1>7. Len(s) + p \in {st, k, k + 3, e - 1}
  BY <1>6 DEF Match
<1>8. k + 3 = Len(s) + p
  <2>1. Len(s) + p # st
    BY <1>1, <1>4
  <2>2. Len(s) + p # k /\ Len(s) + p # e - 1
    BY <1>6 DEF Match
  <2> QED
    BY <1>7, <2>1, <2>2
<1>9. p = 1
  <2> SUFFICES ASSUME p # 1 PROVE FALSE
    OBVIOUS
  <2>1. p - 1 \in 1 .. Len(c) /\ k + 2 = Len(s) + (p - 1)
    BY <1>1, <1>4, <1>8
  <2>2. t[k + 2] = c[p - 1]
    BY <1>1, <2>1
  <2> QED
    BY <1>4, <2>2 DEF Match
<1>10. k = Len(s) - 2 /\ k + 1 = Len(s) - 1 /\ k + 2 = Len(s)
  BY <1>1, <1>8, <1>9
<1>11. Half(s, st)
  <2>1. st < k /\ k + 3 < e - 1
    BY DEF Match
  <2>2. s[st].byte = "(" /\ s[k].byte = ")" /\ s[k + 1].byte = "E" /\ s[k + 2].byte = "A"
    <3>1. k \in 1 .. Len(s) /\ k + 1 \in 1 .. Len(s) /\ k + 2 \in 1 .. Len(s) /\ st \in 1 .. Len(s)
      BY <1>1, <1>10, <2>1
    <3> QED
      BY <1>1, <3>1 DEF Match
  <2>3. ASSUME NEW i \in st .. Len(s), s[i].byte \in {"(", ")"} PROVE i \in {st, k}
    <3>1. i \in 1 .. Len(s) /\ i \in st .. e /\ i < k + 3 /\ i # e - 1
      BY <1>1, <1>10, <2>1
    <3>2. t[i].byte \in {"(", ")"}
      BY <1>1, <2>3, <3>1
    <3>3. i \in {st, k, k + 3, e - 1}
      BY <3>1, <3>2 DEF Match
    <3> QED
      BY <3>1, <3>3
  <2> QED
    BY <1>10, <2>1, <2>2, <2>3 DEF Half
<1>12. c # <<>> /\ c[1].byte = "(" /\ st \in 1 .. Len(s)
  BY <1>1, <1>4, <1>9
<1> QED
  BY <1>11, <1>12 DEF HalfFrame

(* What is appended to a stream, if no frame crosses.                      *)
LEMMA Joined3d ==
    ASSUME NEW s \in Seq(Cells), Stream3d(s), NEW c \in Seq(Cells), Stream3d(c),
           Opening(c), c # <<>> /\ c[1].byte = "(" => ~HalfFrame(s)
    PROVE  Stream3d(s \o c)
<1> DEFINE t == s \o c
<1>1. t \in Seq(Cells) /\ JoinOf(t, s, c)
  BY JoinedBoth
<1> HIDE DEF t
<1>2. /\ Len(t) = Len(s) + Len(c) /\ Len(s) \in Nat /\ Len(c) \in Nat
      /\ \A i \in 1 .. Len(s) : t[i] = s[i]
      /\ \A i \in 1 .. Len(c) : t[Len(s) + i] = c[i]
  BY <1>1 DEF JoinOf
<1>3. PICK zero, d, g \in Int : zero = 0 /\ d = Len(s) /\ g = 0 - Len(s)
  <2>1. 0 \in Int /\ Len(s) \in Int /\ 0 - Len(s) \in Int
    BY <1>2
  <2> QED
    BY <2>1
<1>4. ASSUME NEW i \in Int, NEW j \in Int, 1 <= i, j <= Len(s)
      PROVE  Moved(s, t, i, j, zero) /\ Moved(t, s, i, j, zero)
  <2>1. ASSUME NEW x \in i .. j PROVE x \in 1 .. Len(s) /\ x + zero = x
    BY <1>2, <1>3, <1>4
  <2> QED
    BY <1>2, <2>1 DEF Moved
<1>5. ASSUME NEW i \in Int, NEW j \in Int, 1 <= i, j <= Len(c) PROVE Moved(c, t, i, j, d)
  <2>1. ASSUME NEW x \in i .. j PROVE x \in 1 .. Len(c) /\ x + d = Len(s) + x
    BY <1>2, <1>3, <1>5
  <2> QED
    BY <1>2, <2>1 DEF Moved
<1>6. ASSUME NEW i \in Int, NEW j \in Int, Len(s) < i, j <= Len(t) PROVE Moved(t, c, i, j, g)
  <2>1. ASSUME NEW x \in i .. j
        PROVE  x + g \in 1 .. Len(c) /\ Len(s) + (x + g) = x
    BY <1>2, <1>3, <1>6
  <2> QED
    BY <1>2, <2>1 DEF Moved
<1>7. ASSUME NEW e \in 1 .. Len(t), t[e].event # <<>>
      PROVE  \E st, k \in 1 .. Len(t) : FrameAt(t, st, k, e)
  <2>1. CASE e <= Len(s)
    <3>1. e \in 1 .. Len(s) /\ s[e].event # <<>>
      BY <1>2, <1>7, <2>1
    <3>2. PICK st, k \in 1 .. Len(s) : FrameAt(s, st, k, e)
      BY <3>1 DEF Stream3d
    <3>3. Moved(s, t, st, e, zero)
      <4>1. st \in Int /\ e \in Int /\ 1 <= st
        BY <1>2
      <4> QED
        BY <1>4, <2>1, <4>1
    <3>4. st = st + zero /\ k = k + zero /\ e = e + zero /\ st \in 1 .. Len(t) /\ k \in 1 .. Len(t)
      BY <1>2, <1>3
    <3>5. FrameAt(t, st, k, e)
      BY <3>2, <3>3, <3>4, FrameMoved
    <3> QED
      BY <3>4, <3>5
  <2>2. CASE Len(s) < e
    <3>1. PICK f \in 1 .. Len(c) : e = Len(s) + f
      <4>1. e - Len(s) \in 1 .. Len(c) /\ e = Len(s) + (e - Len(s))
        BY <1>2, <2>2
      <4> QED
        BY <4>1
    <3>2. c[f].event # <<>>
      BY <1>2, <1>7, <3>1
    <3>3. PICK st, k \in 1 .. Len(c) : FrameAt(c, st, k, f)
      BY <3>2 DEF Stream3d
    <3>4. Moved(c, t, st, f, d)
      BY <1>2, <1>5
    <3>5. PICK st2, k2 \in 1 .. Len(t) : st2 = st + d /\ k2 = k + d
      <4>1. st + d \in 1 .. Len(t) /\ k + d \in 1 .. Len(t)
        BY <1>2, <1>3
      <4> QED
        BY <4>1
    <3>6. e = f + d
      BY <1>2, <1>3, <3>1
    <3>7. FrameAt(t, st2, k2, e)
      BY <3>3, <3>4, <3>5, <3>6, FrameMoved
    <3> QED
      BY <3>7
  <2> QED
    BY <1>2, <2>1, <2>2
<1>8. ASSUME NEW st \in 1 .. Len(t), NEW k \in 1 .. Len(t), NEW e \in 1 .. Len(t),
             Match(t, st, k, e), NoEvents(t, st, e - 1)
      PROVE  t[e].event # <<>>
  <2>0. st < k /\ k + 3 < e - 1
    BY <1>8 DEF Match
  <2>1. CASE e <= Len(s)
    <3>1. st \in 1 .. Len(s) /\ k \in 1 .. Len(s) /\ e \in 1 .. Len(s)
      BY <1>2, <2>0, <2>1
    <3>2. st = st + zero /\ k = k + zero /\ e = e + zero
      BY <1>3
    <3>3. Match(s, st, k, e)
      BY <1>4, <1>8, <2>1, <3>2, MatchMoved
    <3>4. NoEvents(s, st, e - 1)
      BY <1>2, <1>8, <3>1 DEF NoEvents
    <3>5. s[e].event # <<>>
      BY <3>1, <3>3, <3>4 DEF Stream3d
    <3> QED
      BY <1>2, <3>1, <3>5
  <2>2. CASE Len(s) < e
    <3>1. Len(s) < st
      <4> SUFFICES ASSUME st <= Len(s) PROVE FALSE
        BY <1>2
      <4> QED
        BY <1>1, <1>8, <2>2, NoCross
    <3>2. PICK st2, k2, f \in 1 .. Len(c) : st2 = st + g /\ k2 = k + g /\ f = e + g
      <4>1. st + g \in 1 .. Len(c) /\ k + g \in 1 .. Len(c) /\ e + g \in 1 .. Len(c)
        BY <1>2, <1>3, <2>0, <3>1
      <4> QED
        BY <4>1
    <3>3. Match(c, st2, k2, f)
      BY <1>6, <1>8, <3>1, <3>2, MatchMoved
    <3>4. NoEvents(c, st2, f - 1)
      <4> SUFFICES ASSUME NEW x \in st2 .. f - 1 PROVE c[x].event = <<>>
        BY DEF NoEvents
      <4>1. x \in 1 .. Len(c) /\ Len(s) + x \in st .. e - 1
        BY <1>2, <1>3, <3>2
      <4> QED
        BY <1>2, <1>8, <4>1 DEF NoEvents
    <3>5. c[f].event # <<>>
      BY <3>3, <3>4 DEF Stream3d
    <3>6. t[e] = c[f]
      <4>1. e = Len(s) + f
        BY <1>2, <1>3, <3>2
      <4> QED
        BY <1>2, <4>1
    <3> QED
      BY <3>5, <3>6
  <2> QED
    BY <1>2, <2>1, <2>2
<1>9. Stream3d(t)
  BY <1>7, <1>8 DEF Stream3d
<1> QED
  BY <1>9 DEF t

(* The beginning of a stream is a stream.                                  *)
LEMMA Prefix3d ==
    ASSUME NEW s \in Seq(Cells), NEW c \in Seq(Cells), Stream3d(s \o c)
    PROVE  Stream3d(s)
<1> DEFINE t == s \o c
<1>1. t \in Seq(Cells) /\ JoinOf(t, s, c)
  BY JoinedBoth
<1>0. Stream3d(t)
  OBVIOUS
<1> HIDE DEF t
<1>2. /\ Len(t) = Len(s) + Len(c) /\ Len(s) \in Nat /\ Len(c) \in Nat
      /\ \A i \in 1 .. Len(s) : t[i] = s[i]
  BY <1>1 DEF JoinOf
<1>3. PICK zero \in Int : zero = 0
  OBVIOUS
<1>4. ASSUME NEW i \in Int, NEW j \in Int, 1 <= i, j <= Len(s)
      PROVE  Moved(s, t, i, j, zero) /\ Moved(t, s, i, j, zero)
  <2>1. ASSUME NEW x \in i .. j PROVE x \in 1 .. Len(s) /\ x + zero = x
    BY <1>2, <1>3, <1>4
  <2> QED
    BY <1>2, <2>1 DEF Moved
<1>5. ASSUME NEW e \in 1 .. Len(s), s[e].event # <<>>
      PROVE  \E st, k \in 1 .. Len(s) : FrameAt(s, st, k, e)
  <2>1. e \in 1 .. Len(t) /\ t[e].event # <<>>
    BY <1>2, <1>5
  <2>2. PICK st, k \in 1 .. Len(t) : FrameAt(t, st, k, e)
    BY <1>0, <2>1 DEF Stream3d
  <2>3. st < k /\ k + 3 < e - 1
    BY <2>2 DEF FrameAt, Match
  <2>4. st \in 1 .. Len(s) /\ k \in 1 .. Len(s) /\ st = st + zero /\ k = k + zero /\ e = e + zero
    BY <1>2, <1>3, <2>3
  <2>5. Moved(t, s, st, e, zero)
    BY <1>2, <1>4
  <2>6. FrameAt(s, st, k, e)
    BY <2>2, <2>4, <2>5, FrameMoved
  <2> QED
    BY <2>4, <2>6
<1>6. ASSUME NEW st \in 1 .. Len(s), NEW k \in 1 .. Len(s), NEW e \in 1 .. Len(s),
             Match(s, st, k, e), NoEvents(s, st, e - 1)
      PROVE  s[e].event # <<>>
  <2>1. st = st + zero /\ k = k + zero /\ e = e + zero
    BY <1>3
  <2>2. Moved(s, t, st, e, zero)
    BY <1>2, <1>4
  <2>3. Match(t, st, k, e)
    BY <1>6, <2>1, <2>2, MatchMoved
  <2>4. NoEvents(t, st, e - 1)
    BY <1>2, <1>6 DEF NoEvents
  <2>5. st \in 1 .. Len(t) /\ k \in 1 .. Len(t) /\ e \in 1 .. Len(t)
    BY <1>2
  <2>6. t[e].event # <<>>
    BY <1>0, <2>3, <2>4, <2>5 DEF Stream3d
  <2> QED
    BY <1>2, <2>6
<1> QED
  BY <1>5, <1>6 DEF Stream3d

(* What is on the way on the 3D channel: behind heartbeats and messages    *)
(* whole messages begin, and an A is between two segments.                 *)
Goes(w) ==
    \A i \in 1 .. Len(w) :
        /\ (w[i].byte \in {"nl", "Z", "H"} \/ w[i].event # <<>>) /\ i < Len(w) =>
              \/ w[i + 1].byte \in {"nl", "Z", "H"}
              \/ \E k, e \in 1 .. Len(w) : Whole(w, i + 1, k, e)
        /\ w[i].byte = "A" => i < Len(w) /\ w[i + 1].byte = "("

LEMMA OpeningBehind ==
    ASSUME NEW w \in Seq(Cells), Goes(w), NEW n \in 1 .. Len(w),
           w[n].byte \in {"nl", "Z", "H"} \/ w[n].event # <<>>
    PROVE  Opening(From(w, n + 1))
<1> DEFINE u == From(w, n + 1)
<1>1. u \in Seq(Cells) /\ Len(u) = Len(w) - n /\ \A i \in 1 .. Len(w) - n : u[i] = w[n + i]
  BY BehindIs
<1> HIDE DEF u
<1>2. ASSUME NEW i \in 1 .. Len(u), i = 1 \/ u[i - 1].byte \in {"nl", "Z", "H"}
      PROVE  u[i].byte \in {"nl", "Z", "H", "("}
  <2>1. PICK j \in 1 .. Len(w) : j = n + i - 1 /\ j < Len(w) /\ j + 1 = n + i
    <3>1. n + i - 1 \in 1 .. Len(w) /\ n + i - 1 < Len(w) /\ (n + i - 1) + 1 = n + i
      BY <1>1
    <3> QED
      BY <3>1
  <2>2. w[j].byte \in {"nl", "Z", "H"} \/ w[j].event # <<>>
    <3>1. CASE i = 1
      <4>1. j = n
        BY <2>1, <3>1
      <4> QED
        BY <4>1
    <3>2. CASE i # 1
      <4>1. i - 1 \in 1 .. Len(w) - n /\ j = n + (i - 1)
        BY <1>1, <2>1, <3>2
      <4> QED
        BY <1>1, <1>2, <3>2, <4>1
    <3> QED
      BY <3>1, <3>2
  <2>3. w[j + 1].byte \in {"nl", "Z", "H"} \/ \E k, e \in 1 .. Len(w) : Whole(w, j + 1, k, e)
    BY <2>1, <2>2 DEF Goes
  <2>4. w[j + 1].byte \in {"nl", "Z", "H", "("}
    BY <2>3 DEF Whole, FrameAt, Match
  <2>5. u[i] = w[j + 1]
    BY <1>1, <2>1
  <2> QED
    BY <2>4, <2>5
<1> QED
  BY <1>2 DEF Opening, u

(* Where the parser sees d while w is on the way: the message of w that    *)
(* ends at p will be lost, because its first segment, up to q, is taken    *)
(* with a half that was left in the buffer.                                *)
Skips(w, d, p, q) ==
    /\ w \in Seq(Cells) /\ d \in Seq(Cells) /\ Len(d) = Len(w)
    /\ p \in 0 .. Len(w) /\ q \in 0 .. p
    /\ \A i \in 1 .. Len(w) : d[i].byte = w[i].byte /\ (i \notin {p, q} => d[i] = w[i])
    /\ \A i \in 1 .. p : w[i].byte \notin {"nl", "Z", "H"} /\ (w[i].event # <<>> <=> i = p)
    /\ p # 0 => q # p /\ d[p].event = <<>>

LEMMA SkipsNothing == ASSUME NEW w \in Seq(Cells) PROVE Skips(w, w, 0, 0)
BY DEF Skips

(* A half and the first segment of a message are a frame; then nothing is  *)
(* found until the message is over.                                        *)
LEMMA MixedFrame ==
    ASSUME NEW b \in Seq(Cells), NoEvents(b, 1, Len(b)), Stream3d(b),
           NEW st \in 1 .. Len(b), Half(b, st),
           NEW m \in Seq(Cells), NEW k \in 1 .. Len(m), Match(m, 1, k, Len(m)),
           \A i \in 1 .. Len(m) : m[i].event # <<>> <=> i = k + 1,
           m[k + 1].event = <<Parse3d(Text(b \o m, st, Len(b) + (k + 1)))>>
    PROVE  Stream3d(b \o m)
<1> DEFINE t == b \o m
<1>1. t \in Seq(Cells) /\ JoinOf(t, b, m)
  BY JoinedBoth
<1>0. m[k + 1].event = <<Parse3d(Text(t, st, Len(b) + (k + 1)))>>
  OBVIOUS
<1> HIDE DEF t
<1>2. /\ Len(t) = Len(b) + Len(m) /\ Len(b) \in Nat /\ Len(m) \in Nat
      /\ \A i \in 1 .. Len(b) : t[i] = b[i]
      /\ \A i \in 1 .. Len(m) : t[Len(b) + i] = m[i]
  BY <1>1 DEF JoinOf
<1>3. /\ 1 < k /\ k + 3 < Len(m) - 1
      /\ m[1].byte = "(" /\ m[k].byte = ")" /\ m[k + 1].byte = "E" /\ m[k + 2].byte = "A"
      /\ m[k + 3].byte = "(" /\ m[Len(m) - 1].byte = ")" /\ m[Len(m)].byte = "E"
      /\ \A i \in 1 .. Len(m) : m[i].byte \in {"(", ")"} => i \in {1, k, k + 3, Len(m) - 1}
  BY DEF Match
<1>4. /\ st < Len(b) - 2 /\ b[st].byte = "(" /\ b[Len(b) - 2].byte = ")"
      /\ b[Len(b) - 1].byte = "E" /\ b[Len(b)].byte = "A"
      /\ \A i \in st .. Len(b) : b[i].byte \in {"(", ")"} => i \in {st, Len(b) - 2}
  BY DEF Half
<1>5. PICK h, e \in 1 .. Len(t) : h = Len(b) - 2 /\ e = Len(b) + (k + 1)
  <2>1. Len(b) - 2 \in 1 .. Len(t)
    BY <1>2, <1>4
  <2>2. Len(b) + (k + 1) \in 1 .. Len(t)
    BY <1>2, <1>3
  <2> QED
    BY <2>1, <2>2
<1>6. t[e] = m[k + 1] /\ t[e - 1] = m[k] /\ t[h + 3] = m[1]
  <2>1. e - 1 = Len(b) + k /\ h + 3 = Len(b) + 1 /\ {1, k, k + 1} \subseteq 1 .. Len(m)
    BY <1>2, <1>3, <1>5
  <2> QED
    BY <1>2, <1>5, <2>1
<1>7. t[st] = b[st] /\ t[h] = b[Len(b) - 2] /\ t[h + 1] = b[Len(b) - 1] /\ t[h + 2] = b[Len(b)]
  <2>1. /\ h = Len(b) - 2 /\ h + 1 = Len(b) - 1 /\ h + 2 = Len(b)
        /\ {st, Len(b) - 2, Len(b) - 1, Len(b)} \subseteq 1 .. Len(b)
    BY <1>2, <1>4, <1>5
  <2> QED
    BY <1>2, <2>1
<1>8. ASSUME NEW i \in Nat, Len(b) < i, i <= Len(t)
      PROVE  i - Len(b) \in 1 .. Len(m) /\ t[i] = m[i - Len(b)] /\ Len(b) + (i - Len(b)) = i
  <2>1. i - Len(b) \in 1 .. Len(m) /\ Len(b) + (i - Len(b)) = i
    BY <1>2, <1>8
  <2> QED
    BY <1>2, <2>1
<1>9. FrameAt(t, st, h, e)
  <2>1. ASSUME NEW i \in st .. e, t[i].byte \in {"(", ")"} PROVE i \in {st, h, h + 3, e - 1}
    <3>1. CASE i <= Len(b)
      <4>1. i \in st .. Len(b) /\ t[i] = b[i]
        BY <1>2, <3>1
      <4> QED
        BY <1>4, <1>5, <2>1, <4>1
    <3>2. CASE Len(b) < i
      <4>1. i - Len(b) \in 1 .. Len(m) /\ t[i] = m[i - Len(b)] /\ i - Len(b) <= k + 1
        BY <1>2, <1>5, <1>8, <3>2
      <4>2. i - Len(b) \in {1, k, k + 3, Len(m) - 1}
        BY <1>3, <2>1, <4>1
      <4>3. i - Len(b) = 1 \/ i - Len(b) = k
        BY <1>2, <1>3, <4>1, <4>2
      <4>4. i \in Int /\ h + 3 = Len(b) + 1 /\ e - 1 = Len(b) + k /\ Len(b) + (i - Len(b)) = i
        BY <1>2, <1>5
      <4> QED
        BY <4>3, <4>4
    <3> QED
      BY <1>2, <3>1, <3>2
  <2>2. st < h /\ h + 3 < e - 1
    BY <1>2, <1>3, <1>4, <1>5
  <2>3. Match(t, st, h, e)
    BY <1>3, <1>4, <1>6, <1>7, <2>1, <2>2 DEF Match
  <2>4. ASSUME NEW i \in st .. e PROVE t[i].event # <<>> <=> i = e
    <3>1. CASE i <= Len(b)
      <4>1. i \in 1 .. Len(b) /\ t[i] = b[i] /\ i # e
        BY <1>2, <1>3, <1>5, <3>1
      <4> QED
        BY <4>1 DEF NoEvents
    <3>2. CASE Len(b) < i
      <4>1. i - Len(b) \in 1 .. Len(m) /\ t[i] = m[i - Len(b)] /\ (i = e <=> i - Len(b) = k + 1)
        BY <1>2, <1>5, <1>8, <3>2
      <4> QED
        BY <4>1
    <3> QED
      BY <1>2, <3>1, <3>2
  <2> QED
    BY <1>0, <1>5, <1>6, <2>3, <2>4 DEF FrameAt
<1>10. ASSUME NEW f \in 1 .. Len(t), t[f].event # <<>> PROVE f = e
  <2>1. CASE f <= Len(b)
    <3>1. f \in 1 .. Len(b) /\ t[f] = b[f]
      BY <1>2, <2>1
    <3> QED
      BY <1>10, <3>1 DEF NoEvents
  <2>2. CASE Len(b) < f
    <3>1. f - Len(b) \in 1 .. Len(m) /\ t[f] = m[f - Len(b)] /\ Len(b) + (f - Len(b)) = f
      BY <1>2, <1>8, <2>2
    <3>2. f - Len(b) = k + 1
      BY <1>10, <3>1
    <3> QED
      BY <1>5, <3>1, <3>2
  <2> QED
    BY <1>2, <2>1, <2>2
<1>n. /\ Len(t) \in Int /\ Len(b) \in Int /\ Len(m) \in Int /\ k \in Int /\ e \in Int
      /\ Len(t) = Len(b) + Len(m) /\ e = Len(b) + (k + 1) /\ 1 < k /\ k + 3 < Len(m) - 1
  BY <1>2, <1>3, <1>5
<1>11. ASSUME NEW s2 \in 1 .. Len(t), NEW k2 \in 1 .. Len(t), NEW f \in 1 .. Len(t),
              Match(t, s2, k2, f), NoEvents(t, s2, f - 1)
       PROVE  t[f].event # <<>>
  <2>0. /\ s2 < k2 /\ k2 + 3 < f - 1 /\ t[s2].byte = "(" /\ t[k2].byte = ")"
        /\ t[k2 + 3].byte = "(" /\ t[f - 1].byte = ")" /\ t[f].byte = "E"
    BY <1>11 DEF Match
  <2>1. CASE f <= Len(b)
    <3>1. PICK zero \in Int : zero = 0
      OBVIOUS
    <3>2. Moved(t, b, s2, f, zero)
      <4>1. ASSUME NEW x \in s2 .. f PROVE x \in 1 .. Len(b) /\ x + zero = x
        BY <1>2, <2>1, <3>1
      <4> QED
        BY <1>2, <4>1 DEF Moved
    <3>3. s2 \in 1 .. Len(b) /\ k2 \in 1 .. Len(b) /\ f \in 1 .. Len(b)
          /\ s2 = s2 + zero /\ k2 = k2 + zero /\ f = f + zero
      BY <1>2, <2>0, <2>1, <3>1
    <3>4. Match(b, s2, k2, f)
      BY <1>11, <3>2, <3>3, MatchMoved
    <3>5. NoEvents(b, s2, f - 1) /\ b[f].event = <<>>
      <4>1. ASSUME NEW x \in s2 .. f - 1 PROVE x \in 1 .. Len(b)
        BY <1>2, <3>3
      <4> QED
        BY <3>3, <4>1 DEF NoEvents
    <3> QED
      BY <3>3, <3>4, <3>5 DEF Stream3d
  <2>2. CASE Len(b) < f
    <3>1. PICK g \in 1 .. Len(m) : g = f - Len(b) /\ t[f] = m[g] /\ f = Len(b) + g
      <4>1. f - Len(b) \in 1 .. Len(m) /\ t[f] = m[f - Len(b)] /\ Len(b) + (f - Len(b)) = f
        BY <1>2, <1>8, <2>2
      <4> QED
        BY <4>1
    <3>2. g # 1
      BY <1>3, <2>0, <3>1
    <3>3. g - 1 \in {k, Len(m) - 1}
      <4>0. g \in Nat /\ 1 <= g /\ g <= Len(m)
        BY <1>2
      <4>1. g - 1 \in 1 .. Len(m) /\ f - 1 = Len(b) + (g - 1)
        <5>1. f \in Int /\ Len(b) \in Int /\ Len(m) \in Int /\ g \in Int /\ f = Len(b) + g
          BY <1>n, <3>1, <4>0
        <5>2. f - 1 = Len(b) + (g - 1)
          BY <5>1
        <5> QED
          BY <3>2, <4>0, <5>1, <5>2
      <4>2. t[f - 1] = m[g - 1]
        BY <1>2, <4>1
      <4>3. g - 1 \in {1, k, k + 3, Len(m) - 1}
        BY <1>3, <2>0, <4>1, <4>2
      <4>4. g - 1 # 1 /\ g - 1 # k + 3
        BY <1>3, <2>0, <4>2
      <4> QED
        BY <4>3, <4>4
    <3>4. CASE g - 1 = k
      <4>1. g = k + 1
        BY <3>1, <3>4
      <4> QED
        BY <3>1, <4>1
    <3>5. CASE g - 1 = Len(m) - 1
      <4>0. g \in Int /\ k \in Int /\ Len(m) \in Int
        BY <1>2
      <4>1. f = Len(t) /\ e < f
        <5>1. g = Len(m)
          BY <3>5, <4>0
        <5> QED
          <6>1. f = Len(b) + Len(m)
            BY <3>1, <5>1
          <6>2. f = Len(t)
            BY <1>n, <6>1
          <6> QED
            BY <1>n, <6>2
      <4>2. e < s2
        <5> SUFFICES ASSUME s2 <= e PROVE FALSE
          BY <1>5
        <5>1. e \in s2 .. f - 1
          BY <1>2, <4>1
        <5>2. k + 1 \in 1 .. Len(m) /\ k + 1 = k + 1
          BY <1>3, <4>0
        <5>3. t[e].event # <<>>
          BY <1>6, <5>2
        <5> QED
          BY <1>11, <5>1, <5>3 DEF NoEvents
      <4>3. PICK x, y \in 1 .. Len(m) : x = s2 - Len(b) /\ y = k2 - Len(b)
                                        /\ t[s2] = m[x] /\ t[k2] = m[y]
        <5>1. s2 \in Nat /\ k2 \in Nat /\ Len(b) < s2 /\ Len(b) < k2
              /\ s2 <= Len(t) /\ k2 <= Len(t)
          <6>1. k2 \in Nat /\ s2 \in Nat /\ k2 <= Len(t) /\ s2 <= Len(t) /\ e \in Nat
            BY <1>2
          <6>2. Len(b) < e
            BY <1>2, <1>3, <1>5, <4>0
          <6> QED
            BY <1>2, <2>0, <4>2, <6>1, <6>2
        <5> QED
          BY <1>8, <5>1
      <4>4. k + 1 < x /\ x < y /\ y < Len(m) - 1
        <5>1. k2 \in Int /\ s2 \in Int /\ f \in Int /\ e \in Int
          BY <1>2
        <5> QED
          <6>1. x = s2 - Len(b) /\ y = k2 - Len(b) /\ s2 < k2 /\ k2 + 3 < f - 1 /\ f = Len(t)
            BY <2>0, <4>1, <4>3
          <6>2. k + 1 < x
            BY <1>n, <4>2, <5>1, <6>1
          <6>3. x < y
            BY <1>n, <5>1, <6>1
          <6>4. y < Len(m) - 1
            BY <1>n, <5>1, <6>1
          <6> QED
            BY <6>2, <6>3, <6>4
      <4>5. y \in {1, k, k + 3, Len(m) - 1} /\ x \in {1, k, k + 3, Len(m) - 1}
        BY <1>3, <2>0, <4>3
      <4>6. y = k + 3
        BY <1>3, <4>4, <4>5
      <4> QED
        BY <1>3, <2>0, <4>3, <4>6
    <3> QED
      BY <3>3, <3>4, <3>5
  <2> QED
    BY <1>2, <2>1, <2>2
<1>12. ASSUME NEW f \in 1 .. Len(t), t[f].event # <<>>
       PROVE  \E s2, k2 \in 1 .. Len(t) : FrameAt(t, s2, k2, f)
  <2>1. f = e /\ st \in 1 .. Len(t)
    BY <1>2, <1>10, <1>12
  <2> QED
    BY <1>9, <2>1
<1>13. Stream3d(t)
  BY <1>11, <1>12 DEF Stream3d
<1> QED
  BY <1>13 DEF t

(* A half in the buffer spoils the message behind it, and only that one.   *)
LEMMA Spoiled ==
    ASSUME NEW b \in Seq(Cells), NoEvents(b, 1, Len(b)), Stream3d(b),
           NEW st \in 1 .. Len(b), Half(b, st),
           NEW r \in Seq(Cells), Stream3d(r), Goes(r),
           NEW k \in 1 .. Len(r), NEW e \in 1 .. Len(r), Whole(r, 1, k, e)
    PROVE  \E d : Skips(r, d, e, k + 1) /\ Stream3d(b \o d)
<1> DEFINE f == Text(b \o r, st, Len(b) + (k + 1))
           d == [i \in 1 .. Len(r) |->
                   [byte |-> r[i].byte,
                    event |-> IF i = k + 1 THEN <<Parse3d(f)>>
                              ELSE IF i = e THEN <<>> ELSE r[i].event]]
           m == Upto(d, e)
           u == From(r, e + 1)
           v == b \o m
<1>1. /\ 1 < k /\ k + 3 < e - 1 /\ e <= Len(r)
      /\ k \in Nat /\ e \in Nat /\ Len(r) \in Nat /\ Len(b) \in Nat
      /\ Match(r, 1, k, e)
      /\ \A i \in 1 .. e : r[i].event # <<>> <=> i = e
      /\ \A i \in 1 .. e : r[i].byte \notin {"nl", "Z", "H"}
  BY DEF Whole, FrameAt, Match
<1>2. f \in Seq(STRING)
  <2> DEFINE s == b \o r
  <2>1. s \in Seq(Cells) /\ Len(s) = Len(b) + Len(r)
    OBVIOUS
  <2> HIDE DEF s
  <2>2. PICK i, j \in Nat : i = st /\ j = Len(b) + (k + 1)
    <3>1. st \in Nat /\ Len(b) + (k + 1) \in Nat
      BY <1>1
    <3> QED
      BY <3>1
  <2>3. i # 0 /\ i <= j + 1 /\ j <= Len(s)
    BY <1>1, <2>1, <2>2
  <2>4. Text(s, i, j) \in Seq(STRING)
    BY <2>1, <2>3, TextOf
  <2> QED
    BY <2>2, <2>4 DEF s
<1> HIDE DEF f
<1>3. Parse3d(f) \in Events
  BY <1>2 DEF Events
<1>4. ASSUME NEW i \in 1 .. Len(r)
      PROVE  /\ d[i] \in Cells /\ d[i].byte = r[i].byte
             /\ d[i].event = (IF i = k + 1 THEN <<Parse3d(f)>>
                              ELSE IF i = e THEN <<>> ELSE r[i].event)
             /\ i \notin {e, k + 1} => d[i] = r[i]
  <2>1. r[i] \in Cells
    OBVIOUS
  <2>2. r[i] = [byte |-> r[i].byte, event |-> r[i].event] /\ r[i].byte \in STRING
        /\ r[i].event \in {<<>>} \cup {<<x>> : x \in Events}
    BY <2>1 DEF Cells
  <2> QED
    BY <1>3, <2>2 DEF Cells
<1>5. d \in Seq(Cells) /\ Len(d) = Len(r)
  BY <1>1, <1>4
<1> HIDE DEF d
<1>6. Skips(r, d, e, k + 1)
  <2>1. k + 1 \in 0 .. e /\ e \in 0 .. Len(r) /\ k + 1 # e /\ e # k + 1
    BY <1>1
  <2>2. d[e].event = <<>>
    BY <1>4, <2>1
  <2> QED
    BY <1>1, <1>4, <1>5, <2>1, <2>2 DEF Skips
<1>7. /\ m \in Seq(Cells) /\ Len(m) = e
      /\ \A i \in 1 .. e : m[i] = d[i]
  BY <1>1, <1>5 DEF Upto
<1>8. /\ u \in Seq(Cells) /\ Len(u) = Len(r) - e
      /\ \A i \in 1 .. Len(r) - e : u[i] = r[e + i]
  BY <1>1, BehindIs
<1>9. Stream3d(u) /\ Opening(u)
  <2>1. r[e].event # <<>>
    BY <1>1
  <2> QED
    BY <2>1, Behind3d, OpeningBehind
<1> HIDE DEF m, u
<1>10. v \in Seq(Cells) /\ JoinOf(v, b, m)
  BY <1>7, JoinedBoth
<1>11. Stream3d(v)
  <2>1. ASSUME NEW i \in 1 .. e PROVE m[i].byte = r[i].byte /\ (m[i].event # <<>> <=> i = k + 1)
    <3>1. i \in 1 .. Len(r)
      BY <1>1
    <3>2. m[i].byte = r[i].byte /\ (i = k + 1 => m[i].event = <<Parse3d(f)>>)
          /\ (i # k + 1 => m[i].event = <<>>)
      BY <1>1, <1>4, <1>7, <3>1
    <3>3. <<Parse3d(f)>> # <<>>
      OBVIOUS
    <3> QED
      BY <3>2, <3>3
  <2>2. k \in 1 .. Len(m) /\ {1, k, k + 1, k + 2, k + 3, e - 1, e} \subseteq 1 .. e
    BY <1>1, <1>7
  <2>3. Match(m, 1, k, e)
    BY <1>1, <2>1, <2>2 DEF Match
  <2>4. m[k + 1].event = <<Parse3d(f)>>
    <3>1. k + 1 \in 1 .. Len(r)
      BY <1>1
    <3> QED
      BY <1>4, <1>7, <2>2, <3>1
  <2>5. f = Text(v, st, Len(b) + (k + 1))
    <3> DEFINE s == b \o r
    <3>1. /\ \A i \in 1 .. Len(b) : s[i] = b[i]
          /\ \A i \in 1 .. Len(r) : s[Len(b) + i] = r[i]
      OBVIOUS
    <3> HIDE DEF s, v
    <3>2. ASSUME NEW i \in st .. Len(b) + (k + 1) PROVE s[i].byte = v[i].byte
      <4>1. CASE i <= Len(b)
        <5>1. i \in 1 .. Len(b)
          BY <1>1, <4>1
        <5> QED
          BY <1>10, <3>1, <5>1 DEF JoinOf
      <4>2. CASE Len(b) < i
        <5>1. PICK x \in 1 .. e : i = Len(b) + x
          <6>1. i - Len(b) \in 1 .. e /\ i = Len(b) + (i - Len(b))
            BY <1>1, <4>2
          <6> QED
            BY <6>1
        <5>2. x \in 1 .. Len(r) /\ x \in 1 .. Len(m)
          BY <1>1, <1>7
        <5> QED
          BY <1>10, <2>1, <3>1, <5>1, <5>2 DEF JoinOf
      <4> QED
        BY <1>1, <4>1, <4>2
    <3> DEFINE n == Len(b) + (k + 1)
    <3>3. n \in Int /\ st \in Int /\ \A i \in st .. n : s[i].byte = v[i].byte
      BY <1>1, <3>2
    <3> HIDE DEF n
    <3>4. Text(s, st, n) = Text(v, st, n)
      <4>1. \A x \in 1 .. n - st + 1 : st + x - 1 \in st .. n
        BY <3>3
      <4> QED
        BY <3>3, <4>1 DEF Text
    <3> QED
      BY <3>4 DEF n, f, s
  <2>6. \A i \in 1 .. Len(m) : m[i].event # <<>> <=> i = k + 1
    BY <1>7, <2>1
  <2>7. Match(m, 1, k, Len(m))
    BY <1>7, <2>3
  <2>8. m[k + 1].event = <<Parse3d(Text(b \o m, st, Len(b) + (k + 1)))>>
    BY <2>4, <2>5
  <2> QED
    BY <1>7, <2>2, <2>6, <2>7, <2>8, MixedFrame
<1>12. ~HalfFrame(v)
  <2>1. Len(v) = Len(b) + e /\ e \in 1 .. Len(m)
    BY <1>1, <1>7, <1>10 DEF JoinOf
  <2>2. v[Len(v)] = m[e]
    BY <1>10, <2>1 DEF JoinOf
  <2>3. m[e].byte = "E"
    BY <1>1, <1>4, <1>7, <2>1 DEF Match
  <2> QED
    BY <2>2, <2>3 DEF HalfFrame, Half
<1>13. Stream3d(v \o u)
  <2> HIDE DEF v
  <2> QED
    BY <1>8, <1>9, <1>10, <1>11, <1>12, Joined3d
<1>14. m \o u = d
  <2>1. m \o u \in Seq(Cells) /\ JoinOf(m \o u, m, u)
    BY <1>7, <1>8, JoinedBoth
  <2>2. Len(m \o u) = Len(d)
    BY <1>1, <1>5, <1>7, <1>8, <2>1 DEF JoinOf
  <2>3. ASSUME NEW i \in 1 .. Len(d) PROVE (m \o u)[i] = d[i]
    <3>1. CASE i <= e
      <4>1. i \in 1 .. Len(m)
        BY <1>1, <1>7, <3>1
      <4> QED
        BY <1>7, <2>1, <4>1 DEF JoinOf
    <3>2. CASE e < i
      <4>1. PICK x \in 1 .. Len(u) : i = Len(m) + x /\ i = e + x
        <5>1. i - e \in 1 .. Len(u) /\ i = e + (i - e)
          BY <1>1, <1>5, <1>8, <3>2
        <5> QED
          BY <1>7, <5>1
      <4>2. (m \o u)[i] = r[i]
        BY <1>8, <2>1, <4>1 DEF JoinOf
      <4>3. i \in 1 .. Len(r) /\ i # e /\ i # k + 1
        BY <1>1, <1>5, <3>2
      <4> QED
        BY <1>4, <4>2, <4>3
    <3>3. i <= e \/ e < i
      BY <1>1
    <3> QED
      BY <3>1, <3>2, <3>3, Zenon
  <2> QED
    BY <1>5, <2>1, <2>2, <2>3, SameText
<1>15. v \o u = b \o d
  <2>1. v \o u = b \o (m \o u)
    BY <1>7, <1>8
  <2> QED
    BY <1>14, <2>1
<1> QED
  BY <1>6, <1>13, <1>15

LEMMA WholeMoved ==
    ASSUME NEW s, NEW t, NEW d \in Int,
           NEW st \in Int, NEW k \in Int, NEW e \in Int,
           NEW st2 \in Int, NEW k2 \in Int, NEW e2 \in Int,
           st2 = st + d, k2 = k + d, e2 = e + d,
           Whole(s, st, k, e), Moved(s, t, st, e, d)
    PROVE  Whole(t, st2, k2, e2)
<1>1. FrameAt(t, st2, k2, e2)
  <2>1. FrameAt(s, st, k, e)
    BY DEF Whole
  <2> QED
    BY <2>1, FrameMoved
<1>2. ASSUME NEW i \in st2 .. e2
      PROVE  t[i].byte \notin {"nl", "Z", "H"} /\ (t[i].byte = "A" => i = k2 + 2)
  <2>1. PICK x \in st .. e : i = x + d
    <3>1. i - d \in st .. e /\ i = (i - d) + d
      OBVIOUS
    <3> QED
      BY <3>1
  <2>2. t[i] = s[x]
    BY <2>1 DEF Moved
  <2>3. s[x].byte \notin {"nl", "Z", "H"} /\ (s[x].byte = "A" => x = k + 2)
    BY DEF Whole
  <2> QED
    BY <2>1, <2>2, <2>3
<1> QED
  BY <1>1, <1>2 DEF Whole

(* What the 3D camera sends: a heartbeat, or a message of two segments.    *)
Blank3d(c) == \A i \in 1 .. Len(c) : c[i].byte \in {"nl", "Z", "H"} /\ c[i].event = <<>>

Sent3d(c) == Blank3d(c) \/ \E k \in 1 .. Len(c) : Whole(c, 1, k, Len(c))

LEMMA EncodedSent3d ==
    ASSUME NEW m \in Messages, m.channel = "3d"
    PROVE  Sent3d(Encoded(m))
<1> DEFINE c == Encoded(m)
<1>1. Len(c) = Len(m.bytes)
      /\ \A i \in 1 .. Len(m.bytes) :
            /\ c[i].byte = m.bytes[i]
            /\ c[i].event = IF i = Len(m.bytes) THEN m.event ELSE <<>>
  BY EncodedIs
<1>2. IsHeartbeatMessage(m) \/ IsFrameMessage(m)
  BY MessagesAssumption DEF IsReadyMessage, IsResultMessage
<1>3. CASE IsFrameMessage(m)
  <2>1. PICK k \in 1 .. Len(m.bytes) : Whole(c, 1, k, Len(m.bytes))
    BY <1>3, FrameEncoded
  <2> HIDE DEF c
  <2>2. \E x \in 1 .. Len(c) : Whole(c, 1, x, Len(c))
    BY <1>1, <2>1
  <2> QED
    BY <2>2 DEF Sent3d, c
<1>4. CASE IsHeartbeatMessage(m)
  <2> HIDE DEF c
  <2>1. m.bytes \in Seq({"H", "Z", "nl"}) /\ m.event = <<>>
    BY <1>4 DEF IsHeartbeatMessage
  <2>2. ASSUME NEW i \in 1 .. Len(c) PROVE c[i].byte \in {"nl", "Z", "H"} /\ c[i].event = <<>>
    <3>1. i \in 1 .. Len(m.bytes) /\ m.bytes[i] \in {"H", "Z", "nl"}
      BY <1>1, <2>1
    <3> QED
      BY <1>1, <2>1, <3>1
  <2> QED
    BY <2>2 DEF Sent3d, Blank3d, c
<1> QED
  BY <1>2, <1>3, <1>4

LEMMA SentIsStream ==
    ASSUME NEW c \in Seq(Cells), Sent3d(c)
    PROVE  Stream3d(c) /\ Opening(c)
<1>0. Len(c) \in Nat
  OBVIOUS
<1>1. CASE Blank3d(c)
  <2>1. Opening(c)
    BY <1>1 DEF Blank3d, Opening
  <2>2. Stream3d(c)
    BY <1>1 DEF Blank3d, Stream3d, Match
  <2> QED
    BY <2>1, <2>2
<1>2. CASE \E k \in 1 .. Len(c) : Whole(c, 1, k, Len(c))
  <2>1. PICK k \in 1 .. Len(c) : Whole(c, 1, k, Len(c))
    BY <1>2
  <2> DEFINE n == Len(c)
  <2>2. /\ FrameAt(c, 1, k, n) /\ n \in 1 .. Len(c) /\ 1 \in 1 .. Len(c)
        /\ 1 < k /\ k + 3 < n - 1 /\ k \in Nat /\ n \in Nat
        /\ c[1].byte = "("
        /\ \A i \in 1 .. n : c[i].byte \in {"(", ")"} => i \in {1, k, k + 3, n - 1}
        /\ \A i \in 1 .. n : c[i].event # <<>> <=> i = n
        /\ \A i \in 1 .. n : c[i].byte \notin {"nl", "Z", "H"} /\ (c[i].byte = "A" => i = k + 2)
    <3>1. FrameAt(c, 1, k, n) /\ Match(c, 1, k, n)
      BY <2>1 DEF Whole, FrameAt
    <3>2. 1 < k /\ k + 3 < n - 1 /\ k \in Nat /\ n \in Nat
      BY <1>0, <3>1 DEF Match
    <3> QED
      BY <2>1, <3>1, <3>2 DEF Whole, FrameAt, Match
  <2>3. Opening(c)
    <3>1. ASSUME NEW i \in 1 .. n, i = 1 \/ c[i - 1].byte \in {"nl", "Z", "H"} PROVE i = 1
      <4> SUFFICES ASSUME i # 1 PROVE FALSE
        OBVIOUS
      <4>1. i - 1 \in 1 .. n
        BY <2>2
      <4> QED
        BY <2>2, <3>1, <4>1
    <3> QED
      BY <2>2, <3>1 DEF Opening
  <2>4. ASSUME NEW s2 \in 1 .. n, NEW k2 \in 1 .. n, NEW e2 \in 1 .. n, Match(c, s2, k2, e2)
        PROVE  e2 = n
    <3>1. /\ s2 < k2 /\ k2 + 3 < e2 - 1 /\ c[k2].byte = ")" /\ c[k2 + 2].byte = "A"
          /\ c[k2 + 3].byte = "(" /\ c[e2 - 1].byte = ")"
      BY <2>4 DEF Match
    <3>2. k2 + 2 \in 1 .. n /\ e2 - 1 \in 1 .. n
      BY <2>2, <3>1
    <3>3. k2 + 2 = k + 2
      BY <2>2, <3>1, <3>2
    <3>4. e2 - 1 \in {1, k, k + 3, n - 1}
      BY <2>2, <3>1, <3>2
    <3>5. k2 \in Int /\ e2 \in Int /\ k \in Int /\ n \in Int
      BY <2>2
    <3> HIDE DEF n
    <3> QED
      BY <2>2, <3>1, <3>3, <3>4, <3>5
  <2>5. ASSUME NEW e2 \in 1 .. n, c[e2].event # <<>>
        PROVE  \E s2, k2 \in 1 .. n : FrameAt(c, s2, k2, e2)
    <3>1. e2 = n
      BY <2>2, <2>5
    <3> QED
      BY <2>2, <3>1
  <2>6. ASSUME NEW s2 \in 1 .. n, NEW k2 \in 1 .. n, NEW e2 \in 1 .. n, Match(c, s2, k2, e2)
        PROVE  c[e2].event # <<>>
    <3>1. e2 = n
      BY <2>4, <2>6
    <3> QED
      BY <2>2, <3>1
  <2> QED
    BY <2>3, <2>5, <2>6 DEF Stream3d
<1> QED
  BY <1>1, <1>2 DEF Sent3d

(* Messages and heartbeats are put behind what is on the way.              *)
LEMMA GoesOn ==
    ASSUME NEW w \in Seq(Cells), Goes(w), NEW c \in Seq(Cells), Sent3d(c)
    PROVE  Goes(w \o c)
<1> DEFINE t == w \o c
<1>1. t \in Seq(Cells) /\ JoinOf(t, w, c)
  BY JoinedBoth
<1> HIDE DEF t
<1>2. /\ Len(t) = Len(w) + Len(c) /\ Len(w) \in Nat /\ Len(c) \in Nat
      /\ \A i \in 1 .. Len(w) : t[i] = w[i]
      /\ \A i \in 1 .. Len(c) : t[Len(w) + i] = c[i]
  BY <1>1 DEF JoinOf
<1>3. ASSUME NEW k \in 1 .. Len(c), Whole(c, 1, k, Len(c))
      PROVE  \E x, e \in 1 .. Len(t) : Whole(t, Len(w) + 1, x, e)
  <2>1. PICK d, one, n, x, e, st \in Int : /\ d = Len(w) /\ one = 1 /\ n = Len(c)
                                           /\ x = k + d /\ e = n + d /\ st = one + d
    BY <1>2
  <2>2. Moved(c, t, one, n, d)
    <3>1. ASSUME NEW y \in one .. n PROVE t[y + d] = c[y]
      <4>1. y \in 1 .. Len(c) /\ y + d = Len(w) + y
        BY <2>1
      <4> QED
        BY <1>2, <4>1
    <3> QED
      BY <3>1 DEF Moved
  <2>3. Whole(t, st, x, e)
    <3>1. Whole(c, one, k, n) /\ k \in Int
      BY <1>2, <1>3, <2>1
    <3> QED
      BY <2>1, <2>2, <3>1, WholeMoved
  <2>4. st = Len(w) + 1 /\ x \in 1 .. Len(t) /\ e \in 1 .. Len(t)
    BY <1>2, <2>1
  <2> QED
    BY <2>3, <2>4
<1>4. ASSUME NEW i \in 1 .. Len(w), i < Len(w),
             \E k, e \in 1 .. Len(w) : Whole(w, i + 1, k, e)
      PROVE  \E k, e \in 1 .. Len(t) : Whole(t, i + 1, k, e)
  <2>1. PICK k, e \in 1 .. Len(w) : Whole(w, i + 1, k, e)
    BY <1>4
  <2>2. PICK zero, st \in Int : zero = 0 /\ st = i + 1
    OBVIOUS
  <2>3. Moved(w, t, st, e, zero)
    <3>1. ASSUME NEW y \in st .. e PROVE y \in 1 .. Len(w) /\ y + zero = y
      BY <1>2, <2>2
    <3> QED
      BY <1>2, <3>1 DEF Moved
  <2>4. /\ k \in Int /\ e \in Int /\ k = k + zero /\ e = e + zero /\ st = st + zero
        /\ k \in 1 .. Len(t) /\ e \in 1 .. Len(t)
    BY <1>2, <2>2
  <2>5. Whole(t, st, k, e)
    BY <2>1, <2>2, <2>3, <2>4, WholeMoved
  <2> QED
    BY <2>2, <2>4, <2>5
<1> DEFINE Blank(x) == x.byte \in {"nl", "Z", "H"}
<1>5. ASSUME NEW i \in 1 .. Len(t), Blank(t[i]) \/ t[i].event # <<>>, i < Len(t)
      PROVE  Blank(t[i + 1]) \/ \E k, e \in 1 .. Len(t) : Whole(t, i + 1, k, e)
  <2>1. CASE i < Len(w)
    <3>1. i \in 1 .. Len(w) /\ i + 1 \in 1 .. Len(w)
      BY <1>2, <2>1
    <3>2. t[i] = w[i] /\ t[i + 1] = w[i + 1]
      BY <1>2, <3>1
    <3>3. Blank(w[i + 1]) \/ \E k, e \in 1 .. Len(w) : Whole(w, i + 1, k, e)
      BY <1>5, <2>1, <3>1, <3>2 DEF Goes
    <3> QED
      BY <1>4, <2>1, <3>1, <3>2, <3>3
  <2>2. CASE i = Len(w)
    <3>1. 1 \in 1 .. Len(c) /\ i + 1 = Len(w) + 1
      BY <1>2, <1>5, <2>2
    <3>2. t[i + 1] = c[1]
      BY <1>2, <3>1
    <3>3. CASE Blank3d(c)
      BY <3>1, <3>2, <3>3 DEF Blank3d
    <3>4. CASE ~Blank3d(c)
      BY <1>3, <3>1, <3>4 DEF Sent3d
    <3> QED
      BY <3>3, <3>4
  <2>3. CASE Len(w) < i
    <3>1. PICK j \in 1 .. Len(c) : i = Len(w) + j /\ j < Len(c)
      <4>1. i - Len(w) \in 1 .. Len(c) /\ i = Len(w) + (i - Len(w)) /\ i - Len(w) < Len(c)
        BY <1>2, <1>5, <2>3
      <4> QED
        BY <4>1
    <3>2. j + 1 \in 1 .. Len(c) /\ i + 1 = Len(w) + (j + 1)
      BY <1>2, <3>1
    <3>3. t[i] = c[j] /\ t[i + 1] = c[j + 1]
      BY <1>2, <3>1, <3>2
    <3>4. Blank3d(c)
      <4> SUFFICES ASSUME NEW k \in 1 .. Len(c), Whole(c, 1, k, Len(c)) PROVE FALSE
        BY DEF Sent3d
      <4>1. c[j].byte \notin {"nl", "Z", "H"} /\ c[j].event = <<>>
        <5>1. j \in 1 .. Len(c) /\ j # Len(c)
          BY <1>2, <3>1
        <5> QED
          BY <5>1 DEF Whole, FrameAt
      <4> QED
        BY <1>5, <3>3, <4>1
    <3> QED
      BY <3>2, <3>3, <3>4 DEF Blank3d
  <2> QED
    BY <1>2, <2>1, <2>2, <2>3
<1>6. ASSUME NEW i \in 1 .. Len(t), t[i].byte = "A"
      PROVE  i < Len(t) /\ t[i + 1].byte = "("
  <2>1. CASE i <= Len(w)
    <3>1. i \in 1 .. Len(w) /\ t[i] = w[i]
      BY <1>2, <2>1
    <3>2. i < Len(w) /\ w[i + 1].byte = "("
      BY <1>6, <3>1 DEF Goes
    <3>3. i + 1 \in 1 .. Len(w) /\ i < Len(t)
      BY <1>2, <3>2
    <3> QED
      BY <1>2, <3>2, <3>3
  <2>2. CASE Len(w) < i
    <3>1. PICK j \in 1 .. Len(c) : i = Len(w) + j /\ t[i] = c[j]
      <4>1. i - Len(w) \in 1 .. Len(c) /\ i = Len(w) + (i - Len(w))
        BY <1>2, <2>2
      <4> QED
        BY <1>2, <4>1
    <3>2. ~Blank3d(c)
      BY <1>6, <3>1 DEF Blank3d
    <3>3. PICK k \in 1 .. Len(c) : Whole(c, 1, k, Len(c))
      BY <3>2 DEF Sent3d
    <3>4. /\ j = k + 2 /\ k + 3 < Len(c) - 1 /\ c[k + 3].byte = "("
      BY <1>6, <3>1, <3>3 DEF Whole, FrameAt, Match
    <3>5. k + 3 \in 1 .. Len(c) /\ i + 1 = Len(w) + (k + 3) /\ i < Len(t)
      BY <1>2, <3>1, <3>4
    <3> QED
      BY <1>2, <3>4, <3>5
  <2> QED
    BY <1>2, <2>1, <2>2
<1>7. Goes(t)
  BY <1>5, <1>6 DEF Goes
<1> QED
  BY <1>7 DEF t

LEMMA GoesBehind ==
    ASSUME NEW w \in Seq(Cells), Goes(w), NEW n \in 0 .. Len(w)
    PROVE  Goes(From(w, n + 1))
<1> DEFINE u == From(w, n + 1)
<1>1. u \in Seq(Cells) /\ Len(u) = Len(w) - n /\ \A i \in 1 .. Len(w) - n : u[i] = w[n + i]
  BY BehindIs
<1> HIDE DEF u
<1>2. Len(w) \in Nat /\ n \in Nat
  OBVIOUS
<1> DEFINE Blank(x) == x.byte \in {"nl", "Z", "H"}
<1>3. ASSUME NEW i \in 1 .. Len(u)
      PROVE  n + i \in 1 .. Len(w) /\ u[i] = w[n + i] /\ (i < Len(u) => u[i + 1] = w[(n + i) + 1])
  <2>1. n + i \in 1 .. Len(w) /\ u[i] = w[n + i]
    BY <1>1, <1>2
  <2>2. ASSUME i < Len(u) PROVE u[i + 1] = w[(n + i) + 1]
    <3>1. i + 1 \in 1 .. Len(w) - n /\ (n + i) + 1 = n + (i + 1)
      BY <1>1, <1>2, <2>2
    <3> QED
      BY <1>1, <3>1
  <2> QED
    BY <2>1, <2>2
<1>4. ASSUME NEW i \in 1 .. Len(u), Blank(u[i]) \/ u[i].event # <<>>, i < Len(u)
      PROVE  Blank(u[i + 1]) \/ \E k, e \in 1 .. Len(u) : Whole(u, i + 1, k, e)
  <2>1. n + i \in 1 .. Len(w) /\ n + i < Len(w) /\ u[i] = w[n + i] /\ u[i + 1] = w[(n + i) + 1]
    BY <1>1, <1>2, <1>3, <1>4
  <2>2. Blank(w[(n + i) + 1]) \/ \E k, e \in 1 .. Len(w) : Whole(w, (n + i) + 1, k, e)
    BY <1>4, <2>1 DEF Goes
  <2>3. CASE \E k, e \in 1 .. Len(w) : Whole(w, (n + i) + 1, k, e)
    <3>1. PICK k, e \in 1 .. Len(w) : Whole(w, (n + i) + 1, k, e)
      BY <2>3
    <3>2. (n + i) + 1 < k /\ k + 3 < e - 1
      BY <3>1 DEF Whole, FrameAt, Match
    <3>3. PICK d, st, st2, k2, e2 \in Int : /\ d = -n /\ st = (n + i) + 1 /\ st2 = i + 1
                                            /\ k2 = k + d /\ e2 = e + d
      BY <1>2
    <3>4. Moved(w, u, st, e, d)
      <4>1. ASSUME NEW y \in st .. e PROVE y + d \in 1 .. Len(w) - n /\ y = n + (y + d)
        BY <1>2, <3>3
      <4> QED
        BY <1>1, <4>1 DEF Moved
    <3>5. k \in Int /\ e \in Int /\ st2 = st + d /\ k2 \in 1 .. Len(u) /\ e2 \in 1 .. Len(u)
      BY <1>1, <1>2, <3>2, <3>3
    <3>6. Whole(u, st2, k2, e2)
      BY <3>1, <3>3, <3>4, <3>5, WholeMoved
    <3> QED
      BY <3>3, <3>5, <3>6
  <2> QED
    BY <2>1, <2>2, <2>3
<1>5. ASSUME NEW i \in 1 .. Len(u), u[i].byte = "A"
      PROVE  i < Len(u) /\ u[i + 1].byte = "("
  <2>1. n + i \in 1 .. Len(w) /\ u[i] = w[n + i]
    BY <1>3
  <2>2. n + i < Len(w) /\ w[(n + i) + 1].byte = "("
    BY <1>5, <2>1 DEF Goes
  <2>3. i < Len(u)
    BY <1>1, <1>2, <2>2
  <2> QED
    BY <1>3, <2>2, <2>3
<1>6. Goes(u)
  BY <1>4, <1>5 DEF Goes
<1> QED
  BY <1>6 DEF u

-----------------------------------------------------------------------------
(* The events received that were not handed over, counted as the property  *)
(* counts them.                                                            *)
Times(e, s) == Cardinality({i \in 1 .. Len(s) : s[i] = e})

Missing(r, h) == {i \in 1 .. Len(r) : Times(r[i], SubSeq(r, 1, i)) > Times(r[i], h)}

Lost(r, h) == Cardinality(Missing(r, h))

LEMMA TimesIs ==
    ASSUME NEW S, NEW s \in Seq(S), NEW e
    PROVE  Times(e, s) \in Nat /\ (s = <<>> => Times(e, s) = 0)
<1> DEFINE T == {i \in 1 .. Len(s) : s[i] = e}
<1>1. IsFiniteSet(1 .. Len(s)) /\ T \in SUBSET (1 .. Len(s))
  BY FS_Interval
<1>2. s = <<>> => T = {}
  OBVIOUS
<1>3. IsFiniteSet(T)
  <2> HIDE DEF T
  <2> QED
    BY <1>1, FS_Subset
<1> HIDE DEF T
<1>4. Cardinality(T) \in Nat /\ (s = <<>> => Cardinality(T) = 0)
  BY <1>2, <1>3, FS_CardinalityType, FS_EmptySet
<1> QED
  BY <1>4 DEF Times, T

LEMMA TimesAppend ==
    ASSUME NEW S, NEW s \in Seq(S), NEW x \in S, NEW e
    PROVE  Times(e, Append(s, x)) = Times(e, s) + (IF x = e THEN 1 ELSE 0)
<1> DEFINE t == Append(s, x)
           n == Len(s)
           T == {i \in 1 .. n : s[i] = e}
           U == {i \in 1 .. Len(t) : t[i] = e}
<1>1. n \in Nat /\ Len(t) = n + 1 /\ t[n + 1] = x /\ \A i \in 1 .. n : t[i] = s[i]
  OBVIOUS
<1>2. U = (IF x = e THEN T \cup {n + 1} ELSE T)
  <2> HIDE DEF t, n
  <2>1. ASSUME NEW i \in 1 .. n + 1 PROVE i \in 1 .. n \/ i = n + 1
    BY <1>1
  <2>2. ASSUME NEW i \in 1 .. n PROVE i \in 1 .. n + 1 /\ i # n + 1
    BY <1>1
  <2>3. n + 1 \in 1 .. n + 1
    BY <1>1
  <2> QED
    BY <1>1, <2>1, <2>2, <2>3
<1>3. IsFiniteSet(T)
  <2>1. IsFiniteSet(1 .. n) /\ T \in SUBSET (1 .. n)
    BY <1>1, FS_Interval
  <2> HIDE DEF T
  <2> QED
    BY <2>1, FS_Subset
<1>4. n + 1 \notin T
  BY <1>1
<1> HIDE DEF T, U
<1>5. Cardinality(T) \in Nat /\ Cardinality(T \cup {n + 1}) = Cardinality(T) + 1
  BY <1>3, <1>4, FS_AddElement, FS_CardinalityType
<1>6. Cardinality(U) = Cardinality(T) + (IF x = e THEN 1 ELSE 0)
  BY <1>2, <1>5
<1> QED
  BY <1>6 DEF Times, T, U, t, n

(* The first events of a longer sequence.                                  *)
LEMMA FirstOf ==
    ASSUME NEW S, NEW r \in Seq(S), NEW x \in S
    PROVE  /\ \A i \in 1 .. Len(r) : SubSeq(Append(r, x), 1, i) = SubSeq(r, 1, i)
           /\ SubSeq(Append(r, x), 1, Len(r) + 1) = Append(r, x)
           /\ SubSeq(r, 1, Len(r)) = r
OBVIOUS

LEMMA FirstGrow ==
    ASSUME NEW S, NEW r \in Seq(S), NEW j \in 1 .. Len(r)
    PROVE  /\ SubSeq(r, 1, j - 1) \in Seq(S)
           /\ SubSeq(r, 1, j) = Append(SubSeq(r, 1, j - 1), r[j])
<1> DEFINE a == SubSeq(r, 1, j)
           c == SubSeq(r, 1, j - 1)
<1>1. j \in Nat /\ Len(r) \in Nat /\ j <= Len(r) /\ 1 <= j
  OBVIOUS
<1>2. a \in Seq(S) /\ Len(a) = j /\ \A i \in 1 .. j : a[i] = r[i]
  BY <1>1
<1>3. c \in Seq(S) /\ Len(c) = j - 1 /\ \A i \in 1 .. j - 1 : c[i] = r[i]
  BY <1>1
<1> HIDE DEF a, c
<1> DEFINE q == Append(c, r[j])
<1>4. q \in Seq(S) /\ Len(q) = j /\ q[j] = r[j] /\ \A i \in 1 .. j - 1 : q[i] = c[i]
  BY <1>1, <1>3
<1> HIDE DEF q
<1>5. ASSUME NEW i \in 1 .. j PROVE a[i] = q[i]
  <2>1. i = j \/ i \in 1 .. j - 1
    BY <1>1
  <2> QED
    BY <1>2, <1>3, <1>4, <2>1
<1>6. a = q
  BY <1>2, <1>4, <1>5, SameText
<1> QED
  BY <1>3, <1>6 DEF a, c, q

LEMMA MissingIs ==
    ASSUME NEW S, NEW r \in Seq(S), NEW h \in Seq(S)
    PROVE  IsFiniteSet(Missing(r, h)) /\ Lost(r, h) \in Nat
<1>1. IsFiniteSet(1 .. Len(r)) /\ Missing(r, h) \in SUBSET (1 .. Len(r))
  BY FS_Interval DEF Missing
<1>2. IsFiniteSet(Missing(r, h))
  BY <1>1, FS_Subset
<1> QED
  BY <1>2, FS_CardinalityType DEF Lost

(* What is handed over is not missed the more for it.                      *)
LEMMA HandedMore ==
    ASSUME NEW S, NEW r \in Seq(S), NEW h \in Seq(S), NEW x \in S
    PROVE  Lost(r, Append(h, x)) <= Lost(r, h)
<1>1. ASSUME NEW i \in Missing(r, Append(h, x)) PROVE i \in Missing(r, h)
  <2>1. i \in 1 .. Len(r) /\ Times(r[i], SubSeq(r, 1, i)) > Times(r[i], Append(h, x))
    BY DEF Missing
  <2>2. Times(r[i], h) \in Nat /\ Times(r[i], Append(h, x)) \in Nat
        /\ Times(r[i], Append(h, x)) >= Times(r[i], h)
    BY TimesIs, TimesAppend
  <2>3. SubSeq(r, 1, i) \in Seq(S)
    BY <2>1
  <2>4. Times(r[i], SubSeq(r, 1, i)) \in Nat
    BY <2>3, TimesIs
  <2>5. Times(r[i], SubSeq(r, 1, i)) > Times(r[i], h)
    BY <2>1, <2>2, <2>4
  <2> QED
    BY <2>1, <2>5 DEF Missing
<1>2. Missing(r, Append(h, x)) \in SUBSET Missing(r, h)
  BY <1>1
<1>3. IsFiniteSet(Missing(r, h))
  BY MissingIs
<1> QED
  BY <1>2, <1>3, FS_Subset DEF Lost

(* A message that was received is one more at most that is missed.         *)
LEMMA ReceivedMore ==
    ASSUME NEW S, NEW r \in Seq(S), NEW h \in Seq(S), NEW x \in S
    PROVE  Lost(Append(r, x), h) <= Lost(r, h) + 1
<1> DEFINE t == Append(r, x)
           n == Len(r) + 1
           M == Missing(r, h)
<1>1. Len(t) = n /\ Len(r) \in Nat /\ \A i \in 1 .. Len(r) : t[i] = r[i]
  OBVIOUS
<1>2. ASSUME NEW i \in Missing(t, h), i # n PROVE i \in M
  <2>1. i \in 1 .. n /\ Times(t[i], SubSeq(t, 1, i)) > Times(t[i], h)
    BY <1>1 DEF Missing
  <2>2. i \in 1 .. Len(r)
    BY <1>1, <1>2, <2>1
  <2>3. t[i] = r[i] /\ SubSeq(t, 1, i) = SubSeq(r, 1, i)
    BY <1>1, <2>2, FirstOf
  <2> QED
    BY <2>1, <2>2, <2>3 DEF Missing
<1>3. Missing(t, h) \in SUBSET (M \cup {n})
  BY <1>2
<1>4. IsFiniteSet(M) /\ Cardinality(M) \in Nat
  BY MissingIs DEF Lost
<1>5. Missing(t, h) \subseteq M \cup {n} /\ t \in Seq(S)
  BY <1>3
<1> HIDE DEF M, t, n
<1>6. /\ IsFiniteSet(M \cup {n})
      /\ Cardinality(M \cup {n}) = (IF n \in M THEN Cardinality(M) ELSE Cardinality(M) + 1)
  BY <1>4, FS_AddElement
<1>7. Cardinality(Missing(t, h)) <= Cardinality(M \cup {n})
  BY <1>3, <1>6, FS_Subset
<1>8. Cardinality(Missing(t, h)) \in Nat
  BY <1>5, MissingIs DEF Lost
<1>9. Cardinality(Missing(t, h)) <= Cardinality(M) + 1
  BY <1>4, <1>6, <1>7, <1>8
<1> QED
  BY <1>9 DEF Lost, M, t

(* What is received and handed over makes none missed: if there is one     *)
(* like it already, the first of them is made good.                        *)
LEMMA BothMore ==
    ASSUME NEW S, NEW r \in Seq(S), NEW h \in Seq(S), NEW x \in S
    PROVE  Lost(Append(r, x), Append(h, x)) <= Lost(r, h)
<1> DEFINE t == Append(r, x)
           g == Append(h, x)
           n == Len(r) + 1
           M == Missing(r, h)
           N == Missing(t, g)
           z == Times(x, h)
           a == Times(x, r)
<1>1. /\ t \in Seq(S) /\ g \in Seq(S)
      /\ Len(t) = n /\ Len(r) \in Nat /\ t[n] = x /\ \A i \in 1 .. Len(r) : t[i] = r[i]
  OBVIOUS
<1>2. z \in Nat /\ a \in Nat /\ Times(x, g) = z + 1 /\ Times(x, t) = a + 1
  BY TimesIs, TimesAppend
<1>3. IsFiniteSet(M) /\ Cardinality(M) \in Nat /\ IsFiniteSet(N) /\ Cardinality(N) \in Nat
  BY <1>1, MissingIs DEF Lost
<1>4. SubSeq(t, 1, n) = t /\ SubSeq(r, 1, Len(r)) = r
      /\ \A i \in 1 .. Len(r) : SubSeq(t, 1, i) = SubSeq(r, 1, i)
  BY FirstOf
<1>5. ASSUME NEW i \in 1 .. Len(r)
      PROVE  /\ SubSeq(r, 1, i) \in Seq(S) /\ Times(r[i], SubSeq(r, 1, i)) \in Nat
             /\ Times(r[i], h) \in Nat
             /\ Times(r[i], g) = Times(r[i], h) + (IF x = r[i] THEN 1 ELSE 0)
  <2>1. SubSeq(r, 1, i) \in Seq(S)
    OBVIOUS
  <2> QED
    BY <2>1, TimesIs, TimesAppend
<1> HIDE DEF t, g, M, N, z, a
<1>6. ASSUME NEW i \in N, i # n PROVE i \in 1 .. Len(r) /\ i \in M
  <2>1. i \in 1 .. n /\ Times(t[i], SubSeq(t, 1, i)) > Times(t[i], g)
    BY <1>1 DEF Missing, N
  <2>2. i \in 1 .. Len(r)
    BY <1>1, <1>6, <2>1
  <2>3. Times(r[i], SubSeq(r, 1, i)) > Times(r[i], g)
    BY <1>1, <1>4, <2>1, <2>2
  <2>4. Times(r[i], SubSeq(r, 1, i)) > Times(r[i], h)
    BY <1>5, <2>2, <2>3
  <2> QED
    BY <2>2, <2>4 DEF Missing, M
<1>7. CASE a <= z
  <2>1. n \notin N
    <3> SUFFICES ASSUME n \in N PROVE FALSE
      OBVIOUS
    <3>1. Times(t[n], SubSeq(t, 1, n)) > Times(t[n], g)
      BY DEF N, Missing
    <3>2. a + 1 > z + 1
      BY <1>1, <1>2, <1>4, <3>1
    <3> QED
      BY <1>2, <1>7, <3>2
  <2>2. N \in SUBSET M
    BY <1>6, <2>1
  <2>3. Cardinality(N) <= Cardinality(M)
    BY <1>3, <2>2, FS_Subset
  <2> QED
    BY <2>3 DEF Lost, M, N, t, g
<1>8. CASE z < a
  <2> DEFINE T == {j \in 1 .. Len(r) : Times(x, SubSeq(r, 1, j)) > z}
  <2>1. T \subseteq Nat /\ Len(r) \in T
    <3>1. Len(r) # 0
      <4> SUFFICES ASSUME Len(r) = 0 PROVE FALSE
        OBVIOUS
      <4>1. r = <<>>
        OBVIOUS
      <4>2. a = 0
        BY <4>1, TimesIs DEF a
      <4> QED
        BY <1>2, <1>8, <4>2
    <3>2. Len(r) \in 1 .. Len(r)
      BY <1>1, <3>1
    <3>3. Times(x, SubSeq(r, 1, Len(r))) > z
      BY <1>2, <1>4, <1>8 DEF a
    <3> QED
      BY <3>2, <3>3
  <2>2. PICK j \in T : \A y \in T : j <= y
    <3> HIDE DEF T
    <3> QED
      BY <2>1, SmallestExists
  <2>3. j \in 1 .. Len(r) /\ Times(x, SubSeq(r, 1, j)) > z
    BY <2>2
  <2> DEFINE c == SubSeq(r, 1, j - 1)
  <2>4. c \in Seq(S) /\ SubSeq(r, 1, j) = Append(c, r[j]) /\ r[j] \in S
    BY <2>3, FirstGrow
  <2>5. Times(x, c) \in Nat /\ Times(x, c) <= z
    <3>1. Times(x, c) \in Nat
      BY <2>4, TimesIs
    <3>2. CASE j = 1
      <4>1. c = <<>>
        BY <3>2
      <4>2. Times(x, c) = 0
        BY <2>4, <4>1, TimesIs
      <4> QED
        BY <1>2, <3>1, <4>2
    <3>3. CASE j # 1
      <4>1. j - 1 \in 1 .. Len(r) /\ ~(j <= j - 1)
        BY <1>1, <2>3, <3>3
      <4>2. j - 1 \notin T
        BY <2>2, <4>1
      <4>3. ~(Times(x, c) > z)
        BY <4>1, <4>2
      <4> QED
        BY <1>2, <3>1, <4>3
    <3> QED
      BY <3>2, <3>3
  <2>6. Times(x, SubSeq(r, 1, j)) = Times(x, c) + (IF r[j] = x THEN 1 ELSE 0)
    <3> HIDE DEF c
    <3>1. Times(x, Append(c, r[j])) = Times(x, c) + (IF r[j] = x THEN 1 ELSE 0)
      BY <2>4, TimesAppend
    <3> QED
      BY <2>4, <3>1
  <2> HIDE DEF T, c
  <2>7. r[j] = x /\ Times(x, SubSeq(r, 1, j)) = z + 1
    BY <1>2, <2>3, <2>5, <2>6
  <2>8. j \in M
    BY <2>3, <2>7 DEF M, Missing, z
  <2>9. j \notin N
    <3> SUFFICES ASSUME j \in N PROVE FALSE
      OBVIOUS
    <3>1. Times(t[j], SubSeq(t, 1, j)) > Times(t[j], g)
      BY DEF N, Missing
    <3>2. z + 1 > z + 1
      BY <1>1, <1>2, <1>4, <2>3, <2>7, <3>1
    <3> QED
      BY <1>2, <3>2
  <2>10. N \in SUBSET ((M \ {j}) \cup {n})
    BY <1>6, <2>9
  <2>11. IsFiniteSet(M \ {j}) /\ Cardinality(M \ {j}) = Cardinality(M) - 1
    BY <1>3, <2>8, FS_RemoveElement
  <2> DEFINE U == M \ {j}
  <2>12. IsFiniteSet(U) /\ Cardinality(U) = Cardinality(M) - 1 /\ N \in SUBSET (U \cup {n})
    BY <2>10, <2>11
  <2> HIDE DEF U
  <2>13. /\ IsFiniteSet(U \cup {n})
         /\ Cardinality(U \cup {n}) = (IF n \in U THEN Cardinality(U) ELSE Cardinality(U) + 1)
    BY <2>12, FS_AddElement
  <2>14. Cardinality(N) <= Cardinality(U \cup {n})
    BY <2>12, <2>13, FS_Subset
  <2>15. Cardinality(N) <= Cardinality(M)
    <3>1. PICK nn, mm, uu \in Int : nn = Cardinality(N) /\ mm = Cardinality(M) /\ uu = mm - 1
      BY <1>3
    <3>2. nn <= uu + 1
      BY <2>12, <2>13, <2>14, <3>1
    <3> QED
      BY <3>1, <3>2
  <2> QED
    BY <2>15 DEF Lost, M, N, t, g
<1> QED
  BY <1>2, <1>7, <1>8

(* Nothing is missed of what was handed over as it was received.           *)
LEMMA NoneLost ==
    ASSUME NEW S, NEW r \in Seq(S)
    PROVE  Lost(r, r) = 0
<1> DEFINE good(n) == Lost(SubSeq(r, 1, n), SubSeq(r, 1, n)) = 0
<1>1. good(0)
  <2>1. SubSeq(r, 1, 0) = <<>>
    OBVIOUS
  <2>2. Missing(<<>>, <<>>) = {}
    BY DEF Missing
  <2> QED
    BY <2>1, <2>2, FS_EmptySet DEF Lost
<1>2. ASSUME NEW n \in 1 .. Len(r), good(n - 1) PROVE good(n)
  <2> DEFINE c == SubSeq(r, 1, n - 1)
             a == SubSeq(r, 1, n)
  <2>1. c \in Seq(S) /\ a = Append(c, r[n]) /\ r[n] \in S
    BY FirstGrow
  <2>2. Lost(c, c) = 0
    BY <1>2
  <2>3. a \in Seq(S)
    OBVIOUS
  <2> HIDE DEF a, c
  <2>4. Lost(a, a) <= Lost(c, c) /\ Lost(a, a) \in Nat
    BY <2>1, <2>3, BothMore, MissingIs
  <2>5. Lost(a, a) = 0
    BY <2>2, <2>4
  <2> QED
    BY <2>5 DEF a
<1> DEFINE T == {n \in 0 .. Len(r) : ~good(n)}
<1>3. T = {}
  <2> SUFFICES ASSUME T # {} PROVE FALSE
    OBVIOUS
  <2>1. T \subseteq Nat
    OBVIOUS
  <2>2. PICK n \in T : \A y \in T : n <= y
    <3> HIDE DEF T
    <3> QED
      BY <2>1, SmallestExists
  <2>3. n \in 0 .. Len(r) /\ ~good(n)
    BY <2>2
  <2> HIDE DEF good
  <2>4. n # 0
    BY <1>1, <2>3
  <2>5. n \in 1 .. Len(r) /\ n - 1 \in 0 .. Len(r) /\ ~(n <= n - 1)
    BY <2>3, <2>4
  <2>6. good(n - 1)
    BY <2>2, <2>5
  <2> QED
    BY <1>2, <2>3, <2>5, <2>6
<1>4. good(Len(r))
  <2>1. Len(r) \in 0 .. Len(r)
    OBVIOUS
  <2> HIDE DEF good
  <2> QED
    BY <1>3, <2>1
<1>5. SubSeq(r, 1, Len(r)) = r
  BY FirstOf
<1> QED
  BY <1>4, <1>5

LEMMA StepByStep ==
    ASSUME NEW n \in Nat, NEW T, 0 \in T, \A i \in 1 .. n : i - 1 \in T => i \in T
    PROVE  \A i \in 0 .. n : i \in T
<1> DEFINE U == {i \in 0 .. n : i \notin T}
<1>1. U = {}
  <2> SUFFICES ASSUME U # {} PROVE FALSE
    OBVIOUS
  <2>1. U \subseteq Nat
    OBVIOUS
  <2>2. PICK i \in U : \A y \in U : i <= y
    <3> HIDE DEF U
    <3> QED
      BY <2>1, SmallestExists
  <2>3. i \in 0 .. n /\ i \notin T /\ i # 0
    BY <2>2
  <2>4. i \in 1 .. n /\ i - 1 \in 0 .. n /\ ~(i <= i - 1)
    BY <2>3
  <2>5. i - 1 \in T
    BY <2>2, <2>4
  <2> QED
    BY <2>3, <2>4, <2>5
<1> QED
  BY <1>1

LEMMA EventOf ==
    ASSUME NEW s \in Seq(Cells), NEW i \in 1 .. Len(s), s[i].event # <<>>
    PROVE  \E x \in Events : s[i].event = <<x>>
<1>1. s[i] \in Cells
  OBVIOUS
<1> QED
  BY <1>1 DEF Cells

LEMMA OneEventMore ==
    ASSUME NEW r \in Seq(Events), NEW g \in Seq(Events), NEW x \in Events
    PROVE  r \o g \in Seq(Events) /\ r \o (g \o <<x>>) = Append(r \o g, x)
OBVIOUS

(* Of a piece, a message at most is lost that was going to be.             *)
LEMMA Tally ==
    ASSUME NEW w, NEW d, NEW p, NEW q, Skips(w, d, p, q), NEW n \in 0 .. Len(w),
           NEW r \in Seq(Events), NEW h \in Seq(Events)
    PROVE  Lost(r \o EventsOf(Upto(w, n)), h \o EventsOf(Upto(d, n))) + (IF p > n THEN 1 ELSE 0)
               <= Lost(r, h) + (IF p > 0 THEN 1 ELSE 0)
<1>1. /\ w \in Seq(Cells) /\ d \in Seq(Cells) /\ Len(d) = Len(w) /\ Len(w) \in Nat
      /\ p \in 0 .. Len(w) /\ q \in 0 .. p
      /\ \A i \in 1 .. Len(w) : i \notin {p, q} => d[i] = w[i]
      /\ \A i \in 1 .. p : w[i].event # <<>> <=> i = p
      /\ p # 0 => q # p /\ d[p].event = <<>>
  BY DEF Skips
<1>2. PICK gw : EventsOf(w) = gw[Len(w)] /\ Sums(gw, w)
  BY <1>1, EventsOfIs
<1>3. PICK gd : EventsOf(d) = gd[Len(d)] /\ Sums(gd, d)
  BY <1>1, EventsOfIs
<1>4. /\ \A i \in 0 .. Len(w) : gw[i] \in Seq(Events) /\ gd[i] \in Seq(Events)
      /\ gw[0] = <<>> /\ gd[0] = <<>>
      /\ \A i \in 1 .. Len(w) : gw[i] = gw[i - 1] \o w[i].event /\ gd[i] = gd[i - 1] \o d[i].event
  BY <1>1, <1>2, <1>3, EventsTyped DEF Sums
<1>5. n \in Nat /\ n <= Len(w) /\ EventsOf(Upto(w, n)) = gw[n] /\ EventsOf(Upto(d, n)) = gd[n]
  BY <1>1, <1>2, <1>3, EventsOfUpto
<1> DEFINE R(i) == r \o gw[i]
           H(i) == h \o gd[i]
           due(i) == IF p > i THEN 1 ELSE 0
           count(i) == Lost(R(i), H(i)) + due(i)
           T == {i \in 0 .. Len(w) : count(i) <= Lost(r, h) + due(0)}
<1>6. ASSUME NEW i \in 0 .. Len(w)
      PROVE  R(i) \in Seq(Events) /\ H(i) \in Seq(Events) /\ Lost(R(i), H(i)) \in Nat
             /\ count(i) \in Nat
  <2>1. R(i) \in Seq(Events) /\ H(i) \in Seq(Events)
    BY <1>4
  <2> HIDE DEF R, H
  <2>2. Lost(R(i), H(i)) \in Nat
    BY <2>1, MissingIs
  <2> QED
    BY <2>1, <2>2
<1>7. 0 \in T
  <2>1. R(0) = r /\ H(0) = h
    BY <1>4
  <2>2. count(0) = Lost(r, h) + due(0) /\ count(0) \in Nat
    <3>1. 0 \in 0 .. Len(w)
      BY <1>1
    <3> HIDE DEF R, H, due
    <3>2. count(0) = Lost(r, h) + due(0)
      BY <2>1
    <3> HIDE DEF count
    <3> QED
      BY <1>6, <3>1, <3>2
  <2> HIDE DEF count, due
  <2> QED
    BY <1>1, <2>2
<1>8. ASSUME NEW i \in 1 .. Len(w) PROVE count(i) <= count(i - 1)
  <2>1. i - 1 \in 0 .. Len(w) /\ i \in 0 .. Len(w) /\ i \in Nat
    BY <1>1
  <2>2. w[i].event # <<>> => \E x \in Events : w[i].event = <<x>> /\ R(i) = Append(R(i - 1), x)
    <3> SUFFICES ASSUME w[i].event # <<>>
                 PROVE  \E x \in Events : w[i].event = <<x>> /\ R(i) = Append(R(i - 1), x)
      OBVIOUS
    <3>1. PICK x \in Events : w[i].event = <<x>>
      BY <1>1, EventOf
    <3>2. gw[i] = gw[i - 1] \o <<x>> /\ gw[i - 1] \in Seq(Events)
      BY <1>4, <2>1, <3>1
    <3>3. r \o (gw[i - 1] \o <<x>>) = Append(r \o gw[i - 1], x)
      BY <3>2, OneEventMore
    <3> QED
      BY <3>1, <3>2, <3>3
  <2>3. d[i].event # <<>> => \E x \in Events : d[i].event = <<x>> /\ H(i) = Append(H(i - 1), x)
    <3> SUFFICES ASSUME d[i].event # <<>>
                 PROVE  \E x \in Events : d[i].event = <<x>> /\ H(i) = Append(H(i - 1), x)
      OBVIOUS
    <3>1. PICK x \in Events : d[i].event = <<x>>
      BY <1>1, EventOf
    <3>2. gd[i] = gd[i - 1] \o <<x>> /\ gd[i - 1] \in Seq(Events)
      BY <1>4, <2>1, <3>1
    <3>3. h \o (gd[i - 1] \o <<x>>) = Append(h \o gd[i - 1], x)
      BY <3>2, OneEventMore
    <3> QED
      BY <3>1, <3>2, <3>3
  <2>4. (w[i].event = <<>> => R(i) = R(i - 1)) /\ (d[i].event = <<>> => H(i) = H(i - 1))
    <3>1. gw[i - 1] \in Seq(Events) /\ gd[i - 1] \in Seq(Events)
          /\ gw[i] = gw[i - 1] \o w[i].event /\ gd[i] = gd[i - 1] \o d[i].event
      BY <1>4, <2>1
    <3>2. gw[i - 1] \o <<>> = gw[i - 1] /\ gd[i - 1] \o <<>> = gd[i - 1]
      BY <3>1
    <3>3. w[i].event = <<>> => gw[i] = gw[i - 1]
      BY <3>1, <3>2
    <3>4. d[i].event = <<>> => gd[i] = gd[i - 1]
      BY <3>1, <3>2
    <3> QED
      BY <3>3, <3>4
  <2>5. /\ R(i) \in Seq(Events) /\ H(i) \in Seq(Events)
        /\ R(i - 1) \in Seq(Events) /\ H(i - 1) \in Seq(Events)
        /\ Lost(R(i), H(i)) \in Nat /\ Lost(R(i - 1), H(i - 1)) \in Nat
    BY <1>6, <2>1
  <2>6. due(i) \in 0 .. 1 /\ due(i - 1) \in 0 .. 1 /\ due(i) <= due(i - 1)
        /\ (i = p => due(i) = 0 /\ due(i - 1) = 1)
    BY <1>1
  <2> DEFINE Ri == R(i)
             Hi == H(i)
             Rj == R(i - 1)
             Hj == H(i - 1)
             now == Lost(Ri, Hi)
             before == Lost(Rj, Hj)
  <2> HIDE DEF R, H, due, Ri, Hi, Rj, Hj
  <2>7. now <= before + (IF i = p THEN 1 ELSE 0)
    <3>1. CASE i = p
      <4>1. w[i].event # <<>> /\ d[i].event = <<>>
        BY <1>1, <3>1
      <4>2. PICK x \in Events : Ri = Append(Rj, x)
        BY <2>2, <4>1 DEF Ri, Rj
      <4>3. Hi = Hj
        BY <2>4, <4>1 DEF Hi, Hj
      <4>4. Rj \in Seq(Events) /\ Hj \in Seq(Events)
        BY <2>5 DEF Rj, Hj
      <4> QED
        BY <3>1, <4>2, <4>3, <4>4, ReceivedMore
    <3>2. CASE i # p /\ i = q
      <4>1. w[i].event = <<>>
        BY <1>1, <3>2
      <4>2. Ri = Rj /\ Rj \in Seq(Events) /\ Hj \in Seq(Events) /\ before \in Nat
        BY <2>4, <2>5, <4>1 DEF Ri, Rj, Hj
      <4>3. CASE d[i].event = <<>>
        <5>1. Hi = Hj
          BY <2>4, <4>3 DEF Hi, Hj
        <5> QED
          BY <3>2, <4>2, <5>1
      <4>4. CASE d[i].event # <<>>
        <5>1. PICK x \in Events : Hi = Append(Hj, x)
          BY <2>3, <4>4 DEF Hi, Hj
        <5>2. Lost(Rj, Append(Hj, x)) <= Lost(Rj, Hj)
          BY <4>2, HandedMore
        <5>3. now \in Nat
          BY <2>5 DEF Ri, Hi
        <5> QED
          BY <3>2, <4>2, <5>1, <5>2, <5>3
      <4> QED
        BY <4>3, <4>4
    <3>3. CASE i # p /\ i # q
      <4>1. d[i] = w[i]
        BY <1>1, <3>3
      <4>2. Rj \in Seq(Events) /\ Hj \in Seq(Events) /\ before \in Nat /\ now \in Nat
        BY <2>5 DEF Ri, Hi, Rj, Hj
      <4>3. CASE w[i].event = <<>>
        <5>1. Ri = Rj /\ Hi = Hj
          BY <2>4, <4>1, <4>3 DEF Ri, Hi, Rj, Hj
        <5> QED
          BY <3>3, <4>2, <5>1
      <4>4. CASE w[i].event # <<>>
        <5>1. PICK x \in Events : w[i].event = <<x>> /\ Ri = Append(Rj, x)
          BY <2>2, <4>4 DEF Ri, Rj
        <5>2. PICK y \in Events : d[i].event = <<y>> /\ Hi = Append(Hj, y)
          BY <2>3, <4>1, <4>4 DEF Hi, Hj
        <5>3. x = y
          BY <4>1, <5>1, <5>2
        <5>4. Lost(Append(Rj, x), Append(Hj, x)) <= Lost(Rj, Hj)
          BY <4>2, BothMore
        <5> QED
          BY <3>3, <4>2, <5>1, <5>2, <5>3, <5>4
      <4> QED
        BY <4>3, <4>4
    <3> QED
      BY <3>1, <3>2, <3>3
  <2>8. now \in Nat /\ before \in Nat
    BY <2>5 DEF Ri, Hi, Rj, Hj
  <2>9. now + due(i) <= before + due(i - 1)
    <3> HIDE DEF now, before
    <3> QED
      BY <2>6, <2>7, <2>8
  <2> QED
    BY <2>9 DEF now, before, Ri, Hi, Rj, Hj
<1>9. ASSUME NEW i \in 1 .. Len(w), i - 1 \in T PROVE i \in T
  <2>1. i - 1 \in 0 .. Len(w) /\ i \in 0 .. Len(w)
    BY <1>1
  <2>2. count(i - 1) \in Nat /\ count(i) \in Nat /\ count(i) <= count(i - 1)
    BY <1>6, <1>8, <2>1
  <2>3. Lost(r, h) + due(0) \in Nat
    <3>1. Lost(r, h) \in Nat
      BY MissingIs
    <3> QED
      BY <3>1
  <2> HIDE DEF count, due
  <2> QED
    BY <1>9, <2>1, <2>2, <2>3
<1>10. n \in T
  <2> HIDE DEF T
  <2>1. \A i \in 0 .. Len(w) : i \in T
    BY <1>1, <1>7, <1>9, StepByStep
  <2> QED
    BY <2>1
<1> QED
  BY <1>5, <1>10

(* A piece of n bytes is n messages at most.                               *)
LEMMA TallyAll ==
    ASSUME NEW w \in Seq(Cells), NEW n \in 0 .. Len(w),
           NEW r \in Seq(Events), NEW h \in Seq(Events)
    PROVE  Lost(r \o EventsOf(Upto(w, n)), h) <= Lost(r, h) + n
<1>1. PICK gw : EventsOf(w) = gw[Len(w)] /\ Sums(gw, w)
  BY EventsOfIs
<1>2. /\ \A i \in 0 .. Len(w) : gw[i] \in Seq(Events)
      /\ gw[0] = <<>> /\ Len(w) \in Nat
      /\ \A i \in 1 .. Len(w) : gw[i] = gw[i - 1] \o w[i].event
  <2>1. \A i \in 0 .. Len(w) : gw[i] \in Seq(Events)
    BY <1>1, EventsTyped
  <2>2. Len(w) \in Nat
    OBVIOUS
  <2>3. gw[0] = <<>> /\ \A i \in 1 .. Len(w) : gw[i] = gw[i - 1] \o w[i].event
    BY <1>1, Zenon DEF Sums
  <2> QED
    BY <2>1, <2>2, <2>3, Zenon
<1>3. EventsOf(Upto(w, n)) = gw[n]
  <2>1. n \in Nat /\ n <= Len(w)
    BY <1>2
  <2> QED
    BY <1>1, <2>1, EventsOfUpto
<1> DEFINE R(i) == r \o gw[i]
           T == {i \in 0 .. Len(w) : Lost(R(i), h) <= Lost(r, h) + i}
<1>4. ASSUME NEW i \in 0 .. Len(w) PROVE R(i) \in Seq(Events) /\ Lost(R(i), h) \in Nat
  <2>1. R(i) \in Seq(Events)
    BY <1>2
  <2> HIDE DEF R
  <2> QED
    BY <2>1, MissingIs
<1>5. 0 \in T
  <2>1. R(0) = r
    BY <1>2
  <2>2. Lost(r, h) \in Nat
    BY MissingIs
  <2> HIDE DEF R
  <2> QED
    BY <1>2, <2>1, <2>2
<1>6. ASSUME NEW i \in 1 .. Len(w), i - 1 \in T PROVE i \in T
  <2>1. i - 1 \in 0 .. Len(w) /\ i \in 0 .. Len(w)
    BY <1>2
  <2> DEFINE Ri == R(i)
             Rj == R(i - 1)
  <2>2. Ri = Rj \/ \E x \in Events : Ri = Append(Rj, x)
    <3>0. gw[i - 1] \in Seq(Events) /\ gw[i] = gw[i - 1] \o w[i].event
      BY <1>2, <2>1
    <3>1. CASE w[i].event = <<>>
      BY <3>0, <3>1
    <3>2. CASE w[i].event # <<>>
      <4>1. PICK x \in Events : w[i].event = <<x>>
        BY <3>2, EventOf
      <4>2. r \o (gw[i - 1] \o <<x>>) = Append(r \o gw[i - 1], x)
        BY <3>0, OneEventMore
      <4>3. Ri = Append(Rj, x)
        BY <3>0, <4>1, <4>2
      <4> QED
        BY <4>3
    <3> QED
      BY <3>1, <3>2
  <2>3. Ri \in Seq(Events) /\ Rj \in Seq(Events) /\ Lost(Ri, h) \in Nat /\ Lost(Rj, h) \in Nat
    BY <1>4, <2>1
  <2>4. Lost(Rj, h) <= Lost(r, h) + (i - 1)
    BY <1>6
  <2>5. Lost(r, h) \in Nat
    BY MissingIs
  <2> HIDE DEF Ri, Rj, R
  <2>6. Lost(Ri, h) <= Lost(Rj, h) + 1
    <3>1. CASE Ri = Rj
      BY <2>3, <3>1
    <3>2. CASE \E x \in Events : Ri = Append(Rj, x)
      <4>1. PICK x \in Events : Ri = Append(Rj, x)
        BY <3>2
      <4>2. Lost(Append(Rj, x), h) <= Lost(Rj, h) + 1
        BY <2>3, ReceivedMore
      <4> QED
        BY <4>1, <4>2
    <3> QED
      BY <2>2, <3>1, <3>2
  <2>7. i \in Nat
    OBVIOUS
  <2>8. Lost(Ri, h) <= Lost(r, h) + i
    BY <2>3, <2>4, <2>5, <2>6, <2>7
  <2> QED
    BY <2>1, <2>8 DEF Ri
<1>7. n \in T
  <2> HIDE DEF T
  <2>1. \A i \in 0 .. Len(w) : i \in T
    BY <1>2, <1>5, <1>6, StepByStep
  <2> QED
    BY <2>1
<1> QED
  BY <1>3, <1>7

(* A drain that finds no frame changes nothing.                            *)
LEMMA DrainNothing ==
    ASSUME NEW S, NEW buf \in Seq(S), Pop(buf) = NoFrame(buf)
    PROVE  Drain(buf) = Undrained(buf)
<1>1. PICK g : Drain(buf) = g[Len(buf)] /\ DrainsBy(g, buf)
  BY DrainIs
<1>2. Round(Undrained(buf)) = Undrained(buf)
  BY DEF Round, Undrained, NoFrame
<1> DEFINE T == {i \in 0 .. Len(buf) : g[i] = Undrained(buf)}
<1>3. 0 \in T
  BY <1>1 DEF DrainsBy
<1>4. ASSUME NEW i \in 1 .. Len(buf), i - 1 \in T PROVE i \in T
  BY <1>1, <1>2, <1>4 DEF DrainsBy
<1>5. Len(buf) \in T
  <2> HIDE DEF T
  <2>1. Len(buf) \in Nat
    OBVIOUS
  <2>2. \A i \in 0 .. Len(buf) : i \in T
    BY <1>3, <1>4, <2>1, StepByStep
  <2> QED
    BY <2>1, <2>2
<1> QED
  BY <1>1, <1>5

(* The beginning of a 2D result that was cut off, and READYs behind it.    *)
StuckBuffer(buf) ==
    /\ buf \in Seq(STRING) /\ Len(buf) # 0 /\ buf[1] = "("
    /\ \A i \in 1 .. Len(buf) :
          /\ buf[i] # "nl"
          /\ i < Len(buf) => /\ buf[i] = ")" => buf[i + 1] # "E"
                             /\ buf[i] = "READY" => buf[i + 1] = "READY"

LEMMA StuckPop ==
    ASSUME NEW buf, StuckBuffer(buf)
    PROVE  Pop2d(buf) = NoFrame(buf)
<1>1. buf \in Seq(STRING) /\ Len(buf) # 0 /\ buf[1] = "(" /\ Len(buf) \in Nat
  BY DEF StuckBuffer
<1>2. StripLeft(buf, {"nl"}) = buf
  BY <1>1, NothingStripped DEF StuckBuffer
<1>3. Find(buf, <<")", "E">>) = 0
  <2>1. ASSUME NEW j \in Positions(buf, <<")", "E">>) PROVE FALSE
    <3>1. j \in Int
      BY <1>1 DEF Positions
    <3>2. j \in 1 .. Len(buf) - 1 /\ buf[j] = ")" /\ buf[j + 1] = "E"
      BY <1>1, <3>1, PositionsOf2
    <3>3. j \in 1 .. Len(buf) /\ j < Len(buf)
      BY <1>1, <3>2
    <3> QED
      BY <3>2, <3>3 DEF StuckBuffer
  <2> QED
    BY <2>1 DEF Find
<1>4. Find(buf, <<"nl">>) = 0
  <2>1. ASSUME NEW j \in Positions(buf, <<"nl">>) PROVE FALSE
    <3>1. j \in Int
      BY <1>1 DEF Positions
    <3>2. j \in 1 .. Len(buf) /\ buf[j] = "nl"
      BY <1>1, <3>1, PositionsOf1
    <3> QED
      BY <3>2 DEF StuckBuffer
  <2> QED
    BY <2>1 DEF Find
<1>5. buf \notin ReadyTexts
  <2>1. ~(Len(buf) > 2 /\ buf[2] = "READY" /\ buf[3] = ")")
    <3> SUFFICES ASSUME Len(buf) > 2, buf[2] = "READY" PROVE buf[3] = "READY"
      OBVIOUS
    <3>1. 2 \in 1 .. Len(buf) /\ 2 < Len(buf)
      BY <1>1
    <3> QED
      BY <3>1 DEF StuckBuffer
  <2> QED
    BY <1>1, <2>1 DEF ReadyTexts
<1>6. ~Number(FirstField(buf))
  BY <1>1, OpenNoNumber
<1>7. ~LooksLikeLine(buf)
  BY <1>5, <1>6 DEF LooksLikeLine
<1> QED
  BY <1>2, <1>3, <1>4, <1>7 DEF Pop2d

(* READY is put behind it and nothing comes of it.                         *)
LEMMA StuckOn ==
    ASSUME NEW buf, StuckBuffer(buf), NEW piece \in Seq(STRING),
           \A i \in 1 .. Len(piece) : piece[i] = "READY"
    PROVE  StuckBuffer(buf \o piece)
<1> DEFINE t == buf \o piece
<1>1. buf \in Seq(STRING) /\ Len(buf) # 0 /\ buf[1] = "(" /\ Len(buf) \in Nat
  BY DEF StuckBuffer
<1>2. t \in Seq(STRING) /\ JoinOf(t, buf, piece)
  BY <1>1, JoinedBoth
<1> HIDE DEF t
<1>3. Len(t) = Len(buf) + Len(piece) /\ Len(piece) \in Nat
      /\ \A i \in 1 .. Len(buf) : t[i] = buf[i]
  BY <1>2 DEF JoinOf
<1>4. ASSUME NEW i \in 1 .. Len(t), Len(buf) < i PROVE t[i] = "READY"
  <2>1. i - Len(buf) \in 1 .. Len(piece) /\ i = Len(buf) + (i - Len(buf))
    BY <1>1, <1>3, <1>4
  <2> DEFINE j == i - Len(buf)
  <2>2. j \in 1 .. Len(piece) /\ i = Len(buf) + j
    BY <2>1
  <2> HIDE DEF j
  <2> QED
    BY <1>2, <2>2 DEF JoinOf
<1>5. ASSUME NEW i \in 1 .. Len(t)
      PROVE  /\ t[i] # "nl"
             /\ i < Len(t) => /\ t[i] = ")" => t[i + 1] # "E"
                              /\ t[i] = "READY" => t[i + 1] = "READY"
  <2>1. CASE i < Len(buf)
    <3>1. i \in 1 .. Len(buf) /\ i + 1 \in 1 .. Len(buf)
      BY <1>1, <2>1
    <3>2. t[i] = buf[i] /\ t[i + 1] = buf[i + 1]
      BY <1>3, <3>1
    <3> QED
      BY <2>1, <3>1, <3>2 DEF StuckBuffer
  <2>2. CASE i = Len(buf)
    <3>1. i \in 1 .. Len(buf) /\ t[i] = buf[i]
      BY <1>1, <1>3, <2>2
    <3>2. i < Len(t) => t[i + 1] = "READY"
      <4> SUFFICES ASSUME i < Len(t) PROVE t[i + 1] = "READY"
        OBVIOUS
      <4>1. i + 1 \in 1 .. Len(t) /\ Len(buf) < i + 1
        BY <1>1, <1>3, <2>2
      <4> QED
        BY <1>4, <4>1
    <3> QED
      BY <3>1, <3>2 DEF StuckBuffer
  <2>3. CASE Len(buf) < i
    <3>1. t[i] = "READY"
      BY <1>4, <2>3
    <3>2. i < Len(t) => t[i + 1] = "READY"
      <4> SUFFICES ASSUME i < Len(t) PROVE t[i + 1] = "READY"
        OBVIOUS
      <4>1. i + 1 \in 1 .. Len(t) /\ Len(buf) < i + 1
        BY <1>1, <1>3, <2>3
      <4> QED
        BY <1>4, <4>1
    <3> QED
      BY <3>1, <3>2
  <2>4. i < Len(buf) \/ i = Len(buf) \/ Len(buf) < i
    BY <1>1
  <2> QED
    BY <2>1, <2>2, <2>3, <2>4
<1>6. t[1] = "(" /\ Len(t) # 0
  BY <1>1, <1>3
<1>7. StuckBuffer(t)
  BY <1>2, <1>5, <1>6 DEF StuckBuffer
<1> QED
  BY <1>7 DEF t

(* What a lost 2D connection leaves in the buffer.                         *)
LEMMA CutOff2d ==
    ASSUME NEW b \in Seq(Cells), b # <<>>, NEW w \in Seq(Cells), Stream2d(b \o w),
           NoEvents(b, 1, Len(b))
    PROVE  StuckBuffer(Text(b, 1, Len(b)))
<1> DEFINE s == b \o w
           buf == Text(b, 1, Len(b))
<1>1. s \in Seq(Cells) /\ JoinOf(s, b, w) /\ Stream2d(s)
  BY JoinedBoth
<1> HIDE DEF s
<1>2. Len(s) = Len(b) + Len(w) /\ Len(b) \in Nat /\ Len(w) \in Nat /\ Len(b) # 0
      /\ \A i \in 1 .. Len(b) : s[i] = b[i]
  BY <1>1 DEF JoinOf
<1>3. buf \in Seq(STRING) /\ Len(buf) = Len(b) /\ \A i \in 1 .. Len(b) : buf[i] = b[i].byte
  <2>1. Len(b) \in Nat /\ Len(b) <= Len(b)
    BY <1>2
  <2> QED
    BY <2>1, TextUpto
<1> HIDE DEF buf
<1>4. 1 \in 1 .. Len(s) /\ 1 \in 1 .. Len(b)
  BY <1>2
<1>5. ~ReadyAt(s, 1)
  <2>1. s[1].event = <<>>
    BY <1>2, <1>4 DEF NoEvents
  <2>2. <<Ready>> # <<>>
    OBVIOUS
  <2> QED
    BY <2>1, <2>2 DEF ReadyAt
<1>6. PICK st, e \in 1 .. Len(s) : ResultAt(s, st, e) /\ st <= 1 /\ 1 <= e
  BY <1>1, <1>4, <1>5 DEF Stream2d
<1>7. st = 1
  BY <1>2, <1>6
<1>8. Len(b) < e
  <2> SUFFICES ASSUME e <= Len(b) PROVE FALSE
    BY <1>2
  <2>1. e \in 1 .. Len(b) /\ e \in st .. e
    BY <1>2, <1>6, <1>7
  <2>2. s[e].event # <<>> /\ s[e] = b[e]
    BY <1>2, <1>6, <2>1 DEF ResultAt
  <2> QED
    BY <2>1, <2>2 DEF NoEvents
<1>9. ASSUME NEW i \in 1 .. Len(b)
      PROVE  i \in st .. e /\ buf[i] = s[i].byte /\ buf[i] # "nl" /\ buf[i] # "READY"
             /\ (buf[i] = ")" => i = e - 1)
  <2>1. i \in st .. e
    BY <1>2, <1>7, <1>8
  <2>2. buf[i] = s[i].byte
    BY <1>2, <1>3
  <2> QED
    BY <1>6, <2>1, <2>2 DEF ResultAt
<1>10. ASSUME NEW i \in 1 .. Len(b), buf[i] = ")" PROVE ~(i < Len(b))
  BY <1>2, <1>8, <1>9, <1>10
<1>11. buf[1] = "("
  BY <1>4, <1>6, <1>7, <1>9 DEF ResultAt
<1>12. StuckBuffer(buf)
  BY <1>2, <1>3, <1>9, <1>10, <1>11 DEF StuckBuffer
<1> QED
  BY <1>12 DEF buf

LEMMA Appended2d ==
    ASSUME NEW s \in Seq(Cells), Stream2d(s), \A i \in 1 .. Len(s) : s[i].byte # "READY",
           NEW m \in Messages, m.channel = "2d"
    PROVE  Stream2d(s \o Encoded(m))
<1> DEFINE c == Encoded(m)
           t == s \o c
           n == Len(m.bytes)
<1>1. /\ c \in Seq(Cells) /\ Len(c) = n
      /\ \A i \in 1 .. n : c[i].byte = m.bytes[i]
                           /\ c[i].event = (IF i = n THEN m.event ELSE <<>>)
  BY EncodedIs
<1>2. (n = 1 /\ ReadyAt(c, 1)) \/ ResultAt(c, 1, n)
  <2>1. IsReadyMessage(m) \/ IsResultMessage(m)
    BY MessagesAssumption DEF IsHeartbeatMessage, IsFrameMessage
  <2>2. CASE IsReadyMessage(m)
    <3>1. n = 1 /\ m.bytes[1] = "READY" /\ m.event = <<Ready>>
      BY <2>2 DEF IsReadyMessage
    <3> QED
      BY <1>1, <3>1 DEF ReadyAt
  <2> QED
    BY <2>1, <2>2, ResultEncoded
<1> HIDE DEF c, n
<1>3. /\ t \in Seq(Cells) /\ Len(t) = Len(s) + n
      /\ \A i \in 1 .. Len(s) : t[i] = s[i]
      /\ \A i \in 1 .. n : t[Len(s) + i] = c[i]
  <2>1. c \in Seq(Cells) /\ Len(c) = n
    BY <1>1
  <2>2. t \in Seq(Cells) /\ Len(t) = Len(s) + n
    BY <2>1
  <2>3. \A i \in 1 .. Len(s) : t[i] = s[i]
    BY <2>1
  <2>4. \A i \in 1 .. Len(c) : t[Len(s) + i] = c[i]
    BY <2>1
  <2> QED
    BY <2>1, <2>2, <2>3, <2>4
<1> HIDE DEF t
<1>4. n \in Nat
  BY <1>1
<1>5. ASSUME NEW i \in 1 .. Len(t), ~ReadyAt(t, i)
      PROVE  \E st, e \in 1 .. Len(t) : ResultAt(t, st, e) /\ st <= i /\ i <= e
  <2>1. CASE i <= Len(s)
    <3>1. i \in 1 .. Len(s) /\ t[i] = s[i] /\ ~ReadyAt(s, i)
      BY <1>3, <2>1 DEF ReadyAt
    <3>2. PICK st, e \in 1 .. Len(s) : ResultAt(s, st, e) /\ st <= i /\ i <= e
      BY <3>1 DEF Stream2d
    <3>3. PICK d \in Int : d = 0
      OBVIOUS
    <3>4. Moved(s, t, st, e, d)
      <4>1. ASSUME NEW x \in st .. e PROVE t[x + d] = s[x]
        <5>1. x \in 1 .. Len(s) /\ x + d = x
          BY <3>3
        <5> QED
          BY <1>3, <5>1
      <4> QED
        BY <4>1 DEF Moved
    <3>5. st = st + d /\ e = e + d
      BY <3>3
    <3>6. ResultAt(t, st, e)
      BY <3>2, <3>4, <3>5, ResultMoved
    <3>7. st \in 1 .. Len(t) /\ e \in 1 .. Len(t)
      BY <1>3, <1>4
    <3> QED
      BY <3>2, <3>6, <3>7
  <2>2. CASE i > Len(s)
    <3>1. PICK j \in 1 .. n : i = Len(s) + j
      <4>1. i - Len(s) \in 1 .. n /\ i = Len(s) + (i - Len(s))
        BY <1>3, <1>4, <2>2
      <4> QED
        BY <4>1
    <3>2. t[i] = c[j]
      BY <1>3, <3>1
    <3>3. ~(n = 1 /\ ReadyAt(c, 1))
      <4> SUFFICES ASSUME n = 1, ReadyAt(c, 1) PROVE ReadyAt(t, i)
        BY <1>5
      <4>1. j = 1 /\ i = Len(t)
        BY <1>3, <3>1
      <4> QED
        BY <3>2, <4>1 DEF ReadyAt
    <3>4. ResultAt(c, 1, n)
      BY <1>2, <3>3
    <3>5. PICK d, one, st, e \in Int : d = Len(s) /\ one = 1 /\ st = one + d /\ e = n + d
      BY <1>4
    <3>6. Moved(c, t, one, n, d)
      <4>1. ASSUME NEW x \in one .. n PROVE t[x + d] = c[x]
        <5>1. x \in 1 .. n /\ x + d = Len(s) + x
          BY <3>5
        <5> QED
          BY <1>3, <5>1
      <4> QED
        BY <4>1 DEF Moved
    <3>7. ResultAt(t, st, e)
      <4>1. ResultAt(c, one, n)
        BY <3>4, <3>5
      <4> QED
        BY <1>4, <3>5, <3>6, <4>1, ResultMoved
    <3>8. st \in 1 .. Len(t) /\ e \in 1 .. Len(t) /\ st <= i /\ i <= e
      BY <1>3, <1>4, <3>1, <3>5
    <3> QED
      BY <3>7, <3>8
  <2> QED
    BY <1>3, <1>4, <2>1, <2>2
<1>6. Stream2d(t)
  BY <1>5 DEF Stream2d
<1> QED
  BY <1>6 DEF t, c

(* A piece that is taken for a heartbeat holds nothing else.               *)
LEMMA HeartbeatBytes ==
    ASSUME NEW S, NEW piece \in Seq(S), IsHeartbeat(piece)
    PROVE  \A i \in 1 .. Len(piece) : piece[i] \in {"nl", "Z", "H"}
<1> DEFINE solid == Solid(piece, {"nl", "Z"})
<1>1. CASE solid = {}
  BY <1>1 DEF Solid
<1>2. CASE solid # {}
  <2>1. solid \subseteq 1 .. Len(piece) /\ solid \subseteq Nat /\ Len(piece) \in Nat
    BY DEF Solid
  <2> HIDE DEF solid
  <2>2. PICK low \in solid : \A y \in solid : low <= y
    BY <1>2, <2>1, SmallestExists
  <2>3. PICK high \in solid : \A y \in solid : y <= high
    BY <1>2, <2>1, LargestExists
  <2>4. Min(solid) = low /\ Max(solid) = high
    <3>1. solid \subseteq Int
      BY <2>1
    <3> QED
      BY <2>2, <2>3, <3>1, MinIs, MaxIs
  <2>5. low \in 1 .. Len(piece) /\ high \in 1 .. Len(piece) /\ low <= high
    BY <2>1, <2>3
  <2> DEFINE w == SubSeq(piece, low, high)
  <2>6. Len(w) = high - low + 1 /\ w[1] = piece[low]
    BY <2>5
  <2>7. Strip(piece, {"nl", "Z"}) = w
    BY <1>2, <2>4 DEF Strip, solid
  <2>8. w \in {<<>>, <<"H">>}
    BY <2>7 DEF IsHeartbeat
  <2> HIDE DEF w
  <2>9. w = <<"H">>
    BY <2>5, <2>6, <2>8
  <2>10. low = high /\ piece[low] = "H"
    BY <2>5, <2>6, <2>9
  <2>11. ASSUME NEW i \in 1 .. Len(piece) PROVE piece[i] \in {"nl", "Z", "H"}
    <3>1. CASE i \in solid
      <4>1. low <= i /\ i <= high
        BY <2>2, <2>3, <3>1
      <4>2. i = low
        BY <2>5, <2>10, <4>1
      <4> QED
        BY <2>10, <4>2
    <3>2. CASE i \notin solid
      BY <3>2 DEF solid, Solid
    <3> QED
      BY <3>1, <3>2
  <2> QED
    BY <2>11
<1> QED
  BY <1>1, <1>2

LEMMA NoHeartbeat2d ==
    ASSUME NEW s \in Seq(Cells), Stream2d(s), NEW i \in 1 .. Len(s)
    PROVE  s[i].byte \notin {"nl", "Z", "H"}
BY DEF Stream2d, ReadyAt, ResultAt

(* READY is the last that a 2D stream holds.                               *)
LEMMA ReadyIsLast ==
    ASSUME NEW s \in Seq(Cells), Stream2d(s), NEW c \in 1 .. Len(s), s[c].event = <<Ready>>
    PROVE  c = Len(s)
<1>1. CASE ReadyAt(s, c)
  BY <1>1 DEF ReadyAt
<1>2. CASE ~ReadyAt(s, c)
  <2>1. PICK st, e \in 1 .. Len(s) : ResultAt(s, st, e) /\ st <= c /\ c <= e
    BY <1>2 DEF Stream2d
  <2>2. s[c].event # <<>>
    <3>1. <<Ready>> # <<>>
      OBVIOUS
    <3> QED
      BY <3>1
  <2>3. c = e
    BY <2>1, <2>2 DEF ResultAt
  <2> QED
    BY <2>1, <2>3 DEF ResultAt
<1> QED
  BY <1>1, <1>2

-----------------------------------------------------------------------------
(* The receive buffer is the beginning of a message that what the parser   *)
(* sees of the wire goes on with, or heartbeats.                           *)
HoldsReady(s) == \E i \in 1 .. Len(s) : s[i].byte = "READY"

Buffers(b, chan, bytes, buf, says) ==
    /\ b \in Seq(Cells)
    /\ buf = Text(b, 1, Len(b))
    /\ NoEvents(b, 1, Len(b))
    /\ StreamOf(chan, b \o bytes)
    /\ chan = "2d" /\ HoldsReady(b \o bytes) => says = "wait"

(* A message is still to be lost: the one on the wire that is skipped, or  *)
(* the next one, when the buffer ends between two segments.                *)
Owes(b, w) ==
    /\ b # <<>> /\ b[Len(b)].byte = "A"
    /\ w = <<>> \/ w[1].byte \in {"nl", "Z", "H"}

Due(chan, b, w, p) == IF chan = "3d" /\ (p # 0 \/ Owes(b, w)) THEN 1 ELSE 0

Followed(chan, w, r, h, buf, says, n) ==
    \E b, d, p, q :
        /\ Buffers(b, chan, d, buf, says)
        /\ Skips(w, d, p, q)
        /\ chan = "3d" => Goes(w)
        /\ Lost(r, h) + Due(chan, b, w, p) <= n
        /\ n = 0 => h = r
        /\ chan = "2d" => p = 0 /\ h = r

(* The 2D channel after a connection was lost in the middle of a result:   *)
(* the READY of each connection is lost, and no result is asked for.       *)
ReadyCell == [byte |-> "READY", event |-> <<Ready>>]

Stuck(chan, w, r, h, buf, says, n) ==
    /\ chan = "2d" /\ says \in {"ready", "wait"} /\ n # 0
    /\ w \in Seq(Cells) /\ \A i \in 1 .. Len(w) : w[i] = ReadyCell
    /\ StuckBuffer(buf)
    /\ Lost(r, h) + Len(w) + (IF says = "ready" THEN 1 ELSE 0) <= n

FramesInv ==
    /\ channel \in {"2d", "3d"} /\ reconnects \in Nat
    /\ received \in Seq(Events) /\ handed \in Seq(Events)
    /\ \/ Followed(channel, wire, received, handed, recv_buffer, turn, reconnects)
       \/ Stuck(channel, wire, received, handed, recv_buffer, turn, reconnects)

LEMMA FramesInitInv == FramesInit => FramesInv
<1> SUFFICES ASSUME FramesInit PROVE FramesInv
  OBVIOUS
<1> DEFINE b == <<>>
<1>0. channel \in {"2d", "3d"} /\ wire = b /\ received = b /\ recv_buffer = b /\ handed = b
      /\ reconnects = 0
  BY DEF FramesInit
<1>1. b \in Seq(Cells) /\ b \in Seq(Events) /\ Len(b) = 0 /\ b \o b = b
  OBVIOUS
<1>2. Text(b, 1, 0) = <<>>
  BY DEF Text
<1>3. NoEvents(b, 1, 0)
  BY DEF NoEvents
<1>4. StreamOf(channel, b) /\ ~HoldsReady(b) /\ Goes(b)
  BY <1>1 DEF StreamOf, Stream2d, Stream3d, HoldsReady, Goes
<1>5. Lost(b, b) = 0
  BY <1>1, NoneLost
<1>6. Due(channel, b, b, 0) = 0
  BY DEF Due, Owes
<1>7. Skips(b, b, 0, 0)
  BY <1>1, SkipsNothing
<1> HIDE DEF b
<1>8. Buffers(b, channel, b, b, turn)
  BY <1>1, <1>2, <1>3, <1>4 DEF Buffers, b
<1>9. Lost(b, b) + Due(channel, b, b, 0) <= 0
  BY <1>5, <1>6
<1>10. Followed(channel, b, b, b, b, turn, 0)
  BY <1>4, <1>7, <1>8, <1>9 DEF Followed
<1> QED
  BY <1>0, <1>1, <1>10 DEF FramesInv

LEMMA IsPrefixOf ==
    ASSUME NEW S, NEW a \in Seq(S), NEW c \in Seq(S)
    PROVE  IsPrefix(a, a \o c)
<1>1. Len(a) <= Len(a \o c) /\ SubSeq(a, 1, Len(a)) = SubSeq(a \o c, 1, Len(a))
  OBVIOUS
<1> QED
  BY <1>1 DEF IsPrefix

LEMMA FramesInvMeans == FramesInv => PiecesDoNotMatter
<1> SUFFICES ASSUME FramesInv, reconnects = 0
             PROVE  IsPrefix(received, handed) /\ IsPrefix(handed, received \o EventsOf(wire))
  BY DEF PiecesDoNotMatter
<1>1. wire \in Seq(Cells) /\ received \in Seq(Events) /\ handed = received
  BY DEF FramesInv, Followed, Stuck, Skips
<1>2. EventsOf(wire) \in Seq(Events)
  BY <1>1, EventsOfTyped
<1>3. received \o <<>> = received /\ <<>> \in Seq(Events)
  BY <1>1
<1>4. IsPrefix(received, received \o <<>>)
  BY <1>1, <1>3, IsPrefixOf
<1> QED
  BY <1>1, <1>2, <1>3, <1>4, IsPrefixOf

LEMMA DueIs == ASSUME NEW chan, NEW b, NEW w, NEW p PROVE Due(chan, b, w, p) \in 0 .. 1
BY DEF Due

LEMMA FramesInvCounts == FramesInv => OneLostPerReconnect
<1> SUFFICES ASSUME FramesInv PROVE Lost(received, handed) <= reconnects
  BY DEF OneLostPerReconnect, Lost, Missing, Times
<1> DEFINE lost == Lost(received, handed)
<1>1. lost \in Nat /\ reconnects \in Nat
  BY MissingIs DEF FramesInv
<1> HIDE DEF lost
<1>2. CASE Followed(channel, wire, received, handed, recv_buffer, turn, reconnects)
  <2>1. PICK b, p : lost + Due(channel, b, wire, p) <= reconnects
    BY <1>2 DEF Followed, lost
  <2>2. Due(channel, b, wire, p) \in 0 .. 1
    BY DueIs
  <2> QED
    BY <1>1, <2>1, <2>2 DEF lost
<1>3. CASE Stuck(channel, wire, received, handed, recv_buffer, turn, reconnects)
  <2>1. wire \in Seq(Cells) /\ lost + Len(wire) + (IF turn = "ready" THEN 1 ELSE 0) <= reconnects
    BY <1>3 DEF Stuck, lost
  <2>2. Len(wire) \in Nat
    BY <2>1
  <2> QED
    BY <1>1, <2>1, <2>2 DEF lost
<1> QED
  BY <1>2, <1>3 DEF FramesInv

-----------------------------------------------------------------------------
LEMMA SkipsAll ==
    ASSUME NEW w, NEW d, NEW q, Skips(w, d, 0, q)
    PROVE  d = w /\ q = 0
<1>1. /\ w \in Seq(Cells) /\ d \in Seq(Cells) /\ Len(d) = Len(w) /\ q = 0
      /\ \A i \in 1 .. Len(w) : i \notin {0, q} => d[i] = w[i]
  BY DEF Skips
<1>2. \A i \in 1 .. Len(w) : d[i] = w[i]
  BY <1>1
<1> QED
  BY <1>1, <1>2, SameText

LEMMA OpeningFrom ==
    ASSUME NEW w \in Seq(Cells), Goes(w), w # <<>> => w[1].byte \in {"nl", "Z", "H", "("}
    PROVE  Opening(w)
<1> SUFFICES ASSUME NEW i \in 1 .. Len(w), i # 1, w[i - 1].byte \in {"nl", "Z", "H"}
             PROVE  w[i].byte \in {"nl", "Z", "H", "("}
  BY DEF Opening
<1>1. PICK j \in 1 .. Len(w) : j = i - 1 /\ j < Len(w) /\ j + 1 = i
  <2>1. i - 1 \in 1 .. Len(w) /\ i - 1 < Len(w) /\ (i - 1) + 1 = i
    OBVIOUS
  <2> QED
    BY <2>1
<1>2. w[i].byte \in {"nl", "Z", "H"} \/ \E k, e \in 1 .. Len(w) : Whole(w, i, k, e)
  BY <1>1 DEF Goes
<1> QED
  BY <1>2 DEF Whole, FrameAt, Match

(* What the 2D camera says is READY or a result.                           *)
LEMMA Said2d ==
    ASSUME NEW m \in Messages, m.channel = "2d"
    PROVE  \/ IsReadyMessage(m) /\ Kind(m) = "ready"
           \/ IsResultMessage(m) /\ Kind(m) = "result"
<1>1. IsReadyMessage(m) \/ IsResultMessage(m)
  BY MessagesAssumption DEF IsHeartbeatMessage, IsFrameMessage
<1>2. CASE IsReadyMessage(m)
  <2>1. m.event = <<Ready>> /\ Ready.kind = "ready"
    BY <1>2 DEF IsReadyMessage, Ready
  <2>2. m.event[1] = Ready /\ m.event # <<>>
    BY <2>1
  <2> QED
    BY <1>2, <2>1, <2>2 DEF Kind
<1>3. CASE IsResultMessage(m)
  <2>1. PICK e : m.event = <<Result(e.count, e.type)>>
    BY <1>3 DEF IsResultMessage
  <2>2. m.event[1] = Result(e.count, e.type) /\ m.event # <<>>
    BY <2>1
  <2>3. Result(e.count, e.type).kind = "result"
    BY DEF Result
  <2> QED
    BY <1>3, <2>2, <2>3 DEF Kind
<1> QED
  BY <1>1, <1>2, <1>3

(* A 2D message is put behind what is on the way.                          *)
LEMMA Buffered2d ==
    ASSUME NEW b, NEW w \in Seq(Cells), NEW buf, NEW says, Buffers(b, "2d", w, buf, says),
           NEW m \in Messages, m.channel = "2d", Kind(m) = says
    PROVE  Buffers(b, "2d", w \o Encoded(m), buf, IF Kind(m) = "ready" THEN "wait" ELSE "ready")
<1> DEFINE c == Encoded(m)
           s == b \o w
           next == IF Kind(m) = "ready" THEN "wait" ELSE "ready"
<1>1. b \in Seq(Cells) /\ c \in Seq(Cells) /\ StreamOf("2d", s)
  BY EncodedIs DEF Buffers
<1> HIDE DEF c
<1>2. b \o (w \o c) = s \o c /\ s \in Seq(Cells)
  BY <1>1
<1>3. ~HoldsReady(s)
  BY Said2d DEF Buffers
<1> HIDE DEF s
<1>4. StreamOf("2d", s \o c)
  BY <1>1, <1>2, <1>3, Appended2d DEF StreamOf, HoldsReady, c
<1>5. ASSUME HoldsReady(s \o c) PROVE next = "wait"
  <2> SUFFICES ASSUME IsResultMessage(m) PROVE FALSE
    BY <1>5, Said2d
  <2>1. \A i \in 1 .. Len(c) : c[i].byte # "READY"
    <3>1. ResultAt(c, 1, Len(c))
      BY ResultEncoded, EncodedIs DEF c
    <3> QED
      BY <3>1 DEF ResultAt
  <2>2. PICK i \in 1 .. Len(s \o c) : (s \o c)[i].byte = "READY"
    BY <1>5 DEF HoldsReady
  <2>3. CASE i \in 1 .. Len(s)
    <3>1. (s \o c)[i] = s[i]
      BY <1>1, <1>2, <2>3
    <3> QED
      BY <1>3, <1>5, <2>2, <2>3, <3>1 DEF HoldsReady
  <2>4. CASE i \notin 1 .. Len(s)
    <3>1. i - Len(s) \in 1 .. Len(c) /\ (s \o c)[i] = c[i - Len(s)]
      BY <1>1, <1>2, <2>4
    <3> QED
      BY <2>1, <2>2, <3>1
  <2> QED
    BY <2>3, <2>4
<1> HIDE DEF next
<1>6. Buffers(b, "2d", w \o c, buf, next)
  BY <1>2, <1>4, <1>5 DEF Buffers
<1> QED
  BY <1>6 DEF c, next

(* On the 3D channel the parser sees it too, or a half in the buffer       *)
(* spoils it.                                                              *)
LEMMA Behind3dSent ==
    ASSUME NEW b \in Seq(Cells), NoEvents(b, 1, Len(b)),
           NEW w, NEW d, NEW p, NEW q, Skips(w, d, p, q), Goes(w), Stream3d(b \o d),
           NEW c \in Seq(Cells), Sent3d(c)
    PROVE  /\ Goes(w \o c)
           /\ \E d2, p2, q2 : /\ Skips(w \o c, d2, p2, q2)
                              /\ Stream3d(b \o d2)
                              /\ Due("3d", b, w \o c, p2) <= Due("3d", b, w, p)
<1>1. /\ w \in Seq(Cells) /\ d \in Seq(Cells) /\ Len(d) = Len(w) /\ Len(w) \in Nat
      /\ p \in 0 .. Len(w) /\ q \in 0 .. p
      /\ \A i \in 1 .. Len(w) : d[i].byte = w[i].byte /\ (i \notin {p, q} => d[i] = w[i])
      /\ \A i \in 1 .. p : w[i].byte \notin {"nl", "Z", "H"} /\ (w[i].event # <<>> <=> i = p)
      /\ p # 0 => q # p /\ d[p].event = <<>>
  BY DEF Skips
<1>2. Stream3d(c) /\ Opening(c)
  BY SentIsStream
<1>3. Goes(w \o c)
  BY <1>1, GoesOn
<1>4. CASE w # <<>>
  <2> DEFINE s == b \o d
             t == w \o c
             d2 == d \o c
  <2>1. s \in Seq(Cells) /\ JoinOf(s, b, d) /\ Stream3d(s)
    BY <1>1, JoinedBoth
  <2>2. t \in Seq(Cells) /\ JoinOf(t, w, c) /\ d2 \in Seq(Cells) /\ JoinOf(d2, d, c)
    BY <1>1, JoinedBoth
  <2>3. s \o c = b \o d2
    BY <1>1
  <2> HIDE DEF s, t, d2
  <2>4. ~HalfFrame(s)
    <3>1. Len(w) \in 1 .. Len(w)
      BY <1>1, <1>4
    <3>2. w[Len(w)].byte # "A"
      BY <1>1, <3>1 DEF Goes
    <3>3. Len(s) = Len(b) + Len(d) /\ s[Len(b) + Len(d)] = d[Len(d)]
      BY <1>1, <2>1, <3>1 DEF JoinOf
    <3>4. s[Len(s)].byte # "A"
      BY <1>1, <3>1, <3>2, <3>3
    <3> QED
      BY <3>4 DEF HalfFrame, Half
  <2>5. Stream3d(b \o d2)
    BY <1>2, <2>1, <2>3, <2>4, Joined3d
  <2>6. Skips(t, d2, p, q)
    <3>1. Len(t) = Len(w) + Len(c) /\ Len(d2) = Len(t) /\ Len(c) \in Nat
          /\ \A i \in 1 .. Len(w) : t[i] = w[i] /\ d2[i] = d[i]
      BY <1>1, <2>2 DEF JoinOf
    <3>2. ASSUME NEW i \in 1 .. Len(t)
          PROVE  d2[i].byte = t[i].byte /\ (i \notin {p, q} => d2[i] = t[i])
      <4>1. CASE i <= Len(w)
        <5>1. i \in 1 .. Len(w)
          BY <1>1, <4>1
        <5> QED
          BY <1>1, <3>1, <5>1
      <4>2. CASE Len(w) < i
        <5>1. i - Len(w) \in 1 .. Len(c) /\ i = Len(w) + (i - Len(w))
          BY <1>1, <3>1, <4>2
        <5> DEFINE j == i - Len(w)
        <5>2. j \in 1 .. Len(c) /\ i = Len(w) + j /\ i = Len(d) + j
          BY <1>1, <5>1
        <5> HIDE DEF j
        <5>3. t[i] = c[j] /\ d2[i] = c[j]
          BY <2>2, <5>2 DEF JoinOf
        <5> QED
          BY <5>3
      <4>3. i <= Len(w) \/ Len(w) < i
        BY <1>1
      <4> QED
        BY <4>1, <4>2, <4>3
    <3>3. p \in 0 .. Len(t)
      BY <1>1, <3>1
    <3>4. ASSUME NEW i \in 1 .. p
          PROVE  t[i].byte \notin {"nl", "Z", "H"} /\ (t[i].event # <<>> <=> i = p)
      <4>1. i \in 1 .. Len(w)
        BY <1>1
      <4> QED
        BY <1>1, <3>1, <4>1
    <3>5. p # 0 => q # p /\ d2[p].event = <<>>
      <4>1. p # 0 => p \in 1 .. Len(w)
        BY <1>1
      <4> QED
        BY <1>1, <3>1, <4>1
    <3> QED
      BY <1>1, <2>2, <3>1, <3>2, <3>3, <3>4, <3>5 DEF Skips
  <2>7. Due("3d", b, t, p) <= Due("3d", b, w, p)
    <3>1. 1 \in 1 .. Len(w)
      BY <1>1, <1>4
    <3>2. t[1] = w[1]
      BY <2>2, <3>1 DEF JoinOf
    <3>3. Len(t) # 0
      BY <1>1, <2>2, <3>1 DEF JoinOf
    <3>4. t # <<>>
      BY <3>3
    <3> QED
      BY <1>4, <3>2, <3>4 DEF Due, Owes
  <2> QED
    BY <1>3, <2>5, <2>6, <2>7 DEF t
<1>5. CASE w = <<>>
  <2>1. p = 0 /\ d = w /\ w \o c = c /\ b \o d = b
    <3>1. Len(w) = 0
      BY <1>5
    <3>2. p = 0
      BY <1>1, <3>1
    <3>3. d = w
      BY <3>2, SkipsAll
    <3> QED
      BY <1>5, <3>2, <3>3
  <2>2. Stream3d(b) /\ Goes(c)
    BY <1>3, <2>1
  <2>3. CASE c # <<>> /\ c[1].byte = "(" /\ HalfFrame(b)
    <3>1. PICK st \in 1 .. Len(b) : Half(b, st)
      BY <2>3 DEF HalfFrame
    <3>2. 1 \in 1 .. Len(c) /\ Len(c) \in 1 .. Len(c)
      BY <2>3
    <3>3. ~Blank3d(c)
      BY <2>3, <3>2 DEF Blank3d
    <3>4. PICK k \in 1 .. Len(c) : Whole(c, 1, k, Len(c))
      BY <3>3 DEF Sent3d
    <3> DEFINE e == Len(c)
    <3>5. e \in 1 .. Len(c) /\ Whole(c, 1, k, e)
      BY <3>2, <3>4
    <3> HIDE DEF e
    <3>6. PICK d2 : Skips(c, d2, e, k + 1) /\ Stream3d(b \o d2)
      BY <1>2, <2>2, <3>1, <3>5, Spoiled
    <3>7. Due("3d", b, w, p) = 1
      BY <1>5, <3>1 DEF Due, Owes, Half
    <3>8. Due("3d", b, c, e) <= Due("3d", b, w, p)
      BY <3>7, DueIs
    <3> QED
      BY <1>3, <2>1, <3>6, <3>8
  <2>4. CASE ~(c # <<>> /\ c[1].byte = "(" /\ HalfFrame(b))
    <3>1. Stream3d(b \o c)
      BY <1>2, <2>2, <2>4, Joined3d
    <3>2. Skips(c, c, 0, 0)
      BY SkipsNothing
    <3>3. Due("3d", b, c, 0) <= Due("3d", b, w, p)
      BY <1>5 DEF Due, Owes
    <3> QED
      BY <1>3, <2>1, <3>1, <3>2, <3>3
  <2> QED
    BY <2>3, <2>4
<1> QED
  BY <1>4, <1>5

LEMMA FollowedSent ==
    ASSUME NEW chan \in {"2d", "3d"}, NEW w, NEW r \in Seq(Events), NEW h \in Seq(Events),
           NEW buf, NEW says, NEW n \in Nat, Followed(chan, w, r, h, buf, says, n),
           NEW m \in Messages, m.channel = chan, chan = "2d" => Kind(m) = says
    PROVE  Followed(chan, w \o Encoded(m), r, h, buf,
                    IF Kind(m) = "ready" THEN "wait" ELSE "ready", n)
<1> DEFINE c == Encoded(m)
           next == IF Kind(m) = "ready" THEN "wait" ELSE "ready"
           lost == Lost(r, h)
<1>1. PICK b, d, p, q :
        /\ Buffers(b, chan, d, buf, says)
        /\ Skips(w, d, p, q)
        /\ chan = "3d" => Goes(w)
        /\ Lost(r, h) + Due(chan, b, w, p) <= n
        /\ n = 0 => h = r
        /\ chan = "2d" => p = 0 /\ h = r
  BY DEF Followed
<1>2. c \in Seq(Cells) /\ w \in Seq(Cells) /\ lost \in Nat
  BY <1>1, EncodedIs, MissingIs DEF Skips
<1>3. CASE chan = "2d"
  <2>1. d = w /\ Kind(m) = says /\ p = 0
    BY <1>1, <1>3, SkipsAll
  <2>2. Buffers(b, chan, w \o c, buf, next)
    BY <1>1, <1>2, <1>3, <2>1, Buffered2d
  <2>3. w \o c \in Seq(Cells)
    BY <1>2
  <2>4. Skips(w \o c, w \o c, 0, 0)
    BY <2>3, SkipsNothing
  <2>5. Due(chan, b, w \o c, 0) = Due(chan, b, w, p)
    BY <1>3 DEF Due
  <2> HIDE DEF c, next
  <2>6. Lost(r, h) + Due(chan, b, w \o c, 0) <= n
    BY <1>1, <2>5
  <2>7. Followed(chan, w \o c, r, h, buf, next, n)
    BY <1>1, <1>3, <2>2, <2>4, <2>6 DEF Followed
  <2> QED
    BY <2>7 DEF c, next
<1>4. CASE chan = "3d"
  <2>1. Sent3d(c)
    BY <1>4, EncodedSent3d
  <2>2. /\ b \in Seq(Cells) /\ NoEvents(b, 1, Len(b)) /\ buf = Text(b, 1, Len(b))
        /\ Stream3d(b \o d) /\ Goes(w)
    BY <1>1, <1>4 DEF Buffers, StreamOf
  <2> HIDE DEF c, next
  <2>3. /\ Goes(w \o c)
        /\ \E d2, p2, q2 : /\ Skips(w \o c, d2, p2, q2)
                           /\ Stream3d(b \o d2)
                           /\ Due("3d", b, w \o c, p2) <= Due("3d", b, w, p)
    BY <1>1, <1>2, <2>1, <2>2, Behind3dSent
  <2>4. PICK d2, p2, q2 : /\ Skips(w \o c, d2, p2, q2)
                          /\ Stream3d(b \o d2)
                          /\ Due("3d", b, w \o c, p2) <= Due("3d", b, w, p)
    BY <2>3
  <2>5. Buffers(b, chan, d2, buf, next)
    BY <1>4, <2>2, <2>4 DEF Buffers, StreamOf
  <2>6. Due(chan, b, w \o c, p2) \in 0 .. 1 /\ Due(chan, b, w, p) \in 0 .. 1
    BY DueIs
  <2>7. Lost(r, h) + Due(chan, b, w \o c, p2) <= n
    <3> HIDE DEF lost
    <3>1. lost + Due(chan, b, w, p) <= n
      BY <1>1 DEF lost
    <3>2. lost + Due(chan, b, w \o c, p2) <= n
      BY <1>2, <1>4, <2>4, <2>6, <3>1
    <3> QED
      BY <3>2 DEF lost
  <2>8. Followed(chan, w \o c, r, h, buf, next, n)
    BY <1>1, <1>4, <2>3, <2>4, <2>5, <2>7 DEF Followed
  <2> QED
    BY <2>8 DEF c, next
<1> QED
  BY <1>3, <1>4

(* A stuck 2D channel has READY on the way, once for each connection.      *)
LEMMA StuckSent ==
    ASSUME NEW chan, NEW w, NEW r \in Seq(Events), NEW h \in Seq(Events),
           NEW buf, NEW says, NEW n \in Nat, Stuck(chan, w, r, h, buf, says, n),
           NEW m \in Messages, m.channel = chan, Kind(m) = says
    PROVE  Stuck(chan, w \o Encoded(m), r, h, buf,
                 IF Kind(m) = "ready" THEN "wait" ELSE "ready", n)
<1> DEFINE c == Encoded(m)
           t == w \o c
           lost == Lost(r, h)
<1>1. /\ chan = "2d" /\ says \in {"ready", "wait"} /\ n # 0
      /\ w \in Seq(Cells) /\ \A i \in 1 .. Len(w) : w[i] = ReadyCell
      /\ StuckBuffer(buf)
      /\ lost + Len(w) + (IF says = "ready" THEN 1 ELSE 0) <= n
  BY DEF Stuck
<1>2. IsReadyMessage(m) /\ says = "ready" /\ Kind(m) = "ready"
  BY <1>1, Said2d
<1>3. c \in Seq(Cells) /\ Len(c) = 1 /\ c[1] = ReadyCell
  <2>1. m.bytes = <<"READY">> /\ m.event = <<Ready>>
    BY <1>2 DEF IsReadyMessage
  <2>2. Len(m.bytes) = 1 /\ m.bytes[1] = "READY"
    BY <2>1
  <2>3. c = [i \in 1 .. 1 |-> [byte |-> m.bytes[i], event |-> IF i = 1 THEN m.event ELSE <<>>]]
    BY <2>2 DEF Encoded
  <2>4. c[1] = ReadyCell
    BY <2>1, <2>2, <2>3 DEF ReadyCell
  <2> QED
    BY <2>2, <2>4, EncodedIs
<1> HIDE DEF c
<1>4. t \in Seq(Cells) /\ JoinOf(t, w, c)
  BY <1>1, <1>3, JoinedBoth
<1>5. lost \in Nat
  BY MissingIs
<1> HIDE DEF t, lost
<1>6. Len(t) = Len(w) + 1 /\ Len(w) \in Nat
  BY <1>1, <1>3, <1>4 DEF JoinOf
<1>7. ASSUME NEW i \in 1 .. Len(t) PROVE t[i] = ReadyCell
  <2>1. CASE i \in 1 .. Len(w)
    BY <1>1, <1>4, <2>1 DEF JoinOf
  <2>2. CASE i \notin 1 .. Len(w)
    <3>1. i = Len(w) + 1 /\ 1 \in 1 .. Len(c)
      BY <1>3, <1>6, <2>2
    <3> QED
      BY <1>3, <1>4, <3>1 DEF JoinOf
  <2> QED
    BY <2>1, <2>2
<1>8. lost + Len(t) + 0 <= n
  BY <1>1, <1>2, <1>5, <1>6
<1>9. lost + Len(t) + (IF "wait" = "ready" THEN 1 ELSE 0) <= n
  BY <1>8
<1>10. Stuck(chan, t, r, h, buf, "wait", n)
  BY <1>1, <1>4, <1>7, <1>9 DEF Stuck, lost
<1> QED
  BY <1>2, <1>10 DEF t, c

LEMMA MessageSentKeeps ==
    ASSUME FramesInv, NEW m \in Messages, MessageSent(m)
    PROVE  FramesInv'
<1> DEFINE next == IF Kind(m) = "ready" THEN "wait" ELSE "ready"
<1>1. channel' = channel /\ reconnects' = reconnects /\ recv_buffer' = recv_buffer
      /\ received' = received /\ handed' = handed /\ wire' = wire \o Encoded(m)
      /\ m.channel = channel /\ (channel = "2d" => Kind(m) = turn)
      /\ turn' = next
  BY DEF MessageSent
<1>2. /\ channel \in {"2d", "3d"} /\ reconnects \in Nat
      /\ received \in Seq(Events) /\ handed \in Seq(Events)
  BY DEF FramesInv
<1> HIDE DEF next
<1>3. CASE Followed(channel, wire, received, handed, recv_buffer, turn, reconnects)
  <2>1. Followed(channel, wire \o Encoded(m), received, handed, recv_buffer, next, reconnects)
    BY <1>1, <1>2, <1>3, FollowedSent DEF next
  <2> QED
    BY <1>1, <1>2, <2>1 DEF FramesInv
<1>4. CASE Stuck(channel, wire, received, handed, recv_buffer, turn, reconnects)
  <2>1. channel = "2d"
    BY <1>4 DEF Stuck
  <2>2. Stuck(channel, wire \o Encoded(m), received, handed, recv_buffer, next, reconnects)
    BY <1>1, <1>2, <1>4, <2>1, StuckSent DEF next
  <2> QED
    BY <1>1, <1>2, <2>2 DEF FramesInv
<1> QED
  BY <1>3, <1>4 DEF FramesInv

(* The buffer and a piece are a text again.                                *)
LEMMA TextJoined ==
    ASSUME NEW b \in Seq(Cells), NEW w \in Seq(Cells), NEW n \in Nat, n <= Len(w)
    PROVE  Text(b, 1, Len(b)) \o Text(w, 1, n) = Text(b \o w, 1, Len(b) + n)
<1> DEFINE s == b \o w
           t == Text(b, 1, Len(b))
           u == Text(w, 1, n)
           v == Text(s, 1, Len(b) + n)
<1>1. /\ s \in Seq(Cells) /\ Len(s) = Len(b) + Len(w) /\ Len(b) \in Nat
      /\ \A i \in 1 .. Len(b) : s[i] = b[i]
      /\ \A i \in 1 .. Len(w) : s[Len(b) + i] = w[i]
  OBVIOUS
<1> HIDE DEF s
<1>2. t \in Seq(STRING) /\ Len(t) = Len(b) /\ \A i \in 1 .. Len(b) : t[i] = b[i].byte
  BY TextUpto
<1>3. u \in Seq(STRING) /\ Len(u) = n /\ \A i \in 1 .. n : u[i] = w[i].byte
  BY TextUpto
<1>4. v \in Seq(STRING) /\ Len(v) = Len(b) + n /\ \A i \in 1 .. Len(b) + n : v[i] = s[i].byte
  <2>1. PICK k \in Nat : k = Len(b) + n
    BY <1>1
  <2>2. k <= Len(s)
    BY <1>1, <2>1
  <2>3. /\ Text(s, 1, k) \in Seq(STRING) /\ Len(Text(s, 1, k)) = k
        /\ \A i \in 1 .. k : Text(s, 1, k)[i] = s[i].byte
    BY <1>1, <2>2, TextUpto
  <2> QED
    BY <2>1, <2>3
<1> HIDE DEF t, u, v
<1>5. /\ t \o u \in Seq(STRING) /\ Len(t \o u) = Len(b) + n
      /\ \A i \in 1 .. Len(b) : (t \o u)[i] = t[i]
      /\ \A i \in 1 .. n : (t \o u)[Len(b) + i] = u[i]
  <2>1. t \o u \in Seq(STRING) /\ JoinOf(t \o u, t, u)
    BY <1>2, <1>3, JoinedBoth
  <2> QED
    BY <1>2, <1>3, <2>1 DEF JoinOf
<1>6. ASSUME NEW i \in 1 .. Len(b) + n PROVE (t \o u)[i] = v[i]
  <2>1. CASE i \in 1 .. Len(b)
    BY <1>1, <1>2, <1>4, <1>5, <2>1
  <2>2. CASE i \notin 1 .. Len(b)
    <3>1. PICK j \in 1 .. n : i = Len(b) + j
      <4>1. i - Len(b) \in 1 .. n /\ i = Len(b) + (i - Len(b))
        BY <1>1, <2>2
      <4> QED
        BY <4>1
    <3>2. (t \o u)[i] = w[j].byte
      BY <1>3, <1>5, <3>1
    <3>3. s[i] = w[j]
      BY <1>1, <3>1
    <3> QED
      BY <1>4, <3>2, <3>3
  <2> QED
    BY <2>1, <2>2
<1>7. t \o u = v
  BY <1>4, <1>5, <1>6
<1> QED
  BY <1>7 DEF s, t, u, v

LEMMA UptoJoined ==
    ASSUME NEW b \in Seq(Cells), NEW w \in Seq(Cells), NEW n \in Nat, n <= Len(w)
    PROVE  Upto(b \o w, Len(b) + n) = b \o Upto(w, n) /\ Upto(w, n) \in Seq(Cells)
BY DEF Upto

(* What was taken from behind the buffer leaves the rest of both.          *)
RestOf(q, s, c, n, u) ==
    /\ q \in Seq(Cells) /\ Len(q) = n - c
    /\ \A i \in 1 .. n - c : q[i] = s[c + i]
    /\ q \o u = From(s, c + 1)

LEMMA BehindJoined ==
    ASSUME NEW b \in Seq(Cells), NEW w \in Seq(Cells), NEW n \in Nat, n <= Len(w),
           NEW c \in 0 .. Len(b) + n
    PROVE  RestOf(SubSeq(b \o w, c + 1, Len(b) + n), b \o w, c, Len(b) + n, From(w, n + 1))
<1> DEFINE s == b \o w
           q == SubSeq(s, c + 1, Len(b) + n)
<1>1. /\ s \in Seq(Cells) /\ Len(s) = Len(b) + Len(w) /\ Len(b) \in Nat /\ Len(w) \in Nat
      /\ \A i \in 1 .. Len(w) : s[Len(b) + i] = w[i]
  OBVIOUS
<1>0. Len(b) \in Nat
  OBVIOUS
<1> HIDE DEF s
<1>2. /\ q \in Seq(Cells) /\ Len(q) = Len(b) + n - c
      /\ \A i \in 1 .. Len(b) + n - c : q[i] = s[c + i]
  <2>1. PICK k, l \in Nat : k = c + 1 /\ l = Len(b) + n
    BY <1>0
  <2>2. k >= 1 /\ k <= l + 1 /\ l <= Len(s)
    BY <1>1, <2>1
  <2>3. /\ SubSeq(s, k, l) \in Seq(Cells) /\ Len(SubSeq(s, k, l)) = l - k + 1
        /\ \A i \in 1 .. l - k + 1 : SubSeq(s, k, l)[i] = s[k + i - 1]
    BY <1>1, <2>2
  <2>4. l - k + 1 = Len(b) + n - c /\ \A i \in 1 .. l - k + 1 : k + i - 1 = c + i
    BY <1>1, <2>1
  <2> QED
    BY <2>1, <2>3, <2>4
<1> HIDE DEF q
<1> DEFINE u == From(w, n + 1)
           v == From(s, c + 1)
<1>3. u \in Seq(Cells) /\ Len(u) = Len(w) - n /\ \A i \in 1 .. Len(w) - n : u[i] = w[n + i]
  BY BehindIs
<1>4. v \in Seq(Cells) /\ Len(v) = Len(s) - c /\ \A i \in 1 .. Len(s) - c : v[i] = s[c + i]
  <2>1. c \in 0 .. Len(s)
    BY <1>1
  <2> QED
    BY <1>1, <2>1, BehindIs
<1> HIDE DEF u, v
<1>5. /\ q \o u \in Seq(Cells) /\ Len(q \o u) = Len(q) + Len(u)
      /\ \A i \in 1 .. Len(q) : (q \o u)[i] = q[i]
      /\ \A i \in 1 .. Len(u) : (q \o u)[Len(q) + i] = u[i]
  <2>1. q \o u \in Seq(Cells) /\ JoinOf(q \o u, q, u)
    BY <1>2, <1>3, JoinedBoth
  <2> QED
    BY <2>1 DEF JoinOf
<1>6. Len(q \o u) = Len(v)
  BY <1>1, <1>2, <1>3, <1>4, <1>5
<1>7. ASSUME NEW i \in 1 .. Len(v) PROVE (q \o u)[i] = v[i]
  <2>1. CASE i \in 1 .. Len(q)
    <3>1. i \in 1 .. Len(b) + n - c /\ i \in 1 .. Len(s) - c
      BY <1>2, <1>4, <2>1
    <3> QED
      BY <1>2, <1>4, <1>5, <2>1, <3>1
  <2>2. CASE i \notin 1 .. Len(q)
    <3>1. PICK j \in 1 .. Len(u) : i = Len(q) + j
      <4>1. Len(q) \in Nat /\ Len(u) \in Nat /\ i \in Nat
        BY <1>2, <1>3, <1>4
      <4>2. 1 <= i /\ i <= Len(q) + Len(u) /\ Len(q) < i
        BY <1>5, <1>6, <2>2, <4>1
      <4>3. i - Len(q) \in 1 .. Len(u) /\ i = Len(q) + (i - Len(q))
        BY <4>1, <4>2
      <4> QED
        BY <4>3
    <3>2. (q \o u)[i] = w[n + j]
      BY <1>3, <1>5, <3>1
    <3>3. n + j \in 1 .. Len(w) /\ Len(b) + (n + j) = c + i
      BY <1>1, <1>2, <1>3, <3>1
    <3>4. s[c + i] = w[n + j]
      BY <1>1, <3>3
    <3> QED
      BY <1>4, <3>2, <3>4
  <2> QED
    BY <2>1, <2>2
<1>8. q \o u = v
  <2>1. q \o u \in Seq(Cells) /\ v \in Seq(Cells)
    BY <1>4, <1>5
  <2> QED
    BY <1>6, <1>7, <2>1, SameText
<1>9. RestOf(q, s, c, Len(b) + n, u)
  BY <1>2, <1>8 DEF RestOf, v
<1> QED
  BY <1>9 DEF q, u, s

(* A piece that is drained: what is left goes on with what is on the way.  *)
DrainedOf(w, n, buf, given, says) ==
    LET drained == Drain(buf \o Text(w, 1, n))
        next == given \o drained.events
    IN /\ drained.events = EventsOf(Upto(w, n))
       /\ \E q : /\ Buffers(q, channel, From(w, n + 1), drained.rest,
                            IF next # given /\ Last(next) = Ready THEN "result" ELSE says)
                 /\ q # <<>> => q[Len(q)] = w[n]

LEMMA PieceDrained ==
    ASSUME NEW b, NEW w \in Seq(Cells), channel \in {"2d", "3d"}, NEW buf, NEW says,
           Buffers(b, channel, w, buf, says), NEW n \in 1 .. Len(w),
           NEW given \in Seq(Events)
    PROVE  DrainedOf(w, n, buf, given, says)
<1> DEFINE s == b \o w
           N == Len(b) + n
<1>1. /\ b \in Seq(Cells) /\ Stream(s) /\ buf = Text(b, 1, Len(b)) /\ NoEvents(b, 1, Len(b))
      /\ (channel = "2d" /\ HoldsReady(s) => says = "wait")
  BY DEF Buffers, Stream
<1>2. /\ s \in Seq(Cells) /\ Len(s) = Len(b) + Len(w) /\ Len(b) \in Nat /\ Len(w) \in Nat
      /\ \A i \in 1 .. Len(b) : s[i] = b[i]
  BY <1>1
<1>0. n \in Nat /\ n <= Len(w)
  BY <1>2
<1>3. buf \o Text(w, 1, n) = Text(s, 1, N)
  BY <1>0, <1>1, TextJoined
<1>4. EventsOf(Upto(s, N)) = EventsOf(Upto(w, n))
  <2>1. Upto(s, N) = b \o Upto(w, n) /\ Upto(w, n) \in Seq(Cells)
    BY <1>0, <1>1, UptoJoined
  <2> QED
    BY <1>1, <2>1, EventsBehind
<1>b. s[N] = w[n]
  BY <1>1
<1>5. ASSUME NEW c \in 0 .. N
      PROVE  RestOf(SubSeq(s, c + 1, N), s, c, N, From(w, n + 1))
  BY <1>0, <1>1, BehindJoined
<1> HIDE DEF s
<1>6. N \in Nat /\ N <= Len(s)
  BY <1>2
<1> HIDE DEF N
<1>7. PICK c \in 0 .. N :
        /\ c = 0 \/ s[c].event # <<>>
        /\ NoEvents(s, c + 1, N)
        /\ Drain(Text(s, 1, N)) = [events |-> EventsOf(Upto(s, N)), rest |-> Text(s, c + 1, N)]
        /\ c = 0 => EventsOf(Upto(s, N)) = <<>>
        /\ c # 0 => \E p \in Seq(Events) : EventsOf(Upto(s, N)) = p \o s[c].event
  BY <1>1, <1>2, <1>6, DrainText
<1> DEFINE events == EventsOf(Upto(w, n))
           next == given \o events
           said == IF next # given /\ Last(next) = Ready THEN "result" ELSE says
           q == SubSeq(s, c + 1, N)
<1>a. RestOf(q, s, c, N, From(w, n + 1))
  BY <1>5
<1> HIDE DEF q
<1>8. /\ c \in Nat /\ c <= N
      /\ q \in Seq(Cells) /\ Len(q) = N - c
      /\ \A i \in 1 .. N - c : q[i] = s[c + i]
      /\ q \o From(w, n + 1) = From(s, c + 1)
  BY <1>6, <1>a DEF RestOf
<1>9. Text(s, c + 1, N) = Text(q, 1, Len(q))
  <2>0. Len(q) \in Nat
    BY <1>8
  <2>1. PICK d, i, j \in Int : d = c /\ i = c + 1 /\ j = Len(q)
    BY <2>0
  <2>2. Moved(q, s, 1, j, d)
    <3> SUFFICES ASSUME NEW x \in 1 .. j PROVE s[x + d] = q[x]
      BY DEF Moved
    <3>1. x + d = c + x /\ x \in 1 .. N - c
      BY <1>6, <1>8, <2>1
    <3> QED
      BY <1>8, <3>1
  <2>3. i = 1 + d /\ N = j + d
    BY <1>6, <1>8, <2>1
  <2>4. Text(s, i, N) = Text(q, 1, j)
    <3>1. N \in Int /\ 1 \in Int
      BY <1>6
    <3> QED
      BY <2>2, <2>3, <3>1, TextMoved
  <2> QED
    BY <2>1, <2>4
<1>10. NoEvents(q, 1, Len(q))
  <2> SUFFICES ASSUME NEW x \in 1 .. N - c PROVE q[x].event = <<>>
    BY <1>8 DEF NoEvents
  <2>1. c + x \in c + 1 .. N
    BY <1>6, <1>8
  <2> QED
    BY <1>7, <1>8, <2>1 DEF NoEvents
<1>c. c \in 0 .. Len(s)
  BY <1>6, <1>8
<1>11. StreamOf(channel, q \o From(w, n + 1))
  BY <1>1, <1>2, <1>7, <1>8, <1>c, BehindEvent DEF Stream
<1>12. ASSUME channel = "2d", HoldsReady(q \o From(w, n + 1)) PROVE said = "wait"
  <2> DEFINE v == From(s, c + 1)
  <2>1. /\ v \in Seq(Cells) /\ Len(v) = Len(s) - c
        /\ \A i \in 1 .. Len(s) - c : v[i] = s[c + i]
    BY <1>2, <1>c, BehindIs
  <2>2. HoldsReady(v)
    BY <1>8, <1>12
  <2> HIDE DEF v
  <2>3. PICK i \in 1 .. Len(s) - c : s[c + i].byte = "READY"
    BY <2>1, <2>2 DEF HoldsReady
  <2>4. says = "wait"
    <3>1. c + i \in 1 .. Len(s)
      BY <1>2, <1>c
    <3>2. HoldsReady(s)
      BY <2>3, <3>1 DEF HoldsReady
    <3> QED
      BY <1>1, <1>12, <3>2
  <2>5. ~(next # given /\ Last(next) = Ready)
    <3> SUFFICES ASSUME next # given, Last(next) = Ready PROVE FALSE
      OBVIOUS
    <3>1. events # <<>>
      <4>1. given \o <<>> = given
        OBVIOUS
      <4> QED
        BY <4>1
    <3>2. c # 0
      BY <1>4, <1>7, <3>1
    <3>3. PICK p \in Seq(Events) : events = p \o s[c].event
      BY <1>4, <1>7, <3>2
    <3>4. c \in 1 .. Len(s)
      BY <1>c, <3>2
    <3>5. PICK e \in Events : s[c].event = <<e>>
      <4>1. s[c] \in Cells
        BY <1>2, <3>4
      <4> QED
        BY <1>7, <3>2, <4>1 DEF Cells
    <3>6. Last(given \o (p \o <<e>>)) = e
      BY DEF Last
    <3>7. s[c].event = <<Ready>>
      BY <3>3, <3>5, <3>6
    <3>8. Stream2d(s)
      BY <1>1, <1>12 DEF Stream, StreamOf
    <3>9. c = Len(s)
      BY <1>2, <3>4, <3>7, <3>8, ReadyIsLast
    <3> QED
      BY <1>2, <3>9
  <2> QED
    BY <2>4, <2>5
<1> HIDE DEF said
<1>13. Buffers(q, channel, From(w, n + 1), Text(s, c + 1, N), said)
  BY <1>8, <1>9, <1>10, <1>11, <1>12 DEF Buffers
<1>14. Drain(buf \o Text(w, 1, n)) = [events |-> events, rest |-> Text(s, c + 1, N)]
  BY <1>3, <1>4, <1>7
<1>15. q # <<>> => q[Len(q)] = w[n]
  <2> SUFFICES ASSUME q # <<>> PROVE q[Len(q)] = w[n]
    OBVIOUS
  <2>1. Len(q) \in 1 .. N - c /\ c + Len(q) = N
    BY <1>6, <1>8
  <2>2. q[Len(q)] = s[N]
    BY <1>8, <2>1
  <2> QED
    BY <1>b, <2>2
<1>16. PICK dr : dr = Drain(buf \o Text(w, 1, n))
  OBVIOUS
<1>17. dr.events = events /\ dr.rest = Text(s, c + 1, N)
  BY <1>14, <1>16
<1> DEFINE last == given \o dr.events
<1>18. Buffers(q, channel, From(w, n + 1), dr.rest,
               IF last # given /\ Last(last) = Ready THEN "result" ELSE says)
  BY <1>13, <1>17, Zenon DEF said
<1> QED
  BY <1>15, <1>16, <1>17, <1>18, Zenon DEF DrainedOf

LEMMA HeartbeatPiece ==
    ASSUME NEW w \in Seq(Cells), NEW n \in 1 .. Len(w), IsHeartbeat(Text(w, 1, n))
    PROVE  \A i \in 1 .. n : w[i].byte \in {"nl", "Z", "H"}
<1> DEFINE p == Text(w, 1, n)
<1>1. n \in Nat /\ n <= Len(w)
  OBVIOUS
<1>2. p \in Seq(STRING) /\ Len(p) = n /\ \A i \in 1 .. n : p[i] = w[i].byte
  BY <1>1, TextUpto
<1>3. IsHeartbeat(p)
  OBVIOUS
<1> HIDE DEF p
<1>4. \A i \in 1 .. Len(p) : p[i] \in {"nl", "Z", "H"}
  BY <1>2, <1>3, HeartbeatBytes
<1> QED
  BY <1>2, <1>4

(* A piece that is dropped was all heartbeats, and on the 3D channel.      *)
LEMMA Dropped3d ==
    ASSUME NEW b \in Seq(Cells), NEW w \in Seq(Cells), Goes(w), Stream3d(b \o w),
           NoEvents(b, 1, Len(b)),
           NEW n \in 1 .. Len(w), \A i \in 1 .. n : w[i].byte \in {"nl", "Z", "H"}
    PROVE  /\ NoEvents(w, 1, n)
           /\ \E d, p, q : /\ Skips(From(w, n + 1), d, p, q)
                           /\ Stream3d(b \o d)
                           /\ Due("3d", b, From(w, n + 1), p) <= Due("3d", b, w, 0)
<1> DEFINE s == b \o w
           u == From(w, n + 1)
<1>1. s \in Seq(Cells) /\ JoinOf(s, b, w) /\ Stream3d(s)
  BY JoinedBoth
<1> HIDE DEF s
<1>2. /\ Len(s) = Len(b) + Len(w) /\ Len(b) \in Nat /\ Len(w) \in Nat /\ n \in Nat
      /\ \A i \in 1 .. Len(w) : s[Len(b) + i] = w[i]
  BY <1>1 DEF JoinOf
<1>3. u \in Seq(Cells) /\ Len(u) = Len(w) - n /\ \A i \in 1 .. Len(w) - n : u[i] = w[n + i]
  <2>1. n \in 0 .. Len(w)
    BY <1>2
  <2> QED
    BY <2>1, BehindIs
<1> HIDE DEF u
<1>4. NoEvents(w, 1, n)
  <2> SUFFICES ASSUME NEW i \in 1 .. n, w[i].event # <<>> PROVE FALSE
    BY DEF NoEvents
  <2>1. PICK j \in 1 .. Len(s) : j = Len(b) + i /\ s[j] = w[i]
    <3>1. Len(b) + i \in 1 .. Len(s) /\ i \in 1 .. Len(w)
      BY <1>2
    <3> QED
      BY <1>2, <3>1
  <2>2. PICK st, k \in 1 .. Len(s) : FrameAt(s, st, k, j)
    BY <1>1, <2>1 DEF Stream3d
  <2>3. s[j].byte = "E"
    BY <2>2 DEF FrameAt, Match
  <2> QED
    BY <2>1, <2>3
<1>5. Stream3d(b)
  BY Prefix3d
<1>6. w[1].byte \in {"nl", "Z", "H"} /\ 1 \in 1 .. Len(w) /\ w # <<>>
  BY <1>2
<1>7. Opening(w)
  BY <1>6, OpeningFrom
<1>8. Stream3d(w)
  <2>1. From(s, Len(b) + 1) = w
    <3>1. Len(b) \in 0 .. Len(s)
      BY <1>2
    <3> DEFINE v == From(s, Len(b) + 1)
    <3>2. v \in Seq(Cells) /\ Len(v) = Len(s) - Len(b)
          /\ \A i \in 1 .. Len(s) - Len(b) : v[i] = s[Len(b) + i]
      BY <1>1, <3>1, BehindIs
    <3> HIDE DEF v
    <3>3. Len(v) = Len(w) /\ \A i \in 1 .. Len(w) : v[i] = w[i]
      BY <1>2, <3>2
    <3>4. v = w
      BY <3>2, <3>3, SameText
    <3> QED
      BY <3>4 DEF v
  <2>2. ASSUME NEW st \in 1 .. Len(s), NEW k \in 1 .. Len(s), NEW e \in 1 .. Len(s),
               FrameAt(s, st, k, e), Len(b) < e
        PROVE  Len(b) < st
    <3> SUFFICES ASSUME st <= Len(b) PROVE FALSE
      BY <1>2
    <3>1. Match(s, st, k, e) /\ w[1].byte # "("
      BY <1>6, <2>2 DEF FrameAt
    <3> QED
      BY <1>1, <1>7, <2>2, <3>1, NoCross
  <2>3. Len(b) \in 0 .. Len(s)
    BY <1>2
  <2>4. Stream3d(From(s, Len(b) + 1))
    BY <1>1, <2>2, <2>3, Suffix3d
  <2> QED
    BY <2>1, <2>4
<1>9. Stream3d(u)
  <2>1. ASSUME NEW st \in 1 .. Len(w), NEW k \in 1 .. Len(w), NEW e \in 1 .. Len(w),
               FrameAt(w, st, k, e), n < e
        PROVE  n < st
    <3> SUFFICES ASSUME st <= n PROVE FALSE
      BY <1>2
    <3>1. st \in 1 .. n /\ w[st].byte = "("
      BY <1>2, <2>1 DEF FrameAt, Match
    <3> QED
      BY <3>1
  <2>2. n \in 0 .. Len(w)
    BY <1>2
  <2> QED
    BY <1>8, <2>1, <2>2, Suffix3d DEF u
<1>10. Opening(u) /\ Goes(u)
  <2>1. n \in 0 .. Len(w) /\ n \in 1 .. n
    BY <1>2
  <2> QED
    BY <2>1, OpeningBehind, GoesBehind DEF u
<1>11. CASE u # <<>> /\ u[1].byte = "(" /\ HalfFrame(b)
  <2>1. PICK st \in 1 .. Len(b) : Half(b, st)
    BY <1>11 DEF HalfFrame
  <2>2. 1 \in 1 .. Len(w) - n /\ n < Len(w) /\ u[1] = w[n + 1]
    <3>1. Len(u) # 0
      BY <1>3, <1>11
    <3>2. 1 \in 1 .. Len(w) - n /\ n < Len(w)
      BY <1>2, <1>3, <3>1
    <3> QED
      BY <1>3, <3>2
  <2>3. PICK k, e \in 1 .. Len(w) : Whole(w, n + 1, k, e)
    <3>1. w[n].byte \in {"nl", "Z", "H"}
      BY <1>2
    <3>2. w[n + 1].byte \notin {"nl", "Z", "H"}
      BY <1>11, <2>2
    <3> QED
      BY <2>2, <3>1, <3>2 DEF Goes
  <2>4. n + 1 < k /\ k + 3 < e - 1
    BY <2>3 DEF Whole, FrameAt, Match
  <2>5. PICK x, st1, one, k2, e2 \in Int : /\ x = -n /\ st1 = n + 1 /\ one = 1
                                           /\ k2 = k + x /\ e2 = e + x
    <3>1. -n \in Int /\ n + 1 \in Int /\ 1 \in Int /\ k + (-n) \in Int /\ e + (-n) \in Int
      BY <1>2
    <3> QED
      BY <3>1
  <2>6. Moved(w, u, st1, e, x)
    <3>1. ASSUME NEW y \in st1 .. e PROVE y + x \in 1 .. Len(w) - n /\ y = n + (y + x)
      BY <1>2, <2>5
    <3> QED
      BY <1>3, <3>1 DEF Moved
  <2>7. k \in Int /\ e \in Int /\ one = st1 + x /\ k2 \in 1 .. Len(u) /\ e2 \in 1 .. Len(u)
    BY <1>2, <1>3, <2>4, <2>5
  <2>8. Whole(u, one, k2, e2)
    BY <2>3, <2>5, <2>6, <2>7, WholeMoved
  <2>9. Whole(u, 1, k2, e2)
    BY <2>5, <2>8
  <2>10. PICK d : Skips(u, d, e2, k2 + 1) /\ Stream3d(b \o d)
    BY <1>3, <1>5, <1>9, <1>10, <2>1, <2>7, <2>9, Spoiled
  <2>11. Due("3d", b, w, 0) = 1
    BY <1>6, <2>1 DEF Due, Owes, Half
  <2>12. Due("3d", b, u, e2) <= Due("3d", b, w, 0)
    BY <2>11, DueIs
  <2> QED
    BY <1>4, <2>10, <2>12 DEF u
<1>12. CASE ~(u # <<>> /\ u[1].byte = "(" /\ HalfFrame(b))
  <2>1. Stream3d(b \o u)
    BY <1>3, <1>5, <1>9, <1>10, <1>12, Joined3d
  <2>2. Skips(u, u, 0, 0)
    BY <1>3, SkipsNothing
  <2>3. Due("3d", b, u, 0) <= Due("3d", b, w, 0)
    BY <1>6 DEF Due, Owes
  <2> QED
    BY <1>4, <2>1, <2>2, <2>3 DEF u
<1> QED
  BY <1>11, <1>12

LEMMA FollowedDropped ==
    ASSUME NEW chan \in {"2d", "3d"}, NEW w, NEW r \in Seq(Events), NEW h \in Seq(Events),
           NEW buf, NEW says, NEW most \in Nat, Followed(chan, w, r, h, buf, says, most),
           NEW n \in 1 .. Len(w), IsHeartbeat(Text(w, 1, n))
    PROVE  /\ EventsOf(Upto(w, n)) = <<>>
           /\ Followed(chan, From(w, n + 1), r, h, buf, says, most)
<1> DEFINE u == From(w, n + 1)
           lost == Lost(r, h)
<1>1. PICK b, d, p, q :
        /\ Buffers(b, chan, d, buf, says)
        /\ Skips(w, d, p, q)
        /\ chan = "3d" => Goes(w)
        /\ Lost(r, h) + Due(chan, b, w, p) <= most
        /\ most = 0 => h = r
        /\ chan = "2d" => p = 0 /\ h = r
  BY DEF Followed
<1>2. w \in Seq(Cells) /\ lost \in Nat /\ Len(w) \in Nat
  BY <1>1, MissingIs DEF Skips
<1>3. \A i \in 1 .. n : w[i].byte \in {"nl", "Z", "H"}
  BY <1>2, HeartbeatPiece
<1>4. p = 0 /\ d = w
  <2>1. p = 0
    <3> SUFFICES ASSUME p # 0 PROVE FALSE
      OBVIOUS
    <3>1. 1 \in 1 .. p /\ 1 \in 1 .. n
      BY <1>1, <1>2 DEF Skips
    <3>2. w[1].byte \notin {"nl", "Z", "H"}
      BY <1>1, <3>1 DEF Skips
    <3> QED
      BY <1>3, <3>1, <3>2
  <2> QED
    BY <1>1, <2>1, SkipsAll
<1>5. /\ b \in Seq(Cells) /\ buf = Text(b, 1, Len(b)) /\ NoEvents(b, 1, Len(b))
      /\ StreamOf(chan, b \o w)
  BY <1>1, <1>4 DEF Buffers
<1>6. chan = "3d"
  <2> SUFFICES ASSUME chan = "2d" PROVE FALSE
    OBVIOUS
  <2> DEFINE s == b \o w
  <2>1. s \in Seq(Cells) /\ JoinOf(s, b, w) /\ Stream2d(s)
    BY <1>2, <1>5, JoinedBoth DEF StreamOf
  <2> HIDE DEF s
  <2>2. 1 \in 1 .. Len(w) /\ 1 \in 1 .. n /\ Len(b) \in Nat /\ Len(s) = Len(b) + Len(w)
    BY <1>2, <1>5, <2>1 DEF JoinOf
  <2>3. PICK i \in 1 .. Len(s) : i = Len(b) + 1
    BY <1>2, <2>2
  <2>4. s[i] = w[1]
    BY <2>1, <2>2, <2>3 DEF JoinOf
  <2> QED
    BY <1>3, <2>1, <2>2, <2>4, NoHeartbeat2d
<1>7. /\ NoEvents(w, 1, n)
      /\ \E d2, p2, q2 : /\ Skips(u, d2, p2, q2)
                         /\ Stream3d(b \o d2)
                         /\ Due("3d", b, u, p2) <= Due("3d", b, w, 0)
  BY <1>1, <1>2, <1>3, <1>5, <1>6, Dropped3d DEF StreamOf
<1>8. EventsOf(Upto(w, n)) = <<>>
  <2> DEFINE v == Upto(w, n)
  <2>1. v \in Seq(Cells) /\ Len(v) = n /\ \A i \in 1 .. n : v[i] = w[i]
    BY <1>2 DEF Upto
  <2> HIDE DEF v
  <2>2. NoEvents(v, 1, Len(v))
    BY <1>7, <2>1 DEF NoEvents
  <2>3. EventsOf(v) = <<>>
    BY <2>1, <2>2, NoEventsOf
  <2> QED
    BY <2>3 DEF v
<1>9. Goes(u)
  <2>1. n \in 0 .. Len(w)
    BY <1>2
  <2> QED
    BY <1>1, <1>2, <1>6, <2>1, GoesBehind
<1>10. PICK d2, p2, q2 : /\ Skips(u, d2, p2, q2)
                         /\ Stream3d(b \o d2)
                         /\ Due("3d", b, u, p2) <= Due("3d", b, w, 0)
  BY <1>7
<1> HIDE DEF u, lost
<1>11. Buffers(b, chan, d2, buf, says)
  BY <1>5, <1>6, <1>10 DEF Buffers, StreamOf
<1>12. Lost(r, h) + Due(chan, b, u, p2) <= most
  <2>1. Due(chan, b, u, p2) \in 0 .. 1 /\ Due(chan, b, w, p) \in 0 .. 1
    BY DueIs
  <2>2. lost + Due(chan, b, w, p) <= most
    BY <1>1 DEF lost
  <2>3. lost + Due(chan, b, u, p2) <= most
    BY <1>2, <1>4, <1>6, <1>10, <2>1, <2>2
  <2> QED
    BY <2>3 DEF lost
<1>13. Followed(chan, u, r, h, buf, says, most)
  BY <1>1, <1>6, <1>9, <1>10, <1>11, <1>12 DEF Followed
<1> QED
  BY <1>8, <1>13 DEF u

(* What is skipped of the bytes behind those that were received.           *)
LEMMA SkipsBehind ==
    ASSUME NEW w, NEW d, NEW p, NEW q, Skips(w, d, p, q), NEW n \in 1 .. Len(w)
    PROVE  \E p2, q2 : /\ Skips(From(w, n + 1), From(d, n + 1), p2, q2)
                       /\ p2 # 0 <=> p > n
                       /\ p = 0 => p2 = 0
<1> DEFINE u == From(w, n + 1)
           v == From(d, n + 1)
<1>1. /\ w \in Seq(Cells) /\ d \in Seq(Cells) /\ Len(d) = Len(w)
      /\ p \in 0 .. Len(w) /\ q \in 0 .. p
      /\ \A i \in 1 .. Len(w) : d[i].byte = w[i].byte /\ (i \notin {p, q} => d[i] = w[i])
      /\ \A i \in 1 .. p : w[i].byte \notin {"nl", "Z", "H"} /\ (w[i].event # <<>> <=> i = p)
      /\ p # 0 => q # p /\ d[p].event = <<>>
  BY DEF Skips
<1>2. Len(w) \in Nat /\ n \in 0 .. Len(w) /\ n \in 0 .. Len(d) /\ n \in Nat
  BY <1>1
<1>3. u \in Seq(Cells) /\ Len(u) = Len(w) - n /\ \A i \in 1 .. Len(w) - n : u[i] = w[n + i]
  BY <1>1, <1>2, BehindIs
<1>4. v \in Seq(Cells) /\ Len(v) = Len(w) - n /\ \A i \in 1 .. Len(w) - n : v[i] = d[n + i]
  <2>1. /\ From(d, n + 1) \in Seq(Cells) /\ Len(From(d, n + 1)) = Len(d) - n
        /\ \A i \in 1 .. Len(d) - n : From(d, n + 1)[i] = d[n + i]
    BY <1>1, <1>2, BehindIs
  <2> QED
    BY <1>1, <2>1
<1> HIDE DEF u, v
<1>5. \A i \in 1 .. Len(w) - n : n + i \in 1 .. Len(w)
  BY <1>2
<1>6. CASE p > n
  <2>1. PICK p2 \in Nat : p2 = p - n
    <3>1. p - n \in Nat
      BY <1>1, <1>2, <1>6
    <3> QED
      BY <3>1
  <2>2. PICK q2 \in Nat : q2 = (IF q > n THEN q - n ELSE 0)
    <3>1. (IF q > n THEN q - n ELSE 0) \in Nat
      BY <1>1, <1>2
    <3> QED
      BY <3>1
  <2>3. p2 \in 0 .. Len(u) /\ q2 \in 0 .. p2 /\ p2 # 0 /\ q2 # p2 /\ n + p2 = p
    BY <1>1, <1>2, <1>3, <1>6, <2>1, <2>2
  <2>4. ASSUME NEW i \in 1 .. Len(u)
        PROVE  v[i].byte = u[i].byte /\ (i \notin {p2, q2} => v[i] = u[i])
    <3>1. i \in 1 .. Len(w) - n /\ n + i \in 1 .. Len(w) /\ u[i] = w[n + i] /\ v[i] = d[n + i]
      BY <1>3, <1>4, <1>5
    <3>2. i \notin {p2, q2} => n + i \notin {p, q}
      BY <1>1, <1>2, <2>1, <2>2, <3>1
    <3> QED
      BY <1>1, <3>1, <3>2
  <2>5. ASSUME NEW i \in 1 .. p2
        PROVE  u[i].byte \notin {"nl", "Z", "H"} /\ (u[i].event # <<>> <=> i = p2)
    <3>1. i \in 1 .. Len(w) - n /\ n + i \in 1 .. p /\ (n + i = p <=> i = p2)
      BY <1>1, <1>2, <2>1
    <3> QED
      BY <1>1, <1>3, <3>1
  <2>6. v[p2].event = <<>>
    <3>1. p2 \in 1 .. Len(w) - n
      BY <1>3, <2>3
    <3> QED
      BY <1>1, <1>4, <2>3, <3>1
  <2>7. Skips(u, v, p2, q2)
    BY <1>3, <1>4, <2>3, <2>4, <2>5, <2>6 DEF Skips
  <2> QED
    BY <1>1, <1>2, <1>6, <2>3, <2>7 DEF u, v
<1>7. CASE ~(p > n)
  <2>1. ASSUME NEW i \in 1 .. Len(u) PROVE v[i] = u[i]
    <3>1. i \in 1 .. Len(w) - n /\ n + i \in 1 .. Len(w) /\ n + i \notin {p, q}
      BY <1>1, <1>2, <1>3, <1>7
    <3> QED
      BY <1>1, <1>3, <1>4, <3>1
  <2>2. v = u
    BY <1>3, <1>4, <2>1, SameText
  <2>3. Skips(u, v, 0, 0)
    BY <1>3, <2>2, SkipsNothing
  <2> QED
    BY <1>7, <2>3 DEF u, v
<1> QED
  BY <1>6, <1>7

LEMMA FollowedDrained ==
    ASSUME channel \in {"2d", "3d"}, NEW w, NEW r \in Seq(Events), NEW h \in Seq(Events),
           NEW buf, NEW says, NEW most \in Nat, Followed(channel, w, r, h, buf, says, most),
           NEW n \in 1 .. Len(w)
    PROVE  LET drained == Drain(buf \o Text(w, 1, n))
               next == h \o drained.events
           IN /\ drained.events \in Seq(Events)
              /\ Followed(channel, From(w, n + 1), r \o EventsOf(Upto(w, n)), next, drained.rest,
                          IF next # h /\ Last(next) = Ready THEN "result" ELSE says, most)
<1> DEFINE u == From(w, n + 1)
           drained == Drain(buf \o Text(w, 1, n))
           next == h \o drained.events
           said == IF next # h /\ Last(next) = Ready THEN "result" ELSE says
           got == r \o EventsOf(Upto(w, n))
<1>1. PICK b, d, p, q :
        /\ Buffers(b, channel, d, buf, says)
        /\ Skips(w, d, p, q)
        /\ channel = "3d" => Goes(w)
        /\ Lost(r, h) + Due(channel, b, w, p) <= most
        /\ most = 0 => h = r
        /\ channel = "2d" => p = 0 /\ h = r
  BY DEF Followed
<1>2. /\ w \in Seq(Cells) /\ d \in Seq(Cells) /\ Len(d) = Len(w) /\ Len(w) \in Nat
      /\ n \in Nat /\ n <= Len(w) /\ n \in 0 .. Len(w) /\ n \in 1 .. Len(d)
      /\ p \in 0 .. Len(w) /\ \A i \in 1 .. Len(w) : d[i].byte = w[i].byte
  BY <1>1 DEF Skips
<1>3. Text(d, 1, n) = Text(w, 1, n)
  <2>1. \A x \in 1 .. n - 1 + 1 : 1 + x - 1 \in 1 .. Len(w)
    BY <1>2
  <2> QED
    BY <1>2, <2>1 DEF Text
<1>4. /\ drained.events = EventsOf(Upto(d, n))
      /\ \E b2 : /\ Buffers(b2, channel, From(d, n + 1), drained.rest, said)
                 /\ b2 # <<>> => b2[Len(b2)] = d[n]
  <2>1. DrainedOf(d, n, buf, h, says)
    BY <1>1, <1>2, PieceDrained
  <2> QED
    BY <1>3, <2>1 DEF DrainedOf
<1>5. PICK b2 : /\ Buffers(b2, channel, From(d, n + 1), drained.rest, said)
                /\ b2 # <<>> => b2[Len(b2)] = d[n]
  BY <1>4
<1> HIDE DEF drained
<1>6. drained.events \in Seq(Events)
  <2>1. Upto(d, n) \in Seq(Cells)
    BY <1>2 DEF Upto
  <2> QED
    BY <1>4, <2>1, EventsOfTyped
<1>7. EventsOf(Upto(w, n)) \in Seq(Events)
  <2>1. Upto(w, n) \in Seq(Cells)
    BY <1>2 DEF Upto
  <2> QED
    BY <2>1, EventsOfTyped
<1>8. next \in Seq(Events) /\ got \in Seq(Events)
  BY <1>6, <1>7
<1>9. PICK p2, q2 : /\ Skips(u, From(d, n + 1), p2, q2)
                    /\ p2 # 0 <=> p > n
                    /\ p = 0 => p2 = 0
  BY <1>1, SkipsBehind
<1>10. channel = "3d" => Goes(u)
  BY <1>1, <1>2, GoesBehind
<1>11. Lost(got, next) + (IF p > n THEN 1 ELSE 0) <= Lost(r, h) + (IF p > 0 THEN 1 ELSE 0)
  <2>1. Lost(r \o EventsOf(Upto(w, n)), h \o EventsOf(Upto(d, n))) + (IF p > n THEN 1 ELSE 0)
           <= Lost(r, h) + (IF p > 0 THEN 1 ELSE 0)
    BY <1>1, <1>2, Tally
  <2> QED
    BY <1>4, <2>1
<1>12. p = 0 => next = h \o EventsOf(Upto(w, n))
  <2>1. p = 0 => d = w
    BY <1>1, SkipsAll
  <2> QED
    BY <1>4, <2>1
<1>13. channel = "3d" => ~Owes(b2, u)
  <2> SUFFICES ASSUME channel = "3d", Owes(b2, u) PROVE FALSE
    OBVIOUS
  <2>1. d[n].byte = "A"
    BY <1>5 DEF Owes
  <2>2. n < Len(w) /\ w[n + 1].byte = "("
    <3>1. w[n].byte = "A"
      BY <1>2, <2>1
    <3> QED
      BY <1>1, <1>2, <3>1 DEF Goes
  <2>3. Len(u) = Len(w) - n /\ u[1] = w[n + 1]
    <3>1. /\ Len(From(w, n + 1)) = Len(w) - n
          /\ \A i \in 1 .. Len(w) - n : From(w, n + 1)[i] = w[n + i]
      BY <1>2, BehindIs
    <3>2. 1 \in 1 .. Len(w) - n
      BY <1>2, <2>2
    <3> QED
      BY <3>1, <3>2
  <2>4. u # <<>>
    BY <1>2, <2>2, <2>3
  <2> QED
    BY <2>2, <2>3, <2>4 DEF Owes
<1> DEFINE lost == Lost(r, h)
           lost2 == Lost(got, next)
<1>14. lost \in Nat /\ lost2 \in Nat
  BY <1>8, MissingIs
<1> HIDE DEF u, got, next, said, lost, lost2
<1>15. lost2 + Due(channel, b2, u, p2) <= most
  <2>1. lost + Due(channel, b, w, p) <= most
    BY <1>1 DEF lost
  <2>2. lost2 + (IF p > n THEN 1 ELSE 0) <= lost + (IF p > 0 THEN 1 ELSE 0)
    BY <1>11 DEF lost, lost2
  <2>3. CASE channel = "2d"
    <3>1. p = 0 /\ Due(channel, b, w, p) = 0 /\ Due(channel, b2, u, p2) = 0
      BY <1>1, <2>3 DEF Due
    <3> QED
      BY <1>2, <1>14, <2>1, <2>2, <3>1
  <2>4. CASE channel = "3d"
    <3>1. Due(channel, b2, u, p2) = IF p > n THEN 1 ELSE 0
      BY <1>9, <1>13, <2>4 DEF Due
    <3>2. p > 0 => Due(channel, b, w, p) = 1
      BY <1>2, <2>4 DEF Due
    <3>3. Due(channel, b, w, p) \in 0 .. 1
      BY DueIs
    <3> QED
      BY <1>2, <1>14, <2>1, <2>2, <3>1, <3>2, <3>3
  <2> QED
    BY <2>3, <2>4
<1>16. ASSUME p = 0, h = r PROVE next = got
  BY <1>12, <1>16 DEF got
<1>17. ASSUME most = 0 PROVE next = got
  <2>1. Due(channel, b, w, p) = 0
    <3>1. lost + Due(channel, b, w, p) <= 0 /\ Due(channel, b, w, p) \in 0 .. 1
      BY <1>1, <1>17, DueIs DEF lost
    <3> QED
      BY <1>14, <3>1
  <2>2. p = 0
    BY <1>1, <2>1 DEF Due
  <2> QED
    BY <1>1, <1>16, <1>17, <2>2
<1>18. channel = "2d" => p2 = 0 /\ next = got
  BY <1>1, <1>9, <1>16
<1>19. Followed(channel, u, got, next, drained.rest, said, most)
  BY <1>5, <1>9, <1>10, <1>15, <1>17, <1>18 DEF Followed, lost2
<1> QED
  BY <1>6, <1>19 DEF u, got, next, said, drained

(* A connection behind a result that was cut off.                          *)
LEMMA StuckReceived ==
    ASSUME NEW w, NEW r \in Seq(Events), NEW h \in Seq(Events),
           NEW buf, NEW says, NEW most \in Nat, Stuck(channel, w, r, h, buf, says, most),
           NEW n \in 1 .. Len(w)
    PROVE  LET longer == buf \o Text(w, 1, n)
           IN /\ ~IsHeartbeat(Text(w, 1, n))
              /\ Drain(longer) = Undrained(longer)
              /\ Stuck(channel, From(w, n + 1), r \o EventsOf(Upto(w, n)), h, longer, says, most)
<1> DEFINE u == From(w, n + 1)
           piece == Text(w, 1, n)
           longer == buf \o piece
           got == r \o EventsOf(Upto(w, n))
           lost == Lost(r, h)
           lost2 == Lost(got, h)
           open == IF says = "ready" THEN 1 ELSE 0
<1>1. /\ channel = "2d" /\ says \in {"ready", "wait"} /\ most # 0
      /\ w \in Seq(Cells) /\ \A i \in 1 .. Len(w) : w[i] = ReadyCell
      /\ StuckBuffer(buf)
      /\ lost + Len(w) + open <= most
  BY DEF Stuck
<1>2. Len(w) \in Nat /\ n \in Nat /\ n <= Len(w) /\ n \in 0 .. Len(w)
  BY <1>1
<1>3. ReadyCell.byte = "READY"
  BY DEF ReadyCell
<1>4. piece \in Seq(STRING) /\ Len(piece) = n /\ \A i \in 1 .. n : piece[i] = w[i].byte
  BY <1>1, <1>2, TextUpto
<1>5. ~IsHeartbeat(piece)
  <2> SUFFICES ASSUME IsHeartbeat(Text(w, 1, n)) PROVE FALSE
    OBVIOUS
  <2>1. w[1].byte \in {"nl", "Z", "H"}
    BY <1>1, <1>2, HeartbeatPiece
  <2> QED
    BY <1>1, <1>2, <1>3, <2>1
<1> HIDE DEF piece
<1>6. StuckBuffer(longer)
  <2>1. \A i \in 1 .. Len(piece) : piece[i] = "READY"
    BY <1>1, <1>2, <1>3, <1>4
  <2> QED
    BY <1>1, <1>4, <2>1, StuckOn
<1> HIDE DEF longer
<1>7. Drain(longer) = Undrained(longer)
  <2>1. Pop(longer) = NoFrame(longer) /\ longer \in Seq(STRING)
    BY <1>1, <1>6, StuckPop DEF Pop, StuckBuffer
  <2> QED
    BY <2>1, DrainNothing
<1>8. u \in Seq(Cells) /\ Len(u) = Len(w) - n /\ \A i \in 1 .. Len(w) - n : u[i] = w[n + i]
  BY <1>1, <1>2, BehindIs
<1>9. \A i \in 1 .. Len(u) : u[i] = ReadyCell
  BY <1>1, <1>2, <1>8
<1>10. lost \in Nat /\ lost2 \in Nat /\ lost2 <= lost + n
  <2>1. Upto(w, n) \in Seq(Cells)
    BY <1>1, <1>2 DEF Upto
  <2>2. got \in Seq(Events)
    BY <2>1, EventsOfTyped
  <2> HIDE DEF got
  <2>3. lost \in Nat /\ lost2 \in Nat
    BY <2>2, MissingIs
  <2>4. lost2 <= lost + n
    BY <1>1, <1>2, TallyAll DEF got
  <2> QED
    BY <2>3, <2>4
<1>11. open \in 0 .. 1
  OBVIOUS
<1> HIDE DEF u, got, lost, lost2, open
<1>12. lost2 + Len(u) + open <= most
  BY <1>1, <1>2, <1>8, <1>10, <1>11
<1>13. Stuck(channel, u, got, h, longer, says, most)
  BY <1>1, <1>6, <1>8, <1>9, <1>12 DEF Stuck, lost2, open
<1> QED
  BY <1>5, <1>7, <1>13 DEF u, piece, longer, got

LEMMA ReceivePieceKeeps ==
    ASSUME FramesInv, NEW n \in 1 .. Len(wire), ReceivePiece(n)
    PROVE  FramesInv'
<1> DEFINE piece == [i \in 1 .. n |-> wire[i].byte]
           drained == Drain(recv_buffer \o piece)
           r == received \o EventsOf(Upto(wire, n))
<1>1. /\ channel' = channel /\ reconnects' = reconnects /\ wire' = From(wire, n + 1)
      /\ received' = r
      /\ IF IsHeartbeat(piece) THEN recv_buffer' = recv_buffer /\ handed' = handed
         ELSE recv_buffer' = drained.rest /\ handed' = handed \o drained.events
      /\ turn' = (IF handed' # handed /\ Last(handed') = Ready THEN "result" ELSE turn)
  BY DEF ReceivePiece
<1>2. /\ received \in Seq(Events) /\ handed \in Seq(Events) /\ channel \in {"2d", "3d"}
      /\ reconnects \in Nat /\ wire \in Seq(Cells)
  BY DEF FramesInv, Followed, Stuck, Skips
<1>3. piece = Text(wire, 1, n)
  <2>1. n - 1 + 1 = n /\ \A i \in 1 .. n : 1 + i - 1 = i
    BY <1>2
  <2> QED
    BY <2>1 DEF Text
<1>4. r \in Seq(Events)
  <2>1. Upto(wire, n) \in Seq(Cells)
    BY <1>2 DEF Upto
  <2>2. EventsOf(Upto(wire, n)) \in Seq(Events)
    BY <2>1, EventsOfTyped
  <2> QED
    BY <1>2, <2>2
<1>5. received \o <<>> = received /\ handed \o <<>> = handed
  BY <1>2
<1> HIDE DEF piece
<1>6. CASE Followed(channel, wire, received, handed, recv_buffer, turn, reconnects)
  <2>1. CASE IsHeartbeat(piece)
    <3>1. /\ EventsOf(Upto(wire, n)) = <<>>
          /\ Followed(channel, From(wire, n + 1), received, handed, recv_buffer, turn, reconnects)
      BY <1>2, <1>3, <1>6, <2>1, FollowedDropped
    <3>2. recv_buffer' = recv_buffer /\ handed' = handed /\ turn' = turn /\ received' = received
      BY <1>1, <1>5, <2>1, <3>1
    <3> QED
      BY <1>1, <1>2, <3>1, <3>2 DEF FramesInv
  <2>2. CASE ~IsHeartbeat(piece)
    <3> DEFINE next == handed \o drained.events
               said == IF next # handed /\ Last(next) = Ready THEN "result" ELSE turn
    <3>1. /\ drained.events \in Seq(Events)
          /\ Followed(channel, From(wire, n + 1), r, next, drained.rest, said, reconnects)
      BY <1>2, <1>3, <1>6, FollowedDrained
    <3> HIDE DEF drained, r
    <3>2. recv_buffer' = drained.rest /\ handed' = next /\ turn' = said
      BY <1>1, <2>2
    <3>3. next \in Seq(Events)
      BY <1>2, <3>1
    <3> HIDE DEF next, said
    <3> QED
      BY <1>1, <1>2, <1>4, <3>1, <3>2, <3>3 DEF FramesInv
  <2> QED
    BY <2>1, <2>2
<1>7. CASE Stuck(channel, wire, received, handed, recv_buffer, turn, reconnects)
  <2> DEFINE longer == recv_buffer \o piece
  <2>1. /\ ~IsHeartbeat(piece) /\ drained = Undrained(longer)
        /\ Stuck(channel, From(wire, n + 1), r, handed, longer, turn, reconnects)
    BY <1>2, <1>3, <1>7, StuckReceived
  <2> HIDE DEF longer, drained, r
  <2>2. drained.events = <<>> /\ drained.rest = longer
    BY <2>1 DEF Undrained
  <2>3. recv_buffer' = longer /\ handed' = handed /\ turn' = turn
    BY <1>1, <1>5, <2>1, <2>2
  <2> QED
    BY <1>1, <1>2, <1>4, <2>1, <2>3 DEF FramesInv
<1> QED
  BY <1>6, <1>7 DEF FramesInv

(* A connection is lost: the message that was cut off is left in the       *)
(* buffer, and one more may be lost.                                       *)
LEMMA CutOff ==
    ASSUME NEW chan \in {"2d", "3d"}, NEW w, NEW r \in Seq(Events), NEW h \in Seq(Events),
           NEW buf, NEW says, NEW n \in Nat,
           \/ Followed(chan, w, r, h, buf, says, n)
           \/ Stuck(chan, w, r, h, buf, says, n)
    PROVE  \/ Followed(chan, <<>>, r, h, buf, "ready", n + 1)
           \/ Stuck(chan, <<>>, r, h, buf, "ready", n + 1)
<1> DEFINE lost == Lost(r, h)
           none == <<>>
<1>1. lost \in Nat
  BY MissingIs
<1>2. none \in Seq(Cells) /\ Len(none) = 0
  OBVIOUS
<1>3. Skips(none, none, 0, 0) /\ Goes(none)
  <2>1. Skips(none, none, 0, 0)
    BY <1>2, SkipsNothing
  <2>2. Goes(none)
    BY <1>2 DEF Goes
  <2> QED
    BY <2>1, <2>2
<1>4. \A i \in 1 .. Len(none) : none[i] = ReadyCell
  BY <1>2
<1>5. n + 1 \in Nat \ {0}
  OBVIOUS
<1> HIDE DEF lost, none
<1>6. CASE Stuck(chan, w, r, h, buf, says, n)
  <2>1. /\ chan = "2d" /\ StuckBuffer(buf) /\ w \in Seq(Cells)
        /\ lost + Len(w) + (IF says = "ready" THEN 1 ELSE 0) <= n
    BY <1>6 DEF Stuck, lost
  <2>2. Len(w) \in Nat
    BY <2>1
  <2>3. lost + Len(none) + (IF "ready" = "ready" THEN 1 ELSE 0) <= n + 1
    BY <1>1, <1>2, <2>1, <2>2
  <2>4. Stuck(chan, none, r, h, buf, "ready", n + 1)
    BY <1>2, <1>4, <1>5, <2>1, <2>3 DEF Stuck, lost
  <2> QED
    BY <2>4 DEF none
<1>7. CASE Followed(chan, w, r, h, buf, says, n)
  <2>1. PICK b, d, p, q :
          /\ Buffers(b, chan, d, buf, says)
          /\ Skips(w, d, p, q)
          /\ lost + Due(chan, b, w, p) <= n
          /\ chan = "2d" => p = 0 /\ h = r
    BY <1>7 DEF Followed, lost
  <2>2. /\ b \in Seq(Cells) /\ buf = Text(b, 1, Len(b)) /\ NoEvents(b, 1, Len(b))
        /\ StreamOf(chan, b \o d) /\ d \in Seq(Cells)
    BY <2>1 DEF Buffers, Skips
  <2>3. lost + Due(chan, b, none, 0) <= n + 1
    <3>1. Due(chan, b, none, 0) \in 0 .. 1 /\ Due(chan, b, w, p) \in 0 .. 1
      BY DueIs
    <3> QED
      BY <1>1, <2>1, <3>1
  <2>4. b \o none = b
    BY <2>2 DEF none
  <2>5. CASE chan = "3d"
    <3>1. Stream3d(b)
      BY <2>2, <2>5, Prefix3d DEF StreamOf
    <3>2. Buffers(b, chan, none, buf, "ready")
      BY <2>2, <2>4, <2>5, <3>1 DEF Buffers, StreamOf
    <3>3. Followed(chan, none, r, h, buf, "ready", n + 1)
      BY <1>3, <1>5, <2>3, <2>5, <3>2 DEF Followed, lost
    <3> QED
      BY <3>3 DEF none
  <2>6. CASE chan = "2d" /\ b = none
    <3>1. Stream2d(none) /\ ~HoldsReady(none)
      BY <1>2 DEF Stream2d, HoldsReady
    <3>2. Buffers(b, chan, none, buf, "ready")
      BY <2>2, <2>4, <2>6, <3>1 DEF Buffers, StreamOf
    <3>3. Followed(chan, none, r, h, buf, "ready", n + 1)
      BY <1>3, <2>1, <2>3, <2>6, <3>2 DEF Followed, lost
    <3> QED
      BY <3>3 DEF none
  <2>7. CASE chan = "2d" /\ b # none
    <3>1. StuckBuffer(buf)
      BY <2>2, <2>7, CutOff2d DEF StreamOf, none
    <3>2. lost = 0
      BY <2>1, <2>7, NoneLost DEF lost
    <3>3. lost + Len(none) + (IF "ready" = "ready" THEN 1 ELSE 0) <= n + 1
      BY <1>2, <3>2
    <3>4. Stuck(chan, none, r, h, buf, "ready", n + 1)
      BY <1>2, <1>4, <1>5, <2>7, <3>1, <3>3 DEF Stuck, lost
    <3> QED
      BY <3>4 DEF none
  <2> QED
    BY <2>5, <2>6, <2>7
<1> QED
  BY <1>6, <1>7

LEMMA FramesNextInv == FramesInv /\ [FramesNext]_frameVars => FramesInv'
<1> SUFFICES ASSUME FramesInv, [FramesNext]_frameVars PROVE FramesInv'
  OBVIOUS
<1>1. CASE \E m \in Messages : MessageSent(m)
  BY <1>1, MessageSentKeeps
<1>2. CASE \E n \in 1 .. Len(wire) : ReceivePiece(n)
  BY <1>2, ReceivePieceKeeps
<1>3. CASE Reconnects
  <2>1. /\ channel' = channel /\ reconnects' = reconnects + 1 /\ wire' = <<>> /\ turn' = "ready"
        /\ received' = received /\ handed' = handed /\ recv_buffer' = recv_buffer
    BY <1>3 DEF Reconnects
  <2>2. /\ received \in Seq(Events) /\ handed \in Seq(Events) /\ channel \in {"2d", "3d"}
        /\ reconnects \in Nat
    BY DEF FramesInv
  <2>3. \/ Followed(channel, wire, received, handed, recv_buffer, turn, reconnects)
        \/ Stuck(channel, wire, received, handed, recv_buffer, turn, reconnects)
    BY DEF FramesInv
  <2>4. \/ Followed(channel, <<>>, received, handed, recv_buffer, "ready", reconnects + 1)
        \/ Stuck(channel, <<>>, received, handed, recv_buffer, "ready", reconnects + 1)
    BY <2>2, <2>3, CutOff
  <2> QED
    BY <2>1, <2>2, <2>4 DEF FramesInv
<1>4. CASE UNCHANGED frameVars
  <2>1. /\ channel' = channel /\ reconnects' = reconnects /\ wire' = wire /\ received' = received
        /\ handed' = handed /\ recv_buffer' = recv_buffer /\ turn' = turn
    BY <1>4 DEF frameVars
  <2> QED
    BY <2>1 DEF FramesInv
<1> QED
  BY <1>1, <1>2, <1>3, <1>4 DEF FramesNext

(* What is in the buffer and on the way is whole messages, the first of    *)
(* them perhaps begun, or one message that was cut off and will be lost    *)
(* with what is behind it: for any messages of the shapes that the cameras *)
(* send, any pieces TCP makes of them and any losses of the connection.    *)
THEOREM BufferInStep == FramesSpec => []FramesInv
<1>1. FramesInit => FramesInv
  BY FramesInitInv
<1>2. FramesInv /\ [FramesNext]_frameVars => FramesInv'
  BY FramesNextInv
<1> QED
  BY <1>1, <1>2, PTL DEF FramesSpec

(* However the bytes are cut into pieces: while the connection holds, what *)
(* is handed over is what was received.                                    *)
THEOREM PiecesHarmless == FramesSpec => []PiecesDoNotMatter
<1>1. FramesInv => PiecesDoNotMatter
  BY FramesInvMeans
<1> QED
  BY <1>1, BufferInStep, PTL

(* Each connection that is lost costs at most one of the messages that are *)
(* received in full: the one that comes behind the half in the buffer on   *)
(* the 3D channel, the READY of the next connection on the 2D channel.     *)
THEOREM OneLost == FramesSpec => []OneLostPerReconnect
<1>1. FramesInv => OneLostPerReconnect
  BY FramesInvCounts
<1> QED
  BY <1>1, BufferInStep, PTL
=============================================================================
