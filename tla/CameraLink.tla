------------------------------ MODULE CameraLink ------------------------------
(***************************************************************************)
(* The TCP link to one camera: a channel of DualCameraServer in            *)
(* core/camera_server.py.  The 2D and the 3D channel are alike and share   *)
(* only the lock.                                                          *)
(*                                                                         *)
(* An accept thread takes the camera's connections, the last one wins; a   *)
(* receiver thread hands what it reads to the enqueue workflow; the PLC's  *)
(* thread and the workflow's other threads send.  The state of the client  *)
(* changes only under the lock, in one step; closing a socket, and         *)
(* starting the receiver, happen after the lock was released.  connected   *)
(* and client_socket always change together and are one variable.          *)
(***************************************************************************)
EXTENDS TcpLink

CONSTANTS
    Threads,        \* bound: receiver threads alive at a time
    Senders,        \* the threads that call send_to_camera
    MayStop         \* whether stop() is called

ASSUME CameraAssumption ==
    /\ Threads \subseteq Nat \ {0} /\ Threads # {}
    /\ Batches \subseteq {"frame", "heartbeat"}
    /\ MayStop \in BOOLEAN

NoThread == 0      \* no entry in _recv_threads

VARIABLES
    client,        \* client_socket of the channel's state
    accepter,      \* the accept thread: the socket it took, the one it replaced
    threads,       \* receiver threads
    current,       \* _recv_threads[key]
    senders,       \* threads inside send_to_camera
    stopper        \* how far stop() has come

camVars == <<client, accepter, threads, current, senders, stopper, conns>>

running == stopper.at = "idle"

Idle == [at |-> "idle", holds |-> NoSock]

Held(c) == \/ c \in {client, accepter.holds, accepter.old, stopper.holds}
           \/ \E t \in Threads : threads[t].holds = c
           \/ \E s \in Senders : senders[s].holds = c

OursOpen(c) == c \in Conns /\ conns[c].ours = "open" /\ Held(c)
Free(c) == ~Held(c) /\ conns[c].ours # "backlog" /\ conns[c].peer \in {"none", "closed"}

AliveThreads == {t \in Threads : threads[t].at # "dead"}

CamInit ==
    /\ client = NoSock
    /\ accepter = [at |-> "accept", holds |-> NoSock, old |-> NoSock]
    /\ threads = [t \in Threads |-> [at |-> "dead", holds |-> NoSock]]
    /\ current = NoThread
    /\ senders = [s \in Senders |-> Idle]
    /\ stopper = Idle
    /\ TcpInit

-----------------------------------------------------------------------------
(* _mark_disconnected: under the lock the client is cleared, whichever     *)
(* socket it is by then; the socket is closed afterwards.                  *)

(* A plausible bug: only the connected flag is cleared.                    *)
DetachedKept == client

Detached == NoSock

-----------------------------------------------------------------------------
(* _accept_loop.  The socket accepted before is let go with the next one.  *)

AccepterBecomes(p, r) ==
    /\ accepter.at = p /\ accepter' = r
    /\ UNCHANGED <<senders, stopper>>

CameraAccept(c) ==
    /\ conns[c].ours = "backlog"
    /\ AccepterBecomes("accept", [at |-> "attach", holds |-> c, old |-> NoSock])
    /\ conns' = [conns EXCEPT ![c].ours = "open"]
    /\ UNCHANGED <<client, threads, current>>

AcceptEnds ==
    /\ ~running
    /\ AccepterBecomes("accept", [at |-> "ended", holds |-> NoSock, old |-> NoSock])
    /\ UNCHANGED <<client, threads, current, conns>>

AttachClient ==
    /\ AccepterBecomes("attach", [accepter EXCEPT !.at = "close_old", !.old = client])
    /\ client' = accepter.holds
    /\ UNCHANGED <<threads, current, conns>>

CloseReplaced ==
    /\ AccepterBecomes("close_old", [accepter EXCEPT !.at = "start", !.old = NoSock])
    /\ conns' = Close(accepter.old)
    /\ UNCHANGED <<client, threads, current>>

(* Plausible bugs: the old thread is not looked at, or a dead one counts.  *)
NeedsReceiverAlways == TRUE
NeedsReceiverOnce == current = NoThread

NeedsReceiver == current = NoThread \/ threads[current].at = "dead"

StartRecvThread ==
    /\ AccepterBecomes("start", [accepter EXCEPT !.at = "accept"])
    /\ IF NeedsReceiver
       THEN \E t \in Threads \ AliveThreads :
              /\ \A u \in Threads \ AliveThreads : t <= u
              /\ threads' = [threads EXCEPT ![t].at = "check"]
              /\ current' = t
       ELSE UNCHANGED <<threads, current>>
    /\ UNCHANGED <<client, conns>>

-----------------------------------------------------------------------------
(* _recv_loop.                                                             *)

ReceiverBecomes(t, p, q, c) ==
    /\ threads[t].at = p /\ threads' = [threads EXCEPT ![t] = [at |-> q, holds |-> c]]
    /\ UNCHANGED <<accepter, current, senders, stopper>>

(* A plausible bug: the client is not looked at before the recv.           *)
ReadsOnWhileRunning == running

ReadsOn == running /\ client # NoSock

SnapshotClient(t) ==
    /\ IF ReadsOn THEN ReceiverBecomes(t, "check", "recv", client)
       ELSE ReceiverBecomes(t, "check", "leave", NoSock)
    /\ UNCHANGED <<client, conns>>

(* A heartbeat is dropped, a frame goes to the callback.                   *)
ReceiveData(t) ==
    LET c == threads[t].holds IN
    /\ threads[t].at = "recv" /\ conns[c].ours = "open" /\ conns[c].unread # <<>>
    /\ IF Head(conns[c].unread) = "frame"
       THEN ReceiverBecomes(t, "recv", "callback", c)
       ELSE ReceiverBecomes(t, "recv", "check", c)
    /\ conns' = TakeBatch(c)
    /\ UNCHANGED client

(* The callback returns, or raises, which is taken for a lost connection.  *)
CallbackDone(t) ==
    /\ \E next \in {"check", "detach"} :
         ReceiverBecomes(t, "callback", next, threads[t].holds)
    /\ UNCHANGED <<client, conns>>

ReceiveFails(t) ==
    LET c == threads[t].holds IN
    /\ threads[t].at = "recv"
    /\ conns[c].ours = "closed" \/ (conns[c].unread = <<>> /\ conns[c].peer = "closed")
    /\ ReceiverBecomes(t, "recv", "detach", c)
    /\ UNCHANGED <<client, conns>>

ReceiverDetaches(t) ==
    /\ ReceiverBecomes(t, "detach", "close", client)
    /\ client' = Detached
    /\ UNCHANGED conns

ReceiverCloses(t) ==
    /\ conns' = Close(threads[t].holds)
    /\ ReceiverBecomes(t, "close", "leave", NoSock)
    /\ UNCHANGED <<client>>

(* The thread is alive until it has left the loop.                         *)
ReceiverLeaves(t) ==
    ReceiverBecomes(t, "leave", "dead", NoSock) /\ UNCHANGED <<client, conns>>

-----------------------------------------------------------------------------
(* send_to_camera.                                                         *)

SenderBecomes(s, p, q, c) ==
    /\ senders[s].at = p /\ senders' = [senders EXCEPT ![s] = [at |-> q, holds |-> c]]
    /\ UNCHANGED <<accepter, threads, current, stopper>>

SendSnapshot(s) ==
    /\ client # NoSock
    /\ SenderBecomes(s, "idle", "send", client)
    /\ UNCHANGED <<client, conns>>

SendDelivered(s) ==
    /\ senders[s].at = "send" /\ conns[senders[s].holds].ours = "open"
    /\ SenderBecomes(s, "send", "idle", NoSock)
    /\ UNCHANGED <<client, conns>>

SendFails(s) ==
    LET c == senders[s].holds IN
    /\ senders[s].at = "send" /\ (conns[c].ours = "closed" \/ conns[c].peer # "open")
    /\ SenderBecomes(s, "send", "detach", NoSock)
    /\ UNCHANGED <<client, conns>>

SenderDetaches(s) ==
    /\ SenderBecomes(s, "detach", "close", client)
    /\ client' = Detached
    /\ UNCHANGED conns

SenderCloses(s) ==
    /\ conns' = Close(senders[s].holds)
    /\ SenderBecomes(s, "close", "idle", NoSock)
    /\ UNCHANGED client

-----------------------------------------------------------------------------
(* stop, on the main thread.                                               *)

StopperBecomes(p, q, c) ==
    /\ stopper.at = p /\ stopper' = [at |-> q, holds |-> c]
    /\ UNCHANGED <<accepter, threads, current, senders>>

StopBegins == MayStop /\ StopperBecomes("idle", "detach", NoSock) /\ UNCHANGED <<client, conns>>

StopDetaches ==
    StopperBecomes("detach", "close", client) /\ client' = Detached /\ UNCHANGED conns

StopCloses ==
    conns' = Close(stopper.holds) /\ StopperBecomes("close", "listener", NoSock)
    /\ UNCHANGED client

StopListener ==
    conns' = CloseListener /\ StopperBecomes("listener", "stopped", NoSock)
    /\ UNCHANGED client

-----------------------------------------------------------------------------
(* The camera.  It connects when it has no connection, and may do so while *)
(* we still hold the one it had before a restart; it gives up one that we  *)
(* closed.                                                                 *)

server == <<client, accepter, threads, current, senders, stopper>>

CameraConnects(c) ==
    /\ stopper.at # "stopped" /\ Free(c)
    /\ \A d \in Conns : conns[d].peer # "open"
    /\ PeerConnects(c)
    /\ UNCHANGED server

Abandoned(c) == conns[c].ours # "backlog" /\ ~OursOpen(c)

CameraGivesUp(c) == Abandoned(c) /\ PeerCloses(c) /\ UNCHANGED server

CameraLossNoticed(c) == LossNoticed(c) /\ UNCHANGED server

(* The camera ends the connection, or restarts, of its own.                *)
CameraLeaves ==
    /\ \E c \in Conns : (~Abandoned(c) /\ PeerCloses(c)) \/ PeerVanishes(c)
    /\ UNCHANGED server

CameraSends(c) == (\E b \in Batches : PeerSends(c, b)) /\ UNCHANGED server

-----------------------------------------------------------------------------
AccepterStep == \/ \E c \in Conns : CameraAccept(c)
                \/ AcceptEnds \/ AttachClient \/ CloseReplaced \/ StartRecvThread

ReceiverStep(t) ==
    \/ SnapshotClient(t) \/ ReceiveData(t) \/ CallbackDone(t) \/ ReceiveFails(t)
    \/ ReceiverDetaches(t) \/ ReceiverCloses(t) \/ ReceiverLeaves(t)

SendEnds(s) == SendDelivered(s) \/ SendFails(s) \/ SenderDetaches(s) \/ SenderCloses(s)

CameraNext ==
    \/ AccepterStep
    \/ \E t \in Threads : ReceiverStep(t)
    \/ \E s \in Senders : SendSnapshot(s) \/ SendEnds(s)
    \/ StopBegins \/ StopDetaches \/ StopCloses \/ StopListener
    \/ \E c \in Conns : CameraConnects(c) \/ CameraGivesUp(c) \/ CameraLossNoticed(c)
                         \/ CameraSends(c)
    \/ CameraLeaves

CameraSpec == CamInit /\ [][CameraNext]_camVars

(* Every thread is scheduled; a camera without a connection connects, goes *)
(* on sending heartbeats, and drops a connection that we closed.           *)
CameraFairSpec ==
    /\ CameraSpec
    /\ WF_camVars(AccepterStep)
    /\ \A t \in Threads : WF_camVars(ReceiverStep(t))
    /\ \A s \in Senders : WF_camVars(SendEnds(s))
    /\ \A c \in Conns : WF_camVars(CameraGivesUp(c)) /\ WF_camVars(CameraLossNoticed(c))
                        /\ WF_camVars(CameraSends(c))
    /\ WF_camVars(\E c \in Conns : CameraConnects(c))

-----------------------------------------------------------------------------
CameraTypeOK ==
    /\ client \in Conns \cup {NoSock}
    /\ accepter \in [at : {"accept", "attach", "close_old", "start", "ended"},
                     holds : Conns \cup {NoSock}, old : Conns \cup {NoSock}]
    /\ threads \in [Threads -> [at : {"dead", "check", "recv", "callback", "detach",
                                      "close", "leave"}, holds : Conns \cup {NoSock}]]
    /\ current \in Threads \cup {NoThread}
    /\ senders \in [Senders -> [at : {"idle", "send", "detach", "close"},
                                holds : Conns \cup {NoSock}]]
    /\ stopper \in [at : {"idle", "detach", "close", "listener", "stopped"},
                    holds : Conns \cup {NoSock}]
    /\ conns \in [Conns -> ConnType]
    /\ \A t \in Threads : threads[t].at \in {"recv", "callback"} => threads[t].holds \in Conns
    /\ \A s \in Senders : senders[s].at = "send" => senders[s].holds \in Conns

(* One receiver thread at a time works on a channel, so the workflow's     *)
(* buffers of half received frames need no lock.                           *)
OneReceiver == \A t, u \in AliveThreads : t = u

(* The socket that the lock shows to send_to_camera and get_status as the  *)
(* connected client was never closed by us: every close comes after the    *)
(* detach, whoever of the accept thread, the receiver, a sender and stop() *)
(* does it.                                                                *)
ConnectedIsOpen == client # NoSock => conns[client].ours = "open"

Served == \E t \in Threads : /\ threads[t].at = "recv" /\ threads[t].holds = client
                             /\ OursOpen(client) /\ conns[client].peer = "open"

(* The accept thread is about to ask whether the old receiver is alive,    *)
(* and it is, but has let its client go and will not read again.           *)
OldOneLeaves ==
    /\ accepter.at = "start" /\ current # NoThread
    /\ threads[current].at \in {"close", "leave"}

(* A camera that was lost is read from again, unless it keeps leaving of   *)
(* its own or the server stops.  It takes that no reconnect ever met the   *)
(* old receiver on its way out: then nobody reads the new connection, and  *)
(* when the camera leaves it, get_status goes on to say connected.         *)
CameraServedAgain ==
    \/ []<>(Served \/ ~running)
    \/ []<><<CameraLeaves>>_camVars
    \/ <>OldOneLeaves
=============================================================================
