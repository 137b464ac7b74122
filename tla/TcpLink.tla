------------------------------- MODULE TcpLink -------------------------------
(***************************************************************************)
(* TCP connections between the software and a device, as the socket code   *)
(* of core/arm_controller.py, core/camera_server.py and                    *)
(* core/plc_handler.py uses them.  What the socket library and the devices *)
(* do is modelled from that use.                                           *)
(*                                                                         *)
(* A connection is identified by a number that is used again when both     *)
(* ends are gone.  It delivers in order what the device wrote, one batch   *)
(* for a recv; it may be closed by the device, or the device may vanish    *)
(* and be missed only later (SO_KEEPALIVE).  Closing our end wakes a       *)
(* thread that is blocked in recv with an error: this is what Windows      *)
(* does, the platform of config/settings.py.                               *)
(***************************************************************************)
EXTENDS Integers, Sequences, FiniteSets

CONSTANTS
    Conns,          \* bound: connections alive at a time, on either side
    Batches,        \* what one recv may return
    MaxBatches      \* bound: unread batches on a connection

ASSUME TcpAssumption ==
    /\ Conns \subseteq Nat \ {0} /\ IsFiniteSet(Conns)
    /\ MaxBatches \in Nat \ {0}

VARIABLE conns      \* the two ends of each connection

NoSock == 0         \* Python's None
NoConn == [ours |-> "none", peer |-> "none", unread |-> <<>>, nonblocking |-> FALSE]

ConnType == [ours : {"none", "backlog", "open", "closed"},
             peer : {"none", "open", "lost", "closed"},
             unread : Seq(Batches), nonblocking : BOOLEAN]

TcpInit == conns = [c \in Conns |-> NoConn]

(* A recv on c would not block.                                            *)
Readable(c) == conns[c].unread # <<>> \/ conns[c].peer = "closed"

(* conns after close() on c, which may be None.                            *)
Close(c) == IF c = NoSock THEN conns ELSE [conns EXCEPT ![c].ours = "closed"]

(* conns after a recv on c has returned a batch.                           *)
TakeBatch(c) == [conns EXCEPT ![c].unread = Tail(@)]

(* conns after the listening socket was closed, and its backlog with it.   *)
CloseListener == [c \in Conns |-> IF conns[c].ours = "backlog"
                                  THEN [conns[c] EXCEPT !.ours = "closed"] ELSE conns[c]]

-----------------------------------------------------------------------------
(* The device.                                                             *)

PeerConnects(c) ==
    conns' = [conns EXCEPT ![c] = [NoConn EXCEPT !.ours = "backlog", !.peer = "open"]]

PeerSends(c, batch) ==
    /\ conns[c].peer = "open" /\ Len(conns[c].unread) < MaxBatches
    /\ conns' = [conns EXCEPT ![c].unread = Append(@, batch)]

PeerCloses(c) ==
    /\ conns[c].peer = "open"
    /\ conns' = [conns EXCEPT ![c].peer = "closed"]

PeerVanishes(c) ==
    /\ conns[c].peer = "open"
    /\ conns' = [conns EXCEPT ![c].peer = "lost"]

LossNoticed(c) ==
    /\ conns[c].peer = "lost"
    /\ conns' = [conns EXCEPT ![c].peer = "closed"]
=============================================================================
