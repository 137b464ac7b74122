----------------------------- MODULE DequeuePort -----------------------------
(***************************************************************************)
(* The PLC's dequeue port in front of the queue manager: the dequeue side  *)
(* of DualPortPLCHandler in core/plc_handler.py, wired to                  *)
(* handle_dequeue_pointers as main.py does.                                *)
(*                                                                         *)
(* A connection is kept in a dictionary under the PLC's address; a thread  *)
(* of its own reads its frames, drops those that change no pointer, and    *)
(* calls the queue manager, which compares the pointers once more with its *)
(* own record of them.  A PLC may come back from the same local port, so   *)
(* an entry can be replaced under the thread of the old connection.        *)
(*                                                                         *)
(* Frames arrive whole (_recv_exact).  The enqueue port has the same       *)
(* connection handling and no filter.  The history for the display is left *)
(* out.                                                                    *)
(***************************************************************************)
EXTENDS QueueManager, TcpLink

CONSTANTS
    Ports           \* local ports the PLC connects from

ASSUME PortAssumption == Batches \subseteq [Arms -> Pointers \cup {0}]

VARIABLES
    connections,    \* self.connections, by the PLC's port: the connection
    readers,        \* the thread of each accepted connection
    plc_last,       \* the handler's last_dequeue_pointers, 0 by default
    arrived,        \* the pointers of the last frame a thread has read
    overlapped      \* whether a frame was ever read while another was handled

portVars == <<conns, connections, readers, plc_last, arrived, overlapped>>
portAll == <<vars, portVars>>

(* A reader works on reads, the connection it looked up under its port.    *)
NoReader == [at |-> "none", port |-> 0, reads |-> NoSock, frame |-> [a \in Arms |-> 0]]

PortInit ==
    /\ Init
    /\ TcpInit
    /\ connections = [port \in Ports |-> NoSock]
    /\ readers = [c \in Conns |-> NoReader]
    /\ plc_last = [a \in Arms |-> 0]
    /\ arrived = [a \in Arms |-> 0]
    /\ overlapped = FALSE

Handling(c) == readers[c].at \in {"parse", "deliver"}

(* A connection's number is used again when nothing refers to it.          *)
Forgotten(c) ==
    /\ readers[c].at = "none"
    /\ conns[c].ours # "backlog" /\ conns[c].peer \in {"none", "closed"}
    /\ \A port \in Ports : connections[port] # c
    /\ \A d \in Conns : readers[d].reads # c

-----------------------------------------------------------------------------
(* The PLC.  It has one connection at a time that it uses, may leave one   *)
(* half open when it restarts, and gives up one that was closed.           *)

PlcConnects(c) ==
    /\ Forgotten(c)
    /\ \A d \in Conns : conns[d].peer # "open"
    /\ PeerConnects(c)
    /\ UNCHANGED <<vars, connections, readers, plc_last, arrived, overlapped>>

PlcGivesUp(c) ==
    /\ conns[c].ours = "closed"
    /\ PeerCloses(c)
    /\ UNCHANGED <<vars, connections, readers, plc_last, arrived, overlapped>>

PlcLossNoticed(c) ==
    LossNoticed(c) /\ UNCHANGED <<vars, connections, readers, plc_last, arrived, overlapped>>

(* The PLC ends the connection, or restarts, of its own.                   *)
PlcLeaves ==
    /\ \E c \in Conns : (conns[c].ours # "closed" /\ PeerCloses(c)) \/ PeerVanishes(c)
    /\ UNCHANGED <<vars, connections, readers, plc_last, arrived, overlapped>>

PlcSends ==
    /\ \E c \in Conns, f \in Batches : PeerSends(c, f)
    /\ UNCHANGED <<vars, connections, readers, plc_last, arrived, overlapped>>

PlcStep ==
    \/ PlcLeaves \/ PlcSends
    \/ \E c \in Conns : PlcConnects(c) \/ PlcGivesUp(c) \/ PlcLossNoticed(c)

-----------------------------------------------------------------------------
(* _dequeue_accept_loop: the connection is entered and its thread started. *)

(* A plausible bug: no thread is started while another one is alive.       *)
ThreadIfNoneRuns(port) == \A d \in Conns : readers[d].at = "none"

StartsThread(port) == TRUE

(* The PLC gets a port again when our end of the old connection knows that *)
(* it is over.                                                             *)
PortAccept(c, port) ==
    /\ conns[c].ours = "backlog"
    /\ \A d \in Conns : readers[d].port = port => conns[d].peer = "closed"
    /\ conns' = [conns EXCEPT ![c].ours = "open"]
    /\ connections' = [connections EXCEPT ![port] = c]
    /\ readers' = IF StartsThread(port)
                  THEN [readers EXCEPT ![c] = [NoReader EXCEPT !.at = "lookup", !.port = port]]
                  ELSE readers
    /\ UNCHANGED <<vars, plc_last, arrived, overlapped>>

-----------------------------------------------------------------------------
(* _handle_dequeue_connection, on the thread started for connection c.     *)

(* A plausible bug: the thread takes its connection to be there.           *)
ReaderOfEntryUnchecked(r) == [r EXCEPT !.at = "recv", !.reads = connections[r.port]]

(* _get_connection: what the port's entry is by now; without one the       *)
(* thread ends.                                                            *)
ReaderOfEntry(r) ==
    IF connections[r.port] = NoSock THEN NoReader
    ELSE [r EXCEPT !.at = "recv", !.reads = connections[r.port]]

LookUp(c) ==
    /\ readers[c].at = "lookup"
    /\ readers' = [readers EXCEPT ![c] = ReaderOfEntry(@)]
    /\ UNCHANGED <<vars, conns, connections, plc_last, arrived, overlapped>>

ReceiveFrame(c) ==
    LET s == readers[c].reads IN
    /\ readers[c].at = "recv"
    /\ conns[s].ours = "open" /\ conns[s].unread # <<>>
    /\ overlapped' = (overlapped \/ \E d \in Conns : Handling(d))
    /\ conns' = TakeBatch(s)
    /\ arrived' = Head(conns[s].unread)
    /\ readers' = [readers EXCEPT ![c].at = "parse", ![c].frame = Head(conns[s].unread)]
    /\ UNCHANGED <<vars, connections, plc_last>>

(* EOF, an error, or the connection was marked as closed.                  *)
ReceiveEnds(c) ==
    LET s == readers[c].reads IN
    /\ readers[c].at = "recv"
    /\ conns[s].ours = "closed" \/ (conns[s].unread = <<>> /\ conns[s].peer = "closed")
    /\ readers' = [readers EXCEPT ![c].at = "close"]
    /\ UNCHANGED <<vars, conns, connections, plc_last, arrived, overlapped>>

(* A plausible bug: the pointers are taken to grow, and never to wrap.     *)
GrownArms(f) == {a \in Arms : f[a] > plc_last[a]}

(* _parse_and_detect_dequeue_changes.                                      *)
ChangedArms(f) == {a \in Arms : f[a] # plc_last[a]}

DetectChanges(c) ==
    LET f == readers[c].frame IN
    /\ readers[c].at = "parse"
    /\ plc_last' = [a \in Arms |-> IF a \in ChangedArms(f) THEN f[a] ELSE plc_last[a]]
    /\ readers' = [readers EXCEPT ![c].at = IF ChangedArms(f) = {} THEN "recv" ELSE "deliver",
                                  ![c].frame = IF ChangedArms(f) = {} THEN NoReader.frame ELSE f]
    /\ UNCHANGED <<vars, conns, connections, arrived, overlapped>>

(* The callback: handle_dequeue_pointers, which may see no change.         *)
Deliver(c) ==
    LET f == readers[c].frame IN
    /\ readers[c].at = "deliver"
    /\ \/ HandleDequeuePointers(f)
       \/ (\A a \in Arms : f[a] = LastPointer(a)) /\ UNCHANGED vars
    /\ readers' = [readers EXCEPT ![c].at = "recv", ![c].frame = NoReader.frame]
    /\ UNCHANGED <<conns, connections, plc_last, arrived, overlapped>>

(* A plausible bug: the entry goes, the socket stays open.                 *)
ClosedWithEntryNot(port) == conns

ClosedWithEntry(port) == Close(connections[port])

(* _close_connection closes what the address's entry is by now.            *)
CloseConnection(c) ==
    /\ readers[c].at = "close"
    /\ conns' = ClosedWithEntry(readers[c].port)
    /\ connections' = [connections EXCEPT ![readers[c].port] = NoSock]
    /\ readers' = [readers EXCEPT ![c] = NoReader]
    /\ UNCHANGED <<vars, plc_last, arrived, overlapped>>

ReaderStep(c) ==
    \/ LookUp(c) \/ ReceiveFrame(c) \/ ReceiveEnds(c)
    \/ DetectChanges(c) \/ Deliver(c) \/ CloseConnection(c)

-----------------------------------------------------------------------------
PortNext ==
    \/ PlcStep
    \/ \E c \in Conns, port \in Ports : PortAccept(c, port)
    \/ \E c \in Conns : ReaderStep(c)
    \/ \E n \in Counts, p \in Pointers : EnqueueItem(n, p) /\ UNCHANGED portVars

PortSpec == PortInit /\ [][PortNext]_portAll

(* Every thread is scheduled, and a PLC without a connection connects.     *)
PortFairSpec ==
    /\ PortSpec
    /\ WF_portAll(\E c \in Conns, port \in Ports : PortAccept(c, port))
    /\ \A c \in Conns : WF_portAll(ReaderStep(c)) /\ WF_portAll(PlcGivesUp(c))
                        /\ WF_portAll(PlcLossNoticed(c))
    /\ WF_portAll(\E c \in Conns : PlcConnects(c))

-----------------------------------------------------------------------------
PortTypeOK ==
    /\ TypeOK
    /\ conns \in [Conns -> ConnType]
    /\ connections \in [Ports -> Conns \cup {NoSock}]
    /\ readers \in [Conns -> [at : {"none", "lookup", "recv", "parse", "deliver", "close"},
                              port : Ports \cup {0}, reads : Conns \cup {NoSock},
                              frame : [Arms -> Pointers \cup {0}]]]
    /\ \A c \in Conns : readers[c].at \in {"recv", "parse", "deliver"} => readers[c].reads \in Conns
    /\ plc_last \in [Arms -> Pointers \cup {0}]
    /\ arrived \in [Arms -> Pointers \cup {0}]
    /\ overlapped \in BOOLEAN

(* The two change filters agree: when no frame is being handled, handler   *)
(* and queue manager both hold the pointers of the frame that arrived      *)
(* last, so no pointer the PLC repeats or returns to is taken for old      *)
(* news by the one and was never seen by the other.  It takes that no      *)
(* frame of a new connection overtook one of the old connection: the two   *)
(* are handled by two threads that nothing orders.                         *)
LayersAgree ==
    (~overlapped /\ \A c \in Conns : ~Handling(c)) =>
        \A a \in Arms : plc_last[a] = arrived[a] /\ LastPointer(a) = arrived[a]

(* A connection that the PLC uses and a thread reads is among the targets  *)
(* of send_dequeue_feedback, although an old thread may close and remove   *)
(* the entry of a newer connection.                                        *)
InUse(c) == /\ conns[c].ours = "open" /\ conns[c].peer = "open"
            /\ \E d \in Conns : readers[d].at = "recv" /\ readers[d].reads = c
FeedbackTargets == {connections[port] : port \in Ports} \ {NoSock}
FeedbackReachesReader == \A c \in Conns : InUse(c) => c \in FeedbackTargets

(* "PLC offline: the software waits, and goes on when the connection is    *)
(* back": a PLC that does not keep leaving of its own is served again.     *)
PlcServedAgain == []<>(\E c \in Conns : InUse(c)) \/ []<><<PlcLeaves>>_portAll
=============================================================================
