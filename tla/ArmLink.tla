------------------------------- MODULE ArmLink -------------------------------
(***************************************************************************)
(* The TCP link to one robot arm: SimpleArmController in                   *)
(* core/arm_controller.py.  The arms share nothing but the running flag.   *)
(*                                                                         *)
(* In active mode the software connects to the robot and a reconnect       *)
(* thread repairs the link; in passive mode an accept thread takes the     *)
(* connections the robot opens.  That thread is the linker here.  A        *)
(* receiver thread reads the commands, calls the queue manager and sends   *)
(* the answer itself.  Only the linker takes the arm's lock, so the lock   *)
(* excludes nobody: each statement that reads or writes the shared status  *)
(* and socket is a step.                                                   *)
(*                                                                         *)
(* A socket is closed by close(), or when nothing refers to it any more.   *)
(* Addresses, heartbeat times and byte contents are left out.              *)
(***************************************************************************)
EXTENDS TcpLink, SequencesExt

CONSTANTS
    Modes,          \* the connection modes a run starts in
    Threads,        \* bound: receiver threads alive at a time
    MayStop         \* whether stop() is called

ASSUME LinkAssumption ==
    /\ Modes \subseteq {"active", "passive"}
    /\ Threads \subseteq Nat \ {0} /\ Threads # {}
    /\ Batches \subseteq Seq({"data", "ok", "1"})
    /\ MayStop \in BOOLEAN

NoThread == 0      \* no entry in receiver_threads

VARIABLES
    mode,          \* connection_mode
    status,        \* arm.status
    sock,          \* arm.sock
    linker,        \* reconnect thread or accept thread, with the sockets it holds
    threads,       \* receiver threads
    current,       \* receiver_threads[arm.id]
    stopper        \* how far stop() has come

linkVars == <<mode, status, sock, linker, threads, current, stopper, conns>>
arm == <<status, sock, conns>>

running == stopper = "idle"        \* the flag every loop reads

-----------------------------------------------------------------------------
(* Sockets and threads.                                                    *)

Held(c) == c \in {sock, linker.holds, linker.probes}
           \/ \E t \in Threads : threads[t].ref = c

(* Our end is open: accepted or connected, not closed, still referred to.  *)
OursOpen(c) == c \in Conns /\ conns[c].ours = "open" /\ Held(c)

Free(c) == ~Held(c) /\ conns[c].ours # "backlog" /\ conns[c].peer \in {"none", "closed"}

Receiver(p, ref, cmds) == [at |-> p, ref |-> ref, cmds |-> cmds]
NewReceiver(p) == Receiver(p, NoSock, <<>>)
AliveThreads == {t \in Threads : threads[t].at # "dead"}

At(t, p) == threads[t].at = p

(* The linker at p becomes l; receiver t at p becomes r.                   *)
LinkerBecomes(p, l) ==
    linker.at = p /\ linker' = l /\ UNCHANGED <<mode, threads, current, stopper>>
LinkerMoves(p, q) == LinkerBecomes(p, [linker EXCEPT !.at = q])

ReceiverBecomes(t, p, r) ==
    At(t, p) /\ threads' = [threads EXCEPT ![t] = r]
             /\ UNCHANGED <<mode, linker, current, stopper>>
ReceiverMoves(t, p, q) ==
    ReceiverBecomes(t, p, Receiver(q, threads[t].ref, threads[t].cmds))

-----------------------------------------------------------------------------
(* _extract_commands: the words data and 1 are found, ok is not; of the    *)
(* data words with no 1 between them the first one stays.                  *)

(* Plausible bugs: every data word is kept; every word is handed on.       *)
ExtractCommandsAll(batch) == SelectSeq(batch, LAMBDA w : w \in {"data", "1"})
ExtractCommandsAny(batch) == batch

(* The commands so far, after one more word.                               *)
Extended(kept, w) ==
    IF w = "ok" \/ (w = "data" /\ kept # <<>> /\ Last(kept) = "data")
    THEN kept ELSE Append(kept, w)

ExtractCommands(batch) ==
    LET kept[i \in 0 .. Len(batch)] ==
          IF i = 0 THEN <<>> ELSE Extended(kept[i - 1], batch[i])
    IN kept[Len(batch)]

-----------------------------------------------------------------------------
(* connect_all: in active mode the first attempt, then the reconnect       *)
(* thread; in passive mode the port listens and the accept thread runs.    *)

LinkInit ==
    /\ mode \in Modes
    /\ status = IF mode = "active" THEN "DISCONNECTED" ELSE "LISTENING"
    /\ sock = NoSock
    /\ linker = [at |-> IF mode = "active" THEN "drop_old" ELSE "accept",
                 holds |-> NoSock, probes |-> NoSock, alive |-> FALSE]
    /\ threads = [t \in Threads |-> NewReceiver("dead")]
    /\ current = NoThread
    /\ stopper = "idle"
    /\ TcpInit

-----------------------------------------------------------------------------
(* Active mode: _reconnect_loop and _connect_arm.                          *)

(* A plausible bug: a link that is busy with a send is repaired too.       *)
NeedsRepairWhenNotConnected == status # "CONNECTED"

NeedsRepair == status \in {"DISCONNECTED", "ERROR"}

ReconnectPoll == LinkerMoves("poll", IF running THEN "scan" ELSE "ended") /\ UNCHANGED arm

ReconnectScan == LinkerMoves("scan", IF NeedsRepair THEN "drop_old" ELSE "poll")
                 /\ UNCHANGED arm

(* The locked section of _connect_arm: an old socket is closed first.      *)
DropOld ==
    IF status = "CONNECTED" /\ sock # NoSock
    THEN LinkerMoves("drop_old", "start") /\ UNCHANGED arm
    ELSE /\ LinkerMoves("drop_old", "connecting")
         /\ conns' = Close(sock) /\ sock' = NoSock
         /\ UNCHANGED status

Connecting == LinkerMoves("connecting", "connect")
              /\ status' = "CONNECTING" /\ UNCHANGED <<sock, conns>>

ConnectSucceeds ==
    \E c \in Conns :
      /\ Free(c)
      /\ LinkerBecomes("connect", [linker EXCEPT !.at = "bind", !.holds = c])
      /\ conns' = [conns EXCEPT ![c] = [NoConn EXCEPT !.ours = "open", !.peer = "open"]]
      /\ UNCHANGED <<status, sock>>

ConnectFails == LinkerMoves("connect", "poll")
                /\ status' = "ERROR" /\ UNCHANGED <<sock, conns>>

-----------------------------------------------------------------------------
(* Passive mode: _accept_loop, _attach_passive_connection and              *)
(* _is_socket_alive.                                                       *)

(* accept() returns a connection of the backlog, after running went off    *)
(* too if it was waiting; the socket accepted before it is let go.         *)
Accept(c) ==
    /\ LinkerBecomes("accept", [linker EXCEPT !.at = "attach", !.holds = c])
    /\ stopper # "stopped" /\ conns[c].ours = "backlog"
    /\ conns' = [conns EXCEPT ![c].ours = "open"]
    /\ UNCHANGED <<status, sock>>

(* The loop ends: running is off, or the listening socket was closed.      *)
AcceptEnds ==
    /\ ~running
    /\ LinkerBecomes("accept", [linker EXCEPT !.at = "ended", !.holds = NoSock])
    /\ UNCHANGED arm

Attach ==
    /\ LinkerBecomes("attach",
         IF sock = NoSock THEN [linker EXCEPT !.at = "bind"]
         ELSE IF status = "CONNECTED" THEN [linker EXCEPT !.at = "probe", !.probes = sock]
         ELSE [linker EXCEPT !.at = "evict"])
    /\ UNCHANGED arm

(* settimeout(0.0) makes the socket nonblocking for its reader too.  On a  *)
(* closed socket it raises OSError, which ends the accept loop.            *)
ProbeStart ==
    /\ linker.at = "probe"
    /\ UNCHANGED <<status, sock>>
    /\ IF conns[linker.probes].ours = "closed"
       THEN /\ LinkerBecomes("probe", [linker EXCEPT !.at = "ended", !.holds = NoSock,
                                                     !.probes = NoSock])
            /\ UNCHANGED conns
       ELSE /\ LinkerMoves("probe", "peek")
            /\ conns' = [conns EXCEPT ![linker.probes].nonblocking = TRUE]

(* The peek: data, or nothing yet, counts as alive; EOF or an error not.   *)
Peek ==
    LET old == conns[linker.probes] IN
    /\ LinkerBecomes("peek", [linker EXCEPT !.at = "restore",
         !.alive = old.ours = "open" /\ (old.unread # <<>> \/ old.peer # "closed")])
    /\ UNCHANGED arm

ProbeEnd ==
    /\ LinkerBecomes("restore", [linker EXCEPT !.probes = NoSock, !.alive = FALSE,
                                 !.at = IF linker.alive THEN "refuse" ELSE "evict"])
    /\ conns' = [conns EXCEPT ![linker.probes].nonblocking = FALSE]
    /\ UNCHANGED <<status, sock>>

(* The duplicate is dropped, the connection in use is kept.                *)
Refuse ==
    /\ LinkerBecomes("refuse", [linker EXCEPT !.at = "accept", !.holds = NoSock])
    /\ conns' = Close(linker.holds)
    /\ UNCHANGED <<status, sock>>

EvictClose == LinkerMoves("evict", "evict_clear")
              /\ conns' = Close(sock) /\ UNCHANGED <<status, sock>>

EvictClear == LinkerMoves("evict_clear", "bind")
              /\ sock' = NoSock /\ UNCHANGED <<status, conns>>

-----------------------------------------------------------------------------
(* Both modes: the new connection becomes the arm's, and _start_receiver   *)
(* starts a receiver unless the last one is still alive.                   *)

Bind == LinkerMoves("bind", "bind_status")
        /\ sock' = linker.holds /\ UNCHANGED <<status, conns>>

BindStatus == LinkerMoves("bind_status", "start")
              /\ status' = "CONNECTED" /\ UNCHANGED <<sock, conns>>

(* Plausible bugs: the old thread is not looked at, or a dead one counts.  *)
NeedsReceiverAlways == TRUE
NeedsReceiverOnce == current = NoThread

NeedsReceiver == current = NoThread \/ At(current, "dead")

(* _connect_arm's local goes out of scope; the accept loop's stays.        *)
StartReceiver ==
    /\ linker.at = "start"
    /\ linker' = IF mode = "active" THEN [linker EXCEPT !.at = "poll", !.holds = NoSock]
                 ELSE [linker EXCEPT !.at = "accept"]
    /\ IF NeedsReceiver
       THEN \E t \in Threads \ AliveThreads :
              /\ \A u \in Threads \ AliveThreads : t <= u
              /\ threads' = [threads EXCEPT ![t] = NewReceiver("check")]
              /\ current' = t
       ELSE UNCHANGED <<threads, current>>
    /\ UNCHANGED <<mode, stopper, arm>>

-----------------------------------------------------------------------------
(* A receiver thread: _receive_loop.                                       *)

CheckLink(t) ==
    /\ ReceiverMoves(t, "check",
         IF running /\ status = "CONNECTED" /\ sock # NoSock THEN "read" ELSE "leave")
    /\ UNCHANGED arm

(* recv is called on what arm.sock is now: None, a closed socket or a      *)
(* nonblocking one with nothing to read raise at once.                     *)
ReadSock(t) ==
    /\ ReceiverBecomes(t, "read",
         IF OursOpen(sock) /\ (conns[sock].nonblocking => Readable(sock))
         THEN Receiver("recv", sock, <<>>) ELSE NewReceiver("close"))
    /\ UNCHANGED arm

(* A batch, or EOF, or the socket was closed under the recv.               *)
ReceiveBatch(t) ==
    LET c == threads[t].ref IN
    /\ At(t, "recv") /\ conns[c].ours = "open" /\ conns[c].unread # <<>>
    /\ ReceiverBecomes(t, "recv",
         Receiver("commands", NoSock, ExtractCommands(Head(conns[c].unread))))
    /\ conns' = TakeBatch(c)
    /\ UNCHANGED <<status, sock>>

ReceiveFails(t) ==
    LET c == threads[t].ref IN
    /\ At(t, "recv")
    /\ conns[c].ours = "closed" \/ (conns[c].unread = <<>> /\ conns[c].peer = "closed")
    /\ ReceiverBecomes(t, "recv", NewReceiver("close"))
    /\ UNCHANGED arm

(* The command callback: a completion, or a data request the queue manager *)
(* does not answer, needs the link no more; an answer is sent from here.   *)
(* It does not raise: the queue manager and send_data catch what fails.    *)
HandleCommand(t) ==
    LET cmds == threads[t].cmds IN
    /\ cmds # <<>>
    /\ \E next \in {"commands"} \cup (IF Head(cmds) = "data" THEN {"send"} ELSE {}) :
         ReceiverBecomes(t, "commands", Receiver(next, NoSock, Tail(cmds)))
    /\ UNCHANGED arm

BatchDone(t) ==
    threads[t].cmds = <<>> /\ ReceiverMoves(t, "commands", "check") /\ UNCHANGED arm

-----------------------------------------------------------------------------
(* send_data, on the receiver's thread.                                    *)

SendCheck(t) ==
    /\ ReceiverMoves(t, "send",
         IF status = "CONNECTED" /\ sock # NoSock THEN "busy" ELSE "commands")
    /\ UNCHANGED arm

SendBusy(t) ==
    ReceiverMoves(t, "busy", "sending") /\ status' = "BUSY" /\ UNCHANGED <<sock, conns>>

SendDelivered(t) == OursOpen(sock) /\ ReceiverMoves(t, "sending", "sent") /\ UNCHANGED arm

(* An open connection too, if its buffer is full while a probe is on.      *)
SendRaises(t) ==
    /\ ReceiverMoves(t, "sending", "failed")
    /\ OursOpen(sock) => conns[sock].peer # "open" \/ conns[sock].nonblocking
    /\ UNCHANGED arm

(* A plausible bug: a failed send leaves the arm busy.                     *)
AfterFailureBusy == status

AfterFailure == "ERROR"

SendEnds(t) ==
    /\ \/ ReceiverMoves(t, "sent", "commands") /\ status' = "CONNECTED"
       \/ ReceiverMoves(t, "failed", "commands") /\ status' = AfterFailure
    /\ UNCHANGED <<sock, conns>>

-----------------------------------------------------------------------------
(* _handle_disconnect, on the receiver's thread: it closes and clears      *)
(* whatever the arm's socket is by then.                                   *)

CloseSock(t) ==
    /\ ReceiverMoves(t, "close", IF sock = NoSock THEN "set_status" ELSE "clear")
    /\ conns' = Close(sock)
    /\ UNCHANGED <<status, sock>>

ClearSock(t) ==
    ReceiverMoves(t, "clear", "set_status") /\ sock' = NoSock /\ UNCHANGED <<status, conns>>

StatusWhenLost == IF mode = "passive" /\ stopper # "stopped" THEN "LISTENING"
                  ELSE "DISCONNECTED"

SetStatus(t) ==
    /\ ReceiverMoves(t, "set_status", "leave")
    /\ status' = StatusWhenLost
    /\ UNCHANGED <<sock, conns>>

(* The thread is alive until it has left the loop.                         *)
Leave(t) == ReceiverMoves(t, "leave", "dead") /\ UNCHANGED arm

-----------------------------------------------------------------------------
(* stop, on the main thread.  Its joins have timeouts, so they hold        *)
(* nothing back.  What it sets after the close is one step.                *)

StopRunning == MayStop /\ stopper = "idle" /\ stopper' = "close"
               /\ UNCHANGED <<mode, arm, linker, threads, current>>

StopClose == stopper = "close" /\ stopper' = "clear" /\ conns' = Close(sock)
             /\ UNCHANGED <<mode, status, sock, linker, threads, current>>

StopClear ==
    /\ stopper = "clear" /\ stopper' = "stopped"
    /\ sock' = NoSock /\ status' = "DISCONNECTED" /\ current' = NoThread
    /\ conns' = CloseListener
    /\ UNCHANGED <<mode, linker, threads>>

-----------------------------------------------------------------------------
(* The robot.  In passive mode it may open a connection while it has       *)
(* another; it may leave one, by a close or without a word, and gives up   *)
(* a connection that was closed on our side.                               *)

controller == <<mode, status, sock, linker, threads, current, stopper>>

RobotConnects(c) ==
    mode = "passive" /\ stopper # "stopped" /\ Free(c) /\ PeerConnects(c)
    /\ UNCHANGED controller

RobotGivesUp(c) ==
    /\ ~OursOpen(c) /\ conns[c].ours # "backlog" /\ PeerCloses(c)
    /\ UNCHANGED controller

RobotNoticedLost(c) == LossNoticed(c) /\ UNCHANGED controller

RobotLeaves ==
    /\ \E c \in Conns : /\ OursOpen(c) \/ conns[c].ours = "backlog"
                        /\ PeerCloses(c) \/ PeerVanishes(c)
    /\ UNCHANGED controller

RobotStep ==
    \/ RobotLeaves
    \/ \E c \in Conns :
         \/ RobotConnects(c) \/ RobotGivesUp(c) \/ RobotNoticedLost(c)
         \/ (\E batch \in Batches : PeerSends(c, batch)) /\ UNCHANGED controller

-----------------------------------------------------------------------------
LinkerStep ==
    \/ ReconnectPoll \/ ReconnectScan \/ DropOld \/ Connecting
    \/ (\E c \in Conns : Accept(c)) \/ AcceptEnds
    \/ Attach \/ ProbeStart \/ Peek \/ ProbeEnd \/ Refuse \/ EvictClose \/ EvictClear
    \/ Bind \/ BindStatus \/ StartReceiver

ReceiverStep(t) ==
    \/ CheckLink(t) \/ ReadSock(t) \/ ReceiveBatch(t) \/ ReceiveFails(t)
    \/ HandleCommand(t) \/ BatchDone(t)
    \/ SendCheck(t) \/ SendBusy(t) \/ SendDelivered(t) \/ SendRaises(t) \/ SendEnds(t)
    \/ CloseSock(t) \/ ClearSock(t) \/ SetStatus(t) \/ Leave(t)

LinkNext ==
    \/ LinkerStep \/ ConnectSucceeds \/ ConnectFails
    \/ \E t \in Threads : ReceiverStep(t)
    \/ StopRunning \/ StopClose \/ StopClear
    \/ RobotStep

LinkSpec == LinkInit /\ [][LinkNext]_linkVars

(* What the liveness property assumes: every thread is scheduled; a robot  *)
(* that is tried again and again accepts in the end, and drops its end of  *)
(* a connection that we closed.                                            *)
LinkFairSpec ==
    /\ LinkSpec
    /\ WF_linkVars(LinkerStep)
    /\ SF_linkVars(ConnectSucceeds)
    /\ \A t \in Threads : WF_linkVars(ReceiverStep(t))
    /\ \A c \in Conns : WF_linkVars(RobotGivesUp(c)) /\ WF_linkVars(RobotNoticedLost(c))

-----------------------------------------------------------------------------
LinkTypeOK ==
    /\ mode \in Modes
    /\ status \in {"DISCONNECTED", "CONNECTING", "CONNECTED", "BUSY", "ERROR", "LISTENING"}
    /\ sock \in Conns \cup {NoSock}
    /\ linker \in [at : {"poll", "scan", "drop_old", "connecting", "connect", "accept",
                         "attach", "probe", "peek", "restore", "refuse", "evict", "evict_clear",
                         "bind", "bind_status", "start", "ended"},
                   holds : Conns \cup {NoSock}, probes : Conns \cup {NoSock},
                   alive : BOOLEAN]
    /\ threads \in [Threads -> [at : {"dead", "check", "read", "recv", "commands", "send",
                                    "busy", "sending", "sent", "failed", "close", "clear",
                                    "set_status", "leave"},
                                ref : Conns \cup {NoSock}, cmds : Seq({"data", "1"})]]
    /\ current \in Threads \cup {NoThread}
    /\ stopper \in {"idle", "close", "clear", "stopped"}
    /\ conns \in [Conns -> ConnType]

(* Until stop() forgets the thread, one receiver at a time reads an arm's  *)
(* commands: two would take each other's bytes and answer a data request   *)
(* on each other's behalf.                                                 *)
OneReceiver == stopper # "stopped" => \A t, u \in AliveThreads : t = u

(* An arm is busy only while its receiver is inside a send: no failure     *)
(* path leaves the status that neither the reconnect thread nor send_data  *)
(* would ever touch again.                                                 *)
BusyOnlyWhileSending ==
    status = "BUSY" => \E t \in Threads : threads[t].at \in {"sending", "sent", "failed"}

(* A robot that asks twice in one batch is answered once: between two      *)
(* data commands handed to the callback there is a completion 1, so the    *)
(* PLC sees one XN pulse for a part.  The docstring lists ok as a          *)
(* completion too, but the expression does not know it: the second data of *)
(* data, ok, data is dropped.                                              *)
BatchAsksOnce ==
    \A t \in Threads :
      LET cmds == threads[t].cmds IN
      \A i \in 1 .. Len(cmds) - 1 : ~(cmds[i] = "data" /\ cmds[i + 1] = "data")

(* Active mode, before stop().  Unless the receiver is just cleaning up    *)
(* after it, a connected arm has a socket that is open on our side: no     *)
(* clean-up closes or clears the connection the reconnect thread made.     *)
ConnectedIsOpen ==
    (mode = "active" /\ running /\ status = "CONNECTED"
        /\ \A t \in Threads : threads[t].at \notin {"clear", "set_status"})
      => OursOpen(sock)

(* The connection the arm has reaches the robot, and the receiver is in    *)
(* its loop, where it notices that the connection is lost.                 *)
LinkIsUp == OursOpen(sock) /\ conns[sock].peer # "closed"
Received == \E t \in Threads :
              threads[t].at \notin {"dead", "close", "clear", "set_status", "leave"}

(* The reconnect thread is about to ask whether the old receiver is alive, *)
(* and it is, but has left its loop.                                       *)
OldOneLeaves == linker.at = "start" /\ current # NoThread /\ At(current, "leave")

(* Active mode.  Unless the robot keeps leaving, a lost link, or one that  *)
(* a send failed on, is made again and read again.  It takes that no       *)
(* reconnect ever met the old receiver on its way out: then nobody reads   *)
(* the new connection, and its loss is not noticed.                        *)
ActiveReconnects ==
    \/ []<>(mode = "active" => (LinkIsUp /\ Received) \/ ~running)
    \/ []<><<RobotLeaves>>_linkVars
    \/ <>OldOneLeaves

(* Passive mode, what the process documentation says of a device that was  *)
(* lost: the software goes on accepting connections until it is stopped.   *)
KeepsAccepting == (mode = "passive" /\ running) => linker.at # "ended"
=============================================================================
