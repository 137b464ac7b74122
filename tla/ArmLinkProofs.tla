---------------------------- MODULE ArmLinkProofs ----------------------------
(***************************************************************************)
(* What holds of a robot's link (ArmLink) for every number of connections  *)
(* and receiver threads.                                                   *)
(*                                                                         *)
(* The arm's status does the work of a lock in active mode.  ActiveInv     *)
(* says how: the reconnect thread touches the socket only while the status *)
(* is one that stops the receiver, and the receiver is in a section that   *)
(* uses or closes the socket only while the status is one that stops the   *)
(* reconnect thread.  In passive mode nothing stops the accept thread, and *)
(* the same does not hold.                                                 *)
(***************************************************************************)
EXTENDS ArmLink, TcpLinkProofs, WellFoundedInduction

-----------------------------------------------------------------------------
(* Types, but for the commands a receiver has still to hand on.            *)

LinkerType == [at : {"poll", "scan", "drop_old", "connecting", "connect", "accept",
                     "attach", "probe", "peek", "restore", "refuse", "evict", "evict_clear",
                     "bind", "bind_status", "start", "ended"},
               holds : Conns \cup {NoSock}, probes : Conns \cup {NoSock}, alive : BOOLEAN]
ThreadsOK ==
    /\ threads = [t \in Threads |-> threads[t]]
    /\ \A t \in Threads : threads[t].ref \in Conns \cup {NoSock}
StatesOK ==
    /\ sock \in Conns \cup {NoSock}
    /\ linker \in LinkerType
    /\ current \in Threads \cup {NoThread}
    /\ conns \in [Conns -> ConnType]

TypesInv == StatesOK /\ ThreadsOK

(* What a receiver's step does to the threads.                             *)
LEMMA ReceiverFrame ==
    ASSUME ThreadsOK, NEW t \in Threads, NEW p, NEW r,
           ReceiverBecomes(t, p, r), r.ref \in Conns \cup {NoSock}
    PROVE  /\ threads[t].at = p
           /\ \A u \in Threads : threads'[u] = IF u = t THEN r ELSE threads[u]
           /\ ThreadsOK'
           /\ UNCHANGED <<mode, linker, current, stopper>>
BY DEF ReceiverBecomes, At, ThreadsOK

LEMMA MovesFrame ==
    ASSUME ThreadsOK, NEW t \in Threads, NEW p, NEW q, ReceiverMoves(t, p, q)
    PROVE  /\ threads[t].at = p
           /\ threads'[t].at = q
           /\ \A u \in Threads \ {t} : threads'[u] = threads[u]
           /\ ThreadsOK'
           /\ UNCHANGED <<mode, linker, current, stopper>>
<1> DEFINE r == Receiver(q, threads[t].ref, threads[t].cmds)
<1>1. /\ threads[t].at = p /\ threads' = [threads EXCEPT ![t] = r]
      /\ UNCHANGED <<mode, linker, current, stopper>>
  BY DEF ReceiverMoves, ReceiverBecomes, At
<1>2. r.at = q /\ r.ref = threads[t].ref
  BY DEF Receiver
<1> HIDE DEF r
<1> QED
  BY <1>1, <1>2 DEF ThreadsOK

(* What any step of a receiver does, whichever it is: the thread was alive *)
(* and keeps its place.                                                    *)
LEMMA ReceiverStepFrame ==
    ASSUME StatesOK, ThreadsOK, NEW t \in Threads, ReceiverStep(t)
    PROVE  /\ threads[t].at # "dead"
           /\ \A u \in Threads \ {t} : threads'[u] = threads[u]
           /\ ThreadsOK'
           /\ UNCHANGED <<mode, linker, current, stopper>>
<1>1. ASSUME NEW p, NEW q, ReceiverMoves(t, p, q), p # "dead"
      PROVE  /\ threads[t].at # "dead" /\ ThreadsOK'
             /\ \A u \in Threads \ {t} : threads'[u] = threads[u]
             /\ UNCHANGED <<mode, linker, current, stopper>>
  BY <1>1, MovesFrame
<1>2. ASSUME NEW p, NEW q, NEW cmds, p # "dead", NEW ref \in Conns \cup {NoSock},
             ReceiverBecomes(t, p, Receiver(q, ref, cmds))
      PROVE  /\ threads[t].at # "dead" /\ ThreadsOK'
             /\ \A u \in Threads \ {t} : threads'[u] = threads[u]
             /\ UNCHANGED <<mode, linker, current, stopper>>
  <2>1. Receiver(q, ref, cmds).ref = ref
    BY DEF Receiver
  <2> QED
    BY <1>2, <2>1, ReceiverFrame
<1>3. CASE \E p, q : ReceiverMoves(t, p, q) /\ p # "dead"
  BY <1>1, <1>3
<1>4. CASE ReadSock(t)
  <2>1. \/ ReceiverBecomes(t, "read", Receiver("recv", sock, <<>>))
        \/ ReceiverBecomes(t, "read", Receiver("close", NoSock, <<>>))
    BY <1>4 DEF ReadSock, NewReceiver
  <2>2. \E ref \in Conns \cup {NoSock} : \E q :
          ReceiverBecomes(t, "read", Receiver(q, ref, <<>>))
    BY <2>1 DEF StatesOK
  <2> QED
    BY <2>2, <1>2
<1>5. CASE ReceiveBatch(t)
  <2>1. \E cmds : ReceiverBecomes(t, "recv", Receiver("commands", NoSock, cmds))
    BY <1>5 DEF ReceiveBatch
  <2> QED
    BY <2>1, <1>2
<1>6. CASE ReceiveFails(t)
  BY <1>6, <1>2 DEF ReceiveFails, NewReceiver
<1>7. CASE HandleCommand(t)
  <2>1. \E next, cmds : ReceiverBecomes(t, "commands", Receiver(next, NoSock, cmds))
    BY <1>7 DEF HandleCommand
  <2> QED
    BY <2>1, <1>2
<1>8. ReadSock(t) \/ ReceiveBatch(t) \/ ReceiveFails(t) \/ HandleCommand(t)
        \/ \E p, q : ReceiverMoves(t, p, q) /\ p # "dead"
  BY DEF ReceiverStep, CheckLink, BatchDone, SendCheck, SendBusy, SendDelivered, SendRaises,
         SendEnds, CloseSock, ClearSock, SetStatus, Leave
<1> QED
  BY <1>3, <1>4, <1>5, <1>6, <1>7, <1>8

(* The steps of the other sides leave the threads alone, but for the start *)
(* of a receiver in the place of a dead one.                               *)
LEMMA StartFrame ==
    ASSUME StatesOK, ThreadsOK, StartReceiver
    PROVE  /\ linker.at = "start" /\ UNCHANGED <<mode, stopper, arm>>
           /\ ThreadsOK' /\ current' \in Threads \cup {NoThread}
           /\ linker' \in LinkerType /\ linker'.at \in {"poll", "accept"}
           /\ mode = "active" => linker'.at = "poll"
           /\ \/ /\ NeedsReceiver
                 /\ current' \in Threads /\ threads[current'].at = "dead"
                 /\ threads'[current'].at = "check"
                 /\ \A u \in Threads \ {current'} : threads'[u] = threads[u]
              \/ ~NeedsReceiver /\ UNCHANGED <<threads, current>>
<1>1. /\ linker.at = "start" /\ UNCHANGED <<mode, stopper, arm>>
      /\ linker' \in LinkerType /\ linker'.at \in {"poll", "accept"}
      /\ mode = "active" => linker'.at = "poll"
  BY DEF StartReceiver, StatesOK, LinkerType
<1>2. CASE NeedsReceiver
  <2>1. PICK t \in Threads \ AliveThreads :
            threads' = [threads EXCEPT ![t] = NewReceiver("check")] /\ current' = t
    BY <1>2 DEF StartReceiver
  <2>2. /\ NewReceiver("check").at = "check"
        /\ NewReceiver("check").ref \in Conns \cup {NoSock}
    BY DEF NewReceiver, Receiver
  <2> QED
    BY <1>1, <1>2, <2>1, <2>2 DEF AliveThreads, ThreadsOK
<1>3. CASE ~NeedsReceiver
  BY <1>1, <1>3 DEF StartReceiver, StatesOK, ThreadsOK
<1> QED
  BY <1>2, <1>3

(* The linker's steps that are not a start keep its type, and the sockets. *)
LEMMA LinkerTypes ==
    ASSUME StatesOK,
           LinkerStep \/ ConnectSucceeds \/ ConnectFails, ~StartReceiver
    PROVE  StatesOK' /\ UNCHANGED <<mode, threads, current, stopper>>
<1> USE DEF StatesOK, LinkerType, LinkerBecomes, LinkerMoves, arm
<1>1. CASE ReconnectPoll \/ ReconnectScan \/ Connecting \/ ConnectFails
  BY <1>1 DEF ReconnectPoll, ReconnectScan, Connecting, ConnectFails
<1>2. CASE DropOld
  <2>1. Close(sock) \in [Conns -> ConnType]
    BY CloseStep
  <2>2. /\ conns' \in {conns, Close(sock)} /\ sock' \in {sock, NoSock}
        /\ linker' \in {[linker EXCEPT !.at = "start"], [linker EXCEPT !.at = "connecting"]}
        /\ UNCHANGED <<mode, threads, current, stopper>>
    BY <1>2 DEF DropOld
  <2> QED
    BY <2>1, <2>2
<1>3. CASE ConnectSucceeds
  <2>1. PICK c \in Conns :
            /\ LinkerBecomes("connect", [linker EXCEPT !.at = "bind", !.holds = c])
            /\ conns' = [conns EXCEPT ![c] = [NoConn EXCEPT !.ours = "open", !.peer = "open"]]
            /\ UNCHANGED <<status, sock>>
    BY <1>3 DEF ConnectSucceeds
  <2>2. [NoConn EXCEPT !.ours = "open", !.peer = "open"] \in ConnType
    BY NewConnType
  <2> QED
    BY <2>1, <2>2
<1>4. ASSUME NEW c \in Conns, Accept(c)
      PROVE  StatesOK' /\ UNCHANGED <<mode, threads, current, stopper>>
  <2>1. [conns[c] EXCEPT !.ours = "open"] \in ConnType
    BY ConnUpdateType
  <2> QED
    BY <1>4, <2>1 DEF Accept
<1>5. CASE AcceptEnds
  BY <1>5 DEF AcceptEnds, NoSock
<1>6. CASE Attach
  BY <1>6 DEF Attach
<1>7. CASE ProbeStart
  <2>1. \/ linker.probes \notin Conns
        \/ [conns[linker.probes] EXCEPT !.nonblocking = TRUE] \in ConnType
    BY ConnUpdateType
  <2>2. conns' \in [Conns -> ConnType]
    BY <1>7, <2>1 DEF ProbeStart
  <2> QED
    BY <1>7, <2>2 DEF ProbeStart, NoSock
<1>8. CASE Peek
  BY <1>8 DEF Peek
<1>9. CASE ProbeEnd
  <2>1. \/ linker.probes \notin Conns
        \/ [conns[linker.probes] EXCEPT !.nonblocking = FALSE] \in ConnType
    BY ConnUpdateType
  <2>2. conns' \in [Conns -> ConnType]
    BY <1>9, <2>1 DEF ProbeEnd
  <2> QED
    BY <1>9, <2>2 DEF ProbeEnd, NoSock
<1>10. CASE Refuse
  BY <1>10, CloseStep DEF Refuse, NoSock
<1>11. CASE EvictClose
  BY <1>11, CloseStep DEF EvictClose
<1>12. CASE EvictClear
  BY <1>12 DEF EvictClear, NoSock
<1>13. CASE Bind \/ BindStatus
  BY <1>13 DEF Bind, BindStatus
<1> QED
  BY <1>1, <1>2, <1>3, <1>4, <1>5, <1>6, <1>7, <1>8, <1>9, <1>10, <1>11, <1>12, <1>13
  DEF LinkerStep

LEMMA ReceiverTypes ==
    ASSUME StatesOK, ThreadsOK, NEW t \in Threads, ReceiverStep(t)
    PROVE  StatesOK'
<1>1. UNCHANGED <<linker, current>>
  BY ReceiverStepFrame
<1>2. sock' \in {sock, NoSock}
  BY DEF ReceiverStep, arm, CheckLink, ReadSock, ReceiveBatch, ReceiveFails, HandleCommand,
         BatchDone, SendCheck, SendBusy, SendDelivered, SendRaises, SendEnds, CloseSock,
         ClearSock, SetStatus, Leave
<1>3. conns' \in [Conns -> ConnType]
  <2>1. CASE ReceiveBatch(t)
    <3>1. threads[t].ref \in Conns \cup {NoSock}
      BY DEF ThreadsOK
    <3> QED
      BY <2>1, <3>1, TakeStep DEF ReceiveBatch, StatesOK
  <2>2. CASE CloseSock(t)
    BY <2>2, CloseStep DEF CloseSock, StatesOK
  <2>3. CASE ~ReceiveBatch(t) /\ ~CloseSock(t)
    <3>1. UNCHANGED conns
      BY <2>3 DEF ReceiverStep, arm, CheckLink, ReadSock, ReceiveFails, HandleCommand,
           BatchDone, SendCheck, SendBusy, SendDelivered, SendRaises, SendEnds,
           ClearSock, SetStatus, Leave
    <3> QED
      BY <3>1 DEF StatesOK
  <2> QED
    BY <2>1, <2>2, <2>3
<1> QED
  BY <1>1, <1>2, <1>3 DEF StatesOK, NoSock

LEMMA StopTypes ==
    ASSUME StatesOK, StopRunning \/ StopClose \/ StopClear
    PROVE  StatesOK' /\ UNCHANGED <<mode, linker, threads>>
BY CloseStep, ListenerStep DEF StopRunning, StopClose, StopClear, StatesOK, arm, NoSock, NoThread

LEMMA RobotTypes ==
    ASSUME StatesOK, RobotStep
    PROVE  StatesOK' /\ UNCHANGED controller
BY ConnectStep, PeerStep
DEF RobotStep, RobotLeaves, RobotConnects, RobotGivesUp, RobotNoticedLost,
     StatesOK, controller

LEMMA TypesKept == LinkSpec => []TypesInv
<1>1. LinkInit => TypesInv
  <2> SUFFICES ASSUME LinkInit PROVE TypesInv
    OBVIOUS
  <2>1. StatesOK
    BY ConnUpdateType DEF LinkInit, StatesOK, LinkerType, TcpInit, NoSock, LinkAssumption
  <2>2. ThreadsOK
    BY DEF LinkInit, ThreadsOK, NewReceiver, Receiver
  <2> QED
    BY <2>1, <2>2 DEF TypesInv
<1>2. TypesInv /\ [LinkNext]_linkVars => TypesInv'
  <2> SUFFICES ASSUME StatesOK, ThreadsOK, [LinkNext]_linkVars PROVE StatesOK' /\ ThreadsOK'
    BY DEF TypesInv
  <2>1. CASE UNCHANGED linkVars
    BY <2>1 DEF linkVars, StatesOK, ThreadsOK
  <2>2. CASE StartReceiver
    BY <2>2, StartFrame DEF StatesOK, arm
  <2>3. CASE (LinkerStep \/ ConnectSucceeds \/ ConnectFails) /\ ~StartReceiver
    BY <2>3, LinkerTypes DEF ThreadsOK
  <2>4. ASSUME NEW t \in Threads, ReceiverStep(t) PROVE StatesOK' /\ ThreadsOK'
    BY <2>4, ReceiverTypes, ReceiverStepFrame
  <2>5. CASE StopRunning \/ StopClose \/ StopClear
    BY <2>5, StopTypes DEF ThreadsOK
  <2>6. CASE RobotStep
    BY <2>6, RobotTypes DEF ThreadsOK, controller
  <2> QED
    BY <2>1, <2>2, <2>3, <2>4, <2>5, <2>6 DEF LinkNext
<1> QED
  BY <1>1, <1>2, PTL DEF LinkSpec

-----------------------------------------------------------------------------
(* One receiver, and no lasting BUSY.                                      *)

(* The receiver thread that is alive is the one in receiver_threads.       *)
ReceiverInv == stopper # "stopped" => \A t \in Threads : threads[t].at # "dead" => t = current

LEMMA ReceiverKept == LinkSpec => []ReceiverInv
<1>1. LinkInit => ReceiverInv
  BY DEF LinkInit, ReceiverInv, NewReceiver, Receiver
<1>2. TypesInv /\ ReceiverInv /\ [LinkNext]_linkVars => ReceiverInv'
  <2> SUFFICES ASSUME StatesOK, ThreadsOK, ReceiverInv, [LinkNext]_linkVars PROVE ReceiverInv'
    BY DEF TypesInv
  <2>1. CASE UNCHANGED <<threads, current, stopper>>
    BY <2>1 DEF ReceiverInv
  <2>2. CASE StartReceiver
    <3>1. CASE NeedsReceiver /\ stopper # "stopped"
      <4>1. \A t \in Threads : threads[t].at = "dead"
        BY <3>1, LinkAssumption DEF NeedsReceiver, ReceiverInv, NoThread, At
      <4> QED
        BY <2>2, <3>1, <4>1, StartFrame DEF ReceiverInv
    <3>2. CASE ~NeedsReceiver \/ stopper = "stopped"
      BY <2>2, <3>2, StartFrame DEF ReceiverInv
    <3> QED
      BY <3>1, <3>2
  <2>3. CASE (LinkerStep \/ ConnectSucceeds \/ ConnectFails) /\ ~StartReceiver
    BY <2>1, <2>3, LinkerTypes
  <2>4. ASSUME NEW t \in Threads, ReceiverStep(t) PROVE ReceiverInv'
    BY <2>4, ReceiverStepFrame DEF ReceiverInv
  <2>5. CASE StopRunning \/ StopClose \/ StopClear
    BY <2>5 DEF StopRunning, StopClose, StopClear, ReceiverInv
  <2>6. CASE RobotStep
    BY <2>6, <2>1, RobotTypes DEF controller
  <2> QED
    BY <2>1, <2>2, <2>3, <2>4, <2>5, <2>6 DEF LinkNext, linkVars
<1> QED
  BY <1>1, <1>2, TypesKept, PTL DEF LinkSpec

(* Until stop(), one receiver at a time reads an arm's commands, however   *)
(* often its connection is replaced while the old receiver is still alive. *)
THEOREM ReceiverAlone == LinkSpec => []OneReceiver
<1>1. ReceiverInv => OneReceiver
  BY DEF ReceiverInv, OneReceiver, AliveThreads
<1> QED
  BY <1>1, ReceiverKept, PTL

InSend(t) == threads[t].at \in {"sending", "sent", "failed"}

(* A receiver inside a send stays inside it unless the status is set, and  *)
(* enters it when it sets the status to BUSY.                              *)
LEMMA SendFrame ==
    ASSUME StatesOK, ThreadsOK, NEW t \in Threads, ReceiverStep(t)
    PROVE  /\ status' = "BUSY" => InSend(t)' \/ (UNCHANGED status /\ ~InSend(t))
           /\ \A u \in Threads \ {t} : InSend(u)' <=> InSend(u)
<1>1. \A u \in Threads \ {t} : InSend(u)' <=> InSend(u)
  BY ReceiverStepFrame DEF InSend
<1>2. CASE SendDelivered(t) \/ SendRaises(t)
  <2>1. threads'[t].at \in {"sent", "failed"}
    BY <1>2, MovesFrame DEF SendDelivered, SendRaises
  <2> QED
    BY <1>1, <2>1 DEF InSend
<1>3. CASE SendBusy(t)
  <2>1. threads'[t].at = "sending"
    BY <1>3, MovesFrame DEF SendBusy
  <2> QED
    BY <1>1, <2>1 DEF InSend
<1>4. CASE SendEnds(t) \/ SetStatus(t)
  <2>1. status' # "BUSY"
    BY <1>4 DEF SendEnds, AfterFailure, SetStatus, StatusWhenLost
  <2> QED
    BY <1>1, <2>1
<1>5. CASE \/ CheckLink(t) \/ ReadSock(t) \/ ReceiveBatch(t) \/ ReceiveFails(t)
           \/ HandleCommand(t) \/ BatchDone(t) \/ SendCheck(t)
           \/ CloseSock(t) \/ ClearSock(t) \/ Leave(t)
  <2>1. UNCHANGED status /\ ~InSend(t)
    BY <1>5 DEF CheckLink, ReadSock, ReceiveBatch, ReceiveFails, HandleCommand, BatchDone,
         SendCheck, CloseSock, ClearSock, Leave, ReceiverMoves, ReceiverBecomes, At, InSend, arm
  <2> QED
    BY <1>1, <2>1
<1> QED
  BY <1>2, <1>3, <1>4, <1>5 DEF ReceiverStep

(* An arm is busy only while its receiver is inside a send: whatever fails *)
(* in between, nothing leaves the arm busy for good.                       *)
THEOREM NeverStaysBusy == LinkSpec => []BusyOnlyWhileSending
<1> DEFINE Busy == status = "BUSY" => \E t \in Threads : InSend(t)
<1>1. LinkInit => Busy
  BY DEF LinkInit
<1>2. TypesInv /\ Busy /\ [LinkNext]_linkVars => Busy'
  <2> SUFFICES ASSUME StatesOK, ThreadsOK, Busy, [LinkNext]_linkVars PROVE Busy'
    BY DEF TypesInv
  <2>1. CASE UNCHANGED <<threads, status>>
    BY <2>1 DEF InSend
  <2>2. CASE StartReceiver
    <3>1. UNCHANGED status
      BY <2>2, StartFrame DEF arm
    <3>2. \A t \in Threads : InSend(t) => InSend(t)'
      BY <2>2, StartFrame DEF InSend
    <3> QED
      BY <3>1, <3>2
  <2>3. CASE (LinkerStep \/ ConnectSucceeds \/ ConnectFails) /\ ~StartReceiver
    <3>1. UNCHANGED threads
      BY <2>3, LinkerTypes
    <3>2. UNCHANGED status \/ status' # "BUSY"
      BY <2>3 DEF LinkerStep, ReconnectPoll, ReconnectScan, DropOld, Connecting, ConnectSucceeds,
           ConnectFails, Accept, AcceptEnds, Attach, ProbeStart, Peek, ProbeEnd, Refuse,
           EvictClose, EvictClear, Bind, BindStatus, arm
    <3> QED
      BY <2>1, <3>1, <3>2
  <2>4. ASSUME NEW t \in Threads, ReceiverStep(t) PROVE Busy'
    BY <2>4, SendFrame
  <2>5. CASE StopRunning \/ StopClose \/ StopClear
    <3>1. UNCHANGED threads /\ (UNCHANGED status \/ status' # "BUSY")
      BY <2>5 DEF StopRunning, StopClose, StopClear, arm
    <3> QED
      BY <2>1, <3>1
  <2>6. CASE RobotStep
    BY <2>1, <2>6, RobotTypes DEF controller
  <2> QED
    BY <2>1, <2>2, <2>3, <2>4, <2>5, <2>6 DEF LinkNext, linkVars
<1>3. Busy => BusyOnlyWhileSending
  BY DEF BusyOnlyWhileSending, InSend
<1> QED
  BY <1>1, <1>2, <1>3, TypesKept, PTL DEF LinkSpec

-----------------------------------------------------------------------------
(* Active mode: the status keeps the two threads apart.                    *)

Repairing == {"drop_old", "connecting", "connect", "bind", "bind_status"}
Binding == {"bind", "bind_status"}
Reading == {"read", "recv", "busy", "close", "clear", "set_status"}
Cleaning == {"clear", "set_status"}

Open(c) == c \in Conns /\ conns[c].ours = "open"

(* The reconnect thread repairs a link only while no receiver can use it.  *)
RepairPart ==
    /\ linker.at \in Repairing \cup {"poll", "scan", "start"}
    /\ linker.at \in Repairing => status \in {"DISCONNECTED", "ERROR", "CONNECTING"}

(* A receiver uses, or cleans up, a link that is connected or busy.        *)
ReceiverPart ==
    \A t \in Threads : /\ threads[t].at \in Reading => status = "CONNECTED"
                       /\ InSend(t) => status = "BUSY"

(* The connection being bound is open.                                     *)
NewPart ==
    /\ linker.at \in Binding => Open(linker.holds)
    /\ linker.at = "bind_status" => sock = linker.holds

(* The connection in use is open until the receiver cleans it up.          *)
KeptPart ==
    status \in {"CONNECTED", "BUSY"} /\ (\A t \in Threads : threads[t].at \notin Cleaning)
      => Open(sock)

ActiveParts == RepairPart /\ ReceiverPart /\ NewPart /\ KeptPart
ActiveInv == mode = "active" /\ running => ActiveParts

(* The steps of the reconnect thread.                                      *)
LEMMA ReconnectKeeps ==
    ASSUME StatesOK, ThreadsOK, ActiveParts, mode = "active", running,
           LinkerStep \/ ConnectSucceeds \/ ConnectFails
    PROVE  ActiveParts'
<1> USE DEF ActiveParts, RepairPart, Repairing, Binding
<1>1. CASE StartReceiver
  <2>1. linker.at = "start" /\ linker'.at = "poll" /\ UNCHANGED arm
    BY <1>1, StartFrame
  <2>2. \A t \in Threads : threads'[t].at = threads[t].at \/ threads'[t].at = "check"
    BY <1>1, StartFrame
  <2>3. \A t \in Threads : threads[t].at \in Cleaning => threads'[t].at = threads[t].at
    BY <1>1, StartFrame DEF Cleaning
  <2>4. ReceiverPart' /\ NewPart'
    BY <2>1, <2>2 DEF ReceiverPart, NewPart, Reading, InSend, arm
  <2>5. KeptPart'
    BY <2>1, <2>3 DEF KeptPart, Open, arm
  <2> QED
    BY <2>1, <2>4, <2>5
<1>2. CASE ReconnectPoll \/ ReconnectScan
  <2>1. /\ linker.at \in {"poll", "scan"} /\ UNCHANGED <<threads, arm>>
        /\ \E q : linker' = [linker EXCEPT !.at = q]
        /\ linker'.at \in {"poll", "scan", "ended", "drop_old"}
        /\ linker'.at = "drop_old" => status \in {"DISCONNECTED", "ERROR"}
        /\ linker'.at = "ended" => ~running
    BY <1>2 DEF ReconnectPoll, ReconnectScan, NeedsRepair, LinkerMoves, LinkerBecomes, StatesOK,
         LinkerType
  <2> QED
    BY <2>1 DEF ReceiverPart, NewPart, KeptPart, Open, InSend, arm
<1>3. CASE DropOld \/ Connecting \/ ConnectFails \/ ConnectSucceeds \/ Bind
  <2>1. /\ linker.at \in Repairing /\ UNCHANGED threads
        /\ linker'.at \in {"start", "poll"} \cup Repairing
        /\ status' \in {"DISCONNECTED", "ERROR", "CONNECTING"}
    BY <1>3 DEF DropOld, Connecting, ConnectFails, ConnectSucceeds, Bind, LinkerMoves,
         LinkerBecomes, StatesOK, LinkerType, arm
  <2>2. \A t \in Threads : threads[t].at \notin Reading /\ ~InSend(t)
    BY <2>1 DEF ReceiverPart
  <2>3. ReceiverPart' /\ KeptPart'
    BY <2>1, <2>2 DEF ReceiverPart, KeptPart, InSend
  <2>4. NewPart'
    <3>1. CASE ConnectSucceeds
      <4>1. PICK c \in Conns :
                /\ linker' = [linker EXCEPT !.at = "bind", !.holds = c]
                /\ conns' = [conns EXCEPT ![c] = [NoConn EXCEPT !.ours = "open", !.peer = "open"]]
        BY <3>1 DEF ConnectSucceeds, LinkerBecomes
      <4>2. linker'.at = "bind" /\ linker'.holds = c
        BY <4>1 DEF StatesOK, LinkerType
      <4>3. [NoConn EXCEPT !.ours = "open", !.peer = "open"].ours = "open"
        BY DEF NoConn
      <4>4. conns'[c].ours = "open"
        BY <4>1, <4>3 DEF StatesOK
      <4> QED
        BY <4>2, <4>4 DEF NewPart, Open
    <3>2. CASE Bind
      <4>1. /\ linker.at = "bind" /\ linker'.holds = linker.holds
            /\ sock' = linker.holds /\ UNCHANGED conns
        BY <3>2 DEF Bind, LinkerMoves, LinkerBecomes, StatesOK, LinkerType
      <4> QED
        BY <4>1 DEF NewPart, Open
    <3>3. CASE DropOld \/ Connecting \/ ConnectFails
      <4>1. linker'.at \notin Binding
        BY <3>3 DEF DropOld, Connecting, ConnectFails, LinkerMoves, LinkerBecomes, StatesOK,
           LinkerType
      <4> QED
        BY <4>1 DEF NewPart
    <3> QED
      BY <1>3, <3>1, <3>2, <3>3
  <2> QED
    BY <2>1, <2>3, <2>4
<1>4. CASE BindStatus
  <2>1. /\ linker.at = "bind_status" /\ linker'.at = "start" /\ status' = "CONNECTED"
        /\ UNCHANGED <<threads, sock, conns>>
    BY <1>4 DEF BindStatus, LinkerMoves, LinkerBecomes, StatesOK, LinkerType
  <2>2. \A t \in Threads : ~InSend(t)
    BY <2>1 DEF ReceiverPart
  <2> QED
    BY <2>1, <2>2 DEF ReceiverPart, NewPart, KeptPart, Open, InSend
<1>5. CASE \/ \E c \in Conns : Accept(c)
           \/ AcceptEnds \/ Attach \/ ProbeStart \/ Peek \/ ProbeEnd \/ Refuse
           \/ EvictClose \/ EvictClear
  BY <1>5 DEF Accept, AcceptEnds, Attach, ProbeStart, Peek, ProbeEnd, Refuse, EvictClose,
     EvictClear, LinkerMoves, LinkerBecomes
<1> QED
  BY <1>1, <1>2, <1>3, <1>4, <1>5 DEF LinkerStep

(* A receiver's steps: where it comes from and goes to, and what it does   *)
(* to the status and the socket.                                           *)
LEMMA ReaderMoves ==
    ASSUME StatesOK, ThreadsOK, NEW t \in Threads, mode = "active",
           CheckLink(t) \/ SendCheck(t) \/ SendBusy(t) \/ SendEnds(t)
             \/ CloseSock(t) \/ ClearSock(t) \/ SetStatus(t)
    PROVE  \/ /\ threads[t].at = "check" /\ UNCHANGED arm
              /\ threads'[t].at = "leave" \/ (threads'[t].at = "read" /\ status = "CONNECTED")
           \/ /\ threads[t].at = "send" /\ UNCHANGED arm
              /\ threads'[t].at = "commands" \/ (threads'[t].at = "busy" /\ status = "CONNECTED")
           \/ /\ threads[t].at = "busy" /\ threads'[t].at = "sending"
              /\ status' = "BUSY" /\ UNCHANGED <<sock, conns>>
           \/ /\ threads[t].at \in {"sent", "failed"} /\ threads'[t].at = "commands"
              /\ status' \in {"CONNECTED", "ERROR"} /\ UNCHANGED <<sock, conns>>
           \/ /\ threads[t].at \in {"close", "clear"} /\ threads'[t].at \in Cleaning
              /\ UNCHANGED status
           \/ /\ threads[t].at = "set_status" /\ threads'[t].at = "leave"
              /\ status' = "DISCONNECTED" /\ UNCHANGED <<sock, conns>>
<1>1. CASE CheckLink(t) \/ SendCheck(t)
  BY <1>1, MovesFrame DEF CheckLink, SendCheck
<1>2. CASE SendBusy(t)
  BY <1>2, MovesFrame DEF SendBusy
<1>3. CASE SendEnds(t)
  BY <1>3, MovesFrame DEF SendEnds, AfterFailure
<1>4. CASE CloseSock(t)
  BY <1>4, MovesFrame DEF CloseSock, Cleaning
<1>5. CASE ClearSock(t)
  BY <1>5, MovesFrame DEF ClearSock, Cleaning
<1>6. CASE SetStatus(t)
  BY <1>6, MovesFrame DEF SetStatus, StatusWhenLost
<1> QED
  BY <1>1, <1>2, <1>3, <1>4, <1>5, <1>6

(* The receiver's other steps change no status and no open end, and stay   *)
(* within what the status allows.                                          *)
LEMMA ReaderWorks ==
    ASSUME StatesOK, ThreadsOK, NEW t \in Threads,
           \/ ReadSock(t) \/ ReceiveBatch(t) \/ ReceiveFails(t) \/ HandleCommand(t)
           \/ BatchDone(t) \/ SendDelivered(t) \/ SendRaises(t) \/ Leave(t)
    PROVE  /\ UNCHANGED <<status, sock>> /\ \A c \in Conns : conns'[c].ours = conns[c].ours
           /\ threads[t].at \notin Cleaning /\ threads'[t].at \notin Cleaning
           /\ threads'[t].at \in Reading => threads[t].at \in Reading
           /\ InSend(t)' => InSend(t)
<1> USE DEF Cleaning, Reading, InSend
<1>1. ASSUME NEW p, NEW q, NEW ref \in Conns \cup {NoSock}, NEW cmds,
             ReceiverBecomes(t, p, Receiver(q, ref, cmds))
      PROVE  threads[t].at = p /\ threads'[t].at = q
  <2>1. Receiver(q, ref, cmds).ref = ref /\ Receiver(q, ref, cmds).at = q
    BY DEF Receiver
  <2> QED
    BY <1>1, <2>1, ReceiverFrame
<1>2. CASE ReadSock(t)
  <2>1. threads[t].at = "read" /\ threads'[t].at \in {"recv", "close"}
    <3>1. sock \in Conns \cup {NoSock} /\ NoSock \in Conns \cup {NoSock}
      BY DEF StatesOK
    <3>2. \/ ReceiverBecomes(t, "read", Receiver("recv", sock, <<>>))
          \/ ReceiverBecomes(t, "read", Receiver("close", NoSock, <<>>))
      BY <1>2 DEF ReadSock, NewReceiver
    <3> QED
      BY <3>1, <3>2, <1>1
  <2> QED
    BY <1>2, <2>1 DEF ReadSock, arm
<1>3. CASE ReceiveBatch(t)
  <2>1. threads[t].at = "recv" /\ threads'[t].at = "commands"
    BY <1>3, <1>1 DEF ReceiveBatch
  <2>2. threads[t].ref \in Conns \cup {NoSock}
    BY DEF ThreadsOK
  <2>3. \A c \in Conns : conns'[c].ours = conns[c].ours
    BY <1>3, <2>2, TakeStep DEF ReceiveBatch, StatesOK
  <2> QED
    BY <1>3, <2>1, <2>3 DEF ReceiveBatch
<1>4. CASE ReceiveFails(t)
  <2>1. threads[t].at = "recv" /\ threads'[t].at = "close"
    BY <1>4, <1>1 DEF ReceiveFails, NewReceiver
  <2> QED
    BY <1>4, <2>1 DEF ReceiveFails, arm
<1>5. CASE HandleCommand(t)
  <2>1. threads[t].at = "commands" /\ threads'[t].at \in {"commands", "send"}
    BY <1>5, <1>1 DEF HandleCommand
  <2> QED
    BY <1>5, <2>1 DEF HandleCommand, arm
<1>6. CASE BatchDone(t) \/ Leave(t) \/ SendDelivered(t) \/ SendRaises(t)
  <2>1. \/ threads[t].at = "commands" /\ threads'[t].at = "check"
        \/ threads[t].at = "leave" /\ threads'[t].at = "dead"
        \/ threads[t].at = "sending" /\ threads'[t].at \in {"sent", "failed"}
    BY <1>6, MovesFrame DEF BatchDone, Leave, SendDelivered, SendRaises
  <2> QED
    BY <1>6, <2>1 DEF BatchDone, Leave, SendDelivered, SendRaises, arm
<1> QED
  BY <1>2, <1>3, <1>4, <1>5, <1>6

LEMMA ReceiverKeeps ==
    ASSUME StatesOK, ThreadsOK, ReceiverInv, ActiveParts, mode = "active", running,
           NEW t \in Threads, ReceiverStep(t)
    PROVE  ActiveParts'
<1>1. /\ \A u \in Threads \ {t} : threads[u].at = "dead" /\ threads'[u].at = "dead"
      /\ UNCHANGED linker
  BY ReceiverStepFrame DEF ReceiverInv, running
<1>2. CASE \/ ReadSock(t) \/ ReceiveBatch(t) \/ ReceiveFails(t) \/ HandleCommand(t)
           \/ BatchDone(t) \/ SendDelivered(t) \/ SendRaises(t) \/ Leave(t)
  <2>1. RepairPart' /\ ReceiverPart' /\ NewPart' /\ KeptPart'
    BY <1>1, <1>2, ReaderWorks
    DEF ActiveParts, RepairPart, ReceiverPart, NewPart, KeptPart, Open, InSend, Reading, Cleaning
  <2> QED
    BY <2>1 DEF ActiveParts
<1>3. CASE \/ CheckLink(t) \/ SendCheck(t) \/ SendBusy(t) \/ SendEnds(t)
           \/ CloseSock(t) \/ ClearSock(t) \/ SetStatus(t)
  <2>1. CASE UNCHANGED arm
    BY <1>1, <1>3, <2>1, ReaderMoves
    DEF ActiveParts, RepairPart, ReceiverPart, NewPart, KeptPart, Open, InSend, Reading,
        Cleaning, arm
  <2>2. CASE ~UNCHANGED arm
    <3>1. status \in {"CONNECTED", "BUSY"} /\ linker.at \notin Repairing
      BY <1>3, <2>2, ReaderMoves
      DEF ActiveParts, RepairPart, ReceiverPart, Reading, InSend
    <3>2. RepairPart' /\ NewPart'
      BY <1>1, <3>1 DEF ActiveParts, RepairPart, NewPart, Repairing, Binding
    <3>3. ReceiverPart'
      BY <1>1, <1>3, <2>2, ReaderMoves DEF ActiveParts, ReceiverPart, Reading, InSend, Cleaning
    <3>4. KeptPart'
      BY <1>1, <1>3, <2>2, <3>1, ReaderMoves DEF ActiveParts, KeptPart, Open, Cleaning
    <3> QED
      BY <3>2, <3>3, <3>4 DEF ActiveParts
  <2> QED
    BY <2>1, <2>2
<1> QED
  BY <1>2, <1>3 DEF ReceiverStep

(* The robot closes, breaks or fills a connection, but not our end of it,  *)
(* and it opens none in active mode.                                       *)
LEMMA RobotKeeps ==
    ASSUME StatesOK, ActiveParts, mode = "active", RobotStep
    PROVE  ActiveParts'
<1>1. UNCHANGED controller
  BY RobotTypes
<1>2. \A c \in Conns : conns'[c].ours = conns[c].ours
  BY PeerStep DEF RobotStep, RobotLeaves, RobotConnects, RobotGivesUp, RobotNoticedLost,
     StatesOK
<1> QED
  BY <1>1, <1>2
  DEF controller, ActiveParts, RepairPart, ReceiverPart, NewPart, KeptPart, Open, InSend

LEMMA ActiveKept == LinkSpec => []ActiveInv
<1>1. LinkInit => ActiveInv
  BY DEF LinkInit, ActiveInv, ActiveParts, RepairPart, ReceiverPart, NewPart, KeptPart,
     Repairing, Binding, Reading, InSend, NewReceiver, Receiver
<1>2. TypesInv /\ ReceiverInv /\ ActiveInv /\ [LinkNext]_linkVars => ActiveInv'
  <2> SUFFICES ASSUME StatesOK, ThreadsOK, ReceiverInv, ActiveInv, [LinkNext]_linkVars,
                      mode' = "active", running'
               PROVE  ActiveParts'
    BY DEF TypesInv, ActiveInv
  <2>1. mode = "active" /\ running /\ ~(StopRunning \/ StopClose \/ StopClear)
    <3>1. ~(StopRunning \/ StopClose \/ StopClear)
      BY DEF StopRunning, StopClose, StopClear, running
    <3>2. UNCHANGED <<mode, stopper>>
      <4>1. CASE \E t \in Threads : ReceiverStep(t)
        BY <4>1, ReceiverStepFrame
      <4>2. CASE StartReceiver
        BY <4>2, StartFrame
      <4>3. CASE (LinkerStep \/ ConnectSucceeds \/ ConnectFails) /\ ~StartReceiver
        BY <4>3, LinkerTypes
      <4>4. CASE RobotStep
        BY <4>4, RobotTypes DEF controller
      <4>5. CASE UNCHANGED linkVars
        BY <4>5 DEF linkVars
      <4> QED
        BY <3>1, <4>1, <4>2, <4>3, <4>4, <4>5 DEF LinkNext
    <3> QED
      BY <3>1, <3>2 DEF running
  <2>2. ActiveParts
    BY <2>1 DEF ActiveInv
  <2>3. CASE UNCHANGED linkVars
    BY <2>2, <2>3 DEF linkVars, ActiveParts, RepairPart, ReceiverPart, NewPart, KeptPart, Open,
       InSend
  <2>4. CASE LinkerStep \/ ConnectSucceeds \/ ConnectFails
    BY <2>1, <2>2, <2>4, ReconnectKeeps
  <2>5. ASSUME NEW t \in Threads, ReceiverStep(t) PROVE ActiveParts'
    BY <2>1, <2>2, <2>5, ReceiverKeeps
  <2>6. CASE RobotStep
    BY <2>1, <2>2, <2>6, RobotKeeps
  <2> QED
    BY <2>1, <2>3, <2>4, <2>5, <2>6 DEF LinkNext
<1> QED
  BY <1>1, <1>2, TypesKept, ReceiverKept, PTL DEF LinkSpec

(* Active mode, before stop(): a connected arm has an open socket, unless  *)
(* its receiver is just cleaning up.  So a late clean-up never closes the  *)
(* connection the reconnect thread made, though both run without the lock. *)
THEOREM ConnectedStaysOpen == LinkSpec => []ConnectedIsOpen
<1>1. ActiveInv => ConnectedIsOpen
  BY DEF ActiveInv, ActiveParts, KeptPart, ConnectedIsOpen, Open, OursOpen, Held, Cleaning
<1> QED
  BY <1>1, ActiveKept, PTL

-----------------------------------------------------------------------------
(* The commands of a batch.                                                *)

(* A set of natural numbers that is not empty has a smallest element.      *)
LEMMA SmallestExists ==
    ASSUME NEW T, T \subseteq Nat, T # {}
    PROVE  \E x \in T : \A y \in T : x <= y
<1> DEFINE R == OpToRel(<, Nat)
<1>1. IsWellFoundedOn(R, Nat)
  BY NatLessThanWellFounded
<1>2. PICK x \in T : \A y \in T : ~(<<y, x>> \in R)
  <2> HIDE DEF R
  <2> QED
    BY <1>1, WFMin
<1>3. \A y \in T : ~(y < x)
  BY <1>2 DEF OpToRel
<1> QED
  BY <1>3

(* g holds the commands after each of the first n words of a batch.        *)
KeptUpTo(g, batch, n) ==
    g = [i \in 0 .. n |-> IF i = 0 THEN <<>> ELSE Extended(g[i - 1], batch[i])]

(* The loop over a batch has a result: one round follows from the last.    *)
LEMMA KeptExists ==
    ASSUME NEW batch, NEW m \in Nat
    PROVE  \E g : KeptUpTo(g, batch, m)
<1> DEFINE T == {n \in Nat : ~\E g : KeptUpTo(g, batch, n)}
<1>1. SUFFICES ASSUME T # {} PROVE FALSE
  OBVIOUS
<1>2. PICK n \in T : \A k \in T : n <= k
  BY <1>1, SmallestExists
<1>3. CASE n = 0
  <2> DEFINE h == [i \in 0 .. 0 |-> <<>>]
  <2>1. h = [i \in 0 .. 0 |-> IF i = 0 THEN <<>> ELSE Extended(h[i - 1], batch[i])]
    OBVIOUS
  <2> QED
    BY <1>2, <1>3, <2>1 DEF KeptUpTo
<1>4. CASE n # 0
  <2>1. n \in Nat /\ n - 1 \in Nat /\ n - 1 \notin T
    BY <1>2, <1>4
  <2>2. PICK g : KeptUpTo(g, batch, n - 1)
    BY <2>1
  <2> DEFINE h == [i \in 0 .. n |-> IF i = n THEN Extended(g[n - 1], batch[n]) ELSE g[i]]
             next == [i \in 0 .. n |-> IF i = 0 THEN <<>> ELSE Extended(h[i - 1], batch[i])]
  <2>3. ASSUME NEW i \in 0 .. n PROVE h[i] = next[i]
    <3>1. \A j \in 0 .. n - 1 :
            g[j] = (IF j = 0 THEN <<>> ELSE Extended(g[j - 1], batch[j])) /\ h[j] = g[j]
      BY <2>1, <2>2 DEF KeptUpTo
    <3>2. CASE i = n
      <4>1. h[n] = Extended(g[n - 1], batch[n]) /\ h[n - 1] = g[n - 1]
        BY <2>1, <3>1
      <4> QED
        BY <1>4, <3>2, <4>1
    <3>3. CASE i # n
      <4>1. i \in 0 .. n - 1 /\ (i # 0 => i - 1 \in 0 .. n - 1)
        BY <2>1, <3>3
      <4> QED
        BY <3>1, <4>1
    <3> QED
      BY <3>2, <3>3
  <2>4. h = next
    BY <2>3
  <2>5. KeptUpTo(h, batch, n)
    BY <2>4 DEF KeptUpTo
  <2> HIDE DEF h
  <2> QED
    BY <1>2, <2>5
<1> QED
  BY <1>3, <1>4

(* Commands in which a robot that asks twice has finished in between.      *)
AsksOnce(cmds) == \A i \in 1 .. Len(cmds) - 1 : ~(cmds[i] = "data" /\ cmds[i + 1] = "data")
Commands == {cmds \in Seq({"data", "1"}) : AsksOnce(cmds)}

LEMMA ExtendedCommands ==
    ASSUME NEW kept \in Commands, NEW w \in {"data", "ok", "1"}
    PROVE  Extended(kept, w) \in Commands
<1>1. CASE w = "ok" \/ (w = "data" /\ kept # <<>> /\ Last(kept) = "data")
  BY <1>1 DEF Extended
<1>2. CASE ~(w = "ok" \/ (w = "data" /\ kept # <<>> /\ Last(kept) = "data"))
  <2> DEFINE new == Append(kept, w)
  <2>1. Extended(kept, w) = new
    BY <1>2 DEF Extended
  <2>2. kept \in Seq({"data", "1"}) /\ Len(kept) \in Nat /\ w \in {"data", "1"}
    BY <1>2 DEF Commands
  <2>3. /\ new \in Seq({"data", "1"}) /\ Len(new) = Len(kept) + 1
        /\ new[Len(kept) + 1] = w
        /\ \A i \in 1 .. Len(kept) : new[i] = kept[i]
    BY <2>2
  <2> HIDE DEF new
  <2>4. ASSUME NEW i \in 1 .. Len(new) - 1, new[i] = "data", new[i + 1] = "data"
        PROVE  FALSE
    <3>1. CASE i = Len(kept)
      <4>1. kept # <<>> /\ kept[Len(kept)] = "data" /\ w = "data"
        BY <2>2, <2>3, <2>4, <3>1
      <4> QED
        BY <1>2, <4>1 DEF Last
    <3>2. CASE i # Len(kept)
      <4>1. i \in 1 .. Len(kept) - 1 /\ kept[i] = "data" /\ kept[i + 1] = "data"
        BY <2>2, <2>3, <2>4, <3>2
      <4> QED
        BY <4>1 DEF Commands, AsksOnce
    <3> QED
      BY <3>1, <3>2
  <2>5. AsksOnce(new)
    BY <2>4 DEF AsksOnce
  <2> QED
    BY <2>1, <2>3, <2>5 DEF Commands
<1> QED
  BY <1>1, <1>2

LEMMA NoCommands == <<>> \in Commands
BY DEF Commands, AsksOnce

(* Whatever a batch holds, between two data commands of it that are handed *)
(* on there is a completion.                                               *)
LEMMA CommandsExtracted ==
    ASSUME NEW batch \in Seq({"data", "ok", "1"})
    PROVE  ExtractCommands(batch) \in Commands
<1> DEFINE m == Len(batch)
           kept == CHOOSE g : KeptUpTo(g, batch, m)
<1>1. m \in Nat
  OBVIOUS
<1>2. KeptUpTo(kept, batch, m)
  BY <1>1, KeptExists
<1>3. ExtractCommands(batch) = kept[m]
  BY DEF ExtractCommands, KeptUpTo
<1> HIDE DEF kept
<1>4. /\ kept[0] = <<>>
      /\ \A i \in 1 .. m : kept[i] = Extended(kept[i - 1], batch[i])
  BY <1>1, <1>2 DEF KeptUpTo
<1>5. \A i \in 0 .. m : kept[i] \in Commands
  <2> DEFINE T == {i \in 0 .. m : kept[i] \notin Commands}
  <2>1. SUFFICES ASSUME T # {} PROVE FALSE
    OBVIOUS
  <2>2. PICK i \in T : \A k \in T : i <= k
    <3>1. T \subseteq Nat /\ T # {}
      BY <1>1, <2>1
    <3> HIDE DEF T
    <3> QED
      BY <3>1, SmallestExists
  <2>3. i # 0 /\ i \in 1 .. m
    BY <1>1, <1>4, <2>2, NoCommands
  <2>4. i - 1 \in 0 .. m /\ i - 1 \notin T
    BY <1>1, <2>2, <2>3
  <2>5. kept[i - 1] \in Commands /\ batch[i] \in {"data", "ok", "1"}
    BY <2>3, <2>4
  <2>6. kept[i] \in Commands
    BY <1>4, <2>3, <2>5, ExtendedCommands
  <2> QED
    BY <2>2, <2>6
<1> QED
  BY <1>1, <1>3, <1>5

(* Handing on the first command leaves commands of the same kind.          *)
LEMMA CommandsLeft ==
    ASSUME NEW cmds \in Commands, cmds # <<>>
    PROVE  Tail(cmds) \in Commands
<1>1. cmds \in Seq({"data", "1"}) /\ Len(cmds) \in Nat \ {0}
  BY DEF Commands
<1>2. /\ Tail(cmds) \in Seq({"data", "1"}) /\ Len(Tail(cmds)) = Len(cmds) - 1
      /\ \A i \in 1 .. Len(cmds) - 1 : Tail(cmds)[i] = cmds[i + 1]
  BY <1>1
<1>3. AsksOnce(Tail(cmds))
  <2> SUFFICES ASSUME NEW i \in 1 .. Len(Tail(cmds)) - 1
               PROVE  ~(Tail(cmds)[i] = "data" /\ Tail(cmds)[i + 1] = "data")
    BY DEF AsksOnce
  <2>1. /\ i + 1 \in 1 .. Len(cmds) - 1
        /\ Tail(cmds)[i] = cmds[i + 1] /\ Tail(cmds)[i + 1] = cmds[i + 1 + 1]
    BY <1>1, <1>2
  <2> QED
    BY <2>1 DEF Commands, AsksOnce
<1> QED
  BY <1>2, <1>3 DEF Commands

-----------------------------------------------------------------------------
(* The receiver threads, with the commands they have still to hand on.     *)

Places == {"dead", "check", "read", "recv", "commands", "send", "busy", "sending", "sent",
           "failed", "close", "clear", "set_status", "leave"}
Receivers == {r \in [at : Places, ref : Conns \cup {NoSock}, cmds : Commands] :
                r.at = "recv" => r.ref \in Conns}
Statuses == {"DISCONNECTED", "CONNECTING", "CONNECTED", "BUSY", "ERROR", "LISTENING"}

FieldsInv ==
    /\ mode \in Modes
    /\ status \in Statuses
    /\ stopper \in {"idle", "close", "clear", "stopped"}
    /\ threads \in [Threads -> Receivers]

LEMMA ReceiverTyped ==
    ASSUME NEW p \in Places, NEW ref \in Conns \cup {NoSock}, NEW cmds \in Commands,
           p = "recv" => ref \in Conns
    PROVE  Receiver(p, ref, cmds) \in Receivers
BY DEF Receiver, Receivers

LEMMA MovesTyped ==
    ASSUME FieldsInv, NEW t \in Threads, NEW p, NEW q \in Places \ {"recv"},
           ReceiverMoves(t, p, q)
    PROVE  threads' \in [Threads -> Receivers]
<1>1. threads[t].ref \in Conns \cup {NoSock} /\ threads[t].cmds \in Commands
  BY DEF FieldsInv, Receivers
<1>2. Receiver(q, threads[t].ref, threads[t].cmds) \in Receivers
  BY <1>1, ReceiverTyped
<1> QED
  BY <1>2 DEF FieldsInv, ReceiverMoves, ReceiverBecomes

LEMMA BecomesTyped ==
    ASSUME FieldsInv, NEW t \in Threads, NEW p, NEW r \in Receivers, ReceiverBecomes(t, p, r)
    PROVE  threads' \in [Threads -> Receivers]
BY DEF FieldsInv, ReceiverBecomes

LEMMA ReceiverFields ==
    ASSUME StatesOK, ThreadsOK, FieldsInv, NEW t \in Threads, ReceiverStep(t)
    PROVE  FieldsInv'
<1>1. UNCHANGED <<mode, stopper>>
  BY ReceiverStepFrame
<1>2. status' \in Statuses
  <2>1. status' \in {status, "BUSY", "CONNECTED", "ERROR", "LISTENING", "DISCONNECTED"}
    BY DEF ReceiverStep, arm, CheckLink, ReadSock, ReceiveBatch, ReceiveFails, HandleCommand,
           BatchDone, SendCheck, SendBusy, SendDelivered, SendRaises, SendEnds, CloseSock,
           ClearSock, SetStatus, Leave, AfterFailure, StatusWhenLost
  <2> QED
    BY <2>1 DEF FieldsInv, Statuses
<1>3. threads' \in [Threads -> Receivers]
  <2>1. CASE \E p : \E q \in Places \ {"recv"} : ReceiverMoves(t, p, q)
    BY <2>1, MovesTyped
  <2>2. NewReceiver("close") \in Receivers
    BY NoCommands, ReceiverTyped DEF NewReceiver, Places
  <2>3. CASE ReadSock(t)
    <3>1. sock \in Conns => Receiver("recv", sock, <<>>) \in Receivers
      BY NoCommands, ReceiverTyped DEF Places
    <3>2. \E r \in Receivers : ReceiverBecomes(t, "read", r)
      BY <2>2, <2>3, <3>1 DEF ReadSock, OursOpen
    <3> QED
      BY <3>2, BecomesTyped
  <2>4. CASE ReceiveBatch(t)
    <3> DEFINE c == threads[t].ref
               batch == Head(conns[c].unread)
    <3>1. threads[t].at = "recv" /\ conns[c].unread # <<>>
      BY <2>4 DEF ReceiveBatch, At
    <3>2. c \in Conns
      BY <3>1 DEF FieldsInv, Receivers
    <3>3. conns[c].unread \in Seq(Batches)
      BY <3>2 DEF StatesOK, ConnType
    <3>4. batch \in Batches
      BY <3>1, <3>3
    <3>5. ExtractCommands(batch) \in Commands
      BY <3>4, CommandsExtracted, LinkAssumption
    <3>6. Receiver("commands", NoSock, ExtractCommands(batch)) \in Receivers
      BY <3>5, ReceiverTyped DEF Places
    <3> QED
      BY <2>4, <3>6, BecomesTyped DEF ReceiveBatch
  <2>5. CASE ReceiveFails(t)
    BY <2>2, <2>5, BecomesTyped DEF ReceiveFails
  <2>6. CASE HandleCommand(t)
    <3>1. PICK next \in {"commands", "send"} :
            ReceiverBecomes(t, "commands", Receiver(next, NoSock, Tail(threads[t].cmds)))
      BY <2>6 DEF HandleCommand
    <3>2. threads[t].cmds \in Commands /\ threads[t].cmds # <<>>
      BY <2>6 DEF FieldsInv, Receivers, HandleCommand
    <3>3. Tail(threads[t].cmds) \in Commands
      BY <3>2, CommandsLeft
    <3>4. Receiver(next, NoSock, Tail(threads[t].cmds)) \in Receivers
      BY <3>1, <3>3, ReceiverTyped DEF Places
    <3> QED
      BY <3>1, <3>4, BecomesTyped
  <2>7. ReadSock(t) \/ ReceiveBatch(t) \/ ReceiveFails(t) \/ HandleCommand(t)
          \/ \E p : \E q \in Places \ {"recv"} : ReceiverMoves(t, p, q)
    BY DEF ReceiverStep, CheckLink, BatchDone, SendCheck, SendBusy, SendDelivered, SendRaises,
           SendEnds, CloseSock, ClearSock, SetStatus, Leave, Places
  <2> QED
    BY <2>1, <2>3, <2>4, <2>5, <2>6, <2>7
<1> QED
  BY <1>1, <1>2, <1>3 DEF FieldsInv

LEMMA LinkerFields ==
    ASSUME StatesOK, FieldsInv, LinkerStep \/ ConnectSucceeds \/ ConnectFails, ~StartReceiver
    PROVE  FieldsInv'
<1>1. UNCHANGED <<mode, threads, stopper>>
  BY LinkerTypes
<1>2. status' \in {status, "CONNECTING", "ERROR", "CONNECTED"}
  BY DEF LinkerStep, arm, ReconnectPoll, ReconnectScan, DropOld, Connecting, ConnectSucceeds,
         ConnectFails, Accept, AcceptEnds, Attach, ProbeStart, Peek, ProbeEnd, Refuse,
         EvictClose, EvictClear, Bind, BindStatus
<1> QED
  BY <1>1, <1>2 DEF FieldsInv, Statuses

LEMMA FieldsKept == LinkSpec => []FieldsInv
<1>1. LinkInit => FieldsInv
  <2> SUFFICES ASSUME LinkInit PROVE FieldsInv
    OBVIOUS
  <2>1. NewReceiver("dead") \in Receivers
    BY NoCommands, ReceiverTyped DEF NewReceiver, Places
  <2> QED
    BY <2>1 DEF LinkInit, FieldsInv, Statuses
<1>2. TypesInv /\ FieldsInv /\ [LinkNext]_linkVars => FieldsInv'
  <2> SUFFICES ASSUME StatesOK, ThreadsOK, FieldsInv, [LinkNext]_linkVars PROVE FieldsInv'
    BY DEF TypesInv
  <2>1. CASE UNCHANGED linkVars
    BY <2>1 DEF linkVars, FieldsInv
  <2>2. CASE StartReceiver
    <3>1. NewReceiver("check") \in Receivers
      BY NoCommands, ReceiverTyped DEF NewReceiver, Places
    <3>2. UNCHANGED <<mode, stopper, status>>
      BY <2>2 DEF StartReceiver, arm
    <3>3. threads' \in [Threads -> Receivers]
      BY <2>2, <3>1 DEF StartReceiver, FieldsInv
    <3> QED
      BY <3>2, <3>3 DEF FieldsInv
  <2>3. CASE (LinkerStep \/ ConnectSucceeds \/ ConnectFails) /\ ~StartReceiver
    BY <2>3, LinkerFields
  <2>4. ASSUME NEW t \in Threads, ReceiverStep(t) PROVE FieldsInv'
    BY <2>4, ReceiverFields
  <2>5. CASE StopRunning \/ StopClose \/ StopClear
    BY <2>5 DEF StopRunning, StopClose, StopClear, arm, FieldsInv, Statuses
  <2>6. CASE RobotStep
    BY <2>6, RobotTypes DEF FieldsInv, controller
  <2> QED
    BY <2>1, <2>2, <2>3, <2>4, <2>5, <2>6 DEF LinkNext
<1> QED
  BY <1>1, <1>2, TypesKept, PTL DEF LinkSpec

(* Every variable of a robot's link stays in its range, the commands that  *)
(* _extract_commands found and the callback has not had yet included.      *)
THEOREM ArmTypeCorrect == LinkSpec => []LinkTypeOK
<1>1. TypesInv /\ FieldsInv => LinkTypeOK
  BY DEF TypesInv, StatesOK, LinkerType, FieldsInv, Statuses, Receivers, Places, Commands,
         LinkTypeOK
<1> QED
  BY <1>1, TypesKept, FieldsKept, PTL

(* Of a batch of any length, no two data commands that the callback gets   *)
(* follow each other: a completion is between them (_extract_commands), so *)
(* a robot that asks twice in one write gets one answer.                   *)
THEOREM AskedOnce == LinkSpec => []BatchAsksOnce
<1>1. FieldsInv => BatchAsksOnce
  BY DEF FieldsInv, Receivers, Commands, AsksOnce, BatchAsksOnce
<1> QED
  BY <1>1, FieldsKept, PTL
=============================================================================
