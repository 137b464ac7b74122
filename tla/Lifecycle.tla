------------------------------ MODULE Lifecycle ------------------------------
(***************************************************************************)
(* Start-up and shutdown of the Python program: the main thread of         *)
(* main.py, the two servers of core/plc_handler.py and their threads.      *)
(*                                                                         *)
(* A signal runs shutdown on the main thread, on top of whatever it is     *)
(* doing, and then raises SystemExit.  The main thread is therefore a      *)
(* stack of calls: start_system at the bottom, a signal handler for each   *)
(* signal that came.  The locks are not reentrant, so a handler that wants *)
(* a lock which a call under it holds waits for itself.                    *)
(*                                                                         *)
(* The camera server, the arm controller and the dashboard are started and *)
(* stopped as a whole (CameraLink and ArmLink have their threads), and of  *)
(* the camera server's lock only the uses on the main thread are here.     *)
(* A connection keeps its number for good: DequeuePort has addresses that  *)
(* are used again, and what the dequeue frames mean.                       *)
(***************************************************************************)
EXTENDS Naturals, Sequences, FiniteSets

CONSTANTS
    Conns,          \* bound: connections the PLC makes
    MaxSignals      \* bound: signals sent to the program

ASSUME LifecycleAssumption == IsFiniteSet(Conns) /\ MaxSignals \in Nat

Servers == {"enqueue", "dequeue"}
Parts == {"camera", "arms", "dashboard"}

VARIABLES
    main,               \* the calls of the main thread, the handlers on top
    finally,            \* start_system has left its try part
    modules,            \* self.modules is not empty
    system_running,     \* the main loop goes on
    parts,              \* the other parts that run
    raised,             \* a stop() raised out of shutdown
    running,            \* the PLC handler's running
    servers,            \* [Servers -> the listening socket]
    acceptors,          \* the accept threads
    conns,              \* what became of each connection
    connections,        \* self.connections
    threads,            \* self.connection_threads: it only grows
    readers,            \* the thread of each connection
    signals             \* signals so far

mainVars == <<main, finally, modules, system_running, parts, raised, signals>>
plcVars == <<running, servers, acceptors, conns, connections, threads, readers>>
lifeVars == <<mainVars, plcVars>>

(* A call is at a place of its code, with the connections it goes through. *)
Call(p, ids) == [at |-> p, ids |-> ids]
Top == IF main = <<>> THEN Call("ended", {}) ELSE main[Len(main)]
Rest == SubSeq(main, 1, Len(main) - 1)

(* Plausible bug: stop() closes the connections under the lock.            *)
UnderConnLockLong == {"plc_status", "copy_ids", "close_next", "closing"}

UnderConnLock == {"plc_status", "copy_ids", "closing"}
UnderCameraLock == {"camera_status", "camera_detach"}

LockFree(places) == \A i \in 1 .. Len(main) : main[i].at \notin places

(* The top call goes on at q with ids.                                     *)
GoesOn(p, q, ids) ==
    Top.at = p /\ main' = Append(Rest, Call(q, ids))
Moves(p, q) == GoesOn(p, q, Top.ids)

LifeInit ==
    /\ main = <<Call("initialize", {})>>
    /\ finally = FALSE /\ modules = FALSE /\ system_running = FALSE
    /\ parts = {} /\ raised = FALSE
    /\ running = FALSE
    /\ servers = [s \in Servers |-> "none"]
    /\ acceptors = [s \in Servers |-> [at |-> "none", holds |-> {}]]
    /\ conns = [c \in Conns |-> "none"]
    /\ connections = {} /\ threads = {}
    /\ readers = [c \in Conns |-> "none"]
    /\ signals = 0

-----------------------------------------------------------------------------
(* start_system, start_servers and connect_modules.  A failure leads to    *)
(* the finally clause.                                                     *)

Fails(p) == Moves(p, "shutdown") /\ finally' = TRUE

Initialize ==
    /\ \/ Moves("initialize", "start_enqueue") /\ modules' = TRUE /\ UNCHANGED finally
       \/ Fails("initialize") /\ modules' \in BOOLEAN
    /\ UNCHANGED <<system_running, parts, raised, signals, plcVars>>

Listens(s) ==
    /\ servers' = [servers EXCEPT ![s] = "listening"]
    /\ acceptors' = [acceptors EXCEPT ![s].at = "accept"]

StartEnqueue ==
    /\ \/ /\ Moves("start_enqueue", "start_dequeue") /\ UNCHANGED finally
          /\ Listens("enqueue") /\ running' = TRUE
       \/ /\ Fails("start_enqueue")
          /\ running' = FALSE /\ UNCHANGED <<servers, acceptors>>
    /\ UNCHANGED <<modules, system_running, parts, raised, signals,
                   conns, connections, threads, readers>>

StartDequeue ==
    /\ \/ Moves("start_dequeue", "start_camera") /\ Listens("dequeue")
       \/ Moves("start_dequeue", "undo_enqueue") /\ UNCHANGED <<servers, acceptors>>
    /\ UNCHANGED <<finally, modules, system_running, parts, raised, signals,
                   running, conns, connections, threads, readers>>

(* What waits to be accepted is lost with the listening socket.            *)
StopServer(s) ==
    /\ servers' = [servers EXCEPT ![s] = "none"]
    /\ conns' = [c \in Conns |-> IF conns[c] = s THEN "closed" ELSE conns[c]]

UndoEnqueue ==
    /\ Moves("undo_enqueue", "undo_running")
    /\ StopServer("enqueue")
    /\ UNCHANGED <<finally, modules, system_running, parts, raised, signals,
                   running, acceptors, connections, threads, readers>>

UndoRunning ==
    /\ Fails("undo_running") /\ running' = FALSE
    /\ UNCHANGED <<modules, system_running, parts, raised, signals,
                   servers, acceptors, conns, connections, threads, readers>>

(* A camera server that does not start is fatal in the dual-camera flow;   *)
(* arms that cannot be reached are not, unless an exception leaves         *)
(* connect_all, and a dashboard that fails never is.                       *)
StartPart ==
    /\ \/ /\ Moves("start_camera", "start_arms") /\ UNCHANGED <<finally, system_running>>
          /\ parts' \in {parts, parts \cup {"camera"}}
       \/ Fails("start_camera") /\ UNCHANGED <<parts, system_running>>
       \/ /\ Moves("start_arms", "start_dashboard") /\ UNCHANGED <<finally, system_running>>
          /\ parts' = parts \cup {"arms"}
       \/ /\ Fails("start_arms") /\ UNCHANGED system_running
          /\ parts' = parts \cup {"arms"}
       \/ /\ Moves("start_dashboard", "monitor") /\ UNCHANGED finally
          /\ parts' \in {parts, parts \cup {"dashboard"}}
          /\ system_running' = TRUE
    /\ UNCHANGED <<modules, raised, signals, plcVars>>

(* The main loop: _system_monitor asks the PLC handler and the camera      *)
(* server for their status, each under its lock.                           *)
Monitor ==
    /\ \/ /\ Moves("monitor", "plc_status")
          /\ system_running /\ LockFree(UnderConnLock) /\ UNCHANGED finally
       \/ Moves("plc_status", "camera_poll") /\ UNCHANGED finally
       \/ /\ Moves("camera_poll", "camera_status")
          /\ LockFree(UnderCameraLock) /\ UNCHANGED finally
       \/ Moves("camera_status", "monitor") /\ UNCHANGED finally
       \/ ~system_running /\ Fails("monitor")
    /\ UNCHANGED <<modules, system_running, parts, raised, signals, plcVars>>

-----------------------------------------------------------------------------
(* shutdown, in the finally clause or in a signal handler.                 *)

(* Plausible bug: a program whose start did not end is taken for stopped.  *)
NothingToStopUnlessRunning == ~system_running

NothingToStop == ~system_running /\ ~modules

Shutdown ==
    /\ Moves("shutdown", IF NothingToStop THEN "return" ELSE "plc_stop")
    /\ system_running' = FALSE
    /\ UNCHANGED <<finally, modules, parts, raised, signals, plcVars>>

(* DualPortPLCHandler.stop: the connections there are by now are closed    *)
(* one by one, then the listening sockets.                                 *)
PlcStop ==
    /\ Moves("plc_stop", "plc_ids") /\ running' = FALSE
    /\ UNCHANGED <<finally, modules, system_running, parts, raised, signals,
                   servers, acceptors, conns, connections, threads, readers>>

CopyIds ==
    /\ \/ Moves("plc_ids", "copy_ids") /\ LockFree(UnderConnLock)
       \/ GoesOn("copy_ids", "close_next", connections)
    /\ UNCHANGED <<finally, modules, system_running, parts, raised, signals, plcVars>>

CloseNext ==
    /\ \/ Moves("close_next", "closing") /\ Top.ids # {} /\ LockFree(UnderConnLock)
       \/ Moves("close_next", "close_servers") /\ Top.ids = {}
    /\ UNCHANGED <<finally, modules, system_running, parts, raised, signals, plcVars>>

(* _close_connection: closed and removed, unless it is gone already.       *)
Closed(c) == IF c \in connections THEN [conns EXCEPT ![c] = "closed"] ELSE conns

CloseConnection ==
    /\ \E c \in Top.ids :
         /\ GoesOn("closing", "close_next", Top.ids \ {c})
         /\ conns' = Closed(c) /\ connections' = connections \ {c}
    /\ UNCHANGED <<finally, modules, system_running, parts, raised, signals,
                   running, servers, acceptors, threads, readers>>

CloseServers ==
    /\ \/ Moves("close_servers", "close_dequeue") /\ StopServer("enqueue")
       \/ GoesOn("close_dequeue", "joining", threads) /\ StopServer("dequeue")
    /\ UNCHANGED <<finally, modules, system_running, parts, raised, signals,
                   running, acceptors, connections, threads, readers>>

(* The joins end by a timeout.  They go through the dictionary of threads  *)
(* without a lock: if it has grown meanwhile, RuntimeError ends shutdown.  *)
JoinThreads ==
    /\ \/ Moves("joining", "camera_stop") /\ threads = Top.ids /\ UNCHANGED raised
       \/ Moves("joining", "return") /\ threads # Top.ids /\ raised' = TRUE
    /\ UNCHANGED <<finally, modules, system_running, parts, signals, plcVars>>

StopParts ==
    /\ \/ Moves("camera_stop", "camera_detach") /\ LockFree(UnderCameraLock) /\ UNCHANGED parts
       \/ Moves("camera_detach", "arms_stop") /\ parts' = parts \ {"camera"}
       \/ Moves("arms_stop", "dashboard_stop") /\ parts' = parts \ {"arms"}
       \/ Moves("dashboard_stop", "return") /\ parts' = parts \ {"dashboard"}
    /\ UNCHANGED <<finally, modules, system_running, raised, signals, plcVars>>

(* The program ends, or a handler's SystemExit unwinds the calls below it, *)
(* with their locks, to the finally clause if it is still to come.         *)
Return ==
    /\ Top.at = "return"
    /\ main' = IF finally THEN <<>> ELSE <<Call("shutdown", {})>>
    /\ finally' = TRUE
    /\ UNCHANGED <<modules, system_running, parts, raised, signals, plcVars>>

MainStep ==
    \/ Initialize \/ StartEnqueue \/ StartDequeue \/ UndoEnqueue \/ UndoRunning
    \/ StartPart \/ Monitor
    \/ Shutdown \/ PlcStop \/ CopyIds \/ CloseNext \/ CloseConnection \/ CloseServers
    \/ JoinThreads \/ StopParts \/ Return

(* A handler runs between any two steps, and while a lock is waited for.   *)
SignalComes ==
    /\ main # <<>> /\ signals < MaxSignals
    /\ main' = Append(main, Call("shutdown", {})) /\ signals' = signals + 1
    /\ UNCHANGED <<finally, modules, system_running, parts, raised, plcVars>>

-----------------------------------------------------------------------------
(* The accept threads, which are alike for both ports.                     *)

(* An accept that waits already returns, also after running went off.      *)
Accept(s, c) ==
    /\ acceptors[s].at = "accept" /\ conns[c] = s
    /\ conns' = [conns EXCEPT ![c] = "open"]
    /\ acceptors' = [acceptors EXCEPT ![s] = [at |-> "enter", holds |-> {c}]]
    /\ UNCHANGED <<mainVars, running, servers, connections, threads, readers>>

Enter(s) ==
    /\ acceptors[s].at = "enter" /\ LockFree(UnderConnLock)
    /\ connections' = connections \cup acceptors[s].holds
    /\ acceptors' = [acceptors EXCEPT ![s].at = "start"]
    /\ UNCHANGED <<mainVars, running, servers, conns, threads, readers>>

(* Plausible bug: no thread for a connection that came during a stop.      *)
StartedWhileRunning(s) == IF running THEN acceptors[s].holds ELSE {}

Started(s) == acceptors[s].holds

StartReader(s) ==
    /\ acceptors[s].at = "start"
    /\ threads' = threads \cup acceptors[s].holds
    /\ readers' = [c \in Conns |-> IF c \in Started(s) THEN "lookup" ELSE readers[c]]
    /\ acceptors' = [acceptors EXCEPT ![s] =
         [at |-> IF running THEN "accept" ELSE "ended", holds |-> {}]]
    /\ UNCHANGED <<mainVars, running, servers, conns, connections>>

(* accept() raises when the socket is gone, and the loop ends if running   *)
(* is off; until then it raises again and again.                           *)
AcceptorEnds(s) ==
    /\ acceptors[s].at = "accept" /\ servers[s] = "none" /\ ~running
    /\ acceptors' = [acceptors EXCEPT ![s].at = "ended"]
    /\ UNCHANGED <<mainVars, running, servers, conns, connections, threads, readers>>

-----------------------------------------------------------------------------
(* A connection's thread.                                                  *)

ReaderMoves(c, p, q) ==
    readers[c] = p /\ readers' = [readers EXCEPT ![c] = q]

LookUp(c) ==
    /\ ReaderMoves(c, "lookup", IF c \in connections THEN "check" ELSE "none")
    /\ LockFree(UnderConnLock)
    /\ UNCHANGED <<mainVars, running, servers, acceptors, conns, connections, threads>>

(* Plausible bug: only the connection's own flag is looked at.             *)
ReadsOnUnlessClosed(c) == c \in connections

ReadsOn(c) == running /\ c \in connections

CheckRunning(c) ==
    /\ ReaderMoves(c, "check", IF ReadsOn(c) THEN "recv" ELSE "close")
    /\ UNCHANGED <<mainVars, running, servers, acceptors, conns, connections, threads>>

(* A frame comes and its callback returns.                                 *)
HandleFrame(c) ==
    /\ conns[c] = "open"
    /\ ReaderMoves(c, "recv", "check")
    /\ UNCHANGED <<mainVars, running, servers, acceptors, conns, connections, threads>>

(* The PLC closed the connection.                                          *)
EndOfFile(c) ==
    /\ conns[c] = "open"
    /\ ReaderMoves(c, "recv", "close")
    /\ UNCHANGED <<mainVars, running, servers, acceptors, conns, connections, threads>>

(* stop() closed the socket under the recv.                                *)
ReceiveRaises(c) ==
    /\ conns[c] = "closed"
    /\ ReaderMoves(c, "recv", "close")
    /\ UNCHANGED <<mainVars, running, servers, acceptors, conns, connections, threads>>

CloseOwn(c) ==
    /\ ReaderMoves(c, "close", "none") /\ LockFree(UnderConnLock)
    /\ conns' = Closed(c) /\ connections' = connections \ {c}
    /\ UNCHANGED <<mainVars, running, servers, acceptors, threads>>

PlcConnects(s, c) ==
    /\ servers[s] = "listening" /\ conns[c] = "none"
    /\ conns' = [conns EXCEPT ![c] = s]
    /\ UNCHANGED <<mainVars, running, servers, acceptors, connections, threads, readers>>

-----------------------------------------------------------------------------
AcceptorStep(s) ==
    Enter(s) \/ StartReader(s) \/ AcceptorEnds(s) \/ \E c \in Conns : Accept(s, c)

ReaderStep(c) ==
    LookUp(c) \/ CheckRunning(c) \/ ReceiveRaises(c) \/ CloseOwn(c)

LifeNext ==
    \/ MainStep \/ SignalComes
    \/ \E s \in Servers : AcceptorStep(s) \/ \E c \in Conns : PlcConnects(s, c)
    \/ \E c \in Conns : ReaderStep(c) \/ HandleFrame(c) \/ EndOfFile(c)

(* Every thread is scheduled; the PLC and the signals promise nothing.     *)
LifeSpec ==
    /\ LifeInit /\ [][LifeNext]_lifeVars
    /\ WF_lifeVars(MainStep)
    /\ \A s \in Servers : WF_lifeVars(AcceptorStep(s))
    /\ \A c \in Conns : WF_lifeVars(ReaderStep(c))

-----------------------------------------------------------------------------
Ended == main = <<>>

(* The top call waits for a lock that a call under it holds: for ever.     *)
WaitsForItself ==
    /\ ~Ended
    /\ \E i \in 1 .. Len(main) - 1 :
         \/ main[i].at \in UnderConnLock /\ Top.at \in {"plc_ids", "close_next"}
         \/ main[i].at \in UnderCameraLock /\ Top.at = "camera_stop"

(* A start that fails, or is interrupted by a signal at any point, is      *)
(* undone: when the program ends no port listens, and no other part runs   *)
(* unless plc_handler.stop raised before their turn.                       *)
StartIsUndone ==
    Ended => /\ \A s \in Servers : servers[s] = "none"
             /\ parts = {} \/ raised

(* At any point of a start or a stop, a connection has someone to close    *)
(* it: one that waits has a listening socket, an open one is listed or     *)
(* about to be, and a listed one has a thread or is about to get it.       *)
Held(c, p) == \E s \in Servers : acceptors[s].at = p /\ c \in acceptors[s].holds
ConnectionsOwned ==
    \A c \in Conns :
        /\ conns[c] \in Servers => servers[conns[c]] = "listening"
        /\ conns[c] = "open" => c \in connections \/ Held(c, "enter")
        /\ c \in connections => readers[c] # "none" \/ Held(c, "start")

(* What stop() of the PLC handler leaves behind goes away by itself: the   *)
(* connection that was accepted after the others were listed is closed by  *)
(* its own thread, and all threads of both ports end.  (They are daemons,  *)
(* so the exit of the process ends them too; here nothing rests on it.)    *)
Released ==
    /\ connections = {} /\ \A c \in Conns : conns[c] \in {"none", "closed"}
    /\ \A s \in Servers : acceptors[s].at \in {"none", "ended"}
    /\ \A c \in Conns : readers[c] = "none"
StopReleasesAll == Ended ~> Released

(* A signal or a failed start ends the program, however many signals come, *)
(* but for the one case in which a handler waits for a lock that the call  *)
(* it interrupted holds.                                                   *)
EndsUnlessItWaits == (signals > 0 \/ finally) ~> (Ended \/ WaitsForItself)
=============================================================================
