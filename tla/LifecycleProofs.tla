--------------------------- MODULE LifecycleProofs ---------------------------
(***************************************************************************)
(* What holds of start-up and shutdown (Lifecycle) for every number of     *)
(* connections and signals: a start that failed or was interrupted is      *)
(* undone when the program ends, and a connection always has someone to    *)
(* close it.                                                               *)
(*                                                                         *)
(* Only the top call of the main thread runs, and whatever a signal        *)
(* handler interrupts never goes on: its SystemExit drops the calls below. *)
(* The invariants therefore speak of the place of the top call alone, and  *)
(* the place "shutdown", where every handler begins, asks for nothing but  *)
(* that a program without modules has nothing that runs.                   *)
(***************************************************************************)
EXTENDS Lifecycle, TLAPS

-----------------------------------------------------------------------------
(* Types, and the stack of calls.                                          *)

Starting == {"start_enqueue", "start_dequeue", "undo_enqueue", "undo_running",
             "start_camera", "start_arms", "start_dashboard",
             "monitor", "plc_status", "camera_poll", "camera_status"}
Stopping == {"shutdown", "plc_stop", "plc_ids", "copy_ids", "close_next", "closing",
             "close_servers", "close_dequeue"}
Down == {"joining", "camera_stop", "camera_detach", "arms_stop", "dashboard_stop",
         "return", "ended"}
Places == {"initialize"} \cup Starting \cup Stopping \cup Down

Calls == [at : Places, ids : SUBSET Conns]
States == {"none", "open", "closed"} \cup Servers

LifeTypeInv ==
    /\ main \in Seq(Calls)
    /\ parts \subseteq Parts
    /\ servers \in [Servers -> {"none", "listening"}]
    /\ acceptors \in [Servers -> [at : {"none", "accept", "enter", "start", "ended"},
                                  holds : SUBSET Conns]]
    /\ conns \in [Conns -> States]
    /\ connections \subseteq Conns /\ threads \subseteq Conns
    /\ readers \in [Conns -> {"none", "lookup", "check", "recv", "close"}]

(* There is always a top call.                                             *)
LEMMA TopIsCall == main \in Seq(Calls) => Top \in Calls
<1>1. Call("ended", {}) \in Calls
  BY DEF Call, Calls, Places, Stopping, Down
<1>2. main \in Seq(Calls) /\ main # <<>> => main[Len(main)] \in Calls
  OBVIOUS
<1> QED
  BY <1>1, <1>2 DEF Top

(* The top call goes on at its next place, and nothing else does.          *)
LEMMA TopGoesOn ==
    ASSUME main \in Seq(Calls), NEW p, NEW q \in Places,
           NEW ids \in SUBSET Conns, GoesOn(p, q, ids)
    PROVE  main' \in Seq(Calls) /\ Top.at = p /\ Top'.at = q
<1>1. Call(q, ids) \in Calls /\ Call(q, ids).at = q
  BY DEF Call, Calls, Places, Stopping, Down
<1>2. Rest \in Seq(Calls)
  <2>1. CASE main = <<>>
    BY <2>1 DEF Rest
  <2>2. CASE main # <<>>
    BY <2>2 DEF Rest
  <2> QED
    BY <2>1, <2>2
<1>3. main' = Append(Rest, Call(q, ids))
  BY DEF GoesOn
<1>4. /\ main' \in Seq(Calls) /\ main' # <<>>
      /\ main'[Len(main')] = Call(q, ids)
  BY <1>1, <1>2, <1>3
<1> QED
  BY <1>1, <1>4 DEF GoesOn, Top

LEMMA TopMoves ==
    ASSUME main \in Seq(Calls), NEW p, NEW q \in Places, Moves(p, q)
    PROVE  main' \in Seq(Calls) /\ Top.at = p /\ Top'.at = q
<1>1. Top.ids \in SUBSET Conns
  BY TopIsCall DEF Calls
<1> QED
  BY <1>1, TopGoesOn DEF Moves

(* The call that a signal puts on top.                                     *)
LEMMA TopIsPushed ==
    ASSUME main \in Seq(Calls), NEW s \in Seq(Calls), main' = Append(s, Call("shutdown", {}))
    PROVE  main' \in Seq(Calls) /\ Top'.at = "shutdown"
<1>1. Call("shutdown", {}) \in Calls /\ Call("shutdown", {}).at = "shutdown"
  BY DEF Call, Calls, Places, Stopping, Down
<1>2. /\ main' \in Seq(Calls) /\ main' # <<>>
      /\ main'[Len(main')] = Call("shutdown", {})
  BY <1>1
<1> QED
  BY <1>1, <1>2 DEF Top

(* A handler's return drops all calls.                                     *)
LEMMA TopReturns ==
    ASSUME main \in Seq(Calls), Return
    PROVE  /\ main' \in Seq(Calls) /\ Top.at = "return"
           /\ Top'.at \in {"ended", "shutdown"}
<1>1. CASE main' = <<>>
  BY <1>1 DEF Return, Top, Call
<1>2. CASE main' = <<Call("shutdown", {})>>
  <2>1. main' = Append(<<>>, Call("shutdown", {})) /\ <<>> \in Seq(Calls)
    BY <1>2
  <2> QED
    BY <2>1, TopIsPushed DEF Return
<1> QED
  BY <1>1, <1>2 DEF Return

(* The stack stays one of calls, whatever the main thread does.            *)
LEMMA MainIsStack == LifeTypeInv /\ MainStep => main' \in Seq(Calls)
<1> SUFFICES ASSUME LifeTypeInv, MainStep
             PROVE  main' \in Seq(Calls)
  OBVIOUS
<1>0. main \in Seq(Calls) /\ connections \in SUBSET Conns /\ threads \in SUBSET Conns
  BY DEF LifeTypeInv
<1> USE <1>0, TopMoves DEF Places, Starting, Stopping, Down
<1>1. CASE Initialize \/ StartEnqueue \/ StartDequeue \/ UndoEnqueue \/ UndoRunning
  BY <1>1 DEF Initialize, StartEnqueue, StartDequeue, UndoEnqueue, UndoRunning, Fails
<1>2. CASE StartPart \/ Monitor
  BY <1>2 DEF StartPart, Monitor, Fails
<1>3. CASE Shutdown \/ PlcStop \/ CloseNext \/ JoinThreads \/ StopParts
  BY <1>3 DEF Shutdown, PlcStop, CloseNext, JoinThreads, StopParts
<1>4. CASE CopyIds \/ CloseServers
  BY <1>4, TopGoesOn DEF CopyIds, CloseServers
<1>5. CASE CloseConnection
  <2>1. PICK c \in Top.ids : GoesOn("closing", "close_next", Top.ids \ {c})
    BY <1>5 DEF CloseConnection
  <2>2. Top.ids \ {c} \in SUBSET Conns
    BY TopIsCall DEF Calls
  <2> QED
    BY <2>1, <2>2, TopGoesOn
<1>6. CASE Return
  BY <1>6, TopReturns
<1> QED
  BY <1>1, <1>2, <1>3, <1>4, <1>5, <1>6 DEF MainStep

(* Every step keeps the types.                                             *)
LEMMA LifeTypeStep == LifeTypeInv /\ [LifeNext]_lifeVars => LifeTypeInv'
<1> SUFFICES ASSUME LifeTypeInv, [LifeNext]_lifeVars
             PROVE  LifeTypeInv'
  OBVIOUS
<1>0. main' \in Seq(Calls)
  <2>1. CASE SignalComes
    BY <2>1, TopIsPushed DEF SignalComes, LifeTypeInv
  <2>2. UNCHANGED main => main' \in Seq(Calls)
    BY DEF LifeTypeInv
  <2> QED
    BY <2>1, <2>2, MainIsStack
       DEF LifeNext, AcceptorStep, Accept, Enter, StartReader, AcceptorEnds, PlcConnects,
           ReaderStep, LookUp, CheckRunning, HandleFrame, EndOfFile, ReceiveRaises, CloseOwn,
           lifeVars, mainVars
<1> USE DEF LifeTypeInv
<1>1. CASE UNCHANGED lifeVars
  BY <1>1 DEF lifeVars, mainVars, plcVars
<1>2. CASE MainStep
  <2>1. parts' \subseteq Parts
    BY <1>2 DEF MainStep, Initialize, StartEnqueue, StartDequeue, UndoEnqueue, UndoRunning,
                StartPart, Monitor, Shutdown, PlcStop, CopyIds, CloseNext, CloseConnection,
                CloseServers, JoinThreads, StopParts, Return, Parts
  <2>2. /\ servers' \in [Servers -> {"none", "listening"}]
        /\ acceptors' \in [Servers -> [at : {"none", "accept", "enter", "start", "ended"},
                                       holds : SUBSET Conns]]
        /\ conns' \in [Conns -> States]
        /\ connections' \subseteq Conns
        /\ UNCHANGED <<threads, readers>>
    <3>1. CASE StartEnqueue \/ StartDequeue
      <4>1. ASSUME NEW s \in Servers
            PROVE  [acceptors[s] EXCEPT !.at = "accept"] \in
                       [at : {"none", "accept", "enter", "start", "ended"}, holds : SUBSET Conns]
        OBVIOUS
      <4> QED
        BY <3>1, <4>1 DEF StartEnqueue, StartDequeue, Listens, Servers
    <3>2. CASE UndoEnqueue \/ CloseServers
      BY <3>2 DEF UndoEnqueue, CloseServers, StopServer, States
    <3>3. CASE CloseConnection
      BY <3>3 DEF CloseConnection, Closed, States
    <3>4. CASE UndoRunning \/ PlcStop
      BY <3>4 DEF UndoRunning, PlcStop
    <3>5. CASE UNCHANGED plcVars
      BY <3>5 DEF plcVars
    <3> QED
      BY <1>2, <3>1, <3>2, <3>3, <3>4, <3>5
         DEF MainStep, Initialize, StartPart, Monitor, Shutdown, CopyIds, CloseNext,
             JoinThreads, StopParts, Return
  <2> QED
    BY <1>0, <2>1, <2>2
<1>3. CASE SignalComes
  BY <1>0, <1>3 DEF SignalComes, plcVars
<1>4. ASSUME NEW s \in Servers, AcceptorStep(s)
      PROVE  LifeTypeInv'
  <2>1. ASSUME NEW c \in Conns, Accept(s, c)
        PROVE  LifeTypeInv'
    BY <1>0, <2>1 DEF Accept, States, mainVars
  <2>2. CASE Enter(s)
    BY <1>0, <2>2 DEF Enter, mainVars
  <2>3. CASE StartReader(s)
    BY <1>0, <2>3 DEF StartReader, Started, mainVars
  <2>4. CASE AcceptorEnds(s)
    BY <1>0, <2>4 DEF AcceptorEnds, mainVars
  <2> QED
    BY <1>4, <2>1, <2>2, <2>3, <2>4 DEF AcceptorStep
<1>5. ASSUME NEW s \in Servers, NEW c \in Conns, PlcConnects(s, c)
      PROVE  LifeTypeInv'
  BY <1>0, <1>5 DEF PlcConnects, States, mainVars
<1>6. ASSUME NEW c \in Conns, ReaderStep(c) \/ HandleFrame(c) \/ EndOfFile(c)
      PROVE  LifeTypeInv'
  <2>1. CASE CloseOwn(c)
    BY <1>0, <2>1 DEF CloseOwn, ReaderMoves, Closed, States, mainVars
  <2> QED
    BY <1>0, <1>6, <2>1 DEF ReaderStep, LookUp, CheckRunning, HandleFrame, EndOfFile,
                            ReceiveRaises, ReaderMoves, mainVars
<1> QED
  BY <1>1, <1>2, <1>3, <1>4, <1>5, <1>6 DEF LifeNext

-----------------------------------------------------------------------------
(* A start is undone.                                                      *)

NothingRuns == servers = [s \in Servers |-> "none"] /\ parts = {}

(* What the place of the top call says of what runs: before the modules    *)
(* there is nothing, and a shutdown has taken down all that is behind it,  *)
(* unless it was the one to raise.                                         *)
StartInv ==
    /\ ~modules => NothingRuns
    /\ Top.at = "initialize" => NothingRuns
    /\ Top.at \in Starting => modules
    /\ Top.at \in Down \cup {"close_dequeue"} => servers["enqueue"] = "none"
    /\ Top.at \in Down => servers["dequeue"] = "none"
    /\ Top.at \in {"arms_stop", "dashboard_stop"} => "camera" \notin parts
    /\ Top.at = "dashboard_stop" => "arms" \notin parts
    /\ Top.at \in {"return", "ended"} => parts = {} \/ raised

(* Every step keeps it.                                                    *)
LEMMA StartStep == LifeTypeInv /\ StartInv /\ [LifeNext]_lifeVars => StartInv'
<1> SUFFICES ASSUME LifeTypeInv, StartInv, [LifeNext]_lifeVars
             PROVE  StartInv'
  OBVIOUS
<1>0. /\ main \in Seq(Calls) /\ connections \in SUBSET Conns /\ threads \in SUBSET Conns
      /\ servers \in [Servers -> {"none", "listening"}] /\ parts \subseteq Parts
  BY DEF LifeTypeInv
<1>s. ASSUME UNCHANGED <<main, modules, servers, parts, raised>>
      PROVE  StartInv'
  BY <1>s DEF StartInv, NothingRuns, Top
<1> USE <1>0 DEF Places, Starting, Stopping, Down
<1>1. CASE Initialize
  <2>1. Top.at = "initialize" /\ Top'.at \in {"start_enqueue", "shutdown"}
    BY <1>1, TopMoves DEF Initialize, Fails
  <2>2. Top'.at = "start_enqueue" => modules'
    BY <1>1, <2>1, TopMoves DEF Initialize, Fails
  <2> QED
    BY <1>1, <2>1, <2>2 DEF Initialize, StartInv, NothingRuns, plcVars
<1>2. CASE StartEnqueue \/ StartDequeue \/ UndoEnqueue \/ UndoRunning
  <2>1. Top.at \in Starting /\ Top'.at \in Starting \cup {"shutdown"}
    BY <1>2, TopMoves DEF StartEnqueue, StartDequeue, UndoEnqueue, UndoRunning, Fails
  <2>2. UNCHANGED modules
    BY <1>2 DEF StartEnqueue, StartDequeue, UndoEnqueue, UndoRunning
  <2> QED
    BY <2>1, <2>2 DEF StartInv
<1>3. CASE StartPart \/ Monitor
  <2>1. Top.at \in Starting /\ Top'.at \in Starting \cup {"shutdown"}
    BY <1>3, TopMoves DEF StartPart, Monitor, Fails
  <2>2. UNCHANGED modules
    BY <1>3 DEF StartPart, Monitor
  <2> QED
    BY <2>1, <2>2 DEF StartInv
<1>4. CASE Shutdown
  <2>1. Top'.at = IF NothingToStop THEN "return" ELSE "plc_stop"
    BY <1>4, TopMoves DEF Shutdown
  <2>2. NothingToStop => ~modules
    BY DEF NothingToStop
  <2>3. UNCHANGED <<modules, servers, parts, raised>>
    BY <1>4 DEF Shutdown, plcVars
  <2> QED
    BY <2>1, <2>2, <2>3 DEF StartInv, NothingRuns, Servers
<1>5. CASE PlcStop \/ CopyIds \/ CloseNext \/ CloseConnection
  <2>1. Top'.at \in {"plc_ids", "copy_ids", "close_next", "closing", "close_servers"}
    <3>1. CASE CloseConnection
      <4>1. PICK c \in Top.ids : GoesOn("closing", "close_next", Top.ids \ {c})
        BY <3>1 DEF CloseConnection
      <4>2. Top.ids \ {c} \in SUBSET Conns
        BY TopIsCall DEF Calls
      <4>3. Top'.at = "close_next"
        BY <4>1, <4>2, TopGoesOn
      <4> QED
        BY <4>3
    <3> QED
      BY <1>5, <3>1, TopMoves, TopGoesOn DEF PlcStop, CopyIds, CloseNext
  <2>2. UNCHANGED <<modules, servers, parts, raised>>
    BY <1>5 DEF PlcStop, CopyIds, CloseNext, CloseConnection, plcVars
  <2> QED
    BY <2>1, <2>2 DEF StartInv, NothingRuns
<1>6. CASE CloseServers
  <2>1. CASE Moves("close_servers", "close_dequeue") /\ StopServer("enqueue")
    <3>1. Top'.at = "close_dequeue"
      BY <2>1, TopMoves
    <3>2. UNCHANGED <<modules, parts>>
      BY <1>6 DEF CloseServers
    <3> QED
      BY <2>1, <3>1, <3>2 DEF StopServer, StartInv, NothingRuns, Servers
  <2>2. CASE GoesOn("close_dequeue", "joining", threads) /\ StopServer("dequeue")
    <3>1. Top.at = "close_dequeue" /\ Top'.at = "joining"
      BY <2>2, TopGoesOn
    <3>2. UNCHANGED <<modules, parts>>
      BY <1>6 DEF CloseServers
    <3> QED
      BY <2>2, <3>1, <3>2 DEF StopServer, StartInv, NothingRuns, Servers
  <2> QED
    BY <1>6, <2>1, <2>2 DEF CloseServers
<1>7. CASE JoinThreads
  <2>1. Top.at = "joining" /\ Top'.at \in {"camera_stop", "return"}
    BY <1>7, TopMoves DEF JoinThreads
  <2>2. Top'.at = "return" => raised'
    BY <1>7, <2>1, TopMoves DEF JoinThreads
  <2>3. UNCHANGED <<modules, servers, parts>>
    BY <1>7 DEF JoinThreads, plcVars
  <2> QED
    BY <2>1, <2>2, <2>3 DEF StartInv, NothingRuns
<1>8. CASE StopParts
  <2>0. UNCHANGED <<modules, servers, raised>>
    BY <1>8 DEF StopParts, plcVars
  <2>1. CASE Moves("camera_stop", "camera_detach") /\ UNCHANGED parts
    <3>1. Top.at = "camera_stop" /\ Top'.at = "camera_detach"
      BY <2>1, TopMoves
    <3> QED
      BY <2>0, <2>1, <3>1 DEF StartInv, NothingRuns
  <2>2. CASE Moves("camera_detach", "arms_stop") /\ parts' = parts \ {"camera"}
    <3>1. Top.at = "camera_detach" /\ Top'.at = "arms_stop"
      BY <2>2, TopMoves
    <3> QED
      BY <2>0, <2>2, <3>1 DEF StartInv, NothingRuns
  <2>3. CASE Moves("arms_stop", "dashboard_stop") /\ parts' = parts \ {"arms"}
    <3>1. Top.at = "arms_stop" /\ Top'.at = "dashboard_stop"
      BY <2>3, TopMoves
    <3> QED
      BY <2>0, <2>3, <3>1 DEF StartInv, NothingRuns
  <2>4. CASE Moves("dashboard_stop", "return") /\ parts' = parts \ {"dashboard"}
    <3>1. Top.at = "dashboard_stop" /\ Top'.at = "return"
      BY <2>4, TopMoves
    <3> QED
      BY <2>0, <2>4, <3>1 DEF StartInv, NothingRuns, Parts
  <2> QED
    BY <1>8, <2>1, <2>2, <2>3, <2>4 DEF StopParts
<1>9. CASE Return
  <2>1. Top.at = "return" /\ Top'.at \in {"ended", "shutdown"}
    BY <1>9, TopReturns
  <2>2. UNCHANGED <<modules, servers, parts, raised>>
    BY <1>9 DEF Return, plcVars
  <2> QED
    BY <2>1, <2>2 DEF StartInv, NothingRuns
<1>10. CASE SignalComes
  <2>1. Top'.at = "shutdown"
    BY <1>10, TopIsPushed DEF SignalComes
  <2>2. UNCHANGED <<modules, servers, parts, raised>>
    BY <1>10 DEF SignalComes, plcVars
  <2> QED
    BY <2>1, <2>2 DEF StartInv, NothingRuns
<1> QED
  BY <1>s, <1>1, <1>2, <1>3, <1>4, <1>5, <1>6, <1>7, <1>8, <1>9, <1>10
     DEF LifeNext, MainStep, AcceptorStep, Accept, Enter, StartReader, AcceptorEnds,
         PlcConnects, ReaderStep, LookUp, CheckRunning, HandleFrame, EndOfFile,
         ReceiveRaises, CloseOwn, lifeVars, mainVars, plcVars

(* The program starts with one call and nothing that runs.                 *)
LEMMA LifeInitType == LifeInit => LifeTypeInv
<1> SUFFICES ASSUME LifeInit
             PROVE  LifeTypeInv
  OBVIOUS
<1>1. Call("initialize", {}) \in Calls
  BY DEF Call, Calls, Places
<1>2. main \in Seq(Calls)
  BY <1>1 DEF LifeInit
<1> QED
  BY <1>2 DEF LifeInit, LifeTypeInv, States

(* When the program has ended no port listens, and no other part runs      *)
(* unless plc_handler.stop raised.                                         *)
THEOREM StartUndone == LifeSpec => []StartIsUndone
<1>1. LifeInit => LifeTypeInv /\ StartInv
  <2> SUFFICES ASSUME LifeInit
               PROVE  StartInv
    BY LifeInitType
  <2>1. Top.at = "initialize"
    BY DEF LifeInit, Top, Call
  <2> QED
    BY <2>1 DEF LifeInit, StartInv, NothingRuns, Starting, Down
<1>2. StartInv => StartIsUndone
  BY DEF StartInv, StartIsUndone, Ended, Top, Call, Down, Servers
<1> QED
  BY <1>1, <1>2, LifeTypeStep, StartStep, PTL DEF LifeSpec

-----------------------------------------------------------------------------
(* Connections have owners.                                                *)

(* A port's accept thread is started once.                                 *)
AcceptorsFresh ==
    /\ Top.at \in {"initialize", "start_enqueue"} => \A s \in Servers : acceptors[s].at = "none"
    /\ Top.at = "start_dequeue" => acceptors["dequeue"].at = "none"

LEMMA FreshStep == LifeTypeInv /\ AcceptorsFresh /\ [LifeNext]_lifeVars => AcceptorsFresh'
<1> SUFFICES ASSUME LifeTypeInv, AcceptorsFresh, [LifeNext]_lifeVars
             PROVE  AcceptorsFresh'
  OBVIOUS
<1>0. /\ main \in Seq(Calls) /\ connections \in SUBSET Conns /\ threads \in SUBSET Conns
      /\ acceptors \in [Servers -> [at : {"none", "accept", "enter", "start", "ended"},
                                    holds : SUBSET Conns]]
  BY DEF LifeTypeInv
<1>s. ASSUME UNCHANGED main, \A s \in Servers : acceptors[s].at = "none" => acceptors'[s].at = "none"
      PROVE  AcceptorsFresh'
  BY <1>s DEF AcceptorsFresh, Top, Servers
<1>l. Top'.at \notin {"initialize", "start_enqueue", "start_dequeue"} => AcceptorsFresh'
  BY DEF AcceptorsFresh
<1> USE <1>0 DEF Places, Starting, Stopping, Down
<1>1. CASE Initialize
  <2>1. Top.at = "initialize" /\ Top'.at \in {"start_enqueue", "shutdown"}
    BY <1>1, TopMoves DEF Initialize, Fails
  <2> QED
    BY <1>1, <2>1 DEF Initialize, AcceptorsFresh, plcVars
<1>2. CASE StartEnqueue
  <2>1. Top.at = "start_enqueue" /\ Top'.at \in {"start_dequeue", "shutdown"}
    BY <1>2, TopMoves DEF StartEnqueue, Fails
  <2>2. acceptors'["dequeue"] = acceptors["dequeue"]
    BY <1>2 DEF StartEnqueue, Listens, Servers
  <2> QED
    BY <2>1, <2>2 DEF AcceptorsFresh, Servers
<1>3. CASE StartDequeue \/ UndoEnqueue \/ UndoRunning \/ StartPart \/ Monitor
  <2>1. Top'.at \notin {"initialize", "start_enqueue", "start_dequeue"}
    BY <1>3, TopMoves DEF StartDequeue, UndoEnqueue, UndoRunning, StartPart, Monitor, Fails
  <2> QED
    BY <1>l, <2>1
<1>4. CASE Shutdown \/ PlcStop \/ CopyIds \/ CloseNext \/ CloseServers
  <2>1. Top'.at \notin {"initialize", "start_enqueue", "start_dequeue"}
    <3>1. CASE Shutdown
      BY <3>1, TopMoves DEF Shutdown
    <3>2. CASE PlcStop \/ CloseNext
      BY <3>2, TopMoves DEF PlcStop, CloseNext
    <3>3. CASE GoesOn("copy_ids", "close_next", connections)
      <4>1. Top'.at = "close_next"
        BY <3>3, TopGoesOn
      <4> QED
        BY <4>1
    <3>4. CASE GoesOn("close_dequeue", "joining", threads)
      <4>1. Top'.at = "joining"
        BY <3>4, TopGoesOn
      <4> QED
        BY <4>1
    <3>5. CASE Moves("plc_ids", "copy_ids") \/ Moves("close_servers", "close_dequeue")
      BY <3>5, TopMoves
    <3> QED
      BY <1>4, <3>1, <3>2, <3>3, <3>4, <3>5 DEF CopyIds, CloseServers
  <2> QED
    BY <1>l, <2>1
<1>5. CASE CloseConnection
  <2>1. PICK c \in Top.ids : GoesOn("closing", "close_next", Top.ids \ {c})
    BY <1>5 DEF CloseConnection
  <2>2. Top.ids \ {c} \in SUBSET Conns
    BY TopIsCall DEF Calls
  <2>3. Top'.at = "close_next"
    BY <2>1, <2>2, TopGoesOn
  <2> QED
    BY <1>l, <2>3
<1>6. CASE JoinThreads \/ StopParts \/ Return
  <2>1. Top'.at \notin {"initialize", "start_enqueue", "start_dequeue"}
    BY <1>6, TopMoves, TopReturns DEF JoinThreads, StopParts
  <2> QED
    BY <1>l, <2>1
<1>7. CASE SignalComes
  <2>1. Top'.at = "shutdown"
    BY <1>7, TopIsPushed DEF SignalComes
  <2> QED
    BY <1>l, <2>1
<1>8. ASSUME NEW s \in Servers, AcceptorStep(s)
      PROVE  AcceptorsFresh'
  <2>1. \A t \in Servers : acceptors[t].at = "none" => acceptors'[t].at = "none"
    BY <1>8 DEF AcceptorStep, Accept, Enter, StartReader, AcceptorEnds
  <2>2. UNCHANGED main
    BY <1>8 DEF AcceptorStep, Accept, Enter, StartReader, AcceptorEnds, mainVars
  <2> QED
    BY <1>s, <2>1, <2>2
<1>9. UNCHANGED <<main, acceptors>> => AcceptorsFresh'
  BY <1>s
<1> QED
  BY <1>1, <1>2, <1>3, <1>4, <1>5, <1>6, <1>7, <1>8, <1>9
     DEF LifeNext, MainStep, PlcConnects, ReaderStep, LookUp, CheckRunning, HandleFrame,
         EndOfFile, ReceiveRaises, CloseOwn, lifeVars, mainVars, plcVars

(* Every step leaves each connection with an owner.                        *)
LEMMA OwnersStep ==
    LifeTypeInv /\ AcceptorsFresh /\ ConnectionsOwned /\ [LifeNext]_lifeVars => ConnectionsOwned'
<1> SUFFICES ASSUME LifeTypeInv, AcceptorsFresh, ConnectionsOwned, [LifeNext]_lifeVars
             PROVE  ConnectionsOwned'
  OBVIOUS
<1>0. /\ servers \in [Servers -> {"none", "listening"}]
      /\ acceptors \in [Servers -> [at : {"none", "accept", "enter", "start", "ended"},
                                    holds : SUBSET Conns]]
      /\ conns \in [Conns -> States]
      /\ connections \subseteq Conns
      /\ readers \in [Conns -> {"none", "lookup", "check", "recv", "close"}]
  BY DEF LifeTypeInv
<1> USE <1>0 DEF ConnectionsOwned
<1>1. CASE UNCHANGED plcVars
  BY <1>1 DEF plcVars, Held
<1>2. CASE StartEnqueue \/ StartDequeue
  <2>0. main \in Seq(Calls)
    BY DEF LifeTypeInv
  <2>1. /\ \A s \in Servers : servers'[s] \in {servers[s], "listening"}
        /\ \A s \in Servers : acceptors'[s].holds = acceptors[s].holds
        /\ UNCHANGED <<conns, connections, readers>>
    BY <1>2 DEF StartEnqueue, StartDequeue, Listens
  <2>2. \A s \in Servers, p \in {"enter", "start"} :
            acceptors[s].at = p => acceptors'[s].at = p
    <3>1. CASE StartEnqueue
      <4>1. Top.at = "start_enqueue"
        BY <3>1, <2>0, TopMoves DEF StartEnqueue, Fails, Places, Starting, Stopping
      <4> QED
        BY <3>1, <4>1 DEF StartEnqueue, Listens, AcceptorsFresh
    <3>2. CASE StartDequeue
      <4>1. Top.at = "start_dequeue"
        BY <3>2, <2>0, TopMoves DEF StartDequeue, Fails, Places, Starting
      <4> QED
        BY <3>2, <4>1 DEF StartDequeue, Listens, AcceptorsFresh
    <3> QED
      BY <1>2, <3>1, <3>2
  <2> QED
    BY <2>1, <2>2 DEF Held
<1>3. ASSUME NEW s \in Servers, StopServer(s), UNCHANGED <<acceptors, connections, readers>>
      PROVE  ConnectionsOwned'
  <2>1. /\ servers' = [servers EXCEPT ![s] = "none"]
        /\ \A c \in Conns : conns'[c] = IF conns[c] = s THEN "closed" ELSE conns[c]
    BY <1>3 DEF StopServer
  <2>2. "closed" \notin Servers /\ "open" \notin Servers
    BY DEF Servers
  <2>3. \A c \in Conns, p \in {"enter", "start"} : Held(c, p)' <=> Held(c, p)
    BY <1>3 DEF Held
  <2> QED
    BY <1>3, <2>1, <2>2, <2>3
<1>4. ASSUME NEW c \in Conns, conns' = Closed(c), connections' = connections \ {c},
             UNCHANGED <<servers, acceptors>>, \A d \in Conns : d # c => readers'[d] = readers[d]
      PROVE  ConnectionsOwned'
  <2>1. \A d \in Conns, p \in {"enter", "start"} : Held(d, p)' <=> Held(d, p)
    BY <1>4 DEF Held
  <2>2. \A d \in Conns : d # c => conns'[d] = conns[d]
    BY <1>4 DEF Closed
  <2>3. c \in connections => conns'[c] = "closed"
    BY <1>4 DEF Closed
  <2>4. c \notin connections => conns' = conns
    BY <1>4 DEF Closed
  <2>5. "closed" \notin Servers
    BY DEF Servers
  <2> QED
    BY <1>4, <2>1, <2>2, <2>3, <2>4, <2>5
<1>5. ASSUME UNCHANGED <<servers, acceptors, conns, connections>>,
             \A c \in Conns : c \in connections /\ readers[c] # "none" => readers'[c] # "none"
      PROVE  ConnectionsOwned'
  BY <1>5 DEF Held
<1>6. ASSUME MainStep
      PROVE  ConnectionsOwned'
  <2>1. CASE UndoEnqueue \/ CloseServers
    BY <1>3, <2>1 DEF UndoEnqueue, CloseServers, Servers
  <2>2. CASE CloseConnection
    <3>1. PICK c \in Top.ids : conns' = Closed(c) /\ connections' = connections \ {c}
      BY <2>2 DEF CloseConnection
    <3>2. c \in Conns
      BY TopIsCall DEF Calls, LifeTypeInv
    <3> QED
      BY <1>4, <2>2, <3>1, <3>2 DEF CloseConnection
  <2>3. CASE UndoRunning \/ PlcStop
    BY <1>5, <2>3 DEF UndoRunning, PlcStop
  <2> QED
    BY <1>1, <1>2, <1>6, <2>1, <2>2, <2>3
       DEF MainStep, Initialize, StartPart, Monitor, Shutdown, CopyIds, CloseNext,
           JoinThreads, StopParts, Return
<1>7. ASSUME NEW s \in Servers, NEW c \in Conns, Accept(s, c)
      PROVE  ConnectionsOwned'
  <2>1. \A d \in Conns, p \in {"enter", "start"} : Held(d, p) => Held(d, p)'
    BY <1>7 DEF Accept, Held
  <2>2. conns'[c] = "open" /\ Held(c, "enter")'
    BY <1>7 DEF Accept, Held
  <2>3. /\ \A d \in Conns : d # c => conns'[d] = conns[d]
        /\ UNCHANGED <<servers, connections, readers>>
    BY <1>7 DEF Accept
  <2> QED
    BY <2>1, <2>2, <2>3 DEF Servers
<1>8. ASSUME NEW s \in Servers, Enter(s)
      PROVE  ConnectionsOwned'
  <2>1. /\ connections' = connections \cup acceptors[s].holds
        /\ UNCHANGED <<servers, conns, readers>>
    BY <1>8 DEF Enter
  <2>2. \A d \in Conns : Held(d, "enter") => Held(d, "enter")' \/ d \in acceptors[s].holds
    BY <1>8 DEF Enter, Held
  <2>3. \A d \in Conns : Held(d, "start") \/ d \in acceptors[s].holds => Held(d, "start")'
    BY <1>8 DEF Enter, Held
  <2> QED
    BY <2>1, <2>2, <2>3
<1>9. ASSUME NEW s \in Servers, StartReader(s)
      PROVE  ConnectionsOwned'
  <2>1. UNCHANGED <<servers, conns, connections>>
    BY <1>9 DEF StartReader
  <2>2. \A d \in Conns : Held(d, "enter") => Held(d, "enter")'
    BY <1>9 DEF StartReader, Held
  <2>3. \A d \in Conns : Held(d, "start") => Held(d, "start")' \/ d \in acceptors[s].holds
    BY <1>9 DEF StartReader, Held
  <2>4. \A d \in Conns : readers'[d] = IF d \in acceptors[s].holds THEN "lookup" ELSE readers[d]
    BY <1>9 DEF StartReader, Started
  <2> QED
    BY <2>1, <2>2, <2>3, <2>4
<1>10. ASSUME NEW s \in Servers, AcceptorEnds(s)
       PROVE  ConnectionsOwned'
  <2>1. \A d \in Conns, p \in {"enter", "start"} : Held(d, p) => Held(d, p)'
    BY <1>10 DEF AcceptorEnds, Held
  <2> QED
    BY <1>10, <2>1 DEF AcceptorEnds
<1>11. ASSUME NEW s \in Servers, NEW c \in Conns, PlcConnects(s, c)
       PROVE  ConnectionsOwned'
  <2>1. \A d \in Conns, p \in {"enter", "start"} : Held(d, p)' <=> Held(d, p)
    BY <1>11 DEF PlcConnects, Held
  <2>2. conns'[c] = s /\ \A d \in Conns : d # c => conns'[d] = conns[d]
    BY <1>11 DEF PlcConnects
  <2>3. "open" \notin Servers
    BY DEF Servers
  <2> QED
    BY <1>11, <2>1, <2>2, <2>3 DEF PlcConnects
<1>12. ASSUME NEW c \in Conns, ReaderStep(c) \/ HandleFrame(c) \/ EndOfFile(c)
       PROVE  ConnectionsOwned'
  <2>1. CASE LookUp(c)
    BY <1>5, <2>1 DEF LookUp, ReaderMoves
  <2>2. CASE CheckRunning(c) \/ ReceiveRaises(c) \/ HandleFrame(c) \/ EndOfFile(c)
    BY <1>5, <2>2 DEF CheckRunning, ReceiveRaises, HandleFrame, EndOfFile, ReaderMoves
  <2>3. CASE CloseOwn(c)
    BY <1>4, <2>3 DEF CloseOwn, ReaderMoves
  <2> QED
    BY <1>12, <2>1, <2>2, <2>3 DEF ReaderStep
<1>13. SignalComes \/ UNCHANGED lifeVars => UNCHANGED plcVars
  BY DEF SignalComes, lifeVars
<1> QED
  BY <1>1, <1>6, <1>7, <1>8, <1>9, <1>10, <1>11, <1>12, <1>13 DEF LifeNext, AcceptorStep

(* However a start, a stop and the accept threads overlap, a connection    *)
(* has someone who will close it.                                          *)
THEOREM ConnectionsHaveOwners == LifeSpec => []ConnectionsOwned
<1>1. LifeInit => LifeTypeInv /\ AcceptorsFresh /\ ConnectionsOwned
  BY LifeInitType DEF LifeInit, AcceptorsFresh, ConnectionsOwned, Servers
<1> QED
  BY <1>1, LifeTypeStep, FreshStep, OwnersStep, PTL DEF LifeSpec
=============================================================================
