-------------------------- MODULE DequeuePortProofs --------------------------
(***************************************************************************)
(* What holds of the dequeue port (DequeuePort) for every number of        *)
(* connections, ports and frames: it drives the queue manager as that is   *)
(* specified, a thread never reads a connection that feedback does not     *)
(* reach, and the two change filters agree.                                *)
(*                                                                         *)
(* The invariant says of which connection and of which thread an entry of  *)
(* the dictionary speaks.  An entry under a port is the connection of a    *)
(* thread that was started for that port, so that neither a new connection *)
(* nor an old thread that closes can take away the entry of a connection   *)
(* that still reaches the PLC.                                             *)
(***************************************************************************)
EXTENDS DequeuePort, QueueManagerProofs, TcpLinkProofs

-----------------------------------------------------------------------------
(* Types.                                                                  *)

Frame == [Arms -> Pointers \cup {0}]
Reader == [at : {"none", "lookup", "recv", "parse", "deliver", "close"},
           port : Ports \cup {0}, reads : Conns \cup {NoSock}, frame : Frame]

(* A reader has a port, works on a connection, and a frame in its hands is *)
(* one the PLC sent.                                                       *)
ReaderOK(r) ==
    /\ r.at # "none" => r.port \in Ports
    /\ r.at \in {"recv", "parse", "deliver"} => r.reads \in Conns
    /\ r.at \in {"parse", "deliver"} => r.frame \in Batches

ReadersOK == \A c \in Conns : ReaderOK(readers[c])

(* A thread that was started, and one that has ended.                      *)
LEMMA NewReaderType ==
    /\ NoReader \in Reader /\ ReaderOK(NoReader)
    /\ \A port \in Ports :
         LET r == [NoReader EXCEPT !.at = "lookup", !.port = port] IN
         r \in Reader /\ ReaderOK(r) /\ r.at = "lookup" /\ r.port = port
<1>1. NoReader.frame \in Frame
  BY DEF NoReader, Frame
<1>2. NoReader \in Reader
  BY <1>1 DEF NoReader, Reader, NoSock
<1> QED
  BY <1>2 DEF NoReader, Reader, ReaderOK

(* A reader stays one when its place and its frame are set.                *)
LEMMA ReaderUpdateType ==
    ASSUME NEW r \in Reader, r.port \in Ports
    PROVE  /\ [r EXCEPT !.at = "close"] \in Reader /\ ReaderOK([r EXCEPT !.at = "close"])
           /\ \A s \in Conns :
                /\ [r EXCEPT !.at = "recv", !.reads = s] \in Reader
                /\ ReaderOK([r EXCEPT !.at = "recv", !.reads = s])
           /\ \A f \in Frame, p \in {"recv", "parse", "deliver"} :
                /\ [r EXCEPT !.at = p, !.frame = f] \in Reader
                /\ r.reads \in Conns /\ (p = "recv" \/ f \in Batches) =>
                      ReaderOK([r EXCEPT !.at = p, !.frame = f])
<1>1. [r EXCEPT !.at = "close"] \in Reader /\ ReaderOK([r EXCEPT !.at = "close"])
  BY DEF Reader, ReaderOK
<1>2. ASSUME NEW s \in Conns
      PROVE  /\ [r EXCEPT !.at = "recv", !.reads = s] \in Reader
             /\ ReaderOK([r EXCEPT !.at = "recv", !.reads = s])
  BY DEF Reader, ReaderOK
<1>3. ASSUME NEW f \in Frame, NEW p \in {"recv", "parse", "deliver"}
      PROVE  /\ [r EXCEPT !.at = p, !.frame = f] \in Reader
             /\ r.reads \in Conns /\ (p = "recv" \/ f \in Batches) =>
                   ReaderOK([r EXCEPT !.at = p, !.frame = f])
  BY DEF Reader, ReaderOK
<1> QED
  BY <1>1, <1>2, <1>3

(* What the port adds to the queue manager's types.                        *)
PortPartsOK ==
    /\ conns \in [Conns -> ConnType]
    /\ connections \in [Ports -> Conns \cup {NoSock}]
    /\ readers \in [Conns -> Reader]
    /\ plc_last \in Frame
    /\ arrived \in Frame
    /\ overlapped \in BOOLEAN

PortTypeInv == TypeOK /\ PortPartsOK /\ ReadersOK

(* The step of one reader.                                                 *)
LEMMA ReaderSet ==
    ASSUME readers \in [Conns -> Reader], ReadersOK, NEW c \in Conns,
           NEW r \in Reader, ReaderOK(r), readers' = [readers EXCEPT ![c] = r]
    PROVE  readers' \in [Conns -> Reader] /\ ReadersOK'
BY DEF ReadersOK

(* A frame that a connection holds is one of pointers.                     *)
LEMMA HeadIsFrame ==
    ASSUME PortPartsOK, NEW s \in Conns, conns[s].unread # <<>>
    PROVE  Head(conns[s].unread) \in Batches /\ Head(conns[s].unread) \in Frame
<1>1. conns[s].unread \in Seq(Batches)
  BY DEF PortPartsOK, ConnType
<1>2. Head(conns[s].unread) \in Batches
  BY <1>1
<1> QED
  BY <1>2, PortAssumption DEF Frame
(* What the PLC does, it does to one connection.                           *)
LEMMA PlcMoves ==
    ASSUME PlcStep
    PROVE  /\ UNCHANGED <<vars, connections, readers, plc_last, arrived, overlapped>>
           /\ \E c \in Conns :
                \/ Forgotten(c) /\ PeerConnects(c)
                \/ PeerCloses(c) \/ PeerVanishes(c) \/ LossNoticed(c)
                \/ \E b \in Batches : PeerSends(c, b)
<1>1. CASE PlcLeaves
  BY <1>1 DEF PlcLeaves
<1>2. CASE PlcSends
  BY <1>2 DEF PlcSends
<1>3. ASSUME NEW c \in Conns, PlcConnects(c) \/ PlcGivesUp(c) \/ PlcLossNoticed(c)
      PROVE  /\ UNCHANGED <<vars, connections, readers, plc_last, arrived, overlapped>>
             /\ \/ Forgotten(c) /\ PeerConnects(c)
                \/ PeerCloses(c) \/ LossNoticed(c)
  BY <1>3 DEF PlcConnects, PlcGivesUp, PlcLossNoticed
<1> QED
  BY <1>1, <1>2, <1>3 DEF PlcStep

(* Every step of the port keeps the types.                                 *)
LEMMA PortTypeStep == PortTypeInv /\ [PortNext]_portAll => PortTypeInv'
<1> SUFFICES ASSUME PortTypeInv, [PortNext]_portAll
             PROVE  PortTypeInv'
  OBVIOUS
<1> USE DEF PortTypeInv, PortPartsOK
<1>0. UNCHANGED vars => TypeOK'
  BY TypeStep
<1>1. CASE UNCHANGED portAll
  BY <1>0, <1>1 DEF portAll, portVars, ReadersOK
<1>2. CASE PlcStep
  <2>1. conns' \in [Conns -> ConnType]
    BY <1>2, PlcMoves, ConnectStep, PeerStep
  <2>2. UNCHANGED <<vars, connections, readers, plc_last, arrived, overlapped>>
    BY <1>2, PlcMoves
  <2> QED
    BY <1>0, <2>1, <2>2 DEF ReadersOK
<1>3. ASSUME NEW c \in Conns, NEW port \in Ports, PortAccept(c, port)
      PROVE  PortTypeInv'
  <2>1. [conns[c] EXCEPT !.ours = "open"] \in ConnType
    BY ConnUpdateType
  <2>2. conns' \in [Conns -> ConnType] /\ connections' \in [Ports -> Conns \cup {NoSock}]
    BY <1>3, <2>1 DEF PortAccept
  <2>3. readers' \in [Conns -> Reader] /\ ReadersOK'
    BY <1>3, NewReaderType, ReaderSet DEF PortAccept, StartsThread
  <2> QED
    BY <1>0, <1>3, <2>2, <2>3 DEF PortAccept
<1>4. ASSUME NEW c \in Conns, LookUp(c)
      PROVE  PortTypeInv'
  <2> DEFINE found == connections[readers[c].port]
             new == IF found = NoSock THEN NoReader
                    ELSE [readers[c] EXCEPT !.at = "recv", !.reads = found]
  <2>1. readers' = [readers EXCEPT ![c] = new]
    BY <1>4 DEF LookUp, ReaderOfEntry
  <2>2. new \in Reader /\ ReaderOK(new)
    <3>1. readers[c].port \in Ports /\ found \in Conns \cup {NoSock}
      BY <1>4 DEF LookUp, ReadersOK, ReaderOK
    <3>2. CASE found = NoSock
      BY <3>2, NewReaderType
    <3>3. CASE found # NoSock
      BY <3>1, <3>3, ReaderUpdateType
    <3> QED
      BY <3>2, <3>3
  <2>3. readers' \in [Conns -> Reader] /\ ReadersOK'
    BY <2>1, <2>2, ReaderSet
  <2> QED
    BY <1>0, <1>4, <2>3 DEF LookUp
<1>5. ASSUME NEW c \in Conns, ReceiveFrame(c)
      PROVE  PortTypeInv'
  <2> DEFINE s == readers[c].reads
             f == Head(conns[s].unread)
             new == [readers[c] EXCEPT !.at = "parse", !.frame = f]
  <2>1. s \in Conns /\ readers[c].port \in Ports
    BY <1>5 DEF ReceiveFrame, ReadersOK, ReaderOK
  <2>2. f \in Batches /\ f \in Frame
    BY <1>5, <2>1, HeadIsFrame DEF ReceiveFrame
  <2>3. new \in Reader /\ ReaderOK(new)
    BY <2>1, <2>2, ReaderUpdateType
  <2>4. readers' = [readers EXCEPT ![c] = new]
    BY <1>5 DEF ReceiveFrame
  <2>5. readers' \in [Conns -> Reader] /\ ReadersOK'
    BY <2>3, <2>4, ReaderSet
  <2>6. conns' \in [Conns -> ConnType]
    BY <1>5, <2>1, TakeStep DEF ReceiveFrame
  <2> QED
    BY <1>0, <1>5, <2>2, <2>5, <2>6 DEF ReceiveFrame
<1>6. ASSUME NEW c \in Conns, ReceiveEnds(c)
      PROVE  PortTypeInv'
  <2>1. readers[c].port \in Ports
    BY <1>6 DEF ReceiveEnds, ReadersOK, ReaderOK
  <2>2. readers' \in [Conns -> Reader] /\ ReadersOK'
    BY <1>6, <2>1, ReaderUpdateType, ReaderSet DEF ReceiveEnds
  <2> QED
    BY <1>0, <1>6, <2>2 DEF ReceiveEnds
<1>7. ASSUME NEW c \in Conns, DetectChanges(c)
      PROVE  PortTypeInv'
  <2> DEFINE f == readers[c].frame
             quiet == ChangedArms(f) = {}
             new == [readers[c] EXCEPT !.at = IF quiet THEN "recv" ELSE "deliver",
                                       !.frame = IF quiet THEN NoReader.frame ELSE f]
  <2>1. f \in Batches /\ f \in Frame /\ readers[c].reads \in Conns /\ readers[c].port \in Ports
    BY <1>7, PortAssumption DEF DetectChanges, ReadersOK, ReaderOK, Frame
  <2>2. NoReader.frame \in Frame
    BY NewReaderType DEF Reader
  <2>3. new \in Reader /\ ReaderOK(new)
    BY <2>1, <2>2, ReaderUpdateType
  <2>4. readers' = [readers EXCEPT ![c] = new]
    BY <1>7 DEF DetectChanges
  <2>5. readers' \in [Conns -> Reader] /\ ReadersOK'
    BY <2>3, <2>4, ReaderSet
  <2>6. plc_last' \in Frame
    BY <1>7, <2>1 DEF DetectChanges, Frame
  <2> QED
    BY <1>0, <1>7, <2>5, <2>6 DEF DetectChanges
<1>8. ASSUME NEW c \in Conns, Deliver(c)
      PROVE  PortTypeInv'
  <2> DEFINE f == readers[c].frame
             new == [readers[c] EXCEPT !.at = "recv", !.frame = NoReader.frame]
  <2>1. f \in Frame /\ readers[c].reads \in Conns /\ readers[c].port \in Ports
    BY <1>8, PortAssumption DEF Deliver, ReadersOK, ReaderOK, Frame
  <2>2. NoReader.frame \in Frame
    BY NewReaderType DEF Reader
  <2>3. new \in Reader /\ ReaderOK(new)
    BY <2>1, <2>2, ReaderUpdateType
  <2>4. readers' = [readers EXCEPT ![c] = new]
    BY <1>8 DEF Deliver
  <2>5. readers' \in [Conns -> Reader] /\ ReadersOK'
    BY <2>3, <2>4, ReaderSet
  <2>6. TypeOK'
    BY <1>0, <1>8, <2>1, DequeuePointersType DEF Deliver, Frame
  <2> QED
    BY <1>8, <2>5, <2>6 DEF Deliver
<1>9. ASSUME NEW c \in Conns, CloseConnection(c)
      PROVE  PortTypeInv'
  <2>1. readers' \in [Conns -> Reader] /\ ReadersOK'
    BY <1>9, NewReaderType, ReaderSet DEF CloseConnection
  <2>2. conns' \in [Conns -> ConnType]
    <3>1. readers[c].port \in Ports
      BY <1>9 DEF CloseConnection, ReadersOK, ReaderOK
    <3> QED
      BY <1>9, <3>1, CloseStep DEF CloseConnection, ClosedWithEntry
  <2>3. connections' \in [Ports -> Conns \cup {NoSock}]
    BY <1>9 DEF CloseConnection
  <2> QED
    BY <1>0, <1>9, <2>1, <2>2, <2>3 DEF CloseConnection
<1>10. ASSUME NEW n \in Counts, NEW p \in Pointers, EnqueueItem(n, p), UNCHANGED portVars
       PROVE  PortTypeInv'
  <2>1. TypeOK'
    BY <1>10, EnqueuePairType DEF EnqueueItem, cycleVars, TypeOK
  <2> QED
    BY <1>10, <2>1 DEF portVars, ReadersOK
<1> QED
  BY <1>1, <1>2, <1>3, <1>4, <1>5, <1>6, <1>7, <1>8, <1>9, <1>10 DEF PortNext, ReaderStep

(* The port starts with no connection and no thread.                       *)
LEMMA PortInitType == PortInit => PortTypeInv
<1> SUFFICES ASSUME PortInit
             PROVE  PortTypeInv
  OBVIOUS
<1>1. TypeOK
  BY InitType DEF PortInit
<1>2. conns \in [Conns -> ConnType]
  BY ConnUpdateType DEF PortInit, TcpInit
<1>3. PortPartsOK /\ ReadersOK
  BY <1>2, NewReaderType, PortAssumption DEF PortInit, PortPartsOK, ReadersOK, Frame
<1> QED
  BY <1>1, <1>3 DEF PortTypeInv

(* Every variable of the port and of the queue manager has its type,       *)
(* whatever the constants are.                                             *)
THEOREM PortTypeCorrect == PortSpec => []PortTypeOK
<1>1. PortTypeInv => PortTypeOK
  BY DEF PortTypeInv, PortPartsOK, PortTypeOK, Reader, Frame, ReadersOK, ReaderOK
<1> QED
  BY <1>1, PortInitType, PortTypeStep, PTL DEF PortSpec

-----------------------------------------------------------------------------
(* The queue manager behind the port.                                      *)

(* A connection's thread hands a frame of the PLC to the queue manager,    *)
(* which takes part in no other step but an enqueue.  It takes the flow    *)
(* with two cameras, whose enqueue the port's specification has, and a PLC *)
(* that leaves the pointers of the arms that are not in use at 0.          *)
LEMMA PortStepIsQueueStep ==
    ASSUME Flow = "dual_camera_11_12",
           \A f \in Batches : \A a \in Arms \ ActiveArms : f[a] = 0,
           PortTypeInv, [PortNext]_portAll
    PROVE  [Next]_vars
<1>1. ASSUME NEW c \in Conns, Deliver(c)
      PROVE  [Next]_vars
  <2>1. readers[c].frame \in Batches
    BY <1>1 DEF Deliver, PortTypeInv, ReadersOK, ReaderOK
  <2> QED
    BY <1>1, <2>1, PortAssumption DEF Deliver, Next, DequeueStep
<1>2. ASSUME NEW n \in Counts, NEW p \in Pointers, EnqueueItem(n, p)
      PROVE  [Next]_vars
  BY <1>2 DEF Next, DualStep
<1>3. CASE PlcStep
  BY <1>3, PlcMoves
<1>4. ASSUME NEW c \in Conns, NEW port \in Ports, PortAccept(c, port)
      PROVE  UNCHANGED vars
  BY <1>4 DEF PortAccept
<1>5. ASSUME NEW c \in Conns, ReaderStep(c)
      PROVE  Deliver(c) \/ UNCHANGED vars
  BY <1>5 DEF ReaderStep, LookUp, ReceiveFrame, ReceiveEnds, DetectChanges, CloseConnection
<1> QED
  BY <1>1, <1>2, <1>3, <1>4, <1>5 DEF PortNext, portAll

(* The queue manager that is driven through the port behaves as it is      *)
(* specified, so that every safety property proved of it (QueueManager)    *)
(* holds behind the port: reconnections, threads that outlive their        *)
(* connection and frames that overtake each other are nothing new to it.   *)
THEOREM PortDrivesQueue ==
    ASSUME Flow = "dual_camera_11_12",
           \A f \in Batches : \A a \in Arms \ ActiveArms : f[a] = 0
    PROVE  PortSpec => Spec
<1>1. PortInit => PortTypeInv /\ Init
  BY PortInitType DEF PortInit
<1>2. PortTypeInv /\ [PortNext]_portAll => [Next]_vars
  BY PortStepIsQueueStep
<1> QED
  BY <1>1, <1>2, PortTypeStep, PTL DEF PortSpec, Spec

-----------------------------------------------------------------------------
(* The dictionary of connections.                                          *)

(* An entry under a port is the connection of the thread started for it.   *)
EntryHasReader ==
    \A port \in Ports, c \in Conns : connections[port] = c => readers[c].port = port

(* Nothing refers to a connection that waits to be accepted.               *)
BacklogIsNew ==
    \A c \in Conns : conns[c].ours = "backlog" =>
        /\ readers[c].at = "none"
        /\ \A port \in Ports : connections[port] # c

(* A connection that still reaches the PLC is in the dictionary: the entry *)
(* is taken by another one only when the PLC has left, and an old thread   *)
(* that removes a newer connection closes it too.                          *)
ReachingIsEntered ==
    \A c \in Conns : conns[c].ours = "open" /\ conns[c].peer # "closed" =>
        \E port \in Ports : connections[port] = c

DictionaryInv == PortTypeInv /\ EntryHasReader /\ BacklogIsNew /\ ReachingIsEntered

(* A device's step on an end of ours: a connection that reaches the device *)
(* afterwards did so before.                                               *)
LEMMA PeerEnds ==
    ASSUME conns \in [Conns -> ConnType], NEW c \in Conns,
           \/ PeerCloses(c) \/ PeerVanishes(c) \/ LossNoticed(c)
           \/ \E b \in Batches : PeerSends(c, b)
    PROVE  \A d \in Conns : conns[d].peer = "closed" => conns'[d].peer = "closed"
BY DEF PeerCloses, PeerVanishes, LossNoticed, PeerSends, ConnType

(* Every step of the port keeps the dictionary and the threads in line.    *)
LEMMA DictionaryStep == DictionaryInv /\ [PortNext]_portAll => DictionaryInv'
<1> SUFFICES ASSUME DictionaryInv, [PortNext]_portAll
             PROVE  DictionaryInv'
  OBVIOUS
<1>t. PortTypeInv'
  BY PortTypeStep DEF DictionaryInv
<1>p. /\ conns \in [Conns -> ConnType] /\ readers \in [Conns -> Reader]
      /\ connections \in [Ports -> Conns \cup {NoSock}]
      /\ \A c \in Conns : ReaderOK(readers[c])
  BY DEF DictionaryInv, PortTypeInv, PortPartsOK, ReadersOK
<1> USE DEF DictionaryInv, EntryHasReader, BacklogIsNew, ReachingIsEntered
<1> HIDE DEF DictionaryInv
<1>i. EntryHasReader /\ BacklogIsNew /\ ReachingIsEntered
  BY DEF DictionaryInv
<1>s. ASSUME UNCHANGED <<conns, connections>>,
             \A c \in Conns : /\ readers'[c].port = readers[c].port
                              /\ readers[c].at = "none" => readers'[c].at = "none"
      PROVE  DictionaryInv'
  BY <1>t, <1>i, <1>s DEF DictionaryInv
<1>1. CASE UNCHANGED portAll
  BY <1>1, <1>s DEF portAll, portVars
<1>2. CASE PlcStep
  <2>0. UNCHANGED <<connections, readers>>
    BY <1>2, PlcMoves
  <2>1. ASSUME NEW c \in Conns, Forgotten(c), PeerConnects(c)
        PROVE  DictionaryInv'
    <3>1. \A d \in Conns : d # c => conns'[d] = conns[d]
      BY <2>1, <1>p DEF PeerConnects
    <3>2. conns'[c].ours = "backlog"
      BY <2>1, <1>p, ConnectStep
    <3> QED
      BY <1>t, <1>i, <2>0, <2>1, <3>1, <3>2 DEF Forgotten, DictionaryInv
  <2>2. ASSUME NEW c \in Conns,
               \/ PeerCloses(c) \/ PeerVanishes(c) \/ LossNoticed(c)
               \/ \E b \in Batches : PeerSends(c, b)
        PROVE  DictionaryInv'
    <3>1. \A d \in Conns : conns'[d].ours = conns[d].ours
      BY <2>2, <1>p, PeerStep
    <3>2. \A d \in Conns : conns[d].peer = "closed" => conns'[d].peer = "closed"
      BY <2>2, <1>p, PeerEnds
    <3> QED
      BY <1>t, <1>i, <2>0, <3>1, <3>2 DEF DictionaryInv
  <2> QED
    BY <1>2, <2>1, <2>2, PlcMoves
<1>3. ASSUME NEW c \in Conns, NEW port \in Ports, PortAccept(c, port)
      PROVE  DictionaryInv'
  <2>1. /\ connections' = [connections EXCEPT ![port] = c]
        /\ \A d \in Conns : d # c => conns'[d] = conns[d] /\ readers'[d] = readers[d]
    BY <1>3, <1>p DEF PortAccept, StartsThread
  <2>2. conns'[c].ours = "open" /\ readers'[c].port = port
    BY <1>3, <1>p, NewReaderType DEF PortAccept, StartsThread, ConnType
  <2>3. EntryHasReader'
    BY <1>i, <1>p, <1>3, <2>1, <2>2 DEF PortAccept
  <2>4. BacklogIsNew'
    BY <1>i, <1>p, <2>1, <2>2
  <2>5. ASSUME NEW d \in Conns, conns'[d].ours = "open", conns'[d].peer # "closed"
        PROVE  \E q \in Ports : connections'[q] = d
    <3>1. CASE d = c
      BY <1>p, <2>1, <3>1
    <3>2. CASE d # c
      <4>1. PICK q \in Ports : connections[q] = d
        BY <1>i, <2>1, <2>5, <3>2
      <4>2. q # port
        BY <1>i, <1>3, <2>1, <2>5, <3>2, <4>1 DEF PortAccept
      <4> QED
        BY <1>p, <2>1, <4>1, <4>2
    <3> QED
      BY <3>1, <3>2
  <2> QED
    BY <1>t, <2>3, <2>4, <2>5 DEF DictionaryInv
<1>4. ASSUME NEW c \in Conns, LookUp(c)
      PROVE  DictionaryInv'
  <2>1. \A d \in Conns : d # c => readers'[d] = readers[d]
    BY <1>4, <1>p DEF LookUp
  <2>2. CASE connections[readers[c].port] = NoSock
    <3>1. readers'[c] = NoReader
      BY <1>4, <1>p, <2>2 DEF LookUp, ReaderOfEntry
    <3>2. \A port \in Ports : connections[port] # c
      BY <1>i, <1>p, <2>2, SockIsNone
    <3> QED
      BY <1>4, <1>t, <1>i, <2>1, <3>1, <3>2 DEF LookUp, NoReader, DictionaryInv
  <2>3. CASE connections[readers[c].port] # NoSock
    <3>1. readers'[c].port = readers[c].port
      BY <1>4, <1>p, <2>3 DEF LookUp, ReaderOfEntry, Reader
    <3> QED
      BY <1>4, <1>s, <2>1, <3>1 DEF LookUp
  <2> QED
    BY <2>2, <2>3
<1>5. ASSUME NEW c \in Conns, ReceiveFrame(c)
      PROVE  DictionaryInv'
  <2>1. readers[c].reads \in Conns
    BY <1>5, <1>p DEF ReceiveFrame, ReaderOK
  <2>2. \A d \in Conns : conns'[d].ours = conns[d].ours /\ conns'[d].peer = conns[d].peer
    BY <1>5, <1>p, <2>1 DEF ReceiveFrame, TakeBatch, ConnType
  <2>3. \A d \in Conns : /\ readers'[d].port = readers[d].port
                         /\ readers[d].at = "none" => readers'[d].at = "none"
    BY <1>5, <1>p DEF ReceiveFrame, Reader
  <2>4. UNCHANGED connections
    BY <1>5 DEF ReceiveFrame
  <2>5. EntryHasReader' /\ BacklogIsNew'
    BY <1>i, <2>2, <2>3, <2>4
  <2>6. ReachingIsEntered'
    BY <1>i, <2>2, <2>4
  <2> QED
    BY <1>t, <2>5, <2>6 DEF DictionaryInv
<1>6. ASSUME NEW c \in Conns, ReceiveEnds(c) \/ DetectChanges(c) \/ Deliver(c)
      PROVE  DictionaryInv'
  <2>1. \A d \in Conns : /\ readers'[d].port = readers[d].port
                         /\ readers[d].at = "none" => readers'[d].at = "none"
    BY <1>6, <1>p DEF ReceiveEnds, DetectChanges, Deliver, Reader
  <2> QED
    BY <1>6, <1>s, <2>1 DEF ReceiveEnds, DetectChanges, Deliver
<1>7. ASSUME NEW c \in Conns, CloseConnection(c)
      PROVE  DictionaryInv'
  <2> DEFINE port == readers[c].port
             old == connections[port]
  <2>1. port \in Ports /\ old \in Conns \cup {NoSock}
    BY <1>7, <1>p DEF CloseConnection, ReaderOK
  <2>2. /\ connections' = [connections EXCEPT ![port] = NoSock]
        /\ readers' = [readers EXCEPT ![c] = NoReader]
    BY <1>7 DEF CloseConnection
  <2>3. \A d \in Conns : /\ conns'[d].ours = IF d = old THEN "closed" ELSE conns[d].ours
                         /\ conns'[d].peer = conns[d].peer
    <3>1. conns' = Close(old)
      BY <1>7 DEF CloseConnection, ClosedWithEntry
    <3>2. \A d \in Conns : Close(old)[d].peer = conns[d].peer
      BY <1>p, <2>1, SockIsNone DEF Close, ConnType
    <3>3. \A d \in Conns : Close(old)[d].ours = IF d = old THEN "closed" ELSE conns[d].ours
      BY <1>p, <2>1, CloseStep
    <3> QED
      BY <3>1, <3>2, <3>3
  <2> HIDE DEF port, old
  <2>4. EntryHasReader'
    BY <1>i, <1>p, <2>1, <2>2, SockIsNone DEF port
  <2>5. BacklogIsNew'
    BY <1>i, <1>p, <2>1, <2>2, <2>3, SockIsNone DEF NoReader
  <2>6. ReachingIsEntered'
    BY <1>i, <1>p, <2>1, <2>2, <2>3 DEF old
  <2> QED
    BY <1>t, <2>4, <2>5, <2>6 DEF DictionaryInv
<1>8. ASSUME NEW n \in Counts, NEW p \in Pointers, EnqueueItem(n, p), UNCHANGED portVars
      PROVE  DictionaryInv'
  BY <1>8, <1>s DEF portVars
<1> QED
  BY <1>1, <1>2, <1>3, <1>4, <1>5, <1>6, <1>7, <1>8 DEF PortNext, ReaderStep

(* The dictionary starts empty.                                            *)
LEMMA DictionaryInit == PortInit => DictionaryInv
<1> SUFFICES ASSUME PortInit
             PROVE  DictionaryInv
  OBVIOUS
<1>1. PortTypeInv
  BY PortInitType
<1> QED
  BY <1>1, SockIsNone DEF PortInit, TcpInit, NoConn, NoReader, DictionaryInv,
                          EntryHasReader, BacklogIsNew, ReachingIsEntered

(* A connection that the PLC uses and a thread reads is always among those *)
(* that feedback is sent to, whatever old threads do to the dictionary.    *)
THEOREM FeedbackReaches == PortSpec => []FeedbackReachesReader
<1>1. DictionaryInv => FeedbackReachesReader
  BY SockIsNone DEF DictionaryInv, ReachingIsEntered, FeedbackReachesReader, InUse,
                    FeedbackTargets
<1> QED
  BY <1>1, DictionaryInit, DictionaryStep, PTL DEF PortSpec

-----------------------------------------------------------------------------
(* The two change filters.                                                 *)

(* As long as no frame overtook another, one thread at a time handles a    *)
(* frame, the last one that came: the handler's pointers follow first, and *)
(* then the queue manager's.                                               *)
HandlerFollows == \A a \in Arms : plc_last[a] = arrived[a]
QueueFollows == \A a \in Arms : LastPointer(a) = plc_last[a]

FiltersInv == ~overlapped =>
    /\ \A c, d \in Conns : Handling(c) /\ Handling(d) => c = d
    /\ (\A c \in Conns : ~Handling(c)) => HandlerFollows /\ QueueFollows
    /\ \A c \in Conns :
         /\ Handling(c) => readers[c].frame = arrived
         /\ readers[c].at = "parse" => QueueFollows
         /\ readers[c].at = "deliver" => HandlerFollows

(* After the queue manager's call it holds the frame's pointers.           *)
LEMMA QueueTakesFrame ==
    ASSUME NEW f \in Frame,
           \/ HandleDequeuePointers(f)
           \/ (\A a \in Arms : f[a] = LastPointer(a)) /\ UNCHANGED vars
    PROVE  \A a \in Arms : LastPointer(a)' = f[a]
<1>1. ASSUME NEW a \in Arms
      PROVE  f[a] # None
  BY ConstantsAssumption DEF Frame, None
<1>2. CASE HandleDequeuePointers(f)
  <2>1. \A a \in Arms : last_dequeue_pointers'[a] =
            IF f[a] # LastPointer(a) THEN f[a] ELSE last_dequeue_pointers[a]
    BY <1>2 DEF HandleDequeuePointers
  <2> QED
    BY <1>1, <2>1 DEF LastPointer
<1>3. CASE (\A a \in Arms : f[a] = LastPointer(a)) /\ UNCHANGED vars
  BY <1>3 DEF vars, cacheVars, LastPointer
<1> QED
  BY <1>2, <1>3

(* Every step keeps the filters together.                                  *)
LEMMA FiltersStep == DictionaryInv /\ FiltersInv /\ [PortNext]_portAll => FiltersInv'
<1> SUFFICES ASSUME DictionaryInv, FiltersInv, [PortNext]_portAll, ~overlapped'
             PROVE  FiltersInv'
  BY DEF FiltersInv
<1>t. PortTypeInv'
  BY PortTypeStep DEF DictionaryInv
<1>p. /\ readers \in [Conns -> Reader] /\ \A c \in Conns : ReaderOK(readers[c])
      /\ plc_last \in Frame /\ arrived \in Frame
  BY DEF DictionaryInv, PortTypeInv, PortPartsOK, ReadersOK
<1>o. ~overlapped
  BY PlcMoves DEF PortNext, ReaderStep, PortAccept, LookUp, ReceiveFrame, ReceiveEnds,
                  DetectChanges, Deliver, CloseConnection, portAll, portVars
<1>i. /\ \A c, d \in Conns : Handling(c) /\ Handling(d) => c = d
      /\ (\A c \in Conns : ~Handling(c)) => HandlerFollows /\ QueueFollows
      /\ \A c \in Conns :
           /\ Handling(c) => readers[c].frame = arrived
           /\ readers[c].at = "parse" => QueueFollows
           /\ readers[c].at = "deliver" => HandlerFollows
  BY <1>o DEF FiltersInv
<1>s. ASSUME UNCHANGED <<last_dequeue_pointers, plc_last, arrived>>,
             \A c \in Conns : readers'[c] = readers[c] \/ (~Handling(c) /\ ~Handling(c)')
      PROVE  FiltersInv'
  <2>1. (HandlerFollows' <=> HandlerFollows) /\ (QueueFollows' <=> QueueFollows)
    BY <1>s DEF HandlerFollows, QueueFollows, LastPointer
  <2>2. \A c \in Conns : Handling(c)' <=> Handling(c)
    BY <1>s DEF Handling
  <2>3. \A c \in Conns : Handling(c) => readers'[c] = readers[c]
    BY <1>s
  <2> QED
    BY <1>i, <1>s, <2>1, <2>2, <2>3 DEF FiltersInv, Handling
<1>1. CASE UNCHANGED portAll
  BY <1>1, <1>s DEF portAll, portVars, vars, cacheVars
<1>2. CASE PlcStep
  BY <1>2, <1>s, PlcMoves DEF vars, cacheVars
<1>3. ASSUME NEW c \in Conns, NEW port \in Ports, PortAccept(c, port)
      PROVE  FiltersInv'
  <2>1. \A d \in Conns : d # c => readers'[d] = readers[d]
    BY <1>3, <1>p DEF PortAccept, StartsThread
  <2>2. readers[c].at = "none"
    BY <1>3 DEF PortAccept, DictionaryInv, BacklogIsNew
  <2>3. readers'[c].at = "lookup"
    BY <1>3, <1>p, NewReaderType DEF PortAccept, StartsThread
  <2> QED
    BY <1>3, <1>s, <2>1, <2>2, <2>3 DEF PortAccept, Handling, vars, cacheVars
<1>4. ASSUME NEW c \in Conns, LookUp(c) \/ ReceiveEnds(c) \/ CloseConnection(c)
      PROVE  FiltersInv'
  <2>1. \A d \in Conns : d # c => readers'[d] = readers[d]
    BY <1>4, <1>p DEF LookUp, ReceiveEnds, CloseConnection
  <2>2. readers[c].at \notin {"parse", "deliver"}
    BY <1>4 DEF LookUp, ReceiveEnds, CloseConnection
  <2>3. readers'[c].at \notin {"parse", "deliver"}
    <3>1. CASE LookUp(c)
      <4> DEFINE found == connections[readers[c].port]
      <4>1. readers'[c] = IF found = NoSock THEN NoReader
                          ELSE [readers[c] EXCEPT !.at = "recv", !.reads = found]
        BY <1>p, <3>1 DEF LookUp, ReaderOfEntry
      <4> QED
        BY <1>p, <4>1 DEF NoReader, Reader
    <3>2. CASE ReceiveEnds(c)
      BY <1>p, <3>2 DEF ReceiveEnds, Reader
    <3>3. CASE CloseConnection(c)
      BY <1>p, <3>3 DEF CloseConnection, NoReader
    <3> QED
      BY <1>4, <3>1, <3>2, <3>3
  <2>4. UNCHANGED <<last_dequeue_pointers, plc_last, arrived>>
    BY <1>4 DEF LookUp, ReceiveEnds, CloseConnection, vars, cacheVars
  <2> QED
    BY <1>s, <2>1, <2>2, <2>3, <2>4 DEF Handling
<1>5. ASSUME NEW c \in Conns, ReceiveFrame(c)
      PROVE  FiltersInv'
  <2>1. \A d \in Conns : ~Handling(d)
    BY <1>5 DEF ReceiveFrame
  <2>2. \A d \in Conns : d # c => readers'[d] = readers[d]
    BY <1>5, <1>p DEF ReceiveFrame
  <2>3. readers'[c].at = "parse" /\ readers'[c].frame = arrived'
    BY <1>5, <1>p DEF ReceiveFrame, Reader
  <2>4. QueueFollows'
    BY <1>5, <1>i, <2>1 DEF ReceiveFrame, QueueFollows, LastPointer, vars, cacheVars
  <2>5. \A d \in Conns : Handling(d)' <=> d = c
    BY <2>1, <2>2, <2>3 DEF Handling
  <2> QED
    BY <2>3, <2>4, <2>5 DEF FiltersInv, Handling
<1>6. ASSUME NEW c \in Conns, DetectChanges(c)
      PROVE  FiltersInv'
  <2>1. readers[c].at = "parse" /\ readers[c].frame = arrived /\ QueueFollows
    BY <1>6, <1>i DEF DetectChanges, Handling
  <2>2. \A d \in Conns : d # c => readers'[d] = readers[d] /\ ~Handling(d)
    BY <1>6, <1>i, <1>p, <2>1 DEF DetectChanges, Handling
  <2>3. HandlerFollows'
    BY <1>6, <2>1 DEF DetectChanges, ChangedArms, HandlerFollows
  <2>4. CASE ChangedArms(arrived) = {}
    <3>1. readers'[c].at = "recv"
      BY <1>6, <1>p, <2>1, <2>4 DEF DetectChanges, Reader
    <3>2. QueueFollows'
      BY <1>6, <2>1, <2>4 DEF DetectChanges, ChangedArms, QueueFollows, LastPointer,
                              vars, cacheVars
    <3>3. \A d \in Conns : ~Handling(d)'
      BY <2>2, <3>1 DEF Handling
    <3> QED
      BY <2>3, <3>2, <3>3 DEF FiltersInv, Handling
  <2>5. CASE ChangedArms(arrived) # {}
    <3>1. readers'[c].at = "deliver" /\ readers'[c].frame = arrived'
      BY <1>6, <1>p, <2>1, <2>5 DEF DetectChanges, Reader
    <3>2. \A d \in Conns : Handling(d)' <=> d = c
      BY <2>2, <3>1 DEF Handling
    <3> QED
      BY <2>3, <3>1, <3>2 DEF FiltersInv, Handling
  <2> QED
    BY <2>4, <2>5
<1>7. ASSUME NEW c \in Conns, Deliver(c)
      PROVE  FiltersInv'
  <2>1. readers[c].at = "deliver" /\ readers[c].frame = arrived /\ HandlerFollows
    BY <1>7, <1>i DEF Deliver, Handling
  <2>2. \A d \in Conns : d # c => readers'[d] = readers[d] /\ ~Handling(d)
    BY <1>7, <1>i, <1>p, <2>1 DEF Deliver, Handling
  <2>3. readers'[c].at = "recv"
    BY <1>7, <1>p DEF Deliver, Reader
  <2>4. \A a \in Arms : LastPointer(a)' = arrived[a]
    BY <1>7, <1>p, <2>1, QueueTakesFrame DEF Deliver
  <2>5. HandlerFollows' /\ QueueFollows'
    BY <1>7, <2>1, <2>4 DEF Deliver, HandlerFollows, QueueFollows
  <2>6. \A d \in Conns : ~Handling(d)'
    BY <2>2, <2>3 DEF Handling
  <2> QED
    BY <2>5, <2>6 DEF FiltersInv, Handling
<1>8. ASSUME NEW n \in Counts, NEW p \in Pointers, EnqueueItem(n, p), UNCHANGED portVars
      PROVE  FiltersInv'
  BY <1>8, <1>s DEF portVars, EnqueueItem, EnqueuePair
<1> QED
  BY <1>1, <1>2, <1>3, <1>4, <1>5, <1>6, <1>7, <1>8 DEF PortNext, ReaderStep

(* As long as no frame overtook another, the port's filter and the queue   *)
(* manager's agree on the pointers whenever no frame is being handled.     *)
THEOREM FiltersAgree == PortSpec => []LayersAgree
<1>1. PortInit => DictionaryInv /\ FiltersInv
  <2> SUFFICES ASSUME PortInit
               PROVE  FiltersInv
    BY DictionaryInit
  <2> QED
    BY DEF PortInit, Init, FiltersInv, HandlerFollows, QueueFollows, LastPointer, Handling, NoReader
<1>2. FiltersInv => LayersAgree
  BY DEF FiltersInv, LayersAgree, HandlerFollows, QueueFollows
<1> QED
  BY <1>1, <1>2, DictionaryStep, FiltersStep, PTL DEF PortSpec
=============================================================================
