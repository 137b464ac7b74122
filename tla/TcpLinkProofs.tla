---------------------------- MODULE TcpLinkProofs ----------------------------
(***************************************************************************)
(* Lemmas about connections (TcpLink) that the proofs of the links use:    *)
(* the table of connections keeps its type, and which steps change our end *)
(* of a connection.                                                        *)
(***************************************************************************)
EXTENDS TcpLink, TLAPS

(* A socket is a number other than None.                                   *)
LEMMA SockIsNone == NoSock \notin Conns
BY TcpAssumption DEF NoSock

(* A connection stays one when a field of it is set.                       *)
LEMMA ConnUpdateType ==
    /\ NoConn \in ConnType
    /\ \A k \in ConnType :
         /\ \A o \in {"none", "backlog", "open", "closed"} : [k EXCEPT !.ours = o] \in ConnType
         /\ \A p \in {"none", "open", "lost", "closed"} : [k EXCEPT !.peer = p] \in ConnType
         /\ \A b \in BOOLEAN : [k EXCEPT !.nonblocking = b] \in ConnType
         /\ k.unread # <<>> => [k EXCEPT !.unread = Tail(@)] \in ConnType
         /\ \A b \in Batches : [k EXCEPT !.unread = Append(@, b)] \in ConnType
<1>1. NoConn \in ConnType
  BY DEF NoConn, ConnType
<1>2. ASSUME NEW k \in ConnType
      PROVE  /\ \A o \in {"none", "backlog", "open", "closed"} : [k EXCEPT !.ours = o] \in ConnType
             /\ \A p \in {"none", "open", "lost", "closed"} : [k EXCEPT !.peer = p] \in ConnType
             /\ \A b \in BOOLEAN : [k EXCEPT !.nonblocking = b] \in ConnType
             /\ k.unread # <<>> => [k EXCEPT !.unread = Tail(@)] \in ConnType
             /\ \A b \in Batches : [k EXCEPT !.unread = Append(@, b)] \in ConnType
  <2>1. k.unread \in Seq(Batches) /\ k.nonblocking \in BOOLEAN
    BY DEF ConnType
  <2>2. k.unread # <<>> => Tail(k.unread) \in Seq(Batches)
    BY <2>1
  <2>3. \A b \in Batches : Append(k.unread, b) \in Seq(Batches)
    BY <2>1
  <2> QED
    BY <2>2, <2>3 DEF ConnType
<1> QED
  BY <1>1, <1>2

(* A connection that a device opens or that we make.                       *)
LEMMA NewConnType ==
    ASSUME NEW o \in {"none", "backlog", "open", "closed"}
    PROVE  /\ [NoConn EXCEPT !.ours = o, !.peer = "open"] \in ConnType
           /\ [NoConn EXCEPT !.ours = o, !.peer = "open"].ours = o
<1>1. [NoConn EXCEPT !.ours = o] \in ConnType
  BY ConnUpdateType
<1>2. [[NoConn EXCEPT !.ours = o] EXCEPT !.peer = "open"] \in ConnType
  BY <1>1, ConnUpdateType
<1>3. [[NoConn EXCEPT !.ours = o] EXCEPT !.peer = "open"].ours = o
  BY <1>1 DEF ConnType, NoConn
<1> QED
  BY <1>2, <1>3

(* Our end closes the socket of a connection, or nothing for None.         *)
LEMMA CloseStep ==
    ASSUME conns \in [Conns -> ConnType], NEW c \in Conns \cup {NoSock}
    PROVE  /\ Close(c) \in [Conns -> ConnType]
           /\ \A d \in Conns : Close(c)[d].ours = IF d = c THEN "closed" ELSE conns[d].ours
<1>1. CASE c = NoSock
  BY <1>1, SockIsNone DEF Close
<1>2. CASE c \in Conns
  <2>1. [conns[c] EXCEPT !.ours = "closed"] \in ConnType
    BY <1>2, ConnUpdateType
  <2>2. [conns[c] EXCEPT !.ours = "closed"].ours = "closed"
    BY <1>2 DEF ConnType
  <2> QED
    BY <1>2, <2>1, <2>2, SockIsNone DEF Close
<1> QED
  BY <1>1, <1>2

(* The listening socket is closed: what waits in its backlog is gone.      *)
LEMMA ListenerStep ==
    ASSUME conns \in [Conns -> ConnType]
    PROVE  /\ CloseListener \in [Conns -> ConnType]
           /\ \A d \in Conns : CloseListener[d].ours =
                IF conns[d].ours = "backlog" THEN "closed" ELSE conns[d].ours
<1>1. ASSUME NEW d \in Conns
      PROVE  /\ [conns[d] EXCEPT !.ours = "closed"] \in ConnType
             /\ [conns[d] EXCEPT !.ours = "closed"].ours = "closed"
  <2>1. [conns[d] EXCEPT !.ours = "closed"] \in ConnType
    BY ConnUpdateType
  <2>2. [conns[d] EXCEPT !.ours = "closed"].ours = "closed"
    BY DEF ConnType
  <2> QED
    BY <2>1, <2>2
<1> QED
  BY <1>1 DEF CloseListener

(* A recv changes neither end.                                             *)
LEMMA TakeStep ==
    ASSUME conns \in [Conns -> ConnType], NEW c \in Conns \cup {NoSock}, conns[c].unread # <<>>
    PROVE  /\ TakeBatch(c) \in [Conns -> ConnType]
           /\ \A d \in Conns : TakeBatch(c)[d].ours = conns[d].ours
<1>1. CASE c = NoSock
  BY <1>1, SockIsNone DEF TakeBatch
<1>2. CASE c \in Conns
  <2>1. [conns[c] EXCEPT !.unread = Tail(@)] \in ConnType
    BY <1>2, ConnUpdateType
  <2>2. [conns[c] EXCEPT !.unread = Tail(@)].ours = conns[c].ours
    BY <1>2 DEF ConnType
  <2> QED
    BY <1>2, <2>1, <2>2 DEF TakeBatch
<1> QED
  BY <1>1, <1>2

(* A device opens a connection.                                            *)
LEMMA ConnectStep ==
    ASSUME conns \in [Conns -> ConnType], NEW c \in Conns, PeerConnects(c)
    PROVE  /\ conns' \in [Conns -> ConnType]
           /\ \A d \in Conns : conns'[d].ours = IF d = c THEN "backlog" ELSE conns[d].ours
BY NewConnType DEF PeerConnects

(* Whatever else a device does changes its own end only.                   *)
LEMMA PeerStep ==
    ASSUME conns \in [Conns -> ConnType], NEW c \in Conns,
           \/ PeerCloses(c) \/ PeerVanishes(c) \/ LossNoticed(c)
           \/ \E b \in Batches : PeerSends(c, b)
    PROVE  /\ conns' \in [Conns -> ConnType]
           /\ \A d \in Conns : conns'[d].ours = conns[d].ours
<1>1. CASE PeerCloses(c) \/ PeerVanishes(c) \/ LossNoticed(c)
  <2>1. PICK p \in {"none", "open", "lost", "closed"} :
            conns' = [conns EXCEPT ![c] = [conns[c] EXCEPT !.peer = p]]
    BY <1>1 DEF PeerCloses, PeerVanishes, LossNoticed
  <2>2. [conns[c] EXCEPT !.peer = p] \in ConnType
    BY ConnUpdateType
  <2>3. [conns[c] EXCEPT !.peer = p].ours = conns[c].ours
    BY DEF ConnType
  <2> QED
    BY <2>1, <2>2, <2>3
<1>2. ASSUME NEW b \in Batches, PeerSends(c, b)
      PROVE  /\ conns' \in [Conns -> ConnType]
             /\ \A d \in Conns : conns'[d].ours = conns[d].ours
  <2>1. conns' = [conns EXCEPT ![c] = [conns[c] EXCEPT !.unread = Append(@, b)]]
    BY <1>2 DEF PeerSends
  <2>2. [conns[c] EXCEPT !.unread = Append(@, b)] \in ConnType
    BY ConnUpdateType
  <2>3. [conns[c] EXCEPT !.unread = Append(@, b)].ours = conns[c].ours
    BY DEF ConnType
  <2> QED
    BY <2>1, <2>2, <2>3
<1> QED
  BY <1>1, <1>2
=============================================================================
