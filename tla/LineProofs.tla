----------------------------- MODULE LineProofs -----------------------------
(* Proofs about the C++ line controller, for every number of parts, queue   *)
(* length, prefetch offset, robot setting, and set of frames.               *)
EXTENDS SprayLine, TLAPS

(* ------------------------------ the guns ------------------------------- *)

WorkerTyped ==
    /\ gun \in [Arms -> {"on", "off"}]
    /\ answered \in [Arms -> BOOLEAN]
    /\ worker \in [arm : Arms \cup {0}, at : {"idle", "segment", "close", "failed", "next"},
                   segment : Nat, active : BOOLEAN]
    /\ worker.at # "idle" => worker.arm \in Arms /\ robot # "fake"

(* The worker thinks the output open exactly from the segment that opens it *)
(* to the one that closes it; a plan without segments does not begin.       *)
WorkerKnows ==
    worker.at = "segment" =>
        /\ worker.segment \in 1 .. 5
        /\ worker.active <=> worker.segment \in {3, 4}
        /\ motion = "none" => worker.segment = 1
        /\ Segments(tasks[running[worker.arm]]) = <<>> => worker.segment = 1

(* An output that was confirmed to be open is the one the worker knows of.  *)
OpenIsKnown ==
    \A a \in Arms : gun[a] = "on" /\ answered[a] =>
        worker.arm = a /\ worker.at \in {"segment", "close"} /\ worker.active

GunInv == WorkerTyped /\ WorkerKnows /\ OpenIsKnown

LEMMA GunInvInit == LineInit => GunInv
BY DEF LineInit, RobotInit, GunInv, WorkerTyped, WorkerKnows, OpenIsKnown, IdleWorker, Arms

(* A handler runs only when the worker is idle, and leaves it idle.         *)
LEMMA IdleKeepsGunInv ==
    GunInv /\ LoopFree /\ UNCHANGED <<robot, worker, gun, answered>> => GunInv'
BY DEF GunInv, WorkerTyped, WorkerKnows, OpenIsKnown, LoopFree

(* A plan is empty, or opens with its second and closes with its last step. *)
LEMMA PlanShape ==
    ASSUME NEW task
    PROVE  \/ Segments(task) = <<>> /\ Len(Segments(task)) = 0
           \/ /\ Len(Segments(task)) = 4 /\ Segments(task) # <<>>
              /\ \A k \in 1 .. 4 : /\ (Segments(task)[k] = "open") <=> (k = 2)
                                   /\ (Segments(task)[k] = "close") <=> (k = 4)
BY DEF Segments

LEMMA StartKeepsGunInv ==
    ASSUME NEW a \in Arms, GunInv, StartNext(a)
    PROVE  GunInv'
<1> USE DEF GunInv, WorkerTyped, WorkerKnows, OpenIsKnown
<1>1. worker.at \in {"idle", "next"} /\ robot # "fake"
  BY DEF StartNext, LoopFree, Duco
<1>2. \A b \in Arms : gun[b] = "on" => ~answered[b]
  BY <1>1
<1>3. /\ worker' = [arm |-> a, at |-> "segment", segment |-> 1, active |-> FALSE]
      /\ UNCHANGED <<robot, motion, gun, answered>>
  BY DEF StartNext
<1>4. WorkerTyped'
  BY <1>1, <1>3
<1>5. WorkerKnows'
  <2>1. worker'.segment = 1 /\ ~worker'.active
    BY <1>3
  <2> QED BY <2>1
<1>6. OpenIsKnown'
  BY <1>2, <1>3
<1> QED BY <1>4, <1>5, <1>6

LEMMA SegmentKeepsGunInv == GunInv /\ ExecuteSegment => GunInv'
<1> SUFFICES ASSUME GunInv, ExecuteSegment PROVE GunInv'
    OBVIOUS
<1> DEFINE a == worker.arm
           plan == Segments(tasks[running[a]])
           kind == plan[worker.segment]
<1> USE DEF GunInv, WorkerTyped, WorkerKnows, OpenIsKnown
<1>1. a \in Arms /\ worker.at = "segment" /\ motion # "none" /\ robot # "fake"
  BY DEF ExecuteSegment
<1>2. /\ worker.segment \in 1 .. 4 /\ plan # <<>>
      /\ (kind = "open") <=> (worker.segment = 2)
      /\ (kind = "close") <=> (worker.segment = 4)
  BY <1>1, PlanShape DEF ExecuteSegment
<1>3. PICK ok \in {FALSE} \cup {Works} :
        /\ CASE kind = "open" -> SetOutput(a, "on", ok)
             [] kind = "close" -> SetOutput(a, "off", ok)
             [] OTHER -> UNCHANGED <<gun, answered>>
        /\ worker' = IF ok
                     THEN [worker EXCEPT !.segment = @ + 1, !.active = SprayActive(kind, @)]
                     ELSE [worker EXCEPT !.at = IF worker.active THEN "close" ELSE "failed"]
  BY DEF ExecuteSegment
<1>4. ok \in BOOLEAN
  BY <1>3 DEF Works
<1>5. UNCHANGED <<robot, motion, tasks, running>>
  BY DEF ExecuteSegment
<1>6. /\ gun' \in [Arms -> {"on", "off"}] /\ answered' \in [Arms -> BOOLEAN]
      /\ \A b \in Arms \ {a} : gun'[b] = gun[b] /\ answered'[b] = answered[b]
  BY <1>1, <1>2, <1>3, <1>4 DEF SetOutput
<1>7. worker'.arm = a
  BY <1>3
<1>8. CASE ok
  <2>1. worker' = [worker EXCEPT !.segment = @ + 1, !.active = SprayActive(kind, @)]
    BY <1>3, <1>8
  <2>2. /\ worker'.at = "segment" /\ worker'.segment = worker.segment + 1
        /\ worker'.active = SprayActive(kind, worker.active)
    BY <2>1, <1>1
  <2>3. worker'.active <=> worker'.segment \in {3, 4}
    <3>1. worker.active \in BOOLEAN /\ (worker.active <=> worker.segment \in {3, 4})
      BY <1>1
    <3>2. CASE worker.segment = 2
      <4>1. worker'.active = TRUE
        BY <3>2, <2>2, <1>2, Zenon DEF SprayActive
      <4> QED BY <3>2, <4>1, <2>2
    <3>3. CASE worker.segment \in {1, 4}
      <4>1. kind # "open" /\ (~worker.active \/ kind = "close")
        BY <3>3, <3>1, <1>2
      <4>2. worker'.active = FALSE
        BY <4>1, <2>2, Zenon DEF SprayActive
      <4> QED BY <3>3, <4>2, <2>2
    <3>4. CASE worker.segment = 3
      BY <3>4, <3>1, <2>2, <1>2 DEF SprayActive
    <3> QED BY <1>2, <3>2, <3>3, <3>4
  <2>4. gun'[a] = "on" /\ answered'[a] => worker'.active
    <3>1. CASE worker.segment = 4
      BY <3>1, <1>1, <1>2, <1>3, <1>8 DEF SetOutput
    <3>2. CASE worker.segment = 2
      BY <3>2, <2>2, <2>3
    <3>3. CASE worker.segment \in {1, 3}
      <4>1. gun'[a] = gun[a] /\ answered'[a] = answered[a]
        BY <3>3, <1>2, <1>3
      <4>2. gun[a] = "on" /\ answered[a] => worker.active
        BY <1>1
      <4>3. worker.active => worker.segment = 3
        BY <3>3, <1>1
      <4> QED BY <4>1, <4>2, <4>3, <2>2, <2>3
    <3> QED BY <1>2, <3>1, <3>2, <3>3
  <2>5. worker'.segment \in Nat /\ worker'.active \in BOOLEAN
    BY <2>2, <1>2 DEF SprayActive
  <2>6. WorkerTyped'
    BY <1>1, <1>5, <1>6, <1>7, <2>1, <2>2, <2>5
  <2>7. WorkerKnows'
    BY <1>1, <1>2, <1>5, <1>7, <2>2, <2>3
  <2>8. OpenIsKnown'
    BY <1>6, <1>7, <2>2, <2>4
  <2> QED BY <2>6, <2>7, <2>8
<1>9. CASE ~ok
  <2>1. worker' = [worker EXCEPT !.at = IF worker.active THEN "close" ELSE "failed"]
    BY <1>3, <1>9
  <2>2. worker'.at \in {"close", "failed"} /\ worker'.active = worker.active
    BY <2>1
  <2>3. gun'[a] = "on" /\ answered'[a] => worker'.at = "close" /\ worker'.active
    BY <1>1, <1>2, <1>3, <1>9, <2>1, <2>2 DEF SetOutput
  <2>4. WorkerTyped'
    BY <1>1, <1>5, <1>6, <1>7, <2>1, <2>2
  <2>5. WorkerKnows'
    BY <2>2
  <2>6. OpenIsKnown'
    BY <1>6, <1>7, <2>2, <2>3
  <2> QED BY <2>4, <2>5, <2>6
<1> QED BY <1>4, <1>8, <1>9

LEMMA CloseKeepsGunInv == GunInv /\ CloseSprayIo => GunInv'
<1> SUFFICES ASSUME GunInv, CloseSprayIo PROVE GunInv'
    OBVIOUS
<1> DEFINE a == worker.arm
<1> USE DEF GunInv, WorkerTyped, WorkerKnows, OpenIsKnown
<1>1. a \in Arms /\ robot # "fake"
  BY DEF CloseSprayIo
<1>2. PICK ok \in BOOLEAN : SetOutput(a, "off", ok)
  BY DEF CloseSprayIo, Works
<1>3. /\ gun' \in [Arms -> {"on", "off"}] /\ answered' \in [Arms -> BOOLEAN]
      /\ \A b \in Arms \ {a} : gun'[b] = gun[b] /\ answered'[b] = answered[b]
      /\ gun'[a] = "on" => ~answered'[a]
  BY <1>1, <1>2 DEF SetOutput
<1>4. /\ worker' = [worker EXCEPT !.at = "failed"]
      /\ UNCHANGED <<robot, motion, tasks, running>>
  BY DEF CloseSprayIo
<1>5. worker'.at = "failed" /\ worker'.arm = a
  BY <1>4
<1>6. WorkerTyped'
  BY <1>1, <1>3, <1>4, <1>5
<1>7. WorkerKnows'
  BY <1>5
<1>8. OpenIsKnown'
  BY <1>3, <1>5
<1> QED BY <1>6, <1>7, <1>8

LEMMA EndKeepsGunInv == GunInv /\ (TaskSucceeds \/ TaskFails) => GunInv'
<1> SUFFICES ASSUME GunInv, TaskSucceeds \/ TaskFails PROVE GunInv'
    OBVIOUS
<1> USE DEF GunInv, WorkerTyped, WorkerKnows, OpenIsKnown
<1>1. worker.at \in {"segment", "failed"} /\ worker.arm \in Arms /\ robot # "fake"
  BY DEF TaskSucceeds, TaskFails
<1>2. \A b \in Arms : gun[b] = "on" => ~answered[b]
  <2>1. CASE worker.at = "failed"
    BY <2>1
  <2>2. CASE worker.at = "segment"
    BY <1>1, <2>2, PlanShape DEF TaskSucceeds, TaskFails
  <2> QED BY <1>1, <2>1, <2>2
<1>3. worker' = WorkerAfter(worker.arm) /\ UNCHANGED <<robot, gun, answered>>
  BY DEF TaskSucceeds, TaskFails
<1>4. \/ worker' = IdleWorker
      \/ worker' = [arm |-> worker.arm, at |-> "next", segment |-> 1, active |-> FALSE]
  BY <1>3 DEF WorkerAfter, IdleWorker
<1>5. WorkerTyped'
  <2>1. CASE worker' = IdleWorker
    BY <1>3, <2>1 DEF IdleWorker
  <2>2. CASE worker' = [arm |-> worker.arm, at |-> "next", segment |-> 1, active |-> FALSE]
    BY <1>1, <1>3, <2>2
  <2> QED BY <1>4, <2>1, <2>2
<1>6. WorkerKnows'
  BY <1>4 DEF IdleWorker
<1>7. OpenIsKnown'
  BY <1>2, <1>3
<1> QED BY <1>5, <1>6, <1>7

LEMMA GunInvStep == GunInv /\ [LineNext]_allVars => GunInv'
<1> SUFFICES ASSUME GunInv, [LineNext]_allVars PROVE GunInv'
    OBVIOUS
<1>1. CASE \E part \in Parts : HandleStart(part[1], part[2])
  BY <1>1, IdleKeepsGunInv DEF HandleStart, Comes, robotVars
<1>2. CASE \E n \in Counts : HandleEnd(n) \/ Handle2dResult(n)
  BY <1>2, IdleKeepsGunInv DEF HandleEnd, Handle2dResult, Comes, robotVars
<1>3. CASE Handle2dReady
  BY <1>3, IdleKeepsGunInv DEF Handle2dReady, Comes, robotVars
<1>4. CASE \E frame \in Frames : Handle3dFrame(frame)
  BY <1>4, IdleKeepsGunInv DEF Handle3dFrame, Comes, robotVars
<1>5. CASE \E f \in Dequeues : HandleDequeue(f)
  BY <1>5, IdleKeepsGunInv DEF HandleDequeue, OnDequeueFrame, Comes
<1>6. CASE Start \/ Stop
  BY <1>6, IdleKeepsGunInv DEF Start, Stop
<1>7. CASE \E a \in Arms : AcceptTimer(a) \/ FinishTimer(a)
  <2>1. robot = "fake" /\ UNCHANGED <<robot, worker, gun, answered>>
    BY <1>7 DEF AcceptTimer, FinishTimer
  <2>2. LoopFree
    BY <2>1 DEF GunInv, WorkerTyped, LoopFree
  <2> QED BY <2>1, <2>2, IdleKeepsGunInv
<1>8. CASE \E a \in Arms : LoopFree /\ StartNext(a)
  BY <1>8, StartKeepsGunInv
<1>9. CASE WorkerStep
  <2>1. CASE worker.at = "next" /\ StartNext(worker.arm)
    BY <2>1, StartKeepsGunInv DEF GunInv, WorkerTyped
  <2> QED BY <1>9, <2>1, SegmentKeepsGunInv, CloseKeepsGunInv, EndKeepsGunInv DEF WorkerStep
<1>10. CASE UNCHANGED allVars
  BY <1>10 DEF allVars, lineVars, robotVars, GunInv, WorkerTyped, WorkerKnows, OpenIsKnown
<1> QED BY <1>1, <1>2, <1>3, <1>4, <1>5, <1>6, <1>7, <1>8, <1>9, <1>10 DEF LineNext

(* However a motion task ends, and whatever commands to the robot fail, no  *)
(* spray output stays open between tasks unless the last command to it was  *)
(* not confirmed (DucoMotionWorker::execute, closeSprayIo).                 *)
THEOREM GunsAreClosed == LineSpec => []GunClosed
<1>1. GunInv => GunClosed
  BY DEF GunInv, OpenIsKnown, GunClosed
<1> QED BY <1>1, GunInvInit, GunInvStep, PTL DEF LineSpec

(* ---------------------------- the two queues --------------------------- *)

Cells == Items \cup {NoItem}
Cycles == [open : BOOLEAN, pointer : Pointers, ended : BOOLEAN, requested : BOOLEAN,
           endSent : BOOLEAN, ready : SUBSET Arms]

FlowTyped ==
    /\ queue \in [Arms -> [Pointers -> Cells]]
    /\ nextSeq \in Nat
    /\ cycles \in [Counts -> Cycles]

(* The queues hold the same parts at the same pointers, in the same order:  *)
(* so trimming takes both items of a part or none.                          *)
Matching(q, r) ==
    \A p \in Pointers :
        /\ Queued(q, p) <=> Queued(r, p)
        /\ Queued(q, p) => r[p].count = q[p].count /\ r[p].seq = q[p].seq + 1

Paired == Matching(queue[1], queue[2])

(* An arm that is ready has its data, as long as the part is queued.        *)
ReadyHasData ==
    \A n \in Counts : cycles[n].open =>
        /\ cycles[n].ready # Arms
        /\ \A a \in cycles[n].ready :
             LET item == queue[a][cycles[n].pointer] IN
             item.status # "none" /\ item.count = n => item.data \in Payloads

FlowInv == FlowTyped /\ Paired /\ ReadyHasData

LEMMA FlowInvInit == LineInit => FlowInv
<1> SUFFICES ASSUME LineInit PROVE FlowInv
    OBVIOUS
<1>1. /\ queue = [a \in Arms |-> [p \in Pointers |-> NoItem]]
      /\ nextSeq = 1 /\ cycles = [n \in Counts |-> NoCycle]
  BY DEF LineInit, QueueInit
<1>2. 0 \in Pointers
  BY QueueAssumption DEF Pointers
<1>3. FlowTyped
  BY <1>1, <1>2 DEF FlowTyped, Cells, Cycles, NoCycle
<1>4. Paired
  BY <1>1 DEF Paired, Matching, Queued, NoItem, Arms
<1>5. ReadyHasData
  BY <1>1 DEF ReadyHasData, NoCycle
<1> QED BY <1>3, <1>4, <1>5 DEF FlowInv

(* What dequeueing and the robot change of an item, its status, is not      *)
(* looked at here, as long as the item stays queued.                        *)
SameItem(i, j) == /\ i.count = j.count /\ i.seq = j.seq /\ i.data = j.data
                  /\ (i.status = "none") <=> (j.status = "none")

SameItems == \A a \in Arms, p \in Pointers : SameItem(queue'[a][p], queue[a][p])

SameCycles ==
    \A n \in Counts : /\ cycles'[n].open = cycles[n].open
                      /\ cycles'[n].pointer = cycles[n].pointer
                      /\ cycles'[n].ready = cycles[n].ready

LEMMA SameKeepsFlowInv == FlowInv /\ SameItems /\ SameCycles /\ FlowTyped' => FlowInv'
<1> SUFFICES ASSUME FlowInv, SameItems, SameCycles, FlowTyped' PROVE FlowInv'
    OBVIOUS
<1>1. Paired'
  BY DEF FlowInv, Paired, Matching, SameItems, SameItem, Queued, Arms
<1>2. ReadyHasData'
  <2> SUFFICES ASSUME NEW n \in Counts, cycles'[n].open
               PROVE  /\ cycles'[n].ready # Arms
                      /\ \A a \in cycles'[n].ready :
                           LET item == queue'[a][cycles'[n].pointer] IN
                           item.status # "none" /\ item.count = n => item.data \in Payloads
    BY DEF ReadyHasData
  <2>1. cycles[n].open /\ cycles'[n].pointer = cycles[n].pointer
        /\ cycles'[n].ready = cycles[n].ready
    BY DEF SameCycles
  <2>2. cycles[n].pointer \in Pointers /\ cycles[n].ready \subseteq Arms
    BY DEF FlowInv, FlowTyped, Cycles
  <2>3. \A a \in cycles[n].ready :
          SameItem(queue'[a][cycles[n].pointer], queue[a][cycles[n].pointer])
    BY <2>2 DEF SameItems
  <2> QED BY <2>1, <2>3 DEF FlowInv, ReadyHasData, SameItem
<1> QED BY <1>1, <1>2 DEF FlowInv

LEMMA SameItemItself == ASSUME NEW i PROVE SameItem(i, i)
BY DEF SameItem

(* Marking changes the status of a queued item only.                        *)
LEMMA MarkedSame ==
    ASSUME NEW q \in [Pointers -> Cells], NEW p, NEW s \in {"cached", "accepted", "done"}
    PROVE  /\ Marked(q, p, s) \in [Pointers -> Cells]
           /\ \A o \in Pointers : SameItem(Marked(q, p, s)[o], q[o])
<1>1. CASE Queued(q, p) /\ p \in Pointers
  <2>1. q[p] \in Items /\ q[p].status # "none"
    BY <1>1 DEF Queued, Cells, NoItem
  <2>2. [q[p] EXCEPT !.status = s] \in Items
    BY <2>1 DEF Items
  <2>3. Marked(q, p, s) = [q EXCEPT ![p] = [q[p] EXCEPT !.status = s]]
    BY <1>1 DEF Marked
  <2>4. SameItem([q[p] EXCEPT !.status = s], q[p])
    BY <2>1 DEF SameItem, Items
  <2> QED BY <1>1, <2>2, <2>3, <2>4, SameItemItself DEF Cells
<1>2. CASE ~(Queued(q, p) /\ p \in Pointers)
  <2>1. Marked(q, p, s) = q
    BY <1>2 DEF Marked
  <2> QED BY <2>1, SameItemItself
<1> QED BY <1>1, <1>2

LEMMA MarkTaskSame ==
    ASSUME FlowInv, NEW task, MarkTaskAccepted(task) \/ MarkTaskDone(task)
    PROVE  SameItems /\ queue' \in [Arms -> [Pointers -> Cells]] /\ nextSeq' = nextSeq
<1>1. /\ queue \in [Arms -> [Pointers -> Cells]]
      /\ nextSeq' = nextSeq
  BY DEF FlowInv, FlowTyped, MarkTaskAccepted, MarkTaskDone
<1>2. PICK s \in {"cached", "accepted", "done"} :
        queue' = [queue EXCEPT ![task.arm] = Marked(@, task.pointer, s)]
  BY DEF MarkTaskAccepted, MarkTaskDone
<1>3. CASE task.arm \in Arms
  <2>1. queue[task.arm] \in [Pointers -> Cells]
    BY <1>1, <1>3
  <2>2. /\ Marked(queue[task.arm], task.pointer, s) \in [Pointers -> Cells]
        /\ \A o \in Pointers :
             SameItem(Marked(queue[task.arm], task.pointer, s)[o], queue[task.arm][o])
    BY <2>1, MarkedSame
  <2>3. /\ queue' \in [Arms -> [Pointers -> Cells]]
        /\ queue'[task.arm] = Marked(queue[task.arm], task.pointer, s)
        /\ \A a \in Arms \ {task.arm} : queue'[a] = queue[a]
    BY <1>1, <1>2, <1>3, <2>2
  <2> QED BY <1>1, <2>2, <2>3, SameItemItself DEF SameItems
<1>4. CASE task.arm \notin Arms
  <2>1. queue' = queue
    BY <1>1, <1>2, <1>4
  <2> QED BY <1>1, <2>1, SameItemItself DEF SameItems
<1> QED BY <1>3, <1>4

LEMMA DequeueSame ==
    ASSUME FlowInv, NEW f, NEW finished, DequeuePointers(f, finished)
    PROVE  SameItems /\ queue' \in [Arms -> [Pointers -> Cells]] /\ nextSeq' = nextSeq
<1>1. queue \in [Arms -> [Pointers -> Cells]]
  BY DEF FlowInv, FlowTyped
<1>2. /\ queue' = [a \in Arms |->
                    IF a \notin Moved(f) THEN queue[a]
                    ELSE Marked(queue[a], TaskFor(a, f[a]).pointer,
                                IF a \in finished THEN "done" ELSE "cached")]
      /\ nextSeq' = nextSeq
  BY DEF DequeuePointers
<1>3. ASSUME NEW a \in Arms
      PROVE  /\ queue'[a] \in [Pointers -> Cells]
             /\ \A p \in Pointers : SameItem(queue'[a][p], queue[a][p])
  <2>1. CASE a \in Moved(f)
    <3>1. PICK s \in {"cached", "done"} :
            queue'[a] = Marked(queue[a], TaskFor(a, f[a]).pointer, s)
      BY <1>2, <2>1
    <3> QED BY <1>1, <3>1, MarkedSame
  <2>2. CASE a \notin Moved(f)
    BY <1>1, <1>2, <2>2, SameItemItself
  <2> QED BY <2>1, <2>2
<1> QED BY <1>2, <1>3 DEF SameItems

(* Trimming takes items out and leaves the others as they are.              *)
LEMMA TrimmedCells ==
    ASSUME NEW q \in [Pointers -> Cells]
    PROVE  /\ Trimmed(q) \in [Pointers -> Cells]
           /\ \A o \in Pointers : Queued(Trimmed(q), o) => Trimmed(q)[o] = q[o]
<1>1. NoItem \in Cells
  BY DEF Cells
<1> QED BY <1>1 DEF Trimmed, Queued, NoItem

(* Two matching queues lose the same parts.                                 *)
LEMMA TrimmedMatching ==
    ASSUME NEW q \in [Pointers -> Cells], NEW r \in [Pointers -> Cells], Matching(q, r)
    PROVE  Matching(Trimmed(q), Trimmed(r))
<1> DEFINE newer(s, p) == {o \in Pointers : Queued(s, o) /\ s[o].seq > s[p].seq}
<1>1. \A o \in Pointers : Queued(q, o) => q[o].seq \in Nat
  BY DEF Queued, Cells, Items, NoItem
<1>2. \A s \in {q, r} : \A p \in Pointers :
        Queued(Trimmed(s), p) <=> Queued(s, p) /\ Cardinality(newer(s, p)) < MaxItems
  BY DEF Trimmed, Queued, NoItem
<1>3. ASSUME NEW p \in Pointers, Queued(q, p)
      PROVE  newer(q, p) = newer(r, p)
  <2>1. \A o \in Pointers : Queued(q, o) =>
          (q[o].seq > q[p].seq <=> r[o].seq > r[p].seq)
    BY <1>1, <1>3 DEF Matching
  <2> QED BY <2>1 DEF Matching
<1>4. \A p \in Pointers : Queued(Trimmed(q), p) <=> Queued(Trimmed(r), p)
  <2> TAKE p \in Pointers
  <2>1. Queued(q, p) <=> Queued(r, p)
    BY DEF Matching
  <2>2. Queued(q, p) => Cardinality(newer(q, p)) = Cardinality(newer(r, p))
    BY <1>3
  <2> HIDE DEF newer
  <2> QED BY <1>2, <2>1, <2>2
<1>5. \A p \in Pointers : Queued(Trimmed(q), p) =>
        Queued(q, p) /\ Trimmed(q)[p] = q[p] /\ Trimmed(r)[p] = r[p]
  BY <1>2, <1>4, TrimmedCells
<1> QED BY <1>4, <1>5 DEF Matching

LEMMA EnqueueKeepsFlowInv ==
    ASSUME FlowInv, NEW n \in Counts, NEW p \in Pointers, EnqueuePair(n, p),
           cycles' = [cycles EXCEPT ![n] = [NoCycle EXCEPT !.open = TRUE, !.pointer = p]]
    PROVE  FlowInv'
<1> DEFINE added(a) == [queue[a] EXCEPT ![p] = NewItem(a, n)]
<1>1. /\ queue \in [Arms -> [Pointers -> Cells]] /\ nextSeq \in Nat
      /\ cycles \in [Counts -> Cycles] /\ 1 \in Arms /\ 2 \in Arms
  BY DEF FlowInv, FlowTyped, Arms
<1>2. /\ queue' = [a \in Arms |-> Trimmed(added(a))]
      /\ nextSeq' = nextSeq + 2
  BY DEF EnqueuePair
<1>3. \A a \in Arms : added(a) \in [Pointers -> Cells]
  BY <1>1 DEF NewItem, Items, Cells, Arms
<1>4. \A a \in Arms : \A o \in Pointers :
        added(a)[o] = IF o = p THEN NewItem(a, n) ELSE queue[a][o]
  BY <1>1
<1>5. FlowTyped'
  <2>1. queue' \in [Arms -> [Pointers -> Cells]]
    BY <1>2, <1>3, TrimmedCells
  <2>2. [NoCycle EXCEPT !.open = TRUE, !.pointer = p] \in Cycles
    BY DEF NoCycle, Cycles
  <2>3. cycles' \in [Counts -> Cycles]
    BY <1>1, <2>2
  <2>4. nextSeq' \in Nat
    BY <1>1, <1>2
  <2> QED BY <2>1, <2>3, <2>4 DEF FlowTyped
<1>6. Matching(added(1), added(2))
  <2> SUFFICES ASSUME NEW o \in Pointers
               PROVE  /\ Queued(added(1), o) <=> Queued(added(2), o)
                      /\ Queued(added(1), o) => /\ added(2)[o].count = added(1)[o].count
                                                /\ added(2)[o].seq = added(1)[o].seq + 1
    BY DEF Matching
  <2>1. CASE o = p
    BY <1>1, <1>4, <2>1 DEF NewItem, Queued
  <2>2. CASE o # p
    <3>1. added(1)[o] = queue[1][o] /\ added(2)[o] = queue[2][o]
      BY <1>1, <1>4, <2>2
    <3>2. /\ Queued(queue[1], o) <=> Queued(queue[2], o)
          /\ Queued(queue[1], o) => /\ queue[2][o].count = queue[1][o].count
                                    /\ queue[2][o].seq = queue[1][o].seq + 1
      BY DEF FlowInv, Paired, Matching
    <3> HIDE DEF added
    <3> QED BY <3>1, <3>2 DEF Queued
  <2> QED BY <2>1, <2>2
<1> HIDE DEF added
<1>7. Paired'
  <2>1. Matching(Trimmed(added(1)), Trimmed(added(2)))
    BY <1>1, <1>3, <1>6, TrimmedMatching
  <2>2. queue'[1] = Trimmed(added(1)) /\ queue'[2] = Trimmed(added(2))
    BY <1>1, <1>2
  <2> QED BY <2>1, <2>2 DEF Paired
<1>8. ReadyHasData'
  <2> SUFFICES ASSUME NEW m \in Counts, cycles'[m].open
               PROVE  /\ cycles'[m].ready # Arms
                      /\ \A a \in cycles'[m].ready :
                           LET item == queue'[a][cycles'[m].pointer] IN
                           item.status # "none" /\ item.count = m => item.data \in Payloads
    BY DEF ReadyHasData
  <2>1. CASE m = n
    <3>1. cycles'[m].ready = {}
      BY <1>1, <2>1 DEF NoCycle
    <3> QED BY <3>1 DEF Arms
  <2>2. CASE m # n
    <3> DEFINE c == cycles[m]
    <3>1. cycles'[m] = c
      BY <1>1, <2>2
    <3>2. c.pointer \in Pointers /\ c.ready \subseteq Arms
      BY <1>1 DEF Cycles
    <3>3. ASSUME NEW a \in c.ready, queue'[a][c.pointer].status # "none",
                 queue'[a][c.pointer].count = m
          PROVE  queue'[a][c.pointer].data \in Payloads
      <4>1. queue'[a][c.pointer] = added(a)[c.pointer]
        BY <1>2, <1>3, <3>2, <3>3, TrimmedCells DEF Queued
      <4>2. c.pointer # p
        <5>1. a \in Arms /\ added(a)[p] = NewItem(a, n)
          BY <1>4, <3>2
        <5>2. NewItem(a, n).count = n
          BY DEF NewItem
        <5> QED BY <2>2, <3>3, <4>1, <5>1, <5>2
      <4>3. queue'[a][c.pointer] = queue[a][c.pointer]
        BY <1>4, <3>2, <4>1, <4>2
      <4> QED BY <3>1, <3>3, <4>3 DEF FlowInv, ReadyHasData
    <3> QED BY <3>1, <3>3 DEF FlowInv, ReadyHasData
  <2> QED BY <2>1, <2>2
<1> QED BY <1>5, <1>7, <1>8 DEF FlowInv

(* A 3D frame: its data goes to the items of the parts whose cycles are     *)
(* open, and a cycle it completes is forgotten.                             *)
LEMMA FrameKeepsFlowInv ==
    ASSUME FlowInv, NEW frame \in Frames, Handle3dFrame(frame)
    PROVE  /\ FlowInv'
           /\ \A n \in Counts : cycles[n].open /\ ~cycles'[n].open =>
                \A a \in Arms : LET item == queue'[a][cycles[n].pointer] IN
                                item.count = n /\ item.data \in Payloads
<1> DEFINE stores(a) == \E n \in Counts : a \in StoredArms(frame, n)
           at(a) == cycles[frame[a].count].pointer
<1>1. /\ queue \in [Arms -> [Pointers -> Cells]]
      /\ cycles \in [Counts -> Cycles]
      /\ nextSeq \in Nat /\ nextSeq' = nextSeq
  BY DEF FlowInv, FlowTyped, Handle3dFrame
<1>2. \A a \in DOMAIN frame : a \in Arms /\ frame[a].count \in Counts /\ frame[a].data \in Payloads
  BY LineAssumption
<1>3. \A n \in Counts : \A a \in StoredArms(frame, n) :
        /\ a \in Arms /\ a \in DOMAIN frame /\ frame[a].count = n /\ cycles[n].open
        /\ at(a) = cycles[n].pointer /\ at(a) \in Pointers
        /\ queue[a][at(a)] \in Items /\ queue[a][at(a)].count = n
        /\ queue[a][at(a)].status # "none"
  BY <1>1, <1>2 DEF StoredArms, Storable, Queued, Cycles, Cells, NoItem
<1>4. \A a \in Arms : stores(a) =>
        /\ a \in DOMAIN frame /\ at(a) \in Pointers
        /\ queue[a][at(a)] \in Items /\ queue[a][at(a)].status # "none"
        /\ a \in StoredArms(frame, frame[a].count)
        /\ frame[a].data \in Payloads
  BY <1>2, <1>3
<1>5. \A a \in Arms :
        /\ stores(a) => queue'[a] = [queue[a] EXCEPT ![at(a)].data = frame[a].data]
        /\ ~stores(a) => queue'[a] = queue[a]
  BY DEF Handle3dFrame
<1>6. \A a \in Arms : stores(a) =>
        /\ [queue[a][at(a)] EXCEPT !.data = frame[a].data] \in Items
        /\ queue'[a] \in [Pointers -> Cells]
        /\ queue'[a][at(a)] = [queue[a][at(a)] EXCEPT !.data = frame[a].data]
        /\ \A p \in Pointers \ {at(a)} : queue'[a][p] = queue[a][p]
  <2> SUFFICES ASSUME NEW a \in Arms, stores(a)
               PROVE  /\ [queue[a][at(a)] EXCEPT !.data = frame[a].data] \in Items
                      /\ queue'[a] \in [Pointers -> Cells]
                      /\ queue'[a][at(a)] = [queue[a][at(a)] EXCEPT !.data = frame[a].data]
                      /\ \A p \in Pointers \ {at(a)} : queue'[a][p] = queue[a][p]
    OBVIOUS
  <2>1. /\ at(a) \in Pointers /\ queue[a][at(a)] \in Items /\ frame[a].data \in Payloads
        /\ queue'[a] = [queue[a] EXCEPT ![at(a)].data = frame[a].data]
        /\ queue[a] \in [Pointers -> Cells]
    BY <1>1, <1>4, <1>5
  <2> HIDE DEF at, stores
  <2>2. [queue[a][at(a)] EXCEPT !.data = frame[a].data] \in Items
    BY <2>1 DEF Items
  <2>3. [queue[a][at(a)] EXCEPT !.data = frame[a].data] \in Cells
    BY <2>2 DEF Cells
  <2> QED BY <2>1, <2>2, <2>3
<1>7. \A a \in Arms, p \in Pointers :
        /\ queue'[a][p].count = queue[a][p].count
        /\ queue'[a][p].seq = queue[a][p].seq
        /\ queue'[a][p].status = queue[a][p].status
        /\ queue'[a][p].data = queue[a][p].data \/ queue'[a][p].data \in Payloads
  <2> SUFFICES ASSUME NEW a \in Arms, NEW p \in Pointers
               PROVE  /\ queue'[a][p].count = queue[a][p].count
                      /\ queue'[a][p].seq = queue[a][p].seq
                      /\ queue'[a][p].status = queue[a][p].status
                      /\ queue'[a][p].data = queue[a][p].data \/ queue'[a][p].data \in Payloads
    OBVIOUS
  <2>1. CASE stores(a) /\ p = at(a)
    <3>1. queue'[a][p] = [queue[a][p] EXCEPT !.data = frame[a].data]
      BY <1>6, <2>1
    <3>2. queue[a][p] \in Items /\ frame[a].data \in Payloads
      BY <1>4, <2>1
    <3> QED BY <3>1, <3>2 DEF Items
  <2>2. CASE ~(stores(a) /\ p = at(a))
    <3>1. queue'[a][p] = queue[a][p]
      BY <1>5, <1>6, <2>2
    <3> QED BY <3>1
  <2> QED BY <2>1, <2>2
<1>8. cycles' = [n \in Counts |-> CycleAfter(frame, n)]
  BY DEF Handle3dFrame
<1>9. ASSUME NEW n \in Counts
      PROVE  /\ Ready(frame, n) \subseteq Arms
             /\ Ready(frame, n) = Arms => cycles'[n] = NoCycle
             /\ Ready(frame, n) # Arms => /\ cycles'[n] \in Cycles
                                          /\ cycles'[n].open = cycles[n].open
                                          /\ cycles'[n].pointer = cycles[n].pointer
                                          /\ cycles'[n].ready = Ready(frame, n)
  <2>1. cycles[n] \in Cycles
    BY <1>1
  <2>2. Ready(frame, n) \subseteq Arms
    BY <1>3, <2>1 DEF Ready, Cycles
  <2>3. cycles'[n] = IF Ready(frame, n) = Arms THEN NoCycle
                     ELSE [cycles[n] EXCEPT !.ready = Ready(frame, n)]
    BY <1>8 DEF CycleAfter
  <2> QED BY <2>1, <2>2, <2>3 DEF Cycles
<1>10. \A n \in Counts : \A a \in StoredArms(frame, n) :
         queue'[a][cycles[n].pointer].data \in Payloads
  <2> SUFFICES ASSUME NEW n \in Counts, NEW a \in StoredArms(frame, n)
               PROVE  queue'[a][cycles[n].pointer].data \in Payloads
    OBVIOUS
  <2>1. a \in Arms /\ stores(a) /\ at(a) = cycles[n].pointer
    BY <1>3
  <2>2. queue[a][at(a)] \in Items /\ frame[a].data \in Payloads
    BY <1>4, <2>1
  <2>3. queue'[a][at(a)] = [queue[a][at(a)] EXCEPT !.data = frame[a].data]
    BY <1>6, <2>1
  <2>4. queue'[a][at(a)].data = frame[a].data
    BY <2>2, <2>3 DEF Items
  <2> QED BY <2>1, <2>2, <2>4
<1> HIDE DEF stores, at
<1>11. \A n \in Counts : cycles[n].open =>
         \A a \in Ready(frame, n) :
           LET item == queue'[a][cycles[n].pointer] IN
           item.status # "none" /\ item.count = n => item.data \in Payloads
  <2> SUFFICES ASSUME NEW n \in Counts, cycles[n].open, NEW a \in Ready(frame, n),
                      queue'[a][cycles[n].pointer].status # "none",
                      queue'[a][cycles[n].pointer].count = n
               PROVE  queue'[a][cycles[n].pointer].data \in Payloads
    OBVIOUS
  <2>1. a \in Arms /\ cycles[n].pointer \in Pointers
    BY <1>1, <1>9 DEF Cycles
  <2>2. CASE a \in StoredArms(frame, n)
    BY <1>10, <2>2
  <2>3. CASE a \in cycles[n].ready
    BY <1>7, <2>1, <2>3 DEF FlowInv, ReadyHasData
  <2> QED BY <2>2, <2>3 DEF Ready
<1>12. FlowTyped'
  <2>1. queue' \in [Arms -> [Pointers -> Cells]]
    <3>1. \A a \in Arms : queue'[a] \in [Pointers -> Cells]
      BY <1>1, <1>5, <1>6
    <3>2. \E q \in [Arms -> [Pointers -> Cells]] : queue' = q
      <4>1. queue' = [a \in Arms |-> queue'[a]]
        BY DEF Handle3dFrame
      <4> QED BY <3>1, <4>1
    <3> QED BY <3>2
  <2>2. NoCycle \in Cycles
    BY QueueAssumption DEF NoCycle, Cycles, Pointers
  <2>3. \A n \in Counts : cycles'[n] \in Cycles
    BY <1>9, <2>2
  <2>4. cycles' \in [Counts -> Cycles]
    <3>1. cycles' = [n \in Counts |-> cycles'[n]]
      BY <1>8
    <3> QED BY <2>3, <3>1
  <2> QED BY <1>1, <2>1, <2>4 DEF FlowTyped
<1>13. Paired'
  <2>1. 1 \in Arms /\ 2 \in Arms
    BY DEF Arms
  <2> QED BY <1>7, <2>1 DEF FlowInv, Paired, Matching, Queued
<1>14. ReadyHasData'
  <2> SUFFICES ASSUME NEW n \in Counts, cycles'[n].open
               PROVE  /\ cycles'[n].ready # Arms
                      /\ \A a \in cycles'[n].ready :
                           LET item == queue'[a][cycles'[n].pointer] IN
                           item.status # "none" /\ item.count = n => item.data \in Payloads
    BY DEF ReadyHasData
  <2>1. Ready(frame, n) # Arms
    BY <1>9 DEF NoCycle
  <2>2. cycles[n].open /\ cycles'[n].pointer = cycles[n].pointer
        /\ cycles'[n].ready = Ready(frame, n)
    BY <1>9, <2>1
  <2> QED BY <1>11, <2>1, <2>2
<1>15. ASSUME NEW n \in Counts, cycles[n].open, ~cycles'[n].open, NEW a \in Arms
       PROVE  /\ queue'[a][cycles[n].pointer].count = n
              /\ queue'[a][cycles[n].pointer].data \in Payloads
  <2>1. Ready(frame, n) = Arms
    BY <1>9, <1>15
  <2>2. cycles[n].pointer \in Pointers /\ cycles[n].ready \subseteq Arms
    BY <1>1 DEF Cycles
  <2>3. PICK b \in StoredArms(frame, n) : TRUE
    BY <1>15, <2>1 DEF FlowInv, ReadyHasData, Ready
  <2>4. /\ b \in Arms /\ queue[b][cycles[n].pointer].count = n
        /\ queue[b][cycles[n].pointer].status # "none"
    BY <1>3, <2>3
  <2>5. queue[a][cycles[n].pointer].count = n /\ queue[a][cycles[n].pointer].status # "none"
    BY <2>2, <2>4 DEF FlowInv, Paired, Matching, Queued, Arms
  <2> QED BY <1>7, <1>11, <1>15, <2>1, <2>2, <2>5
<1> QED BY <1>12, <1>13, <1>14, <1>15 DEF FlowInv

ClosedHasBoth ==
    \A n \in Counts :
        cycles[n].open /\ ~cycles'[n].open =>
            \A a \in Arms : LET item == queue'[a][cycles[n].pointer] IN
                            item.count = n /\ item.data \in Payloads

(* A step that leaves the parts in the queue, and the arms that are ready.  *)
LEMMA QuietKeepsFlowInv ==
    ASSUME FlowInv, SameItems, SameCycles, cycles' \in [Counts -> Cycles],
           queue' \in [Arms -> [Pointers -> Cells]], nextSeq' = nextSeq
    PROVE  FlowInv' /\ ClosedHasBoth
<1>1. FlowTyped'
  BY DEF FlowInv, FlowTyped
<1> QED BY <1>1, SameKeepsFlowInv DEF ClosedHasBoth, SameCycles

(* The 12, the READY and the 2D result change neither.                      *)
LEMMA CycleKeepsFlowInv ==
    ASSUME FlowInv, queue' = queue, nextSeq' = nextSeq,
           NEW n, NEW c, cycles' = [cycles EXCEPT ![n] = c],
           n \in Counts => /\ c \in Cycles /\ c.open = cycles[n].open
                           /\ c.pointer = cycles[n].pointer /\ c.ready = cycles[n].ready
    PROVE  FlowInv' /\ ClosedHasBoth
<1>1. /\ queue \in [Arms -> [Pointers -> Cells]] /\ cycles \in [Counts -> Cycles]
  BY DEF FlowInv, FlowTyped
<1>2. SameItems
  BY SameItemItself DEF SameItems
<1>3. cycles' \in [Counts -> Cycles] /\ SameCycles
  <2>1. CASE n \in Counts
    BY <1>1, <2>1 DEF SameCycles
  <2>2. CASE n \notin Counts
    <3>1. cycles' = cycles
      BY <1>1, <2>2
    <3> QED BY <1>1, <3>1 DEF SameCycles
  <2> QED BY <2>1, <2>2
<1> QED BY <1>1, <1>2, <1>3, QuietKeepsFlowInv

LEMMA FlowInvStep == FlowInv /\ [LineNext]_allVars => FlowInv' /\ ClosedHasBoth
<1> SUFFICES ASSUME FlowInv, [LineNext]_allVars PROVE FlowInv' /\ ClosedHasBoth
    OBVIOUS
<1> DEFINE quiet == UNCHANGED cycles
<1>0. /\ queue \in [Arms -> [Pointers -> Cells]] /\ cycles \in [Counts -> Cycles]
  BY DEF FlowInv, FlowTyped
<1>a. quiet => SameCycles /\ cycles' \in [Counts -> Cycles]
  BY <1>0 DEF SameCycles
<1>b. queue' = queue => SameItems
  BY SameItemItself DEF SameItems
<1>1. CASE \E part \in Parts : HandleStart(part[1], part[2])
  <2>1. PICK part \in Parts : HandleStart(part[1], part[2])
    BY <1>1
  <2>2. part[1] \in Counts /\ part[2] \in Pointers
    BY LineAssumption
  <2>3. FlowInv'
    BY <2>1, <2>2, EnqueueKeepsFlowInv DEF HandleStart
  <2>4. \A n \in Counts : cycles[n].open => cycles'[n].open
    BY <1>0, <2>1 DEF HandleStart, NoCycle
  <2> QED BY <2>3, <2>4 DEF ClosedHasBoth
<1>2. CASE \E n \in Counts : HandleEnd(n)
  <2>1. PICK n \in Counts, ok \in BOOLEAN :
          /\ cycles' = [cycles EXCEPT ![n] = EndSent([@ EXCEPT !.ended = TRUE], ok)]
          /\ queue' = queue /\ nextSeq' = nextSeq
    BY <1>2 DEF HandleEnd, queueVars
  <2> DEFINE c == EndSent([cycles[n] EXCEPT !.ended = TRUE], ok)
  <2>2. /\ c \in Cycles /\ c.open = cycles[n].open
        /\ c.pointer = cycles[n].pointer /\ c.ready = cycles[n].ready
    <3>1. [cycles[n] EXCEPT !.ended = TRUE] \in Cycles
      BY <1>0 DEF Cycles
    <3> QED BY <1>0, <3>1 DEF Cycles, EndSent
  <2>3. cycles' = [cycles EXCEPT ![n] = c]
    BY <2>1
  <2> HIDE DEF c
  <2> QED BY <2>1, <2>2, <2>3, CycleKeepsFlowInv
<1>3. CASE \E n \in Counts : Handle2dResult(n)
  <2>1. PICK n \in Counts, ok \in BOOLEAN :
          /\ cycles' = [cycles EXCEPT ![n] = EndSent(@, ok)]
          /\ queue' = queue /\ nextSeq' = nextSeq
    BY <1>3 DEF Handle2dResult, queueVars
  <2> DEFINE c == EndSent(cycles[n], ok)
  <2>2. /\ c \in Cycles /\ c.open = cycles[n].open
        /\ c.pointer = cycles[n].pointer /\ c.ready = cycles[n].ready
    BY <1>0 DEF Cycles, EndSent
  <2>3. cycles' = [cycles EXCEPT ![n] = c]
    BY <2>1
  <2> HIDE DEF c
  <2> QED BY <2>1, <2>2, <2>3, CycleKeepsFlowInv
<1>4. CASE Handle2dReady
  <2>1. PICK ok \in BOOLEAN : cycles' = [cycles EXCEPT ![window].requested = ok]
    BY <1>4 DEF Handle2dReady
  <2>2. queue' = queue /\ nextSeq' = nextSeq
    BY <1>4 DEF Handle2dReady, queueVars
  <2> DEFINE c == [cycles[window] EXCEPT !.requested = ok]
  <2>3. window \in Counts => /\ c \in Cycles /\ c.open = cycles[window].open
                             /\ c.pointer = cycles[window].pointer
                             /\ c.ready = cycles[window].ready
    BY <1>0 DEF Cycles
  <2>4. cycles' = [cycles EXCEPT ![window] = c]
    BY <2>1
  <2> HIDE DEF c
  <2> QED BY <2>2, <2>3, <2>4, CycleKeepsFlowInv
<1>5. CASE \E frame \in Frames : Handle3dFrame(frame)
  BY <1>5, FrameKeepsFlowInv DEF ClosedHasBoth
<1>6. CASE \E f \in Dequeues : HandleDequeue(f)
  <2>1. PICK f, finished : DequeuePointers(f, finished)
    BY <1>6 DEF HandleDequeue, OnDequeueFrame
  <2>2. quiet
    BY <1>6 DEF HandleDequeue, flowVars
  <2> QED BY <1>a, <2>1, <2>2, DequeueSame, QuietKeepsFlowInv
<1>7. CASE Start \/ Stop
  BY <1>7, <1>0, <1>a, <1>b, QuietKeepsFlowInv DEF Start, Stop, queueVars, flowVars
<1>8. CASE \E a \in Arms : (AcceptTimer(a) \/ FinishTimer(a) \/ StartNext(a)) /\ NoEvent
  <2>1. PICK task : MarkTaskAccepted(task) \/ MarkTaskDone(task)
    BY <1>8 DEF AcceptTimer, FinishTimer, StartNext
  <2>2. quiet
    BY <1>8 DEF NoEvent, flowVars
  <2> QED BY <1>a, <2>1, <2>2, MarkTaskSame, QuietKeepsFlowInv
<1>9. CASE (ExecuteSegment \/ CloseSprayIo \/ TaskFails) /\ NoEvent
  BY <1>9, <1>0, <1>a, <1>b, QuietKeepsFlowInv
     DEF ExecuteSegment, CloseSprayIo, TaskFails, queueVars, NoEvent, flowVars
<1>10. CASE TaskSucceeds /\ NoEvent
  <2>1. PICK task : MarkTaskDone(task)
    BY <1>10 DEF TaskSucceeds
  <2>2. quiet
    BY <1>10 DEF NoEvent, flowVars
  <2> QED BY <1>a, <2>1, <2>2, MarkTaskSame, QuietKeepsFlowInv
<1>11. CASE worker.at = "next" /\ StartNext(worker.arm) /\ NoEvent
  <2>1. PICK task : MarkTaskAccepted(task)
    BY <1>11 DEF StartNext
  <2>2. quiet
    BY <1>11 DEF NoEvent, flowVars
  <2> QED BY <1>a, <2>1, <2>2, MarkTaskSame, QuietKeepsFlowInv
<1>12. CASE UNCHANGED allVars
  BY <1>12, <1>0, <1>a, <1>b, QuietKeepsFlowInv DEF allVars, lineVars, queueVars, flowVars
<1> QED BY <1>1, <1>2, <1>3, <1>4, <1>5, <1>6, <1>7, <1>8, <1>9, <1>10, <1>11, <1>12
       DEF LineNext, WorkerStep

(* Done is decided for a part only while the camera data of both its arms   *)
(* is in the queue, for that part (EnqueueWorkflow::handle3dFrame and       *)
(* trySendDone): the two queues lose the same parts when they are trimmed,  *)
(* and an arm that is ready keeps its data while the part is queued.        *)
THEOREM DoneIsInQueue == LineSpec => DoneHasBothItems
<1>1. FlowInv /\ [LineNext]_allVars =>
        [\A n \in Counts :
           cycles[n].open /\ ~cycles'[n].open =>
             \A a \in Arms : LET item == queue'[a][cycles[n].pointer] IN
                             item.count = n /\ item.data \in Payloads]_allVars
  BY FlowInvStep DEF ClosedHasBoth
<1> QED BY <1>1, FlowInvInit, FlowInvStep, PTL DEF LineSpec, DoneHasBothItems

(* ------------------------- the life of a task -------------------------- *)

Task == [arm : Arms, count : Counts \cup {0}, pointer : Pointers,
         data : Payloads \cup {"default"}, stage : {"given", "accepted", "finished", "failed"}]

(* An arm's queue q and the task r it runs hold exactly its tasks that are  *)
(* given and not ended, r before q and q in the order they were given in.   *)
ArmInv(a, ts, q, r) ==
    /\ q \in Seq(Nat) /\ r \in Nat
    /\ \A k \in 1 .. Len(q) : /\ q[k] \in 1 .. Len(ts) /\ r < q[k]
                              /\ ts[q[k]].arm = a /\ ts[q[k]].stage = "given"
    /\ \A j, k \in 1 .. Len(q) : j < k => q[j] < q[k]
    /\ r # 0 => /\ r \in 1 .. Len(ts) /\ ts[r].arm = a
                /\ ts[r].stage \in {"given", "accepted"}
    /\ \A i \in 1 .. Len(ts) : ts[i].arm = a /\ ts[i].stage = "given" =>
                                 i = r \/ \E k \in 1 .. Len(q) : q[k] = i
    /\ \A i \in 1 .. Len(ts) : ts[i].arm = a /\ ts[i].stage = "accepted" => i = r

(* An arm that is free takes the first task of its queue.                   *)
LEMMA ArmTakes ==
    ASSUME NEW a, NEW ts, NEW q, ArmInv(a, ts, q, 0), q # <<>>
    PROVE  /\ ArmInv(a, ts, Tail(q), Head(q))
           /\ Head(q) # 0 /\ ts[Head(q)].stage = "given"
<1>1. /\ q \in Seq(Nat) /\ Len(q) \in Nat /\ Len(q) >= 1
      /\ Head(q) = q[1] /\ Tail(q) \in Seq(Nat) /\ Len(Tail(q)) = Len(q) - 1
      /\ \A k \in 1 .. Len(Tail(q)) : Tail(q)[k] = q[k + 1]
  BY DEF ArmInv
<1>2. /\ \A k \in 1 .. Len(q) : /\ q[k] \in 1 .. Len(ts) /\ 0 < q[k] /\ q[k] \in Nat
                                /\ ts[q[k]].arm = a /\ ts[q[k]].stage = "given"
      /\ \A j, k \in 1 .. Len(q) : j < k => q[j] < q[k]
  BY <1>1 DEF ArmInv
<1>3. \A k \in 1 .. Len(Tail(q)) : k + 1 \in 1 .. Len(q) /\ Head(q) < Tail(q)[k]
  BY <1>1, <1>2
<1>4. \A i \in 1 .. Len(ts) : ts[i].arm = a /\ ts[i].stage = "given" =>
        i = Head(q) \/ \E k \in 1 .. Len(Tail(q)) : Tail(q)[k] = i
  <2> SUFFICES ASSUME NEW i \in 1 .. Len(ts), ts[i].arm = a, ts[i].stage = "given", i # Head(q)
               PROVE  \E k \in 1 .. Len(Tail(q)) : Tail(q)[k] = i
    OBVIOUS
  <2>1. PICK k \in 1 .. Len(q) : q[k] = i
    BY DEF ArmInv
  <2>2. k # 1 /\ k - 1 \in 1 .. Len(Tail(q)) /\ Tail(q)[k - 1] = i
    BY <1>1, <2>1
  <2> QED BY <2>2
<1>5. \A i \in 1 .. Len(ts) : ts[i].arm = a /\ ts[i].stage = "accepted" => i = Head(q)
  BY DEF ArmInv
<1>6. /\ 1 \in 1 .. Len(q) /\ Head(q) \in 1 .. Len(ts) /\ Head(q) \in Nat /\ Head(q) # 0
      /\ ts[Head(q)].arm = a /\ ts[Head(q)].stage = "given"
  BY <1>1, <1>2
<1>7. \A k \in 1 .. Len(Tail(q)) : /\ Tail(q)[k] \in 1 .. Len(ts)
                                   /\ ts[Tail(q)[k]].arm = a /\ ts[Tail(q)[k]].stage = "given"
  BY <1>1, <1>2, <1>3
<1>8. \A j, k \in 1 .. Len(Tail(q)) : j < k => Tail(q)[j] < Tail(q)[k]
  BY <1>1, <1>2, <1>3
<1> QED BY <1>1, <1>3, <1>4, <1>5, <1>6, <1>7, <1>8 DEF ArmInv

(* ts2 is ts with the stage of task i set to s.                             *)
Changed(ts, ts2, i, s) ==
    /\ Len(ts2) = Len(ts)
    /\ \A j \in 1 .. Len(ts) : /\ ts2[j].arm = ts[j].arm
                               /\ ts2[j].stage = IF j = i THEN s ELSE ts[j].stage

LEMMA SignalledStage ==
    ASSUME NEW i \in 1 .. Len(tasks), tasks \in Seq(Task),
           NEW s \in {"given", "accepted", "finished", "failed"}
    PROVE  Signalled(i, s) \in Seq(Task) /\ Changed(tasks, Signalled(i, s), i, s)
<1> DEFINE new == [tasks[i] EXCEPT !.stage = s]
<1>1. tasks[i] \in Task
  OBVIOUS
<1>2. new \in Task /\ new.arm = tasks[i].arm /\ new.stage = s
  BY <1>1 DEF Task
<1>3. Signalled(i, s) = [tasks EXCEPT ![i] = new]
  BY DEF Signalled
<1> HIDE DEF new
<1>4. Signalled(i, s) \in Seq(Task) /\ Len(Signalled(i, s)) = Len(tasks)
  BY <1>2, <1>3
<1>5. DOMAIN tasks = 1 .. Len(tasks)
  OBVIOUS
<1>6. ASSUME NEW j \in 1 .. Len(tasks)
      PROVE  /\ Signalled(i, s)[j].arm = tasks[j].arm
             /\ Signalled(i, s)[j].stage = IF j = i THEN s ELSE tasks[j].stage
  <2>1. CASE j = i
    BY <1>2, <1>3, <1>5, <2>1
  <2>2. CASE j # i
    BY <1>3, <1>5, <2>2
  <2> QED BY <2>1, <2>2
<1> QED BY <1>4, <1>6 DEF Changed

(* A signal for the task an arm runs: it goes on with it, or is free.       *)
LEMMA ArmSignals ==
    ASSUME NEW a, NEW ts, NEW ts2, NEW q, NEW r, ArmInv(a, ts, q, r), r # 0,
           NEW s \in {"accepted", "finished", "failed"}, Changed(ts, ts2, r, s)
    PROVE  ArmInv(a, ts2, q, IF s = "accepted" THEN r ELSE 0)
<1>1. r \in 1 .. Len(ts) /\ r \in Nat /\ ts[r].arm = a /\ Len(ts2) = Len(ts)
  BY DEF ArmInv, Changed
<1>2. \A k \in 1 .. Len(q) : q[k] \in Nat /\ q[k] # r /\ 0 < q[k] /\ r < q[k]
  BY <1>1 DEF ArmInv
<1>3. \A j \in 1 .. Len(ts) : /\ ts2[j].arm = ts[j].arm
                              /\ j # r => ts2[j].stage = ts[j].stage
                              /\ j = r => ts2[j].stage = s
  BY DEF Changed
<1>4. \A k \in 1 .. Len(q) : /\ q[k] \in 1 .. Len(ts2)
                             /\ ts2[q[k]].arm = a /\ ts2[q[k]].stage = "given"
  BY <1>1, <1>2, <1>3 DEF ArmInv
<1>5. \A i \in 1 .. Len(ts2) : ts2[i].arm = a /\ ts2[i].stage = "given" =>
        \E k \in 1 .. Len(q) : q[k] = i
  BY <1>1, <1>3 DEF ArmInv
<1>6. \A i \in 1 .. Len(ts2) : ts2[i].arm = a /\ ts2[i].stage = "accepted" =>
        i = r /\ s = "accepted"
  BY <1>1, <1>3 DEF ArmInv
<1>7. q \in Seq(Nat) /\ \A j, k \in 1 .. Len(q) : j < k => q[j] < q[k]
  BY DEF ArmInv
<1>8. CASE s = "accepted"
  <2>1. ArmInv(a, ts2, q, r)
    BY <1>1, <1>2, <1>3, <1>4, <1>5, <1>6, <1>7, <1>8 DEF ArmInv
  <2> QED BY <1>8, <2>1
<1>9. CASE s # "accepted"
  <2>1. ArmInv(a, ts2, q, 0)
    BY <1>1, <1>2, <1>4, <1>5, <1>6, <1>7, <1>9 DEF ArmInv
  <2> QED BY <1>9, <2>1
<1> QED BY <1>8, <1>9

(* A signal for a task of the other arm.                                    *)
LEMMA OtherArmSignals ==
    ASSUME NEW a, NEW ts, NEW ts2, NEW q, NEW r, ArmInv(a, ts, q, r),
           NEW i \in 1 .. Len(ts), ts[i].arm # a, NEW s, Changed(ts, ts2, i, s)
    PROVE  ArmInv(a, ts2, q, r)
<1>1. /\ Len(ts2) = Len(ts)
      /\ \A j \in 1 .. Len(ts) : /\ ts2[j].arm = ts[j].arm
                                 /\ ts[j].arm = a => ts2[j].stage = ts[j].stage
  BY DEF Changed
<1> QED BY <1>1 DEF ArmInv

(* The two arms, with their queues q and the tasks r they run.              *)
ArmsInv(ts, q, r) ==
    /\ q \in [Arms -> Seq(Nat)]
    /\ r \in [Arms -> Nat]
    /\ \A a \in Arms : ArmInv(a, ts, q[a], r[a])

LEMMA ArmsTake ==
    ASSUME NEW ts, NEW q, NEW r, ArmsInv(ts, q, r),
           NEW a \in Arms, r[a] = 0, q[a] # <<>>
    PROVE  /\ ArmsInv(ts, [q EXCEPT ![a] = Tail(@)], [r EXCEPT ![a] = Head(q[a])])
           /\ Head(q[a]) # 0 /\ ts[Head(q[a])].stage = "given"
<1>1. ArmInv(a, ts, q[a], 0)
  BY DEF ArmsInv
<1>2. ArmInv(a, ts, Tail(q[a]), Head(q[a])) /\ Head(q[a]) # 0 /\ ts[Head(q[a])].stage = "given"
  BY <1>1, ArmTakes
<1>3. Tail(q[a]) \in Seq(Nat) /\ Head(q[a]) \in Nat
  BY <1>2 DEF ArmInv
<1> QED BY <1>2, <1>3 DEF ArmsInv

LEMMA ArmsSignal ==
    ASSUME NEW ts, NEW ts2, NEW q, NEW r, ArmsInv(ts, q, r), NEW a \in Arms, r[a] # 0,
           NEW s \in {"accepted", "finished", "failed"}, Changed(ts, ts2, r[a], s)
    PROVE  ArmsInv(ts2, q, [r EXCEPT ![a] = IF s = "accepted" THEN r[a] ELSE 0])
<1>1. ArmInv(a, ts, q[a], r[a])
  BY DEF ArmsInv
<1>2. r[a] \in 1 .. Len(ts) /\ ts[r[a]].arm = a
  BY <1>1 DEF ArmInv
<1>3. ArmInv(a, ts2, q[a], IF s = "accepted" THEN r[a] ELSE 0)
  BY <1>1, ArmSignals
<1>4. \A b \in Arms \ {a} : ArmInv(b, ts2, q[b], r[b])
  BY <1>2, OtherArmSignals DEF ArmsInv
<1> QED BY <1>3, <1>4 DEF ArmsInv

(* In TaskLife: the task an arm runs may be accepted, and may end.          *)
LEMMA AcceptIsStep ==
    ASSUME NEW a, NEW q, NEW r, ArmInv(a, tasks, q, r), r # 0, tasks \in Seq(Task),
           tasks[r].stage = "given", tasks' = Signalled(r, "accepted")
    PROVE  Life!Next
<1>1. r \in DOMAIN tasks /\ DOMAIN tasks = 1 .. Len(tasks) /\ Len(tasks) \in Nat /\ r \in Nat
  BY DEF ArmInv
<1>2. tasks[r].arm = a
  BY DEF ArmInv
<1>3. ~Life!Working(a)
  BY <1>1 DEF Life!Working, ArmInv
<1>4. \A j \in 1 .. r - 1 : tasks[j].arm = a => tasks[j].stage # "given"
  <2> SUFFICES ASSUME NEW j \in 1 .. r - 1, tasks[j].arm = a, tasks[j].stage = "given"
               PROVE  FALSE
    OBVIOUS
  <2>1. j \in 1 .. Len(tasks) /\ j # r
    BY <1>1
  <2>2. PICK k \in 1 .. Len(q) : q[k] = j
    BY <2>1 DEF ArmInv
  <2>3. r < j
    BY <2>2 DEF ArmInv
  <2> QED BY <1>1, <2>3
<1>5. Life!Accept(r)
  BY <1>2, <1>3, <1>4 DEF Life!Accept, Signalled
<1> QED BY <1>1, <1>5 DEF Life!Next, Life!Moves

LEMMA EndIsStep ==
    ASSUME NEW r \in 1 .. Len(tasks), tasks \in Seq(Task), tasks[r].stage = "accepted",
           NEW s \in {"finished", "failed"}, tasks' = Signalled(r, s)
    PROVE  Life!Next
<1>1. Life!End(r)
  BY DEF Life!End, Signalled
<1> QED BY <1>1 DEF Life!Next, Life!Moves

(* Of the tasks that are given, one or none is for arm a to run.            *)
Extends(ts, ts2) ==
    /\ Len(ts) \in Nat /\ Len(ts2) \in Nat /\ Len(ts) < Len(ts2)
    /\ \A j \in 1 .. Len(ts) : ts2[j] = ts[j]

LEMMA ArmGivenNone ==
    ASSUME NEW a, NEW ts, NEW ts2, NEW q, NEW r, ArmInv(a, ts, q, r), Extends(ts, ts2),
           \A k \in Len(ts) + 1 .. Len(ts2) :
               ts2[k].arm = a => ts2[k].stage \notin {"given", "accepted"}
    PROVE  ArmInv(a, ts2, q, r)
<1>1. /\ Len(ts) \in Nat /\ Len(ts2) \in Nat /\ Len(ts) < Len(ts2)
      /\ \A j \in 1 .. Len(ts) : ts2[j] = ts[j] /\ j \in 1 .. Len(ts2)
  BY DEF Extends
<1>2. \A i \in 1 .. Len(ts2) : ts2[i].arm = a /\ ts2[i].stage \in {"given", "accepted"} =>
        i \in 1 .. Len(ts)
  BY <1>1
<1>3. /\ q \in Seq(Nat) /\ r \in Nat
      /\ \A k \in 1 .. Len(q) : /\ q[k] \in 1 .. Len(ts2) /\ r < q[k]
                                /\ ts2[q[k]].arm = a /\ ts2[q[k]].stage = "given"
      /\ \A j, k \in 1 .. Len(q) : j < k => q[j] < q[k]
  BY <1>1 DEF ArmInv
<1>4. r # 0 => /\ r \in 1 .. Len(ts2) /\ ts2[r].arm = a
               /\ ts2[r].stage \in {"given", "accepted"}
  BY <1>1 DEF ArmInv
<1>5. \A i \in 1 .. Len(ts2) : ts2[i].arm = a /\ ts2[i].stage = "given" =>
        i = r \/ \E k \in 1 .. Len(q) : q[k] = i
  BY <1>1, <1>2 DEF ArmInv
<1>6. \A i \in 1 .. Len(ts2) : ts2[i].arm = a /\ ts2[i].stage = "accepted" => i = r
  BY <1>1, <1>2 DEF ArmInv
<1> QED BY <1>3, <1>4, <1>5, <1>6 DEF ArmInv

LEMMA ArmGivenOne ==
    ASSUME NEW a, NEW ts, NEW ts2, NEW q, NEW r, ArmInv(a, ts, q, r), Extends(ts, ts2),
           NEW m \in Len(ts) + 1 .. Len(ts2), ts2[m].arm = a, ts2[m].stage = "given",
           \A k \in Len(ts) + 1 .. Len(ts2) : ts2[k].arm = a => k = m
    PROVE  ArmInv(a, ts2, Append(q, m), r)
<1> DEFINE new == Append(q, m)
<1>1. /\ Len(ts) \in Nat /\ Len(ts2) \in Nat /\ Len(ts) < Len(ts2) /\ m \in Nat
      /\ m \in 1 .. Len(ts2) /\ m > Len(ts)
      /\ \A j \in 1 .. Len(ts) : ts2[j] = ts[j] /\ j \in 1 .. Len(ts2)
  BY DEF Extends
<1>2. \A i \in 1 .. Len(ts2) : ts2[i].arm = a => i = m \/ i \in 1 .. Len(ts)
  BY <1>1
<1>3. q \in Seq(Nat) /\ r \in Nat /\ (r # 0 => r \in 1 .. Len(ts))
  BY DEF ArmInv
<1>4. /\ new \in Seq(Nat) /\ Len(q) \in Nat /\ Len(new) = Len(q) + 1 /\ new[Len(q) + 1] = m
      /\ \A k \in 1 .. Len(q) : new[k] = q[k]
  BY <1>1, <1>3
<1> HIDE DEF new
<1>5. \A k \in 1 .. Len(new) : k \in 1 .. Len(q) \/ (k = Len(q) + 1 /\ new[k] = m)
  BY <1>4
<1>6. \A k \in 1 .. Len(q) : /\ q[k] \in 1 .. Len(ts) /\ r < q[k]
                             /\ ts[q[k]].arm = a /\ ts[q[k]].stage = "given"
  BY DEF ArmInv
<1>7. \A k \in 1 .. Len(new) : /\ new[k] \in 1 .. Len(ts2) /\ r < new[k]
                               /\ ts2[new[k]].arm = a /\ ts2[new[k]].stage = "given"
  <2> SUFFICES ASSUME NEW k \in 1 .. Len(new)
               PROVE  /\ new[k] \in 1 .. Len(ts2) /\ r < new[k]
                      /\ ts2[new[k]].arm = a /\ ts2[new[k]].stage = "given"
    OBVIOUS
  <2>1. CASE k \in 1 .. Len(q)
    BY <1>1, <1>4, <1>6, <2>1
  <2>2. CASE k = Len(q) + 1
    <3>1. r < m
      BY <1>1, <1>3
    <3> QED BY <1>1, <1>4, <2>2, <3>1
  <2> QED BY <1>5, <2>1, <2>2
<1>8. \A j, k \in 1 .. Len(new) : j < k => new[j] < new[k]
  <2> SUFFICES ASSUME NEW j \in 1 .. Len(new), NEW k \in 1 .. Len(new), j < k
               PROVE  new[j] < new[k]
    OBVIOUS
  <2>1. j \in 1 .. Len(q) /\ new[j] = q[j] /\ q[j] \in 1 .. Len(ts)
    BY <1>4, <1>6
  <2>2. CASE k \in 1 .. Len(q)
    BY <1>4, <2>1, <2>2 DEF ArmInv
  <2>3. CASE k = Len(q) + 1
    BY <1>1, <1>4, <2>1, <2>3
  <2> QED BY <1>5, <2>2, <2>3
<1>9. r # 0 => /\ r \in 1 .. Len(ts2) /\ ts2[r].arm = a
               /\ ts2[r].stage \in {"given", "accepted"}
  BY <1>1 DEF ArmInv
<1>10. \A i \in 1 .. Len(ts2) : ts2[i].arm = a /\ ts2[i].stage = "given" =>
         i = r \/ \E k \in 1 .. Len(new) : new[k] = i
  <2> SUFFICES ASSUME NEW i \in 1 .. Len(ts2), ts2[i].arm = a, ts2[i].stage = "given", i # r
               PROVE  \E k \in 1 .. Len(new) : new[k] = i
    OBVIOUS
  <2>1. CASE i = m
    <3>1. Len(q) + 1 \in 1 .. Len(new)
      BY <1>4
    <3> QED BY <1>4, <2>1, <3>1
  <2>2. CASE i \in 1 .. Len(ts)
    <3>1. PICK k \in 1 .. Len(q) : q[k] = i
      BY <1>1, <2>2 DEF ArmInv
    <3>2. k \in 1 .. Len(new) /\ new[k] = i
      BY <1>4, <3>1
    <3> QED BY <3>2
  <2> QED BY <1>2, <2>1, <2>2
<1>11. \A i \in 1 .. Len(ts2) : ts2[i].arm = a /\ ts2[i].stage = "accepted" => i = r
  <2> SUFFICES ASSUME NEW i \in 1 .. Len(ts2), ts2[i].arm = a, ts2[i].stage = "accepted"
               PROVE  i = r
    OBVIOUS
  <2>1. i # m
    OBVIOUS
  <2>2. i \in 1 .. Len(ts) /\ ts[i].arm = a /\ ts[i].stage = "accepted"
    BY <1>1, <1>2, <2>1
  <2> QED BY <2>2 DEF ArmInv
<1>12. ArmInv(a, ts2, new, r)
  BY <1>3, <1>4, <1>7, <1>8, <1>9, <1>10, <1>11 DEF ArmInv
<1> QED BY <1>12 DEF new


(* The motion worker runs the one task that is accepted.                    *)
Runs == worker.at \in {"segment", "close", "failed"}

LifeInv ==
    /\ tasks \in Seq(Task)
    /\ ArmsInv(tasks, pending, running)
    /\ robot \in {"fake", "duco_connect", "duco_prepare"}
    /\ Duco => \A a \in Arms :
                 IF Runs /\ worker.arm = a
                 THEN running[a] # 0 /\ tasks[running[a]].stage = "accepted"
                 ELSE running[a] = 0

LEMMA LifeInvInit == LineInit => LifeInv /\ Life!Init
<1> SUFFICES ASSUME LineInit PROVE LifeInv /\ Life!Init
    OBVIOUS
<1>1. /\ tasks = <<>> /\ pending = [a \in Arms |-> <<>>] /\ running = [a \in Arms |-> 0]
      /\ worker.at = "idle" /\ robot \in {"fake", "duco_connect", "duco_prepare"}
  BY LineAssumption DEF LineInit, RobotInit, IdleWorker
<1>2. \A a \in Arms : ArmInv(a, <<>>, <<>>, 0)
  BY DEF ArmInv
<1>3. ArmsInv(tasks, pending, running)
  BY <1>1, <1>2 DEF ArmsInv
<1> QED BY <1>1, <1>3 DEF LifeInv, Runs, Life!Init

(* A task is made of what its arm's queue holds.                            *)
LEMMA TaskTyped ==
    ASSUME FlowInv, NEW a \in Arms, NEW p \in Pointers, NEW s \in {"given", "finished", "failed"}
    PROVE  [arm |-> a, count |-> TaskFor(a, p).count, pointer |-> TaskFor(a, p).pointer,
            data |-> TaskFor(a, p).data, stage |-> s] \in Task
<1>1. PointerSpace \in Nat \ {0} /\ PrefetchOffset \in Nat
  BY QueueAssumption
<1>2. SelectedPointer(p) \in Pointers
  BY <1>1 DEF SelectedPointer, Pointers
<1>3. queue[a] \in [Pointers -> Cells]
  BY DEF FlowInv, FlowTyped
<1>4. Queued(queue[a], SelectedPointer(p)) => queue[a][SelectedPointer(p)] \in Items
  BY <1>2, <1>3 DEF Queued, Cells, NoItem
<1>5. /\ TaskFor(a, p).count \in Counts \cup {0} /\ TaskFor(a, p).pointer \in Pointers
      /\ TaskFor(a, p).data \in Payloads \cup {"default"}
  BY <1>2, <1>4 DEF TaskFor, Items
<1> QED BY <1>5 DEF Task

LEMMA DequeueIsLife ==
    ASSUME GunInv, FlowInv, LifeInv, NEW f \in [Arms -> Pointers], OnDequeueFrame(f)
    PROVE  LifeInv' /\ Life!Next
<1> DEFINE task(a) == TaskFor(a, f[a])
           given(a) == [arm |-> a, count |-> task(a).count, pointer |-> task(a).pointer,
                        data |-> task(a).data, stage |-> Answer(task(a))]
           new == IF Moved(f) = Arms THEN <<given(1), given(2)>>
                  ELSE <<given(CHOOSE a \in Moved(f) : TRUE)>>
           place(a) == Len(tasks) + (IF Moved(f) = Arms THEN a ELSE 1)
           waiting(a) == IF a \in Moved(f) THEN Enqueued(a, place(a), Answer(task(a)))
                         ELSE pending[a]
<1>1. /\ LoopFree /\ Moved(f) # {} /\ Moved(f) \subseteq Arms
      /\ tasks' = tasks \o new
      /\ pending' = [a \in Arms |-> IF FakeStarts(a, waiting(a)) THEN Tail(waiting(a))
                                    ELSE waiting(a)]
      /\ running' = [a \in Arms |-> IF FakeStarts(a, waiting(a)) THEN Head(waiting(a))
                                    ELSE running[a]]
      /\ UNCHANGED <<robot, worker>>
  BY DEF OnDequeueFrame, Moved
<1>2. \A a \in Arms : /\ Answer(task(a)) \in {"given", "finished", "failed"}
                      /\ given(a) \in Task /\ given(a).arm = a
                      /\ given(a).stage = Answer(task(a))
                      /\ given(a).data = task(a).data
  <2>1. \A a \in Arms : Answer(task(a)) \in {"given", "finished", "failed"}
    BY DEF Answer, DucoAnswer
  <2> QED BY <2>1, TaskTyped
<1>3. tasks \in Seq(Task) /\ Len(tasks) \in Nat
  BY DEF LifeInv
<1> HIDE DEF given
<1>4. /\ Len(new) \in {1, 2} /\ new \in Seq(Task)
      /\ \A a \in Moved(f) : /\ place(a) - Len(tasks) \in 1 .. Len(new)
                             /\ new[place(a) - Len(tasks)] = given(a)
      /\ \A k \in 1 .. Len(new) : \E a \in Moved(f) : k = place(a) - Len(tasks)
  <2>1. CASE Moved(f) = Arms
    <3>1. new = <<given(1), given(2)>> /\ given(1) \in Task /\ given(2) \in Task
      BY <1>2, <2>1 DEF Arms
    <3>2. \A a \in Moved(f) : place(a) - Len(tasks) = a /\ a \in {1, 2}
      BY <1>3, <2>1 DEF Arms
    <3>3. Len(new) = 2 /\ new \in Seq(Task) /\ new[1] = given(1) /\ new[2] = given(2)
      BY <3>1
    <3>4. 1 \in Moved(f) /\ 2 \in Moved(f)
      BY <2>1 DEF Arms
    <3> HIDE DEF new, place
    <3>5. \A k \in 1 .. Len(new) : k \in Moved(f) /\ k = place(k) - Len(tasks)
      BY <3>2, <3>3, <3>4
    <3> QED BY <3>2, <3>3, <3>5
  <2>2. CASE Moved(f) # Arms
    <3>1. PICK c \in Arms : Moved(f) = {c}
      BY <1>1, <2>2 DEF Arms
    <3>2. (CHOOSE a \in Moved(f) : TRUE) = c
      BY <3>1
    <3>3. new = <<given(c)>> /\ given(c) \in Task
      BY <1>2, <2>2, <3>2
    <3>4. Len(new) = 1 /\ new \in Seq(Task) /\ new[1] = given(c)
      BY <3>3
    <3>5. place(c) - Len(tasks) = 1
      BY <1>3, <2>2
    <3> HIDE DEF new, place
    <3> QED BY <3>1, <3>4, <3>5
  <2> QED BY <2>1, <2>2
<1> HIDE DEF new
<1>5. \A a \in Moved(f) : place(a) \in Nat
  BY <1>1, <1>3 DEF Arms
<1> HIDE DEF place
<1>6. /\ tasks' \in Seq(Task) /\ Len(tasks') = Len(tasks) + Len(new)
      /\ \A j \in 1 .. Len(tasks) : tasks'[j] = tasks[j]
      /\ \A k \in 1 .. Len(new) : tasks'[Len(tasks) + k] = new[k]
  BY <1>1, <1>3, <1>4
<1>7. /\ Extends(tasks, tasks')
      /\ Len(tasks') \in Len(tasks) + 1 .. Len(tasks) + 2
  <2>1. /\ Len(tasks) \in Nat /\ Len(new) \in {1, 2}
        /\ Len(tasks') = Len(tasks) + Len(new)
    BY <1>3, <1>4, <1>6
  <2>2. /\ Len(tasks') \in Nat /\ Len(tasks) < Len(tasks')
        /\ Len(tasks') \in Len(tasks) + 1 .. Len(tasks) + 2
    <3>1. Len(tasks') = Len(tasks) + 1 \/ Len(tasks') = Len(tasks) + 2
      BY <2>1
    <3> QED BY <2>1, <3>1
  <2> QED BY <1>6, <2>1, <2>2 DEF Extends
<1>8. \A a \in Moved(f) : /\ place(a) \in Len(tasks) + 1 .. Len(tasks')
                          /\ tasks'[place(a)] = given(a)
  <2> SUFFICES ASSUME NEW a \in Moved(f)
               PROVE  place(a) \in Len(tasks) + 1 .. Len(tasks') /\ tasks'[place(a)] = given(a)
    OBVIOUS
  <2>1. PICK k \in 1 .. Len(new) : k = place(a) - Len(tasks) /\ new[k] = given(a)
    BY <1>4
  <2>2. place(a) = Len(tasks) + k
    BY <1>3, <1>5, <2>1
  <2> QED BY <1>3, <1>4, <1>6, <2>1, <2>2
<1>9. \A k \in Len(tasks) + 1 .. Len(tasks') : \E a \in Moved(f) : k = place(a)
  <2> SUFFICES ASSUME NEW k \in Len(tasks) + 1 .. Len(tasks')
               PROVE  \E a \in Moved(f) : k = place(a)
    OBVIOUS
  <2>1. k - Len(tasks) \in 1 .. Len(new)
    BY <1>3, <1>4, <1>6
  <2>2. PICK a \in Moved(f) : k - Len(tasks) = place(a) - Len(tasks)
    BY <1>4, <2>1
  <2> QED BY <1>3, <1>5, <2>2
<1>10. \A k \in Len(tasks) + 1 .. Len(tasks') :
         /\ tasks'[k].arm \in Moved(f) /\ k = place(tasks'[k].arm)
         /\ tasks'[k] = given(tasks'[k].arm)
  BY <1>1, <1>2, <1>8, <1>9
<1>11. \A a \in Arms : ArmInv(a, tasks', waiting(a), running[a])
  <2> SUFFICES ASSUME NEW a \in Arms PROVE ArmInv(a, tasks', waiting(a), running[a])
    OBVIOUS
  <2>1. ArmInv(a, tasks, pending[a], running[a])
    BY DEF LifeInv, ArmsInv
  <2>2. CASE a \in Moved(f) /\ Answer(task(a)) = "given"
    <3>1. waiting(a) = Append(pending[a], place(a))
      BY <2>2 DEF Enqueued
    <3>2. tasks'[place(a)].arm = a /\ tasks'[place(a)].stage = "given"
      BY <1>2, <1>8, <2>2
    <3>3. place(a) \in Len(tasks) + 1 .. Len(tasks')
      BY <1>8, <2>2
    <3>4. \A k \in Len(tasks) + 1 .. Len(tasks') : tasks'[k].arm = a => k = place(a)
      BY <1>10
    <3>5. ArmInv(a, tasks', Append(pending[a], place(a)), running[a])
      BY <1>7, <2>1, <3>2, <3>3, <3>4, ArmGivenOne
    <3> QED BY <3>1, <3>5
  <2>3. CASE ~(a \in Moved(f) /\ Answer(task(a)) = "given")
    <3>1. waiting(a) = pending[a]
      BY <2>3 DEF Enqueued
    <3>2. \A k \in Len(tasks) + 1 .. Len(tasks') :
            tasks'[k].arm = a => tasks'[k].stage \notin {"given", "accepted"}
      <4> SUFFICES ASSUME NEW k \in Len(tasks) + 1 .. Len(tasks'), tasks'[k].arm = a
                   PROVE  tasks'[k].stage \notin {"given", "accepted"}
        OBVIOUS
      <4>1. a \in Moved(f) /\ tasks'[k].stage = Answer(task(a))
        BY <1>2, <1>10
      <4> QED BY <1>2, <2>3, <4>1
    <3> QED BY <1>7, <2>1, <3>1, <3>2, ArmGivenNone
  <2> QED BY <2>2, <2>3
<1> HIDE DEF waiting
<1>12. ASSUME NEW a \in Arms
       PROVE  ArmInv(a, tasks', pending'[a], running'[a])
  <2>1. CASE FakeStarts(a, waiting(a))
    <3>1. /\ running[a] = 0 /\ waiting(a) # <<>>
          /\ pending'[a] = Tail(waiting(a)) /\ running'[a] = Head(waiting(a))
      BY <1>1, <2>1 DEF FakeStarts, MayStart
    <3>2. ArmInv(a, tasks', waiting(a), 0)
      BY <1>11, <3>1
    <3> QED BY <3>1, <3>2, ArmTakes
  <2>2. CASE ~FakeStarts(a, waiting(a))
    BY <1>1, <1>11, <2>2
  <2> QED BY <2>1, <2>2
<1>13. ArmsInv(tasks', pending', running')
  <2>1. \A a \in Arms : pending'[a] \in Seq(Nat) /\ running'[a] \in Nat
    BY <1>12 DEF ArmInv
  <2> QED BY <1>1, <1>12, <2>1 DEF ArmsInv
<1>14. Duco => \A a \in Arms : running[a] = 0 /\ running'[a] = 0
  BY <1>1 DEF LifeInv, Runs, LoopFree, FakeStarts, Duco
<1>15. LifeInv'
  BY <1>1, <1>6, <1>13, <1>14 DEF LifeInv, Duco, Runs, LoopFree
<1>16. ASSUME NEW k \in Len(tasks) + 1 .. Len(tasks')
       PROVE  \/ tasks'[k].stage \in {"given", "failed"}
              \/ /\ tasks'[k].stage = "finished"
                 /\ Noop(tasks'[k]) /\ ~Life!Working(tasks'[k].arm)
  <2> DEFINE a == tasks'[k].arm
  <2>1. a \in Arms /\ tasks'[k].stage = Answer(task(a)) /\ tasks'[k].data = task(a).data
    BY <1>1, <1>2, <1>10
  <2>2. CASE tasks'[k].stage = "finished"
    <3>1. Duco /\ Noop(task(a))
      BY <2>1, <2>2 DEF Answer, DucoAnswer
    <3>2. ArmInv(a, tasks, pending[a], 0)
      BY <1>14, <2>1, <3>1 DEF LifeInv, ArmsInv
    <3>3. DOMAIN tasks = 1 .. Len(tasks)
      BY <1>3
    <3>4. ~Life!Working(a)
      BY <3>2, <3>3, <1>3 DEF Life!Working, ArmInv
    <3> QED BY <2>1, <2>2, <3>1, <3>4 DEF Noop
  <2> QED BY <1>2, <2>1, <2>2
<1>17. Life!Give
  <2>1. SubSeq(tasks', 1, Len(tasks)) = tasks
    BY <1>3, <1>4, <1>6
  <2> QED BY <1>7, <1>16, <2>1 DEF Life!Give
<1> QED BY <1>15, <1>17 DEF Life!Next


(* A step that gives, starts and ends no task; the worker may move on in    *)
(* the task it runs.                                                        *)
LEMMA QuietKeepsLifeInv ==
    ASSUME LifeInv, UNCHANGED <<robot, tasks, pending, running>>,
           worker' = worker \/ (Runs /\ Runs' /\ worker'.arm = worker.arm)
    PROVE  LifeInv'
<1>1. (Runs' <=> Runs) /\ worker'.arm = worker.arm
  BY DEF Runs
<1> QED BY <1>1 DEF LifeInv, Duco

LEMMA WorkerIsDuco == GunInv /\ LifeInv /\ Runs => Duco /\ worker.arm \in Arms
BY DEF GunInv, WorkerTyped, LifeInv, Runs, Duco

(* The first signal of either controller, with the task taken from the      *)
(* queue before or now.                                                     *)
LEMMA AcceptTimerIsLife ==
    ASSUME LifeInv, NEW a \in Arms, AcceptTimer(a), UNCHANGED worker
    PROVE  LifeInv' /\ Life!Next
<1>1. /\ tasks \in Seq(Task) /\ ArmsInv(tasks, pending, running)
      /\ ArmInv(a, tasks, pending[a], running[a]) /\ running \in [Arms -> Nat]
  BY DEF LifeInv, ArmsInv
<1>2. /\ robot = "fake" /\ running[a] # 0 /\ tasks[running[a]].stage = "given"
      /\ tasks' = Signalled(running[a], "accepted")
      /\ UNCHANGED <<robot, pending, running>>
  BY DEF AcceptTimer
<1>3. running[a] \in 1 .. Len(tasks)
  BY <1>1, <1>2 DEF ArmInv
<1>4. tasks' \in Seq(Task) /\ Changed(tasks, tasks', running[a], "accepted")
  BY <1>1, <1>2, <1>3, SignalledStage
<1>5. ArmsInv(tasks', pending, [running EXCEPT ![a] = IF "accepted" = "accepted"
                                                      THEN running[a] ELSE 0])
  BY <1>1, <1>2, <1>4, ArmsSignal
<1>6. ArmsInv(tasks', pending', running')
  <2>1. [running EXCEPT ![a] = IF "accepted" = "accepted" THEN running[a] ELSE 0] = running'
    BY <1>1, <1>2
  <2> QED BY <1>2, <1>5, <2>1
<1>7. LifeInv'
  BY <1>2, <1>4, <1>6 DEF LifeInv, Duco
<1>8. Life!Next
  BY <1>1, <1>2, AcceptIsStep
<1> QED BY <1>7, <1>8

LEMMA StartNextIsLife ==
    ASSUME LifeInv, NEW a \in Arms, StartNext(a)
    PROVE  LifeInv' /\ Life!Next
<1> DEFINE q == [pending EXCEPT ![a] = Tail(@)]
           r == [running EXCEPT ![a] = Head(pending[a])]
           i == Head(pending[a])
<1>1. /\ tasks \in Seq(Task) /\ ArmsInv(tasks, pending, running)
      /\ pending \in [Arms -> Seq(Nat)] /\ running \in [Arms -> Nat]
  BY DEF LifeInv, ArmsInv
<1>2. /\ Duco /\ running[a] = 0 /\ pending[a] # <<>> /\ worker.at \in {"idle", "next"}
      /\ tasks' = Signalled(i, "accepted") /\ pending' = q /\ running' = r
      /\ worker' = [arm |-> a, at |-> "segment", segment |-> 1, active |-> FALSE]
      /\ robot' = robot
  BY DEF StartNext, MayStart, LoopFree
<1>3. ArmsInv(tasks, q, r) /\ i # 0 /\ tasks[i].stage = "given"
  BY <1>1, <1>2, ArmsTake
<1>4. r[a] = i
  BY <1>1
<1>5. ArmInv(a, tasks, q[a], i)
  BY <1>3, <1>4 DEF ArmsInv
<1>6. i \in 1 .. Len(tasks)
  BY <1>3, <1>5 DEF ArmInv
<1>7. tasks' \in Seq(Task) /\ Changed(tasks, tasks', i, "accepted")
  BY <1>1, <1>2, <1>6, SignalledStage
<1> HIDE DEF q, r
<1>8. ArmsInv(tasks', q, [r EXCEPT ![a] = IF "accepted" = "accepted" THEN r[a] ELSE 0])
  <2>1. r[a] # 0 /\ Changed(tasks, tasks', r[a], "accepted")
    BY <1>3, <1>4, <1>7
  <2> QED BY <1>3, <2>1, ArmsSignal
<1>9. [r EXCEPT ![a] = IF "accepted" = "accepted" THEN r[a] ELSE 0] = r
  BY <1>3 DEF ArmsInv
<1>10. \A b \in Arms : IF b = a THEN running'[b] = i ELSE running'[b] = 0
  <2>1. \A b \in Arms : running[b] = 0
    BY <1>2 DEF LifeInv, Runs
  <2> QED BY <1>1, <1>2, <2>1 DEF r
<1>11. tasks'[i].stage = "accepted"
  BY <1>6, <1>7 DEF Changed
<1>12. Runs' /\ worker'.arm = a
  BY <1>2 DEF Runs
<1>13. LifeInv'
  BY <1>2, <1>3, <1>7, <1>8, <1>9, <1>10, <1>11, <1>12 DEF LifeInv, Duco
<1>14. Life!Next
  BY <1>1, <1>2, <1>3, <1>5, AcceptIsStep
<1> QED BY <1>13, <1>14

(* The second signal, and what the arm does next.                           *)
LEMMA EndSignals ==
    ASSUME LifeInv, NEW a \in Arms, running[a] # 0, tasks[running[a]].stage = "accepted",
           NEW s \in {"finished", "failed"}, tasks' = Signalled(running[a], s)
    PROVE  /\ tasks' \in Seq(Task) /\ Life!Next
           /\ ArmsInv(tasks', pending, [running EXCEPT ![a] = 0])
<1>1. /\ tasks \in Seq(Task) /\ ArmsInv(tasks, pending, running)
      /\ ArmInv(a, tasks, pending[a], running[a])
  BY DEF LifeInv, ArmsInv
<1>2. running[a] \in 1 .. Len(tasks)
  BY <1>1 DEF ArmInv
<1>3. tasks' \in Seq(Task) /\ Changed(tasks, tasks', running[a], s)
  BY <1>1, <1>2, SignalledStage
<1>4. ArmsInv(tasks', pending, [running EXCEPT ![a] = 0])
  <2>1. CASE s = "finished"
    <3>1. ArmsInv(tasks', pending, [running EXCEPT ![a] = IF "finished" = "accepted"
                                                          THEN running[a] ELSE 0])
      BY <1>1, <1>3, <2>1, ArmsSignal
    <3> QED BY <3>1
  <2>2. CASE s = "failed"
    <3>1. ArmsInv(tasks', pending, [running EXCEPT ![a] = IF "failed" = "accepted"
                                                          THEN running[a] ELSE 0])
      BY <1>1, <1>3, <2>2, ArmsSignal
    <3> QED BY <3>1
  <2> QED BY <2>1, <2>2
<1> QED BY <1>1, <1>2, <1>3, <1>4, EndIsStep

LEMMA FinishTimerIsLife ==
    ASSUME LifeInv, NEW a \in Arms, FinishTimer(a), UNCHANGED worker
    PROVE  LifeInv' /\ Life!Next
<1> DEFINE r == [running EXCEPT ![a] = 0]
<1>1. /\ robot = "fake" /\ running[a] # 0 /\ tasks[running[a]].stage = "accepted"
      /\ tasks' = Signalled(running[a], "finished")
      /\ running' = [running EXCEPT ![a] = IF pending[a] # <<>> THEN Head(pending[a]) ELSE 0]
      /\ pending' = [pending EXCEPT ![a] = IF pending[a] # <<>> THEN Tail(@) ELSE @]
      /\ robot' = robot
  BY DEF FinishTimer, MayStart
<1>2. pending \in [Arms -> Seq(Nat)] /\ running \in [Arms -> Nat]
  BY DEF LifeInv, ArmsInv
<1>3. tasks' \in Seq(Task) /\ Life!Next /\ ArmsInv(tasks', pending, r)
  BY <1>1, EndSignals
<1>4. ArmsInv(tasks', pending', running')
  <2>1. CASE pending[a] = <<>>
    BY <1>1, <1>2, <1>3, <2>1
  <2>2. CASE pending[a] # <<>>
    <3>1. r[a] = 0 /\ running' = [r EXCEPT ![a] = Head(pending[a])]
      BY <1>1, <1>2, <2>2
    <3>2. pending' = [pending EXCEPT ![a] = Tail(@)]
      BY <1>1, <2>2
    <3> HIDE DEF r
    <3> QED BY <1>3, <2>2, <3>1, <3>2, ArmsTake
  <2> QED BY <2>1, <2>2
<1>5. LifeInv'
  BY <1>1, <1>3, <1>4 DEF LifeInv, Duco
<1> QED BY <1>3, <1>5

LEMMA WorkerEndsIsLife ==
    ASSUME GunInv, LifeInv, TaskSucceeds \/ TaskFails
    PROVE  LifeInv' /\ Life!Next
<1> DEFINE a == worker.arm
<1>1. Runs /\ Duco /\ a \in Arms
  <2>1. Runs
    BY DEF TaskSucceeds, TaskFails, Runs
  <2> QED BY <2>1, WorkerIsDuco
<1>2. running[a] # 0 /\ tasks[running[a]].stage = "accepted"
  BY <1>1 DEF LifeInv
<1>3. PICK s \in {"finished", "failed"} : tasks' = Signalled(running[a], s)
  BY DEF TaskSucceeds, TaskFails
<1>4. /\ running' = [running EXCEPT ![a] = 0] /\ worker' = WorkerAfter(a)
      /\ UNCHANGED <<robot, pending>>
  BY DEF TaskSucceeds, TaskFails
<1>5. tasks' \in Seq(Task) /\ Life!Next /\ ArmsInv(tasks', pending', running')
  BY <1>1, <1>2, <1>3, <1>4, EndSignals
<1>6. ~Runs'
  BY <1>4 DEF WorkerAfter, IdleWorker, Runs
<1>7. \A b \in Arms : running'[b] = 0
  BY <1>1, <1>4 DEF LifeInv, ArmsInv
<1>8. LifeInv'
  BY <1>4, <1>5, <1>6, <1>7 DEF LifeInv, Duco
<1> QED BY <1>5, <1>8

LEMMA LifeStep ==
    GunInv /\ FlowInv /\ LifeInv /\ [LineNext]_allVars => LifeInv' /\ [Life!Next]_tasks
<1> SUFFICES ASSUME GunInv, FlowInv, LifeInv, [LineNext]_allVars
             PROVE  LifeInv' /\ [Life!Next]_tasks
    OBVIOUS
<1> DEFINE quiet == UNCHANGED <<robot, tasks, pending, running, worker>>
<1>1. quiet => LifeInv' /\ [Life!Next]_tasks
  BY QuietKeepsLifeInv
<1>2. CASE \E part \in Parts : HandleStart(part[1], part[2])
  BY <1>1, <1>2 DEF HandleStart, robotVars
<1>3. CASE \E n \in Counts : HandleEnd(n) \/ Handle2dResult(n)
  BY <1>1, <1>3 DEF HandleEnd, Handle2dResult, robotVars
<1>4. CASE Handle2dReady \/ \E frame \in Frames : Handle3dFrame(frame)
  BY <1>1, <1>4 DEF Handle2dReady, Handle3dFrame, robotVars
<1>5. CASE \E f \in Dequeues : HandleDequeue(f)
  <2>1. PICK f \in Dequeues : HandleDequeue(f)
    BY <1>5
  <2>2. f \in [Arms -> Pointers]
    BY LineAssumption
  <2> QED BY <2>1, <2>2, DequeueIsLife DEF HandleDequeue
<1>6. CASE Start \/ Stop
  BY <1>1, <1>6 DEF Start, Stop
<1>7. CASE \E a \in Arms :
             (AcceptTimer(a) \/ FinishTimer(a) \/ (LoopFree /\ StartNext(a))) /\ NoEvent
  <2>1. PICK a \in Arms : AcceptTimer(a) \/ FinishTimer(a) \/ StartNext(a)
    BY <1>7
  <2>2. CASE AcceptTimer(a)
    <3>1. worker' = worker
      BY <2>2 DEF AcceptTimer
    <3> QED BY <2>2, <3>1, AcceptTimerIsLife
  <2>3. CASE FinishTimer(a)
    <3>1. worker' = worker
      BY <2>3 DEF FinishTimer
    <3> QED BY <2>3, <3>1, FinishTimerIsLife
  <2>4. CASE StartNext(a)
    BY <2>4, StartNextIsLife
  <2> QED BY <2>1, <2>2, <2>3, <2>4
<1>8. CASE WorkerStep /\ NoEvent
  <2>1. CASE ExecuteSegment
    <3>1. worker.at = "segment" /\ UNCHANGED <<robot, tasks, pending, running>>
      BY <2>1 DEF ExecuteSegment
    <3>2. Runs' /\ worker'.arm = worker.arm
      <4>1. worker \in [arm : Arms \cup {0}, at : {"idle", "segment", "close", "failed", "next"},
                        segment : Nat, active : BOOLEAN]
        BY DEF GunInv, WorkerTyped
      <4> QED BY <2>1, <3>1, <4>1 DEF ExecuteSegment, Runs
    <3> QED BY <3>1, <3>2, QuietKeepsLifeInv DEF Runs
  <2>2. CASE CloseSprayIo
    <3>1. worker.at = "close" /\ UNCHANGED <<robot, tasks, pending, running>>
      BY <2>2 DEF CloseSprayIo
    <3>2. Runs' /\ worker'.arm = worker.arm
      <4>1. worker \in [arm : Arms \cup {0}, at : {"idle", "segment", "close", "failed", "next"},
                        segment : Nat, active : BOOLEAN]
        BY DEF GunInv, WorkerTyped
      <4> QED BY <2>2, <4>1 DEF CloseSprayIo, Runs
    <3> QED BY <3>1, <3>2, QuietKeepsLifeInv DEF Runs
  <2>3. CASE TaskSucceeds \/ TaskFails
    BY <2>3, WorkerEndsIsLife
  <2>4. CASE worker.at = "next" /\ StartNext(worker.arm)
    <3>1. worker.arm \in Arms
      BY <2>4 DEF GunInv, WorkerTyped
    <3> QED BY <2>4, <3>1, StartNextIsLife
  <2> QED BY <1>8, <2>1, <2>2, <2>3, <2>4 DEF WorkerStep
<1>9. CASE UNCHANGED allVars
  BY <1>1, <1>9 DEF allVars, lineVars, robotVars
<1> QED BY <1>2, <1>3, <1>4, <1>5, <1>6, <1>7, <1>8, <1>9 DEF LineNext

(* Whichever controller runs, and through stops, restarts and faults, a     *)
(* task is given, accepted and ended as TaskLife says: one at a time on an  *)
(* arm, in the order they were given in, and none twice or after its end.   *)
THEOREM TasksLive == LineSpec => Life!Init /\ [][Life!Next]_tasks
<1>1. LineInit => GunInv /\ FlowInv /\ LifeInv /\ Life!Init
  BY GunInvInit, FlowInvInit, LifeInvInit
<1>2. GunInv /\ FlowInv /\ LifeInv /\ [LineNext]_allVars =>
        (GunInv /\ FlowInv /\ LifeInv)' /\ [Life!Next]_tasks
  BY GunInvStep, FlowInvStep, LifeStep
<1> QED BY <1>1, <1>2, PTL DEF LineSpec

(* ------------------------------ the types ------------------------------ *)

Caches == [trigger : Pointers, selected : Pointers, count : Counts \cup {0}, noop : BOOLEAN]

CachesTyped ==
    /\ lastPointers \in [Arms -> Pointers]
    /\ caches \in [Arms -> Caches]

(* The robot's state, and the plan's place, at most one past its end.       *)
RobotTyped ==
    /\ robot \in Robots
    /\ link \in {"Disconnected", "Connected", "Prepared", "Faulted"}
    /\ motion \in {"none", "closed", "open"}
    /\ worker.segment \in 1 .. 5

PortsTyped ==
    /\ window \in Counts \cup {NoWindow}
    /\ listening \subseteq {"camera", "plc"}
    /\ events \in 0 .. MaxEvents

(* A part with both arms ready is done with, and its cycle is gone.         *)
NoneFullyReady == \A n \in Counts : cycles[n].ready # Arms

RestInv == CachesTyped /\ RobotTyped /\ PortsTyped /\ NoneFullyReady

LEMMA NoCacheTyped == NoCache \in Caches
BY QueueAssumption DEF NoCache, Caches, Pointers

LEMMA RestInvInit == LineInit => RestInv
<1> SUFFICES ASSUME LineInit PROVE RestInv
    OBVIOUS
<1>1. CachesTyped
  <2>1. 0 \in Pointers
    BY QueueAssumption DEF Pointers
  <2> QED BY <2>1, NoCacheTyped DEF LineInit, QueueInit, CachesTyped
<1>2. RobotTyped
  BY DEF LineInit, RobotInit, RobotTyped, IdleWorker
<1>3. PortsTyped
  BY LineAssumption DEF LineInit, PortsTyped
<1>4. NoneFullyReady
  BY DEF LineInit, NoneFullyReady, NoCycle, Arms
<1> QED BY <1>1, <1>2, <1>3, <1>4 DEF RestInv

(* What the snapshot shows of a dequeue is what the task was made of.       *)
LEMMA CacheTyped ==
    ASSUME FlowInv, NEW a \in Arms, NEW p \in Pointers
    PROVE  CacheOf(p, TaskFor(a, p)) \in Caches
<1> DEFINE given == [arm |-> a, count |-> TaskFor(a, p).count,
                     pointer |-> TaskFor(a, p).pointer, data |-> TaskFor(a, p).data,
                     stage |-> "given"]
<1>1. given \in Task
  BY TaskTyped
<1>2. given.count = TaskFor(a, p).count /\ given.pointer = TaskFor(a, p).pointer
  OBVIOUS
<1>3. given.count \in Counts \cup {0} /\ given.pointer \in Pointers
  BY <1>1 DEF Task
<1>4. Noop(TaskFor(a, p)) \in BOOLEAN
  BY DEF Noop
<1> HIDE DEF given
<1> QED BY <1>2, <1>3, <1>4 DEF CacheOf, Caches

LEMMA DequeueKeepsCaches ==
    ASSUME FlowInv, CachesTyped, NEW f \in [Arms -> Pointers], NEW finished,
           DequeuePointers(f, finished)
    PROVE  CachesTyped'
<1>1. /\ lastPointers' = [a \in Arms |-> IF a \in Moved(f) THEN f[a] ELSE lastPointers[a]]
      /\ caches' = [a \in Arms |-> IF a \notin Moved(f) THEN caches[a]
                                   ELSE IF a \in finished THEN NoCache
                                   ELSE CacheOf(f[a], TaskFor(a, f[a]))]
  BY DEF DequeuePointers
<1>2. lastPointers' \in [Arms -> Pointers]
  BY <1>1 DEF CachesTyped
<1>3. \A a \in Arms : CacheOf(f[a], TaskFor(a, f[a])) \in Caches /\ caches[a] \in Caches
  BY CacheTyped DEF CachesTyped
<1>4. caches' \in [Arms -> Caches]
  BY <1>1, <1>3, NoCacheTyped
<1> QED BY <1>2, <1>4 DEF CachesTyped

LEMMA MarkKeepsCaches ==
    ASSUME CachesTyped, NEW task, MarkTaskAccepted(task) \/ MarkTaskDone(task)
    PROVE  CachesTyped'
<1>1. lastPointers' = lastPointers
  BY DEF MarkTaskAccepted, MarkTaskDone
<1>2. caches' = caches \/ caches' = [caches EXCEPT ![task.arm] = NoCache]
  BY DEF MarkTaskAccepted, MarkTaskDone
<1>3. caches' \in [Arms -> Caches]
  BY <1>2, NoCacheTyped DEF CachesTyped
<1> QED BY <1>1, <1>3 DEF CachesTyped

LEMMA CachesStep == FlowInv /\ CachesTyped /\ [LineNext]_allVars => CachesTyped'
<1> SUFFICES ASSUME FlowInv, CachesTyped, [LineNext]_allVars PROVE CachesTyped'
    OBVIOUS
<1> DEFINE quiet == UNCHANGED <<lastPointers, caches>>
<1>1. quiet => CachesTyped'
  BY DEF CachesTyped
<1>2. CASE \E part \in Parts : HandleStart(part[1], part[2])
  BY <1>1, <1>2 DEF HandleStart, EnqueuePair
<1>3. CASE \E n \in Counts : HandleEnd(n) \/ Handle2dResult(n)
  BY <1>1, <1>3 DEF HandleEnd, Handle2dResult, queueVars
<1>4. CASE Handle2dReady \/ \E frame \in Frames : Handle3dFrame(frame)
  BY <1>1, <1>4 DEF Handle2dReady, Handle3dFrame, queueVars
<1>5. CASE \E f \in Dequeues : HandleDequeue(f)
  <2>1. PICK f \in Dequeues : HandleDequeue(f)
    BY <1>5
  <2>2. PICK finished : DequeuePointers(f, finished)
    BY <2>1 DEF HandleDequeue, OnDequeueFrame
  <2>3. f \in [Arms -> Pointers]
    BY LineAssumption
  <2> QED BY <2>2, <2>3, DequeueKeepsCaches
<1>6. CASE Start \/ Stop
  BY <1>1, <1>6 DEF Start, Stop, queueVars
<1>7. CASE (\E a \in Arms : AcceptTimer(a) \/ FinishTimer(a) \/ StartNext(a)) \/ TaskSucceeds
           \/ StartNext(worker.arm)
  <2>1. PICK task : MarkTaskAccepted(task) \/ MarkTaskDone(task)
    BY <1>7 DEF AcceptTimer, FinishTimer, StartNext, TaskSucceeds
  <2> QED BY <2>1, MarkKeepsCaches
<1>8. CASE ExecuteSegment \/ CloseSprayIo \/ TaskFails
  BY <1>1, <1>8 DEF ExecuteSegment, CloseSprayIo, TaskFails, queueVars
<1>9. CASE UNCHANGED allVars
  BY <1>1, <1>9 DEF allVars, lineVars, queueVars
<1> QED BY <1>2, <1>3, <1>4, <1>5, <1>6, <1>7, <1>8, <1>9 DEF LineNext, WorkerStep

(* A segment is only carried out while the plan has one left.               *)
LEMMA RobotStep == GunInv /\ RobotTyped /\ [LineNext]_allVars => RobotTyped'
<1> SUFFICES ASSUME GunInv, RobotTyped, [LineNext]_allVars PROVE RobotTyped'
    OBVIOUS
<1> DEFINE quiet == UNCHANGED <<robot, link, motion, worker>>
<1>1. quiet => RobotTyped'
  BY DEF RobotTyped
<1>2. CASE \E part \in Parts : HandleStart(part[1], part[2])
  BY <1>1, <1>2 DEF HandleStart, robotVars
<1>3. CASE \E n \in Counts : HandleEnd(n) \/ Handle2dResult(n)
  BY <1>1, <1>3 DEF HandleEnd, Handle2dResult, robotVars
<1>4. CASE Handle2dReady \/ \E frame \in Frames : Handle3dFrame(frame)
  BY <1>1, <1>4 DEF Handle2dReady, Handle3dFrame, robotVars
<1>5. CASE \E f \in Dequeues : HandleDequeue(f)
  BY <1>1, <1>5 DEF HandleDequeue, OnDequeueFrame
<1>6. CASE Start
  <2>1. UNCHANGED <<robot, worker>>
    BY <1>6 DEF Start
  <2>2. /\ link' \in {"Connected", "Prepared", "Faulted", LinkDown}
        /\ motion' \in {"none", "closed", "open"}
    BY <1>6 DEF Start, Disconnected
  <2> QED BY <2>1, <2>2 DEF RobotTyped, LinkDown
<1>7. CASE Stop
  BY <1>7 DEF Stop, RobotTyped, LinkDown, Disconnected
<1>8. CASE \E a \in Arms : AcceptTimer(a) \/ FinishTimer(a)
  BY <1>1, <1>8 DEF AcceptTimer, FinishTimer
<1>9. CASE (\E a \in Arms : StartNext(a)) \/ StartNext(worker.arm)
  <2>1. PICK a : StartNext(a)
    BY <1>9
  <2>2. worker'.segment = 1 /\ UNCHANGED <<robot, link, motion>>
    BY <2>1 DEF StartNext
  <2> QED BY <2>2 DEF RobotTyped
<1>10. CASE ExecuteSegment
  <2>1. worker.segment \in 1 .. 4
    BY <1>10, PlanShape DEF ExecuteSegment, RobotTyped
  <2>2. worker'.segment \in {worker.segment, worker.segment + 1}
    <3>1. worker \in [arm : Arms \cup {0}, at : {"idle", "segment", "close", "failed", "next"},
                      segment : Nat, active : BOOLEAN]
      BY DEF GunInv, WorkerTyped
    <3> QED BY <1>10, <3>1 DEF ExecuteSegment
  <2>3. UNCHANGED <<robot, link, motion>>
    BY <1>10 DEF ExecuteSegment
  <2> QED BY <2>1, <2>2, <2>3 DEF RobotTyped
<1>11. CASE CloseSprayIo
  <2>1. worker'.segment = worker.segment
    <3>1. worker \in [arm : Arms \cup {0}, at : {"idle", "segment", "close", "failed", "next"},
                      segment : Nat, active : BOOLEAN]
      BY DEF GunInv, WorkerTyped
    <3> QED BY <1>11, <3>1 DEF CloseSprayIo
  <2>2. UNCHANGED <<robot, link, motion>>
    BY <1>11 DEF CloseSprayIo
  <2> QED BY <2>1, <2>2 DEF RobotTyped
<1>12. CASE TaskSucceeds \/ TaskFails
  <2>1. worker'.segment = 1
    <3>1. worker' = WorkerAfter(worker.arm)
      BY <1>12 DEF TaskSucceeds, TaskFails
    <3>2. \/ worker' = IdleWorker
          \/ worker' = [arm |-> worker.arm, at |-> "next", segment |-> 1, active |-> FALSE]
      BY <3>1 DEF WorkerAfter, IdleWorker
    <3> QED BY <3>2 DEF IdleWorker
  <2>2. robot' = robot /\ motion' = motion /\ link' \in {link, "Faulted"}
    BY <1>12 DEF TaskSucceeds, TaskFails
  <2> QED BY <2>1, <2>2 DEF RobotTyped
<1>13. CASE UNCHANGED allVars
  BY <1>1, <1>13 DEF allVars, lineVars, robotVars
<1> QED BY <1>2, <1>3, <1>4, <1>5, <1>6, <1>7, <1>8, <1>9, <1>10, <1>11, <1>12, <1>13
       DEF LineNext, WorkerStep

(* Every event from outside is counted once, and none comes after the last. *)
LEMMA PortsStep == PortsTyped /\ [LineNext]_allVars => PortsTyped'
<1> SUFFICES ASSUME PortsTyped, [LineNext]_allVars PROVE PortsTyped'
    OBVIOUS
<1>1. events < MaxEvents /\ events' = events + 1 => events' \in 0 .. MaxEvents
  BY LineAssumption DEF PortsTyped
<1>2. CASE \E part \in Parts : HandleStart(part[1], part[2])
  <2>1. PICK part \in Parts : HandleStart(part[1], part[2])
    BY <1>2
  <2>2. part[1] \in Counts
    BY LineAssumption
  <2> QED BY <1>1, <2>1, <2>2 DEF HandleStart, Comes, PortsTyped
<1>3. CASE \E n \in Counts : HandleEnd(n) \/ Handle2dResult(n)
  BY <1>1, <1>3 DEF HandleEnd, Handle2dResult, Comes, PortsTyped
<1>4. CASE Handle2dReady \/ \E frame \in Frames : Handle3dFrame(frame)
  BY <1>1, <1>4 DEF Handle2dReady, Handle3dFrame, Comes, PortsTyped
<1>5. CASE \E f \in Dequeues : HandleDequeue(f)
  BY <1>1, <1>5 DEF HandleDequeue, Comes, flowVars, PortsTyped
<1>6. CASE Start \/ Stop
  <2>1. events' \in 0 .. MaxEvents
    BY <1>1, <1>6 DEF Start, Stop
  <2>2. window' = window
    BY <1>6 DEF Start, Stop, flowVars
  <2>3. listening' \in {listening, listening \ {"camera"}, {"camera", "plc"}, {}}
    BY <1>6 DEF Start, Stop
  <2> QED BY <2>1, <2>2, <2>3 DEF PortsTyped
<1>7. CASE NoEvent
  BY <1>7 DEF NoEvent, flowVars, PortsTyped
<1>8. CASE UNCHANGED allVars
  BY <1>8 DEF allVars, flowVars, PortsTyped
<1> QED BY <1>2, <1>3, <1>4, <1>5, <1>6, <1>7, <1>8 DEF LineNext

LEMMA ReadyStep == FlowInv /\ NoneFullyReady /\ [LineNext]_allVars => NoneFullyReady'
<1> SUFFICES ASSUME FlowInv, NoneFullyReady, [LineNext]_allVars PROVE NoneFullyReady'
    OBVIOUS
<1>0. cycles \in [Counts -> Cycles] /\ NoCycle.ready # Arms
  BY DEF FlowInv, FlowTyped, NoCycle, Arms
<1>1. CASE \E part \in Parts : HandleStart(part[1], part[2])
  <2>1. PICK part \in Parts : HandleStart(part[1], part[2])
    BY <1>1
  <2>2. \A n \in Counts : cycles'[n].ready = cycles[n].ready \/ cycles'[n].ready = {}
    BY <1>0, <2>1 DEF HandleStart, NoCycle
  <2> QED BY <2>2 DEF NoneFullyReady, Arms
<1>2. CASE \E n \in Counts : HandleEnd(n) \/ Handle2dResult(n)
  <2>1. PICK n \in Counts, ok \in BOOLEAN :
          \/ cycles' = [cycles EXCEPT ![n] = EndSent([@ EXCEPT !.ended = TRUE], ok)]
          \/ cycles' = [cycles EXCEPT ![n] = EndSent(@, ok)]
    BY <1>2 DEF HandleEnd, Handle2dResult
  <2> DEFINE ended == [cycles[n] EXCEPT !.ended = TRUE]
  <2>2. ended \in Cycles /\ ended.ready = cycles[n].ready
    BY <1>0 DEF Cycles
  <2>3. \A c \in Cycles : EndSent(c, ok).ready = c.ready
    BY DEF EndSent, Cycles
  <2>4. PICK c \in Cycles : /\ c.ready = cycles[n].ready
                            /\ cycles' = [cycles EXCEPT ![n] = EndSent(c, ok)]
    <3>1. cycles' = [cycles EXCEPT ![n] = EndSent(ended, ok)]
          \/ cycles' = [cycles EXCEPT ![n] = EndSent(cycles[n], ok)]
      BY <2>1
    <3> HIDE DEF ended
    <3> QED BY <1>0, <2>2, <3>1
  <2>5. \A m \in Counts : cycles'[m].ready = cycles[m].ready
    BY <1>0, <2>3, <2>4
  <2> QED BY <2>5 DEF NoneFullyReady
<1>3. CASE Handle2dReady
  <2>1. PICK ok \in BOOLEAN : cycles' = [cycles EXCEPT ![window].requested = ok]
    BY <1>3 DEF Handle2dReady
  <2>2. \A m \in Counts : cycles'[m].ready = cycles[m].ready
    BY <1>0, <2>1 DEF Cycles
  <2> QED BY <2>2 DEF NoneFullyReady
<1>4. CASE \E frame \in Frames : Handle3dFrame(frame)
  <2>1. PICK frame \in Frames : cycles' = [n \in Counts |-> CycleAfter(frame, n)]
    BY <1>4 DEF Handle3dFrame
  <2>2. ASSUME NEW n \in Counts PROVE CycleAfter(frame, n).ready # Arms
    <3>1. CASE Ready(frame, n) = Arms
      BY <1>0, <3>1 DEF CycleAfter
    <3>2. CASE Ready(frame, n) # Arms
      <4>1. CycleAfter(frame, n) = [cycles[n] EXCEPT !.ready = Ready(frame, n)]
        BY <3>2 DEF CycleAfter
      <4>2. CycleAfter(frame, n).ready = Ready(frame, n)
        BY <1>0, <4>1 DEF Cycles
      <4> QED BY <3>2, <4>2
    <3> QED BY <3>1, <3>2
  <2> QED BY <2>1, <2>2 DEF NoneFullyReady
<1>5. CASE UNCHANGED cycles
  BY <1>5 DEF NoneFullyReady
<1> QED BY <1>1, <1>2, <1>3, <1>4, <1>5
       DEF LineNext, HandleDequeue, Start, Stop, NoEvent, flowVars, allVars

LEMMA RestInvStep == GunInv /\ FlowInv /\ RestInv /\ [LineNext]_allVars => RestInv'
BY CachesStep, RobotStep, PortsStep, ReadyStep DEF RestInv

(* The arms' queues hold places of tasks, as their invariant says.          *)
LEMMA PlacesTyped ==
    ASSUME LifeInv
    PROVE  /\ tasks \in Seq(Task)
           /\ pending \in [Arms -> Seq(DOMAIN tasks)]
           /\ running \in [Arms -> DOMAIN tasks \cup {0}]
<1>1. /\ tasks \in Seq(Task) /\ ArmsInv(tasks, pending, running)
  BY DEF LifeInv
<1>2. DOMAIN tasks = 1 .. Len(tasks)
  BY <1>1
<1>3. ASSUME NEW a \in Arms
      PROVE  pending[a] \in Seq(DOMAIN tasks) /\ running[a] \in DOMAIN tasks \cup {0}
  <2>1. ArmInv(a, tasks, pending[a], running[a])
    BY <1>1 DEF ArmsInv
  <2>2. /\ pending[a] \in Seq(Nat)
        /\ \A k \in 1 .. Len(pending[a]) : pending[a][k] \in 1 .. Len(tasks)
        /\ running[a] # 0 => running[a] \in 1 .. Len(tasks)
    BY <2>1 DEF ArmInv
  <2>3. pending[a] \in [1 .. Len(pending[a]) -> 1 .. Len(tasks)] /\ Len(pending[a]) \in Nat
    BY <2>2
  <2>4. pending[a] \in Seq(1 .. Len(tasks))
    BY <2>3
  <2> QED BY <1>2, <2>2, <2>4
<1>4. pending \in [Arms -> Seq(Nat)] /\ running \in [Arms -> Nat]
  BY <1>1 DEF ArmsInv
<1>5. pending \in [Arms -> Seq(DOMAIN tasks)]
  BY <1>3, <1>4
<1>6. running \in [Arms -> DOMAIN tasks \cup {0}]
  BY <1>3, <1>4
<1> QED BY <1>1, <1>5, <1>6

(* Every variable of the line controller stays in its range: both layers'   *)
(* records, the robot's tasks and the places of them, the cycles of the     *)
(* enqueue flow (LineQueue, LineRobot and SprayLine together).              *)
THEOREM LineTypeCorrect == LineSpec => []LineTypeOK
<1>1. LineInit => GunInv /\ FlowInv /\ LifeInv /\ RestInv
  BY GunInvInit, FlowInvInit, LifeInvInit, RestInvInit
<1>2. GunInv /\ FlowInv /\ LifeInv /\ RestInv /\ [LineNext]_allVars =>
        (GunInv /\ FlowInv /\ LifeInv /\ RestInv)'
  BY GunInvStep, FlowInvStep, LifeStep, RestInvStep
<1>3. GunInv /\ FlowInv /\ LifeInv /\ RestInv => LineTypeOK
  <2> SUFFICES ASSUME GunInv, FlowInv, LifeInv, RestInv PROVE LineTypeOK
      OBVIOUS
  <2>1. QueueTypeOK
    BY DEF FlowInv, FlowTyped, Cells, RestInv, CachesTyped, Caches, QueueTypeOK
  <2>2. worker \in [arm : Arms \cup {0}, at : {"idle", "segment", "close", "failed", "next"},
                    segment : 1 .. 5, active : BOOLEAN]
    BY DEF GunInv, WorkerTyped, RestInv, RobotTyped
  <2>3. cycles \in [Counts -> [open : BOOLEAN, pointer : Pointers, ended : BOOLEAN,
                               requested : BOOLEAN, endSent : BOOLEAN, ready : {{}, {1}, {2}}]]
    <3>1. cycles \in [Counts -> Cycles]
      BY DEF FlowInv, FlowTyped
    <3>2. ASSUME NEW n \in Counts
          PROVE  cycles[n].ready \in {{}, {1}, {2}}
      <4>1. cycles[n].ready \subseteq {1, 2} /\ cycles[n].ready # {1, 2}
        BY <3>1 DEF Cycles, RestInv, NoneFullyReady, Arms
      <4> QED BY <4>1
    <3> QED BY <3>1, <3>2 DEF Cycles
  <2>4. /\ tasks \in Seq([arm : Arms, count : Counts \cup {0}, pointer : Pointers,
                          data : Payloads \cup {"default"},
                          stage : {"given", "accepted", "finished", "failed"}])
        /\ pending \in [Arms -> Seq(DOMAIN tasks)]
        /\ running \in [Arms -> DOMAIN tasks \cup {0}]
    BY PlacesTyped DEF Task
  <2>5. gun \in [Arms -> {"on", "off"}] /\ answered \in [Arms -> BOOLEAN]
    BY DEF GunInv, WorkerTyped
  <2> QED BY <2>1, <2>2, <2>3, <2>4, <2>5 DEF RestInv, RobotTyped, PortsTyped, LineTypeOK
<1> QED BY <1>1, <1>2, <1>3, PTL DEF LineSpec
=============================================================================
