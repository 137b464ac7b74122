------------------------------ MODULE LineQueue ------------------------------
(* The part queues of the C++ line controller: core/QueueManager.cpp.  An   *)
(* arm's queue maps a pointer to the item enqueued last with it; seq is the *)
(* order of enqueueing, and only trimming looks at it.  An item's payload   *)
(* is its default text until a camera's is stored, so data tells the source *)
(* too.                                                                     *)
EXTENDS Integers, FiniteSets, Sequences

CONSTANTS
    Counts,         \* part numbers the PLC and the cameras use
    PointerSpace,   \* 2^16 in the code
    PrefetchOffset,
    MaxItems,       \* items kept per arm
    Payloads        \* what a camera may send for an arm

Arms == {1, 2}
Pointers == 0 .. PointerSpace - 1

ASSUME QueueAssumption ==
    /\ Counts \subseteq Nat
    /\ PointerSpace \in Nat \ {0}
    /\ PrefetchOffset \in Nat
    /\ MaxItems \in Nat \ {0}
    /\ "default" \notin Payloads

VARIABLES
    queue,          \* armQueues_
    nextSeq,        \* nextSeq_
    lastPointers,   \* lastDequeuePointers_
    caches          \* caches_: what the snapshot shows of the last dequeue

queueVars == <<queue, nextSeq, lastPointers, caches>>

NoItem == [count |-> 0, seq |-> 0, data |-> "none", status |-> "none"]
NoCache == [trigger |-> 0, selected |-> 0, count |-> 0, noop |-> FALSE]

Items == [count : Counts, seq : Nat, data : Payloads \cup {"default"},
          status : {"pending", "cached", "accepted", "done"}]

QueueInit ==
    /\ queue = [a \in Arms |-> [p \in Pointers |-> NoItem]]
    /\ nextSeq = 1
    /\ lastPointers = [a \in Arms |-> 0]
    /\ caches = [a \in Arms |-> NoCache]

Queued(q, p) == q[p].status # "none"

(* trimArmQueue: the oldest go until MaxItems are left.                     *)
Trimmed(q) ==
    LET newer(p) == {o \in Pointers : Queued(q, o) /\ q[o].seq > q[p].seq} IN
    [p \in Pointers |-> IF Queued(q, p) /\ Cardinality(newer(p)) < MaxItems
                        THEN q[p] ELSE NoItem]

NewItem(a, n) ==
    [count |-> n, seq |-> nextSeq + a - 1, data |-> "default", status |-> "pending"]

(* enqueuePair                                                              *)
EnqueuePair(n, p) ==
    /\ queue' = [a \in Arms |-> Trimmed([queue[a] EXCEPT ![p] = NewItem(a, n)])]
    /\ nextSeq' = nextSeq + 2
    /\ UNCHANGED <<lastPointers, caches>>

(* A plausible bug: the item found at the pointer is taken for the part's.  *)
StorableAnyCount(a, n, p) == Queued(queue[a], p)

(* storeCameraData: false unless the pointer still belongs to the part.     *)
Storable(a, n, p) == Queued(queue[a], p) /\ queue[a][p].count = n

(* The pointers whose arm a would dequeue: 0 means none.                    *)
Moved(f) == {a \in Arms : f[a] # 0 /\ f[a] # lastPointers[a]}

SelectedPointer(p) == (p + PrefetchOffset) % PointerSpace

(* The task of an arm whose pointer moved to p: of the prefetched item, or  *)
(* a default of part 0 at p itself.  No item is taken out.                  *)
TaskFor(a, p) ==
    LET s == SelectedPointer(p) IN
    IF Queued(queue[a], s)
    THEN [arm |-> a, count |-> queue[a][s].count, pointer |-> s, data |-> queue[a][s].data]
    ELSE [arm |-> a, count |-> 0, pointer |-> p, data |-> "default"]

Noop(task) == task.data = "default"

CacheOf(p, task) ==
    [trigger |-> p, selected |-> task.pointer, count |-> task.count, noop |-> Noop(task)]

(* An arm's queue with the item at p, if there is one, marked.              *)
Marked(q, p, s) == IF Queued(q, p) THEN [q EXCEPT ![p].status = s] ELSE q

(* markTaskAccepted                                                         *)
MarkTaskAccepted(task) ==
    /\ queue' = [queue EXCEPT ![task.arm] = Marked(@, task.pointer, "accepted")]
    /\ UNCHANGED <<nextSeq, lastPointers, caches>>

(* markTaskDone                                                             *)
MarkTaskDone(task) ==
    /\ queue' = [queue EXCEPT ![task.arm] = Marked(@, task.pointer, "done")]
    /\ caches' = [caches EXCEPT ![task.arm] = NoCache]
    /\ UNCHANGED <<nextSeq, lastPointers>>

(* handleDequeuePointers with frame f, and of the arms in finished also the *)
(* markTaskAccepted and markTaskDone of the task it makes.                  *)
DequeuePointers(f, finished) ==
    LET task(a) == TaskFor(a, f[a]) IN
    /\ lastPointers' = [a \in Arms |-> IF a \in Moved(f) THEN f[a] ELSE lastPointers[a]]
    /\ caches' = [a \in Arms |-> IF a \notin Moved(f) THEN caches[a]
                                 ELSE IF a \in finished THEN NoCache
                                 ELSE CacheOf(f[a], task(a))]
    /\ queue' = [a \in Arms |->
                   IF a \notin Moved(f) THEN queue[a]
                   ELSE Marked(queue[a], task(a).pointer,
                               IF a \in finished THEN "done" ELSE "cached")]
    /\ UNCHANGED nextSeq

QueueTypeOK ==
    /\ queue \in [Arms -> [Pointers -> Items \cup {NoItem}]]
    /\ nextSeq \in Nat
    /\ lastPointers \in [Arms -> Pointers]
    /\ caches \in [Arms -> [trigger : Pointers, selected : Pointers,
                            count : Counts \cup {0}, noop : BOOLEAN]]
=============================================================================
