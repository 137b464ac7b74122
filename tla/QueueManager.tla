---------------------------- MODULE QueueManager ----------------------------
(***************************************************************************)
(* The double queue of the Python line controller: EnhancedQueueManager in *)
(* core/queue_manager.py, with the threads that call it from main.py.      *)
(*                                                                         *)
(* The manager has ONE lock.  A section that runs under it is one atomic   *)
(* step here; a call that takes it twice, or sends in between, is several  *)
(* steps of the thread that runs it, and any other thread may act between  *)
(* them.  The callers are the PLC enqueue connection, the PLC dequeue      *)
(* connection, the camera receiver and one receiver per robot arm.         *)
(*                                                                         *)
(* Queue items are Python OBJECTS: a dequeue cache keeps a reference to    *)
(* the item it was made from, even when a later enqueue with the same      *)
(* pointer puts another object in the queue.  An object is named by its    *)
(* enqueue_seq; items[a][s] is the object of arm a made by enqueue s.      *)
(*                                                                         *)
(* Left out, because nothing reads them but the display and the log: item  *)
(* status strings, timestamps, send counters, statistics, the history and  *)
(* arm_last_confirmed_count; and arm_prefetch_warmed, which                *)
(* _select_prefetch_item_locked writes but whose two branches return the   *)
(* same value.                                                             *)
(***************************************************************************)
EXTENDS Integers, FiniteSets

CONSTANTS
    Pointers,           \* pulse pointers the PLC uses (0 .. 65535 in the code)
    Counts,             \* part counts the PLC uses (0 .. 65535 in the code)
    Frames,             \* distinct contents of a camera payload for one arm
    Length,             \* length: capacity of the double queue
    MaxEnqueue,         \* bound: enqueues explored, i.e. objects per arm
    PrefetchOffset,     \* prefetch_offset
    Flow,               \* enqueue_flow_mode
    TimeoutMode,        \* timeout_mode
    SendDefaultOnEmpty, \* send_default_on_empty_request
    DropLate,           \* drop_late_camera_data
    ActiveArms          \* the arms in use: they get pointers, data and requests

ASSUME ConstantsAssumption ==
    /\ Pointers \subseteq Nat /\ IsFiniteSet(Pointers)
    /\ Counts \subseteq Nat
    /\ Length \in Nat \ {0}
    /\ MaxEnqueue \in Nat
    /\ PrefetchOffset \in Nat
    /\ Flow \in {"legacy_single_camera", "dual_camera_11_12"}
    /\ TimeoutMode \in {"cycle_timeout", "dequeue_timeout"}
    /\ SendDefaultOnEmpty \in BOOLEAN
    /\ DropLate \in BOOLEAN
    /\ ActiveArms \subseteq {1, 2}

Arms == {1, 2}

None == -1                       \* Python's None for pointers and counts

(* ArmQueueItem.data together with .source (pending, camera, default).     *)
NoData == [source |-> "pending", value |-> 0]
CameraData(f) == [source |-> "camera", value |-> f]
(* _default_payload_for_arm: "(1000,count)E"; count=None is written as 0.  *)
DefaultPayload(c) == [source |-> "default",
                      value |-> IF c = None THEN 0 ELSE c]

Data == {NoData} \cup {CameraData(f) : f \in Frames}
                 \cup {DefaultPayload(c) : c \in Counts \cup {None}}

Seqs == 1 .. MaxEnqueue          \* enqueue_seq of an object; 0 names no object

Item == [pointer : Pointers \cup {None}, count : Counts \cup {None},
         data : Data, dequeued : BOOLEAN]
UnusedItem == [pointer |-> None, count |-> None,
               data |-> NoData, dequeued |-> FALSE]

(* DequeueCache.  served is the payload the last data request took from    *)
(* it: data_sent is served # NoData.                                       *)
NoCache == [item |-> 0, trigger |-> None, confirmed |-> FALSE, served |-> NoData]
Cache == {NoCache} \cup [item : Seqs, trigger : Pointers,
                         confirmed : BOOLEAN, served : Data]
NewCache(s, p) == [item |-> s, trigger |-> p, confirmed |-> FALSE, served |-> NoData]

ArmStatus == {"UNKNOWN", "NO_DATA_AVAILABLE", "WAITING_FOR_REQUEST",
              "NO_DATA_TO_SEND", "DEFAULT_SENT_NO_CACHE", "DATA_SENT",
              "NO_ACTIVE_TASK", "TASK_COMPLETED", "CACHE_EVICTED"}

VARIABLES
    seq,                   \* _enqueue_seq_counter
    items,                 \* the ArmQueueItem objects of each arm
    slot,                  \* arm_data_queues: pointer -> enqueue_seq, 0 if absent
    arm_caches,            \* arm_caches
    arm_positions,         \* arm_positions
    last_dequeue_pointers, \* last_dequeue_pointers
    arm_statuses,          \* arm_statuses
    current_cycle_count,
    current_waiting_count,
    current_waiting_pointer,
    pc                     \* where each arm's receiver thread is

queueVars == <<seq, items, slot>>
cacheVars == <<arm_caches, arm_positions, last_dequeue_pointers, arm_statuses>>
cycleVars == <<current_cycle_count, current_waiting_count, current_waiting_pointer>>
vars == <<queueVars, cacheVars, cycleVars, pc>>

Init ==
    /\ seq = 0
    /\ items = [a \in Arms |-> [s \in Seqs |-> UnusedItem]]
    /\ slot = [a \in Arms |-> [p \in Pointers |-> 0]]
    /\ arm_caches = [a \in Arms |-> NoCache]
    /\ arm_positions = [a \in Arms |-> None]
    /\ last_dequeue_pointers = [a \in Arms |-> None]
    /\ arm_statuses = [a \in Arms |-> "UNKNOWN"]
    /\ current_cycle_count = None
    /\ current_waiting_count = None
    /\ current_waiting_pointer = None
    /\ pc = [a \in Arms |-> "idle"]

(* An object that neither the queue nor the arm's cache refers to is gone. *)
Referenced(row, a) ==
    [s \in Seqs |-> IF \/ arm_caches'[a].item = s
                       \/ \E p \in Pointers : slot'[a][p] = s
                    THEN row[s] ELSE UnusedItem]

-----------------------------------------------------------------------------
(* Enqueue.                                                                *)

QueuedPointers(a) == {p \in Pointers : slot[a][p] # 0}

(* _remove_oldest_pair_locked looks for the oldest item in arm 1's queue.  *)
Oldest(p) ==
    /\ p \in QueuedPointers(1)
    /\ \A q \in QueuedPointers(1) : slot[1][p] <= slot[1][q]

NewItem(c, p) == [pointer |-> p, count |-> c, data |-> NoData, dequeued |-> FALSE]

(* A plausible bug: the queue is taken to be full one part too late.       *)
OverflowLate(p) == /\ p \notin QueuedPointers(1)
                   /\ Cardinality(QueuedPointers(1)) > Length

(* An overflow needs a new pointer and a full arm 1 queue.                 *)
Overflow(p) == /\ p \notin QueuedPointers(1)
               /\ Cardinality(QueuedPointers(1)) >= Length

(* Pointers that _enqueue_pair_locked(_, p) evicts.                        *)
Evicted(p) == IF Overflow(p) THEN {q \in Pointers : Oldest(q)} ELSE {}

(* A plausible bug: the eviction looks at the pointer that triggered the   *)
(* cache, which a prefetch tells from the pointer of its item.             *)
CacheEvictedByTrigger(a, p) ==
    /\ arm_caches[a].item # 0
    /\ arm_caches[a].trigger \in Evicted(p)

(* A cache goes with the evicted pointer when its ITEM has that pointer.   *)
CacheEvicted(a, p) ==
    /\ arm_caches[a].item # 0
    /\ items[a][arm_caches[a].item].pointer \in Evicted(p)

(* A plausible bug: the overflow removes the part from arm 1's queue only. *)
EnqueuedRowUnpaired(a, p) ==
    [q \in Pointers |-> IF q = p THEN seq + 1
                        ELSE IF a = 1 /\ q \in Evicted(p) THEN 0 ELSE slot[a][q]]

(* Arm a's queue after the enqueue of p: p names the new object.           *)
EnqueuedRow(a, p) ==
    [q \in Pointers |-> IF q = p THEN seq + 1
                        ELSE IF q \in Evicted(p) THEN 0 ELSE slot[a][q]]

(* A plausible bug: the status does not tell that the cache is gone.       *)
EnqueuedStatusKept(a, p) == arm_statuses[a]

EnqueuedStatus(a, p) == IF CacheEvicted(a, p) THEN "CACHE_EVICTED"
                        ELSE arm_statuses[a]

(* _enqueue_pair_locked; base is the items' state the enqueue starts from. *)
EnqueuePair(c, p, base) ==
    /\ seq < MaxEnqueue
    /\ seq' = seq + 1
    /\ slot' = [a \in Arms |-> EnqueuedRow(a, p)]
    /\ arm_caches' = [a \in Arms |->
                        IF CacheEvicted(a, p) THEN NoCache ELSE arm_caches[a]]
    /\ items' = [a \in Arms |->
                   Referenced([base[a] EXCEPT ![seq + 1] = NewItem(c, p)], a)]
    /\ arm_statuses' = [a \in Arms |-> EnqueuedStatus(a, p)]
    /\ UNCHANGED <<arm_positions, last_dequeue_pointers>>

(* enqueue_item, the entry of the dual-camera flow.                        *)
EnqueueItem(c, p) ==
    /\ EnqueuePair(c, p, items)
    /\ UNCHANGED <<cycleVars, pc>>

(* dequeue pointer p names an item of arm a                                *)
Found(a, p) == p \in Pointers /\ slot[a][p] # 0

(* item.data := d if arm a's item queued at p has none.                    *)
FillAt(row, a, p, d) ==
    IF Found(a, p) /\ row[slot[a][p]].data = NoData
    THEN [row EXCEPT ![slot[a][p]].data = d]
    ELSE row

(* _fill_default_for_slot_locked: the default carries the item's count.    *)
FillSlot(row, a, p) == FillAt(row, a, p, DefaultPayload(row[slot[a][p]].count))

(* _fill_both_arms_default_locked, run by a 01 that finds a wait pending.  *)
WithCycleDefaults ==
    IF current_waiting_pointer = None THEN items
    ELSE [a \in Arms |-> FillAt(items[a], a, current_waiting_pointer,
                                DefaultPayload(current_waiting_count))]

(* handle_plc_command, command 01.                                         *)
PlcCommand01(c, p) ==
    /\ EnqueuePair(c, p, WithCycleDefaults)
    /\ current_waiting_pointer' = p
    /\ current_waiting_count' = c
    /\ current_cycle_count' = c
    /\ UNCHANGED pc

(* handle_plc_command, command 11: "current_cycle_count or sensor_count"   *)
(* takes the frame's count when the cycle count is None or 0.              *)
PlcCommand11(c, p) ==
    /\ current_waiting_pointer' = p
    /\ current_waiting_count' = IF current_cycle_count \in {None, 0}
                                THEN c ELSE current_cycle_count
    /\ UNCHANGED <<queueVars, cacheVars, current_cycle_count, pc>>

(* handle_plc_command, command 12.                                         *)
PlcCommand12 ==
    /\ current_waiting_pointer' = None
    /\ UNCHANGED <<queueVars, cacheVars, current_cycle_count,
                   current_waiting_count, pc>>

-----------------------------------------------------------------------------
(* Camera data.                                                            *)

(* ingest_camera_data: the arm comes from the payload, the pointer from    *)
(* the wait; "1Done"/"2Done" goes out under the lock.                      *)
IngestCameraData(a, f) ==
    /\ current_waiting_pointer # None
    /\ slot[a][current_waiting_pointer] # 0
    /\ items' = [items EXCEPT
                   ![a][slot[a][current_waiting_pointer]].data = CameraData(f)]
    /\ current_waiting_pointer' = None
    /\ UNCHANGED <<seq, slot, cacheVars, current_cycle_count,
                   current_waiting_count, pc>>

(* A plausible bug: late data is written over a part that is done.         *)
StorableLate(a, p) == slot[a][p] # 0

(* store_camera_data wants a queued part that is not dequeued.  Its guard  *)
(* on timed_out never holds, since no statement sets the flag.             *)
Storable(a, p) == /\ slot[a][p] # 0
                  /\ ~(items[a][slot[a][p]].dequeued /\ DropLate)

StoreCameraData(a, p, f) ==
    /\ Storable(a, p)
    /\ items' = [items EXCEPT ![a][slot[a][p]].data = CameraData(f)]
    /\ UNCHANGED <<seq, slot, cacheVars, cycleVars, pc>>

-----------------------------------------------------------------------------
(* Dequeue.                                                                *)

(* The items of arm a queued behind object s, in enqueue order.            *)
Behind(a, s) == {slot[a][p] : p \in QueuedPointers(a)} \cap {t \in Seqs : t > s}

(* The n-th smallest element of S, 0 when S has fewer.                     *)
Nth(S, n) == LET hit == {t \in S : Cardinality({u \in S : u <= t}) = n}
             IN  IF hit = {} THEN 0 ELSE CHOOSE t \in hit : TRUE

(* _select_prefetch_item_locked: 0 when nothing is far enough behind.      *)
Selected(a, s) == IF PrefetchOffset = 0 THEN s ELSE Nth(Behind(a, s), PrefetchOffset)

Chosen(a, p) == Selected(a, slot[a][p])

(* A plausible bug: a cache whose part is not finished is not overwritten. *)
CacheUntilConfirmed(a, p) ==
    IF ~Found(a, p) THEN arm_caches[a]
    ELSE IF Chosen(a, p) = 0 THEN NoCache
    ELSE IF arm_caches[a] # NoCache /\ ~arm_caches[a].confirmed THEN arm_caches[a]
    ELSE NewCache(Chosen(a, p), p)

(* _process_arm_dequeue_locked(a, p), by the parts of the state it sets.   *)
DequeuedCache(a, p) ==
    IF ~Found(a, p) THEN arm_caches[a]
    ELSE IF Chosen(a, p) = 0 THEN NoCache
    ELSE NewCache(Chosen(a, p), p)

(* A plausible bug: the position moves before the pointer is looked up.    *)
PositionBeforeLookup(a, p) == p

DequeuedPosition(a, p) == IF Found(a, p) THEN p ELSE arm_positions[a]

DequeuedStatus(a, p) ==
    IF Found(a, p) /\ Chosen(a, p) # 0 THEN "WAITING_FOR_REQUEST"
    ELSE "NO_DATA_AVAILABLE"

(* A plausible bug: the default is left to the arm's data request.         *)
NothingFilled(a, p) == items[a]

(* dequeue_timeout fills the selected item, by its pointer.                *)
DequeuedItems(a, p) ==
    IF Found(a, p) /\ Chosen(a, p) # 0 /\ TimeoutMode = "dequeue_timeout"
    THEN FillSlot(items[a], a, items[a][Chosen(a, p)].pointer)
    ELSE items[a]

(* last_dequeue_pointers.get(arm_id, 0)                                    *)
LastPointer(a) == IF last_dequeue_pointers[a] = None THEN 0
                  ELSE last_dequeue_pointers[a]

(* handle_dequeue_pointers: one 4-byte frame holds the pointers of both    *)
(* arms; only an arm whose pointer changed is processed, both in one       *)
(* locked section.                                                         *)
HandleDequeuePointers(ptr) ==
    LET changed == {a \in Arms : ptr[a] # LastPointer(a)} IN
    /\ changed # {}
    /\ last_dequeue_pointers' = [a \in Arms |-> IF a \in changed THEN ptr[a]
                                                ELSE last_dequeue_pointers[a]]
    /\ arm_caches' = [a \in Arms |-> IF a \in changed THEN DequeuedCache(a, ptr[a])
                                     ELSE arm_caches[a]]
    /\ arm_positions' = [a \in Arms |-> IF a \in changed THEN DequeuedPosition(a, ptr[a])
                                        ELSE arm_positions[a]]
    /\ arm_statuses' = [a \in Arms |-> IF a \in changed THEN DequeuedStatus(a, ptr[a])
                                       ELSE arm_statuses[a]]
    /\ UNCHANGED <<seq, slot, cycleVars, pc>>
    /\ items' = [a \in Arms |-> IF a \in changed THEN Referenced(DequeuedItems(a, ptr[a]), a)
                                ELSE items[a]]

-----------------------------------------------------------------------------
(* A robot arm's "data" request: handle_arm_data_request, run by the arm's *)
(* receiver thread.                                                        *)

(* No cache: answer the default "(1000,0)E", or nothing.                   *)
RequestWithoutCache(a) ==
    /\ pc[a] = "idle"
    /\ arm_caches[a] = NoCache
    /\ IF SendDefaultOnEmpty
       THEN /\ arm_statuses' = [arm_statuses EXCEPT ![a] = "DEFAULT_SENT_NO_CACHE"]
            /\ pc' = [pc EXCEPT ![a] = "send_N"]
       ELSE /\ arm_statuses' = [arm_statuses EXCEPT ![a] = "NO_DATA_TO_SEND"]
            /\ UNCHANGED pc
    /\ UNCHANGED <<queueVars, arm_caches, arm_positions, last_dequeue_pointers,
                   cycleVars>>

(* The items after the request's own default fill, by the POINTER of the   *)
(* cached object.                                                          *)
RequestItems(a) ==
    LET it == items[a][arm_caches[a].item] IN
    IF it.data = NoData /\ TimeoutMode = "dequeue_timeout"
    THEN FillSlot(items[a], a, it.pointer)
    ELSE items[a]

RequestFromCache(a) ==
    LET filled == RequestItems(a)
        data   == filled[arm_caches[a].item].data
    IN
    /\ pc[a] = "idle"
    /\ arm_caches[a] # NoCache
    /\ items' = [items EXCEPT ![a] = filled]
    /\ IF data = NoData
       THEN /\ arm_statuses' = [arm_statuses EXCEPT ![a] = "NO_DATA_TO_SEND"]
            /\ UNCHANGED <<arm_caches, pc>>
       ELSE /\ arm_statuses' = [arm_statuses EXCEPT ![a] = "DATA_SENT"]
            /\ arm_caches' = [arm_caches EXCEPT ![a].served = data]
            /\ pc' = [pc EXCEPT ![a] = "send_N"]
    /\ UNCHANGED <<seq, slot, arm_positions, last_dequeue_pointers,
                   cycleVars>>

ArmDataRequest(a) == RequestWithoutCache(a) \/ RequestFromCache(a)

(* XN goes to the PLC with the lock released, before the arm has the data. *)
SendN(a) ==
    /\ pc[a] = "send_N"
    /\ pc' = [pc EXCEPT ![a] = "refresh"]
    /\ UNCHANGED <<queueVars, cacheVars, cycleVars>>

(* The second locked section: the race guard dequeues again when the last  *)
(* pointer the PLC sent is not the one the cache was made for.             *)
RefreshAfterSend(a) ==
    LET last == last_dequeue_pointers[a]
        lags == last # None /\ last # arm_positions[a]
    IN
    /\ pc[a] = "refresh"
    /\ pc' = [pc EXCEPT ![a] = "idle"]
    /\ IF lags
       THEN /\ arm_caches' = [arm_caches EXCEPT ![a] = DequeuedCache(a, last)]
            /\ arm_positions' = [arm_positions EXCEPT ![a] = DequeuedPosition(a, last)]
            /\ arm_statuses' = [arm_statuses EXCEPT ![a] = DequeuedStatus(a, last)]
            /\ slot' = slot
            /\ items' = [items EXCEPT ![a] = Referenced(DequeuedItems(a, last), a)]
       ELSE UNCHANGED <<arm_caches, arm_positions, arm_statuses, slot, items>>
    /\ UNCHANGED <<seq, last_dequeue_pointers, cycleVars>>

-----------------------------------------------------------------------------
(* A robot arm's "1": handle_arm_completion.  The count it reports only    *)
(* words a warning.                                                        *)

CompleteWithoutCache(a) ==
    /\ pc[a] = "idle"
    /\ arm_caches[a] = NoCache
    /\ arm_statuses' = [arm_statuses EXCEPT ![a] = "NO_ACTIVE_TASK"]
    /\ UNCHANGED <<queueVars, arm_caches, arm_positions, last_dequeue_pointers,
                   cycleVars, pc>>

CompleteFromCache(a) ==
    /\ pc[a] = "idle"
    /\ arm_caches[a] # NoCache
    /\ arm_caches' = [arm_caches EXCEPT ![a].confirmed = TRUE]
    /\ items' = [items EXCEPT ![a][arm_caches[a].item].dequeued = TRUE]
    /\ arm_statuses' = [arm_statuses EXCEPT ![a] = "TASK_COMPLETED"]
    /\ pc' = [pc EXCEPT ![a] = "send_D"]
    /\ UNCHANGED <<seq, slot, arm_positions, last_dequeue_pointers,
                   cycleVars>>

ArmCompletion(a) == CompleteWithoutCache(a) \/ CompleteFromCache(a)

SendD(a) ==
    /\ pc[a] = "send_D"
    /\ pc' = [pc EXCEPT ![a] = "idle"]
    /\ UNCHANGED <<queueVars, cacheVars, cycleVars>>

-----------------------------------------------------------------------------
(* main.py wires either the legacy flow or the dual-camera flow.           *)

LegacyStep ==
    /\ Flow = "legacy_single_camera"
    /\ \/ \E c \in Counts, p \in Pointers : PlcCommand01(c, p)
       \/ \E c \in Counts, p \in Pointers : PlcCommand11(c, p)
       \/ PlcCommand12
       \/ \E a \in ActiveArms, f \in Frames : IngestCameraData(a, f)

DualStep ==
    /\ Flow = "dual_camera_11_12"
    /\ \/ \E c \in Counts, p \in Pointers : EnqueueItem(c, p)
       \/ \E a \in ActiveArms, p \in Pointers, f \in Frames : StoreCameraData(a, p, f)

DequeueStep ==
    \E ptr \in [Arms -> Pointers \cup {0}] :
        /\ \A a \in Arms \ ActiveArms : ptr[a] = 0
        /\ HandleDequeuePointers(ptr)

ArmStep(a) ==
    \/ ArmDataRequest(a) \/ SendN(a) \/ RefreshAfterSend(a)
    \/ ArmCompletion(a) \/ SendD(a)

Next == LegacyStep \/ DualStep \/ DequeueStep \/ (\E a \in ActiveArms : ArmStep(a))

Spec == Init /\ [][Next]_vars

(* The manager's own threads always finish a call they began, and a robot  *)
(* that gets no new task asks for data again.                              *)
Fairness == \A a \in ActiveArms :
    /\ WF_vars(SendN(a)) /\ WF_vars(RefreshAfterSend(a))
    /\ WF_vars(SendD(a))
    /\ SF_vars(ArmDataRequest(a))

FairSpec == Spec /\ Fairness

-----------------------------------------------------------------------------
(* Properties.                                                             *)

(* Every variable has its type.                                            *)
TypeOK ==
    /\ seq \in 0 .. MaxEnqueue
    /\ items \in [Arms -> [Seqs -> Item]]
    /\ slot \in [Arms -> [Pointers -> 0 .. MaxEnqueue]]
    /\ arm_caches \in [Arms -> Cache]
    /\ arm_positions \in [Arms -> Pointers \cup {None}]
    /\ last_dequeue_pointers \in [Arms -> Pointers \cup {0, None}]
    /\ arm_statuses \in [Arms -> ArmStatus]
    /\ current_cycle_count \in Counts \cup {None}
    /\ current_waiting_count \in Counts \cup {None}
    /\ current_waiting_pointer \in Pointers \cup {None}
    /\ pc \in [Arms -> {"idle", "send_N", "refresh", "send_D"}]

(* Both arms' queues always hold the same parts under the same pointers,   *)
(* through reuse of a pointer and through overflow.                        *)
PairedQueues ==
    /\ slot[1] = slot[2]
    /\ \A p \in QueuedPointers(1) :
          /\ items[1][slot[1][p]].pointer = p
          /\ items[2][slot[2][p]].pointer = p
          /\ items[1][slot[1][p]].count = items[2][slot[2][p]].count

(* An object is made by the enqueue it is named for, and not before it:    *)
(* the strengthening that makes PairedQueues and CachedPointerQueued       *)
(* inductive.                                                              *)
ObjectsInOrder ==
    \A a \in Arms :
        /\ \A p \in Pointers : slot[a][p] <= seq
        /\ \A s \in Seqs : s > seq => items[a][s] = UnusedItem

(* The queue never holds more than `length` parts.                         *)
CapacityRespected == Cardinality(QueuedPointers(1)) <= Length

(* A cache's item may have been replaced by a newer one with the same      *)
(* pointer, but never outlives its pointer in the queue: eviction takes    *)
(* the cache along.                                                        *)
CachedPointerQueued ==
    \A a \in Arms : LET it == items[a][arm_caches[a].item] IN
        arm_caches[a].item # 0 =>
            /\ Found(a, it.pointer)
            /\ arm_caches[a].item <= slot[a][it.pointer]

(* The display never shows a prepared, sent or finished task for an arm    *)
(* that has no cache.                                                      *)
TaskStatusHasCache ==
    \A a \in Arms :
        arm_statuses[a] \in {"WAITING_FOR_REQUEST", "DATA_SENT", "TASK_COMPLETED"}
            => arm_caches[a] # NoCache

(* One dequeue frame that sends both arms to the same queued pointer gives *)
(* them the data of the same part.                                         *)
SamePartStep ==
    \A p \in QueuedPointers(1) :
        (\A a \in Arms : LastPointer(a) # p /\ last_dequeue_pointers'[a] = p)
        => /\ arm_caches'[1].item = arm_caches'[2].item
           /\ arm_positions'[1] = p /\ arm_positions'[2] = p
SameFrameSamePart == [][SamePartStep]_vars

(* Once an arm has finished a part, the part's data never changes.         *)
CompletedFrozenStep ==
    \A a \in Arms, s \in Seqs :
        items[a][s].dequeued /\ items[a][s].data # NoData
        => items'[a][s] = UnusedItem \/ items'[a][s].data = items[a][s].data
CompletedDataFrozen == [][CompletedFrozenStep]_vars

(* An arm is never left without an answer.                                 *)
EveryRequestAnswered == \A a \in Arms : arm_statuses[a] # "NO_DATA_TO_SEND"

(* While a part is queued at the last dequeue pointer, the arm's cache     *)
(* comes to hold that very part, whatever was enqueued, evicted or         *)
(* requested in which order.  There are two ways out, and the code repairs *)
(* neither: the arm was already given this pointer, and after that the     *)
(* part was replaced by an enqueue (the cache keeps the old object), or    *)
(* evicted, with its cache, and enqueued again (there is no cache).        *)
HasPartOf(a, p) == arm_caches[a].item = slot[a][p]
Replaced(a, p) == arm_caches[a].item \in 1 .. slot[a][p] - 1 /\ arm_caches[a].trigger = p
EvictedSince(a, p) == arm_caches[a] = NoCache /\ arm_positions[a] = p

CaughtUp(a) ==
    \A p \in QueuedPointers(a) :
        last_dequeue_pointers[a] = p
            => HasPartOf(a, p) \/ Replaced(a, p) \/ EvictedSince(a, p)
CacheCatchesUp == \A a \in ActiveArms : []<>CaughtUp(a)
=============================================================================
