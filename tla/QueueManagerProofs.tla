------------------------- MODULE QueueManagerProofs -------------------------
(***************************************************************************)
(* What holds of the double queue (QueueManager) for every set of pointers *)
(* and counts, every length, prefetch offset, flow and timeout mode.       *)
(*                                                                         *)
(* The argument has three layers.  TypeOK is inductive by itself.  On top  *)
(* of it, QueueInv relates the two queues to each other and to the objects *)
(* they name, and each arm's cache to its queue.  These parts are          *)
(* inductive only together: an eviction looks the oldest part up in arm    *)
(* 1's queue and drops it, and the cache made from it, for both arms.  The *)
(* step properties and the bound on the queue follow from QueueInv.        *)
(***************************************************************************)
EXTENDS QueueManager, FiniteSetTheorems, WellFoundedInduction, TLAPS

-----------------------------------------------------------------------------
(* Types.                                                                  *)

(* The default payload of a count, or of no count, is item data.           *)
LEMMA DefaultPayloadType ==
    ASSUME NEW c \in Counts \cup {None}
    PROVE  DefaultPayload(c) \in Data
BY DEF Data

(* A camera payload is item data.                                          *)
LEMMA CameraDataType ==
    ASSUME NEW f \in Frames
    PROVE  CameraData(f) \in Data
BY DEF Data

(* The value of an object that does not exist is of an item's type.        *)
LEMMA UnusedItemType == UnusedItem \in Item
BY DEF UnusedItem, Item, Data

(* An enqueue makes an item.                                               *)
LEMMA NewItemType ==
    ASSUME NEW c \in Counts, NEW p \in Pointers
    PROVE  NewItem(c, p) \in Item
BY DEF NewItem, Item, Data

(* Collecting the objects nothing refers to leaves a row of items.         *)
LEMMA ReferencedType ==
    ASSUME NEW row \in [Seqs -> Item], NEW a \in Arms
    PROVE  Referenced(row, a) \in [Seqs -> Item]
BY UnusedItemType DEF Referenced

(* A row stays a row when one of its items gets data.                      *)
LEMMA DataUpdateType ==
    ASSUME NEW row \in [Seqs -> Item], NEW s \in Seqs, NEW d \in Data
    PROVE  [row EXCEPT ![s].data = d] \in [Seqs -> Item]
BY DEF Item

(* A row stays a row when a completion marks one of its items.             *)
LEMMA DequeuedUpdateType ==
    ASSUME NEW row \in [Seqs -> Item], NEW s \in Seqs
    PROVE  [row EXCEPT ![s].dequeued = TRUE] \in [Seqs -> Item]
BY DEF Item

(* A row stays a row when the item at a pointer is filled.                 *)
LEMMA FillAtType ==
    ASSUME TypeOK, NEW row \in [Seqs -> Item], NEW a \in Arms, NEW p,
           NEW d \in Data
    PROVE  FillAt(row, a, p, d) \in [Seqs -> Item]
<1>1. CASE Found(a, p) /\ row[slot[a][p]].data = NoData
  <2>1. slot[a][p] \in Seqs
    BY <1>1, ConstantsAssumption DEF TypeOK, Found, Seqs
  <2> QED
    BY <2>1, <1>1, DataUpdateType DEF FillAt
<1>2. CASE ~(Found(a, p) /\ row[slot[a][p]].data = NoData)
  BY <1>2 DEF FillAt
<1> QED
  BY <1>1, <1>2

(* A row stays a row when the item at a pointer gets its own default.      *)
LEMMA FillSlotType ==
    ASSUME TypeOK, NEW row \in [Seqs -> Item], NEW a \in Arms, NEW p
    PROVE  FillSlot(row, a, p) \in [Seqs -> Item]
<1>1. CASE Found(a, p)
  <2>1. slot[a][p] \in Seqs
    BY <1>1, ConstantsAssumption DEF TypeOK, Found, Seqs
  <2>2. row[slot[a][p]].count \in Counts \cup {None}
    BY <2>1 DEF Item
  <2> QED
    BY <2>2, DefaultPayloadType, FillAtType DEF FillSlot
<1>2. CASE ~Found(a, p)
  BY <1>2 DEF FillSlot, FillAt
<1> QED
  BY <1>1, <1>2

(* The rows stay rows under the defaults of a 01.                          *)
LEMMA WithCycleDefaultsType ==
    ASSUME TypeOK
    PROVE  WithCycleDefaults \in [Arms -> [Seqs -> Item]]
<1>1. DefaultPayload(current_waiting_count) \in Data
  BY DefaultPayloadType DEF TypeOK
<1>2. ASSUME NEW a \in Arms
      PROVE  FillAt(items[a], a, current_waiting_pointer,
                    DefaultPayload(current_waiting_count)) \in [Seqs -> Item]
  BY <1>1, FillAtType DEF TypeOK
<1> QED
  BY <1>2 DEF WithCycleDefaults, TypeOK

(* The n-th element of a set is in the set, or 0.                          *)
LEMMA NthMember ==
    ASSUME NEW S, NEW n
    PROVE  Nth(S, n) \in S \cup {0}
<1> DEFINE hit == {t \in S : Cardinality({u \in S : u <= t}) = n}
<1>1. Nth(S, n) = IF hit = {} THEN 0 ELSE CHOOSE t \in hit : TRUE
  BY DEF Nth
<1> HIDE DEF hit
<1>2. hit # {} => Nth(S, n) \in hit
  BY <1>1
<1>3. hit \subseteq S
  BY DEF hit
<1> QED
  BY <1>1, <1>2, <1>3

(* What a dequeue selects is nothing, or an object queued at some pointer. *)
LEMMA SelectedQueued ==
    ASSUME TypeOK, NEW a \in Arms, NEW p, Found(a, p)
    PROVE  \/ Chosen(a, p) = 0
           \/ \E q \in QueuedPointers(a) : Chosen(a, p) = slot[a][q]
<1>1. CASE PrefetchOffset = 0
  BY <1>1 DEF Chosen, Selected, Found, QueuedPointers
<1>2. CASE PrefetchOffset # 0
  <2> DEFINE S == Behind(a, slot[a][p])
  <2>1. Chosen(a, p) = Nth(S, PrefetchOffset)
    BY <1>2 DEF Chosen, Selected
  <2>2. Nth(S, PrefetchOffset) \in S \cup {0}
    BY NthMember
  <2> QED
    BY <2>1, <2>2 DEF Behind
<1> QED
  BY <1>1, <1>2

(* What a dequeue selects is an object or nothing.                         *)
LEMMA ChosenType ==
    ASSUME TypeOK, NEW a \in Arms, NEW p, Found(a, p)
    PROVE  Chosen(a, p) \in Seqs \cup {0}
BY SelectedQueued, ConstantsAssumption DEF TypeOK, QueuedPointers, Seqs

(* The parts of a dequeue have the types of the variables they go to.      *)
LEMMA DequeuedType ==
    ASSUME TypeOK, NEW a \in Arms, NEW p
    PROVE  /\ DequeuedCache(a, p) \in Cache
           /\ DequeuedPosition(a, p) \in Pointers \cup {None}
           /\ DequeuedStatus(a, p) \in ArmStatus
           /\ DequeuedItems(a, p) \in [Seqs -> Item]
<1>1. NoCache \in Cache
  BY DEF NoCache, Cache, Data
<1>2. DequeuedCache(a, p) \in Cache
  <2>1. CASE Found(a, p) /\ Chosen(a, p) # 0
    <3>1. NewCache(Chosen(a, p), p) \in Cache
      BY <2>1, ChosenType DEF NewCache, Cache, Data, Found
    <3> QED
      BY <2>1, <3>1 DEF DequeuedCache
  <2>2. CASE ~(Found(a, p) /\ Chosen(a, p) # 0)
    BY <1>1, <2>2 DEF DequeuedCache, TypeOK
  <2> QED
    BY <2>1, <2>2
<1>3. DequeuedPosition(a, p) \in Pointers \cup {None}
  BY DEF DequeuedPosition, Found, TypeOK
<1>4. DequeuedStatus(a, p) \in ArmStatus
  BY DEF DequeuedStatus, ArmStatus
<1>5. DequeuedItems(a, p) \in [Seqs -> Item]
  <2>1. items[a] \in [Seqs -> Item]
    BY DEF TypeOK
  <2> QED
    BY <2>1, FillSlotType DEF DequeuedItems
<1> QED
  BY <1>2, <1>3, <1>4, <1>5

(* An enqueue leaves the type of everything it changes.                    *)
LEMMA EnqueuePairType ==
    ASSUME TypeOK, NEW c \in Counts, NEW p \in Pointers,
           NEW base \in [Arms -> [Seqs -> Item]], EnqueuePair(c, p, base)
    PROVE  /\ seq' \in 0 .. MaxEnqueue
           /\ slot' \in [Arms -> [Pointers -> 0 .. MaxEnqueue]]
           /\ arm_caches' \in [Arms -> Cache]
           /\ items' \in [Arms -> [Seqs -> Item]]
           /\ arm_statuses' \in [Arms -> ArmStatus]
           /\ UNCHANGED <<arm_positions, last_dequeue_pointers>>
<1>1. seq' \in 0 .. MaxEnqueue /\ seq + 1 \in Seqs
  BY ConstantsAssumption DEF EnqueuePair, TypeOK, Seqs
<1>2. slot' \in [Arms -> [Pointers -> 0 .. MaxEnqueue]]
  BY <1>1, ConstantsAssumption DEF EnqueuePair, EnqueuedRow, TypeOK
<1>3. arm_caches' \in [Arms -> Cache]
  <2>1. NoCache \in Cache
    BY DEF NoCache, Cache, Data
  <2> QED
    BY <2>1 DEF EnqueuePair, TypeOK
<1>4. items' \in [Arms -> [Seqs -> Item]]
  <2>1. ASSUME NEW a \in Arms
        PROVE  [base[a] EXCEPT ![seq + 1] = NewItem(c, p)] \in [Seqs -> Item]
    BY <1>1, NewItemType
  <2>2. ASSUME NEW a \in Arms
        PROVE  Referenced([base[a] EXCEPT ![seq + 1] = NewItem(c, p)], a)
                 \in [Seqs -> Item]
    BY <2>1, ReferencedType
  <2> QED
    BY <2>2 DEF EnqueuePair
<1>5. arm_statuses' \in [Arms -> ArmStatus]
  BY DEF EnqueuePair, EnqueuedStatus, TypeOK, ArmStatus
<1> QED
  BY <1>1, <1>2, <1>3, <1>4, <1>5 DEF EnqueuePair

(* A frame of dequeue pointers preserves the types, whoever delivers it.   *)
LEMMA DequeuePointersType ==
    ASSUME TypeOK, NEW ptr \in [Arms -> Pointers \cup {0}], HandleDequeuePointers(ptr)
    PROVE  TypeOK'
<1> USE DEF TypeOK
<1>1. ASSUME NEW a \in Arms
      PROVE  Referenced(DequeuedItems(a, ptr[a]), a) \in [Seqs -> Item]
  BY DequeuedType, ReferencedType
<1>2. items' \in [Arms -> [Seqs -> Item]]
  BY <1>1 DEF HandleDequeuePointers
<1>3. /\ last_dequeue_pointers' \in [Arms -> Pointers \cup {0, None}]
      /\ arm_caches' \in [Arms -> Cache]
      /\ arm_positions' \in [Arms -> Pointers \cup {None}]
      /\ arm_statuses' \in [Arms -> ArmStatus]
  BY DequeuedType DEF HandleDequeuePointers
<1> QED
  BY <1>2, <1>3 DEF HandleDequeuePointers, cycleVars

(* Each action preserves the types; the proof of the invariant and the     *)
(* proofs after it take the step apart along the same actions.             *)
LEMMA TypeStep == TypeOK /\ [Next]_vars => TypeOK'
<1> SUFFICES ASSUME TypeOK, [Next]_vars
             PROVE  TypeOK'
  OBVIOUS
<1> USE DEF TypeOK
<1>1. CASE UNCHANGED vars
  BY <1>1 DEF vars, queueVars, cacheVars, cycleVars
<1>2. ASSUME NEW c \in Counts, NEW p \in Pointers, PlcCommand01(c, p)
      PROVE  TypeOK'
  BY <1>2, WithCycleDefaultsType, EnqueuePairType DEF PlcCommand01
<1>3. ASSUME NEW c \in Counts, NEW p \in Pointers, PlcCommand11(c, p)
      PROVE  TypeOK'
  BY <1>3 DEF PlcCommand11, queueVars, cacheVars
<1>4. CASE PlcCommand12
  BY <1>4 DEF PlcCommand12, queueVars, cacheVars
<1>5. ASSUME NEW a \in Arms, NEW f \in Frames, IngestCameraData(a, f)
      PROVE  TypeOK'
  <2>1. slot[a][current_waiting_pointer] \in Seqs
    BY <1>5, ConstantsAssumption DEF IngestCameraData, Seqs
  <2>2. [items[a] EXCEPT ![slot[a][current_waiting_pointer]].data = CameraData(f)]
          \in [Seqs -> Item]
    BY <2>1, CameraDataType, DataUpdateType
  <2>3. items' \in [Arms -> [Seqs -> Item]]
    BY <1>5, <2>2 DEF IngestCameraData
  <2> QED
    BY <1>5, <2>3 DEF IngestCameraData, cacheVars
<1>6. ASSUME NEW c \in Counts, NEW p \in Pointers, EnqueueItem(c, p)
      PROVE  TypeOK'
  BY <1>6, EnqueuePairType DEF EnqueueItem, cycleVars
<1>7. ASSUME NEW a \in Arms, NEW p \in Pointers, NEW f \in Frames,
             StoreCameraData(a, p, f)
      PROVE  TypeOK'
  <2>1. slot[a][p] \in Seqs
    BY <1>7, ConstantsAssumption DEF StoreCameraData, Storable, Seqs
  <2>2. [items[a] EXCEPT ![slot[a][p]].data = CameraData(f)] \in [Seqs -> Item]
    BY <2>1, CameraDataType, DataUpdateType
  <2>3. items' \in [Arms -> [Seqs -> Item]]
    BY <1>7, <2>2 DEF StoreCameraData, Storable
  <2> QED
    BY <1>7, <2>3 DEF StoreCameraData, Storable, cacheVars, cycleVars
<1>8. ASSUME NEW ptr \in [Arms -> Pointers \cup {0}], HandleDequeuePointers(ptr)
      PROVE  TypeOK'
  BY <1>8, DequeuePointersType
<1>9. ASSUME NEW a \in Arms, ArmStep(a)
      PROVE  TypeOK'
  <2>1. CASE RequestWithoutCache(a)
    BY <2>1 DEF RequestWithoutCache, ArmStatus, queueVars, cycleVars
  <2>2. CASE RequestFromCache(a)
    <3>1. RequestItems(a) \in [Seqs -> Item]
      BY FillSlotType DEF RequestItems
    <3>2. items' \in [Arms -> [Seqs -> Item]]
      BY <2>2, <3>1 DEF RequestFromCache
    <3>3. arm_caches[a] \in [item : Seqs, trigger : Pointers,
                              confirmed : BOOLEAN, served : Data]
      BY <2>2 DEF RequestFromCache, Cache
    <3>4. ASSUME NEW d \in Data
          PROVE  [arm_caches[a] EXCEPT !.served = d] \in Cache
      BY <3>3 DEF Cache
    <3>5. RequestItems(a)[arm_caches[a].item].data \in Data
      BY <3>1, <3>3 DEF Item
    <3>6. arm_caches' \in [Arms -> Cache]
      BY <2>2, <3>4, <3>5 DEF RequestFromCache
    <3> QED
      BY <2>2, <3>2, <3>6 DEF RequestFromCache, ArmStatus, cycleVars
  <2>3. CASE SendN(a)
    BY <2>3 DEF SendN, queueVars, cacheVars, cycleVars
  <2>4. CASE RefreshAfterSend(a)
    <3>1. Referenced(DequeuedItems(a, last_dequeue_pointers[a]), a) \in [Seqs -> Item]
      BY DequeuedType, ReferencedType
    <3>2. items' \in [Arms -> [Seqs -> Item]]
      BY <2>4, <3>1 DEF RefreshAfterSend
    <3> DEFINE last == last_dequeue_pointers[a]
    <3>0. /\ DequeuedCache(a, last) \in Cache
          /\ DequeuedPosition(a, last) \in Pointers \cup {None}
          /\ DequeuedStatus(a, last) \in ArmStatus
      BY DequeuedType
    <3>3. arm_caches' \in [Arms -> Cache]
      BY <2>4, <3>0 DEF RefreshAfterSend
    <3>4. arm_positions' \in [Arms -> Pointers \cup {None}]
      BY <2>4, <3>0 DEF RefreshAfterSend
    <3>5. arm_statuses' \in [Arms -> ArmStatus]
      BY <2>4, <3>0 DEF RefreshAfterSend
    <3> QED
      BY <2>4, <3>2, <3>3, <3>4, <3>5 DEF RefreshAfterSend, cycleVars
  <2>5. CASE CompleteWithoutCache(a)
    BY <2>5 DEF CompleteWithoutCache, ArmStatus, queueVars, cycleVars
  <2>6. CASE CompleteFromCache(a)
    <3>1. arm_caches[a] \in [item : Seqs, trigger : Pointers,
                              confirmed : BOOLEAN, served : Data]
      BY <2>6 DEF CompleteFromCache, Cache
    <3>2. [arm_caches[a] EXCEPT !.confirmed = TRUE] \in Cache
      BY <3>1 DEF Cache
    <3>3. arm_caches' \in [Arms -> Cache]
      BY <2>6, <3>2 DEF CompleteFromCache
    <3>4. [items[a] EXCEPT ![arm_caches[a].item].dequeued = TRUE] \in [Seqs -> Item]
      BY <3>1, DequeuedUpdateType
    <3>5. items' \in [Arms -> [Seqs -> Item]]
      BY <2>6, <3>4 DEF CompleteFromCache
    <3> QED
      BY <2>6, <3>3, <3>5 DEF CompleteFromCache, ArmStatus, cycleVars
  <2>7. CASE SendD(a)
    BY <2>7 DEF SendD, queueVars, cacheVars, cycleVars
  <2> QED
    BY <1>9, <2>1, <2>2, <2>3, <2>4, <2>5, <2>6, <2>7
       DEF ArmStep, ArmDataRequest, ArmCompletion
<1> QED
  BY <1>1, <1>2, <1>3, <1>4, <1>5, <1>6, <1>7, <1>8, <1>9, ConstantsAssumption
     DEF Next, LegacyStep, DualStep, DequeueStep, Arms

(* The manager starts empty.                                               *)
LEMMA InitType == Init => TypeOK
<1>1. NoCache \in Cache
  BY DEF Cache
<1> QED
  BY <1>1, UnusedItemType, ConstantsAssumption DEF Init, TypeOK, ArmStatus

(* Every variable has its type, whatever the constants are.                *)
THEOREM TypeCorrect == Spec => []TypeOK
BY InitType, TypeStep, PTL DEF Spec

-----------------------------------------------------------------------------
(* The queues and the caches.                                              *)

QueueInv == TypeOK /\ ObjectsInOrder /\ PairedQueues /\ CachedPointerQueued

(* What a default fill leaves of a row: the parts it describes, the data   *)
(* that was there, and the objects that are not made yet.                  *)
SameParts(new, row) ==
    \A s \in Seqs : /\ new[s].pointer = row[s].pointer
                    /\ new[s].count = row[s].count
                    /\ new[s].dequeued = row[s].dequeued
                    /\ row[s].data # NoData => new[s].data = row[s].data
                    /\ s > seq => new[s] = row[s]

(* Giving data to an item that has none keeps the rest of its row.         *)
LEMMA DataUpdateParts ==
    ASSUME TypeOK, NEW row \in [Seqs -> Item], NEW s \in Seqs, NEW d,
           s <= seq, row[s].data = NoData
    PROVE  SameParts([row EXCEPT ![s].data = d], row)
<1> DEFINE new == [row EXCEPT ![s].data = d]
<1>1. row[s] \in Item /\ seq \in Nat /\ Seqs \subseteq Nat
  BY ConstantsAssumption DEF TypeOK, Seqs
<1>2. new[s] = [row[s] EXCEPT !.data = d]
  OBVIOUS
<1>3. /\ new[s].pointer = row[s].pointer
      /\ new[s].count = row[s].count
      /\ new[s].dequeued = row[s].dequeued
  BY <1>1, <1>2 DEF Item
<1>4. \A t \in Seqs \ {s} : new[t] = row[t]
  OBVIOUS
<1>5. ~(s > seq)
  BY <1>1
<1> QED
  BY <1>3, <1>4, <1>5 DEF SameParts

(* A default fill by pointer keeps the parts of the row.                   *)
LEMMA FillAtParts ==
    ASSUME QueueInv, NEW row \in [Seqs -> Item], NEW a \in Arms, NEW p, NEW d
    PROVE  SameParts(FillAt(row, a, p, d), row)
<1>1. CASE Found(a, p) /\ row[slot[a][p]].data = NoData
  <2>1. slot[a][p] \in Seqs /\ slot[a][p] <= seq
    BY <1>1, ConstantsAssumption DEF QueueInv, TypeOK, ObjectsInOrder, Found, Seqs
  <2> QED
    BY <2>1, <1>1, DataUpdateParts DEF FillAt, QueueInv
<1>2. CASE ~(Found(a, p) /\ row[slot[a][p]].data = NoData)
  BY <1>2 DEF FillAt, SameParts
<1> QED
  BY <1>1, <1>2

(* The three fills (a dequeue's, a request's, a 01's) keep the parts.      *)
LEMMA FillsKeepParts ==
    ASSUME QueueInv, NEW a \in Arms
    PROVE  /\ \A p : SameParts(DequeuedItems(a, p), items[a])
           /\ SameParts(RequestItems(a), items[a])
           /\ SameParts(WithCycleDefaults[a], items[a])
<1>1. items[a] \in [Seqs -> Item] /\ SameParts(items[a], items[a])
  BY DEF QueueInv, TypeOK, SameParts
<1>2. \A p : SameParts(FillSlot(items[a], a, p), items[a])
  BY <1>1, FillAtParts DEF FillSlot
<1>3. \A p : SameParts(DequeuedItems(a, p), items[a])
  BY <1>1, <1>2 DEF DequeuedItems
<1>4. SameParts(RequestItems(a), items[a])
  BY <1>1, <1>2 DEF RequestItems
<1>5. SameParts(WithCycleDefaults[a], items[a])
  BY <1>1, FillAtParts DEF WithCycleDefaults
<1> QED
  BY <1>3, <1>4, <1>5

(* A step that enqueues nothing preserves the invariant if the objects it  *)
(* leaves referenced keep their part, and a new cache takes a queued one.  *)
LEMMA QueueUnchanged ==
    ASSUME QueueInv, TypeOK', seq' = seq, slot' = slot,
           \A a \in Arms, s \in Seqs :
               /\ s > seq => items'[a][s] = UnusedItem
               /\ \/ \E p \in Pointers : slot[a][p] = s
                  \/ arm_caches'[a].item = s
                  => /\ items'[a][s].pointer = items[a][s].pointer
                     /\ items'[a][s].count = items[a][s].count,
           \A a \in Arms :
               \/ arm_caches'[a].item \in {0, arm_caches[a].item}
               \/ \E q \in QueuedPointers(a) : arm_caches'[a].item = slot[a][q]
    PROVE  QueueInv'
<1> USE DEF QueueInv
<1>1. ObjectsInOrder'
  BY DEF ObjectsInOrder
<1>2. \A a \in Arms : \A p \in QueuedPointers(a) : slot[a][p] \in Seqs
  BY ConstantsAssumption DEF TypeOK, QueuedPointers, Seqs
<1>3. PairedQueues'
  <2>1. \A p \in QueuedPointers(1) :
           /\ slot[1][p] \in Seqs /\ slot[2][p] = slot[1][p]
           /\ items[1][slot[1][p]].pointer = p
           /\ items[2][slot[1][p]].pointer = p
           /\ items[1][slot[1][p]].count = items[2][slot[1][p]].count
    BY <1>2 DEF PairedQueues, Arms
  <2>2. \A a \in Arms : \A p \in QueuedPointers(1) :
           /\ items'[a][slot[1][p]].pointer = items[a][slot[1][p]].pointer
           /\ items'[a][slot[1][p]].count = items[a][slot[1][p]].count
    BY <2>1 DEF QueuedPointers, Arms
  <2>3. QueuedPointers(1)' = QueuedPointers(1) /\ slot'[1] = slot'[2]
    BY DEF PairedQueues, QueuedPointers
  <2> QED
    BY <2>1, <2>2, <2>3 DEF PairedQueues, Arms
<1>4. CachedPointerQueued'
  <2> SUFFICES ASSUME NEW a \in Arms, arm_caches'[a].item # 0
               PROVE  LET p == items'[a][arm_caches'[a].item].pointer
                      IN  /\ p \in Pointers /\ slot[a][p] # 0
                          /\ arm_caches'[a].item <= slot[a][p]
    BY DEF CachedPointerQueued, Found
  <2>1. CASE arm_caches'[a].item = arm_caches[a].item
    <3>1. arm_caches'[a].item \in Seqs
      BY DEF TypeOK, Cache, NoCache
    <3>2. items'[a][arm_caches'[a].item].pointer = items[a][arm_caches[a].item].pointer
      BY <2>1, <3>1
    <3> QED
      BY <2>1, <3>2 DEF CachedPointerQueued, Found
  <2>2. CASE \E q \in QueuedPointers(a) : arm_caches'[a].item = slot[a][q]
    <3>1. PICK q \in QueuedPointers(a) : arm_caches'[a].item = slot[a][q]
      BY <2>2
    <3>2. slot[a][q] \in Seqs /\ q \in Pointers /\ slot[a][q] # 0
      BY <1>2 DEF QueuedPointers
    <3>3. items[a][slot[a][q]].pointer = q
      BY DEF PairedQueues, QueuedPointers, Arms
    <3>4. items'[a][arm_caches'[a].item].pointer = q
      BY <3>1, <3>2, <3>3
    <3>5. slot[a][q] <= slot[a][q]
      BY <3>2, ConstantsAssumption DEF Seqs
    <3> QED
      BY <3>1, <3>2, <3>4, <3>5
  <2> QED
    BY <2>1, <2>2
<1> QED
  BY <1>1, <1>3, <1>4

(* An enqueue preserves the invariant, from any row that keeps the parts.  *)
LEMMA EnqueuePairKeeps ==
    ASSUME QueueInv, TypeOK', NEW c \in Counts, NEW p \in Pointers,
           NEW base \in [Arms -> [Seqs -> Item]],
           \A a \in Arms : SameParts(base[a], items[a]),
           EnqueuePair(c, p, base)
    PROVE  QueueInv'
<1> USE DEF QueueInv
<1>1. seq + 1 \in Seqs /\ seq \in Nat /\ Seqs \subseteq Nat /\ seq' = seq + 1
  BY ConstantsAssumption DEF EnqueuePair, TypeOK, Seqs
<1>2. \A a \in Arms, q \in Pointers :
         slot'[a][q] = IF q = p THEN seq + 1
                       ELSE IF q \in Evicted(p) THEN 0 ELSE slot[a][q]
  BY DEF EnqueuePair, EnqueuedRow
<1>3. \A a \in Arms, s \in Seqs :
         items'[a][s] = IF \/ arm_caches'[a].item = s
                           \/ \E q \in Pointers : slot'[a][q] = s
                        THEN IF s = seq + 1 THEN NewItem(c, p) ELSE base[a][s]
                        ELSE UnusedItem
  BY <1>1 DEF EnqueuePair, Referenced
<1>4. \A a \in Arms : \A q \in Pointers : slot[a][q] \in Nat /\ slot[a][q] <= seq
  BY ConstantsAssumption DEF TypeOK, ObjectsInOrder
<1>5. \A a \in Arms : \/ arm_caches'[a].item = 0
                      \/ /\ arm_caches'[a] = arm_caches[a]
                         /\ ~CacheEvicted(a, p)
  BY DEF EnqueuePair, NoCache
<1>6. \A a \in Arms : arm_caches[a].item # 0 =>
                        arm_caches[a].item \in Seqs /\ arm_caches[a].item <= seq
  <2> SUFFICES ASSUME NEW a \in Arms, arm_caches[a].item # 0
               PROVE  arm_caches[a].item \in Seqs /\ arm_caches[a].item <= seq
    OBVIOUS
  <2>1. arm_caches[a].item \in Seqs
    BY DEF TypeOK, Cache, NoCache
  <2>2. PICK q \in Pointers : arm_caches[a].item <= slot[a][q]
    BY DEF CachedPointerQueued, Found
  <2>3. slot[a][q] \in Nat /\ slot[a][q] <= seq /\ arm_caches[a].item \in Nat
    BY <2>1, <2>2, <1>1, <1>4
  <2> QED
    BY <2>1, <2>2, <2>3, <1>1
<1>7. ObjectsInOrder'
  <2>1. ASSUME NEW a \in Arms, NEW q \in Pointers
        PROVE  slot'[a][q] <= seq + 1
    BY <1>1, <1>2, <1>4
  <2>2. ASSUME NEW a \in Arms, NEW s \in Seqs, s > seq + 1
        PROVE  items'[a][s] = UnusedItem
    <3>1. s # seq + 1 /\ s > seq /\ ~(s <= seq)
      BY <2>2, <1>1
    <3>2. base[a][s] = UnusedItem
      BY <3>1 DEF SameParts, ObjectsInOrder
    <3> QED
      BY <1>3, <3>1, <3>2
  <2> QED
    BY <1>1, <2>1, <2>2 DEF ObjectsInOrder
<1>8. ASSUME NEW a \in Arms, NEW s \in Seqs, s <= seq,
             \/ arm_caches'[a].item = s
             \/ \E q \in Pointers : slot'[a][q] = s
      PROVE  /\ items'[a][s].pointer = items[a][s].pointer
             /\ items'[a][s].count = items[a][s].count
  <2>1. items'[a][s] = base[a][s]
    BY <1>1, <1>3, <1>8
  <2> QED
    BY <2>1 DEF SameParts
<1>9. PairedQueues'
  <2>1. slot'[1] = slot'[2]
    BY DEF EnqueuePair, EnqueuedRow, PairedQueues, Arms
  <2>2. ASSUME NEW a \in Arms
        PROVE  items'[a][seq + 1] = NewItem(c, p)
    BY <1>1, <1>2, <1>3
  <2>3. ASSUME NEW q \in Pointers \ {p}, slot'[1][q] # 0
        PROVE  /\ items'[1][slot'[1][q]].pointer = q
               /\ items'[2][slot'[2][q]].pointer = q
               /\ items'[1][slot'[1][q]].count = items'[2][slot'[2][q]].count
    <3>1. slot'[1][q] = slot[1][q] /\ slot'[2][q] = slot[2][q] /\ slot[1][q] # 0
      BY <1>2, <2>1, <2>3 DEF Arms, PairedQueues
    <3>2. /\ items[1][slot[1][q]].pointer = q
          /\ items[2][slot[1][q]].pointer = q
          /\ items[1][slot[1][q]].count = items[2][slot[1][q]].count
          /\ slot[1][q] = slot[2][q]
      BY <3>1 DEF PairedQueues, QueuedPointers
    <3>3. slot[1][q] \in Seqs /\ slot[1][q] <= seq
      BY <3>1, <1>4, ConstantsAssumption DEF TypeOK, Arms, Seqs
    <3>4. \A a \in Arms : /\ items'[a][slot[1][q]].pointer = items[a][slot[1][q]].pointer
                          /\ items'[a][slot[1][q]].count = items[a][slot[1][q]].count
      BY <3>1, <3>2, <3>3, <1>8 DEF Arms
    <3> QED
      BY <3>1, <3>2, <3>4 DEF Arms
  <2>4. /\ items'[1][slot'[1][p]].pointer = p
        /\ items'[2][slot'[2][p]].pointer = p
        /\ items'[1][slot'[1][p]].count = items'[2][slot'[2][p]].count
    BY <2>2, <1>2 DEF NewItem, Arms
  <2> QED
    BY <2>1, <2>3, <2>4 DEF PairedQueues, QueuedPointers
<1>10. CachedPointerQueued'
  <2> SUFFICES ASSUME NEW a \in Arms, arm_caches'[a].item # 0
               PROVE  LET r == items'[a][arm_caches'[a].item].pointer
                      IN  /\ r \in Pointers /\ slot'[a][r] # 0
                          /\ arm_caches'[a].item <= slot'[a][r]
    BY DEF CachedPointerQueued, Found
  <2> DEFINE s == arm_caches[a].item
             r == items[a][s].pointer
  <2>1. /\ arm_caches'[a] = arm_caches[a] /\ ~CacheEvicted(a, p) /\ s # 0
        /\ s \in Seqs /\ s <= seq
    BY <1>5, <1>6
  <2>2. r \in Pointers /\ slot[a][r] # 0 /\ s <= slot[a][r]
    BY <2>1 DEF CachedPointerQueued, Found
  <2>3. r \notin Evicted(p)
    BY <2>1 DEF CacheEvicted
  <2>4. items'[a][s].pointer = r
    BY <2>1, <1>8
  <2>5. slot'[a][r] = IF r = p THEN seq + 1 ELSE slot[a][r]
    BY <2>2, <2>3, <1>2
  <2>6. slot[a][r] \in Nat /\ s \in Nat /\ s <= seq /\ seq \in Nat
    BY <2>1, <2>2, <1>1, <1>4
  <2>7. slot'[a][r] # 0 /\ s <= slot'[a][r]
    BY <2>2, <2>5, <2>6
  <2> QED
    BY <2>1, <2>2, <2>4, <2>7
<1> QED
  BY <1>7, <1>9, <1>10

(* After a dequeue, an arm's cache is empty, as it was, or of a queued     *)
(* part.                                                                   *)
LEMMA DequeuedCacheItem ==
    ASSUME TypeOK, NEW a \in Arms, NEW p
    PROVE  \/ DequeuedCache(a, p).item \in {0, arm_caches[a].item}
           \/ \E q \in QueuedPointers(a) : DequeuedCache(a, p).item = slot[a][q]
BY SelectedQueued DEF DequeuedCache, NewCache, NoCache

(* Collecting a row that keeps the parts keeps those still referenced.     *)
LEMMA ReferencedParts ==
    ASSUME QueueInv, NEW a \in Arms, NEW row \in [Seqs -> Item],
           SameParts(row, items[a]), slot' = slot
    PROVE  \A s \in Seqs :
               /\ s > seq => Referenced(row, a)[s] = UnusedItem
               /\ \/ \E p \in Pointers : slot[a][p] = s
                  \/ arm_caches'[a].item = s
                  => /\ Referenced(row, a)[s].pointer = items[a][s].pointer
                     /\ Referenced(row, a)[s].count = items[a][s].count
BY DEF Referenced, SameParts, QueueInv, ObjectsInOrder

(* One item of a row changes in its data or its dequeued flag only.        *)
LEMMA ItemUpdateParts ==
    ASSUME QueueInv, NEW a \in Arms, NEW s \in Seqs, s <= seq, NEW new,
           \/ \E d : new = [items EXCEPT ![a][s].data = d]
           \/ new = [items EXCEPT ![a][s].dequeued = TRUE]
    PROVE  \A b \in Arms, t \in Seqs :
               /\ t > seq => new[b][t] = UnusedItem
               /\ new[b][t].pointer = items[b][t].pointer
               /\ new[b][t].count = items[b][t].count
<1>1. items \in [Arms -> [Seqs -> Item]] /\ seq \in Nat /\ s \in Nat
  BY ConstantsAssumption DEF QueueInv, TypeOK, Seqs
<1>2. \A b \in Arms, t \in Seqs : b # a \/ t # s => new[b][t] = items[b][t]
  BY <1>1
<1>3. /\ new[a][s].pointer = items[a][s].pointer
      /\ new[a][s].count = items[a][s].count
  BY <1>1 DEF Item
<1>4. ~(s > seq)
  BY <1>1
<1> QED
  BY <1>2, <1>3, <1>4 DEF QueueInv, ObjectsInOrder

(* Every step preserves the invariant of queues and caches.                *)
LEMMA QueueInvStep == QueueInv /\ [Next]_vars => QueueInv'
<1> SUFFICES ASSUME QueueInv, [Next]_vars
             PROVE  QueueInv'
  OBVIOUS
<1>0. TypeOK'
  BY TypeStep DEF QueueInv
<1>a. seq \in Nat /\ Seqs \subseteq Nat /\ items \in [Arms -> [Seqs -> Item]]
  BY ConstantsAssumption DEF QueueInv, TypeOK, Seqs
<1>b. \A a \in Arms, p \in Pointers : slot[a][p] # 0 => slot[a][p] \in Seqs
  BY ConstantsAssumption DEF QueueInv, TypeOK, Seqs
(* A step that leaves the items and the caches' items alone.               *)
<1>c. ASSUME UNCHANGED queueVars,
             \A a \in Arms : arm_caches'[a].item = arm_caches[a].item
      PROVE  QueueInv'
  BY <1>c, <1>0, QueueUnchanged DEF QueueInv, ObjectsInOrder, queueVars
(* A step that updates one queued or cached item.                          *)
<1>d. ASSUME NEW a \in Arms, NEW s \in Seqs, s <= seq, UNCHANGED <<seq, slot>>,
             \/ \E d : items' = [items EXCEPT ![a][s].data = d]
             \/ items' = [items EXCEPT ![a][s].dequeued = TRUE],
             \A b \in Arms : arm_caches'[b].item = arm_caches[b].item
      PROVE  QueueInv'
  <2>1. \A b \in Arms, t \in Seqs : /\ t > seq => items'[b][t] = UnusedItem
                                    /\ items'[b][t].pointer = items[b][t].pointer
                                    /\ items'[b][t].count = items[b][t].count
    BY <1>d, ItemUpdateParts
  <2> QED
    BY <2>1, <1>d, <1>0, QueueUnchanged
<1>1. CASE UNCHANGED vars
  BY <1>1, <1>c DEF vars, cacheVars
<1>2. ASSUME NEW c \in Counts, NEW p \in Pointers, PlcCommand01(c, p)
      PROVE  QueueInv'
  <2>1. WithCycleDefaults \in [Arms -> [Seqs -> Item]]
    BY WithCycleDefaultsType DEF QueueInv
  <2> QED
    BY <1>2, <2>1, <1>0, FillsKeepParts, EnqueuePairKeeps DEF PlcCommand01
<1>3. ASSUME NEW c \in Counts, NEW p \in Pointers, PlcCommand11(c, p)
      PROVE  QueueInv'
  BY <1>3, <1>c DEF PlcCommand11, cacheVars
<1>4. CASE PlcCommand12
  BY <1>4, <1>c DEF PlcCommand12, cacheVars
<1>5. ASSUME NEW a \in Arms, NEW f \in Frames, IngestCameraData(a, f)
      PROVE  QueueInv'
  <2> DEFINE p == current_waiting_pointer
  <2>1. p \in Pointers /\ slot[a][p] \in Seqs /\ slot[a][p] <= seq
    BY <1>5, <1>b DEF IngestCameraData, QueueInv, TypeOK, ObjectsInOrder
  <2> QED
    BY <1>5, <2>1, <1>d DEF IngestCameraData, cacheVars
<1>6. ASSUME NEW c \in Counts, NEW p \in Pointers, EnqueueItem(c, p)
      PROVE  QueueInv'
  <2>1. \A a \in Arms : SameParts(items[a], items[a])
    BY DEF SameParts
  <2> QED
    BY <1>6, <2>1, <1>0, <1>a, EnqueuePairKeeps DEF EnqueueItem
<1>7. ASSUME NEW a \in Arms, NEW p \in Pointers, NEW f \in Frames,
             StoreCameraData(a, p, f)
      PROVE  QueueInv'
  <2>1. slot[a][p] \in Seqs /\ slot[a][p] <= seq
    BY <1>7, <1>b DEF StoreCameraData, Storable, QueueInv, ObjectsInOrder
  <2> QED
    BY <1>7, <2>1, <1>d DEF StoreCameraData, Storable, cacheVars
<1>8. ASSUME NEW ptr \in [Arms -> Pointers \cup {0}], HandleDequeuePointers(ptr)
      PROVE  QueueInv'
  <2>1. seq' = seq /\ slot' = slot
    BY <1>8 DEF HandleDequeuePointers
  <2>2. ASSUME NEW a \in Arms
        PROVE  /\ \/ arm_caches'[a].item \in {0, arm_caches[a].item}
                  \/ \E q \in QueuedPointers(a) : arm_caches'[a].item = slot[a][q]
               /\ \A s \in Seqs :
                     /\ s > seq => items'[a][s] = UnusedItem
                     /\ \/ \E p \in Pointers : slot[a][p] = s
                        \/ arm_caches'[a].item = s
                        => /\ items'[a][s].pointer = items[a][s].pointer
                           /\ items'[a][s].count = items[a][s].count
    <3>1. CASE ptr[a] # LastPointer(a)
      <4>1. /\ arm_caches'[a] = DequeuedCache(a, ptr[a])
            /\ items'[a] = Referenced(DequeuedItems(a, ptr[a]), a)
        BY <1>8, <3>1 DEF HandleDequeuePointers
      <4>2. /\ DequeuedItems(a, ptr[a]) \in [Seqs -> Item]
            /\ SameParts(DequeuedItems(a, ptr[a]), items[a])
        BY DequeuedType, FillsKeepParts DEF QueueInv
      <4> QED
        BY <4>1, <4>2, <2>1, DequeuedCacheItem, ReferencedParts DEF QueueInv
    <3>2. CASE ptr[a] = LastPointer(a)
      <4>1. arm_caches'[a] = arm_caches[a] /\ items'[a] = items[a]
        BY <1>8, <3>2 DEF HandleDequeuePointers
      <4> QED
        BY <4>1 DEF QueueInv, ObjectsInOrder
    <3> QED
      BY <3>1, <3>2
  <2> QED
    BY <2>1, <2>2, <1>0, QueueUnchanged
<1>9. ASSUME NEW a \in Arms, ArmStep(a)
      PROVE  QueueInv'
  <2>0. /\ arm_caches[a].item # 0 => /\ arm_caches[a].item \in Seqs
                                     /\ arm_caches[a].item <= seq
        /\ arm_caches[a] # NoCache => arm_caches[a].item # 0
    <3>1. arm_caches[a] # NoCache => arm_caches[a].item \in Seqs
      BY DEF QueueInv, TypeOK, Cache
    <3>2. arm_caches[a] # NoCache => arm_caches[a].item # 0
      BY <3>1, ConstantsAssumption DEF Seqs
    <3>3. ASSUME arm_caches[a].item # 0
          PROVE  arm_caches[a].item <= seq
      <4>1. arm_caches[a].item \in Seqs
        BY <3>1, <3>3 DEF NoCache
      <4>2. PICK q \in Pointers : arm_caches[a].item <= slot[a][q] /\ slot[a][q] # 0
        BY <3>3 DEF QueueInv, CachedPointerQueued, Found
      <4>3. slot[a][q] \in Nat /\ slot[a][q] <= seq /\ arm_caches[a].item \in Nat
        BY <4>1, <4>2, <1>a, <1>b DEF QueueInv, ObjectsInOrder
      <4> QED
        BY <4>2, <4>3, <1>a
    <3> QED
      BY <3>1, <3>2, <3>3 DEF NoCache
  <2>1. CASE RequestWithoutCache(a)
    BY <2>1, <1>c DEF RequestWithoutCache
  <2>2. CASE RequestFromCache(a)
    <3>1. SameParts(RequestItems(a), items[a])
      BY FillsKeepParts
    <3>2. \A b \in Arms : arm_caches'[b].item = arm_caches[b].item
      <4>1. arm_caches[a] \in [item : Seqs, trigger : Pointers,
                                confirmed : BOOLEAN, served : Data]
        BY <2>2 DEF RequestFromCache, QueueInv, TypeOK, Cache
      <4>2. \A d : [arm_caches[a] EXCEPT !.served = d].item = arm_caches[a].item
        BY <4>1
      <4>3. \/ arm_caches' = arm_caches
            \/ \E d : arm_caches' = [arm_caches EXCEPT ![a].served = d]
        BY <2>2 DEF RequestFromCache
      <4>4. ASSUME NEW d, arm_caches' = [arm_caches EXCEPT ![a].served = d]
            PROVE  \A b \in Arms : arm_caches'[b].item = arm_caches[b].item
        BY <4>2, <4>4 DEF QueueInv, TypeOK
      <4> QED
        BY <4>3, <4>4
    <3>3. \A b \in Arms : items'[b] = IF b = a THEN RequestItems(a) ELSE items[b]
      BY <2>2, <1>a DEF RequestFromCache
    <3>4. \A b \in Arms, s \in Seqs : /\ s > seq => items'[b][s] = UnusedItem
                                      /\ items'[b][s].pointer = items[b][s].pointer
                                      /\ items'[b][s].count = items[b][s].count
      BY <3>1, <3>3 DEF SameParts, QueueInv, ObjectsInOrder
    <3> QED
      BY <2>2, <3>2, <3>4, <1>0, QueueUnchanged DEF RequestFromCache
  <2>3. CASE SendN(a)
    BY <2>3, <1>c DEF SendN, cacheVars
  <2>4. CASE RefreshAfterSend(a)
    <3> DEFINE last == last_dequeue_pointers[a]
    <3>1. CASE last # None /\ last # arm_positions[a]
      <4>1. /\ seq' = seq /\ slot' = slot
            /\ arm_caches' = [arm_caches EXCEPT ![a] = DequeuedCache(a, last)]
            /\ items' = [items EXCEPT ![a] = Referenced(DequeuedItems(a, last), a)]
        BY <2>4, <3>1 DEF RefreshAfterSend
      <4>2. /\ DequeuedItems(a, last) \in [Seqs -> Item]
            /\ SameParts(DequeuedItems(a, last), items[a])
        BY DequeuedType, FillsKeepParts DEF QueueInv
      <4>3. /\ arm_caches'[a] = DequeuedCache(a, last)
            /\ items'[a] = Referenced(DequeuedItems(a, last), a)
            /\ \A b \in Arms \ {a} : /\ arm_caches'[b] = arm_caches[b]
                                     /\ items'[b] = items[b]
        BY <4>1 DEF QueueInv, TypeOK
      <4>4. \A s \in Seqs :
               /\ s > seq => items'[a][s] = UnusedItem
               /\ \/ \E p \in Pointers : slot[a][p] = s
                  \/ arm_caches'[a].item = s
                  => /\ items'[a][s].pointer = items[a][s].pointer
                     /\ items'[a][s].count = items[a][s].count
        BY <4>1, <4>2, <4>3, ReferencedParts
      <4>5. \/ arm_caches'[a].item \in {0, arm_caches[a].item}
            \/ \E q \in QueuedPointers(a) : arm_caches'[a].item = slot[a][q]
        BY <4>3, DequeuedCacheItem DEF QueueInv
      <4>6. \A b \in Arms \ {a}, s \in Seqs : s > seq => items'[b][s] = UnusedItem
        BY <4>3 DEF QueueInv, ObjectsInOrder
      <4> QED
        BY <4>1, <4>3, <4>4, <4>5, <4>6, <1>0, QueueUnchanged
    <3>2. CASE ~(last # None /\ last # arm_positions[a])
      BY <2>4, <3>2, <1>c DEF RefreshAfterSend, queueVars
    <3> QED
      BY <3>1, <3>2
  <2>5. CASE CompleteWithoutCache(a)
    BY <2>5, <1>c DEF CompleteWithoutCache
  <2>6. CASE CompleteFromCache(a)
    <3>1. arm_caches[a].item \in Seqs /\ arm_caches[a].item <= seq
      BY <2>6, <2>0 DEF CompleteFromCache
    <3>2. \A b \in Arms : arm_caches'[b].item = arm_caches[b].item
      <4>1. arm_caches[a] \in [item : Seqs, trigger : Pointers,
                                confirmed : BOOLEAN, served : Data]
        BY <2>6 DEF CompleteFromCache, QueueInv, TypeOK, Cache
      <4>2. [arm_caches[a] EXCEPT !.confirmed = TRUE].item = arm_caches[a].item
        BY <4>1
      <4>3. arm_caches' = [arm_caches EXCEPT ![a].confirmed = TRUE]
        BY <2>6 DEF CompleteFromCache
      <4> QED
        BY <4>2, <4>3 DEF QueueInv, TypeOK
    <3> QED
      BY <2>6, <3>1, <3>2, <1>d DEF CompleteFromCache
  <2>7. CASE SendD(a)
    BY <2>7, <1>c DEF SendD, cacheVars
  <2> QED
    BY <1>9, <2>1, <2>2, <2>3, <2>4, <2>5, <2>6, <2>7
       DEF ArmStep, ArmDataRequest, ArmCompletion
<1> QED
  BY <1>1, <1>2, <1>3, <1>4, <1>5, <1>6, <1>7, <1>8, <1>9, ConstantsAssumption
     DEF Next, LegacyStep, DualStep, DequeueStep, Arms

(* The invariant of queues and caches, for every value of the constants.   *)
THEOREM QueuesAndCachesConsistent == Spec => []QueueInv
<1>1. Init => QueueInv
  <2> SUFFICES ASSUME Init
               PROVE  QueueInv
    OBVIOUS
  <2>1. TypeOK
    BY TypeCorrect, UnusedItemType, ConstantsAssumption
       DEF Init, TypeOK, ArmStatus, Cache
  <2>2. ObjectsInOrder
    BY DEF Init, ObjectsInOrder
  <2>3. PairedQueues
    BY DEF Init, PairedQueues, QueuedPointers, Arms
  <2>4. CachedPointerQueued
    BY DEF Init, CachedPointerQueued, NoCache
  <2> QED
    BY <2>1, <2>2, <2>3, <2>4 DEF QueueInv
<1> QED
  BY <1>1, QueueInvStep, PTL DEF Spec

(* Both arms' queues always hold the same parts under the same pointers.   *)
THEOREM QueuesPaired == Spec => []PairedQueues
<1>1. QueueInv => PairedQueues
  BY DEF QueueInv
<1> QED
  BY <1>1, QueuesAndCachesConsistent, PTL

(* The pointer of a cached item is always in the queue.                    *)
THEOREM CachesQueued == Spec => []CachedPointerQueued
<1>1. QueueInv => CachedPointerQueued
  BY DEF QueueInv
<1> QED
  BY <1>1, QueuesAndCachesConsistent, PTL

-----------------------------------------------------------------------------
(* The arms get the data of the same part.                                 *)

(* What a dequeue selects depends on the queue alone, so equal queues make *)
(* equal selections.                                                       *)
LEMMA SameSelection ==
    ASSUME PairedQueues, NEW p
    PROVE  (Found(1, p) <=> Found(2, p)) /\ Chosen(1, p) = Chosen(2, p)
<1>1. slot[1] = slot[2]
  BY DEF PairedQueues
<1>2. \A s : Behind(1, s) = Behind(2, s)
  BY <1>1 DEF Behind, QueuedPointers
<1>3. \A s : Selected(1, s) = Selected(2, s)
  BY <1>2 DEF Selected
<1> QED
  BY <1>1, <1>3 DEF Found, Chosen

(* One dequeue frame that sends both arms to the same queued pointer gives *)
(* them the data of the same part.                                         *)
THEOREM SamePartForBothArms == Spec => SameFrameSamePart
<1>1. ASSUME QueueInv, [Next]_vars, NEW p \in QueuedPointers(1),
             \A a \in Arms : LastPointer(a) # p /\ last_dequeue_pointers'[a] = p
      PROVE  /\ arm_caches'[1].item = arm_caches'[2].item
             /\ arm_positions'[1] = p /\ arm_positions'[2] = p
  <2>1. PICK ptr \in [Arms -> Pointers \cup {0}] : HandleDequeuePointers(ptr)
    <3>1. CASE UNCHANGED last_dequeue_pointers
      <4>1. last_dequeue_pointers[1] = p /\ LastPointer(1) # p
        BY <1>1, <3>1 DEF Arms
      <4> QED
        BY <4>1, ConstantsAssumption DEF LastPointer, QueuedPointers, None
    <3>2. CASE ~UNCHANGED last_dequeue_pointers
      BY <1>1, <3>2
         DEF Next, LegacyStep, DualStep, DequeueStep, ArmStep, ArmDataRequest,
             ArmCompletion, PlcCommand01, PlcCommand11, PlcCommand12,
             IngestCameraData, EnqueueItem, EnqueuePair, StoreCameraData,
             RequestWithoutCache, RequestFromCache, SendN, RefreshAfterSend,
             CompleteWithoutCache, CompleteFromCache, SendD, vars, cacheVars
    <3> QED
      BY <3>1, <3>2
  <2>2. Found(1, p) /\ Found(2, p) /\ Chosen(1, p) = Chosen(2, p)
    BY <1>1, SameSelection DEF QueueInv, Found, QueuedPointers
  <2>3. \A a \in Arms : ptr[a] = p /\ ptr[a] # LastPointer(a)
    <3> SUFFICES ASSUME NEW a \in Arms
                 PROVE  ptr[a] = p
      BY <1>1
    <3>1. last_dequeue_pointers'[a] = IF ptr[a] # LastPointer(a) THEN ptr[a]
                                      ELSE last_dequeue_pointers[a]
      BY <2>1 DEF HandleDequeuePointers
    <3>2. CASE ptr[a] = LastPointer(a)
      <4>1. last_dequeue_pointers[a] = p /\ LastPointer(a) # p
        BY <1>1, <3>1, <3>2
      <4> QED
        BY <4>1, ConstantsAssumption, <1>1 DEF LastPointer, QueuedPointers, None
    <3> QED
      BY <1>1, <3>1, <3>2
  <2>4. \A a \in Arms : /\ arm_caches'[a] = DequeuedCache(a, p)
                        /\ arm_positions'[a] = DequeuedPosition(a, p)
    BY <2>1, <2>3 DEF HandleDequeuePointers
  <2>5. DequeuedCache(1, p).item = DequeuedCache(2, p).item
    BY <2>2 DEF DequeuedCache, NewCache
  <2> QED
    BY <2>2, <2>4, <2>5 DEF DequeuedPosition, Arms
<1>2. QueueInv /\ [Next]_vars => [SamePartStep]_vars
  BY <1>1 DEF SamePartStep
<1> QED
  BY <1>2, QueuesAndCachesConsistent, PTL DEF Spec, SameFrameSamePart

-----------------------------------------------------------------------------
(* The capacity of the queue.                                              *)

(* A set of natural numbers that is not empty has a smallest element.      *)
LEMMA SmallestExists ==
    ASSUME NEW T, T \subseteq Nat, T # {}
    PROVE  \E x \in T : \A y \in T : x <= y
<1> DEFINE R == OpToRel(<, Nat)
<1>1. IsWellFoundedOn(R, Nat)
  BY NatLessThanWellFounded
<1>2. PICK x \in T : \A y \in T : ~(<<y, x>> \in R)
  <2> HIDE DEF R
  <2> QED
    BY <1>1, WFMin
<1>3. \A y \in T : ~(y < x)
  BY <1>2 DEF OpToRel
<1> QED
  BY <1>3

(* A queue that holds something has an oldest part.                        *)
LEMMA OldestExists ==
    ASSUME QueueInv, QueuedPointers(1) # {}
    PROVE  \E o \in QueuedPointers(1) : Oldest(o)
<1> DEFINE T == {slot[1][p] : p \in QueuedPointers(1)}
<1>0. \A p \in QueuedPointers(1) : slot[1][p] \in Nat
  BY ConstantsAssumption DEF QueueInv, TypeOK, QueuedPointers, Arms
<1>1. T \subseteq Nat /\ T # {}
  BY <1>0
<1>2. PICK x \in T : \A y \in T : x <= y
  BY <1>1, SmallestExists
<1>3. PICK o \in QueuedPointers(1) : x = slot[1][o]
  BY <1>2
<1> QED
  BY <1>2, <1>3 DEF Oldest

(* An enqueue never leaves more than `length` parts: it evicts one first.  *)
LEMMA EnqueuePairCapacity ==
    ASSUME QueueInv, CapacityRespected, NEW c, NEW p \in Pointers, NEW base,
           EnqueuePair(c, p, base)
    PROVE  CapacityRespected'
<1> DEFINE Q == QueuedPointers(1)
<1>1. IsFiniteSet(Q) /\ Cardinality(Q) \in Nat /\ Cardinality(Q) <= Length
  BY ConstantsAssumption, FS_Subset, FS_CardinalityType
     DEF CapacityRespected, QueuedPointers
<1>2. Q' \subseteq (Q \ Evicted(p)) \cup {p}
  BY DEF EnqueuePair, EnqueuedRow, QueuedPointers, Arms
<1> HIDE DEF Q
<1>3. CASE Overflow(p)
  <2>1. p \notin Q /\ Q # {} /\ Cardinality(Q) = Length
    BY <1>1, <1>3, FS_EmptySet, ConstantsAssumption DEF Overflow, Q
  <2>2. PICK o \in Q : o \in Evicted(p)
    BY <1>3, <2>1, OldestExists DEF Evicted, Q, QueuedPointers
  <2>3. /\ IsFiniteSet(Q \ {o})
        /\ Cardinality(Q \ {o}) = Length - 1
    BY <1>1, <2>1, FS_RemoveElement
  <2>4. /\ IsFiniteSet((Q \ {o}) \cup {p})
        /\ Cardinality((Q \ {o}) \cup {p}) = (Length - 1) + 1
    BY <2>1, <2>3, FS_AddElement
  <2>5. Q' \subseteq (Q \ {o}) \cup {p}
    BY <1>2, <2>2
  <2>6. Cardinality(Q') <= Length
    <3>1. Length \in Nat /\ (Length - 1) + 1 = Length
      BY ConstantsAssumption
    <3> QED
      BY <2>4, <2>5, <3>1, FS_Subset
  <2> QED
    BY <2>6 DEF CapacityRespected, Q
<1>4. CASE ~Overflow(p)
  <2>1. Cardinality(Q \cup {p}) <= Length /\ IsFiniteSet(Q \cup {p})
    BY <1>1, <1>4, FS_AddElement, ConstantsAssumption DEF Overflow, Q
  <2>2. Q' \subseteq Q \cup {p}
    BY <1>2
  <2>3. Cardinality(Q') <= Cardinality(Q \cup {p}) /\ Cardinality(Q') \in Nat
        /\ Cardinality(Q \cup {p}) \in Nat
    BY <2>1, <2>2, FS_Subset, FS_CardinalityType
  <2> QED
    BY <2>1, <2>3, ConstantsAssumption DEF CapacityRespected, Q
<1> QED
  BY <1>3, <1>4

(* The queue never holds more than `length` parts.                         *)
THEOREM QueueBounded == Spec => []CapacityRespected
<1>1. Init => CapacityRespected
  <2>1. Init => QueuedPointers(1) = {}
    BY DEF Init, QueuedPointers, Arms
  <2> QED
    BY <2>1, FS_EmptySet, ConstantsAssumption DEF CapacityRespected
<1>2. QueueInv /\ CapacityRespected /\ [Next]_vars => CapacityRespected'
  <2> SUFFICES ASSUME QueueInv, CapacityRespected, [Next]_vars
               PROVE  CapacityRespected'
    OBVIOUS
  <2>1. CASE UNCHANGED slot
    BY <2>1 DEF CapacityRespected, QueuedPointers
  <2>2. CASE \E c \in Counts, p \in Pointers : PlcCommand01(c, p) \/ EnqueueItem(c, p)
    BY <2>2, EnqueuePairCapacity DEF PlcCommand01, EnqueueItem
  <2>3. \/ UNCHANGED slot
        \/ \E c \in Counts, p \in Pointers : PlcCommand01(c, p) \/ EnqueueItem(c, p)
    BY DEF Next, LegacyStep, DualStep, DequeueStep, ArmStep, ArmDataRequest,
           ArmCompletion, PlcCommand11, PlcCommand12, IngestCameraData,
           StoreCameraData, HandleDequeuePointers, RequestWithoutCache,
           RequestFromCache, SendN, RefreshAfterSend, CompleteWithoutCache,
           CompleteFromCache, SendD, vars, queueVars
  <2> QED
    BY <2>1, <2>2, <2>3
<1> QED
  BY <1>1, <1>2, QueuesAndCachesConsistent, PTL DEF Spec

-----------------------------------------------------------------------------
(* The data of a part.                                                     *)

(* What a step may do to an object that has data: keep the data, drop an   *)
(* object nothing refers to, or write camera data over it, which the dual  *)
(* flow with drop_late_camera_data does not do to a finished part.         *)
DataStep(a, s) ==
    \/ items'[a][s].data = items[a][s].data
    \/ items'[a][s] = UnusedItem /\ arm_caches'[a].item # s
    \/ /\ \E f \in Frames : items'[a][s].data = CameraData(f)
       /\ ~(items[a][s].dequeued /\ DropLate /\ Flow = "dual_camera_11_12")

(* Collecting a row that keeps an item's data is a step of that data.      *)
LEMMA ReferencedData ==
    ASSUME NEW a \in Arms, NEW s \in Seqs, NEW row,
           items'[a] = Referenced(row, a), row[s].data = items[a][s].data
    PROVE  DataStep(a, s)
BY DEF DataStep, Referenced

(* Data that is there stays, is dropped with its object, or is replaced    *)
(* by camera data that the flow accepts.                                   *)
LEMMA DataSteps ==
    ASSUME QueueInv, [Next]_vars, NEW a \in Arms, NEW s \in Seqs,
           items[a][s].data # NoData
    PROVE  DataStep(a, s)
<1>1. s # seq + 1
  <2>1. CASE s = seq + 1
    <3>1. s > seq
      BY <2>1, ConstantsAssumption DEF QueueInv, TypeOK
    <3> QED
      BY <3>1 DEF QueueInv, ObjectsInOrder, UnusedItem
  <2> QED
    BY <2>1
<1>2. CASE items' = items
  BY <1>2 DEF DataStep
<1>3. ASSUME NEW c, NEW p, NEW base, EnqueuePair(c, p, base),
             base[a] \in [Seqs -> Item], base[a][s].data = items[a][s].data
      PROVE  DataStep(a, s)
  <2> DEFINE row == [base[a] EXCEPT ![seq + 1] = NewItem(c, p)]
  <2>1. items'[a] = Referenced(row, a) /\ row[s].data = items[a][s].data
    BY <1>1, <1>3 DEF EnqueuePair
  <2> QED
    BY <2>1, ReferencedData
<1>4. ASSUME NEW c \in Counts, NEW p \in Pointers, PlcCommand01(c, p)
      PROVE  DataStep(a, s)
  <2>1. WithCycleDefaults[a] \in [Seqs -> Item]
    BY WithCycleDefaultsType DEF QueueInv
  <2>2. WithCycleDefaults[a][s].data = items[a][s].data
    BY FillsKeepParts DEF SameParts
  <2> QED
    BY <1>4, <2>1, <2>2, <1>3 DEF PlcCommand01
<1>5. ASSUME NEW c \in Counts, NEW p \in Pointers, EnqueueItem(c, p)
      PROVE  DataStep(a, s)
  BY <1>5, <1>3 DEF EnqueueItem, QueueInv, TypeOK
(* One item changes in its data.                                           *)
<1>6. ASSUME NEW b \in Arms, NEW t \in Seqs, NEW f \in Frames,
             items' = [items EXCEPT ![b][t].data = CameraData(f)],
             ~(items[b][t].dequeued /\ DropLate /\ Flow = "dual_camera_11_12")
      PROVE  DataStep(a, s)
  <2>1. items \in [Arms -> [Seqs -> Item]]
    BY DEF QueueInv, TypeOK
  <2>2. CASE a = b /\ s = t
    <3>1. items'[a][s] = [items[a][s] EXCEPT !.data = CameraData(f)]
      BY <1>6, <2>1, <2>2
    <3>2. items'[a][s].data = CameraData(f)
      BY <3>1, <2>1 DEF Item
    <3> QED
      BY <1>6, <2>2, <3>2 DEF DataStep
  <2>3. CASE ~(a = b /\ s = t)
    BY <1>6, <2>1, <2>3 DEF DataStep
  <2> QED
    BY <2>2, <2>3
<1>7. ASSUME NEW b \in Arms, NEW f \in Frames, IngestCameraData(b, f),
             Flow = "legacy_single_camera"
      PROVE  DataStep(a, s)
  <2>1. slot[b][current_waiting_pointer] \in Seqs
    BY <1>7, ConstantsAssumption DEF IngestCameraData, QueueInv, TypeOK, Seqs
  <2> QED
    BY <1>7, <2>1, <1>6 DEF IngestCameraData
<1>8. ASSUME NEW b \in Arms, NEW p \in Pointers, NEW f \in Frames,
             StoreCameraData(b, p, f)
      PROVE  DataStep(a, s)
  <2>1. slot[b][p] \in Seqs
    BY <1>8, ConstantsAssumption DEF StoreCameraData, Storable, QueueInv, TypeOK, Seqs
  <2> QED
    BY <1>8, <2>1, <1>6 DEF StoreCameraData, Storable
<1>9. ASSUME NEW ptr, HandleDequeuePointers(ptr)
      PROVE  DataStep(a, s)
  <2>1. DequeuedItems(a, ptr[a])[s].data = items[a][s].data
    BY FillsKeepParts DEF SameParts
  <2>2. \/ items'[a] = Referenced(DequeuedItems(a, ptr[a]), a)
        \/ items'[a] = items[a]
    BY <1>9 DEF HandleDequeuePointers
  <2> QED
    BY <2>1, <2>2, ReferencedData DEF DataStep
<1>10. ASSUME NEW b \in Arms, RequestFromCache(b)
       PROVE  DataStep(a, s)
  <2>1. RequestItems(a)[s].data = items[a][s].data
    BY FillsKeepParts DEF SameParts
  <2>2. items'[a] = RequestItems(a) \/ items'[a] = items[a]
    BY <1>10 DEF RequestFromCache, QueueInv, TypeOK
  <2> QED
    BY <2>1, <2>2 DEF DataStep
<1>11. ASSUME NEW b \in Arms, RefreshAfterSend(b)
       PROVE  DataStep(a, s)
  <2> DEFINE last == last_dequeue_pointers[a]
  <2>1. DequeuedItems(a, last)[s].data = items[a][s].data
    BY FillsKeepParts DEF SameParts
  <2>2. \/ items'[a] = Referenced(DequeuedItems(a, last), a)
        \/ items'[a] = items[a]
    <3>1. CASE items' = items
      BY <3>1
    <3>2. CASE items' = [items EXCEPT ![b] =
                           Referenced(DequeuedItems(b, last_dequeue_pointers[b]), b)]
      BY <3>2 DEF QueueInv, TypeOK
    <3> QED
      BY <1>11, <3>1, <3>2 DEF RefreshAfterSend
  <2> QED
    BY <2>1, <2>2, ReferencedData DEF DataStep
<1>12. ASSUME NEW b \in Arms, CompleteFromCache(b)
       PROVE  DataStep(a, s)
  <2>1. items \in [Arms -> [Seqs -> Item]]
    BY DEF QueueInv, TypeOK
  <2>2. items' = [items EXCEPT ![b][arm_caches[b].item].dequeued = TRUE]
    BY <1>12 DEF CompleteFromCache
  <2>3. \/ items'[a][s] = items[a][s]
        \/ items'[a][s] = [items[a][s] EXCEPT !.dequeued = TRUE]
    BY <2>1, <2>2
  <2>4. [items[a][s] EXCEPT !.dequeued = TRUE].data = items[a][s].data
    BY <2>1 DEF Item
  <2> QED
    BY <2>3, <2>4 DEF DataStep
<1>13. CASE ~UNCHANGED items
  <2> USE DEF PlcCommand11, PlcCommand12, RequestWithoutCache, SendN,
              CompleteWithoutCache, SendD, queueVars
  <2>1. CASE LegacyStep
    BY <2>1, <1>13, <1>4, <1>7, ConstantsAssumption DEF LegacyStep, Arms
  <2>2. CASE DualStep
    BY <2>2, <1>13, <1>5, <1>8, ConstantsAssumption DEF DualStep, Arms
  <2>3. CASE DequeueStep
    BY <2>3, <1>9 DEF DequeueStep
  <2>4. ASSUME NEW b \in Arms, ArmStep(b)
        PROVE  DataStep(a, s)
    BY <2>4, <1>13, <1>10, <1>11, <1>12 DEF ArmStep, ArmDataRequest, ArmCompletion
  <2> QED
    BY <2>1, <2>2, <2>3, <2>4, <1>13, ConstantsAssumption DEF Next, vars, Arms
<1> QED
  BY <1>2, <1>13

(* In the dual-camera flow, with drop_late_camera_data, a finished part    *)
(* keeps its data.                                                         *)
THEOREM FinishedDataFrozen ==
    ASSUME Flow = "dual_camera_11_12", DropLate
    PROVE  Spec => CompletedDataFrozen
<1>1. ASSUME QueueInv, [Next]_vars
      PROVE  CompletedFrozenStep
  BY <1>1, DataSteps DEF CompletedFrozenStep, DataStep
<1> QED
  BY <1>1, QueuesAndCachesConsistent, PTL DEF Spec, CompletedDataFrozen

-----------------------------------------------------------------------------
(* In dequeue_timeout mode an arm that asks gets an answer.                *)

CachedHasData ==
    \A a \in Arms : arm_caches[a].item # 0
                    => items[a][arm_caches[a].item].data # NoData

(* The dequeue fills the very object it caches.                            *)
LEMMA DequeuedHasData ==
    ASSUME QueueInv, TimeoutMode = "dequeue_timeout", NEW a \in Arms, NEW p,
           Found(a, p), Chosen(a, p) # 0
    PROVE  DequeuedItems(a, p)[Chosen(a, p)].data # NoData
<1> DEFINE s == Chosen(a, p)
<1>1. PICK q \in QueuedPointers(a) : s = slot[a][q]
  BY SelectedQueued DEF QueueInv
<1>2. s \in Seqs /\ items[a] \in [Seqs -> Item]
  BY ChosenType DEF QueueInv, TypeOK
<1>3. items[a][s].pointer = q /\ Found(a, q)
  BY <1>1 DEF QueueInv, PairedQueues, QueuedPointers, Arms, Found
<1>4. DequeuedItems(a, p) = FillAt(items[a], a, q, DefaultPayload(items[a][s].count))
  BY <1>1, <1>3 DEF DequeuedItems, FillSlot
<1>5. \A c : DefaultPayload(c) # NoData
  BY DEF DefaultPayload, NoData
<1>6. \A d : [items[a] EXCEPT ![s].data = d][s].data = d
  BY <1>2 DEF Item
<1> QED
  BY <1>1, <1>3, <1>4, <1>5, <1>6 DEF FillAt

(* A step keeps the data of a cached object, or caches one with data.      *)
LEMMA CachedHasDataStep ==
    ASSUME QueueInv, CachedHasData, [Next]_vars, TimeoutMode = "dequeue_timeout"
    PROVE  CachedHasData'
<1> SUFFICES ASSUME NEW a \in Arms, arm_caches'[a].item # 0
             PROVE  items'[a][arm_caches'[a].item].data # NoData
  BY DEF CachedHasData
<1>1. CASE arm_caches'[a].item = arm_caches[a].item
  <2> DEFINE s == arm_caches[a].item
  <2>1. s \in Seqs /\ items[a][s].data # NoData
    BY <1>1 DEF QueueInv, TypeOK, Cache, NoCache, CachedHasData
  <2>2. DataStep(a, s)
    BY <2>1, DataSteps
  <2>3. \A f : CameraData(f) # NoData
    BY DEF CameraData, NoData
  <2> QED
    BY <1>1, <2>1, <2>2, <2>3 DEF DataStep
<1>2. ASSUME NEW p, arm_caches'[a] = DequeuedCache(a, p),
             arm_caches'[a].item # arm_caches[a].item,
             items'[a] = Referenced(DequeuedItems(a, p), a)
      PROVE  items'[a][arm_caches'[a].item].data # NoData
  <2>1. Found(a, p) /\ Chosen(a, p) # 0 /\ arm_caches'[a].item = Chosen(a, p)
    BY <1>2 DEF DequeuedCache, NewCache, NoCache
  <2>2. Chosen(a, p) \in Seqs
    BY <2>1, ChosenType DEF QueueInv
  <2>3. items'[a][Chosen(a, p)] = DequeuedItems(a, p)[Chosen(a, p)]
    BY <1>2, <2>1, <2>2 DEF Referenced
  <2> QED
    BY <2>1, <2>3, DequeuedHasData
<1>3. CASE arm_caches'[a].item # arm_caches[a].item
  <2>0. ASSUME NEW c, NEW p, NEW base, EnqueuePair(c, p, base)
        PROVE  FALSE
    <3>1. arm_caches'[a] = NoCache \/ arm_caches'[a] = arm_caches[a]
      BY <2>0 DEF EnqueuePair
    <3> QED
      BY <3>1, <1>3 DEF NoCache
  <2>1. CASE LegacyStep
    BY <2>1, <2>0, <1>3 DEF LegacyStep, PlcCommand01, PlcCommand11, PlcCommand12,
                            IngestCameraData, cacheVars
  <2>2. CASE DualStep
    BY <2>2, <2>0, <1>3 DEF DualStep, EnqueueItem, StoreCameraData, cacheVars
  <2>3. ASSUME NEW ptr, HandleDequeuePointers(ptr)
        PROVE  items'[a][arm_caches'[a].item].data # NoData
    <3>1. ptr[a] # LastPointer(a)
      BY <2>3, <1>3 DEF HandleDequeuePointers
    <3>2. /\ arm_caches'[a] = DequeuedCache(a, ptr[a])
          /\ items'[a] = Referenced(DequeuedItems(a, ptr[a]), a)
      BY <2>3, <3>1 DEF HandleDequeuePointers
    <3> QED
      BY <3>2, <1>2, <1>3
  <2>4. ASSUME NEW b \in Arms, RefreshAfterSend(b)
        PROVE  items'[a][arm_caches'[a].item].data # NoData
    <3> DEFINE last == last_dequeue_pointers[b]
    <3>1. /\ arm_caches' = [arm_caches EXCEPT ![b] = DequeuedCache(b, last)]
          /\ items' = [items EXCEPT ![b] = Referenced(DequeuedItems(b, last), b)]
      BY <2>4, <1>3 DEF RefreshAfterSend
    <3>2. a = b
      BY <3>1, <1>3 DEF QueueInv, TypeOK
    <3>3. /\ arm_caches'[a] = DequeuedCache(a, last)
          /\ items'[a] = Referenced(DequeuedItems(a, last), a)
      BY <3>1, <3>2 DEF QueueInv, TypeOK
    <3> QED
      BY <3>3, <1>2, <1>3
  <2>5. ASSUME NEW b \in Arms, RequestFromCache(b) \/ CompleteFromCache(b)
        PROVE  FALSE
    <3>1. /\ items[b] \in [Seqs -> Item]
          /\ arm_caches \in [Arms -> Cache]
          /\ arm_caches[b] \in [item : Seqs, trigger : Pointers,
                                confirmed : BOOLEAN, served : Data]
      BY <2>5 DEF RequestFromCache, CompleteFromCache, QueueInv, TypeOK, Cache
    <3>2. /\ \A d : [arm_caches[b] EXCEPT !.served = d].item = arm_caches[b].item
          /\ [arm_caches[b] EXCEPT !.confirmed = TRUE].item = arm_caches[b].item
      BY <3>1
    <3>3. ASSUME NEW d, arm_caches' = [arm_caches EXCEPT ![b].served = d]
          PROVE  FALSE
      BY <3>1, <3>2, <3>3, <1>3
    <3>4. ASSUME arm_caches' = [arm_caches EXCEPT ![b].confirmed = TRUE]
          PROVE  FALSE
      BY <3>1, <3>2, <3>4, <1>3
    <3> QED
      BY <2>5, <3>3, <3>4, <1>3 DEF RequestFromCache, CompleteFromCache
  <2>6. CASE UNCHANGED arm_caches
    BY <2>6, <1>3
  <2> QED
    BY <2>1, <2>2, <2>3, <2>4, <2>5, <2>6, ConstantsAssumption
       DEF Next, DequeueStep, ArmStep, ArmDataRequest, ArmCompletion, Arms,
           RequestWithoutCache, SendN, CompleteWithoutCache, SendD,
           vars, cacheVars
<1> QED
  BY <1>1, <1>3

(* In dequeue_timeout mode, with send_default_on_empty_request, no data    *)
(* request of an arm is left without an answer.                            *)
THEOREM RequestsAnswered ==
    ASSUME TimeoutMode = "dequeue_timeout", SendDefaultOnEmpty
    PROVE  Spec => []EveryRequestAnswered
<1> DEFINE Inv == EveryRequestAnswered /\ CachedHasData
<1>1. Init => Inv
  BY DEF Init, EveryRequestAnswered, CachedHasData, NoCache
<1>2. QueueInv /\ Inv /\ [Next]_vars => Inv'
  <2> SUFFICES ASSUME QueueInv, Inv, [Next]_vars
               PROVE  EveryRequestAnswered'
    BY CachedHasDataStep
  <2>1. ASSUME NEW b \in Arms, RequestFromCache(b)
        PROVE  EveryRequestAnswered'
    <3> DEFINE s == arm_caches[b].item
    <3>1. s # 0 /\ s \in Seqs
      BY <2>1, ConstantsAssumption DEF RequestFromCache, QueueInv, TypeOK, Cache, Seqs
    <3>2. RequestItems(b)[s].data # NoData
      BY <3>1, FillsKeepParts DEF SameParts, CachedHasData
    <3>3. arm_statuses' = [arm_statuses EXCEPT ![b] = "DATA_SENT"]
      BY <2>1, <3>2 DEF RequestFromCache
    <3> QED
      BY <3>3 DEF EveryRequestAnswered, QueueInv, TypeOK
  <2>2. \A a \in Arms : \A p : DequeuedStatus(a, p) # "NO_DATA_TO_SEND"
    BY DEF DequeuedStatus
  <2>3. CASE DequeueStep
    BY <2>3, <2>2 DEF DequeueStep, HandleDequeuePointers, EveryRequestAnswered
  <2>4. ASSUME NEW b \in Arms, RefreshAfterSend(b)
        PROVE  EveryRequestAnswered'
    BY <2>4, <2>2 DEF RefreshAfterSend, EveryRequestAnswered, QueueInv, TypeOK
  <2>5. CASE LegacyStep \/ DualStep
    BY <2>5 DEF LegacyStep, DualStep, PlcCommand01, PlcCommand11, PlcCommand12,
                IngestCameraData, EnqueueItem, StoreCameraData, EnqueuePair,
                EnqueuedStatus, cacheVars, EveryRequestAnswered
  <2>6. ASSUME NEW b \in Arms,
               RequestWithoutCache(b) \/ CompleteWithoutCache(b) \/ CompleteFromCache(b)
        PROVE  EveryRequestAnswered'
    BY <2>6 DEF RequestWithoutCache, CompleteWithoutCache, CompleteFromCache,
                EveryRequestAnswered, QueueInv, TypeOK
  <2>7. CASE UNCHANGED arm_statuses
    BY <2>7 DEF EveryRequestAnswered
  <2> QED
    BY <2>1, <2>3, <2>4, <2>5, <2>6, <2>7, ConstantsAssumption
       DEF Next, ArmStep, ArmDataRequest, ArmCompletion, Arms, SendN, SendD,
           vars, cacheVars
<1> QED
  BY <1>1, <1>2, QueuesAndCachesConsistent, PTL DEF Spec

-----------------------------------------------------------------------------
(* What the display shows of an arm and the arm's cache change together.   *)

StatusHasCache(a) ==
    arm_statuses[a] \in {"WAITING_FOR_REQUEST", "DATA_SENT", "TASK_COMPLETED"}
        => arm_caches[a] # NoCache

(* A dequeue shows a prepared task only with the cache it just made.       *)
LEMMA DequeuedStatusHasCache ==
    ASSUME TypeOK, NEW a \in Arms, NEW p,
           DequeuedStatus(a, p) # "NO_DATA_AVAILABLE"
    PROVE  DequeuedCache(a, p) # NoCache
<1>1. Found(a, p) /\ Chosen(a, p) # 0
  BY DEF DequeuedStatus
<1> QED
  BY <1>1 DEF DequeuedCache, NewCache, NoCache

(* No step of any thread shows a task of an arm without a cache.           *)
LEMMA StatusHasCacheStep ==
    ASSUME TypeOK, [Next]_vars, NEW a \in Arms, StatusHasCache(a)
    PROVE  StatusHasCache(a)'
<1>1. ASSUME NEW c, NEW p, NEW base, EnqueuePair(c, p, base)
      PROVE  StatusHasCache(a)'
  BY <1>1 DEF EnqueuePair, EnqueuedStatus, StatusHasCache
<1>2. CASE LegacyStep \/ DualStep
  BY <1>1, <1>2 DEF LegacyStep, DualStep, PlcCommand01, PlcCommand11, PlcCommand12,
                    IngestCameraData, EnqueueItem, StoreCameraData, cacheVars,
                    StatusHasCache
<1>3. ASSUME NEW p, arm_caches'[a] = DequeuedCache(a, p),
             arm_statuses'[a] = DequeuedStatus(a, p)
      PROVE  StatusHasCache(a)'
  BY <1>3, DequeuedStatusHasCache DEF StatusHasCache
<1>4. CASE DequeueStep
  BY <1>3, <1>4 DEF DequeueStep, HandleDequeuePointers, StatusHasCache
<1>5. ASSUME NEW b \in Arms, ArmStep(b)
      PROVE  StatusHasCache(a)'
  <2>1. /\ arm_caches \in [Arms -> Cache]
        /\ arm_statuses \in [Arms -> ArmStatus]
    BY DEF TypeOK
  <2>2. CASE RefreshAfterSend(b)
    <3> DEFINE last == last_dequeue_pointers[b]
    <3>1. CASE UNCHANGED <<arm_caches, arm_statuses>>
      BY <3>1 DEF StatusHasCache
    <3>2. CASE /\ arm_caches' = [arm_caches EXCEPT ![b] = DequeuedCache(b, last)]
               /\ arm_statuses' = [arm_statuses EXCEPT ![b] = DequeuedStatus(b, last)]
      BY <2>1, <3>2, <1>3 DEF StatusHasCache
    <3> QED
      BY <2>2, <3>1, <3>2 DEF RefreshAfterSend
  <2>3. CASE RequestWithoutCache(b) \/ CompleteWithoutCache(b)
    BY <2>1, <2>3 DEF RequestWithoutCache, CompleteWithoutCache, StatusHasCache
  <2>4. CASE RequestFromCache(b) \/ CompleteFromCache(b)
    <3>1. /\ arm_caches[b] # NoCache
          /\ \A d : [arm_caches[b] EXCEPT !.served = d].item = arm_caches[b].item
          /\ [arm_caches[b] EXCEPT !.confirmed = TRUE].item = arm_caches[b].item
          /\ arm_caches[b].item # 0
      BY <2>1, <2>4, ConstantsAssumption
         DEF RequestFromCache, CompleteFromCache, Cache, NoCache, Seqs
    <3>2. arm_caches'[b] # NoCache
      BY <2>1, <2>4, <3>1 DEF RequestFromCache, CompleteFromCache, NoCache
    <3>3. b # a => arm_caches'[a] = arm_caches[a] /\ arm_statuses'[a] = arm_statuses[a]
      BY <2>1, <2>4 DEF RequestFromCache, CompleteFromCache
    <3> QED
      BY <3>2, <3>3 DEF StatusHasCache
  <2>5. CASE SendN(b) \/ SendD(b)
    BY <2>5 DEF SendN, SendD, cacheVars, StatusHasCache
  <2> QED
    BY <1>5, <2>2, <2>3, <2>4, <2>5 DEF ArmStep, ArmDataRequest, ArmCompletion
<1>6. CASE UNCHANGED vars
  BY <1>6 DEF vars, cacheVars, StatusHasCache
<1> QED
  BY <1>2, <1>4, <1>5, <1>6, ConstantsAssumption DEF Next, Arms

(* The display never shows a prepared, sent or finished task of an arm     *)
(* that has no cache, through dequeues, requests and evictions.            *)
THEOREM StatusesHaveCaches == Spec => []TaskStatusHasCache
<1>1. Init => TaskStatusHasCache
  BY DEF Init, TaskStatusHasCache
<1>2. TypeOK /\ TaskStatusHasCache /\ [Next]_vars => TaskStatusHasCache'
  BY StatusHasCacheStep DEF TaskStatusHasCache, StatusHasCache
<1> QED
  BY <1>1, <1>2, TypeCorrect, PTL DEF Spec
=============================================================================
