# Verification of the spray line controller

The repository holds two programs for one line: a PLC announces parts, a 2D and
a 3D camera deliver their data, and two robot arms spray them. One program is
the Python controller under `队列管理/`, the other its C++/Qt successor under
`src/`. This project models them in TLA+, checks the models with TLC and proves
theorems about them with TLAPS. Covered are the control of the Python program,
from its sockets to its queue and from its start to its end, and the dual-camera
flow of the C++ program with its queue and its robot.

All Python paths below are relative to `队列管理/src/`, all C++ paths to `src/`, both
under the repository's root.

## 1. Inventory

### The Python controller (one process, many threads)

| Part | State | Operations | Called by |
|---|---|---|---|
| Queue manager, `core/queue_manager.py` | two queues pointer -> item, a dequeue cache, position and last pointer per arm, the waiting slot of the legacy flow | enqueue, 01/11/12, store/ingest camera data, dequeue frame, data request, completion | every receiver thread; one lock |
| Enqueue workflow, `core/enqueue_workflow.py` | open cycles by count, the READY window, receive buffers | 11, 12, 2D READY/result, 3D frame, Done | PLC enqueue thread, 2D and 3D receivers; a lock of its own |
| PLC handler, `core/plc_handler.py` | connections of the two ports, last pointers | framing, change detection, feedback to all connections | one thread per connection |
| Camera server, `core/camera_server.py` | one client per channel | accept, receive, send, disconnect | accept and receiver threads |
| Arm controller, `core/arm_controller.py` | one connection per arm, active or passive | connect, attach, receive, split commands, send | one receiver per arm, monitor |
| Wiring, `main.py` | the flow mode, what runs | callbacks from the I/O parts to the queue and the workflow | - |
| Data parser, logger, dashboard, settings | none that matters to the line | conversions and displays | - |

What is hard here: each thread runs a handler that takes and releases locks
several times and sends in between; a cache refers to an item *object* while
everything else goes by pulse pointer, and pointers and counts are reused; the
camera, the PLC's pointer and the arm's request race for the same part; sends
fail and are rolled back; two settings (`timeout_mode`, `enqueue_flow_mode`)
change which of these races matter.

What makes it correct: the two arms always work from the same part; the queue
is bounded and nothing refers to what was evicted; an arm that asks is answered;
finished data does not change; the PLC gets Done once, and only for a part whose
data both arms have; a 3D end is sent once.

### The C++ controller (one Qt event loop)

| Part | State | What makes it correct |
|---|---|---|
| `core/QueueManager.cpp` | queue, cache, last pointer per arm | a task belongs to the part of its pointer, also when the pointer is reused or wraps |
| `core/DequeueCoordinator.cpp` | none | each accepted task gives one XN and each finished one XD |
| `core/EnqueueWorkflow.cpp` | cycles, window, buffers | as in Python; a 12 without a cycle changes nothing |
| `core/LegacyCameraWorkflow.cpp` | waiting slot, count -> pointer | a payload goes to the part it was taken of |
| `robot/FakeRobotController.cpp`, `robot/duco/` | pending tasks and a busy flag per arm, connection state | an arm's tasks run one at a time, in order; each ends, and with the gun closed |
| `robot/MotionPlanner.cpp`, `MotionRecipeTable.cpp` | recipes | only plans within the recipe's limits |
| `protocol/`, `domain/Payloads.cpp` | none | framing loses and invents no frame |
| `io/plc/`, `io/camera/` | socket lists | feedback goes to the connection in use |
| `app/Application.cpp` | the parts | a failed start leaves nothing running |
| `diagnostics/`, `ui/` | logs, health, widgets | displays |

What is hard here: no threads, but timers and signals interleave with I/O events, so a task
outlives the cache it was made from, a disconnect or a fault. A motion of the real robot runs
inside an event, so everything else waits for it.

## 2. Modules

| Module | Models | Extends or instantiates |
|---|---|---|
| `QueueManager` | `core/queue_manager.py` and the threads that call it | - |
| `EnqueueWorkflow` | `core/enqueue_workflow.py`, composed with the queue | `QueueManager`, `PartFlow` |
| `PartFlow` | abstract: what that flow promises for a part | - |
| `TcpLink` | connections, as all socket code of the Python program uses them | - |
| `CameraLink` | a channel of `core/camera_server.py` | `TcpLink` |
| `ArmLink` | the link to an arm, `core/arm_controller.py` | `TcpLink` |
| `DequeuePort` | the dequeue side of `core/plc_handler.py`, composed with the queue | `TcpLink`, `QueueManager` |
| `CameraFrames` | heartbeat filter, receive buffers and parsers of the cameras' bytes | - |
| `Lifecycle` | start, stop and signals: `main.py` and the servers of `plc_handler.py` | - |
| `LineQueue` | `core/QueueManager.cpp` | - |
| `LineRobot` | `DequeueCoordinator`, both robot controllers, motion worker, motion plan | `LineQueue` |
| `SprayLine` | `core/EnqueueWorkflow.cpp`, `Application::start` and `stop`, all of it together | `LineRobot`, `TaskLife` |
| `TaskLife` | abstract: what becomes of a robot task | - |
| `MC...` | sets that a .cfg cannot write | the module of that name |
| `...Proofs` | theorems; `CameraProofs` those of `CameraLink` and `CameraFrames` | the module of that name, TLAPS |

### QueueManager

One section under the manager's lock is one action. `HandleDequeuePointers`
covers both arms because the code handles a whole frame in one section.
`handle_arm_data_request` takes the lock twice and sends in between, so it is
`ArmDataRequest`, `SendN` and `RefreshAfterSend`, with the arm's receiver thread
at `pc[a]`; other threads act in between. `handle_arm_completion` is
`ArmCompletion` and `SendD`.

Items are objects, named by `enqueue_seq`: `items[a][s]` is arm `a`'s object of
enqueue `s`, `slot[a][p]` the object queued at pointer `p` (0 for none), and
`arm_caches[a].item` the object a cache refers to. A reused pointer leaves the old
object to the cache. `Referenced` forgets objects nothing refers to, as the
garbage collector does, which also keeps the state space small.

`last_dequeue_pointers[a] = None` and pointer 0 are told apart as the code does
(`get(arm, 0)`). `Flow` chooses between the callers `main.py` wires up.
`DefaultPayload` keeps the count that the default carries, with Python's
`None` written as 0, as `_default_payload_for_arm` does.

Abstracted: payload bytes become the frame they came from; the legacy camera
text that names the arm is the choice of the arm; status strings of items,
history, statistics, time stamps, `arm_last_confirmed_count` and
`arm_prefetch_warmed` (whose two branches return the same) are left out.

### EnqueueWorkflow

Three threads: the PLC's enqueue connection and the 2D receiver, which share
`_send_3d_end` (`caller["plc"]`, `caller["2d"]`), and the 3D receiver with the frame
it works on (`frame3d`). Each locked section, call of the queue manager and send
is an action; `StartEnqueue` and `StoreSegment` conjoin the actions of
`QueueManager`. A send may fail when `SendMayFail` holds. For a camera the code's rollback
follows; a Done that fails (`DoneSendFails`) is lost, since its cycle is already removed and the
result of `send_enqueue_feedback` is not looked at.

The world around it: the PLC sends a part's 12 after its 11; the 2D camera answers
a count it was asked for, once; the 3D camera sends frames of a count it got the
end of, with a valid segment of any set of arms, arm 1's first. `starts`, `ends`,
`frames3d`, `ends3d`, `dones` and `asked2d` record these and belong to no code.
A 3D payload shows its count (`Frames = Counts`), so that properties can tell whose
data an item has.

Of the queue's other callers, `QueueStep` keeps the dequeue frame and the
completion. A data request changes neither queue nor items there: in
`dequeue_timeout` mode the default is in place when the cache is made, and its race
guard does what a dequeue frame does.

`PartFlow` says what these threads amount to for one part: announced, told the end once, data of
each arm collected, complete, and then done, or lost with its Done. The refinement maps a cycle,
with the thread that is just working on it, to a stage (`ImplementsPartFlow`).

### TcpLink, CameraLink, ArmLink, DequeuePort

A connection is a number that is used again when both ends are gone, with the state of our
end, the state of the device's end, and the batches on the way. Devices connect,
write, close, or vanish and are missed later. The two link modules and the port differ in
what the program does with it, and in the granularity the locks give it:

* `CameraLink`: accept thread, receivers, senders and `stop()` change the client
  under one lock and close sockets outside it. Each locked section is a step, each close
  another. `connected` and `client_socket` always change together and are one variable.
* `ArmLink`: only the linking thread (accept or reconnect, depending on the mode)
  takes the arm's lock, so the lock excludes nobody, and every read or write of the
  shared status and socket is a step of its own. Commands of a batch are extracted, repeated
  requests dropped, and each answered through `send_data` with its BUSY status. The callback
  raises nothing: `main.py`'s reaches only the queue manager, which catches what its feedback
  raises (`core/queue_manager.py:1136`), and `send_data`, which catches its own.
* `DequeuePort`: one thread per connection, a table of connections under the PLC's
  address, and the change filter in front of the queue manager's own.

### CameraFrames

The bytes of a channel are a sequence of symbols, and a `recv` takes any prefix of what is
on the way. The buffer survives a reconnect, as in the code. `Round` is one round of the parsers'
loop and `Drain` the loop, a recursive function over the rounds. What the cameras send is not in the
repository except for its parsers and tests: `MessagesAssumption` names the shapes of the messages
(READY, `(count)E`, `(count,type)E`, `(flag,count..)EA(flag,count..)E`, heartbeats), TLC
checks it of the messages of the run, and the theorems need nothing else of them.

### Lifecycle

The main thread is a stack of calls, because a signal runs `shutdown` on top of
whatever it is doing; each statement of start, monitoring and stop that takes a lock, starts
a server or closes something is a position in it. Other parts than the PLC handler are
started and stopped as a whole.

### LineQueue, LineRobot, SprayLine

One Qt event loop: a handler is a step. A robot call that blocks is not: `tryStartNext`
of the Duco controller runs a whole motion in an event, so `worker` says where it is, its
segments are steps, and while `worker.at` is not `"idle"` no other event is taken (`LoopFree`).
The fake controller works with timers instead. `robot` is the configuration: fake, Duco
that only connects on start, Duco that is prepared.

The Duco client is external: a call on an open client succeeds or fails, and one that
fails may have been carried out (`SetOutput`). `gun` is the output at the robot, `answered`
whether the last command to it was confirmed. `connectRobot` and `prepare` are given by
what they may leave (`Connects`, `Prepares`): the motion client is the first of four to be opened,
so a start that fails may leave it missing, closed or open.

Payloads are what their text amounts to for the planner: a plan, no segments, or an error.
Every payload with a plan has the same four segments in the model (approach, open, line,
close); the number of lines changes nothing about the output, and a recipe without an I/O
only leaves segments out.

`TaskLife` is the promise: an arm works on one task at a time, in order, and every
task ends. `SprayLine` refines it by sharing `tasks`, the list of tasks given with what the
controller signalled of them.

## 3. Runs

The sizes are distinct states; all passing runs are exhaustive over their instance.

| Run | Question | Instance | Size |
|---|---|---|---|
| `QueueDual` | Are requests answered, finished data kept, caches brought to the queued part? | 3 pointers, length 2, 3 enqueues, 1 arm, `dequeue_timeout`, dual flow | 76,145 |
| `QueueLegacy` | Are queues paired and bounded, caches and statuses sound? | the same with 4 enqueues, prefetch 1, `cycle_timeout`, legacy flow | 697,899 |
| `Workflow` | End once, Done once, window live, Done tried at last, and `PartFlow` implemented? | 2 parts, failing sends, 2 frames per count | 166,435 |
| `WorkflowDequeue` | Does Done mean both arms have the data? | 1 part, both arms dequeue and finish meanwhile | 182,529 |
| `ArmLink` | One receiver, no arm busy for good, open when connected, reconnected? | both modes, 2 connections, 2 receivers, 1 batch, `stop()` | 878,043 |
| `CameraLink` | One receiver, open when connected, served again? | 2 connections, 2 receivers, 1 sender, `stop()` | 610,701 |
| `DequeuePort` | Do the filters agree, does feedback reach the PLC, is it served again? | 2 connections, 2 addresses, both arms, 1 part | 1,345,498 |
| `CameraFrames` | Do cut and joined bytes change what the workflow sees? | 3 messages out of 7, 1 reconnect | 14,702 |
| `Lifecycle` | Is a start undone, is every connection owned, does the program end? | 2 connections, 1 signal, every step of a start may fail | 623,496 |
| `SprayLine` | Guns closed, Done true, tasks live as promised? | 2 counts, 3 pointers, 1 item per arm, 3 tasks, 5 events, all robots | 539,836 |
| `WorkflowReusedCount`, `ArmLockedOut` | the two defects below | the smallest instance that shows it | violated |

The bounds. *Queue:* length 2 with three pointers and three enqueues gives an overflow of a part
that is cached, requested or finished, and a reused pointer; the fourth enqueue of `QueueLegacy`
is what it takes to evict a part that a prefetch has cached while the part that triggered it stays
queued. One arm asks, because the arms share only the queue, and enqueue and eviction act on both
in every run; `WorkflowDequeue` has both.
*Workflow:* two parts are enough for the window and the end, which are decided per count and only
contend through the window and the PLC's thread.
*Links:* two connections are the old and the new one, and two receivers the old and the new
thread; a number is used again once free, so there is no bound on reconnects. A batch on the way
per connection lets a receiver be inside its callback when the link breaks.
*Frames:* three messages with every way to cut them; the second follows a cut-off one and the
third shows whether the damage ends. *Lifecycle:* one signal; a second can only come while the
handler of the first runs, and waits or fails as the first.
*SprayLine:* a 3D frame has at most one segment per arm, a bound on what the camera sends. One
item per arm means that every second part trims; three tasks on two arms make one wait behind
another; five events are two starts of parts, a frame in two halves and one more, or a dequeue, a
stop and a restart. Three pointers with offset 1 let the prefetch wrap.

`MaxEnqueue`, `MaxStarts`, `MaxEnds`, `MaxFrames`, `MaxBatches`, `MaxMessages`, `MaxReconnects`,
`MaxSignals`, `MaxTasks` and `MaxEvents` bound how often the outside world acts, and none bounds
what the code does with it. Runs whose bounded world may have nothing more to send, and
runs of a program that may stop, do not check deadlock; the queue's and the port's do.

### Fairness, and what it rests on

* `QueueDual`: weak fairness of the steps that end a handler already running (no lock is held
  across them), and strong fairness of the arm's data request: a robot that has nothing to do
  keeps asking. That is an assumption about the robots.
* `Workflow`: weak fairness of the 3D receiver; the refinement of `PartFlow` needs no more.
* `ArmLink`, `CameraLink`, `DequeuePort`: every thread is scheduled (daemon threads in loops with
  time-outs), and the device does its part: a robot that is tried again and again accepts in the
  end (strong, as a try may find it away), a camera or PLC without a connection connects, a
  connection that is gone is noticed, a camera goes on sending its heartbeats, and a device gives
  up a connection that the program closed. None is taken to give up one that is open and not read:
  TCP goes on confirming what it sends. Closing a socket wakes the thread that waits on it: true
  on Windows, which `config/settings.py:18` names as the platform, and not on Linux.
* `Lifecycle`: weak fairness of the main thread and the servers' threads.
* `SprayLine`: timers fire and a robot call returns (weak); a posted `tryStartNext` has its turn:
  strong, since the loop may be busy with the other arm again and again, but Qt's queue of events
  is first in, first out.

### What the violations show

* `WorkflowReusedCount`: an 11 that reuses the count of an open cycle replaces it
  before it enqueues the part. A 3D frame of the old part, handled in between, marks
  the new cycle, and Done is sent for a part whose items are empty.
* `ArmLockedOut`: in passive mode the accept thread probes the old socket
  (`core/arm_controller.py:323`) while that socket's receiver is closing it. The exception
  leaves `_accept_loop` by its `except OSError: break`, and the arm's port is not
  accepted on any more until the program is restarted.

### Met on the way

Differences between what the code does and what its documents or comments say, seen while
modelling; the models follow the code. In the Python program:

* `store_camera_data` tests `timed_out` (`core/queue_manager.py:523`), which nothing sets: 3D
  data that comes after the default was filled in overwrites it, though the program's `README.md:65` and
  `tests/test_core_modules.py:245` say late data is dropped. So two requests of one cache
  may get different data. (`CompletedDataFrozen` is about parts that are finished.)
* In `cycle_timeout` mode a 01 fills the slot that waits with the default, not every
  empty slot of the part before, and a request that finds no data returns before the race
  guard, so the cache need not catch up.
* `CacheCatchesUp` names two ways out that the race guard, which compares pointers, does not see:
  a part that is replaced under its pointer after the arm was given it (the cache keeps the old
  object), and one that is evicted with its cache and enqueued again (there is no cache).
* An overflow deletes an arm's cache with the oldest part, also when its data was sent and not
  finished and the PLC's pointer has not moved (`core/queue_manager.py:1087`), although
  `软件数据管理流程说明.md:104` says that a sent cache stays for an arm that asks again.
* A connection without a reader. `_start_receiver` and `_start_recv_thread` start no receiver
  while the old thread is alive, which it still is after it has left its loop
  (`core/arm_controller.py:340`, `core/camera_server.py:153`). A reconnect that falls there
  is shown as connected and read by nobody, and its loss is never noticed: no thread sees it, and the
  reconnect thread only repairs arms that are not connected. That is against the comment at
  `core/arm_controller.py:129` (links that break are restored) and the display that
  `软件数据管理流程说明.md:291` promises. `ActiveReconnects` and `CameraServedAgain` exclude this
  place as `OldOneLeaves`; without that disjunct TLC finds it in both runs.
* The docstring of `_extract_commands` lists `ok` as a completion (`core/arm_controller.py:390`),
  and its expression (line 405) does not know the word. Of data, ok, data in one `recv` the second
  request is dropped as a repetition. `BatchAsksOnce` counts the completion `1` only.
* A Done whose send fails is lost (`core/enqueue_workflow.py:497`): the cycle is gone, and the PLC
  waits. `CompleteLeadsToDone` says that a Done is tried.
* In passive mode the clean-up of a receiver takes no lock and may close the connection that
  the accept thread has just attached; `ConnectedIsOpen` and `ActiveReconnects` are about active mode.
* A repeated 12 after the Done creates the cycle anew and permits a second Done.
* READY in brackets whose last characters come in a later `recv` is taken as READY and its
  rest spoils the next message (`core/enqueue_workflow.py:393`, against the comment at 377).
  The run uses the bare word.
* A heartbeat byte joined to data stays in the data; a 3D frame cut off by a
  disconnect may be completed by the next one's bytes (`OneLostPerReconnect` bounds the damage).
  A 2D result that was cut off blocks its channel: the READY of a new connection, sent without a
  newline, is appended to it and never found (`core/enqueue_workflow.py:380`).
* When the PLC has two connections that overlap, an old frame may be handled after a
  newer one: `LayersAgree` excludes it, from then on, and so says nothing of two threads that
  handle frames at once.
* A signal while the main thread holds one of the handler's locks makes `shutdown` wait for
  itself (`main.py:114`, `core/plc_handler.py:447`), and `stop()` may raise because the table it walks
  is changed by a thread (`core/plc_handler.py:456`); what is not stopped then is what `raised`
  allows in `StartIsUndone`.

In the C++ program:

* After a failed motion the controller is in fault, and `tryStartNext` goes on with what is
  pending (`robot/duco/DucoRobotController.cpp:168`); `duco-task-executor-design.md:115` forbids
  motion on a robot that is not prepared. The same design, at line 40, keeps motion out of the I/O
  callbacks; here it blocks the event loop, and with it the emergency stop.
* The emergency stop's dialog (`ui/HmiCommandPort.cpp:35`) says that it stops the robot
  and clears the queue; `Application::stop` closes the clients and does neither.
* `requestStartSystem` comments "start if stopped" and does not check: a second start fails on the
  ports, and its roll-back disconnects the robot.
* `DucoMotionWorker::execute` (line 24) tries to close a gun only when the opening command
  was confirmed; after one that was carried out and not confirmed the gun stays open. The design
  (`duco-task-executor-design.md:173`) asks for the attempt after any motion or I/O command that failed.
  `GunClosed` leaves out outputs whose last command was not confirmed.
* A task with nothing to spray overtakes the pending ones; a part that was sprayed stays in the queue;
  a Done whose send failed is forgotten with its cycle.

## 4. Theorems

`[]P` is for every behaviour of the module's specification and every value of the constants
that its assumptions allow; TLC has every property below too, except the unnamed ones.

| Module | Theorem | Property | Also assumes |
|---|---|---|---|
| `QueueManagerProofs` | `TypeCorrect` | `[]TypeOK` | - |
| | `QueuesPaired` | `[]PairedQueues` | - |
| | `CachesQueued` | `[]CachedPointerQueued` | - |
| | `QueueBounded` | `[]CapacityRespected` | - |
| | `StatusesHaveCaches` | `[]TaskStatusHasCache` | - |
| | `SamePartForBothArms` | both arms of a frame get the same part | - |
| | `FinishedDataFrozen` | `CompletedDataFrozen` | dual flow, `drop_late_camera_data` |
| | `RequestsAnswered` | `[]EveryRequestAnswered` | `dequeue_timeout`, default on empty request |
| `EnqueueWorkflowProofs` | `OneEndPerPart` | `[]EndSentOnce` | `OnePass` |
| | `WindowStaysLive` | `[]WindowIsLive` | `OnePass` |
| | `OneDonePerPart` | `[]DoneOnce` | `OnePass` |
| | `DoneIsTrue` | `[]DoneHasBothArms` | `OnePass`, `DistinctParts`, dual flow, both arms active |
| | `FlowTypeCorrect` | `[]WorkflowTypeOK` | dual flow, both arms active |
| | `ImplementsFlow` | the safety part of `PartFlow` | `OnePass` |
| | `FlowUsesQueue` | `QueueManager`'s `Spec` | dual flow, both arms active |
| `CameraProofs` | `LinkTypeCorrect` | `[]CameraTypeOK` | - |
| | `ReceiverAlone` | `[]OneReceiver` | - |
| | `ClientIsOpen` | `[]ConnectedIsOpen` | - |
| | `BufferInStep` | buffer and wire are whole messages, the first perhaps begun or cut off | - |
| | `PiecesHarmless` | `[]PiecesDoNotMatter` | - |
| | `OneLost` | `[]OneLostPerReconnect` | - |
| `ArmLinkProofs` | `ReceiverAlone` | `[]OneReceiver` | - |
| | `NeverStaysBusy` | `[]BusyOnlyWhileSending` | - |
| | `ConnectedStaysOpen` | `[]ConnectedIsOpen` | - |
| | `ArmTypeCorrect` | `[]LinkTypeOK` | - |
| | `AskedOnce` | `[]BatchAsksOnce` | - |
| `DequeuePortProofs` | `PortTypeCorrect` | `[]PortTypeOK` | - |
| | `PortDrivesQueue` | `QueueManager`'s `Spec` | dual flow, frames leave arms that are off at 0 |
| | `FeedbackReaches` | `[]FeedbackReachesReader` | - |
| | `FiltersAgree` | `[]LayersAgree` | - |
| `LifecycleProofs` | `StartUndone` | `[]StartIsUndone` | - |
| | `ConnectionsHaveOwners` | `[]ConnectionsOwned` | - |
| `LineProofs` | `GunsAreClosed` | `[]GunClosed` | - |
| | `DoneIsInQueue` | `DoneHasBothItems` | - |
| | `TasksLive` | the safety part of `TaskLife` | - |
| | `LineTypeCorrect` | `[]LineTypeOK` | - |

`OnePass` is the PLC's regular behaviour, one 11 and one 12 per part; `WorkflowReusedCount`
shows that it is needed. `DistinctParts`: parts differ in count and in pointer.

**Queue.** `TypeOK` is inductive (`TypeStep`). None of `PairedQueues` and
`CachedPointerQueued` is: an enqueue takes the object `seq + 1`, which must be unused
and newer than all others, hence `ObjectsInOrder`; the eviction picks its pointer
from arm 1's queue, so dropping it for both needs the pairing; and a cache keeps its
pointer queued only because the eviction drops it by its *item's* pointer. `QueueInv`
is the conjunction of these with `TypeOK`, and `QueueStep` its inductive step.
`SamePartForBothArms` follows in one step from the pairing. `QueueBounded` needs that a full
queue has an oldest part (a well-founded minimum over the objects' numbers), so that an overflow really
evicts. `FinishedDataFrozen` follows from what a step may do to data that is there
(`DataSteps`); in the legacy flow it fails, since `ingest_camera_data` does not look at `dequeued`.
`RequestsAnswered` adds that a cached object has data (`CachedHasData`).

**Workflow.** A thread looks its cycle up anew in every section, so the invariant says what a
thread may rely on in between. `WorkInv` types the threads and gives each at work a part;
`ControlInv` orders a part's history (`InOrder`), ties the end and the Done to who has claimed
them (`OneEnd`, `OneDone`) and the window to an open cycle. From it come the single end, the
live window, the single Done and the refinement. `PartInv` ties what a cycle has collected to
the objects in the queue, and uses `FlowUsesQueue` to have the queue's own invariants.

**Links.** For a camera, a receiver is started only after the old one was found dead
(`ReceiverInv`), and a thread that closes a socket took it out of the client's state under the
lock before (`SocketInv`). For an arm in active mode there is no such lock: `ActiveInv` says
that the status divides the socket between receiver and reconnect thread. In passive mode
nothing does, and the theorem does not claim it. None of these theorems says that a connection
has a receiver: it need not (see "Met on the way"). `AskedOnce` is about a batch of any length:
`ExtractCommands` is the loop of `_extract_commands` as a recursive function, a least
counterexample shows that the function exists (`KeptExists`) and that every round leaves
commands without two requests in a row (`CommandsExtracted`), and handing on the first one
keeps them so.

**Frames.** `PiecesDoNotMatter` and `OneLostPerReconnect` say nothing of the buffer, so they are
not inductive. `FramesInv` says what the buffer holds. While the connection holds (`Followed`):
the bytes of the buffer, followed by those on the wire, are whole messages one behind the other
(`Stream`), the buffer has the last byte of none of them, READY is the last word on the 2D channel
as long as it is unanswered, and what was handed over is what was received. READY must be last
because it has no closing mark: `_pop_2d_frame_locked` takes it only as the whole buffer. A
message is kept as cells, its bytes with the event on the last one, so a parser finds a frame
exactly where the first event is (`PopFrame`) and none where there is no event (`PopNothing`);
what it parses to is that event (`SegmentParsed`, `ResultParsed`). So each round of a drain takes
one whole message, and as many rounds as there are bytes take all of them (`DrainText`, a least
counterexample over the rounds). A piece that is dropped as a heartbeat holds heartbeats only, and
a stream stays one without them (`Dropped3d`).

A lost connection leaves the beginning of a message in the buffer. On the 3D channel what comes next
does not join with it (`Joined3d`), but for one place: a buffer that ends between the two segments
takes the first segment of the next frame for its second one (`Spoiled`, `MixedFrame`). The next
frame is then lost and a mixed one is handed over; after it the stream goes on as the camera sent it. So
the buffer goes with a text `d` that differs from the wire `w` in two places at most (`Skips`), and the
frame to be lost is counted ahead (`Due`). On the 2D channel a result that was cut off stays in the
buffer for good (`Stuck`): READY has no closing mark, so no frame is found, the camera is not asked
and sends nothing that would close the buffer; what is lost is the READY of each connection. `Lost`
counts the received messages that are missing among those handed over, so each step changes it
by what it appends to either (`HandedMore`, `ReceivedMore`, `BothMore`, summed up in `Tally`), and with what
is due it stays within the number of connections lost.

**Port.** `PortDrivesQueue` maps every step of the port to a step of the queue or a stutter, so
what is proved of the queue holds behind it. `DictionaryInv`: an entry of the table has a reader
of that address, nothing refers to a connection that waits to be accepted, and a connection that
still reaches the PLC is entered; an old thread that clears the entry of a newer connection closes
that one too, which is why feedback misses no connection that is read. `FiltersInv`: while no
frame has overtaken another, at most one thread handles a frame, that frame is the last that
arrived, and each filter has caught up with it once the thread is past it.

**Lifecycle.** Only the call on top of the main thread's stack runs, and when a signal's handler
ends the program the calls below it never go on. So `StartInv` speaks of the top call alone: while
something may run the modules are there, and behind each statement of the stop what that
statement stops is down. `ConnectionsOwned` is inductive once it is known that each port's
accept thread is started only once (`AcceptorsFresh`): a second one would forget what the first holds.

**Line.** `GunInv`: an output that was confirmed open is one the worker has in `sprayIoActive`,
which is true exactly from the segment behind the opening one to the closing one; so each way out
closes it first. An opening command that was not confirmed is
outside of it. `FlowInv`: the two arms' queues hold the same parts in the same order
(so trimming takes both items of a part or none), and an arm that is ready has its data as long as
its part is queued. When the second arm's data is stored, the part is queued for it, hence for the
other arm, whose data is therefore there. `LifeInv`: an arm's queue and the task it runs are
exactly its tasks that are given and not ended, the running one first, then in the order they were
given in; and the motion worker runs the only accepted task. So the task that is accepted next is
the oldest one, no other is accepted then, and no task is signalled after its end. The types
follow from the three invariants with `RestInv`, which bounds the worker's place in the plan and
says that a part with both arms ready has no cycle any more.

Only model-checked: liveness (`CacheCatchesUp`, `CompleteLeadsToDone`, `ActiveReconnects`,
`CameraServedAgain`, `PlcServedAgain`, `StopReleasesAll`, `EndsUnlessItWaits` and the fair
refinements), which is beyond the prover. Every invariant that a run checks is proved.

## 5. Not modelled

* Parsing and formatting of messages (`utils/data_parser.py`, `protocol/`, `domain/Payloads.cpp`) and
  trajectories: data. The models take what parses and say what does not.
* `core/camera_handler.py` (not wired up), the Modbus client (not constructed by the application),
  `LegacyCameraWorkflow.cpp` (a lookup of the pointer by count, then the same `storeCameraData`).
* Sockets of the C++ endpoints: which connection feedback goes to, and that one `readyRead` is
  taken for one frame (`io/plc/PlcEndpoint.cpp:80`).
* `stop`, `pause`, `resume` and `readStatus` of the robot controllers: no caller in the program. The
  client factory makes only clients that fail; the client is modelled from its interface.
* The acknowledgements on the Python enqueue port, heartbeats and history of the PLC handler.
* Dashboard, logging, exceptions, diagnostics, widgets, the React page, the device simulator,
  statistics: no part in the line's behaviour.

What could come next: the socket lists of the C++ endpoints.
