# Formal models of OpenTracker, OpenVideo and the Studierstube kernel

This directory holds TLA+ models of the part of the Studierstube 4.4 tree that decides what
happens when: the main loops, the data-flow graph and the network modules of OpenTracker, the loop and the frame
hand-over of OpenVideo, and the component manager of Studierstube that joins them. Every definition is translated from the C++ source;
`PROJECT.json` ("map") gives the lines each one stands for.

## 1. The system

Studierstube is an augmented-reality framework. Three of its libraries carry its own core logic.

| part | where | state it keeps | operations |
|---|---|---|---|
| OpenTracker `Context` | `opentracker/src/core/Context.cxx` | modules, graph, `_mutex`, `stoploopflag`, the four rendezvous flags and their two mutexes | `run`, `runAtRate`, `runOnDemand`, `loopOnce`, `dataSignal`, `consumedWait`, `stopLoop`, `copyFrom`, `addNode`, `removeNode`, ... |
| OpenTracker `ThreadContext` | `opentracker/src/core/ThreadContext.cxx` | one pending action, the dispatcher thread, the loop-end condition | `run`, `runAtRate`, `runOnDemand`, `stopLoop`, destructor |
| OpenTracker graph | `opentracker/src/core/Node.cxx`, `Graph.cxx` | nodes, parent and child lists, the traversal order | `addNode`, `remNode`, `connectNodes`, `disconnectNodes`, `updateObservers`, `pushEvents`, `pullEvents` |
| OpenTracker event queues and merging nodes | `opentracker/src/core/EventQueueImplementation.cxx`, `opentracker/src/common` | bounded event history, gate and button states | `insertAtTime`, `getEventNearTime`, ... |
| OpenTracker network | `opentracker/src/network/NetworkSinkModule.cxx`, `NetworkSourceModule.cxx` | the sender's list of addresses, multicast groups, each receiver's stations | `start`, `close`, `pullEvent`, `pushEvent`, transceiver and receiver threads |
| OpenTracker TCP server | `opentracker/src/network/TCPModule.cxx` | the list of connections and its mutex, `running` | `start`, `pullEvent`, `close`, the acceptor thread |
| OpenVideo `Manager` | `openvideo/src/core/Manager.cxx` | nodes, sorted traversal order, `updateLock`, `isRunning`, scheduler | `update`, `pause`, `resume`, `stop`, `initTraversal` |
| OpenVideo frame hand-over | `openvideo/src/core/State.cxx`, `nodes/*.cxx` | buffers with lock counters, `currentBuffer`, the synchronised pointer of each subscriber | `findFreeBuffer`, `lock`, `unlock`, `assign`, `getLocked`, `process` |
| Studierstube component manager | `studierstube/src/kernel/ComponentManager.cxx` | components to be loaded on demand, to be initialised, and initialised; applications | `addComponent`, `update`, `initComponent`, `load`, `connectComponents`, `shutDown` |
| Studierstube video and event components | `studierstube/src/components` | video users, format, the key/event bridge to OpenTracker | `registerVideoUser`, `update`, `pushEvent`, ... |

How they meet at run time:

- **Drivers, clients and the loop.** A driver thread of an OpenTracker module, or a client thread
  that calls `CallforwardModule::callForward`, stores an event in a source node and then calls
  `dataSignal()` and `consumedWait()`. The thread inside `Context::runOnDemand` sleeps until such a
  signal comes, traverses the graph under `_mutex`, and hands back an acknowledgement. Everybody who
  changes the graph (`UbitrackClient`, the parsers, `copyFrom`) takes `_mutex` as well.
- **ThreadContext and Context.** `ThreadContext` puts a thread, the dispatcher, in front of the three
  loops of `Context`: a call leaves one action, the dispatcher takes it between two loops.
  `Context::stopLoop` is not virtual, so a signal handler or the destructor sets the flag of the loop
  itself and does not pass through the dispatcher.
- **OpenVideo and its clients.** One thread is inside `Manager::run` and traverses the video graph;
  the source node writes frames into its buffers, the sink calls the subscribers; other threads (the
  render thread of Studierstube, the OpenTracker `OpenVideoModule`, GLUT) take the buffer of a
  subscriber and work with its pixels while the next frames are captured. Changing the GL context
  pauses the loop.
- **OpenTracker and other processes.** A client's receiver thread polls the sender's transceiver thread;
  the two main loops meet them under one mutex on each side. The TCP server's acceptor thread shares a
  list of connections with the main loop that sends to them.
- **Studierstube and the libraries.** The kernel's `update` and `preRender` callbacks, made by the
  scene graph's timers and by the viewer, initialise components, tell the video users, and, in the
  event component, run one synchronous OpenTracker loop; key events travel back as OpenTracker events.

### What is hard in it, and what makes each part correct

| part | hard behaviour | correct when |
|---|---|---|
| data-driven main loop | four flags and three condition variables under two mutexes, wake-ups that can be lost, a third mutex taken inside; an acknowledgement left over from the round before | one datum in flight, each one traversed, nobody starves, no traversal without a datum or a `stopLoop`, a loop that ends returns |
| ThreadContext | an action under one mutex and the flag that announces it under another; a stop that comes between two loops | no call is forgotten, the destructor passes whatever the dispatcher does, as long as nobody sleeps with `_mutex` |
| frame hand-over | a pointer read without a lock, a reference count under another lock than the pointer, a source that must find a free buffer | counters exact, no reader of a buffer that is written, frames whole and in order, capture goes on |
| OpenVideo Manager | pausing a loop that is on, waking who waits, stopping from a third thread | traversals exclude each other and pauses, pauses return, stop ends the loop |
| OpenVideo graph | diamonds and double edges of a USE configuration | the sort ends, loses nothing and puts inputs first |
| OpenTracker graph | recursive renumbering, disconnection from both sides, a removal that re-enters itself | numbers right, both ends of each connection agree, children visited first, nobody twice, nobody left out |
| network | datagrams lost and reordered; a long record in two pieces; clients that leave and come again; receiver threads against the main loop and against their own restart | one receiver thread per client, no event lost between it and the main loop, whole records, a client that polls is served, one that left is not for ever, sending ends |
| TCP server | connections that fail inside the loop over them, slow readers, a mutex held while sending, an acceptor that outlives its run | each sink's last event reaches every connection, no stream is used after it was deleted, who waits is accepted, `close` ends it |
| component manager | `init` of one component loads others while the list is walked over, and may fail at any point | each listed after its `init`, users and provider connected once, `update` deals with every entry and returns |
| event queue, merging nodes | order of time stamps, boundaries, an empty queue | the nearest event is the nearest, the queue stays sorted and bounded |

The hazards of the code, each at the line where it bites and with the properties that cover it, are
listed in `PROJECT.json` ("hazards"); those that no property covers have a note.

## 2. The modules and how they correspond to the code

One module per component; `MC<module>.tla` with its `.cfg` files instantiates it for TLC and
`<module>_proofs.tla` holds its theorems. Operators named `<Action>_<What>` are mutated forms of an
action; nothing but the mutation of a run refers to them.

| module | of | implements | proofs |
|---|---|---|---|
| `ContextSync` | `Context::runOnDemand`, `dataSignal`, `dataBroadcast`, `consumedWait`, `consumedBroadcast`, `stopLoop`, `lock`, the drivers and clients that call them | `DataDriven` | `ContextSync_proofs` |
| `ThreadContext` | `ThreadContext` and the flag it shares with `Context` | | `ThreadContext_proofs` |
| `FrameBuffers` | `State`, `Buffer`, `BufferSynchronizer`, the sources' and sinks' `process`, the clients | `LatestFrame` | `FrameBuffers_proofs` |
| `OVManager` | `Manager::run/update/pause/resume/stop`, `SchedulerPC` | | `OVManager_proofs` |
| `OVGraph` | `Manager::parseConfiguration/addNode/buildSubGraph/initTraversal/initTopologicalSortedTraversal`, `Node::addInput/addOutput` | | `OVManager_proofs` |
| `OTGraph` | `Graph`, `Node::addChild/addParent/disconnect/setGraph/updateTraversalOrder`, the operations of `UbitrackClient` | | `OTGraph_proofs` |
| `NetworkStations` | the unicast parts of `NetworkSinkModule` and `NetworkSourceModule`, and the network between them | | `NetworkStations_proofs` |
| `TCPModule` | `TCPModule::run/pullEvent/close`, `TCPSink`, the connections of its clients | | `TCPModule_proofs` |
| `ComponentManager` | `ComponentManager`, `Kernel::start/stop`, `Video`'s registration of users, the callers of `load` | | `ComponentManager_proofs` |

### ContextSync

`loop` is the control point of the thread inside `runOnDemand`, `pc[t]` that of every other thread;
the flags have the names they have in `Context.h`. The order of the loop's actions is the order of
the function: `Start` (`setSynchronization`, `start`), `ResetConsumed`, `ResetData`, `FirstStop`,
then the cycle `Test`, `WantData`, (`DataWoken`), `BeginTraverse`, `EndTraverse`, `HandBack`,
(`ConsumerWoken`), then `Drain`, (`DrainWoken`), `Close`, `Join`, `Finish`. A step is atomic when the
code holds one mutex over it and touches nothing that others read without that mutex. A mutex that
is held over several steps has a variable with its holder: `_havedatamutex` (`dataLock`) is held
from the moment a datum is taken until `loopOnce` has returned, and `_mutex` (`graphLock`) is taken
inside, which is why the locks are modelled one by one. Waiting on a condition variable is a control
point (`datawait`, `sigwait`, `conswait`, ...); a signal moves the thread to the matching "woken"
point, and `Spurious` does so without a signal. `Clients` are callforward callers, `Sources` are
driver threads that leave when `close` sets their stop (`Joined`: those whose thread is joined),
`Joysticks` are the drivers that call `consumedBroadcast` where the others call `consumedWait`,
`Stoppers` call `stopLoop`, `Editors` hold `_mutex` for a while. What an event says and what a
traversal computes is left out; `unseen` is a history variable: the threads whose signal has not yet
been followed by a traversal.

`DataDriven` is the service the loop offers: one datum at a time is accepted, traversed and
acknowledged, the last two in either order, and none is given up. `stage` and `acked` are computed
from `unseen`, `loop` and `waitingconsumed`.

`close` sets a driver's `stop`, and no module's `start` resets it. `TestModule`, `PanTiltModule` and
`VirtualKeyModule` reset it at the end of their thread, the others (`JoystickModule`, ...) never: `Leave` has both,
and in the next run the drivers that kept it leave as soon as they are spawned. The loop may then wait in
its drain for a datum that nobody is left to signal (`Deserted`).

### ThreadContext

`action_type`, `action_cond_val`, `loopend_cond_val`, `inloop`, `locactiontype` and `stoploopflag`
are the members of those names. A call is two actions (`Call`, `Signal`) because the code uses two
mutexes one after the other; the dispatcher is `Take`, `Read`, `Enter`, the loop (`NextTurn`, `LockGraph`, `EndTurn`,
`EndLoop`, `Drain`, `ResetFlag`), `LeaveLoop`, `SignalEnd`; the destructor `Mark`, `TestLoop`, `AwaitEnd`.
`Context::stopLoop` is `StopLock`, `StopSignal` twice and `StopUnlock`, for a handler, for the destructor, and for the dispatcher
when it reads STOP: `graphLock` is the holder of `_mutex`, and `StopSignal` waits for `waitingpending` if the loop has reset
`stoploopflag` since `StopLock`. Of a turn of a loop the model keeps what stoppers meet: the test of the flag, `waitingpending`,
which only `runOnDemand` sets, and `_mutex`. The rest is `ContextSync`'s.

### FrameBuffers

`lockCtr` and `updateCtr` are `Buffer`'s, `pixels` is the number of the frame in it, or `Torn` while
it is written; `buffer` and `mutex` are a `BufferSynchronizer`'s, `currentBuffer` is `State`'s. The
video thread scans the counters one by one (`SkipLocked`, `BeginWrite`, `DropFrame`), finishes the
frame (`EndWrite`), then deals with the subscribers from the last to the first: `BeginUpdate`
(`assign` tests the pointer without a lock), `AssignLock`, `AssignSwap`, `AssignRelease`, and then
`getLocked` and `unlock`, the same four actions (`Grab`, `LockGrabbed`, `Use`, `Unlock`) a client goes
through. `lastCtr` is the counter a client remembers (`GLUTSink`, `event.cxx`); `shown` is history.

`LatestFrame` is what a user may rely on: a subscriber offers a whole frame, never an older one than
before, and a frame that was taken stays what it is until it is given back.

### OVManager and OVGraph

`OVManager` has one action per lock section: `TestExit` (the scheduler's loop), `Update`, `Visit`
(one node of one of the three passes), `IdleTasks` (`resume` inside `update`), `Release`, `Pause`,
`PauseReturns`, `Stop`, `StopNode`. `Recursive` says whether an `ACE_Thread_Mutex` may be acquired twice
by its holder, as on Windows, or not, as on POSIX. `OVGraph` walks over an arbitrary XML
configuration (`AddNode`, `UseNode`, `CloseElement`), sorts it with the code's counters (`SortStep`,
`WriteBack`), and initialises and starts the nodes one by one. A `UseNode` that would close a cycle is not
met; `Reaches` says so with sets closed under `outputs`, which needs no recursion and so can be proved about.
The names `GraphInit`, `GraphNext`, `GraphSpec` keep the two modules of the Manager apart, since
`OVManager_proofs` extends both.

### OTGraph

`children`, `parents`, `traversalorder` are `Node`'s, `nodes` and `changed` are `Graph`'s, `members` the
nodes whose `graph` pointer is set. `updateTraversalOrder` calls itself on all parents when a node's
number changes; `calls[n]` is the number of such calls that are outstanding for `n`, taken in any
order: the code's order, depth first along the vectors, is one of them. An operation that makes
such calls goes on (`AddParent`, `Connected`, `LeaveParent`, `Erase`) when all have returned.
`remNode` calls `setGraph(0)`, which calls `remNode` again; `Erase` is the end of both.

### NetworkStations

One sender, any number of clients, and one of `Settings`: a network with some of the faults `lose`, `swap` and `refuse`
(a `send` that fails, for a while or for ever: `Refuse`), and the clients whose main loop is `runOnDemand` (`synced`). Members have their names (`addresses`, `stop`, `running`, `modified`); `up` and `down`
are the datagrams under way. The sender's main loop is `Produce` (`onEventGenerated`), `PullEvent` (which
gathers the new events and holds the mutex until the last piece is sent), `Send` (one piece to one address,
tried again while the socket does not take it or refuses it) and `SinkClose`; its transceiver thread `SinkReceive`,
`SinkTimeout`, `Handle`. A client's main thread is `Start`, `Started`, `PushEvent`, `Close`; its receiver
thread, one for each run that spawned one, is `Timeout` (poll, test `stop`), `Receive`, `ReceiveRest` (the
inner loop, which tests neither `stop` nor the time-out and takes whatever comes next), `ProcessRecord` (one
station under the mutex), `Acknowledged` (the `dataSignal` and `consumedWait` after each record of a synchronised client, where it
waits for the client's loop and tests nothing else), `Leave`. `start` spawns and then sets `running`, so that a thread which ended in between
leaves it set; `close` sets `stop`, and no code resets it. An event is a number; a record is a function from
stations to events, and `Garbled` stands for what is read from bytes of two records.

### TCPModule

The main thread is `Start`, `Produce`, `PullEvent` (which reads the size of the list without the mutex), for each
changed sink `LockLoop`, then `SendSucceeds` or `SendFails` per connection, `UnlockLoop`, and `Close`. The
acceptor of run `r` is `Open`, `Test`, `Accept` or `AcceptFails`, `Push` and, at its end, `Shut`, `DeleteAll`, `ClearAll`
without the mutex. `main = "crashed"` is the state in which the loop has used a stream that was deleted or has
run past the end of a list that was cleared, or in which an acceptor has deleted a stream that another one had deleted
before it (`DeleteAll`); it is reached only after a second `Start`, and no step of the main thread leads out of it. Clients connect, read and go; a client in `Readers` goes on reading, the others may stop, and then `send_n`
waits with the mutex held ("send could be blocking on slow connections", `TCPModule.cxx:184`). `due[c]` is
history: the sinks whose last event has not been sent to connection `c`.

### ComponentManager

Everything runs in the thread of the GUI; `stack` holds the calls of `init` that are on. `AddComponent` and
`StartMainLoop` are the kernel's configuration; `Update`, `InitNext`, `InitsDone`, `UpdateApplication`, `UpdateReturns` are
the update callback; `Load` is a call of `load` inside `init`, `CallbackLoads` one from a callback of the scene
graph; `InitSucceeds` and `InitFails` are the return of `init` and what `initComponent` or `update` do then.
`needs` says which components an `init` loads: any relation without cycles, chosen in the initial state. A
component that is taken from `initList` by `load` stays in that list (`early` remembers it), and the
loop initialises and lists it again. An entry of a component that failed becomes `NULL`, which a `load` that
scans the list then dereferences (`phase = "crashed"`). `ShutDown` is `Kernel::stop` from a callback of the main loop, `VideoStops` the
one that `Video` calls when `initOpenVideo` fails: inside its `init`, or in the thread that `init` starts, at any later step of
the main thread. Both end the process (`phase = "down"`), the second from under the calls that are on.

## 3. The runs

| run | instance | distinct states | what it shows |
|---|---|---|---|
| `serve` | 2 clients, 1 source, 1 editor, 2 edits | 5,971 | `RendezvousSafe`: one datum in flight, exclusive round trips, `consumedWait` never sleeps; each signal is answered, the loop goes on, refinement of `DataDriven` |
| `restart` | 1 client, 1 joystick, 1 stopper, modules may stop, 2 runs | 74,479 | a traversal has a producer's datum or follows a `stopLoop` that has returned; a loop that ends drains, closes and returns, or hangs for ever in one of two named ways |
| `stoploop` | 1 client, 1 source, 1 stopper | violation | `stopLoop` and the loop take two mutexes in opposite order |
| `thread_calls` | 2 clients, signal handler, destructor | 28,137 | no call forgotten, each call read, the destructor passes, unless a `stopLoop` sleeps for ever in `dataSignal` with `_mutex` |
| `share` | 2 buffers, 2 subscribers, 1 client, 3 frames, misses | 6,500 | `BuffersSafe`: exact counters, exclusive writes, no NULL; refinement of `LatestFrame`, which has the order of the frames; capture and delivery go on |
| `ov_loop` | 2 runners, 2 pausers, 1 stopper, 2 nodes, 3 pauses, recursive mutex | 8,044 | `LoopSafe`: one traversal at a time, none in a pause; pauses return, the loop goes on, `stop` ends it |
| `ov_build` | all configurations of up to 4 nodes and 2 USE | 133,533 | `SortSafe`: in-degrees exact, the sort loses nothing; inputs first, bring-up ends |
| `ot_rewire` | 4 nodes, symmetric | 62,016 | numbers, connections, visiting order |
| `ot_unlisted` | 3 nodes, symmetric | violation | `remNode` takes a second node off the list |
| `stations` | 1 client, 2 stations, 2 events, 2 runs of the client; a reliable and a lossy network with a client of `runOnDemand`, a reordering and a refusing one without | 179,630 | `ReceiverSafe`: one receiver thread, no event lost to the main loop; if nothing is lost or overtaken whole records, and the latest event arrives; on a reliable network a leave is enough; on every network a client that listens is served, `close` ends its threads unless one is stranded for ever, and sending ends unless a piece is refused for ever |
| `load` | 3 components, all acyclic needs, any configuration, failures | 320,261 | users and provider connected once; every entry dealt with and no callback meets a failed one; a component is listed twice or without its `init` only if `load` took it from `initList`; `update` returns, unless the process ends under it |
| `tcp` | 2 clients, one that goes on reading, 2 sinks, 2 runs | 119,106 | every sink's last event is sent to every connection; in the first run no deleted stream is used; who waits is accepted, `close` ends the acceptors |

### The bounds and why they are enough

- **Threads.** Two producers of the kind that waits are the least for which a signal can be
  overwritten or the wrong acknowledgement taken; `serve` has three, of two kinds, so that two wait
  while one is served. `restart` gives the two drivers that speak different protocols to one loop, with
  a stopper that may come at any point. Two runners and two pausers are the least with which a
  traversal can meet another and a pause another.
- **Buffers and frames.** The sources allocate two buffers (`State::addBuffer` in their `init`). With
  two subscribers and a client there can be four locks on them at a time; three frames are the
  least in which a buffer is written, given away and reused.
- **Nodes.** Four nodes hold a diamond, a chain of four and two parents over two children: the shapes
  in which a number has to be passed on over two levels, or twice to the same node. Two USE
  references make a diamond with a double edge.
- **Network.** `LongFrom = 2` makes the record of one station fit in a datagram and that of both need two, so
  both paths of the receiver are met; the four settings have each fault by itself, where the property it breaks must not
  hide behind another, and `synced` where the receiver's wait for the loop can meet a lost piece; two events are the least in which a second one overtakes or overwrites
  the first; with `MaxWire = 2` a long record fills the socket, and a piece has to be sent again. There is one
  client because clients share only the sender's list: what one does to the other is to let it wait for the
  mutex. `MaxRuns = 2` lets a receiver of the first run meet the second `start`.
- **TCP.** Two connections, so that one fails in front of another in the loop, one of them with a client
  that may stop reading; two sinks, so that a sink keeps its event while another's is sent; `MaxUnread = 1` makes
  every second unread event block.
- **Components.** Three hold a chain, a fork and two that need the same third, with the provider of video, a user that
  is a component and one that is an application.
- **`MaxRuns`, `MaxEdits`, `MaxFrames`, `MaxPauses`** bound histories, never the length of a wait. Two runs
  are the least in which a flag left by the first can be seen by the second.
- `CHECK_DEADLOCK FALSE` stands in the configurations of systems that really stop: `restart` and
  `stoploop` (runs are bounded and threads end), `share` (the frames are bounded), `ov_loop` (`stop` was called,
  pauses are bounded), `ov_build` (the graph is up), `thread_calls` (the destructor is done), `stations` (both ends
  are closed), `load` (shut down, or crashed) and `tcp` (runs are bounded and the clients have gone). In `serve`, `ot_rewire`
  and `ot_unlisted` the absence of a deadlock is part of what is checked.

### Fairness

- *Weak fairness of each thread* once it is inside an operation: the scheduler of the platform runs a
  thread that can run. A producer also goes on producing in `ContextSync`; that is the assumption under
  which a loop that sleeps when there are no data can be asked to traverse for ever, and the liveness
  properties say so.
- *Strong fairness of acquiring a mutex* that is released over and over (`AssignLock`, `Grab`,
  `OVManager`'s `Update` and `PauseReturns`, the destructor's `StopLock` against a loop that takes `_mutex` in every turn) and, in `FrameBuffers`, of finding a device frame and a free
  buffer when both come back again and again. Mutexes of the platform are not first come first
  served, but none of them excludes a waiter for ever; without this nothing that waits for a busy
  mutex could be shown to return.
- `NetworkStations`: a receiver's time-out is fair only while there is nothing to receive (`recv` returns what is
  there). *Strong fairness of the sender's reception of a client's commands* (`SF_vars(SinkReceive /\ ...)`, one per
  client) says that a network that loses polls does not lose all of them: the client repeats its poll every second,
  which is what the code relies on. A main loop that
  is not closed pushes what is marked. *Strong fairness of `Send`*: a piece that is refused now and then is sent in the end, one that is refused for
  ever is not (`NeverSent`).
- `TCPModule`: weak fairness of the main loop's sending and of the acceptor; strong fairness of `Push`, which waits for the
  mutex; the `Readers` read. The liveness properties except the state `Blocked`, in which a client that is no reader
  keeps `send_n` waiting.
- `ComponentManager`: the main thread goes on inside a callback. The scene graph need not call.
- Nobody has to start or close a client, to close the sender, to connect, or to produce an event.
- Nobody has to call `stopLoop`, `pause`, `stop`, any method of `ThreadContext` or its destructor, or to edit a graph: these
  actions have no fairness. In `ThreadContext` a loop whose flag is set tests it after each turn and ends,
  except `runOnDemand`, which may sleep: whether it wakes is `ContextSync`'s question, so that neither it nor a
  `stopLoop` that meets it has fairness there (`DemandOn`).

### Exceptions in the liveness properties

Where the code can hang, a property names the way and asks that it be for ever: `<>[]` or `[]` of a state predicate. It thus
fails if a thread is stuck anywhere else, or if it is stuck there and goes on later without what was promised. The exceptions are
all reached by the runs:

| property | exception | where the code hangs |
|---|---|---|
| `StoppedLoopReturns` | `Deserted` | the drain of `runOnDemand` with no driver left to signal (`Context.cxx:570-582`) |
| | `JoinHangs` | `close` joins a driver that sleeps in `dataSignal` or `consumedWait` |
| `CallTaken`, `DestructorPasses` | `SleeperStays` | `stopLoop` sleeps in `dataSignal` with `_mutex` (`Context.cxx:743`, `611`) |
| `ClosedEnds` | `Stranded` | a receiver that waits for the rest of a record, or for a loop that is gone (`NetworkSourceModule.cxx:318`, `341-347`) |
| `PullReturns`, `Served`, `LatestArrives` | `NeverSent` | `pullEvent` repeats a `send` that fails for ever, with the mutex (`NetworkSinkModule.cxx:485-500`) |
| `UpdateEnds` | `crashed`, `down` | not a hang: the process ends |

## 4. What is proved

TLAPS checks the theorems listed in `PROJECT.json` for every value of the constants that satisfies
the modules' `ASSUME`s: any set of clients, drivers and editors, any number of buffers, subscribers,
nodes and threads, any bound.

- **ContextSync.** `TypeCorrect` holds with stoppers and joysticks. The other theorems assume
  `NobodyStops`: no stopper, no joystick, no module that ends the loop. `OneDatumInFlight` is not
  inductive: that no second producer signals while a datum is served depends on
  `waitingpending`, and the acknowledgement flags depend on where both the loop and the producer are. `RoundInv` says
  that the loop is *Resting* (no datum, nobody in `consumedWait`, `waitingpending` exactly when it
  sleeps), *Offered* (one datum, its producer before or after `consumedWait`, the two flags telling
  which) or *Traversed*. It is shown inductive action by action (`RoundInvStep`); `OneDatum` and
  `RoundTrips` follow, and `ServiceRefinement` maps each step to a step of `DataDriven` or a stutter.
  `DataTraversed` assumes nothing about who stops the loop: a traversal that begins without the datum of a producer follows a
  `stopLoop` that has returned since the last one, because that call keeps `_mutex` until both its signals are given. `DatumInv` says that
  the loop holds `_havedatamutex` from taking a datum to the end of the traversal, and that a datum that is pending or taken was signalled since.
  Of what a stopper or a joystick may do to the rendezvous four things are proved, again for any of them: `WakeUpsKept`:
  whoever sleeps on one of the condition variables finds the flag it waits for unset, so that no wake-up is lost; `EditsExclude`, traversals and
  editors exclude each other, from the invariant `LocksHeld`, which says where the holder of each mutex is; and
  `CrossedForEver`: once `stopLoop` has `_mutex` and the loop `_havedatamutex`, and each waits for the other's, they do so
  for ever, whatever the other threads do. That makes the counterexample of `stoploop` a deadlock, for every number of
  threads. `DesertedForEver`: once the loop sleeps in its drain, every driver has left and every `stopLoop` was made, it sleeps for
  ever, so that the exception `Deserted` of `StoppedLoopReturns` is a hang and no delay.
- **ThreadContext.** `NoCallForgotten` is inductive together with the types (`CallsKept`). `LocksHeld` says who holds `_mutex`, and that at
  most one stopper is inside `stopLoop`. With it `DestructorSafety`, the safety half of `DestructorPasses`: while the destructor is past its
  `StopLock`, no loop runs on without its flag, it waits only for an end of a loop that is still to come, and its `stopLoop` can
  sleep only if the loop it was to end has ended. `DestructorHangs` is the other side: once it does sleep, and no `runOnDemand` is on, it
  sleeps for ever, since it keeps the `_mutex` that everybody needs to set the flag again.
- **FrameBuffers.** Three layers. `ShapeInv`: where a thread is determines which pointers it has and
  which mutexes it holds. `CountInv`: each lock counter is the cardinality of the set of holders,
  where `LockAdds`, `UnlockRemoves` and `SwapKeeps` are facts on such sets. `ContentInv`: what is in
  each buffer, in terms of the last frame, and what each client has seen. From the first
  two, `CountersExact`, `WritesAlone` (a buffer with a counter of zero has no holder, and nobody who is
  about to lock it, since it has the synchronizer's mutex and the synchronizer points to it) and
  `NeverNull`; with the third `NoStepBack` and `HandOverRefinement`.
- **OVManager.** `LockInv`: whoever is between the acquisition and the release holds `updateLock`, and
  `travBlock` is set exactly when the holder traverses. `OneTraversal` and `PausesExclude` follow. `PausesWoken`
  says that whoever sleeps in `pause` has its wake-up before it (the loop is still paused, or a thread is about to
  broadcast), and `StopOrder` that a `stop` touches the nodes only after the loop was told to end.
- **OVGraph.** `GraphInv` has six parts. `ListInv`: `nodes` and `sorted` share out the nodes that were made, each once.
  `MirrorInv`: `outputs` and `inputs` have the same edges, as often; an edge that USE doubles is doubled in both.
  `InDegreeExact`: a counter is the number of inputs that are not in `sorted` yet, a cardinality of positions, so
  that a double edge counts twice. `OrderInv`: the inputs of a sorted node stand before it. `AcyclicInv`: there is a
  rank in the natural numbers that grows along each edge; the parser's steps build it (`AddNode` puts a node above its
  parent; `UseNode` lifts what the node reaches, a closed set the parent is not in, above the parent).
  `SortSafety` follows: among the nodes not yet sorted one of least rank has no input left, which is the step
  the sort needs (`LeastNumber`, from the well-foundedness of finite subsets). `InputsInitialised` is
  `OrderInv` on the finished list, `StartOrder` is about the loops after the sort. `BringUpVariant` gives the number of steps
  that are left and shows that each step of the bring-up lowers it: with `NeverStuck` this is the safety half of `ComesUp`.
- **OTGraph.** `EdgeInv` generalises `EdgesMirror` to the middle of an operation (one half of one
  connection may be missing, and `op` says which). `OrderInv` says that a number can be wrong only for
  nodes with an outstanding call and for one end of the operation that is on (the parent before
  `addParent` has renumbered it, the node that leaves): when no operation is on all are right
  (`NumbersRight`). `SortedInv` and
  `ListInv` give `OneTraversal` and `OneVisit`.

- **NetworkStations.** `TypeInv` adds to the types that a command is there when it is handled. `ReceiverInv`: a
  thread that is alive belongs to a run that has begun, and either `running` is set or its `start` has not yet
  returned; since `start` asks for `running`, there is one at most (`OneThread`). `UpdatesKept`
  is inductive with the types. Both make `ReceiverSafety`. `RecordsWhole` is about orderly networks, which lose and reorder nothing but may refuse a piece. `StreamInv` joins what is
  under way to a socket and what `pullEvent` still has for it into one stream, in which each first piece is followed by the
  second of its record, and of which a receiver that waits for the rest of a record has that rest in front. Sending
  a piece leaves the stream as it is (`MoveBorder`), receiving takes its head (`TakeHead`), `pullEvent` appends to streams
  to which nothing is left to be sent (`PiecesWellFormed`). It needs `SocketInv` (the thread that is alive has the
  socket, a closed socket is empty), `KnownInv` (the sender knows only addresses whose thread has begun, so that a new
  socket gets no rest of an old record), and gives `CleanInv`: nothing anywhere is garbled. `OrderKept` says
  that over an orderly network neither what a client stores of a station nor what it pushes ever goes back to an older
  event: its invariant puts all there is of a station into one order (`Before`): from the sink's event, over the record
  that is being sent, the wire and what the receiver has gathered, to the station and the source node. Taking the head of a
  stream and appending to its end keep that order (`TakingKeepsOrder`). A reordering network breaks it, which is why
  the theorem names the network.
- **ComponentManager.** `ManagerInv` is the types with `ListInv`: behind the loop's position every entry is listed or `NULL`,
  before it none is `NULL`, and the outermost call on the stack is that of the entry at the position. Without the last
  part one could not say that a nested return leaves the position alone. `ListDealtWith` follows.
  `UsersConnected` is inductive with the types. `AnomaliesAreEarly` rests on `EarlyInv`: a call is below another
  on the stack only if its component needs the other's, so that the needs being acyclic no component is called twice at a
  time; who is on the stack or still to be dealt with is not listed, unless `load` took it from `initList`; what `load` appends to the
  list is thus new to it. From the same invariant `InitsNest`: no `init` is called again while it is on, and the calls
  nest no deeper than there are components, since those below need those above and the needs have no cycle. `VideoStops` takes
  the whole stack away from any of its states, which the invariants allow because they speak of a phase and of calls that are on.
- **TCPModule.** `DueInv` generalises `UpToDate` to the middle of the loop: a connection behind the position has had the
  current sink's event (`SentToAll`). `ConnInv`: a connection is nowhere before it was accepted, and then with one
  acceptor or at one place of the list; `FirstRunInv` adds that the main loop has left when the acceptor deletes, which holds
  of a first run only because the acceptor of that run ends after `close`, and after `close` nobody sends until the next `start`.
  `StreamsDeletedOnce` follows from it: in a first run no stream is deleted twice. `ConnectionsDistinct` needs `ConnInv` alone and so
  holds however runs overlap: a connection is with one acceptor or at one place of the list.

The type invariant of every module is a theorem (`TypeCorrect`); that of `OVGraph` is a conjunct of `SortSafe`
(`SortSafety`). `RendezvousSafe`, `BuffersSafe`, `LoopSafe`, `ReceiverSafe` and
`FirstRunSafe` are conjunctions of named parts; the theorems `OneDatum`, `RoundTrips`, `CountersExact`, `WritesAlone`, `NeverNull`,
`OneTraversal`, `PausesExclude`, `OneThread`, `UpdatesKept` are about the parts.

Every invariant and every action property that a passing run checks is thus a theorem as well. Only model-checked:
every liveness property (TLAPS has no rule here for fairness and ENABLED), hence also the fairness conjuncts of
`DataDriven!Spec`. For several of them the safety half is proved: that the wake-up is there (`WakeUpsKept`, `PausesWoken`,
`DestructorSafety`), that each step comes nearer to the end (`BringUpVariant`), that what comes last is the latest
(`OrderKept`). `RendezvousSafe` is proved under `NobodyStops`, as it is checked in `serve`.

## 5. Where the code and its words disagree

Two runs end in a counterexample. Each checks one sentence of the repository against what the
code does; `PROJECT.json` ("findings") quotes the line.

1. `stoploop`: `stopLoop()` holds `_mutex` and waits for `_havedatamutex`; the loop, with a datum in its
   hand, holds the second and waits for the first.
2. `ot_unlisted`: `Graph::remNode` erases two entries of the list.

Others were met while the models were written. The models have the code's behaviour, and no run is spent on them. The first five
are exceptions that a property names, so that its run shows them to be the only ones:

- `Context.h:160-162`: "the graph is only traversed if some event-driven enabled event generator node produces new data". The
  two `dataSignal` calls of `stopLoop` bring no data and may start a traversal; `TraversalNeedsData` says what holds.
- `Context.h:300` says of the main loop that it "runs until it is stopped somehow. Then it calls close() on all modules": the drain of
  its data-driven implementation `runOnDemand` may wait for ever, and so may the join of a driver.
- `ThreadContext.cxx:111-112`: "stop the running event loop", from the destructor, which then waits for its end; `stopLoop` may sleep with `_mutex` if that loop
  has just reset the flag.
- `NetworkSinkModule.cxx:476` says that a packet the socket does not take "is thrown away"; the loop below it sends it again
  until it is taken, whatever the error.
- `close` of a network source sets `stop` to end the receiver; the receiver tests it neither while it waits for the rest of a
  record nor in `dataSignal` and `consumedWait`.

- `ThreadContext::stopLoop()`, "stop the main loop" (`ThreadContext.h:144`), leaves an action that is read after the
  loop has ended; the model `ThreadContext` shows the order.
- `GLUTSink` compares update counters ("only update if this buffer contains new content", `GLUTSink.cxx:345`) of
  different buffers and skips new content.
- `Manager::pause()` ends the loop for ever where mutexes are not recursive: `OVManager` with
  `Recursive = FALSE` deadlocks.
- `TCPModule.h` says that a record ends with "double - timestamp"; `TCPModule.cxx:165-167` stores the result of `&&` and does not
  advance the index, so that nothing is sent.
- `EventQueueImplementation::getEventNearTime` returns the farther of two events.

## 6. The plan

What is left, most important first:

1. Proofs: variants for the other loops that must end (the drain of `runOnDemand`, `updateTraversalOrder`'s outstanding
   calls, the nested calls of `load`), and what each round trip leaves behind when stoppers and joysticks take part.
2. **`EventQueue`**: `insertAtTime`, `getEvent`, `getEventNearTime` as functions over short sequences
   against a reference definition, and the merging nodes that keep a state (`GroupGateNode`,
   `ButtonHoldFilterNode`, `TimeGateNode`) as machines.
3. **`ContextEdit`**: `addNode`, `removeNode`, `removeSubtree`, `replaceNode` and `copyFrom` of `Context` and
   `LiveContext`, composed with `OTGraph`.
4. Composition: `ThreadContext` over the loop of `ContextSync` for `runOnDemand`; the multicast threads.

## 7. What is not modelled

- Parts that compute on pixels, matrices and quaternions (`artoolkitplus`, the filters and
  transformations, `Converter.cxx`): arithmetic, no control.
- Adapters to devices and middleware (CORBA, VRPN, DWARF): the state lives elsewhere. How
  their threads meet the loop is what the `Sources` and `Joysticks` of `ContextSync` do.
- Parsers: what they do to a graph is what `OTGraph` and `OVGraph` allow; reading XML is not modelled.
- Open Inventor nodes, viewer, GUI, bindings, bootloader and examples.
- `Context::removeModule`, whose iterator steps before the first element, and a signal handler that
  locks a mutex its own thread holds: undefined behaviour with nothing to explore.
- `SchedulerPC::schedulePoll`, which waits on a condition without holding its mutex, and the races
  on plain flags whose outcome the standard leaves open, beyond the steps that the models interleave.
- The destruction of nodes: in `OTGraph` a module holds each node, as `TestModule` does.
- Cycles in a graph, which the parsers' input can contain and no code rejects: `updateTraversalOrder` and
  the sort then do not end.
- Network: the multicast threads; a sender that is started again (`start` then converts the maximum of the station numbers
  to network order a second time); the end of the process on `ECONNRESET` (`NetworkSinkModule.cxx:539-553`); byte orders
  and names. A restart of a client opens the new socket before the old thread may have closed its own: the model
  names sockets for their runs.
- TCP: the destructor, the encoding of an event, the time between two sinks of one `pullEvent` beyond the mutex. The
  acceptor deletes the connections in one step and clears the list in another.
- OpenVideo graph: the end of the process on a USE without a DEF, an unknown element (`Manager.cxx:376`) or an unsupported pixel format (`560`).
- `OTGraph` gives the number of a removed node back to the next node that is made (`Erase`): the object itself is dropped with its stale number.
- Component manager: what `init` does apart from loading and, for `Video`, failing; two components of one name, of which `load` finds the
  first; the walk over `compList` by the video thread in `Kernel::stop`, a data race before the exit; the registration of callbacks; the scenes and the scheduler.
- Video component: `vu_init` and the format, which the device decides, and the walk over `videoUsersImmediate` by the video thread.
- The event queue and the merging nodes, sequential code (see the plan), and `ThreadModule`, whose thread functions are those of
  its subclasses.
