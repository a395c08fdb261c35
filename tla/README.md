# Verification of XiaoTuNetBox

XiaoTuNetBox is a C++ network library: a loop around poll(2) or epoll(7), the
handlers registered on it, a TCP server with a time wheel that closes silent
connections, an HTTP server made of modules that answer a request one after
another, and a WebSocket server that takes over from it. This directory holds
TLA+ modules of these parts, TLC configurations that check them on small
instances, and theorems checked by TLAPS for every value of the constants.
`PROJECT.json` lists components, runs, mutants, the source lines of every
definition, findings, hazards and theorems; paths below are relative to `src/`
of the repository (its own `src/` and `include/XiaoTuNetBox/`).

    tlc -config MCPollLoop.cfg MCPollLoop.tla     # one run
    tlapm PollLoopProofs.tla                      # one module of proofs

## 1. Inventory

| component | state it keeps | operations | talks to |
|---|---|---|---|
| `EventLoop`, `PollLoop`, `EventHandler`, `PollEventHandler` | `mHandlerList`, `mIdleIdx`, `mPollFdList`; per handler `mLoopIdx`, `mPollFd`, `mIsClosing` | `ApplyOn`/`UnApply` (Add, Register, UnRegister, Remove), `LoopOnce`, `HandleEvents`, `EnableWrite`, `SetClosing` | poll(2); the callbacks of handlers, which change the table during the scan |
| `TcpServer`, `Acceptor`, `ConnectionNode`, `Timer` | `mConnNum`, `mTimeWheel` (intrusive circular lists) | `OnNewConnection`, `OnMessage`, `OnCloseConnection`, `OnTimeOut` | accept(2), timerfd; the loop |
| `TcpAppServer`, `Handler`, `WakeUpper` | `mHandlers`, `mHoles`, `mIdx`; an eventfd | `AddHandler`, `ReplaceHandler`, `ReleaseHandler`, `WakeUp`, `OnReadEvent` | eventfd(2); other threads call `WakeUp` |
| `DataQueue` | a ring: `mBuffer`, `mBegin`, `mEnd` | push, pop, accept, drop, adjust, rearrange, clear | used by `Connection` and the observers |
| `Connection` | `mWriteBuf`, the events of its handler | `SendBytes`, `OnWriteEvent`, `OnReadEvent`, `Close` | send(2), read(2); other threads call `SendBytes` |
| `ThreadWorker`, `Task` | `mTaskFifo`, `mDestroing`, mutex, condition variable | `AddTask`, `FinishTasks`, the destructor | any threads |
| `HttpRequest`, `HttpResponse` | state of the parser, line and fields; head, lock, file being loaded | `Parse`; `SetStatusCode`, `SetHeader`, `SetClosing`, `SetFile`, `AppendContent`, `LockHead`, `UnlockHead`, `LoadContent`, `Reset` | `HttpServer` |
| `HttpServer`, `HttpModule*`, `HttpHandler` | the current task of a session | `OnMessage`, `OnTaskFinished`, one function per module | the loop, through the WakeUpper |
| `WebSocketMsg`, `WebSocketServer`, `WebSocketHandler`, `HttpModuleUpgradeWs` | state of the frame parser, `mSendMsgs` under a mutex | `OnWsMessage`, `SendMsg`, `HandleWsReponse`, the upgrade | other threads, through the WakeUpper |
| `EPollLoop`, `EPollEventHandler` | the same table; the interest list and the ready list of the kernel, a batch of events | as `PollLoop`, but `EnableWrite` reaches the kernel and `SetClosing` closes at once | epoll(7); the callbacks of handlers, which change the table during the batch |
| `InputBuffer`, `InBufObserver`, `DataArray` | an array with read and write index; the slots and start indices of observers | `Read`, `CreateObserver`, `Release`, `PopFront`, `DropFront`, `PeekFor`... | readv(2); used by no server of this commit |
| `VideoCapture` | `mBuffers`, `mBufferInUse`, `mUsingBuffer` | `PrepareBufferOrDie`, `StartOrDie`, `OnReadEvent`, `ReleaseBufferInUse` | a V4L2 driver; the thread of a consumer |
| `SerialPort`, `Socket`, `Address`, `Utils`, programs | | | see section 8 |

What is hard in it, and what would make it correct:

* **The table changes under the scan.** `LoopOnce` walks the vectors by index
  while the handlers it calls register and remove others, reuse freed slots and
  close descriptors whose numbers the kernel hands out again. Correct: slot,
  handler, index and pollfd always belong together; a readiness bit is used
  only for the handler poll(2) reported; nobody is served twice or skipped.
* **A close is deferred** on a poll loop: `SetClosing` sets a flag and the scan
  closes the connection later, after other callbacks may have touched it. On an
  epoll loop it is not: the connection is gone when `SetClosing` returns, events
  for it are still in the batch, and its slot may have been filled again.
  Correct: connection, WakeUpper, session, descriptors, wheel and count go
  together, the close does happen, and an event goes astray only when its own
  handler was closed within the batch.
* **The wheel counts by rotation.** Correct: exactly n silent ticks.
* **A ring buffer.** Full and empty differ by a flag (`mEnd` null), every
  operation has wrap-around cases. Correct: it is a deque.
* **SendBytes takes a shortcut** past the queue, may be called from other
  threads without a lock, and POLLOUT must be on exactly while bytes wait.
* **Wake-ups.** A condition variable in `ThreadWorker`; an eventfd in the
  session: neither may be lost, and none may be left over.
* **Parsers are cut anywhere** by read(2), and requests may arrive while an
  answer is under way.
* **Buffers that change hands.** An `InputBuffer` trims, grows and spills under
  observers that each have their own place in it; the buffers of `VideoCapture`
  go round between a driver, the loop and a consumer in another thread.
  Correct: each observer sees its stream whole; no buffer is lost, queued twice
  or written to while it is lent, and frames keep coming.

The 40 hazards in `PROJECT.json` place these at their lines; 35 are covered by
a property, the others say what is missing.

## 2. Modules

    SlotTable ── PollLoop ── MCPollLoop, PollLoopProofs
        └─────── TcpServer ── MCTcpServer, TcpServerProofs
    EPollLoop ── MCEPollLoop, WheelAndEPollProofs
    TimeWheelSpec ◁── TcpServer, TimeWheel ── MCTimeWheel, WheelAndEPollProofs
    ConnectionNode ── TimeWheel
    Deque ◁── QueueClient ── MCQueueClient, QueueClientProofs
    DataQueue ── QueueClient, Connection ── MCConnection, QueueClientProofs
    HttpRequest, HttpResponse ── HttpServer ── MCHttpServer, HttpServerProofs
    WebSocketMsg ── WebSocketServer ── MCWebSocketServer, WebSocketServerProofs
    DataArray ── InputBuffer ── MCInputBuffer
    Tee ◁── InputBuffer
    ThreadWorker, VideoCapture, MCInputBuffer ── MCStandalone
    ThreadWorker, VideoCapture, InputBuffer ── ThreadAndBufferProofs

`FifoLemmas` holds the lemmas on sequences and on natural numbers that the modules of proofs share.

(`──` extends or instantiates, `◁──` is implemented by.)

| module | models | state and actions |
|---|---|---|
| `SlotTable` | `EventLoop::Add/Remove`, `PollLoop::Register/UnRegister` | the vectors as one record; an operation maps a table to a table, so that a callback with several calls is a composition. Slot i is index i − 1. |
| `PollLoop` | `EventLoop::Loop`, `PollLoop::LoopOnce` | `phase` and `cursor` are where the loop thread is; between `Dispatch` and `Return` the callback may apply and remove any handler, itself included. |
| `EPollLoop` | `EventLoop::Loop`, `EPollLoop`, `EPollEventHandler` | the table, what the kernel has of it (`data`, `asked`, `io`, `ready`), and `batch`, `pos`, `target` for where `LoopOnce` and `HandleEvents` are; inside a callback any handler may be applied, closed or written to. |
| `TcpServer` | `TcpServer`, `TcpAppServer`, `Acceptor`, `WakeUpper` on one `PollLoop` | one action per `HandleEvents`: `Accept`, `Reject`, `Tick`, `WakeAndClose`, `Message`, `CloseConn`. Descriptors are numbers, given out lowest first. |
| `ConnectionNode`, `TimeWheel` | the lists with their `mPrev`/`mNext`, `OnTimeOut` and the three callbacks that relink | memory as two functions; the traversal follows the pointers. `atOnce` says which of the two loops it is on: on an epoll loop the closing callback runs inside the traversal or the message callback. |
| `TimeWheelSpec` | abstract: a wheel of sets | `Join`, `Hear`, `Ask`, `Tick`, `Leave`; what `TcpServer` and `TimeWheel` both promise. |
| `DataQueue`, `QueueClient` | `DataQueue.hpp`, every operation | pointers as offsets, a vacated cell is `Junk`; assertions are recorded in `fault`. |
| `Deque` | abstract: a sequence | what `DataQueue` promises. |
| `Connection` | `SendBytes`, `OnWriteEvent`, the close at the end of `HandleEvents` | bytes are numbered in the order they are given; `PushBack` of another thread takes two steps. |
| `ThreadWorker` | `AddTask`, `FinishTasks`, the destructor | one step per stretch under the mutex; `wait` releases it and sleeps in one step. |
| `HttpRequest` | `Parse` | requests are tokens (`CR`, `LF`, a method, a field, a byte of body); the parser is a function of its state and a chunk. |
| `HttpResponse` | the head, its lock, the loads of a file | sizes only; what the file holds by then is given by `Load` of `HttpServer`. |
| `HttpServer` | a session: `OnMessage`, the chain of modules through the WakeUpper, with the modules of `HttpServer` or (`upgrades`) those of `WebSocketServer` | `Send` (the client), `Read(n)` (read(2) cuts anywhere), `Parse`, `Check`, one action per task. `UpgradeWs` hands the connection over to `WebSocketServer` or, when the handshake is refused, goes on like any request. |
| `WebSocketMsg`, `WebSocketServer` | the frame parser; a session from the upgrade on | frames as sequences of bytes, masked and cut anywhere; `SendMsg` of other threads in two steps (push, wake). |
| `DataArray` | `DataArray.hpp`, every operation | arrays as records; what the element-wise loops store and load is a set of offsets, so that a step outside the storage is seen. |
| `InputBuffer` | the buffer and its observers, `FindString` | one action per call; an observer's view is the part of the storage between two indices. |
| `Tee` | abstract: one stream, readers that each take its bytes at their own pace | what `InputBuffer` promises. |
| `VideoCapture` | the buffers of a capture | `OnReadEvent` is cut where another thread can get between: `Dequeue`, `Test`, `Exchange` (under the mutex), `Lend`, `Requeue`; `Fill(i)` is the driver, `ReleaseBufferInUse` the consumer. |

## 3. Runs

| run | instance | states | shows |
|---|---|---|---|
| `poll_loop` | three handlers and one whose descriptor is −1 | 68,701 | table consistent; readiness belongs to its handler; dispatches are safe; a scan serves each due handler once; assertions abort only for the bad descriptor; a ready handler that stays is served |
| `epoll_loop` | the same, two of which talk and one of which is written to; two events copied out at a time | 251,008 | the interest list agrees with the table; an event reaches its handler unless that was closed within the batch; no assertion fails but for the bad descriptor; nobody who is ready is starved |
| `tcp_server` | three connections, two admitted, three slots | 6,292 | slots, descriptors, sessions and the count agree; the time-out is exact; no assertion fails; the server implements the wheel of sets with its fairness; a silent connection is heard again or closed |
| `time_wheel` | three connections, three slots, both loops | 5,249 | the pointer lists stay closed and implement the wheel of sets, unless a message callback on an epoll loop closes its own connection |
| `queue` | up to 7 elements of two values, batches of 4, capacities 4 and 7 | 13,842 | with callers that never rearrange a queue to exactly its elements (`LeaveRoom`): implements the deque, the pointers stay in the storage, the partial sizes add up; only the assertion of `PushBack(buf, n)` can fail, and it fails exactly when the n of the call is all the free cells and the elements do not begin at the storage |
| `connection` | 7 bytes, 3 a call, two other threads | 45,405 | bytes arrive in order; POLLOUT is on while bytes wait, and only then while no other thread sends; whatever thread gave them, bytes are sent unless `EnableWrite(false)` took their POLLOUT |
| `http` | two requests out of eight kinds, both graphs of modules, files of 0, 2, 3 units that may change once, loads of 2 | 759,026 | the wake-up drives the task and nothing else does; answers fit requests, the upgrade included; announced closes happen; the file is sent whole, and an answer is never short even if it changes; only wild clients, or a file that goes, fail an assertion; requests are answered unless the file changes |
| `websocket` | two frames of five kinds, two threads, two messages | 93,895 | messages fit the frames and their masks however they are cut; sent in order; lengths of messages sent are what a parser reads; no wake-up lost; pushed messages are sent |
| `standalone` | a worker with two callers and 4 tasks; four buffers, three of them with the driver; two observers, streams of 6 bytes, an initial size of 2 and an extra buffer of 3 | 88,363 | worker: every task once and in order, no wake-up lost, tasks run, the destructor never returns; capture: no buffer lost or queued twice, what is lent is the consumer's, frames keep coming; buffer: implements the tee, slots, holes and indices agree, `PeekFor` misses an occurrence only if a part of the pattern runs into it, `DataArray` edits as a sequence does and leaves its storage only where stated |
| `http_pipelined` | two plain requests | | expects a violation: the first finding of section 7 |
| `input_buffer_order` | the buffer of `standalone` | | expects a violation: the second |
| `peek_for` | one observer, the stream CR CR LF | | expects a violation: the third |

A property of a passing run is paired with a mutant of a definition that breaks
it (`PROJECT.json`, "mutants"); the mutated forms stand next to the definitions
they mutate and are not used otherwise.

`standalone` puts together the three components that no server of this commit uses (`MCStandalone`). They share no state,
so nothing is shown by interleaving them: a behaviour is of one of them, its `subject`, chosen at the start, and each is given the fairness
it has alone. 77,722 of the states are the buffer's.

Every component but the wheel has one invariant (`Inv`, `QueueInv`, `CaptureInv`, `BufferInv`): the types together with the named
invariants the other properties lean on, each with a comment of its own.

## 4. Bounds, and why they are enough

* Handlers and connections: two suffice for every sharing of a slot, an entry
  or a descriptor; the third is the one that comes while the two are there.
  `MaxConn = 2` of three names makes `Reject` and the reuse of holes happen. `MaxFd`
  gives each of them its two descriptors (see the hazard at WakeUpper.cpp:15).
  `silent` is counted up to `NSlots + 1`, one past what any property compares.
* The wheel has three slots: front, middle and back differ.
* The queue: capacity 4 is the code's, one enlargement makes it 8, 7 is an
  odd capacity from `AdjustCapacity`; batches of 4 wrap, fit, fill and overfill it.
* 7 bytes of at most 3 a call pass the first enlargement of `mWriteBuf`.
* The epoll loop: with three live handlers and batches of two, an event stays behind in the kernel, and
  a slot that an event of the batch names is freed and filled again before the event's turn.
* Two HTTP requests: the second meets what the first left behind; a file of 3 with
  loads of 2 is the short last part, 2 the exact one. A `size_t` has 16 values, more than `MaxLoads` loads can use up once it has wrapped. Two WebSocket frames likewise;
  the 64-bit length has 3 bytes instead of 8 and the mask 2 instead of 4, since
  what matters is that a part can be cut, and that a payload of 3 begins the mask again. The lengths around 125
  and 65535, where the form changes, are checked as they are.
* The input buffer: a stream of 6 outgrows 2 cells twice, and with 3 extra bytes a read stops before, at and
  behind the end of the storage. Two observers: one ahead, one behind, a hole and its reuse. Patterns of one, two and three
  bytes: with three an occurrence can run into a part of another.
* Three buffers with the driver: one being handled, one queued, one filled meanwhile.
* `MaxTasks`, `MaxFrames`, `MaxMsgs`, `MaxRequests`, `MaxLoads`, `MaxBytes` bound counters that grow
  for ever in the code; they stand in guards, and `CHECK_DEADLOCK FALSE`
  in those configurations is there because the instance stops at them; the poll loop's
  stops when an assertion has aborted it, and the queue's after a failed one. The wheel's
  stops at the message callback that has a deleted node put into a list (`dangling`), behind which nothing is defined.
  The server (`tcp_server`) never stops, and is checked for deadlock.

## 5. Fairness

* `PollLoop`: weak fairness of the loop thread's own steps (`LoopStep`); callbacks
  return, and so does poll(2), which is given a finite timeout. Nothing is assumed of what it reports.
* `TcpServer`: weak fairness of `Next` — the loop thread runs — and strong fairness of
  `Tick`: the timer is periodic and expires again and again, though not in every pass.
* `Connection`: weak fairness of the loop's steps; strong fairness of an `OnWriteEvent`
  that sends at least one byte: a peer that goes on reading. Without it the
  bytes rightly wait. A thread inside `SendBytes` comes to its `EnableWrite`.
* `ThreadWorker`: strong fairness of taking the mutex, as the callers may hold it again and
  again; no spurious wake-up is assumed.
* `EPollLoop`: weak fairness of `LoopStep`, as for the poll loop. Nobody is starved because epoll(7) puts a
  descriptor that is still ready behind the others (`EPollReturns`), not because more is assumed of it.
* `HttpServer`, `WebSocketServer`: weak fairness of the loop thread and of a thread inside
  `SendMsg`; the client owes nothing.
* `VideoCapture`: weak fairness of `OnReadEvent`, called back by the loop for what poll(2) reports, and of each
  `Fill(i)`, a camera that goes on; the consumer owes nothing, and the device may fail at any time.

## 6. Proofs

Every theorem is proved from the named assumptions on the constants only
(distinct null values, positive sizes), but for the stated premises of the queue's (`LeaveRoom`) and of the server's
(`EnoughFds`). The final temporal steps use PTL, the rest SMT and Zenon.

* **`PollLoopProofs`**: `TableAlwaysConsistent`, `ReadinessAlwaysOwn`, `DispatchAlwaysSafe`,
  `ScanAlwaysCovers`, `AbortsOnlyOnBadFd` and `LoopAlwaysSound` (all of `Inv`), for any
  set of handlers, any descriptors and any callbacks. Its first half proves that each
  operation of `SlotTable` keeps `Consistent`; `TableConsistent` is then inductive by itself. The properties of the scan
  are not: that a slot with readiness holds the reported handler rests on a slot having one owner
  and on `UnRegister` clearing `revents`, so the inductive invariant is their conjunction.
* **`TcpServerProofs`**, for any connections, any `MaxConn` and any number of slots of the wheel, *under* `EnoughFds`: the
  process may open the descriptors that `MaxConn` connections need. The premise is exact: with one descriptor less accept(2)
  or eventfd(2) fails for the last connection, and TLC finds that closing it fails an assertion.
  - `ServerIsSound` (all of `Inv`) and `FdsAlwaysOwned`. The parts lean on each other: a descriptor is free because those
    open are as many as the handlers on the loop (`FdsAreCounted`), which needs the count of connections; a slot is
    the handler's own because descriptors differ; and the entry a new session takes is free because the holes are
    entries of the vector, each at most once (`HolesAreEntries`). The inductive invariant is the conjunction of them all.
    `Accept` and `CloseConn`, which change everything at once, are proved part by part. The slot table
    is dealt with by the lemmas of `PollLoopProofs`, of which `Loop` is an instance.
  - `TimeoutAlwaysExact`: `silent` of a connection says which slot it is in (`WheelCounts`), through every rotation.
  - `ServerTurnsTheWheel`: each step of the server is a step of `TimeWheelSpec` or leaves it alone, which is `ImplementsWheel` but for its
    fairness.
* **`WheelAndEPollProofs`**, on two structures that change under a loop walking over them.
  - `EPollLoop`: `InterestAlwaysAgrees` (all of `Inv`), `EventsAlwaysReach`, `OnlyBadFdsEverAbort`, for any
    handlers, any size of the batch and any callbacks. What a pending event names is kept by no single variable: the
    inductive invariant adds `BatchOwned`, that an event carries the slot of its handler or its handler is gone.
  - `TimeWheel`: `ListsImplementWheel` (`ImplementsWheel`), `ListsAlwaysClosed` and `TraversalMeetsConnections`, for any
    connections and slots and both loops. Closed lists are not enough for the first: two lists joined into one ring, or a
    ring without a head, are closed as well. The invariant labels each node with the head of its list and ranks it so that the
    rank grows along `mNext` up to the head (`InOrder`); no variable holds either, so they are quantified. The lemmas
    `NewNodeInOrder`, `AddTailInOrder`, `DeleteInOrder` and `MovedInOrder` say how an operation changes them. A traversal of such
    a list visits a node it has not visited until it is back at the head, so `Cardinality(Nodes)` steps are enough
    (`VisitedIsList`). Between two steps of `OnTimeOut` the invariant adds what it has asked to close (`AtFrontList`), by which
    all of the front slot has been when the wheel turns (`FrontListClosed`). Nodes are assumed to be finitely
    many. That a message callback closing its connection on an epoll loop has its node deleted twice changes nothing in the lists
    (`DeletedTwice`); only that the node is no longer alive makes it wrong.
* **`QueueClientProofs`**, on `DataQueue` and the two modules that use it.
  - The pointers: `PointersAlwaysPlaced`, `SizesAlwaysAddUp`, `OnlyPushBackEverFails`, `QueueAlwaysSound` (these three
    together, `QueueInv`), `FailsJustOnExactFills` (from the sizes: when the free cells are exactly those of the call,
    the rest behind the fold meets the elements, `ExactFillFails`), for any capacities, sizes and batches, *under* `LeaveRoom`: no caller
    rearranges or adjusts a queue to exactly its elements, as none in the repository does. Without that premise the first
    is false (section 7).
  - The elements: `QueueIsDeque` (`ImplementsDeque`), under the same premise and for any elements. The lemmas named
    `...Content` say of each operation on any queue what it does to the sequence of its elements: a cell of the storage is
    `Around` the end from the front (`AroundTwice`, `AroundApart`), a store reaches the cells behind the end and no other
    (`WrittenFacts`), a reallocation unfolds. `DequeStep` then takes each call to the deque's operation.
  - The connection: `StreamAlwaysInOrder` and `ConnectionIsSound` (all of `Inv`), for any number of bytes, calls and threads,
    from the same lemmas. Nothing is assumed of `LeaveRoom` here: `Connection` only pushes and drops. That `wire` never passes `given` and that a ring
    of the right elements is empty exactly when they are equal makes the stream inductive; that POLLOUT is on only when needed rests on what the loop
    thread saw of the ring still being so in its next step as long as it is alone (`LoopKnows`, `Alone`).
* **`ThreadAndBufferProofs`**, on `ThreadWorker`, `VideoCapture`, and `InputBuffer` with its `DataArray`.
  - `WakeupNeverLost`, `TasksRunOnceInOrder`, `DestructorNeverReturns`, for any threads and any number of tasks. `ExactlyOnceInOrder` needs no help to be
    preserved, but the types do: `added` stays in bounds because whoever is about to push holds the mutex
    (`MutexHeld`), and the destructor cannot return because it holds the mutex from `notify` on (`Joining`).
  - `BuffersAlwaysOnce` (all of `CaptureInv`), `LentAlwaysOwn`, `DriverNeverShort`, for any number of
    buffers. What is queued depends on the step `OnReadEvent` has come to, so the inductive invariant adds where its
    buffer is at each (`Carried`) and what the driver has (`Queued`).
  - `BufferImplementsTee` (`ImplementsTee`) and `BufferInvAlways` (`BufferInv`), for any streams, any number of observers coming and
    going, any initial size and any `ExtraBufSize`. One call of `Read` trims, shifts the observers, grows the storage and spills, so
    the inductive invariant `BufferIInv` says nothing of moves but where things are: the byte at index `p` of the readable part is
    byte `arrived - mWriteIdx + p + 1` of the stream (`LastArrived`), whatever brought it there. An observer's view is then the
    latest bytes it is owed (`UnreadIsOwed`), and each call appends to or takes from those (`LatestGrows`,
    `LatestShrinks`), which are the steps of `Tee`. The other half is that a slot
    has one observer or is one hole (`SlotsOfObservers`, `SlotsOfHoles`). Once the place is lost only that half is claimed of the buffer.
    That the read index does not pass the write index while anyone observes is preserved beside it (`OrderStep`), and
    that only a `Read` without observers or a `DropFront` of the buffer loses the place follows from the same steps.
  - `SearchAlwaysMissesOnlyOverlapped` (`SearchMissesOnlyOverlapped`), for any stream and pattern of bytes. The search is a recursive
    function that goes upwards, and has to be shown to be one (`SearchExists`, from `GoesUpExists` of `FifoLemmas`). What it returns
    is right from every address if it is right from the one it goes on at (`SearchStepRight`); by taking the last address at which it
    were wrong, it is right from all (`SearchIsRight`).
  - `EditsAlwaysAgree` (`EditsAreSequenceEdits`), for every array the buffer can have. Each edit has a lemma that tells its cells and one that
    tells its sequence (`InsertFacts`, `InsertAgrees`...); those of `Insert` and `Remove` rest on one statement about a
    splice (`SpliceAgrees`), and what the loops touch is compared with the storage offset by offset (`StraysAreKnown`).
* **`HttpServerProofs`**, on a session with either graph of modules, any files, loads and limits, and any client.
  - `WakeAlwaysDrivesTask`, `AnnouncedIsAlwaysDone` and `WholeFileIsAlwaysSent`, from one inductive invariant. They concern the
    chain of tasks between two callbacks of the loop, which no variable describes as a whole: the invariant says at each
    task what the response has been given so far (its head locked or not, its length announced, the file being loaded and how much of it), that a
    counter of the WakeUpper belongs to a task that waits, and that what has been
    answered stays as it is.
  - `SessionIsSound` (all of `Inv`, with `TameInvariance`) and `AnswerAlwaysFits`. These concern what a client may cause, so the invariant has to
    follow its bytes through the parser: what a client that keeps to the protocol has sent, and not yet been answered,
    parses to the request it meant wherever read(2) cuts it (`Parsing`, `Fed`), and the task a request has come to is one
    of its own (`Routing`, `HandedOver`).
* **`WebSocketServerProofs`**, for any frames, any number of threads and messages.
  - `MessagesSentInOrder`, `MessagesAreWoken`. The handshake is first only because nothing is read, pushed or sent before the
    upgrade (`NothingBeforeUpgrade`), and no wake-up is lost only because a closed connection is never
    inside one of its handlers (`ClosedIsIdle`).
  - `MessagesAlwaysFit`, from the invariant `RInv`: the bytes ahead of the parser follow the first `p` of the frame in the
    middle (`Follows`, which places each frame still to come by its offset), and the message is what those `p` bytes make of
    one (`Parsed`). `ParseStepFacts` takes each handler of the parser to more bytes of the same frame, whatever chunk it is given. A frame
    is only assumed to say how long its payload is (`IsFrame`); one with an unknown opcode may be anything.
  - `ServerIsSound` (all of `Inv`). The two recursive functions of the length fields are compared with a closed form
    (`Left`), for every length up to 65536 and any `Len64Bytes` that can hold it.
* **`FifoLemmas`**: what a push and a pop do to "sent ∘ waiting", the parts of a sequence, the least number with a property, functions defined by
  steps (`Iterates`) or upwards (`GoesUpExists`), and other facts the library does not have.

Model-checked only: all liveness properties and the fairness in `ImplementsWheel` of the server (fairness and `ENABLED` are
beyond the prover). Every invariant and every action property that a passing run checks is stated by a theorem, and so is every refinement, but for
that fairness. The library's induction theorems take an operator as a parameter, which the
provers cannot instantiate; where a proof needs induction over the natural numbers it takes the least counterexample
instead (`HasLeast`), but induction over data is out of reach.

## 7. Where the code and its documentation part

Three runs expect a violation of what the repository says of itself:

* `http_pipelined`: with bytes behind a complete request `Parse` returns `begin` unchanged, and the loop of `OnMessage` never
  ends. HttpRequest.cpp:39-40 says each call makes progress.
* `input_buffer_order`: `InputBuffer::Read` with no observer takes the size of the whole array for that of the readable part
  (InputBuffer.cpp:37), and `mReadIdx` passes `mWriteIdx`. InputBuffer.h:8 draws `0 <= readerIndex <= writerIndex <= size`.
  `BufferInv` claims that order only while anyone observes.
* `peek_for`: `FindString` goes on behind a byte that differs (Utils.cpp:100-103), and so misses CR LF in CR CR LF.
  InBufObserver.h:45-49 says that `PeekFor` returns the first match, or NULL if there is none. When the view ends in a part of the
  pattern it also reads on behind `End()`, and may return an address there. `SearchMissesOnlyOverlapped` says how far the search can be
  relied upon.

A fourth disagreement is in the model and has no run of its own. `DataQueue::Rearrange` of a full queue, and `AdjustCapacity`
to exactly its size, leave `mEnd` on the end of the storage, where `Full()` does not see that the queue is full;
DataQueue.hpp:144 and 506 say that `mStorBegin == mBegin < mEnd < mStorEnd` holds after a rearrangement and for all new memory. With
`LeaveRoom = FALSE` in MCQueueClient.cfg TLC finds `PointersPlaced` violated. The run and the theorems assume callers that leave
room, as all in the repository do, so `QueueInv` says nothing of the others.

The rest is not ruled out by any line of the repository we know of; each is a hazard in `PROJECT.json` or a part of a
property that says exactly when it happens:

* `OnTaskSuccessDefault` calls `Close` after `SendBytes` (HttpServer.cpp:159), and `HandleEvents` closes at the end of that
  pass whatever waits in `mWriteBuf`: a response can be cut off (`Connection`).
* `LoadContent` of a file that has changed since stat(2) reads more than `mDataSize` has left, which wraps around, or nothing:
  the loads then never end (the exception in `RequestIsAnswered`).
* `OnWriteEvent` decides on `EnableWrite(false)` before another thread's bytes come, and takes their POLLOUT (`cleared`, the
  exception in `GivenIsSent`).
* `LoadContent` does not shrink `mContent` after a short `fread` (HttpResponse.cpp:106), so the body is longer than the
  `Content-Length` of its head, and `[mHeadEndIdx, end)` is not only the body HttpResponse.h:149-150 says it is
  (`WholeFileIsSent` says when).
* The destructor of `ThreadWorker` joins its thread while its own lock holds the mutex the thread needs
  (ThreadWorker.cpp:27-30): `JoinNeverReturns`.
* On an epoll loop `SetClosing` deletes the node of a connection that `OnTimeOut` or `OnMessage` still uses
  (TcpServer.cpp:38 and 90); the traversal reads the deleted node's pointers, which is harmless as long as the memory is not
  used again, and a message callback that closes its own connection has a deleted node put into a list (`dangling`).
* The events of a batch that name a handler closed within it are given to an empty slot or to the handler that has taken
  the slot over (`EventsReachTheirHandler`).
* `InputBuffer::Read` with no observer, and `DropFront` and `DropAll` of the buffer under an observer, lose the place in the
  stream (`Lost`); `ImplementsTee` says that nothing else does. The buffer's own `Begin` takes no account of its observers; front
  space is never used again, so the buffer only grows.
* `DataArray::Insert(i, e)` stores one cell behind a storage it has just filled, and reads one cell before it
  (`StraysAreKnown`).
* After EIO `OnReadEvent` queues the zeroed `v4l2_buffer`, which the driver refuses, so that the program ends
  (VideoCapture.cpp:309-341).

## 8. Not modelled

* `VideoCapture`: the settings of the device (size, frame rate, exposure and other controls) and what prints them. A consumer
  is taken to release each frame it is lent once. `EPollEventHandler::UseEdgeTrigger`, which nobody calls.
* `SerialPort`, `Socket`, `Address`: system calls.
* `Timer::RunAfter/RunEvery/DisArm`: arguments of timerfd_settime(2). `Utils`: functions of bytes (except `FindString`,
  in `InputBuffer` and, for CRLF, as `FindCrlf` in `HttpRequest`).
* In modelled parts: what a module decides from the bytes of a URL, a cookie or a password is a choice. So is what
  `HttpModuleLogin` decides by `mRefererList`, which all connections share: a client that loads the login page
  clears what another has been allowed. A file changes at most once while it is served; memory does not run out; frames are
  masked.
* The composition of `TcpServer` with `EPollLoop`: its parts are checked one by one (`EPollLoop`, and `TimeWheel` on both loops).

## 9. Plan

Order of the work, the most important behaviour first: the poll loop, the server on it, the wheel, the queue, the
connection, the worker, HTTP and WebSocket; then the epoll loop and the wheel on it, the input buffer, the capture, the
upgrade and its refusal. All of these are done (sections 2 to 6). What is left is to
model two sessions that share one `HttpModuleLogin`; the settings of a timer; and an
abstract, ordered and lossless channel for `Connection` and `WebSocketServer` to implement, and the proof that they do.
