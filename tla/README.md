# Verification of the DNN client SDK and its video demo

TLA+ specifications of `trtserver_sdk_cplusplus_restful`: a C++ library that
sends images to an inference server over HTTP and gives detections back, and a
demo that feeds several channels from one camera. TLC checks the specifications
on small instances, TLAPS proves theorems about them for every instance.

## 1. The system

| Part | Source | State it keeps | Operations |
|---|---|---|---|
| Interface | `common/include/utdnn.h`, `dnn/utdnn.cpp` | none | `dnn_init`, `dnn_getstate`, `dnn_addconn`, `dnn_predict`, `dnn_rmconn` |
| `conlist` | `dnn/conlist.*` | singleton: `m_strip`, `m_iport` | the server address; makes, moves and deletes connections; copies a version list to the caller |
| `connection` | `dnn/connection.*` | address, `m_itype`, `m_bisconnect`, one keep-alive stream, `buffer_`, `ioc_`, `m_bExit` | constructor (asks the model's state, then connects), `update`, `predict`, `getstate`, destructor; a detached thread runs `ioc_` |
| asio scheduler and reactor | `boost/asio/detail/impl/{scheduler,epoll_reactor}.ipp` | `op_queue_`, `outstanding_work_`, `stopped_`, `task_interrupted_`, the interrupter | run, stop, descriptor events |
| `boost::shared_mutex` | `boost/thread/pthread/shared_mutex.hpp` | `shared_count`, `exclusive`, `exclusive_waiting_blocked`, two condition variables | `lock`, `lock_shared`, `unlock`, `unlock_shared` |
| `pfclist` | `demo/pfclist.*`, `demo/client.cpp` | `m_matshow` under `m_mtxshow`, `m_predMat[i]` under `m_mtxpred[i]`, `m_dnnhandel` | `start`, capture thread, one thread per channel, show thread |
| `CLog` | `common/src/Log.cpp` | files in `./Log/` under `m_mutex` | `WriteLog` (rotate, append, prune), `getLogMsg` |
| `util` | `common/src/util.cpp` | ini files under `g_iniMtx` | ini read and write, sub type codes, conversions |
| jsoncpp, Beast, the rest of Boost | vendored | | used through a handful of calls |

How they interact: the demo calls the C functions; those go to the `conlist`
singleton or to the `connection` behind the handle. All network I/O is
synchronous, on the caller's thread. The detached thread of a connection
completes nothing, but its epoll set sees every event of the connection's
socket. The demo's threads share two tables under reader-writer locks, and an
exception of `dnn_predict` leaves the thread function and ends the program.

What is hard, and what correctness means for each part:

- **connection / conlist**: servers fail between any two network steps; a
  handle's address, stream, flag and model type are set at different moments.
  Correct: an answer belongs to the image of its call; a call ends; flag, stream
  and address agree; a request is laid out for the model the type was read from;
  `dnn_getstate` says nothing untrue.
- **connection lifetime**: `ioc_.stop()` may meet the thread anywhere. Correct:
  the context runs as long as the handle is used, the destructor returns, and
  nothing refers to what has been destroyed.
- **shared_mutex**: two condition variables and a flag. Correct: exclusion, no
  lost wakeup, and it is the abstract lock the demo assumes.
- **pfclist**: four kinds of threads. Correct: what the window shows is complete
  and consistent, rectangles belong to their picture, and the window appears.
- **response bodies**: two layouts that differ in the order of the blocks, of the
  corners, in units and in what the count means. Correct: the caller is told of the
  objects on its own image, and of no others.
- **CLog**: rotation, append and pruning follow one another over files whose names
  are the only index; stamps arrive in any order. Correct: limits hold, lines go
  only where pruning may take them, queries find what is there.
- **util**: read-modify-write of ini files by several threads, cut short at any
  point; codes at the edge of their width. Correct: settings are neither lost nor
  brought back, codes and lists name the same sub types.

`PROJECT.json` lists each hazard at its line with the properties that cover it.

## 2. Modules

| Module | Models | Uses |
|---|---|---|
| `DnnApi` | what a caller of `utdnn.h` relies on, per handle | |
| `Detections` | the body of a response: what a server writes, what `connection::predict` reads | |
| `DnnClient` | `conlist`, `connection`, the streams and the servers | extends `Detections`, implements `DnnApi` |
| `MCDnnClient` | model hostings for TLC | `DnnClient` |
| `DnnClientProofs` | theorems | `DnnClient` |
| `DnnAnswerProofs` | theorems about what callers are told: targets, models' states, and that a call ends | `DnnClientProofs`, `NumberLemmas` |
| `ConnLife` | constructor, run thread, destructor, asio scheduler and reactor | |
| `ConnLifeProofs` | theorems about it | extends `ConnLife` |
| `RWLock` | an abstract reader-writer lock | |
| `SharedMutex` | `boost::shared_mutex` | implements `RWLock` |
| `SharedMutexProofs` | theorems about it | extends `SharedMutex` |
| `VideoPipeline` | `pfclist` | calls `DnnApi`; assumes what `DnnClient` and `SharedMutex` show |
| `VideoPipelineProofs` | theorems about it | extends `VideoPipeline` |
| `CLog`, `CLogProofs` | `CLog::WriteLog`, `CLog::getLogMsg`; theorems | |
| `IniFile` | `writeIniCfg`, `readIniCfg` | |
| `SubTypes` | `ut2Bsub`, `B2utsub` | |
| `UtilProofs` | theorems about these two | `NumberLemmas` |
| `NumberLemmas` | what proofs about recursive functions need: least numbers, recursion to a bound | |
| `MCCommon` | the log, the ini files and the codes for TLC | `CLog`, `IniFile`, `SubTypes` |

The layers are checked one against the next: `DnnClient` implements `DnnApi`,
`VideoPipeline` is written against `DnnApi`. `SharedMutex` implements `RWLock`
and serves everyone, which is what `VideoPipeline` takes for granted of
`m_mtxshow`.

### DnnClient

`cur` is the singleton's address; `caddr`, `itype`, `connected` and `sock` are
`m_strip`/`m_iport`, `m_itype`, `m_bisconnect` and the peer of `stream_`;
`learnt` is a history variable, the server incarnation the type was read from.
`reqs` and `resps` are the bytes in flight on each stream, one element per
message. A worker is `idle`, has `called` predict, or is `reading`; the
administering thread is `idle`, has `asked` a server for a model's state, or has
it `listed`. A C++ function that blocks on the network is split where it blocks:

| Code | Actions |
|---|---|
| `dnn_init`, `conlist::init`, `connection::update` | `DnnInit` |
| `dnn_addconn`, constructor | `DnnAddconn`, `Answered` or `AskThrows`, `Constructed` |
| `dnn_getstate` | `DnnGetstate`, `Answered` or `AskThrows` |
| `dnn_predict` | `Call`, `Skip`; `Write` or `WriteThrows`; `Read` or `ReadThrows` |
| `dnn_rmconn` | `DnnRmconn` (its inside is `ConnLife`) |
| server (external) | `Serve`, `Hangup`, `Crash`, `Restart` |

A connection that fails is one step with its connect: the connect and the flag
are set on one thread and nobody else reads the object meanwhile. A server that
crashes, or closes one stream, drops the requests it holds; the responses on
their way arrive or not.
An uninitialized `m_itype` is any integer: the three values of `Types` are the
ones the code can tell apart. A server answers when the version is ready and the
request has the layout of its model, with the body `Detections` gives for the
objects `Scene` puts on the image; otherwise the body is empty and the call
returns without touching `*size`. `out` holds what the caller was given, `objs`
the targets written to its array. The request's URL names version 1 always,
although `utdnn.h:61` says the latest one is used; hostings without a version 1
therefore answer nothing, and the model keeps it that way.

`got` is what the caller of `dnn_getstate` holds. The demo asks first and makes its
connections afterwards (`pfclist.cpp:27-41`): `got` stays through every
`dnn_init`, `dnn_addconn`, `dnn_predict` and `dnn_rmconn`, and only the next
`dnn_getstate` replaces it. Its field `peer` is history, the server incarnation that
answered. `m_isvrtype` is what the demo makes of it when it chooses between floats and
a JPEG, and `PayloadFits` relates that to the type a handle read for itself: where one
incarnation answered both, they agree exactly if the model has one version or is a
TensorRT plan. Of a SavedModel with two versions the demo, with room for one, learns
nothing, and passes floats to a handle that wants a JPEG. A server replaced between
the two queries is taken no notice of by the code, and nothing is claimed of it.

Assumptions, as the demo uses the library: one administering thread, one call at
a time per handle, and no `dnn_init` or `dnn_rmconn` on a handle that is in a
call. The singleton has no lock that would allow more.

### Detections

A body is four blocks of `Slots` entries and a count. `Encode` is the server: a
SavedModel gives fractions with y first, classes before scores, and counts all
its slots; a TensorRT plan gives pixels with x first, scores before classes, and
counts its objects. `Decode` is `connection::predict`: it picks the blocks by
`m_itype`, counts a SavedModel's slots above the threshold and takes that many
from the front. Coordinates are whole 416ths of the side and scores hundredths,
so that the division by 416 is exact; 0.3 itself counts, because the float is a
little more than the double it is compared with. The `Told` relation is the
reference: the objects above the threshold, one target each.

### ConnLife

`owner` is the thread that makes, uses and deletes the object, `run` is the
detached thread. The scheduler's mutex is held while `run = "loop"`. `poke` is
an edge of the interrupter, `event` an edge of the socket that `epoll_wait` has
not reported. `m_bExit` starts as any of `Garbage`, since no one assigns it
before `connection::run` does.

### SharedMutex

One action per section under `state_change`. A wait ends its section; the
notified or spuriously woken thread (`wokenS`, `wokenX`) tests again in an action
of its own. `notify_one` picks any sleeper.

### VideoPipeline

Frames are numbered; 0 stands for an entry whose `isupdate` is still false.
`matshow` maps a key to the frame and to the frame its rectangles were computed
from. The show thread copies the map entry by entry; its ReadLock is `CanWrite`
being false. What a thread does with its locals alone (grabbing a frame, picking
a channel) is part of the step that publishes it. A frame the camera fails to
deliver changes nothing and is left out.

### CLog

`dir` maps a file's name to its lines. A name is the type, the day, and for a
moved file the second in it; where a stamp falls on a whole second Boost prints
no fraction, so that the backup's name runs on into the message (`msg`) and may
be no file name at all (`WriteThrows`), and a later query of the line fails
(`Unparsable`). Both functions hold `m_mutex` throughout and keep nothing in memory,
so each is one step; the stamp is taken before the lock, hence any order of
stamps. `SpacePrune` and `SizePrune` are the two ways of pruning: which one is
taken depends on the disk and is free. `std::sort` orders files by day only, so
any order within a day is allowed. Sizes are bytes: a line has a `size` of up to
`LineMax`, and a file's `file_size` is the number of its `Bytes`. `Full` looks at the
file before the line is written, without the line, as `WriteLog` does; so the line that
crosses the limit is still written to it. `getLogMsg` is a function of the directory and
of the `listing`, the number each file it reads has in `getfilelist`'s answer; `maplog` is a recursive function, the map after each line
read, and the answer is that map in the order of its keys (`InOrder`). `Windows` are
the windows that queries ask for.

### IniFile

A thread has `loaded` the file into its tree, has `truncated` the file, or is
`out`. `Truncate` and `Flush` are the two halves of `write_ini`: opening the stream
empties the file, closing it writes. `FlushFails` is a full disk: `write_ini` is
documented to throw when it cannot write (`ini_parser.hpp:293`), but nobody looks at
the stream once it is open, and the function returns as if it had written. A stream
that cannot be opened throws with the file untouched, which leaves what `Restarted`,
a process that was killed anywhere, leaves too. `stored` and
`damaged` are history: what each key was last given, and whether a write was cut
short.

### SubTypes

Lists of sub types and codes of bits, for the sixteen super types of `typedef.h`.
The two loops are recursive functions, one value per iteration: `bsub` of `ut2Bsub`
is the sum so far, `Taken` of `B2utsub` the list so far and what is left of the code.
`given` is what a caller passes, any list of different sub types and any code that is
not negative; nothing else has a state, so `CodeSpec` only keeps it.

## 3. Runs

| Run | Bounds | Result |
|---|---|---|
| `Calls` | 2 handles, 2 servers with one hosting, 1 image, no restart | `EveryCallEnds` holds |
| `Models` | 1 handle, 2 images, 2 symmetric servers, 3 hostings, 1 restart each, `*ncnt` = 1, 4 slots; an answer for one version is not carried on | `TypeOK`, `PeerIsAddress`, `LayoutUnderstood`, `DetectionsTrue`, `StateListTrue`, `PayloadFits`, `AnswerOwed`, `ApiSpec` hold |
| `ConnLife` | one object at a time, any number of times; `m_bExit` starts as either value | six properties hold |
| `SharedMutex` | 3 threads, 2 uses each | five properties hold |
| `Pipeline` | 3 channels, 3 frames told apart | five properties hold |
| `Common` | log: 2 types; either 4 lines of 5 stamps over 2 days, or 10 lines of one type on later and later days; lines of 1 or 9 bytes, files of 2, a directory of 44, of which pruning takes 11; 3 windows, every type and every order of the files read; ini: 2 threads, 2 keys, 2 values; every code of every super type | twelve properties hold |
| `InitMoves` | 1 handle, 1 host with 2 ports | `InitMovesHandle` violated: `dnn_init` leaves the handle on the old port |
| `MissingCount` | 1 handle, 1 server | `MissingCountsZero` violated: `*ncnt` keeps the caller's value |
| `MemberOrder` | `m_bExit` starts false | `StreamGoesFirst` violated: `ioc_` is destroyed before stream and resolver |
| `ThreadEnd` | `m_bExit` starts false | `ThreadGoesFirst` violated: the thread outlives `ioc_` |
| `Channels` | 11 channels | `ChannelsFit` violated: arrays of 10 |
| `LiveChannels` | 3 channels, 2 frames told apart | `ChannelsLive` violated: channels from 2 on never get another frame |

That a call ends is checked in two ways. `AnswerOwed` is an invariant: while a call is
in `http::read`, its request or the response is on the stream, or the stream is at its
end. It says at each state why the call does not hang, and a step that breaks it is
found where it is taken. `EveryCallEnds`: every call returns or throws. That it may
always throw is the code's doing: nothing there says that a handle ever works again.

What the properties of `Common` say: a file goes beyond its limit by less than one
line, the one that crosses it (`FileBounded`); the directory goes beyond its limit by
one line at most, and from there each write leaves fewer files until it is back
(`DirBounded`, an action property); a line is lost by pruning the
oldest days or by two rotations within one second, and in no other way
(`LinesKept`); a query gives the lines of its window, each once (`QueryComplete`),
in the order of the stamps but for the lines `maplog` moves to a later key
(`QueryOrder`); a setting never turns back (`NeverStale`), is kept unless a write
was cut short (`SettingsKept`) and is not replaced by a default
(`DefaultsYield`); codes are understood as a whole or not at all (`WholeCode`),
lists come back from their codes (`RoundTrip`).

Why the bounds are enough to meet the cases:

- `Calls`: two handles may share a server or use two, so a crash hits one, both
  or none. A handle can be moved to the other server and back, so every order of move, crash and
  call occurs. Restarts are in `Models`.
- `Models`: with two images a stale answer is told from the right one. One restart
  with another model is what it takes for a type to be out of date. One hosting is a
  SavedModel with a second version that is still loading, of which the demo's query
  learns nothing; one lists the versions 1 and 3, so that numbering from 1
  matters; an array of one is equal to or shorter than the lists that
  occur. A list longer than two adds no case to `CopyOut`. One image has objects
  above, on and below the threshold, the other only below, and four slots leave
  room for padding. The two servers are alike, and no liveness is checked here, so
  their symmetry is sound. An answer to `dnn_getstate` for one version is checked where
  it is given and not carried on (`Remembered`): no action but the next
  `dnn_getstate` has to do with `got`, and `PayloadFits`, the one property about what
  is kept, speaks of answers for all versions.
- `ConnLife` has no bound: its state space is finite.
- `SharedMutex`: three threads give two sleepers of either kind behind an owner;
  `MaxUses` = 2 lets each come back once. `EveryoneServed` needs that bound:
  nothing in the lock forbids endless readers to overtake.
- `Pipeline`: three channels are the least that the two-valued draw of `g_u`
  does not cover. Later frames than `MaxFrames` count as the last one; with three,
  channel 1 gets the second frame in its turn and may be handed a newer one while
  it is still predicting, which two frames would not show.
- `LiveChannels`: as `Pipeline`; two frames tell a channel that follows the camera
  from one that stays with its first frame.
- `Common`: with two types and two days files of equal and of different days are
  pruned; two stamps share a second, one is on a whole second. One long line carries a file
  past its limit, two short ones bring it just there, and four lines fill a file, move
  it and start the next, of either day. That the directory fills takes more
  lines, whose order no longer matters: ten on later and later days, of either
  length, exceed its limit, and are pruned by either way, more than once. Two threads and two keys are what a
  lost update takes. The three parts share no state, and each behaviour is one of
  them; types, threads and keys are symmetric, the values are not, for one of them
  is the readers' default.

`InitMoves` and `MissingCount` compare the code with the comments of `utdnn.h`;
`Channels` and `LiveChannels` with the command line `README.md` gives;
`MemberOrder` and `ThreadEnd` with the promise of `execution_context.hpp` that
a service reference is usable as long as the context exists. Whether those two
do harm on a given build depends on what is left in the freed memory.

`CHECK_DEADLOCK` is on in every run but `Common`, whose log stops at `MaxLines` and
whose codes do not change: `SharedMutex` stutters only when every thread has used up
its turns, `VideoPipeline` only when the program was terminated.

## 4. Fairness

- `DnnClient`: weak fairness for a worker inside a call and for the
  administering thread inside a call (a thread that can take its next step does),
  and for a server that is up and has a request. Callers, crashes and restarts
  are never owed. `EveryCallEnds` therefore rests on a server that either answers
  or goes away: the code has no timeout, and a server that stays up and silent
  would hold a call forever.
- `ConnLife`: weak fairness for the detached thread and for a destructor once it
  has been entered. Traffic is never owed, so the end does not depend on it.
- `SharedMutex`: weak fairness for woken threads and for owners, who leave.
- `VideoPipeline`: weak fairness for each thread; strong fairness for the writers
  of `m_mtxshow`; strong fairness for each value of the uniform draw. That each call
  ends is `EveryCallEnds`. The writers' fairness is an assumption which
  `EveryoneServed` supports but does not prove: that one is shown for a bounded
  number of uses, while the demo's threads use the lock forever, and the lock lets
  endless readers overtake. The demo has a single reader, which sleeps between its
  turns. A program that a call's exception has ended (`crashed`) owes no window:
  `WindowAppears` is satisfied by it, as the demo catches nothing.

## 5. Proofs

`DnnClientProofs` proves, for any sets of addresses, handles, images and model
hostings and any number of restarts, from `ClientAssumption` alone (the null
values are none of the real ones):

- `OneExchange`: `Spec => []Inv`. A stream carries at most one message; there is
  one only while its worker is reading, and it belongs to the image the worker
  was called with. This is why a worker never takes another call's answer:
  `buffer_` is emptied, the body is read to its end, and the only ways out of a
  call that leave something on the wire also mean that the peer is gone.
- `Refinement`: `Spec => ApiSpec`. Every step of `DnnClient` is a step of
  `DnnApi` or leaves its variables alone. `Inv` is needed at `Read`, to know that
  the response at the head of the stream is the call's own.
- `StreamAddress`: `Spec => []PeerIsAddress`. `AddrInv` is inductive together
  with `Inv`, which says that streams lead to real servers and that a handle
  under construction is not live.

The proof has one lemma per group of actions (`AdminStep`, `WorkerStep`,
`ServerStep`), each from a frame lemma that says which handles a step cannot
disturb.

`DnnAnswerProofs` proves, for any pictures and any number of slots
(`SlotsAssumption`), and beyond the above with each image a scene of at most
`Slots` objects, best first, and finite version lists (`ClientAssumption`):

- `DecodeTells`: what `Decode` reads of a body `Encode` wrote is what `Told` asks
  for, in both layouts. The threshold leaves a prefix because the objects are best
  first, and so the number of good slots is the number to take.
- `Truth`: `Spec => []DetectionsTrue`. A handle's type may be out of date, and
  then its request has the wrong layout and is answered with an empty body: so a
  body that is not empty has the layout of the request (`Replied`), the request that
  of the handle (`Asked`), and `BodyInv`, which says both, is inductive together
  with `Inv`: with a message left over from an earlier call it would not be.
  Handles whose `m_itype` was never assigned are excepted.

It proves moreover, from the same assumptions, for any models, arrays and
restarts:

- `Typing`: `Spec => []TypeOK`, in three parts. The objects and threads stay in their
  ranges (`ObjectsOK`), which needs `Inv` and `BodyInv`. Of requests, responses and
  outcomes (`MessagesOK`) each step changes those of one handle at most
  (`MessagesFrame`, `MessagesStep`). What callers of `dnn_getstate` are told
  (`ReportsOK`) is in range because it is the copy of a server's list (`GotInv`,
  `ReportInRange`).
- `StateTold`: `Spec => []StateListTrue`. An answer is the copy of a list that some
  server, or none, gave (`GotInv`); what `state2st` and `CopyOut` make of a list
  is said by `Listed` and `Copied`. That callers' `*ncnt` are natural numbers
  is assumed (`Caps`).
- `Learnt`, `Layouts`: `Spec => []LayoutUnderstood`. A type may be out of date, but
  what was learnt from an incarnation of a server holds until that one is
  replaced, and incarnations are never reused (`LearntInv`, `Holds`). A request
  has the layout of its handle's type (`Asked`), so it is laid out for the server
  it reaches if that is the one the type was learnt from.
- `Payloads`: `Spec => []PayloadFits`. What the caller holds and what a handle learnt
  each say of the incarnation that answered what it hosts, for as long as that
  one is up (`LearntInv`, `AgreeInv`); afterwards nobody can learn from it any more, and
  what was learnt stays. So two queries of one incarnation say the same, whenever they
  are made and whatever is called between them.
- `AnswersOwed`: `Spec => []AnswerOwed`. A crash or a hangup takes the request along, and
  then the stream is at its end. That it stays there when the server comes back is the
  strengthening (`EndInv`): no stream leads to an incarnation that is yet to come, so the
  next one is never the one a stream was connected to.
- `CallsEnd`: `Spec /\ []WayOut => EveryCallEnds`. A call that is begun goes on to
  `reading` or ends; one that waits is owed an answer (`AnswerOwed`), so its server has
  the request and serves it, or the stream ends; one that has either goes on and
  ends (`Places`, `Reading`, `Going`, `Progress`). Each stage stays until the step that
  ends it, and weak fairness takes that step, of the worker or of the server. Weak
  fairness asks that the step can be taken, and ENABLED is beyond the prover. That the
  steps of a worker with something to go on with, and of a server with a request,
  are enabled is therefore a hypothesis, `WayOut`. Its parts are the guards of these
  very actions, so it says nothing about the code, and no run checks it; `Calls`
  checks `EveryCallEnds` without it.

`ConnLifeProofs` proves, whatever `m_bExit` holds before it is assigned
(`GarbageAssumption`):

- `Stops`: `Spec => [](RunsWhileUsed /\ StopReachesReactor)`. A stop is set and
  answered in pieces on two threads; the invariant says how the pieces stand to
  each other at each place of the detached thread. The work object is the only
  unit of work, because each event of a descriptor is compensated (`WorkInv`), so
  the count cannot reach zero and stop the context; the thread leaves only a
  stopped context (`StopInv`). In the reactor, `task_interrupted_` is set whenever
  the context is stopped, and the interrupter is poked whenever the thread blocks
  with it set (`PokeInv`).
- `OneTask`: `Spec => []OneReactorTask`, since the queue is one of two, or empty
  while the thread polls (`QueueInv`); `Typing`: `Spec => []TypeOK`.
- `LeftFirst`: `Spec => LoopLeftFirst`. From its first step to its last but one the
  thread keeps `m_bExit` false (`FlagInv`), so a destructor that sees it true finds
  the thread outside, or not begun.

`VideoPipelineProofs` proves, for any number of channels and frames
(`PipelineAssumption`) and with the hypothesis `Fits`, that the arrays have a place
for each channel (nobody looks, and with eleven they have not: `ChannelsFit`):

- `Window`: `Spec => [](WindowComplete /\ RawLeads /\ OwnRectangles)`. A frame goes
  through three places, and none is ahead of the capture thread, whose last frame is
  the raw picture (`FrameInv`). While the show thread copies, what it has is part of
  the table as it is (`CopyInv`), for the lock keeps writers out; so when it lets go
  it has the table of one moment. The size test is enough because the keys are 0 to
  `m_chnsz` and as many different keys are all of them (`AllThere`). Rectangles
  belong to their picture because a call in progress is for the thread's own image
  (`CallInv`).
- `Typing`: `Spec => []TypeOK`.

`SharedMutexProofs` proves, for any finite set of threads, from
`MutexAssumption`:

- `Safe`: `Spec => [](TypeOK /\ CountersTrue /\ NoneForgotten)`. The three
  together are inductive. `NoneForgotten` needs `CountersTrue`: only because
  `shared_count` is the number of readers inside does the last reader to leave
  know that it is the last, clear the flags and wake the sleepers.
- `Exclusion`: `Spec => LockSpec`. A thread enters only by a test of the state
  word, and by `CountersTrue` that word names whoever is inside, so an entry is
  one `RWLock` allows. `Release` is where the shapes of leaving meet.

One lemma per operation (`SharedStep`, `ExclusiveStep`, `UnlockSharedStep`,
`UnlockStep`, `SpuriousStep`) shows that the invariant is kept; one per change
of who is inside (`EnterSharedStep`, `EnterExclusiveStep`, `LeaveStep`) maps it
to a step of `RWLock`.

`UtilProofs` proves, for any threads, keys and values (`IniAssumption`):

- `Settings`: `IniSpec => [](IniTypeOK /\ NeverStale)`, and `Kept`: `SettingsKept`
  and `DefaultsYield`. While the file is truncated it says nothing; the invariant
  therefore speaks of the tree of the thread that holds the lock (`TreeInv`), which
  has the new value of one key and of all others what was stored.

and for any super type, any code and any list of its sub types:

- `SubCodes`: `CodeSpec => [](RoundTrip /\ WholeCode)`. Of `B2utsub`'s loop the
  invariant (`WholeTake`) is: after i bits, what is left of the code is a multiple of
  shift i, and the list has the code that was taken off. At the end the rest is 0, or it is
  shift n or more for n bits: the code has a bit too many, and the list is cleared. For
  the way back the rest is known better: it is the sum of the shifts of those sub types
  that are i or more (`Rest`), a sum in which at most one term is an odd multiple of shift i,
  so bit i is set exactly if i is in the list (`RestStep`, `BackTake`).

`CLogProofs` proves, for any types, stamps, windows, limits and number of lines
(`LogAssumption`; of the limits, that the directory has room for four files with a line
beyond their limit each, and that pruning takes at least as much as one such file; in
the code there is room for a hundred, and half of them go):

- `LogBounds`: `LogSpec => []FileBounded`. A full file is moved before the line is
  appended, so the line goes to a new file or to one that is short of its limit by a
  byte at least (`AppendFits`), and adds its own bytes and no others (`AppendBytes`).
- `LogKeeps`: `LogSpec => LinesKept`. A write is a rotation, an append and a
  removal, and one lemma says for each what becomes of a file; pruning removes
  files such that no older day is left (`PrunesOldest`).
- `LogTyping`: `LogSpec => []LogTypeOK`. The inductive `Filed` says moreover that
  a line's number is one that has been given out, so that a new line is in no other
  place, and that numbers ascend within a file.
- `LogRoom`: `LogSpec => DirBounded`. A rotation makes no byte (`RotateSize`), an
  append those of its line (`AppendSize`), and pruning none, so the directory grows by
  a line at most. Four files do not fill it, none being longer than `FileBounded` says
  (`ManyFiles`, `FiveFiles`). Where it is beyond its limit before and after a write,
  there are thus five files at least, and one more with the line's. Pruning for
  size removes two, for a single one is less than `PruneMin`; pruning for space does
  not look at the size, but a third of six is two, and a third of five, where the line
  made no file, is one (`PrunesEnough`, `WriteRoom`).
- `LogQueries`: `LogSpec => [](QueryComplete /\ QueryOrder)`, in every order of
  the directory. What is read is every place of the covered files once, in a
  strict order (`Ranked`, `LinesRead`). Of `maplog` after each line the proof
  shows that every line of the window is under one key, the first free one from its
  time on (`Collected`). A window's days cover the file of each of its lines, since
  a line is in the file of its day (`CoveredLines`): that is completeness. Lines
  out of order are so because one was displaced; the least time of a displaced line
  is one that two lines share (`Displaced`): that is `QueryOrder`.

`maplog`, `Taken` and the sum of `ut2Bsub` are defined by recursion, and what they
are after each step is a matter of induction, for which no prover is given a principle.
The proofs use instead that a set of numbers that is not empty has a least one (`Least` of
`NumberLemmas`, from the library's theorem that `<` is well founded): the set of those
lengths for which the statement fails has none (`Reached`). That a recursive function
satisfies its equation is proved the same way (`Recursion`).

What is only model-checked:

- `EveryCallEnds` as it stands: what is proved is that it follows once the steps
  whose guards hold can be taken (`CallsEnd`).
- `RemoveReturns`: `ConnLife` has no parameter but what `m_bExit` holds before it is
  assigned, and its state space is finite; TLC visits all of it, so that a proof would
  add nothing.
- `EveryoneServed` and `WindowAppears`: strong fairness, and counting over threads or
  channels of which each waits for the others. What they rest on is proved: no lock
  is free with sleepers only (`NoneForgotten`), and the window is drawn when every
  entry is there (`WindowComplete`).

The findings need no proof.

## 6. Not modelled

- Bodies that are shorter than the four blocks or count more than their slots.
- `DetectionsTrue` promises nothing for handles whose `m_itype` was never assigned.
- A kill inside `WriteLog`, files of others in `./Log/`, and messages whose words
  would make a backup's name match another type. Messages that contain a newline,
  whose second line `getLogMsg` would take for a line of the log; lines beyond the
  1 KiB of `msg` in `writelog`; and backup names that, with a message in them, are too
  long for `char file[128]` in `WriteLog`.
- The scheduler's early return from `run` when there is no outstanding work: the
  thread's work object is counted before `run` is entered (`ConnLife`).
- A part of an ini file written before the disk was full: a file that is cut short
  is empty here.
- Sub type codes that are negative.
- base64, code page conversion, image files, `rundaemon`: conversions and I/O
  without state.
- jsoncpp, Beast's parsers, OpenCV and the other vendored headers, beyond the
  effect of the calls the library makes. They are nearly all of the repository's
  lines; the program itself is about fifteen hundred, with its common library.
- Upgrade, timed and try operations of `shared_mutex`: not called.
- Drawing: the grid of the window, colours (`m_colorid`), text.

## 7. Plan

1. Done: the client library, its interface and bodies; the connection's lifetime;
   the lock; the pipeline; the log, the ini files and the sub type codes.
2. Done: proofs of every safety property the passing runs check, for all values of
   the constants; of the interface and of the lock as refinements; of the end of
   every call, given that enabled steps are enabled.
3. Next: `EveryoneServed` for any number of threads, from a count of the uses that are
   left to those who may still overtake.
4. Then: bodies that are shorter than the four blocks, once it is settled what a
   caller may expect of one.
