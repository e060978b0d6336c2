# fusejs in TLA+

fusejs lets a file system be written in JavaScript: libfuse's low-level
operations arrive on a thread of their own, cross to the thread of the
JavaScript engine through a lock-free ring, become calls of a JavaScript object,
and are answered through `Reply` objects. This directory holds TLA+ models of
that path, the TLC runs that check them and the TLAPS proofs about them.

Paths in the modules and in this file are relative to the root of the
repository (`src/filesystem.cc`, `fuse.js`); `PROJECT.json` writes them with one
more `src/` in front.

## 1. Inventory

| Part | Source | State | Operations | Interacts with |
|---|---|---|---|---|
| Command queue | `src/spsc_queue.h` | `_head`, `_tail`, `_buffer` | `produce`, `consume` | called by the handlers (session thread) and by `DispatchOp` (JavaScript thread), with no lock |
| Command marshalling | `src/filesystem.cc`, `src/filesystem.h`, `src/node_fuse.cc` | the `struct fuse_cmd` on the stack, duplicated strings on the heap | `FileSystem::Op` and `FileSystem::RemoteOp` for 28 operations, the switch of `DispatchOp` | called by libfuse; calls the file system object |
| Asynchronous bridge | the same handlers, `src/bindings.cc` | the ring, `uv_async_handle` with its pending flag | produce, retry and send; wake up, drain and dispatch; close | libfuse's session loop, libuv's event loop |
| Replies | `src/reply.cc` | `request`, `b_hasReplied` | `entry`, `attr`, `readlink`, `err`, `open`, `buffer`, `write`, `statfs`, `create`, `xattr`, `none` | called by handlers at any later time; libfuse frees the request |
| Directory stream | `src/reply.cc` 224-274, 467-527 | `dentry_buffer`, `dentry_acc_size`, `dentry_offset` | `addDirEntry`, `buffer` | the kernel's sequence of readdir calls, the `readdir` of a file system |
| Mount and unmount | `src/bindings.cc` | `session`, `channel`, `fargs`, `mountpoint`, `fuse_thread`, the handle | `mount`, `unmount`, `RemoteMount`, the destructor | both threads, the kernel, a second mount |
| Open files | `src/file_info.cc` | a copy of a `fuse_file_info` for each call | the accessors of `FileInfo` | handlers, `reply.open`, `reply.create`, the kernel that keeps the handle |
| Value conversions | `src/node_fuse.cc`, `src/forget_data.cc` | none | struct to object and back | marshalling, replies, the kernel's attribute cache |
| Default file system | `fuse.js` | none | one handler per operation | marshalling, replies |
| Example file systems | `examples/` | inode and path maps | a subset of the handlers | replies, the directory stream |
| Extended attributes, locks, bmap, ioctl, poll | `src/filesystem.cc` 2004-2293, 2429-2563 | | never registered (lines 318-327) | nothing reaches them |

What is hard here, and what makes each part correct:

* **Two threads and no lock.** The queue relies on acquire and release orderings
  and on counters that each thread reads late. Correct means: nothing lost,
  repeated, torn or reordered, no slot touched by both threads at once, and a
  call that fails only for a reason. (`NoDataRace`, `DeliveredInOrder`,
  `RingInvariant`, `FailsOnlyAtTheLimit`, `ImplementsFifo`.)
* **Wake-ups that coalesce.** Any number of `uv_async_send` calls give one
  callback. Correct means that no command stays in the ring with nobody told of
  it. (`NoLostWakeup`, `EveryRequestDelivered`.)
* **Memory that is reused and handed over.** A command is built in an
  uninitialised struct on a stack that held other commands; its strings are
  allocated by one thread and freed by another. Correct means that a call gets
  its own request's arguments and that each buffer is freed once, when its call
  is over. (`CallsAsPromised`, `BuffersMatchRequests`, `FreesOnlyLive`.)
* **The end of a session.** libfuse calls `destroy` while the session thread
  tears everything down. (`InitFirst`, which the code does not meet:
  `late_destroy` in section 3.)
* **One object for every mount.** A process has one Fuse object, one ring and one
  handle; the session thread reads the object's fields at every step, and mounting
  can fail half-way. Correct means that a thread only uses what is its own and still
  there, leaves nothing behind, and that each file system object sees `init` first
  and `destroy` last. (`UsesAreLive`, `NothingLeft`, `ImplementsSessionProtocol`,
  `GoneIsReleased`; `InitFirst`, which the code does not meet.)
* **Answers at any time.** A handler answers at once, from a callback, twice or
  never; the argument checks of the replies throw without returning, and an
  exception that nobody catches ends the process. Correct means that each caller
  gets one answer, its own, of the right kind. (`AnsweredOnce`,
  `ImplementsAnswerService`, `EveryRequestAnswered`.)
* **Files open at the same time.** The handle that one open stores must come back
  with that file and no other. (`HandleComesBack`, `OptionsReachTheKernel`,
  `ReadersNeverWrite`.)
* **A folder that changes under the mirror.** The loopback's maps and the kernel's
  caches go by inode numbers that the disk uses again, and by times in two units.
  (`KnownInodesResolve`, `ShownIsRecent`.)
* **A directory cut into pieces.** Each readdir call lays out the whole directory
  again and cuts it at the kernel's cookie. Correct means that the pieces make one
  complete listing. (`ListsInOrder`, `AnswersAreEntries`, `EndIsComplete`,
  `ListingEnds`; three cases where the code fails them are in section 3.)

`PROJECT.json` lists every hazard at its line, with the properties that would catch it
in a run, or the reason why none does. Some hazards have come true in the code: the
property that states them fails in a configuration of its own (section 3), and the runs
leave the case out; their notes name the configuration.

## 2. Modules

### SpscQueue, LateQueue, BoundedFifo: the ring

`SpscQueue` is `spsc_bounded_queue_t` with one memory access per step.
`produce` is `ProduceCall` (the relaxed load of `_head`), `ProduceCheck` (the
acquire load of `_tail` and the test), `ProduceWriteBegin` and `ProduceWriteEnd`
(the copy of a struct, which is not atomic) and `ProducePublish` (the release
store); `consume` likewise. The histories `sent` and `received` record what the
successful calls were given and gave back; `head` and `tail` are their lengths
modulo `Wrap`. An acquire load may return any value the counter has had since
the newest one this thread has read: `pSeen` and `cSeen` say how far each has
read. That is what the C++ memory model leaves possible for one atomic variable
with one writer; that a slot's content is visible with the counter is what
acquire and release guarantee, so slots are read at their current value.

`LateQueue` is what a caller may count on: a first-in first-out queue of `Capacity`
values whose two ends see each other's progress late. `occupied` is the most that
the producer may believe to be queued, `sees` the number of values that the consumer
cannot miss. `BoundedFifo` makes it a specification with the history of what was
delivered, and `ImplementsFifo` says that `SpscQueue` implements it with
`Size - 1` places: `ProducePublish` is a put, `ConsumePublish` a take, the two checks
are looks, and every other step is a stutter. A call that fails is a look and no more;
`FailsOnlyAtTheLimit` says what it has seen.

### FuseCommand: one request, one call

`FuseCommand` is pure: for each operation the function that fills the command
from libfuse's arguments (`Lookup`, ..., `Create`, on top of what the stack held)
and the one that makes the JavaScript call (`RemoteLookup`, ...), `Dispatched`
for the switch between them, `Allocated`, `Freed` and `HandedOver` for the
buffers. Data are tokens: argument `a` of the n-th request is `<<n, a, w>>`, so a
value that comes from another request or from the wrong field shows.
`Promised` is what the call should be: the parameters that `fuse.js` declares
(the examples where `fuse.js` declares none, libfuse where neither does), each
with the request's own argument. The flags of a setattr are a set (`ToSet`), from which
`AttrsToBeSet` makes the object's members one `if` after the other, as the code does;
`AttrsMeant` is the promise of `fuse.js:116`, member by member: what the flags indicate,
and the present time where they say so.

### RequestService, AsyncBridge: from libfuse to JavaScript

`AsyncBridge` composes the two threads. The session thread receives a request
(`Receive`) or leaves its loop (`LeaveLoop`), fills a command over what is left on
its stack (`Handle`), tries `Produce`, sends and retries while the ring is full
(`SignalFull`), sends once it is queued (`SignalQueued`), and ends with
`CloseHandle`. The JavaScript thread takes the flag (`WakeUp`), drains the ring
(`Consume`), calls (`DispatchOp`), and then either frees the strings
(`HandlerReturns`) or ends the process, when a handler throws and nobody listens
(`HandlerThrows`: both threads are at the control point "exited"). The ring here is
`LateQueue` itself (`Ring == INSTANCE LateQueue`): `Produce` is `Ring!Put` or
`Ring!PutFails`, `Consume` is `Ring!Take` or `Ring!TakeFails`. So the bridge is checked
and proved for any ring that keeps that promise, and `SpscQueue` is proved to keep it.
Taking the flag makes visible what was published before the last send: that is libuv's
contract for `uv_async_send`, an assumption about a library outside this repository.
`UsesTheRing` says that this look, too, is one that `LateQueue` allows: a wake-up never
takes away what the consumer had already seen.

`RequestService` is the promise: requests accepted in order, each delivered once
as the promised call, at most `Capacity + 2` between the two (one in the
producer's hands, one in the consumer's).

### DirStream: a directory in pieces

`DirStream` models a listing from the kernel's requests to the loopback example's
`readdir` and back. `Open` and `Close` are opendir and releasedir; `Ask` is a
readdir request at the cookie of the last entry the caller took; `ScanFiles`,
`AddFile` and `Answer` are the callback of `fs.readdir`, its loop and
`reply.buffer`, one turn of the event loop (no other callback begins while a
reader is "filling"); `Take` lets the caller take any part of the answer, `Rewind`
go back to any entry, `End` sees an answer without a whole entry. `AddDirEntry` and
`BufferReply` translate the two methods of `Reply`: a layout is the sequence of its
entries, each with the bytes it takes and its cookie, and a place that
`fuse_add_direntry` had no room to write is a `Hole`. How the kernel reads an
answer (whole entries only) is external, as is `fuse_add_direntry`. The directory
changes only while nobody lists it (`Change`): a file that comes or goes under a
listing moves the bytes that the cookies stand for, and no document says what
should happen then.

### Replies, RequestReply, AnswerService, FileSystems: the way back

`Replies` is pure: `Outcome` says of a call of a Reply method what libfuse sends, if
an exception is left pending and if the process dies. A check that fails throws and
goes on; an argument that is not there is `undefined`, whose `ToObject()` is an
empty handle that takes the process down. Arguments are kinds of values, and
error numbers.

`RequestReply` runs the file system. `Ask` is a request that has reached the
ring; `Dispatch` calls its handler with a new Reply; `Reply`, `Throw` and `Await` are
the steps of a handler, a path chosen from the set of paths that the constant
`Handlers` gives for the operation; `Resume` is the callback of one that waits,
`Return` the end of a turn. One turn runs at a time. A path may hold a try block
(`Try` of `Replies`): an exception in it, of the handler's own or of a reply, goes on
with the catch block (`Raise`), and without one the path runs past it (`LeaveTry`), as in
the loopback's getattr and readdir. `Uncaught` is
`Nan::FatalException`: the process goes on if somebody listens and exits if not.

`AnswerService` is the promise: every request gets at most one answer, of the
operation's kind (`Valid replies` in `fuse.js`; where it is silent, libfuse's
documentation), in any order. `FileSystems` gives the handlers of the default file
system, of `examples/example.js` and of `examples/loopback.js` as paths, and those
of a file system that calls the right method with any arguments.

### MountLifecycle, SessionProtocol: mounts of one process

`mount()` is `MountArguments`, then `MountThrows` or `MountDevice`, `MountObject` and
`MountStart`, which starts the session thread of the mount; that thread is
`RemoteMount` line by line: `CreateSession`, `StartSession`, the loop (`TestExit`, then
`Request`, `ReadGone`, `Signal` or `ReadFails`), `DestroySession`, `Release`,
`CloseHandle`. `fuse` holds the fields of the Fuse object, each as the number of the
mount that set it, and every step of a thread uses what it finds there. `Failures`
and `Ends` say what may fail and what may end a session. The ring is a sequence
here; `AsyncBridge` has the ring itself. When a session or a thread cannot be created
(`src/bindings.cc:79`), `uv_async_handle` stays open, and the next `MountStart`
initialises it again. libuv leaves that undefined: in the model it does as a new
handle or ends the process. A handle that is still being closed ends it, by an
assertion of libuv.

`SessionProtocol` is the promise of `fuse.js:12-32` over all mounts: a new object for
each, `init` first, `destroy` last, no call for another one's session. It is
implemented if the program waits, with the next mount, until nothing is queued or
being closed (`Remount = "settled"`); if it only waits for the thread, a
leftover `destroy` comes before `init` (`late_destroy`). The model has no two
mounts at once, and calls `unmount` once, after `init`: no document says what
else should happen.

### OpenFiles, Loopback, AttributeCache

`OpenFiles` follows files from open to release: `Open` makes the FileInfo of a call,
`StoreHandle` and `StoreOption` are the handler's, `ReplyOpen` gives the kernel what
the FileInfo holds, and `Read`, `Write` and `Release` bring it back in new ones.
`HandleLimit` stands for 2^32. opendir and create use the same objects the same
way.

`Loopback` has the two maps of `examples/loopback.js`, the folder under other
programs' hands (`CreateFile`, `RemoveFile`, `RenameFile`, with inode numbers used
again) and the inode numbers the kernel has been told. `ReadDir` and
`ReadDirCallback` are two steps, so that the folder changes between them, and so do
other listings: `Readers` bounds how many wait at once. No hard links.

`AttributeCache` takes one modification time from `fs.statSync` through the handlers
and the conversions to the kernel and to a program that calls stat. `Second` is the
number of clock ticks (milliseconds) in a second.

## 3. Runs

| Run | Question | Bounds |
|---|---|---|
| `spsc_queue` | Is the ring a queue, under every interleaving and every stale read? | 4 slots, counters modulo 8, 9 values of 2 kinds: every slot is reused and both counters wrap; the values are symmetric |
| `bridge_operations` | Is every operation delivered as declared, whatever was on the stack before, and are its buffers freed at the right moment? | every two operations after INIT, room for one command, so that the ring fills and structs are reused; a setattr sets the owner and the size, or times that are given and now in one |
| `bridge_flow` | Are requests delivered once, in order, and in the end, through the ring that `SpscQueue` implements? | four requests of two kinds, room for two commands |
| `listing` | Is a directory listed completely, in order, once, however the answers are cut and taken? | two readers; directories of one to four entries of 2, 3 and 4 bytes, answers of 5, so that cuts fall inside entries and on their ends; two rewinds for each listing |
| `replies_any` | Is every caller answered, once, when methods get arguments of any kind? | two requests of ten operations, an argument list of at most two values of ten kinds, exceptions survived |
| `replies_examples` | Do the examples answer each request once and as documented, or end the process? | four requests of 9 operations, so that three listings wait for callbacks after an opendir; each request takes a path of either example |
| `mounts` | Do mounts that fail or end anywhere use only what is live, leave nothing, and keep `init` first and `destroy` last? | three mounts, two requests each besides `init`, every failure and every end |
| `open_handles` | Does each file get its own handle and options, and are modes told apart? | two files, four numbers for handles, all access modes, interrupted opens |
| `loopback_inodes` | Does getattr give the right file for a right inode number? | two directories with a file in each, three inode numbers, six changes, two listings at once by symmetric readers: each number can be used for every path, and a lookup can go by a directory that has gone |
| `attribute_timeout` | Is a stat never older than the timeout, and in seconds? | seconds of two ticks, a timeout of one, eight ticks: the attributes expire at least twice |
| `symlink_reply`, `late_destroy` | Two places where the code does not do what its documentation says | the smallest instance that shows each |

Longer runs add no new case: a command can only inherit fields from the struct
before it, which two consecutive requests cover, and the ring's behaviour
depends on the difference of its counters modulo the size, which nine values
over four slots go through in full. What holds beyond the bounds is the subject
of the proofs.

In the same way a third request adds nothing for `replies_any` but another pair,
and a third mount of `mounts` finds the object's fields as the second left
them. What one open can do to another, two show.

Deadlock is not checked where the system may rest or stop: in the runs of the
bridge, of the replies and of the mounts, when no request comes or the process
exits, and in those of the open files, when all are closed.

**Fairness.** The session thread and the JavaScript thread are scheduled as long
as they have something to do (weak fairness): nothing in the code blocks them
but each other. No fairness for `Receive` and `LeaveLoop`: the kernel need not
ask for anything. Handlers are taken to return: a handler that never does stops
the event loop for good. `FreshProduce` has strong fairness: a store becomes
visible to the other thread in finite time, so `produce` cannot go on failing
for ever on a ring that has room. Without it the retry loop could spin on one
stale counter. In `DirStream` callers go on reading (weak fairness for each reader)
and the event loop gets round to every callback that is ready (strong fairness
for `ScanFiles`, which waits while another callback runs). In `RequestReply` the
JavaScript thread goes on (weak fairness for all its steps together) and what a
handler waits for comes back (strong fairness for each `Resume`, which has to wait
for its turn); the kernel need not ask. In `MountLifecycle` both threads are
scheduled, and neither the kernel's requests nor the umount command need come:
that is why `UnmountWaits` (below) finds a thread that reads for ever.

**Where the code does not do what it says.** Two runs expect a violation:

* `symlink_reply`: `FileSystem::SymLink` (`src/filesystem.cc:1078`) never stores the
  request; the call gets the context and the Reply of whatever request the stack
  still holds.
* `late_destroy`: `uv_close` (`src/bindings.cc:107`) follows the `destroy` command at
  once and drops a wake-up that has not been taken; the ring
  (`src/filesystem.cc:124`) outlives the session, and the `destroy` left in it is the
  first call of the next session's object, or is never called at all.

The other configurations are kept to reproduce the disagreements met on the way.
Each is checked with `tlc -config X.cfg M` and gives a counterexample to the one
property in it:

| Configuration | Module | What the code does |
|---|---|---|
| `MultiForgetFields` | `MCAsyncBridge` | `RemoteMultiForget` (`src/filesystem.cc:564`) hands out `FileInfo` objects where `fuse.js:86` promises objects with `inode` and `nlookup` |
| `ForgetCount` | `MCAsyncBridge` | the lookup count is cast to `int` (`src/filesystem.cc:625`) |
| `EmptyListing` | `MCDirStream` | with no entry added, `reply.buffer(new Buffer(0), requestedSize)` hands libfuse `requestedSize` bytes at an empty buffer (`src/reply.cc:251`) |
| `LongNames` | `MCDirStream` | `files.length * 256` (`examples/loopback.js:158`) is too little for names beyond 232 bytes; the entry at the edge is counted but not written |
| `DanglingLink` | `MCDirStream` | a file that cannot be stat'ed is not listed, where `test/test_loopback.js:41` expects the same names on both sides |
| `VanishedFile` | `MCRequestReply` | the loopback's getattr names a variable that does not exist on its error path (`examples/loopback.js:105`) and replies nothing |
| `CreateFallback` | `MCRequestReply` | the default `create` (`fuse.js:456`), declared without parameters, throws where it means to reply ENOSYS; `README.md:69` counts on that reply |
| `CaughtReply` | `MCRequestReply` | a reply whose argument check throws and that is sent all the same (`src/reply.cc:123`), in a try block like the loopback's, is followed by the error of the catch block: two answers to one request, and nothing looks at `b_hasReplied` |
| `UnmountWaits` | `MCMountLifecycle` | `unmount()` (`src/bindings.cc:239`) sets a flag that a thread blocked in a read does not see |
| `NoUsage` | `MCMountLifecycle` | `--help` is stored at index 1 of an empty array (`src/bindings.cc:160`) and never read |
| `RecreatedPath` | `MCLoopback` | a path is recorded once (`examples/loopback.js:66`), and the file that replaces the first one is unknown under its own number |
| `DocumentedHandle` | `MCOpenFiles` | `fuse.js:295` says `fileInfo.fh`, the accessor is called `file_handle` (`src/file_info.cc:104`) |
| `WideHandle` | `MCOpenFiles` | of a handle, 32 bits are kept (`src/file_info.cc:295`) |
| `TimePrecision` | `MCAttributeCache` | a modification time is cut to seconds (`src/node_fuse.cc:156`), and `test/test_loopback.js:143` expects the file's own |

What `VanishedFile` shows has its part in `replies_examples`, too, as a process that
exits: `EveryRequestAnswered` grants that, since the kernel then fails what is pending.
`create` is not among that run's operations, so `CreateFallback` has none.

## 4. Proofs

**The ring.** `SpscQueueProofs` proves that the ring is correct for every `Size`
that is a power of two, every `Wrap` that is a multiple of it, any values and any
number of them (`QueueAssumption`). It begins with the facts about remainders that
the ring rests on.

The inductive invariant is `RingInvariant`: types; each counter is the length of a
history modulo `Wrap` (`CountersMatch`); what each thread has seen of the other is
in the other's past, and a thread past its check has seen enough (`ViewsSound`);
each value published and not yet taken is whole, in its slot
(`SlotsHoldPending`); and the order. None of the properties is inductive alone:
that a value is still in its slot when it is read needs that the producer stays
`Size - 1` ahead at most, which needs that its view of the tail, however old, is a
view of the past. The arithmetic enters in two lemmas, `RoomIffNotFull` and
`ItemIffNotEmpty`: the masked differences of wrapped counters decide exactly
what the differences of the counts do. `ProducerStep` and `ConsumerStep` have
one step per action.

`RingIsFifo` is the refinement. The mapping takes `occupied` to what was published
since the newest tail the producer has seen, and `sees` to how far the newest head the
consumer has seen is ahead of its tail. An old tail only makes the ring look fuller, so
a put goes by a count that is no smaller than the truth and still below the limit
(`PublishIsPut`); the value that has been read is the first of the abstract contents
and one that the consumer has seen (`PublishIsTake`); and the acquire loads only ever
bring the two views closer to the truth (`CheckIsLook`).

**The commands.** `AsyncBridgeProofs` begins with the proof of `RoundTrip`: a
command filled over any struct at all and then dispatched makes the promised call.
It holds for `SoundRequest`: not for symlink and multiforget, nor for counts of
forget and readdir beyond 31 bits (`SymlinkReply`, `MultiForgetFields`,
`ForgetCount`), and assumes that libfuse passes a `fuse_file_info` to every
operation but getattr and setattr. There is one case per operation, with the same
steps: what the handler fills in, which case of the switch that selects, what the
promise is. `AttrsAgree` is that of setattr's attributes, for every set of flags: the
tests of `GetAttrsToBeSet`, in their order, make the members that are promised. `BuffersReturned` is about the same commands' memory and holds for every
registered operation, symlink and multiforget included: what the handler allocated,
and no stale pointer in a field it left alone, is what `DispatchOp` gives back, but
for the name of a create.

**The bridge.** What follows holds for every `Capacity` and any number of requests.
`WakeupsKept` needs nothing about the commands: `FlowInv` adds to `NoLostWakeup`
that each thread's view of the ring is late in one direction only (`Views`) and that
the event loop has nothing in view between two callbacks, which is also why the bridge
uses the ring as `LateQueue` allows (`RingUsed`): draining the ring before it returns,
`DispatchOp` forgets nothing that a wake-up has shown. `DeliveryInv` adds that
requests are accounted for (called, in dispatch, in the ring or in the handler's
hands, `Accounted`) and that a command, wherever it is, was filled for the request
at that place (`Carried`); it holds for all operations. `CallsKept` and
`BridgeServes` assume `SoundTraffic`, that all requests are sound, and use
`RoundTrip` where the command is dispatched. `CallsAsPromised` alone is not
inductive: it says nothing of the commands still on their way. For the refinement,
`Handle` maps to `Accept`, `DispatchOp` to `Deliver` and every other step to a
stutter; that the window suffices is the accounting.

The last part is about memory and types. `BuffersKept` and `FreesAreLive` assume
only that the kernel asks for registered operations (`RegisteredTraffic`). A handler
that returns gives back the buffers of its own request (`ReturnsBuffers`, from
`Carried` and `BuffersReturned`), and no two requests share a buffer, since a buffer
is named after the request that it was copied for (`BuffersAreOwn`); so the heap
shrinks by exactly what the request held.

**The open files.** `OpenFilesProofs` holds for any number of opens, stored in and
replied to in any order. Until the reply the FileInfo holds what the handler stored,
from then on the kernel does (`OptionsInv`, `HandleInv`), and no other open touches
either. `HandleKept` assumes `SoundHandles`: the handles fit 32 bits and are stored as
`file_handle` (`WideHandle` and `DocumentedHandle` show that it must).

**The mounts.** `MountProofs` proves `UsesAreLive`, `NothingLeft` and `TypeOK` of
`MountLifecycle` for any number of mounts, requests, failures and ends. Their
invariant says that at most one session thread is at work, that of the last mount,
and for each point of its code, and of `mount()`, what is in the fields of the
object, what is live and what is released. `SessionsAsPromised` assumes
`Remount = "settled"`; its invariant adds that the object in use is the current
mount's (`CurrentObject`), that the commands in the ring and the calls made, one
after the other, begin with `init` (`InitLeads`) and end with `destroy`
(`DestroyEnds`), and that nothing is asked before a thread is there
(`NothingUnasked`). `Dispatch` maps to the abstract step and all others to a stutter.

**The answers.** `RequestReplyProofs` is about any file system. `OneAnswer`
assumes `OnceEach`, that no path of a handler replies twice; `ReplyTypes` and
`AnsweredAsDocumented` assume `AsDocumented`, that the replies are also of the
operation's kind, with arguments for which `Replies` gives a valid answer. The
invariant follows an answer from the reply that is still ahead: a request has one
activation (`OneActivation`), and while a reply is ahead on it there is no answer
(`OneAhead`), and what is ahead is valid (`ValidAhead`). An exception goes on behind the
steps that it skips, so that what is ahead then is a part of what was (`RestReplies`). TLC evaluates the
hypotheses for the default file system and both examples (`FileSystemsKeepToTheAPI` in
`MCRequestReply`), so that the theorems apply to them for any number of requests.

**The listings.** `DirStreamProofs` holds for any number of readers, any directories
and any sizes of entries and answers. `ListingTypes` needs nothing else; the other
three assume `SoundListing`: an entry takes no more than the `PerFile` bytes that
readdir reckons with, the layout's size is a `size_t`, and each directory has
something to list. `LongNames` and `EmptyListing` show that the first and the last
must hold, and TLC evaluates the assumption for the run (`ListingIsSound` in
`MCDirStream`). The idea of the proof is one fixed layout: `Ends` gives the byte
position behind each of the listable files, `Entry` the entry in each place, and
everything that a reader holds is a `Part` of it. What the caller has taken is a part
from the start, the answer is the part behind it (`TakenInv`), the Reply holds the
layout of the files that the loop has passed (`LayoutInv`), and an empty answer comes
only behind the last entry (`EndInv`). `LayoutGrows` shows that each entry fits, so that
`size - acc_size` never wraps; `AnswerFollows` that a cut at a cookie falls between two
entries and leaves a whole one, since an entry is no larger than an answer. Neither
order nor completeness is inductive without the layout: they do not say that the
next request cuts the new layout where the old one was cut.

Positions are sums over a directory, so these facts need induction. The library's
induction rule has an operator as a parameter, which no prover here takes; `Induction`
states it for a set of numbers and follows from the well-foundedness of the
finite sets `1..n` under inclusion. With it, `AmongExists` and `EndsExist` show that the
recursive definitions define functions, and `AmongGrows`, `EndsGrow` and `EndsBound` what
those are like.

**The loopback's numbers.** `LoopbackProofs` holds for every tree of paths, every set
of inode numbers and any number of changes and lookups. `NumbersResolve` and
`KernelNumbersRight` assume that no path is used twice (`~Rebind`; `RecreatedPath` shows
that it must be so). The maps only grow, so they hold paths that have gone, and a
lookup goes by the path of a parent that may have gone and whose number may have
been used again: `KnownInodesResolve` alone is not inductive. `PathInv` says that the
folder is a tree in which a number belongs to one path (`FolderInv`), that the maps only
hold paths that have been used (`MapsKnown`) and agree on the files that are there
(`MapsAgree`), that the number the kernel has for a file that is there is the right one
(`KernelRight`), and that a path that the kernel knows and that has gone can never come
back, because a path that leads to it has been used and has gone (`KernelBarred`).

**The attribute cache.** `AttributeCacheProofs` holds for every length of a second in
ticks, every timeout and every time to start from. The kernel's attributes, while
they are valid, show a time that the file had when they were asked for, and they
were asked for no longer than the timeout ago (`Fresh`); `past` holds all the times the
file has had (`PastKnown`), and a step of the clock or of a writer only adds to it.

| Theorem | States |
|---|---|
| `RingCorrect` | `RingInvariant` always holds |
| `TypeCorrect`, `OrderCorrect` | its parts |
| `RaceFreedom` | producer and consumer are never in one slot |
| `FailuresAreTrue` | `produce` fails only on a ring it has seen full, `consume` only on one it has seen empty |
| `RingIsFifo` | the ring implements `BoundedFifo`, the late views included |
| `RoundTrip` | a dispatched command is the promised call |
| `BuffersReturned` | a dispatched command gives back the buffers of its request |
| `WakeupsKept` | no wake-up is lost |
| `RingUsed` | the bridge's steps on the ring are those of `LateQueue` |
| `CallsKept` | the calls are the promised ones, in order |
| `BridgeServes` | the bridge implements `RequestService` |
| `BuffersKept`, `FreesAreLive` | `BuffersMatchRequests` and `FreesOnlyLive`: no leak but create's, no double free, no stale free |
| `BridgeTypes` | the types of `AsyncBridge`, the ring's bound among them |
| `HandleKept`, `OptionsKept`, `ReadersProtected` | each file has its own handle, options and mode |
| `FilesTyped` | the types of `OpenFiles` |
| `UsesLive`, `LeavesNothing`, `MountTypesKept` | `UsesAreLive`, `NothingLeft` and the types of `MountLifecycle` |
| `SessionsAsPromised` | settled mounts implement `SessionProtocol` |
| `OneAnswer` | no request is answered twice |
| `ReplyTypes` | the types of `RequestReply` |
| `AnsweredAsDocumented` | the answers implement `AnswerService` |
| `ListedInOrder`, `CompleteAtEnd` | callers see the listable files in order, none twice, and all of them by the end |
| `OnlyEntries` | the kernel reads only what `addDirEntry` has written |
| `ListingTypes` | the types of `DirStream` |
| `NumbersResolve` | getattr with a right number is about the right file |
| `KernelNumbersRight` | the kernel's number for a file that is there is the file's own |
| `LoopbackTypes` | the types of `Loopback` |
| `ShownRecent` | a stat shows what the file had within the timeout |
| `CacheTypes` | the types of `AttributeCache` |

Every invariant, action property and refinement that a passing run checks is proved,
from the assumptions named above. Only model-checked are the liveness properties, with
the fairness they need (`EveryRequestDelivered`, `ListingEnds`, `EveryRequestAnswered`,
`GoneIsReleased`): the prover has neither ENABLED nor the rules for fairness. The
examples' readdir and getattr are proved about as `DirStream` and `Loopback` state
them, apart from each other.

## 5. What is left

`RequestReply` and `MountLifecycle` composed: replies that come after the end of the
session they belong to. Until when a Reply may be used is documented nowhere.

Not modelled and not planned:

* The xattr, lock, bmap, ioctl and poll code is never registered
  (`src/filesystem.cc:318-327`), `ObjectToFlock` and `FlockToObject` are only used by it,
  `Lock` and `BMap` of `Reply` are not exported, and no `ForgetData` is ever made: nothing
  reaches this code.
* The destructor of `Fuse`: `fuse.js` exports the one object, which lives as long as
  the process.
* Tables of symbols and error numbers, the build files, the tests.
* The members of stat and statvfs that are copied one by one; that `f_frsize` is
  filled from `blocks` (`src/node_fuse.cc:171`) contradicts no document.
* Two mounts at once, calls of `unmount` before `init` or twice, a directory that
  changes under a listing, hard links in the mirrored folder: no document says what
  should happen.
* The JavaScript engine, libuv, libfuse and the kernel are external: their steps are
  modelled by what the code here relies on.
