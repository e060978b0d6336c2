---------------------------- MODULE AsyncBridge ----------------------------
(***************************************************************************)
(* The way of a request from libfuse to JavaScript: the FUSE session       *)
(* thread (the handlers of src/filesystem.cc called by                     *)
(* fuse_session_loop, src/bindings.cc:96), the ring between the            *)
(* threads, the uv_async_t that wakes the event loop, and the JavaScript   *)
(* thread in DispatchOp.                                                   *)
(*                                                                         *)
(* The ring is the LateQueue that SpscQueue implements: each thread reads  *)
(* the other's counter late.  `occupied' is the most that the FUSE thread  *)
(* may still believe to be queued, `sees' the number of commands at the    *)
(* front of the ring that the JavaScript thread cannot miss.               *)
(* uv_async_send coalesces: one flag stands for any number of sends, and   *)
(* taking it makes visible what was published before the last.             *)
(***************************************************************************)
EXTENDS FuseCommand

CONSTANTS Operations, WideOps,   \* the requests the kernel may make
          Capacity,              \* usable slots of the ring: __RING_SIZE__ - 1
          MaxRequests            \* bound: requests before the session ends

ASSUME BridgeAssumption ==
    /\ Capacity \in Nat \ {0} /\ MaxRequests \in Nat \ {0}
    /\ 1..MaxRequests \subseteq DOMAIN ToSet

VARIABLES
    requests, calls,   \* history: requests accepted, calls made
    fPc,               \* control point of the FUSE thread
    value,             \* its `struct fuse_cmd value', or what is left of it
    occupied,
    ring,
    wake, wakeSees,    \* the pending flag, and how much of the ring it announces
    closed,            \* uv_close has been called on uv_async_handle
    jPc,               \* control point of the JavaScript thread
    op,                \* DispatchOp's `struct fuse_cmd value'
    sees,
    heap               \* live strdup and malloc buffers

fuseVars == <<fPc, value, occupied>>
wakeVars == <<wake, wakeSees, closed>>
jsVars == <<jPc, op, sees>>
vars == <<requests, calls, fuseVars, ring, wakeVars, jsVars, heap>>

Service == INSTANCE RequestService WITH Window <- Capacity + 2
Ring == INSTANCE LateQueue WITH contents <- ring

Init ==
    /\ requests = <<>> /\ calls = <<>>
    /\ Ring!Init
    /\ fPc = "loop" /\ value = Uninitialised
    /\ wake = FALSE /\ wakeSees = 0 /\ closed = FALSE
    /\ jPc = "loop" /\ op = Uninitialised
    /\ heap = {}

-----------------------------------------------------------------------------
(* The FUSE thread.                                                        *)

\* A handler begins: it fills a struct on the stack, which may lie over the
\* struct of the handler before it or over other remains, and copies strings.
Handle(k) ==
    /\ \E old \in {value, Uninitialised} : value' = Marshalled(old, k)
    /\ requests' = Append(requests, k)
    /\ heap' = heap \cup Allocated(k)
    /\ fPc' = "produce"
    /\ UNCHANGED <<calls, occupied, ring, wakeVars, jsVars>>

\* fuse_session_loop reads the next request; the kernel's first is INIT.
Receive ==
    /\ fPc = "loop"
    /\ Len(requests) < MaxRequests
    /\ \E k \in IF requests = <<>> THEN {Service!InitRequest}
                ELSE Service!Requests(Len(requests) + 1) : Handle(k)

\* The loop ends (unmount, a signal, the device gone); fuse_session_destroy
\* calls destroy if init was called.
LeaveLoop ==
    /\ fPc = "loop"
    /\ IF requests = <<>>
       THEN /\ fPc' = "teardown"
            /\ UNCHANGED <<requests, calls, value, occupied, ring, wakeVars, jsVars,
                           heap>>
       ELSE Handle(Service!DestroyRequest(Len(requests) + 1))

\* Broken: one command too many.
ProduceBeyondCapacity ==
    /\ fPc = "produce"
    /\ \E c \in Len(ring)..occupied :
          IF c <= Capacity
          THEN ring' = Append(ring, value) /\ occupied' = c + 1 /\ fPc' = "signal"
          ELSE UNCHANGED ring /\ occupied' = c /\ fPc' = "retry"
    /\ UNCHANGED <<requests, calls, value, wakeVars, jsVars, heap>>

\* `result = ring_buffer.produce(value)'.
Produce ==
    /\ fPc = "produce"
    /\ \/ Ring!Put(value) /\ fPc' = "signal"
       \/ Ring!PutFails /\ fPc' = "retry"
    /\ UNCHANGED <<requests, calls, value, wakeVars, jPc, op, heap>>

\* uv_async_send(&uv_async_handle).
Send == wake' = TRUE /\ wakeSees' = Len(ring) /\ UNCHANGED closed

\* The send of the `while (!result)' loop, which then tries again.
SignalFull ==
    /\ fPc = "retry"
    /\ Send
    /\ fPc' = "produce"
    /\ UNCHANGED <<requests, calls, value, occupied, ring, jsVars, heap>>

\* Broken: a send only for the first command of the ring.
SignalFirstOnly ==
    /\ fPc = "signal"
    /\ IF Len(ring) <= 1 THEN Send ELSE UNCHANGED wakeVars
    /\ fPc' = IF value.op = "DESTROY" THEN "teardown" ELSE "loop"
    /\ UNCHANGED <<requests, calls, value, occupied, ring, jsVars, heap>>

\* The send that follows a successful produce; the handler returns.
SignalQueued ==
    /\ fPc = "signal"
    /\ Send
    /\ fPc' = IF value.op = "DESTROY" THEN "teardown" ELSE "loop"
    /\ UNCHANGED <<requests, calls, value, occupied, ring, jsVars, heap>>

\* The end of RemoteMount: uv_close drops a wake-up that is still pending.
CloseHandle ==
    /\ fPc = "teardown"
    /\ closed' = TRUE /\ wake' = FALSE /\ wakeSees' = 0
    /\ fPc' = "ended"
    /\ UNCHANGED <<requests, calls, value, occupied, ring, jsVars, heap>>

FuseThread == LeaveLoop \/ Produce \/ SignalFull \/ SignalQueued \/ CloseHandle

-----------------------------------------------------------------------------
(* The JavaScript thread.                                                  *)

\* The event loop takes the flag and calls DispatchOp.
WakeUp ==
    /\ jPc = "loop"
    /\ wake
    /\ wake' = FALSE /\ wakeSees' = 0
    /\ sees' = wakeSees
    /\ jPc' = "consume"
    /\ UNCHANGED <<requests, calls, fuseVars, ring, closed, op, heap>>

\* `while ((result = ring_buffer.consume(value)))': DispatchOp returns when it sees
\* no command.
Consume ==
    /\ jPc = "consume"
    /\ \/ /\ Ring!TakeFails
          /\ jPc' = "loop" /\ UNCHANGED <<op, wakeSees>>
       \/ /\ Ring!Take /\ op' = Head(ring)
          /\ wakeSees' = IF wakeSees = 0 THEN 0 ELSE wakeSees - 1
          /\ jPc' = "dispatch"
    /\ UNCHANGED <<requests, calls, fPc, value, wake, closed, heap>>

\* The switch: RemoteOp calls the handler of the file system object.
DispatchOp ==
    /\ jPc = "dispatch"
    /\ calls' = Append(calls, Dispatched(op))
    /\ jPc' = "handler"
    /\ UNCHANGED <<requests, fuseVars, ring, wakeVars, op, sees, heap>>

\* Broken: the switch runs again on the same command, or DispatchOp takes one
\* command per wake-up.
HandlerReturnsToSwitch ==
    /\ jPc = "handler"
    /\ heap' = heap \ (Freed(op) \cup HandedOver(op))
    /\ jPc' = "dispatch"
    /\ UNCHANGED <<requests, calls, fuseVars, ring, wakeVars, op, sees>>
OneCommandPerWakeUp ==
    /\ jPc = "handler"
    /\ heap' = heap \ (Freed(op) \cup HandedOver(op))
    /\ jPc' = "loop" /\ sees' = 0
    /\ UNCHANGED <<requests, calls, fuseVars, ring, wakeVars, op>>

\* The handler returns, or throws with someone listening for the exception
\* that Nan::FatalException raises; then the switch frees the strings.
HandlerReturns ==
    /\ jPc = "handler"
    /\ heap' = heap \ (Freed(op) \cup HandedOver(op))
    /\ jPc' = "consume"
    /\ UNCHANGED <<requests, calls, fuseVars, ring, wakeVars, op, sees>>

\* The handler throws and nobody listens: the process exits, both threads with
\* it.
HandlerThrows ==
    /\ jPc = "handler"
    /\ jPc' = "exited" /\ fPc' = "exited"
    /\ UNCHANGED <<requests, calls, value, occupied, ring, wakeVars, op, sees, heap>>

JsThread == WakeUp \/ Consume \/ DispatchOp \/ HandlerReturns

-----------------------------------------------------------------------------
Next == Receive \/ FuseThread \/ JsThread \/ HandlerThrows

\* produce() with the newest value of the consumer's counter.
FreshProduce == Produce /\ occupied' = Len(ring) + 1 /\ fPc' = "signal"

\* Both threads keep running once they have something to do (the session loop
\* need not receive or end), handlers return, and a store by one thread reaches
\* the other in the end, so a retried produce() cannot fail forever on a ring
\* that has room.
Fairness ==
    /\ WF_vars(Produce \/ SignalFull \/ SignalQueued \/ CloseHandle)
    /\ WF_vars(JsThread)
    /\ SF_vars(FreshProduce)

Spec == Init /\ [][Next]_vars /\ Fairness

-----------------------------------------------------------------------------
(* Properties.                                                             *)

\* An exception has ended the process.
Exited == jPc = "exited"

TypeOK ==
    /\ fPc \in {"loop", "produce", "retry", "signal", "teardown", "ended", "exited"}
    /\ jPc \in {"loop", "consume", "dispatch", "handler", "exited"}
    /\ Len(ring) <= occupied /\ occupied <= Capacity
    /\ sees \in 0..Len(ring) /\ wakeSees \in 0..Len(ring)
    /\ wake \in BOOLEAN /\ closed \in BOOLEAN
    /\ DOMAIN value = CmdFields /\ DOMAIN op = CmdFields

\* No wake-up is lost: as long as a command is queued that DispatchOp might not
\* see before it returns, the flag is up and announces the whole ring, or the
\* FUSE thread is about to raise it.  Only closing the handle breaks this.
NoLostWakeup ==
    \/ closed \/ Exited
    \/ fPc = "signal"
    \/ wake /\ wakeSees = Len(ring)
    \/ sees = Len(ring)

\* JavaScript gets what the kernel asked for: the i-th call is the call the API
\* documents for the i-th request, with its own arguments and its own Reply,
\* whatever the stack and the ring held before.
CallsAsPromised ==
    /\ Len(calls) <= Len(requests)
    /\ \A i \in 1..Len(calls) : calls[i] = Promised(requests[i])

\* The requests whose handler in JavaScript has not returned yet.
Unfinished == {i \in 1..Len(requests) :
                  i > Len(calls) \/ (i = Len(calls) /\ jPc \in {"handler", "exited"})}

\* Every string and data buffer lives until its request has been handled, and
\* no longer; the name of a create is never freed (lines 251-253).
BuffersMatchRequests ==
    heap = UNION {Allocated(requests[i]) : i \in
              {j \in 1..Len(requests) : j \in Unfinished \/ requests[j].op = "create"}}

\* free() is only ever given a live buffer, and two different ones: nothing is
\* freed twice and no stale pointer left in a reused struct is freed.
FreesOnlyLive ==
    [][ (jPc = "handler" /\ jPc' = "consume") =>
            Freed(op) \cup HandedOver(op) \subseteq heap ]_vars

\* Every request accepted from the kernel reaches JavaScript, unless the process
\* exits or the session is torn down first.
EveryRequestDelivered ==
    \A n \in 1..MaxRequests :
        Len(requests) >= n ~> (Len(calls) >= n \/ Exited \/ closed)

\* The bridge uses the ring as LateQueue allows and in no other way: what DispatchOp
\* has been shown by a wake-up it never loses sight of (src/filesystem.cc:134), and
\* the ring holds nothing but what the handlers have filled in.
UsesTheRing ==
    [][ Ring!Put(value) \/ Ring!Take \/ Ring!ProducerLooks \/ Ring!ConsumerLooks
      ]_<<ring, occupied, sees>>

\* The bridge implements the request service: one step accepts, one delivers.
ImplementsService == Service!Spec
=============================================================================
