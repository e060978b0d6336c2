---------------------------- MODULE RequestReply ----------------------------
(***************************************************************************)
(* The way back: requests that have reached the JavaScript thread, the     *)
(* handlers of the file system object that answer them with the methods of *)
(* Replies, at once or from a later callback, and the exceptions they let  *)
(* through to Nan::FatalException (src/filesystem.cc:517-521).             *)
(*                                                                         *)
(* A handler is the set of the paths through its code that matter here:    *)
(* sequences of steps, each a call of a Reply method, a wait for a         *)
(* callback, an exception, or the beginning or end of a catch block.       *)
(***************************************************************************)
EXTENDS Replies, FiniteSets

CONSTANTS Operations,    \* the operations the kernel asks for
          Handlers,      \* [Operations -> sets of paths]: the file system
          Listener,      \* process.on('uncaughtException') has a listener
          Errors,        \* the error numbers that the file system uses, and ERANGE
          MaxRequests    \* bound: requests of the kernel

ASSUME RequestReplyAssumption ==
    /\ \A op \in Operations : Handlers[op] \subseteq Seq(Steps)
    /\ Errors \subseteq 1..999
    /\ Listener \in BOOLEAN /\ MaxRequests \in Nat

VARIABLES
    requests,   \* the operation of every request accepted
    next,       \* the request that DispatchOp delivers next
    turn,       \* the running JavaScript, <<>> or <<activation>>
    waiting,    \* the activations that wait for a callback
    answers,    \* [request -> what libfuse has sent for it]
    status      \* of the process: "up", "exited" or "crashed"

vars == <<requests, next, turn, waiting, answers, status>>

Service == INSTANCE AnswerService

\* An activation: the request whose Reply it holds, the steps left on its path,
\* and whether the Reply has a dentry_buffer.
Activation(n, path, layout) == [n |-> n, path |-> path, layout |-> layout]

Init ==
    /\ requests = <<>> /\ next = 1
    /\ turn = <<>> /\ waiting = {}
    /\ answers = <<>>
    /\ status = "up"

-----------------------------------------------------------------------------
\* The kernel asks and the bridge queues the request.
Ask(op) ==
    /\ status = "up"
    /\ Len(requests) < MaxRequests
    /\ Service!KernelMay(op)
    /\ requests' = Append(requests, op)
    /\ answers' = Append(answers, <<>>)
    /\ UNCHANGED <<next, turn, waiting, status>>

\* Broken: the command stays in the ring.
DispatchAgain ==
    /\ status = "up"
    /\ turn = <<>> /\ next <= Len(requests)
    /\ \E path \in Handlers[requests[next]] : turn' = <<Activation(next, path, FALSE)>>
    /\ UNCHANGED <<requests, next, waiting, answers, status>>

\* DispatchOp calls the handler with a new Reply bound to the request.
Dispatch ==
    /\ status = "up"
    /\ turn = <<>> /\ next <= Len(requests)
    /\ \E path \in Handlers[requests[next]] : turn' = <<Activation(next, path, FALSE)>>
    /\ next' = next + 1
    /\ UNCHANGED <<requests, waiting, answers, status>>

\* Where the catch block of a path's first step is, and where the block ends.
CatchOf(path) ==
    {i \in 1..Len(path) : /\ path[i].do = "catch"
                          /\ \A j \in 1..(i - 1) : path[j].do \in {"reply", "throw"}}
EndOf(path) ==
    {i \in 1..Len(path) : path[i].do = "end" /\ \A j \in 1..(i - 1) : path[j].do # "end"}
Behind(path, i) == SubSeq(path, i + 1, Len(path))

\* An exception that nobody catches ends the turn; without a listener for
\* uncaught exceptions it ends the process.
Uncaught ==
    /\ turn' = <<>>
    /\ status' = IF Listener THEN "up" ELSE "exited"

\* An exception of the running step: on with the catch block, if there is one.
Raise(layout) ==
    LET t == turn[1] IN
    \/ CatchOf(t.path) = {} /\ Uncaught
    \/ \E i \in CatchOf(t.path) :
          /\ turn' = <<Activation(t.n, Behind(t.path, i), layout)>>
          /\ UNCHANGED status

Running(do) ==
    /\ status = "up"
    /\ turn # <<>> /\ turn[1].path # <<>>
    /\ Head(turn[1].path).do = do

\* Broken: every Reply is bound to the request dispatched last.
ReceiverLatest(activation) == next - 1

\* `reply->request = req': the request that an activation's Reply answers.
Receiver(activation) == activation.n

\* A call of a Reply method, which may answer, throw, both or neither.
Reply ==
    /\ Running("reply")
    /\ LET t == turn[1]
           s == Head(t.path)
           out == Outcome(s.method, t.layout, s.args)
           layout == t.layout \/ s.method = "addDirEntry"
       IN  /\ answers' = [answers EXCEPT ![Receiver(t)] = @ \o out.answer]
           /\ \/ out.crashes /\ turn' = <<>> /\ status' = "crashed"
              \/ ~ out.crashes /\ out.throws /\ Raise(layout)
              \/ /\ ~ out.crashes /\ ~ out.throws
                 /\ turn' = <<Activation(t.n, Tail(t.path), layout)>>
                 /\ UNCHANGED status
    /\ UNCHANGED <<requests, next, waiting>>

\* An exception of the handler's own.
Throw ==
    /\ Running("throw")
    /\ Raise(turn[1].layout)
    /\ UNCHANGED <<requests, next, waiting, answers>>

\* A try block is through, and its catch block passed over, or that is through, too.
LeaveTry ==
    /\ Running("catch") \/ Running("end")
    /\ \E i \in EndOf(turn[1].path) : turn' = <<[turn[1] EXCEPT !.path = Behind(@, i)]>>
    /\ UNCHANGED <<requests, next, waiting, answers, status>>

\* The turn ends; the rest of the path runs in a callback.
Await ==
    /\ Running("await")
    /\ waiting' = waiting \cup {[turn[1] EXCEPT !.path = Tail(@)]}
    /\ turn' = <<>>
    /\ UNCHANGED <<requests, next, answers, status>>

\* The callback of an activation for request n.
Resume(n) ==
    /\ status = "up"
    /\ turn = <<>>
    /\ \E w \in waiting : w.n = n /\ turn' = <<w>> /\ waiting' = waiting \ {w}
    /\ UNCHANGED <<requests, next, answers, status>>

\* The handler, or the callback, returns.
Return ==
    /\ status = "up"
    /\ turn # <<>> /\ turn[1].path = <<>>
    /\ turn' = <<>>
    /\ UNCHANGED <<requests, next, waiting, answers, status>>

JavaScript == Dispatch \/ Reply \/ Throw \/ LeaveTry \/ Await \/ Return

Next ==
    \/ \E op \in Operations : Ask(op)
    \/ JavaScript
    \/ \E n \in 1..MaxRequests : Resume(n)

\* The event loop goes on, and calls back what a handler waits for.
Fairness == WF_vars(JavaScript) /\ \A n \in 1..MaxRequests : SF_vars(Resume(n))

Spec == Init /\ [][Next]_vars /\ Fairness

-----------------------------------------------------------------------------
(* Properties.                                                             *)

\* What the API asks of a path of a handler: one reply at most, with what the
\* operation documents.
Replying(path) ==
    {i \in 1..Len(path) : path[i].do = "reply" /\ path[i].method # "addDirEntry"}

RepliesOnce(path) == \A i, j \in Replying(path) : i = j

RepliesValidly(op, path) ==
    \A i \in 1..Len(path), layout \in BOOLEAN :
        LET answer == Outcome(path[i].method, layout, path[i].args).answer
        IN  path[i].do = "reply" /\ answer # <<>> => Service!IsValid(op, answer[1])

\* The activation of request n is over.
Over(n) ==
    /\ n < next
    /\ \A i \in DOMAIN turn : turn[i].n # n
    /\ \A w \in waiting : w.n # n

TypeOK ==
    /\ requests \in Seq(Operations)
    /\ answers \in Seq(Seq([kind : Service!AnswerKinds, errno : {0} \cup Errors]))
    /\ Len(answers) = Len(requests)
    /\ next \in 1..(Len(requests) + 1)
    /\ status \in {"up", "exited", "crashed"}
    /\ Len(turn) <= 1
    /\ \A i \in DOMAIN turn : turn[i].n \in 1..(next - 1)
    /\ \A w \in waiting : w.n \in 1..(next - 1)

\* No request is answered twice: libfuse frees a request with its answer, and
\* nothing in Reply looks at b_hasReplied before it uses the request again.
AnsweredOnce == \A n \in DOMAIN answers : Len(answers[n]) <= 1

\* What the kernel gets is what the API documents: one answer, to the request it
\* belongs to, of the operation's kind.
ImplementsAnswerService == Service!Spec

\* fuse.js, `Valid replies': an operation that documents its replies has had one
\* when its handler and its callbacks are through.
HandlersReply ==
    \A n \in DOMAIN requests :
        requests[n] \in DOMAIN Service!DocumentedReply /\ Over(n) => answers[n] # <<>>

\* README.md:69: a file system without `create' is asked for mknod and open
\* instead, which is what the kernel does when it is told ENOSYS.
CreateFallsBack ==
    \A n \in DOMAIN requests :
        requests[n] = "create" /\ Over(n) => answers[n] = <<Errno(38)>>

\* No caller of the kernel waits for ever: its request is answered, or the
\* process ends and the kernel fails what is pending.
EveryRequestAnswered ==
    \A n \in 1..MaxRequests :
        n \in DOMAIN requests ~> (n \in DOMAIN answers /\ answers[n] # <<>>) \/ status # "up"
=============================================================================
