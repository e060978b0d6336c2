--------------------------- MODULE RequestService ---------------------------
(***************************************************************************)
(* What fusejs promises a file system written in JavaScript: each request  *)
(* of the kernel becomes the call that the API documents for it, exactly   *)
(* once, in the order the kernel made them, and never more than Window of  *)
(* them are under way.                                                     *)
(***************************************************************************)
EXTENDS FuseCommand

CONSTANTS Operations,  \* names of the operations the kernel asks for
          WideOps,     \* operations with an argument that may exceed 31 bits
          Window       \* how many requests may be accepted and not delivered

VARIABLES requests,    \* every request accepted from the kernel
          calls        \* every call made to the file system object

serviceVars == <<requests, calls>>

\* The n-th request, as the kernel may make it: only getattr and setattr come
\* without a fuse_file_info.
Requests(n) ==
    {k \in [n : {n}, op : Operations, fi : BOOLEAN, wide : BOOLEAN] :
        /\ k.op \notin {"getattr", "setattr"} => k.fi
        /\ k.wide => k.op \in WideOps}

\* libfuse's calls of its own, at the start and the end of the session.
InitRequest == [n |-> 1, op |-> "init", fi |-> TRUE, wide |-> FALSE]
DestroyRequest(n) == [n |-> n, op |-> "destroy", fi |-> TRUE, wide |-> FALSE]

Init == requests = <<>> /\ calls = <<>>

Accept(k) ==
    /\ Len(requests) - Len(calls) < Window
    /\ requests' = Append(requests, k)
    /\ UNCHANGED calls

Deliver ==
    /\ Len(calls) < Len(requests)
    /\ calls' = Append(calls, Promised(requests[Len(calls) + 1]))
    /\ UNCHANGED requests

Next ==
    LET n == Len(requests) + 1 IN
    \/ n = 1 /\ Accept(InitRequest)
    \/ n > 1 /\ \E k \in Requests(n) \cup {DestroyRequest(n)} : Accept(k)
    \/ Deliver

Spec == Init /\ [][Next]_serviceVars
=============================================================================
