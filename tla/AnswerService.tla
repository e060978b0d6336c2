--------------------------- MODULE AnswerService ---------------------------
(***************************************************************************)
(* What the kernel may expect of a file system written in JavaScript: at   *)
(* any time, and in any order, a request gets an answer of the kind that   *)
(* the API documents for its operation, and never a second one.            *)
(***************************************************************************)
EXTENDS Integers, Sequences

CONSTANTS Operations,    \* names of the operations the kernel asks for
          Errors,        \* error numbers a reply may carry
          MaxRequests    \* bound: how many requests it makes

VARIABLES requests,      \* the operation of every request made
          answers        \* [request number -> the answers it has got]

serviceVars == <<requests, answers>>

-----------------------------------------------------------------------------
(* The replies of fuse.js, `Valid replies', and for the operations it      *)
(* does not document those that libfuse accepts.                           *)

DocumentedReply ==
    [lookup |-> "entry", getattr |-> "attr", setattr |-> "attr", readlink |-> "readlink",
     mknod |-> "entry", mkdir |-> "entry", unlink |-> "err", rmdir |-> "err",
     symlink |-> "entry", rename |-> "err", link |-> "entry", open |-> "open",
     read |-> "buf"]

LibfuseReply ==
    [write |-> "write", flush |-> "err", release |-> "err", fsync |-> "err",
     opendir |-> "open", readdir |-> "buf", releasedir |-> "err", fsyncdir |-> "err",
     statfs |-> "statfs", access |-> "err", create |-> "create", forget |-> "none",
     multiforget |-> "none"]

ReplyOf(op) == IF op \in DOMAIN DocumentedReply THEN DocumentedReply[op] ELSE LibfuseReply[op]

AnswerKinds ==
    {"err", "entry", "attr", "readlink", "open", "buf", "write", "statfs", "create",
     "xattr", "none"}

\* An answer without data says `error 0' only where no data are expected.
IsValid(op, answer) ==
    \/ answer.kind = ReplyOf(op) /\ answer.errno = 0
    \/ answer.kind = "err" /\ answer.errno \in Errors /\ ReplyOf(op) # "none"

-----------------------------------------------------------------------------
(* The kernel only works on files and directories that it has opened.      *)

FileOperations == {"read", "write", "flush", "release", "fsync"}
DirectoryOperations == {"readdir", "releasedir", "fsyncdir"}

Opened(ops) ==
    \E n \in DOMAIN requests :
        requests[n] \in ops /\ \E a \in {"open", "create"} : \E i \in DOMAIN answers[n] :
            answers[n][i].kind = a

KernelMay(op) ==
    /\ op \in FileOperations => Opened({"open", "create"})
    /\ op \in DirectoryOperations => Opened({"opendir"})

-----------------------------------------------------------------------------
Init == requests = <<>> /\ answers = <<>>

Ask(op) ==
    /\ Len(requests) < MaxRequests
    /\ KernelMay(op)
    /\ requests' = Append(requests, op)
    /\ answers' = Append(answers, <<>>)

Answer(n) ==
    /\ answers[n] = <<>>
    /\ \E a \in [kind : {ReplyOf(requests[n]), "err"}, errno : {0} \cup Errors] :
          IsValid(requests[n], a) /\ answers' = [answers EXCEPT ![n] = <<a>>]
    /\ UNCHANGED requests

Next ==
    \/ \E op \in Operations : Ask(op)
    \/ \E n \in DOMAIN requests : Answer(n)

Spec == Init /\ [][Next]_serviceVars
=============================================================================
