--------------------------- MODULE MCRequestReply ---------------------------
(* Instances of RequestReply for TLC: the repository's file systems, and   *)
(* one that answers with arguments of any kind.                            *)
EXTENDS RequestReply, FileSystems

\* The repository's file systems keep to the API, as RequestReplyProofs assumes.
ASSUME FileSystemsKeepToTheAPI ==
    \A handlers \in {DefaultHandlers, ExampleHandlers, LoopbackHandlers} :
        \A op \in DOMAIN handlers : \A path \in handlers[op] :
            RepliesOnce(path) /\ RepliesValidly(op, path)
=============================================================================
