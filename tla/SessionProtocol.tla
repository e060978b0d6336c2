-------------------------- MODULE SessionProtocol --------------------------
(***************************************************************************)
(* The calls a file system object sees over the mounts of a process, as    *)
(* fuse.js (12-32) promises them: for every mount a new object, whose      *)
(* init comes before any other call and after which destroy comes last.    *)
(***************************************************************************)
EXTENDS Integers, Sequences

CONSTANT MaxMounts      \* bound: mounts of one process

VARIABLE calls          \* [handler, object called, session the command is from]

CallRecords ==
    [handler : {"init", "other", "destroy"}, object : 1..MaxMounts, session : 1..MaxMounts]

Called(handler, object) ==
    \E i \in DOMAIN calls : calls[i].handler = handler /\ calls[i].object = object

\* The object is the one made for the session, and no later one is in use.
InTurn(c) ==
    /\ c.object = c.session
    /\ \A i \in DOMAIN calls : calls[i].object <= c.object

Legal(c) ==
    /\ InTurn(c)
    /\ ~ Called("destroy", c.object)
    /\ c.handler = "init" <=> ~ Called("init", c.object)

Init == calls = <<>>

Next == \E c \in CallRecords : Legal(c) /\ calls' = Append(calls, c)

Spec == Init /\ [][Next]_calls
=============================================================================
