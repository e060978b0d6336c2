---------------------------- MODULE FileSystems ----------------------------
(***************************************************************************)
(* The file systems of the repository as Handlers of RequestReply: the     *)
(* paths through each handler of the default FileSystem (fuse.js), of      *)
(* examples/example.js and of examples/loopback.js, down to the Reply      *)
(* methods they call and the exceptions they do not catch.  Last, the      *)
(* handlers an application might write: one Reply method of the right      *)
(* operation, with whatever arguments.                                     *)
(***************************************************************************)
EXTENDS Replies, TLC

\* PosixError, as far as the file systems use it.
ENOENT == 2
EISDIR == 21
ENOSYS == 38

Fails(errno) == <<Calls("err", <<Number(errno)>>)>>
Succeeds == <<Calls("err", <<Number(0)>>)>>
GivesEntry == <<Calls("entry", <<Value("entry")>>)>>
\* reply.attr(stat, timeout).
GivesAttr == <<Calls("attr", <<Value("stat"), Number(5)>>)>>
\* reply.open(fileInfo), with the fileInfo the handler was given.
GivesOpen == <<Calls("open", <<Value("fileInfo")>>)>>
GivesBuffer == <<Calls("buffer", <<Value("buffer"), Number(1)>>)>>
\* reply.addDirEntry(name, size, stat, offset), then reply.buffer.
AddsEntry == <<Calls("addDirEntry", <<Value("text"), Number(1), Value("stat"), Number(0)>>)>>
GivesEntries == AddsEntry \o GivesBuffer

\* A variable that does not exist: `reply' in a function without parameters.
ReferenceError == <<Throws>>

-----------------------------------------------------------------------------
(* FileSystem.prototype.                                                   *)

NotImplemented ==
    {"lookup", "getattr", "setattr", "readlink", "mknod", "mkdir", "unlink", "rmdir",
     "symlink", "rename", "link", "open", "read", "release", "opendir", "fsyncdir"}
\* Declared as `function()': their `reply.err(38)' names no variable.
WithoutParameters == {"write", "fsync", "readdir", "releasedir", "create"}
Accepted == {"flush", "access"}
Forgotten == {"forget", "multiforget"}

DefaultHandlers ==
    [op \in NotImplemented |-> {Fails(ENOSYS)}]
    @@ [op \in WithoutParameters |-> {ReferenceError}]
    @@ [op \in Accepted |-> {Succeeds}]
    @@ [op \in Forgotten |-> {<<Calls("none", <<>>)>>}]
    @@ [op \in {"statfs"} |-> {<<Calls("statfs", <<Value("stat")>>)>>}]

-----------------------------------------------------------------------------
(* examples/example.js: the two folders and the file, inodes 1 to 3.       *)

\* The kernel only asks about inodes that a lookup has told it, so the last case
\* of getattr, readdir and read (reply.err of some other inode) is not taken.
ExampleHandlers ==
    [lookup |-> {GivesEntry, Fails(ENOENT)},
     getattr |-> {GivesAttr},
     opendir |-> {GivesOpen},
     readdir |-> {GivesEntries},
     releasedir |-> {Succeeds},
     open |-> {GivesOpen, Fails(EISDIR)},
     read |-> {GivesBuffer},
     release |-> {Succeeds}]
    @@ DefaultHandlers

-----------------------------------------------------------------------------
(* examples/loopback.js.                                                   *)

\* statSync gives error numbers with a minus sign.  A name of the kernel is a C
\* string, so the branch for errors without an errno (a NUL in it) is not taken.
StatErrors == {Fails(ENOENT)}

LoopbackHandlers ==
    [lookup |-> StatErrors \cup {GivesEntry},
     \* statSync and reply.attr are tried; the catch block names a variable that is
     \* not there, and never comes to its own reply.
     getattr |-> {Try(path, ReferenceError) : path \in {GivesAttr, <<Throws>>}}
                 \cup {Fails(ENOENT)},
     opendir |-> {GivesOpen},
     \* The callback of fs.readdir; a folder without files has no addDirEntry, and one
     \* whose statSync or addDirEntry fails is skipped.
     readdir |-> {Fails(ENOENT)} \cup
                 {<<Awaits>> \o path : path \in StatErrors \cup {GivesBuffer}
                     \cup {Try(entry, <<>>) \o GivesBuffer : entry \in {AddsEntry, <<Throws>>}}},
     releasedir |-> {Succeeds},
     \* Only inode 3 can be opened, and then read's `file_content' is missing.
     open |-> {GivesOpen, Fails(EISDIR), Fails(ENOENT)},
     read |-> {ReferenceError},
     release |-> {Succeeds}]
    @@ DefaultHandlers

\* Whichever of the examples a request is answered by.
ExamplesHandlers ==
    [op \in DOMAIN DefaultHandlers |-> ExampleHandlers[op] \cup LoopbackHandlers[op]]

-----------------------------------------------------------------------------
(* Any other file system that calls one Reply method for a request.        *)

\* No argument, one of any kind, or two.
SomeArguments ==
    LET first == {Value(kind) : kind \in Kinds \ {"number", "fraction"}}
                 \cup {Number(0), Number(5), Number(-2), Fraction(1)}
        second == {Undefined, Number(5), Value("text"), Value("fileInfo")}
    IN  {<<>>} \cup {<<v>> : v \in first} \cup {<<v, w>> : v \in first, w \in second}

OneReply(method) == {<<Calls(method, args)>> : args \in SomeArguments}
Later(paths) == {<<Awaits>> \o path : path \in paths}

AnyHandlers ==
    [getattr |-> OneReply("attr") \cup OneReply("err") \cup Later({GivesAttr, Fails(0)}),
     readlink |-> OneReply("readlink"),
     lookup |-> OneReply("entry"),
     create |-> OneReply("create"),
     write |-> OneReply("write"),
     opendir |-> OneReply("open"),
     read |-> OneReply("buffer") \cup Later({GivesBuffer}),
     readdir |-> {AddsEntry \o path : path \in OneReply("buffer")}
                 \cup {Try(entry, <<>>) \o GivesBuffer : entry \in OneReply("addDirEntry")},
     statfs |-> OneReply("statfs"),
     forget |-> {<<Calls("none", <<>>)>>}]

\* getattr as loopback.js means it: what goes wrong is caught and replied.  A reply
\* that throws has been sent all the same.
CatchingHandlers == [getattr |-> {Try(path, Fails(ENOENT)) : path \in OneReply("attr")}]
=============================================================================
