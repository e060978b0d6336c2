------------------------------ MODULE OpenFiles ------------------------------
(***************************************************************************)
(* Open files and the FileInfo object (src/file_info.cc).                  *)
(*                                                                         *)
(* Every call about an open file brings a new FileInfo around a copy of    *)
(* libfuse's fuse_file_info.  The handler of an open (opendir, create)     *)
(* stores a file handle and options in it and replies with it, at once or  *)
(* from a callback, while other opens are under way.  The kernel keeps     *)
(* what was replied, and sends the handle and the flags with every read,   *)
(* write, flush and release of the file.                                   *)
(***************************************************************************)
EXTENDS Integers, FiniteSets

CONSTANTS
    MaxOpens,      \* bound: open calls
    HandleLimit,   \* the numbers of a uint32_t, 2^32 in the code
    Values,        \* the numbers that the file system stores as file handles
    Accepts,       \* [open call -> the access modes that its handler accepts]
    Property,      \* the property of FileInfo that it uses: "file_handle" or "fh"
    Interrupts     \* may the kernel give up an open that is under way?

ASSUME OpenFilesAssumption ==
    /\ MaxOpens \in Nat
    /\ HandleLimit \in Nat \ {0} /\ Values \subseteq Int
    /\ Accepts \in [1..MaxOpens -> SUBSET {"rdonly", "wronly", "rdwr"}]
    /\ Property \in {"file_handle", "fh"}
    /\ Interrupts \in BOOLEAN

Opens == 1..MaxOpens
Options == {"direct_io", "keep_cache", "nonseekable"}

VARIABLES
    phase,    \* [Opens -> of the file: "none", "opening", "refused", "interrupted",
              \*  "open" or "closed"]
    object,   \* [Opens -> the FileInfo of the open call]
    kernel,   \* [Opens -> what the kernel keeps: handle, options]
    wanted,   \* history: what the handler stored: <<>> or <<handle>>, and options
    seen,     \* history: [file, handle], read from FileInfo in calls after the open
    written   \* history: the files that the file system has been asked to write

vars == <<phase, object, kernel, wanted, seen, written>>

\* A FileInfo: fi, and the property `fh', which is an ordinary one of the
\* JavaScript object and unknown to fi.
FileInfo(access, handle, options) ==
    [access |-> access, handle |-> handle, options |-> options, own |-> <<>>]

Init ==
    /\ phase = [o \in Opens |-> "none"]
    /\ object = [o \in Opens |-> FileInfo(0, 0, {})]
    /\ kernel = [o \in Opens |-> [handle |-> 0, options |-> {}]]
    /\ wanted = [o \in Opens |-> [handle |-> <<>>, options |-> {}]]
    /\ seen = {} /\ written = {}

-----------------------------------------------------------------------------
(* The accessors.                                                          *)

\* Broken: the lowest bit tells reading from writing.
OneBit(access) == IF access % 2 = 0 THEN {"rdonly"} ELSE {"wronly"}

\* GetFlags: the member of `flags' that `flags & 3' makes true, if any.
Access(access) ==
    CASE access = 0 -> {"rdonly"}
      [] access = 1 -> {"wronly"}
      [] access = 2 -> {"rdwr"}
      [] access = 3 -> {}

\* Nan::To<uint32_t>: modulo 2^32.
ToUint32(v) == v % HandleLimit

\* Broken: 0 is taken for no handle.
SetHandlePlusOne(f, v) == [f EXCEPT !.handle = ToUint32(v) + 1]

\* `fileInfo.file_handle = v', or `fileInfo.fh = v'.
SetHandle(f, v) ==
    IF Property = "file_handle" THEN [f EXCEPT !.handle = ToUint32(v)]
    ELSE [f EXCEPT !.own = <<v>>]

\* The same property, read: <<>> for undefined.
GetHandle(f) == IF Property = "file_handle" THEN <<ToUint32(f.handle)>> ELSE f.own

-----------------------------------------------------------------------------
(* The open call, and the handler that answers it: it goes by the flags to *)
(* accept the file or refuse it.                                           *)

\* Broken: one FileInfo serves all calls.
OpenShared(o, access) ==
    /\ phase[o] = "none"
    /\ phase' = [phase EXCEPT ![o] = "opening"]
    /\ object' = [p \in Opens |-> FileInfo(access, 0, {})]
    /\ UNCHANGED <<kernel, wanted, seen, written>>

\* The mode is one that the handler accepts.
Accepted(o) == Access(object[o].access) \cap Accepts[o] # {}

\* An open of the kernel reaches the handler, with a new FileInfo.
Open(o, access) ==
    /\ phase[o] = "none"
    /\ phase' = [phase EXCEPT ![o] = "opening"]
    /\ object' = [object EXCEPT ![o] = FileInfo(access, 0, {})]
    /\ UNCHANGED <<kernel, wanted, seen, written>>

StoreHandle(o, v) ==
    /\ phase[o] = "opening" /\ wanted[o].handle = <<>>
    /\ object' = [object EXCEPT ![o] = SetHandle(@, v)]
    /\ wanted' = [wanted EXCEPT ![o].handle = <<v>>]
    /\ UNCHANGED <<phase, kernel, seen, written>>

\* `fileInfo.direct_io = true' and the like.
StoreOption(o, option) ==
    /\ phase[o] = "opening" /\ option \notin wanted[o].options
    /\ object' = [object EXCEPT ![o].options = @ \cup {option}]
    /\ wanted' = [wanted EXCEPT ![o].options = @ \cup {option}]
    /\ UNCHANGED <<phase, kernel, seen, written>>

\* reply.open(fileInfo), or reply.create: the kernel has the file open.
ReplyOpen(o) ==
    /\ phase[o] = "opening" /\ Accepted(o)
    /\ phase' = [phase EXCEPT ![o] = "open"]
    /\ kernel' = [kernel EXCEPT ![o] = [handle |-> object[o].handle,
                                        options |-> object[o].options]]
    /\ UNCHANGED <<object, wanted, seen, written>>

\* The reply reaches a kernel that has given up: fuse_reply_open returns -ENOENT,
\* which the code does not look at (it tests for -1), and no release will come.
ReplyInterrupted(o) ==
    /\ Interrupts
    /\ phase[o] = "opening" /\ Accepted(o)
    /\ phase' = [phase EXCEPT ![o] = "interrupted"]
    /\ UNCHANGED <<object, kernel, wanted, seen, written>>

\* reply.err(EACCES).
Refuse(o) ==
    /\ phase[o] = "opening" /\ ~ Accepted(o)
    /\ phase' = [phase EXCEPT ![o] = "refused"]
    /\ UNCHANGED <<object, kernel, wanted, seen, written>>

-----------------------------------------------------------------------------
(* Calls about a file that is open.                                        *)

\* libfuse fills a fuse_file_info from the kernel's message; the marshalling copies
\* it into another FileInfo, and the handler reads its property.
Observed(o) == GetHandle(FileInfo(object[o].access, kernel[o].handle, {}))

\* The kernel asks for data, or for a flush, of a file that is open.
Read(o) ==
    /\ phase[o] = "open"
    /\ seen' = seen \cup {[file |-> o, handle |-> Observed(o)]}
    /\ UNCHANGED <<phase, object, kernel, wanted, written>>

\* It only asks to write files that were opened for it.
Write(o) ==
    /\ phase[o] = "open" /\ object[o].access \in {1, 2}
    /\ seen' = seen \cup {[file |-> o, handle |-> Observed(o)]}
    /\ written' = written \cup {o}
    /\ UNCHANGED <<phase, object, kernel, wanted>>

Release(o) ==
    /\ phase[o] = "open"
    /\ phase' = [phase EXCEPT ![o] = "closed"]
    /\ seen' = seen \cup {[file |-> o, handle |-> Observed(o)]}
    /\ UNCHANGED <<object, kernel, wanted, written>>

Next ==
    \E o \in Opens :
        \/ \E access \in 0..3 : Open(o, access)
        \/ \E v \in Values : StoreHandle(o, v)
        \/ \E option \in Options : StoreOption(o, option)
        \/ ReplyOpen(o) \/ ReplyInterrupted(o) \/ Refuse(o)
        \/ Read(o) \/ Write(o) \/ Release(o)

Spec == Init /\ [][Next]_vars

-----------------------------------------------------------------------------
(* Properties.                                                             *)

TypeOK ==
    /\ phase \in [Opens -> {"none", "opening", "refused", "interrupted", "open", "closed"}]
    /\ object \in [Opens -> [access : 0..3, handle : 0..(HandleLimit - 1),
                             options : SUBSET Options,
                             own : {<<>>} \cup {<<v>> : v \in Values}]]
    /\ kernel \in [Opens -> [handle : 0..(HandleLimit - 1), options : SUBSET Options]]
    /\ wanted \in [Opens -> [handle : {<<>>} \cup {<<v>> : v \in Values},
                             options : SUBSET Options]]
    /\ \A s \in seen : s.file \in Opens
    /\ written \subseteq Opens

\* fuse.js:294-296: what the handler of an open stored as the file handle is what
\* the calls about that file bring, and no other file's handle.
HandleComesBack ==
    \A s \in seen : wanted[s.file].handle # <<>> => s.handle = wanted[s.file].handle

\* fuse.js:301: the options that the handler of an open set are the ones the kernel
\* opens that file with, whatever other handlers set meanwhile.
OptionsReachTheKernel ==
    \A o \in Opens : phase[o] = "open" => kernel[o].options = wanted[o].options

\* fuse.js:291-292: a handler that goes by fileInfo.flags and accepts readers only
\* is never followed by a call to write the file.
ReadersNeverWrite ==
    \A o \in written : Accepts[o] \cap {"wronly", "rdwr"} # {}
=============================================================================
