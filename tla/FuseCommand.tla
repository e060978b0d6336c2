---------------------------- MODULE FuseCommand ----------------------------
(***************************************************************************)
(* How one libfuse request becomes one JavaScript call, for every          *)
(* operation that src/filesystem.cc registers (lines 287-327).             *)
(*                                                                         *)
(* Each operation has two halves.  On the FUSE thread, FileSystem::Op      *)
(* fills a `struct fuse_cmd' that lives on its stack and is not            *)
(* initialised: a field it does not assign keeps what the stack held       *)
(* (`old' below).  On the JavaScript thread, DispatchOp picks fields of    *)
(* the command and FileSystem::RemoteOp passes them to the handler of the  *)
(* file system object, with a Reply bound to a request.                    *)
(*                                                                         *)
(* Data are tokens: argument a of the n-th request is <<n, a, w>>, w true  *)
(* if its number does not fit 31 bits.  A duplicated string is its token   *)
(* too, so a token also names the heap buffer that holds the text.         *)
(***************************************************************************)
EXTENDS Integers, Sequences

CONSTANTS Unset,     \* what the stack holds where nothing was ever written
          Null,      \* no Reply, no call
          ToSet      \* for each request, the flags of a setattr's to_set

SetFlags == {"MODE", "UID", "GID", "SIZE", "ATIME", "MTIME", "ATIME_NOW", "MTIME_NOW"}

ASSUME FlagsAssumption == \A n \in DOMAIN ToSet : ToSet[n] \subseteq SetFlags

CmdFields == {"op", "req", "ino", "newino", "size", "off", "dev", "mode", "name",
              "newname", "to_set", "conn", "fi", "attr", "userdata", "nlookup"}

\* A `struct fuse_cmd value;' on a fresh stack.
Uninitialised == [f \in CmdFields |-> Unset]

-----------------------------------------------------------------------------
(* The FUSE thread's half.                                                 *)

\* `if (fi != NULL) value.fi = *fi;' with a pointer <<*fi>>, or <<>> for NULL: the
\* field is kept as it was for a NULL pointer.
CopyFi(old, fi) == IF fi = <<>> THEN old.fi ELSE fi[1]

InitOp(old, userdata, conn) ==
    [old EXCEPT !.op = "INIT", !.userdata = userdata, !.conn = conn]
DestroyOp(old, userdata) ==
    [old EXCEPT !.op = "DESTROY", !.userdata = userdata]

Lookup(old, req, parent, name) ==
    [old EXCEPT !.op = "LOOKUP", !.req = req, !.ino = parent, !.name = name]
Forget(old, req, ino, nlookup) ==
    [old EXCEPT !.op = "FORGET", !.req = req, !.ino = ino, !.nlookup = nlookup]
MultiForget(old, req, count, forget) ==
    [old EXCEPT !.op = "MULTI_FORGET", !.req = req, !.size = count, !.userdata = forget]
GetAttr(old, req, ino, fi) ==
    [old EXCEPT !.op = "GETATTR", !.req = req, !.ino = ino, !.fi = CopyFi(old, fi)]
SetAttr(old, req, ino, attr, to_set, fi) ==
    [old EXCEPT !.op = "SETATTR", !.req = req, !.ino = ino, !.attr = attr,
                !.to_set = to_set, !.fi = CopyFi(old, fi)]
ReadLink(old, req, ino) ==
    [old EXCEPT !.op = "READLINK", !.req = req, !.ino = ino]
MkNod(old, req, parent, name, mode, rdev) ==
    [old EXCEPT !.op = "MKNOD", !.req = req, !.ino = parent, !.name = name,
                !.mode = mode, !.dev = rdev]
MkDir(old, req, parent, name, mode) ==
    [old EXCEPT !.op = "MKDIR", !.req = req, !.ino = parent, !.name = name, !.mode = mode]
Unlink(old, req, parent, name) ==
    [old EXCEPT !.op = "UNLINK", !.req = req, !.ino = parent, !.name = name]
RmDir(old, req, parent, name) ==
    [old EXCEPT !.op = "RMDIR", !.req = req, !.ino = parent, !.name = name]
\* The only handler of a request that does not store the request.
SymLink(old, req, link, parent, name) ==
    [old EXCEPT !.op = "SYMLINK", !.name = link, !.ino = parent, !.newname = name]
Rename(old, req, parent, name, newparent, newname) ==
    [old EXCEPT !.op = "RENAME", !.req = req, !.ino = parent, !.newino = newparent,
                !.name = name, !.newname = newname]
Link(old, req, ino, newparent, newname) ==
    [old EXCEPT !.op = "LINK", !.req = req, !.ino = ino, !.newino = newparent,
                !.name = newname]
Open(old, req, ino, fi) ==
    [old EXCEPT !.op = "OPEN", !.req = req, !.ino = ino, !.fi = CopyFi(old, fi)]
Read(old, req, ino, size, off, fi) ==
    [old EXCEPT !.op = "READ", !.req = req, !.ino = ino, !.size = size, !.off = off,
                !.fi = CopyFi(old, fi)]
\* The data travel in the name field, as a malloc'ed copy.
Write(old, req, ino, buf, size, off, fi) ==
    [old EXCEPT !.op = "WRITE", !.req = req, !.ino = ino, !.off = off, !.size = size,
                !.name = buf, !.fi = CopyFi(old, fi)]
Flush(old, req, ino, fi) ==
    [old EXCEPT !.op = "FLUSH", !.req = req, !.ino = ino, !.fi = CopyFi(old, fi)]
Release(old, req, ino, fi) ==
    [old EXCEPT !.op = "RELEASE", !.req = req, !.ino = ino, !.fi = CopyFi(old, fi)]
FSync(old, req, ino, datasync, fi) ==
    [old EXCEPT !.op = "FSYNC", !.req = req, !.ino = ino, !.to_set = datasync,
                !.fi = CopyFi(old, fi)]
OpenDir(old, req, ino, fi) ==
    [old EXCEPT !.op = "OPENDIR", !.req = req, !.ino = ino, !.fi = CopyFi(old, fi)]
ReadDir(old, req, ino, size, off, fi) ==
    [old EXCEPT !.op = "READDIR", !.req = req, !.ino = ino, !.size = size, !.off = off,
                !.fi = CopyFi(old, fi)]
ReleaseDir(old, req, ino, fi) ==
    [old EXCEPT !.op = "RELEASEDIR", !.req = req, !.ino = ino, !.fi = CopyFi(old, fi)]
FSyncDir(old, req, ino, datasync, fi) ==
    [old EXCEPT !.op = "FSYNCDIR", !.req = req, !.ino = ino, !.to_set = datasync,
                !.fi = CopyFi(old, fi)]
StatFs(old, req, ino) ==
    [old EXCEPT !.op = "STATFS", !.req = req, !.ino = ino]
Access(old, req, ino, mask) ==
    [old EXCEPT !.op = "ACCESS", !.req = req, !.ino = ino, !.to_set = mask]
Create(old, req, parent, name, mode, fi) ==
    [old EXCEPT !.op = "CREATE", !.req = req, !.ino = parent, !.name = name,
                !.mode = mode, !.fi = CopyFi(old, fi)]

-----------------------------------------------------------------------------
(* The JavaScript thread's half.                                           *)

\* `(int) x' and Nan::New<Integer>: a wide number loses its high bits.
Narrow(x) == IF x = Unset THEN Unset ELSE <<x[1], x[2], FALSE>>

\* Nan::New<Boolean>(flag != 0)->ToObject(): a Boolean object, which is true in
\* any condition, around the flag.
Boxed(flag) == <<flag>>

\* Nan::New<Integer>(-1), the time that stands for now.
Now == <<-1>>

\* `if (to_set & flag) attrs->Set(key, value)'.
SetIf(flag, flags, attrs, key, value) ==
    IF flag \in flags
    THEN [m \in DOMAIN attrs \cup {key} |-> IF m = key THEN value ELSE attrs[m]]
    ELSE attrs

\* GetAttrsToBeSet, member by member; <<attr, m>> is the field st_m of attr.
Owner(flags, attr) ==
    SetIf("GID", flags,
        SetIf("UID", flags,
            SetIf("MODE", flags, [m \in {} |-> Null], "mode", <<attr, "mode">>),
            "uid", <<attr, "uid">>),
        "gid", <<attr, "gid">>)
Times(flags, attr, attrs) ==
    SetIf("MTIME", flags,
        SetIf("ATIME", flags, attrs, "atime", <<attr, "atime">>),
        "mtime", <<attr, "mtime">>)
TimesNow(flags, attrs) ==
    SetIf("MTIME_NOW", flags, SetIf("ATIME_NOW", flags, attrs, "atime", Now), "mtime", Now)

\* Broken: the times of the request overwrite those that stand for now.
AttrsNowFirst(to_set, attr) ==
    LET flags == ToSet[to_set[1]] IN
    Times(flags, attr, TimesNow(flags,
        SetIf("SIZE", flags, Owner(flags, attr), "size", <<attr, "size">>)))

AttrsToBeSet(to_set, attr) ==
    LET flags == ToSet[to_set[1]] IN
    TimesNow(flags, Times(flags, attr,
        SetIf("SIZE", flags, Owner(flags, attr), "size", <<attr, "size">>)))

\* Nan::NewBuffer(buf, size).
BufferOver(buf, size) == <<buf, size>>

\* fuse_req_ctx(req): who made the request is looked up in the request itself.
Context(req) == <<req, "context">>

\* What JavaScript sees: the handler, its arguments, the request its Reply has.
Call(handler, args, req) == [handler |-> handler, args |-> args, reply |-> req]

\* The calls without a Reply.
RemoteInit(userdata, conn) == Call("init", <<conn>>, Null)
RemoteDestroy(userdata) == Call("destroy", <<>>, Null)

RemoteLookup(req, parent, name) == Call("lookup", <<Context(req), parent, name>>, req)
RemoteForget(req, ino, nlookup) ==
    Call("forget", <<Context(req), ino, Narrow(nlookup)>>, req)
\* Each fuse_forget_data is stored over the fuse_file_info of a FileInfo object,
\* which has neither an `inode' nor an `nlookup' for JavaScript to read.
RemoteMultiForget(req, count, forget_all) ==
    Call("multiforget", <<Context(req), <<forget_all>> >>, req)
RemoteGetAttr(req, ino, fi) == Call("getattr", <<Context(req), ino>>, req)
RemoteSetAttr(req, ino, attr, to_set, fi) ==
    Call("setattr", <<Context(req), ino, AttrsToBeSet(to_set, attr)>>, req)
RemoteReadLink(req, ino) == Call("readlink", <<Context(req), ino>>, req)
RemoteMkNod(req, parent, name, mode, rdev) ==
    Call("mknod", <<Context(req), parent, name, mode, rdev>>, req)
RemoteMkDir(req, parent, name, mode) ==
    Call("mkdir", <<Context(req), parent, name, mode>>, req)
RemoteUnlink(req, parent, name) == Call("unlink", <<Context(req), parent, name>>, req)
RemoteRmDir(req, parent, name) == Call("rmdir", <<Context(req), parent, name>>, req)
RemoteSymLink(req, link, parent, name) ==
    Call("symlink", <<Context(req), parent, link, name>>, req)
\* Broken: the new name before the new parent's.
RemoteRenameSwapped(req, parent, name, newparent, newname) ==
    Call("rename", <<Context(req), parent, newname, newparent, name>>, req)
RemoteRename(req, parent, name, newparent, newname) ==
    Call("rename", <<Context(req), parent, name, newparent, newname>>, req)
RemoteLink(req, ino, newparent, newname) ==
    Call("link", <<Context(req), ino, newparent, newname>>, req)
RemoteOpen(req, ino, fi) == Call("open", <<Context(req), ino, fi>>, req)
RemoteRead(req, ino, size, off, fi) ==
    Call("read", <<Context(req), ino, size, off, fi>>, req)
\* The size becomes the length of the Buffer.
RemoteWrite(req, ino, buf, size, off, fi) ==
    Call("write", <<Context(req), ino, BufferOver(buf, size), off, fi>>, req)
RemoteFlush(req, ino, fi) == Call("flush", <<Context(req), ino, fi>>, req)
RemoteRelease(req, ino, fi) == Call("release", <<Context(req), ino, fi>>, req)
RemoteFSync(req, ino, datasync, fi) ==
    Call("fsync", <<Context(req), ino, Boxed(datasync), fi>>, req)
RemoteOpenDir(req, ino, fi) == Call("opendir", <<Context(req), ino, fi>>, req)
RemoteReadDir(req, ino, size, off, fi) ==
    Call("readdir", <<Context(req), ino, Narrow(size), Narrow(off), fi>>, req)
RemoteReleaseDir(req, ino, fi) == Call("releasedir", <<Context(req), ino, fi>>, req)
RemoteFSyncDir(req, ino, datasync, fi) ==
    Call("fsyncdir", <<Context(req), ino, Boxed(datasync), fi>>, req)
RemoteStatFs(req, ino) == Call("statfs", <<Context(req), ino>>, req)
RemoteAccess(req, ino, mask) == Call("access", <<Context(req), ino, mask>>, req)
RemoteCreate(req, parent, name, mode, fi) ==
    Call("create", <<Context(req), parent, name, mode, fi>>, req)

\* The switch of DispatchOp.
Dispatched(v) ==
    CASE v.op = "INIT"       -> RemoteInit(v.userdata, v.conn)
      [] v.op = "DESTROY"    -> RemoteDestroy(v.userdata)
      [] v.op = "LOOKUP"     -> RemoteLookup(v.req, v.ino, v.name)
      [] v.op = "FORGET"     -> RemoteForget(v.req, v.ino, v.nlookup)
      [] v.op = "MULTI_FORGET" -> RemoteMultiForget(v.req, v.size, v.userdata)
      [] v.op = "GETATTR"    -> RemoteGetAttr(v.req, v.ino, v.fi)
      [] v.op = "SETATTR"    -> RemoteSetAttr(v.req, v.ino, v.attr, v.to_set, v.fi)
      [] v.op = "READLINK"   -> RemoteReadLink(v.req, v.ino)
      [] v.op = "MKNOD"      -> RemoteMkNod(v.req, v.ino, v.name, v.mode, v.dev)
      [] v.op = "MKDIR"      -> RemoteMkDir(v.req, v.ino, v.name, v.mode)
      [] v.op = "UNLINK"     -> RemoteUnlink(v.req, v.ino, v.name)
      [] v.op = "RMDIR"      -> RemoteRmDir(v.req, v.ino, v.name)
      [] v.op = "SYMLINK"    -> RemoteSymLink(v.req, v.name, v.ino, v.newname)
      [] v.op = "RENAME"     -> RemoteRename(v.req, v.ino, v.name, v.newino, v.newname)
      [] v.op = "LINK"       -> RemoteLink(v.req, v.ino, v.newino, v.name)
      [] v.op = "OPEN"       -> RemoteOpen(v.req, v.ino, v.fi)
      [] v.op = "READ"       -> RemoteRead(v.req, v.ino, v.size, v.off, v.fi)
      [] v.op = "WRITE"      -> RemoteWrite(v.req, v.ino, v.name, v.size, v.off, v.fi)
      [] v.op = "FLUSH"      -> RemoteFlush(v.req, v.ino, v.fi)
      [] v.op = "RELEASE"    -> RemoteRelease(v.req, v.ino, v.fi)
      [] v.op = "FSYNC"      -> RemoteFSync(v.req, v.ino, v.to_set, v.fi)
      [] v.op = "OPENDIR"    -> RemoteOpenDir(v.req, v.ino, v.fi)
      [] v.op = "READDIR"    -> RemoteReadDir(v.req, v.ino, v.size, v.off, v.fi)
      [] v.op = "RELEASEDIR" -> RemoteReleaseDir(v.req, v.ino, v.fi)
      [] v.op = "FSYNCDIR"   -> RemoteFSyncDir(v.req, v.ino, v.to_set, v.fi)
      [] v.op = "STATFS"     -> RemoteStatFs(v.req, v.ino)
      [] v.op = "ACCESS"     -> RemoteAccess(v.req, v.ino, v.to_set)
      [] v.op = "CREATE"     -> RemoteCreate(v.req, v.ino, v.name, v.mode, v.fi)
      [] OTHER               -> Null   \* no call, for an operation never queued

\* Broken: one operation's name is forgotten, or the name is freed whatever the
\* operation.
FreedButForMkDir(v) ==
    CASE v.op \in {"LOOKUP", "MKNOD", "UNLINK", "RMDIR", "LINK"} -> {v.name}
      [] v.op \in {"SYMLINK", "RENAME"} -> {v.name, v.newname}
      [] v.op = "MULTI_FORGET" -> {v.userdata}
      [] OTHER -> {}
FreedAlways(v) ==
    CASE v.op \in {"SYMLINK", "RENAME"} -> {v.name, v.newname}
      [] v.op = "MULTI_FORGET" -> {v.userdata}
      [] v.op \in {"WRITE", "CREATE"} -> {}
      [] OTHER -> {v.name}

\* The free() calls of the switch, once the handler has returned.
Freed(v) ==
    CASE v.op \in {"LOOKUP", "MKNOD", "MKDIR", "UNLINK", "RMDIR", "LINK"} -> {v.name}
      [] v.op \in {"SYMLINK", "RENAME"} -> {v.name, v.newname}
      [] v.op = "MULTI_FORGET" -> {v.userdata}
      [] OTHER -> {}

\* What a command hands over to the garbage collector: Nan::NewBuffer owns its
\* data from the moment it is made.
HandedOver(v) == IF v.op = "WRITE" THEN {v.name} ELSE {}

-----------------------------------------------------------------------------
(* The requests, and what the API promises for them.                       *)

\* Argument a of request k = [n, op, fi, wide]; see the header.
Arg(k, a) == <<k.n, a, k.wide>>

\* The pointer to a request's fuse_file_info, NULL for some getattr and setattr.
FiArg(k) == IF k.fi THEN <<Arg(k, "fi")>> ELSE <<>>

\* libfuse calls the registered handler of the operation (lines 287-327).
Marshalled(old, k) ==
    LET a(arg) == Arg(k, arg)
        fi == FiArg(k)
    IN
    CASE k.op = "init"     -> InitOp(old, "Fuse", a("conn"))
      [] k.op = "destroy"  -> DestroyOp(old, "Fuse")
      [] k.op = "lookup"   -> Lookup(old, k.n, a("parent"), a("name"))
      [] k.op = "forget"   -> Forget(old, k.n, a("inode"), a("nlookup"))
      [] k.op = "multiforget" -> MultiForget(old, k.n, a("count"), a("forget_data"))
      [] k.op = "getattr"  -> GetAttr(old, k.n, a("inode"), fi)
      [] k.op = "setattr"  -> SetAttr(old, k.n, a("inode"), a("attr"), a("to_set"), fi)
      [] k.op = "readlink" -> ReadLink(old, k.n, a("inode"))
      [] k.op = "mknod"    -> MkNod(old, k.n, a("parent"), a("name"), a("mode"), a("rdev"))
      [] k.op = "mkdir"    -> MkDir(old, k.n, a("parent"), a("name"), a("mode"))
      [] k.op = "unlink"   -> Unlink(old, k.n, a("parent"), a("name"))
      [] k.op = "rmdir"    -> RmDir(old, k.n, a("parent"), a("name"))
      [] k.op = "symlink"  -> SymLink(old, k.n, a("link"), a("parent"), a("name"))
      [] k.op = "rename"   -> Rename(old, k.n, a("parent"), a("name"), a("newParent"), a("newName"))
      [] k.op = "link"     -> Link(old, k.n, a("inode"), a("newParent"), a("newName"))
      [] k.op = "open"     -> Open(old, k.n, a("inode"), fi)
      [] k.op = "read"     -> Read(old, k.n, a("inode"), a("len"), a("offset"), fi)
      [] k.op = "write"    -> Write(old, k.n, a("inode"), a("data"), a("len"), a("offset"), fi)
      [] k.op = "flush"    -> Flush(old, k.n, a("inode"), fi)
      [] k.op = "release"  -> Release(old, k.n, a("inode"), fi)
      [] k.op = "fsync"    -> FSync(old, k.n, a("inode"), a("datasync"), fi)
      [] k.op = "opendir"  -> OpenDir(old, k.n, a("inode"), fi)
      [] k.op = "readdir"  -> ReadDir(old, k.n, a("inode"), a("len"), a("offset"), fi)
      [] k.op = "releasedir" -> ReleaseDir(old, k.n, a("inode"), fi)
      [] k.op = "fsyncdir" -> FSyncDir(old, k.n, a("inode"), a("datasync"), fi)
      [] k.op = "statfs"   -> StatFs(old, k.n, a("inode"))
      [] k.op = "access"   -> Access(old, k.n, a("inode"), a("mask"))
      [] k.op = "create"   -> Create(old, k.n, a("parent"), a("name"), a("mode"), fi)
      [] OTHER             -> old

\* The buffers a handler allocates: the strdup and malloc calls.
Allocated(k) ==
    CASE k.op \in {"lookup", "mknod", "mkdir", "unlink", "rmdir", "create"} -> {Arg(k, "name")}
      [] k.op = "symlink" -> {Arg(k, "link"), Arg(k, "name")}
      [] k.op = "rename" -> {Arg(k, "name"), Arg(k, "newName")}
      [] k.op = "link" -> {Arg(k, "newName")}
      [] k.op = "write" -> {Arg(k, "data")}
      [] k.op = "multiforget" -> {Arg(k, "forget_data")}
      [] OTHER -> {}

\* The parameters of the handlers as FileSystem.prototype declares them, less
\* the leading context and the closing reply (fuse.js).
EntryParameters ==
    [lookup |-> <<"parent", "name">>, forget |-> <<"inode", "nlookup">>,
     multiforget |-> <<"forget_data">>, getattr |-> <<"inode">>,
     setattr |-> <<"inode", "attrs">>, readlink |-> <<"inode">>,
     mknod |-> <<"parent", "name", "mode", "rdev">>,
     mkdir |-> <<"parent", "name", "mode">>, unlink |-> <<"parent", "name">>,
     rmdir |-> <<"parent", "name">>]
LinkParameters ==
    [symlink |-> <<"parent", "link", "name">>,
     rename |-> <<"parent", "name", "newParent", "newName">>,
     link |-> <<"inode", "newParent", "newName">>, open |-> <<"inode", "fileInfo">>,
     read |-> <<"inode", "len", "offset", "fileInfo">>]
FileParameters ==
    [flush |-> <<"inode", "fileInfo">>, release |-> <<"inode", "fileInfo">>,
     opendir |-> <<"inode", "fileInfo">>,
     fsyncdir |-> <<"inode", "datasync", "fileInfo">>,
     statfs |-> <<"inode">>, access |-> <<"inode", "mask">>]
\* fuse.js declares these without parameters: the example file systems do.
ExampleParameters ==
    [readdir |-> <<"inode", "len", "offset", "fileInfo">>,
     releasedir |-> <<"inode", "fileInfo">>]
\* Nobody declares these; the order is that of libfuse's own operations.
LibfuseParameters ==
    [write |-> <<"inode", "buffer", "offset", "fileInfo">>,
     fsync |-> <<"inode", "datasync", "fileInfo">>,
     create |-> <<"parent", "name", "mode", "fileInfo">>]

Parameters(o) ==
    CASE o \in DOMAIN EntryParameters   -> EntryParameters[o]
      [] o \in DOMAIN LinkParameters    -> LinkParameters[o]
      [] o \in DOMAIN FileParameters    -> FileParameters[o]
      [] o \in DOMAIN ExampleParameters -> ExampleParameters[o]
      [] OTHER                          -> LibfuseParameters[o]

\* Every operation with a Reply.
RepliedOperations ==
    DOMAIN EntryParameters \cup DOMAIN LinkParameters \cup DOMAIN FileParameters
    \cup DOMAIN ExampleParameters \cup DOMAIN LibfuseParameters

\* `Attributes to be set', of which only the members indicated by the mask have
\* values (fuse.js): these are the members, each with its own field of attr, or with
\* the time that stands for now.
Indicated == [mode |-> {"MODE"}, uid |-> {"UID"}, gid |-> {"GID"}, size |-> {"SIZE"},
              atime |-> {"ATIME", "ATIME_NOW"}, mtime |-> {"MTIME", "MTIME_NOW"}]
AttrsMeant(to_set, attr) ==
    LET flags == ToSet[to_set[1]] IN
    [m \in {x \in DOMAIN Indicated : Indicated[x] \cap flags # {}} |->
        IF Indicated[m] \cap flags \cap {"ATIME_NOW", "MTIME_NOW"} # {}
        THEN Now ELSE <<attr, m>>]

\* What parameter p of the handler of request k should be given.
Meant(k, p) ==
    CASE p = "fileInfo" -> Arg(k, "fi")
      [] p = "attrs"    -> AttrsMeant(Arg(k, "to_set"), Arg(k, "attr"))
      [] p = "buffer"   -> BufferOver(Arg(k, "data"), Arg(k, "len"))
      [] p = "datasync" -> Boxed(Arg(k, "datasync"))
      [] OTHER          -> Arg(k, p)

\* The JavaScript call that the API promises for request k: its handler, its
\* caller's context, its arguments in the declared order, and its own Reply.
Promised(k) ==
    CASE k.op = "init"    -> Call("init", <<Arg(k, "conn")>>, Null)
      [] k.op = "destroy" -> Call("destroy", <<>>, Null)
      [] OTHER -> LET p == Parameters(k.op) IN
                  Call(k.op, [i \in 1..(Len(p) + 1) |->
                                  IF i = 1 THEN Context(k.n) ELSE Meant(k, p[i - 1])], k.n)
=============================================================================
