------------------------- MODULE AsyncBridgeProofs -------------------------
(***************************************************************************)
(* The bridge of src/filesystem.cc is correct for every capacity of the    *)
(* ring and every number of requests: no wake-up is lost, every call is    *)
(* the promised one, in the kernel's order, and a buffer lives exactly     *)
(* until its request has been handled.  First, one command: for every      *)
(* operation but symlink and multiforget, whatever the stack held before,  *)
(* what the JavaScript thread does with it (src/filesystem.cc:134-268) is  *)
(* the call the API promises for the request it was made from.             *)
(***************************************************************************)
EXTENDS AsyncBridge, TLAPS

\* The operations that the code delivers faithfully.
SoundOperations == RepliedOperations \ {"symlink", "multiforget"}

\* A request as the kernel may make it: only getattr and setattr come without a
\* fuse_file_info, and the counts that are cut to 32 bits fit.
SoundRequest(k) ==
    /\ k.op \in SoundOperations \cup {"init", "destroy"}
    /\ k.op \notin {"getattr", "setattr"} => k.fi
    /\ k.op \in {"forget", "readdir"} => k.wide = FALSE

-----------------------------------------------------------------------------
(* The promise, by the number of declared parameters.                      *)

\* With 1 parameter, the call has the context and 1 argument.
LEMMA PromisedOne ==
    ASSUME NEW k, k.op \notin {"init", "destroy"},
           NEW p1, Parameters(k.op) = <<p1>>
    PROVE  Promised(k) = Call(k.op, <<Context(k.n), Meant(k, p1)>>, k.n)
<1> DEFINE p == Parameters(k.op)
           args == [i \in 1..(Len(p) + 1) |->
                       IF i = 1 THEN Context(k.n) ELSE Meant(k, p[i - 1])]
<1>1. Promised(k) = Call(k.op, args, k.n)
  BY Zenon DEF Promised
<1>2. args = <<Context(k.n), Meant(k, p1)>>
  OBVIOUS
<1>3. QED
  BY <1>1, <1>2

\* With 2 parameters, the call has the context and 2 arguments.
LEMMA PromisedTwo ==
    ASSUME NEW k, k.op \notin {"init", "destroy"},
           NEW p1, NEW p2, Parameters(k.op) = <<p1, p2>>
    PROVE  Promised(k) = Call(k.op, <<Context(k.n), Meant(k, p1), Meant(k, p2)>>, k.n)
<1> DEFINE p == Parameters(k.op)
           args == [i \in 1..(Len(p) + 1) |->
                       IF i = 1 THEN Context(k.n) ELSE Meant(k, p[i - 1])]
<1>1. Promised(k) = Call(k.op, args, k.n)
  BY Zenon DEF Promised
<1>2. args = <<Context(k.n), Meant(k, p1), Meant(k, p2)>>
  OBVIOUS
<1>3. QED
  BY <1>1, <1>2

\* With 3 parameters, the call has the context and 3 arguments.
LEMMA PromisedThree ==
    ASSUME NEW k, k.op \notin {"init", "destroy"},
           NEW p1, NEW p2, NEW p3, Parameters(k.op) = <<p1, p2, p3>>
    PROVE  Promised(k) =
               Call(k.op, <<Context(k.n), Meant(k, p1), Meant(k, p2), Meant(k, p3)>>, k.n)
<1> DEFINE p == Parameters(k.op)
           args == [i \in 1..(Len(p) + 1) |->
                       IF i = 1 THEN Context(k.n) ELSE Meant(k, p[i - 1])]
<1>1. Promised(k) = Call(k.op, args, k.n)
  BY Zenon DEF Promised
<1>2. args = <<Context(k.n), Meant(k, p1), Meant(k, p2), Meant(k, p3)>>
  OBVIOUS
<1>3. QED
  BY <1>1, <1>2

\* With 4 parameters, the call has the context and 4 arguments.
LEMMA PromisedFour ==
    ASSUME NEW k, k.op \notin {"init", "destroy"},
           NEW p1, NEW p2, NEW p3, NEW p4, Parameters(k.op) = <<p1, p2, p3, p4>>
    PROVE  Promised(k) =
               Call(k.op, <<Context(k.n), Meant(k, p1), Meant(k, p2), Meant(k, p3),
                            Meant(k, p4)>>, k.n)
<1> DEFINE p == Parameters(k.op)
           args == [i \in 1..(Len(p) + 1) |->
                       IF i = 1 THEN Context(k.n) ELSE Meant(k, p[i - 1])]
<1>1. Promised(k) = Call(k.op, args, k.n)
  BY Zenon DEF Promised
<1>2. args = <<Context(k.n), Meant(k, p1), Meant(k, p2), Meant(k, p3), Meant(k, p4)>>
  OBVIOUS
<1>3. QED
  BY <1>1, <1>2

\* Every parameter but four means the argument of its own name.
LEMMA MeantPlain ==
    ASSUME NEW k, NEW p, p \notin {"fileInfo", "attrs", "buffer", "datasync"}
    PROVE  Meant(k, p) = Arg(k, p)
BY Zenon DEF Meant

\* What these four mean.
LEMMA MeantSpecial ==
    ASSUME NEW k
    PROVE  /\ Meant(k, "fileInfo") = Arg(k, "fi")
           /\ Meant(k, "attrs") = AttrsMeant(Arg(k, "to_set"), Arg(k, "attr"))
           /\ Meant(k, "buffer") = BufferOver(Arg(k, "data"), Arg(k, "len"))
           /\ Meant(k, "datasync") = Boxed(Arg(k, "datasync"))
BY Zenon DEF Meant

\* An object with members of its own, and one that has a member more, if a flag is set.
IsObject(attrs) == attrs = [m \in DOMAIN attrs |-> attrs[m]]
Extends(new, attrs, flag, flags, key, v) ==
    /\ DOMAIN new = DOMAIN attrs \cup {m \in {key} : flag \in flags}
    /\ flag \in flags => new[key] = v
    /\ flag \notin flags => new = attrs
    /\ \A m \in DOMAIN attrs : m # key => new[m] = attrs[m]

\* What SetIf makes of an object.
LEMMA SetIfExtends ==
    ASSUME NEW flag, NEW flags, NEW attrs, NEW key, NEW v, IsObject(attrs)
    PROVE  /\ IsObject(SetIf(flag, flags, attrs, key, v))
           /\ Extends(SetIf(flag, flags, attrs, key, v), attrs, flag, flags, key, v)
BY DEF SetIf, Extends, IsObject

\* The object that is built flag by flag is the one that the mask indicates, for
\* every mask (node_fuse.cc:203-243).
LEMMA AttrsAgree == \A to_set, attr : AttrsToBeSet(to_set, attr) = AttrsMeant(to_set, attr)
<1> SUFFICES ASSUME NEW to_set, NEW attr
             PROVE  AttrsToBeSet(to_set, attr) = AttrsMeant(to_set, attr)
  OBVIOUS
<1> DEFINE flags == ToSet[to_set[1]]
           o0 == [m \in {} |-> Null]
           o1 == SetIf("MODE", flags, o0, "mode", <<attr, "mode">>)
           o2 == SetIf("UID", flags, o1, "uid", <<attr, "uid">>)
           o3 == SetIf("GID", flags, o2, "gid", <<attr, "gid">>)
           o4 == SetIf("SIZE", flags, o3, "size", <<attr, "size">>)
           o5 == SetIf("ATIME", flags, o4, "atime", <<attr, "atime">>)
           o6 == SetIf("MTIME", flags, o5, "mtime", <<attr, "mtime">>)
           o7 == SetIf("ATIME_NOW", flags, o6, "atime", Now)
           o8 == SetIf("MTIME_NOW", flags, o7, "mtime", Now)
           meant == AttrsMeant(to_set, attr)
           D(f, k) == {m \in {k} : f \in flags}
<1>1. AttrsToBeSet(to_set, attr) = o8
  BY Zenon DEF AttrsToBeSet, TimesNow, Times, Owner
<1>2. IsObject(o0) /\ DOMAIN o0 = {}
  BY DEF IsObject
<1> HIDE DEF flags, o0
<1>3. IsObject(o1) /\ Extends(o1, o0, "MODE", flags, "mode", <<attr, "mode">>)
  BY <1>2, SetIfExtends
<1> HIDE DEF o1
<1>4. IsObject(o2) /\ Extends(o2, o1, "UID", flags, "uid", <<attr, "uid">>)
  BY <1>3, SetIfExtends
<1> HIDE DEF o2
<1>5. IsObject(o3) /\ Extends(o3, o2, "GID", flags, "gid", <<attr, "gid">>)
  BY <1>4, SetIfExtends
<1> HIDE DEF o3
<1>6. IsObject(o4) /\ Extends(o4, o3, "SIZE", flags, "size", <<attr, "size">>)
  BY <1>5, SetIfExtends
<1> HIDE DEF o4
<1>7. IsObject(o5) /\ Extends(o5, o4, "ATIME", flags, "atime", <<attr, "atime">>)
  BY <1>6, SetIfExtends
<1> HIDE DEF o5
<1>8. IsObject(o6) /\ Extends(o6, o5, "MTIME", flags, "mtime", <<attr, "mtime">>)
  BY <1>7, SetIfExtends
<1> HIDE DEF o6
<1>9. IsObject(o7) /\ Extends(o7, o6, "ATIME_NOW", flags, "atime", Now)
  BY <1>8, SetIfExtends
<1> HIDE DEF o7
<1>10. IsObject(o8) /\ Extends(o8, o7, "MTIME_NOW", flags, "mtime", Now)
  BY <1>9, SetIfExtends
<1> HIDE DEF o8
<1>11. /\ IsObject(meant)
       /\ DOMAIN meant = {m \in DOMAIN Indicated : Indicated[m] \cap flags # {}}
       /\ \A m \in DOMAIN meant :
             meant[m] = IF Indicated[m] \cap flags \cap {"ATIME_NOW", "MTIME_NOW"} # {}
                        THEN Now ELSE <<attr, m>>
  BY DEF AttrsMeant, flags, IsObject
<1> HIDE DEF meant
<1>12. /\ DOMAIN Indicated = {"mode", "uid", "gid", "size", "atime", "mtime"}
       /\ Indicated["mode"] = {"MODE"} /\ Indicated["uid"] = {"UID"}
       /\ Indicated["gid"] = {"GID"} /\ Indicated["size"] = {"SIZE"}
       /\ Indicated["atime"] = {"ATIME", "ATIME_NOW"}
       /\ Indicated["mtime"] = {"MTIME", "MTIME_NOW"}
  BY DEF Indicated
<1>13. DOMAIN o8 = D("MODE", "mode") \cup D("UID", "uid") \cup D("GID", "gid")
                   \cup D("SIZE", "size") \cup D("ATIME", "atime")
                   \cup D("MTIME", "mtime") \cup D("ATIME_NOW", "atime")
                   \cup D("MTIME_NOW", "mtime")
  BY <1>2, <1>3, <1>4, <1>5, <1>6, <1>7, <1>8, <1>9, <1>10 DEF Extends
<1>14. DOMAIN o8 = DOMAIN meant
  BY <1>11, <1>12, <1>13
<1>15. ASSUME NEW m \in DOMAIN o8 PROVE o8[m] = meant[m]
  <2>1. CASE m = "mode"
    <3>1. "MODE" \in flags /\ m \in DOMAIN o1
      BY <1>2, <1>3, <1>13, <2>1 DEF Extends
    <3>2. o8[m] = <<attr, m>>
      BY <1>3, <1>4, <1>5, <1>6, <1>7, <1>8, <1>9, <1>10, <2>1, <3>1 DEF Extends
    <3>3. QED
      BY <1>11, <1>12, <1>14, <2>1, <3>2
  <2>2. CASE m = "uid"
    <3>1. "UID" \in flags /\ m \in DOMAIN o2
      BY <1>4, <1>13, <2>2 DEF Extends
    <3>2. o8[m] = <<attr, m>>
      BY <1>4, <1>5, <1>6, <1>7, <1>8, <1>9, <1>10, <2>2, <3>1 DEF Extends
    <3>3. QED
      BY <1>11, <1>12, <1>14, <2>2, <3>2
  <2>3. CASE m = "gid"
    <3>1. "GID" \in flags /\ m \in DOMAIN o3
      BY <1>5, <1>13, <2>3 DEF Extends
    <3>2. o8[m] = <<attr, m>>
      BY <1>5, <1>6, <1>7, <1>8, <1>9, <1>10, <2>3, <3>1 DEF Extends
    <3>3. QED
      BY <1>11, <1>12, <1>14, <2>3, <3>2
  <2>4. CASE m = "size"
    <3>1. "SIZE" \in flags /\ m \in DOMAIN o4
      BY <1>6, <1>13, <2>4 DEF Extends
    <3>2. o8[m] = <<attr, m>>
      BY <1>6, <1>7, <1>8, <1>9, <1>10, <2>4, <3>1 DEF Extends
    <3>3. QED
      BY <1>11, <1>12, <1>14, <2>4, <3>2
  <2>5. CASE m = "atime"
    <3>1. o8[m] = o7[m] /\ ("ATIME" \in flags \/ "ATIME_NOW" \in flags)
      BY <1>9, <1>10, <1>13, <2>5 DEF Extends
    <3>2. CASE "ATIME_NOW" \in flags
      BY <1>9, <1>11, <1>12, <1>14, <2>5, <3>1, <3>2 DEF Extends
    <3>3. CASE "ATIME_NOW" \notin flags
      <4>1. o8[m] = <<attr, m>>
        BY <1>7, <1>8, <1>9, <2>5, <3>1, <3>3 DEF Extends
      <4>2. Indicated["atime"] \cap flags \cap {"ATIME_NOW", "MTIME_NOW"} = {}
        BY <1>12, <3>3
      <4>3. QED
        BY <1>11, <1>14, <2>5, <4>1, <4>2
    <3>4. QED
      BY <3>2, <3>3
  <2>6. CASE m = "mtime"
    <3>1. "MTIME" \in flags \/ "MTIME_NOW" \in flags
      BY <1>13, <2>6
    <3>2. CASE "MTIME_NOW" \in flags
      BY <1>10, <1>11, <1>12, <1>14, <2>6, <3>2 DEF Extends
    <3>3. CASE "MTIME_NOW" \notin flags
      <4>1. o8[m] = <<attr, m>>
        BY <1>8, <1>9, <1>10, <2>6, <3>1, <3>3 DEF Extends
      <4>2. Indicated["mtime"] \cap flags \cap {"ATIME_NOW", "MTIME_NOW"} = {}
        BY <1>12, <3>3
      <4>3. QED
        BY <1>11, <1>14, <2>6, <4>1, <4>2
    <3>4. QED
      BY <3>2, <3>3
  <2>7. QED
    BY <1>13, <2>1, <2>2, <2>3, <2>4, <2>5, <2>6
<1>16. o8 = meant
  <2>1. o8 = [m \in DOMAIN o8 |-> o8[m]] /\ meant = [m \in DOMAIN meant |-> meant[m]]
    BY <1>10, <1>11, Zenon DEF IsObject
  <2>2. QED
    BY <2>1, <1>14, <1>15
<1>17. QED
  BY <1>1, <1>16 DEF meant

\* A number that fits is not changed by the cast to int.
LEMMA NarrowFits ==
    ASSUME NEW k, k.wide = FALSE, NEW a
    PROVE  Narrow(Arg(k, a)) = Arg(k, a)
BY DEF Narrow, Arg

\* The fuse_file_info of a request that has one is copied.
LEMMA FiCopied ==
    ASSUME NEW k, k.fi, NEW old
    PROVE  CopyFi(old, FiArg(k)) = Arg(k, "fi")
BY DEF CopyFi, FiArg

-----------------------------------------------------------------------------
(* The round trip of each operation.                                       *)

\* The parameters each operation declares.
LEMMA DeclaredParameters ==
    /\ Parameters("lookup") = <<"parent", "name">>
    /\ Parameters("forget") = <<"inode", "nlookup">>
    /\ Parameters("getattr") = <<"inode">>
    /\ Parameters("setattr") = <<"inode", "attrs">>
    /\ Parameters("readlink") = <<"inode">>
    /\ Parameters("mknod") = <<"parent", "name", "mode", "rdev">>
    /\ Parameters("mkdir") = <<"parent", "name", "mode">>
    /\ Parameters("unlink") = <<"parent", "name">>
    /\ Parameters("rmdir") = <<"parent", "name">>
    /\ Parameters("rename") = <<"parent", "name", "newParent", "newName">>
    /\ Parameters("link") = <<"inode", "newParent", "newName">>
    /\ Parameters("open") = <<"inode", "fileInfo">>
    /\ Parameters("read") = <<"inode", "len", "offset", "fileInfo">>
    /\ Parameters("write") = <<"inode", "buffer", "offset", "fileInfo">>
    /\ Parameters("flush") = <<"inode", "fileInfo">>
    /\ Parameters("release") = <<"inode", "fileInfo">>
    /\ Parameters("fsync") = <<"inode", "datasync", "fileInfo">>
    /\ Parameters("opendir") = <<"inode", "fileInfo">>
    /\ Parameters("readdir") = <<"inode", "len", "offset", "fileInfo">>
    /\ Parameters("releasedir") = <<"inode", "fileInfo">>
    /\ Parameters("fsyncdir") = <<"inode", "datasync", "fileInfo">>
    /\ Parameters("statfs") = <<"inode">>
    /\ Parameters("access") = <<"inode", "mask">>
    /\ Parameters("create") = <<"parent", "name", "mode", "fileInfo">>
BY Zenon DEF Parameters, EntryParameters, LinkParameters, FileParameters, ExampleParameters,
             LibfuseParameters

\* The case of each operation in the switch of DispatchOp.
LEMMA Switch ==
    ASSUME NEW v
    PROVE
    /\ v.op = "INIT" => Dispatched(v) = RemoteInit(v.userdata, v.conn)
    /\ v.op = "DESTROY" => Dispatched(v) = RemoteDestroy(v.userdata)
    /\ v.op = "LOOKUP" => Dispatched(v) = RemoteLookup(v.req, v.ino, v.name)
    /\ v.op = "FORGET" => Dispatched(v) = RemoteForget(v.req, v.ino, v.nlookup)
    /\ v.op = "GETATTR" => Dispatched(v) = RemoteGetAttr(v.req, v.ino, v.fi)
    /\ v.op = "SETATTR" => Dispatched(v) = RemoteSetAttr(v.req, v.ino, v.attr, v.to_set, v.fi)
    /\ v.op = "READLINK" => Dispatched(v) = RemoteReadLink(v.req, v.ino)
    /\ v.op = "MKNOD" => Dispatched(v) = RemoteMkNod(v.req, v.ino, v.name, v.mode, v.dev)
    /\ v.op = "MKDIR" => Dispatched(v) = RemoteMkDir(v.req, v.ino, v.name, v.mode)
    /\ v.op = "UNLINK" => Dispatched(v) = RemoteUnlink(v.req, v.ino, v.name)
    /\ v.op = "RMDIR" => Dispatched(v) = RemoteRmDir(v.req, v.ino, v.name)
    /\ v.op = "RENAME" => Dispatched(v) = RemoteRename(v.req, v.ino, v.name, v.newino, v.newname)
    /\ v.op = "LINK" => Dispatched(v) = RemoteLink(v.req, v.ino, v.newino, v.name)
    /\ v.op = "OPEN" => Dispatched(v) = RemoteOpen(v.req, v.ino, v.fi)
    /\ v.op = "READ" => Dispatched(v) = RemoteRead(v.req, v.ino, v.size, v.off, v.fi)
    /\ v.op = "WRITE" => Dispatched(v) = RemoteWrite(v.req, v.ino, v.name, v.size, v.off, v.fi)
    /\ v.op = "FLUSH" => Dispatched(v) = RemoteFlush(v.req, v.ino, v.fi)
    /\ v.op = "RELEASE" => Dispatched(v) = RemoteRelease(v.req, v.ino, v.fi)
    /\ v.op = "FSYNC" => Dispatched(v) = RemoteFSync(v.req, v.ino, v.to_set, v.fi)
    /\ v.op = "OPENDIR" => Dispatched(v) = RemoteOpenDir(v.req, v.ino, v.fi)
    /\ v.op = "READDIR" => Dispatched(v) = RemoteReadDir(v.req, v.ino, v.size, v.off, v.fi)
    /\ v.op = "RELEASEDIR" => Dispatched(v) = RemoteReleaseDir(v.req, v.ino, v.fi)
    /\ v.op = "FSYNCDIR" => Dispatched(v) = RemoteFSyncDir(v.req, v.ino, v.to_set, v.fi)
    /\ v.op = "STATFS" => Dispatched(v) = RemoteStatFs(v.req, v.ino)
    /\ v.op = "ACCESS" => Dispatched(v) = RemoteAccess(v.req, v.ino, v.to_set)
    /\ v.op = "CREATE" => Dispatched(v) = RemoteCreate(v.req, v.ino, v.name, v.mode, v.fi)
BY Zenon DEF Dispatched

\* The operations whose calls have a Reply, one by one.
LEMMA RoundTripReplied ==
    ASSUME NEW old, DOMAIN old = CmdFields, NEW k, SoundRequest(k), k.op \in SoundOperations
    PROVE  /\ Dispatched(Marshalled(old, k)) = Promised(k)
           /\ DOMAIN Marshalled(old, k) = CmdFields
<1> DEFINE a(arg) == Arg(k, arg)
<1>0. /\ k.op \notin {"getattr", "setattr"} => k.fi
      /\ k.op \in {"forget", "readdir"} => k.wide = FALSE
  BY DEF SoundRequest
<1>1. CASE k.op = "lookup"
  <2> DEFINE v == Lookup(old, k.n, a("parent"), a("name"))
  <2>1. Marshalled(old, k) = v
    BY <1>1, Zenon DEF Marshalled
  <2>2. /\ DOMAIN v = CmdFields
        /\ v.op = "LOOKUP"
        /\ v.req = k.n
        /\ v.ino = a("parent")
        /\ v.name = a("name")
    BY DEF Lookup, CmdFields
  <2> HIDE DEF v
  <2>3. Dispatched(v) = RemoteLookup(k.n, a("parent"), a("name"))
    BY <2>2, Switch, Zenon
  <2>4. Parameters(k.op) = <<"parent", "name">>
    BY <1>1, DeclaredParameters
  <2>5. Promised(k) =
            Call("lookup", <<Context(k.n), a("parent"), a("name")>>, k.n)
    BY <1>1, <2>4, PromisedTwo, MeantPlain
  <2>6. QED
    BY <2>1, <2>2, <2>3, <2>5 DEF RemoteLookup
<1>2. CASE k.op = "forget"
  <2> DEFINE v == Forget(old, k.n, a("inode"), a("nlookup"))
  <2>1. Marshalled(old, k) = v
    BY <1>2, Zenon DEF Marshalled
  <2>2. /\ DOMAIN v = CmdFields
        /\ v.op = "FORGET"
        /\ v.req = k.n
        /\ v.ino = a("inode")
        /\ v.nlookup = a("nlookup")
    BY DEF Forget, CmdFields
  <2> HIDE DEF v
  <2>3. Dispatched(v) = RemoteForget(k.n, a("inode"), a("nlookup"))
    BY <2>2, Switch, Zenon
  <2>4. Parameters(k.op) = <<"inode", "nlookup">>
    BY <1>2, DeclaredParameters
  <2>5. Promised(k) =
            Call("forget", <<Context(k.n), a("inode"), a("nlookup")>>, k.n)
    BY <1>2, <2>4, PromisedTwo, MeantPlain
  <2>6. QED
    BY <2>1, <2>2, <2>3, <2>5, <1>0, <1>2, NarrowFits DEF RemoteForget
<1>3. CASE k.op = "getattr"
  <2> DEFINE v == GetAttr(old, k.n, a("inode"), FiArg(k))
  <2>1. Marshalled(old, k) = v
    BY <1>3, Zenon DEF Marshalled
  <2>2. /\ DOMAIN v = CmdFields
        /\ v.op = "GETATTR"
        /\ v.req = k.n
        /\ v.ino = a("inode")
        /\ v.fi = CopyFi(old, FiArg(k))
    BY DEF GetAttr, CmdFields
  <2> HIDE DEF v
  <2>3. Dispatched(v) = RemoteGetAttr(k.n, a("inode"), CopyFi(old, FiArg(k)))
    BY <2>2, Switch, Zenon
  <2>4. Parameters(k.op) = <<"inode">>
    BY <1>3, DeclaredParameters
  <2>5. Promised(k) =
            Call("getattr", <<Context(k.n), a("inode")>>, k.n)
    BY <1>3, <2>4, PromisedOne, MeantPlain
  <2>6. QED
    BY <2>1, <2>2, <2>3, <2>5 DEF RemoteGetAttr
<1>4. CASE k.op = "setattr"
  <2> DEFINE v == SetAttr(old, k.n, a("inode"), a("attr"), a("to_set"), FiArg(k))
  <2>1. Marshalled(old, k) = v
    BY <1>4, Zenon DEF Marshalled
  <2>2. /\ DOMAIN v = CmdFields
        /\ v.op = "SETATTR"
        /\ v.req = k.n
        /\ v.ino = a("inode")
        /\ v.attr = a("attr")
        /\ v.to_set = a("to_set")
        /\ v.fi = CopyFi(old, FiArg(k))
    BY DEF SetAttr, CmdFields
  <2> HIDE DEF v
  <2>3. Dispatched(v) = RemoteSetAttr(k.n, a("inode"), a("attr"), a("to_set"),
                                      CopyFi(old, FiArg(k)))
    BY <2>2, Switch, Zenon
  <2>4. Parameters(k.op) = <<"inode", "attrs">>
    BY <1>4, DeclaredParameters
  <2>5. Promised(k) =
            Call("setattr", <<Context(k.n), a("inode"),
                              AttrsToBeSet(a("to_set"), a("attr"))>>, k.n)
    BY <1>4, <2>4, PromisedTwo, MeantPlain, MeantSpecial, AttrsAgree
  <2>6. QED
    BY <2>1, <2>2, <2>3, <2>5 DEF RemoteSetAttr
<1>5. CASE k.op = "readlink"
  <2> DEFINE v == ReadLink(old, k.n, a("inode"))
  <2>1. Marshalled(old, k) = v
    BY <1>5, Zenon DEF Marshalled
  <2>2. /\ DOMAIN v = CmdFields
        /\ v.op = "READLINK"
        /\ v.req = k.n
        /\ v.ino = a("inode")
    BY DEF ReadLink, CmdFields
  <2> HIDE DEF v
  <2>3. Dispatched(v) = RemoteReadLink(k.n, a("inode"))
    BY <2>2, Switch, Zenon
  <2>4. Parameters(k.op) = <<"inode">>
    BY <1>5, DeclaredParameters
  <2>5. Promised(k) =
            Call("readlink", <<Context(k.n), a("inode")>>, k.n)
    BY <1>5, <2>4, PromisedOne, MeantPlain
  <2>6. QED
    BY <2>1, <2>2, <2>3, <2>5 DEF RemoteReadLink
<1>6. CASE k.op = "mknod"
  <2> DEFINE v == MkNod(old, k.n, a("parent"), a("name"), a("mode"), a("rdev"))
  <2>1. Marshalled(old, k) = v
    BY <1>6, Zenon DEF Marshalled
  <2>2. /\ DOMAIN v = CmdFields
        /\ v.op = "MKNOD"
        /\ v.req = k.n
        /\ v.ino = a("parent")
        /\ v.name = a("name")
        /\ v.mode = a("mode")
        /\ v.dev = a("rdev")
    BY DEF MkNod, CmdFields
  <2> HIDE DEF v
  <2>3. Dispatched(v) = RemoteMkNod(k.n, a("parent"), a("name"), a("mode"), a("rdev"))
    BY <2>2, Switch, Zenon
  <2>4. Parameters(k.op) = <<"parent", "name", "mode", "rdev">>
    BY <1>6, DeclaredParameters
  <2>5. Promised(k) =
            Call("mknod", <<Context(k.n), a("parent"), a("name"), a("mode"), a("rdev")>>, k.n)
    BY <1>6, <2>4, PromisedFour, MeantPlain
  <2>6. QED
    BY <2>1, <2>2, <2>3, <2>5 DEF RemoteMkNod
<1>7. CASE k.op = "mkdir"
  <2> DEFINE v == MkDir(old, k.n, a("parent"), a("name"), a("mode"))
  <2>1. Marshalled(old, k) = v
    BY <1>7, Zenon DEF Marshalled
  <2>2. /\ DOMAIN v = CmdFields
        /\ v.op = "MKDIR"
        /\ v.req = k.n
        /\ v.ino = a("parent")
        /\ v.name = a("name")
        /\ v.mode = a("mode")
    BY DEF MkDir, CmdFields
  <2> HIDE DEF v
  <2>3. Dispatched(v) = RemoteMkDir(k.n, a("parent"), a("name"), a("mode"))
    BY <2>2, Switch, Zenon
  <2>4. Parameters(k.op) = <<"parent", "name", "mode">>
    BY <1>7, DeclaredParameters
  <2>5. Promised(k) =
            Call("mkdir", <<Context(k.n), a("parent"), a("name"), a("mode")>>, k.n)
    BY <1>7, <2>4, PromisedThree, MeantPlain
  <2>6. QED
    BY <2>1, <2>2, <2>3, <2>5 DEF RemoteMkDir
<1>8. CASE k.op = "unlink"
  <2> DEFINE v == Unlink(old, k.n, a("parent"), a("name"))
  <2>1. Marshalled(old, k) = v
    BY <1>8, Zenon DEF Marshalled
  <2>2. /\ DOMAIN v = CmdFields
        /\ v.op = "UNLINK"
        /\ v.req = k.n
        /\ v.ino = a("parent")
        /\ v.name = a("name")
    BY DEF Unlink, CmdFields
  <2> HIDE DEF v
  <2>3. Dispatched(v) = RemoteUnlink(k.n, a("parent"), a("name"))
    BY <2>2, Switch, Zenon
  <2>4. Parameters(k.op) = <<"parent", "name">>
    BY <1>8, DeclaredParameters
  <2>5. Promised(k) =
            Call("unlink", <<Context(k.n), a("parent"), a("name")>>, k.n)
    BY <1>8, <2>4, PromisedTwo, MeantPlain
  <2>6. QED
    BY <2>1, <2>2, <2>3, <2>5 DEF RemoteUnlink
<1>9. CASE k.op = "rmdir"
  <2> DEFINE v == RmDir(old, k.n, a("parent"), a("name"))
  <2>1. Marshalled(old, k) = v
    BY <1>9, Zenon DEF Marshalled
  <2>2. /\ DOMAIN v = CmdFields
        /\ v.op = "RMDIR"
        /\ v.req = k.n
        /\ v.ino = a("parent")
        /\ v.name = a("name")
    BY DEF RmDir, CmdFields
  <2> HIDE DEF v
  <2>3. Dispatched(v) = RemoteRmDir(k.n, a("parent"), a("name"))
    BY <2>2, Switch, Zenon
  <2>4. Parameters(k.op) = <<"parent", "name">>
    BY <1>9, DeclaredParameters
  <2>5. Promised(k) =
            Call("rmdir", <<Context(k.n), a("parent"), a("name")>>, k.n)
    BY <1>9, <2>4, PromisedTwo, MeantPlain
  <2>6. QED
    BY <2>1, <2>2, <2>3, <2>5 DEF RemoteRmDir
<1>10. CASE k.op = "rename"
  <2> DEFINE v == Rename(old, k.n, a("parent"), a("name"), a("newParent"), a("newName"))
  <2>1. Marshalled(old, k) = v
    BY <1>10, Zenon DEF Marshalled
  <2>2. /\ DOMAIN v = CmdFields
        /\ v.op = "RENAME"
        /\ v.req = k.n
        /\ v.ino = a("parent")
        /\ v.name = a("name")
        /\ v.newino = a("newParent")
        /\ v.newname = a("newName")
    BY DEF Rename, CmdFields
  <2> HIDE DEF v
  <2>3. Dispatched(v) = RemoteRename(k.n, a("parent"), a("name"), a("newParent"), a("newName"))
    BY <2>2, Switch, Zenon
  <2>4. Parameters(k.op) = <<"parent", "name", "newParent", "newName">>
    BY <1>10, DeclaredParameters
  <2>5. Promised(k) =
            Call("rename", <<Context(k.n), a("parent"), a("name"), a("newParent"),
                             a("newName")>>, k.n)
    BY <1>10, <2>4, PromisedFour, MeantPlain
  <2>6. QED
    BY <2>1, <2>2, <2>3, <2>5 DEF RemoteRename
<1>11. CASE k.op = "link"
  <2> DEFINE v == Link(old, k.n, a("inode"), a("newParent"), a("newName"))
  <2>1. Marshalled(old, k) = v
    BY <1>11, Zenon DEF Marshalled
  <2>2. /\ DOMAIN v = CmdFields
        /\ v.op = "LINK"
        /\ v.req = k.n
        /\ v.ino = a("inode")
        /\ v.newino = a("newParent")
        /\ v.name = a("newName")
    BY DEF Link, CmdFields
  <2> HIDE DEF v
  <2>3. Dispatched(v) = RemoteLink(k.n, a("inode"), a("newParent"), a("newName"))
    BY <2>2, Switch, Zenon
  <2>4. Parameters(k.op) = <<"inode", "newParent", "newName">>
    BY <1>11, DeclaredParameters
  <2>5. Promised(k) =
            Call("link", <<Context(k.n), a("inode"), a("newParent"),
                             a("newName")>>, k.n)
    BY <1>11, <2>4, PromisedThree, MeantPlain
  <2>6. QED
    BY <2>1, <2>2, <2>3, <2>5 DEF RemoteLink
<1>12. CASE k.op = "open"
  <2> DEFINE v == Open(old, k.n, a("inode"), FiArg(k))
  <2>1. Marshalled(old, k) = v
    BY <1>12, Zenon DEF Marshalled
  <2>2. /\ DOMAIN v = CmdFields
        /\ v.op = "OPEN"
        /\ v.req = k.n
        /\ v.ino = a("inode")
        /\ v.fi = a("fi")
    BY <1>0, <1>12, FiCopied DEF Open, CmdFields
  <2> HIDE DEF v
  <2>3. Dispatched(v) = RemoteOpen(k.n, a("inode"), a("fi"))
    BY <2>2, Switch, Zenon
  <2>4. Parameters(k.op) = <<"inode", "fileInfo">>
    BY <1>12, DeclaredParameters
  <2>5. Promised(k) =
            Call("open", <<Context(k.n), a("inode"), a("fi")>>, k.n)
    BY <1>12, <2>4, PromisedTwo, MeantPlain, MeantSpecial
  <2>6. QED
    BY <2>1, <2>2, <2>3, <2>5 DEF RemoteOpen
<1>13. CASE k.op = "read"
  <2> DEFINE v == Read(old, k.n, a("inode"), a("len"), a("offset"), FiArg(k))
  <2>1. Marshalled(old, k) = v
    BY <1>13, Zenon DEF Marshalled
  <2>2. /\ DOMAIN v = CmdFields
        /\ v.op = "READ"
        /\ v.req = k.n
        /\ v.ino = a("inode")
        /\ v.size = a("len")
        /\ v.off = a("offset")
        /\ v.fi = a("fi")
    BY <1>0, <1>13, FiCopied DEF Read, CmdFields
  <2> HIDE DEF v
  <2>3. Dispatched(v) = RemoteRead(k.n, a("inode"), a("len"), a("offset"), a("fi"))
    BY <2>2, Switch, Zenon
  <2>4. Parameters(k.op) = <<"inode", "len", "offset", "fileInfo">>
    BY <1>13, DeclaredParameters
  <2>5. Promised(k) =
            Call("read", <<Context(k.n), a("inode"), a("len"), a("offset"), a("fi")>>, k.n)
    BY <1>13, <2>4, PromisedFour, MeantPlain, MeantSpecial
  <2>6. QED
    BY <2>1, <2>2, <2>3, <2>5 DEF RemoteRead
<1>14. CASE k.op = "write"
  <2> DEFINE v == Write(old, k.n, a("inode"), a("data"), a("len"), a("offset"), FiArg(k))
  <2>1. Marshalled(old, k) = v
    BY <1>14, Zenon DEF Marshalled
  <2>2. /\ DOMAIN v = CmdFields
        /\ v.op = "WRITE"
        /\ v.req = k.n
        /\ v.ino = a("inode")
        /\ v.name = a("data")
        /\ v.size = a("len")
        /\ v.off = a("offset")
        /\ v.fi = a("fi")
    BY <1>0, <1>14, FiCopied DEF Write, CmdFields
  <2> HIDE DEF v
  <2>3. Dispatched(v) = RemoteWrite(k.n, a("inode"), a("data"), a("len"), a("offset"), a("fi"))
    BY <2>2, Switch, Zenon
  <2>4. Parameters(k.op) = <<"inode", "buffer", "offset", "fileInfo">>
    BY <1>14, DeclaredParameters
  <2>5. Promised(k) =
            Call("write", <<Context(k.n), a("inode"), BufferOver(a("data"), a("len")),
                            a("offset"), a("fi")>>, k.n)
    BY <1>14, <2>4, PromisedFour, MeantPlain, MeantSpecial
  <2>6. QED
    BY <2>1, <2>2, <2>3, <2>5 DEF RemoteWrite
<1>15. CASE k.op = "flush"
  <2> DEFINE v == Flush(old, k.n, a("inode"), FiArg(k))
  <2>1. Marshalled(old, k) = v
    BY <1>15, Zenon DEF Marshalled
  <2>2. /\ DOMAIN v = CmdFields
        /\ v.op = "FLUSH"
        /\ v.req = k.n
        /\ v.ino = a("inode")
        /\ v.fi = a("fi")
    BY <1>0, <1>15, FiCopied DEF Flush, CmdFields
  <2> HIDE DEF v
  <2>3. Dispatched(v) = RemoteFlush(k.n, a("inode"), a("fi"))
    BY <2>2, Switch, Zenon
  <2>4. Parameters(k.op) = <<"inode", "fileInfo">>
    BY <1>15, DeclaredParameters
  <2>5. Promised(k) =
            Call("flush", <<Context(k.n), a("inode"), a("fi")>>, k.n)
    BY <1>15, <2>4, PromisedTwo, MeantPlain, MeantSpecial
  <2>6. QED
    BY <2>1, <2>2, <2>3, <2>5 DEF RemoteFlush
<1>16. CASE k.op = "release"
  <2> DEFINE v == Release(old, k.n, a("inode"), FiArg(k))
  <2>1. Marshalled(old, k) = v
    BY <1>16, Zenon DEF Marshalled
  <2>2. /\ DOMAIN v = CmdFields
        /\ v.op = "RELEASE"
        /\ v.req = k.n
        /\ v.ino = a("inode")
        /\ v.fi = a("fi")
    BY <1>0, <1>16, FiCopied DEF Release, CmdFields
  <2> HIDE DEF v
  <2>3. Dispatched(v) = RemoteRelease(k.n, a("inode"), a("fi"))
    BY <2>2, Switch, Zenon
  <2>4. Parameters(k.op) = <<"inode", "fileInfo">>
    BY <1>16, DeclaredParameters
  <2>5. Promised(k) =
            Call("release", <<Context(k.n), a("inode"), a("fi")>>, k.n)
    BY <1>16, <2>4, PromisedTwo, MeantPlain, MeantSpecial
  <2>6. QED
    BY <2>1, <2>2, <2>3, <2>5 DEF RemoteRelease
<1>17. CASE k.op = "fsync"
  <2> DEFINE v == FSync(old, k.n, a("inode"), a("datasync"), FiArg(k))
  <2>1. Marshalled(old, k) = v
    BY <1>17, Zenon DEF Marshalled
  <2>2. /\ DOMAIN v = CmdFields
        /\ v.op = "FSYNC"
        /\ v.req = k.n
        /\ v.ino = a("inode")
        /\ v.to_set = a("datasync")
        /\ v.fi = a("fi")
    BY <1>0, <1>17, FiCopied DEF FSync, CmdFields
  <2> HIDE DEF v
  <2>3. Dispatched(v) = RemoteFSync(k.n, a("inode"), a("datasync"), a("fi"))
    BY <2>2, Switch, Zenon
  <2>4. Parameters(k.op) = <<"inode", "datasync", "fileInfo">>
    BY <1>17, DeclaredParameters
  <2>5. Promised(k) =
            Call("fsync", <<Context(k.n), a("inode"), Boxed(a("datasync")), a("fi")>>, k.n)
    BY <1>17, <2>4, PromisedThree, MeantPlain, MeantSpecial
  <2>6. QED
    BY <2>1, <2>2, <2>3, <2>5 DEF RemoteFSync
<1>18. CASE k.op = "opendir"
  <2> DEFINE v == OpenDir(old, k.n, a("inode"), FiArg(k))
  <2>1. Marshalled(old, k) = v
    BY <1>18, Zenon DEF Marshalled
  <2>2. /\ DOMAIN v = CmdFields
        /\ v.op = "OPENDIR"
        /\ v.req = k.n
        /\ v.ino = a("inode")
        /\ v.fi = a("fi")
    BY <1>0, <1>18, FiCopied DEF OpenDir, CmdFields
  <2> HIDE DEF v
  <2>3. Dispatched(v) = RemoteOpenDir(k.n, a("inode"), a("fi"))
    BY <2>2, Switch, Zenon
  <2>4. Parameters(k.op) = <<"inode", "fileInfo">>
    BY <1>18, DeclaredParameters
  <2>5. Promised(k) =
            Call("opendir", <<Context(k.n), a("inode"), a("fi")>>, k.n)
    BY <1>18, <2>4, PromisedTwo, MeantPlain, MeantSpecial
  <2>6. QED
    BY <2>1, <2>2, <2>3, <2>5 DEF RemoteOpenDir
<1>19. CASE k.op = "readdir"
  <2> DEFINE v == ReadDir(old, k.n, a("inode"), a("len"), a("offset"), FiArg(k))
  <2>1. Marshalled(old, k) = v
    BY <1>19, Zenon DEF Marshalled
  <2>2. /\ DOMAIN v = CmdFields
        /\ v.op = "READDIR"
        /\ v.req = k.n
        /\ v.ino = a("inode")
        /\ v.size = a("len")
        /\ v.off = a("offset")
        /\ v.fi = a("fi")
    BY <1>0, <1>19, FiCopied DEF ReadDir, CmdFields
  <2> HIDE DEF v
  <2>3. Dispatched(v) = RemoteReadDir(k.n, a("inode"), a("len"), a("offset"), a("fi"))
    BY <2>2, Switch, Zenon
  <2>4. Parameters(k.op) = <<"inode", "len", "offset", "fileInfo">>
    BY <1>19, DeclaredParameters
  <2>5. Promised(k) =
            Call("readdir", <<Context(k.n), a("inode"), a("len"), a("offset"), a("fi")>>, k.n)
    BY <1>19, <2>4, PromisedFour, MeantPlain, MeantSpecial
  <2>6. QED
    BY <2>1, <2>2, <2>3, <2>5, <1>0, <1>19, NarrowFits DEF RemoteReadDir
<1>20. CASE k.op = "releasedir"
  <2> DEFINE v == ReleaseDir(old, k.n, a("inode"), FiArg(k))
  <2>1. Marshalled(old, k) = v
    BY <1>20, Zenon DEF Marshalled
  <2>2. /\ DOMAIN v = CmdFields
        /\ v.op = "RELEASEDIR"
        /\ v.req = k.n
        /\ v.ino = a("inode")
        /\ v.fi = a("fi")
    BY <1>0, <1>20, FiCopied DEF ReleaseDir, CmdFields
  <2> HIDE DEF v
  <2>3. Dispatched(v) = RemoteReleaseDir(k.n, a("inode"), a("fi"))
    BY <2>2, Switch, Zenon
  <2>4. Parameters(k.op) = <<"inode", "fileInfo">>
    BY <1>20, DeclaredParameters
  <2>5. Promised(k) =
            Call("releasedir", <<Context(k.n), a("inode"), a("fi")>>, k.n)
    BY <1>20, <2>4, PromisedTwo, MeantPlain, MeantSpecial
  <2>6. QED
    BY <2>1, <2>2, <2>3, <2>5 DEF RemoteReleaseDir
<1>21. CASE k.op = "fsyncdir"
  <2> DEFINE v == FSyncDir(old, k.n, a("inode"), a("datasync"), FiArg(k))
  <2>1. Marshalled(old, k) = v
    BY <1>21, Zenon DEF Marshalled
  <2>2. /\ DOMAIN v = CmdFields
        /\ v.op = "FSYNCDIR"
        /\ v.req = k.n
        /\ v.ino = a("inode")
        /\ v.to_set = a("datasync")
        /\ v.fi = a("fi")
    BY <1>0, <1>21, FiCopied DEF FSyncDir, CmdFields
  <2> HIDE DEF v
  <2>3. Dispatched(v) = RemoteFSyncDir(k.n, a("inode"), a("datasync"), a("fi"))
    BY <2>2, Switch, Zenon
  <2>4. Parameters(k.op) = <<"inode", "datasync", "fileInfo">>
    BY <1>21, DeclaredParameters
  <2>5. Promised(k) =
            Call("fsyncdir", <<Context(k.n), a("inode"), Boxed(a("datasync")), a("fi")>>, k.n)
    BY <1>21, <2>4, PromisedThree, MeantPlain, MeantSpecial
  <2>6. QED
    BY <2>1, <2>2, <2>3, <2>5 DEF RemoteFSyncDir
<1>22. CASE k.op = "statfs"
  <2> DEFINE v == StatFs(old, k.n, a("inode"))
  <2>1. Marshalled(old, k) = v
    BY <1>22, Zenon DEF Marshalled
  <2>2. /\ DOMAIN v = CmdFields
        /\ v.op = "STATFS"
        /\ v.req = k.n
        /\ v.ino = a("inode")
    BY DEF StatFs, CmdFields
  <2> HIDE DEF v
  <2>3. Dispatched(v) = RemoteStatFs(k.n, a("inode"))
    BY <2>2, Switch, Zenon
  <2>4. Parameters(k.op) = <<"inode">>
    BY <1>22, DeclaredParameters
  <2>5. Promised(k) =
            Call("statfs", <<Context(k.n), a("inode")>>, k.n)
    BY <1>22, <2>4, PromisedOne, MeantPlain
  <2>6. QED
    BY <2>1, <2>2, <2>3, <2>5 DEF RemoteStatFs
<1>23. CASE k.op = "access"
  <2> DEFINE v == Access(old, k.n, a("inode"), a("mask"))
  <2>1. Marshalled(old, k) = v
    BY <1>23, Zenon DEF Marshalled
  <2>2. /\ DOMAIN v = CmdFields
        /\ v.op = "ACCESS"
        /\ v.req = k.n
        /\ v.ino = a("inode")
        /\ v.to_set = a("mask")
    BY DEF Access, CmdFields
  <2> HIDE DEF v
  <2>3. Dispatched(v) = RemoteAccess(k.n, a("inode"), a("mask"))
    BY <2>2, Switch, Zenon
  <2>4. Parameters(k.op) = <<"inode", "mask">>
    BY <1>23, DeclaredParameters
  <2>5. Promised(k) =
            Call("access", <<Context(k.n), a("inode"), a("mask")>>, k.n)
    BY <1>23, <2>4, PromisedTwo, MeantPlain
  <2>6. QED
    BY <2>1, <2>2, <2>3, <2>5 DEF RemoteAccess
<1>24. CASE k.op = "create"
  <2> DEFINE v == Create(old, k.n, a("parent"), a("name"), a("mode"), FiArg(k))
  <2>1. Marshalled(old, k) = v
    BY <1>24, Zenon DEF Marshalled
  <2>2. /\ DOMAIN v = CmdFields
        /\ v.op = "CREATE"
        /\ v.req = k.n
        /\ v.ino = a("parent")
        /\ v.name = a("name")
        /\ v.mode = a("mode")
        /\ v.fi = a("fi")
    BY <1>0, <1>24, FiCopied DEF Create, CmdFields
  <2> HIDE DEF v
  <2>3. Dispatched(v) = RemoteCreate(k.n, a("parent"), a("name"), a("mode"), a("fi"))
    BY <2>2, Switch, Zenon
  <2>4. Parameters(k.op) = <<"parent", "name", "mode", "fileInfo">>
    BY <1>24, DeclaredParameters
  <2>5. Promised(k) =
            Call("create", <<Context(k.n), a("parent"), a("name"), a("mode"), a("fi")>>, k.n)
    BY <1>24, <2>4, PromisedFour, MeantPlain, MeantSpecial
  <2>6. QED
    BY <2>1, <2>2, <2>3, <2>5 DEF RemoteCreate
<1>25. QED
  BY <1>1, <1>2, <1>3, <1>4, <1>5, <1>6, <1>7, <1>8, <1>9, <1>10, <1>11, <1>12,
     <1>13, <1>14, <1>15, <1>16, <1>17, <1>18, <1>19, <1>20, <1>21, <1>22, <1>23, <1>24
  DEF SoundOperations, RepliedOperations, EntryParameters, LinkParameters, FileParameters,
      ExampleParameters, LibfuseParameters

\* What the kernel asks for is what JavaScript is called with, whatever the struct
\* on the stack held before (src/filesystem.cc:376-2427).
THEOREM RoundTrip ==
    ASSUME NEW old, DOMAIN old = CmdFields, NEW k, SoundRequest(k)
    PROVE  /\ Dispatched(Marshalled(old, k)) = Promised(k)
           /\ DOMAIN Marshalled(old, k) = CmdFields
<1>1. CASE k.op = "init"
  <2> DEFINE v == InitOp(old, "Fuse", Arg(k, "conn"))
  <2>1. Marshalled(old, k) = v /\ Promised(k) = Call("init", <<Arg(k, "conn")>>, Null)
    BY <1>1, Zenon DEF Marshalled, Promised
  <2>2. DOMAIN v = CmdFields /\ v.op = "INIT" /\ v.userdata = "Fuse" /\ v.conn = Arg(k, "conn")
    BY DEF InitOp, CmdFields
  <2> HIDE DEF v
  <2>3. Dispatched(v) = RemoteInit("Fuse", Arg(k, "conn"))
    BY <2>2, Switch, Zenon
  <2>4. QED
    BY <2>1, <2>2, <2>3 DEF RemoteInit
<1>2. CASE k.op = "destroy"
  <2> DEFINE v == DestroyOp(old, "Fuse")
  <2>1. Marshalled(old, k) = v /\ Promised(k) = Call("destroy", <<>>, Null)
    BY <1>2, Zenon DEF Marshalled, Promised
  <2>2. DOMAIN v = CmdFields /\ v.op = "DESTROY" /\ v.userdata = "Fuse"
    BY DEF DestroyOp, CmdFields
  <2> HIDE DEF v
  <2>3. Dispatched(v) = RemoteDestroy("Fuse")
    BY <2>2, Switch, Zenon
  <2>4. QED
    BY <2>1, <2>2, <2>3 DEF RemoteDestroy
<1>3. QED
  BY <1>1, <1>2, RoundTripReplied DEF SoundRequest

-----------------------------------------------------------------------------
(* The buffers of a command.                                               *)

\* A handler fills fields of the struct and adds none, whatever the operation.
LEMMA MarshalledDomain ==
    ASSUME NEW old, DOMAIN old = CmdFields, NEW k
    PROVE  DOMAIN Marshalled(old, k) = CmdFields
BY DEF Marshalled, CmdFields, InitOp, DestroyOp, Lookup, Forget, MultiForget, GetAttr,
       SetAttr, ReadLink, MkNod, MkDir, Unlink, RmDir, SymLink, Rename, Link, Open, Read,
       Write, Flush, Release, FSync, OpenDir, ReadDir, ReleaseDir, FSyncDir, StatFs,
       Access, Create

\* The buffers that are gone from the heap once DispatchOp is done with a command.
Released(v) == Freed(v) \cup HandedOver(v)

\* What a request's handler allocates and DispatchOp gives back: all of it, but
\* for the name of a create.
Returned(k) == IF k.op = "create" THEN {} ELSE Allocated(k)

\* The commands that carry a buffer, by the code that DispatchOp switches on.
LEMMA BufferCommands ==
    ASSUME NEW old, DOMAIN old = CmdFields, NEW k
    PROVE
    LET v == Marshalled(old, k) IN
    /\ k.op = "lookup" => v.op = "LOOKUP" /\ v.name = Arg(k, "name")
    /\ k.op = "mknod" => v.op = "MKNOD" /\ v.name = Arg(k, "name")
    /\ k.op = "mkdir" => v.op = "MKDIR" /\ v.name = Arg(k, "name")
    /\ k.op = "unlink" => v.op = "UNLINK" /\ v.name = Arg(k, "name")
    /\ k.op = "rmdir" => v.op = "RMDIR" /\ v.name = Arg(k, "name")
    /\ k.op = "create" => v.op = "CREATE"
    /\ k.op = "symlink" => /\ v.op = "SYMLINK" /\ v.name = Arg(k, "link")
                           /\ v.newname = Arg(k, "name")
    /\ k.op = "rename" => /\ v.op = "RENAME" /\ v.name = Arg(k, "name")
                          /\ v.newname = Arg(k, "newName")
    /\ k.op = "link" => v.op = "LINK" /\ v.name = Arg(k, "newName")
    /\ k.op = "write" => v.op = "WRITE" /\ v.name = Arg(k, "data")
    /\ k.op = "multiforget" => v.op = "MULTI_FORGET" /\ v.userdata = Arg(k, "forget_data")
<1> DEFINE v == Marshalled(old, k)
           a(arg) == Arg(k, arg)
<1>1. ASSUME k.op = "lookup" PROVE v.op = "LOOKUP" /\ v.name = a("name")
  <2>1. v = Lookup(old, k.n, a("parent"), a("name"))
    BY <1>1, Zenon DEF Marshalled
  <2>2. QED
    BY <2>1 DEF Lookup, CmdFields
<1>2. ASSUME k.op = "mknod" PROVE v.op = "MKNOD" /\ v.name = a("name")
  <2>1. v = MkNod(old, k.n, a("parent"), a("name"), a("mode"), a("rdev"))
    BY <1>2, Zenon DEF Marshalled
  <2>2. QED
    BY <2>1 DEF MkNod, CmdFields
<1>3. ASSUME k.op = "mkdir" PROVE v.op = "MKDIR" /\ v.name = a("name")
  <2>1. v = MkDir(old, k.n, a("parent"), a("name"), a("mode"))
    BY <1>3, Zenon DEF Marshalled
  <2>2. QED
    BY <2>1 DEF MkDir, CmdFields
<1>4. ASSUME k.op = "unlink" PROVE v.op = "UNLINK" /\ v.name = a("name")
  <2>1. v = Unlink(old, k.n, a("parent"), a("name"))
    BY <1>4, Zenon DEF Marshalled
  <2>2. QED
    BY <2>1 DEF Unlink, CmdFields
<1>5. ASSUME k.op = "rmdir" PROVE v.op = "RMDIR" /\ v.name = a("name")
  <2>1. v = RmDir(old, k.n, a("parent"), a("name"))
    BY <1>5, Zenon DEF Marshalled
  <2>2. QED
    BY <2>1 DEF RmDir, CmdFields
<1>6. ASSUME k.op = "create" PROVE v.op = "CREATE"
  <2>1. v = Create(old, k.n, a("parent"), a("name"), a("mode"), FiArg(k))
    BY <1>6, Zenon DEF Marshalled
  <2>2. QED
    BY <2>1 DEF Create, CmdFields
<1>7. ASSUME k.op = "symlink"
      PROVE  v.op = "SYMLINK" /\ v.name = a("link") /\ v.newname = a("name")
  <2>1. v = SymLink(old, k.n, a("link"), a("parent"), a("name"))
    BY <1>7, Zenon DEF Marshalled
  <2>2. QED
    BY <2>1 DEF SymLink, CmdFields
<1>8. ASSUME k.op = "rename"
      PROVE  v.op = "RENAME" /\ v.name = a("name") /\ v.newname = a("newName")
  <2>1. v = Rename(old, k.n, a("parent"), a("name"), a("newParent"), a("newName"))
    BY <1>8, Zenon DEF Marshalled
  <2>2. QED
    BY <2>1 DEF Rename, CmdFields
<1>9. ASSUME k.op = "link" PROVE v.op = "LINK" /\ v.name = a("newName")
  <2>1. v = Link(old, k.n, a("inode"), a("newParent"), a("newName"))
    BY <1>9, Zenon DEF Marshalled
  <2>2. QED
    BY <2>1 DEF Link, CmdFields
<1>10. ASSUME k.op = "write" PROVE v.op = "WRITE" /\ v.name = a("data")
  <2>1. v = Write(old, k.n, a("inode"), a("data"), a("len"), a("offset"), FiArg(k))
    BY <1>10, Zenon DEF Marshalled
  <2>2. QED
    BY <2>1 DEF Write, CmdFields
<1>11. ASSUME k.op = "multiforget"
       PROVE  v.op = "MULTI_FORGET" /\ v.userdata = a("forget_data")
  <2>1. v = MultiForget(old, k.n, a("count"), a("forget_data"))
    BY <1>11, Zenon DEF Marshalled
  <2>2. QED
    BY <2>1 DEF MultiForget, CmdFields
<1>12. QED
  BY <1>1, <1>2, <1>3, <1>4, <1>5, <1>6, <1>7, <1>8, <1>9, <1>10, <1>11, Zenon

\* The operations whose handlers allocate nothing.
BufferlessOperations ==
    {"init", "destroy", "forget", "getattr", "setattr", "readlink", "open", "read", "flush",
     "release", "fsync", "opendir", "readdir", "releasedir", "fsyncdir", "statfs", "access"}

\* Their commands free nothing either.
LEMMA BufferlessCommands ==
    ASSUME NEW old, DOMAIN old = CmdFields, NEW k, k.op \in BufferlessOperations
    PROVE  Released(Marshalled(old, k)) = {}
<1> DEFINE v == Marshalled(old, k)
           a(arg) == Arg(k, arg)
           Tags == {"INIT", "DESTROY", "FORGET", "GETATTR", "SETATTR", "READLINK", "OPEN",
                    "READ", "FLUSH", "RELEASE", "FSYNC", "OPENDIR", "READDIR",
                    "RELEASEDIR", "FSYNCDIR", "STATFS", "ACCESS"}
<1>1. /\ k.op = "init" => v = InitOp(old, "Fuse", a("conn"))
      /\ k.op = "destroy" => v = DestroyOp(old, "Fuse")
      /\ k.op = "forget" => v = Forget(old, k.n, a("inode"), a("nlookup"))
      /\ k.op = "getattr" => v = GetAttr(old, k.n, a("inode"), FiArg(k))
      /\ k.op = "setattr" =>
             v = SetAttr(old, k.n, a("inode"), a("attr"), a("to_set"), FiArg(k))
      /\ k.op = "readlink" => v = ReadLink(old, k.n, a("inode"))
      /\ k.op = "open" => v = Open(old, k.n, a("inode"), FiArg(k))
      /\ k.op = "read" => v = Read(old, k.n, a("inode"), a("len"), a("offset"), FiArg(k))
      /\ k.op = "flush" => v = Flush(old, k.n, a("inode"), FiArg(k))
      /\ k.op = "release" => v = Release(old, k.n, a("inode"), FiArg(k))
      /\ k.op = "fsync" => v = FSync(old, k.n, a("inode"), a("datasync"), FiArg(k))
  BY Zenon DEF Marshalled
<1>2. /\ k.op = "opendir" => v = OpenDir(old, k.n, a("inode"), FiArg(k))
      /\ k.op = "readdir" =>
             v = ReadDir(old, k.n, a("inode"), a("len"), a("offset"), FiArg(k))
      /\ k.op = "releasedir" => v = ReleaseDir(old, k.n, a("inode"), FiArg(k))
      /\ k.op = "fsyncdir" => v = FSyncDir(old, k.n, a("inode"), a("datasync"), FiArg(k))
      /\ k.op = "statfs" => v = StatFs(old, k.n, a("inode"))
      /\ k.op = "access" => v = Access(old, k.n, a("inode"), a("mask"))
  BY Zenon DEF Marshalled
<1> HIDE DEF v
<1>3. k.op \in {"init", "destroy", "forget", "getattr", "setattr", "readlink"}
        => v.op \in Tags
  BY <1>1 DEF InitOp, DestroyOp, Forget, GetAttr, SetAttr, ReadLink, CmdFields
<1>4. k.op \in {"open", "read", "flush", "release", "fsync"} => v.op \in Tags
  BY <1>1 DEF Open, Read, Flush, Release, FSync, CmdFields
<1>5. k.op \in {"opendir", "readdir", "releasedir", "fsyncdir", "statfs", "access"}
        => v.op \in Tags
  BY <1>2 DEF OpenDir, ReadDir, ReleaseDir, FSyncDir, StatFs, Access, CmdFields
<1>6. v.op \in Tags
  BY <1>3, <1>4, <1>5 DEF BufferlessOperations
<1>7. Freed(v) = {} /\ HandedOver(v) = {}
  BY <1>6 DEF Freed, HandedOver
<1>8. QED
  BY <1>7 DEF Released, v

\* Each handler of filesystem.cc and its case in DispatchOp agree on the buffers
\* (lines 134-268): what the one allocates the other gives back, whatever stale
\* pointers the other fields of the struct hold, but for the name of a create.
THEOREM BuffersReturned ==
    ASSUME NEW old, DOMAIN old = CmdFields,
           NEW k, k.op \in RepliedOperations \cup {"init", "destroy"}
    PROVE  Released(Marshalled(old, k)) = Returned(k)
<1> DEFINE v == Marshalled(old, k)
<1>1. CASE k.op \in BufferlessOperations
  BY <1>1, BufferlessCommands DEF Returned, Allocated, BufferlessOperations
<1>2. CASE k.op \in {"lookup", "mknod", "mkdir", "unlink", "rmdir"}
  <2>1. /\ v.op \in {"LOOKUP", "MKNOD", "MKDIR", "UNLINK", "RMDIR"}
        /\ v.name = Arg(k, "name")
    BY <1>2, BufferCommands
  <2> HIDE DEF v
  <2>2. Freed(v) = {v.name} /\ HandedOver(v) = {}
    BY <2>1 DEF Freed, HandedOver
  <2>3. Returned(k) = {Arg(k, "name")}
    BY <1>2 DEF Returned, Allocated
  <2>4. QED
    BY <2>1, <2>2, <2>3 DEF Released, v
<1>3. CASE k.op \in {"symlink", "rename"}
  <2>1. /\ v.op \in {"SYMLINK", "RENAME"}
        /\ Returned(k) = {v.name, v.newname}
    BY <1>3, BufferCommands DEF Returned, Allocated
  <2> HIDE DEF v
  <2>2. Freed(v) = {v.name, v.newname} /\ HandedOver(v) = {}
    BY <2>1 DEF Freed, HandedOver
  <2>3. QED
    BY <2>1, <2>2 DEF Released, v
<1>4. CASE k.op \in {"link", "multiforget", "write"}
  <2>1. \/ v.op = "LINK" /\ Returned(k) = {v.name}
        \/ v.op = "MULTI_FORGET" /\ Returned(k) = {v.userdata}
        \/ v.op = "WRITE" /\ Returned(k) = {v.name}
    BY <1>4, BufferCommands DEF Returned, Allocated
  <2> HIDE DEF v
  <2>2. Freed(v) \cup HandedOver(v) = Returned(k)
    BY <2>1 DEF Freed, HandedOver
  <2>3. QED
    BY <2>2 DEF Released, v
<1>5. CASE k.op = "create"
  <2>1. v.op = "CREATE" /\ Returned(k) = {}
    BY <1>5, BufferCommands DEF Returned
  <2> HIDE DEF v
  <2>2. Freed(v) = {} /\ HandedOver(v) = {}
    BY <2>1 DEF Freed, HandedOver
  <2>3. QED
    BY <2>1, <2>2 DEF Released, v
<1>6. QED
  BY <1>1, <1>2, <1>3, <1>4, <1>5
  DEF RepliedOperations, EntryParameters, LinkParameters, FileParameters,
      ExampleParameters, LibfuseParameters, BufferlessOperations

-----------------------------------------------------------------------------
(* The bridge: the wake-up and the calls.                                  *)

\* The requests the theorems about calls are for: those that the code delivers
\* faithfully.
SoundTraffic ==
    /\ Operations \subseteq SoundOperations
    /\ WideOps \cap {"forget", "readdir"} = {}

IsSeq(s) == \E S : s \in Seq(S)

-----------------------------------------------------------------------------
(* Sequences of anything.                                                  *)

\* The empty sequence.
LEMMA EmptySeq == IsSeq(<<>>) /\ Len(<<>>) = 0
<1>1. <<>> \in Seq({})
  OBVIOUS
<1>2. QED
  BY <1>1 DEF IsSeq

\* A length is a number.
LEMMA SeqLen == ASSUME NEW s, IsSeq(s) PROVE Len(s) \in Nat
BY DEF IsSeq

\* Append adds one element at the end and keeps the others.
LEMMA SeqAppend ==
    ASSUME NEW s, IsSeq(s), NEW x
    PROVE  /\ IsSeq(Append(s, x))
           /\ Len(Append(s, x)) = Len(s) + 1
           /\ \A i \in 1..Len(s) : Append(s, x)[i] = s[i]
           /\ Append(s, x)[Len(s) + 1] = x
<1>1. PICK S : s \in Seq(S)
  BY DEF IsSeq
<1>2. s \in Seq(S \cup {x})
  BY <1>1
<1>3. Append(s, x) \in Seq(S \cup {x})
  BY <1>2
<1>4. QED
  BY <1>2, <1>3 DEF IsSeq

\* Tail drops the first element and moves the others up.
LEMMA SeqTail ==
    ASSUME NEW s, IsSeq(s), Len(s) > 0
    PROVE  /\ IsSeq(Tail(s))
           /\ Len(Tail(s)) = Len(s) - 1
           /\ Head(s) = s[1]
           /\ \A i \in 1..(Len(s) - 1) : Tail(s)[i] = s[i + 1]
<1>1. PICK S : s \in Seq(S)
  BY DEF IsSeq
<1>2. s # <<>>
  OBVIOUS
<1>3. Tail(s) \in Seq(S)
  BY <1>1, <1>2
<1>4. QED
  BY <1>1, <1>2, <1>3 DEF IsSeq

-----------------------------------------------------------------------------
(* The flow of commands and wake-ups.                                      *)

\* Each thread's view of the ring is late in one direction only.
Views ==
    /\ IsSeq(ring)
    /\ occupied \in Nat /\ Len(ring) <= occupied /\ occupied <= Capacity
    /\ sees \in 0..Len(ring)
    /\ wakeSees \in 0..Len(ring)

\* The JavaScript thread in its event loop has nothing in view.
IdleSeesNothing == jPc = "loop" => sees = 0

FlowInv == Views /\ IdleSeesNothing /\ NoLostWakeup

\* A session begins with an empty ring and no wake-up pending.
LEMMA FlowInit == Init => FlowInv
BY BridgeAssumption, EmptySeq
   DEF Init, FlowInv, Views, IdleSeesNothing, NoLostWakeup, Ring!Init

\* No step disturbs the flow.
LEMMA FlowNext == ASSUME FlowInv, [Next]_vars PROVE FlowInv'
<1>0. Capacity \in Nat
  BY BridgeAssumption
<1>1. SUFFICES ASSUME Next PROVE FlowInv'
  BY DEF vars, fuseVars, wakeVars, jsVars, FlowInv, Views, IdleSeesNothing, NoLostWakeup, Exited
<1> USE DEF FlowInv, Views, IdleSeesNothing, NoLostWakeup, Exited, fuseVars, wakeVars, jsVars
<1>2. ASSUME NEW k, fPc = "loop", Handle(k) PROVE FlowInv'
  BY <1>2 DEF Handle
<1>3. CASE Receive
  BY <1>2, <1>3 DEF Receive
<1>4. CASE LeaveLoop
  BY <1>2, <1>4 DEF LeaveLoop
<1>5. CASE Produce
  <2>1. PICK c \in Len(ring)..occupied :
           \/ /\ c < Capacity
              /\ ring' = Append(ring, value) /\ occupied' = c + 1 /\ fPc' = "signal"
           \/ /\ c >= Capacity
              /\ UNCHANGED ring /\ occupied' = c /\ fPc' = "retry"
    BY <1>5 DEF Produce, Ring!Put, Ring!PutFails
  <2>2. Len(ring) \in Nat
    BY SeqLen
  <2>3. UNCHANGED <<wakeVars, jsVars>> /\ fPc = "produce"
    BY <1>5 DEF Produce, Ring!Put, Ring!PutFails
  <2>4. CASE c < Capacity
    <3>0. ring' = Append(ring, value) /\ occupied' = c + 1 /\ fPc' = "signal"
      BY <1>0, <2>1, <2>2, <2>4
    <3>1. IsSeq(ring') /\ Len(ring') = Len(ring) + 1
      BY <3>0, SeqAppend
    <3>2. QED
      BY <1>0, <2>1, <2>2, <2>3, <2>4, <3>0, <3>1
  <2>5. CASE ~(c < Capacity)
    BY <1>0, <2>1, <2>2, <2>3, <2>5
  <2>6. QED
    BY <2>4, <2>5
<1>6. CASE SignalFull \/ SignalQueued
  BY <1>6, SeqLen DEF SignalFull, SignalQueued, Send
<1>7. CASE CloseHandle
  BY <1>7, SeqLen DEF CloseHandle
<1>8. CASE WakeUp
  BY <1>8, SeqLen DEF WakeUp
<1>9. CASE Consume
  <2>1. PICK c \in sees..Len(ring) :
          IF c = 0
          THEN jPc' = "loop" /\ sees' = 0 /\ UNCHANGED <<ring, op, wakeSees>>
          ELSE /\ op' = Head(ring) /\ ring' = Tail(ring)
               /\ sees' = c - 1
               /\ wakeSees' = IF wakeSees = 0 THEN 0 ELSE wakeSees - 1
               /\ jPc' = "dispatch"
    BY <1>9 DEF Consume, Ring!Take, Ring!TakeFails
  <2>2. Len(ring) \in Nat
    BY SeqLen
  <2>3. UNCHANGED <<fuseVars, wake, closed>> /\ jPc = "consume"
    BY <1>9 DEF Consume, Ring!Take, Ring!TakeFails
  <2>4. CASE c = 0
    BY <2>1, <2>2, <2>3, <2>4
  <2>5. CASE c # 0
    <3>1. Len(ring) > 0
      BY <2>1, <2>2, <2>5
    <3>2. ring' = Tail(ring)
      BY <2>1, <2>5
    <3>3. IsSeq(ring') /\ Len(ring') = Len(ring) - 1
      BY <3>1, <3>2, SeqTail
    <3>4. QED
      BY <2>1, <2>2, <2>3, <2>5, <3>3
  <2>6. QED
    BY <2>4, <2>5
<1>10. CASE DispatchOp \/ HandlerReturns \/ HandlerThrows
  BY <1>10 DEF DispatchOp, HandlerReturns, HandlerThrows
<1>11. QED
  BY <1>1, <1>3, <1>4, <1>5, <1>6, <1>7, <1>8, <1>9, <1>10 DEF Next, FuseThread, JsThread

\* No wake-up is lost: uv_async_send after every produce, however the sends
\* coalesce, announces all that DispatchOp might miss (filesystem.cc:104-131).
THEOREM WakeupsKept == Spec => []NoLostWakeup
<1>1. FlowInv => NoLostWakeup
  BY DEF FlowInv
<1>2. QED
  BY <1>1, FlowInit, FlowNext, PTL DEF Spec

\* A step of the bridge either leaves the ring alone or is a step of LateQueue.
LEMMA RingSteps ==
    ASSUME FlowInv, [Next]_vars
    PROVE  \/ Ring!Put(value) \/ Ring!Take
           \/ Ring!ProducerLooks \/ Ring!ConsumerLooks
           \/ UNCHANGED <<ring, occupied, sees>>
<1>0. Capacity \in Nat /\ Len(ring) \in Nat
  BY BridgeAssumption, SeqLen DEF FlowInv, Views
<1>1. CASE Produce
  <2>1. CASE Ring!Put(value)
    BY <2>1
  <2>2. CASE Ring!PutFails
    <3>1. occupied' \in Len(ring)..occupied /\ UNCHANGED <<ring, sees>>
      BY <2>2 DEF Ring!PutFails
    <3>2. QED
      BY <3>1 DEF Ring!ProducerLooks
  <2>3. QED
    BY <1>1, <2>1, <2>2 DEF Produce
<1>2. CASE Consume
  <2>1. CASE Ring!TakeFails
    BY <2>1 DEF Ring!TakeFails
  <2>2. QED
    BY <1>2, <2>1 DEF Consume
<1>3. CASE WakeUp
  <2>1. sees = 0 /\ sees' = wakeSees /\ wakeSees \in 0..Len(ring)
    BY <1>3 DEF WakeUp, FlowInv, Views, IdleSeesNothing
  <2>2. UNCHANGED <<ring, occupied>>
    BY <1>3 DEF WakeUp, fuseVars
  <2>3. Ring!ConsumerLooks
    BY <2>1, <2>2 DEF Ring!ConsumerLooks
  <2>4. QED
    BY <2>3
<1>4. ASSUME NEW k, Handle(k) PROVE UNCHANGED <<ring, occupied, sees>>
  BY <1>4 DEF Handle, jsVars
<1>5. CASE Receive \/ LeaveLoop
  BY <1>4, <1>5 DEF Receive, LeaveLoop, jsVars
<1>6. CASE SignalFull \/ SignalQueued \/ CloseHandle
  BY <1>6 DEF SignalFull, SignalQueued, CloseHandle, jsVars
<1>7. CASE DispatchOp \/ HandlerReturns \/ HandlerThrows
  BY <1>7 DEF DispatchOp, HandlerReturns, HandlerThrows, fuseVars
<1>8. CASE UNCHANGED vars
  BY <1>8 DEF vars, fuseVars, jsVars
<1>9. QED
  BY <1>1, <1>2, <1>3, <1>5, <1>6, <1>7, <1>8 DEF Next, FuseThread, JsThread

\* The bridge uses the ring as the queue that SpscQueue implements, and in no other
\* way: between two wake-ups DispatchOp sees nothing of it, so that no wake-up takes
\* away what has been shown (filesystem.cc:104-136).
THEOREM RingUsed == Spec => UsesTheRing
BY FlowInit, FlowNext, RingSteps, PTL DEF Spec, UsesTheRing

-----------------------------------------------------------------------------
(* The calls.                                                              *)

\* The command in DispatchOp, and the one in a handler's produce loop.
InDispatch == IF jPc = "dispatch" THEN 1 ELSE 0
InHand == IF fPc \in {"produce", "retry"} THEN 1 ELSE 0

\* No command is lost and none is doubled: every request is called, in dispatch,
\* in the ring or in hand.
Accounted ==
    /\ IsSeq(requests) /\ IsSeq(calls) /\ DOMAIN value = CmdFields
    /\ Exited => fPc = "exited"
    /\ Len(calls) + InDispatch + Len(ring) <= Len(requests)
    /\ ~Exited => Len(requests) = Len(calls) + InDispatch + Len(ring) + InHand

\* A request as it may be the i-th: libfuse's own, or one that the kernel makes.
Asked(k, i) ==
    IF i = 1 THEN k = Service!InitRequest
             ELSE k \in Service!Requests(i) \cup {Service!DestroyRequest(i)}

\* A command that the handler of request k may have filled.
Carries(v, k) == \E old : DOMAIN old = CmdFields /\ v = Marshalled(old, k)

\* Wherever a command is, it carries the request whose turn it has.
Carried ==
    /\ \A i \in 1..Len(requests) : Asked(requests[i], i)
    /\ jPc = "dispatch" => Carries(op, requests[Len(calls) + 1])
    /\ jPc = "handler" => Len(calls) > 0 /\ Carries(op, requests[Len(calls)])
    /\ \A j \in 1..Len(ring) :
          Carries(ring[j], requests[Len(calls) + InDispatch + j])
    /\ InHand = 1 => Carries(value, requests[Len(requests)])

DeliveryInv == FlowInv /\ Accounted /\ Carried

\* The lengths are numbers.
LEMMA Lengths ==
    ASSUME DeliveryInv
    PROVE  /\ Len(requests) \in Nat /\ Len(calls) \in Nat /\ Len(ring) \in Nat
           /\ IsSeq(requests) /\ IsSeq(calls) /\ IsSeq(ring)
           /\ Len(ring) <= Capacity
<1>1. Capacity \in Nat
  BY BridgeAssumption
<1>2. QED
  BY <1>1, SeqLen DEF DeliveryInv, FlowInv, Views, Accounted

\* The requests that the kernel makes, and libfuse's own, are sound.
LEMMA TrafficSound ==
    ASSUME SoundTraffic, NEW n, NEW k, Asked(k, n)
    PROVE  SoundRequest(k)
<1>1. SoundRequest(Service!InitRequest) /\ SoundRequest(Service!DestroyRequest(n))
  BY DEF SoundRequest, Service!InitRequest, Service!DestroyRequest
<1>2. CASE k \in Service!Requests(n)
  BY <1>2 DEF SoundTraffic, SoundRequest, Service!Requests
<1>3. QED
  BY <1>1, <1>2 DEF Asked

\* A command keeps the fields of the struct.
LEMMA CarriedDomain ==
    ASSUME NEW v, NEW k, Carries(v, k) PROVE DOMAIN v = CmdFields
BY MarshalledDomain DEF Carries

\* Nothing has been asked and nothing called when the session begins.
LEMMA DeliveryInit == Init => DeliveryInv
<1> SUFFICES ASSUME Init PROVE DeliveryInv
  OBVIOUS
<1>2. FlowInv
  BY FlowInit
<1>3. DOMAIN value = CmdFields
  BY DEF Init, Uninitialised, Ring!Init
<1>4. Accounted
  BY <1>3, EmptySeq DEF Init, Accounted, Exited, InDispatch, InHand, Ring!Init
<1>5. Carried
  BY EmptySeq DEF Init, Carried, InHand, Ring!Init
<1>6. QED
  BY <1>2, <1>4, <1>5 DEF DeliveryInv

\* A handler puts the command that carries its request in hand.
LEMMA DeliveryHandle ==
    ASSUME DeliveryInv, NEW k, Asked(k, Len(requests) + 1), fPc = "loop", Handle(k)
    PROVE  Accounted' /\ Carried'
<1>0. /\ requests' = Append(requests, k) /\ fPc' = "produce"
      /\ UNCHANGED <<calls, ring, jPc, op>>
  BY DEF Handle, wakeVars, jsVars
<1>1. PICK old \in {value, Uninitialised} : value' = Marshalled(old, k)
  BY DEF Handle
<1>2. DOMAIN old = CmdFields
  BY DEF DeliveryInv, Accounted, Uninitialised
<1>3. Carries(value', k) /\ DOMAIN value' = CmdFields
  BY <1>1, <1>2, MarshalledDomain DEF Carries
<1>4. /\ IsSeq(requests') /\ Len(requests') = Len(requests) + 1
      /\ requests'[Len(requests) + 1] = k
      /\ \A i \in 1..Len(requests) : requests'[i] = requests[i]
  BY <1>0, Lengths, SeqAppend
<1>5. /\ ~Exited /\ ~Exited'
      /\ Len(requests) = Len(calls) + InDispatch + Len(ring)
      /\ InDispatch \in {0, 1} /\ InDispatch' = InDispatch /\ InHand' = 1
      /\ jPc = "dispatch" => InDispatch = 1
  BY <1>0 , Lengths DEF DeliveryInv, Accounted, InHand, InDispatch, Exited
<1>6. Accounted'
  BY <1>0, <1>3, <1>4, <1>5, Lengths DEF DeliveryInv, Accounted
<1>7. Carried'
  <2>1. \A i \in 1..Len(requests') : Asked(requests'[i], i)
    BY <1>4, Lengths DEF DeliveryInv, Carried
  <2>2. jPc = "dispatch" => requests'[Len(calls) + 1] = requests[Len(calls) + 1]
    BY <1>4, <1>5, Lengths
  <2>3. \A j \in 1..Len(ring) :
           requests'[Len(calls) + InDispatch + j] = requests[Len(calls) + InDispatch + j]
    BY <1>4, <1>5, Lengths
  <2>4. Len(calls) > 0 => requests'[Len(calls)] = requests[Len(calls)]
    BY <1>4, <1>5, Lengths
  <2>5. Carries(value', requests'[Len(requests')])
    BY <1>3, <1>4
  <2>6. QED
    BY <1>0, <1>5, <2>1, <2>2, <2>3, <2>4, <2>5 DEF DeliveryInv, Carried
<1>8. QED
  BY <1>6, <1>7

\* produce() moves the command in hand to the end of the ring, or keeps it.
LEMMA DeliveryProduce ==
    ASSUME DeliveryInv, Produce
    PROVE  Accounted' /\ Carried'
<1>0. /\ UNCHANGED <<requests, calls, value, jPc, op>> /\ fPc = "produce"
      /\ InDispatch' = InDispatch /\ InDispatch \in {0, 1} /\ InHand = 1
      /\ Exited' = Exited /\ ~Exited
  BY DEF Produce, wakeVars, jsVars, InDispatch, InHand, Exited, DeliveryInv, Accounted,
         Ring!Put, Ring!PutFails
<1>1. CASE fPc' = "retry" /\ UNCHANGED ring
  BY <1>0, <1>1 DEF DeliveryInv, Accounted, Carried, InHand
<1>2. CASE fPc' = "signal" /\ ring' = Append(ring, value)
  <2>1. /\ Len(ring') = Len(ring) + 1
        /\ ring'[Len(ring) + 1] = value
        /\ \A j \in 1..Len(ring) : ring'[j] = ring[j]
    BY <1>2, Lengths, SeqAppend
  <2>2. /\ Len(requests) = Len(calls) + InDispatch + Len(ring) + 1
        /\ InHand' = 0
    BY <1>0, <1>2 DEF DeliveryInv, Accounted, InHand
  <2>3. Accounted'
    BY <1>0, <1>2, <2>1, <2>2, Lengths DEF DeliveryInv, Accounted
  <2>4. ASSUME NEW j \in 1..Len(ring')
        PROVE  Carries(ring'[j], requests[Len(calls) + InDispatch + j])
    <3>1. CASE j \in 1..Len(ring)
      BY <2>1, <3>1 DEF DeliveryInv, Carried
    <3>2. CASE j = Len(ring) + 1
      <4>1. Len(calls) + InDispatch + j = Len(requests)
        BY <1>0, <2>2, <3>2, Lengths
      <4>2. QED
        BY <1>0, <2>1, <3>2, <4>1 DEF DeliveryInv, Carried
    <3>3. QED
      BY <2>1, <3>1, <3>2, Lengths
  <2>5. QED
    BY <1>0, <2>2, <2>3, <2>4 DEF DeliveryInv, Carried
<1>3. QED
  BY <1>1, <1>2 DEF Produce, Ring!Put, Ring!PutFails

\* consume() moves the first command of the ring to DispatchOp.
LEMMA DeliveryConsume ==
    ASSUME DeliveryInv, Consume
    PROVE  Accounted' /\ Carried'
<1>0. /\ UNCHANGED <<requests, calls, value, fPc>> /\ jPc = "consume"
      /\ InDispatch = 0 /\ InHand' = InHand /\ ~Exited
  BY DEF Consume, fuseVars, InDispatch, InHand, Exited, DeliveryInv, Accounted,
         Ring!Take, Ring!TakeFails
<1>1. PICK c \in sees..Len(ring) :
          IF c = 0
          THEN jPc' = "loop" /\ sees' = 0 /\ UNCHANGED <<ring, op, wakeSees>>
          ELSE /\ op' = Head(ring) /\ ring' = Tail(ring)
               /\ sees' = c - 1
               /\ wakeSees' = IF wakeSees = 0 THEN 0 ELSE wakeSees - 1
               /\ jPc' = "dispatch"
  BY DEF Consume, Ring!Take, Ring!TakeFails
<1>2. CASE c = 0
  BY <1>0, <1>1, <1>2 DEF DeliveryInv, Accounted, Carried, InDispatch, Exited
<1>3. CASE c # 0
  <2>1. Len(ring) > 0
    BY <1>1, <1>3, Lengths DEF DeliveryInv, FlowInv, Views
  <2>2. op' = Head(ring) /\ ring' = Tail(ring) /\ jPc' = "dispatch"
    BY <1>1, <1>3
  <2>3. /\ Len(ring') = Len(ring) - 1 /\ op' = ring[1]
        /\ \A j \in 1..(Len(ring) - 1) : ring'[j] = ring[j + 1]
    BY <2>1, <2>2, Lengths, SeqTail
  <2>4. InDispatch' = 1 /\ ~Exited'
    BY <2>2 DEF InDispatch, Exited
  <2>5. Accounted'
    BY <1>0, <2>3, <2>4, Lengths DEF DeliveryInv, Accounted
  <2>6. Carries(op', requests[Len(calls) + 1])
    <3>1. 1 \in 1..Len(ring) /\ Len(calls) + InDispatch + 1 = Len(calls) + 1
      BY <1>0, <2>1, Lengths
    <3>2. Carries(ring[1], requests[Len(calls) + InDispatch + 1])
      BY <3>1 DEF DeliveryInv, Carried
    <3>3. QED
      BY <2>3, <3>1, <3>2 DEF Carries
  <2>7. ASSUME NEW j \in 1..Len(ring')
        PROVE  Carries(ring'[j], requests[Len(calls) + 1 + j])
    <3>1. j + 1 \in 1..Len(ring) /\ ring'[j] = ring[j + 1]
      BY <2>1, <2>3, Lengths
    <3>2. Len(calls) + InDispatch + (j + 1) = Len(calls) + 1 + j
      BY <1>0, <3>1, Lengths
    <3>3. Carries(ring[j + 1], requests[Len(calls) + InDispatch + (j + 1)])
      BY <3>1 DEF DeliveryInv, Carried
    <3>4. QED
      BY <3>1, <3>2, <3>3 DEF Carries
  <2>8. /\ \A i \in 1..Len(requests) : Asked(requests[i], i)
        /\ InHand' = 1 => Carries(value, requests[Len(requests)])
    BY <1>0 DEF DeliveryInv, Carried
  <2>9. QED
    BY <1>0, <2>2, <2>4, <2>5, <2>6, <2>7, <2>8 DEF Carried
<1>4. QED
  BY <1>2, <1>3

\* The switch calls for the first request not called yet.
LEMMA DeliveryDispatch ==
    ASSUME DeliveryInv, DispatchOp
    PROVE  /\ Len(calls) < Len(requests)
           /\ calls' = Append(calls, Dispatched(op))
           /\ Carries(op, requests[Len(calls) + 1])
           /\ UNCHANGED requests
           /\ Accounted' /\ Carried'
<1>0. /\ UNCHANGED <<requests, value, fPc, ring, op>> /\ jPc = "dispatch"
      /\ jPc' = "handler" /\ calls' = Append(calls, Dispatched(op))
      /\ InDispatch = 1 /\ InDispatch' = 0 /\ InHand' = InHand /\ ~Exited /\ ~Exited'
  BY DEF DispatchOp, fuseVars, InDispatch, InHand, Exited, DeliveryInv, Accounted
<1>1. Carries(op, requests[Len(calls) + 1])
  BY <1>0 DEF DeliveryInv, Carried
<1>2. IsSeq(calls') /\ Len(calls') = Len(calls) + 1
  BY <1>0, Lengths, SeqAppend
<1>3. Len(calls) < Len(requests) /\ Accounted'
  BY <1>0, <1>2, Lengths DEF DeliveryInv, Accounted
<1>4. Carried'
  BY <1>0, <1>1, <1>2, Lengths DEF DeliveryInv, Carried
<1>5. QED
  BY <1>0, <1>1, <1>3, <1>4

\* Wherever a step leaves requests, calls and commands, it is harmless.
LEMMA DeliveryElsewhere ==
    ASSUME DeliveryInv, UNCHANGED <<requests, calls, ring, value, op>>,
           \/ UNCHANGED <<fPc, jPc>>
           \/ SignalFull \/ SignalQueued \/ CloseHandle
           \/ WakeUp \/ HandlerReturns \/ HandlerThrows
           \/ fPc = "loop" /\ fPc' = "teardown" /\ UNCHANGED jPc
    PROVE  Accounted' /\ Carried'
<1>1. /\ InDispatch' = InDispatch /\ (jPc' = "dispatch" <=> jPc = "dispatch")
      /\ (~Exited' => ~Exited /\ InHand' = InHand) /\ (InHand' = 1 => InHand = 1)
      /\ (Exited' => fPc' = "exited") /\ (jPc' = "handler" => jPc = "handler")
  BY DEF SignalFull, SignalQueued, CloseHandle, WakeUp, HandlerReturns, HandlerThrows,
         fuseVars, jsVars, InDispatch, InHand, Exited, DeliveryInv, Accounted
<1>2. QED
  BY <1>1 DEF DeliveryInv, Accounted, Carried

\* The requests that a handler begins with are those the model asks for.
LEMMA HandleAsked ==
    ASSUME DeliveryInv, Receive \/ LeaveLoop,
           ~(LeaveLoop /\ requests = <<>>)
    PROVE  \E k : Asked(k, Len(requests) + 1) /\ Handle(k) /\ fPc = "loop"
<1>1. IF requests = <<>> THEN Len(requests) + 1 = 1 ELSE Len(requests) + 1 # 1
  BY EmptySeq DEF DeliveryInv, Accounted, IsSeq
<1>2. QED
  BY <1>1 DEF Receive, LeaveLoop, Asked

\* No step loses, doubles or mixes up a command.
LEMMA DeliveryNext == ASSUME DeliveryInv, [Next]_vars PROVE DeliveryInv'
<1>1. FlowInv'
  BY FlowNext DEF DeliveryInv
<1>2. Accounted' /\ Carried'
  <2>1. CASE (Receive \/ LeaveLoop) /\ ~(LeaveLoop /\ requests = <<>>)
    BY <2>1, HandleAsked, DeliveryHandle
  <2>2. CASE LeaveLoop /\ requests = <<>>
    BY <2>2, DeliveryElsewhere DEF LeaveLoop, jsVars
  <2>3. CASE Produce
    BY <2>3, DeliveryProduce
  <2>4. CASE Consume
    BY <2>4, DeliveryConsume
  <2>5. CASE DispatchOp
    BY <2>5, DeliveryDispatch
  <2>6. CASE SignalFull \/ SignalQueued \/ CloseHandle \/ WakeUp \/ HandlerReturns
             \/ HandlerThrows
    <3>1. UNCHANGED <<requests, calls, ring, value, op>>
      BY <2>6 DEF SignalFull, SignalQueued, CloseHandle, WakeUp, HandlerReturns,
                  HandlerThrows, fuseVars, jsVars
    <3>2. QED
      BY <2>6, <3>1, DeliveryElsewhere
  <2>7. CASE UNCHANGED vars
    BY <2>7, DeliveryElsewhere DEF vars, fuseVars, jsVars
  <2>8. QED
    BY <2>1, <2>2, <2>3, <2>4, <2>5, <2>6, <2>7 DEF Next, FuseThread, JsThread
<1>3. QED
  BY <1>1, <1>2 DEF DeliveryInv

\* The invariant of the delivery holds for all operations there are.
LEMMA DeliveryKept == Spec => []DeliveryInv
<1>1. DeliveryInv /\ [Next]_vars => DeliveryInv'
  BY DeliveryNext
<1>2. QED
  BY <1>1, DeliveryInit, PTL DEF Spec

\* For sound operations the call is the promised one.
LEMMA DispatchPromised ==
    ASSUME SoundTraffic, DeliveryInv, DispatchOp
    PROVE  calls' = Append(calls, Promised(requests[Len(calls) + 1]))
<1> DEFINE k == requests[Len(calls) + 1]
<1>1. Len(calls) + 1 \in 1..Len(requests)
  BY DeliveryDispatch, Lengths
<1>2. SoundRequest(k)
  BY <1>1, TrafficSound DEF DeliveryInv, Carried
<1>3. PICK old : DOMAIN old = CmdFields /\ op = Marshalled(old, k)
  BY DeliveryDispatch DEF Carries
<1>4. Dispatched(op) = Promised(k)
  BY <1>2, <1>3, RoundTrip
<1>5. QED
  BY <1>4, DeliveryDispatch

\* Requests keep their place: they are only ever appended.
LEMMA RequestsStay ==
    ASSUME DeliveryInv, [Next]_vars
    PROVE  /\ \A i \in 1..Len(requests) : requests'[i] = requests[i]
           /\ Len(requests) <= Len(requests')
<1>1. CASE \E k : requests' = Append(requests, k)
  BY <1>1, Lengths, SeqAppend
<1>2. CASE UNCHANGED requests
  BY <1>2, Lengths
<1>3. QED
  BY <1>1, <1>2 DEF Next, FuseThread, JsThread, Receive, LeaveLoop, Handle, Produce,
     SignalFull, SignalQueued, CloseHandle, WakeUp, Consume, DispatchOp, HandlerReturns,
     HandlerThrows, vars, Ring!Put, Ring!PutFails, Ring!Take, Ring!TakeFails

\* The calls are the promised ones: the i-th call is the documented call for the
\* i-th request (filesystem.cc:134-268, 376-2427), through a ring of any size.
THEOREM CallsKept == ASSUME SoundTraffic PROVE Spec => []CallsAsPromised
<1>1. Init => CallsAsPromised
  BY EmptySeq DEF Init, CallsAsPromised, Ring!Init
<1>2. CallsAsPromised /\ DeliveryInv /\ [Next]_vars => CallsAsPromised'
  <2> SUFFICES ASSUME CallsAsPromised, DeliveryInv, [Next]_vars PROVE CallsAsPromised'
    OBVIOUS
  <2>1. CASE DispatchOp
    <3>1. /\ Len(calls') = Len(calls) + 1
          /\ calls'[Len(calls) + 1] = Promised(requests[Len(calls) + 1])
          /\ \A i \in 1..Len(calls) : calls'[i] = calls[i]
      BY <2>1, DispatchPromised, Lengths, SeqAppend
    <3>2. Len(calls) < Len(requests) /\ UNCHANGED requests
      BY <2>1, DeliveryDispatch
    <3>3. QED
      BY <3>1, <3>2, Lengths DEF CallsAsPromised
  <2>2. CASE UNCHANGED calls
    BY <2>2, RequestsStay, DeliveryNext, Lengths DEF CallsAsPromised, DeliveryInv, Accounted
  <2>3. QED
    BY <2>1, <2>2 DEF Next, FuseThread, JsThread, Receive, LeaveLoop, Handle, Produce,
       SignalFull, SignalQueued, CloseHandle, WakeUp, Consume, HandlerReturns,
       HandlerThrows, vars, Ring!Put, Ring!PutFails, Ring!Take, Ring!TakeFails
<1>3. QED
  BY <1>1, <1>2, DeliveryKept, PTL DEF Spec

-----------------------------------------------------------------------------
(* The service.                                                            *)

\* The service promises the same calls.
LEMMA SamePromise == \A k : Service!Promised(k) = Promised(k)
<1>1. /\ \A k, a : Service!Arg(k, a) = Arg(k, a)
      /\ \A n : Service!Context(n) = Context(n)
      /\ \A f, args, r : Service!Call(f, args, r) = Call(f, args, r)
  BY DEF Service!Arg, Arg, Service!Context, Context, Service!Call, Call
<1>2. \A o : Service!Parameters(o) = Parameters(o)
  BY Zenon DEF Service!Parameters, Parameters, Service!EntryParameters, EntryParameters,
       Service!LinkParameters, LinkParameters, Service!FileParameters, FileParameters,
       Service!ExampleParameters, ExampleParameters, Service!LibfuseParameters,
       LibfuseParameters
<1>3. \A k, p : Service!Meant(k, p) = Meant(k, p)
  BY Zenon DEF Service!Meant, Meant, Service!AttrsMeant, AttrsMeant, Service!Indicated,
       Indicated, Service!Now, Now, Service!BufferOver,
       BufferOver, Service!Boxed, Boxed, Service!Arg, Arg
<1>4. QED
  BY <1>1, <1>2, <1>3, Zenon DEF Service!Promised, Promised

\* A handler accepts a request that the kernel may make, within the window.
LEMMA HandleAccepts ==
    ASSUME DeliveryInv, fPc = "loop", NEW k, Handle(k)
    PROVE  Service!Accept(k)
<1>1. Len(requests) = Len(calls) + InDispatch + Len(ring) /\ InDispatch \in {0, 1}
  BY Lengths DEF DeliveryInv, Accounted, Exited, InHand, InDispatch
<1>2. Len(requests) - Len(calls) < Capacity + 2
  BY <1>1, Lengths, BridgeAssumption
<1>3. QED
  BY <1>2 DEF Handle, Service!Accept

\* Every step of the bridge accepts a request, delivers one or changes neither.
LEMMA StepServes ==
    ASSUME SoundTraffic, DeliveryInv, [Next]_vars
    PROVE  [Service!Next]_(Service!serviceVars)
<1>0. requests # <<>> => Len(requests) + 1 > 1 /\ Len(requests) + 1 # 1
  BY DEF DeliveryInv, Accounted, IsSeq
<1>1. CASE Receive
  <2>1. CASE requests = <<>>
    <3>1. Service!Accept(Service!InitRequest)
      BY <1>1, <2>1, HandleAccepts DEF Receive
    <3>2. QED
      BY <2>1, <3>1, EmptySeq DEF Service!Next
  <2>2. CASE requests # <<>>
    <3>1. PICK k \in Service!Requests(Len(requests) + 1) : Handle(k)
      BY <1>1, <2>2 DEF Receive
    <3>2. Service!Accept(k)
      BY <1>1, <3>1, HandleAccepts DEF Receive
    <3>3. QED
      BY <1>0, <2>2, <3>1, <3>2 DEF Service!Next
  <2>3. QED
    BY <2>1, <2>2
<1>2. CASE LeaveLoop
  <2>1. CASE requests = <<>>
    BY <1>2, <2>1 DEF LeaveLoop, Service!serviceVars
  <2>2. CASE requests # <<>>
    <3>1. Service!Accept(Service!DestroyRequest(Len(requests) + 1))
      BY <1>2, <2>2, HandleAccepts DEF LeaveLoop
    <3>2. QED
      BY <1>0, <2>2, <3>1 DEF Service!Next
  <2>3. QED
    BY <2>1, <2>2
<1>3. CASE DispatchOp
  BY <1>3, DeliveryDispatch, DispatchPromised, SamePromise DEF Service!Next, Service!Deliver
<1>4. CASE \/ Produce \/ SignalFull \/ SignalQueued \/ CloseHandle
           \/ WakeUp \/ Consume \/ HandlerReturns \/ HandlerThrows
  BY <1>4 DEF Produce, SignalFull, SignalQueued, CloseHandle, WakeUp, Consume,
              HandlerReturns, HandlerThrows, Service!serviceVars, Ring!Put,
              Ring!PutFails, Ring!Take, Ring!TakeFails
<1>5. CASE UNCHANGED vars
  BY <1>5 DEF vars, Service!serviceVars
<1>6. QED
  BY <1>1, <1>2, <1>3, <1>4, <1>5 DEF Next, FuseThread, JsThread

\* The bridge implements the service: each request is accepted once and delivered
\* once, in order, with at most Capacity + 2 of them under way.
THEOREM BridgeServes == ASSUME SoundTraffic PROVE Spec => ImplementsService
<1>1. Init => Service!Init
  BY DEF Init, Service!Init, Ring!Init
<1>2. DeliveryInv /\ [Next]_vars => [Service!Next]_(Service!serviceVars)
  BY StepServes
<1>3. QED
  BY <1>1, <1>2, DeliveryKept, PTL DEF Spec, ImplementsService, Service!Spec

-----------------------------------------------------------------------------
(* The memory: a buffer lives exactly until its request has been handled,  *)
(* and nothing else is ever freed.                                         *)

\* The kernel asks for operations that fusejs registers.
RegisteredTraffic == Operations \subseteq RepliedOperations

\* The requests whose buffers live.
Holders ==
    {i \in 1..Len(requests) : i \in Unfinished \/ requests[i].op = "create"}

\* BuffersMatchRequests, buffer by buffer.
LEMMA HeapByHolder ==
    BuffersMatchRequests <=>
        \A b : b \in heap <=> \E i \in Holders : b \in Allocated(requests[i])
<1> DEFINE H == UNION {Allocated(requests[i]) : i \in
                          {j \in 1..Len(requests) : j \in Unfinished \/ requests[j].op = "create"}}
<1>1. \A b : b \in H <=> \E i \in Holders : b \in Allocated(requests[i])
  BY DEF Holders
<1>2. BuffersMatchRequests <=> heap = H
  BY DEF BuffersMatchRequests
<1>3. QED
  BY <1>1, <1>2

\* The buffers of a request are named after it.
LEMMA BuffersAreOwn ==
    ASSUME NEW k, NEW b \in Allocated(k) PROVE b[1] = k.n
BY DEF Allocated, Arg

\* A request that was asked for has its own number, and an operation that the
\* code registers.
LEMMA AskedNumber ==
    ASSUME RegisteredTraffic, NEW i, NEW k, Asked(k, i)
    PROVE  k.n = i /\ k.op \in RepliedOperations \cup {"init", "destroy"}
<1>1. CASE i = 1
  BY <1>1 DEF Asked, Service!InitRequest
<1>2. CASE i # 1
  BY <1>2 DEF Asked, RegisteredTraffic, Service!DestroyRequest, Service!Requests
<1>3. QED
  BY <1>1, <1>2

\* The command of a handler that returns gives back the buffers of its request.
LEMMA ReturnsBuffers ==
    ASSUME RegisteredTraffic, DeliveryInv, jPc = "handler"
    PROVE  /\ Len(calls) \in 1..Len(requests)
           /\ Freed(op) \cup HandedOver(op) = Returned(requests[Len(calls)])
<1> DEFINE k == requests[Len(calls)]
<1>1. Len(calls) > 0 /\ Len(calls) <= Len(requests)
  BY Lengths DEF DeliveryInv, Accounted, Carried, InDispatch
<1>2. Len(calls) \in 1..Len(requests)
  BY <1>1, Lengths
<1>3. k.op \in RepliedOperations \cup {"init", "destroy"}
  BY <1>2, AskedNumber DEF DeliveryInv, Carried
<1>4. PICK old : DOMAIN old = CmdFields /\ op = Marshalled(old, k)
  BY DEF DeliveryInv, Carried, Carries
<1>5. Released(op) = Returned(k)
  BY <1>3, <1>4, BuffersReturned
<1>6. QED
  BY <1>2, <1>5 DEF Released

\* Only the end of a call changes who is unfinished; a step that accepts or ends
\* nothing leaves the holders alone.
LEMMA SameHolders ==
    ASSUME DeliveryInv, UNCHANGED <<requests, calls, heap>>,
           jPc' \in {"handler", "exited"} <=> jPc \in {"handler", "exited"},
           BuffersMatchRequests
    PROVE  BuffersMatchRequests'
BY DEF BuffersMatchRequests, Unfinished

\* A handler's copies join the heap as its request joins the unfinished ones.
LEMMA HandleHolds ==
    ASSUME DeliveryInv, BuffersMatchRequests, NEW k, fPc = "loop", Handle(k)
    PROVE  BuffersMatchRequests'
<1> DEFINE n == Len(requests) + 1
<1>1. /\ heap' = heap \cup Allocated(k) /\ UNCHANGED <<calls, jPc>>
      /\ requests' = Append(requests, k)
  BY DEF Handle, jsVars
<1>2. /\ n \in Nat /\ Len(requests') = n /\ requests'[n] = k
      /\ \A i \in 1..Len(requests) : requests'[i] = requests[i]
  BY <1>1, Lengths, SeqAppend
<1>3. Len(calls) < n
  BY Lengths DEF DeliveryInv, Accounted, InDispatch
<1>4. \A i : i \in Holders' <=> i \in Holders \/ i = n
  <2>1. \A i \in 1..Len(requests) : i \in Unfinished' <=> i \in Unfinished
    BY <1>1, <1>2, Lengths DEF Unfinished
  <2>2. n \in Unfinished'
    BY <1>1, <1>2, <1>3, Lengths DEF Unfinished
  <2>3. 1..n = 1..Len(requests) \cup {n} /\ n \notin 1..Len(requests)
    BY Lengths
  <2>4. QED
    BY <1>2, <2>1, <2>2, <2>3 DEF Holders
<1>5. \A b : b \in heap' <=> \E i \in Holders' : b \in Allocated(requests'[i])
  <2>1. \A i \in Holders : requests'[i] = requests[i]
    BY <1>2 DEF Holders
  <2>2. \A b : (\E i \in Holders' : b \in Allocated(requests'[i]))
               <=> (\E i \in Holders : b \in Allocated(requests[i])) \/ b \in Allocated(k)
    BY <1>2, <1>4, <2>1
  <2>3. QED
    BY <1>1, <2>2, HeapByHolder
<1>6. heap' = UNION {Allocated(requests'[i]) : i \in Holders'}
  BY <1>5
<1>7. QED
  BY <1>6 DEF BuffersMatchRequests, Holders

\* The switch turns a request that was not called into one that is being handled.
LEMMA DispatchHolds ==
    ASSUME DeliveryInv, BuffersMatchRequests, DispatchOp
    PROVE  BuffersMatchRequests'
<1>1. /\ UNCHANGED <<requests, heap>> /\ jPc = "dispatch" /\ jPc' = "handler"
  BY DEF DispatchOp
<1>2. Len(calls') = Len(calls) + 1
  BY DeliveryDispatch, Lengths, SeqAppend
<1>3. Unfinished' = Unfinished
  BY <1>1, <1>2, Lengths DEF Unfinished
<1>4. QED
  BY <1>1, <1>3 DEF BuffersMatchRequests

\* The buffers of the handled request go, all of them but a create's, and no
\* other request loses one.
LEMMA ReturnHolds ==
    ASSUME RegisteredTraffic, DeliveryInv, BuffersMatchRequests, HandlerReturns
    PROVE  BuffersMatchRequests'
<1> DEFINE n == Len(calls)
           k == requests[n]
<1>1. /\ heap' = heap \ (Freed(op) \cup HandedOver(op)) /\ UNCHANGED <<requests, calls>>
      /\ jPc = "handler" /\ jPc' = "consume"
  BY DEF HandlerReturns
<1>2. n \in 1..Len(requests) /\ heap' = heap \ Returned(k)
  BY <1>1, ReturnsBuffers
<1>3. \A i \in 1..Len(requests) : requests[i].n = i
  BY AskedNumber DEF DeliveryInv, Carried
<1>4. /\ n \in Holders
      /\ \A i : i \in Holders' <=> i \in Holders /\ (i # n \/ k.op = "create")
  <2>1. \A i \in 1..Len(requests) :
            /\ i \in Unfinished <=> i > n \/ i = n
            /\ i \in Unfinished' <=> i > n
    BY <1>1, <1>2, Lengths DEF Unfinished
  <2>2. QED
    BY <1>1, <1>2, <2>1, Lengths DEF Holders
<1>5. \A b : b \in heap' <=> \E i \in Holders' : b \in Allocated(requests[i])
  <2>1. \A b : b \in heap <=> \E i \in Holders : b \in Allocated(requests[i])
    BY HeapByHolder
  <2>2. CASE k.op = "create"
    <3>1. Returned(k) = {}
      BY <2>2 DEF Returned
    <3>2. QED
      BY <1>2, <1>4, <2>1, <2>2, <3>1
  <2>3. CASE k.op # "create"
    <3>1. Returned(k) = Allocated(k)
      BY <2>3 DEF Returned
    <3>2. \A i \in Holders : \A b :
            i # n => ~(b \in Allocated(requests[i]) /\ b \in Allocated(k))
      BY <1>2, <1>3, BuffersAreOwn DEF Holders
    <3>3. QED
      BY <1>2, <1>4, <2>1, <2>3, <3>1, <3>2
  <2>4. QED
    BY <2>2, <2>3
<1>6. heap' = UNION {Allocated(requests'[i]) : i \in Holders'}
  BY <1>1, <1>5
<1>7. QED
  BY <1>6 DEF BuffersMatchRequests, Holders

\* No step breaks the match of buffers and requests.
LEMMA BuffersNext ==
    ASSUME RegisteredTraffic, DeliveryInv, BuffersMatchRequests, [Next]_vars
    PROVE  BuffersMatchRequests'
<1>1. CASE (Receive \/ LeaveLoop) /\ ~(LeaveLoop /\ requests = <<>>)
  BY <1>1, HandleAsked, HandleHolds
<1>2. CASE DispatchOp
  BY <1>2, DispatchHolds
<1>3. CASE HandlerReturns
  BY <1>3, ReturnHolds
<1>4. CASE \/ LeaveLoop /\ requests = <<>>
           \/ Produce \/ SignalFull \/ SignalQueued \/ CloseHandle
           \/ WakeUp \/ Consume \/ HandlerThrows \/ UNCHANGED vars
  <2>1. /\ UNCHANGED <<requests, calls, heap>>
        /\ jPc' \in {"handler", "exited"} <=> jPc \in {"handler", "exited"}
    BY <1>4 DEF LeaveLoop, Produce, SignalFull, SignalQueued, CloseHandle, WakeUp, Consume,
                HandlerThrows, vars, jsVars, Ring!Put, Ring!PutFails, Ring!Take,
                Ring!TakeFails
  <2>2. QED
    BY <2>1, SameHolders
<1>5. QED
  BY <1>1, <1>2, <1>3, <1>4 DEF Next, FuseThread, JsThread

\* No buffer leaks and none is gone before its handler has had it: what is live
\* is what the unfinished requests, and past creates (filesystem.cc:251-253), own.
THEOREM BuffersKept == ASSUME RegisteredTraffic PROVE Spec => []BuffersMatchRequests
<1>1. Init => BuffersMatchRequests
  BY EmptySeq DEF Init, BuffersMatchRequests, Ring!Init
<1>2. BuffersMatchRequests /\ DeliveryInv /\ [Next]_vars => BuffersMatchRequests'
  BY BuffersNext
<1>3. QED
  BY <1>1, <1>2, DeliveryKept, PTL DEF Spec

\* No buffer is freed twice, and no stale pointer that a reused struct holds is
\* ever freed (filesystem.cc:134-268).
THEOREM FreesAreLive == ASSUME RegisteredTraffic PROVE Spec => FreesOnlyLive
<1> DEFINE Live == (jPc = "handler" /\ jPc' = "consume") =>
                       Freed(op) \cup HandedOver(op) \subseteq heap
<1>1. DeliveryInv /\ BuffersMatchRequests => [Live]_vars
  <2> SUFFICES ASSUME DeliveryInv, BuffersMatchRequests, jPc = "handler"
               PROVE  Freed(op) \cup HandedOver(op) \subseteq heap
    OBVIOUS
  <2>1. /\ Len(calls) \in 1..Len(requests)
        /\ Freed(op) \cup HandedOver(op) = Returned(requests[Len(calls)])
    BY ReturnsBuffers
  <2>2. Len(calls) \in Holders
    BY <2>1 DEF Holders, Unfinished
  <2>3. QED
    BY <2>1, <2>2, HeapByHolder DEF Returned
<1>2. QED
  BY <1>1, DeliveryKept, BuffersKept, PTL DEF FreesOnlyLive

-----------------------------------------------------------------------------
(* The types.                                                              *)

\* The control points and flags, and the struct that DispatchOp works on.
Points ==
    /\ fPc \in {"loop", "produce", "retry", "signal", "teardown", "ended", "exited"}
    /\ jPc \in {"loop", "consume", "dispatch", "handler", "exited"}
    /\ wake \in BOOLEAN /\ closed \in BOOLEAN
    /\ DOMAIN op = CmdFields

\* A step takes each thread from one of its control points to another.
LEMMA PointsNext == ASSUME DeliveryInv, Points, [Next]_vars PROVE Points'
<1> USE DEF Points, fuseVars, wakeVars, jsVars
<1>1. CASE Consume
  <2>1. CASE UNCHANGED op
    BY <1>1, <2>1 DEF Consume, Ring!Take, Ring!TakeFails
  <2>2. CASE op' = Head(ring) /\ jPc' = "dispatch"
    <3>1. DeliveryInv'
      BY DeliveryNext
    <3>2. DOMAIN op' = CmdFields
      BY <2>2, <3>1, CarriedDomain DEF DeliveryInv, Carried
    <3>3. QED
      BY <1>1, <2>2, <3>2 DEF Consume, Ring!Take, Ring!TakeFails
  <2>3. QED
    BY <1>1, <2>1, <2>2 DEF Consume, Ring!Take, Ring!TakeFails
<1>2. CASE Receive \/ LeaveLoop
  BY <1>2 DEF Receive, LeaveLoop, Handle
<1>3. CASE Produce \/ SignalFull \/ SignalQueued \/ CloseHandle
  BY <1>3 DEF Produce, SignalFull, SignalQueued, CloseHandle, Send, Ring!Put,
              Ring!PutFails
<1>4. CASE WakeUp \/ DispatchOp \/ HandlerReturns \/ HandlerThrows \/ UNCHANGED vars
  BY <1>4 DEF WakeUp, DispatchOp, HandlerReturns, HandlerThrows, vars
<1>5. QED
  BY <1>1, <1>2, <1>3, <1>4 DEF Next, FuseThread, JsThread

\* The ring and what each thread believes of it stay within the ring's capacity.
THEOREM BridgeTypes == Spec => []TypeOK
<1>1. Init => Points
  BY DEF Init, Points, Uninitialised, Ring!Init
<1>2. Points /\ DeliveryInv /\ [Next]_vars => Points'
  BY PointsNext
<1>3. Points /\ DeliveryInv => TypeOK
  BY DEF Points, DeliveryInv, FlowInv, Views, Accounted, TypeOK
<1>4. QED
  BY <1>1, <1>2, <1>3, DeliveryKept, PTL DEF Spec
=============================================================================
