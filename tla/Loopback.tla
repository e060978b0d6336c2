------------------------------ MODULE Loopback ------------------------------
(***************************************************************************)
(* The inode numbers of the loopback file system (examples/loopback.js).   *)
(*                                                                         *)
(* It mirrors a folder, uses the inode numbers of the files in it as its   *)
(* own, and keeps two maps, from paths to inodes and back, that lookup and *)
(* readdir add to and nothing ever removes from.  The kernel names a file  *)
(* by the inode number it got from a lookup.  Meanwhile others work on the *)
(* folder, and the disk gives the number of a removed file to a new one.   *)
(***************************************************************************)
EXTENDS Integers, Sequences, SequencesExt

CONSTANTS Paths,      \* the paths below the folder, as sequences of names
          Inodes,     \* inode numbers of the disk
          Rebind,     \* may a path be used again once its file has gone?
          Readers,    \* bound: readdir calls that wait for fs.readdir at once
          MaxChanges  \* bound: changes to the folder

None == 0
RootInode == 1      \* the kernel's number for the mount point
Root == <<>>

\* The directories on the way to a path are paths, too.
ASSUME LoopbackAssumption ==
    /\ Paths \subseteq Seq(STRING) \ {Root}
    /\ \A p \in Paths : \A n \in 1..Len(p) : SubSeq(p, 1, n) \in Paths
    /\ Inodes \subseteq Nat \ {None, RootInode}
    /\ Rebind \in BOOLEAN /\ MaxChanges \in Nat

VARIABLES
    folder,        \* [Paths -> inode on the disk, or None]
    used,          \* the paths that have been in use
    changes,       \* how often the folder has changed
    pathToInode,   \* Map
    inodeToPath,   \* Map
    dentry,        \* [Paths -> inode the kernel has been told, or None]
    listings       \* readdir calls that wait for fs.readdir: reader -> [path, files]

folderVars == <<folder, used, changes>>
maps == <<pathToInode, inodeToPath>>
vars == <<folderVars, maps, dentry, listings>>

Init ==
    /\ folder = [p \in Paths |-> None]
    /\ used = {} /\ changes = 0
    /\ pathToInode = [p \in {Root} |-> RootInode]
    /\ inodeToPath = [i \in {RootInode} |-> Root]
    /\ dentry = [p \in Paths |-> None]
    /\ listings = [r \in {} |-> None]

\* map.set(key, value).
MapSet(map, key, value) == [k \in DOMAIN map \cup {key} |-> IF k = key THEN value ELSE map[k]]

Exists(p) == p = Root \/ (p \in Paths /\ folder[p] # None)
Children(p) == {q \in Paths : Front(q) = p /\ folder[q] # None}

-----------------------------------------------------------------------------
(* The folder, under the hands of others.  It has no hard links.           *)

Changes == changes < MaxChanges /\ changes' = changes + 1
Free(p) == folder[p] = None /\ (p \in used => Rebind)

CreateFile(p, i) ==
    /\ Changes
    /\ Free(p) /\ Exists(Front(p))
    /\ \A q \in Paths : folder[q] # i
    /\ folder' = [folder EXCEPT ![p] = i]
    /\ used' = used \cup {p}
    /\ UNCHANGED <<maps, dentry, listings>>

RemoveFile(p) ==
    /\ Changes
    /\ folder[p] # None /\ Children(p) = {}
    /\ folder' = [folder EXCEPT ![p] = None]
    /\ UNCHANGED <<used, maps, dentry, listings>>

RenameFile(p, q) ==
    /\ Changes
    /\ folder[p] # None /\ Children(p) = {}
    /\ Free(q) /\ Exists(Front(q)) /\ ~ IsPrefix(p, q)
    /\ folder' = [folder EXCEPT ![p] = None, ![q] = folder[p]]
    /\ used' = used \cup {q}
    /\ UNCHANGED <<maps, dentry, listings>>

-----------------------------------------------------------------------------
(* The file system.                                                        *)

\* The inode number that the kernel has for a path.
Known(p) == IF p = Root THEN RootInode ELSE dentry[p]

\* Broken: the inode is only recorded if it has no path yet.
RecordNewInode(path, inode) ==
    IF inode \notin DOMAIN inodeToPath
    THEN /\ pathToInode' = MapSet(pathToInode, path, inode)
         /\ inodeToPath' = MapSet(inodeToPath, inode, path)
    ELSE UNCHANGED maps

\* `if (!pathToInode.has(localPath))': a path is recorded once.
Record(path, inode) ==
    IF path \notin DOMAIN pathToInode
    THEN /\ pathToInode' = MapSet(pathToInode, path, inode)
         /\ inodeToPath' = MapSet(inodeToPath, inode, path)
    ELSE UNCHANGED maps

\* lookup(parentInode, name), as the kernel walks to the path p: the parent's path
\* is the one on record, which need not be the one the kernel means.
Lookup(p) ==
    LET parent == Known(Front(p))
        known == parent \in DOMAIN inodeToPath
        localPath == Append(inodeToPath[parent], Last(p))
    IN  /\ parent # None
        /\ \/ /\ known /\ Exists(localPath)
              /\ Record(localPath, folder[localPath])
              /\ dentry' = [dentry EXCEPT ![p] = folder[localPath]]
           \/ /\ ~ (known /\ Exists(localPath))
              /\ dentry' = [dentry EXCEPT ![p] = None]    \* reply.err
              /\ UNCHANGED maps
        /\ UNCHANGED <<folderVars, listings>>

\* Broken: the names include `.', as those of the C readdir do.
ReadDirWithDot(p, r) ==
    /\ Known(p) \in DOMAIN inodeToPath
    /\ r \notin DOMAIN listings
    /\ LET path == inodeToPath[Known(p)] IN
       listings' = MapSet(listings, r, [path |-> path, files |-> Children(path) \cup {path}])
    /\ UNCHANGED <<folderVars, maps, dentry>>

\* readdir: the path is taken from the map and fs.readdir started; it gives the
\* names of the files that are there.
ReadDir(p, r) ==
    /\ Known(p) \in DOMAIN inodeToPath
    /\ r \notin DOMAIN listings
    /\ LET path == inodeToPath[Known(p)] IN
       listings' = MapSet(listings, r, [path |-> path, files |-> Children(path)])
    /\ UNCHANGED <<folderVars, maps, dentry>>

\* Its callback, after any of the others': a file whose inode has a path keeps it, the
\* others are recorded one way.  A file that has gone is skipped.
ReadDirCallback(r) ==
    LET new == {q \in listings[r].files :
                   Exists(q) /\ folder[q] \notin DOMAIN inodeToPath}
    IN  /\ r \in DOMAIN listings
        /\ inodeToPath' =
              [i \in DOMAIN inodeToPath \cup {folder[q] : q \in new} |->
                  IF i \in DOMAIN inodeToPath THEN inodeToPath[i]
                  ELSE CHOOSE q \in new : folder[q] = i]
        /\ listings' = [x \in DOMAIN listings \ {r} |-> listings[x]]
        /\ UNCHANGED <<folderVars, pathToInode, dentry>>

\* getattr(inode): the number of the file whose attributes are replied, or None.
\* The folder itself replies under the kernel's number for it.
GetAttr(inode) ==
    CASE inode \notin DOMAIN inodeToPath -> None
      [] inode = RootInode -> RootInode
      [] inode \in DOMAIN inodeToPath \ {RootInode} ->
            IF Exists(inodeToPath[inode]) THEN folder[inodeToPath[inode]] ELSE None

Next ==
    \/ \E p \in Paths, i \in Inodes : CreateFile(p, i)
    \/ \E p \in Paths : RemoveFile(p) \/ Lookup(p)
    \/ \E p, q \in Paths : RenameFile(p, q)
    \/ \E p \in Paths \cup {Root}, r \in Readers : ReadDir(p, r)
    \/ \E r \in Readers : ReadDirCallback(r)

Spec == Init /\ [][Next]_vars

-----------------------------------------------------------------------------
(* Properties.                                                             *)

TypeOK ==
    /\ folder \in [Paths -> Inodes \cup {None}]
    /\ used \subseteq Paths /\ changes \in 0..MaxChanges
    /\ DOMAIN pathToInode \subseteq Paths \cup {Root}
    /\ \A p \in DOMAIN pathToInode \ {Root} : pathToInode[p] \in Inodes
    /\ DOMAIN inodeToPath \subseteq Inodes \cup {RootInode}
    /\ inodeToPath[RootInode] = Root
    /\ \A i \in DOMAIN inodeToPath \ {RootInode} : inodeToPath[i] \in Paths
    /\ dentry \in [Paths -> Inodes \cup {None}]
    /\ DOMAIN listings \subseteq Readers
    /\ \A r \in DOMAIN listings :
          listings[r].path \in Paths \cup {Root} /\ listings[r].files \subseteq Paths

\* While the kernel has the right inode number for a path, getattr with it replies
\* the attributes of the file at that path, not ENOENT and not another file's,
\* whatever has been renamed, removed and given the number of a removed file.
\* loopback.js:10-11: `we need to keep track of the inodes and it's associated path'.
KnownInodesResolve ==
    \A p \in Paths :
        dentry[p] # None /\ dentry[p] = folder[p] => GetAttr(dentry[p]) = dentry[p]
=============================================================================
