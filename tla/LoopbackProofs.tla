--------------------------- MODULE LoopbackProofs ---------------------------
(***************************************************************************)
(* The inode numbers of the loopback example, for every folder, every set  *)
(* of inode numbers and any number of changes: while no path is used       *)
(* twice, the numbers that the kernel has lead to the right files, though  *)
(* nothing is ever removed from the maps and a lookup may go by a path     *)
(* that its directory has no more.                                         *)
(***************************************************************************)
EXTENDS Loopback, SequenceTheorems, TLAPS

-----------------------------------------------------------------------------
(* Paths.                                                                  *)

\* The first n elements of a sequence.
LEMMA FirstOnes ==
    ASSUME NEW S, NEW s \in Seq(S), NEW n \in 0..Len(s)
    PROVE  /\ SubSeq(s, 1, n) \in Seq(S) /\ Len(SubSeq(s, 1, n)) = n
           /\ \A i \in 1..n : SubSeq(s, 1, n)[i] = s[i]
<1>1. Len(s) \in Nat /\ \A i \in 1..n : s[i] \in S
  OBVIOUS
<1>2. /\ SubSeq(s, 1, n) \in Seq(S)
      /\ Len(SubSeq(s, 1, n)) = IF 1 <= n THEN n - 1 + 1 ELSE 0
      /\ \A i \in 1..(n - 1 + 1) : SubSeq(s, 1, n)[i] = s[1 + i - 1]
  BY <1>1, SubSeqProperties
<1>3. QED
  BY <1>1, <1>2

\* A path is its directory's path and a name, and the directory is a path or the root.
LEMMA PathFacts ==
    ASSUME NEW p \in Paths
    PROVE  /\ p \in Seq(STRING) /\ p # Root /\ Len(p) \in Nat \ {0}
           /\ Front(p) \in Paths \cup {Root} /\ Front(p) \in Seq(STRING)
           /\ Len(Front(p)) = Len(p) - 1
           /\ \A i \in 1..(Len(p) - 1) : Front(p)[i] = p[i]
           /\ p = Append(Front(p), Last(p))
<1>1. p \in Seq(STRING) /\ p # <<>>
  BY LoopbackAssumption DEF Root
<1>2. Len(p) \in Nat /\ Len(p) # 0
  BY <1>1
<1>3. /\ Front(p) \in Seq(STRING) /\ Len(Front(p)) = Len(p) - 1
      /\ \A i \in 1..(Len(p) - 1) : Front(p)[i] = p[i]
  <2>1. Len(p) - 1 \in 0..Len(p)
    BY <1>2
  <2>2. QED
    BY <1>1, <2>1, FirstOnes DEF Front
<1>4. p = Append(Front(p), Last(p))
  <2>1. Last(p) \in STRING
    BY <1>1, <1>2 DEF Last
  <2>2. /\ Append(Front(p), Last(p)) \in Seq(STRING)
        /\ Len(Append(Front(p), Last(p))) = Len(p)
        /\ \A i \in 1..Len(p) : Append(Front(p), Last(p))[i] = p[i]
    BY <1>2, <1>3, <2>1 DEF Last
  <2>3. QED
    BY <1>1, <2>2, SeqEqual
<1>5. Front(p) \in Paths \cup {Root}
  <2>1. CASE Len(p) = 1
    BY <1>3, <2>1 DEF Root
  <2>2. CASE Len(p) # 1
    <3>1. Len(p) - 1 \in 1..Len(p)
      BY <1>2, <2>2
    <3>2. QED
      BY <3>1, LoopbackAssumption DEF Front
  <2>3. QED
    BY <2>1, <2>2
<1>6. QED
  BY <1>1, <1>2, <1>3, <1>4, <1>5 DEF Root

\* A prefix agrees place by place.
LEMMA PrefixIs ==
    ASSUME NEW q \in Seq(STRING), NEW p \in Seq(STRING)
    PROVE  IsPrefix(q, p) <=> Len(q) <= Len(p) /\ \A i \in 1..Len(q) : q[i] = p[i]
<1>1. SubSeq(q, 1, Len(q)) = q
  BY SubSeqFull
<1>2. CASE Len(q) <= Len(p)
  <2>1. SubSeq(p, 1, Len(q)) \in Seq(STRING) /\ Len(SubSeq(p, 1, Len(q))) = Len(q)
        /\ \A i \in 1..Len(q) : SubSeq(p, 1, Len(q))[i] = p[i]
    <3>1. Len(q) \in 0..Len(p)
      BY <1>2
    <3>2. QED
      BY <3>1, FirstOnes
  <2>2. q = SubSeq(p, 1, Len(q)) <=> \A i \in 1..Len(q) : q[i] = p[i]
    BY <2>1, SeqEqual
  <2>3. QED
    BY <1>1, <1>2, <2>2 DEF IsPrefix
<1>3. CASE ~ Len(q) <= Len(p)
  BY <1>3 DEF IsPrefix
<1>4. QED
  BY <1>2, <1>3

\* What leads to a path leads to its directory, or is the path.
LEMMA PrefixStep ==
    ASSUME NEW p \in Paths, NEW q \in Paths
    PROVE  IsPrefix(q, p) <=> q = p \/ IsPrefix(q, Front(p))
<1>1. /\ p \in Seq(STRING) /\ q \in Seq(STRING) /\ Front(p) \in Seq(STRING)
      /\ Len(p) \in Nat \ {0} /\ Len(q) \in Nat
      /\ Len(Front(p)) = Len(p) - 1
      /\ \A i \in 1..(Len(p) - 1) : Front(p)[i] = p[i]
  BY PathFacts
<1>2. IsPrefix(q, p) <=> Len(q) <= Len(p) /\ \A i \in 1..Len(q) : q[i] = p[i]
  BY <1>1, PrefixIs
<1>3. IsPrefix(q, Front(p)) <=>
        Len(q) <= Len(p) - 1 /\ \A i \in 1..Len(q) : q[i] = Front(p)[i]
  BY <1>1, PrefixIs
<1>4. q = p <=> Len(q) = Len(p) /\ \A i \in 1..Len(q) : q[i] = p[i]
  BY <1>1, SeqEqual
<1>5. Len(q) <= Len(p) - 1 =>
        ((\A i \in 1..Len(q) : q[i] = Front(p)[i]) <=> \A i \in 1..Len(q) : q[i] = p[i])
  <2>1. SUFFICES ASSUME Len(q) <= Len(p) - 1
                 PROVE  \A i \in 1..Len(q) : Front(p)[i] = p[i]
    OBVIOUS
  <2>2. QED
    BY <1>1, <2>1
<1>6. Len(q) <= Len(p) <=> Len(q) = Len(p) \/ Len(q) <= Len(p) - 1
  BY <1>1
<1>7. QED
  BY <1>2, <1>3, <1>4, <1>5, <1>6

\* No path leads to the root.
LEMMA NothingLeadsToRoot ==
    ASSUME NEW q \in Paths PROVE ~ IsPrefix(q, Root)
<1>1. q \in Seq(STRING) /\ Len(q) \in Nat \ {0} /\ Root \in Seq(STRING) /\ Len(Root) = 0
  BY PathFacts DEF Root
<1>2. IsPrefix(q, Root) => Len(q) <= Len(Root)
  BY <1>1, PrefixIs
<1>3. QED
  BY <1>1, <1>2

\* On the way from a directory down to a path there is a path in the directory.
LEMMA ChildOnTheWay ==
    ASSUME NEW p \in Paths, NEW r \in Paths, IsPrefix(p, r), p # r
    PROVE  \E c \in Paths : Front(c) = p /\ IsPrefix(c, r)
<1> DEFINE c == SubSeq(r, 1, Len(p) + 1)
<1>1. /\ p \in Seq(STRING) /\ r \in Seq(STRING)
      /\ Len(p) \in Nat \ {0} /\ Len(r) \in Nat
  BY PathFacts
<1>2. Len(p) <= Len(r) /\ \A i \in 1..Len(p) : p[i] = r[i]
  BY <1>1, PrefixIs
<1>3. Len(p) # Len(r)
  BY <1>1, <1>2, SeqEqual
<1>4. Len(p) + 1 \in 1..Len(r) /\ Len(p) + 1 \in 0..Len(r)
  BY <1>1, <1>2, <1>3
<1>5. c \in Paths
  BY <1>4, LoopbackAssumption
<1>6. c \in Seq(STRING) /\ Len(c) = Len(p) + 1 /\ \A i \in 1..(Len(p) + 1) : c[i] = r[i]
  BY <1>1, <1>4, FirstOnes
<1> HIDE DEF c
<1>7. IsPrefix(c, r)
  BY <1>1, <1>4, <1>6, PrefixIs
<1>8. Front(c) = p
  <2>1. /\ Front(c) \in Seq(STRING) /\ Len(Front(c)) = Len(p)
        /\ \A i \in 1..Len(p) : Front(c)[i] = c[i]
    BY <1>1, <1>5, <1>6, PathFacts
  <2>2. \A i \in 1..Len(p) : Front(c)[i] = p[i]
    BY <1>1, <1>2, <1>6, <2>1
  <2>3. QED
    BY <1>1, <2>1, <2>2, SeqEqual
<1>9. QED
  BY <1>5, <1>7, <1>8

-----------------------------------------------------------------------------
(* Types.                                                                  *)

\* TypeOK, and that the root never leaves the map.
Types == TypeOK /\ RootInode \in DOMAIN inodeToPath

\* What has a local path exists in the folder, under a number of the disk.
LEMMA LocalPath ==
    ASSUME TypeOK, NEW path, path # Root, Exists(path)
    PROVE  path \in Paths /\ folder[path] \in Inodes /\ folder[path] # RootInode
BY LoopbackAssumption DEF TypeOK, Exists

\* A path that lookup makes is not the root's.
LEMMA LookedUp ==
    ASSUME Types, NEW parent \in DOMAIN inodeToPath, NEW p \in Paths
    PROVE  Append(inodeToPath[parent], Last(p)) # Root
<1>1. inodeToPath[parent] \in Seq(STRING)
  <2>1. CASE parent = RootInode
    BY <2>1 DEF Types, TypeOK, Root
  <2>2. CASE parent # RootInode
    BY <2>2, PathFacts DEF Types, TypeOK
  <2>3. QED
    BY <2>1, <2>2
<1>2. Last(p) \in STRING
  BY PathFacts DEF Last
<1>3. QED
  BY <1>1, <1>2, AppendProperties DEF Root

LEMMA TypesInit == Init => Types
BY LoopbackAssumption DEF Init, Types, TypeOK

\* What recording a path does to the maps.
LEMMA Recorded ==
    ASSUME NEW path, NEW inode, Record(path, inode)
    PROVE  \/ /\ path \in DOMAIN pathToInode
              /\ pathToInode' = pathToInode /\ inodeToPath' = inodeToPath
           \/ /\ path \notin DOMAIN pathToInode
              /\ DOMAIN pathToInode' = DOMAIN pathToInode \cup {path}
              /\ pathToInode'[path] = inode
              /\ \A p \in DOMAIN pathToInode : pathToInode'[p] = pathToInode[p]
              /\ DOMAIN inodeToPath' = DOMAIN inodeToPath \cup {inode}
              /\ inodeToPath'[inode] = path
              /\ \A i \in DOMAIN inodeToPath \ {inode} : inodeToPath'[i] = inodeToPath[i]
<1>1. CASE path \in DOMAIN pathToInode
  BY <1>1 DEF Record, maps
<1>2. CASE path \notin DOMAIN pathToInode
  <2>1. /\ pathToInode' = [k \in DOMAIN pathToInode \cup {path} |->
                              IF k = path THEN inode ELSE pathToInode[k]]
        /\ inodeToPath' = [k \in DOMAIN inodeToPath \cup {inode} |->
                              IF k = inode THEN path ELSE inodeToPath[k]]
    BY <1>2 DEF Record, MapSet
  <2>2. QED
    BY <1>2, <2>1
<1>3. QED
  BY <1>1, <1>2

\* The maps keep their types when a file that is there is recorded.
LEMMA TypesRecord ==
    ASSUME Types, NEW path \in Paths, NEW inode \in Inodes, Record(path, inode)
    PROVE  /\ DOMAIN pathToInode' \subseteq Paths \cup {Root}
           /\ \A p \in DOMAIN pathToInode' \ {Root} : pathToInode'[p] \in Inodes
           /\ DOMAIN inodeToPath' \subseteq Inodes \cup {RootInode}
           /\ RootInode \in DOMAIN inodeToPath' /\ inodeToPath'[RootInode] = Root
           /\ \A i \in DOMAIN inodeToPath' \ {RootInode} : inodeToPath'[i] \in Paths
<1>1. inode # RootInode
  BY LoopbackAssumption
<1>2. CASE pathToInode' = pathToInode /\ inodeToPath' = inodeToPath
  BY <1>2 DEF Types, TypeOK
<1>3. CASE ~ (pathToInode' = pathToInode /\ inodeToPath' = inodeToPath)
  <2>1. /\ DOMAIN pathToInode' = DOMAIN pathToInode \cup {path}
        /\ pathToInode'[path] = inode
        /\ \A p \in DOMAIN pathToInode : pathToInode'[p] = pathToInode[p]
    BY <1>3, Recorded
  <2>2. /\ DOMAIN inodeToPath' = DOMAIN inodeToPath \cup {inode}
        /\ inodeToPath'[inode] = path
        /\ \A i \in DOMAIN inodeToPath \ {inode} : inodeToPath'[i] = inodeToPath[i]
    BY <1>3, Recorded
  <2>3. QED
    BY <1>1, <2>1, <2>2 DEF Types, TypeOK
<1>4. QED
  BY <1>2, <1>3

\* What the callback of fs.readdir does to the map of inodes.
LEMMA CallbackMap ==
    ASSUME Types, NEW r, ReadDirCallback(r)
    PROVE  /\ DOMAIN inodeToPath \subseteq DOMAIN inodeToPath'
           /\ \A i \in DOMAIN inodeToPath : inodeToPath'[i] = inodeToPath[i]
           /\ \A i \in DOMAIN inodeToPath' \ DOMAIN inodeToPath :
                 i \in Inodes /\ inodeToPath'[i] \in Paths
           /\ DOMAIN listings' \subseteq DOMAIN listings
           /\ \A x \in DOMAIN listings' : listings'[x] = listings[x]
           /\ UNCHANGED <<folderVars, pathToInode, dentry>>
<1> DEFINE new == {q \in listings[r].files :
                      Exists(q) /\ folder[q] \notin DOMAIN inodeToPath}
<1>1. /\ r \in DOMAIN listings
      /\ listings' = [x \in DOMAIN listings \ {r} |-> listings[x]]
      /\ UNCHANGED <<folderVars, pathToInode, dentry>>
  BY DEF ReadDirCallback
<1>2. inodeToPath' = [i \in DOMAIN inodeToPath \cup {folder[q] : q \in new} |->
                         IF i \in DOMAIN inodeToPath THEN inodeToPath[i]
                         ELSE CHOOSE q \in new : folder[q] = i]
  BY DEF ReadDirCallback
<1>3. new \subseteq Paths /\ \A q \in new : folder[q] \in Inodes
  <2>1. new \subseteq Paths
    BY <1>1 DEF Types, TypeOK
  <2>2. \A q \in new : q # Root /\ Exists(q)
    BY <2>1, PathFacts
  <2>3. QED
    BY <2>1, <2>2, LocalPath DEF Types
<1> HIDE DEF new
<1>4. ASSUME NEW i \in DOMAIN inodeToPath' \ DOMAIN inodeToPath
      PROVE  i \in Inodes /\ inodeToPath'[i] \in Paths
  <2>1. PICK q \in new : folder[q] = i
    BY <1>2
  <2>2. inodeToPath'[i] = CHOOSE s \in new : folder[s] = i
    BY <1>2
  <2>3. QED
    BY <1>3, <2>1, <2>2
<1>5. QED
  BY <1>1, <1>2, <1>4

LEMMA TypesNext == ASSUME Types, [Next]_vars PROVE Types'
<1> USE DEF Types
<1>1. ASSUME NEW p \in Paths, NEW i \in Inodes, CreateFile(p, i) PROVE Types'
  BY <1>1, LoopbackAssumption DEF CreateFile, TypeOK, Changes, maps
<1>2. ASSUME NEW p \in Paths, RemoveFile(p) PROVE Types'
  BY <1>2, LoopbackAssumption DEF RemoveFile, TypeOK, Changes, maps
<1>3. ASSUME NEW p \in Paths, NEW q \in Paths, RenameFile(p, q) PROVE Types'
  <2>1. folder[p] \in Inodes \cup {None} /\ folder \in [Paths -> Inodes \cup {None}]
    BY DEF TypeOK
  <2>2. folder' = [folder EXCEPT ![p] = None, ![q] = folder[p]]
    BY <1>3 DEF RenameFile
  <2>3. folder' \in [Paths -> Inodes \cup {None}]
    BY <2>1, <2>2
  <2>4. QED
    BY <1>3, <2>3, LoopbackAssumption DEF RenameFile, TypeOK, Changes, maps
<1>4. ASSUME NEW p \in Paths, Lookup(p) PROVE Types'
  <2> DEFINE parent == Known(Front(p))
             localPath == Append(inodeToPath[parent], Last(p))
  <2>1. CASE parent \in DOMAIN inodeToPath /\ Exists(localPath)
    <3>1. localPath # Root
      BY <2>1, LookedUp
    <3>2. localPath \in Paths /\ folder[localPath] \in Inodes
      BY <2>1, <3>1, LocalPath
    <3>3. /\ Record(localPath, folder[localPath])
          /\ dentry' = [dentry EXCEPT ![p] = folder[localPath]]
          /\ UNCHANGED <<folderVars, listings>>
      BY <1>4, <2>1 DEF Lookup
    <3> HIDE DEF localPath
    <3>4. QED
      BY <3>2, <3>3, TypesRecord DEF TypeOK, folderVars
  <2>2. CASE ~ (parent \in DOMAIN inodeToPath /\ Exists(localPath))
    <3>1. dentry' = [dentry EXCEPT ![p] = None] /\ UNCHANGED <<folderVars, maps, listings>>
      BY <1>4, <2>2 DEF Lookup
    <3>2. QED
      BY <3>1 DEF TypeOK, folderVars, maps
  <2>3. QED
    BY <2>1, <2>2
<1>5. ASSUME NEW p \in Paths \cup {Root}, NEW r \in Readers, ReadDir(p, r) PROVE Types'
  <2> DEFINE path == inodeToPath[Known(p)]
  <2>1. path \in Paths \cup {Root} /\ Children(path) \subseteq Paths
    BY <1>5 DEF ReadDir, TypeOK, Children
  <2>2. /\ listings' = MapSet(listings, r, [path |-> path, files |-> Children(path)])
        /\ UNCHANGED <<folderVars, maps, dentry>>
    BY <1>5 DEF ReadDir
  <2> HIDE DEF path
  <2>3. /\ DOMAIN listings' \subseteq Readers
        /\ \A x \in DOMAIN listings' :
              listings'[x].path \in Paths \cup {Root} /\ listings'[x].files \subseteq Paths
    BY <2>1, <2>2 DEF MapSet, TypeOK
  <2>4. QED
    BY <2>2, <2>3 DEF TypeOK, folderVars, maps
<1>6. ASSUME NEW r \in Readers, ReadDirCallback(r) PROVE Types'
  <2>1. /\ DOMAIN inodeToPath \subseteq DOMAIN inodeToPath'
        /\ \A i \in DOMAIN inodeToPath : inodeToPath'[i] = inodeToPath[i]
        /\ \A i \in DOMAIN inodeToPath' \ DOMAIN inodeToPath :
              i \in Inodes /\ inodeToPath'[i] \in Paths
        /\ DOMAIN listings' \subseteq DOMAIN listings
        /\ \A x \in DOMAIN listings' : listings'[x] = listings[x]
        /\ UNCHANGED <<folderVars, pathToInode, dentry>>
    BY <1>6, CallbackMap
  <2>2. QED
    BY <2>1 DEF TypeOK, folderVars
<1>7. ASSUME UNCHANGED vars PROVE Types'
  BY <1>7 DEF vars, folderVars, maps, TypeOK
<1>8. QED
  BY <1>1, <1>2, <1>3, <1>4, <1>5, <1>6, <1>7 DEF Next

LEMMA TypesKept == Spec => []Types
<1>1. Types /\ [Next]_vars => Types'
  BY TypesNext
<1>2. QED
  BY TypesInit, <1>1, PTL DEF Spec

\* The types of Loopback: the maps lead from paths below the folder to inode numbers
\* of the disk and back, whatever readdir records, and the root keeps its number.
THEOREM LoopbackTypes == Spec => []TypeOK
<1>1. Types => TypeOK
  BY DEF Types
<1>2. QED
  BY <1>1, TypesKept, PTL
-----------------------------------------------------------------------------
(* A folder in which no path is used twice.                                *)

Alive(p) == folder[p] # None

\* A path that does not exist and never will, since it or a directory on the way to
\* it has gone.
Barred(p) == \E q \in Paths : q \in used /\ folder[q] = None /\ IsPrefix(q, p)

\* Everything on the way to a file is there.
Tree == \A p, q \in Paths : Alive(p) /\ IsPrefix(q, p) => Alive(q)

\* A number is of one file, and what is there has been used.
OneNumber == \A p, q \in Paths : Alive(p) /\ folder[p] = folder[q] => p = q
UsedKnown == \A p \in Paths : Alive(p) => p \in used

\* Only paths that have been in use are recorded, and the number of a file that is
\* there leads back to it if its path is recorded.
MapsKnown == DOMAIN pathToInode \subseteq used \cup {Root}
MapsAgree ==
    \A p \in DOMAIN pathToInode \cap Paths :
        Alive(p) => folder[p] \in DOMAIN inodeToPath /\ inodeToPath[folder[p]] = p

\* What the kernel has been told of a file that is there is right, and recorded; of
\* what is not there it has only been told if it will never be there again.
KernelRight ==
    \A p \in Paths : Alive(p) /\ dentry[p] # None =>
        dentry[p] = folder[p] /\ p \in DOMAIN pathToInode
KernelBarred == \A p \in Paths : dentry[p] # None /\ ~ Alive(p) => Barred(p)

FolderInv == Tree /\ OneNumber /\ UsedKnown
PathInv == Types /\ FolderInv /\ MapsKnown /\ MapsAgree /\ KernelRight /\ KernelBarred

LEMMA PathInit == Init => PathInv
<1>1. Init => Types
  BY TypesInit
<1>2. Init => FolderInv /\ MapsKnown /\ MapsAgree /\ KernelRight /\ KernelBarred
  BY PathFacts DEF Init, FolderInv, Tree, OneNumber, UsedKnown, MapsKnown, MapsAgree, KernelRight,
         KernelBarred, Alive, Barred, Root
<1>3. QED
  BY <1>1, <1>2 DEF PathInv

\* A path that is free and whose directory is there is not barred.
LEMMA FreeIsOpen ==
    ASSUME ~ Rebind, PathInv, NEW p \in Paths, Free(p), Exists(Front(p))
    PROVE  p \notin used /\ ~ Barred(p) /\ dentry[p] = None
<1>1. p \notin used /\ ~ Alive(p)
  BY DEF Free, Alive
<1>2. ASSUME NEW q \in Paths, q \in used, folder[q] = None, IsPrefix(q, p) PROVE FALSE
  <2>1. q # p
    BY <1>1, <1>2
  <2>2. IsPrefix(q, Front(p))
    BY <1>2, <2>1, PrefixStep
  <2>3. Front(p) \in Paths /\ Alive(Front(p))
    BY <1>2, <2>2, NothingLeadsToRoot DEF Exists, Alive
  <2>4. QED
    BY <1>2, <2>2, <2>3 DEF PathInv, FolderInv, Tree, Alive
<1>3. ~ Barred(p)
  BY <1>2 DEF Barred
<1>4. QED
  BY <1>1, <1>3 DEF PathInv, KernelBarred

\* A new file, or one that gets a new name, is there with all that leads to it.
LEMMA NewFile ==
    ASSUME ~ Rebind, PathInv, NEW p \in Paths, NEW inode \in Inodes,
           Free(p), Exists(Front(p)), used' = used \cup {p}, UNCHANGED <<maps, dentry>>,
           NEW gone \in SUBSET Paths, \A q \in gone : ~ IsPrefix(q, p) /\ Children(q) = {},
           folder' \in [Paths -> Inodes \cup {None}], folder'[p] = inode,
           \A q \in Paths \ {p} : folder'[q] = IF q \in gone THEN None ELSE folder[q],
           \A q \in Paths \ {p} : folder'[q] # inode,
           \A q \in gone : Alive(q)
    PROVE  /\ FolderInv' /\ MapsKnown' /\ MapsAgree' /\ KernelRight' /\ KernelBarred'
<1>1. p \notin used /\ dentry[p] = None /\ ~ Alive(p) /\ p \notin DOMAIN pathToInode
  BY FreeIsOpen, PathFacts DEF Free, Alive, PathInv, MapsKnown
<1>2. inode # None
  BY LoopbackAssumption
<1>3. \A q \in Paths : folder'[q] # None <=> q = p \/ (folder[q] # None /\ q \notin gone)
  BY <1>1, <1>2 DEF Alive
<1>4. Tree'
  <2>1. SUFFICES ASSUME NEW r \in Paths, NEW q \in Paths, folder'[r] # None, IsPrefix(q, r)
                 PROVE  folder'[q] # None
    BY DEF Tree, Alive
  <2>2. CASE r = p
    <3>1. CASE q = p
      BY <3>1, <1>3
    <3>2. CASE q # p
      <4>1. IsPrefix(q, Front(p))
        BY <2>1, <2>2, <3>2, PrefixStep
      <4>2. Front(p) \in Paths /\ Alive(Front(p))
        BY <4>1, NothingLeadsToRoot DEF Exists, Alive
      <4>3. Alive(q)
        BY <4>1, <4>2 DEF PathInv, FolderInv, Tree
      <4>4. QED
        BY <4>3, <2>1, <2>2, <1>3 DEF Alive
    <3>3. QED
      BY <3>1, <3>2
  <2>3. CASE r # p
    <3>1. Alive(r) /\ r \notin gone
      BY <2>1, <2>3, <1>3 DEF Alive
    <3>2. Alive(q)
      BY <2>1, <3>1 DEF PathInv, FolderInv, Tree
    <3>3. q \notin gone
      <4>1. SUFFICES ASSUME q \in gone PROVE FALSE
        OBVIOUS
      <4>2. q # r
        BY <3>1, <4>1
      <4>3. PICK c \in Paths : Front(c) = q /\ IsPrefix(c, r)
        BY <2>1, <4>2, ChildOnTheWay
      <4>4. Alive(c)
        BY <3>1, <4>3 DEF PathInv, FolderInv, Tree
      <4>5. QED
        BY <4>1, <4>3, <4>4 DEF Children, Alive
    <3>4. QED
      BY <3>2, <3>3, <1>3 DEF Alive
  <2>4. QED
    BY <2>2, <2>3
<1>5. OneNumber' /\ UsedKnown'
  BY <1>3 DEF PathInv, FolderInv, OneNumber, UsedKnown, Alive
<1>6. MapsKnown' /\ MapsAgree'
  BY <1>1, <1>3 DEF PathInv, MapsKnown, MapsAgree, Alive, maps
<1>7. KernelRight'
  BY <1>1, <1>3 DEF PathInv, KernelRight, Alive, maps
<1>8. KernelBarred'
  <2>1. SUFFICES ASSUME NEW q \in Paths, dentry[q] # None, folder'[q] = None
                 PROVE  \E r \in Paths : r \in used' /\ folder'[r] = None /\ IsPrefix(r, q)
    BY DEF KernelBarred, Barred, Alive
  <2>2. CASE Alive(q)
    <3>1. q \in gone /\ q \in used
      BY <2>1, <2>2, <1>1, <1>3 DEF PathInv, FolderInv, UsedKnown, Alive
    <3>2. IsPrefix(q, q)
      BY PrefixStep
    <3>3. QED
      BY <2>1, <3>1, <3>2
  <2>3. CASE ~ Alive(q)
    <3>1. PICK r \in Paths : r \in used /\ folder[r] = None /\ IsPrefix(r, q)
      BY <2>1, <2>3 DEF PathInv, KernelBarred, Barred
    <3>2. folder'[r] = None
      BY <3>1, <1>1, <1>3
    <3>3. QED
      BY <3>1, <3>2
  <2>4. QED
    BY <2>2, <2>3
<1>9. QED
  BY <1>4, <1>5, <1>6, <1>7, <1>8 DEF FolderInv

LEMMA PathCreate ==
    ASSUME ~ Rebind, PathInv, NEW p \in Paths, NEW i \in Inodes, CreateFile(p, i)
    PROVE  FolderInv' /\ MapsKnown' /\ MapsAgree' /\ KernelRight' /\ KernelBarred'
<1> DEFINE gone == {}
<1>1. /\ Free(p) /\ Exists(Front(p)) /\ used' = used \cup {p} /\ UNCHANGED <<maps, dentry>>
      /\ folder' = [folder EXCEPT ![p] = i] /\ \A q \in Paths : folder[q] # i
  BY DEF CreateFile
<1>2. folder \in [Paths -> Inodes \cup {None}]
  BY DEF PathInv, Types, TypeOK
<1>3. /\ folder' \in [Paths -> Inodes \cup {None}] /\ folder'[p] = i
      /\ \A q \in Paths \ {p} : folder'[q] = IF q \in gone THEN None ELSE folder[q]
      /\ \A q \in Paths \ {p} : folder'[q] # i
  BY <1>1, <1>2
<1>4. /\ gone \in SUBSET Paths /\ \A q \in gone : ~ IsPrefix(q, p) /\ Children(q) = {}
      /\ \A q \in gone : Alive(q)
  OBVIOUS
<1> HIDE DEF gone
<1>5. QED
  BY <1>1, <1>3, <1>4, NewFile

LEMMA PathRename ==
    ASSUME ~ Rebind, PathInv, NEW p \in Paths, NEW q \in Paths, RenameFile(p, q)
    PROVE  FolderInv' /\ MapsKnown' /\ MapsAgree' /\ KernelRight' /\ KernelBarred'
<1>1. /\ Free(q) /\ Exists(Front(q)) /\ used' = used \cup {q} /\ UNCHANGED <<maps, dentry>>
      /\ folder' = [folder EXCEPT ![p] = None, ![q] = folder[p]]
      /\ Alive(p) /\ Children(p) = {} /\ ~ IsPrefix(p, q)
  BY DEF RenameFile, Alive
<1>2. /\ folder \in [Paths -> Inodes \cup {None}] /\ folder[p] \in Inodes
      /\ \A r \in Paths : folder[r] = folder[p] => r = p
  BY <1>1 DEF PathInv, Types, TypeOK, FolderInv, OneNumber, Alive
<1>3. p # q
  BY <1>1, PrefixStep
<1>4. /\ folder' \in [Paths -> Inodes \cup {None}] /\ folder'[q] = folder[p]
      /\ \A r \in Paths \ {q} : folder'[r] = IF r \in {p} THEN None ELSE folder[r]
  BY <1>1, <1>2, <1>3
<1>5. \A r \in Paths \ {q} : folder'[r] # folder[p]
  BY <1>1, <1>2, <1>4 DEF Alive
<1>6. /\ {p} \in SUBSET Paths
      /\ \A r \in {p} : ~ IsPrefix(r, q) /\ Children(r) = {}
      /\ \A r \in {p} : Alive(r)
  BY <1>1
<1>7. QED
  BY <1>1, <1>2, <1>4, <1>5, <1>6, NewFile

LEMMA PathRemove ==
    ASSUME PathInv, NEW p \in Paths, RemoveFile(p)
    PROVE  FolderInv' /\ MapsKnown' /\ MapsAgree' /\ KernelRight' /\ KernelBarred'
<1>1. /\ Alive(p) /\ Children(p) = {} /\ folder' = [folder EXCEPT ![p] = None]
      /\ used' = used /\ dentry' = dentry /\ pathToInode' = pathToInode
      /\ inodeToPath' = inodeToPath
  BY DEF RemoveFile, Alive, maps
<1>2. folder \in [Paths -> Inodes \cup {None}]
  BY DEF PathInv, Types, TypeOK
<1>3. \A q \in Paths : folder'[q] = IF q = p THEN None ELSE folder[q]
  BY <1>1, <1>2
<1>4. Tree'
  <2>1. SUFFICES ASSUME NEW r \in Paths, NEW q \in Paths, folder'[r] # None, IsPrefix(q, r)
                 PROVE  folder'[q] # None
    BY DEF Tree, Alive
  <2>2. Alive(r) /\ r # p
    BY <2>1, <1>3 DEF Alive
  <2>3. Alive(q)
    BY <2>1, <2>2 DEF PathInv, FolderInv, Tree
  <2>4. q # p
    <3>1. SUFFICES ASSUME q = p PROVE FALSE
      OBVIOUS
    <3>2. PICK c \in Paths : Front(c) = q /\ IsPrefix(c, r)
      BY <2>1, <2>2, <3>1, ChildOnTheWay
    <3>3. Alive(c)
      BY <2>2, <3>2 DEF PathInv, FolderInv, Tree
    <3>4. QED
      BY <1>1, <3>1, <3>2, <3>3 DEF Children, Alive
  <2>5. QED
    BY <2>3, <2>4, <1>3 DEF Alive
<1>5. OneNumber' /\ UsedKnown'
  BY <1>1, <1>3 DEF PathInv, FolderInv, OneNumber, UsedKnown, Alive
<1>6. MapsKnown' /\ MapsAgree' /\ KernelRight'
  BY <1>1, <1>3 DEF PathInv, MapsKnown, MapsAgree, KernelRight, Alive
<1>7. KernelBarred'
  <2>1. SUFFICES ASSUME NEW q \in Paths, dentry[q] # None, folder'[q] = None
                 PROVE  \E r \in Paths : r \in used /\ folder'[r] = None /\ IsPrefix(r, q)
    BY <1>1 DEF KernelBarred, Barred, Alive
  <2>2. CASE q = p
    <3>1. q \in used /\ IsPrefix(q, q)
      BY <2>2, <1>1, PrefixStep DEF PathInv, FolderInv, UsedKnown
    <3>2. QED
      BY <2>1, <3>1
  <2>3. CASE q # p
    <3>1. PICK r \in Paths : r \in used /\ folder[r] = None /\ IsPrefix(r, q)
      BY <2>1, <2>3, <1>3 DEF PathInv, KernelBarred, Barred, Alive
    <3>2. QED
      BY <3>1, <1>3
  <2>4. QED
    BY <2>2, <2>3
<1>8. QED
  BY <1>4, <1>5, <1>6, <1>7 DEF FolderInv

\* A directory that is there and has been looked up has its own path on record.
LEMMA ParentOnRecord ==
    ASSUME PathInv, NEW d \in Paths \cup {Root}, Exists(d), Known(d) # None
    PROVE  Known(d) \in DOMAIN inodeToPath /\ inodeToPath[Known(d)] = d
<1>1. CASE d = Root
  BY <1>1 DEF Known, PathInv, Types, TypeOK
<1>2. CASE d # Root
  <2>1. d \in Paths /\ Alive(d) /\ dentry[d] # None /\ Known(d) = dentry[d]
    BY <1>2 DEF Exists, Known, Alive
  <2>2. dentry[d] = folder[d] /\ d \in DOMAIN pathToInode
    BY <2>1 DEF PathInv, KernelRight
  <2>3. QED
    BY <2>1, <2>2 DEF PathInv, MapsAgree
<1>3. QED
  BY <1>1, <1>2

LEMMA PathLookup ==
    ASSUME PathInv, NEW p \in Paths, Lookup(p)
    PROVE  MapsKnown' /\ MapsAgree' /\ KernelRight' /\ KernelBarred'
<1> DEFINE parent == Known(Front(p))
           localPath == Append(inodeToPath[parent], Last(p))
<1>1. /\ folder' = folder /\ used' = used /\ parent # None
      /\ dentry \in [Paths -> Inodes \cup {None}]
      /\ Front(p) \in Paths \cup {Root} /\ p = Append(Front(p), Last(p))
  BY PathFacts DEF Lookup, folderVars, PathInv, Types, TypeOK
<1>2. CASE parent \in DOMAIN inodeToPath /\ Exists(localPath)
  <2>1. localPath \in Paths /\ folder[localPath] \in Inodes /\ folder[localPath] # None
    <3>1. localPath # Root
      BY <1>2, LookedUp DEF PathInv
    <3>2. QED
      BY <1>2, <3>1, LocalPath, LoopbackAssumption DEF PathInv, Types
  <2>2. /\ Record(localPath, folder[localPath])
        /\ dentry' = [dentry EXCEPT ![p] = folder[localPath]]
    BY <1>2 DEF Lookup
  <2>3. Exists(Front(p)) => localPath = p
    BY <1>1, ParentOnRecord
  <2>4. Alive(p) => localPath = p
    <3>1. SUFFICES ASSUME Alive(p) PROVE Exists(Front(p))
      BY <2>3
    <3>2. CASE Front(p) = Root
      BY <3>2 DEF Exists
    <3>3. CASE Front(p) # Root
      <4>1. Front(p) \in Paths /\ IsPrefix(Front(p), p)
        BY <1>1, <3>3, PrefixStep
      <4>2. QED
        BY <3>1, <4>1 DEF PathInv, FolderInv, Tree, Exists, Alive
    <3>4. QED
      BY <3>2, <3>3
  <2>5. ~ Alive(p) => Barred(p)
    <3>1. SUFFICES ASSUME ~ Alive(p) PROVE Barred(p)
      OBVIOUS
    <3>2. localPath # p
      BY <2>1, <3>1 DEF Alive
    <3>3. ~ Exists(Front(p))
      BY <2>3, <3>2
    <3>4. Front(p) \in Paths /\ ~ Alive(Front(p)) /\ dentry[Front(p)] # None
      BY <1>1, <3>3 DEF Exists, Alive, Known
    <3>5. PICK q \in Paths : q \in used /\ folder[q] = None /\ IsPrefix(q, Front(p))
      BY <3>4 DEF PathInv, KernelBarred, Barred
    <3>6. QED
      BY <3>5, PrefixStep DEF Barred
  <2> DEFINE inode == folder[localPath]
  <2>6. \/ /\ localPath \in DOMAIN pathToInode
           /\ pathToInode' = pathToInode /\ inodeToPath' = inodeToPath
        \/ /\ localPath \notin DOMAIN pathToInode
           /\ DOMAIN pathToInode' = DOMAIN pathToInode \cup {localPath}
           /\ DOMAIN inodeToPath' = DOMAIN inodeToPath \cup {inode}
           /\ inodeToPath'[inode] = localPath
           /\ \A i \in DOMAIN inodeToPath \ {inode} : inodeToPath'[i] = inodeToPath[i]
    <3> HIDE DEF localPath
    <3>1. QED
      BY <2>2, Recorded
  <2> HIDE DEF localPath
  <2>7. \A q \in Paths : Alive(q) /\ folder[q] = inode => q = localPath
    BY <2>1 DEF PathInv, FolderInv, OneNumber
  <2>8. localPath \in used
    BY <2>1 DEF PathInv, FolderInv, UsedKnown, Alive
  <2> HIDE DEF inode
  <2>9. MapsKnown'
    BY <1>1, <2>6, <2>8 DEF PathInv, MapsKnown
  <2>10. MapsAgree'
    <3>1. SUFFICES ASSUME NEW q \in DOMAIN pathToInode' \cap Paths, folder[q] # None
                   PROVE  folder[q] \in DOMAIN inodeToPath' /\ inodeToPath'[folder[q]] = q
      BY <1>1 DEF MapsAgree, Alive
    <3>2. CASE q = localPath /\ q \notin DOMAIN pathToInode
      BY <3>2, <2>6 DEF inode
    <3>3. CASE q \in DOMAIN pathToInode
      <4>1. folder[q] \in DOMAIN inodeToPath /\ inodeToPath[folder[q]] = q
        BY <3>1, <3>3 DEF PathInv, MapsAgree, Alive
      <4>2. folder[q] = inode => q = localPath
        BY <3>1, <2>7 DEF Alive
      <4>3. QED
        BY <3>3, <4>1, <4>2, <2>6
    <3>4. QED
      BY <3>1, <3>2, <3>3, <2>6
  <2>11. \A q \in Paths : dentry'[q] = IF q = p THEN inode ELSE dentry[q]
    BY <1>1, <2>2 DEF inode
  <2>12. localPath \in DOMAIN pathToInode' /\ DOMAIN pathToInode \subseteq DOMAIN pathToInode'
    BY <2>6
  <2>13. KernelRight'
    <3>1. SUFFICES ASSUME NEW q \in Paths, folder[q] # None, dentry'[q] # None
                   PROVE  dentry'[q] = folder[q] /\ q \in DOMAIN pathToInode'
      BY <1>1 DEF KernelRight, Alive
    <3>2. CASE q = p
      BY <3>1, <3>2, <2>4, <2>11, <2>12 DEF Alive, inode
    <3>3. CASE q # p
      BY <3>1, <3>3, <2>11, <2>12 DEF PathInv, KernelRight, Alive
    <3>4. QED
      BY <3>2, <3>3
  <2>14. KernelBarred'
    <3>1. SUFFICES ASSUME NEW q \in Paths, dentry'[q] # None, ~ Alive(q) PROVE Barred(q)
      BY <1>1 DEF KernelBarred, Alive, Barred
    <3>2. CASE q = p
      BY <3>1, <3>2, <2>5
    <3>3. CASE q # p
      BY <3>1, <3>3, <2>11 DEF PathInv, KernelBarred
    <3>4. QED
      BY <3>2, <3>3
  <2>15. QED
    BY <2>9, <2>10, <2>13, <2>14
<1>3. CASE ~ (parent \in DOMAIN inodeToPath /\ Exists(localPath))
  <2>1. /\ dentry' = [dentry EXCEPT ![p] = None]
        /\ pathToInode' = pathToInode /\ inodeToPath' = inodeToPath
    BY <1>3 DEF Lookup, maps
  <2>2. \A q \in Paths : dentry'[q] # None => dentry'[q] = dentry[q]
    BY <1>1, <2>1
  <2>3. MapsKnown' /\ MapsAgree' /\ KernelRight'
    BY <1>1, <2>1, <2>2 DEF PathInv, MapsKnown, MapsAgree, KernelRight, Alive
  <2>4. KernelBarred'
    BY <1>1, <2>1, <2>2 DEF PathInv, KernelBarred, Barred, Alive
  <2>5. QED
    BY <2>3, <2>4
<1>4. QED
  BY <1>2, <1>3

LEMMA PathNext == ASSUME ~ Rebind, PathInv, [Next]_vars PROVE PathInv'
<1>1. Types'
  BY TypesNext DEF PathInv
<1>2. ASSUME folder' = folder, used' = used, pathToInode' = pathToInode, dentry' = dentry,
             DOMAIN inodeToPath \subseteq DOMAIN inodeToPath',
             \A i \in DOMAIN inodeToPath : inodeToPath'[i] = inodeToPath[i]
      PROVE  FolderInv' /\ MapsKnown' /\ MapsAgree' /\ KernelRight' /\ KernelBarred'
  <2>1. FolderInv'
    BY <1>2 DEF PathInv, FolderInv, Tree, OneNumber, UsedKnown, Alive
  <2>2. MapsKnown' /\ MapsAgree' /\ KernelRight' /\ KernelBarred'
    BY <1>2 DEF PathInv, MapsKnown, MapsAgree, KernelRight, KernelBarred, Barred, Alive
  <2>3. QED
    BY <2>1, <2>2
<1>3. FolderInv' /\ MapsKnown' /\ MapsAgree' /\ KernelRight' /\ KernelBarred'
  <2>1. CASE \E p \in Paths, i \in Inodes : CreateFile(p, i)
    BY <2>1, PathCreate
  <2>2. CASE \E p \in Paths : RemoveFile(p)
    BY <2>2, PathRemove
  <2>3. CASE \E p, q \in Paths : RenameFile(p, q)
    BY <2>3, PathRename
  <2>4. CASE \E p \in Paths : Lookup(p)
    <3>1. FolderInv'
      BY <2>4 DEF Lookup, folderVars, PathInv, FolderInv, Tree, OneNumber, UsedKnown, Alive
    <3>2. QED
      BY <2>4, <3>1, PathLookup
  <2>5. CASE \E p \in Paths \cup {Root}, r \in Readers : ReadDir(p, r)
    BY <2>5, <1>2 DEF ReadDir, folderVars, maps
  <2>6. CASE \E r \in Readers : ReadDirCallback(r)
    <3>1. /\ DOMAIN inodeToPath \subseteq DOMAIN inodeToPath'
          /\ \A i \in DOMAIN inodeToPath : inodeToPath'[i] = inodeToPath[i]
          /\ UNCHANGED <<folderVars, pathToInode, dentry>>
      BY <2>6, CallbackMap DEF PathInv
    <3>2. QED
      BY <3>1, <1>2 DEF folderVars
  <2>7. CASE UNCHANGED vars
    BY <2>7, <1>2 DEF vars, folderVars, maps
  <2>8. QED
    BY <2>1, <2>2, <2>3, <2>4, <2>5, <2>6, <2>7 DEF Next
<1>4. QED
  BY <1>1, <1>3 DEF PathInv

\* loopback.js:10-11: while no path is used again, getattr with the number that the
\* kernel has for a file replies the attributes of that file.
THEOREM NumbersResolve == ASSUME ~ Rebind PROVE Spec => []KnownInodesResolve
<1>1. PathInv => KnownInodesResolve
  <2>1. SUFFICES ASSUME PathInv, NEW p \in Paths, dentry[p] # None, dentry[p] = folder[p]
                 PROVE  GetAttr(dentry[p]) = dentry[p]
    BY DEF KnownInodesResolve
  <2>2. /\ folder[p] \in DOMAIN inodeToPath /\ inodeToPath[folder[p]] = p
        /\ folder[p] # RootInode
    BY <2>1, LoopbackAssumption
       DEF PathInv, KernelRight, MapsAgree, Alive, Types, TypeOK
  <2>3. Exists(p) /\ p # Root
    BY <2>1, PathFacts DEF Exists
  <2>4. QED
    BY <2>1, <2>2, <2>3 DEF GetAttr
<1>2. PathInv /\ [Next]_vars => PathInv'
  BY PathNext
<1>3. QED
  BY <1>1, <1>2, PathInit, PTL DEF Spec

\* The numbers are not merely consistent: what the kernel has been told of a file that
\* is there is that file's number, however the directories on the way to it have
\* been renamed meanwhile.
THEOREM KernelNumbersRight ==
    ASSUME ~ Rebind
    PROVE  Spec => [](\A p \in Paths : folder[p] # None /\ dentry[p] # None =>
                                          dentry[p] = folder[p])
<1>1. PathInv => \A p \in Paths : folder[p] # None /\ dentry[p] # None => dentry[p] = folder[p]
  BY DEF PathInv, KernelRight, Alive
<1>2. PathInv /\ [Next]_vars => PathInv'
  BY PathNext
<1>3. QED
  BY <1>1, <1>2, PathInit, PTL DEF Spec
=============================================================================
