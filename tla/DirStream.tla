----------------------------- MODULE DirStream -----------------------------
(***************************************************************************)
(* A directory listed through fusejs: the kernel's readdir requests, the   *)
(* readdir of the loopback file system (examples/loopback.js), and the two *)
(* Reply methods it uses, addDirEntry and buffer (src/reply.cc).           *)
(*                                                                         *)
(* For every request the file system reads the whole directory again and   *)
(* lays it out in the Reply's dentry_buffer, one entry behind the other.   *)
(* An entry's cookie is the byte position behind it.  The kernel asks with *)
(* the cookie of the last entry that its caller took, and `buffer' sends   *)
(* the bytes from there on, as many as were asked for, so an answer may    *)
(* end in the middle of an entry.  It is right only if the layout is the   *)
(* same every time.                                                        *)
(***************************************************************************)
EXTENDS Integers, Sequences, SequencesExt

CONSTANTS Readers,        \* open directory handles
          Directories,    \* what the directory may hold: sequences of names
          Broken,         \* the names statSync throws for: dangling links
          EntrySize,      \* [name -> bytes of its entry]
          RequestedSize,  \* bytes the kernel asks for
          PerFile,        \* the 256 of `files.length * 256'
          SizeRange,      \* 2^w for the w bits of a size_t
          Hole,           \* bytes that nobody has written
          MaxRewinds      \* bound: how often one reader goes back

\* The kernel asks for a page or more, and an entry never fills a page.
ASSUME DirStreamAssumption ==
    /\ \A d \in Directories : d \in Seq(DOMAIN EntrySize) /\ IsInjective(d)
    /\ \A e \in DOMAIN EntrySize : EntrySize[e] \in 1..RequestedSize
    /\ Hole \notin DOMAIN EntrySize
    /\ SizeRange \in Nat /\ RequestedSize \in 0..(SizeRange - 1)
    /\ PerFile \in Nat /\ MaxRewinds \in Nat

VARIABLES
    dir,      \* the names, in the order fs.readdir reports them
    pc,       \* [Readers -> where its listing is]
    taken,    \* [Readers -> the entries its caller has taken]
    files,    \* [Readers -> the files that the loop over its directory has left]
    reply,    \* [Readers -> the Reply of its request]
    answer,   \* [Readers -> the whole entries of the answer it has got]
    rewinds   \* [Readers -> how often it has gone back]

vars == <<dir, pc, taken, files, reply, answer, rewinds>>

-----------------------------------------------------------------------------
(* Reply: dentry_buffer, with dentry_acc_size and dentry_offset.           *)

\* A Reply before any addDirEntry; its dentry_buffer is NULL.
NewReply == [entries |-> <<>>, acc_size |-> 0, offset |-> 0]

\* reply.addDirEntry(name, size, stat, offset).  fuse_add_direntry writes the
\* entry only if it fits in `size - acc_size', an unsigned difference; the place
\* is taken either way.
AddDirEntry(rep, name, size, offset) ==
    LET acc == rep.acc_size
        len == EntrySize[name]
    IN  [entries |-> Append(rep.entries,
             [name |-> IF len <= (size - acc) % SizeRange THEN name ELSE Hole,
              from |-> acc, to |-> acc + len, cookie |-> acc + len]),
         acc_size |-> acc + len,
         offset |-> offset]

\* A stretch of memory that holds no entry.
Stray(size) == [name |-> Hole, from |-> 0, to |-> size, cookie |-> size]

\* The whole entries among the bytes of a layout from one position to another.
WholeEntries(entries, from, to) ==
    IF \E i \in DOMAIN entries : entries[i].from = from
    THEN LET first == CHOOSE i \in DOMAIN entries : entries[i].from = from
             last == Max({first - 1} \cup {i \in DOMAIN entries : entries[i].to <= to})
         IN  SubSeq(entries, first, last)
    ELSE <<Stray(to - from)>>

\* The macro MIN.
Least(x, y) == IF x < y THEN x ELSE y

\* Broken: the bytes from the start of the layout on; no answer but full ones.
BufferFromStart(rep, size) ==
    IF rep.entries = <<>> THEN <<Stray(size)>>
    ELSE WholeEntries(rep.entries, 0, Least(rep.acc_size, size))
BufferOnlyFull(rep, size) ==
    CASE rep.entries = <<>> -> <<Stray(size)>>
      [] rep.entries # <<>> /\ rep.offset + size <= rep.acc_size ->
             WholeEntries(rep.entries, rep.offset, rep.offset + size)
      [] OTHER -> <<>>

\* reply.buffer(new Buffer(0), size): what reaches the kernel.  Without a layout
\* it is `size' bytes at the address of the empty Buffer's data.
BufferReply(rep, size) ==
    CASE rep.entries = <<>> -> <<Stray(size)>>
      [] rep.entries # <<>> /\ rep.offset < rep.acc_size ->
             WholeEntries(rep.entries, rep.offset,
                          rep.offset + Least(rep.acc_size - rep.offset, size))
      [] OTHER -> <<>>

-----------------------------------------------------------------------------
(* The file system.                                                        *)

\* The files that can be listed, among the first n for each n: statSync must not throw.
ListableAmong(d) ==
    LET among[n \in 0..Len(d)] ==
            IF n = 0 THEN <<>>
            ELSE IF d[n] \in Broken THEN among[n - 1] ELSE Append(among[n - 1], d[n])
    IN  among
Listable(d) == ListableAmong(d)[Len(d)]

\* Where the kernel goes on reading for a caller that has taken these entries.
Cookie(entries) == IF entries = <<>> THEN 0 ELSE Last(entries).cookie

\* Broken: no more space than the kernel asked for.
LayoutSizeRequested(count) == RequestedSize

\* `const size': the space that readdir says the entries of so many files have.
LayoutSize(count) ==
    IF RequestedSize < count * PerFile THEN count * PerFile ELSE RequestedSize

Init ==
    /\ dir \in Directories
    /\ pc = [r \in Readers |-> "closed"]
    /\ taken = [r \in Readers |-> <<>>]
    /\ files = [r \in Readers |-> <<>>]
    /\ reply = [r \in Readers |-> NewReply]
    /\ answer = [r \in Readers |-> <<>>]
    /\ rewinds = [r \in Readers |-> 0]

-----------------------------------------------------------------------------
(* The kernel and its callers.                                             *)

\* opendir: the loopback replies with the fileInfo it was given.
Open(r) ==
    /\ pc[r] = "closed"
    /\ pc' = [pc EXCEPT ![r] = "reading"]
    /\ UNCHANGED <<dir, taken, files, reply, answer, rewinds>>

\* The caller wants more, and the kernel sends a readdir request.
Ask(r) ==
    /\ pc[r] = "reading"
    /\ pc' = [pc EXCEPT ![r] = "asked"]
    /\ UNCHANGED <<dir, taken, files, reply, answer, rewinds>>

\* fs.readdir calls back with the files.  The callback is one turn of the event
\* loop: it runs to its end before another one starts.
ScanFiles(r) ==
    /\ pc[r] = "asked"
    /\ \A q \in Readers : pc[q] # "filling"
    /\ files' = [files EXCEPT ![r] = dir]
    /\ pc' = [pc EXCEPT ![r] = "filling"]
    /\ UNCHANGED <<dir, taken, reply, answer, rewinds>>

\* One turn of `for (let file of files)': a file whose statSync throws is skipped.
AddFile(r) ==
    /\ pc[r] = "filling" /\ files[r] # <<>>
    /\ reply' = [reply EXCEPT ![r] =
          IF Head(files[r]) \in Broken THEN @
          ELSE AddDirEntry(@, Head(files[r]), LayoutSize(Len(dir)), Cookie(taken[r]))]
    /\ files' = [files EXCEPT ![r] = Tail(@)]
    /\ UNCHANGED <<dir, pc, taken, answer, rewinds>>

\* Broken: one Reply for all requests of a handle; no answer without entries.
AnswerKeepsReply(r) ==
    /\ pc[r] = "filling" /\ files[r] = <<>>
    /\ answer' = [answer EXCEPT ![r] = BufferReply(reply[r], RequestedSize)]
    /\ pc' = [pc EXCEPT ![r] = "answered"]
    /\ UNCHANGED <<dir, taken, files, reply, rewinds>>
AnswerOnlyEntries(r) ==
    /\ pc[r] = "filling" /\ files[r] = <<>>
    /\ BufferReply(reply[r], RequestedSize) # <<>>
    /\ answer' = [answer EXCEPT ![r] = BufferReply(reply[r], RequestedSize)]
    /\ reply' = [reply EXCEPT ![r] = NewReply]
    /\ pc' = [pc EXCEPT ![r] = "answered"]
    /\ UNCHANGED <<dir, taken, files, rewinds>>

\* reply.buffer, and the kernel gets the answer.
Answer(r) ==
    /\ pc[r] = "filling" /\ files[r] = <<>>
    /\ answer' = [answer EXCEPT ![r] = BufferReply(reply[r], RequestedSize)]
    /\ reply' = [reply EXCEPT ![r] = NewReply]
    /\ pc' = [pc EXCEPT ![r] = "answered"]
    /\ UNCHANGED <<dir, taken, files, rewinds>>

\* fs.readdir fails, or the inode has no path: reply.err.
AnswerError(r) ==
    /\ pc[r] = "asked"
    /\ pc' = [pc EXCEPT ![r] = "failed"]
    /\ UNCHANGED <<dir, taken, files, reply, answer, rewinds>>

\* The caller takes as many entries of the answer as it has room for.
Take(r) ==
    /\ pc[r] = "answered" /\ answer[r] # <<>>
    /\ \E n \in 1..Len(answer[r]) :
          taken' = [taken EXCEPT ![r] = @ \o SubSeq(answer[r], 1, n)]
    /\ answer' = [answer EXCEPT ![r] = <<>>]
    /\ pc' = [pc EXCEPT ![r] = "reading"]
    /\ UNCHANGED <<dir, files, reply, rewinds>>

\* An answer without a whole entry is the end of the directory.
End(r) ==
    /\ pc[r] = "answered" /\ answer[r] = <<>>
    /\ pc' = [pc EXCEPT ![r] = "ended"]
    /\ UNCHANGED <<dir, taken, files, reply, answer, rewinds>>

\* seekdir to an entry taken before, or rewinddir.
Rewind(r) ==
    /\ pc[r] \in {"reading", "ended"}
    /\ rewinds[r] < MaxRewinds
    /\ \E n \in 0..(Len(taken[r]) - 1) :
          taken' = [taken EXCEPT ![r] = SubSeq(@, 1, n)]
    /\ rewinds' = [rewinds EXCEPT ![r] = @ + 1]
    /\ pc' = [pc EXCEPT ![r] = "reading"]
    /\ UNCHANGED <<dir, files, reply, answer>>

\* releasedir.
Close(r) ==
    /\ pc[r] \in {"reading", "ended", "failed"}
    /\ pc' = [pc EXCEPT ![r] = "closed"]
    /\ taken' = [taken EXCEPT ![r] = <<>>]
    /\ rewinds' = [rewinds EXCEPT ![r] = 0]
    /\ UNCHANGED <<dir, files, reply, answer>>

\* Files come and go, but not under a listing.
Change ==
    /\ \A r \in Readers : pc[r] = "closed"
    /\ dir' \in Directories
    /\ UNCHANGED <<pc, taken, files, reply, answer, rewinds>>

Next ==
    \/ Change
    \/ \E r \in Readers :
          \/ Open(r) \/ Ask(r) \/ AnswerError(r)
          \/ ScanFiles(r) \/ AddFile(r) \/ Answer(r)
          \/ Take(r) \/ End(r) \/ Rewind(r) \/ Close(r)

\* Answers come, and a caller that has begun goes on to the end.
Fairness ==
    \A r \in Readers :
        /\ WF_vars(Ask(r) \/ AddFile(r) \/ Answer(r) \/ Take(r) \/ End(r))
        /\ SF_vars(ScanFiles(r))

Spec == Init /\ [][Next]_vars /\ Fairness

-----------------------------------------------------------------------------
(* Properties.                                                             *)

\* What a right listing asks of the directories: the entries take no more space
\* than readdir reckons with, the layout has a size, and there is something to lay
\* out.  Without the first, see LongNames.cfg; without the last, EmptyListing.cfg.
SoundListing ==
    /\ \A e \in DOMAIN EntrySize : EntrySize[e] <= PerFile
    /\ \A d \in Directories : Len(d) * PerFile < SizeRange /\ Listable(d) # <<>>

\* The names a sequence of entries shows.
Names(entries) == [i \in DOMAIN entries |-> entries[i].name]

TypeOK ==
    /\ dir \in Directories
    /\ pc \in [Readers -> {"closed", "reading", "asked", "filling", "answered", "ended",
                          "failed"}]
    /\ \A r \in Readers :
          /\ pc[r] = "closed" => taken[r] = <<>> /\ rewinds[r] = 0
          /\ pc[r] # "answered" => answer[r] = <<>>
          /\ pc[r] # "filling" => files[r] = <<>> /\ reply[r] = NewReply
          /\ rewinds[r] \in 0..MaxRewinds

\* However the answers are cut, whatever part of them a caller takes and wherever
\* it goes back to, it sees the directory's files in order, none twice, none
\* missing in between.
ListsInOrder == \A r \in Readers : IsPrefix(Names(taken[r]), Listable(dir))

\* The kernel never reads bytes that addDirEntry has not written.
AnswersAreEntries ==
    \A r \in Readers : \A i \in DOMAIN answer[r] : answer[r][i].name # Hole

\* The end is reported only when every file that can be listed has been.
EndIsComplete ==
    \A r \in Readers : pc[r] = "ended" => Names(taken[r]) = Listable(dir)

\* test/test_loopback.js:41-44: a listing of the mounted directory has as many
\* names as one of the directory behind it, and the same.
SameContent ==
    \A r \in Readers : pc[r] = "ended" => Names(taken[r]) = dir

\* A listing comes to its end: each answer has a whole entry for the caller.
ListingEnds ==
    \A r \in Readers : pc[r] = "reading" ~> pc[r] \in {"ended", "failed", "closed"}
=============================================================================
