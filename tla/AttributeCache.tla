--------------------------- MODULE AttributeCache ---------------------------
(***************************************************************************)
(* The attributes of a file of the loopback file system on their way to a  *)
(* program: fs.statSync gives Dates, the handlers of examples/loopback.js  *)
(* pass them on as they are (lookup) or as seconds (getattr), the          *)
(* conversions of src/node_fuse.cc make a struct stat of them, and the     *)
(* kernel keeps it for as long as the reply says.  Meanwhile the file      *)
(* changes behind the mount.                                               *)
(*                                                                         *)
(* The modification time stands for the attributes.  A time is a number of *)
(* clock ticks, a tick being a millisecond in the code.                    *)
(***************************************************************************)
EXTENDS Integers

CONSTANTS Second,      \* ticks of a second, 1000 in the code
          Timeout,     \* seconds that getattr's reply is valid for, 5 in the code
          Start,       \* bound: the clock's first value
          End          \* bound: its last value

ASSUME AttributeCacheAssumption ==
    /\ Second \in Nat \ {0} /\ Timeout \in Nat
    /\ End \in Nat /\ Start \in 1..End

VARIABLES
    now,       \* the clock
    mtime,     \* of the file, in ticks
    past,      \* history: [ticks up to now -> the times the file had then]
    cached,    \* the time the kernel has, in seconds
    expires,   \* when the kernel's attributes cease to be valid
    seen       \* history: the last stat of the mounted file, <<>> or a record of when
               \* it was, the time it showed and the file's own time, both in ticks,
               \* and whether getattr was called for it

vars == <<now, mtime, past, cached, expires, seen>>

Init ==
    /\ now = Start /\ mtime \in 0..Start
    /\ past = [t \in {Start} |-> {mtime}]
    /\ cached = 0 /\ expires = 0
    /\ seen = <<>>

-----------------------------------------------------------------------------
(* Conversions.                                                            *)

\* A JavaScript value: a Date or a number.
Date(t) == [date |-> TRUE, n |-> t]
Number(n) == [date |-> FALSE, n |-> n]

\* value->IntegerValue(): a Date gives its milliseconds.
IntegerValue(v) == v.n

\* ObjectToStat: the member is taken for seconds.  The fraction stays 0.
ObjectToStat(attr) == IntegerValue(attr)

\* Math.floor(date.getTime() / 1000).
Seconds(t) == t \div Second

\* Broken: an entry without attr_timeout gets a second.
EntryParamWithDefault(attr) == [attr |-> ObjectToStat(attr), timeout |-> 1]

\* ObjectToFuseEntryParam of an entry without attr_timeout: undefined gives 0.
EntryParam(attr) == [attr |-> ObjectToStat(attr), timeout |-> 0]

\* Broken: the timeout is passed on in milliseconds.
AttrReplyMilliseconds(attr) == [attr |-> ObjectToStat(attr), timeout |-> Timeout * Second]

\* reply.attr(stat, 5).
AttrReply(attr) == [attr |-> ObjectToStat(attr), timeout |-> Timeout]

-----------------------------------------------------------------------------
Tick ==
    /\ now < End
    /\ now' = now + 1
    /\ past' = [t \in Start..now' |-> IF t = now' THEN {mtime} ELSE past[t]]
    /\ UNCHANGED <<mtime, cached, expires, seen>>

\* Somebody writes to the file in the folder.
Touch ==
    /\ mtime # now
    /\ mtime' = now
    /\ past' = [past EXCEPT ![now] = @ \cup {now}]
    /\ UNCHANGED <<now, cached, expires, seen>>

\* The kernel: attributes without a timeout are not valid at all.
Keep(reply) ==
    /\ cached' = reply.attr
    /\ expires' = IF reply.timeout = 0 THEN 0 ELSE now + reply.timeout * Second

Valid == now <= expires

\* What a program sees: the kernel has whole seconds.
Show(asked) ==
    seen' = <<[at |-> now, time |-> cached' * Second, file |-> mtime, asked |-> asked]>>

\* A lookup of the path, which precedes every stat or open of it.
Lookup ==
    /\ Keep(EntryParam(Date(mtime)))
    /\ UNCHANGED <<now, mtime, past, seen>>

\* A program's stat while the kernel has nothing valid: getattr is called.
GetAttr ==
    /\ ~ Valid
    /\ Keep(AttrReply(Number(Seconds(mtime))))
    /\ Show(TRUE)
    /\ UNCHANGED <<now, mtime, past>>

\* A stat, of an open file say, that the kernel answers by itself.
StatCached ==
    /\ Valid
    /\ UNCHANGED <<now, mtime, past, cached, expires>>
    /\ Show(FALSE)

Next == Tick \/ Touch \/ Lookup \/ GetAttr \/ StatCached

Spec == Init /\ [][Next]_vars

-----------------------------------------------------------------------------
(* Properties.                                                             *)

TypeOK ==
    /\ now \in Start..End /\ mtime \in 0..now
    /\ past \in [Start..now -> SUBSET (0..now)]
    /\ cached \in 0..now
    /\ expires \in 0..(now + Timeout * Second)
    /\ seen = <<>> \/ seen[1] \in [at : Start..now, time : Nat, file : 0..now, asked : BOOLEAN]

\* loopback.js:103: attributes are valid for 5 seconds.  What a stat shows is, to the
\* second, what the file had at some moment of the 5 seconds before it; the kernel's
\* other values, the milliseconds that lookup replies, are never shown.
ShownIsRecent ==
    \A i \in DOMAIN seen :
        \E t \in DOMAIN past :
            /\ t \in (seen[i].at - Timeout * Second)..seen[i].at
            /\ \E m \in past[t] : seen[i].time = Seconds(m) * Second

\* test_loopback.js:143: the modification time that stat shows through the mount is
\* the file's own; a millisecond is granted here, as line 138 does for atime.
TimesAgree ==
    \A i \in DOMAIN seen : seen[i].asked => seen[i].time - seen[i].file \in -1..1
=============================================================================
