------------------------------ MODULE Replies ------------------------------
(***************************************************************************)
(* The methods of a Reply object (src/reply.cc): what each of them does    *)
(* with the arguments that a file system gives it.                         *)
(*                                                                         *)
(* Two things make them unlike ordinary checked functions.                 *)
(* Nan::ThrowTypeError only leaves an exception pending: the method goes   *)
(* on, with the argument as it is, and as a rule still replies.  And an    *)
(* argument that is not there is `undefined', whose ToObject() is an empty *)
(* handle: using it takes the process down.                                *)
(***************************************************************************)
EXTENDS Integers, Sequences

-----------------------------------------------------------------------------
(* JavaScript values, by what the methods tell apart.                      *)

Kinds == {"undefined", "number", "fraction", "text", "stat", "entry", "fileInfo",
          "buffer"}

\* A value of some kind that is not a number; n is what IntegerValue makes of it.
Value(kind) == [kind |-> kind, n |-> 0]
\* A number that fits an int32_t, and one that does not, or has a fraction.
Number(n) == [kind |-> "number", n |-> n]
Fraction(n) == [kind |-> "fraction", n |-> n]

Undefined == Value("undefined")

IsObject(v) == v.kind \in {"stat", "entry", "fileInfo", "buffer"}
IsNumber(v) == v.kind \in {"number", "fraction"}
IsInt32(v) == v.kind = "number"
IsString(v) == v.kind = "text"

\* `args[i - 1]': undefined beyond the last argument.
Arg(args, i) == IF i \in DOMAIN args THEN args[i] ELSE Undefined

\* Reply::Initialize: the methods that JavaScript can call.  Lock and BMap are
\* defined in the file but not among them.
Methods == {"entry", "attr", "readlink", "err", "open", "buffer", "write", "statfs",
            "create", "xattr", "addDirEntry", "none"}

\* A handler of a file system is taken for the paths through its code, sequences
\* of the steps that matter here: a call of a Reply method, an exception, the wait
\* for a callback, the beginning and the end of a catch block.
Steps == [do : {"reply", "throw", "await", "catch", "end"}, method : Methods,
          args : Seq([kind : Kinds, n : Int])]
Calls(method, args) == [do |-> "reply", method |-> method, args |-> args]
Throws == [do |-> "throw", method |-> "none", args |-> <<>>]
Awaits == [do |-> "await", method |-> "none", args |-> <<>>]
\* `try { path } catch (err) { handler }': the replies and exceptions right before a
\* catch are those of its try block.
Try(path, handler) ==
    path \o <<[do |-> "catch", method |-> "none", args |-> <<>>]>>
    \o handler \o <<[do |-> "end", method |-> "none", args |-> <<>>]>>

-----------------------------------------------------------------------------
(* What a call of a method does: the answer that libfuse sends (none or    *)
(* one), whether an exception is left pending, whether the process dies.   *)

\* An answer of libfuse to the kernel: with data, or only with an error number.
Data(kind) == [kind |-> kind, errno |-> 0]
Errno(n) == [kind |-> "err", errno |-> n]

Sends(answer, throws) == [answer |-> <<answer>>, throws |-> throws, crashes |-> FALSE]
Nothing(throws) == [answer |-> <<>>, throws |-> throws, crashes |-> FALSE]
Crashes == [answer |-> <<>>, throws |-> FALSE, crashes |-> TRUE]

ERANGE == 34
\* fuse_reply_err: the kernel only takes error numbers from 0 to 999.
FuseReplyErr(n) == Errno(IF n \in 0..999 THEN n ELSE ERANGE)

\* ObjectToFuseEntryParam needs an object whose `attr' is one; ObjectToStat and
\* ObjectToStatVfs take whatever ToObject() makes an object of.
EntryParam(v) == v.kind = "entry"
ToObject(v) == v # Undefined

Entry(args) ==
    IF EntryParam(Arg(args, 1)) THEN Sends(Data("entry"), FALSE) ELSE Crashes

\* A timeout of the wrong kind throws, too.
Attributes(args) ==
    IF ToObject(Arg(args, 1))
    THEN Sends(Data("attr"), \/ ~ IsObject(Arg(args, 1))
                             \/ Len(args) = 2 /\ ~ IsNumber(args[2]))
    ELSE Crashes

ReadLink(args) == Sends(Data("readlink"), ~ IsString(Arg(args, 1)))

\* Broken: the check returns.
ErrorReturns(args) ==
    IF IsInt32(Arg(args, 1)) THEN Sends(FuseReplyErr(Arg(args, 1).n), FALSE)
    ELSE Nothing(TRUE)

\* Without a number the error is 0, which is success.
Error(args) == Sends(FuseReplyErr(Arg(args, 1).n), ~ IsInt32(Arg(args, 1)))

\* Unwrap<FileInfo> on anything but a FileInfo.
Open(args) ==
    IF Arg(args, 1).kind = "fileInfo" THEN Sends(Data("open"), FALSE) ELSE Crashes

\* Broken: the branches for a dentry_buffer are missing.
BufferWithoutLayout(layout, args) ==
    CASE layout -> Nothing(FALSE)
      [] ~ layout /\ Arg(args, 1).kind = "buffer" -> Sends(Data("buf"), FALSE)
      [] OTHER -> Crashes

\* `layout': addDirEntry has been called, so dentry_buffer is there and the
\* Buffer that was given is not looked at (DirStream says what is sent then).
Buffer(layout, args) ==
    LET ok == Arg(args, 1).kind = "buffer" /\ IsNumber(Arg(args, 2)) IN
    IF layout \/ Arg(args, 1).kind = "buffer"
    THEN Sends(Data("buf"), ~ ok)
    ELSE Crashes

Write(args) == Sends(Data("write"), ~ IsNumber(Arg(args, 1)))

StatFs(args) ==
    IF ToObject(Arg(args, 1)) THEN Sends(Data("statfs"), ~ IsObject(Arg(args, 1)))
    ELSE Crashes

Create(args) ==
    IF EntryParam(Arg(args, 1)) /\ Arg(args, 2).kind = "fileInfo"
    THEN Sends(Data("create"), FALSE)
    ELSE Crashes

XAttributes(args) == Sends(Data("xattr"), ~ IsInt32(Arg(args, 1)))

\* The stat is ToObject()'s.  Nothing is sent before `buffer'.
AddDirEntry(args) ==
    IF ToObject(Arg(args, 3))
    THEN Nothing(~ /\ IsString(Arg(args, 1)) /\ IsNumber(Arg(args, 2))
                   /\ IsObject(Arg(args, 3)) /\ IsNumber(Arg(args, 4)))
    ELSE Crashes

\* fuse_reply_none frees the request and sends nothing to the kernel.
None == Sends(Data("none"), FALSE)

Outcome(method, layout, args) ==
    CASE method = "entry"       -> Entry(args)
      [] method = "attr"        -> Attributes(args)
      [] method = "readlink"    -> ReadLink(args)
      [] method = "err"         -> Error(args)
      [] method = "open"        -> Open(args)
      [] method = "buffer"      -> Buffer(layout, args)
      [] method = "write"       -> Write(args)
      [] method = "statfs"      -> StatFs(args)
      [] method = "create"      -> Create(args)
      [] method = "xattr"       -> XAttributes(args)
      [] method = "addDirEntry" -> AddDirEntry(args)
      [] OTHER                  -> None
=============================================================================
