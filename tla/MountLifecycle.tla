--------------------------- MODULE MountLifecycle ---------------------------
(***************************************************************************)
(* Mount, unmount and the session thread (src/bindings.cc).                *)
(*                                                                         *)
(* fuse.js makes one Fuse object and exports it, so every mount() of the   *)
(* process uses the same fields: `fuse' below.  The thread that mount m    *)
(* starts reads them again at every step.  The ring and uv_async_handle    *)
(* are static.  The ring is a sequence here; how it fills and drains is in *)
(* AsyncBridge.                                                            *)
(***************************************************************************)
EXTENDS Integers, Sequences, SequencesExt

CONSTANTS
    MaxMounts,    \* bound: mounts of one process
    MaxRequests,  \* bound: requests of the kernel to one mount, init included
    Ends,         \* what may end a session: "unmount" (the method), "umount" (the
                  \* command), "signal" (to the session thread), "error" (of the device)
    Failures,     \* what may fail: "parse", "mount", "object", "thread", "session",
                  \* "handlers"
    Options,      \* the options mount() may be given, sequences of "program", "mountpoint"
    Remount       \* when mount() is called again: "settled", once nothing is queued or
                  \* being closed, or "ended", once the last thread is done

ASSUME MountAssumption ==
    /\ MaxMounts \in Nat /\ MaxRequests \in Nat
    /\ Ends \subseteq {"unmount", "umount", "signal", "error"}
    /\ Failures \subseteq {"parse", "mount", "object", "thread", "session", "handlers"}
    /\ Options \subseteq Seq({"program", "mountpoint"})
    /\ Remount \in {"settled", "ended"}

Mounts == 1..MaxMounts
NoMount == 0

VARIABLES
    mounts,    \* how often mount() has been called
    jPc,       \* the JavaScript thread: "idle", "dispatch", or where mount() is
    fuse,      \* fields of the Fuse object: the mount that each was set for
    args,      \* [Mounts -> its fuse_args]
    channel,   \* [Mounts -> its fuse_chan, mounted until fuse_unmount]
    device,    \* [Mounts -> the kernel's end]
    session,   \* [Mounts -> its fuse_session]
    exited,    \* [Mounts -> the session's exit flag]
    asked,     \* [Mounts -> requests that its session has taken]
    tPc,       \* [Mounts -> where its session thread is]
    handle,    \* uv_async_handle
    wake,      \* its pending flag
    ring,      \* commands queued: [handler, session]
    calls,     \* history: calls made to file system objects
    options,   \* the options of the last mount()
    status     \* of the process

jsVars == <<mounts, jPc, options>>
resourceVars == <<args, channel, session>>
kernelVars == <<device, asked>>
queueVars == <<handle, wake, ring>>
vars == <<jsVars, fuse, resourceVars, kernelVars, exited, tPc, queueVars, calls, status>>

Protocol == INSTANCE SessionProtocol

Init ==
    /\ mounts = 0 /\ jPc = "idle" /\ options = <<>>
    /\ fuse = [fargs |-> NoMount, channel |-> NoMount, session |-> NoMount,
               fsobj |-> NoMount]
    /\ args = [m \in Mounts |-> "none"]
    /\ channel = [m \in Mounts |-> "none"]
    /\ device = [m \in Mounts |-> "none"]
    /\ session = [m \in Mounts |-> "none"]
    /\ exited = [m \in Mounts |-> FALSE]
    /\ asked = [m \in Mounts |-> 0]
    /\ tPc = [m \in Mounts |-> "none"]
    /\ handle = "none" /\ wake = FALSE /\ ring = <<>>
    /\ calls = <<>>
    /\ status = "up"

-----------------------------------------------------------------------------
(* The JavaScript thread: mount().  Its argument checks return before      *)
(* anything has changed, but for the one of the number of options.         *)

\* When the program calls mount() again.
MayMount ==
    /\ \A m \in Mounts : tPc[m] \in {"none", "ended"}
    /\ Remount = "settled" => ring = <<>> /\ handle # "closing"

\* The options that fuse_parse_cmdline sees.  Without any, `--help' is stored
\* at index 1 and counted: the one option read, at index 0, is undefined.
Parsed(given) ==
    LET stored == IF given = <<>> THEN <<"undefined", "--help">> ELSE given
        argc == IF given = <<>> THEN 1 ELSE Len(given)
    IN  SubSeq(stored, 1, argc)

\* malloc and fuse_opt_add_arg, then fuse_parse_cmdline.
MountArguments ==
    /\ status = "up" /\ jPc = "idle"
    /\ mounts < MaxMounts /\ MayMount
    /\ mounts' = mounts + 1
    /\ args' = [args EXCEPT ![mounts'] = "live"]
    /\ fuse' = [fuse EXCEPT !.fargs = mounts']
    /\ options' \in Options
    /\ jPc' = IF Contains(Parsed(options'), "mountpoint") THEN "mount" ELSE "throw"
    /\ UNCHANGED <<channel, session, kernelVars, exited, tPc, queueVars, calls, status>>

\* fuse_parse_cmdline has failed or found no mount point, or fuse_mount fails: the
\* exception leaves the arguments where they are.
MountThrows ==
    /\ status = "up"
    /\ \/ jPc = "throw"
       \/ jPc = "mount" /\ Failures \cap {"parse", "mount"} # {}
    /\ jPc' = "idle"
    /\ UNCHANGED <<mounts, options, fuse, resourceVars, kernelVars, exited, tPc, queueVars,
                   calls, status>>

MountDevice ==
    /\ status = "up" /\ jPc = "mount"
    /\ channel' = [channel EXCEPT ![mounts] = "mounted"]
    /\ device' = [device EXCEPT ![mounts] = "up"]
    /\ fuse' = [fuse EXCEPT !.channel = mounts]
    /\ jPc' = "object"
    /\ UNCHANGED <<mounts, options, args, session, asked, exited, tPc, queueVars, calls,
                   status>>

\* Broken: the object of the first mount is kept.
MountObjectOnce ==
    /\ status = "up" /\ jPc = "object"
    /\ \/ /\ fuse' = [fuse EXCEPT !.fsobj = IF @ = NoMount THEN mounts ELSE @]
          /\ jPc' = "start"
          /\ UNCHANGED status
       \/ /\ "object" \in Failures
          /\ status' = "crashed"
          /\ UNCHANGED <<fuse, jPc>>
    /\ UNCHANGED <<mounts, options, resourceVars, kernelVars, exited, tPc, queueVars, calls>>

\* filesystem->NewInstance; when the constructor throws there is no object, and
\* the next line uses it.
MountObject ==
    /\ status = "up" /\ jPc = "object"
    /\ \/ /\ fuse' = [fuse EXCEPT !.fsobj = mounts]
          /\ jPc' = "start"
          /\ UNCHANGED status
       \/ /\ "object" \in Failures
          /\ status' = "crashed"
          /\ UNCHANGED <<fuse, jPc>>
    /\ UNCHANGED <<mounts, options, resourceVars, kernelVars, exited, tPc, queueVars, calls>>

\* uv_async_init and uv_thread_create, whose result is not looked at.  The handle of
\* an earlier mount whose session or thread has failed is still open: to initialise
\* it again is undefined, and it may do as a new one or end the process.  One that
\* is being closed ends it, by libuv's assertion that a handle it closes is closing.
MountStart ==
    /\ status = "up" /\ jPc = "start"
    /\ \/ /\ handle # "closing"
          /\ handle' = "open" /\ wake' = FALSE
          /\ \/ tPc' = [tPc EXCEPT ![mounts] = "create"]
             \/ "thread" \in Failures /\ UNCHANGED tPc
          /\ jPc' = "idle"
          /\ UNCHANGED status
       \/ /\ handle \in {"open", "closing"}
          /\ status' = "crashed"
          /\ UNCHANGED <<handle, wake, tPc, jPc>>
    /\ UNCHANGED <<mounts, options, fuse, resourceVars, kernelVars, exited, ring, calls>>

\* Broken: what Unmount has in its comments.
UnmountDestroys ==
    /\ "unmount" \in Ends
    /\ status = "up" /\ jPc = "idle"
    /\ Protocol!Called("init", fuse.session)
    /\ ~ exited[fuse.session]
    /\ exited' = [exited EXCEPT ![fuse.session] = TRUE]
    /\ session' = [session EXCEPT ![fuse.session] = "destroyed"]
    /\ UNCHANGED <<jsVars, fuse, args, channel, kernelVars, tPc, queueVars, calls, status>>

\* unmount(): fuse_session_exit(fuse->session) sets a flag.  The program calls it
\* once, when init has shown that there is a session.
Unmount ==
    /\ "unmount" \in Ends
    /\ status = "up" /\ jPc = "idle"
    /\ Protocol!Called("init", fuse.session)
    /\ ~ exited[fuse.session]
    /\ exited' = [exited EXCEPT ![fuse.session] = TRUE]
    /\ UNCHANGED <<jsVars, fuse, resourceVars, kernelVars, tPc, queueVars, calls, status>>

-----------------------------------------------------------------------------
(* The JavaScript thread: DispatchOp, and libuv's side of uv_close.        *)

WakeUp ==
    /\ status = "up" /\ jPc = "idle"
    /\ handle = "open" /\ wake
    /\ wake' = FALSE
    /\ jPc' = "dispatch"
    /\ UNCHANGED <<mounts, options, fuse, resourceVars, kernelVars, exited, tPc, handle, ring,
                   calls, status>>

\* The command's userdata, or its request's, is the Fuse object, whose fsobj is
\* the object of the last mount.
Dispatch ==
    /\ status = "up" /\ jPc = "dispatch"
    /\ ring # <<>>
    /\ calls' = Append(calls, [handler |-> Head(ring).handler, object |-> fuse.fsobj,
                               session |-> Head(ring).session])
    /\ ring' = Tail(ring)
    /\ UNCHANGED <<jsVars, fuse, resourceVars, kernelVars, exited, tPc, handle, wake, status>>

DispatchEnds ==
    /\ status = "up" /\ jPc = "dispatch"
    /\ ring = <<>>
    /\ jPc' = "idle"
    /\ UNCHANGED <<mounts, options, fuse, resourceVars, kernelVars, exited, tPc, queueVars,
                   calls, status>>

FinishClose ==
    /\ status = "up" /\ jPc = "idle"
    /\ handle = "closing"
    /\ handle' = "closed"
    /\ UNCHANGED <<jsVars, fuse, resourceVars, kernelVars, exited, tPc, wake, ring, calls,
                   status>>

-----------------------------------------------------------------------------
(* The session thread of mount m: RemoteMount.                             *)

At(m, pc) == status = "up" /\ tPc[m] = pc
Goto(m, pc) == tPc' = [tPc EXCEPT ![m] = pc]

\* Broken: `destroy' does not set the command's userdata.
QueueWithoutUserdata(m, handler) ==
    /\ ring' = Append(ring, [handler |-> handler,
                             session |-> IF handler = "destroy" THEN NoMount ELSE m])
    /\ wake' = (handle = "open")
    /\ UNCHANGED handle

\* A handler of filesystem.cc: produce, then uv_async_send, which does nothing on
\* a handle that is being closed.
Queue(m, handler) ==
    /\ ring' = Append(ring, [handler |-> handler, session |-> m])
    /\ wake' = (handle = "open")
    /\ UNCHANGED handle

\* Broken: the arguments are not freed.
ReleaseDeviceOnly ==
    /\ channel' = [channel EXCEPT ![fuse.channel] = "unmounted"]
    /\ device' = [device EXCEPT ![fuse.channel] = "gone"]
    /\ UNCHANGED args

\* fuse_unmount and fuse_opt_free_args, with the fields as they are now.
ReleaseAll ==
    /\ channel' = [channel EXCEPT ![fuse.channel] = "unmounted"]
    /\ device' = [device EXCEPT ![fuse.channel] = "gone"]
    /\ args' = [args EXCEPT ![fuse.fargs] = "freed"]

\* fuse_lowlevel_new.  When it gives NULL, everything but the handle is released
\* and the thread ends.
CreateSession(m) ==
    /\ At(m, "create")
    /\ \/ /\ session' = [session EXCEPT ![m] = "live"]
          /\ fuse' = [fuse EXCEPT !.session = m]
          /\ Goto(m, "handlers")
          /\ UNCHANGED <<channel, device, args>>
       \/ /\ "session" \in Failures
          /\ fuse' = [fuse EXCEPT !.session = NoMount]
          /\ ReleaseAll
          /\ Goto(m, "ended")
          /\ UNCHANGED session
    /\ UNCHANGED <<jsVars, asked, exited, queueVars, calls, status>>

\* fuse_set_signal_handlers, fuse_session_add_chan.  When the first fails, all is
\* released and an exception is thrown on a thread that has no JavaScript.
StartSession(m) ==
    /\ At(m, "handlers")
    /\ \/ /\ Goto(m, "loop")
          /\ UNCHANGED <<session, channel, device, args, status>>
       \/ /\ "handlers" \in Failures
          /\ session' = [session EXCEPT ![fuse.session] = "destroyed"]
          /\ ReleaseAll
          /\ status' = "crashed"
          /\ Goto(m, "ended")
    /\ UNCHANGED <<jsVars, fuse, asked, exited, queueVars, calls>>

\* fuse_session_loop: the test of the exit flag, then a read that blocks.
TestExit(m) ==
    /\ At(m, "loop")
    /\ Goto(m, IF exited[fuse.session] THEN "remove" ELSE "read")
    /\ UNCHANGED <<jsVars, fuse, resourceVars, kernelVars, exited, queueVars, calls, status>>

\* A request of the kernel; the first is INIT.  One that is read after the flag
\* has been set is dropped.
Request(m) ==
    /\ At(m, "read") /\ device[fuse.channel] = "up"
    /\ asked[m] < MaxRequests
    /\ IF exited[fuse.session]
       THEN /\ Goto(m, "remove")
            /\ UNCHANGED <<asked, queueVars>>
       ELSE /\ Queue(m, IF asked[m] = 0 THEN "init" ELSE "other")
            /\ asked' = [asked EXCEPT ![m] = @ + 1]
            /\ Goto(m, "loop")
    /\ UNCHANGED <<jsVars, fuse, resourceVars, device, exited, calls, status>>

\* The kernel has unmounted: the read gives ENODEV and the loop ends.
ReadGone(m) ==
    /\ At(m, "read") /\ device[fuse.channel] = "gone"
    /\ Goto(m, "remove")
    /\ UNCHANGED <<jsVars, fuse, resourceVars, kernelVars, exited, queueVars, calls, status>>

\* A signal whose handler runs on this thread: flag set, read interrupted.
Signal(m) ==
    /\ "signal" \in Ends
    /\ At(m, "read")
    /\ exited' = [exited EXCEPT ![fuse.session] = TRUE]
    /\ Goto(m, "loop")
    /\ UNCHANGED <<jsVars, fuse, resourceVars, kernelVars, queueVars, calls, status>>

\* The read fails: all is torn down as below, then the exception of line 110.
ReadFails(m) ==
    /\ "error" \in Ends
    /\ At(m, "read")
    /\ Goto(m, "removeFailed")
    /\ UNCHANGED <<jsVars, fuse, resourceVars, kernelVars, exited, queueVars, calls, status>>

\* fuse_remove_signal_handlers, fuse_session_remove_chan, fuse_session_destroy,
\* which calls destroy if init has been called.
DestroySession(m) ==
    /\ \E failed \in BOOLEAN :
          /\ At(m, IF failed THEN "removeFailed" ELSE "remove")
          /\ Goto(m, IF failed THEN "releaseFailed" ELSE "release")
    /\ session' = [session EXCEPT ![fuse.session] = "destroyed"]
    /\ IF asked[m] > 0 THEN Queue(m, "destroy") ELSE UNCHANGED queueVars
    /\ UNCHANGED <<jsVars, fuse, args, channel, kernelVars, exited, calls, status>>

\* fuse_unmount, fuse_opt_free_args.
Release(m) ==
    /\ \E failed \in BOOLEAN :
          /\ At(m, IF failed THEN "releaseFailed" ELSE "release")
          /\ Goto(m, IF failed THEN "closeFailed" ELSE "close")
    /\ ReleaseAll
    /\ UNCHANGED <<jsVars, fuse, session, asked, exited, queueVars, calls, status>>

\* Broken: the handle stays open.
ForgetHandle(m) ==
    /\ At(m, "close")
    /\ Goto(m, "ended")
    /\ UNCHANGED <<jsVars, fuse, resourceVars, kernelVars, exited, queueVars, calls, status>>

\* uv_thread_join of the thread by itself, which fails at once, and uv_close, which
\* drops a wake-up that is pending.
CloseHandle(m) ==
    /\ \/ At(m, "close") /\ UNCHANGED status
       \/ At(m, "closeFailed") /\ status' = "crashed"
    /\ handle' = "closing" /\ wake' = FALSE
    /\ Goto(m, "ended")
    /\ UNCHANGED <<jsVars, fuse, resourceVars, kernelVars, exited, ring, calls>>

-----------------------------------------------------------------------------
\* The umount command.
KernelUnmounts(m) ==
    /\ "umount" \in Ends
    /\ status = "up" /\ device[m] = "up"
    /\ device' = [device EXCEPT ![m] = "gone"]
    /\ UNCHANGED <<jsVars, fuse, resourceVars, asked, exited, tPc, queueVars, calls, status>>

JavaScript ==
    \/ MountThrows \/ MountDevice \/ MountObject \/ MountStart
    \/ WakeUp \/ Dispatch \/ DispatchEnds \/ FinishClose

SessionThread(m) ==
    \/ CreateSession(m) \/ StartSession(m) \/ TestExit(m) \/ ReadGone(m)
    \/ DestroySession(m) \/ Release(m) \/ CloseHandle(m)

Next ==
    \/ MountArguments \/ Unmount \/ JavaScript
    \/ \E m \in Mounts :
          \/ SessionThread(m)
          \/ Request(m) \/ Signal(m) \/ ReadFails(m) \/ KernelUnmounts(m)

\* Both threads are scheduled.
Fairness == WF_vars(JavaScript) /\ \A m \in Mounts : WF_vars(SessionThread(m))

Spec == Init /\ [][Next]_vars /\ Fairness

-----------------------------------------------------------------------------
(* Properties.                                                             *)

\* The control points of a session thread that has work to do, from the creation
\* of the session on.
UsesSession == {"handlers", "loop", "read", "remove", "removeFailed"}
UsesDevice == UsesSession \cup {"create", "release", "releaseFailed"}
UsesHandle == UsesDevice \cup {"close", "closeFailed"}

MountTypes ==
    LET Owner == {NoMount} \cup Mounts IN
    /\ mounts \in 0..MaxMounts
    /\ jPc \in {"idle", "dispatch", "throw", "mount", "object", "start"}
    /\ fuse \in [fargs : Owner, channel : Owner, session : Owner, fsobj : Owner]
    /\ args \in [Mounts -> {"none", "live", "freed"}]
    /\ channel \in [Mounts -> {"none", "mounted", "unmounted"}]
    /\ session \in [Mounts -> {"none", "live", "destroyed"}]
    /\ tPc \in [Mounts -> {"none", "ended"} \cup UsesHandle]
    /\ handle \in {"none", "open", "closing", "closed"}
    /\ status \in {"up", "crashed"}

SessionTypes ==
    /\ device \in [Mounts -> {"none", "up", "gone"}]
    /\ exited \in [Mounts -> BOOLEAN]
    /\ asked \in [Mounts -> 0..MaxRequests]
    /\ wake \in BOOLEAN
    /\ ring \in Seq([handler : {"init", "other", "destroy"}, session : Mounts])
    /\ calls \in Seq([handler : {"init", "other", "destroy"},
                     object : {NoMount} \cup Mounts, session : Mounts])

TypeOK == MountTypes /\ SessionTypes

\* Whatever a session thread takes from the fields of the Fuse object, which every
\* mount shares and unmount() uses, is its own and has not been released; and it
\* never signals a handle that is not open.
UsesAreLive ==
    \A m \in Mounts :
        /\ tPc[m] \in UsesSession => fuse.session = m /\ session[m] = "live"
        /\ tPc[m] \in UsesDevice =>
              /\ fuse.channel = m /\ channel[m] = "mounted"
              /\ fuse.fargs = m /\ args[m] = "live"
        /\ tPc[m] \in UsesHandle => handle = "open"

\* A session thread that has ended, on whichever path, leaves nothing behind: no
\* session, no mounted device, no arguments.
NothingLeft ==
    \A m \in Mounts : tPc[m] = "ended" =>
        session[m] # "live" /\ channel[m] = "unmounted" /\ args[m] = "freed"

\* Each object sees init first and destroy last, and only its own session's calls.
ImplementsSessionProtocol == Protocol!Spec

\* fuse.js:14, README.md:38: init is called before any other file system method.
InitFirst ==
    \A i \in DOMAIN calls : calls[i].handler # "init" =>
        \E j \in 1..(i - 1) : calls[j].handler = "init" /\ calls[j].object = calls[i].object

\* bindings.cc:158: if no mount point is provided, mount() shows its usage.
UsageShown == jPc = "throw" /\ options = <<>> => Contains(Parsed(options), "--help")

\* Once the kernel has unmounted, the session thread ends and lets go of the
\* event loop, which could otherwise never end.
GoneIsReleased ==
    \A m \in Mounts :
        device[m] = "gone" /\ tPc[m] \in UsesSession
            ~> (tPc[m] = "ended" /\ (handle = "closed" \/ mounts > m)) \/ status # "up"

\* bindings.cc:99: RemoteMount goes on behind the loop if the user unmounts.
UnmountEndsLoop ==
    \A m \in Mounts : exited[m] /\ tPc[m] = "read" ~> tPc[m] = "ended" \/ status # "up"
=============================================================================
