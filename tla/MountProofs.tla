---------------------------- MODULE MountProofs ----------------------------
(***************************************************************************)
(* Mount and unmount are sound for any number of mounts and requests,      *)
(* whatever ends a session and whatever fails (src/bindings.cc).           *)
(*                                                                         *)
(* The fields of the Fuse object are shared by all mounts and a session    *)
(* thread reads them again at every step.  That they are the thread's own  *)
(* rests on one thread being at work at a time: the invariant says whose   *)
(* turn it is and how far the resources of each mount have come.           *)
(***************************************************************************)
EXTENDS MountLifecycle, TLAPS

Mounting == {"throw", "mount", "object", "start"}

\* A thread at work is the last mount's, and mount() is not at work then.
OneAtWork ==
    /\ \A m \in Mounts : tPc[m] # "none" => m <= mounts
    /\ \A m \in Mounts : tPc[m] \in UsesHandle => m = mounts /\ jPc \notin Mounting
    /\ jPc \in Mounting => mounts \in Mounts /\ tPc[mounts] = "none"

\* What mount() has obtained before it starts the thread.
Obtained ==
    /\ jPc \in Mounting => fuse.fargs = mounts /\ args[mounts] = "live"
    /\ jPc \in {"object", "start"} => fuse.channel = mounts /\ channel[mounts] = "mounted"

\* What a thread has released before it ends.
Released ==
    /\ \A m \in Mounts : session[m] = "live" => tPc[m] \in UsesSession
    /\ \A m \in Mounts : tPc[m] \in {"close", "closeFailed", "ended"} =>
          channel[m] = "unmounted" /\ args[m] = "freed"

MountInv == MountTypes /\ OneAtWork /\ Obtained /\ Released /\ UsesAreLive

-----------------------------------------------------------------------------
\* The control points are different strings, in the sets they are in.
LEMMA ControlPoints ==
    /\ UsesSession = {"handlers", "loop", "read", "remove", "removeFailed"}
    /\ UsesDevice = {"handlers", "loop", "read", "remove", "removeFailed", "create",
                     "release", "releaseFailed"}
    /\ UsesHandle = {"handlers", "loop", "read", "remove", "removeFailed", "create",
                     "release", "releaseFailed", "close", "closeFailed"}
BY DEF UsesSession, UsesDevice, UsesHandle

\* Nothing is mounted when the process begins.
LEMMA MountInit == Init => MountInv
<1> SUFFICES ASSUME Init PROVE MountInv
  OBVIOUS
<1>0. 0 \in 0..MaxMounts
  BY MountAssumption
<1>1. MountTypes
  BY <1>0 DEF Init, MountTypes, NoMount
<1>2. OneAtWork /\ Obtained /\ Released /\ UsesAreLive
  BY ControlPoints DEF Init, OneAtWork, Obtained, Released, UsesAreLive, Mounting, Mounts
<1>3. QED
  BY <1>1, <1>2 DEF MountInv

-----------------------------------------------------------------------------
(* The JavaScript thread.                                                  *)

\* A call of mount() begins when no thread is at work.
LEMMA ArgumentsStep == ASSUME MountInv, MountArguments PROVE MountInv'
<1> USE DEF MountInv, MountArguments
<1>1. /\ mounts + 1 \in Mounts /\ mounts + 1 \in 0..MaxMounts /\ mounts' = mounts + 1
      /\ \A m \in Mounts : m <= mounts => m # mounts + 1 /\ m <= mounts + 1
      /\ Mounts \subseteq Nat
  BY MountAssumption DEF MountTypes, Mounts
<1>2. MountTypes'
  BY <1>1 DEF MountTypes, resourceVars, kernelVars, queueVars
<1>3. \A m \in Mounts : tPc[m] \in {"none", "ended"}
  BY DEF MayMount
<1>4. tPc[mounts + 1] = "none"
  BY <1>1, <1>3 DEF OneAtWork, Mounts, MountTypes
<1>5. OneAtWork'
  BY <1>1, <1>3, <1>4, ControlPoints DEF OneAtWork
<1>6. Obtained'
  BY <1>1 DEF Obtained, Mounting, MountTypes
<1>7. Released'
  BY <1>1, <1>4 DEF Released, OneAtWork, MountTypes
<1>8. UsesAreLive'
  BY <1>3, ControlPoints DEF UsesAreLive
<1>9. QED
  BY <1>2, <1>5, <1>6, <1>7, <1>8

\* The exceptions of mount() release nothing, and nothing uses what they leave.
LEMMA ThrowsStep == ASSUME MountInv, MountThrows PROVE MountInv'
BY ControlPoints
   DEF MountInv, MountTypes, OneAtWork, Obtained, Released, UsesAreLive, MountThrows,
       Mounting, resourceVars, kernelVars, queueVars

\* The device is mounted before any thread could use it.
LEMMA DeviceStep == ASSUME MountInv, MountDevice PROVE MountInv'
<1> USE DEF MountInv, MountDevice
<1>1. mounts \in Mounts /\ tPc[mounts] = "none"
  BY DEF OneAtWork, Mounting
<1>2. MountTypes'
  BY <1>1 DEF MountTypes, queueVars
<1>3. \A m \in Mounts : tPc[m] \notin UsesHandle
  BY DEF OneAtWork, Mounting
<1>4. OneAtWork' /\ Obtained'
  BY <1>1, <1>3 DEF OneAtWork, Obtained, Mounting, MountTypes
<1>5. Released'
  BY <1>1 DEF Released, MountTypes
<1>6. UsesAreLive'
  BY <1>3, ControlPoints DEF UsesAreLive
<1>7. QED
  BY <1>2, <1>4, <1>5, <1>6

\* The file system object, or the end of the process.
LEMMA ObjectStep == ASSUME MountInv, MountObject PROVE MountInv'
<1> USE DEF MountInv, MountObject
<1>1. mounts \in Mounts /\ tPc[mounts] = "none"
  BY DEF OneAtWork, Mounting
<1>2. MountTypes'
  BY <1>1 DEF MountTypes, queueVars, resourceVars
<1>3. \A m \in Mounts : tPc[m] \notin UsesHandle
  BY DEF OneAtWork, Mounting
<1>4. OneAtWork' /\ Obtained'
  BY <1>1, <1>3 DEF OneAtWork, Obtained, Mounting, MountTypes, resourceVars
<1>5. Released'
  BY DEF Released, resourceVars
<1>6. UsesAreLive'
  BY <1>3, ControlPoints DEF UsesAreLive
<1>7. QED
  BY <1>2, <1>4, <1>5, <1>6

\* The thread starts with all that mount() has obtained.
LEMMA StartStep == ASSUME MountInv, MountStart PROVE MountInv'
<1> USE DEF MountInv, MountStart
<1>1. mounts \in Mounts /\ tPc[mounts] = "none"
  BY DEF OneAtWork, Mounting
<1>2. MountTypes'
  BY <1>1, ControlPoints DEF MountTypes, resourceVars
<1>3. \A m \in Mounts : tPc[m] \notin UsesHandle
  BY DEF OneAtWork, Mounting
<1>4. OneAtWork' /\ Obtained'
  <2>1. \A k \in Mounts : tPc'[k] = tPc[k] \/ k = mounts
    BY DEF MountTypes
  <2>2. mounts' = mounts /\ mounts <= mounts
    BY <1>1 DEF Mounts
  <2>3. jPc' \notin Mounting \/ UNCHANGED <<jPc, tPc>>
    BY DEF Mounting
  <2>4. QED
    BY <1>3, <2>1, <2>2, <2>3 DEF OneAtWork, Obtained, Mounting, resourceVars
<1>5. Released'
  BY <1>1, ControlPoints DEF Released, MountTypes, resourceVars
<1>6. UsesAreLive'
  BY <1>1, <1>3, ControlPoints DEF UsesAreLive, Obtained, Mounting, MountTypes, resourceVars
<1>7. QED
  BY <1>2, <1>4, <1>5, <1>6

\* The other steps of the JavaScript thread touch no resource.
LEMMA LoopStep ==
    ASSUME MountInv, Unmount \/ WakeUp \/ Dispatch \/ DispatchEnds \/ FinishClose
    PROVE MountInv'
<1> DEFINE Quiet ==
              /\ UNCHANGED <<mounts, fuse, args, channel, session, tPc, status>>
              /\ jPc' \in {"idle", "dispatch"}
              /\ UNCHANGED handle \/ (handle = "closing" /\ handle' = "closed")
<1>1. Unmount => Quiet
  BY DEF Unmount, jsVars, resourceVars, queueVars
<1>2. WakeUp => Quiet
  BY DEF WakeUp, resourceVars
<1>3. Dispatch => Quiet
  BY DEF Dispatch, jsVars, resourceVars
<1>4. DispatchEnds => Quiet
  BY DEF DispatchEnds, resourceVars, queueVars
<1>5. FinishClose => Quiet
  BY DEF FinishClose, jsVars, resourceVars
<1>6. Quiet
  BY <1>1, <1>2, <1>3, <1>4, <1>5
<1>7. QED
  BY <1>6, ControlPoints
     DEF MountInv, MountTypes, OneAtWork, Obtained, Released, UsesAreLive, Mounting

-----------------------------------------------------------------------------
(* The session thread.  Its steps keep what the JavaScript thread's        *)
(* invariants need, because mount() is not at work meanwhile.              *)

\* A thread that is at work owns the fields of the Fuse object.
LEMMA Owns ==
    ASSUME MountInv, NEW m \in Mounts, tPc[m] \in UsesHandle
    PROVE  /\ m = mounts /\ jPc \in {"idle", "dispatch"}
           /\ handle = "open"
           /\ \A k \in Mounts : k # m => tPc[k] \notin UsesHandle
           /\ tPc[m] \in UsesDevice => fuse.channel = m /\ fuse.fargs = m
           /\ tPc[m] \in UsesSession => fuse.session = m
<1>1. m = mounts /\ jPc \notin Mounting
  BY DEF MountInv, OneAtWork
<1>2. jPc \in {"idle", "dispatch"}
  BY <1>1 DEF MountInv, MountTypes, Mounting
<1>3. QED
  BY <1>1, <1>2 DEF MountInv, OneAtWork, UsesAreLive

\* A step that moves thread m on and leaves the resources alone keeps the
\* invariant, if they are those the new control point needs.
LEMMA MovesOn ==
    ASSUME MountInv, NEW m \in Mounts, NEW pc, tPc[m] \in UsesSession,
           pc \in UsesSession, tPc' = [tPc EXCEPT ![m] = pc],
           UNCHANGED <<mounts, jPc, fuse, args, channel, session, handle>>,
           status' \in {"up", "crashed"}
    PROVE  MountInv'
<1>1. MountTypes'
  BY ControlPoints DEF MountInv, MountTypes
<1>2. \A k \in Mounts : tPc'[k] = IF k = m THEN pc ELSE tPc[k]
  BY DEF MountInv, MountTypes
<1>3. OneAtWork'
  BY <1>2, ControlPoints, Owns DEF MountInv, OneAtWork, Mounting
<1>4. Obtained'
  BY Owns, ControlPoints DEF MountInv, Obtained, Mounting
<1>5. Released'
  BY <1>2, ControlPoints DEF MountInv, Released
<1>6. UsesAreLive'
  BY <1>2, ControlPoints DEF MountInv, UsesAreLive
<1>7. QED
  BY <1>1, <1>3, <1>4, <1>5, <1>6 DEF MountInv

\* The session is created, or the thread gives up.
LEMMA CreateStep ==
    ASSUME MountInv, NEW m \in Mounts, CreateSession(m) PROVE MountInv'
<1>1. /\ tPc[m] = "create" /\ UNCHANGED <<mounts, jPc, handle, status>>
      /\ tPc[m] \in UsesHandle /\ tPc[m] \in UsesDevice
  BY ControlPoints DEF CreateSession, At, jsVars, queueVars
<1>2. /\ m = mounts /\ jPc \in {"idle", "dispatch"} /\ handle = "open"
      /\ \A k \in Mounts : k # m => tPc[k] \notin UsesHandle
      /\ fuse.channel = m /\ fuse.fargs = m
  BY <1>1, Owns
<1>3. channel[m] = "mounted" /\ args[m] = "live" /\ session[m] # "live"
  BY <1>1, ControlPoints DEF MountInv, UsesAreLive, Released
<1>4. CASE /\ session' = [session EXCEPT ![m] = "live"]
           /\ fuse' = [fuse EXCEPT !.session = m]
           /\ Goto(m, "handlers")
           /\ UNCHANGED <<channel, device, args>>
  <2>1. MountTypes'
    BY <1>1, <1>4, ControlPoints DEF MountInv, MountTypes, Goto
  <2>2. \A k \in Mounts : /\ tPc'[k] = IF k = m THEN "handlers" ELSE tPc[k]
                          /\ session'[k] = IF k = m THEN "live" ELSE session[k]
    BY <1>4 DEF MountInv, MountTypes, Goto
  <2>3. fuse'.session = m /\ fuse'.channel = m /\ fuse'.fargs = m
    BY <1>2, <1>4 DEF MountInv, MountTypes
  <2>4. OneAtWork' /\ Obtained'
    BY <1>1, <1>2, <1>4, <2>2, ControlPoints DEF MountInv, OneAtWork, Obtained, Mounting
  <2>5. Released'
    BY <1>4, <2>2, ControlPoints DEF MountInv, Released
  <2>6. UsesAreLive'
    BY <1>1, <1>2, <1>3, <1>4, <2>2, <2>3, ControlPoints DEF UsesAreLive
  <2>7. QED
    BY <2>1, <2>4, <2>5, <2>6 DEF MountInv
<1>5. CASE /\ fuse' = [fuse EXCEPT !.session = NoMount]
           /\ ReleaseAll
           /\ Goto(m, "ended")
           /\ UNCHANGED session
  <2>1. MountTypes'
    BY <1>1, <1>2, <1>5, ControlPoints DEF MountInv, MountTypes, Goto, ReleaseAll
  <2>2. \A k \in Mounts : /\ tPc'[k] = IF k = m THEN "ended" ELSE tPc[k]
                          /\ channel'[k] = IF k = m THEN "unmounted" ELSE channel[k]
                          /\ args'[k] = IF k = m THEN "freed" ELSE args[k]
    BY <1>2, <1>5 DEF MountInv, MountTypes, Goto, ReleaseAll
  <2>3. OneAtWork' /\ Obtained'
    BY <1>1, <1>2, <2>2, ControlPoints DEF MountInv, OneAtWork, Obtained, Mounting
  <2>4. Released'
    BY <1>3, <1>5, <2>2, ControlPoints DEF MountInv, Released
  <2>5. UsesAreLive'
    BY <1>2, <2>2, ControlPoints DEF UsesAreLive
  <2>6. QED
    BY <2>1, <2>3, <2>4, <2>5 DEF MountInv
<1>6. QED
  BY <1>4, <1>5 DEF CreateSession

\* The loop begins, or everything is torn down at once.
LEMMA HandlersStep ==
    ASSUME MountInv, NEW m \in Mounts, StartSession(m) PROVE MountInv'
<1>1. /\ tPc[m] = "handlers" /\ UNCHANGED <<mounts, jPc, handle, fuse>>
      /\ tPc[m] \in UsesHandle /\ tPc[m] \in UsesDevice /\ tPc[m] \in UsesSession
  BY ControlPoints DEF StartSession, At, jsVars, queueVars
<1>2. /\ m = mounts /\ jPc \in {"idle", "dispatch"} /\ handle = "open"
      /\ \A k \in Mounts : k # m => tPc[k] \notin UsesHandle
      /\ fuse.channel = m /\ fuse.fargs = m /\ fuse.session = m
  BY <1>1, Owns
<1>3. CASE /\ Goto(m, "loop")
           /\ UNCHANGED <<session, channel, device, args, status>>
  <2>1. /\ tPc' = [tPc EXCEPT ![m] = "loop"] /\ "loop" \in UsesSession
        /\ status' \in {"up", "crashed"}
    BY <1>3, ControlPoints DEF Goto, MountInv, MountTypes
  <2>2. QED
    BY <1>1, <1>3, <2>1, MovesOn
<1>4. CASE /\ session' = [session EXCEPT ![fuse.session] = "destroyed"]
           /\ ReleaseAll
           /\ status' = "crashed"
           /\ Goto(m, "ended")
  <2>1. MountTypes'
    BY <1>1, <1>2, <1>4, ControlPoints DEF MountInv, MountTypes, Goto, ReleaseAll
  <2>2. \A k \in Mounts : /\ tPc'[k] = IF k = m THEN "ended" ELSE tPc[k]
                          /\ session'[k] = IF k = m THEN "destroyed" ELSE session[k]
                          /\ channel'[k] = IF k = m THEN "unmounted" ELSE channel[k]
                          /\ args'[k] = IF k = m THEN "freed" ELSE args[k]
    BY <1>2, <1>4 DEF MountInv, MountTypes, Goto, ReleaseAll
  <2>3. OneAtWork' /\ Obtained'
    BY <1>1, <1>2, <2>2, ControlPoints DEF MountInv, OneAtWork, Obtained, Mounting
  <2>4. Released'
    BY <2>2, ControlPoints DEF MountInv, Released
  <2>5. UsesAreLive'
    BY <1>2, <2>2, ControlPoints DEF UsesAreLive
  <2>6. QED
    BY <2>1, <2>3, <2>4, <2>5 DEF MountInv
<1>5. QED
  BY <1>3, <1>4 DEF StartSession

\* The loop itself uses the session and keeps everything.
LEMMA SessionStep ==
    ASSUME MountInv, NEW m \in Mounts,
           TestExit(m) \/ Request(m) \/ ReadGone(m) \/ Signal(m) \/ ReadFails(m)
    PROVE  MountInv'
<1>1. \E pc \in {"loop", "read", "remove", "removeFailed"} :
          /\ tPc' = [tPc EXCEPT ![m] = pc] /\ tPc[m] \in {"loop", "read"}
          /\ UNCHANGED <<mounts, jPc, fuse, args, channel, session, handle, status>>
  <2>1. CASE TestExit(m)
    BY <2>1 DEF TestExit, At, Goto, jsVars, resourceVars, queueVars
  <2>2. CASE Request(m)
    BY <2>2 DEF Request, At, Goto, Queue, jsVars, resourceVars, queueVars
  <2>3. CASE ReadGone(m)
    BY <2>3 DEF ReadGone, At, Goto, jsVars, resourceVars, queueVars
  <2>4. CASE Signal(m)
    BY <2>4 DEF Signal, At, Goto, jsVars, resourceVars, queueVars
  <2>5. CASE ReadFails(m)
    BY <2>5 DEF ReadFails, At, Goto, jsVars, resourceVars, queueVars
  <2>6. QED
    BY <2>1, <2>2, <2>3, <2>4, <2>5
<1>2. status \in {"up", "crashed"}
  BY DEF MountInv, MountTypes
<1>3. QED
  BY <1>1, <1>2, MovesOn, ControlPoints

\* The session goes first.
LEMMA DestroyStep ==
    ASSUME MountInv, NEW m \in Mounts, DestroySession(m) PROVE MountInv'
<1>1. PICK pc \in {"release", "releaseFailed"} :
          /\ tPc' = [tPc EXCEPT ![m] = pc] /\ tPc[m] \in {"remove", "removeFailed"}
          /\ session' = [session EXCEPT ![fuse.session] = "destroyed"]
          /\ UNCHANGED <<mounts, jPc, fuse, args, channel, handle, status>>
  BY DEF DestroySession, At, Goto, Queue, jsVars, queueVars
<1>2. tPc[m] \in UsesHandle /\ tPc[m] \in UsesDevice /\ tPc[m] \in UsesSession
  BY <1>1, ControlPoints
<1>3. /\ m = mounts /\ jPc \in {"idle", "dispatch"} /\ handle = "open"
      /\ \A k \in Mounts : k # m => tPc[k] \notin UsesHandle
      /\ fuse.channel = m /\ fuse.fargs = m /\ fuse.session = m
  BY <1>2, Owns
<1>4. MountTypes'
  BY <1>1, <1>3, ControlPoints DEF MountInv, MountTypes
<1>5. \A k \in Mounts : /\ tPc'[k] = IF k = m THEN pc ELSE tPc[k]
                        /\ session'[k] = IF k = m THEN "destroyed" ELSE session[k]
  BY <1>1, <1>3 DEF MountInv, MountTypes
<1>6. OneAtWork' /\ Obtained'
  BY <1>1, <1>2, <1>3, <1>5, ControlPoints DEF MountInv, OneAtWork, Obtained, Mounting
<1>7. Released'
  BY <1>1, <1>5, ControlPoints DEF MountInv, Released
<1>8. UsesAreLive'
  BY <1>1, <1>2, <1>3, <1>5, ControlPoints DEF MountInv, UsesAreLive
<1>9. QED
  BY <1>4, <1>6, <1>7, <1>8 DEF MountInv

\* Then the device and the arguments.
LEMMA ReleaseStep ==
    ASSUME MountInv, NEW m \in Mounts, Release(m) PROVE MountInv'
<1>1. PICK pc \in {"close", "closeFailed"} :
          /\ tPc' = [tPc EXCEPT ![m] = pc] /\ tPc[m] \in {"release", "releaseFailed"}
          /\ ReleaseAll
          /\ UNCHANGED <<mounts, jPc, fuse, session, handle, status>>
  BY DEF Release, At, Goto, jsVars, queueVars
<1>2. tPc[m] \in UsesHandle /\ tPc[m] \in UsesDevice
  BY <1>1, ControlPoints
<1>3. /\ m = mounts /\ jPc \in {"idle", "dispatch"} /\ handle = "open"
      /\ \A k \in Mounts : k # m => tPc[k] \notin UsesHandle
      /\ fuse.channel = m /\ fuse.fargs = m
  BY <1>2, Owns
<1>4. MountTypes'
  BY <1>1, <1>3, ControlPoints DEF MountInv, MountTypes, ReleaseAll
<1>5. \A k \in Mounts : /\ tPc'[k] = IF k = m THEN pc ELSE tPc[k]
                        /\ channel'[k] = IF k = m THEN "unmounted" ELSE channel[k]
                        /\ args'[k] = IF k = m THEN "freed" ELSE args[k]
  BY <1>1, <1>3 DEF MountInv, MountTypes, ReleaseAll
<1>6. OneAtWork' /\ Obtained'
  BY <1>1, <1>2, <1>3, <1>5, ControlPoints DEF MountInv, OneAtWork, Obtained, Mounting
<1>7. Released'
  BY <1>1, <1>5, ControlPoints DEF MountInv, Released
<1>8. UsesAreLive'
  BY <1>1, <1>3, <1>5, ControlPoints DEF UsesAreLive
<1>9. QED
  BY <1>4, <1>6, <1>7, <1>8 DEF MountInv

\* And the handle of the event loop.
LEMMA CloseStep ==
    ASSUME MountInv, NEW m \in Mounts, CloseHandle(m) PROVE MountInv'
<1>1. /\ tPc' = [tPc EXCEPT ![m] = "ended"] /\ tPc[m] \in {"close", "closeFailed"}
      /\ handle' = "closing" /\ status' \in {"up", "crashed"}
      /\ UNCHANGED <<mounts, jPc, fuse, args, channel, session>>
  BY DEF CloseHandle, At, Goto, jsVars, resourceVars
<1>2. tPc[m] \in UsesHandle
  BY <1>1, ControlPoints
<1>3. /\ m = mounts /\ jPc \in {"idle", "dispatch"}
      /\ \A k \in Mounts : k # m => tPc[k] \notin UsesHandle
  BY <1>2, Owns
<1>4. MountTypes'
  BY <1>1, ControlPoints DEF MountInv, MountTypes
<1>5. \A k \in Mounts : tPc'[k] = IF k = m THEN "ended" ELSE tPc[k]
  BY <1>1 DEF MountInv, MountTypes
<1>6. OneAtWork' /\ Obtained'
  BY <1>1, <1>2, <1>3, <1>5, ControlPoints DEF MountInv, OneAtWork, Obtained, Mounting
<1>7. Released'
  BY <1>1, <1>5, ControlPoints DEF MountInv, Released
<1>8. UsesAreLive'
  BY <1>3, <1>5, ControlPoints DEF UsesAreLive
<1>9. QED
  BY <1>4, <1>6, <1>7, <1>8 DEF MountInv

-----------------------------------------------------------------------------
\* No step of either thread, nor of the kernel, breaks the invariant.
LEMMA MountStep == ASSUME MountInv, [Next]_vars PROVE MountInv'
<1>1. CASE UNCHANGED vars
  BY <1>1 DEF vars, jsVars, resourceVars, kernelVars, queueVars, MountInv, MountTypes,
        OneAtWork, Obtained, Released, UsesAreLive
<1>2. CASE MountArguments
  BY <1>2, ArgumentsStep
<1>3. CASE Unmount \/ JavaScript
  BY <1>3, ThrowsStep, DeviceStep, ObjectStep, StartStep, LoopStep DEF JavaScript
<1>4. ASSUME NEW m \in Mounts, SessionThread(m) PROVE MountInv'
  BY <1>4, CreateStep, HandlersStep, SessionStep, DestroyStep, ReleaseStep, CloseStep
     DEF SessionThread
<1>5. ASSUME NEW m \in Mounts, Request(m) \/ Signal(m) \/ ReadFails(m) PROVE MountInv'
  BY <1>5, SessionStep
<1>6. ASSUME NEW m \in Mounts, KernelUnmounts(m) PROVE MountInv'
  BY <1>6 DEF KernelUnmounts, jsVars, resourceVars, queueVars, MountInv, MountTypes,
        OneAtWork, Obtained, Released, UsesAreLive
<1>7. QED
  BY <1>1, <1>2, <1>3, <1>4, <1>5, <1>6 DEF Next

\* The invariant holds throughout.
LEMMA MountInvariant == Spec => []MountInv
BY MountInit, MountStep, PTL DEF Spec

\* A session thread only ever uses a session, a device, arguments and a handle that
\* are its own and live, though it takes them from fields that every mount shares
\* (bindings.cc:65-115).
THEOREM UsesLive == Spec => []UsesAreLive
<1>1. MountInv => UsesAreLive
  BY DEF MountInv
<1>2. QED
  BY <1>1, MountInvariant, PTL

\* On whichever path a session thread ends, it leaves no session, no device and no
\* arguments behind (bindings.cc:74-115).
THEOREM LeavesNothing == Spec => []NothingLeft
<1>1. MountInv => NothingLeft
  BY ControlPoints DEF MountInv, Released, NothingLeft
<1>2. QED
  BY <1>1, MountInvariant, PTL

-----------------------------------------------------------------------------
(* Types.                                                                  *)

\* Append and Tail keep to a set of elements.
LEMMA SeqKept ==
    ASSUME NEW S, NEW s \in Seq(S)
    PROVE  /\ \A x \in S : Append(s, x) \in Seq(S)
           /\ s # <<>> => Tail(s) \in Seq(S) /\ Head(s) \in S
           /\ \A i \in 1..Len(s) : s[i] \in S
OBVIOUS

\* A command that is queued is a command.
LEMMA QueueTypes ==
    ASSUME SessionTypes, NEW m \in Mounts, NEW h \in {"init", "other", "destroy"},
           Queue(m, h)
    PROVE  ring' \in Seq([handler : {"init", "other", "destroy"}, session : Mounts])
           /\ wake' \in BOOLEAN
BY DEF SessionTypes, Queue

\* What the session and the event loop exchange keeps its types.
LEMMA SessionTypesStep ==
    ASSUME MountInv, SessionTypes, [Next]_vars PROVE SessionTypes'
<1>1. CASE UNCHANGED vars
  BY <1>1 DEF vars, jsVars, resourceVars, kernelVars, queueVars, SessionTypes
<1>2. CASE MountArguments \/ MountThrows \/ MountObject \/ MountStart
  BY <1>2 DEF MountArguments, MountThrows, MountObject, MountStart, SessionTypes,
        kernelVars, queueVars
<1>3. CASE MountDevice
  BY <1>3 DEF MountDevice, SessionTypes, queueVars
<1>4. CASE Unmount
  BY <1>4 DEF Unmount, SessionTypes, kernelVars, queueVars
<1>5. CASE WakeUp \/ DispatchEnds \/ FinishClose
  BY <1>5 DEF WakeUp, DispatchEnds, FinishClose, SessionTypes, kernelVars, queueVars
<1>6. CASE Dispatch
  <2>1. /\ ring # <<>> /\ ring' = Tail(ring)
        /\ calls' = Append(calls, [handler |-> Head(ring).handler, object |-> fuse.fsobj,
                                   session |-> Head(ring).session])
        /\ UNCHANGED <<device, exited, asked, wake>>
    BY <1>6 DEF Dispatch, kernelVars
  <2>2. Head(ring) \in [handler : {"init", "other", "destroy"}, session : Mounts]
    BY <2>1, SeqKept DEF SessionTypes
  <2>3. fuse.fsobj \in {NoMount} \cup Mounts
    BY DEF MountInv, MountTypes
  <2>4. [handler |-> Head(ring).handler, object |-> fuse.fsobj, session |-> Head(ring).session]
            \in [handler : {"init", "other", "destroy"}, object : {NoMount} \cup Mounts,
                 session : Mounts]
    BY <2>2, <2>3
  <2>5. calls' \in Seq([handler : {"init", "other", "destroy"},
                        object : {NoMount} \cup Mounts, session : Mounts])
    BY <2>1, <2>4, SeqKept DEF SessionTypes
  <2>6. ring' \in Seq([handler : {"init", "other", "destroy"}, session : Mounts])
    BY <2>1, SeqKept DEF SessionTypes
  <2>7. QED
    BY <2>1, <2>5, <2>6 DEF SessionTypes
<1>7. ASSUME NEW m \in Mounts, CreateSession(m) \/ StartSession(m) \/ Release(m)
      PROVE  SessionTypes'
  BY <1>7 DEF CreateSession, StartSession, Release, ReleaseAll, SessionTypes, kernelVars,
        queueVars
<1>8. ASSUME NEW m \in Mounts,
             TestExit(m) \/ ReadGone(m) \/ Signal(m) \/ ReadFails(m) \/ KernelUnmounts(m)
      PROVE  SessionTypes'
  BY <1>8 DEF TestExit, ReadGone, Signal, ReadFails, KernelUnmounts, SessionTypes,
        kernelVars, queueVars
<1>9. ASSUME NEW m \in Mounts, Request(m) PROVE SessionTypes'
  <2>1. asked[m] \in 0..MaxRequests /\ asked[m] < MaxRequests /\ MaxRequests \in Nat
    BY <1>9, MountAssumption DEF Request, SessionTypes
  <2>2. asked' \in [Mounts -> 0..MaxRequests]
    BY <1>9, <2>1 DEF Request, SessionTypes
  <2>3. UNCHANGED queueVars \/ \E h \in {"init", "other", "destroy"} : Queue(m, h)
    BY <1>9 DEF Request
  <2>4. QED
    BY <1>9, <2>2, <2>3, QueueTypes DEF Request, SessionTypes, queueVars
<1>10. ASSUME NEW m \in Mounts, DestroySession(m) PROVE SessionTypes'
  <2>1. UNCHANGED queueVars \/ Queue(m, "destroy")
    BY <1>10 DEF DestroySession
  <2>2. QED
    BY <1>10, <2>1, QueueTypes DEF DestroySession, SessionTypes, queueVars, kernelVars
<1>11. ASSUME NEW m \in Mounts, CloseHandle(m) PROVE SessionTypes'
  BY <1>11 DEF CloseHandle, SessionTypes, kernelVars
<1>12. QED
  BY <1>1, <1>2, <1>3, <1>4, <1>5, <1>6, <1>7, <1>8, <1>9, <1>10, <1>11
     DEF Next, JavaScript, SessionThread

\* The state of the process has its type.
THEOREM MountTypesKept == Spec => []TypeOK
<1>1. Init => SessionTypes
  <2>1. 0 \in 0..MaxRequests
    BY MountAssumption
  <2>2. \A S : <<>> \in Seq(S)
    OBVIOUS
  <2>3. QED
    BY <2>1, <2>2 DEF Init, SessionTypes
<1>2. MountInv /\ SessionTypes /\ [Next]_vars => SessionTypes'
  BY SessionTypesStep
<1>3. MountInv /\ SessionTypes => TypeOK
  BY DEF MountInv, TypeOK
<1>4. QED
  BY <1>1, <1>2, <1>3, MountInvariant, PTL DEF Spec

-----------------------------------------------------------------------------
(* The calls of a process that mounts again only once nothing is queued or *)
(* being closed.                                                           *)

\* Where a session thread is when it has called destroy, if it ever will.
Past == {"release", "releaseFailed", "close", "closeFailed", "ended"}

\* The object in use is the last mount's, and so is every command in the ring.
CurrentObject ==
    /\ \A m \in Mounts : m = mounts /\ (tPc[m] # "none" \/ jPc = "start") => fuse.fsobj = m
    /\ ring # <<>> => mounts \in Mounts /\ tPc[mounts] # "none" /\ jPc \notin Mounting
    /\ \A i \in 1..Len(ring) : ring[i].session = mounts
    /\ \A i \in 1..Len(calls) : calls[i].object <= mounts

\* Nothing is queued or called for a mount before its first request.
NothingUnasked ==
    /\ \A m \in Mounts : tPc[m] = "none" => asked[m] = 0
    /\ \A m \in Mounts : asked[m] = 0 =>
          /\ \A i \in 1..Len(calls) : calls[i].object # m
          /\ m = mounts => ring = <<>>

\* The first command of a session is init, and only that one.
InitLeads ==
    /\ \A i \in 1..Len(ring) :
          ring[i].handler = "init" <=> i = 1 /\ ~ Protocol!Called("init", mounts)
    /\ \A m \in Mounts : m = mounts /\ asked[m] # 0 /\ ring = <<>> =>
          Protocol!Called("init", m)

\* The last one is destroy, and nothing is queued behind it.
DestroyEnds ==
    /\ \A i \in 1..Len(ring) : ring[i].handler = "destroy" =>
          i = Len(ring) /\ tPc[mounts] \in Past
    /\ \A m \in Mounts : m = mounts /\ Protocol!Called("destroy", m) =>
          ring = <<>> /\ tPc[m] \in Past

SettledInv == CurrentObject /\ NothingUnasked /\ InitLeads /\ DestroyEnds

\* Nothing has been called when the process begins.
LEMMA SettledInit == Init => SettledInv
<1> SUFFICES ASSUME Init PROVE SettledInv
  OBVIOUS
<1>1. ring = <<>> /\ calls = <<>> /\ Len(ring) = 0 /\ Len(calls) = 0
  BY DEF Init
<1>2. \A m \in Mounts : tPc[m] = "none" /\ asked[m] = 0 /\ m # mounts
  BY DEF Init, Mounts
<1>3. QED
  BY <1>1, <1>2 DEF SettledInv, CurrentObject, NothingUnasked, InitLeads, DestroyEnds

\* Steps that neither queue nor call, while threads start, go on and end.
LEMMA SettledFrame ==
    ASSUME SettledInv, MountInv, UNCHANGED <<mounts, calls, ring, asked, fuse.fsobj>>,
           \A m \in Mounts : \/ tPc[m] # "none" /\ tPc'[m] # "none"
                             \/ tPc[m] = "none" /\ tPc'[m] = "none"
                             \/ tPc[m] = "none" /\ m = mounts /\ jPc = "start",
           \A m \in Mounts : tPc[m] \in Past => tPc'[m] \in Past,
           jPc' \in Mounting => jPc \in Mounting,
           jPc' = "start" => fuse.fsobj = mounts
    PROVE  SettledInv'
<1>1. CurrentObject'
  BY DEF SettledInv, CurrentObject, Past
<1>2. NothingUnasked'
  BY DEF SettledInv, NothingUnasked
<1>3. InitLeads'
  BY DEF SettledInv, InitLeads, Protocol!Called
<1>4. DestroyEnds'
  <2>1. ring # <<>> => mounts \in Mounts
    BY DEF SettledInv, CurrentObject
  <2>2. \A i \in 1..Len(ring) : ring # <<>>
    OBVIOUS
  <2>3. QED
    BY <2>1, <2>2 DEF SettledInv, DestroyEnds, Protocol!Called
<1>5. QED
  BY <1>1, <1>2, <1>3, <1>4 DEF SettledInv

\* A new mount finds an empty ring and has not been called.
LEMMA SettledArguments ==
    ASSUME SettledInv, MountInv, SessionTypes, Remount = "settled", MountArguments
    PROVE  SettledInv'
<1>1. /\ ring = <<>> /\ ring' = <<>> /\ Len(ring') = 0 /\ calls' = calls /\ asked' = asked
      /\ tPc' = tPc /\ fuse'.fsobj = fuse.fsobj /\ jPc' # "start"
      /\ mounts' = mounts + 1 /\ mounts + 1 \in Mounts /\ mounts \in Nat
  BY MountAssumption DEF MountArguments, MayMount, MountInv, MountTypes, Mounts,
        kernelVars, queueVars
<1>2. tPc[mounts + 1] = "none"
  <2>1. ~ (mounts + 1 <= mounts)
    BY <1>1
  <2>2. QED
    BY <1>1, <2>1 DEF MountInv, OneAtWork
<1>3. asked[mounts + 1] = 0 /\ \A i \in 1..Len(calls) : calls[i].object # mounts + 1
  BY <1>1, <1>2 DEF SettledInv, NothingUnasked
<1>4. CurrentObject'
  <2>1. \A i \in 1..Len(calls) : calls[i].object \in Int
    <3>1. \A i \in 1..Len(calls) : calls[i] \in [handler : {"init", "other", "destroy"},
                                    object : {NoMount} \cup Mounts, session : Mounts]
      BY SeqKept DEF SessionTypes
    <3>2. QED
      BY <3>1 DEF NoMount, Mounts
  <2>2. \A i \in 1..Len(calls) : calls[i].object <= mounts + 1
    BY <1>1, <2>1 DEF SettledInv, CurrentObject
  <2>3. QED
    BY <1>1, <1>2, <2>2 DEF CurrentObject
<1>5. NothingUnasked'
  BY <1>1 DEF SettledInv, NothingUnasked
<1>6. InitLeads'
  BY <1>1, <1>3 DEF InitLeads
<1>7. DestroyEnds'
  BY <1>1, <1>3 DEF DestroyEnds, Protocol!Called
<1>8. QED
  BY <1>4, <1>5, <1>6, <1>7 DEF SettledInv

\* A thread that has called neither queues init first, others next, destroy last.
LEMMA SettledQueue ==
    ASSUME SettledInv, MountInv, SessionTypes, NEW m \in Mounts,
           NEW h \in {"init", "other", "destroy"}, Queue(m, h),
           tPc[m] \in UsesSession, h = "init" <=> asked[m] = 0,
           asked'[m] # 0, \A k \in Mounts : k # m => asked'[k] = asked[k],
           h = "destroy" => tPc'[m] \in Past,
           \A k \in Mounts : tPc'[k] = "none" <=> tPc[k] = "none",
           UNCHANGED <<mounts, calls, fuse, jPc>>
    PROVE  SettledInv'
<1>1. m = mounts /\ jPc \notin Mounting /\ tPc[m] # "none" /\ tPc[m] \notin Past
  BY ControlPoints DEF MountInv, OneAtWork, Past
<1>2. /\ Len(ring') = Len(ring) + 1 /\ Len(ring) \in Nat
      /\ \A i \in 1..Len(ring) : ring'[i] = ring[i]
      /\ ring'[Len(ring) + 1] = [handler |-> h, session |-> m]
      /\ ring' # <<>>
  BY DEF Queue, SessionTypes
<1>3. /\ \A i \in 1..Len(ring') : i # Len(ring) + 1 => i \in 1..Len(ring)
      /\ ring # <<>> => Len(ring) + 1 # 1
      /\ ring = <<>> => Len(ring) = 0
  BY <1>2
<1>4. CurrentObject'
  BY <1>1, <1>2, <1>3 DEF SettledInv, CurrentObject
<1>5. NothingUnasked'
  BY <1>1 DEF SettledInv, NothingUnasked
<1>6. InitLeads'
  <2>1. \A x : Protocol!Called("init", x)' <=> Protocol!Called("init", x)
    BY DEF Protocol!Called
  <2>2. h = "init" <=> Len(ring) + 1 = 1 /\ ~ Protocol!Called("init", mounts)
    <3>1. CASE asked[m] = 0
      BY <1>1, <1>3, <3>1 DEF SettledInv, NothingUnasked, Protocol!Called
    <3>2. CASE asked[m] # 0
      BY <1>1, <1>3, <3>2 DEF SettledInv, InitLeads
    <3>3. QED
      BY <3>1, <3>2
  <2>3. QED
    BY <1>2, <1>3, <2>1, <2>2 DEF SettledInv, InitLeads
<1>7. DestroyEnds'
  <2>1. \A i \in 1..Len(ring) : ring[i].handler # "destroy"
    BY <1>1 DEF SettledInv, DestroyEnds
  <2>2. ~ Protocol!Called("destroy", m)
    BY <1>1 DEF SettledInv, DestroyEnds
  <2>3. QED
    BY <1>1, <1>2, <1>3, <2>1, <2>2 DEF DestroyEnds, Protocol!Called
<1>8. QED
  BY <1>4, <1>5, <1>6, <1>7 DEF SettledInv

\* The step that calls, and its call.
CallMade ==
    [handler |-> Head(ring).handler, object |-> fuse.fsobj, session |-> Head(ring).session]

\* A call is that of the session's next handler, on the session's own object.
LEMMA SettledDispatch ==
    ASSUME SettledInv, MountInv, SessionTypes, Dispatch
    PROVE  /\ Protocol!Legal(CallMade) /\ CallMade \in Protocol!CallRecords
           /\ calls' = Append(calls, CallMade)
           /\ SettledInv'
<1>1. /\ ring # <<>> /\ ring' = Tail(ring) /\ calls' = Append(calls, CallMade)
      /\ UNCHANGED <<mounts, jPc, fuse, asked, tPc>>
  BY DEF Dispatch, CallMade, jsVars, kernelVars
<1>2. /\ Len(ring) \in Nat /\ Len(ring) > 0 /\ Len(ring') = Len(ring) - 1
      /\ Head(ring) = ring[1] /\ \A i \in 1..Len(ring') : ring'[i] = ring[i + 1]
      /\ Len(ring) = 1 => ring' = <<>>
  BY <1>1 DEF SessionTypes
<1>3. Head(ring) \in [handler : {"init", "other", "destroy"}, session : Mounts]
  BY <1>1, SeqKept DEF SessionTypes
<1>4. /\ mounts \in Mounts /\ tPc[mounts] # "none" /\ fuse.fsobj = mounts
      /\ ring[1].session = mounts
  BY <1>1, <1>2 DEF SettledInv, CurrentObject
<1>5. /\ CallMade.object = mounts /\ CallMade.session = mounts
      /\ CallMade.handler = ring[1].handler
      /\ CallMade.handler \in {"init", "other", "destroy"}
  BY <1>2, <1>3, <1>4 DEF CallMade
<1>6. CallMade.handler = "init" <=> ~ Protocol!Called("init", mounts)
  BY <1>2, <1>5 DEF SettledInv, InitLeads
<1>7. ~ Protocol!Called("destroy", mounts)
  BY <1>1, <1>4 DEF SettledInv, DestroyEnds
<1>8. Protocol!Legal(CallMade)
  BY <1>5, <1>6, <1>7 DEF Protocol!Legal, Protocol!InTurn, SettledInv, CurrentObject
<1>9. CallMade \in Protocol!CallRecords
  BY <1>3, <1>4 DEF CallMade, Protocol!CallRecords, Mounts
<1>10. /\ Len(calls') = Len(calls) + 1 /\ Len(calls) \in Nat
       /\ \A i \in 1..Len(calls) : calls'[i] = calls[i]
       /\ calls'[Len(calls) + 1] = CallMade
       /\ \A i \in 1..Len(calls') : i # Len(calls) + 1 => i \in 1..Len(calls)
       /\ DOMAIN calls = 1..Len(calls) /\ DOMAIN calls' = 1..Len(calls')
  BY <1>1 DEF SessionTypes
<1>11. \A h : Protocol!Called(h, mounts)' <=>
                 Protocol!Called(h, mounts) \/ CallMade.handler = h
  <2>1. mounts' = mounts
    BY <1>1
  <2>2. ASSUME NEW h
        PROVE  (\E i \in DOMAIN calls' : calls'[i].handler = h /\ calls'[i].object = mounts)
               <=> \/ \E i \in DOMAIN calls : calls[i].handler = h /\ calls[i].object = mounts
                   \/ CallMade.handler = h
    BY <1>5, <1>10
  <2>3. QED
    BY <2>1, <2>2 DEF Protocol!Called
<1>12. CurrentObject'
  <2>1. \A i \in 1..Len(calls') : calls'[i].object <= mounts
    <3>1. mounts <= mounts
      BY <1>4 DEF Mounts
    <3>2. QED
      BY <1>5, <1>10, <3>1 DEF SettledInv, CurrentObject
  <2>2. \A i \in 1..Len(ring') : ring'[i].session = mounts
    BY <1>2 DEF SettledInv, CurrentObject
  <2>3. QED
    BY <1>1, <2>1, <2>2 DEF SettledInv, CurrentObject
<1>13. NothingUnasked'
  <2>1. \A m \in Mounts : asked[m] = 0 => m # mounts
    BY <1>1 DEF SettledInv, NothingUnasked
  <2>2. \A m \in Mounts : asked[m] = 0 => \A i \in 1..Len(calls') : calls'[i].object # m
    BY <1>5, <1>10, <2>1 DEF SettledInv, NothingUnasked
  <2>3. QED
    BY <1>1, <2>1, <2>2 DEF SettledInv, NothingUnasked
<1>14. InitLeads'
  <2>1. Protocol!Called("init", mounts)'
    BY <1>6, <1>11
  <2>2. \A i \in 1..Len(ring') : ring'[i].handler # "init"
    BY <1>2 DEF SettledInv, InitLeads
  <2>3. QED
    BY <1>1, <2>1, <2>2 DEF InitLeads
<1>15. DestroyEnds'
  <2>1. \A i \in 1..Len(ring') : ring'[i].handler = "destroy" =>
            i = Len(ring') /\ tPc[mounts] \in Past
    BY <1>2 DEF SettledInv, DestroyEnds
  <2>2. CallMade.handler = "destroy" => ring' = <<>> /\ tPc[mounts] \in Past
    <3>1. 1 \in 1..Len(ring)
      BY <1>2
    <3>2. ring[1].handler = "destroy" => 1 = Len(ring) /\ tPc[mounts] \in Past
      BY <3>1 DEF SettledInv, DestroyEnds
    <3>3. QED
      BY <1>2, <1>5, <3>2
  <2>3. Protocol!Called("destroy", mounts)' => ring' = <<>> /\ tPc[mounts] \in Past
    BY <1>7, <1>11, <2>2
  <2>4. QED
    BY <1>1, <2>1, <2>3 DEF DestroyEnds
<1>16. QED
  BY <1>1, <1>8, <1>9, <1>12, <1>13, <1>14, <1>15 DEF SettledInv

\* The steps of a session thread, each with what it queues.
LEMMA SettledThread ==
    ASSUME SettledInv, MountInv, SessionTypes, NEW m \in Mounts,
           \/ SessionThread(m) \/ Request(m) \/ Signal(m) \/ ReadFails(m)
    PROVE  SettledInv' /\ UNCHANGED calls
<1> DEFINE Moves(from, to) ==
              /\ tPc[m] \in from /\ \E pc \in to : tPc' = [tPc EXCEPT ![m] = pc]
              /\ UNCHANGED <<mounts, jPc, calls, fuse.fsobj>>
<1>1. \A from, to : Moves(from, to) =>
          \A k \in Mounts : IF k = m THEN tPc[k] \in from /\ tPc'[k] \in to
                            ELSE tPc'[k] = tPc[k]
  BY DEF MountInv, MountTypes
<1>2. "none" \notin Past /\ "none" \notin UsesHandle /\ UsesSession \cap Past = {}
  BY ControlPoints DEF Past
<1>3. ASSUME NEW from \in SUBSET UsesHandle, NEW to \in SUBSET (UsesSession \cup Past),
             from \cap Past # {} => from \subseteq Past /\ to \subseteq Past,
             Moves(from, to), UNCHANGED <<ring, asked>>
      PROVE  SettledInv' /\ UNCHANGED calls
  <2>1. jPc \notin Mounting
    BY <1>3, ControlPoints DEF MountInv, OneAtWork
  <2>2. \A k \in Mounts : (tPc[k] # "none" /\ tPc'[k] # "none") \/ tPc'[k] = tPc[k]
    BY <1>1, <1>2, <1>3, ControlPoints
  <2>3. \A k \in Mounts : tPc[k] \in Past => tPc'[k] \in Past
    BY <1>1, <1>2, <1>3
  <2>4. QED
    BY <1>3, <2>1, <2>2, <2>3, SettledFrame DEF Mounting
<1>4. CASE CreateSession(m)
  <2>1. Moves({"create"}, {"handlers", "ended"}) /\ UNCHANGED <<ring, asked>>
    BY <1>4 DEF CreateSession, At, Goto, jsVars, queueVars, MountInv, MountTypes
  <2>2. QED
    BY <1>3, <2>1, ControlPoints DEF Past
<1>5. CASE StartSession(m)
  <2>1. Moves({"handlers"}, {"loop", "ended"}) /\ UNCHANGED <<ring, asked>>
    BY <1>5 DEF StartSession, At, Goto, jsVars, queueVars
  <2>2. QED
    BY <1>3, <2>1, ControlPoints DEF Past
<1>6. CASE TestExit(m) \/ ReadGone(m) \/ Signal(m) \/ ReadFails(m)
  <2>1. Moves({"loop", "read"}, {"loop", "read", "remove", "removeFailed"})
        /\ UNCHANGED <<ring, asked>>
    BY <1>6 DEF TestExit, ReadGone, Signal, ReadFails, At, Goto, jsVars, queueVars,
          kernelVars
  <2>2. QED
    BY <1>3, <2>1, ControlPoints DEF Past
<1>7. CASE Request(m)
  <2>1. tPc[m] = "read" /\ asked[m] \in Nat /\ UNCHANGED <<mounts, jPc, calls, fuse>>
    BY <1>7 DEF Request, At, jsVars, SessionTypes
  <2>2. CASE exited[fuse.session]
    <3>1. Moves({"read"}, {"remove"}) /\ UNCHANGED <<ring, asked>>
      BY <1>7, <2>1, <2>2 DEF Request, Goto, queueVars
    <3>2. QED
      BY <1>3, <3>1, ControlPoints DEF Past
  <2>3. CASE ~ exited[fuse.session]
    <3>1. PICK h \in {"init", "other", "destroy"} :
              Queue(m, h) /\ h # "destroy" /\ (h = "init" <=> asked[m] = 0)
      BY <1>7, <2>3 DEF Request
    <3>2. asked' = [asked EXCEPT ![m] = @ + 1] /\ Moves({"read"}, {"loop"})
      BY <1>7, <2>1, <2>3 DEF Request, Goto
    <3>3. asked'[m] # 0 /\ \A k \in Mounts : k # m => asked'[k] = asked[k]
      BY <2>1, <3>2 DEF SessionTypes
    <3>4. \A k \in Mounts : tPc'[k] = "none" <=> tPc[k] = "none"
      BY <1>1, <3>2
    <3>5. QED
      BY <2>1, <3>1, <3>3, <3>4, ControlPoints, SettledQueue
  <2>4. QED
    BY <2>2, <2>3
<1>8. CASE DestroySession(m)
  <2>1. Moves({"remove", "removeFailed"}, {"release", "releaseFailed"})
        /\ UNCHANGED <<asked, fuse>>
    BY <1>8 DEF DestroySession, At, Goto, jsVars, kernelVars
  <2>2. CASE asked[m] > 0
    <3>1. Queue(m, "destroy") /\ asked[m] # 0
      BY <1>8, <2>2 DEF DestroySession, SessionTypes
    <3>2. \A k \in Mounts :
              IF k = m THEN /\ tPc[k] \in {"remove", "removeFailed"}
                            /\ tPc'[k] \in {"release", "releaseFailed"}
              ELSE tPc'[k] = tPc[k]
      BY <1>1, <2>1
    <3>3. /\ tPc[m] \in UsesSession /\ tPc'[m] \in Past
          /\ \A k \in Mounts : tPc'[k] = "none" <=> tPc[k] = "none"
      BY <3>2, ControlPoints DEF Past
    <3>4. QED
      BY <2>1, <2>2, <3>1, <3>3, SettledQueue
  <2>3. CASE ~ (asked[m] > 0)
    <3>1. UNCHANGED ring
      BY <1>8, <2>3 DEF DestroySession, queueVars
    <3>2. QED
      BY <1>3, <2>1, <3>1, ControlPoints DEF Past
  <2>4. QED
    BY <2>2, <2>3
<1>9. CASE Release(m)
  <2>1. Moves({"release", "releaseFailed"}, {"close", "closeFailed"})
        /\ UNCHANGED <<ring, asked>>
    BY <1>9 DEF Release, At, Goto, jsVars, queueVars
  <2>2. QED
    BY <1>3, <2>1, ControlPoints DEF Past
<1>10. CASE CloseHandle(m)
  <2>1. Moves({"close", "closeFailed"}, {"ended"}) /\ UNCHANGED <<ring, asked>>
    BY <1>10 DEF CloseHandle, At, Goto, jsVars, kernelVars
  <2>2. QED
    BY <1>3, <2>1, ControlPoints DEF Past
<1>11. QED
  BY <1>4, <1>5, <1>6, <1>7, <1>8, <1>9, <1>10 DEF SessionThread

\* The steps of the JavaScript thread but those that call or begin a mount.
LEMMA SettledJavaScript ==
    ASSUME SettledInv, MountInv, SessionTypes,
           \/ MountThrows \/ MountDevice \/ MountObject \/ MountStart \/ Unmount
           \/ WakeUp \/ DispatchEnds \/ FinishClose
    PROVE  SettledInv' /\ UNCHANGED calls
<1> DEFINE Quiet ==
              /\ UNCHANGED <<mounts, calls, ring, asked, tPc, fuse.fsobj>>
              /\ jPc' \in Mounting => jPc \in Mounting
              /\ jPc' = "start" => jPc = "start"
<1>1. ASSUME Quiet PROVE SettledInv' /\ UNCHANGED calls
  <2>1. jPc = "start" => fuse.fsobj = mounts
    BY DEF SettledInv, CurrentObject, MountInv, OneAtWork, Mounting
  <2>2. QED
    BY <1>1, <2>1, SettledFrame
<1>2. CASE MountThrows \/ MountDevice
  BY <1>1, <1>2 DEF MountThrows, MountDevice, Mounting, kernelVars, queueVars, MountInv,
        MountTypes
<1>3. CASE Unmount \/ WakeUp \/ DispatchEnds \/ FinishClose
  BY <1>1, <1>3 DEF Unmount, WakeUp, DispatchEnds, FinishClose, Mounting, jsVars,
        kernelVars, queueVars
<1>4. CASE MountStart
  <2>1. /\ jPc = "start" /\ (jPc' = "idle" \/ UNCHANGED <<jPc, tPc>>)
        /\ UNCHANGED <<mounts, calls, ring, asked, fuse>>
        /\ tPc' = tPc \/ tPc' = [tPc EXCEPT ![mounts] = "create"]
    BY <1>4 DEF MountStart, kernelVars
  <2>2. mounts \in Mounts /\ tPc[mounts] = "none"
    BY <2>1 DEF MountInv, OneAtWork, Mounting
  <2>3. \A k \in Mounts : tPc'[k] = tPc[k] \/ (k = mounts /\ tPc'[k] = "create")
    BY <2>1 DEF MountInv, MountTypes
  <2>4. fuse.fsobj = mounts
    BY <2>1, <2>2 DEF SettledInv, CurrentObject
  <2>5. \A k \in Mounts : tPc[k] # "none" => tPc'[k] # "none"
    BY <2>2, <2>3
  <2>6. \A k \in Mounts : tPc[k] \in Past => tPc'[k] \in Past
    BY <2>2, <2>3 DEF Past
  <2>7. QED
    BY <2>1, <2>2, <2>3, <2>4, <2>5, <2>6, SettledFrame DEF Mounting
<1>5. CASE MountObject
  <2>1. jPc = "object" /\ UNCHANGED <<mounts, calls, ring, asked, tPc>>
    BY <1>5 DEF MountObject, kernelVars, queueVars
  <2>2. CASE UNCHANGED <<fuse, jPc>>
    BY <1>1, <2>1, <2>2
  <2>3. CASE fuse' = [fuse EXCEPT !.fsobj = mounts] /\ jPc' = "start"
    <3>1. mounts \in Mounts /\ tPc[mounts] = "none" /\ ring = <<>> /\ fuse'.fsobj = mounts
      BY <2>1, <2>3 DEF MountInv, MountTypes, OneAtWork, Mounting, SettledInv,
            CurrentObject
    <3>2. CurrentObject' /\ NothingUnasked'
      BY <2>1, <3>1 DEF SettledInv, CurrentObject, NothingUnasked
    <3>3. InitLeads'
      BY <2>1 DEF SettledInv, InitLeads, Protocol!Called
    <3>4. DestroyEnds'
      BY <2>1, <3>1 DEF SettledInv, DestroyEnds, Protocol!Called
    <3>5. QED
      BY <2>1, <3>2, <3>3, <3>4 DEF SettledInv
  <2>4. QED
    BY <1>5, <2>2, <2>3 DEF MountObject
<1>6. QED
  BY <1>2, <1>3, <1>4, <1>5

\* Every step of the process is a step of the protocol or makes no call.
LEMMA SettledStep ==
    ASSUME SettledInv, MountInv, SessionTypes, Remount = "settled", [Next]_vars
    PROVE  SettledInv' /\ [Protocol!Next]_calls
<1>1. CASE MountArguments
  BY <1>1, SettledArguments DEF MountArguments
<1>2. CASE Dispatch
  BY <1>2, SettledDispatch DEF Protocol!Next
<1>3. CASE \/ MountThrows \/ MountDevice \/ MountObject \/ MountStart \/ Unmount
           \/ WakeUp \/ DispatchEnds \/ FinishClose
  BY <1>3, SettledJavaScript
<1>4. ASSUME NEW m \in Mounts, SessionThread(m) \/ Request(m) \/ Signal(m) \/ ReadFails(m)
      PROVE  SettledInv' /\ [Protocol!Next]_calls
  BY <1>4, SettledThread
<1>5. ASSUME UNCHANGED <<mounts, jPc, calls, ring, asked, tPc, fuse>>
      PROVE  SettledInv' /\ [Protocol!Next]_calls
  <2>1. jPc = "start" => fuse.fsobj = mounts
    BY DEF SettledInv, CurrentObject, MountInv, OneAtWork, Mounting
  <2>2. QED
    BY <1>5, <2>1, SettledFrame
<1>6. ASSUME NEW m \in Mounts, KernelUnmounts(m)
      PROVE  SettledInv' /\ [Protocol!Next]_calls
  BY <1>5, <1>6 DEF KernelUnmounts, jsVars, queueVars
<1>7. CASE UNCHANGED vars
  BY <1>5, <1>7 DEF vars, jsVars, kernelVars, queueVars
<1>8. QED
  BY <1>1, <1>2, <1>3, <1>4, <1>6, <1>7 DEF Next, JavaScript

\* Each file system object sees init first and destroy last, and no calls but those
\* of its own session, when mount() is called again only after the thread of the session
\* before is done and nothing is queued or being closed.
THEOREM SessionsAsPromised ==
    ASSUME Remount = "settled" PROVE Spec => ImplementsSessionProtocol
<1>1. Init => SessionTypes /\ Protocol!Init
  <2>1. 0 \in 0..MaxRequests
    BY MountAssumption
  <2>2. \A S : <<>> \in Seq(S)
    OBVIOUS
  <2>3. QED
    BY <2>1, <2>2 DEF Init, SessionTypes, Protocol!Init
<1>2. MountInv /\ SessionTypes /\ [Next]_vars => SessionTypes'
  BY SessionTypesStep
<1>3. SettledInv /\ MountInv /\ SessionTypes /\ [Next]_vars
          => SettledInv' /\ [Protocol!Next]_calls
  BY SettledStep
<1>4. QED
  BY <1>1, <1>2, <1>3, SettledInit, MountInvariant, PTL
     DEF Spec, Protocol!Spec, ImplementsSessionProtocol
=============================================================================
