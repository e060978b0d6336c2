--------------------------- MODULE OpenFilesProofs ---------------------------
(***************************************************************************)
(* What the handler of an open stores in its FileInfo (src/file_info.cc)   *)
(* governs that file and no other, for any number of opens under way, in   *)
(* any order of stores and replies.                                        *)
(***************************************************************************)
EXTENDS OpenFiles, TLAPS

\* The handles fit the 32 bits of Nan::To<uint32_t>, and the handler stores them
\* under the name that the accessors have.
SoundHandles ==
    /\ Values \subseteq 0..(HandleLimit - 1)
    /\ Property = "file_handle"

Kinds == {"none", "opening", "refused", "interrupted", "open", "closed"}
OwnValues == {<<>>} \cup {<<v>> : v \in Values}
Handles == 0..(HandleLimit - 1)

Types ==
    /\ phase \in [Opens -> Kinds]
    /\ object \in [Opens -> [access : 0..3, handle : Handles, options : SUBSET Options,
                             own : OwnValues]]
    /\ kernel \in [Opens -> [handle : Handles, options : SUBSET Options]]
    /\ wanted \in [Opens -> [handle : OwnValues, options : SUBSET Options]]
    /\ \A s \in seen : s.file \in Opens
    /\ written \subseteq Opens

\* The type invariant under the names used below.
LEMMA TypesAre == TypeOK <=> Types
BY DEF TypeOK, Types, Kinds, OwnValues, Handles

\* The sizes.
LEMMA Limits == HandleLimit \in Nat \ {0} /\ Values \subseteq Int /\ 0 \in Handles
BY OpenFilesAssumption DEF Handles

\* A number that a handler stores becomes one that fits, and a fitting one stays.
LEMMA Stored ==
    ASSUME NEW v \in Values
    PROVE  ToUint32(v) \in Handles /\ (v \in Handles => ToUint32(v) = v)
BY Limits DEF ToUint32, Handles

\* Every operation keeps the types.
LEMMA TypesNext == ASSUME Types, [Next]_vars PROVE Types'
<1> USE DEF Types
<1>1. CASE UNCHANGED vars
  BY <1>1 DEF vars
<1>2. ASSUME NEW o \in Opens, NEW access \in 0..3, Open(o, access) PROVE Types'
  <2>1. FileInfo(access, 0, {}) \in [access : 0..3, handle : Handles,
                                     options : SUBSET Options, own : OwnValues]
    BY Limits DEF FileInfo, OwnValues
  <2>2. QED
    BY <1>2, <2>1 DEF Open, Kinds
<1>3. ASSUME NEW o \in Opens, NEW v \in Values, StoreHandle(o, v) PROVE Types'
  <2>1. SetHandle(object[o], v) \in [access : 0..3, handle : Handles,
                                     options : SUBSET Options, own : OwnValues]
    BY Stored DEF SetHandle, OwnValues
  <2>2. <<v>> \in OwnValues
    BY DEF OwnValues
  <2>3. QED
    BY <1>3, <2>1, <2>2 DEF StoreHandle
<1>4. ASSUME NEW o \in Opens, NEW option \in Options, StoreOption(o, option) PROVE Types'
  BY <1>4 DEF StoreOption
<1>5. ASSUME NEW o \in Opens, ReplyOpen(o) PROVE Types'
  BY <1>5 DEF ReplyOpen, Kinds
<1>6. ASSUME NEW o \in Opens, ReplyInterrupted(o) \/ Refuse(o) PROVE Types'
  BY <1>6 DEF ReplyInterrupted, Refuse, Kinds
<1>7. ASSUME NEW o \in Opens, Read(o) \/ Write(o) \/ Release(o) PROVE Types'
  BY <1>7 DEF Read, Write, Release, Kinds
<1>8. QED
  BY <1>1, <1>2, <1>3, <1>4, <1>5, <1>6, <1>7 DEF Next

\* Before the first open everything is blank.
LEMMA TypesInit == Init => Types
BY Limits DEF Init, Types, FileInfo, Kinds, OwnValues

\* The handles and options of the model are numbers and options.
THEOREM FilesTyped == Spec => []TypeOK
BY TypesInit, TypesNext, TypesAre, PTL DEF Spec

-----------------------------------------------------------------------------
(* Who stores what.                                                        *)

Answered(o) == phase[o] \in {"open", "closed"}

\* Nothing is stored before the open; until the reply the object holds what the
\* handler stored, and from the reply on the kernel does.
OptionsInv ==
    \A o \in Opens :
        /\ phase[o] = "none" => wanted[o] = [handle |-> <<>>, options |-> {}]
        /\ phase[o] = "opening" => object[o].options = wanted[o].options
        /\ Answered(o) => kernel[o].options = wanted[o].options

\* Only files that the handler has accepted are open, and asked to be written only
\* those opened for it.
AccessInv ==
    /\ \A o \in Opens : Answered(o) => Accepted(o)
    /\ \A o \in written : Answered(o) /\ object[o].access \in {1, 2}

\* The handle that is stored in the object, and that the kernel has been given.
HandleInv ==
    /\ \A o \in Opens :
          wanted[o].handle # <<>> =>
              /\ phase[o] = "opening" => <<object[o].handle>> = wanted[o].handle
              /\ Answered(o) => <<kernel[o].handle>> = wanted[o].handle
    /\ \A s \in seen : Answered(s.file)
    /\ HandleComesBack

\* The stores and the reply of one open concern that open only.
LEMMA OptionsNext == ASSUME Types, OptionsInv, [Next]_vars PROVE OptionsInv'
<1> USE DEF Types, OptionsInv, Answered, Kinds
<1>1. CASE UNCHANGED vars
  BY <1>1 DEF vars
<1>2. ASSUME NEW o \in Opens, NEW access \in 0..3, Open(o, access) PROVE OptionsInv'
  BY <1>2 DEF Open, FileInfo
<1>3. ASSUME NEW o \in Opens, NEW v \in Values, StoreHandle(o, v) PROVE OptionsInv'
  <2>1. \A p \in Opens : /\ object'[p].options = object[p].options
                         /\ wanted'[p].options = wanted[p].options
                         /\ p # o => wanted'[p] = wanted[p]
    BY <1>3 DEF StoreHandle, SetHandle
  <2>2. phase[o] = "opening" /\ UNCHANGED <<phase, kernel>>
    BY <1>3 DEF StoreHandle
  <2>3. QED
    BY <2>1, <2>2
<1>4. ASSUME NEW o \in Opens, NEW option \in Options, StoreOption(o, option)
      PROVE  OptionsInv'
  <2>1. /\ object'[o].options = object[o].options \cup {option}
        /\ wanted'[o].options = wanted[o].options \cup {option}
        /\ \A p \in Opens : p # o => object'[p] = object[p] /\ wanted'[p] = wanted[p]
    BY <1>4 DEF StoreOption
  <2>2. phase[o] = "opening" /\ UNCHANGED <<phase, kernel>>
    BY <1>4 DEF StoreOption
  <2>3. QED
    BY <2>1, <2>2
<1>5. ASSUME NEW o \in Opens, ReplyOpen(o) PROVE OptionsInv'
  BY <1>5 DEF ReplyOpen
<1>6. ASSUME NEW o \in Opens, ReplyInterrupted(o) \/ Refuse(o) PROVE OptionsInv'
  BY <1>6 DEF ReplyInterrupted, Refuse
<1>7. ASSUME NEW o \in Opens, Read(o) \/ Write(o) \/ Release(o) PROVE OptionsInv'
  BY <1>7 DEF Read, Write, Release
<1>8. QED
  BY <1>1, <1>2, <1>3, <1>4, <1>5, <1>6, <1>7 DEF Next

\* Flags are for good: a file keeps the access mode it was opened with.
LEMMA AccessNext == ASSUME Types, AccessInv, [Next]_vars PROVE AccessInv'
<1> USE DEF Types, AccessInv, Answered, Accepted, Kinds
<1>1. CASE UNCHANGED vars
  BY <1>1 DEF vars
<1>2. ASSUME NEW o \in Opens, NEW access \in 0..3, Open(o, access) PROVE AccessInv'
  BY <1>2 DEF Open
<1>3. ASSUME NEW o \in Opens, NEW v \in Values, StoreHandle(o, v) PROVE AccessInv'
  BY <1>3 DEF StoreHandle, SetHandle
<1>4. ASSUME NEW o \in Opens, NEW option \in Options, StoreOption(o, option)
      PROVE  AccessInv'
  BY <1>4 DEF StoreOption
<1>5. ASSUME NEW o \in Opens, ReplyOpen(o) PROVE AccessInv'
  BY <1>5 DEF ReplyOpen
<1>6. ASSUME NEW o \in Opens, ReplyInterrupted(o) \/ Refuse(o) PROVE AccessInv'
  BY <1>6 DEF ReplyInterrupted, Refuse
<1>7. ASSUME NEW o \in Opens, Read(o) \/ Write(o) \/ Release(o) PROVE AccessInv'
  BY <1>7 DEF Read, Write, Release
<1>8. QED
  BY <1>1, <1>2, <1>3, <1>4, <1>5, <1>6, <1>7 DEF Next

\* What a call about an open file reads is what the kernel was given for it.
LEMMA ObservedHandle ==
    ASSUME SoundHandles, Types, NEW o \in Opens
    PROVE  Observed(o) = <<kernel[o].handle>>
<1>1. kernel[o].handle \in Handles
  BY DEF Types
<1>2. ToUint32(kernel[o].handle) = kernel[o].handle
  BY <1>1, Limits DEF ToUint32, Handles
<1>3. QED
  BY <1>2 DEF Observed, GetHandle, FileInfo, SoundHandles

\* A handle goes from the object to the kernel and from there to the calls.
LEMMA HandleNext ==
    ASSUME SoundHandles, Types, OptionsInv, HandleInv, [Next]_vars PROVE HandleInv'
<1> USE DEF Types, HandleInv, HandleComesBack, Answered, Kinds
<1>1. CASE UNCHANGED vars
  BY <1>1 DEF vars
<1>2. ASSUME NEW o \in Opens, NEW access \in 0..3, Open(o, access) PROVE HandleInv'
  <2>1. wanted[o].handle = <<>>
    BY <1>2 DEF Open, OptionsInv
  <2>2. QED
    BY <1>2, <2>1 DEF Open
<1>3. ASSUME NEW o \in Opens, NEW v \in Values, StoreHandle(o, v) PROVE HandleInv'
  <2>1. ToUint32(v) = v
    BY Stored DEF SoundHandles, Handles
  <2>2. object'[o].handle = v /\ wanted'[o].handle = <<v>>
    BY <1>3, <2>1 DEF StoreHandle, SetHandle, SoundHandles
  <2>3. \A p \in Opens : p # o => object'[p] = object[p] /\ wanted'[p] = wanted[p]
    BY <1>3 DEF StoreHandle
  <2>4. phase[o] = "opening" /\ UNCHANGED <<phase, kernel, seen>>
    BY <1>3 DEF StoreHandle
  <2>5. \A s \in seen : s.file # o
    BY <2>4
  <2>6. QED
    BY <2>2, <2>3, <2>4, <2>5
<1>4. ASSUME NEW o \in Opens, NEW option \in Options, StoreOption(o, option)
      PROVE  HandleInv'
  BY <1>4 DEF StoreOption
<1>5. ASSUME NEW o \in Opens, ReplyOpen(o) PROVE HandleInv'
  BY <1>5 DEF ReplyOpen
<1>6. ASSUME NEW o \in Opens, ReplyInterrupted(o) \/ Refuse(o) PROVE HandleInv'
  BY <1>6 DEF ReplyInterrupted, Refuse
<1>7. ASSUME NEW o \in Opens, Read(o) \/ Write(o) \/ Release(o) PROVE HandleInv'
  <2>1. /\ seen' = seen \cup {[file |-> o, handle |-> <<kernel[o].handle>>]}
        /\ UNCHANGED <<object, kernel, wanted>>
        /\ \A p \in Opens : Answered(p) <=> Answered(p)'
        /\ phase[o] = "open"
        /\ \A p \in Opens : phase'[p] = "opening" => phase[p] = "opening"
    BY <1>7, ObservedHandle DEF Read, Write, Release
  <2>2. QED
    BY <2>1
<1>8. QED
  BY <1>1, <1>2, <1>3, <1>4, <1>5, <1>6, <1>7 DEF Next

-----------------------------------------------------------------------------
(* The theorems.                                                           *)

\* The options that the handler of an open sets (file_info.cc's setters) are those
\* the kernel opens that file with, however many opens overlap.
THEOREM OptionsKept == Spec => []OptionsReachTheKernel
<1>1. Init => OptionsInv
  BY DEF Init, OptionsInv, Answered
<1>2. OptionsInv => OptionsReachTheKernel
  BY DEF OptionsInv, OptionsReachTheKernel, Answered
<1>3. QED
  BY <1>1, <1>2, TypesInit, TypesNext, OptionsNext, PTL DEF Spec

\* A file whose handler accepts readers only is never written: GetFlags tells the
\* access modes apart.
THEOREM ReadersProtected == Spec => []ReadersNeverWrite
<1>1. Init => AccessInv
  BY DEF Init, AccessInv, Answered
<1>2. Types /\ AccessInv => ReadersNeverWrite
  <2> SUFFICES ASSUME Types, AccessInv, NEW o \in written
               PROVE  Accepts[o] \cap {"wronly", "rdwr"} # {}
    BY DEF ReadersNeverWrite
  <2>1. Accepted(o) /\ object[o].access \in {1, 2}
    BY DEF Types, AccessInv
  <2>2. QED
    BY <2>1 DEF Accepted, Access
<1>3. QED
  BY <1>1, <1>2, TypesInit, TypesNext, AccessNext, PTL DEF Spec

\* A handle that fits 32 bits, stored under the accessor's name, comes back with
\* every call about its file and with no other's (file_info.cc:289-309).
THEOREM HandleKept == ASSUME SoundHandles PROVE Spec => []HandleComesBack
<1>1. Init => OptionsInv /\ HandleInv
  BY DEF Init, OptionsInv, HandleInv, HandleComesBack, Answered
<1>2. HandleInv => HandleComesBack
  BY DEF HandleInv
<1>3. QED
  BY <1>1, <1>2, TypesInit, TypesNext, OptionsNext, HandleNext, PTL DEF Spec
=============================================================================
