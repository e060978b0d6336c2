----------------------------- MODULE SpscQueue -----------------------------
(***************************************************************************)
(* spsc_bounded_queue_t<T> of src/spsc_queue.h, one atomic access per      *)
(* step.  The producer is the FUSE session thread (every FileSystem::op of *)
(* src/filesystem.cc), the consumer is the JavaScript thread (DispatchOp). *)
(*                                                                         *)
(* _head and _tail are size_t: they are kept modulo Wrap (2^64 there, a    *)
(* small multiple of Size here).  Each thread reads the other one's        *)
(* counter with memory_order_acquire: such a load may return any value the *)
(* counter has held since the newest one this thread has already seen, so  *)
(* both checks below work on a value that may be stale.                    *)
(*                                                                         *)
(* The assignment of a T (a struct of 40 words) to a slot is not atomic:   *)
(* the write takes two steps and leaves Torn in the slot in between.       *)
(***************************************************************************)
EXTENDS Integers, Sequences

CONSTANTS Values,    \* contents of a slot
          Torn,      \* a slot that is half written, or was never written
          Size,      \* number of slots, _size
          Wrap,      \* number of values of a size_t
          MaxSent    \* bound: how many values are ever produced

ASSUME QueueAssumption ==
    /\ Size \in Nat \ {0}
    /\ \E k \in 0..Size : Size = 2^k          \* the assert of the constructor
    /\ Wrap \in Nat \ {0}
    /\ \E k \in 1..Wrap : Wrap = k * Size     \* both are powers of two
    /\ MaxSent \in Nat
    /\ Torn \notin Values

VARIABLES
    head, tail,      \* _head and _tail
    buffer,          \* _buffer
    pPc, pHead, pItem,   \* produce(): control point, `head', `input'
    cPc, cTail, cItem,   \* consume(): control point, `tail', `output'
    pSeen,           \* how far into tail's history the producer has looked
    cSeen,           \* how far into head's history the consumer has looked
    sent, received   \* history: every value published, every value taken

producerVars == <<pPc, pHead, pItem, pSeen>>
consumerVars == <<cPc, cTail, cItem, cSeen>>
vars == <<head, tail, buffer, producerVars, consumerVars, sent, received>>

Slots == 0..(Size - 1)

\* `n & _mask', for a _size that is a power of two.
Slot(n) == n % Size

\* Broken: a counter that does not wrap.
SuccUnwrapped(n) == n + 1

\* The successor of a size_t.
Succ(n) == (n + 1) % Wrap

\* Broken: the room test off by one, either way.
HasRoomWhenFull(h, t) == Slot((t - (h + 1)) % Wrap) >= 0
HasRoomForTwo(h, t) == Slot((t - (h + 1)) % Wrap) >= 2

\* `((_tail - (head + 1)) & _mask) >= 1', in size_t arithmetic.
HasRoom(h, t) == Slot((t - (h + 1)) % Wrap) >= 1

\* Broken: an item is seen in an empty ring.
HasItemWhenEmpty(h, t) == Slot((h - t) % Wrap) >= 0

\* `((_head - tail) & _mask) >= 1'.
HasItem(h, t) == Slot((h - t) % Wrap) >= 1

Init ==
    /\ head = 0 /\ tail = 0
    /\ buffer = [s \in Slots |-> Torn]
    /\ pPc = "idle" /\ pHead = 0 /\ pItem = Torn /\ pSeen = 0
    /\ cPc = "idle" /\ cTail = 0 /\ cItem = Torn /\ cSeen = 0
    /\ sent = <<>> /\ received = <<>>

-----------------------------------------------------------------------------
(* produce(input), run by the FUSE session thread.                         *)

\* The call, and the relaxed load of its own counter.
ProduceCall(v) ==
    /\ pPc = "idle"
    /\ Len(sent) < MaxSent
    /\ pPc' = "check" /\ pItem' = v /\ pHead' = head
    /\ UNCHANGED <<pSeen, head, tail, buffer, consumerVars, sent, received>>

\* The acquire load of _tail (its c-th value) and the test for room; without
\* room the call returns false.
ProduceCheck ==
    /\ pPc = "check"
    /\ \E c \in pSeen..Len(received) :
          /\ pSeen' = c
          /\ pPc' = IF HasRoom(pHead, c % Wrap) THEN "write" ELSE "idle"
    /\ UNCHANGED <<pHead, pItem, head, tail, buffer, consumerVars, sent, received>>

\* Broken: head is published while the slot is still being written.
PublishBeforeWritten ==
    /\ pPc = "write"
    /\ buffer' = [buffer EXCEPT ![Slot(pHead)] = Torn]
    /\ pPc' = "publish"
    /\ UNCHANGED <<pHead, pItem, pSeen, head, tail, consumerVars, sent, received>>

ProduceWriteBegin ==
    /\ pPc = "write"
    /\ buffer' = [buffer EXCEPT ![Slot(pHead)] = Torn]
    /\ pPc' = "writing"
    /\ UNCHANGED <<pHead, pItem, pSeen, head, tail, consumerVars, sent, received>>

ProduceWriteEnd ==
    /\ pPc = "writing"
    /\ buffer' = [buffer EXCEPT ![Slot(pHead)] = pItem]
    /\ pPc' = "publish"
    /\ UNCHANGED <<pHead, pItem, pSeen, head, tail, consumerVars, sent, received>>

\* The release store of head + 1; the call returns true.
ProducePublish ==
    /\ pPc = "publish"
    /\ head' = Succ(pHead)
    /\ sent' = Append(sent, pItem)
    /\ pPc' = "idle"
    /\ UNCHANGED <<pHead, pItem, pSeen, tail, buffer, consumerVars, received>>

-----------------------------------------------------------------------------
(* consume(output), run by the JavaScript thread.                          *)

ConsumeCall ==
    /\ cPc = "idle"
    /\ cPc' = "check" /\ cTail' = tail
    /\ UNCHANGED <<cItem, cSeen, head, tail, buffer, producerVars, sent, received>>

\* The acquire load of _head and the test for an item; without one the call
\* returns false.
ConsumeCheck ==
    /\ cPc = "check"
    /\ \E c \in cSeen..Len(sent) :
          /\ cSeen' = c
          /\ cPc' = IF HasItem(c % Wrap, cTail) THEN "read" ELSE "idle"
    /\ UNCHANGED <<cTail, cItem, head, tail, buffer, producerVars, sent, received>>

\* The read of the slot lasts from the check to this step.
ConsumeRead ==
    /\ cPc = "read"
    /\ cItem' = buffer[Slot(cTail)]
    /\ cPc' = "publish"
    /\ UNCHANGED <<cTail, cSeen, head, tail, buffer, producerVars, sent, received>>

\* Broken: the tail stays where it was.
ConsumeKeepsTail ==
    /\ cPc = "publish"
    /\ received' = Append(received, cItem)
    /\ cPc' = "idle"
    /\ UNCHANGED <<cTail, cItem, cSeen, head, tail, buffer, producerVars, sent>>

\* The release store of tail + 1; the call returns true.
ConsumePublish ==
    /\ cPc = "publish"
    /\ tail' = Succ(cTail)
    /\ received' = Append(received, cItem)
    /\ cPc' = "idle"
    /\ UNCHANGED <<cTail, cItem, cSeen, head, buffer, producerVars, sent>>

-----------------------------------------------------------------------------
Next ==
    \/ \E v \in Values : ProduceCall(v)
    \/ ProduceCheck \/ ProduceWriteBegin \/ ProduceWriteEnd \/ ProducePublish
    \/ ConsumeCall \/ ConsumeCheck \/ ConsumeRead \/ ConsumePublish

Spec == Init /\ [][Next]_vars

-----------------------------------------------------------------------------
(* Properties.                                                             *)

TypeOK ==
    /\ head \in 0..(Wrap - 1) /\ tail \in 0..(Wrap - 1)
    /\ buffer \in [Slots -> Values \cup {Torn}]
    /\ pPc \in {"idle", "check", "write", "writing", "publish"}
    /\ cPc \in {"idle", "check", "read", "publish"}
    /\ pHead \in 0..(Wrap - 1) /\ cTail \in 0..(Wrap - 1)
    /\ pItem \in Values \cup {Torn} /\ cItem \in Values \cup {Torn}
    /\ pSeen \in Nat /\ cSeen \in Nat
    /\ sent \in Seq(Values \cup {Torn})
    /\ received \in Seq(Values \cup {Torn})

\* The two threads never touch one slot at the same time: while the producer
\* may be writing the slot of its head, the consumer is not reading that slot,
\* whatever stale counters both went by.  The slots are plain memory (lines 69
\* and 83), so an overlap would be a data race.
NoDataRace ==
    (pPc \in {"write", "writing"} /\ cPc = "read") => Slot(pHead) # Slot(cTail)

\* The commands come out in the order they went in, each one once and whole:
\* what consume() has returned is a prefix of what produce() has accepted, also
\* after the size_t counters have wrapped around.
DeliveredInOrder ==
    /\ Len(received) <= Len(sent)
    /\ \A i \in 1..Len(received) : received[i] = sent[i] /\ received[i] # Torn

\* A failed call tells the truth about what its thread could see: produce()
\* fails only if the newest tail it has seen leaves all Size - 1 usable slots
\* taken, consume() only if the newest head it has seen is its own tail.  The
\* retry loops of the handlers and the drain loop of DispatchOp rest on it.
FailsOnlyAtTheLimit ==
    [][ /\ (pPc = "check" /\ pPc' = "idle") => Len(sent) - pSeen' = Size - 1
        /\ (cPc = "check" /\ cPc' = "idle") => cSeen' = Len(received) ]_vars

\* Each counter is the length of a history modulo Wrap, and a call that is
\* under way works on its own thread's counter.
CountersMatch ==
    /\ head = Len(sent) % Wrap
    /\ tail = Len(received) % Wrap
    /\ pPc # "idle" => pHead = head
    /\ cPc # "idle" => cTail = tail

\* What each thread has seen of the other lies within the other's history, and
\* a thread past its check has seen enough to go on.
ViewsSound ==
    /\ pSeen <= Len(received)
    /\ Len(received) <= cSeen /\ cSeen <= Len(sent)
    /\ Len(sent) - pSeen <= Size - 1
    /\ pPc \in {"write", "writing", "publish"} => Len(sent) - pSeen < Size - 1
    /\ cPc \in {"read", "publish"} => Len(received) < cSeen

\* Every value published and not taken is whole, in its slot; so is the one
\* about to be published, and the one about to be taken has been read.
SlotsHoldPending ==
    /\ \A i \in 1..Len(sent) : sent[i] \in Values
    /\ \A i \in (Len(received) + 1)..Len(sent) : buffer[Slot(i - 1)] = sent[i]
    /\ pPc # "idle" => pItem \in Values
    /\ pPc = "publish" => buffer[Slot(Len(sent))] = pItem
    /\ cPc = "publish" => cItem = sent[Len(received) + 1]

\* Why the ring works: the inductive invariant behind the properties above.
\* Each counter counts its history, the views are sound, and the slots hold
\* exactly what is pending, however the two calls interleave.
RingInvariant ==
    TypeOK /\ CountersMatch /\ ViewsSound /\ SlotsHoldPending /\ DeliveredInOrder

\* The ring implements the bounded queue with late views: publishing head is a put
\* that goes by the newest tail seen, publishing tail a take, a check a look at the
\* other thread's progress, and every other step is invisible.
Fifo == INSTANCE BoundedFifo WITH
            Capacity <- Size - 1,
            contents <- SubSeq(sent, Len(received) + 1, Len(sent)),
            occupied <- Len(sent) - pSeen,
            sees <- cSeen - Len(received),
            delivered <- received
ImplementsFifo == Fifo!Spec
=============================================================================
