----------------------------- MODULE LateQueue -----------------------------
(***************************************************************************)
(* What the ring of src/spsc_queue.h promises its two callers: a first-in  *)
(* first-out queue of at most Capacity values between a producer and a     *)
(* consumer that see each other's progress late.  `occupied' is the most   *)
(* that the producer may still believe to be queued, `sees' the number of  *)
(* values at the front that the consumer cannot miss any more.  SpscQueue  *)
(* implements it, through BoundedFifo, and AsyncBridge is built on it.     *)
(***************************************************************************)
EXTENDS Naturals, Sequences

CONSTANT Capacity   \* how many values may wait at once

VARIABLES contents, occupied, sees

queueVars == <<contents, occupied, sees>>

Init == contents = <<>> /\ occupied = 0 /\ sees = 0

\* produce: the producer finds c values, which is right or was right after it last
\* looked; with room, the value is queued.
Put(v) ==
    /\ \E c \in Len(contents)..occupied : c < Capacity /\ occupied' = c + 1
    /\ contents' = Append(contents, v)
    /\ UNCHANGED sees
PutFails ==
    /\ \E c \in Len(contents)..occupied : c >= Capacity /\ occupied' = c
    /\ UNCHANGED <<contents, sees>>

\* consume: the consumer finds c values, no fewer than it has seen, and takes the
\* first, if there is one.
Take ==
    /\ \E c \in sees..Len(contents) : c > 0 /\ sees' = c - 1
    /\ contents' = Tail(contents)
    /\ UNCHANGED occupied
TakeFails ==
    /\ sees = 0 /\ sees' = 0
    /\ UNCHANGED <<contents, occupied>>

\* A thread learns of what the other one has done.
ProducerLooks ==
    /\ occupied' \in Len(contents)..occupied
    /\ UNCHANGED <<contents, sees>>
ConsumerLooks ==
    /\ sees' \in sees..Len(contents)
    /\ UNCHANGED <<contents, occupied>>
=============================================================================
