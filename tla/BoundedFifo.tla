---------------------------- MODULE BoundedFifo ----------------------------
(***************************************************************************)
(* LateQueue as a specification of its own: values are put and taken, none *)
(* lost, none invented, none delivered twice.  `delivered' is everything   *)
(* taken so far, oldest first.                                             *)
(***************************************************************************)
EXTENDS LateQueue

CONSTANT Values   \* what may be put

VARIABLE delivered

fifoVars == <<queueVars, delivered>>

FifoInit == Init /\ delivered = <<>>

FifoPut(v) == Put(v) /\ UNCHANGED delivered

FifoTake == Take /\ delivered' = Append(delivered, Head(contents))

FifoLook == (ProducerLooks \/ ConsumerLooks) /\ UNCHANGED delivered

Next == (\E v \in Values : FifoPut(v)) \/ FifoTake \/ FifoLook

Spec == FifoInit /\ [][Next]_fifoVars
=============================================================================
