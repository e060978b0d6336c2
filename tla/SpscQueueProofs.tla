-------------------------- MODULE SpscQueueProofs --------------------------
(***************************************************************************)
(* The ring of src/spsc_queue.h is correct for every size, every width of  *)
(* its counters that the size divides, and every interleaving of one       *)
(* producer and one consumer that read each other's counter late.          *)
(***************************************************************************)
EXTENDS SpscQueue, SequenceTheorems, TLAPS

-----------------------------------------------------------------------------
(* Remainders: the counters are size_t values, that is, remainders by a    *)
(* multiple of the ring's size, and the slots are remainders of those.     *)

\* Division with remainder by a positive number.
LEMMA ModFacts ==
    ASSUME NEW a \in Int, NEW n \in Nat \ {0}
    PROVE  /\ a % n \in 0..(n - 1)
           /\ a \div n \in Int
           /\ a = n * (a \div n) + (a % n)
OBVIOUS

\* A positive multiple of n is at least n.
LEMMA MultipleBound ==
    ASSUME NEW d \in Int, d >= 1, NEW n \in Nat \ {0}
    PROVE  n * d >= n
OBVIOUS

\* Two numbers below n whose difference is a multiple of n are equal.
LEMMA RemainderUnique ==
    ASSUME NEW n \in Nat \ {0}, NEW p \in Int, NEW q \in Int,
           NEW r \in 0..(n - 1), NEW s \in 0..(n - 1), n * p + r = n * q + s
    PROVE  r = s
<1>1. n * (q - p) = r - s
  OBVIOUS
<1>2. n * (p - q) = s - r
  OBVIOUS
<1>3. CASE q - p >= 1
  BY <1>1, <1>3, MultipleBound
<1>4. CASE p - q >= 1
  BY <1>2, <1>4, MultipleBound
<1>5. CASE p = q
  BY <1>5
<1>6. QED
  BY <1>3, <1>4, <1>5

\* Adding a multiple of n changes no remainder by n.
LEMMA ModCongruent ==
    ASSUME NEW n \in Nat \ {0}, NEW a \in Int, NEW b \in Int, NEW q \in Int,
           a = n * q + b
    PROVE  a % n = b % n
<1> DEFINE p == a \div n
           r == a % n
           s == b \div n
           t == b % n
<1>1. /\ r \in 0..(n - 1) /\ p \in Int /\ a = n * p + r
      /\ t \in 0..(n - 1) /\ s \in Int /\ b = n * s + t
  BY ModFacts
<1> HIDE DEF p, r, s, t
<1>2. n * (q + s) = n * q + n * s
  BY <1>1
<1>3. n * p + r = n * (q + s) + t
  BY <1>1, <1>2
<1>4. q + s \in Int
  BY <1>1
<1>5. r = t
  BY <1>1, <1>3, <1>4, RemainderUnique
<1>6. QED
  BY <1>5 DEF r, t

\* A number below n is its own remainder.
LEMMA ModSmall ==
    ASSUME NEW n \in Nat \ {0}, NEW r \in 0..(n - 1)
    PROVE  r % n = r
OBVIOUS

\* Reducing a term modulo n first changes no difference modulo n.
LEMMA ModDifference ==
    ASSUME NEW n \in Nat \ {0}, NEW a \in Int, NEW b \in Int
    PROVE  ((a % n) - (b % n)) % n = (a - b) % n
<1> DEFINE p == a \div n
           r == a % n
           s == b \div n
           t == b % n
<1>1. /\ r \in Int /\ p \in Int /\ a = n * p + r
      /\ t \in Int /\ s \in Int /\ b = n * s + t
  BY ModFacts
<1> HIDE DEF p, r, s, t
<1>2. n * (p - s) = n * p - n * s
  BY <1>1
<1>3. a - b = n * (p - s) + (r - t)
  BY <1>1, <1>2
<1>4. p - s \in Int /\ r - t \in Int /\ a - b \in Int
  BY <1>1
<1>5. (a - b) % n = (r - t) % n
  BY <1>3, <1>4, ModCongruent
<1>6. QED
  BY <1>5 DEF r, t

\* A remainder by a multiple of n has the remainder by n of the number itself.
LEMMA ModOfMultiple ==
    ASSUME NEW n \in Nat \ {0}, NEW m \in Nat \ {0}, NEW k \in Nat, m = k * n,
           NEW a \in Int
    PROVE  (a % m) % n = a % n
<1> DEFINE p == a \div m
           r == a % m
<1>1. r \in Int /\ p \in Int /\ a = m * p + r
  <2>1. \A d \in Nat \ {0} :
          a % d \in Int /\ a \div d \in Int /\ a = d * (a \div d) + (a % d)
    BY ModFacts
  <2>2. QED
    BY <2>1, Zenon
<1> HIDE DEF p, r
<1>2. m * p = n * (k * p)
  BY <1>1
<1>3. k * p \in Int
  BY <1>1
<1>4. a = n * (k * p) + r
  BY <1>1, <1>2
<1>5. a % n = r % n
  BY <1>1, <1>3, <1>4, ModCongruent
<1>6. QED
  BY <1>5 DEF r

\* Numbers less than n apart have different remainders by n.
LEMMA ModDistinct ==
    ASSUME NEW n \in Nat \ {0}, NEW a \in Int, NEW b \in Int,
           a < b, b - a < n
    PROVE  a % n # b % n
<1> DEFINE p == a \div n
           s == b \div n
<1>1. /\ a % n \in Int /\ p \in Int /\ a = n * p + (a % n)
      /\ b % n \in Int /\ s \in Int /\ b = n * s + (b % n)
  BY ModFacts
<1> HIDE DEF p, s
<1>2. SUFFICES ASSUME a % n = b % n PROVE FALSE
  OBVIOUS
<1>3. b - a = n * (s - p)
  BY <1>1, <1>2
<1>4. s - p >= 1 \/ p - s >= 0
  BY <1>1
<1>5. CASE s - p >= 1
  BY <1>1, <1>3, <1>5, MultipleBound
<1>6. CASE p - s >= 0
  <2>1. n * (p - s) >= 0
    BY <1>1, <1>6
  <2>2. QED
    BY <1>1, <1>3, <2>1
<1>7. QED
  BY <1>4, <1>5, <1>6

-----------------------------------------------------------------------------
(* The size_t arithmetic of the two checks.                                *)

\* The sizes are positive.
LEMMA Positive == Size \in Nat \ {0} /\ Wrap \in Nat \ {0}
BY QueueAssumption

\* Wrap is a multiple of Size.
LEMMA WrapMultiple == \E k \in Nat : Wrap = k * Size
BY QueueAssumption

\* The wrapped counter and the count itself name the same slot.
LEMMA SlotOfWrapped ==
    ASSUME NEW n \in Int
    PROVE  Slot(n % Wrap) = Slot(n)
<1>1. PICK k \in Nat : Wrap = k * Size
  BY WrapMultiple
<1>2. \A i \in Nat \ {0}, m \in Nat \ {0} : m = k * i => (n % m) % i = n % i
  BY ModOfMultiple
<1>3. QED
  BY <1>1, <1>2, Positive, Zenon DEF Slot

\* The successor of a wrapped count is the wrapped successor.
LEMMA SuccOfWrapped ==
    ASSUME NEW n \in Nat
    PROVE  Succ(n % Wrap) = (n + 1) % Wrap /\ Succ(n % Wrap) \in 0..(Wrap - 1)
<1> DEFINE q == n \div Wrap
           r == n % Wrap
<1>1. q \in Int /\ r \in Int /\ n = Wrap * q + r
  BY ModFacts, Positive
<1> HIDE DEF q, r
<1>2. n + 1 = Wrap * q + (r + 1) /\ n + 1 \in Int /\ r + 1 \in Int
  BY <1>1, Positive
<1>3. (n + 1) % Wrap = (r + 1) % Wrap
  BY <1>1, <1>2, ModCongruent, Positive
<1>4. (r + 1) % Wrap \in 0..(Wrap - 1)
  BY <1>2, ModFacts, Positive
<1>5. QED
  BY <1>3, <1>4 DEF r, Succ

\* The slot of a difference of counters is that of the difference of counts.
LEMMA SlotOfDifference ==
    ASSUME NEW a \in Int, NEW b \in Int, NEW e \in Int
    PROVE  Slot(((a % Wrap) - ((b % Wrap) + e)) % Wrap) = Slot(a - b - e)
<1> DEFINE p == a \div Wrap
           r == a % Wrap
           q == b \div Wrap
           u == b % Wrap
           x == r - (u + e)
           y == a - b - e
<1>1. /\ p \in Int /\ r \in Int /\ a = Wrap * p + r
      /\ q \in Int /\ u \in Int /\ b = Wrap * q + u
  BY ModFacts, Positive
<1> HIDE DEF p, r, q, u
<1>2. Wrap * (p - q) = Wrap * p - Wrap * q
  BY <1>1, Positive
<1>3. y = Wrap * (p - q) + x /\ p - q \in Int /\ x \in Int /\ y \in Int
  <2>1. y = (Wrap * p + r) - (Wrap * q + u) - e
    BY <1>1
  <2>2. Wrap * p \in Int /\ Wrap * q \in Int
    BY <1>1, Positive
  <2>3. y = (Wrap * p - Wrap * q) + x
    BY <1>1, <2>1, <2>2
  <2>4. QED
    BY <1>1, <1>2, <2>3
<1> HIDE DEF x, y
<1>4. y % Wrap = x % Wrap
  BY <1>3, ModCongruent, Positive
<1>5. Slot(x % Wrap) = Slot(y)
  BY <1>3, <1>4, SlotOfWrapped
<1>6. QED
  BY <1>5 DEF x, y, r, u

\* With s values published and c of them known to be taken, the check of
\* produce() finds room exactly if not all usable slots are taken.
LEMMA RoomIffNotFull ==
    ASSUME NEW s \in Nat, NEW c \in Nat, c <= s, s - c <= Size - 1
    PROVE  HasRoom(s % Wrap, c % Wrap) <=> s - c < Size - 1
<1> DEFINE d == Size - 1 - (s - c)
           y == c - s - 1
<1>1. d = Size + y /\ d \in 0..(Size - 1) /\ y \in Int /\ d \in Int
  BY Positive
<1> HIDE DEF d, y
<1>2. y % Size = d % Size
  <2>1. \A q \in Int : d = Size * q + y => d % Size = y % Size
    BY <1>1, ModCongruent, Positive
  <2>2. d = Size * 1 + y
    BY <1>1, Positive
  <2>3. QED
    BY <2>1, <2>2
<1>3. d % Size = d
  BY <1>1, ModSmall, Positive
<1>4. Slot(y) = d
  BY <1>2, <1>3 DEF Slot
<1>5. Slot(((c % Wrap) - ((s % Wrap) + 1)) % Wrap) = Slot(y)
  BY SlotOfDifference DEF y
<1>6. HasRoom(s % Wrap, c % Wrap) <=> d >= 1
  BY <1>4, <1>5 DEF HasRoom
<1>7. QED
  BY <1>6, Positive DEF d

\* With s values known to be published and c taken, the check of consume()
\* finds an item exactly if there is one.
LEMMA ItemIffNotEmpty ==
    ASSUME NEW s \in Nat, NEW c \in Nat, c <= s, s - c <= Size - 1
    PROVE  HasItem(s % Wrap, c % Wrap) <=> s # c
<1> DEFINE d == s - c - 0
           h == s % Wrap
           t == c % Wrap
<1>1. d \in 0..(Size - 1) /\ d = s - c
  BY Positive
<1>2. Slot((h - (t + 0)) % Wrap) = Slot(d)
  BY SlotOfDifference
<1>3. h \in Int /\ t \in Int
  BY ModFacts, Positive
<1> HIDE DEF d, h, t
<1>4. Slot(d) = d
  BY <1>1, ModSmall, Positive DEF Slot
<1>5. h - (t + 0) = h - t
  BY <1>3
<1>6. HasItem(h, t) <=> d >= 1
  BY <1>2, <1>4, <1>5 DEF HasItem
<1>7. QED
  BY <1>1, <1>6 DEF h, t

\* Counts less than Size apart have slots of their own.
LEMMA SlotsDistinct ==
    ASSUME NEW i \in Int, NEW j \in Int, i < j, j - i < Size
    PROVE  Slot(i) # Slot(j)
BY Positive, ModDistinct DEF Slot

\* Every slot number is a slot.
LEMMA SlotInRange ==
    ASSUME NEW i \in Int
    PROVE  Slot(i) \in Slots
BY Positive, ModFacts DEF Slot, Slots

-----------------------------------------------------------------------------
(* The ring invariant is inductive.                                        *)

\* It holds of an empty ring.
LEMMA RingInit == Init => RingInvariant
<1> SUFFICES ASSUME Init PROVE RingInvariant
  OBVIOUS
<1> USE Positive DEF Init
<1>1. TypeOK
  BY DEF TypeOK, Slots
<1>2. 0 % Wrap = 0
  BY ModSmall
<1>3. CountersMatch
  BY <1>2 DEF CountersMatch
<1>4. ViewsSound /\ SlotsHoldPending /\ DeliveredInOrder
  BY DEF ViewsSound, SlotsHoldPending, DeliveredInOrder
<1>5. QED
  BY <1>1, <1>3, <1>4 DEF RingInvariant

\* While a call is under way, the slot it works on is that of its count.
LEMMA HeadSlot ==
    ASSUME RingInvariant, pPc # "idle"
    PROVE  Slot(pHead) = Slot(Len(sent)) /\ Slot(pHead) \in Slots
<1>1. Len(sent) \in Int /\ pHead = Len(sent) % Wrap
  BY DEF RingInvariant, TypeOK, CountersMatch
<1>2. Slot(Len(sent) % Wrap) = Slot(Len(sent)) /\ Slot(Len(sent)) \in Slots
  BY <1>1, SlotOfWrapped, SlotInRange
<1>3. QED
  BY <1>1, <1>2

\* The same for the consumer's call.
LEMMA TailSlot ==
    ASSUME RingInvariant, cPc # "idle"
    PROVE  Slot(cTail) = Slot(Len(received)) /\ Slot(cTail) \in Slots
<1>1. Len(received) \in Int /\ cTail = Len(received) % Wrap
  BY DEF RingInvariant, TypeOK, CountersMatch
<1>2. Slot(Len(received) % Wrap) = Slot(Len(received)) /\ Slot(Len(received)) \in Slots
  BY <1>1, SlotOfWrapped, SlotInRange
<1>3. QED
  BY <1>1, <1>2

\* The check of a produce() under way, at any count c it may have seen.
LEMMA RoomAtHead ==
    ASSUME RingInvariant, pPc # "idle",
           NEW c \in Nat, c <= Len(sent), Len(sent) - c <= Size - 1
    PROVE  HasRoom(pHead, c % Wrap) <=> Len(sent) - c < Size - 1
<1>1. Len(sent) \in Nat /\ pHead = Len(sent) % Wrap
  BY DEF RingInvariant, TypeOK, CountersMatch
<1>2. HasRoom(Len(sent) % Wrap, c % Wrap) <=> Len(sent) - c < Size - 1
  BY <1>1, RoomIffNotFull
<1>3. QED
  BY <1>1, <1>2

\* A step of produce() preserves it.
LEMMA ProducerStep ==
    ASSUME RingInvariant,
           \/ \E v \in Values : ProduceCall(v)
           \/ ProduceCheck \/ ProduceWriteBegin \/ ProduceWriteEnd \/ ProducePublish
    PROVE  RingInvariant'
<1> USE Positive DEF RingInvariant, TypeOK, producerVars, consumerVars
<1>1. ASSUME NEW v \in Values, ProduceCall(v) PROVE RingInvariant'
  BY <1>1 DEF ProduceCall, CountersMatch, ViewsSound, SlotsHoldPending, DeliveredInOrder
<1>2. CASE ProduceCheck
  <2> USE <1>2 DEF ProduceCheck
  <2>1. PICK c \in pSeen..Len(received) :
          /\ pSeen' = c
          /\ pPc' = IF HasRoom(pHead, c % Wrap) THEN "write" ELSE "idle"
    OBVIOUS
  <2>2. c \in Nat /\ c <= Len(sent) /\ Len(sent) - c <= Size - 1
    BY <2>1 DEF ViewsSound, DeliveredInOrder
  <2>3. HasRoom(pHead, c % Wrap) <=> Len(sent) - c < Size - 1
    BY <2>2, RoomAtHead
  <2>4. ViewsSound'
    BY <2>1, <2>2, <2>3 DEF ViewsSound
  <2>5. QED
    BY <2>1, <2>2, <2>4 DEF CountersMatch, SlotsHoldPending, DeliveredInOrder
<1>3. CASE ProduceWriteBegin
  <2> USE <1>3 DEF ProduceWriteBegin
  <2>1. Slot(pHead) = Slot(Len(sent))
    BY HeadSlot
  <2>2. \A i \in (Len(received) + 1)..Len(sent) : Slot(i - 1) # Slot(Len(sent))
    BY SlotsDistinct DEF ViewsSound, DeliveredInOrder
  <2>3. SlotsHoldPending'
    BY <2>1, <2>2 DEF SlotsHoldPending
  <2>4. QED
    BY <2>3 DEF CountersMatch, ViewsSound, DeliveredInOrder
<1>4. CASE ProduceWriteEnd
  <2> USE <1>4 DEF ProduceWriteEnd
  <2>1. Slot(pHead) = Slot(Len(sent)) /\ Slot(pHead) \in Slots
    BY HeadSlot
  <2>2. \A i \in (Len(received) + 1)..Len(sent) : Slot(i - 1) # Slot(Len(sent))
    BY SlotsDistinct DEF ViewsSound, DeliveredInOrder
  <2>3. SlotsHoldPending'
    BY <2>1, <2>2 DEF SlotsHoldPending
  <2>4. QED
    BY <2>3 DEF CountersMatch, ViewsSound, DeliveredInOrder
<1>5. CASE ProducePublish
  <2> USE <1>5 DEF ProducePublish
  <2>1. /\ Len(sent') = Len(sent) + 1
        /\ \A i \in 1..Len(sent) : sent'[i] = sent[i]
        /\ sent'[Len(sent) + 1] = pItem
        /\ pItem \in Values
    BY DEF SlotsHoldPending
  <2>2. head' = Len(sent') % Wrap /\ head' \in 0..(Wrap - 1)
    <3>1. Len(sent) \in Nat /\ pHead = Len(sent) % Wrap
      BY DEF CountersMatch
    <3>2. /\ Succ(Len(sent) % Wrap) = (Len(sent) + 1) % Wrap
          /\ Succ(Len(sent) % Wrap) \in 0..(Wrap - 1)
      BY <3>1, SuccOfWrapped
    <3>3. QED
      BY <2>1, <3>1, <3>2
  <2>3. TypeOK' /\ CountersMatch'
    BY <2>1, <2>2 DEF CountersMatch
  <2>4. ViewsSound'
    BY <2>1 DEF ViewsSound
  <2>5. SlotsHoldPending'
    <3>1. \A i \in 1..Len(sent') : sent'[i] \in Values
      BY <2>1 DEF SlotsHoldPending
    <3>2. ASSUME NEW i \in (Len(received) + 1)..Len(sent')
          PROVE  buffer[Slot(i - 1)] = sent'[i]
      <4>1. CASE i = Len(sent) + 1
        <5>1. buffer[Slot(Len(sent))] = pItem /\ i - 1 = Len(sent)
          BY <4>1 DEF SlotsHoldPending
        <5>2. QED
          BY <2>1, <4>1, <5>1
      <4>2. CASE i # Len(sent) + 1
        BY <2>1, <4>2 DEF SlotsHoldPending
      <4>3. QED
        BY <4>1, <4>2
    <3>3. cPc = "publish" => Len(received) + 1 \in 1..Len(sent)
      BY DEF ViewsSound
    <3>4. QED
      BY <2>1, <3>1, <3>2, <3>3 DEF SlotsHoldPending
  <2>6. DeliveredInOrder'
    BY <2>1 DEF DeliveredInOrder
  <2>7. QED
    BY <2>3, <2>4, <2>5, <2>6
<1>6. QED
  BY <1>1, <1>2, <1>3, <1>4, <1>5

\* A step of consume() preserves it.
LEMMA ConsumerStep ==
    ASSUME RingInvariant,
           ConsumeCall \/ ConsumeCheck \/ ConsumeRead \/ ConsumePublish
    PROVE  RingInvariant'
<1> USE Positive DEF RingInvariant, TypeOK, producerVars, consumerVars
<1>1. CASE ConsumeCall
  BY <1>1 DEF ConsumeCall, CountersMatch, ViewsSound, SlotsHoldPending, DeliveredInOrder
<1>2. CASE ConsumeCheck
  <2> USE <1>2 DEF ConsumeCheck
  <2>1. PICK c \in cSeen..Len(sent) :
          /\ cSeen' = c
          /\ cPc' = IF HasItem(c % Wrap, cTail) THEN "read" ELSE "idle"
    OBVIOUS
  <2>2. /\ c \in Nat /\ Len(received) \in Nat /\ Len(received) <= c
        /\ c - Len(received) <= Size - 1
    BY <2>1 DEF ViewsSound, DeliveredInOrder
  <2>3. HasItem(c % Wrap, cTail) <=> c # Len(received)
    BY <2>2, ItemIffNotEmpty DEF CountersMatch
  <2>4. ViewsSound'
    BY <2>1, <2>2, <2>3 DEF ViewsSound
  <2>5. QED
    BY <2>1, <2>2, <2>4 DEF CountersMatch, SlotsHoldPending, DeliveredInOrder
<1>3. CASE ConsumeRead
  <2> USE <1>3 DEF ConsumeRead
  <2>1. Slot(cTail) = Slot(Len(received)) /\ Slot(cTail) \in Slots
    BY TailSlot
  <2>2. Len(received) + 1 \in (Len(received) + 1)..Len(sent)
    BY DEF ViewsSound
  <2>3. cItem' = sent[Len(received) + 1]
    BY <2>1, <2>2 DEF SlotsHoldPending
  <2>4. cItem' \in Values \cup {Torn}
    BY <2>2, <2>3 DEF SlotsHoldPending
  <2>5. QED
    BY <2>3, <2>4 DEF CountersMatch, ViewsSound, SlotsHoldPending, DeliveredInOrder
<1>4. CASE ConsumePublish
  <2> USE <1>4 DEF ConsumePublish
  <2>1. /\ Len(received') = Len(received) + 1
        /\ \A i \in 1..Len(received) : received'[i] = received[i]
        /\ received'[Len(received) + 1] = cItem
        /\ Len(received) + 1 <= Len(sent)
        /\ cItem = sent[Len(received) + 1]
    BY DEF SlotsHoldPending, ViewsSound
  <2>2. tail' = Len(received') % Wrap /\ tail' \in 0..(Wrap - 1)
    <3>1. Len(received) \in Nat /\ cTail = Len(received) % Wrap
      BY DEF CountersMatch
    <3>2. /\ Succ(Len(received) % Wrap) = (Len(received) + 1) % Wrap
          /\ Succ(Len(received) % Wrap) \in 0..(Wrap - 1)
      BY <3>1, SuccOfWrapped
    <3>3. QED
      BY <2>1, <3>1, <3>2
  <2>3. TypeOK' /\ CountersMatch'
    BY <2>1, <2>2 DEF CountersMatch
  <2>4. ViewsSound'
    BY <2>1 DEF ViewsSound
  <2>5. SlotsHoldPending'
    BY <2>1 DEF SlotsHoldPending
  <2>6. cItem \in Values /\ cItem # Torn
    BY <2>1, QueueAssumption DEF SlotsHoldPending
  <2>7. DeliveredInOrder'
    BY <2>1, <2>6 DEF DeliveredInOrder
  <2>8. QED
    BY <2>3, <2>4, <2>5, <2>7
<1>5. QED
  BY <1>1, <1>2, <1>3, <1>4

\* Every step preserves it.
LEMMA RingStep == RingInvariant /\ [Next]_vars => RingInvariant'
<1> SUFFICES ASSUME RingInvariant, [Next]_vars PROVE RingInvariant'
  OBVIOUS
<1>1. CASE UNCHANGED vars
  BY <1>1 DEF vars, producerVars, consumerVars, RingInvariant, TypeOK,
              CountersMatch, ViewsSound, SlotsHoldPending, DeliveredInOrder
<1>2. CASE Next
  BY <1>2, ProducerStep, ConsumerStep DEF Next
<1>3. QED
  BY <1>1, <1>2

\* Whatever the interleaving, the counters count, the views are sound and the
\* slots hold exactly what is pending (src/spsc_queue.h:62-88).
THEOREM RingCorrect == Spec => []RingInvariant
BY RingInit, RingStep, PTL DEF Spec

\* The counters and slots keep their types.
THEOREM TypeCorrect == Spec => []TypeOK
<1>1. RingInvariant => TypeOK
  BY DEF RingInvariant
<1>2. QED
  BY <1>1, RingCorrect, PTL

\* The queue is first-in first-out and loses, repeats and tears nothing.
THEOREM OrderCorrect == Spec => []DeliveredInOrder
<1>1. RingInvariant => DeliveredInOrder
  BY DEF RingInvariant
<1>2. QED
  BY <1>1, RingCorrect, PTL

\* The producer never writes the slot the consumer is reading.
THEOREM RaceFreedom == Spec => []NoDataRace
<1>1. RingInvariant => NoDataRace
  <2> SUFFICES ASSUME RingInvariant, pPc \in {"write", "writing"}, cPc = "read"
               PROVE  Slot(pHead) # Slot(cTail)
    BY DEF NoDataRace
  <2> USE DEF RingInvariant, TypeOK
  <2>1. Slot(pHead) = Slot(Len(sent)) /\ Slot(cTail) = Slot(Len(received))
    BY HeadSlot, TailSlot
  <2>2. /\ Len(received) \in Int /\ Len(sent) \in Int
        /\ Len(received) < Len(sent) /\ Len(sent) - Len(received) < Size
    BY Positive DEF ViewsSound
  <2>3. QED
    BY <2>1, <2>2, SlotsDistinct
<1>2. QED
  BY <1>1, RingCorrect, PTL

\* produce() fails only on a ring it has seen full, consume() only on a ring
\* it has seen empty.
THEOREM FailuresAreTrue == Spec => FailsOnlyAtTheLimit
<1> DEFINE Fails == /\ (pPc = "check" /\ pPc' = "idle") => Len(sent) - pSeen' = Size - 1
                    /\ (cPc = "check" /\ cPc' = "idle") => cSeen' = Len(received)
<1>1. RingInvariant /\ [Next]_vars => [Fails]_vars
  <2> SUFFICES ASSUME RingInvariant, Next PROVE Fails
    OBVIOUS
  <2> USE Positive DEF RingInvariant, TypeOK
  <2>1. CASE ProduceCheck
    <3>1. PICK c \in pSeen..Len(received) :
            /\ pSeen' = c
            /\ pPc' = IF HasRoom(pHead, c % Wrap) THEN "write" ELSE "idle"
      BY <2>1 DEF ProduceCheck
    <3>2. c \in Nat /\ c <= Len(sent) /\ Len(sent) - c <= Size - 1
      BY <3>1 DEF ViewsSound, DeliveredInOrder
    <3>3. HasRoom(pHead, c % Wrap) <=> Len(sent) - c < Size - 1
      BY <2>1, <3>2, RoomAtHead DEF ProduceCheck
    <3>4. QED
      BY <2>1, <3>1, <3>2, <3>3 DEF ProduceCheck, consumerVars
  <2>2. CASE ConsumeCheck
    <3>1. PICK c \in cSeen..Len(sent) :
            /\ cSeen' = c
            /\ cPc' = IF HasItem(c % Wrap, cTail) THEN "read" ELSE "idle"
      BY <2>2 DEF ConsumeCheck
    <3>2. /\ c \in Nat /\ Len(received) \in Nat /\ Len(received) <= c
          /\ c - Len(received) <= Size - 1
      BY <3>1 DEF ViewsSound, DeliveredInOrder
    <3>3. HasItem(c % Wrap, cTail) <=> c # Len(received)
      BY <2>2, <3>2, ItemIffNotEmpty DEF CountersMatch, ConsumeCheck
    <3>4. QED
      BY <2>2, <3>1, <3>3 DEF ConsumeCheck, producerVars
  <2>3. CASE \/ \E v \in Values : ProduceCall(v)
             \/ ProduceWriteBegin \/ ProduceWriteEnd \/ ProducePublish
    BY <2>3 DEF ProduceCall, ProduceWriteBegin, ProduceWriteEnd, ProducePublish, consumerVars
  <2>4. CASE ConsumeCall \/ ConsumeRead \/ ConsumePublish
    BY <2>4 DEF ConsumeCall, ConsumeRead, ConsumePublish, producerVars
  <2>5. QED
    BY <2>1, <2>2, <2>3, <2>4 DEF Next
<1>2. QED
  BY <1>1, RingCorrect, PTL DEF Spec, FailsOnlyAtTheLimit

-----------------------------------------------------------------------------
(* The ring implements the bounded queue.                                  *)

Elements == Values \cup {Torn}

\* What is pending, after one more value has been published.
LEMMA PendingAppend ==
    ASSUME NEW s \in Seq(Elements), NEW n \in 0..Len(s), NEW v \in Elements
    PROVE  /\ SubSeq(s, n + 1, Len(s)) \in Seq(Elements)
           /\ Len(SubSeq(s, n + 1, Len(s))) = Len(s) - n
           /\ SubSeq(Append(s, v), n + 1, Len(Append(s, v)))
                = Append(SubSeq(s, n + 1, Len(s)), v)
<1> DEFINE t == Append(s, v)
           l == Len(s)
<1>1. l \in Nat /\ t \in Seq(Elements) /\ Len(t) = l + 1 /\ t[l + 1] = v
  BY AppendProperties
<1>2. \A i \in (n + 1)..l : s[i] \in Elements
  BY <1>1
<1>3. SubSeq(s, n + 1, l) \in Seq(Elements) /\ Len(SubSeq(s, n + 1, l)) = l - n
  <2>1. n + 1 \in Int /\ l \in Int
    BY <1>1
  <2>2. /\ SubSeq(s, n + 1, l) \in Seq(Elements)
        /\ Len(SubSeq(s, n + 1, l)) = IF n + 1 <= l THEN l - (n + 1) + 1 ELSE 0
    BY <1>2, <2>1, SubSeqProperties
  <2>3. QED
    BY <1>1, <2>2
<1>4. SubSeq(t, n + 1, l + 1) = SubSeq(t, n + 1, l) \o <<v>>
  <2>1. n + 1 \in 1..Len(t) /\ l + 1 \in (n + 1)..Len(t) /\ (l + 1) - 1 = l
    BY <1>1
  <2>2. SubSeq(t, n + 1, l + 1) = SubSeq(t, n + 1, (l + 1) - 1) \o <<t[l + 1]>>
    BY <1>1, <2>1, SubSeqRecursiveSecond
  <2>3. QED
    BY <1>1, <2>1, <2>2
<1>5. SubSeq(t, n + 1, l) = SubSeq(s, n + 1, l)
  <2>1. CASE n = l
    BY <1>1, <2>1, SubSeqEmpty
  <2>2. CASE n # l
    <3>1. t = s \o <<v>> /\ <<v>> \in Seq(Elements)
      BY AppendIsConcat
    <3>2. n + 1 \in 1..Len(s) /\ l \in 1..Len(s)
      BY <1>1, <2>2
    <3>3. QED
      BY <3>1, <3>2, SubSeqOfConcat1
  <2>3. QED
    BY <2>1, <2>2
<1>6. SubSeq(s, n + 1, l) \o <<v>> = Append(SubSeq(s, n + 1, l), v)
  BY <1>3, AppendIsConcat
<1>7. QED
  BY <1>1, <1>3, <1>4, <1>5, <1>6

\* The number of values pending.
LEMMA PendingLength ==
    ASSUME RingInvariant
    PROVE  Len(SubSeq(sent, Len(received) + 1, Len(sent))) = Len(sent) - Len(received)
<1> USE DEF RingInvariant, TypeOK
<1>1. sent \in Seq(Elements) /\ Len(received) \in 0..Len(sent)
  BY DEF Elements, DeliveredInOrder
<1>2. Torn \in Elements
  BY DEF Elements
<1>3. QED
  BY <1>1, <1>2, PendingAppend

\* The stale view of the producer is on the safe side: publishing head is a put that
\* goes by the newest tail seen, into a queue that has room.
LEMMA PublishIsPut ==
    ASSUME RingInvariant, ProducePublish
    PROVE  \E v \in Values : Fifo!FifoPut(v)
<1> USE DEF RingInvariant, TypeOK, ProducePublish
<1>1. /\ sent \in Seq(Elements) /\ Len(sent) \in Nat /\ Len(received) \in Nat
      /\ Len(received) \in 0..Len(sent)
  BY DEF Elements, DeliveredInOrder
<1>2. pItem \in Values /\ pItem \in Elements
  BY DEF SlotsHoldPending, Elements
<1>3. /\ Len(SubSeq(sent, Len(received) + 1, Len(sent))) = Len(sent) - Len(received)
      /\ SubSeq(Append(sent, pItem), Len(received) + 1, Len(Append(sent, pItem)))
           = Append(SubSeq(sent, Len(received) + 1, Len(sent)), pItem)
  BY <1>1, <1>2, PendingAppend
<1>4. /\ Len(sent) - pSeen \in (Len(sent) - Len(received))..(Len(sent) - pSeen)
      /\ Len(sent) - pSeen < Size - 1
  BY <1>1, Positive DEF ViewsSound
<1>5. /\ sent' = Append(sent, pItem) /\ UNCHANGED <<received, pSeen, cSeen>>
      /\ Len(sent') - pSeen' = (Len(sent) - pSeen) + 1
  <2>1. sent' = Append(sent, pItem) /\ UNCHANGED <<received, pSeen, cSeen>>
    BY DEF consumerVars
  <2>2. QED
    BY <1>1, <2>1
<1>6. Fifo!Put(pItem)
  BY <1>3, <1>4, <1>5 DEF Fifo!Put
<1>7. QED
  BY <1>2, <1>5, <1>6 DEF Fifo!FifoPut

\* Publishing tail is a take of the oldest value, one that the consumer has seen.
LEMMA PublishIsTake ==
    ASSUME RingInvariant, ConsumePublish PROVE Fifo!FifoTake
<1> USE DEF RingInvariant, TypeOK, ConsumePublish
<1> DEFINE n == Len(received)
<1>1. /\ sent \in Seq(Elements) /\ Len(sent) \in Nat /\ n \in Nat
      /\ n + 1 \in 1..Len(sent) /\ Len(sent) \in (n + 1)..Len(sent)
  BY DEF Elements, ViewsSound
<1>2. cItem = sent[n + 1]
  BY DEF SlotsHoldPending
<1>3. /\ Head(SubSeq(sent, n + 1, Len(sent))) = cItem
      /\ Tail(SubSeq(sent, n + 1, Len(sent))) = SubSeq(sent, n + 2, Len(sent))
  <2>1. /\ Head(SubSeq(sent, n + 1, Len(sent))) = sent[n + 1]
        /\ Tail(SubSeq(sent, n + 1, Len(sent))) = SubSeq(sent, (n + 1) + 1, Len(sent))
    BY <1>1, HeadTailOfSubSeq
  <2>2. (n + 1) + 1 = n + 2
    BY <1>1
  <2>3. QED
    BY <1>2, <2>1, <2>2
<1>4. Len(SubSeq(sent, n + 1, Len(sent))) = Len(sent) - n
  BY PendingLength
<1>5. /\ sent' = sent /\ received' = Append(received, cItem)
      /\ pSeen' = pSeen /\ cSeen' = cSeen
      /\ Len(received') = n + 1 /\ Len(received') + 1 = n + 2
  <2>1. /\ sent' = sent /\ received' = Append(received, cItem)
        /\ pSeen' = pSeen /\ cSeen' = cSeen
    BY DEF producerVars
  <2>2. Len(received') = n + 1
    BY <2>1, AppendProperties
  <2>3. QED
    BY <1>1, <2>1, <2>2
<1>6. SubSeq(sent', Len(received') + 1, Len(sent')) = SubSeq(sent, n + 2, Len(sent))
  BY <1>5
<1>7. /\ cSeen - n \in (cSeen - n)..(Len(sent) - n) /\ cSeen - n > 0
      /\ cSeen' - Len(received') = (cSeen - n) - 1
  BY <1>1, <1>5 DEF ViewsSound
<1>8. Fifo!Take
  BY <1>3, <1>4, <1>5, <1>6, <1>7 DEF Fifo!Take
<1>9. QED
  BY <1>3, <1>5, <1>8 DEF Fifo!FifoTake

\* A check is a look at the other thread's progress.
LEMMA CheckIsLook ==
    ASSUME RingInvariant, ProduceCheck \/ ConsumeCheck
    PROVE  Fifo!FifoLook
<1> USE DEF RingInvariant, TypeOK, ViewsSound
<1> DEFINE n == Len(received)
<1>1. Len(SubSeq(sent, n + 1, Len(sent))) = Len(sent) - n
  BY PendingLength
<1>2. n \in Nat /\ Len(sent) \in Nat
  OBVIOUS
<1>3. CASE ProduceCheck
  <2>1. pSeen' \in pSeen..n /\ UNCHANGED <<cSeen, sent, received>>
    BY <1>3 DEF ProduceCheck, consumerVars
  <2>2. Len(sent') - pSeen' \in (Len(sent) - n)..(Len(sent) - pSeen)
    BY <1>2, <2>1
  <2>3. Fifo!ProducerLooks
    BY <1>1, <2>1, <2>2 DEF Fifo!ProducerLooks
  <2>4. QED
    BY <2>1, <2>3 DEF Fifo!FifoLook
<1>4. CASE ConsumeCheck
  <2>1. cSeen' \in cSeen..Len(sent) /\ UNCHANGED <<pSeen, sent, received>>
    BY <1>4 DEF ConsumeCheck, producerVars
  <2>2. cSeen' - Len(received') \in (cSeen - n)..(Len(sent) - n)
    BY <1>2, <2>1
  <2>3. Fifo!ConsumerLooks
    BY <1>1, <2>1, <2>2 DEF Fifo!ConsumerLooks
  <2>4. QED
    BY <2>1, <2>3 DEF Fifo!FifoLook
<1>5. QED
  BY <1>3, <1>4

\* A step that neither publishes nor looks is invisible.
LEMMA OthersInvisible ==
    ASSUME \/ \E v \in Values : ProduceCall(v)
           \/ ProduceWriteBegin \/ ProduceWriteEnd
           \/ ConsumeCall \/ ConsumeRead
           \/ UNCHANGED vars
    PROVE  UNCHANGED Fifo!fifoVars
<1>1. UNCHANGED <<sent, received, pSeen, cSeen>>
  BY DEF ProduceCall, ProduceWriteBegin, ProduceWriteEnd,
         ConsumeCall, ConsumeRead, vars, producerVars, consumerVars
<1>2. QED
  BY <1>1 DEF Fifo!fifoVars, Fifo!queueVars

\* The ring is the bounded first-in first-out queue its callers count on, with
\* one slot less than it has memory for (src/spsc_queue.h:62-88): every step of
\* it is a put, a take, a look at the other thread's progress or nothing at all.
THEOREM RingIsFifo == Spec => ImplementsFifo
<1>1. Init => Fifo!FifoInit
  <2> SUFFICES ASSUME Init PROVE Fifo!FifoInit
    OBVIOUS
  <2>1. sent = <<>> /\ received = <<>> /\ Len(sent) = 0 /\ Len(received) = 0
    BY EmptySeq DEF Init
  <2>2. SubSeq(sent, Len(received) + 1, Len(sent)) = <<>>
    BY <2>1, SubSeqEmpty
  <2>3. Len(sent) - pSeen = 0 /\ cSeen - Len(received) = 0
    <3>1. pSeen = 0 /\ cSeen = 0
      BY DEF Init
    <3>2. Len(sent) - pSeen = 0 - 0 /\ cSeen - Len(received) = 0 - 0
      BY <2>1, <3>1, Zenon
    <3>3. QED
      BY <3>2
  <2>4. QED
    BY <2>1, <2>2, <2>3 DEF Fifo!FifoInit, Fifo!Init
<1>2. RingInvariant /\ [Next]_vars => [Fifo!Next]_Fifo!fifoVars
  BY PublishIsPut, PublishIsTake, CheckIsLook, OthersInvisible DEF Next, Fifo!Next
<1>3. QED
  BY <1>1, <1>2, RingCorrect, PTL DEF Spec, ImplementsFifo, Fifo!Spec
=============================================================================
