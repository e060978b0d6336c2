------------------------ MODULE AttributeCacheProofs ------------------------
(***************************************************************************)
(* The age of what a program sees of the loopback example's attributes,    *)
(* for every length of a second, every timeout and every clock: at most    *)
(* the timeout, and to the second what the file had then.                  *)
(***************************************************************************)
EXTENDS AttributeCache, TLAPS

\* The ticks for which an answer of getattr is valid.
Lifetime == Timeout * Second

LEMMA LifetimeType == Lifetime \in Nat
BY AttributeCacheAssumption DEF Lifetime

\* A time in seconds, and the ticks of the seconds.
LEMMA SecondsFacts ==
    ASSUME NEW t \in Nat
    PROVE  /\ Seconds(t) \in 0..t
           /\ Seconds(t) * Second \in 0..t
<1>1. \A a \in Int, n \in Nat \ {0} :
         a % n \in 0..(n - 1) /\ a \div n \in Int /\ a = n * (a \div n) + (a % n)
  OBVIOUS
<1> DEFINE q == t \div Second
           r == t % Second
<1>2. q \in Int /\ r \in 0..(Second - 1) /\ t = Second * q + r /\ Second \in Nat \ {0}
  BY <1>1, AttributeCacheAssumption
<1> HIDE DEF q, r
<1>3. q >= 0
  <2>1. SUFFICES ASSUME q <= -1 PROVE FALSE
    BY <1>2
  <2>2. Second * q <= - Second
    BY <1>2, <2>1
  <2>3. QED
    BY <1>2, <2>2
<1>4. q * Second = Second * q /\ Second * q >= q /\ Second * q >= 0
  BY <1>2, <1>3
<1>5. q \in 0..t /\ q * Second \in 0..t
  BY <1>2, <1>3, <1>4
<1>6. QED
  BY <1>5 DEF Seconds, q

\* What getattr has replied: until it expires, the kernel has what the file had, to
\* the second, at a moment not longer ago than the lifetime.
Fresh ==
    expires # 0 =>
        \E t \in Start..now :
            /\ expires = t + Lifetime
            /\ \E m \in past[t] : cached = Seconds(m)

\* The history is complete: it has the present time of the file.
PastKnown == past \in [Start..now -> SUBSET (0..now)] /\ mtime \in past[now]

\* One stat is remembered at most.
SeenOne == DOMAIN seen \subseteq {1}

CacheInv == TypeOK /\ PastKnown /\ SeenOne /\ Fresh /\ ShownIsRecent

LEMMA CacheInit == Init => CacheInv
<1> SUFFICES ASSUME Init PROVE CacheInv
  OBVIOUS
<1>1. Start \in 1..End /\ End \in Nat /\ now = Start /\ Start..now = {Start}
  BY AttributeCacheAssumption DEF Init
<1>2. past \in [Start..now -> SUBSET (0..now)] /\ mtime \in past[now]
  BY <1>1 DEF Init
<1>3. TypeOK
  BY <1>1, <1>2, LifetimeType DEF Init, TypeOK, Lifetime
<1>4. SeenOne /\ Fresh /\ ShownIsRecent
  BY DEF Init, SeenOne, Fresh, ShownIsRecent
<1>5. QED
  BY <1>2, <1>3, <1>4 DEF CacheInv, PastKnown

\* A step keeps what was recent: the history only grows.
LEMMA HistoryGrows ==
    ASSUME CacheInv, now' \in now..End, cached' = cached, expires' = expires, seen' = seen,
           mtime' \in past'[now'], mtime' \in 0..now',
           past' \in [Start..now' -> SUBSET (0..now')],
           \A t \in Start..now : past[t] \subseteq past'[t]
    PROVE  CacheInv'
<1>1. now \in Nat /\ now' \in Nat /\ now <= now' /\ Start..now \subseteq Start..now'
  BY AttributeCacheAssumption DEF CacheInv, TypeOK
<1>2. TypeOK'
  <2>1. expires' \in 0..(now' + Timeout * Second)
    BY <1>1, LifetimeType DEF CacheInv, TypeOK, Lifetime
  <2>2. now' \in Start..End /\ cached' \in 0..now'
    BY <1>1, AttributeCacheAssumption DEF CacheInv, TypeOK
  <2>3. seen' = <<>> \/ seen'[1] \in [at : Start..now', time : Nat, file : 0..now',
                                      asked : BOOLEAN]
    BY <1>1 DEF CacheInv, TypeOK
  <2>4. QED
    BY <2>1, <2>2, <2>3 DEF TypeOK
<1>3. Fresh'
  BY <1>1 DEF CacheInv, Fresh
<1>4. ShownIsRecent'
  <2>1. SUFFICES ASSUME NEW i \in DOMAIN seen
                 PROVE  \E t \in DOMAIN past' :
                          /\ t \in (seen[i].at - Timeout * Second)..seen[i].at
                          /\ \E m \in past'[t] : seen[i].time = Seconds(m) * Second
    BY DEF ShownIsRecent
  <2>2. PICK t \in DOMAIN past :
          /\ t \in (seen[i].at - Timeout * Second)..seen[i].at
          /\ \E m \in past[t] : seen[i].time = Seconds(m) * Second
    BY DEF CacheInv, ShownIsRecent
  <2>3. t \in DOMAIN past' /\ past[t] \subseteq past'[t]
    BY <1>1 DEF CacheInv, PastKnown
  <2>4. QED
    BY <2>2, <2>3
<1>5. QED
  BY <1>2, <1>3, <1>4 DEF CacheInv, PastKnown, SeenOne

\* A stat of a time that the file had, to the second, at most the lifetime ago.
LEMMA ShownHolds ==
    ASSUME CacheInv, UNCHANGED <<now, mtime, past>>, NEW asked \in BOOLEAN, Show(asked),
           NEW t \in Start..now, t >= now - Lifetime,
           NEW m \in past[t], cached' = Seconds(m)
    PROVE  /\ ShownIsRecent' /\ SeenOne'
           /\ seen'[1] \in [at : Start..now', time : Nat, file : 0..now', asked : BOOLEAN]
<1>1. m \in Nat /\ now \in Nat /\ mtime \in 0..now /\ t \in Int /\ Lifetime \in Nat
  BY LifetimeType, AttributeCacheAssumption DEF CacheInv, PastKnown, TypeOK
<1>2. seen' = <<[at |-> now, time |-> Seconds(m) * Second, file |-> mtime, asked |-> asked]>>
  BY DEF Show
<1>3. Seconds(m) * Second \in Nat
  BY <1>1, SecondsFacts
<1>4. DOMAIN seen' = {1} /\ seen'[1].at = now /\ seen'[1].time = Seconds(m) * Second
  BY <1>2
<1>5. t \in (seen'[1].at - Timeout * Second)..seen'[1].at /\ t \in DOMAIN past'
  BY <1>1, <1>4 DEF Lifetime, CacheInv, PastKnown
<1>6. ShownIsRecent'
  <2>1. past' = past
    OBVIOUS
  <2>2. \A i \in DOMAIN seen' :
          \E u \in DOMAIN past' :
             /\ u \in (seen'[i].at - Timeout * Second)..seen'[i].at
             /\ \E n \in past'[u] : seen'[i].time = Seconds(n) * Second
    BY <1>4, <1>5, <2>1
  <2>3. QED
    BY <2>2 DEF ShownIsRecent
<1>7. QED
  BY <1>1, <1>2, <1>3, <1>4, <1>6 DEF SeenOne, CacheInv, TypeOK

LEMMA CacheNext == ASSUME CacheInv, [Next]_vars PROVE CacheInv'
<1>1. /\ now \in Start..End /\ now \in Nat \ {0} /\ mtime \in 0..now /\ mtime \in Nat
      /\ past \in [Start..now -> SUBSET (0..now)] /\ mtime \in past[now]
      /\ now \in Start..now /\ Lifetime \in Nat
      /\ Start \in Nat /\ End \in Nat
  BY LifetimeType, AttributeCacheAssumption DEF CacheInv, PastKnown, TypeOK
<1>2. CASE Tick
  <2>1. /\ now' = now + 1 /\ now' \in now..End
        /\ past' = [t \in Start..now' |-> IF t = now' THEN {mtime} ELSE past[t]]
        /\ UNCHANGED <<mtime, cached, expires, seen>>
    BY <1>1, <1>2 DEF Tick
  <2>2. past' \in [Start..now' -> SUBSET (0..now')] /\ mtime' \in past'[now']
    BY <1>1, <2>1
  <2>3. \A t \in Start..now : past[t] \subseteq past'[t]
    BY <1>1, <2>1
  <2>4. mtime' \in 0..now'
    BY <1>1, <2>1
  <2>5. QED
    BY <2>1, <2>2, <2>3, <2>4, HistoryGrows
<1>3. CASE Touch
  <2>1. /\ now' = now /\ mtime' = now /\ now' \in now..End
        /\ past' = [past EXCEPT ![now] = @ \cup {now}]
        /\ UNCHANGED <<cached, expires, seen>>
    BY <1>1, <1>3 DEF Touch
  <2>2. past' \in [Start..now' -> SUBSET (0..now')] /\ mtime' \in past'[now']
    BY <1>1, <2>1
  <2>3. \A t \in Start..now : past[t] \subseteq past'[t]
    BY <1>1, <2>1
  <2>4. mtime' \in 0..now'
    BY <1>1, <2>1
  <2>5. QED
    BY <2>1, <2>2, <2>3, <2>4, HistoryGrows
<1>4. CASE Lookup
  <2>1. cached' = mtime /\ expires' = 0 /\ UNCHANGED <<now, mtime, past, seen>>
    BY <1>4 DEF Lookup, Keep, EntryParam, ObjectToStat, IntegerValue, Date
  <2>2. TypeOK'
    BY <1>1, <2>1 DEF CacheInv, TypeOK, Lifetime
  <2>3. Fresh' /\ PastKnown' /\ SeenOne' /\ ShownIsRecent'
    BY <2>1 DEF CacheInv, PastKnown, SeenOne, Fresh, ShownIsRecent
  <2>4. QED
    BY <2>2, <2>3 DEF CacheInv
<1>5. CASE GetAttr
  <2>1. /\ cached' = Seconds(mtime) /\ Show(TRUE) /\ UNCHANGED <<now, mtime, past>>
        /\ expires' = IF Timeout = 0 THEN 0 ELSE now + Lifetime
    BY <1>5 DEF GetAttr, Keep, AttrReply, ObjectToStat, IntegerValue, Number, Lifetime
  <2>2. now >= now - Lifetime
    BY <1>1
  <2>3. /\ ShownIsRecent' /\ SeenOne'
        /\ seen'[1] \in [at : Start..now', time : Nat, file : 0..now', asked : BOOLEAN]
    BY <1>1, <2>1, <2>2, ShownHolds
  <2>4. TypeOK'
    <3>1. cached' \in 0..now'
      BY <1>1, <2>1, SecondsFacts
    <3>2. expires' \in 0..(now' + Timeout * Second)
      BY <1>1, <2>1 DEF Lifetime
    <3>3. QED
      BY <1>1, <2>1, <2>3, <3>1, <3>2 DEF TypeOK
  <2>5. Fresh'
    BY <1>1, <2>1 DEF Fresh
  <2>6. QED
    BY <2>1, <2>3, <2>4, <2>5 DEF CacheInv, PastKnown
<1>6. CASE StatCached
  <2>1. Valid /\ Show(FALSE) /\ UNCHANGED <<now, mtime, past, cached, expires>>
    BY <1>6 DEF StatCached
  <2>2. PICK t \in Start..now :
          expires = t + Lifetime /\ \E m \in past[t] : cached = Seconds(m)
    BY <1>1, <2>1 DEF CacheInv, Fresh, Valid
  <2>3. PICK m \in past[t] : cached = Seconds(m)
    BY <2>2
  <2>4. t >= now - Lifetime
    BY <1>1, <2>1, <2>2 DEF Valid
  <2>5. /\ ShownIsRecent' /\ SeenOne'
        /\ seen'[1] \in [at : Start..now', time : Nat, file : 0..now', asked : BOOLEAN]
    BY <2>1, <2>3, <2>4, ShownHolds
  <2>6. TypeOK'
    BY <2>1, <2>5 DEF CacheInv, TypeOK
  <2>7. Fresh'
    BY <2>1 DEF CacheInv, Fresh
  <2>8. QED
    BY <2>1, <2>5, <2>6, <2>7 DEF CacheInv, PastKnown
<1>7. CASE UNCHANGED vars
  BY <1>7 DEF vars, CacheInv, TypeOK, PastKnown, SeenOne, Fresh, ShownIsRecent, Seconds
<1>8. QED
  BY <1>2, <1>3, <1>4, <1>5, <1>6, <1>7 DEF Next

LEMMA CacheKept == Spec => []CacheInv
<1>1. CacheInv /\ [Next]_vars => CacheInv'
  BY CacheNext
<1>2. QED
  BY CacheInit, <1>1, PTL DEF Spec

\* The types of AttributeCache: among them, that attributes are never valid for longer
\* than the timeout from now.
THEOREM CacheTypes == Spec => []TypeOK
<1>1. CacheInv => TypeOK
  BY DEF CacheInv
<1>2. QED
  BY <1>1, CacheKept, PTL

\* loopback.js:103: what a stat shows is, to the second, what the file had at a moment
\* at most the timeout ago; the milliseconds that lookup replies are never shown.
THEOREM ShownRecent == Spec => []ShownIsRecent
<1>1. CacheInv => ShownIsRecent
  BY DEF CacheInv
<1>2. QED
  BY <1>1, CacheKept, PTL
=============================================================================
