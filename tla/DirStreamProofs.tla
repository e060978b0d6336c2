--------------------------- MODULE DirStreamProofs ---------------------------
(***************************************************************************)
(* Listings, for every directory, any number of readers and every size of  *)
(* the answers, as long as each entry keeps to the space that the loopback *)
(* reckons with and there is one to list: however the answers are cut,     *)
(* taken and asked for again, the pieces make one complete listing.        *)
(***************************************************************************)
EXTENDS DirStream, FiniteSetTheorems, SequenceTheorems, TLAPS

-----------------------------------------------------------------------------
(* Induction and recursion over the naturals, for sets and functions.      *)

\* A set of numbers has a least one: the finite sets 1..x are well-founded.
LEMMA LeastNumber ==
    ASSUME NEW T, T \subseteq Nat, T # {}
    PROVE  \E x \in T : \A y \in T : x <= y
<1> DEFINE F == {1..x : x \in T}
<1>1. IsWellFoundedOn(StrictSubsetOrdering(Nat), FiniteSubsetsOf(Nat))
  BY FS_StrictSubsetOrderingWellFounded
<1>2. ASSUME NEW x \in T PROVE 1..x \in FiniteSubsetsOf(Nat)
  <2>1. IsFiniteSet(1..x)
    BY FS_Interval
  <2>2. 1..x \subseteq Nat
    OBVIOUS
  <2>3. QED
    BY <2>1, <2>2 DEF FiniteSubsetsOf
<1>3. F \subseteq FiniteSubsetsOf(Nat) /\ F # {}
  BY <1>2
<1>4. PICK m \in F : \A y \in F : ~ (<<y, m>> \in StrictSubsetOrdering(Nat))
  <2> HIDE DEF F
  <2>1. QED
    BY <1>1, <1>3, WFMin
<1>5. PICK x \in T : m = 1..x
  OBVIOUS
<1>6. ASSUME NEW y \in T, y < x PROVE FALSE
  <2>1. 1..y \subseteq 1..x /\ x \in 1..x /\ x \notin 1..y
    BY <1>6
  <2>2. <<1..y, 1..x>> \in StrictSubsetOrdering(Nat)
    BY <2>1 DEF StrictSubsetOrdering
  <2>3. QED
    BY <2>2, <1>4, <1>5
<1>7. QED
  BY <1>6

\* Induction, for a set of numbers.
LEMMA Induction ==
    ASSUME NEW T, 0 \in T, \A n \in Nat : n \in T => n + 1 \in T
    PROVE  \A n \in Nat : n \in T
<1> DEFINE B == {n \in Nat : n \notin T}
<1>1. SUFFICES ASSUME NEW b \in B PROVE FALSE
  OBVIOUS
<1>2. PICK x \in B : \A y \in B : x <= y
  BY <1>1, LeastNumber
<1>3. x # 0 /\ x - 1 \in Nat /\ x - 1 \notin B
  BY <1>2
<1>4. QED
  BY <1>2, <1>3

\* A finite, non-empty set of numbers with a bound has a greatest one.
LEMMA GreatestNumber ==
    ASSUME NEW n \in Nat, NEW T, T \subseteq 0..n, T # {}
    PROVE  Max(T) \in T /\ \A y \in T : y <= Max(T)
<1> DEFINE U == {n - y : y \in T}
<1>1. PICK u \in U : \A v \in U : u <= v
  <2>1. \A y \in T : y \in Int /\ n - y \in Nat
    OBVIOUS
  <2>2. U \subseteq Nat /\ U # {}
    BY <2>1
  <2> HIDE DEF U
  <2>3. QED
    BY <2>2, LeastNumber
<1>2. PICK x \in T : u = n - x
  OBVIOUS
<1>3. ASSUME NEW y \in T PROVE x >= y
  <2>1. n - y \in U
    OBVIOUS
  <2>2. u <= n - y
    BY <1>1, <2>1
  <2>3. x \in Int /\ y \in Int
    OBVIOUS
  <2> HIDE DEF U
  <2>4. QED
    BY <1>2, <2>2, <2>3
<1>4. QED
  BY <1>2, <1>3 DEF Max

\* Arithmetic for the sizes.
LEMMA ProductGrows ==
    ASSUME NEW x \in Nat, NEW y \in Nat, NEW c \in Nat, x <= y
    PROVE  x * c <= y * c
<1>1. PICK z \in Nat : y = x + z
  <2>1. y - x \in Nat /\ y = x + (y - x)
    OBVIOUS
  <2>2. QED
    BY <2>1
<1>2. y * c = x * c + z * c
  BY <1>1
<1>3. x * c \in Nat /\ z * c \in Nat
  BY <1>1
<1>4. QED
  BY <1>2, <1>3

LEMMA SmallRemainder ==
    ASSUME NEW m \in Nat, NEW x \in 0..(m - 1)
    PROVE  x % m = x
OBVIOUS

-----------------------------------------------------------------------------
(* The files that can be listed.                                           *)

FileNames == DOMAIN EntrySize

\* The equation of ListableAmong, up to m files.
IsAmong(f, d, m) ==
    f = [n \in 0..m |->
            IF n = 0 THEN <<>>
            ELSE IF d[n] \in Broken THEN f[n - 1] ELSE Append(f[n - 1], d[n])]

LEMMA AmongExists == ASSUME NEW d, NEW m \in Nat PROVE \E f : IsAmong(f, d, m)
<1> DEFINE T == {n \in Nat : \E f : IsAmong(f, d, n)}
<1>1. 0 \in T
  <2>1. IsAmong([n \in 0..0 |-> <<>>], d, 0)
    BY DEF IsAmong
  <2>2. QED
    BY <2>1
<1>2. ASSUME NEW n \in Nat, n \in T PROVE n + 1 \in T
  <2>1. PICK f : IsAmong(f, d, n)
    BY <1>2
  <2> DEFINE g == [i \in 0..(n + 1) |->
                      IF i <= n THEN f[i]
                      ELSE IF d[i] \in Broken THEN f[i - 1] ELSE Append(f[i - 1], d[i])]
  <2>2. \A i \in 0..n : f[i] = IF i = 0 THEN <<>>
                               ELSE IF d[i] \in Broken THEN f[i - 1]
                               ELSE Append(f[i - 1], d[i])
    BY <2>1 DEF IsAmong
  <2>3. \A i \in 0..(n + 1) : g[i] = IF i = 0 THEN <<>>
                                     ELSE IF d[i] \in Broken THEN g[i - 1]
                                     ELSE Append(g[i - 1], d[i])
    BY <2>2
  <2>4. g = [i \in 0..(n + 1) |-> g[i]]
    OBVIOUS
  <2> HIDE DEF g
  <2>5. IsAmong(g, d, n + 1)
    BY <2>3, <2>4 DEF IsAmong
  <2>6. QED
    BY <2>5
<1>3. \A n \in Nat : n \in T
  <2> HIDE DEF T
  <2>1. QED
    BY <1>1, <1>2, Induction
<1>4. m \in T
  BY <1>3
<1>5. QED
  BY <1>4

LEMMA AmongDef ==
    ASSUME NEW d \in Directories
    PROVE  /\ ListableAmong(d)[0] = <<>>
           /\ \A n \in 1..Len(d) :
                 ListableAmong(d)[n] = IF d[n] \in Broken THEN ListableAmong(d)[n - 1]
                                       ELSE Append(ListableAmong(d)[n - 1], d[n])
<1>1. Len(d) \in Nat
  BY DirStreamAssumption
<1>2. \E f : IsAmong(f, d, Len(d))
  BY <1>1, AmongExists
<1>3. IsAmong(ListableAmong(d), d, Len(d))
  BY <1>2, Zenon DEF IsAmong, ListableAmong
<1> DEFINE A(n) == ListableAmong(d)[n]
<1>4. ListableAmong(d) = [n \in 0..Len(d) |->
                            IF n = 0 THEN <<>>
                            ELSE IF d[n] \in Broken THEN A(n - 1) ELSE Append(A(n - 1), d[n])]
  BY <1>3, Zenon DEF IsAmong
<1>5. \A n \in 0..Len(d) : A(n) = IF n = 0 THEN <<>>
                                 ELSE IF d[n] \in Broken THEN A(n - 1) ELSE Append(A(n - 1), d[n])
  BY <1>4
<1> HIDE DEF A
<1>6. A(0) = <<>>
  BY <1>1, <1>5
<1>7. ASSUME NEW n \in 1..Len(d)
      PROVE  A(n) = IF d[n] \in Broken THEN A(n - 1) ELSE Append(A(n - 1), d[n])
  <2>1. n \in 0..Len(d) /\ n # 0
    BY <1>1
  <2>2. QED
    BY <1>5, <2>1
<1>8. QED
  BY <1>6, <1>7 DEF A

\* What can be listed among n files begins with what can be among fewer, and is not
\* more than n.
LEMMA AmongGrows ==
    ASSUME NEW d \in Directories, NEW n \in 0..Len(d)
    PROVE  /\ ListableAmong(d)[n] \in Seq(FileNames)
           /\ Len(ListableAmong(d)[n]) \in 0..n
           /\ \A k \in 0..n :
                 /\ Len(ListableAmong(d)[k]) <= Len(ListableAmong(d)[n])
                 /\ \A i \in 1..Len(ListableAmong(d)[k]) :
                       ListableAmong(d)[k][i] = ListableAmong(d)[n][i]
<1> DEFINE A(j) == ListableAmong(d)[j]
           P(m) == /\ A(m) \in Seq(FileNames) /\ Len(A(m)) \in 0..m
                   /\ \A k \in 0..m : /\ Len(A(k)) <= Len(A(m))
                                      /\ \A i \in 1..Len(A(k)) : A(k)[i] = A(m)[i]
           T == {m \in Nat : m <= Len(d) => P(m)}
<1>1. Len(d) \in Nat /\ \A m \in 1..Len(d) : d[m] \in FileNames
  BY DirStreamAssumption DEF FileNames
<1>2. /\ A(0) = <<>>
      /\ \A m \in 1..Len(d) : A(m) = IF d[m] \in Broken THEN A(m - 1) ELSE Append(A(m - 1), d[m])
  BY AmongDef
<1> HIDE DEF A
<1>3. 0 \in T
  <2>1. A(0) \in Seq(FileNames) /\ Len(A(0)) = 0
    <3>1. A(0) = <<>>
      BY <1>2
    <3>2. QED
      BY <3>1, EmptySeq
  <2>2. \A k \in 0..0 : k = 0
    OBVIOUS
  <2>3. 0 \in 0..0 /\ 0 <= 0 /\ 1..0 = {}
    OBVIOUS
  <2>4. P(0)
    BY <2>1, <2>2, <2>3
  <2>5. QED
    BY <2>4
<1>4. ASSUME NEW m \in Nat, m \in T PROVE m + 1 \in T
  <2>1. SUFFICES ASSUME m + 1 <= Len(d) PROVE P(m + 1)
    OBVIOUS
  <2>2. P(m)
    BY <1>4, <2>1, <1>1
  <2>3. m + 1 \in 1..Len(d) /\ (m + 1) - 1 = m
    BY <1>1, <2>1
  <2>4. CASE d[m + 1] \in Broken
    <3>1. A(m + 1) = A(m)
      BY <1>2, <2>3, <2>4
    <3>2. \A k \in 0..(m + 1) : k \in 0..m \/ k = m + 1
      OBVIOUS
    <3>3. Len(A(m + 1)) \in 0..(m + 1) /\ A(m + 1) \in Seq(FileNames)
      BY <2>2, <3>1
    <3>4. ASSUME NEW k \in 0..(m + 1)
          PROVE  Len(A(k)) <= Len(A(m + 1)) /\ \A i \in 1..Len(A(k)) : A(k)[i] = A(m + 1)[i]
      <4>1. CASE k \in 0..m
        BY <2>2, <3>1, <4>1
      <4>2. CASE k = m + 1
        BY <3>3, <4>2
      <4>3. QED
        BY <3>2, <4>1, <4>2
    <3>5. QED
      BY <3>3, <3>4
  <2>5. CASE d[m + 1] \notin Broken
    <3>1. A(m + 1) = Append(A(m), d[m + 1])
      BY <1>2, <2>3, <2>5
    <3>2. /\ A(m + 1) \in Seq(FileNames) /\ Len(A(m + 1)) = Len(A(m)) + 1
          /\ \A i \in 1..Len(A(m)) : A(m + 1)[i] = A(m)[i]
      <4>1. A(m) \in Seq(FileNames) /\ d[m + 1] \in FileNames
        BY <1>1, <2>2, <2>3
      <4>2. \A s \in Seq(FileNames), x \in FileNames :
               /\ Append(s, x) \in Seq(FileNames) /\ Len(Append(s, x)) = Len(s) + 1
               /\ \A i \in 1..Len(s) : Append(s, x)[i] = s[i]
        BY AppendProperties
      <4>3. QED
        BY <3>1, <4>1, <4>2, SMTT(30)
    <3>3. Len(A(m + 1)) \in 0..(m + 1) /\ A(m + 1) \in Seq(FileNames)
      BY <2>2, <3>2
    <3>4. ASSUME NEW k \in 0..m
          PROVE  Len(A(k)) <= Len(A(m + 1)) /\ \A i \in 1..Len(A(k)) : A(k)[i] = A(m + 1)[i]
      <4>1. Len(A(k)) <= Len(A(m)) /\ \A i \in 1..Len(A(k)) : A(k)[i] = A(m)[i]
        BY <2>2
      <4>2. 1..Len(A(k)) \subseteq 1..Len(A(m)) /\ Len(A(m)) \in Nat /\ Len(A(k)) <= Len(A(m)) + 1
        BY <2>2, <4>1
      <4>3. QED
        BY <3>2, <4>1, <4>2
    <3>5. ASSUME NEW k \in 0..(m + 1)
          PROVE  Len(A(k)) <= Len(A(m + 1)) /\ \A i \in 1..Len(A(k)) : A(k)[i] = A(m + 1)[i]
      <4>1. CASE k \in 0..m
        BY <3>4, <4>1
      <4>2. CASE k = m + 1
        BY <3>3, <4>2
      <4>3. k \in 0..m \/ k = m + 1
        OBVIOUS
      <4>4. QED
        BY <4>1, <4>2, <4>3
    <3>6. QED
      BY <3>3, <3>5
  <2>6. QED
    BY <2>4, <2>5
<1>5. P(n)
  <2>1. \A m \in Nat : m \in T
    <3> HIDE DEF T
    <3>1. QED
      BY <1>3, <1>4, Induction
  <2>2. QED
    BY <1>1, <2>1
<1>6. QED
  BY <1>5 DEF A

-----------------------------------------------------------------------------
(* The layout of a whole directory.                                        *)

\* How many entries the directory has.
Count(d) == Len(Listable(d))

\* f[n] is the position behind the first n entries.
IsEnds(f, s, m) ==
    /\ f[0] = 0
    /\ \A n \in 1..m : f[n] = f[n - 1] + EntrySize[s[n]]
Ends(d) == CHOOSE f : IsEnds(f, Listable(d), Count(d))

Entries == [name : FileNames, from : Nat, to : Nat, cookie : Nat]

\* The entry at place i of the layout.
Entry(d, i) ==
    [name |-> Listable(d)[i], from |-> Ends(d)[i - 1], to |-> Ends(d)[i],
     cookie |-> Ends(d)[i]]

\* These are the entries of the layout behind the first `at'.
Part(entries, d, at) ==
    /\ entries \in Seq(Entries)
    /\ at + Len(entries) <= Count(d)
    /\ \A i \in 1..Len(entries) : entries[i] = Entry(d, at + i)

LEMMA EndsExist == ASSUME NEW s, NEW m \in Nat PROVE \E f : IsEnds(f, s, m)
<1> DEFINE T == {n \in Nat : \E f : IsEnds(f, s, n)}
<1>1. 0 \in T
  <2>1. IsEnds([n \in 0..0 |-> 0], s, 0)
    BY DEF IsEnds
  <2>2. QED
    BY <2>1
<1>2. ASSUME NEW n \in Nat, n \in T PROVE n + 1 \in T
  <2>1. PICK f : IsEnds(f, s, n)
    BY <1>2
  <2> DEFINE g == [i \in 0..(n + 1) |-> IF i <= n THEN f[i] ELSE f[i - 1] + EntrySize[s[i]]]
  <2>2. f[0] = 0 /\ \A i \in 1..n : f[i] = f[i - 1] + EntrySize[s[i]]
    BY <2>1 DEF IsEnds
  <2>3. g[0] = 0 /\ \A i \in 1..(n + 1) : g[i] = g[i - 1] + EntrySize[s[i]]
    BY <2>2
  <2> HIDE DEF g
  <2>4. IsEnds(g, s, n + 1)
    BY <2>3 DEF IsEnds
  <2>5. QED
    BY <2>4
<1>3. \A n \in Nat : n \in T
  <2> HIDE DEF T
  <2>1. QED
    BY <1>1, <1>2, Induction
<1>4. m \in T
  BY <1>3
<1>5. QED
  BY <1>4

LEMMA ListableType ==
    ASSUME NEW d \in Directories
    PROVE  /\ Listable(d) \in Seq(FileNames) /\ Count(d) \in Nat /\ Len(d) \in Nat
           /\ Count(d) <= Len(d)
           /\ \A i \in 1..Count(d) : /\ Listable(d)[i] \in FileNames
                                     /\ EntrySize[Listable(d)[i]] \in 1..RequestedSize
<1>1. Len(d) \in Nat /\ Len(d) \in 0..Len(d)
  BY DirStreamAssumption
<1>2. Listable(d) \in Seq(FileNames) /\ Count(d) \in 0..Len(d)
  BY <1>1, AmongGrows DEF Listable, Count
<1>3. \A i \in 1..Count(d) : Listable(d)[i] \in FileNames
  BY <1>2 DEF Count
<1>4. QED
  BY <1>1, <1>2, <1>3, DirStreamAssumption DEF FileNames

LEMMA EndsDef ==
    ASSUME NEW d \in Directories
    PROVE  /\ Ends(d)[0] = 0
           /\ \A n \in 1..Count(d) : Ends(d)[n] = Ends(d)[n - 1] + EntrySize[Listable(d)[n]]
<1>1. \E f : IsEnds(f, Listable(d), Count(d))
  BY ListableType, EndsExist
<1>2. IsEnds(Ends(d), Listable(d), Count(d))
  BY <1>1 DEF Ends
<1>3. QED
  BY <1>2 DEF IsEnds

\* The positions are different, and in the order of the entries.
LEMMA EndsGrow ==
    ASSUME NEW d \in Directories, NEW n \in 0..Count(d)
    PROVE  /\ Ends(d)[n] \in Nat
           /\ \A k \in 0..n : k < n => Ends(d)[k] < Ends(d)[n]
<1> DEFINE E(j) == Ends(d)[j]
           P(m) == E(m) \in Nat /\ \A k \in 0..m : E(k) \in Nat /\ (k < m => E(k) < E(m))
           T == {m \in Nat : m <= Count(d) => P(m)}
<1>1. /\ Count(d) \in Nat /\ E(0) = 0
      /\ \A m \in 1..Count(d) : E(m) = E(m - 1) + EntrySize[Listable(d)[m]]
      /\ \A m \in 1..Count(d) : EntrySize[Listable(d)[m]] \in 1..RequestedSize
  BY EndsDef, ListableType
<1> HIDE DEF E
<1>2. 0 \in T
  <2>1. P(0)
    BY <1>1
  <2>2. QED
    BY <2>1
<1>3. ASSUME NEW m \in Nat, m \in T PROVE m + 1 \in T
  <2>1. SUFFICES ASSUME m + 1 <= Count(d) PROVE P(m + 1)
    OBVIOUS
  <2>2. P(m)
    BY <1>1, <1>3, <2>1
  <2>3. m + 1 \in 1..Count(d) /\ (m + 1) - 1 = m
    BY <1>1, <2>1
  <2>4. PICK x \in 1..RequestedSize : E(m + 1) = E(m) + x
    BY <1>1, <2>3
  <2>5. x \in Nat /\ x > 0 /\ E(m) \in Nat
    BY <2>2, <2>4, DirStreamAssumption
  <2>6. ASSUME NEW k \in 0..(m + 1)
        PROVE  E(k) \in Nat /\ (k < m + 1 => E(k) < E(m + 1))
    <3>1. CASE k < m
      <4>1. k \in 0..m
        BY <3>1
      <4>2. E(k) \in Nat /\ E(k) < E(m)
        BY <2>2, <3>1, <4>1
      <4>3. QED
        BY <2>4, <2>5, <4>2
    <3>2. CASE k = m
      BY <2>4, <2>5, <3>2
    <3>3. CASE k = m + 1
      BY <2>4, <2>5, <3>3
    <3>4. QED
      BY <3>1, <3>2, <3>3
  <2>7. QED
    BY <2>4, <2>5, <2>6
<1>4. \A m \in Nat : m \in T
  <2> HIDE DEF T
  <2>1. QED
    BY <1>2, <1>3, Induction
<1>5. QED
  BY <1>1, <1>4 DEF E

\* The first n files take no more than n shares of the space.
LEMMA EndsBound ==
    ASSUME SoundListing, NEW d \in Directories, NEW n \in 0..Count(d)
    PROVE  Ends(d)[n] <= n * PerFile
<1> DEFINE E(j) == Ends(d)[j]
           T == {m \in Nat : m <= Count(d) => E(m) <= m * PerFile}
<1>1. /\ Count(d) \in Nat /\ E(0) = 0 /\ PerFile \in Nat
      /\ \A m \in 1..Count(d) : E(m) = E(m - 1) + EntrySize[Listable(d)[m]]
      /\ \A m \in 1..Count(d) : EntrySize[Listable(d)[m]] \in 1..RequestedSize
      /\ \A m \in 1..Count(d) : EntrySize[Listable(d)[m]] <= PerFile
      /\ \A m \in 0..Count(d) : E(m) \in Nat
  BY EndsDef, EndsGrow, ListableType, DirStreamAssumption DEF SoundListing, FileNames
<1> HIDE DEF E
<1>2. 0 \in T
  BY <1>1
<1>3. ASSUME NEW m \in Nat, m \in T PROVE m + 1 \in T
  <2>1. SUFFICES ASSUME m + 1 <= Count(d) PROVE E(m + 1) <= (m + 1) * PerFile
    OBVIOUS
  <2>2. m + 1 \in 1..Count(d) /\ (m + 1) - 1 = m /\ m \in 0..Count(d) /\ m <= Count(d)
    BY <1>1, <2>1
  <2>3. PICK x \in Int : x <= PerFile /\ E(m + 1) = E(m) + x
    BY <1>1, <2>2
  <2>4. E(m) <= m * PerFile /\ E(m) \in Nat
    BY <1>1, <1>3, <2>2
  <2>5. (m + 1) * PerFile = m * PerFile + PerFile /\ m * PerFile \in Int
    BY <1>1
  <2>6. QED
    BY <1>1, <2>3, <2>4, <2>5
<1>4. \A m \in Nat : m \in T
  <2> HIDE DEF T
  <2>1. QED
    BY <1>2, <1>3, Induction
<1>5. QED
  BY <1>1, <1>4 DEF E

\* Every entry is one that addDirEntry has written.
LEMMA EntryType ==
    ASSUME NEW d \in Directories, NEW i \in 1..Count(d)
    PROVE  /\ Entry(d, i) \in Entries
           /\ Entry(d, i).name = Listable(d)[i] /\ Entry(d, i).cookie = Ends(d)[i]
           /\ Entry(d, i).from = Ends(d)[i - 1] /\ Entry(d, i).to = Ends(d)[i]
<1>1. Count(d) \in Nat /\ Listable(d)[i] \in FileNames
  BY ListableType
<1>2. i \in 0..Count(d) /\ i - 1 \in 0..Count(d)
  BY <1>1
<1>3. Ends(d)[i] \in Nat /\ Ends(d)[i - 1] \in Nat
  BY <1>2, EndsGrow
<1>4. QED
  BY <1>1, <1>3 DEF Entry, Entries

LEMMA EmptyPart ==
    ASSUME NEW d \in Directories, NEW at \in 0..Count(d)
    PROVE  Part(<<>>, d, at)
<1>1. Count(d) \in Nat
  BY ListableType
<1>2. <<>> \in Seq(Entries) /\ Len(<<>>) = 0 /\ at + 0 <= Count(d) /\ 1..0 = {}
  BY <1>1
<1>3. QED
  BY <1>2 DEF Part

LEMMA PartAppend ==
    ASSUME NEW d \in Directories, NEW s, Part(s, d, 0), Len(s) + 1 <= Count(d)
    PROVE  Part(Append(s, Entry(d, Len(s) + 1)), d, 0)
<1> DEFINE e == Entry(d, Len(s) + 1)
           t == Append(s, e)
<1>1. s \in Seq(Entries) /\ Len(s) \in Nat /\ \A i \in 1..Len(s) : s[i] = Entry(d, 0 + i)
  BY DEF Part
<1>2. Count(d) \in Nat
  BY ListableType
<1>3. Len(s) + 1 \in 1..Count(d)
  BY <1>1, <1>2
<1>4. e \in Entries
  BY <1>3, EntryType
<1> HIDE DEF e
<1>5. /\ t \in Seq(Entries) /\ Len(t) = Len(s) + 1
      /\ \A i \in 1..Len(s) : t[i] = s[i]
      /\ t[Len(s) + 1] = e
  BY <1>1, <1>4, AppendProperties
<1> HIDE DEF t
<1>6. ASSUME NEW i \in 1..Len(t) PROVE t[i] = Entry(d, 0 + i)
  <2>1. CASE i = Len(s) + 1
    BY <1>1, <1>5, <2>1 DEF e
  <2>2. CASE i # Len(s) + 1
    <3>1. i \in 1..Len(s)
      BY <1>1, <1>5, <2>2
    <3>2. QED
      BY <1>1, <1>5, <3>1
  <2>3. QED
    BY <2>1, <2>2
<1>7. Part(t, d, 0)
  BY <1>1, <1>2, <1>3, <1>5, <1>6 DEF Part
<1>8. QED
  BY <1>7 DEF t, e

\* A piece of a part is a part.
LEMMA PartSub ==
    ASSUME NEW d \in Directories, NEW at \in Nat, NEW s, Part(s, d, at),
           NEW m \in Nat, NEW n \in Nat, 1 <= m, m <= n + 1, n <= Len(s)
    PROVE  Part(SubSeq(s, m, n), d, at + m - 1) /\ Len(SubSeq(s, m, n)) = n + 1 - m
<1> DEFINE t == SubSeq(s, m, n)
<1>1. s \in Seq(Entries) /\ Len(s) \in Nat /\ \A i \in 1..Len(s) : s[i] = Entry(d, at + i)
  BY DEF Part
<1>2. Count(d) \in Nat /\ at + Len(s) <= Count(d)
  BY ListableType DEF Part
<1>3. \A i \in m..n : s[i] \in Entries
  BY <1>1
<1>4. /\ t \in Seq(Entries) /\ Len(t) = IF m <= n THEN n - m + 1 ELSE 0
      /\ \A i \in 1..(n - m + 1) : t[i] = s[m + i - 1]
  BY <1>3, SubSeqProperties
<1> HIDE DEF t
<1>5. Len(t) = n + 1 - m
  BY <1>4
<1>6. ASSUME NEW i \in 1..Len(t) PROVE t[i] = Entry(d, (at + m - 1) + i)
  <2>1. i \in 1..(n - m + 1) /\ m + i - 1 \in 1..Len(s) /\ at + (m + i - 1) = (at + m - 1) + i
    BY <1>1, <1>5
  <2>2. t[i] = s[m + i - 1] /\ s[m + i - 1] = Entry(d, at + (m + i - 1))
    BY <1>1, <1>4, <2>1
  <2>3. QED
    BY <2>1, <2>2
<1>7. (at + m - 1) + Len(t) <= Count(d)
  BY <1>1, <1>2, <1>5
<1>8. QED
  BY <1>4, <1>5, <1>6, <1>7 DEF Part, t

\* What follows a part, behind it, makes a longer part.
LEMMA PartConcat ==
    ASSUME NEW d \in Directories, NEW s, NEW t, Part(s, d, 0), Part(t, d, Len(s))
    PROVE  Part(s \o t, d, 0) /\ Len(s \o t) = Len(s) + Len(t)
<1> DEFINE u == s \o t
<1>1. /\ s \in Seq(Entries) /\ Len(s) \in Nat /\ \A i \in 1..Len(s) : s[i] = Entry(d, 0 + i)
      /\ t \in Seq(Entries) /\ Len(t) \in Nat
      /\ \A i \in 1..Len(t) : t[i] = Entry(d, Len(s) + i)
      /\ Len(s) + Len(t) <= Count(d)
  BY DEF Part
<1>2. /\ u \in Seq(Entries) /\ Len(u) = Len(s) + Len(t)
      /\ \A i \in 1..(Len(s) + Len(t)) : u[i] = IF i <= Len(s) THEN s[i] ELSE t[i - Len(s)]
  BY <1>1, ConcatProperties
<1> HIDE DEF u
<1>3. ASSUME NEW i \in 1..Len(u) PROVE u[i] = Entry(d, 0 + i)
  <2>1. CASE i <= Len(s)
    BY <1>1, <1>2, <2>1
  <2>2. CASE ~ (i <= Len(s))
    <3>1. i - Len(s) \in 1..Len(t) /\ Len(s) + (i - Len(s)) = 0 + i
      BY <1>1, <1>2, <2>2
    <3>2. QED
      BY <1>1, <1>2, <2>2, <3>1
  <2>3. QED
    BY <2>1, <2>2
<1>4. Part(u, d, 0)
  BY <1>1, <1>2, <1>3, ListableType DEF Part
<1>5. QED
  BY <1>2, <1>4 DEF u

\* The cookie of the last entry of a part is the position behind it.
LEMMA CookieOf ==
    ASSUME NEW d \in Directories, NEW s, Part(s, d, 0)
    PROVE  Cookie(s) = Ends(d)[Len(s)] /\ Len(s) \in 0..Count(d)
<1>1. /\ s \in Seq(Entries) /\ Len(s) \in Nat /\ \A i \in 1..Len(s) : s[i] = Entry(d, 0 + i)
      /\ Len(s) <= Count(d) /\ Count(d) \in Nat
  BY ListableType DEF Part
<1>2. CASE s = <<>>
  BY <1>1, <1>2, EndsDef DEF Cookie
<1>3. CASE s # <<>>
  <2>1. Len(s) # 0
    BY <1>1, <1>3, EmptySeq
  <2>2. Len(s) \in 1..Len(s) /\ Len(s) \in 1..Count(d) /\ 0 + Len(s) = Len(s)
    BY <1>1, <2>1
  <2>3. Last(s).cookie = Entry(d, Len(s)).cookie
    BY <1>1, <2>2 DEF Last
  <2>4. QED
    BY <1>1, <1>3, <2>2, <2>3, EntryType DEF Cookie
<1>4. QED
  BY <1>1, <1>2, <1>3

\* The Reply holds the layout of the first k files.
LaidOut(rep, d, k) ==
    /\ Part(rep.entries, d, 0)
    /\ Len(rep.entries) = Len(ListableAmong(d)[k])
    /\ rep.acc_size = Ends(d)[Len(rep.entries)]

\* One turn of the loop lays the next file out where Entry says: it fits.
LEMMA LayoutGrows ==
    ASSUME SoundListing, NEW d \in Directories, NEW k \in Nat, k + 1 <= Len(d),
           d[k + 1] \notin Broken, NEW rep, NEW offset, LaidOut(rep, d, k)
    PROVE  /\ LaidOut(AddDirEntry(rep, d[k + 1], LayoutSize(Len(d)), offset), d, k + 1)
           /\ AddDirEntry(rep, d[k + 1], LayoutSize(Len(d)), offset).offset = offset
<1>0. /\ Part(rep.entries, d, 0) /\ Len(rep.entries) = Len(ListableAmong(d)[k])
      /\ rep.acc_size = Ends(d)[Len(rep.entries)]
  BY DEF LaidOut
<1> DEFINE n == Len(rep.entries)
           name == d[k + 1]
           size == LayoutSize(Len(d))
           len == EntrySize[name]
           acc == rep.acc_size
           e == [name |-> IF len <= (size - acc) % SizeRange THEN name ELSE Hole,
                 from |-> acc, to |-> acc + len, cookie |-> acc + len]
           new == AddDirEntry(rep, name, size, offset)
           B == ListableAmong(d)[k + 1]
<1>1. Len(d) \in Nat /\ Count(d) \in Nat /\ Count(d) <= Len(d)
  BY ListableType
<1>2. k + 1 \in 0..Len(d) /\ k + 1 \in 1..Len(d) /\ k \in 0..Len(d) /\ (k + 1) - 1 = k
  BY <1>1
<1>3. B = Append(ListableAmong(d)[k], name)
  BY <1>2, AmongDef
<1>4. ListableAmong(d)[k] \in Seq(FileNames) /\ name \in FileNames
  <2>1. ListableAmong(d)[k] \in Seq(FileNames)
    BY <1>2, AmongGrows
  <2>2. name \in FileNames
    BY <1>2, DirStreamAssumption DEF FileNames
  <2>3. QED
    BY <2>1, <2>2
<1>5. Len(B) = n + 1 /\ B[n + 1] = name /\ n \in Nat
  BY <1>0, <1>3, <1>4, AppendProperties
<1>6. Len(B) <= Count(d) /\ \A i \in 1..Len(B) : B[i] = Listable(d)[i]
  <2>1. Len(d) \in 0..Len(d)
    BY <1>1
  <2>2. QED
    BY <1>2, <2>1, AmongGrows DEF Listable, Count
<1>7. n + 1 \in 1..Count(d) /\ Listable(d)[n + 1] = name /\ (n + 1) - 1 = n /\ n \in 0..Count(d)
  BY <1>1, <1>5, <1>6
<1>8. Ends(d)[n + 1] = acc + len /\ acc = Ends(d)[n]
  BY <1>0, <1>7, EndsDef
<1>9. len \in 1..RequestedSize /\ len <= PerFile /\ RequestedSize \in Nat /\ PerFile \in Nat
      /\ SizeRange \in Nat /\ RequestedSize < SizeRange /\ Len(d) * PerFile < SizeRange
  BY <1>4, DirStreamAssumption DEF FileNames, SoundListing
<1>10. acc \in Nat /\ acc + len <= Len(d) * PerFile
  <2>1. n + 1 \in 0..Count(d)
    BY <1>1, <1>7
  <2>2. acc \in Nat /\ Ends(d)[n + 1] <= (n + 1) * PerFile
    BY <1>7, <1>8, <2>1, EndsGrow, EndsBound
  <2>3. (n + 1) * PerFile <= Len(d) * PerFile
    <3>1. n + 1 \in Nat /\ Len(d) \in Nat /\ n + 1 <= Len(d) /\ PerFile \in Nat
      BY <1>1, <1>5, <1>7, <1>9
    <3> DEFINE x == n + 1
               y == Len(d)
    <3> HIDE DEF n, x, y
    <3>2. x * PerFile <= y * PerFile
      BY <3>1, ProductGrows DEF x, y
    <3>3. QED
      BY <3>2 DEF x, y
  <2>4. (n + 1) * PerFile \in Nat /\ Len(d) * PerFile \in Nat
    BY <1>1, <1>5, <1>9
  <2> DEFINE part == (n + 1) * PerFile
             all == Len(d) * PerFile
  <2>5. part \in Nat /\ all \in Nat /\ part <= all /\ acc + len <= part
    BY <1>8, <2>2, <2>3, <2>4
  <2>6. len \in Int /\ acc \in Nat
    BY <1>9, <2>2
  <2> HIDE DEF part, all, acc, len
  <2>7. acc \in Nat /\ acc + len <= all
    BY <2>5, <2>6
  <2>8. QED
    BY <2>7 DEF all
<1>11. size \in Nat /\ Len(d) * PerFile <= size /\ size < SizeRange
  <2> DEFINE all == Len(d) * PerFile
  <2>1. all \in Nat /\ all < SizeRange /\ size = IF RequestedSize < all THEN all ELSE RequestedSize
    BY <1>1, <1>9 DEF LayoutSize
  <2> HIDE DEF all, size
  <2>2. size \in Nat /\ all <= size /\ size < SizeRange
    BY <1>9, <2>1
  <2>3. QED
    BY <2>2 DEF all
<1>12. len <= (size - acc) % SizeRange
  <2>1. size - acc \in 0..(SizeRange - 1) /\ len <= size - acc
    <3> DEFINE all == Len(d) * PerFile
    <3>1. all \in Nat /\ acc + len <= all /\ all <= size
      BY <1>1, <1>9, <1>10, <1>11
    <3>2. len \in Nat /\ acc \in Nat /\ size \in Nat /\ size < SizeRange /\ SizeRange \in Nat
      BY <1>9, <1>10, <1>11
    <3> HIDE DEF all, acc, len, size
    <3>3. QED
      BY <3>1, <3>2
  <2>2. (size - acc) % SizeRange = size - acc
    <3> HIDE DEF acc, size
    <3>1. QED
      BY <1>9, <2>1, SmallRemainder
  <2>3. QED
    BY <2>1, <2>2
<1>13. new = [entries |-> Append(rep.entries, e), acc_size |-> acc + len, offset |-> offset]
  BY DEF AddDirEntry
<1>14. e = Entry(d, n + 1)
  BY <1>7, <1>8, <1>12 DEF Entry
<1> HIDE DEF e, new, n, acc, name, len, size, B
<1>15. Part(Append(rep.entries, e), d, 0)
  BY <1>0, <1>1, <1>7, <1>14, PartAppend DEF n
<1>16. Len(Append(rep.entries, e)) = n + 1
  <2>1. rep.entries \in Seq(Entries) /\ e \in Entries
    BY <1>0, <1>7, <1>14, EntryType DEF Part
  <2>2. QED
    BY <2>1, AppendProperties DEF n
<1>17. /\ Part(new.entries, d, 0)
       /\ Len(new.entries) = Len(B)
       /\ new.acc_size = Ends(d)[Len(new.entries)]
       /\ new.offset = offset
  BY <1>5, <1>8, <1>13, <1>15, <1>16
<1>18. QED
  BY <1>17 DEF new, B, name, size, LaidOut

\* What `buffer' sends of the whole layout, from a position between two entries
\* on, is entries that follow it, and none only at the end.
LEMMA AnswerFollows ==
    ASSUME NEW d \in Directories, NEW at \in 0..Count(d), NEW rep,
           Part(rep.entries, d, 0), Len(rep.entries) = Count(d), rep.entries # <<>>,
           rep.acc_size = Ends(d)[Count(d)], rep.offset = Ends(d)[at]
    PROVE  LET a == BufferReply(rep, RequestedSize)
           IN  Part(a, d, at) /\ (a = <<>> => at = Count(d))
<1> DEFINE L == rep.entries
           a == BufferReply(rep, RequestedSize)
           from == rep.offset
           to == rep.offset + Least(rep.acc_size - rep.offset, RequestedSize)
           E(n) == Ends(d)[n]
<1>1. /\ L \in Seq(Entries) /\ Len(L) = Count(d) /\ Count(d) \in Nat
      /\ DOMAIN L = 1..Count(d)
      /\ \A i \in 1..Count(d) : L[i] = Entry(d, i)
  BY ListableType DEF Part
<1>2. /\ \A n \in 0..Count(d) : E(n) \in Nat
      /\ \A n \in 0..Count(d) : \A k \in 0..n : k < n => E(k) < E(n)
  BY EndsGrow
<1>3. \A i \in 1..Count(d) : L[i].from = E(i - 1) /\ L[i].to = E(i)
  BY <1>1, EntryType
<1>4. from = E(at) /\ from \in Nat /\ rep.acc_size = E(Count(d)) /\ rep.acc_size \in Nat
      /\ RequestedSize \in Nat
  <2>1. Count(d) \in 0..Count(d)
    BY <1>1
  <2>2. QED
    BY <1>2, <2>1, DirStreamAssumption
<1>5. CASE from < rep.acc_size
  <2>1. at < Count(d)
    <3>1. at \in Nat /\ at <= Count(d)
      BY <1>1
    <3>2. at # Count(d)
      BY <1>4, <1>5
    <3>3. QED
      BY <1>1, <3>1, <3>2
  <2>2. a = WholeEntries(L, from, to)
    BY <1>5 DEF BufferReply
  <2>3. at + 1 \in DOMAIN L /\ (at + 1) - 1 = at /\ at + 1 \in 0..Count(d)
    BY <1>1, <2>1
  <2>4. L[at + 1].from = from
    BY <1>1, <1>3, <1>4, <2>3
  <2>5. ASSUME NEW i \in DOMAIN L, L[i].from = from PROVE i = at + 1
    <3>1. E(i - 1) = E(at) /\ i - 1 \in 0..Count(d) /\ at \in 0..Count(d) /\ i \in Nat
      BY <1>1, <1>3, <1>4, <2>5
    <3>2. ~ (i - 1 < at)
      <4>1. SUFFICES ASSUME i - 1 < at PROVE FALSE
        OBVIOUS
      <4>2. i - 1 \in 0..at
        BY <3>1, <4>1
      <4>3. E(i - 1) < E(at) /\ E(at) \in Nat
        BY <1>2, <4>1, <4>2
      <4>4. QED
        BY <3>1, <4>3
    <3>3. ~ (at < i - 1)
      <4>1. SUFFICES ASSUME at < i - 1 PROVE FALSE
        OBVIOUS
      <4>2. at \in 0..(i - 1)
        BY <3>1, <4>1
      <4>3. E(at) < E(i - 1) /\ E(at) \in Nat
        BY <1>2, <3>1, <4>1, <4>2
      <4>4. QED
        BY <3>1, <4>3
    <3>4. QED
      BY <3>1, <3>2, <3>3
  <2> DEFINE first == CHOOSE i \in DOMAIN L : L[i].from = from
             U == {first - 1} \cup {i \in DOMAIN L : L[i].to <= to}
             last == Max(U)
  <2>6. first = at + 1
    BY <2>3, <2>4, <2>5
  <2>7. a = SubSeq(L, first, last)
    BY <2>2, <2>3, <2>4 DEF WholeEntries
  <2>8. L[at + 1].to <= to
    <3>1. L[at + 1].to = E(at) + EntrySize[Listable(d)[at + 1]]
      BY <1>1, <1>3, <2>3, EndsDef
    <3>2. EntrySize[Listable(d)[at + 1]] \in 1..RequestedSize
      BY <1>1, <2>3, ListableType
    <3>3. L[at + 1].to = E(at + 1) /\ E(at + 1) \in Nat
      BY <1>1, <1>2, <1>3, <2>3
    <3>4. E(at + 1) <= E(Count(d))
      <4>1. CASE at + 1 = Count(d)
        BY <3>3, <4>1
      <4>2. CASE at + 1 # Count(d)
        <5>1. Count(d) \in 0..Count(d) /\ at + 1 \in 0..Count(d) /\ at + 1 < Count(d)
          BY <1>1, <2>1, <2>3, <4>2
        <5>2. E(at + 1) < E(Count(d)) /\ E(Count(d)) \in Nat
          BY <1>2, <5>1
        <5>3. QED
          BY <3>3, <5>2
      <4>3. QED
        BY <4>1, <4>2
    <3>5. QED
      BY <1>4, <3>1, <3>2, <3>3, <3>4 DEF Least
  <2>9. U \subseteq 0..Count(d) /\ U # {} /\ at + 1 \in U
    <3> HIDE DEF first, L, to, from
    <3>1. first - 1 = at /\ at \in 0..Count(d)
      BY <1>1, <2>6
    <3>2. at + 1 \in U
      BY <2>3, <2>8
    <3>3. U \subseteq 0..Count(d)
      BY <1>1, <3>1
    <3>4. QED
      BY <3>2, <3>3
  <2> HIDE DEF U, first
  <2>10. last \in U /\ at + 1 <= last
    BY <1>1, <2>9, GreatestNumber
  <2> HIDE DEF last, L, a
  <2>11. last \in Nat /\ last <= Len(L) /\ Part(L, d, 0)
    BY <1>1, <2>9, <2>10 DEF L
  <2>12. Part(SubSeq(L, at + 1, last), d, 0 + (at + 1) - 1)
         /\ Len(SubSeq(L, at + 1, last)) = last + 1 - (at + 1)
    <3>1. at + 1 \in Nat /\ 1 <= at + 1 /\ at + 1 <= last + 1 /\ 0 \in Nat
      BY <1>1, <2>3, <2>10, <2>11
    <3>2. QED
      BY <2>11, <3>1, PartSub
  <2>13. 0 + (at + 1) - 1 = at /\ Len(a) # 0
    BY <1>1, <2>1, <2>6, <2>7, <2>10, <2>11, <2>12
  <2>14. Part(a, d, at) /\ a # <<>>
    BY <2>6, <2>7, <2>12, <2>13
  <2>15. QED
    BY <2>14 DEF a
<1>6. CASE ~ (from < rep.acc_size)
  <2>1. a = <<>>
    BY <1>6 DEF BufferReply
  <2>2. at = Count(d)
    <3>1. SUFFICES ASSUME at # Count(d) PROVE FALSE
      OBVIOUS
    <3>2. Count(d) \in 0..Count(d) /\ at < Count(d)
      BY <1>1, <3>1
    <3>3. E(at) < E(Count(d))
      BY <1>2, <3>2
    <3>4. QED
      BY <1>4, <1>6, <3>3
  <2>3. QED
    BY <2>1, <2>2, EmptyPart
<1>7. QED
  BY <1>5, <1>6

-----------------------------------------------------------------------------
(* Types.                                                                  *)

Arrays ==
    /\ taken = [r \in Readers |-> taken[r]] /\ files = [r \in Readers |-> files[r]]
    /\ reply = [r \in Readers |-> reply[r]] /\ answer = [r \in Readers |-> answer[r]]
    /\ rewinds = [r \in Readers |-> rewinds[r]]

TypeInv == Arrays /\ TypeOK

LEMMA TypesInit == Init => TypeInv
BY DirStreamAssumption DEF Init, TypeInv, Arrays, TypeOK

LEMMA TypesStep == TypeInv /\ [Next]_vars => TypeInv'
<1> SUFFICES ASSUME TypeInv, [Next]_vars PROVE TypeInv'
  OBVIOUS
<1> USE DEF TypeInv, Arrays, TypeOK
<1>0. MaxRewinds \in Nat
  BY DirStreamAssumption
<1>1. CASE Change
  BY <1>1 DEF Change
<1>2. CASE UNCHANGED vars
  BY <1>2 DEF vars
<1>3. ASSUME NEW r \in Readers, Open(r) PROVE TypeInv'
  BY <1>3 DEF Open
<1>4. ASSUME NEW r \in Readers, Ask(r) PROVE TypeInv'
  BY <1>4 DEF Ask
<1>5. ASSUME NEW r \in Readers, AnswerError(r) PROVE TypeInv'
  BY <1>5 DEF AnswerError
<1>6. ASSUME NEW r \in Readers, ScanFiles(r) PROVE TypeInv'
  BY <1>6 DEF ScanFiles
<1>7. ASSUME NEW r \in Readers, AddFile(r) PROVE TypeInv'
  BY <1>7 DEF AddFile
<1>8. ASSUME NEW r \in Readers, Answer(r) PROVE TypeInv'
  BY <1>8 DEF Answer
<1>9. ASSUME NEW r \in Readers, Take(r) PROVE TypeInv'
  BY <1>9 DEF Take
<1>10. ASSUME NEW r \in Readers, End(r) PROVE TypeInv'
  BY <1>10 DEF End
<1>11. ASSUME NEW r \in Readers, Rewind(r) PROVE TypeInv'
  <2>1. Arrays'
    BY <1>11 DEF Rewind
  <2>2. pc' \in [Readers -> {"closed", "reading", "asked", "filling", "answered", "ended",
                           "failed"}]
    BY <1>11 DEF Rewind
  <2>3. ASSUME NEW q \in Readers
        PROVE  /\ pc'[q] = "closed" => taken'[q] = <<>> /\ rewinds'[q] = 0
               /\ pc'[q] # "answered" => answer'[q] = <<>>
               /\ pc'[q] # "filling" => files'[q] = <<>> /\ reply'[q] = NewReply
    BY <1>11 DEF Rewind
  <2>4. ASSUME NEW q \in Readers PROVE rewinds'[q] \in 0..MaxRewinds
    BY <1>0, <1>11 DEF Rewind
  <2>5. QED
    BY <2>1, <2>2, <2>3, <2>4, <1>11 DEF Rewind
<1>12. ASSUME NEW r \in Readers, Close(r) PROVE TypeInv'
  <2>1. Arrays'
    BY <1>12 DEF Close
  <2>2. pc' \in [Readers -> {"closed", "reading", "asked", "filling", "answered", "ended",
                           "failed"}]
    BY <1>12 DEF Close
  <2>3. ASSUME NEW q \in Readers
        PROVE  /\ pc'[q] = "closed" => taken'[q] = <<>> /\ rewinds'[q] = 0
               /\ pc'[q] # "answered" => answer'[q] = <<>>
               /\ pc'[q] # "filling" => files'[q] = <<>> /\ reply'[q] = NewReply
    BY <1>12 DEF Close
  <2>4. ASSUME NEW q \in Readers PROVE rewinds'[q] \in 0..MaxRewinds
    BY <1>0, <1>12 DEF Close
  <2>5. QED
    BY <2>1, <2>2, <2>3, <2>4, <1>12 DEF Close
<1> HIDE DEF TypeInv
<1>13. QED
  BY <1>1, <1>2, <1>3, <1>4, <1>5, <1>6, <1>7, <1>8, <1>9, <1>10, <1>11, <1>12 DEF Next

\* A reader's layout, its files and its answer exist only while a request of its
\* is worked on, and a closed handle remembers nothing.
THEOREM ListingTypes == Spec => []TypeOK
<1>1. Init => TypeInv
  BY TypesInit
<1>2. TypeInv /\ [Next]_vars => TypeInv'
  BY TypesStep
<1>3. TypeInv => TypeOK
  BY DEF TypeInv
<1>4. QED
  BY <1>1, <1>2, <1>3, PTL DEF Spec

-----------------------------------------------------------------------------
(* Listings.                                                               *)

\* What a caller has taken is the layout's beginning, and what it is offered
\* follows it.
TakenInv(r) ==
    /\ Part(taken[r], dir, 0)
    /\ Part(answer[r], dir, Len(taken[r]))

\* Nothing is offered, and the end is reported, only behind the last entry.
EndInv(r) ==
    (pc[r] = "answered" /\ answer[r] = <<>>) \/ pc[r] = "ended" =>
        Len(taken[r]) = Count(dir)

\* How many files the loop has passed.
Passed(r) == Len(dir) - Len(files[r])

\* The Reply is laid out like the directory, as far as the loop has come, and
\* remembers where to begin.
LayoutInv(r) ==
    pc[r] = "filling" =>
        /\ files[r] \in Seq(FileNames) /\ Len(files[r]) <= Len(dir)
        /\ \A i \in 1..Len(files[r]) : files[r][i] = dir[Passed(r) + i]
        /\ LaidOut(reply[r], dir, Passed(r))
        /\ reply[r].entries # <<>> => reply[r].offset = Cookie(taken[r])

ReaderInv(r) == TakenInv(r) /\ EndInv(r) /\ LayoutInv(r)

ListingInv == TypeInv /\ \A r \in Readers : ReaderInv(r)

LEMMA ListingInit == Init => ListingInv
<1> SUFFICES ASSUME Init PROVE ListingInv
  OBVIOUS
<1>1. TypeInv
  BY TypesInit
<1>2. dir \in Directories
  BY DEF Init
<1>3. 0 \in 0..Count(dir) /\ Len(<<>>) = 0
  BY <1>2, ListableType
<1>4. Part(<<>>, dir, 0)
  BY <1>2, <1>3, EmptyPart
<1>5. ASSUME NEW r \in Readers PROVE ReaderInv(r)
  <2>1. pc[r] = "closed" /\ taken[r] = <<>> /\ answer[r] = <<>>
    BY DEF Init
  <2>2. TakenInv(r)
    BY <1>3, <1>4, <2>1 DEF TakenInv
  <2>3. EndInv(r) /\ LayoutInv(r)
    BY <2>1 DEF EndInv, LayoutInv
  <2>4. QED
    BY <2>2, <2>3 DEF ReaderInv
<1>6. QED
  BY <1>1, <1>5 DEF ListingInv

\* A reader whose own state and whose directory stay as they are.
LEMMA ReaderKept ==
    ASSUME NEW r \in Readers, ReaderInv(r), dir' = dir, pc'[r] = pc[r],
           taken'[r] = taken[r], files'[r] = files[r], reply'[r] = reply[r],
           answer'[r] = answer[r]
    PROVE  ReaderInv(r)'
<1>1. Passed(r)' = Passed(r)
  BY DEF Passed
<1>2. TakenInv(r)'
  BY DEF ReaderInv, TakenInv
<1>3. EndInv(r)'
  BY DEF ReaderInv, EndInv
<1>4. LayoutInv(r)'
  BY <1>1 DEF ReaderInv, LayoutInv
<1>5. QED
  BY <1>2, <1>3, <1>4 DEF ReaderInv

\* A step of one reader is a matter of that reader's invariant.
LEMMA OthersKept ==
    ASSUME ListingInv, TypeInv', NEW r \in Readers, ReaderInv(r)', dir' = dir,
           \A q \in Readers \ {r} :
              /\ pc'[q] = pc[q] /\ taken'[q] = taken[q] /\ files'[q] = files[q]
              /\ reply'[q] = reply[q] /\ answer'[q] = answer[q]
    PROVE  ListingInv'
<1>1. ASSUME NEW q \in Readers \ {r} PROVE ReaderInv(q)'
  BY ReaderKept DEF ListingInv
<1>2. QED
  BY <1>1 DEF ListingInv

\* Where a reader only moves on, with nothing offered to it.
LEMMA OnlyMoves ==
    ASSUME NEW r \in Readers, ReaderInv(r), dir' = dir, taken'[r] = taken[r],
           answer'[r] = answer[r], pc'[r] \in {"reading", "asked", "failed"}
    PROVE  ReaderInv(r)'
BY DEF ReaderInv, TakenInv, EndInv, LayoutInv

LEMMA ScanFilesStep ==
    ASSUME ListingInv, NEW r \in Readers, ScanFiles(r) PROVE ReaderInv(r)'
<1>1. /\ dir' = dir /\ files'[r] = dir /\ pc'[r] = "filling" /\ taken'[r] = taken[r]
      /\ reply'[r] = reply[r] /\ answer'[r] = answer[r] /\ pc[r] = "asked"
      /\ dir \in Directories
  BY DEF ListingInv, TypeInv, Arrays, TypeOK, ScanFiles
<1>2. reply[r] = NewReply
  BY <1>1 DEF ListingInv, TypeInv, TypeOK
<1>3. reply[r].entries = <<>> /\ reply[r].acc_size = 0
  BY <1>2 DEF NewReply
<1>4. TakenInv(r)'
  BY <1>1 DEF ListingInv, ReaderInv, TakenInv
<1>5. EndInv(r)'
  BY <1>1 DEF EndInv
<1>6. LayoutInv(r)'
  <2>1. dir \in Seq(FileNames) /\ Len(dir) \in Nat
    BY <1>1, DirStreamAssumption DEF FileNames
  <2>2. Passed(r)' = 0
    BY <1>1, <2>1 DEF Passed
  <2>3. 0 \in 0..Count(dir) /\ Len(<<>>) = 0
    BY <1>1, ListableType
  <2>4. Part(<<>>, dir, 0)
    BY <1>1, <2>3, EmptyPart
  <2>5. ListableAmong(dir)[0] = <<>> /\ Ends(dir)[0] = 0
    BY <1>1, AmongDef, EndsDef
  <2>6. \A i \in 1..Len(dir) : dir[i] = dir[0 + i]
    BY <2>1
  <2>7. QED
    BY <1>1, <1>3, <2>1, <2>2, <2>3, <2>4, <2>5, <2>6 DEF LayoutInv, LaidOut
<1>7. QED
  BY <1>4, <1>5, <1>6 DEF ReaderInv

LEMMA AddFileStep ==
    ASSUME SoundListing, ListingInv, NEW r \in Readers, AddFile(r) PROVE ReaderInv(r)'
<1> DEFINE k == Passed(r)
           f == files[r]
           rep == reply[r]
<1>1. /\ dir' = dir /\ pc[r] = "filling" /\ pc'[r] = "filling" /\ taken'[r] = taken[r]
      /\ answer'[r] = answer[r] /\ f # <<>> /\ files'[r] = Tail(f)
      /\ reply'[r] = IF Head(f) \in Broken THEN rep
                     ELSE AddDirEntry(rep, Head(f), LayoutSize(Len(dir)), Cookie(taken[r]))
      /\ dir \in Directories
  BY DEF ListingInv, TypeInv, Arrays, TypeOK, AddFile
<1>2. /\ f \in Seq(FileNames) /\ Len(f) <= Len(dir)
      /\ \A i \in 1..Len(f) : f[i] = dir[k + i]
      /\ LaidOut(rep, dir, k)
      /\ rep.entries # <<>> => rep.offset = Cookie(taken[r])
  BY <1>1 DEF ListingInv, ReaderInv, LayoutInv
<1>3. Len(dir) \in Nat /\ Len(f) \in 1..Len(dir)
  <2>1. Len(dir) \in Nat
    BY <1>1, ListableType
  <2>2. Len(f) \in Nat /\ Len(f) # 0
    BY <1>1, <1>2, EmptySeq
  <2>3. QED
    BY <1>2, <2>1, <2>2
<1>4. k \in Nat /\ k + 1 <= Len(dir) /\ k = Len(dir) - Len(f)
  BY <1>3 DEF Passed
<1>5. /\ Tail(f) \in Seq(FileNames) /\ Len(Tail(f)) = Len(f) - 1
      /\ \A i \in 1..Len(Tail(f)) : Tail(f)[i] = f[i + 1]
  BY <1>1, <1>2, HeadTailProperties
<1>6. Passed(r)' = k + 1
  <2>1. Passed(r)' = Len(dir) - Len(Tail(f))
    BY <1>1 DEF Passed
  <2> HIDE DEF k, f
  <2>2. QED
    BY <1>3, <1>4, <1>5, <2>1
<1>7. Head(f) = dir[k + 1]
  BY <1>1, <1>2, <1>3
<1> HIDE DEF k, f, rep
<1>8. TakenInv(r)'
  BY <1>1 DEF ListingInv, ReaderInv, TakenInv
<1>9. EndInv(r)'
  BY <1>1 DEF EndInv
<1>10. /\ files'[r] \in Seq(FileNames) /\ Len(files'[r]) <= Len(dir)
       /\ \A i \in 1..Len(files'[r]) : files'[r][i] = dir[(k + 1) + i]
  <2>1. ASSUME NEW i \in 1..Len(Tail(f)) PROVE Tail(f)[i] = dir[(k + 1) + i]
    <3>1. i + 1 \in 1..Len(f) /\ k + (i + 1) = (k + 1) + i
      BY <1>3, <1>4, <1>5
    <3>2. QED
      BY <1>2, <1>5, <3>1
  <2>2. QED
    BY <1>1, <1>3, <1>5, <2>1
<1>11. /\ LaidOut(reply'[r], dir, k + 1)
       /\ reply'[r].entries # <<>> => reply'[r].offset = Cookie(taken[r])
  <2>1. CASE Head(f) \in Broken
    <3>1. k + 1 \in 1..Len(dir) /\ (k + 1) - 1 = k
      BY <1>3, <1>4
    <3>2. ListableAmong(dir)[k + 1] = ListableAmong(dir)[k]
      BY <1>1, <1>7, <2>1, <3>1, AmongDef
    <3>3. QED
      BY <1>1, <1>2, <2>1, <3>2 DEF LaidOut
  <2>2. CASE Head(f) \notin Broken
    <3> DEFINE new == AddDirEntry(rep, dir[k + 1], LayoutSize(Len(dir)), Cookie(taken[r]))
    <3>1. reply'[r] = new /\ dir[k + 1] \notin Broken
      BY <1>1, <1>7, <2>2
    <3>2. LaidOut(new, dir, k + 1) /\ new.offset = Cookie(taken[r])
      <4>1. dir \in Directories /\ LaidOut(rep, dir, k) /\ k \in Nat /\ k + 1 <= Len(dir)
        BY <1>1, <1>2, <1>4
      <4>2. QED
        BY <3>1, <4>1, LayoutGrows, SMTT(30)
    <3>3. QED
      BY <3>1, <3>2
  <2>3. QED
    BY <2>1, <2>2
<1>12. LayoutInv(r)'
  BY <1>1, <1>6, <1>10, <1>11 DEF LayoutInv
<1>13. QED
  BY <1>8, <1>9, <1>12 DEF ReaderInv

LEMMA AnswerStep ==
    ASSUME SoundListing, ListingInv, NEW r \in Readers, Answer(r) PROVE ReaderInv(r)'
<1> DEFINE rep == reply[r]
           a == BufferReply(rep, RequestedSize)
           n == Len(taken[r])
<1>1. /\ dir' = dir /\ pc[r] = "filling" /\ pc'[r] = "answered" /\ taken'[r] = taken[r]
      /\ answer'[r] = a /\ files[r] = <<>> /\ dir \in Directories
  BY DEF ListingInv, TypeInv, Arrays, TypeOK, Answer
<1>2. Len(dir) \in Nat /\ Passed(r) = Len(dir)
  <2>1. Len(dir) \in Nat /\ Len(files[r]) = 0
    BY <1>1, ListableType
  <2>2. QED
    BY <2>1 DEF Passed
<1>3. /\ Part(rep.entries, dir, 0) /\ Len(rep.entries) = Count(dir)
      /\ rep.acc_size = Ends(dir)[Count(dir)]
      /\ rep.entries # <<>> => rep.offset = Cookie(taken[r])
  BY <1>1, <1>2 DEF ListingInv, ReaderInv, LayoutInv, LaidOut, Count, Listable
<1>4. Count(dir) # 0
  <2>1. Listable(dir) # <<>> /\ Listable(dir) \in Seq(FileNames)
    BY <1>1, ListableType DEF SoundListing
  <2>2. QED
    BY <2>1, EmptySeq DEF Count
<1>5. rep.entries # <<>>
  <2>1. rep.entries \in Seq(Entries)
    BY <1>3 DEF Part
  <2>2. QED
    BY <1>3, <1>4, <2>1, EmptySeq
<1>6. Part(taken[r], dir, 0)
  BY DEF ListingInv, ReaderInv, TakenInv
<1>7. Cookie(taken[r]) = Ends(dir)[n] /\ n \in 0..Count(dir)
  BY <1>1, <1>6, CookieOf
<1> HIDE DEF rep, n
<1>8. Part(a, dir, n) /\ (a = <<>> => n = Count(dir))
  <2>1. rep.offset = Ends(dir)[n]
    BY <1>3, <1>5, <1>7
  <2>2. QED
    BY <1>1, <1>3, <1>5, <1>7, <2>1, AnswerFollows
<1> HIDE DEF a
<1>9. TakenInv(r)'
  BY <1>1, <1>6, <1>8 DEF TakenInv, n
<1>10. EndInv(r)'
  BY <1>1, <1>8 DEF EndInv, n
<1>11. LayoutInv(r)'
  BY <1>1 DEF LayoutInv
<1>12. QED
  BY <1>9, <1>10, <1>11 DEF ReaderInv

LEMMA TakeStep ==
    ASSUME ListingInv, NEW r \in Readers, Take(r) PROVE ReaderInv(r)'
<1> DEFINE s == taken[r]
           a == answer[r]
<1>1. /\ dir' = dir /\ pc'[r] = "reading" /\ answer'[r] = <<>> /\ dir \in Directories
      /\ \E m \in 1..Len(a) : taken'[r] = s \o SubSeq(a, 1, m)
  BY DEF ListingInv, TypeInv, Arrays, TypeOK, Take
<1>2. PICK m \in 1..Len(a) : taken'[r] = s \o SubSeq(a, 1, m)
  BY <1>1
<1>3. Part(s, dir, 0) /\ Part(a, dir, Len(s))
  BY DEF ListingInv, ReaderInv, TakenInv
<1> HIDE DEF s, a
<1>4. Len(a) \in Nat /\ Len(s) \in Nat
  BY <1>3 DEF Part
<1>5. Part(SubSeq(a, 1, m), dir, Len(s))
  <2>1. m \in Nat /\ 1 <= m + 1 /\ m <= Len(a) /\ 1 \in Nat /\ 1 <= 1
    BY <1>4
  <2>2. Part(SubSeq(a, 1, m), dir, Len(s) + 1 - 1)
    BY <1>1, <1>3, <1>4, <2>1, PartSub
  <2>3. Len(s) + 1 - 1 = Len(s)
    BY <1>4
  <2>4. QED
    BY <2>2, <2>3
<1>6. Part(taken'[r], dir, 0)
  BY <1>1, <1>2, <1>3, <1>5, PartConcat
<1>7. Part(<<>>, dir, Len(taken'[r]))
  <2>1. Len(taken'[r]) \in 0..Count(dir)
    BY <1>1, <1>6, CookieOf
  <2>2. QED
    BY <1>1, <2>1, EmptyPart
<1>8. TakenInv(r)'
  BY <1>1, <1>6, <1>7 DEF TakenInv
<1>9. EndInv(r)' /\ LayoutInv(r)'
  BY <1>1 DEF EndInv, LayoutInv
<1>10. QED
  BY <1>8, <1>9 DEF ReaderInv

LEMMA EndStep ==
    ASSUME ListingInv, NEW r \in Readers, End(r) PROVE ReaderInv(r)'
<1>1. /\ dir' = dir /\ pc[r] = "answered" /\ pc'[r] = "ended" /\ answer[r] = <<>>
      /\ answer'[r] = answer[r] /\ taken'[r] = taken[r]
  BY DEF ListingInv, TypeInv, Arrays, TypeOK, End
<1>2. TakenInv(r)'
  BY <1>1 DEF ListingInv, ReaderInv, TakenInv
<1>3. EndInv(r)' /\ LayoutInv(r)'
  BY <1>1 DEF ListingInv, ReaderInv, EndInv, LayoutInv
<1>4. QED
  BY <1>2, <1>3 DEF ReaderInv

LEMMA RewindStep ==
    ASSUME ListingInv, NEW r \in Readers, Rewind(r) PROVE ReaderInv(r)'
<1> DEFINE s == taken[r]
<1>1. /\ dir' = dir /\ pc'[r] = "reading" /\ pc[r] \in {"reading", "ended"}
      /\ answer'[r] = answer[r] /\ dir \in Directories
      /\ \E m \in 0..(Len(s) - 1) : taken'[r] = SubSeq(s, 1, m)
  BY DEF ListingInv, TypeInv, Arrays, TypeOK, Rewind
<1>2. PICK m \in 0..(Len(s) - 1) : taken'[r] = SubSeq(s, 1, m)
  BY <1>1
<1>3. answer[r] = <<>>
  BY <1>1 DEF ListingInv, TypeInv, TypeOK
<1>4. Part(s, dir, 0)
  BY DEF ListingInv, ReaderInv, TakenInv
<1> HIDE DEF s
<1>5. Part(taken'[r], dir, 0)
  <2>1. Len(s) \in Nat
    BY <1>4 DEF Part
  <2>2. m \in Nat /\ 1 <= m + 1 /\ m <= Len(s) /\ 1 \in Nat /\ 1 <= 1 /\ 0 \in Nat
    BY <2>1
  <2>3. Part(SubSeq(s, 1, m), dir, 0 + 1 - 1)
    BY <1>1, <1>4, <2>2, PartSub
  <2>4. 0 + 1 - 1 = 0
    OBVIOUS
  <2>5. QED
    BY <1>2, <2>3, <2>4
<1>6. Part(<<>>, dir, Len(taken'[r]))
  <2>1. Len(taken'[r]) \in 0..Count(dir)
    BY <1>1, <1>5, CookieOf
  <2>2. QED
    BY <1>1, <2>1, EmptyPart
<1>7. TakenInv(r)'
  BY <1>1, <1>3, <1>5, <1>6 DEF TakenInv
<1>8. EndInv(r)' /\ LayoutInv(r)'
  BY <1>1 DEF EndInv, LayoutInv
<1>9. QED
  BY <1>7, <1>8 DEF ReaderInv

\* A handle that is closed shows nothing, whatever the directory holds.
LEMMA ClosedReader ==
    ASSUME TypeInv', NEW r \in Readers, pc'[r] = "closed"
    PROVE  ReaderInv(r)'
<1>1. taken'[r] = <<>> /\ answer'[r] = <<>> /\ dir' \in Directories
  BY DEF TypeInv, TypeOK
<1>2. 0 \in 0..Count(dir') /\ Len(<<>>) = 0
  BY <1>1, ListableType
<1>3. Part(<<>>, dir', 0)
  BY <1>1, <1>2, EmptyPart
<1>4. TakenInv(r)'
  BY <1>1, <1>2, <1>3 DEF TakenInv
<1>5. EndInv(r)' /\ LayoutInv(r)'
  BY DEF EndInv, LayoutInv
<1>6. QED
  BY <1>4, <1>5 DEF ReaderInv

LEMMA ListingStep ==
    ASSUME SoundListing, ListingInv, [Next]_vars PROVE ListingInv'
<1>1. TypeInv /\ TypeInv'
  BY TypesStep DEF ListingInv
<1>2. Arrays /\ pc \in [Readers -> {"closed", "reading", "asked", "filling", "answered",
                                    "ended", "failed"}]
  BY <1>1 DEF TypeInv, TypeOK
<1>3. CASE Change
  <2>1. ASSUME NEW r \in Readers PROVE ReaderInv(r)'
    <3>1. pc'[r] = "closed"
      BY <1>3 DEF Change
    <3>2. QED
      BY <1>1, <3>1, ClosedReader
  <2>2. QED
    BY <1>1, <2>1 DEF ListingInv
<1>4. CASE UNCHANGED vars
  <2>1. ASSUME NEW r \in Readers PROVE ReaderInv(r)'
    <3>1. ReaderInv(r)
      BY DEF ListingInv
    <3>2. QED
      BY <1>4, <3>1, ReaderKept DEF vars
  <2>2. QED
    BY <1>1, <2>1 DEF ListingInv
<1>5. ASSUME NEW r \in Readers, Open(r) \/ Ask(r) \/ AnswerError(r) PROVE ListingInv'
  <2>1. /\ dir' = dir /\ taken' = taken /\ answer' = answer /\ files' = files
        /\ reply' = reply /\ pc'[r] \in {"reading", "asked", "failed"}
        /\ \A q \in Readers \ {r} : pc'[q] = pc[q]
    BY <1>2, <1>5 DEF Open, Ask, AnswerError
  <2>2. ReaderInv(r)'
    BY <2>1, OnlyMoves DEF ListingInv
  <2>3. QED
    BY <1>1, <2>1, <2>2, OthersKept
<1>6. ASSUME NEW r \in Readers, ScanFiles(r) PROVE ListingInv'
  <2>1. ReaderInv(r)'
    BY <1>6, ScanFilesStep
  <2>2. QED
    BY <1>1, <1>2, <1>6, <2>1, OthersKept DEF ScanFiles, Arrays
<1>7. ASSUME NEW r \in Readers, AddFile(r) PROVE ListingInv'
  <2>1. ReaderInv(r)'
    BY <1>7, AddFileStep
  <2>2. QED
    BY <1>1, <1>2, <1>7, <2>1, OthersKept DEF AddFile, Arrays
<1>8. ASSUME NEW r \in Readers, Answer(r) PROVE ListingInv'
  <2>1. ReaderInv(r)'
    BY <1>8, AnswerStep
  <2>2. QED
    BY <1>1, <1>2, <1>8, <2>1, OthersKept DEF Answer, Arrays
<1>9. ASSUME NEW r \in Readers, Take(r) PROVE ListingInv'
  <2>1. ReaderInv(r)'
    BY <1>9, TakeStep
  <2>2. QED
    BY <1>1, <1>2, <1>9, <2>1, OthersKept DEF Take, Arrays
<1>10. ASSUME NEW r \in Readers, End(r) PROVE ListingInv'
  <2>1. ReaderInv(r)'
    BY <1>10, EndStep
  <2>2. QED
    BY <1>1, <1>2, <1>10, <2>1, OthersKept DEF End, Arrays
<1>11. ASSUME NEW r \in Readers, Rewind(r) PROVE ListingInv'
  <2>1. ReaderInv(r)'
    BY <1>11, RewindStep
  <2>2. QED
    BY <1>1, <1>2, <1>11, <2>1, OthersKept DEF Rewind, Arrays
<1>12. ASSUME NEW r \in Readers, Close(r) PROVE ListingInv'
  <2>1. pc'[r] = "closed"
    BY <1>2, <1>12 DEF Close
  <2>2. ReaderInv(r)'
    BY <1>1, <2>1, ClosedReader
  <2>3. QED
    BY <1>1, <1>2, <1>12, <2>2, OthersKept DEF Close, Arrays
<1>13. QED
  BY <1>3, <1>4, <1>5, <1>6, <1>7, <1>8, <1>9, <1>10, <1>11, <1>12 DEF Next

LEMMA ListingHolds == ASSUME SoundListing PROVE Spec => []ListingInv
<1>1. Init => ListingInv
  BY ListingInit
<1>2. ListingInv /\ [Next]_vars => ListingInv'
  BY ListingStep
<1>3. QED
  BY <1>1, <1>2, PTL DEF Spec

-----------------------------------------------------------------------------
(* What the properties say follows.                                        *)

LEMMA NamesOfPart ==
    ASSUME NEW d \in Directories, NEW s, Part(s, d, 0)
    PROVE  /\ IsPrefix(Names(s), Listable(d))
           /\ Len(s) = Count(d) => Names(s) = Listable(d)
<1>1. /\ s \in Seq(Entries) /\ Len(s) \in Nat /\ DOMAIN s = 1..Len(s)
      /\ Len(s) <= Count(d) /\ \A i \in 1..Len(s) : s[i] = Entry(d, 0 + i)
  BY ListableType DEF Part
<1>2. /\ Count(d) \in Nat /\ Listable(d) \in Seq(FileNames)
      /\ Count(d) = Len(Listable(d)) /\ DOMAIN Listable(d) = 1..Count(d)
  BY ListableType DEF Count
<1>3. \A i \in 1..Len(s) : s[i].name = Listable(d)[i]
  <2>1. SUFFICES ASSUME NEW i \in 1..Len(s) PROVE s[i].name = Listable(d)[i]
    OBVIOUS
  <2>2. i \in 1..Count(d) /\ 0 + i = i
    BY <1>1, <1>2
  <2>3. QED
    BY <1>1, <2>2, EntryType
<1> DEFINE t == Names(s)
           L == Listable(d)
<1>4. t = [i \in 1..Len(s) |-> L[i]]
  BY <1>1, <1>3 DEF Names
<1>5. t \in Seq(FileNames) /\ Len(t) = Len(s) /\ \A i \in 1..Len(s) : t[i] = L[i]
  <2>1. \A i \in 1..Len(s) : L[i] \in FileNames
    BY <1>1, <1>2, ListableType
  <2>2. QED
    BY <1>1, <1>4, <2>1
<1> HIDE DEF t, L
<1>6. IsPrefix(t, L)
  <2>1. SubSeq(t, 1, Len(t)) = SubSeq(L, 1, Len(t))
    BY <1>1, <1>2, <1>5 DEF L
  <2>2. QED
    BY <1>1, <1>2, <1>5, <2>1 DEF IsPrefix, L
<1>7. ASSUME Len(s) = Count(d) PROVE t = L
  BY <1>2, <1>4, <1>7 DEF L
<1>8. QED
  BY <1>6, <1>7 DEF t, L

\* Callers see the directory's files in order, none twice and none missing in
\* between, whatever they take of each answer and wherever they go back to.
THEOREM ListedInOrder == ASSUME SoundListing PROVE Spec => []ListsInOrder
<1>1. ListingInv => ListsInOrder
  BY NamesOfPart DEF ListingInv, TypeInv, TypeOK, ReaderInv, TakenInv, ListsInOrder
<1>2. QED
  BY <1>1, ListingHolds, PTL

\* The kernel reads only what addDirEntry has written: entries fit where the layout
\* puts them, and answers begin where an entry does.
THEOREM OnlyEntries == ASSUME SoundListing PROVE Spec => []AnswersAreEntries
<1>1. ListingInv => AnswersAreEntries
  <2>1. SUFFICES ASSUME ListingInv, NEW r \in Readers, NEW i \in DOMAIN answer[r]
                 PROVE  answer[r][i].name # Hole
    BY DEF AnswersAreEntries
  <2>2. answer[r] \in Seq(Entries)
    <3>1. Part(answer[r], dir, Len(taken[r]))
      BY <2>1 DEF ListingInv, ReaderInv, TakenInv
    <3>2. QED
      BY <3>1 DEF Part
  <2>3. answer[r][i] \in Entries
    BY <2>2
  <2>4. QED
    BY <2>3, DirStreamAssumption DEF Entries, FileNames
<1>2. QED
  BY <1>1, ListingHolds, PTL

\* A caller that is told the end has seen every file that can be listed.
THEOREM CompleteAtEnd == ASSUME SoundListing PROVE Spec => []EndIsComplete
<1>1. ListingInv => EndIsComplete
  <2>1. SUFFICES ASSUME ListingInv, NEW r \in Readers, pc[r] = "ended"
                 PROVE  Names(taken[r]) = Listable(dir)
    BY DEF EndIsComplete
  <2>2. Part(taken[r], dir, 0) /\ Len(taken[r]) = Count(dir) /\ dir \in Directories
    BY <2>1 DEF ListingInv, TypeInv, TypeOK, ReaderInv, TakenInv, EndInv
  <2>3. QED
    BY <2>2, NamesOfPart
<1>2. QED
  BY <1>1, ListingHolds, PTL
=============================================================================
