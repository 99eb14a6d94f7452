---------------------------- MODULE QueueLemmas -----------------------------
(***************************************************************************)
(* What the models' queues of updates and events hold after an operation   *)
(* on them.  The proofs rarely depend on a queue's order, and then speak   *)
(* of its elements.                                                        *)
(***************************************************************************)
EXTENDS Queues, Integers, SequencesExt, SequenceTheorems, FiniteSetTheorems, TLAPS

\* What a sequence holds, in whatever order.
Elements(s) == {s[n] : n \in DOMAIN s}

\* A sequence's elements are those at its positions.
LEMMA ElementsOfSeq ==
    ASSUME NEW S, NEW s \in Seq(S)
    PROVE  /\ \A x \in Elements(s) : \E n \in 1 .. Len(s) : x = s[n]
           /\ \A n \in 1 .. Len(s) : s[n] \in Elements(s)
BY DEF Elements

LEMMA ElementsType ==
    ASSUME NEW S, NEW s \in Seq(S)
    PROVE  Elements(s) \subseteq S
BY DEF Elements

\* Appending adds one element.
LEMMA ElementsOfAppend ==
    ASSUME NEW S, NEW s \in Seq(S), NEW x \in S
    PROVE  /\ Append(s, x) \in Seq(S)
           /\ Elements(Append(s, x)) = Elements(s) \cup {x}
<1>1. /\ Append(s, x) \in Seq(S)
      /\ Len(Append(s, x)) = Len(s)+1
      /\ \A i \in 1.. Len(s) : Append(s, x)[i] = s[i]
      /\ Append(s, x)[Len(s)+1] = x
      /\ Len(s) \in Nat
  BY AppendProperties, LenProperties
<1>2. ASSUME NEW y \in Elements(Append(s, x)) PROVE y \in Elements(s) \cup {x}
  <2>1. PICK n \in 1 .. Len(s) + 1 : y = Append(s, x)[n]
    BY <1>1, <1>2, ElementsOfSeq
  <2>2. CASE n = Len(s) + 1
    BY <1>1, <2>1, <2>2
  <2>3. CASE n \in 1 .. Len(s)
    BY <1>1, <2>1, <2>3, ElementsOfSeq
  <2> QED
    BY <1>1, <2>2, <2>3
<1>3. ASSUME NEW y \in Elements(s) PROVE y \in Elements(Append(s, x))
  <2>1. PICK n \in 1 .. Len(s) : y = s[n]
    BY <1>3, ElementsOfSeq
  <2>2. n \in 1 .. Len(Append(s, x)) /\ y = Append(s, x)[n]
    BY <1>1, <2>1
  <2> QED
    BY <1>1, <2>2, ElementsOfSeq
<1>4. x \in Elements(Append(s, x))
  <2>1. Len(s) + 1 \in 1 .. Len(Append(s, x))
    BY <1>1
  <2> QED
    BY <1>1, <2>1, ElementsOfSeq
<1> QED
  BY <1>1, <1>2, <1>3, <1>4

\* A concatenation holds the elements of both.
LEMMA ElementsOfConcat ==
    ASSUME NEW S, NEW s \in Seq(S), NEW t \in Seq(S)
    PROVE  /\ s \o t \in Seq(S)
           /\ Elements(s \o t) = Elements(s) \cup Elements(t)
<1>1. s \o t \in Seq(S) /\ Len(s \o t) = Len(s) + Len(t)
  BY ConcatProperties
<1>2. ASSUME NEW x \in Elements(s \o t) PROVE x \in Elements(s) \cup Elements(t)
  <2>1. PICK n \in 1 .. Len(s) + Len(t) : x = (s \o t)[n]
    BY <1>1, <1>2, ElementsOfSeq
  <2>2. CASE n <= Len(s)
    BY <2>1, <2>2, ConcatProperties, ElementsOfSeq, LenProperties
  <2>3. CASE n > Len(s)
    <3>1. n - Len(s) \in 1 .. Len(t)
      BY <2>3, LenProperties
    <3>2. x = t[n - Len(s)]
      BY <2>1, <2>3, ConcatProperties, LenProperties
    <3> QED
      BY <3>1, <3>2, ElementsOfSeq
  <2> QED
    BY <2>2, <2>3, LenProperties
<1>3. ASSUME NEW x \in Elements(s) PROVE x \in Elements(s \o t)
  <2>1. PICK n \in 1 .. Len(s) : x = s[n]
    BY <1>3, ElementsOfSeq
  <2>2. n \in 1 .. Len(s) + Len(t) /\ (s \o t)[n] = x
    BY <2>1, ConcatProperties, LenProperties
  <2> QED
    BY <1>1, <2>2, ElementsOfSeq
<1>4. ASSUME NEW x \in Elements(t) PROVE x \in Elements(s \o t)
  <2>1. PICK n \in 1 .. Len(t) : x = t[n]
    BY <1>4, ElementsOfSeq
  <2>2. /\ n + Len(s) \in 1 .. Len(s) + Len(t) /\ (n + Len(s)) - Len(s) = n
        /\ ~(n + Len(s) <= Len(s))
    BY <2>1, LenProperties
  <2>3. (s \o t)[n + Len(s)] = x
    BY <2>1, <2>2, ConcatProperties
  <2> QED
    BY <1>1, <2>2, <2>3, ElementsOfSeq
<1> QED
  BY <1>1, <1>2, <1>3, <1>4

\* Taking the head off leaves the others; an equal element may be among them.
LEMMA ElementsOfTail ==
    ASSUME NEW S, NEW s \in Seq(S), s # <<>>
    PROVE  /\ Head(s) \in Elements(s) /\ Tail(s) \in Seq(S)
           /\ Elements(s) = {Head(s)} \cup Elements(Tail(s))
<1>1. Tail(s) \in Seq(S) /\ Len(Tail(s)) = Len(s) - 1 /\ Len(s) \in Nat \ {0}
  BY HeadTailProperties, EmptySeq
<1>2. Head(s) = s[1]
  OBVIOUS
<1>3. Head(s) \in Elements(s)
  BY <1>1, <1>2, ElementsOfSeq
<1>4. ASSUME NEW x \in Elements(s) PROVE x = Head(s) \/ x \in Elements(Tail(s))
  <2>1. PICK n \in 1 .. Len(s) : x = s[n]
    BY <1>4, ElementsOfSeq
  <2>2. CASE n # 1
    <3>1. n - 1 \in 1 .. Len(Tail(s)) /\ (n - 1) + 1 = n
      BY <1>1, <2>1, <2>2
    <3>2. Tail(s)[n - 1] = x
      BY <2>1, <3>1, HeadTailProperties
    <3> QED
      BY <1>1, <3>1, <3>2, ElementsOfSeq
  <2> QED
    BY <1>2, <2>1, <2>2
<1>5. ASSUME NEW x \in Elements(Tail(s)) PROVE x \in Elements(s)
  <2>1. PICK n \in 1 .. Len(Tail(s)) : x = Tail(s)[n]
    BY <1>1, <1>5, ElementsOfSeq
  <2>2. x = s[n + 1] /\ n + 1 \in 1 .. Len(s)
    BY <1>1, <2>1, HeadTailProperties
  <2> QED
    BY <2>2, ElementsOfSeq
<1> QED
  BY <1>1, <1>3, <1>4, <1>5

\* The positions in a tail: each is one less than it was, and the head's is gone.
LEMMA PositionsInTail ==
    ASSUME NEW S, NEW s \in Seq(S), s # <<>>
    PROVE  /\ \A n \in DOMAIN s : n \in Nat
           /\ \A n \in DOMAIN Tail(s) : n + 1 \in DOMAIN s /\ Tail(s)[n] = s[n + 1]
           /\ \A n \in DOMAIN s : n # 1 => n - 1 \in DOMAIN Tail(s) /\ Tail(s)[n - 1] = s[n]
           /\ 1 \in DOMAIN s /\ s[1] = Head(s)
           /\ \A n \in DOMAIN s : n >= 1
<1>1. Len(s) \in Nat \ {0} /\ DOMAIN s = 1 .. Len(s)
  OBVIOUS
<1>2. Len(Tail(s)) = Len(s) - 1 /\ DOMAIN Tail(s) = 1 .. Len(s) - 1
  BY <1>1
<1>3. \A n \in 1 .. Len(s) - 1 : Tail(s)[n] = s[n + 1]
  BY <1>1
<1>4. Head(s) = s[1]
  OBVIOUS
<1>5. ASSUME NEW n \in DOMAIN s, n # 1 PROVE n - 1 \in DOMAIN Tail(s) /\ Tail(s)[n - 1] = s[n]
  <2>1. n - 1 \in 1 .. Len(s) - 1 /\ (n - 1) + 1 = n
    BY <1>1, <1>5
  <2> QED
    BY <1>2, <1>3, <2>1
<1>6. \A n \in DOMAIN Tail(s) : n + 1 \in DOMAIN s /\ Tail(s)[n] = s[n + 1]
  BY <1>1, <1>2, <1>3
<1> QED
  BY <1>1, <1>4, <1>5, <1>6

\* The positions in a concatenation: the first ones are kept, the others hold elements
\* of what was added.
LEMMA PositionsInConcat ==
    ASSUME NEW S, NEW s \in Seq(S), NEW t \in Seq(S)
    PROVE  /\ \A n \in DOMAIN s : n \in DOMAIN (s \o t) /\ (s \o t)[n] = s[n]
           /\ \A n \in DOMAIN (s \o t) \ DOMAIN s :
                 n > Len(s) /\ n - Len(s) \in DOMAIN t /\ (s \o t)[n] = t[n - Len(s)]
           /\ \A k \in DOMAIN t : Len(s) + k \in DOMAIN (s \o t) /\ (s \o t)[Len(s) + k] = t[k]
           /\ DOMAIN (s \o t) \subseteq Nat
<1>1. /\ Len(s) \in Nat /\ Len(t) \in Nat /\ Len(s \o t) = Len(s) + Len(t)
      /\ DOMAIN s = 1 .. Len(s) /\ DOMAIN t = 1 .. Len(t) /\ DOMAIN (s \o t) = 1 .. Len(s) + Len(t)
  OBVIOUS
<1>2. \A n \in 1 .. Len(s) : (s \o t)[n] = s[n]
  BY <1>1
<1>3. ASSUME NEW n \in DOMAIN (s \o t) \ DOMAIN s
      PROVE  n > Len(s) /\ n - Len(s) \in DOMAIN t /\ (s \o t)[n] = t[n - Len(s)]
  BY <1>1
<1>4. ASSUME NEW k \in DOMAIN t
      PROVE  Len(s) + k \in DOMAIN (s \o t) /\ (s \o t)[Len(s) + k] = t[k]
  BY <1>1
<1> QED
  BY <1>1, <1>2, <1>3, <1>4

\* What is left after some elements were among the whole.
LEMMA ElementsOfRest ==
    ASSUME NEW S, NEW s \in Seq(S), NEW n \in 1 .. Len(s)
    PROVE  /\ SubSeq(s, n + 1, Len(s)) \in Seq(S)
           /\ Elements(SubSeq(s, n + 1, Len(s))) \subseteq Elements(s)
<1> DEFINE rest == SubSeq(s, n + 1, Len(s))
<1>1. Len(s) \in Nat /\ n \in Nat /\ \A m \in n + 1 .. Len(s) : s[m] \in S
  BY LenProperties, ElementOfSeq
<1>2. /\ rest \in Seq(S)
      /\ Len(rest) = IF n + 1 <= Len(s) THEN Len(s) - (n + 1) + 1 ELSE 0
      /\ \A k \in 1 .. Len(s) - (n + 1) + 1 : rest[k] = s[(n + 1) + k - 1]
  BY <1>1, SubSeqProperties
<1>3. ASSUME NEW x \in Elements(rest) PROVE x \in Elements(s)
  <2>1. PICK k \in 1 .. Len(rest) : x = rest[k]
    BY <1>2, <1>3, ElementsOfSeq
  <2>2. k \in 1 .. Len(s) - (n + 1) + 1 /\ (n + 1) + k - 1 \in 1 .. Len(s)
    BY <1>1, <1>2, <2>1
  <2> QED
    BY <1>2, <2>1, <2>2, ElementsOfSeq
<1> QED
  BY <1>2, <1>3

\* The sequence that is made of a finite set holds nothing else.
LEMMA ElementsOfSetToSeq ==
    ASSUME NEW S, IsFiniteSet(S)
    PROVE  SetToSeq(S) \in Seq(S) /\ Elements(SetToSeq(S)) \subseteq S
<1>1. Cardinality(S) \in Nat /\ ExistsBijection(1 .. Cardinality(S), S)
  BY FS_CardinalityType
<1>2. PICK f \in [1 .. Cardinality(S) -> S] : IsInjective(f)
  <2>1. PICK f \in Bijection(1 .. Cardinality(S), S) : TRUE
    BY <1>1 DEF ExistsBijection
  <2> QED
    BY <2>1 DEF Bijection, Injection, IsInjective
<1>3. SetToSeq(S) \in [1 .. Cardinality(S) -> S]
  BY <1>2 DEF SetToSeq
<1>4. SetToSeq(S) \in Seq(S)
  BY <1>1, <1>3
<1> QED
  BY <1>4, ElementsOfSeq

\* What is listed once stays so when something new is appended, or another list without it.
LEMMA InjectiveAppend ==
    ASSUME NEW S, NEW s \in Seq(S), NEW x \in S, IsInjective(s), x \notin Elements(s)
    PROVE  IsInjective(Append(s, x))
<1>1. /\ Append(s, x) \in Seq(S) /\ DOMAIN Append(s, x) = 1 .. Len(s) + 1 /\ DOMAIN s = 1 .. Len(s)
      /\ \A i \in 1 .. Len(s) : Append(s, x)[i] = s[i]
      /\ Append(s, x)[Len(s) + 1] = x
      /\ Len(s) \in Nat
  OBVIOUS
<1>2. \A i \in 1 .. Len(s) : s[i] # x
  BY <1>1 DEF Elements
<1> QED
  BY <1>1, <1>2 DEF IsInjective

LEMMA InjectiveConcat ==
    ASSUME NEW S, NEW s \in Seq(S), NEW t \in Seq(S), IsInjective(s), IsInjective(t),
           Elements(s) \cap Elements(t) = {}
    PROVE  IsInjective(s \o t)
<1> DEFINE st == s \o t
<1>1. /\ \A n \in DOMAIN s : n \in DOMAIN st /\ st[n] = s[n]
      /\ \A n \in DOMAIN st \ DOMAIN s : n > Len(s) /\ n - Len(s) \in DOMAIN t /\ st[n] = t[n - Len(s)]
      /\ DOMAIN st \subseteq Nat /\ Len(s) \in Nat
  BY PositionsInConcat, LenProperties
<1>2. \A i \in DOMAIN s, j \in DOMAIN t : s[i] # t[j]
  BY DEF Elements
<1> HIDE DEF st
<1>3. ASSUME NEW i \in DOMAIN st, NEW j \in DOMAIN st, st[i] = st[j] PROVE i = j
  <2>1. CASE i \in DOMAIN s /\ j \in DOMAIN s
    BY <1>1, <1>3, <2>1 DEF IsInjective
  <2>2. CASE i \notin DOMAIN s /\ j \notin DOMAIN s
    <3>1. i - Len(s) = j - Len(s)
      BY <1>1, <1>3, <2>2 DEF IsInjective
    <3> QED
      BY <1>1, <3>1
  <2>3. CASE (i \in DOMAIN s) # (j \in DOMAIN s)
    BY <1>1, <1>2, <1>3, <2>3
  <2> QED
    BY <2>1, <2>2, <2>3
<1> QED
  BY <1>3 DEF IsInjective, st

LEMMA InjectiveTail ==
    ASSUME NEW S, NEW s \in Seq(S), s # <<>>, IsInjective(s)
    PROVE  IsInjective(Tail(s)) /\ Head(s) \notin Elements(Tail(s))
<1>1. /\ \A n \in DOMAIN s : n \in Nat
      /\ \A n \in DOMAIN Tail(s) : n \in Nat /\ n + 1 \in DOMAIN s /\ Tail(s)[n] = s[n + 1] /\ n >= 1
      /\ 1 \in DOMAIN s /\ s[1] = Head(s)
  OBVIOUS
<1>2. \A i, j \in DOMAIN Tail(s) : Tail(s)[i] = Tail(s)[j] => i = j
  <2> SUFFICES ASSUME NEW i \in DOMAIN Tail(s), NEW j \in DOMAIN Tail(s), Tail(s)[i] = Tail(s)[j] PROVE i = j
    OBVIOUS
  <2>1. i + 1 = j + 1
    BY <1>1 DEF IsInjective
  <2> QED
    BY <1>1, <2>1
<1>3. \A i \in DOMAIN Tail(s) : Tail(s)[i] # Head(s)
  <2> SUFFICES ASSUME NEW i \in DOMAIN Tail(s), Tail(s)[i] = Head(s) PROVE FALSE
    OBVIOUS
  <2>1. i + 1 = 1
    BY <1>1 DEF IsInjective
  <2> QED
    BY <1>1, <2>1
<1> QED
  BY <1>2, <1>3 DEF IsInjective, Elements

-----------------------------------------------------------------------------
(* Filters *)

\* f[m] is the position from which Kept(s, S) takes its m-th element.
Positions(f, n, s, S) ==
    /\ f \in [1 .. n -> DOMAIN s] /\ \A m \in 1 .. n : s[f[m]] \in S
    /\ \A m, k \in 1 .. n : f[m] = f[k] => m = k
    /\ \A i \in DOMAIN s : s[i] \in S => \E m \in 1 .. n : f[m] = i
    /\ Kept(s, S) = [m \in 1 .. n |-> s[f[m]]]

\* A filter takes every position of what it keeps once.
LEMMA KeptPositions ==
    ASSUME NEW T, NEW s \in Seq(T), NEW S
    PROVE  \E n \in Nat : \E f : Positions(f, n, s, S)
<1> DEFINE at == {i \in DOMAIN s : s[i] \in S}
           n == Cardinality(at)
           upto(i) == {j \in at : j <= i}
           Nth(m) == CHOOSE i \in at : Cardinality(upto(i)) = m
<1>1. Len(s) \in Nat /\ DOMAIN s = 1 .. Len(s) /\ at \in SUBSET (1 .. Len(s))
  OBVIOUS
<1>2. IsFiniteSet(at) /\ n \in Nat /\ IsFiniteSet(1 .. n) /\ Cardinality(1 .. n) = n
  <2>1. IsFiniteSet(1 .. Len(s))
    BY <1>1, FS_Interval
  <2>2. IsFiniteSet(at)
    BY <1>1, <2>1, FS_Subset
  <2> HIDE DEF at
  <2>3. n \in Nat
    BY <2>2, FS_CardinalityType
  <2> QED
    BY <2>2, <2>3, FS_Interval
<1>3. \A i \in at : i \in Nat
  BY <1>1
<1>4. Kept(s, S) = [m \in 1 .. n |-> s[Nth(m)]]
  BY DEF Kept
<1> HIDE DEF at
<1>5. ASSUME NEW i \in at PROVE Cardinality(upto(i)) \in 1 .. n
  <2>1. IsFiniteSet(upto(i)) /\ Cardinality(upto(i)) <= n
    <3>1. upto(i) \in SUBSET at
      OBVIOUS
    <3> QED
      BY <1>2, <3>1, FS_Subset
  <2>2. Cardinality(upto(i)) \in Nat /\ Cardinality(upto(i)) # 0
    <3>1. i \in upto(i)
      BY <1>3
    <3> QED
      BY <2>1, <3>1, FS_EmptySet, FS_CardinalityType
  <2> QED
    BY <1>2, <2>1, <2>2
<1>6. ASSUME NEW i \in at, NEW k \in at, i < k PROVE Cardinality(upto(i)) < Cardinality(upto(k))
  <2>1. upto(i) \in SUBSET upto(k) /\ k \in upto(k) /\ k \notin upto(i)
    BY <1>3, <1>6
  <2>2. upto(k) \in SUBSET at
    OBVIOUS
  <2>3. IsFiniteSet(upto(k))
    BY <1>2, <2>2, FS_Subset
  <2>4. Cardinality(upto(i)) <= Cardinality(upto(k)) /\ Cardinality(upto(i)) # Cardinality(upto(k))
    BY <2>1, <2>3, FS_Subset
  <2> QED
    BY <1>2, <1>5, <2>4
<1> DEFINE rank == [i \in at |-> Cardinality(upto(i))]
           f == [m \in 1 .. n |-> Nth(m)]
<1>7. rank \in Injection(at, 1 .. n)
  <2>1. ASSUME NEW i \in at, NEW k \in at, i # k PROVE rank[i] # rank[k]
    <3>1. i < k \/ k < i
      BY <1>3, <2>1
    <3>2. Cardinality(upto(i)) \in Nat /\ Cardinality(upto(k)) \in Nat
      BY <1>2, <1>5
    <3>3. CASE i < k
      <4>1. Cardinality(upto(i)) < Cardinality(upto(k))
        BY <1>6, <3>3
      <4> QED
        BY <3>2, <4>1
    <3>4. CASE k < i
      <4>1. Cardinality(upto(k)) < Cardinality(upto(i))
        BY <1>6, <3>4
      <4> QED
        BY <3>2, <4>1
    <3> QED
      BY <3>1, <3>3, <3>4
  <2>2. rank \in [at -> 1 .. n]
    BY <1>5
  <2> QED
    BY <2>1, <2>2 DEF Injection, IsInjective
<1>8. rank \in Surjection(at, 1 .. n)
  BY <1>2, <1>7, FS_Injection
<1>9. ASSUME NEW m \in 1 .. n PROVE Nth(m) \in at /\ rank[Nth(m)] = m
  <2>1. \E i \in at : rank[i] = m
    BY <1>8 DEF Surjection
  <2>2. \E i \in at : Cardinality(upto(i)) = m
    BY <2>1
  <2>3. Nth(m) \in at /\ Cardinality(upto(Nth(m))) = m
    BY <2>2
  <2> QED
    BY <2>3
<1>10. f \in Injection(1 .. n, at)
  <2> HIDE DEF rank, Nth
  <2>1. f \in [1 .. n -> at] /\ \A m \in 1 .. n : rank[f[m]] = m
    BY <1>9
  <2> HIDE DEF f
  <2> QED
    BY <2>1 DEF Injection, IsInjective
<1>11. f \in Surjection(1 .. n, at)
  <2>1. ASSUME NEW i \in at PROVE \E m \in 1 .. n : f[m] = i
    <3> HIDE DEF rank, Nth
    <3>1. rank[i] \in 1 .. n /\ rank \in [at -> 1 .. n]
      BY <1>7 DEF Injection
    <3>2. f[rank[i]] \in at /\ rank[f[rank[i]]] = rank[i]
      BY <1>9, <3>1
    <3>3. f[rank[i]] = i
      BY <1>7, <3>2 DEF Injection, IsInjective
    <3> QED
      BY <3>1, <3>3
  <2>2. f \in [1 .. n -> at]
    BY <1>10 DEF Injection
  <2> QED
    BY <2>1, <2>2 DEF Surjection
<1>12. Kept(s, S) = [m \in 1 .. n |-> s[f[m]]]
  BY <1>4
<1> HIDE DEF f, n
<1>13. Positions(f, n, s, S)
  BY <1>10, <1>11, <1>12 DEF at, Positions, Injection, Surjection, IsInjective
<1> QED
  BY <1>2, <1>13

\* It keeps what it should, and what was there once is there once.
LEMMA KeptElements ==
    ASSUME NEW T, NEW s \in Seq(T), NEW S
    PROVE  /\ Kept(s, S) \in Seq(T)
           /\ Elements(Kept(s, S)) = Elements(s) \cap S
           /\ IsInjective(s) => IsInjective(Kept(s, S))
<1>1. PICK n \in Nat : \E f : Positions(f, n, s, S)
  BY KeptPositions
<1>2. PICK f : Positions(f, n, s, S)
  BY <1>1
<1>3. /\ f \in [1 .. n -> DOMAIN s] /\ \A i \in DOMAIN s : s[i] \in S => \E m \in 1 .. n : f[m] = i
      /\ \A m, k \in 1 .. n : f[m] = f[k] => m = k
      /\ \A m \in 1 .. n : s[f[m]] \in S
      /\ Kept(s, S) = [m \in 1 .. n |-> s[f[m]]]
  BY <1>2 DEF Positions
<1>4. \A i \in DOMAIN s : s[i] \in T
  OBVIOUS
<1>5. \A m \in 1 .. n : f[m] \in DOMAIN s /\ s[f[m]] \in S /\ s[f[m]] \in T
  BY <1>3, <1>4
<1>6. Kept(s, S) \in Seq(T)
  BY <1>3, <1>5
<1>7. Elements(Kept(s, S)) = Elements(s) \cap S
  <2>1. DOMAIN Kept(s, S) = 1 .. n /\ \A m \in 1 .. n : Kept(s, S)[m] = s[f[m]]
    BY <1>3
  <2>2. ASSUME NEW x \in Elements(s) \cap S PROVE x \in Elements(Kept(s, S))
    <3>1. PICK i \in DOMAIN s : x = s[i]
      BY <2>2 DEF Elements
    <3>2. PICK m \in 1 .. n : f[m] = i
      BY <1>3, <2>2, <3>1
    <3> QED
      BY <2>1, <3>1, <3>2 DEF Elements
  <2>3. ASSUME NEW x \in Elements(Kept(s, S)) PROVE x \in Elements(s) \cap S
    BY <1>5, <2>1, <2>3 DEF Elements
  <2> QED
    BY <2>2, <2>3
<1>8. IsInjective(s) => IsInjective(Kept(s, S))
  BY <1>3, <1>5 DEF IsInjective
<1> QED
  BY <1>6, <1>7, <1>8
=============================================================================
