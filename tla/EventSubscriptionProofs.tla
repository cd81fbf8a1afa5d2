----------------------- MODULE EventSubscriptionProofs -----------------------
(* Theorems about the ring of events, about a subscription with polls that *)
(* do not overlap, and that it implements EventStream.                     *)
EXTENDS EventSubscription, FiniteSetTheorems, SequenceTheorems, TLAPS

-----------------------------------------------------------------------------
(* Induction over the natural numbers for a set instead of a predicate.    *)
(* The numbers up to n that are missing, each lowered by one, would fit    *)
(* into themselves without n.                                              *)
LEMMA Induction ==
  ASSUME NEW A, 0 \in A, \A n \in Nat : n \in A => n + 1 \in A
  PROVE  Nat \subseteq A
<1> SUFFICES ASSUME NEW n \in Nat, n \notin A PROVE FALSE
  OBVIOUS
<1> DEFINE C == {x \in 0..n : x \notin A}
           g == [x \in C |-> x - 1]
<1>1. C \in SUBSET (0..n) /\ n \in C
  OBVIOUS
<1>2. IsFiniteSet(C) /\ Cardinality(C) \in Nat
  <2>1. IsFiniteSet(0..n)
    BY FS_Interval
  <2>2. IsFiniteSet(C)
    BY <2>1, <1>1, FS_Subset
  <2> QED BY <2>2, FS_CardinalityType
<1>3. IsFiniteSet(C \ {n}) /\ Cardinality(C \ {n}) = Cardinality(C) - 1
  BY <1>1, <1>2, FS_RemoveElement
<1>4. g \in [C -> C \ {n}]
  <2> SUFFICES ASSUME NEW x \in C PROVE x - 1 \in C \ {n}
    OBVIOUS
  <2>1. x # 0 /\ x - 1 \in 0..n /\ x - 1 # n
    OBVIOUS
  <2>2. x - 1 \notin A
    BY <2>1
  <2> QED BY <2>1, <2>2
<1>5. \A x, y \in C : g[x] = g[y] => x = y
  OBVIOUS
<1>6. Cardinality(C) <= Cardinality(C \ {n})
  <2> HIDE DEF C, g
  <2>1. g \in Injection(C, C \ {n})
    BY <1>4, <1>5 DEF Injection, IsInjective
  <2> QED BY <1>3, <2>1, FS_Injection
<1> HIDE DEF C
<1> QED BY <1>2, <1>3, <1>6

-----------------------------------------------------------------------------
(* Those(s, S), by the recursion of its definition.                        *)

IsKept(g, s, S, m) ==
  g = [n \in 0..m |-> IF n = 0 THEN <<>>
                      ELSE IF s[n] \in S THEN Append(g[n - 1], s[n])
                      ELSE g[n - 1]]

(* The recursion of Those has a value for every length.                    *)
LEMMA KeptExists ==
  ASSUME NEW s, NEW S, NEW m \in Nat
  PROVE  \E g : IsKept(g, s, S, m)
<1> DEFINE A == {n \in Nat : \E g : IsKept(g, s, S, n)}
<1>1. 0 \in A
  <2>1. IsKept([n \in 0..0 |-> <<>>], s, S, 0)
    BY DEF IsKept
  <2> QED BY <2>1
<1>2. ASSUME NEW n \in Nat, n \in A PROVE n + 1 \in A
  <2>1. PICK g : IsKept(g, s, S, n)
    BY <1>2
  <2> DEFINE last == IF s[n + 1] \in S THEN Append(g[n], s[n + 1]) ELSE g[n]
             h == [i \in 0..(n + 1) |-> IF i = n + 1 THEN last ELSE g[i]]
  <2>2. IsKept(h, s, S, n + 1)
    <3> SUFFICES ASSUME NEW i \in 0..(n + 1)
                 PROVE  h[i] = IF i = 0 THEN <<>>
                               ELSE IF s[i] \in S THEN Append(h[i - 1], s[i])
                               ELSE h[i - 1]
      BY DEF IsKept
    <3>1. CASE i = n + 1
      <4>1. i - 1 = n /\ h[i - 1] = g[n] /\ i # 0
        BY <3>1
      <4> QED BY <3>1, <4>1
    <3>2. CASE i # n + 1
      <4>1. i \in 0..n /\ h[i] = g[i] /\ (i # 0 => h[i - 1] = g[i - 1])
        BY <3>2
      <4> HIDE DEF h
      <4> QED BY <2>1, <4>1 DEF IsKept
    <3> QED BY <3>1, <3>2
  <2> HIDE DEF h
  <2> QED BY <2>2
<1>3. Nat \subseteq A
  <2> HIDE DEF A
  <2> QED BY <1>1, <1>2, Induction
<1> QED BY <1>3

(* Two sequences that agree on their first elements keep the same of them. *)
LEMMA KeptAgree ==
  ASSUME NEW s, NEW S, NEW t, NEW m \in Nat, NEW k \in 0..m,
         \A n \in 1..k : s[n] = t[n],
         NEW g, IsKept(g, s, S, m), NEW h, IsKept(h, t, S, k)
  PROVE  h[k] = g[k]
<1> DEFINE A == {n \in Nat : n <= k => h[n] = g[n]}
<1>1. 0 \in A
  <2>1. h[0] = <<>> /\ g[0] = <<>>
    BY DEF IsKept
  <2> QED BY <2>1
<1>2. ASSUME NEW n \in Nat, n \in A PROVE n + 1 \in A
  <2> SUFFICES ASSUME n + 1 <= k PROVE h[n + 1] = g[n + 1]
    OBVIOUS
  <2> DEFINE i == n + 1
  <2>1. i \in 0..k /\ i \in 0..m /\ i # 0 /\ i - 1 = n /\ s[i] = t[i]
    OBVIOUS
  <2>2. h[n] = g[n]
    BY <1>2
  <2> HIDE DEF i
  <2>3. h[i] = IF t[i] \in S THEN Append(h[i - 1], t[i]) ELSE h[i - 1]
    BY <2>1 DEF IsKept
  <2>4. g[i] = IF s[i] \in S THEN Append(g[i - 1], s[i]) ELSE g[i - 1]
    BY <2>1 DEF IsKept
  <2>5. h[i] = g[i]
    BY <2>1, <2>2, <2>3, <2>4
  <2> QED BY <2>5 DEF i
<1>3. Nat \subseteq A
  <2> HIDE DEF A
  <2> QED BY <1>1, <1>2, Induction
<1> QED BY <1>3

(* Those is what the recursion keeps of the whole sequence.                *)
LEMMA ThoseIsKept ==
  ASSUME NEW T, NEW s \in Seq(T), NEW S
  PROVE  \E g : IsKept(g, s, S, Len(s)) /\ Those(s, S) = g[Len(s)]
<1> DEFINE g == CHOOSE h : IsKept(h, s, S, Len(s))
<1>1. IsKept(g, s, S, Len(s))
  BY KeptExists
<1>2. Those(s, S) = g[Len(s)]
  BY DEF Those, IsKept
<1> HIDE DEF g
<1> QED BY <1>1, <1>2

(* Of nothing, nothing is kept.                                            *)
LEMMA ThoseOfNone ==
  ASSUME NEW S
  PROVE  Those(<<>>, S) = <<>>
<1>1. <<>> \in Seq({}) /\ Len(<<>>) = 0
  OBVIOUS
<1>2. PICK g : IsKept(g, <<>>, S, 0) /\ Those(<<>>, S) = g[0]
  BY <1>1, ThoseIsKept
<1> QED BY <1>2 DEF IsKept

(* An element more is kept or not.                                         *)
LEMMA ThoseAppend ==
  ASSUME NEW T, NEW s \in Seq(T), NEW e \in T, NEW S
  PROVE  Those(Append(s, e), S) = IF e \in S THEN Append(Those(s, S), e) ELSE Those(s, S)
<1> DEFINE t == Append(s, e)
           m == Len(s) + 1
<1>1. t \in Seq(T) /\ Len(t) = m /\ m \in Nat /\ Len(s) \in 0..m /\ m - 1 = Len(s) /\ m \in 0..m
      /\ t[m] = e /\ m # 0
  OBVIOUS
<1>2. \A n \in 1..Len(s) : t[n] = s[n]
  OBVIOUS
<1> HIDE DEF t, m
<1>3. PICK g : IsKept(g, t, S, m) /\ Those(t, S) = g[m]
  BY <1>1, ThoseIsKept
<1>4. PICK h : IsKept(h, s, S, Len(s)) /\ Those(s, S) = h[Len(s)]
  BY ThoseIsKept
<1>5. h[Len(s)] = g[Len(s)]
  BY <1>1, <1>2, <1>3, <1>4, KeptAgree
<1>6. g[m] = IF t[m] \in S THEN Append(g[m - 1], t[m]) ELSE g[m - 1]
  BY <1>1, <1>3 DEF IsKept
<1> QED BY <1>1, <1>3, <1>4, <1>5, <1>6 DEF t

(* What is so of the empty sequence, and of a sequence that was made       *)
(* longer by one, is so of every sequence in the set.                      *)
LEMMA SequenceInduction ==
  ASSUME NEW T, NEW A,
         <<>> \in A,
         \A s \in Seq(T), e \in T : s \in A => Append(s, e) \in A
  PROVE  Seq(T) \subseteq A
<1> DEFINE B == {n \in Nat : \A s \in Seq(T) : Len(s) = n => s \in A}
<1>1. 0 \in B
  <2>1. \A s \in Seq(T) : Len(s) = 0 => s = <<>>
    OBVIOUS
  <2> QED BY <2>1
<1>2. ASSUME NEW n \in Nat, n \in B PROVE n + 1 \in B
  <2> SUFFICES ASSUME NEW s \in Seq(T), Len(s) = n + 1 PROVE s \in A
    OBVIOUS
  <2>1. s # <<>>
    OBVIOUS
  <2>2. PICK t \in Seq(T), e \in T : s = Append(t, e)
    BY <2>1, SequenceEmptyOrAppend
  <2>3. Len(t) = n
    BY <2>2
  <2>4. t \in A
    BY <1>2, <2>3
  <2> QED BY <2>2, <2>4
<1>3. Nat \subseteq B
  <2> HIDE DEF B
  <2> QED BY <1>1, <1>2, Induction
<1>4. \A s \in Seq(T) : Len(s) \in Nat
  OBVIOUS
<1> QED BY <1>3, <1>4

(* Those are elements of the sequence, in the set.                         *)
LEMMA ThoseType ==
  ASSUME NEW T, NEW s \in Seq(T), NEW S
  PROVE  Those(s, S) \in Seq(T \cap S)
<1> DEFINE A == {r \in Seq(T) : Those(r, S) \in Seq(T \cap S)}
<1>1. <<>> \in A
  <2>1. <<>> \in Seq(T) /\ <<>> \in Seq(T \cap S)
    OBVIOUS
  <2> QED BY <2>1, ThoseOfNone
<1>2. ASSUME NEW r \in Seq(T), NEW e \in T, r \in A PROVE Append(r, e) \in A
  <2>1. CASE e \in S
    <3>1. Those(Append(r, e), S) = Append(Those(r, S), e)
      BY <2>1, ThoseAppend
    <3> QED BY <1>2, <2>1, <3>1
  <2>2. CASE e \notin S
    <3>1. Those(Append(r, e), S) = Those(r, S)
      BY <2>2, ThoseAppend
    <3> QED BY <1>2, <3>1
  <2> QED BY <2>1, <2>2
<1>3. Seq(T) \subseteq A
  <2> HIDE DEF A
  <2> QED BY <1>1, <1>2, SequenceInduction
<1> QED BY <1>3

(* The first of those are those of a first part.                           *)
LEMMA ThosePrefix ==
  ASSUME NEW T, NEW s \in Seq(T), NEW S, NEW k \in 1..Len(Those(s, S))
  PROVE  \E j \in 1..Len(s) : SubSeq(Those(s, S), 1, k) = Those(SubSeq(s, 1, j), S)
<1> DEFINE A == {r \in Seq(T) : \A i \in 1..Len(Those(r, S)) : \E j \in 1..Len(r) :
                   SubSeq(Those(r, S), 1, i) = Those(SubSeq(r, 1, j), S)}
<1>1. <<>> \in A
  <2>1. Len(Those(<<>>, S)) = 0
    BY ThoseOfNone
  <2> QED BY <2>1
<1>2. ASSUME NEW r \in Seq(T), NEW e \in T, r \in A PROVE Append(r, e) \in A
  <2> DEFINE q == Append(r, e)
  <2>1. q \in Seq(T) /\ Len(q) = Len(r) + 1 /\ SubSeq(q, 1, Len(q)) = q /\ Len(r) \in Nat
    BY SubSeqFull
  <2>2. \A j \in 1..Len(r) : SubSeq(q, 1, j) = SubSeq(r, 1, j)
    <3> TAKE j \in 1..Len(r)
    <3>1. 1 \in 1..Len(r)
      BY <2>1
    <3>2. SubSeq(r \o <<e>>, 1, j) = SubSeq(r, 1, j)
      BY <3>1, SubSeqOfConcat1, <<e>> \in Seq(T)
    <3> QED BY <3>2, AppendIsConcat
  <2>3. Those(r, S) \in Seq(T) /\ Those(q, S) \in Seq(T)
    <3>1. \A t \in Seq(T \cap S) : t \in Seq(T)
      OBVIOUS
    <3> QED BY <2>1, <3>1, ThoseType
  <2>4. ASSUME NEW i \in 1..Len(Those(r, S))
        PROVE  \E j \in 1..Len(q) : SubSeq(Those(r, S), 1, i) = Those(SubSeq(q, 1, j), S)
    <3>1. PICK j \in 1..Len(r) : SubSeq(Those(r, S), 1, i) = Those(SubSeq(r, 1, j), S)
      BY <1>2
    <3>2. j \in 1..Len(q) /\ SubSeq(q, 1, j) = SubSeq(r, 1, j)
      BY <2>1, <2>2
    <3> QED BY <3>1, <3>2
  <2>5. ASSUME NEW i \in 1..Len(Those(q, S))
        PROVE  \E j \in 1..Len(q) : SubSeq(Those(q, S), 1, i) = Those(SubSeq(q, 1, j), S)
    <3>1. CASE e \notin S
      <4>1. Those(q, S) = Those(r, S)
        BY <3>1, ThoseAppend
      <4> QED BY <2>4, <2>5, <4>1
    <3>2. CASE e \in S
      <4>1. Those(q, S) = Append(Those(r, S), e)
        BY <3>2, ThoseAppend
      <4>2. Len(Those(q, S)) = Len(Those(r, S)) + 1 /\ Len(Those(r, S)) \in Nat
        BY <2>3, <4>1
      <4>3. CASE i = Len(Those(q, S))
        <5>1. SubSeq(Those(q, S), 1, i) = Those(q, S)
          BY <2>3, <4>3, SubSeqFull
        <5>2. Len(q) \in 1..Len(q)
          BY <2>1
        <5> QED BY <2>1, <5>1, <5>2
      <4>4. CASE i # Len(Those(q, S))
        <5>1. i \in 1..Len(Those(r, S)) /\ 1 \in 1..Len(Those(r, S))
          BY <4>2, <4>4
        <5>2. SubSeq(Those(r, S) \o <<e>>, 1, i) = SubSeq(Those(r, S), 1, i)
          BY <2>3, <5>1, SubSeqOfConcat1, <<e>> \in Seq(T)
        <5>3. SubSeq(Those(q, S), 1, i) = SubSeq(Those(r, S), 1, i)
          BY <2>3, <4>1, <5>2, AppendIsConcat
        <5> QED BY <2>4, <5>1, <5>3
      <4> QED BY <4>3, <4>4
    <3> QED BY <3>1, <3>2
  <2> QED BY <2>1, <2>5
<1>3. Seq(T) \subseteq A
  <2> HIDE DEF A
  <2> QED BY <1>1, <1>2, SequenceInduction
<1> QED BY <1>3

(* Two of those stand in the sequence, in the same order.                  *)
Stands(r, S) ==
  \A m \in 1..Len(Those(r, S)) :
    /\ \E i \in 1..Len(r) : Those(r, S)[m] = r[i]
    /\ \A l \in 1..(m - 1) :
         \E i, j \in 1..Len(r) :
           i < j /\ Those(r, S)[l] = r[i] /\ Those(r, S)[m] = r[j]

(* They are in the order of the sequence.                                  *)
LEMMA ThoseInOrder ==
  ASSUME NEW T, NEW s \in Seq(T), NEW S
  PROVE  Stands(s, S)
<1> USE DEF Stands
<1> DEFINE A == {r \in Seq(T) : Stands(r, S)}
<1>1. <<>> \in A
  <2>1. Len(Those(<<>>, S)) = 0
    BY ThoseOfNone
  <2> QED BY <2>1
<1>2. ASSUME NEW r \in Seq(T), NEW e \in T, r \in A PROVE Append(r, e) \in A
  <2> DEFINE q == Append(r, e)
  <2>1. q \in Seq(T) /\ Len(q) = Len(r) + 1 /\ Len(r) \in Nat /\ q[Len(q)] = e
    OBVIOUS
  <2>2. \A i \in 1..Len(r) : i \in 1..Len(q) /\ i < Len(q) /\ q[i] = r[i]
    BY <2>1
  <2>3. Those(r, S) \in Seq(T)
    <3>1. \A t \in Seq(T \cap S) : t \in Seq(T)
      OBVIOUS
    <3> QED BY <3>1, ThoseType
  <2>4. Stands(r, S)
    BY <1>2
  <2>5. CASE e \notin S
    <3>1. Those(q, S) = Those(r, S)
      BY <2>5, ThoseAppend
    <3> SUFFICES ASSUME NEW m \in 1..Len(Those(q, S))
                 PROVE  /\ \E i \in 1..Len(q) : Those(q, S)[m] = q[i]
                        /\ \A l \in 1..(m - 1) :
                             \E i, j \in 1..Len(q) :
                               i < j /\ Those(q, S)[l] = q[i] /\ Those(q, S)[m] = q[j]
      BY <2>1
    <3>2. PICK i \in 1..Len(r) : Those(r, S)[m] = r[i]
      BY <2>4, <3>1
    <3>3. ASSUME NEW l \in 1..(m - 1)
          PROVE  \E a, b \in 1..Len(q) :
                   a < b /\ Those(r, S)[l] = q[a] /\ Those(r, S)[m] = q[b]
      <4>1. PICK a, b \in 1..Len(r) :
                   a < b /\ Those(r, S)[l] = r[a] /\ Those(r, S)[m] = r[b]
        BY <2>4, <3>1
      <4> HIDE DEF q
      <4> QED BY <2>2, <4>1
    <3> HIDE DEF q
    <3> QED BY <2>2, <3>1, <3>2, <3>3
  <2>6. CASE e \in S
    <3>1. Those(q, S) = Append(Those(r, S), e)
      BY <2>6, ThoseAppend
    <3>2. /\ Len(Those(q, S)) = Len(Those(r, S)) + 1 /\ Len(Those(r, S)) \in Nat
          /\ Those(q, S)[Len(Those(q, S))] = e
          /\ \A m \in 1..Len(Those(r, S)) : Those(q, S)[m] = Those(r, S)[m]
      BY <2>3, <3>1
    <3> SUFFICES ASSUME NEW m \in 1..Len(Those(q, S))
                 PROVE  /\ \E i \in 1..Len(q) : Those(q, S)[m] = q[i]
                        /\ \A l \in 1..(m - 1) :
                             \E i, j \in 1..Len(q) :
                               i < j /\ Those(q, S)[l] = q[i] /\ Those(q, S)[m] = q[j]
      BY <2>1
    <3> HIDE DEF q
    <3>3. CASE m \in 1..Len(Those(r, S))
      <4>1. PICK i \in 1..Len(r) : Those(r, S)[m] = r[i]
        BY <2>4, <3>3
      <4>2. ASSUME NEW l \in 1..(m - 1)
            PROVE  \E a, b \in 1..Len(q) :
                     a < b /\ Those(q, S)[l] = q[a] /\ Those(q, S)[m] = q[b]
        <5>1. PICK a, b \in 1..Len(r) :
                     a < b /\ Those(r, S)[l] = r[a] /\ Those(r, S)[m] = r[b]
          BY <2>4, <3>3
        <5>2. l \in 1..Len(Those(r, S))
          BY <3>2, <3>3
        <5> QED BY <2>2, <3>2, <3>3, <5>1, <5>2
      <4> QED BY <2>2, <3>2, <3>3, <4>1, <4>2
    <3>4. CASE m = Len(Those(q, S))
      <4>1. Len(q) \in 1..Len(q) /\ Those(q, S)[m] = q[Len(q)]
        BY <2>1, <3>2, <3>4
      <4>2. ASSUME NEW l \in 1..(m - 1)
            PROVE  \E a, b \in 1..Len(q) :
                     a < b /\ Those(q, S)[l] = q[a] /\ Those(q, S)[m] = q[b]
        <5>1. l \in 1..Len(Those(r, S))
          BY <3>2, <3>4
        <5>2. PICK a \in 1..Len(r) : Those(r, S)[l] = r[a]
          BY <2>4, <5>1
        <5> QED BY <2>2, <3>2, <4>1, <5>1, <5>2
      <4> QED BY <4>1, <4>2
    <3> QED BY <3>2, <3>3, <3>4
  <2> QED BY <2>5, <2>6
<1>3. Seq(T) \subseteq A
  <2> HIDE DEF A
  <2> QED BY <1>1, <1>2, SequenceInduction
<1> QED BY <1>3

(* Where the first m are not in the set and the others are, these are they.*)
LEMMA ThoseSuffix ==
  ASSUME NEW T, NEW s \in Seq(T), NEW S, NEW m \in 0..Len(s),
         \A i \in 1..m : s[i] \notin S,
         \A i \in (m + 1)..Len(s) : s[i] \in S
  PROVE  Those(s, S) = SubSeq(s, m + 1, Len(s))
<1> DEFINE P(r) == \A n \in 0..Len(r) :
                     /\ \A i \in 1..n : r[i] \notin S
                     /\ \A i \in (n + 1)..Len(r) : r[i] \in S
                     => Those(r, S) = SubSeq(r, n + 1, Len(r))
           A == {r \in Seq(T) : P(r)}
<1>1. <<>> \in A
  <2>1. \A n \in 0..0 : SubSeq(<<>>, n + 1, 0) = <<>>
    BY SubSeqEmpty
  <2>2. Len(<<>>) = 0 /\ <<>> \in Seq(T)
    OBVIOUS
  <2> QED BY <2>1, <2>2, ThoseOfNone
<1>2. ASSUME NEW r \in Seq(T), NEW e \in T, r \in A PROVE Append(r, e) \in A
  <2> DEFINE q == Append(r, e)
  <2>1. q \in Seq(T) /\ Len(q) = Len(r) + 1 /\ Len(r) \in Nat /\ q[Len(q)] = e
    OBVIOUS
  <2>2. \A i \in 1..Len(r) : q[i] = r[i]
    BY <2>1
  <2> SUFFICES ASSUME NEW n \in 0..Len(q),
                      \A i \in 1..n : q[i] \notin S,
                      \A i \in (n + 1)..Len(q) : q[i] \in S
               PROVE  Those(q, S) = SubSeq(q, n + 1, Len(q))
    BY <2>1
  <2>3. CASE n = Len(q)
    <3>1. e \notin S /\ Len(r) \in 0..Len(r)
      BY <2>1, <2>3
    <3>2. \A i \in 1..Len(r) : r[i] \notin S
      BY <2>1, <2>2, <2>3
    <3>3. Those(r, S) = SubSeq(r, Len(r) + 1, Len(r))
      BY <1>2, <2>1, <3>1, <3>2
    <3>4. SubSeq(r, Len(r) + 1, Len(r)) = <<>> /\ SubSeq(q, n + 1, Len(q)) = <<>>
      BY <2>1, <2>3, SubSeqEmpty
    <3> QED BY <3>1, <3>3, <3>4, ThoseAppend
  <2>4. CASE n \in 0..Len(r)
    <3>1. e \in S
      BY <2>1, <2>4
    <3>2. \A i \in 1..n : r[i] \notin S
      BY <2>1, <2>2, <2>4
    <3>3. \A i \in (n + 1)..Len(r) : r[i] \in S
      BY <2>1, <2>2, <2>4
    <3>4. Those(r, S) = SubSeq(r, n + 1, Len(r))
      BY <1>2, <2>4, <3>2, <3>3
    <3>5. Those(q, S) = Append(SubSeq(r, n + 1, Len(r)), e)
      BY <3>1, <3>4, ThoseAppend
    <3>6. Append(SubSeq(r, n + 1, Len(r)), e) = SubSeq(q, n + 1, Len(q))
      <4> DEFINE a == SubSeq(r, n + 1, Len(r))
                 b == SubSeq(q, n + 1, Len(q))
      <4>1. /\ a \in Seq(T) /\ Len(a) = Len(r) - n
            /\ \A i \in 1..(Len(r) - n) : a[i] = r[n + i]
        BY <2>1, <2>4
      <4>2. /\ b \in Seq(T) /\ Len(b) = Len(q) - n
            /\ \A i \in 1..(Len(q) - n) : b[i] = q[n + i]
        BY <2>1, <2>4
      <4> HIDE DEF a, b
      <4>3. /\ Append(a, e) \in Seq(T) /\ Len(Append(a, e)) = Len(b)
            /\ \A i \in 1..(Len(r) - n) : Append(a, e)[i] = a[i]
            /\ Append(a, e)[Len(q) - n] = e
        BY <2>1, <2>4, <4>1, <4>2
      <4>4. \A i \in 1..Len(b) : Append(a, e)[i] = b[i]
        <5> SUFFICES ASSUME NEW i \in 1..Len(b) PROVE Append(a, e)[i] = b[i]
          OBVIOUS
        <5>1. b[i] = q[n + i] /\ i \in 1..(Len(q) - n)
          BY <4>2
        <5>2. CASE i = Len(q) - n
          <6>1. n + i = Len(q)
            BY <2>1, <5>2
          <6> QED BY <2>1, <4>3, <5>1, <5>2, <6>1
        <5>3. CASE i # Len(q) - n
          <6>1. i \in 1..(Len(r) - n) /\ n + i \in 1..Len(r)
            BY <2>1, <2>4, <5>1, <5>3
          <6> QED BY <2>2, <4>1, <4>3, <5>1, <6>1
        <5> QED BY <5>2, <5>3
      <4>5. Append(a, e) = b
        BY <4>2, <4>3, <4>4, SeqEqual
      <4> QED BY <4>5 DEF a, b
    <3> QED BY <3>5, <3>6
  <2> QED BY <2>1, <2>3, <2>4
<1>3. Seq(T) \subseteq A
  <2> HIDE DEF A
  <2> QED BY <1>1, <1>2, SequenceInduction
<1>4. P(s)
  BY <1>3
<1> QED BY <1>4

-----------------------------------------------------------------------------
(* The ring.  Remainders of a Capacity that is any number.                 *)

LEMMA Remainder ==
  ASSUME RingAssumption, NEW a \in Nat
  PROVE  /\ a % Capacity \in Indices
         /\ a = Capacity * (a \div Capacity) + (a % Capacity)
         /\ a \div Capacity \in Nat
BY DEF RingAssumption, Indices

(* A slot comes round after Capacity numbers,                              *)
LEMMA RemainderAround ==
  ASSUME RingAssumption, NEW a \in Nat
  PROVE  (a + Capacity) % Capacity = a % Capacity
<1>1. Capacity \in Nat \ {0}
  BY DEF RingAssumption
<1>2. (a + Capacity) \div Capacity = (a \div Capacity) + 1
  BY <1>1
<1> QED BY <1>1, <1>2

(* and not before.                                                         *)
LEMMA RemainderApart ==
  ASSUME RingAssumption, NEW a \in Nat, NEW b \in Nat, a < b,
         a % Capacity = b % Capacity
  PROVE  b - a >= Capacity
<1> DEFINE p == a \div Capacity
           q == b \div Capacity
<1>1. /\ Capacity \in Nat \ {0} /\ p \in Nat /\ q \in Nat
      /\ a % Capacity \in 0..(Capacity - 1)
      /\ a = Capacity * p + (a % Capacity) /\ b = Capacity * q + (a % Capacity)
  BY Remainder DEF RingAssumption, Indices
<1> DEFINE r == a % Capacity
<1> HIDE DEF p, q, r
<1>2. q > p
  <2> SUFFICES ASSUME q <= p PROVE FALSE
    BY <1>1
  <2>1. Capacity * q <= Capacity * p
    BY <1>1
  <2> QED BY <1>1, <2>1 DEF r
<1>3. PICK d \in Nat : q = p + 1 + d
  <2>1. q - p - 1 \in Nat /\ q = p + 1 + (q - p - 1)
    BY <1>1, <1>2
  <2> QED BY <2>1
<1>4. Capacity * q = Capacity * p + Capacity + Capacity * d /\ Capacity * d \in Nat
  BY <1>1, <1>3
<1> QED BY <1>1, <1>4 DEF r

-----------------------------------------------------------------------------
(* A slot in use has the event that belongs there.                         *)
SlotsInPlace ==
  \A x \in Indices : slots[x] # NoEvent =>
    slots[x].seq <= Len(log) /\ (slots[x].seq - 1) % Capacity = x

RingInv == RingTypeOK /\ RingIsExact /\ SlotsInPlace

(* The empty ring.                                                         *)
LEMMA RingInitial ==
  ASSUME RingAssumption
  PROVE  RingInit => RingInv
<1> SUFFICES ASSUME RingInit PROVE RingInv
  OBVIOUS
<1>1. Len(log) = 0 /\ log \in Seq(Kinds)
  BY DEF RingInit
<1> QED BY <1>1 DEF RingInit, RingInv, RingTypeOK, RingIsExact, SlotsInPlace, RingAssumption,
                    Lost, Larger, latest, Indices

(* append() keeps the ring exact, and its slots where query() looks.       *)
LEMMA RecordKeeps ==
  ASSUME RingAssumption, RingInv, NEW k \in Kinds, Record(k)
  PROVE  RingInv'
<1> DEFINE L == Len(log)
           x == L % Capacity
           e == [seq |-> L + 1, kind |-> k]
<1>1. /\ Capacity \in Nat \ {0} /\ MaxEvents \in Nat /\ L \in Nat
      /\ nextSequence = L + 1 /\ L + 1 <= MaxEvents /\ droppedCount = Lost
      /\ slots \in [Indices -> Events \cup {NoEvent}] /\ log \in Seq(Kinds)
  BY DEF RingAssumption, RingInv, RingTypeOK, RingIsExact, Record, latest
<1>2. x \in Indices
  BY <1>1, Remainder
<1>3. (nextSequence - 1) % Capacity = x
  BY <1>1
<1>4. /\ slots' = [slots EXCEPT ![x] = e]
      /\ droppedCount' = droppedCount + (IF slots[x] = NoEvent THEN 0 ELSE 1)
      /\ nextSequence' = L + 2
      /\ log' = Append(log, k)
  BY <1>1, <1>3 DEF Record
<1>5. /\ Len(log') = L + 1 /\ log' \in Seq(Kinds) /\ log'[L + 1] = k
      /\ \A n \in 1..L : log'[n] = log[n]
  BY <1>1, <1>4
<1>6. e \in Events /\ e # NoEvent
  BY <1>1 DEF Events, NoEvent
<1>7. /\ slots'[x] = e
      /\ \A y \in Indices : y # x => slots'[y] = slots[y]
  BY <1>1, <1>2, <1>4
<1>8. /\ \A n \in (Lost + 1)..L : slots[(n - 1) % Capacity] = [seq |-> n, kind |-> log[n]]
      /\ \A y \in Indices : slots[y] # NoEvent =>
           slots[y].seq > Lost /\ slots[y].seq <= L /\ (slots[y].seq - 1) % Capacity = y
  BY DEF RingInv, RingIsExact, SlotsInPlace
<1>9. Lost \in Nat /\ (L < Capacity => Lost = 0) /\ (L >= Capacity => Lost = L - Capacity)
  BY <1>1 DEF Lost, Larger
<1>10. (L < Capacity => Lost' = 0) /\ (L >= Capacity => Lost' = L + 1 - Capacity)
  BY <1>1, <1>5 DEF Lost, Larger
<1> HIDE DEF L, x, e
<1>11. ASSUME L < Capacity PROVE slots[x] = NoEvent
  <2> SUFFICES ASSUME slots[x] # NoEvent PROVE FALSE
    OBVIOUS
  <2> DEFINE n == slots[x].seq - 1
  <2>1. n \in Nat /\ n < L /\ n % Capacity = x
    <3>1. slots[x] \in Events
      BY <1>1, <1>2
    <3>2. slots[x].seq \in Nat
      BY <1>1, <3>1 DEF Events
    <3> QED BY <1>1, <1>2, <1>8, <1>9, <3>2
  <2>2. L - n >= Capacity
    BY <1>1, <2>1, RemainderApart DEF x
  <2> QED BY <1>1, <1>11, <2>1, <2>2
<1>12. ASSUME L >= Capacity PROVE slots[x] # NoEvent /\ slots[x].seq = Lost + 1
  <2>1. Lost % Capacity = x
    <3>1. Lost + Capacity = L
      BY <1>1, <1>9, <1>12
    <3> QED BY <1>9, <3>1, RemainderAround DEF x
  <2>2. Lost + 1 \in (Lost + 1)..L /\ (Lost + 1) - 1 = Lost
    BY <1>1, <1>9, <1>12
  <2>3. slots[x] = [seq |-> Lost + 1, kind |-> log[Lost + 1]]
    BY <1>8, <2>1, <2>2
  <2> QED BY <1>9, <2>3 DEF NoEvent
<1>13. RingTypeOK'
  <2>1. slots' \in [Indices -> Events \cup {NoEvent}]
    BY <1>1, <1>4, <1>6
  <2>2. nextSequence' \in 1..(MaxEvents + 1)
    BY <1>1, <1>4
  <2>3. droppedCount' = Lost'
    BY <1>1, <1>4, <1>9, <1>10, <1>11, <1>12
  <2>4. droppedCount' \in 0..MaxEvents
    BY <1>1, <1>10, <2>3
  <2> QED BY <1>5, <2>1, <2>2, <2>4 DEF RingTypeOK
<1>14. RingIsExact'
  <2>1. latest' = Len(log')
    BY <1>1, <1>4, <1>5 DEF latest
  <2>2. droppedCount' = Lost'
    BY <1>1, <1>4, <1>9, <1>10, <1>11, <1>12
  <2>3. ASSUME NEW n \in (Lost' + 1)..Len(log')
        PROVE  slots'[(n - 1) % Capacity] = [seq |-> n, kind |-> log'[n]]
    <3>1. CASE n = L + 1
      <4>1. n - 1 = L
        BY <1>1, <3>1
      <4> QED BY <1>5, <1>7, <3>1, <4>1 DEF x, e
    <3>2. CASE n # L + 1
      <4>1. n \in (Lost + 1)..L /\ n \in 1..L /\ n - 1 \in Nat /\ n - 1 < L
        BY <1>1, <1>5, <1>9, <1>10, <2>3, <3>2
      <4>2. (n - 1) % Capacity # x
        <5> SUFFICES ASSUME (n - 1) % Capacity = x PROVE FALSE
          OBVIOUS
        <5>1. L - (n - 1) >= Capacity
          BY <1>1, <4>1, RemainderApart DEF x
        <5> QED BY <1>1, <1>5, <1>9, <1>10, <2>3, <4>1, <5>1
      <4>3. (n - 1) % Capacity \in Indices
        BY <4>1, Remainder
      <4> QED BY <1>5, <1>7, <1>8, <4>1, <4>2, <4>3
    <3> QED BY <3>1, <3>2
  <2>4. ASSUME NEW y \in Indices, slots'[y] # NoEvent PROVE slots'[y].seq > Lost'
    <3>1. CASE y = x
      <4>1. slots'[y].seq = L + 1
        BY <1>7, <3>1 DEF e
      <4> QED BY <1>1, <1>10, <4>1
    <3>2. CASE y # x
      <4> DEFINE n == slots[y].seq
      <4>1. slots'[y] = slots[y] /\ n > Lost /\ n <= L /\ (n - 1) % Capacity = y
        BY <1>7, <1>8, <2>4, <3>2
      <4>2. n \in Nat
        <5>1. slots[y] \in Events
          BY <1>1, <2>4, <4>1
        <5> QED BY <1>1, <5>1 DEF Events
      <4>3. CASE L >= Capacity
        <5>1. n # Lost + 1
          <6> SUFFICES ASSUME n = Lost + 1 PROVE FALSE
            OBVIOUS
          <6>1. Lost + Capacity = L /\ n - 1 = Lost
            BY <1>1, <1>9, <4>3
          <6> QED BY <1>9, <3>2, <4>1, <6>1, RemainderAround DEF x
        <5> QED BY <1>1, <1>9, <1>10, <4>1, <4>2, <4>3, <5>1
      <4>4. CASE L < Capacity
        BY <1>9, <1>10, <4>1, <4>4
      <4> QED BY <1>1, <4>3, <4>4
    <3> QED BY <3>1, <3>2
  <2> QED BY <2>1, <2>2, <2>3, <2>4 DEF RingIsExact
<1>15. SlotsInPlace'
  <2> SUFFICES ASSUME NEW y \in Indices, slots'[y] # NoEvent
               PROVE  slots'[y].seq <= Len(log') /\ (slots'[y].seq - 1) % Capacity = y
    BY DEF SlotsInPlace
  <2>1. CASE y = x
    <3>1. slots'[y].seq = L + 1 /\ (L + 1) - 1 = L
      BY <1>1, <1>7, <2>1 DEF e
    <3> QED BY <1>1, <1>5, <2>1, <3>1 DEF x
  <2>2. CASE y # x
    <3>1. slots'[y] = slots[y] /\ slots[y].seq <= L /\ (slots[y].seq - 1) % Capacity = y
      BY <1>7, <1>8, <2>2
    <3>2. slots[y].seq \in Nat
      <4>1. slots[y] \in Events
        BY <1>1, <3>1
      <4> QED BY <1>1, <4>1 DEF Events
    <3> QED BY <1>1, <1>5, <3>1, <3>2
  <2> QED BY <2>1, <2>2
<1> QED BY <1>13, <1>14, <1>15 DEF RingInv

(* A query from anywhere in the boot's stream.                             *)
LEMMA QueryAnswers ==
  ASSUME RingAssumption, RingInv, NEW after \in Nat, NEW limit \in Nat
  PROVE  LET reply == Query("this", after, limit) IN
         IF after > Len(log) THEN reply = Refusal("mismatch")
         ELSE IF after > 0 /\ after + 1 <= Lost THEN reply = Refusal("expired")
         ELSE LET from == IF after = 0 THEN Lost ELSE after IN
              /\ reply.code = "ok" /\ reply = Answered(reply.events)
              /\ reply.events \in Seq(Events)
              /\ Len(reply.events) = Smaller(limit, Len(log) - from)
              /\ \A k \in 1..Len(reply.events) :
                   reply.events[k] = [seq |-> from + k, kind |-> log[from + k]]
<1> DEFINE reply == Query("this", after, limit)
           L == Len(log)
           from == IF after = 0 THEN Lost ELSE after
           first == Larger(after + 1, oldestSequence)
           count == Smaller(limit, latest + 1 - first)
           found == [k \in 1..count |-> slots[(first + k - 2) % Capacity]]
<1>1. /\ Capacity \in Nat \ {0} /\ MaxEvents \in Nat /\ L \in Nat /\ latest = L /\ L <= MaxEvents
      /\ log \in Seq(Kinds)
  BY DEF RingAssumption, RingInv, RingTypeOK, RingIsExact, latest
<1>2. Lost \in Nat /\ Lost <= L
  BY <1>1 DEF Lost, Larger
<1>3. IF L = 0 THEN oldestSequence = 0 /\ Lost = 0 ELSE oldestSequence = Lost + 1
  <2>1. CASE L = 0
    BY <1>1, <2>1 DEF oldestSequence, Lost, Larger
  <2>2. CASE L # 0 /\ L <= Capacity
    BY <1>1, <2>2 DEF oldestSequence, Smaller, Lost, Larger
  <2>3. CASE L > Capacity
    <3>1. Smaller(latest, Capacity) = Capacity /\ Lost = L - Capacity
      BY <1>1, <2>3 DEF Smaller, Lost, Larger
    <3>2. oldestSequence = latest - Capacity + 1
      BY <1>1, <2>3, <3>1 DEF oldestSequence
    <3> QED BY <1>1, <2>3, <3>1, <3>2
  <2> QED BY <1>1, <2>1, <2>2, <2>3
<1>4. CASE after > L
  BY <1>1, <1>4 DEF Query
<1>5. CASE after <= L /\ after > 0 /\ after + 1 <= Lost
  BY <1>1, <1>2, <1>3, <1>5 DEF Query
<1>6. CASE after <= L /\ ~ (after > 0 /\ after + 1 <= Lost)
  <2>1. first = from + 1 /\ from \in Lost..L
    BY <1>1, <1>2, <1>3, <1>6 DEF Larger
  <2>2. count = Smaller(limit, L - from) /\ count \in 0..(L - from)
    BY <1>1, <1>2, <2>1 DEF Smaller
  <2>3. reply = Answered(found)
    <3>1. ~ (latest > 0 /\ after > 0 /\ after < oldestSequence - 1) /\ ~ (after < 0 \/ after > latest)
      BY <1>1, <1>2, <1>3, <1>6
    <3> QED BY <3>1 DEF Query
  <2> HIDE DEF from, first, count
  <2>4. ASSUME NEW k \in 1..count
        PROVE  /\ found[k] = [seq |-> from + k, kind |-> log[from + k]]
               /\ found[k] \in Events
    <3> DEFINE n == from + k
    <3>1. n \in (Lost + 1)..L /\ first + k - 2 = n - 1 /\ n \in 1..L
      BY <1>1, <1>2, <2>1, <2>2
    <3> HIDE DEF n
    <3>2. slots[(n - 1) % Capacity] = [seq |-> n, kind |-> log[n]]
      BY <3>1 DEF RingInv, RingIsExact
    <3>3. log[n] \in Kinds /\ n \in 1..MaxEvents
      BY <1>1, <3>1
    <3> QED BY <3>1, <3>2, <3>3 DEF n, Events
  <2>5. found \in Seq(Events) /\ Len(found) = count
    <3>1. count \in Nat
      BY <1>1, <1>2, <2>1, <2>2
    <3>2. found \in [1..count -> Events]
      <4>1. \A k \in 1..count : slots[(first + k - 2) % Capacity] \in Events
        BY <2>4
      <4> QED BY <4>1
    <3> HIDE DEF found
    <3> QED BY <3>1, <3>2
  <2> HIDE DEF found, reply
  <2>6. reply.code = "ok" /\ reply.events = found /\ reply = Answered(found)
    BY <2>3 DEF Answered
  <2> QED BY <1>1, <1>6, <2>2, <2>4, <2>5, <2>6 DEF from, reply
<1> QED BY <1>1, <1>2, <1>4, <1>5, <1>6

(* What an exact ring answers is what RingIsFaithful asks for.             *)
LEMMA RingFaithful ==
  ASSUME RingAssumption, RingInv
  PROVE  RingIsFaithful
<1>1. QueryIsExact
  <2> SUFFICES ASSUME NEW after \in 0..(MaxEvents + 1), NEW limit \in 1..(Capacity + 1)
               PROVE  LET reply == Query("this", after, limit) IN
                      IF after > Len(log) THEN reply.code = "mismatch"
                      ELSE IF after > 0 /\ after + 1 <= Lost THEN reply.code = "expired"
                      ELSE LET from == IF after = 0 THEN Lost ELSE after IN
                           /\ reply.code = "ok"
                           /\ Len(reply.events) = Smaller(limit, Len(log) - from)
                           /\ \A k \in 1..Len(reply.events) :
                                reply.events[k] = [seq |-> from + k, kind |-> log[from + k]]
    BY Zenon DEF QueryIsExact
  <2> DEFINE reply == Query("this", after, limit)
  <2>1. after \in Nat /\ limit \in Nat
    BY DEF RingAssumption
  <2>2. Refusal("mismatch").code = "mismatch" /\ Refusal("expired").code = "expired"
    BY DEF Refusal
  <2> HIDE DEF reply
  <2>3. IF after > Len(log) THEN reply = Refusal("mismatch")
        ELSE IF after > 0 /\ after + 1 <= Lost THEN reply = Refusal("expired")
        ELSE LET from == IF after = 0 THEN Lost ELSE after IN
             /\ reply.code = "ok" /\ reply = Answered(reply.events)
             /\ reply.events \in Seq(Events)
             /\ Len(reply.events) = Smaller(limit, Len(log) - from)
             /\ \A k \in 1..Len(reply.events) :
                  reply.events[k] = [seq |-> from + k, kind |-> log[from + k]]
    BY <2>1, QueryAnswers DEF reply
  <2> QED BY <2>2, <2>3 DEF reply
<1> QED BY <1>1 DEF RingInv, RingIsFaithful

-----------------------------------------------------------------------------
(* The subscription.                                                       *)

LEMMA PassedType ==
  ASSUME NEW s \in Seq(Events)
  PROVE  Passed(s) \in Seq(Events)
<1>1. \A t \in Seq(Events \cap [seq : Nat, kind : filter]) : t \in Seq(Events)
  OBVIOUS
<1> QED BY <1>1, ThoseType DEF Passed

(* A log within its bound, of which the ring has lost a first part.        *)
LEMMA LogBound ==
  ASSUME RingAssumption, RingInv
  PROVE  Len(log) \in Nat /\ Len(log) <= MaxEvents /\ Lost \in 0..Len(log)
BY DEF RingAssumption, RingInv, RingTypeOK, RingIsExact, latest, Lost, Larger

(* What the Bridge answers to a fetch.                                     *)
LEMMA FetchType ==
  ASSUME RingAssumption, SubscriptionAssumption, RingInv, NEW after \in Nat, boot \in {"this", "other"}
  PROVE  Query(boot, after, FetchLimit) \in
           [code : {"ok", "mismatch", "expired"}, events : Seq(Events)]
<1> DEFINE reply == Query("this", after, FetchLimit)
<1>1. FetchLimit \in Nat /\ <<>> \in Seq(Events)
  BY DEF SubscriptionAssumption
<1>2. CASE boot = "other"
  BY <1>1, <1>2 DEF Query, Refusal
<1>3. CASE boot = "this"
  <2>1. \/ reply = Refusal("mismatch") \/ reply = Refusal("expired")
        \/ \E e \in Seq(Events) : reply = Answered(e)
    BY <1>1, QueryAnswers, Zenon
  <2> HIDE DEF reply
  <2>2. Refusal("mismatch") \in [code : {"ok", "mismatch", "expired"}, events : Seq(Events)]
    BY <1>1 DEF Refusal
  <2>3. Refusal("expired") \in [code : {"ok", "mismatch", "expired"}, events : Seq(Events)]
    BY <1>1 DEF Refusal
  <2>4. \A e \in Seq(Events) :
          Answered(e) \in [code : {"ok", "mismatch", "expired"}, events : Seq(Events)]
    BY DEF Answered
  <2>5. reply \in [code : {"ok", "mismatch", "expired"}, events : Seq(Events)]
    BY <2>1, <2>2, <2>3, <2>4, Zenon
  <2> QED BY <1>3, <2>5 DEF reply
<1> QED BY <1>2, <1>3

(* The types, and a faithful ring, whatever the polls.                     *)
LEMMA TypeStep ==
  ASSUME RingAssumption, SubscriptionAssumption, RingInv, TypeOK, [Next]_vars
  PROVE  RingInv' /\ TypeOK'
<1> USE DEF TypeOK
<1>0. MaxEvents \in Nat /\ MaxBuffered \in Nat
  BY DEF RingAssumption, SubscriptionAssumption
<1>1. ASSUME NEW k \in Kinds, RecordEvent(k) PROVE RingInv' /\ TypeOK'
  <2>1. RingInv'
    BY <1>1, RecordKeeps DEF RecordEvent
  <2> QED BY <1>1, <2>1 DEF RecordEvent, sub, RingInv
<1>2. ASSUME UNCHANGED ring PROVE RingInv'
  BY <1>2 DEF ring, RingInv, RingTypeOK, RingIsExact, SlotsInPlace, latest, Lost
<1>3. ASSUME UNCHANGED ring PROVE RingTypeOK'
  BY <1>2, <1>3 DEF RingInv
<1>4. CASE BridgeGone
  BY <1>2, <1>3, <1>4 DEF BridgeGone, sub
<1>5. CASE TimeToLivePasses
  BY <1>2, <1>3, <1>5 DEF TimeToLivePasses, sub
<1>6. ASSUME NEW b \in {"this", "other"}, NEW F \in Filters, Subscribe(b, F)
      PROVE  RingInv' /\ TypeOK'
  BY <1>2, <1>3, <1>6 DEF Subscribe
<1>7. CASE Unsubscribe
  BY <1>2, <1>3, <1>7 DEF Unsubscribe
<1>8. CASE StopPolling
  BY <1>2, <1>3, <1>8 DEF StopPolling
<1>9. ASSUME NEW p \in Polls, PollBegin(p) PROVE RingInv' /\ TypeOK'
  <2>1. UNCHANGED <<ring, bridge, overdue, status, boot, filter, lastCursor, events>>
    BY <1>9 DEF PollBegin, sub
  <2>2. <<>> \in Seq(Events)
    OBVIOUS
  <2>3. polls' \in [Polls -> [pc : {"idle", "asked", "answered"}, after : 0..MaxEvents,
                              reply : [code : {"ok", "mismatch", "expired"}, events : Seq(Events)]]]
    BY <1>0, <1>9, <2>2 DEF PollBegin, NoPoll, Answered
  <2> QED BY <1>2, <1>3, <2>1, <2>3
<1>10. ASSUME NEW p \in Polls, Fetch(p) PROVE RingInv' /\ TypeOK'
  <2> DEFINE reply == Query(boot, polls[p].after, FetchLimit)
  <2>1. UNCHANGED <<ring, bridge, overdue, status, boot, filter, lastCursor, events>>
    BY <1>10 DEF Fetch, sub
  <2>2. reply \in [code : {"ok", "mismatch", "expired"}, events : Seq(Events)]
    <3>1. polls[p].after \in Nat
      BY <1>0
    <3> QED BY <3>1, FetchType
  <2>3. polls' = [polls EXCEPT ![p].pc = "answered", ![p].reply = reply]
    BY <1>10 DEF Fetch
  <2> HIDE DEF reply
  <2>4. polls' \in [Polls -> [pc : {"idle", "asked", "answered"}, after : 0..MaxEvents,
                              reply : [code : {"ok", "mismatch", "expired"}, events : Seq(Events)]]]
    BY <2>2, <2>3
  <2> QED BY <1>2, <1>3, <2>1, <2>4
<1>11. ASSUME NEW p \in Polls, FetchFail(p) PROVE RingInv' /\ TypeOK'
  <2>1. UNCHANGED <<ring, bridge, overdue, status, boot, filter, lastCursor, events>>
    BY <1>11 DEF FetchFail, sub
  <2>2. <<>> \in Seq(Events)
    OBVIOUS
  <2>3. polls' \in [Polls -> [pc : {"idle", "asked", "answered"}, after : 0..MaxEvents,
                              reply : [code : {"ok", "mismatch", "expired"}, events : Seq(Events)]]]
    BY <1>0, <1>11, <2>2 DEF FetchFail, NoPoll, Answered
  <2> QED BY <1>2, <1>3, <2>1, <2>3
<1>12. ASSUME NEW p \in Polls, PollEnd(p) PROVE RingInv' /\ TypeOK'
  <2> DEFINE new == Passed(polls[p].reply.events)
             room == Smaller(Len(new), MaxBuffered - Len(events))
  <2>1. /\ UNCHANGED <<ring, bridge, overdue, status, boot, filter>>
        /\ events' = events \o SubSeq(new, 1, room)
        /\ lastCursor' = IF new = <<>> THEN lastCursor ELSE Last(new).seq
        /\ polls' = [polls EXCEPT ![p] = NoPoll]
    BY <1>12 DEF PollEnd
  <2>2. new \in Seq(Events)
    BY PassedType
  <2> HIDE DEF new
  <2>3. room \in 0..Len(new) /\ room <= MaxBuffered - Len(events)
    BY <1>0, <2>2 DEF Smaller
  <2> HIDE DEF room
  <2>4. SubSeq(new, 1, room) \in Seq(Events) /\ Len(SubSeq(new, 1, room)) = room
    BY <2>2, <2>3
  <2>5. events' \in Seq(Events) /\ Len(events') <= MaxBuffered
    BY <1>0, <2>1, <2>3, <2>4
  <2>6. lastCursor' \in 0..MaxEvents
    <3>1. CASE new # <<>>
      <4>1. Len(new) \in 1..Len(new)
        BY <2>2, <3>1
      <4>2. Last(new) \in Events
        BY <2>2, <4>1 DEF Last
      <4> QED BY <1>0, <2>1, <3>1, <4>2 DEF Events
    <3> QED BY <2>1, <3>1
  <2>7. <<>> \in Seq(Events)
    OBVIOUS
  <2>8. polls' \in [Polls -> [pc : {"idle", "asked", "answered"}, after : 0..MaxEvents,
                              reply : [code : {"ok", "mismatch", "expired"}, events : Seq(Events)]]]
    BY <1>0, <2>1, <2>7 DEF NoPoll, Answered
  <2> QED BY <1>2, <1>3, <2>1, <2>5, <2>6, <2>8
<1>13. CASE UNCHANGED vars
  BY <1>2, <1>3, <1>13 DEF vars, sub
<1> QED
  BY <1>1, <1>4, <1>5, <1>6, <1>7, <1>8, <1>9, <1>10, <1>11, <1>12, <1>13 DEF Next

(* The types and the ring at the start.                                    *)
LEMMA Initial ==
  ASSUME RingAssumption, SubscriptionAssumption
  PROVE  Init => RingInv /\ TypeOK
<1> SUFFICES ASSUME Init PROVE RingInv /\ TypeOK
  OBVIOUS
<1>1. RingInv
  BY RingInitial DEF Init
<1>2. <<>> \in Seq(Events) /\ Len(<<>>) = 0 /\ MaxEvents \in Nat /\ MaxBuffered \in Nat
  BY DEF RingAssumption, SubscriptionAssumption
<1>3. NoPoll \in [pc : {"idle", "asked", "answered"}, after : 0..MaxEvents,
                   reply : [code : {"ok", "mismatch", "expired"}, events : Seq(Events)]]
  BY <1>2 DEF NoPoll, Answered
<1>4. polls = [p \in Polls |-> NoPoll]
  BY DEF Init
<1>5. polls \in [Polls -> [pc : {"idle", "asked", "answered"}, after : 0..MaxEvents,
                           reply : [code : {"ok", "mismatch", "expired"}, events : Seq(Events)]]]
  BY <1>3, <1>4
<1>6. events \in Seq(Events) /\ Len(events) <= MaxBuffered /\ lastCursor \in 0..MaxEvents
  BY <1>2 DEF Init
<1> QED BY <1>1, <1>5, <1>6 DEF Init, TypeOK, RingInv

(* RingIsFaithful: whatever is recorded and whoever reads, the ring holds  *)
(* the last events where query() looks for them and answers with the very  *)
(* next ones or an explicit error.                                         *)
THEOREM RingStaysFaithful == Spec => []RingIsFaithful
<1>1. Init => RingInv /\ TypeOK
  BY Initial, RingAssumption, SubscriptionAssumption
<1>2. RingInv /\ TypeOK /\ [Next]_vars => (RingInv /\ TypeOK)'
  BY TypeStep, RingAssumption, SubscriptionAssumption
<1>3. RingInv => RingIsFaithful
  BY RingFaithful, RingAssumption
<1> QED BY <1>1, <1>2, <1>3, PTL DEF Spec

(* TypeOK, for any number of polls at a time.                              *)
THEOREM SubscriptionTypes == Spec => []TypeOK
<1>1. Init => RingInv /\ TypeOK
  BY Initial, RingAssumption, SubscriptionAssumption
<1>2. RingInv /\ TypeOK /\ [Next]_vars => (RingInv /\ TypeOK)'
  BY TypeStep, RingAssumption, SubscriptionAssumption
<1> QED BY <1>1, <1>2, PTL DEF Spec

-----------------------------------------------------------------------------
(* Polls that do not overlap.                                              *)

OnePoll == \E p : Polls = {p}

(* What a poll has fetched is the stretch of the log behind the cursor; a  *)
(* cursor of 0 may have skipped what the ring no longer has.               *)
StretchFrom(s, from) ==
  /\ from + Len(s) <= Len(log)
  /\ \A k \in 1..Len(s) : s[k] = [seq |-> from + k, kind |-> log[from + k]]

Continues(s) ==
  \E from \in lastCursor..Len(log) :
    (lastCursor > 0 => from = lastCursor) /\ StretchFrom(s, from)

NewSubscription ==
  status = "none" =>
    events = <<>> /\ lastCursor = 0 /\ \A p \in Polls : polls[p].pc = "idle"

PollsContinue ==
  \A p \in Polls :
    /\ polls[p].pc # "idle" => polls[p].after = lastCursor
    /\ polls[p].pc = "answered" => Continues(polls[p].reply.events)

(* The buffer is in order, and the cursor is at its end until it is full.  *)
BufferInOrder ==
  /\ lastCursor <= Len(log)
  /\ \A i \in 1..Len(events) :
       events[i].seq <= lastCursor /\ \A j \in 1..(i - 1) : events[j].seq < events[i].seq
  /\ Len(events) < MaxBuffered =>
       lastCursor = IF events = <<>> THEN 0 ELSE Last(events).seq

StreamInv == NewSubscription /\ PollsContinue /\ BufferInOrder
IInv == RingInv /\ TypeOK /\ StreamInv

(* A step that leaves the subscription alone.                              *)
LEMMA SubscriptionStays ==
  ASSUME RingAssumption, SubscriptionAssumption, RingInv, TypeOK, StreamInv,
         UNCHANGED <<filter, lastCursor, events>>,
         (UNCHANGED log) \/ (\E k \in Kinds : log' = Append(log, k))
  PROVE  /\ BufferInOrder'
         /\ \A s : Len(s) \in Nat /\ Continues(s) => Continues(s)'
<1>1. /\ log \in Seq(Kinds) /\ Len(log) \in Nat /\ Len(log') \in Nat /\ Len(log) <= Len(log')
      /\ \A n \in 1..Len(log) : log'[n] = log[n]
      /\ lastCursor \in Nat
  <2>1. log \in Seq(Kinds) /\ lastCursor \in Nat
    BY DEF RingInv, RingTypeOK, TypeOK, RingAssumption
  <2>2. CASE UNCHANGED log
    BY <2>1, <2>2
  <2>3. CASE \E k \in Kinds : log' = Append(log, k)
    BY <2>1, <2>3
  <2> QED BY <2>1, <2>2, <2>3
<1>2. BufferInOrder'
  BY <1>1 DEF StreamInv, BufferInOrder
<1>3. ASSUME NEW s, Len(s) \in Nat, Continues(s) PROVE Continues(s)'
  <2>1. PICK from \in lastCursor..Len(log) :
               (lastCursor > 0 => from = lastCursor) /\ StretchFrom(s, from)
    BY <1>3 DEF Continues
  <2>2. from \in lastCursor'..Len(log)' /\ (lastCursor' > 0 => from = lastCursor')
    BY <1>1, <2>1
  <2>3. from + Len(s) <= Len(log')
    BY <1>1, <1>3, <2>1 DEF StretchFrom
  <2>4. ASSUME NEW k \in 1..Len(s) PROVE s[k] = [seq |-> from + k, kind |-> log'[from + k]]
    <3>1. from + k \in 1..Len(log)
      BY <1>1, <1>3, <2>1 DEF StretchFrom
    <3> QED BY <1>1, <2>1, <3>1 DEF StretchFrom
  <2>5. StretchFrom(s, from)'
    BY <2>3, <2>4 DEF StretchFrom
  <2> QED BY <2>2, <2>5 DEF Continues
<1> QED BY <1>2, <1>3

(* What the end of a poll has to hand over.                                *)
LEMMA Handover ==
  ASSUME RingAssumption, SubscriptionAssumption, RingInv, TypeOK, StreamInv,
         NEW p \in Polls, polls[p].pc = "answered",
         NEW new, new = Passed(polls[p].reply.events),
         NEW room, room = Smaller(Len(new), MaxBuffered - Len(events))
  PROVE  /\ new \in Seq(Events) /\ room \in 0..Len(new) /\ room <= MaxBuffered - Len(events)
         /\ room < Len(new) => room = MaxBuffered - Len(events)
         /\ \A k \in 1..Len(new) :
              /\ new[k].seq \in Nat /\ lastCursor < new[k].seq /\ new[k].seq <= Len(log)
              /\ \A j \in 1..(k - 1) : new[j].seq < new[k].seq
<1> DEFINE s == polls[p].reply.events
<1>1. /\ s \in Seq(Events) /\ MaxBuffered \in Nat /\ lastCursor \in Nat /\ Len(log) \in Nat
      /\ events \in Seq(Events) /\ Len(events) <= MaxBuffered
  BY LogBound DEF TypeOK, RingAssumption, SubscriptionAssumption
<1>2. PICK from \in lastCursor..Len(log) : StretchFrom(s, from)
  BY DEF StreamInv, PollsContinue, Continues
<1> HIDE DEF s
<1>3. new \in Seq(Events)
  BY <1>1, PassedType DEF s
<1>4. \A k \in 1..Len(new) :
        /\ \E i \in 1..Len(s) : new[k] = s[i]
        /\ \A l \in 1..(k - 1) :
             \E i, j \in 1..Len(s) : i < j /\ new[l] = s[i] /\ new[k] = s[j]
  <2> DEFINE S == [seq : Nat, kind : filter]
  <2>1. new = Those(s, S)
    BY DEF Passed, s
  <2> HIDE DEF S
  <2>2. Stands(s, S)
    BY <1>1, ThoseInOrder
  <2> QED BY <2>1, <2>2 DEF Stands
<1>5. from + Len(s) <= Len(log) /\ from \in Nat /\ \A i \in 1..Len(s) : s[i].seq = from + i
  <2>1. from + Len(s) <= Len(log) /\ from \in Nat
    BY <1>1, <1>2 DEF StretchFrom
  <2>2. ASSUME NEW i \in 1..Len(s) PROVE s[i].seq = from + i
    <3>1. s[i] = [seq |-> from + i, kind |-> log[from + i]]
      BY <1>2 DEF StretchFrom
    <3> QED BY <3>1
  <2> QED BY <2>1, <2>2
<1>6. ASSUME NEW k \in 1..Len(new)
      PROVE  /\ new[k].seq \in Nat /\ lastCursor < new[k].seq /\ new[k].seq <= Len(log)
             /\ \A j \in 1..(k - 1) : new[j].seq < new[k].seq
  <2>1. PICK i \in 1..Len(s) : new[k] = s[i]
    BY <1>4
  <2>2. new[k].seq = from + i /\ from + Len(s) <= Len(log)
    BY <1>5, <2>1
  <2>3. ASSUME NEW j \in 1..(k - 1) PROVE new[j].seq < new[k].seq
    <3>1. PICK a, b \in 1..Len(s) : a < b /\ new[j] = s[a] /\ new[k] = s[b]
      BY <1>4
    <3>2. new[j].seq = from + a /\ new[k].seq = from + b
      BY <1>5, <3>1
    <3> QED BY <1>5, <3>1, <3>2
  <2> QED BY <1>1, <1>2, <2>2, <2>3
<1>7. /\ room \in 0..Len(new) /\ room <= MaxBuffered - Len(events)
      /\ room < Len(new) => room = MaxBuffered - Len(events)
  BY <1>1, <1>3 DEF Smaller
<1> QED BY <1>3, <1>6, <1>7

(* Every step keeps the stream and the buffer in the order of the log.     *)
LEMMA StreamStep ==
  ASSUME RingAssumption, SubscriptionAssumption, OnePoll, IInv, [Next]_vars
  PROVE  StreamInv'
<1> USE DEF IInv
<1>0. /\ MaxEvents \in Nat /\ MaxBuffered \in Nat /\ Len(log) \in Nat /\ lastCursor \in 0..MaxEvents
      /\ events \in Seq(Events)
      /\ \A p \in Polls : polls[p].reply.events \in Seq(Events)
  BY LogBound DEF RingAssumption, SubscriptionAssumption, TypeOK
<1>1. ASSUME UNCHANGED <<status, filter, lastCursor, events, polls>>,
             (UNCHANGED log) \/ (\E k \in Kinds : log' = Append(log, k))
      PROVE  StreamInv'
  <2>1. BufferInOrder'
    BY <1>1, SubscriptionStays
  <2>2. NewSubscription'
    BY <1>1 DEF StreamInv, NewSubscription
  <2>3. ASSUME NEW p \in Polls, polls[p].pc = "answered"
        PROVE  Continues(polls[p].reply.events)'
    <3>1. PICK s : s = polls[p].reply.events
      OBVIOUS
    <3>2. Len(s) \in Nat /\ Continues(s)
      BY <1>0, <2>3, <3>1 DEF StreamInv, PollsContinue
    <3>3. Continues(s)'
      BY <1>1, <3>2, SubscriptionStays
    <3>4. polls'[p].reply.events = s
      BY <1>1, <3>1
    <3> QED BY <3>3, <3>4 DEF Continues, StretchFrom
  <2> QED BY <1>1, <2>1, <2>2, <2>3 DEF StreamInv, PollsContinue
<1>2. ASSUME NEW k \in Kinds, RecordEvent(k) PROVE StreamInv'
  BY <1>1, <1>2 DEF RecordEvent, Record, sub
<1>3. CASE BridgeGone
  BY <1>1, <1>3 DEF BridgeGone, sub, ring
<1>4. CASE TimeToLivePasses
  BY <1>1, <1>4 DEF TimeToLivePasses, sub, ring
<1>5. CASE UNCHANGED vars
  BY <1>1, <1>5 DEF vars, sub, ring
<1>6. ASSUME status' # "none", UNCHANGED <<lastCursor, events, polls, log>>, status = "none" \/ UNCHANGED filter
      PROVE  StreamInv'
  BY <1>6 DEF StreamInv, NewSubscription, PollsContinue, BufferInOrder, Continues, StretchFrom
<1>7. ASSUME NEW b \in {"this", "other"}, NEW F \in Filters, Subscribe(b, F) PROVE StreamInv'
  BY <1>6, <1>7 DEF Subscribe, ring
<1>8. CASE Unsubscribe
  BY <1>6, <1>8 DEF Unsubscribe, ring
<1>9. CASE StopPolling
  BY <1>6, <1>9 DEF StopPolling, ring
<1>10. ASSUME UNCHANGED <<log, lastCursor, events, status>>, status # "none" PROVE BufferInOrder' /\ NewSubscription'
  BY <1>10 DEF StreamInv, BufferInOrder, NewSubscription
<1>11. ASSUME NEW p \in Polls, PollBegin(p) PROVE StreamInv'
  <2>1. UNCHANGED <<log, lastCursor, events, status>> /\ status = "active"
    BY <1>11 DEF PollBegin, sub, ring
  <2>2. polls' = [polls EXCEPT ![p] = [NoPoll EXCEPT !.pc = "asked", !.after = lastCursor]]
    BY <1>11 DEF PollBegin
  <2>3. \A q \in Polls : q = p
    BY DEF OnePoll
  <2>4. polls'[p].pc = "asked" /\ polls'[p].after = lastCursor
    BY <2>2 DEF TypeOK, NoPoll
  <2>5. PollsContinue'
    BY <2>1, <2>3, <2>4 DEF PollsContinue
  <2> QED BY <1>10, <2>1, <2>5 DEF StreamInv
<1>12. ASSUME NEW p \in Polls, Fetch(p) PROVE StreamInv'
  <2> DEFINE reply == Query(boot, polls[p].after, FetchLimit)
             s == reply.events
  <2>1. UNCHANGED <<log, lastCursor, events, status>> /\ polls[p].pc = "asked"
    BY <1>12 DEF Fetch, sub, ring
  <2>2. status # "none" /\ polls[p].after = lastCursor
    BY <2>1 DEF StreamInv, NewSubscription, PollsContinue
  <2>3. \A q \in Polls : q = p
    BY DEF OnePoll
  <2>4. polls'[p].after = lastCursor /\ polls'[p].reply.events = s
    BY <1>12, <2>2 DEF Fetch, TypeOK
  <2>5. Continues(s)
    <3>1. lastCursor <= Len(log) /\ FetchLimit \in Nat /\ boot \in {"this", "other"}
      BY DEF StreamInv, BufferInOrder, SubscriptionAssumption, TypeOK
    <3>2. ASSUME s = <<>> PROVE Continues(s)
      <4>1. lastCursor \in lastCursor..Len(log) /\ StretchFrom(s, lastCursor)
        BY <1>0, <3>1, <3>2 DEF StretchFrom
      <4> QED BY <4>1 DEF Continues
    <3>3. CASE boot = "other"
      <4>1. s = <<>>
        BY <3>3 DEF Query, Refusal
      <4> QED BY <3>2, <4>1
    <3>4. CASE boot = "this"
      <4> DEFINE from == IF lastCursor = 0 THEN Lost ELSE lastCursor
      <4> DEFINE r == Query("this", lastCursor, FetchLimit)
      <4>1. reply = r /\ lastCursor \in Nat
        BY <1>0, <2>2, <3>4
      <4>5. IF lastCursor > Len(log) THEN r = Refusal("mismatch")
            ELSE IF lastCursor > 0 /\ lastCursor + 1 <= Lost THEN r = Refusal("expired")
            ELSE /\ Len(r.events) = Smaller(FetchLimit, Len(log) - from)
                 /\ \A k \in 1..Len(r.events) :
                      r.events[k] = [seq |-> from + k, kind |-> log[from + k]]
        BY <3>1, <4>1, QueryAnswers
      <4> HIDE DEF reply, r
      <4>2. \/ reply = Refusal("expired")
            \/ /\ Len(s) = Smaller(FetchLimit, Len(log) - from)
               /\ \A k \in 1..Len(s) : s[k] = [seq |-> from + k, kind |-> log[from + k]]
        <5> HIDE DEF from
        <5>1. ~ (lastCursor > Len(log))
          BY <1>0, <3>1
        <5>2. CASE lastCursor > 0 /\ lastCursor + 1 <= Lost
          BY <4>1, <4>5, <5>1, <5>2
        <5>3. CASE ~ (lastCursor > 0 /\ lastCursor + 1 <= Lost)
          BY <4>1, <4>5, <5>1, <5>3
        <5> QED BY <5>2, <5>3
      <4>3. CASE reply = Refusal("expired")
        <5>1. s = <<>>
          BY <4>3 DEF Refusal
        <5> QED BY <3>2, <5>1
      <4>4. CASE /\ Len(s) = Smaller(FetchLimit, Len(log) - from)
                 /\ \A k \in 1..Len(s) : s[k] = [seq |-> from + k, kind |-> log[from + k]]
        <5>1. from \in lastCursor..Len(log) /\ (lastCursor > 0 => from = lastCursor)
          BY <1>0, <3>1, LogBound
        <5> HIDE DEF from, s
        <5>2. from + Len(s) <= Len(log)
          BY <1>0, <3>1, <4>4, <5>1 DEF Smaller
        <5> QED BY <4>4, <5>1, <5>2 DEF Continues, StretchFrom
      <4> QED BY <4>2, <4>3, <4>4
    <3> QED BY <3>1, <3>3, <3>4
  <2>6. PICK t : t = s
    OBVIOUS
  <2>7. Continues(t)'
    BY <2>1, <2>5, <2>6 DEF Continues, StretchFrom
  <2>8. Continues(polls[p].reply.events)'
    BY <2>4, <2>6, <2>7 DEF Continues, StretchFrom
  <2>9. PollsContinue'
    BY <2>1, <2>3, <2>4, <2>8 DEF PollsContinue
  <2> QED BY <1>10, <2>1, <2>2, <2>9 DEF StreamInv
<1>13. ASSUME NEW p \in Polls, polls' = [polls EXCEPT ![p] = NoPoll] PROVE PollsContinue'
  <2>1. \A q \in Polls : q = p
    BY DEF OnePoll
  <2>2. polls'[p].pc = "idle"
    BY <1>13 DEF TypeOK, NoPoll
  <2> QED BY <2>1, <2>2 DEF PollsContinue
<1>14. ASSUME NEW p \in Polls, FetchFail(p) PROVE StreamInv'
  <2>1. UNCHANGED <<log, lastCursor, events, status>> /\ status # "none"
    BY <1>14 DEF FetchFail, sub, ring, StreamInv, NewSubscription
  <2> QED BY <1>10, <1>13, <1>14, <2>1 DEF FetchFail, StreamInv
<1>15. ASSUME NEW p \in Polls, PollEnd(p) PROVE StreamInv'
  <2> DEFINE new == Passed(polls[p].reply.events)
             room == Smaller(Len(new), MaxBuffered - Len(events))
             q == SubSeq(new, 1, room)
             L == Len(events)
  <2>1. /\ events' = events \o q
        /\ lastCursor' = IF new = <<>> THEN lastCursor ELSE Last(new).seq
        /\ log' = log /\ status' = status /\ PollsContinue'
        /\ polls[p].pc = "answered" /\ status # "none"
    BY <1>13, <1>15 DEF PollEnd, ring, StreamInv, NewSubscription
  <2>2. /\ new \in Seq(Events) /\ room \in 0..Len(new) /\ room <= MaxBuffered - L
        /\ room < Len(new) => room = MaxBuffered - L
        /\ \A k \in 1..Len(new) :
              /\ new[k].seq \in Nat /\ lastCursor < new[k].seq /\ new[k].seq <= Len(log)
              /\ \A j \in 1..(k - 1) : new[j].seq < new[k].seq
    BY <2>1, Handover
  <2>3. /\ L \in Nat
        /\ \A i \in 1..L : events[i].seq \in Nat /\ events[i].seq <= lastCursor
                           /\ \A j \in 1..(i - 1) : events[j].seq < events[i].seq
        /\ L < MaxBuffered => lastCursor = IF events = <<>> THEN 0 ELSE Last(events).seq
        /\ lastCursor <= Len(log)
    <3>1. \A i \in 1..L : events[i].seq \in Nat
      <4> TAKE i \in 1..L
      <4>1. events[i] \in Events
        BY <1>0, ElementOfSeq
      <4> QED BY <1>0, <4>1 DEF Events
    <3> QED BY <1>0, <3>1 DEF StreamInv, BufferInOrder
  <2> HIDE DEF new, room
  <2>4. /\ q \in Seq(Events) /\ Len(q) = room
        /\ \A k \in 1..room : q[k] = new[k]
    BY <2>2
  <2> HIDE DEF q
  <2>5. /\ events' \in Seq(Events) /\ Len(events') = L + room
        /\ \A i \in 1..(L + room) : events'[i] = IF i <= L THEN events[i] ELSE new[i - L]
    <3>1. /\ events \o q \in Seq(Events) /\ Len(events \o q) = L + room
          /\ \A i \in 1..(L + room) : (events \o q)[i] = IF i <= L THEN events[i] ELSE q[i - L]
      BY <1>0, <2>4, ConcatProperties
    <3>2. \A i \in 1..(L + room) : i > L => i - L \in 1..room
      BY <2>2, <2>3
    <3> QED BY <2>1, <2>3, <2>4, <3>1, <3>2
  <2>6. /\ lastCursor' \in Nat /\ lastCursor <= lastCursor' /\ lastCursor' <= Len(log)
        /\ \A k \in 1..Len(new) : new[k].seq <= lastCursor'
    <3>1. CASE new = <<>>
      BY <1>0, <2>1, <2>3, <3>1
    <3>2. CASE new # <<>>
      <4>1. Len(new) \in 1..Len(new) /\ lastCursor' = new[Len(new)].seq
        BY <2>1, <2>2, <3>2 DEF Last
      <4>2. ASSUME NEW k \in 1..Len(new) PROVE new[k].seq <= new[Len(new)].seq
        <5>1. CASE k = Len(new)
          BY <2>2, <5>1
        <5>2. CASE k \in 1..(Len(new) - 1)
          BY <2>2, <4>1, <5>2
        <5> QED BY <2>2, <5>1, <5>2
      <4> QED BY <1>0, <2>2, <4>1, <4>2
    <3> QED BY <3>1, <3>2
  <2>7. ASSUME NEW i \in 1..Len(events')
        PROVE  /\ events'[i].seq <= lastCursor'
               /\ \A j \in 1..(i - 1) : events'[j].seq < events'[i].seq
    <3>1. CASE i <= L
      <4>1. i \in 1..L /\ events'[i] = events[i]
        BY <2>3, <2>5, <3>1
      <4>2. \A j \in 1..(i - 1) : events'[j] = events[j]
        BY <2>3, <2>5, <3>1
      <4> QED BY <1>0, <2>3, <2>6, <4>1, <4>2
    <3>2. CASE i > L
      <4>1. i - L \in 1..room /\ i - L \in 1..Len(new) /\ events'[i] = new[i - L]
        BY <2>2, <2>3, <2>5, <3>2
      <4>2. ASSUME NEW j \in 1..(i - 1) PROVE events'[j].seq < events'[i].seq
        <5>1. CASE j <= L
          <6>1. j \in 1..L /\ events'[j] = events[j]
            BY <2>2, <2>3, <2>5, <5>1
          <6>2. events[j].seq \in Nat /\ events[j].seq <= lastCursor
            BY <2>3, <6>1
          <6>3. new[i - L].seq \in Nat /\ lastCursor < new[i - L].seq
            BY <2>2, <4>1
          <6> QED BY <1>0, <4>1, <6>1, <6>2, <6>3
        <5>2. CASE j > L
          <6>1. j - L \in 1..((i - L) - 1) /\ events'[j] = new[j - L]
            BY <2>2, <2>3, <2>5, <5>2
          <6> QED BY <2>2, <4>1, <6>1
        <5> QED BY <2>3, <5>1, <5>2
      <4> QED BY <2>6, <4>1, <4>2
    <3> QED BY <2>3, <2>5, <3>1, <3>2
  <2>8. ASSUME Len(events') < MaxBuffered
        PROVE  lastCursor' = IF events' = <<>> THEN 0 ELSE Last(events').seq
    <3>1. room = Len(new) /\ L < MaxBuffered
      BY <1>0, <2>2, <2>3, <2>5, <2>8
    <3>2. CASE new = <<>>
      <4>1. events' = events /\ lastCursor' = lastCursor
        <5>1. Len(new) = 0 /\ Len(events') = L
          BY <2>3, <2>5, <3>1, <3>2
        <5>2. \A i \in 1..L : events'[i] = events[i]
          BY <2>3, <2>5, <3>1, <5>1
        <5> QED BY <1>0, <2>1, <2>5, <3>2, <5>1, <5>2, SeqEqual
      <4> QED BY <2>3, <3>1, <4>1
    <3>3. CASE new # <<>>
      <4>1. Len(new) \in 1..Len(new) /\ lastCursor' = new[Len(new)].seq
        BY <2>1, <2>2, <3>3 DEF Last
      <4>2. events' # <<>> /\ Last(events') = new[Len(new)]
        BY <2>3, <2>5, <3>1, <4>1 DEF Last
      <4> QED BY <4>1, <4>2
    <3> QED BY <3>2, <3>3
  <2>9. BufferInOrder'
    BY <2>1, <2>6, <2>7, <2>8 DEF BufferInOrder
  <2>10. NewSubscription'
    BY <2>1 DEF NewSubscription
  <2> QED BY <2>1, <2>9, <2>10 DEF StreamInv
<1> QED
  BY <1>2, <1>3, <1>4, <1>5, <1>7, <1>8, <1>9, <1>11, <1>12, <1>14, <1>15 DEF Next

(* The inductive invariant at the start.                                   *)
LEMMA InitIInv ==
  ASSUME RingAssumption, SubscriptionAssumption
  PROVE  Init => IInv
<1> SUFFICES ASSUME Init PROVE IInv
  OBVIOUS
<1>1. RingInv /\ TypeOK
  BY Initial
<1>2. log = <<>> /\ events = <<>> /\ lastCursor = 0 /\ \A p \in Polls : polls[p].pc = "idle"
  BY DEF Init, RingInit, NoPoll
<1>3. Len(log) = 0 /\ Len(events) = 0
  BY <1>2
<1>4. BufferInOrder
  BY <1>2, <1>3 DEF BufferInOrder
<1> QED BY <1>1, <1>2, <1>4 DEF IInv, StreamInv, NewSubscription, PollsContinue

(* With polls that do not overlap: what is fetched continues the stream    *)
(* behind the cursor, and the buffer is in the order of the log.           *)
THEOREM SubscriptionInductive == OnePoll => (Spec => []IInv)
<1> SUFFICES ASSUME OnePoll PROVE Spec => []IInv
  OBVIOUS
<1>1. Init => IInv
  BY InitIInv, RingAssumption, SubscriptionAssumption
<1>2. IInv /\ [Next]_vars => IInv'
  BY TypeStep, StreamStep, RingAssumption, SubscriptionAssumption DEF IInv
<1> QED BY <1>1, <1>2, PTL DEF Spec

-----------------------------------------------------------------------------
(* The subscription implements EventStream.                                *)

(* The first of what a poll let through are those of a stretch of the log. *)
LEMMA HandsOverStretch ==
  ASSUME NEW s \in Seq(Events), NEW from \in Nat, StretchFrom(s, from),
         NEW room \in 1..Len(Passed(s))
  PROVE  \E j \in 1..Len(s) : SubSeq(Passed(s), 1, room) = Stream!Stretch(from + 1, from + j)
<1> DEFINE S == [seq : Nat, kind : filter]
<1>1. Passed(s) = Those(s, S)
  BY DEF Passed
<1> HIDE DEF S
<1>2. PICK j \in 1..Len(s) : SubSeq(Those(s, S), 1, room) = Those(SubSeq(s, 1, j), S)
  BY <1>1, ThosePrefix
<1> DEFINE t == [k \in 1..j |-> [seq |-> from + k, kind |-> log[from + k]]]
<1>3. SubSeq(s, 1, j) = t
  <2>1. /\ SubSeq(s, 1, j) \in Seq(Events) /\ Len(SubSeq(s, 1, j)) = j
        /\ \A k \in 1..j : SubSeq(s, 1, j)[k] = s[k]
    OBVIOUS
  <2>2. SubSeq(s, 1, j) = [k \in 1..j |-> s[k]]
    BY <2>1
  <2>3. \A k \in 1..j : s[k] = [seq |-> from + k, kind |-> log[from + k]]
    BY DEF StretchFrom
  <2> QED BY <2>2, <2>3
<1>4. Stream!Stretch(from + 1, from + j) = Those(t, S)
  <2>1. (from + j) + 1 - (from + 1) = j /\ \A k \in 1..j : (from + 1) + k - 1 = from + k
    OBVIOUS
  <2>2. [k \in 1..((from + j) + 1 - (from + 1)) |-> Stream!Event((from + 1) + k - 1)] = t
    BY <2>1 DEF Stream!Event
  <2> HIDE DEF t
  <2>3. Stream!Stretch(from + 1, from + j) = Stream!Those(t, S)
    BY <2>2 DEF Stream!Stretch, S
  <2> QED BY <2>3 DEF Stream!Those, Those
<1> QED BY <1>1, <1>2, <1>3, <1>4

(* Every step is a step of EventStream or leaves what it sees alone.       *)
LEMMA StreamStepOrStutter ==
  ASSUME RingAssumption, SubscriptionAssumption, IInv, [Next]_vars
  PROVE  Stream!Next \/ UNCHANGED <<log, filter, events>>
<1> USE DEF IInv
<1>1. ASSUME NEW k \in Kinds, RecordEvent(k) PROVE Stream!Next
  <2>1. Stream!Happen(k)
    BY <1>1 DEF RecordEvent, Record, sub, Stream!Happen
  <2> QED BY <2>1 DEF Stream!Next
<1>2. ASSUME NEW b \in {"this", "other"}, NEW F \in Filters, Subscribe(b, F) PROVE Stream!Next
  <2>1. Stream!Ask(F) /\ F \in SUBSET Kinds
    BY <1>2 DEF Subscribe, ring, Stream!Ask, StreamInv, NewSubscription, SubscriptionAssumption
  <2> QED BY <2>1 DEF Stream!Next
<1>3. ASSUME NEW p \in Polls, PollEnd(p) PROVE Stream!Next \/ UNCHANGED <<log, filter, events>>
  <2> DEFINE s == polls[p].reply.events
             new == Passed(s)
             room == Smaller(Len(new), MaxBuffered - Len(events))
  <2>1. /\ events' = events \o SubSeq(new, 1, room) /\ log' = log /\ filter' = filter
        /\ polls[p].pc = "answered"
    BY <1>3 DEF PollEnd, ring
  <2>2. new \in Seq(Events) /\ room \in 0..Len(new) /\ room <= MaxBuffered - Len(events)
    BY <2>1, Handover
  <2>3. /\ s \in Seq(Events) /\ events \in Seq(Events) /\ MaxBuffered \in Nat
        /\ lastCursor \in Nat /\ Len(log) \in Nat
    BY LogBound DEF TypeOK, RingAssumption, SubscriptionAssumption
  <2>4. PICK from \in lastCursor..Len(log) :
               (lastCursor > 0 => from = lastCursor) /\ StretchFrom(s, from)
    BY <2>1 DEF StreamInv, PollsContinue, Continues
  <2>5. CASE room = 0
    <3>1. SubSeq(new, 1, room) = <<>>
      BY <2>5, SubSeqEmpty
    <3>2. events' = events
      BY <2>1, <2>3, <3>1, ConcatEmptySeq
    <3> QED BY <2>1, <3>2
  <2>6. CASE room > 0
    <3>1. room \in 1..Len(new) /\ from \in Nat
      BY <2>2, <2>3, <2>4, <2>6
    <3>2. PICK j \in 1..Len(s) : SubSeq(new, 1, room) = Stream!Stretch(from + 1, from + j)
      <4> HIDE DEF s, room
      <4> QED BY <2>3, <2>4, <3>1, HandsOverStretch
    <3>3. from + 1 \in 1..Len(log) /\ from + j \in (from + 1)..Len(log)
      BY <2>3, <2>4, <3>1 DEF StretchFrom
    <3>4. events # <<>> => from + 1 = Last(events).seq + 1
      <4> SUFFICES ASSUME events # <<>> PROVE from = Last(events).seq
        OBVIOUS
      <4> HIDE DEF room
      <4>1. Len(events) < MaxBuffered
        BY <2>2, <2>3, <2>6
      <4>2. lastCursor = Last(events).seq
        BY <4>1 DEF StreamInv, BufferInOrder
      <4>3. Last(events) \in Events
        <5>1. Len(events) \in 1..Len(events)
          BY <2>3
        <5> QED BY <2>3, <5>1, ElementOfSeq DEF Last
      <4>4. lastCursor > 0
        BY <4>2, <4>3 DEF Events
      <4> QED BY <2>4, <4>2, <4>4
    <3>5. Stream!Deliver(from + 1, from + j)
      <4>1. events' = events \o Stream!Stretch(from + 1, from + j)
        BY <2>1, <3>2
      <4> QED BY <2>1, <3>4, <4>1 DEF Stream!Deliver, Last, Stream!Last
    <3> QED BY <3>3, <3>5 DEF Stream!Next
  <2> QED BY <2>2, <2>5, <2>6
<1>4. CASE UNCHANGED vars
  BY <1>4 DEF vars, ring, sub
<1>5. CASE BridgeGone \/ TimeToLivePasses \/ Unsubscribe \/ StopPolling
  BY <1>5 DEF BridgeGone, TimeToLivePasses, Unsubscribe, StopPolling, ring, sub
<1>6. ASSUME NEW p \in Polls, PollBegin(p) \/ Fetch(p) \/ FetchFail(p)
      PROVE  UNCHANGED <<log, filter, events>>
  BY <1>6 DEF PollBegin, Fetch, FetchFail, ring, sub
<1> QED BY <1>1, <1>2, <1>3, <1>4, <1>5, <1>6 DEF Next

(* IsEventStream: with polls that do not overlap, out of what its filter   *)
(* wants a subscription hands over a stretch of the log without a hole, in *)
(* order and each event once, whatever is recorded, dropped by the ring or *)
(* lost on the way in the meantime.                                        *)
THEOREM SubscriptionIsStream == OnePoll => (Spec => IsEventStream)
<1> SUFFICES ASSUME OnePoll PROVE Spec => IsEventStream
  OBVIOUS
<1>1. Init => Stream!Init
  BY DEF Init, RingInit, Stream!Init
<1>2. IInv /\ [Next]_vars => [Stream!Next]_<<log, filter, events>>
  BY StreamStepOrStutter, RingAssumption, SubscriptionAssumption
<1>3. Spec => []IInv
  BY SubscriptionInductive
<1> QED BY <1>1, <1>2, <1>3, PTL DEF Spec, IsEventStream, Stream!Spec

-----------------------------------------------------------------------------
(* Paging.                                                                 *)

IsPages(g, limit, m) ==
  g = [n \in 0..m |->
         IF n = 0 THEN ListEvents(0, limit)
         ELSE IF g[n - 1].nextCursor = 0 THEN g[n - 1]
         ELSE [ListEvents(g[n - 1].nextCursor, limit) EXCEPT !.events = g[n - 1].events \o @]]

(* The recursion of Pages has a value for every number of pages.           *)
LEMMA PagesExist ==
  ASSUME NEW limit, NEW m \in Nat
  PROVE  \E g : IsPages(g, limit, m)
<1> DEFINE A == {n \in Nat : \E g : IsPages(g, limit, n)}
           Step(r) == IF r.nextCursor = 0 THEN r
                      ELSE [ListEvents(r.nextCursor, limit) EXCEPT !.events = r.events \o @]
<1>1. 0 \in A
  <2>1. IsPages([n \in 0..0 |-> ListEvents(0, limit)], limit, 0)
    BY DEF IsPages
  <2> QED BY <2>1
<1>2. ASSUME NEW n \in Nat, n \in A PROVE n + 1 \in A
  <2>1. PICK g : IsPages(g, limit, n)
    BY <1>2
  <2> DEFINE h == [i \in 0..(n + 1) |-> IF i = n + 1 THEN Step(g[n]) ELSE g[i]]
  <2> HIDE DEF Step
  <2>2. ASSUME NEW i \in 0..(n + 1)
        PROVE  h[i] = IF i = 0 THEN ListEvents(0, limit) ELSE Step(h[i - 1])
    <3>1. CASE i = n + 1
      <4>1. i - 1 = n /\ h[i - 1] = g[n] /\ i # 0
        BY <3>1
      <4> QED BY <3>1, <4>1
    <3>2. CASE i # n + 1
      <4>1. i \in 0..n /\ h[i] = g[i] /\ (i # 0 => h[i - 1] = g[i - 1])
        BY <3>2
      <4>2. g[i] = IF i = 0 THEN ListEvents(0, limit) ELSE Step(g[i - 1])
        BY <2>1, <4>1 DEF IsPages, Step
      <4> HIDE DEF h
      <4> QED BY <4>1, <4>2
    <3> QED BY <3>1, <3>2
  <2>3. h = [i \in 0..(n + 1) |-> IF i = 0 THEN ListEvents(0, limit) ELSE Step(h[i - 1])]
    <3>1. h = [i \in 0..(n + 1) |-> h[i]]
      OBVIOUS
    <3> HIDE DEF h
    <3> QED BY <2>2, <3>1
  <2>4. IsPages(h, limit, n + 1)
    <3> HIDE DEF h
    <3> QED BY <2>3 DEF IsPages, Step
  <2> HIDE DEF h
  <2> QED BY <2>4
<1>3. Nat \subseteq A
  <2> HIDE DEF A
  <2> QED BY <1>1, <1>2, Induction
<1> QED BY <1>3

(* The page behind the first m events.                                     *)
LEMMA PageBehind ==
  ASSUME RingAssumption, SubscriptionAssumption, IInv,
         NEW m \in 0..Len(events), NEW limit \in Nat \ {0},
         NEW after, after = IF m = 0 THEN 0 ELSE events[m].seq
  PROVE  \E c \in 0..(Len(events) - m) :
           /\ ListEvents(after, limit).events = SubSeq(events, m + 1, m + c)
           /\ IF m + c < Len(events)
              THEN c > 0 /\ ListEvents(after, limit).nextCursor = events[m + c].seq
              ELSE ListEvents(after, limit).nextCursor = 0
           /\ DOMAIN ListEvents(after, limit) = {"events", "nextCursor"}
<1> DEFINE S == [seq : (after + 1)..MaxEvents, kind : Kinds]
           L == Len(events)
           found == Those(events, S)
<1>1. /\ events \in Seq(Events) /\ L \in Nat /\ MaxEvents \in Nat
      /\ \A i \in 1..L : events[i] \in Events
  BY ElementOfSeq DEF IInv, TypeOK, RingAssumption
<1>2. \A i \in 1..L : \A j \in 1..(i - 1) : events[j].seq < events[i].seq
  BY DEF IInv, StreamInv, BufferInOrder
<1>3. after \in Nat
  BY <1>1 DEF Events
<1>4. ASSUME NEW i \in 1..m PROVE events[i] \notin S
  <2>1. events[i].seq <= events[m].seq /\ m # 0
    <3>1. CASE i = m
      BY <1>1, <3>1 DEF Events
    <3>2. CASE i \in 1..(m - 1)
      <4>1. m \in 1..L /\ i \in 1..L
        BY <1>1, <3>2
      <4>2. events[i].seq < events[m].seq /\ events[i].seq \in Nat /\ events[m].seq \in Nat
        BY <1>1, <1>2, <3>2, <4>1 DEF Events
      <4> QED BY <4>1, <4>2
    <3> QED BY <1>1, <3>1, <3>2
  <2> QED BY <1>1, <1>3, <2>1
<1>5. ASSUME NEW i \in (m + 1)..L PROVE events[i] \in S
  <2>1. events[i] \in Events /\ i \in 1..L
    BY <1>1
  <2>2. after < events[i].seq
    <3>1. CASE m = 0
      BY <2>1, <3>1 DEF Events
    <3>2. CASE m # 0
      <4>1. m \in 1..(i - 1)
        BY <1>1, <3>2
      <4> QED BY <1>2, <2>1, <3>2, <4>1
    <3> QED BY <3>1, <3>2
  <2> QED BY <1>1, <1>3, <2>1, <2>2 DEF Events
<1> HIDE DEF S
<1>6. found = SubSeq(events, m + 1, L)
  BY <1>1, <1>4, <1>5, ThoseSuffix
<1> HIDE DEF found
<1>7. /\ found \in Seq(Events) /\ Len(found) = L - m
      /\ \A i \in 1..(L - m) : found[i] = events[m + i]
  BY <1>1, <1>6
<1> DEFINE c == Smaller(limit, L - m)
           page == SubSeq(found, 1, c)
<1>8. ListEvents(after, limit) =
        [events |-> page, nextCursor |-> IF L - m > limit THEN Last(page).seq ELSE 0]
  BY <1>7 DEF ListEvents, found, S
<1>9. c \in 0..(L - m) /\ (L - m > limit => c = limit) /\ (~ (L - m > limit) => c = L - m)
  BY <1>1 DEF Smaller
<1> HIDE DEF c
<1>10. /\ page \in Seq(Events) /\ Len(page) = c
       /\ \A i \in 1..c : page[i] = events[m + i]
  <2>1. page \in Seq(Events) /\ Len(page) = c /\ \A i \in 1..c : page[i] = found[i]
    BY <1>1, <1>7, <1>9
  <2>2. \A i \in 1..c : i \in 1..(L - m)
    BY <1>1, <1>9
  <2> QED BY <1>7, <2>1, <2>2
<1> HIDE DEF page
<1>11. page = SubSeq(events, m + 1, m + c)
  <2> DEFINE t == SubSeq(events, m + 1, m + c)
  <2>1. t \in Seq(Events) /\ Len(t) = c /\ \A i \in 1..c : t[i] = events[m + i]
    BY <1>1, <1>9
  <2> HIDE DEF t
  <2> QED BY <1>10, <2>1, SeqEqual DEF t
<1>12. CASE L - m > limit
  <2>1. c > 0 /\ m + c < L /\ c \in 1..c
    BY <1>1, <1>9, <1>12
  <2>2. Last(page) = events[m + c]
    BY <1>10, <2>1 DEF Last
  <2>3. /\ ListEvents(after, limit).events = page
        /\ ListEvents(after, limit).nextCursor = events[m + c].seq
        /\ DOMAIN ListEvents(after, limit) = {"events", "nextCursor"}
    <3>1. ListEvents(after, limit) = [events |-> page, nextCursor |-> Last(page).seq]
      BY <1>8, <1>12
    <3> QED BY <2>2, <3>1
  <2> QED BY <1>9, <1>11, <2>1, <2>3
<1>13. CASE ~ (L - m > limit)
  <2>1. m + c = L
    BY <1>1, <1>9, <1>13
  <2>2. /\ ListEvents(after, limit).events = page /\ ListEvents(after, limit).nextCursor = 0
        /\ DOMAIN ListEvents(after, limit) = {"events", "nextCursor"}
    BY <1>8, <1>13
  <2>3. ~ (m + c < L)
    BY <1>1, <2>1
  <2> QED BY <1>9, <1>11, <2>2, <2>3
<1> QED BY <1>12, <1>13

(* PagingIsComplete: the pages are the events one after the other, up to   *)
(* the one with no next cursor, which comes before the pages run out.      *)
LEMMA PagesAreComplete ==
  ASSUME RingAssumption, SubscriptionAssumption, IInv
  PROVE  PagingIsComplete
<1> SUFFICES ASSUME NEW limit \in 1..(MaxBuffered + 1) PROVE Pages(limit).events = events
  BY DEF PagingIsComplete
<1>1. /\ MaxBuffered \in Nat /\ limit \in Nat \ {0} /\ events \in Seq(Events)
      /\ Len(events) \in Nat /\ Len(events) <= MaxBuffered
      /\ \A i \in 1..Len(events) : events[i].seq \in Nat \ {0}
  <2>1. \A i \in 1..Len(events) : events[i] \in Events
    BY ElementOfSeq DEF IInv, TypeOK
  <2> QED BY <2>1 DEF IInv, TypeOK, SubscriptionAssumption, RingAssumption, Events
<1> DEFINE g == CHOOSE f : IsPages(f, limit, MaxBuffered)
<1>2. IsPages(g, limit, MaxBuffered)
  BY <1>1, PagesExist
<1>3. Pages(limit) = g[MaxBuffered]
  BY DEF Pages, IsPages
<1> HIDE DEF g
<1> DEFINE Reads(r, n) ==
             \E m \in 0..Len(events) :
               /\ r.events = SubSeq(events, 1, m)
               /\ IF m = Len(events) THEN r.nextCursor = 0
                  ELSE m > n /\ r.nextCursor = events[m].seq
           A == {n \in Nat : n <= MaxBuffered => Reads(g[n], n)}
<1>4. 0 \in A
  <2>1. g[0] = ListEvents(0, limit)
    BY <1>1, <1>2 DEF IsPages
  <2>2. PICK c \in 0..Len(events) :
               /\ g[0].events = SubSeq(events, 1, c)
               /\ IF c < Len(events)
                  THEN c > 0 /\ g[0].nextCursor = events[c].seq
                  ELSE g[0].nextCursor = 0
    <3>1. 0 \in 0..Len(events)
      BY <1>1
    <3>2. PICK c \in 0..(Len(events) - 0) :
               /\ ListEvents(0, limit).events = SubSeq(events, 0 + 1, 0 + c)
               /\ IF 0 + c < Len(events)
                  THEN c > 0 /\ ListEvents(0, limit).nextCursor = events[0 + c].seq
                  ELSE ListEvents(0, limit).nextCursor = 0
      BY <1>1, <3>1, PageBehind
    <3>3. 0 + c = c /\ 0 + 1 = 1 /\ c \in 0..Len(events)
      BY <1>1
    <3> QED BY <2>1, <3>2, <3>3
  <2>3. IF c = Len(events) THEN g[0].nextCursor = 0
        ELSE c > 0 /\ g[0].nextCursor = events[c].seq
    BY <1>1, <2>2
  <2>4. Reads(g[0], 0)
    BY <2>2, <2>3
  <2> QED BY <2>4
<1>5. ASSUME NEW n \in Nat, n \in A PROVE n + 1 \in A
  <2> SUFFICES ASSUME n + 1 <= MaxBuffered PROVE Reads(g[n + 1], n + 1)
    OBVIOUS
  <2>1. PICK m \in 0..Len(events) :
               /\ g[n].events = SubSeq(events, 1, m)
               /\ IF m = Len(events) THEN g[n].nextCursor = 0
                  ELSE m > n /\ g[n].nextCursor = events[m].seq
    BY <1>1, <1>5
  <2> DEFINE i == n + 1
  <2>2. i \in 0..MaxBuffered /\ i # 0 /\ i - 1 = n
    BY <1>1
  <2> HIDE DEF i
  <2>3. g[i] = IF g[i - 1].nextCursor = 0 THEN g[i - 1]
               ELSE [ListEvents(g[i - 1].nextCursor, limit) EXCEPT !.events = g[i - 1].events \o @]
    BY <1>2, <2>2 DEF IsPages
  <2>4. CASE m = Len(events)
    <3>1. g[i] = g[n]
      BY <2>1, <2>2, <2>3, <2>4
    <3> QED BY <1>1, <2>1, <2>4, <3>1 DEF i
  <2>5. CASE m # Len(events)
    <3> DEFINE after == events[m].seq
               r == ListEvents(after, limit)
    <3>1. m > n /\ m \in 1..Len(events) /\ g[n].nextCursor = after /\ after # 0
      BY <1>1, <2>1, <2>5
    <3>2. PICK c \in 0..(Len(events) - m) :
             /\ r.events = SubSeq(events, m + 1, m + c)
             /\ IF m + c < Len(events)
                THEN c > 0 /\ r.nextCursor = events[m + c].seq
                ELSE r.nextCursor = 0
             /\ DOMAIN r = {"events", "nextCursor"}
      <4>1. after = IF m = 0 THEN 0 ELSE events[m].seq
        BY <3>1
      <4> HIDE DEF after
      <4> QED BY <1>1, <4>1, PageBehind
    <3>3. g[i] = [r EXCEPT !.events = g[n].events \o @]
      BY <2>2, <2>3, <3>1
    <3> HIDE DEF after, r
    <3>4. g[i].events = g[n].events \o r.events /\ g[i].nextCursor = r.nextCursor
      BY <3>2, <3>3
    <3>5. SubSeq(events, 1, m) \o SubSeq(events, m + 1, m + c) = SubSeq(events, 1, m + c)
      <4>1. m \in (1 - 1)..Len(events) /\ m + c \in m..Len(events) /\ 1 \in 1..(Len(events) + 1)
        BY <1>1, <3>1
      <4> QED BY <1>1, <4>1, ConcatAdjacentSubSeq
    <3>6. /\ m + c \in 0..Len(events) /\ g[i].events = SubSeq(events, 1, m + c)
          /\ IF m + c = Len(events) THEN g[i].nextCursor = 0
             ELSE m + c > i /\ g[i].nextCursor = events[m + c].seq
      BY <1>1, <2>1, <3>1, <3>2, <3>4, <3>5 DEF i
    <3> QED BY <3>6 DEF i
  <2> QED BY <2>4, <2>5
<1>6. Nat \subseteq A
  <2> HIDE DEF A
  <2> QED BY <1>4, <1>5, Induction
<1>7. Reads(g[MaxBuffered], MaxBuffered)
  <2>1. MaxBuffered \in A
    <3> HIDE DEF A
    <3> QED BY <1>1, <1>6
  <2> QED BY <1>1, <2>1
<1>8. g[MaxBuffered].events = SubSeq(events, 1, Len(events))
  BY <1>1, <1>7
<1> QED BY <1>1, <1>3, <1>8, SubSeqFull

(* PagingIsComplete: a consumer that follows nextCursor through          *)
(* listEvents gets the buffer, each event once and in order, whatever the  *)
(* size of the pages, when polls do not overlap.                           *)
THEOREM PagesComplete == OnePoll => (Spec => []PagingIsComplete)
<1> SUFFICES ASSUME OnePoll PROVE Spec => []PagingIsComplete
  OBVIOUS
<1>1. Spec => []IInv
  BY SubscriptionInductive
<1>2. IInv => PagingIsComplete
  BY PagesAreComplete, RingAssumption, SubscriptionAssumption
<1> QED BY <1>1, <1>2, PTL
=============================================================================
