---------------------------- MODULE FilterProofs ----------------------------
(***************************************************************************)
(* What Only returns, keeps and bounds, and the least and greatest number  *)
(* of a set, by induction over the numbers.  Induction is stated of a set, *)
(* as no lemma about an operator can be instantiated.                      *)
(***************************************************************************)
EXTENDS Filter, Integers, Sequences, SequencesExt, WellFoundedInduction, TLAPS

\* A set of numbers has a least one.
LEMMA Least ==
  ASSUME NEW S \in SUBSET Nat, S # {}
  PROVE  \E m \in S : \A n \in S : m <= n
<1>1. IsWellFoundedOn(OpToRel(<, Nat), Nat)
  BY NatLessThanWellFounded
<1>2. PICK m \in S : \A n \in S : ~(<<n, m>> \in OpToRel(<, Nat))
  BY <1>1, WFMin, Zenon
<1>3. ASSUME NEW n \in S, n < m PROVE <<n, m>> \in OpToRel(<, Nat)
  BY <1>3 DEF OpToRel
<1>4. \A n \in S : ~(n < m)
  BY <1>2, <1>3, Zenon
<1> QED BY <1>4

\* The minimum of a set of numbers is the least of them.
LEMMA LeastIsMin ==
  ASSUME NEW S \in SUBSET Nat, S # {}
  PROVE  Min(S) \in S /\ \A n \in S : Min(S) <= n
  BY Least DEF Min

\* And the maximum, where there is one, is the greatest.
LEMMA GreatestIsMax ==
  ASSUME NEW k \in Nat, NEW S \in SUBSET (1..k), S # {}
  PROVE  Max(S) \in S /\ \A n \in S : Max(S) >= n
<1>1. {k - n : n \in S} \in SUBSET Nat /\ {k - n : n \in S} # {}
  <2>1. \A n \in S : k - n \in Nat
    OBVIOUS
  <2>2. PICK n \in S : TRUE
    OBVIOUS
  <2> QED BY <2>1, <2>2
<1>2. PICK d \in {k - n : n \in S} : \A e \in {k - n : n \in S} : d <= e
  BY <1>1, Least
<1>3. PICK m \in S : d = k - m
  OBVIOUS
<1>4. \A n \in S : m >= n
  BY <1>2, <1>3
<1> QED BY <1>4 DEF Max

\* A set that holds 0 and the successor of each of its numbers holds them all.
LEMMA Induction ==
  ASSUME NEW H, 0 \in H, \A k \in Nat : k \in H => k + 1 \in H
  PROVE  \A k \in Nat : k \in H
<1>1. SUFFICES ASSUME Nat \ H # {} PROVE FALSE
  OBVIOUS
<1>2. PICK m \in Nat \ H : \A n \in Nat \ H : m <= n
  BY <1>1, Least
<1>3. m - 1 \in Nat /\ m - 1 \in H
  BY <1>2
<1> QED BY <1>2, <1>3

\* The loop has a result after every round: the recursion defines a function.
LEMMA RoundsExist ==
  ASSUME NEW T, NEW s \in Seq(T), NEW S
  PROVE  Rounds(s, S) = [n \in 0..Len(s) |->
            IF n = 0 THEN <<>>
            ELSE IF s[n] \in S THEN Append(Rounds(s, S)[n - 1], s[n]) ELSE Rounds(s, S)[n - 1]]
<1> DEFINE Round(f, n) == IF s[n] \in S THEN Append(f[n - 1], s[n]) ELSE f[n - 1]
           Loop(f, k) == f = [n \in 0..k |-> IF n = 0 THEN <<>> ELSE Round(f, n)]
           H == {k \in Nat : \E f : Loop(f, k)}
<1>1. 0 \in H
  <2>1. Loop([n \in 0..0 |-> <<>>], 0)
    OBVIOUS
  <2> QED BY <2>1
<1>2. ASSUME NEW k \in Nat, k \in H PROVE k + 1 \in H
  <2>1. PICK f : Loop(f, k)
    BY <1>2
  <2> DEFINE g == [n \in 0..(k + 1) |-> IF n <= k THEN f[n] ELSE Round(f, n)]
  <2>2. ASSUME NEW n \in 0..(k + 1), n # 0 PROVE g[n] = Round(g, n)
    <3>1. n - 1 \in 0..k /\ g[n - 1] = f[n - 1]
      BY <2>2
    <3>2. Round(g, n) = Round(f, n)
      BY <3>1
    <3>3. n <= k => f[n] = Round(f, n)
      <4> HIDE DEF Round
      <4>1. n <= k => n \in 0..k
        OBVIOUS
      <4> QED BY <2>1, <2>2, <4>1
    <3>4. g[n] = IF n <= k THEN f[n] ELSE Round(f, n)
      OBVIOUS
    <3> HIDE DEF g, Round
    <3> QED BY <3>2, <3>3, <3>4
  <2>3. g[0] = <<>>
    BY <2>1
  <2>4. Loop(g, k + 1)
    BY <2>2, <2>3
  <2>5. \E out : Loop(out, k + 1)
    <3> HIDE DEF g, Loop
    <3> QED BY <2>4
  <2> QED BY <2>5
<1>3. \A k \in Nat : k \in H
  <2> HIDE DEF H
  <2> QED BY <1>1, <1>2, Induction
<1>4. PICK f : Loop(f, Len(s))
  BY <1>3
<1> QED BY <1>4 DEF Rounds

\* A set that holds the empty sequence, and with each sequence over T the longer
\* ones by one element of T, holds all sequences over T.
LEMMA SequenceInduction ==
  ASSUME NEW T, NEW P, <<>> \in P, \A s \in Seq(T) : s \in P => \A x \in T : Append(s, x) \in P
  PROVE  \A s \in Seq(T) : s \in P
<1> DEFINE H == {k \in Nat : \A s \in Seq(T) : Len(s) = k => s \in P}
<1>1. 0 \in H
  OBVIOUS
<1>2. ASSUME NEW k \in Nat, k \in H PROVE k + 1 \in H
  <2> SUFFICES ASSUME NEW s \in Seq(T), Len(s) = k + 1 PROVE s \in P
    OBVIOUS
  <2>1. /\ SubSeq(s, 1, k) \in Seq(T) /\ Len(SubSeq(s, 1, k)) = k
        /\ s[k + 1] \in T
        /\ s = Append(SubSeq(s, 1, k), s[k + 1])
    OBVIOUS
  <2>2. SubSeq(s, 1, k) \in P
    BY <1>2, <2>1
  <2> QED BY <2>1, <2>2
<1>3. \A k \in Nat : k \in H
  <2> HIDE DEF H
  <2> QED BY <1>1, <1>2, Induction
<1> QED BY <1>3

\* What each round does.
LEMMA RoundsAre ==
  ASSUME NEW T, NEW s \in Seq(T), NEW S
  PROVE  /\ Rounds(s, S)[0] = <<>>
         /\ \A n \in 1..Len(s) :
              Rounds(s, S)[n] = IF s[n] \in S THEN Append(Rounds(s, S)[n - 1], s[n])
                                ELSE Rounds(s, S)[n - 1]
<1> DEFINE f == Rounds(s, S)
           Round(n) == IF s[n] \in S THEN Append(f[n - 1], s[n]) ELSE f[n - 1]
<1>1. f = [n \in 0..Len(s) |-> IF n = 0 THEN <<>> ELSE Round(n)]
  BY RoundsExist
<1>2. ASSUME NEW n \in 1..Len(s) PROVE f[n] = Round(n)
  <2>1. n \in 0..Len(s) /\ n # 0
    OBVIOUS
  <2> HIDE DEF f, Round
  <2> QED BY <1>1, <2>1
<1>3. f[0] = <<>>
  <2>1. 0 \in 0..Len(s)
    OBVIOUS
  <2> HIDE DEF f, Round
  <2> QED BY <1>1, <2>1
<1> QED BY <1>2, <1>3

\* What the loop has after k rounds depends on the first k elements alone.
LEMMA RoundsAgree ==
  ASSUME NEW T, NEW S, NEW s \in Seq(T), NEW t \in Seq(T), NEW n \in Nat,
         n <= Len(s), n <= Len(t), \A i \in 1..n : s[i] = t[i]
  PROVE  Rounds(s, S)[n] = Rounds(t, S)[n]
<1> DEFINE H == {k \in Nat : k <= n => Rounds(s, S)[k] = Rounds(t, S)[k]}
<1>1. 0 \in H
  BY RoundsAre
<1>2. ASSUME NEW k \in Nat, k \in H PROVE k + 1 \in H
  <2> SUFFICES ASSUME k + 1 <= n PROVE Rounds(s, S)[k + 1] = Rounds(t, S)[k + 1]
    OBVIOUS
  <2>1. s[k + 1] = t[k + 1] /\ Rounds(s, S)[k] = Rounds(t, S)[k]
    BY <1>2
  <2>2. ASSUME NEW u \in Seq(T), k + 1 <= Len(u)
        PROVE  Rounds(u, S)[k + 1] = IF u[k + 1] \in S THEN Append(Rounds(u, S)[k], u[k + 1])
                                     ELSE Rounds(u, S)[k]
    <3>1. k + 1 \in 1..Len(u) /\ (k + 1) - 1 = k
      BY <2>2
    <3> QED BY <3>1, RoundsAre
  <2> QED BY <2>1, <2>2
<1>3. \A k \in Nat : k \in H
  <2> HIDE DEF H
  <2> QED BY <1>1, <1>2, Induction
<1> QED BY <1>3

\* Nothing is kept of nothing.
LEMMA OnlyEmpty == ASSUME NEW S PROVE Only(<<>>, S) = <<>>
<1>1. <<>> \in Seq(Nat) /\ Len(<<>>) = 0
  OBVIOUS
<1>2. Rounds(<<>>, S)[0] = <<>>
  BY <1>1, RoundsAre
<1> QED BY <1>1, <1>2 DEF Only

\* One more element is kept, or not, at the end of what was kept before.
LEMMA OnlyAppend ==
  ASSUME NEW T, NEW S, NEW s \in Seq(T), NEW x \in T
  PROVE  Only(Append(s, x), S) = IF x \in S THEN Append(Only(s, S), x) ELSE Only(s, S)
<1> DEFINE t == Append(s, x)
           n == Len(s)
<1>1. t \in Seq(T) /\ n \in Nat /\ Len(t) = n + 1 /\ t[n + 1] = x /\ \A i \in 1..n : s[i] = t[i]
  OBVIOUS
<1> HIDE DEF t
<1>2. Rounds(t, S)[n + 1] = IF x \in S THEN Append(Rounds(t, S)[n], x) ELSE Rounds(t, S)[n]
  <2>1. n + 1 \in 1..Len(t) /\ (n + 1) - 1 = n
    BY <1>1
  <2> QED BY <1>1, <2>1, RoundsAre
<1>3. Rounds(t, S)[n] = Rounds(s, S)[n]
  BY <1>1, RoundsAgree
<1> QED BY <1>1, <1>2, <1>3 DEF Only, t

\* What is kept is a sequence of elements that may be kept.
LEMMA OnlyType ==
  ASSUME NEW T, NEW S, NEW s \in Seq(T)
  PROVE  Only(s, S) \in Seq(T \cap S)
<1> DEFINE K == T \cap S
           P == {u \in Seq(T) : Only(u, S) \in Seq(K)}
<1>1. <<>> \in P
  <2>1. Only(<<>>, S) = <<>>
    BY OnlyEmpty
  <2>2. <<>> \in Seq(K) /\ <<>> \in Seq(T)
    OBVIOUS
  <2> HIDE DEF K
  <2> QED BY <2>1, <2>2, Zenon
<1>2. ASSUME NEW u \in Seq(T), u \in P, NEW x \in T PROVE Append(u, x) \in P
  <2>1. Append(u, x) \in Seq(T) /\ Only(u, S) \in Seq(K) /\ (x \in S => x \in K)
    BY <1>2
  <2>2. Only(Append(u, x), S) = IF x \in S THEN Append(Only(u, S), x) ELSE Only(u, S)
    BY OnlyAppend
  <2> HIDE DEF K
  <2> QED BY <2>1, <2>2
<1>3. \A u \in Seq(T) : u \in P
  <2> HIDE DEF P
  <2> QED BY <1>1, <1>2, SequenceInduction
<1> QED BY <1>3

\* The elements of a sequence with one more.
LEMMA AppendMembers ==
  ASSUME NEW T, NEW s \in Seq(T), NEW x \in T
  PROVE  ToSet(Append(s, x)) = ToSet(s) \cup {x}
<1>1. DOMAIN s = 1..Len(s) /\ DOMAIN Append(s, x) = 1..(Len(s) + 1)
  OBVIOUS
<1>2. /\ \A i \in 1..Len(s) : Append(s, x)[i] = s[i]
      /\ Append(s, x)[Len(s) + 1] = x
  OBVIOUS
<1>3. 1..(Len(s) + 1) = (1..Len(s)) \cup {Len(s) + 1}
  OBVIOUS
<1> QED BY <1>1, <1>2, <1>3, Zenon DEF ToSet

\* Exactly the elements that may be kept are.
LEMMA OnlyMembers ==
  ASSUME NEW T, NEW S, NEW s \in Seq(T)
  PROVE  ToSet(Only(s, S)) = ToSet(s) \cap S
<1> DEFINE P == {u \in Seq(T) : ToSet(Only(u, S)) = ToSet(u) \cap S}
<1>1. <<>> \in P
  BY OnlyEmpty DEF ToSet
<1>2. ASSUME NEW u \in Seq(T), u \in P, NEW x \in T PROVE Append(u, x) \in P
  <2>1. Only(u, S) \in Seq(T \cap S) /\ Append(u, x) \in Seq(T)
    BY OnlyType
  <2>2. ToSet(Append(u, x)) = ToSet(u) \cup {x} /\ ToSet(Only(u, S)) = ToSet(u) \cap S
    BY <1>2, AppendMembers
  <2>3. CASE x \in S
    <3>1. ToSet(Append(Only(u, S), x)) = ToSet(Only(u, S)) \cup {x}
      <4>1. x \in T \cap S
        BY <2>3
      <4> QED BY <2>1, <4>1, AppendMembers
    <3>2. Only(Append(u, x), S) = Append(Only(u, S), x)
      BY <2>3, OnlyAppend
    <3>3. ToSet(Only(Append(u, x), S)) = ToSet(Append(u, x)) \cap S
      BY <2>2, <2>3, <3>1, <3>2
    <3> QED BY <2>1, <3>3
  <2>4. CASE x \notin S
    <3>1. Only(Append(u, x), S) = Only(u, S)
      BY <2>4, OnlyAppend
    <3>2. ToSet(Only(Append(u, x), S)) = ToSet(Append(u, x)) \cap S
      BY <2>2, <2>4, <3>1
    <3> QED BY <2>1, <3>2
  <2> QED BY <2>3, <2>4
<1>3. \A u \in Seq(T) : u \in P
  <2> HIDE DEF P
  <2> QED BY <1>1, <1>2, SequenceInduction
<1> QED BY <1>3

\* Nothing is kept of a sequence without elements to keep.
LEMMA OnlyNothing ==
  ASSUME NEW T, NEW S, NEW s \in Seq(T), ToSet(s) \cap S = {}
  PROVE  Only(s, S) = <<>>
<1> DEFINE o == Only(s, S)
           K == T \cap S
<1>1. o \in Seq(K) /\ ToSet(o) = {}
  BY OnlyType, OnlyMembers
<1> HIDE DEF o, K
<1>2. Len(o) = 0
  <2>1. \A i \in DOMAIN o : o[i] \in {}
    BY <1>1, Zenon DEF ToSet
  <2>2. DOMAIN o = 1..Len(o) /\ Len(o) \in Nat
    BY <1>1
  <2> QED BY <2>1, <2>2
<1>3. o = <<>>
  BY <1>1, <1>2
<1> QED BY <1>3 DEF o

\* A prefix of a sequence has its first elements.
LEMMA PrefixIs ==
  ASSUME NEW T, NEW s \in Seq(T), NEW t \in Seq(T)
  PROVE  IsPrefix(s, t) <=> Len(s) <= Len(t) /\ \A i \in 1..Len(s) : s[i] = t[i]
<1>1. SubSeq(s, 1, Len(s)) = s
  OBVIOUS
<1>2. ASSUME Len(s) <= Len(t)
      PROVE  s = SubSeq(t, 1, Len(s)) <=> \A i \in 1..Len(s) : s[i] = t[i]
  <2>1. /\ Len(SubSeq(t, 1, Len(s))) = Len(s) /\ SubSeq(t, 1, Len(s)) \in Seq(T)
        /\ \A i \in 1..Len(s) : SubSeq(t, 1, Len(s))[i] = t[i]
    BY <1>2
  <2> QED BY <2>1
<1> QED BY <1>1, <1>2 DEF IsPrefix

\* The beginning of a sequence keeps the beginning of what the sequence keeps.
LEMMA OnlyPrefix ==
  ASSUME NEW T, NEW S, NEW s \in Seq(T), NEW k \in 0..Len(s)
  PROVE  IsPrefix(Only(SubSeq(s, 1, k), S), Only(s, S))
<1> DEFINE K == T \cap S
           P == {u \in Seq(T) : \A j \in 0..Len(u) : IsPrefix(Only(SubSeq(u, 1, j), S), Only(u, S))}
<1>1. <<>> \in P
  <2>1. ASSUME NEW j \in 0..Len(<<>>) PROVE IsPrefix(Only(SubSeq(<<>>, 1, j), S), Only(<<>>, S))
    <3>1. SubSeq(<<>>, 1, j) = <<>> /\ IsPrefix(<<>>, <<>>)
      BY <2>1 DEF IsPrefix
    <3> QED BY <3>1, OnlyEmpty
  <2> QED BY <2>1
<1>2. ASSUME NEW u \in Seq(T), u \in P, NEW x \in T PROVE Append(u, x) \in P
  <2> SUFFICES ASSUME NEW j \in 0..Len(Append(u, x))
               PROVE  IsPrefix(Only(SubSeq(Append(u, x), 1, j), S), Only(Append(u, x), S))
    OBVIOUS
  <2>1. CASE j = Len(u) + 1
    <3>1. SubSeq(Append(u, x), 1, j) = Append(u, x) /\ Append(u, x) \in Seq(T)
      BY <2>1
    <3> DEFINE q == Only(Append(u, x), S)
    <3>2. q \in Seq(K)
      BY <3>1, OnlyType
    <3> HIDE DEF K, q
    <3>3. IsPrefix(q, q)
      BY <3>2 DEF IsPrefix
    <3> QED BY <3>1, <3>3 DEF q
  <2>2. CASE j \in 0..Len(u)
    <3>1. SubSeq(Append(u, x), 1, j) = SubSeq(u, 1, j) /\ SubSeq(u, 1, j) \in Seq(T)
      BY <2>2
    <3>2. IsPrefix(Only(SubSeq(u, 1, j), S), Only(u, S))
      BY <1>2, <2>2
    <3> DEFINE p == Only(SubSeq(u, 1, j), S)
               o == Only(u, S)
    <3>3. p \in Seq(K) /\ o \in Seq(K)
      BY <3>1, OnlyType
    <3>4. Only(Append(u, x), S) = IF x \in S THEN Append(o, x) ELSE o
      BY OnlyAppend
    <3>5. x \in S => x \in K
      OBVIOUS
    <3> HIDE DEF K, p, o
    <3>6. x \in S => IsPrefix(p, Append(o, x))
      <4> SUFFICES ASSUME x \in K PROVE IsPrefix(p, Append(o, x))
        BY <3>5
      <4> DEFINE q == Append(o, x)
      <4>1. q \in Seq(K) /\ Len(q) = Len(o) + 1 /\ \A i \in 1..Len(o) : q[i] = o[i]
        BY <3>3
      <4>2. Len(p) <= Len(o) /\ \A i \in 1..Len(p) : p[i] = o[i]
        BY <3>2, <3>3, PrefixIs DEF p, o
      <4>3. Len(p) <= Len(q) /\ \A i \in 1..Len(p) : p[i] = q[i]
        BY <3>3, <4>1, <4>2
      <4> HIDE DEF q
      <4>4. IsPrefix(p, q)
        BY <3>3, <4>1, <4>3, PrefixIs
      <4> QED BY <4>4 DEF q
    <3> QED BY <3>1, <3>2, <3>4, <3>6 DEF p, o
  <2> QED BY <2>1, <2>2
<1>3. \A u \in Seq(T) : u \in P
  <2> HIDE DEF P
  <2> QED BY <1>1, <1>2, SequenceInduction
<1> QED BY <1>3
=============================================================================
