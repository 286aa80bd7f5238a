--------------------------- MODULE SearchWalkProofs ---------------------------
(* The search, for any document, any number of searches, edits and failures, *)
(* any length of a run and any place at which an answer is cut short: what   *)
(* is listed is what there is, in reading order, and what is marked is what  *)
(* was listed.                                                               *)
EXTENDS SearchWalk, TLAPS, SequenceTheorems, FiniteSetTheorems, WellFoundedInduction

-----------------------------------------------------------------------------
\* Subsequences.

LEMMA LeastNumber ==
    ASSUME NEW S \in SUBSET Nat, S # {}
    PROVE  \E i \in S : \A k \in S : i <= k
<1>1. \E i \in S : \A k \in S : ~(<<k, i>> \in OpToRel(<, Nat))
  BY NatLessThanWellFounded, WFMin
<1>2. PICK i \in S : \A k \in S : ~(<<k, i>> \in OpToRel(<, Nat))
  BY <1>1
<1>3. \A k \in S : ~(k < i)
  BY <1>2 DEF OpToRel
<1> QED  BY <1>3

\* Induction, up to a number, for a set.
LEMMA UpTo ==
    ASSUME NEW m \in Nat, NEW S, 0 \in S, \A n \in 1..m : n - 1 \in S => n \in S
    PROVE  \A n \in 0..m : n \in S
<1> DEFINE Bad == {n \in 0..m : n \notin S}
<1>1. CASE Bad = {}
  BY <1>1
<1>2. CASE Bad # {}
  <2>1. PICK i \in Bad : \A k \in Bad : i <= k
    <3>1. Bad \in SUBSET Nat
      OBVIOUS
    <3> HIDE DEF Bad
    <3> QED  BY <1>2, <3>1, LeastNumber
  <2>2. i \in 0..m /\ i \notin S /\ \A k \in 0..m : k \notin S => i <= k
    BY <2>1
  <2> HIDE DEF Bad
  <2>3. i \in 1..m
    BY <2>2
  <2>4. i - 1 \in 0..m /\ i - 1 \in S
    BY <2>2, <2>3
  <2> QED  BY <2>2, <2>3, <2>4
<1> QED  BY <1>1, <1>2

\* What has been kept of the first n entries.
With(kept, s, n, places) == IF n \in places THEN Append(kept, s[n]) ELSE kept

IsCourse(kept, s, places, m) ==
    kept = [n \in 0..m |-> IF n = 0 THEN <<>> ELSE With(kept[n - 1], s, n, places)]

Kept(s, places) == CHOOSE kept : IsCourse(kept, s, places, Len(s))

LEMMA CourseExists ==
    ASSUME NEW s, NEW places, NEW m \in Nat
    PROVE  \E f : IsCourse(f, s, places, m)
<1> DEFINE S == {k \in Nat : \E f : IsCourse(f, s, places, k)}
<1>1. 0 \in S
  <2>1. [n \in 0..0 |-> <<>>] =
          [n \in 0..0 |->
             IF n = 0 THEN <<>> ELSE With([k \in 0..0 |-> <<>>][n - 1], s, n, places)]
    OBVIOUS
  <2>2. IsCourse([n \in 0..0 |-> <<>>], s, places, 0)
    BY <2>1 DEF IsCourse
  <2> QED  BY <2>2
<1>2. ASSUME NEW k \in 1..m, k - 1 \in S  PROVE k \in S
  <2>1. PICK f : IsCourse(f, s, places, k - 1)
    BY <1>2
  <2> DEFINE g == [n \in 0..k |-> IF n = k THEN With(f[k - 1], s, k, places) ELSE f[n]]
  <2>2. ASSUME NEW n \in 0..k
        PROVE  g[n] = IF n = 0 THEN <<>> ELSE With(g[n - 1], s, n, places)
    <3>1. CASE n = k
      <4>1. g[n] = With(f[k - 1], s, k, places) /\ g[n - 1] = f[n - 1]
        BY <3>1
      <4> QED  BY <3>1, <4>1
    <3>2. CASE n # k
      <4>1. n \in 0..k - 1 /\ g[n] = f[n] /\ (n # 0 => g[n - 1] = f[n - 1])
        BY <3>2
      <4>2. f[n] = IF n = 0 THEN <<>> ELSE With(f[n - 1], s, n, places)
        BY <2>1, <4>1 DEF IsCourse
      <4> QED  BY <4>1, <4>2
    <3> QED  BY <3>1, <3>2
  <2>3. IsCourse(g, s, places, k)
    <3>1. g = [n \in 0..k |-> g[n]]
      OBVIOUS
    <3> HIDE DEF g
    <3> QED  BY <2>2, <3>1 DEF IsCourse
  <2> QED  BY <2>3
<1>3. \A k \in 0..m : k \in S
  <2> HIDE DEF S
  <2> QED  BY <1>1, <1>2, UpTo
<1> QED  BY <1>3

LEMMA KeptIs ==
    ASSUME NEW s, NEW places, Len(s) \in Nat
    PROVE  /\ Kept(s, places)[0] = <<>>
           /\ \A n \in 1..Len(s) :
                 Kept(s, places)[n] = With(Kept(s, places)[n - 1], s, n, places)
           /\ Subsequence(s, places) = Kept(s, places)[Len(s)]
<1>1. IsCourse(Kept(s, places), s, places, Len(s))
  BY CourseExists DEF Kept
<1>2. PICK f, m : f = Kept(s, places) /\ m = Len(s)
  OBVIOUS
<1>3. f = [n \in 0..m |-> IF n = 0 THEN <<>> ELSE With(f[n - 1], s, n, places)]
  BY <1>1, <1>2 DEF IsCourse
<1>4. \A n \in 0..m : f[n] = IF n = 0 THEN <<>> ELSE With(f[n - 1], s, n, places)
  BY <1>3
<1>5. f[0] = <<>> /\ \A n \in 1..m : f[n] = With(f[n - 1], s, n, places)
  BY <1>2, <1>4
<1>6. Subsequence(s, places) = Kept(s, places)[Len(s)]
  BY DEF Subsequence, Kept, IsCourse, With
<1> QED  BY <1>2, <1>5, <1>6

Has(f, s, places) == \A x : (\E i \in DOMAIN f : f[i] = x) <=> (\E k \in places : s[k] = x)

\* What is kept is of what s is of, and is what is at those places.
LEMMA KeptTypes ==
    ASSUME NEW S, NEW s \in Seq(S), NEW places
    PROVE  \A n \in 0..Len(s) :
              /\ Kept(s, places)[n] \in Seq(S)
              /\ Has(Kept(s, places)[n], s, places \cap (1..n))
<1> DEFINE f == Kept(s, places)
           P(n) == f[n] \in Seq(S) /\ Has(f[n], s, places \cap (1..n))
           T == {n \in 0..Len(s) : P(n)}
<1>1. Len(s) \in Nat
  OBVIOUS
<1>2. f[0] = <<>> /\ \A n \in 1..Len(s) : f[n] = With(f[n - 1], s, n, places)
  BY <1>1, KeptIs
<1> HIDE DEF f
<1>3. 0 \in T
  <2>1. f[0] \in Seq(S) /\ DOMAIN f[0] = {} /\ 1..0 = {} /\ 0 \in 0..Len(s)
    BY <1>1, <1>2
  <2> QED  BY <2>1 DEF Has
<1>4. ASSUME NEW n \in 1..Len(s), n - 1 \in T  PROVE P(n)
  <2>1. P(n - 1) /\ s[n] \in S
    BY <1>4
  <2>2. PICK old : old = f[n - 1]
    OBVIOUS
  <2>3. /\ old \in Seq(S)
        /\ \A x : (\E i \in DOMAIN old : old[i] = x) <=> (\E k \in places \cap (1..n - 1) : s[k] = x)
    BY <2>1, <2>2 DEF Has
  <2>4. CASE n \in places
    <3>1. f[n] = Append(old, s[n])
      BY <1>2, <2>2, <2>4 DEF With
    <3>2. /\ f[n] \in Seq(S) /\ DOMAIN f[n] = DOMAIN old \cup {Len(old) + 1}
          /\ \A i \in DOMAIN old : f[n][i] = old[i]
          /\ f[n][Len(old) + 1] = s[n] /\ Len(old) + 1 \notin DOMAIN old
      BY <2>1, <2>3, <3>1
    <3>3. ASSUME NEW x
          PROVE  (\E i \in DOMAIN f[n] : f[n][i] = x) <=> (\E k \in places \cap (1..n) : s[k] = x)
      <4>1. (\E i \in DOMAIN f[n] : f[n][i] = x) <=> (\E i \in DOMAIN old : old[i] = x) \/ s[n] = x
        BY <3>2
      <4>2. (\E k \in places \cap (1..n) : s[k] = x)
              <=> (\E k \in places \cap (1..n - 1) : s[k] = x) \/ s[n] = x
        BY <2>4
      <4> QED  BY <2>3, <4>1, <4>2
    <3> QED  BY <3>2, <3>3 DEF Has
  <2>5. CASE n \notin places
    <3>1. f[n] = old
      BY <1>2, <2>2, <2>5 DEF With
    <3>2. \A x : (\E k \in places \cap (1..n) : s[k] = x) <=> (\E k \in places \cap (1..n - 1) : s[k] = x)
      BY <2>5
    <3> QED  BY <2>3, <3>1, <3>2 DEF Has
  <2> QED  BY <2>4, <2>5
<1>5. \A n \in 1..Len(s) : n - 1 \in T => n \in T
  <2> SUFFICES ASSUME NEW n \in 1..Len(s), n - 1 \in T  PROVE n \in T
    OBVIOUS
  <2>1. n \in 0..Len(s)
    BY <1>1
  <2> HIDE DEF P
  <2> QED  BY <1>4, <2>1
<1>6. \A n \in 0..Len(s) : n \in T
  <2> HIDE DEF T
  <2> QED  BY <1>1, <1>3, <1>5, UpTo
<1> QED  BY <1>6 DEF f

\* It depends on the entries and the places it has come to.
LEMMA KeptSame ==
    ASSUME NEW s, NEW t, Len(s) \in Nat, Len(t) \in Nat, NEW A, NEW B,
           NEW m \in Nat, m <= Len(s), m <= Len(t),
           \A k \in 1..m : k \in A \/ k \in B => k \in A \cap B /\ s[k] = t[k]
    PROVE  \A n \in 0..m : Kept(s, A)[n] = Kept(t, B)[n]
<1>1. PICK f, g : f = Kept(s, A) /\ g = Kept(t, B)
  OBVIOUS
<1>2. /\ f[0] = <<>> /\ \A n \in 1..m : f[n] = With(f[n - 1], s, n, A)
      /\ g[0] = <<>> /\ \A n \in 1..m : g[n] = With(g[n - 1], t, n, B)
  <2>1. \A n \in 1..m : n \in 1..Len(s) /\ n \in 1..Len(t)
    OBVIOUS
  <2> QED  BY <1>1, <2>1, KeptIs
<1>3. \A n \in 1..m : \A kept : With(kept, s, n, A) = With(kept, t, n, B)
  BY DEF With
<1> DEFINE T == {n \in 0..m : f[n] = g[n]}
<1>4. 0 \in T
  BY <1>2
<1>5. \A n \in 1..m : n - 1 \in T => n \in T
  <2> SUFFICES ASSUME NEW n \in 1..m, f[n - 1] = g[n - 1]  PROVE f[n] = g[n]
    OBVIOUS
  <2> QED  BY <1>2, <1>3
<1>6. \A n \in 0..m : n \in T
  <2> HIDE DEF T
  <2> QED  BY <1>4, <1>5, UpTo
<1> QED  BY <1>1, <1>6

LEMMA KeptRests ==
    ASSUME NEW s, Len(s) \in Nat, NEW A, NEW a \in 0..Len(s), NEW b \in a..Len(s),
           \A k \in A : k \notin a + 1..b
    PROVE  Kept(s, A)[b] = Kept(s, A)[a]
<1>1. PICK f : f = Kept(s, A)
  OBVIOUS
<1>2. \A n \in 1..Len(s) : f[n] = With(f[n - 1], s, n, A)
  BY <1>1, KeptIs
<1> DEFINE T == {n \in 0..b - a : f[a + n] = f[a]}
<1>3. 0 \in T /\ b - a \in Nat
  OBVIOUS
<1>4. \A n \in 1..b - a : n - 1 \in T => n \in T
  <2> SUFFICES ASSUME NEW n \in 1..b - a, f[a + (n - 1)] = f[a]  PROVE f[a + n] = f[a]
    OBVIOUS
  <2>1. a + n \in 1..Len(s) /\ a + n \notin A /\ a + (n - 1) = (a + n) - 1
    OBVIOUS
  <2> QED  BY <1>2, <2>1 DEF With
<1>5. b - a \in T
  <2>1. b - a \in 0..b - a
    BY <1>3
  <2> HIDE DEF T
  <2> QED  BY <1>3, <1>4, <2>1, UpTo
<1>6. a + (b - a) = b
  OBVIOUS
<1> QED  BY <1>1, <1>5, <1>6

LEMMA SubsequenceIs ==
    ASSUME NEW S, NEW s \in Seq(S), NEW places
    PROVE  /\ Subsequence(s, places) \in Seq(S)
           /\ Has(Subsequence(s, places), s, places \cap DOMAIN s)
<1>1. Len(s) \in Nat /\ Len(s) \in 0..Len(s) /\ DOMAIN s = 1..Len(s)
  OBVIOUS
<1>2. Subsequence(s, places) = Kept(s, places)[Len(s)]
  BY <1>1, KeptIs
<1>3. Kept(s, places)[Len(s)] \in Seq(S) /\ Has(Kept(s, places)[Len(s)], s, places \cap (1..Len(s)))
  BY <1>1, KeptTypes
<1> QED  BY <1>1, <1>2, <1>3

AppendLast(S) ==
    \A x \in Seq(S), y \in Seq(S), e \in S : Append(x \o y, e) = x \o Append(y, e)

LEMMA AppendAssociates == \A S : AppendLast(S)
<1> SUFFICES ASSUME NEW S, NEW x \in Seq(S), NEW y \in Seq(S), NEW e \in S
             PROVE  Append(x \o y, e) = x \o Append(y, e)
  BY DEF AppendLast
<1>1. /\ x \o y \in Seq(S) /\ Append(y, e) \in Seq(S) /\ Append(x \o y, e) \in Seq(S)
      /\ x \o Append(y, e) \in Seq(S)
  OBVIOUS
<1>2. Len(Append(x \o y, e)) = Len(x \o Append(y, e))
  BY <1>1
<1>3. \A i \in 1..Len(Append(x \o y, e)) : Append(x \o y, e)[i] = (x \o Append(y, e))[i]
  BY <1>1
<1> QED  BY <1>1, <1>2, <1>3, SeqEqual

Joined(C, A, a, B) == C = A \cup {a + i : i \in B}

Follows(s, a, t, B) == \A i \in B : a + i <= Len(s) /\ s[a + i] = t[i]

IsTwoParts(s, C, A, t, B) == Subsequence(s, C) = Subsequence(s, A) \o Subsequence(t, B)

\* The places of a part of s, and those of what comes after it.
LEMMA SubsequenceOfParts ==
    ASSUME NEW S, NEW s \in Seq(S), NEW t \in Seq(S), NEW a \in 0..Len(s),
           NEW A \in SUBSET (1..a), NEW B \in SUBSET (1..Len(t)),
           Follows(s, a, t, B),
           NEW C, Joined(C, A, a, B)
    PROVE  IsTwoParts(s, C, A, t, B)
<1>1. /\ Len(s) \in Nat /\ Len(t) \in Nat /\ a \in Nat /\ a <= Len(s)
      /\ \A k \in 1..a : k \in C <=> k \in A
      /\ \A k \in 1..Len(s) : a + k \in C <=> k \in B
  BY DEF Joined
<1>2. \A k \in C : k > a => k - a \in B
  BY DEF Joined
<1>3. PICK f, g, h : f = Kept(s, C) /\ g = Kept(s, A) /\ h = Kept(t, B)
  OBVIOUS
<1>4. /\ \A n \in 1..Len(s) : f[n] = With(f[n - 1], s, n, C)
      /\ h[0] = <<>> /\ \A n \in 1..Len(t) : h[n] = With(h[n - 1], t, n, B)
  BY <1>1, <1>3, KeptIs
<1>5. f[a] = g[a]
  <2>1. \A k \in 1..a : k \in C \/ k \in A => k \in C \cap A /\ s[k] = s[k]
    BY <1>1
  <2>2. a \in 0..a
    BY <1>1
  <2> QED  BY <1>1, <1>3, <2>1, <2>2, KeptSame
<1>6. g[Len(s)] = g[a]
  <2>1. Len(s) \in a..Len(s) /\ \A k \in A : k \notin a + 1..Len(s)
    BY <1>1
  <2>2. Kept(s, A)[Len(s)] = Kept(s, A)[a]
    BY <1>1, <2>1, KeptRests
  <2> QED  BY <1>3, <2>2
<1>7. /\ g[a] \in Seq(S)
      /\ \A n \in 0..Len(t) : h[n] \in Seq(S)
  <2>1. a \in 0..Len(s)
    BY <1>1
  <2> QED  BY <1>3, <2>1, KeptTypes
<1>8. PICK m \in Nat : m <= Len(t) /\ a + m <= Len(s) /\ (m = Len(t) \/ a + m = Len(s))
  <2>1. CASE a + Len(t) <= Len(s)
    BY <1>1, <2>1
  <2>2. CASE Len(s) < a + Len(t)
    <3>1. Len(s) - a \in Nat /\ Len(s) - a <= Len(t) /\ a + (Len(s) - a) = Len(s)
      BY <1>1, <2>2
    <3> WITNESS Len(s) - a \in Nat
    <3> QED  BY <3>1
  <2> QED  BY <1>1, <2>1, <2>2
<1>9. f[a + m] = g[a] \o h[m]
  <2> DEFINE T == {n \in 0..m : f[a + n] = g[a] \o h[n]}
  <2>1. 0 \in T
    <3>1. a + 0 = a /\ 0 \in 0..m
      BY <1>1, <1>8
    <3>2. g[a] \o <<>> = g[a]
      BY <1>7
    <3> QED  BY <1>4, <1>5, <3>1, <3>2
  <2>2. ASSUME NEW n \in 1..m, f[a + (n - 1)] = g[a] \o h[n - 1]
        PROVE  f[a + n] = g[a] \o h[n]
    <3>1. /\ a + n \in 1..Len(s) /\ (a + n) - 1 = a + (n - 1) /\ n \in 1..Len(t) /\ n \in 1..Len(s)
          /\ n - 1 \in 0..Len(t)
      BY <1>1, <1>8
    <3>2. f[a + n] = With(g[a] \o h[n - 1], s, a + n, C) /\ h[n] = With(h[n - 1], t, n, B)
      BY <1>4, <2>2, <3>1
    <3>3. CASE n \in B
      <4>1. a + n \in C /\ s[a + n] = t[n] /\ t[n] \in S
        <5>1. n \in 1..Len(s) /\ a + n \in C
          BY <1>1, <3>1, <3>3
        <5> QED  BY <5>1, <3>1, <3>3 DEF Follows
      <4>2. f[a + n] = Append(g[a] \o h[n - 1], t[n]) /\ h[n] = Append(h[n - 1], t[n])
        <5>1. With(g[a] \o h[n - 1], s, a + n, C) = Append(g[a] \o h[n - 1], s[a + n])
          BY <4>1 DEF With
        <5>2. With(h[n - 1], t, n, B) = Append(h[n - 1], t[n])
          BY <3>3 DEF With
        <5> QED  BY <3>2, <4>1, <5>1, <5>2
      <4>3. g[a] \in Seq(S) /\ h[n - 1] \in Seq(S)
        BY <1>7, <3>1
      <4>4. Append(g[a] \o h[n - 1], t[n]) = g[a] \o Append(h[n - 1], t[n])
        <5>1. PICK x, y, e : x = g[a] /\ y = h[n - 1] /\ e = t[n]
          OBVIOUS
        <5>2. x \in Seq(S) /\ y \in Seq(S) /\ e \in S
          BY <4>1, <4>3, <5>1
        <5>3. Append(x \o y, e) = x \o Append(y, e)
          <6>1. AppendLast(S)
            BY AppendAssociates
          <6> QED  BY <5>2, <6>1 DEF AppendLast
        <5> QED  BY <5>1, <5>3
      <4> QED  BY <4>2, <4>4
    <3>4. CASE n \notin B
      <4>1. a + n \notin C
        BY <1>1, <3>1, <3>4
      <4> QED  BY <3>2, <3>4, <4>1 DEF With
    <3> QED  BY <3>3, <3>4
  <2>3. \A n \in 1..m : n - 1 \in T => n \in T
    <3> SUFFICES ASSUME NEW n \in 1..m, n - 1 \in T  PROVE n \in T
      OBVIOUS
    <3>1. f[a + n] = g[a] \o h[n]
      BY <2>2
    <3>2. n \in 0..m
      BY <1>8
    <3> QED  BY <3>1, <3>2
  <2>4. m \in 0..m
    BY <1>8
  <2>5. m \in T
    <3> HIDE DEF T
    <3> QED  BY <1>8, <2>1, <2>3, <2>4, UpTo
  <2> QED  BY <2>5
<1>10. f[Len(s)] = f[a + m]
  <2>1. a + m \in 0..Len(s) /\ Len(s) \in a + m..Len(s)
    BY <1>1, <1>8
  <2>2. \A k \in C : k \notin (a + m) + 1..Len(s)
    <3> SUFFICES ASSUME NEW k \in C, k \in (a + m) + 1..Len(s)  PROVE FALSE
      OBVIOUS
    <3>1. k > a /\ k - a \in B /\ k - a > m
      BY <1>1, <1>2, <1>8
    <3>2. m # Len(t) /\ a + m = Len(s)
      BY <1>1, <1>8, <3>1
    <3> QED  BY <1>1, <1>8, <3>2
  <2>3. Kept(s, C)[Len(s)] = Kept(s, C)[a + m]
    BY <1>1, <2>1, <2>2, KeptRests
  <2> QED  BY <1>3, <2>3
<1>11. h[Len(t)] = h[m]
  <2>1. m \in 0..Len(t) /\ Len(t) \in m..Len(t)
    BY <1>1, <1>8
  <2>2. \A k \in B : k \notin m + 1..Len(t)
    BY <1>1, <1>8 DEF Follows
  <2>3. Kept(t, B)[Len(t)] = Kept(t, B)[m]
    BY <1>1, <2>1, <2>2, KeptRests
  <2> QED  BY <1>3, <2>3
<1> QED  BY <1>1, <1>3, <1>6, <1>9, <1>10, <1>11, KeptIs DEF IsTwoParts

LEMMA SubsequenceLength ==
    ASSUME NEW S, NEW s \in Seq(S), NEW A \in SUBSET (1..Len(s))
    PROVE  IsFiniteSet(A) /\ Len(Subsequence(s, A)) = Cardinality(A)
<1>1. Len(s) \in Nat
  OBVIOUS
<1>2. PICK f : f = Kept(s, A)
  OBVIOUS
<1>3. f[0] = <<>> /\ \A n \in 1..Len(s) : f[n] = With(f[n - 1], s, n, A)
  BY <1>1, <1>2, KeptIs
<1>4. \A n \in 0..Len(s) : f[n] \in Seq(S)
  BY <1>2, KeptTypes
<1> DEFINE T == {n \in 0..Len(s) : IsFiniteSet(A \cap (1..n)) /\ Len(f[n]) = Cardinality(A \cap (1..n))}
<1>5. 0 \in T
  <2>1. A \cap (1..0) = {} /\ 0 \in 0..Len(s)
    BY <1>1
  <2>2. Len(f[0]) = 0
    BY <1>3
  <2> QED  BY <2>1, <2>2, FS_EmptySet
<1>6. \A n \in 1..Len(s) : n - 1 \in T => n \in T
  <2> SUFFICES ASSUME NEW n \in 1..Len(s), n - 1 \in T  PROVE n \in T
    OBVIOUS
  <2>1. PICK old : old = A \cap (1..n - 1)
    OBVIOUS
  <2>2. IsFiniteSet(old) /\ Len(f[n - 1]) = Cardinality(old) /\ n \notin old /\ n \in 0..Len(s)
    BY <2>1
  <2>3. f[n - 1] \in Seq(S) /\ s[n] \in S
    BY <1>4
  <2> HIDE DEF T
  <2>4. CASE n \in A
    <3>1. A \cap (1..n) = old \cup {n}
      BY <1>1, <2>1, <2>4
    <3>2. f[n] = Append(f[n - 1], s[n])
      BY <1>3, <2>4 DEF With
    <3>3. Len(f[n]) = Len(f[n - 1]) + 1
      BY <2>3, <3>2
    <3>4. IsFiniteSet(old \cup {n}) /\ Cardinality(old \cup {n}) = Cardinality(old) + 1
      BY <2>2, FS_AddElement
    <3> QED  BY <2>2, <3>1, <3>3, <3>4 DEF T
  <2>5. CASE n \notin A
    <3>1. A \cap (1..n) = old
      BY <1>1, <2>1, <2>5
    <3>2. f[n] = f[n - 1]
      BY <1>3, <2>5 DEF With
    <3> QED  BY <2>2, <3>1, <3>2 DEF T
  <2> QED  BY <2>4, <2>5
<1>7. Len(s) \in T
  <2>1. Len(s) \in 0..Len(s)
    BY <1>1
  <2> HIDE DEF T
  <2> QED  BY <1>1, <1>5, <1>6, <2>1, UpTo
<1>8. A \cap (1..Len(s)) = A
  OBVIOUS
<1>9. Subsequence(s, A) = f[Len(s)]
  BY <1>1, <1>2, KeptIs
<1> QED  BY <1>7, <1>8, <1>9

\* What is picked by its value from a subsequence without repetition.
Valued(x, R) == Subsequence(x, {k \in DOMAIN x : x[k] \in R})

LEMMA ValuedAppend ==
    ASSUME NEW S, NEW x \in Seq(S), NEW e \in S, NEW R
    PROVE  Valued(Append(x, e), R) = IF e \in R THEN Append(Valued(x, R), e) ELSE Valued(x, R)
<1>1. PICK y, m : y = Append(x, e) /\ m = Len(x)
  OBVIOUS
<1>2. /\ m \in Nat /\ y \in Seq(S) /\ Len(y) = m + 1 /\ y[m + 1] = e
      /\ \A k \in 1..m : y[k] = x[k]
      /\ DOMAIN x = 1..m /\ DOMAIN y = 1..m + 1
  BY <1>1
<1> DEFINE A == {k \in DOMAIN x : x[k] \in R}
           B == {k \in DOMAIN y : y[k] \in R}
<1>3. /\ \A k \in 1..m : k \in A \/ k \in B => k \in A \cap B /\ x[k] = y[k]
      /\ m + 1 \in B <=> e \in R
  BY <1>2
<1> HIDE DEF A, B
<1>4. Kept(x, A)[m] = Kept(y, B)[m]
  <2>1. m <= Len(x) /\ m <= Len(y) /\ Len(x) \in Nat /\ Len(y) \in Nat /\ m \in 0..m
    BY <1>1, <1>2
  <2>2. \A n \in 0..m : Kept(x, A)[n] = Kept(y, B)[n]
    BY <1>2, <1>3, <2>1, KeptSame
  <2> QED  BY <2>1, <2>2
<1>5. Kept(y, B)[m + 1] = With(Kept(y, B)[m], y, m + 1, B)
  <2>1. Len(y) \in Nat /\ m + 1 \in 1..Len(y) /\ (m + 1) - 1 = m
    BY <1>2
  <2> QED  BY <2>1, KeptIs
<1>6. Subsequence(x, A) = Kept(x, A)[m] /\ Subsequence(y, B) = Kept(y, B)[m + 1]
  <2>1. Len(x) \in Nat /\ Len(x) = m /\ Len(y) \in Nat /\ Len(y) = m + 1
    BY <1>1, <1>2
  <2> QED  BY <2>1, KeptIs
<1>7. Subsequence(y, B) = IF e \in R THEN Append(Subsequence(x, A), e) ELSE Subsequence(x, A)
  BY <1>2, <1>3, <1>4, <1>5, <1>6 DEF With
<1> QED  BY <1>1, <1>7 DEF Valued, A, B

LEMMA SubsequenceByValue ==
    ASSUME NEW S, NEW s \in Seq(S), NEW G \in SUBSET (1..Len(s)), NEW A \in SUBSET G, NEW R,
           \A k \in G : s[k] \in R <=> k \in A
    PROVE  Valued(Subsequence(s, G), R) = Subsequence(s, A)
<1>1. Len(s) \in Nat
  OBVIOUS
<1>2. PICK f, g : f = Kept(s, G) /\ g = Kept(s, A)
  OBVIOUS
<1>3. /\ f[0] = <<>> /\ \A n \in 1..Len(s) : f[n] = With(f[n - 1], s, n, G)
      /\ g[0] = <<>> /\ \A n \in 1..Len(s) : g[n] = With(g[n - 1], s, n, A)
  BY <1>1, <1>2, KeptIs
<1>4. \A n \in 0..Len(s) : f[n] \in Seq(S)
  BY <1>2, KeptTypes
<1> DEFINE T == {n \in 0..Len(s) : Valued(f[n], R) = g[n]}
<1>5. 0 \in T
  <2>1. Subsequence(<<>>, {k \in DOMAIN <<>> : <<>>[k] \in R}) = <<>>
    <3>1. Len(<<>>) = 0
      OBVIOUS
    <3> QED  BY <3>1, KeptIs
  <2>2. 0 \in 0..Len(s)
    BY <1>1
  <2> QED  BY <1>3, <2>1, <2>2 DEF Valued
<1>6. \A n \in 1..Len(s) : n - 1 \in T => n \in T
  <2> SUFFICES ASSUME NEW n \in 1..Len(s), n - 1 \in T  PROVE n \in T
    OBVIOUS
  <2>1. Valued(f[n - 1], R) = g[n - 1] /\ n \in 0..Len(s)
    OBVIOUS
  <2>2. f[n - 1] \in Seq(S) /\ s[n] \in S
    BY <1>4
  <2> HIDE DEF T
  <2>3. CASE n \in G
    <3>1. f[n] = Append(f[n - 1], s[n])
      BY <1>3, <2>3 DEF With
    <3>2. Valued(f[n], R) =
            IF s[n] \in R THEN Append(Valued(f[n - 1], R), s[n]) ELSE Valued(f[n - 1], R)
      <4>1. PICK old, e : old = f[n - 1] /\ e = s[n]
        OBVIOUS
      <4>2. old \in Seq(S) /\ e \in S
        BY <2>2, <4>1
      <4>3. Valued(Append(old, e), R) = IF e \in R THEN Append(Valued(old, R), e) ELSE Valued(old, R)
        BY <4>2, ValuedAppend
      <4> QED  BY <3>1, <4>1, <4>3
    <3>3. g[n] = IF n \in A THEN Append(g[n - 1], s[n]) ELSE g[n - 1]
      BY <1>3 DEF With
    <3> QED  BY <2>1, <2>3, <3>2, <3>3 DEF T
  <2>4. CASE n \notin G
    <3>1. f[n] = f[n - 1] /\ g[n] = g[n - 1]
      BY <1>3, <2>4 DEF With
    <3> QED  BY <2>1, <3>1 DEF T
  <2> QED  BY <2>3, <2>4
<1>7. Len(s) \in T
  <2>1. Len(s) \in 0..Len(s)
    BY <1>1
  <2> HIDE DEF T
  <2> QED  BY <1>1, <1>5, <1>6, <2>1, UpTo
<1> QED  BY <1>1, <1>2, <1>7, KeptIs

LEMMA SubsequencePrefix ==
    ASSUME NEW S, NEW s \in Seq(S), NEW b \in 0..Len(s), NEW G \in SUBSET (1..Len(s))
    PROVE  IsPrefix(Subsequence(s, G \cap (1..b)), Subsequence(s, G))
<1>1. Len(s) \in Nat
  OBVIOUS
<1>2. PICK t : t = SubSeq(s, b + 1, Len(s))
  OBVIOUS
<1>3. t \in Seq(S) /\ Len(t) = Len(s) - b /\ \A i \in 1..Len(s) - b : t[i] = s[b + i]
  BY <1>1, <1>2
<1> DEFINE A == G \cap (1..b)
           B == {i \in 1..Len(t) : b + i \in G}
<1>4. Joined(G, A, b, B)
  <2>1. ASSUME NEW k \in G, k > b  PROVE k - b \in B /\ k = b + (k - b)
    BY <1>1, <1>3, <2>1
  <2>2. \A k \in G : k \in A \/ k > b
    BY <1>1
  <2> QED  BY <2>1, <2>2 DEF Joined
<1>5. Follows(s, b, t, B)
  BY <1>1, <1>3 DEF Follows
<1>6. PICK x, y, z : x = Subsequence(s, A) /\ y = Subsequence(t, B) /\ z = Subsequence(s, G)
  OBVIOUS
<1>7. z = x \o y
  <2>1. A \in SUBSET (1..b) /\ B \in SUBSET (1..Len(t))
    OBVIOUS
  <2> HIDE DEF A, B
  <2>2. IsTwoParts(s, G, A, t, B)
    BY <1>3, <1>4, <1>5, <2>1, SubsequenceOfParts
  <2> QED  BY <1>6, <2>2 DEF IsTwoParts
<1>8. x \in Seq(S) /\ y \in Seq(S)
  BY <1>3, <1>6, SubsequenceIs
<1>9. Len(x) <= Len(z) /\ SubSeq(x, 1, Len(x)) = SubSeq(z, 1, Len(x))
  <2>1. Len(x) \in Nat /\ Len(y) \in Nat /\ Len(z) = Len(x) + Len(y)
    BY <1>7, <1>8
  <2>2. \A i \in 1..Len(x) : z[i] = x[i]
    BY <1>7, <1>8
  <2>3. SubSeq(x, 1, Len(x)) = [i \in 1..Len(x) |-> x[i]] /\ SubSeq(z, 1, Len(x)) = [i \in 1..Len(x) |-> z[i]]
    BY <1>7, <1>8, <2>1
  <2> QED  BY <2>1, <2>2, <2>3
<1> QED  BY <1>6, <1>9 DEF IsPrefix

-----------------------------------------------------------------------------
\* The invariant.

Bounded ==
    /\ RunPages \in Nat \ {0} /\ CopyChunk \in Nat \ {0} /\ Pages \in Nat \ {0, 1}
    /\ MaxScans \in Nat /\ MaxFailures \in Nat

OrderOK ==
    order \in Seq(Address) /\ IsInjective(order) /\ order # <<>> /\ Len(order) <= Pages

PlanEntry == [page : Slots, from : Nat, to : Nat]
PageOrNone == Address \cup {NoPage}
WalkType == [pc : {"none", "run", "page", "join", "ended"}, plan : Seq(PlanEntry),
             scoped : BOOLEAN, at : Nat, carried : [page : Nat, of : PageOrNone],
             asked : Seq(Slots), sources : Seq(Address), carry : PageOrNone]

Asking(w) == w.pc \in {"run", "page", "join"}

\* A walk that is superseded has its place, should it ask again.
WalkOK(w) ==
    /\ w \in WalkType /\ w.at \in 1..Len(w.plan) + 1 /\ Len(w.asked) = Len(w.sources)
    /\ Asking(w) => w.asked # <<>>
    /\ w.pc = "run" => w.at <= Len(w.plan)

WalksOK ==
    /\ scans \in 0..MaxScans /\ scan \in 0..scans
    /\ DOMAIN walk = 1..MaxScans
    /\ walk = [g \in 1..MaxScans |-> walk[g]]
    /\ \A g \in 1..MaxScans : WalkOK(walk[g]) /\ (walk[g].pc = "none" <=> g > scans)

\* The pages of a plan follow each other on the screen, round the end; those of
\* a selection stop there.
PlanOK(plan, scoped) ==
    /\ plan \in Seq(PlanEntry) /\ plan # <<>>
    /\ \A k \in DOMAIN plan : plan[k].page \in DOMAIN order
    /\ \A j, k \in DOMAIN plan : plan[j].page = plan[k].page => j = k
    /\ \A k \in 1..Len(plan) - 1 :
          plan[k].page < Len(order) => plan[k + 1].page = plan[k].page + 1
    /\ LET last == plan[Len(plan)].page IN
       IF scoped THEN \A k \in DOMAIN plan : plan[k].page # last + 1
       ELSE last < Len(order) => Len(plan) > 1 /\ plan[1].page > 1 /\ plan[1].page = last + 1

\* What a walk has carried is of the page before.
CarriedOK(w) ==
    w.carried # NoCarry =>
        /\ w.at > 1 /\ w.carried.page = w.plan[w.at - 1].page
        /\ w.carried.of = order[w.carried.page]

\* What a walk has asked for is what its plan says, of the pages the slots draw.
AskedOK(w) ==
    /\ w.carry = CarryInto(w.carried, w.asked[1])
    /\ \A i \in DOMAIN w.asked : w.sources[i] = order[w.asked[i]]
    /\ w.pc \in {"run", "page"} =>
          /\ w.at + Len(w.asked) - 1 <= Len(w.plan)
          /\ \A i \in DOMAIN w.asked : w.asked[i] = w.plan[w.at + i - 1].page
          /\ \A i \in 1..Len(w.asked) - 1 :
                w.asked[i + 1] = w.asked[i] + 1 /\ w.sources[i + 1].page = w.sources[i].page + 1
    /\ w.pc = "join" =>
          w.at = Len(w.plan) + 1 /\ w.asked = <<w.plan[1].page>> /\ LooksBehind(w)

\* The hits of a plan: before the first page and after each, the one that leaves
\* the page before, and each page's own.
Below(slot) == IF slot = Len(order) THEN NoPage ELSE order[slot + 1]

HitsAlong(plan) ==
    [k \in 1..2 * Len(plan) + 1 |->
        LET slot == plan[k \div 2].page IN
        IF k = 1 THEN Own(0, NoPage)
        ELSE IF k % 2 = 0 THEN Own(slot, order[slot])
        ELSE Join(slot + 1, order[slot], Below(slot))]

Good(plan) ==
    {k \in 2..2 * Len(plan) + 1 :
        HitsAlong(plan)[k].text[2] # NoPage /\ InScope(plan, HitsAlong(plan)[k])}

\* What pages that could not be read hide: their own, and those at their breaks.
Hidden(U) == UNION {{2 * k - 1, 2 * k, 2 * k + 1} : k \in U}

\* What is listed is what there is up to a place b, but what is hidden: A are the
\* places of what is listed, U those of the pages that could not be read.
Found(listed, missed, plan, b, A, U) ==
    /\ b \in 0..2 * Len(plan) + 1
    /\ A \in SUBSET (Good(plan) \cap (1..b)) /\ listed = Subsequence(HitsAlong(plan), A)
    /\ U \in SUBSET (1..Len(plan) + 1) /\ IsFiniteSet(U) /\ Cardinality(U) = missed
    /\ \A k \in Good(plan) : k <= b => k \in A \/ k \in Hidden(U)

\* A walk that goes on has found what there is before its place, and has nothing
\* carried there only from a page that could not be read.
FoundBefore(listed, missed, w, A, U) ==
    /\ Found(listed, missed, w.plan, 2 * (w.at - 1), A, U) /\ U \subseteq 1..w.at - 1
    /\ w.at > 1 /\ w.carried = NoCarry => w.at - 1 \in U

FoundAll(listed, missed, plan, A, U) == Found(listed, missed, plan, 2 * Len(plan) + 1, A, U)

ListOK(listed, missed, stuck, w) ==
    /\ PlanOK(w.plan, w.scoped) /\ w.pc # "none"
    /\ Asking(w) =>
          /\ CarriedOK(w) /\ AskedOK(w)
          /\ \E A, U : FoundBefore(listed, missed, w, A, U)
    /\ w.pc = "ended" /\ ~stuck => \E A, U : FoundAll(listed, missed, w.plan, A, U)
    /\ \E b, A, U : Found(listed, missed, w.plan, b, A, U)

PresentOK ==
    IF scan = 0 THEN matches = <<>> ELSE ListOK(matches, unread, problem, walk[scan])

\* Marking: what has been handed over is of the hits, and what has not is still
\* to come.
HitOn(pages, h) ==
    /\ h.from \in DOMAIN pages /\ h.to \in DOMAIN pages /\ h.to \in {h.from, h.from + 1}
    /\ h.text = <<pages[h.from], pages[h.to]>>

HalfOn(pages, h, slot) ==
    [page |-> pages[slot], text |-> pages[slot],
     part |-> IF h.from = h.to THEN "own" ELSE IF h.from = slot THEN "tail" ELSE "head"]

Marks(m) ==
    /\ m.pages \in Seq(Address) /\ m.slots \in Seq(DOMAIN m.pages)
    /\ \A i \in DOMAIN m.hits : HitOn(m.pages, m.hits[i])
    /\ m.texts = [i \in DOMAIN Chunk(m.slots) |-> m.pages[m.slots[i]]]
    /\ \A half \in m.out : \E i \in DOMAIN m.hits :
          \E slot \in {m.hits[i].from, m.hits[i].to} : half = HalfOn(m.pages, m.hits[i], slot)
    /\ \A i \in DOMAIN m.hits : \A slot \in {m.hits[i].from, m.hits[i].to} :
          \/ \E k \in DOMAIN m.slots : m.slots[k] = slot
          \/ HalfOn(m.pages, m.hits[i], slot) \in m.out

MarkIs(m) ==
    /\ m = [at |-> m.at, pages |-> m.pages, hits |-> m.hits, slots |-> m.slots,
            texts |-> m.texts, out |-> m.out]
    /\ m.at \in {"none", "loading", "given"} /\ (m.at # "none" => Marks(m))
    /\ m.at = "given" => m.slots = <<>>

MarkOK == MarkIs(mark)

Counted == unread \in Nat /\ running \in BOOLEAN /\ problem \in BOOLEAN

SearchInv == OrderOK /\ WalksOK /\ PresentOK /\ MarkOK /\ Counted

-----------------------------------------------------------------------------
\* Plans.

LEMMA Round ==
    ASSUME NEW n \in Nat \ {0}, NEW x \in 0..2 * n - 1
    PROVE  x % n = IF x < n THEN x ELSE x - n
<1>1. PICK q, r : q = x \div n /\ r = x % n
  OBVIOUS
<1>2. q \in Int /\ r \in 0..n - 1 /\ x = n * q + r
  BY <1>1
<1>3. q = 0 \/ q = 1
  <2>1. q <= 1
    <3>1. CASE q >= 2
      <4>1. n * q >= 2 * n
        BY <1>2, <3>1
      <4> QED  BY <1>2, <4>1
    <3> QED  BY <1>2, <3>1
  <2>2. q >= 0
    <3>1. CASE q <= -1
      <4>1. n * q <= -n
        BY <1>2, <3>1
      <4> QED  BY <1>2, <4>1
    <3> QED  BY <1>2, <3>1
  <2> QED  BY <1>2, <2>1, <2>2
<1>4. CASE q = 0
  BY <1>1, <1>2, <1>4
<1>5. CASE q = 1
  BY <1>1, <1>2, <1>5
<1> QED  BY <1>3, <1>4, <1>5

LEMMA WholePlan ==
    ASSUME Bounded, OrderOK, NEW from \in DOMAIN order
    PROVE  PlanOK(Whole(from), FALSE)
<1>1. PICK n, plan : n = Len(order) /\ plan = Whole(from)
  OBVIOUS
<1>2. n \in Nat \ {0} /\ n <= Pages /\ DOMAIN order = 1..n /\ from \in 1..n
  BY <1>1 DEF OrderOK
<1>a. n \in Int /\ 1 <= n /\ from \in Int /\ 1 <= from /\ from <= n
  BY <1>2
<1>3. \A i \in 1..n : ((from + i - 2) % n) + 1 = IF from + i - 1 <= n THEN from + i - 1 ELSE from + i - 1 - n
  <2> SUFFICES ASSUME NEW i \in 1..n
               PROVE  ((from + i - 2) % n) + 1 = IF from + i - 1 <= n THEN from + i - 1 ELSE from + i - 1 - n
    OBVIOUS
  <2>1. from + i - 2 \in 0..2 * n - 1
    BY <1>2
  <2>2. PICK x : x = from + i - 2
    OBVIOUS
  <2>3. x % n = IF x < n THEN x ELSE x - n
    BY <1>2, <2>1, <2>2, Round
  <2>4. (from + i - 2) % n = x % n /\ x \in Int
    BY <1>2, <2>2
  <2>5. PICK r : r = x % n
    OBVIOUS
  <2>6. r + 1 = IF from + i - 1 <= n THEN from + i - 1 ELSE from + i - 1 - n
    BY <1>a, <2>2, <2>3, <2>5
  <2> QED  BY <2>4, <2>5, <2>6
<1>4. plan = [i \in 1..n |-> Entry(((from + i - 2) % n) + 1, 0, Infinity)]
  BY <1>1 DEF Whole
<1>5. /\ plan = [i \in 1..n |-> plan[i]]
      /\ \A i \in 1..n : plan[i] = Entry(((from + i - 2) % n) + 1, 0, Infinity)
  BY <1>4
<1>6. \A i \in 1..n : /\ plan[i].page = IF from + i - 1 <= n THEN from + i - 1 ELSE from + i - 1 - n
                      /\ plan[i].page \in 1..n /\ plan[i] \in PlanEntry
  <2> SUFFICES ASSUME NEW i \in 1..n
               PROVE  /\ plan[i].page = IF from + i - 1 <= n THEN from + i - 1 ELSE from + i - 1 - n
                      /\ plan[i].page \in 1..n /\ plan[i] \in PlanEntry
    OBVIOUS
  <2>1. plan[i].page = IF from + i - 1 <= n THEN from + i - 1 ELSE from + i - 1 - n
    BY <1>3, <1>5 DEF Entry
  <2>2. plan[i].page \in 1..n
    BY <1>2, <2>1
  <2>3. plan[i].page \in Slots
    BY <1>2, <2>2 DEF Slots, Bounded
  <2>4. plan[i] = [page |-> plan[i].page, from |-> 0, to |-> Infinity] /\ Infinity \in Nat
    BY <1>5 DEF Entry, Infinity
  <2>5. plan[i] \in PlanEntry
    BY <2>3, <2>4 DEF PlanEntry
  <2> QED  BY <2>1, <2>2, <2>5
<1>7. plan \in Seq(PlanEntry) /\ Len(plan) = n /\ DOMAIN plan = 1..n /\ plan # <<>>
  <2>1. plan \in [1..n -> PlanEntry]
    BY <1>5, <1>6
  <2> QED  BY <1>2, <2>1
<1> HIDE DEF Slots
<1>8. \A j, k \in 1..n : plan[j].page = plan[k].page => j = k
  <2> SUFFICES ASSUME NEW j \in 1..n, NEW k \in 1..n, plan[j].page = plan[k].page  PROVE j = k
    OBVIOUS
  <2>1. /\ plan[j].page = IF from + j - 1 <= n THEN from + j - 1 ELSE from + j - 1 - n
        /\ plan[k].page = IF from + k - 1 <= n THEN from + k - 1 ELSE from + k - 1 - n
    BY <1>6
  <2>2. (IF from + j - 1 <= n THEN from + j - 1 ELSE from + j - 1 - n) =
        (IF from + k - 1 <= n THEN from + k - 1 ELSE from + k - 1 - n)
    BY <2>1
  <2>3. j \in Int /\ 1 <= j /\ j <= n /\ k \in Int /\ 1 <= k /\ k <= n
    BY <1>a
  <2> QED  BY <1>a, <2>2, <2>3
<1>9. \A k \in 1..n - 1 : plan[k].page < n => plan[k + 1].page = plan[k].page + 1
  <2> SUFFICES ASSUME NEW k \in 1..n - 1, plan[k].page < n
               PROVE  plan[k + 1].page = plan[k].page + 1
    OBVIOUS
  <2>1. k \in 1..n /\ k + 1 \in 1..n
    BY <1>a
  <2>2. /\ plan[k].page = IF from + k - 1 <= n THEN from + k - 1 ELSE from + k - 1 - n
        /\ plan[k + 1].page = IF from + (k + 1) - 1 <= n THEN from + (k + 1) - 1 ELSE from + (k + 1) - 1 - n
    BY <1>6, <2>1
  <2> QED  BY <1>a, <2>1, <2>2
<1>10. plan[n].page < n => n > 1 /\ plan[1].page > 1 /\ plan[1].page = plan[n].page + 1
  <2>1. 1 \in 1..n /\ n \in 1..n
    BY <1>a
  <2>2. /\ plan[1].page = IF from + 1 - 1 <= n THEN from + 1 - 1 ELSE from + 1 - 1 - n
        /\ plan[n].page = IF from + n - 1 <= n THEN from + n - 1 ELSE from + n - 1 - n
    BY <1>6, <2>1
  <2> QED  BY <1>a, <2>2
<1> QED  BY <1>1, <1>2, <1>6, <1>7, <1>8, <1>9, <1>10 DEF PlanOK

LEMMA SelectedPlan ==
    ASSUME Bounded, OrderOK, NEW first \in DOMAIN order, NEW last \in DOMAIN order, first <= last,
           NEW from \in Nat, NEW to \in Nat
    PROVE  PlanOK(Selection(first, last, from, to), TRUE)
<1>1. PICK n, plan : n = last - first + 1 /\ plan = Selection(first, last, from, to)
  OBVIOUS
<1>2. /\ n \in Nat \ {0} /\ DOMAIN order = 1..Len(order) /\ Len(order) \in Nat /\ Len(order) <= Pages
      /\ first \in 1..Len(order) /\ last \in 1..Len(order)
  BY <1>1 DEF OrderOK
<1>3. /\ plan = [i \in 1..n |-> plan[i]]
      /\ \A i \in 1..n :
            plan[i] = Entry(first + i - 1, IF i = 1 THEN from ELSE 0,
                            IF first + i - 1 = last THEN to ELSE Infinity)
  BY <1>1 DEF Selection
<1>4. \A i \in 1..n : plan[i].page = first + i - 1 /\ plan[i].page \in DOMAIN order /\ plan[i] \in PlanEntry
  <2> SUFFICES ASSUME NEW i \in 1..n
               PROVE  plan[i].page = first + i - 1 /\ plan[i].page \in DOMAIN order /\ plan[i] \in PlanEntry
    OBVIOUS
  <2>1. plan[i].page = first + i - 1
    BY <1>3 DEF Entry
  <2>2. plan[i].page \in 1..Len(order)
    BY <1>1, <1>2, <2>1
  <2>3. plan[i].page \in Slots
    BY <1>2, <2>2 DEF Slots, Bounded
  <2>4. PICK f, t : f \in Nat /\ t \in Nat /\ plan[i] = [page |-> plan[i].page, from |-> f, to |-> t]
    <3>1. Infinity \in Nat
      BY DEF Infinity
    <3> QED  BY <1>3, <2>1, <3>1 DEF Entry
  <2> QED  BY <1>2, <2>1, <2>2, <2>3, <2>4 DEF PlanEntry
<1>5. plan \in Seq(PlanEntry) /\ Len(plan) = n /\ DOMAIN plan = 1..n /\ plan # <<>>
  <2>1. plan \in [1..n -> PlanEntry]
    BY <1>3, <1>4
  <2> QED  BY <1>2, <2>1
<1>6. \A j, k \in 1..n : plan[j].page = plan[k].page => j = k
  BY <1>2, <1>4
<1>7. \A k \in 1..n - 1 : plan[k + 1].page = plan[k].page + 1
  <2> SUFFICES ASSUME NEW k \in 1..n - 1  PROVE plan[k + 1].page = plan[k].page + 1
    OBVIOUS
  <2>1. k \in 1..n /\ k + 1 \in 1..n
    BY <1>2
  <2>2. plan[k].page = first + k - 1 /\ plan[k + 1].page = first + (k + 1) - 1
    BY <1>4, <2>1
  <2> QED  BY <1>2, <2>1, <2>2
<1>8. \A k \in 1..n : plan[k].page # plan[n].page + 1
  BY <1>2, <1>4
<1> QED  BY <1>1, <1>2, <1>4, <1>5, <1>6, <1>7, <1>8 DEF PlanOK

-----------------------------------------------------------------------------
\* What a walk asks for next.

IsRunOf(plan, at, n) == at + n - 1 <= Len(plan) /\ \A i \in at..at + n - 2 : Continues(plan, i)

LEMMA RunIsOfThePlan ==
    ASSUME Bounded, NEW plan \in Seq(PlanEntry), NEW at \in 1..Len(plan)
    PROVE  \E n \in 1..RunPages : /\ IsRunOf(plan, at, n)
                                  /\ RunFrom(plan, at) = [i \in 1..n |-> plan[at + i - 1].page]
<1> DEFINE Ends(k) == IsRunOf(plan, at, k) /\ (k < RunPages => ~IsRunOf(plan, at, k + 1))
           n == CHOOSE k \in 1..RunPages : Ends(k)
<1>1. RunPages \in Nat /\ RunPages >= 1 /\ Len(plan) \in Nat
  BY DEF Bounded
<1>2. IsRunOf(plan, at, 1)
  <2>1. at + 1 - 1 <= Len(plan) /\ at..at + 1 - 2 = {}
    BY <1>1
  <2> QED  BY <2>1 DEF IsRunOf
<1>3. \E k \in 1..RunPages : Ends(k)
  <2> DEFINE S == {k \in 1..RunPages : k = RunPages \/ ~IsRunOf(plan, at, k + 1)}
  <2>1. S \in SUBSET Nat /\ RunPages \in S
    BY <1>1
  <2>2. PICK k \in S : \A j \in S : k <= j
    <3> HIDE DEF S
    <3> QED  BY <2>1, LeastNumber
  <2>3. k \in 1..RunPages /\ (k = RunPages \/ ~IsRunOf(plan, at, k + 1))
    OBVIOUS
  <2>4. IsRunOf(plan, at, k)
    <3>1. CASE k = 1
      BY <1>2, <3>1
    <3>2. CASE k # 1
      <4>1. k - 1 \in 1..RunPages /\ k - 1 \notin S
        BY <1>1, <2>2, <2>3, <3>2
      <4>2. IsRunOf(plan, at, (k - 1) + 1)
        BY <4>1
      <4>3. (k - 1) + 1 = k
        BY <2>3
      <4> HIDE DEF S
      <4> QED  BY <4>2, <4>3
    <3> QED  BY <3>1, <3>2
  <2>5. k < RunPages => ~IsRunOf(plan, at, k + 1)
    BY <2>3
  <2> HIDE DEF S
  <2> QED  BY <2>3, <2>4, <2>5
<1>4. n \in 1..RunPages /\ Ends(n)
  <2> HIDE DEF Ends
  <2> QED  BY <1>3
<1>5. RunFrom(plan, at) = [i \in 1..n |-> plan[at + i - 1].page]
  BY DEF RunFrom, IsRunOf
<1> HIDE DEF n
<1> QED  BY <1>4, <1>5

\* The slots of a run are on the screen, one after the other, and draw the pages
\* of one file one after the other.
RunOK(plan, at, slots) ==
    /\ slots \in Seq(Slots) /\ slots # <<>> /\ at + Len(slots) - 1 <= Len(plan)
    /\ \A i \in DOMAIN slots : /\ slots[i] = plan[at + i - 1].page /\ slots[i] \in DOMAIN order
                               /\ order[slots[i]].doc = order[slots[1]].doc
    /\ \A i \in 1..Len(slots) - 1 :
          slots[i + 1] = slots[i] + 1 /\ order[slots[i + 1]].page = order[slots[i]].page + 1

LEMMA RunIsOnTheScreen ==
    ASSUME Bounded, OrderOK, NEW plan \in Seq(PlanEntry), NEW at \in 1..Len(plan),
           Addressable(plan[at].page)
    PROVE  RunOK(plan, at, RunFrom(plan, at))
<1>1. PICK n \in 1..RunPages : /\ IsRunOf(plan, at, n)
                               /\ RunFrom(plan, at) = [i \in 1..n |-> plan[at + i - 1].page]
  BY RunIsOfThePlan
<1>2. PICK slots : slots = RunFrom(plan, at)
  OBVIOUS
<1>3. /\ n \in Nat \ {0} /\ at \in Nat \ {0} /\ Len(plan) \in Nat /\ at + n - 1 <= Len(plan)
      /\ DOMAIN plan = 1..Len(plan)
  BY <1>1 DEF Bounded, IsRunOf
<1>4. slots = [i \in 1..n |-> slots[i]] /\ \A i \in 1..n : slots[i] = plan[at + i - 1].page
  BY <1>1, <1>2
<1>5. \A i \in 1..n : slots[i] \in Slots
  <2> SUFFICES ASSUME NEW i \in 1..n  PROVE slots[i] \in Slots
    OBVIOUS
  <2>1. at + i - 1 \in 1..Len(plan)
    BY <1>3
  <2>2. plan[at + i - 1] \in PlanEntry
    BY <2>1
  <2> QED  BY <1>4, <2>2 DEF PlanEntry
<1>6. slots \in Seq(Slots) /\ Len(slots) = n /\ DOMAIN slots = 1..n /\ slots # <<>>
  <2>1. slots \in [1..n -> Slots]
    BY <1>4, <1>5
  <2> QED  BY <1>3, <2>1
<1>7. ASSUME NEW i \in 1..n - 1
      PROVE  /\ slots[i + 1] = slots[i] + 1 /\ slots[i + 1] \in DOMAIN order
             /\ order[slots[i + 1]].doc = order[slots[i]].doc
             /\ order[slots[i + 1]].page = order[slots[i]].page + 1
  <2>1. at + i - 1 \in at..at + n - 2 /\ i \in 1..n /\ i + 1 \in 1..n /\ (at + i - 1) + 1 = at + (i + 1) - 1
    BY <1>3
  <2>2. Continues(plan, at + i - 1)
    BY <1>1, <2>1 DEF IsRunOf
  <2>3. PICK j : j = at + i - 1
    OBVIOUS
  <2>4. slots[i] = plan[j].page /\ slots[i + 1] = plan[j + 1].page
    BY <1>4, <2>1, <2>3
  <2>5. Continues(plan, j)
    BY <2>2, <2>3
  <2> QED  BY <2>4, <2>5 DEF Continues, Addressable
<1>8. \A i \in 1..n : slots[i] \in DOMAIN order /\ order[slots[i]].doc = order[slots[1]].doc
  <2> DEFINE T == {i \in 0..n - 1 : slots[i + 1] \in DOMAIN order
                                      /\ order[slots[i + 1]].doc = order[slots[1]].doc}
  <2>1. 0 \in T
    <3>1. slots[1] = plan[at].page /\ 0 \in 0..n - 1 /\ 0 + 1 = 1
      BY <1>3, <1>4
    <3> QED  BY <3>1 DEF Addressable
  <2>2. \A i \in 1..n - 1 : i - 1 \in T => i \in T
    <3> SUFFICES ASSUME NEW i \in 1..n - 1, i - 1 \in T  PROVE i \in T
      OBVIOUS
    <3>1. (i - 1) + 1 = i /\ i \in 0..n - 1
      BY <1>3
    <3>2. slots[i] \in DOMAIN order /\ order[slots[i]].doc = order[slots[1]].doc
      BY <3>1
    <3>3. slots[i + 1] \in DOMAIN order /\ order[slots[i + 1]].doc = order[slots[i]].doc
      BY <1>7
    <3> QED  BY <3>1, <3>2, <3>3
  <2>3. \A i \in 0..n - 1 : i \in T
    <3>1. n - 1 \in Nat
      BY <1>3
    <3> HIDE DEF T
    <3> QED  BY <2>1, <2>2, <3>1, UpTo
  <2> SUFFICES ASSUME NEW i \in 1..n
               PROVE  slots[i] \in DOMAIN order /\ order[slots[i]].doc = order[slots[1]].doc
    OBVIOUS
  <2>4. i - 1 \in 0..n - 1 /\ (i - 1) + 1 = i
    BY <1>3
  <2>5. i - 1 \in T
    <3> HIDE DEF T
    <3> QED  BY <2>3, <2>4
  <2> QED  BY <2>4, <2>5
<1> QED  BY <1>2, <1>3, <1>4, <1>6, <1>7, <1>8 DEF RunOK

\* What is asked of such slots is of the pages they draw.
LEMMA AsksOfTheScreen ==
    ASSUME Bounded, OrderOK, NEW slots \in Seq(Slots), slots # <<>>,
           \A i \in DOMAIN slots : /\ slots[i] \in DOMAIN order
                                   /\ order[slots[i]].doc = order[slots[1]].doc,
           NEW w \in WalkType, NEW kind \in {"run", "page", "join"}
    PROVE  LET v == Asks(w, kind, slots) IN
           /\ v \in WalkType /\ v.pc = kind /\ v.plan = w.plan /\ v.scoped = w.scoped
           /\ v.at = w.at /\ v.carried = w.carried /\ v.asked = slots
           /\ Len(v.sources) = Len(slots) /\ DOMAIN v.sources = DOMAIN slots
           /\ \A i \in DOMAIN slots : v.sources[i] = order[slots[i]]
           /\ v.carry = CarryInto(w.carried, slots[1])
<1> DEFINE sources == [i \in DOMAIN slots |-> [order[slots[i]] EXCEPT !.doc = order[slots[1]].doc]]
           carry == CarryInto(w.carried, slots[1])
           v == [w EXCEPT !.pc = kind, !.asked = slots, !.sources = sources, !.carry = carry]
<1>1. v = Asks(w, kind, slots)
  BY DEF Asks
<1>2. order \in Seq(Address)
  BY DEF OrderOK
<1>3. \A i \in DOMAIN slots : sources[i] = order[slots[i]] /\ sources[i] \in Address
  <2> SUFFICES ASSUME NEW i \in DOMAIN slots  PROVE sources[i] = order[slots[i]] /\ sources[i] \in Address
    OBVIOUS
  <2>1. PICK a, d : a = order[slots[i]] /\ d = order[slots[1]].doc
    OBVIOUS
  <2>2. a \in Address /\ a.doc = d
    BY <1>2, <2>1
  <2>3. [a EXCEPT !.doc = d] = a
    BY <2>2 DEF Address
  <2>4. sources[i] = [a EXCEPT !.doc = d]
    BY <2>1
  <2> HIDE DEF sources
  <2> QED  BY <2>1, <2>2, <2>3, <2>4
<1>4. DOMAIN sources = DOMAIN slots /\ DOMAIN slots = 1..Len(slots) /\ Len(slots) \in Nat
      /\ sources = [i \in 1..Len(slots) |-> sources[i]]
  OBVIOUS
<1> HIDE DEF sources
<1>5. sources \in Seq(Address) /\ Len(sources) = Len(slots)
  <2>1. sources \in [1..Len(slots) -> Address]
    BY <1>3, <1>4
  <2> QED  BY <1>4, <2>1
<1>6. carry \in PageOrNone
  BY DEF CarryInto, PageOrNone, WalkType
<1> HIDE DEF carry
<1>7. v \in WalkType
  BY <1>5, <1>6 DEF WalkType
<1>8. /\ v.pc = kind /\ v.plan = w.plan /\ v.scoped = w.scoped /\ v.at = w.at
      /\ v.carried = w.carried /\ v.asked = slots /\ v.sources = sources /\ v.carry = carry
  BY DEF WalkType
<1> HIDE DEF v
<1> QED  BY <1>1, <1>3, <1>4, <1>5, <1>7, <1>8 DEF carry

\* What is asked next: the first slot left that has a page, with those it can be
\* asked for with; the break the walk began behind; or nothing.
AsksNext(w, v) ==
    /\ v \in WalkType /\ v.plan = w.plan /\ v.scoped = w.scoped /\ v.carried = w.carried
    /\ Len(v.asked) = Len(v.sources)
    /\ \A i \in DOMAIN v.asked : v.sources[i] = order[v.asked[i]]
    /\ v.asked # <<>> => v.carry = CarryInto(w.carried, v.asked[1])

Finds(w, v) ==
    /\ v.pc \in {"run", "page"} /\ v.at \in w.at..Len(w.plan)
    /\ \A k \in w.at..v.at - 1 : ~Addressable(w.plan[k].page)
    /\ RunOK(w.plan, v.at, v.asked)

LooksBack(w, v) ==
    /\ v.pc = "join" /\ v.at = Len(w.plan) + 1 /\ v.asked = <<w.plan[1].page>> /\ LooksBehind(w)
    /\ \A k \in w.at..Len(w.plan) : ~Addressable(w.plan[k].page)

Stops(w, v) ==
    /\ v.pc = "ended" /\ v.at = Len(w.plan) + 1 /\ v.asked = <<>> /\ ~LooksBehind(w)
    /\ \A k \in w.at..Len(w.plan) : ~Addressable(w.plan[k].page)

LEMMA AsksFromThere ==
    ASSUME Bounded, OrderOK, NEW w \in WalkType, NEW at \in 1..Len(w.plan),
           Addressable(w.plan[at].page)
    PROVE  /\ AsksNext(w, AsksFrom(w, at)) /\ AsksFrom(w, at).pc \in {"run", "page"}
           /\ AsksFrom(w, at).at = at /\ RunOK(w.plan, at, AsksFrom(w, at).asked)
<1>1. PICK slots, kind, u : /\ slots = RunFrom(w.plan, at)
                            /\ kind = (IF Len(slots) > 1 THEN "run" ELSE "page")
                            /\ u = [w EXCEPT !.at = at]
  OBVIOUS
<1>2. w.plan \in Seq(PlanEntry) /\ at \in Nat
  BY DEF WalkType
<1>3. RunOK(w.plan, at, slots)
  BY <1>1, <1>2, RunIsOnTheScreen
<1>4. /\ slots \in Seq(Slots) /\ slots # <<>>
      /\ \A i \in DOMAIN slots : slots[i] \in DOMAIN order /\ order[slots[i]].doc = order[slots[1]].doc
  BY <1>3 DEF RunOK
<1>5. u \in WalkType /\ u.plan = w.plan /\ u.scoped = w.scoped /\ u.carried = w.carried /\ u.at = at
  BY <1>1, <1>2 DEF WalkType
<1>6. kind \in {"run", "page"}
  BY <1>1
<1>7. PICK v : v = AsksFrom(w, at)
  OBVIOUS
<1>8. v = Asks(u, kind, slots)
  BY <1>1, <1>7 DEF AsksFrom
<1>9. /\ v \in WalkType /\ v.pc = kind /\ v.plan = u.plan /\ v.scoped = u.scoped
      /\ v.at = u.at /\ v.carried = u.carried /\ v.asked = slots
      /\ Len(v.sources) = Len(slots)
      /\ \A i \in DOMAIN slots : v.sources[i] = order[slots[i]]
      /\ v.carry = CarryInto(u.carried, slots[1])
  <2>1. kind \in {"run", "page", "join"}
    BY <1>6
  <2> QED  BY <1>4, <1>5, <1>8, <2>1, AsksOfTheScreen
<1>10. AsksNext(w, v)
  BY <1>5, <1>9 DEF AsksNext
<1> QED  BY <1>3, <1>5, <1>6, <1>7, <1>9, <1>10

LEMMA OneSlot ==
    ASSUME NEW slot \in Slots
    PROVE  /\ <<slot>> \in Seq(Slots) /\ <<slot>> # <<>> /\ DOMAIN <<slot>> = {1}
           /\ <<slot>>[1] = slot /\ Len(<<slot>>) = 1
OBVIOUS

LEMMA AsksOnePage ==
    ASSUME Bounded, OrderOK, NEW w \in WalkType, NEW kind \in {"page", "join"}, NEW slot \in Slots,
           Addressable(slot)
    PROVE  LET v == Asks(w, kind, <<slot>>) IN
           AsksNext(w, v) /\ v.pc = kind /\ v.at = w.at /\ v.asked = <<slot>>
<1>0. PICK slots : slots = <<slot>>
  OBVIOUS
<1>1. PICK v : v = Asks(w, kind, slots)
  OBVIOUS
<1>2. slots \in Seq(Slots) /\ slots # <<>> /\ DOMAIN slots = {1} /\ slots[1] = slot
  BY <1>0, OneSlot
<1>3. \A i \in DOMAIN slots : slots[i] \in DOMAIN order /\ order[slots[i]].doc = order[slots[1]].doc
  BY <1>2 DEF Addressable
<1>4. /\ v \in WalkType /\ v.pc = kind /\ v.plan = w.plan /\ v.scoped = w.scoped
      /\ v.at = w.at /\ v.carried = w.carried /\ v.asked = slots
      /\ Len(v.sources) = Len(slots)
      /\ \A i \in DOMAIN slots : v.sources[i] = order[slots[i]]
      /\ v.carry = CarryInto(w.carried, slots[1])
  <2>1. kind \in {"run", "page", "join"}
    OBVIOUS
  <2> QED  BY <1>1, <1>2, <1>3, <2>1, AsksOfTheScreen
<1>5. AsksNext(w, v)
  BY <1>4 DEF AsksNext
<1> QED  BY <1>0, <1>1, <1>4, <1>5

LEMMA EndedIs ==
    ASSUME NEW w \in WalkType
    PROVE  LET v == Ended(w) IN
           AsksNext(w, v) /\ v.pc = "ended" /\ v.at = w.at /\ v.asked = <<>>
<1>1. PICK v : v = [w EXCEPT !.pc = "ended", !.asked = <<>>, !.sources = <<>>, !.carry = NoPage]
  OBVIOUS
<1>2. v \in WalkType
  <2>1. <<>> \in Seq(Slots) /\ <<>> \in Seq(Address) /\ NoPage \in PageOrNone
    BY DEF PageOrNone
  <2> HIDE DEF Slots
  <2> QED  BY <1>1, <2>1 DEF WalkType
<1>3. /\ v.pc = "ended" /\ v.at = w.at /\ v.asked = <<>> /\ v.sources = <<>> /\ v.plan = w.plan
      /\ v.scoped = w.scoped /\ v.carried = w.carried
  BY <1>1 DEF WalkType
<1>4. AsksNext(w, v)
  BY <1>2, <1>3 DEF AsksNext
<1> QED  BY <1>1, <1>3, <1>4 DEF Ended

LEMMA OnwardIs ==
    ASSUME Bounded, OrderOK, NEW w \in WalkType, w.at \in 1..Len(w.plan) + 1
    PROVE  LET v == Onward(w) IN
           AsksNext(w, v) /\ (Finds(w, v) \/ LooksBack(w, v) \/ Stops(w, v))
<1> DEFINE left == {i \in w.at..Len(w.plan) : Addressable(w.plan[i].page)}
           past == [w EXCEPT !.at = Len(w.plan) + 1]
<1>1. PICK v : v = Onward(w)
  OBVIOUS
<1>2. w.plan \in Seq(PlanEntry) /\ Len(w.plan) \in Nat /\ w.at \in Nat
  BY DEF WalkType
<1>3. CASE left # {}
  <2>1. PICK i : i = CHOOSE k \in left : \A j \in left : k <= j
    OBVIOUS
  <2>2. i \in left /\ \A j \in left : i <= j
    <3>1. left \in SUBSET Nat
      BY <1>2
    <3> HIDE DEF left
    <3>2. \E k \in left : \A j \in left : k <= j
      BY <1>3, <3>1, LeastNumber
    <3> QED  BY <2>1, <3>2
  <2>3. i \in 1..Len(w.plan) /\ i \in w.at..Len(w.plan) /\ Addressable(w.plan[i].page)
    BY <1>2, <2>2
  <2>4. v = AsksFrom(w, i)
    BY <1>1, <1>3, <2>1 DEF Onward
  <2>5. /\ AsksNext(w, v) /\ v.pc \in {"run", "page"}
        /\ v.at = i /\ RunOK(w.plan, i, v.asked)
    BY <2>3, <2>4, AsksFromThere
  <2>6. \A k \in w.at..i - 1 : ~Addressable(w.plan[k].page)
    BY <1>2, <2>2
  <2>7. Finds(w, v)
    BY <2>3, <2>5, <2>6 DEF Finds
  <2> QED  BY <1>1, <2>5, <2>7
<1>4. CASE left = {}
  <2>1. \A k \in w.at..Len(w.plan) : ~Addressable(w.plan[k].page)
    BY <1>4
  <2>2. past \in WalkType
    <3>1. Len(w.plan) + 1 \in Nat
      BY <1>2
    <3> QED  BY <3>1 DEF WalkType
  <2>3. /\ past.at = Len(w.plan) + 1 /\ past.plan = w.plan /\ past.scoped = w.scoped
        /\ past.carried = w.carried
    BY DEF WalkType
  <2>4. v = IF LooksBehind(past) THEN Asks(past, "join", <<past.plan[1].page>>) ELSE Ended(past)
    BY <1>1, <1>4 DEF Onward
  <2>5. PICK u : u = past
    OBVIOUS
  <2>6. LooksBehind(u) <=> LooksBehind(w)
    BY <2>3, <2>5 DEF LooksBehind
  <2>7. CASE LooksBehind(u)
    <3>1. PICK slot : slot = w.plan[1].page
      OBVIOUS
    <3>2. slot \in Slots /\ Addressable(slot)
      <4>1. w.plan[1] \in PlanEntry
        BY <1>2, <2>3, <2>5, <2>7 DEF LooksBehind
      <4> QED  BY <2>3, <2>5, <2>7, <3>1, <4>1 DEF LooksBehind, PlanEntry
    <3>3. v = Asks(u, "join", <<slot>>)
      BY <2>3, <2>4, <2>5, <2>7, <3>1
    <3>4. AsksNext(u, v) /\ v.pc = "join" /\ v.at = u.at /\ v.asked = <<slot>>
      BY <2>2, <2>5, <3>2, <3>3, AsksOnePage
    <3>5. AsksNext(w, v)
      BY <2>3, <2>5, <3>4 DEF AsksNext
    <3>6. LooksBack(w, v)
      BY <2>1, <2>3, <2>5, <2>6, <2>7, <3>1, <3>4 DEF LooksBack
    <3> QED  BY <1>1, <3>5, <3>6
  <2>8. CASE ~LooksBehind(u)
    <3>1. v = Ended(u)
      BY <2>4, <2>5, <2>8
    <3>2. AsksNext(u, v) /\ v.pc = "ended" /\ v.at = u.at /\ v.asked = <<>>
      BY <2>2, <2>5, <3>1, EndedIs
    <3>3. AsksNext(w, v)
      BY <2>3, <2>5, <3>2 DEF AsksNext
    <3>4. Stops(w, v)
      BY <2>1, <2>3, <2>5, <2>6, <2>8, <3>2 DEF Stops
    <3> QED  BY <1>1, <3>3, <3>4
  <2> QED  BY <2>7, <2>8
<1> QED  BY <1>3, <1>4

\* Whatever is asked next, the walk is well formed, superseded or not.
LEMMA AskedIsOK ==
    ASSUME Bounded, OrderOK, NEW w \in WalkType, w.at \in 1..Len(w.plan) + 1
    PROVE  WalkOK(Onward(w)) /\ WalkOK(Ended(w))
<1>1. PICK v : v = Onward(w)
  OBVIOUS
<1>2. AsksNext(w, v) /\ (Finds(w, v) \/ LooksBack(w, v) \/ Stops(w, v))
  BY <1>1, OnwardIs
<1>3. w.at \in Nat /\ Len(w.plan) \in Nat
  BY DEF WalkType
<1>4. WalkOK(v)
  <2>1. CASE Finds(w, v)
    BY <1>2, <1>3, <2>1 DEF AsksNext, Finds, RunOK, WalkOK, Asking
  <2>2. CASE LooksBack(w, v)
    <3>1. v.asked # <<>> /\ v.at \in 1..Len(w.plan) + 1 /\ v.pc = "join"
      BY <1>3, <2>2 DEF LooksBack
    <3> QED  BY <1>2, <3>1 DEF AsksNext, WalkOK, Asking
  <2>3. CASE Stops(w, v)
    <3>1. v.at \in 1..Len(w.plan) + 1 /\ v.pc = "ended"
      BY <1>3, <2>3 DEF Stops
    <3> QED  BY <1>2, <3>1 DEF AsksNext, WalkOK, Asking
  <2> QED  BY <1>2, <2>1, <2>2, <2>3
<1>5. PICK u : u = Ended(w)
  OBVIOUS
<1>6. AsksNext(w, u) /\ u.pc = "ended" /\ u.at = w.at /\ u.asked = <<>>
  BY <1>5, EndedIs
<1>7. WalkOK(u)
  BY <1>6 DEF AsksNext, WalkOK, Asking
<1> QED  BY <1>1, <1>4, <1>5, <1>7

LEMMA SupersededIsOK ==
    ASSUME NEW w, WalkOK(w)
    PROVE  WalkOK(Superseded(w)) /\ Superseded(w).pc = w.pc
<1>1. w \in WalkType /\ Len(w.plan) \in Nat
  BY DEF WalkOK, WalkType
<1>2. CASE w.pc \in {"none", "ended"}
  <2>1. PICK v : v = [NoWalk EXCEPT !.pc = w.pc]
    OBVIOUS
  <2>2. v = [pc |-> w.pc, plan |-> <<>>, scoped |-> FALSE, at |-> 1, carried |-> NoCarry,
             asked |-> <<>>, sources |-> <<>>, carry |-> NoPage]
    BY <2>1 DEF NoWalk
  <2>3. v \in WalkType
    BY <1>2, <2>2 DEF WalkType, NoCarry, PageOrNone
  <2>4. v.pc = w.pc /\ v.plan = <<>> /\ v.at = 1 /\ v.asked = <<>> /\ v.sources = <<>>
    BY <2>2
  <2>5. v.pc \in {"none", "ended"} /\ 1 \in 1..Len(v.plan) + 1
    BY <1>2, <2>4
  <2>6. WalkOK(v)
    BY <2>3, <2>4, <2>5 DEF WalkOK, Asking
  <2>7. Superseded(w) = v
    BY <1>2, <2>1 DEF Superseded
  <2> QED  BY <2>4, <2>6, <2>7
<1>3. CASE w.pc = "run"
  BY <1>3 DEF Superseded
<1>4. CASE w.pc \notin {"none", "ended", "run"}
  <2>1. PICK v : v = [w EXCEPT !.carried = NoCarry, !.at = 1]
    OBVIOUS
  <2>2. v \in WalkType
    BY <1>1, <2>1 DEF WalkType, NoCarry, PageOrNone
  <2>3. v.pc = w.pc /\ v.plan = w.plan /\ v.at = 1 /\ v.asked = w.asked /\ v.sources = w.sources
    BY <1>1, <2>1 DEF WalkType
  <2>4. 1 \in 1..Len(v.plan) + 1
    BY <1>1, <2>3
  <2>5. WalkOK(v)
    BY <1>4, <2>2, <2>3, <2>4 DEF WalkOK, Asking
  <2>6. Superseded(w) = v
    BY <1>4, <2>1 DEF Superseded
  <2> QED  BY <2>3, <2>5, <2>6
<1> QED  BY <1>2, <1>3, <1>4

-----------------------------------------------------------------------------
\* The hits there are.

AHit == [from : Nat, to : Nat, text : PageOrNone \X PageOrNone]

LEMMA Doubles ==
    ASSUME NEW i \in Nat
    PROVE  /\ (2 * i) \div 2 = i /\ (2 * i + 1) \div 2 = i
           /\ (2 * i) % 2 = 0 /\ (2 * i + 1) % 2 = 1 /\ (2 * i) % 2 # 1 /\ (2 * i + 1) % 2 # 0
OBVIOUS

LEMMA EvenOrOdd ==
    ASSUME NEW k \in Nat
    PROVE  \E i \in Nat : k = 2 * i \/ k = 2 * i + 1
<1>1. PICK q, r : q = k \div 2 /\ r = k % 2
  OBVIOUS
<1>2. q \in Int /\ r \in 0..1 /\ k = 2 * q + r
  BY <1>1
<1>3. q \in Nat
  BY <1>2
<1> QED  BY <1>2, <1>3

\* The places along a plan are those of its slots.
LEMMA PlacesOfAPlan ==
    ASSUME NEW n \in Nat, NEW k \in 2..2 * n + 1
    PROVE  \E i \in 1..n : k = 2 * i \/ k = 2 * i + 1
<1>1. PICK i \in Nat : k = 2 * i \/ k = 2 * i + 1
  BY EvenOrOdd
<1>2. i \in 1..n
  BY <1>1
<1> QED  BY <1>1, <1>2

OwnAlong(h, slot) ==
    h.from = slot /\ h.to = slot /\ h.text = <<order[slot], order[slot]>>

JoinAlong(h, slot) ==
    h.from = slot /\ h.to = slot + 1 /\ h.text = <<order[slot], Below(slot)>>

LEMMA HitsAlongAPlan ==
    ASSUME Bounded, OrderOK, NEW plan, NEW scoped, PlanOK(plan, scoped)
    PROVE  /\ HitsAlong(plan) \in Seq(AHit) /\ Len(HitsAlong(plan)) = 2 * Len(plan) + 1
           /\ Len(plan) \in Nat \ {0}
           /\ \A i \in 1..Len(plan) :
                 /\ HitsAlong(plan)[2 * i] = Own(plan[i].page, order[plan[i].page])
                 /\ HitsAlong(plan)[2 * i + 1] =
                      Join(plan[i].page + 1, order[plan[i].page], Below(plan[i].page))
                 /\ OwnAlong(HitsAlong(plan)[2 * i], plan[i].page)
                 /\ JoinAlong(HitsAlong(plan)[2 * i + 1], plan[i].page)
<1>1. PICK n, H : n = Len(plan) /\ H = HitsAlong(plan)
  OBVIOUS
<1>2. n \in Nat \ {0} /\ DOMAIN plan = 1..n /\ \A i \in 1..n : plan[i].page \in DOMAIN order
  BY <1>1 DEF PlanOK
<1>3. /\ H = [k \in 1..2 * n + 1 |-> H[k]]
      /\ \A k \in 1..2 * n + 1 :
            H[k] = IF k = 1 THEN Own(0, NoPage)
                   ELSE IF k % 2 = 0 THEN Own(plan[k \div 2].page, order[plan[k \div 2].page])
                   ELSE Join(plan[k \div 2].page + 1, order[plan[k \div 2].page],
                             Below(plan[k \div 2].page))
  BY <1>1 DEF HitsAlong
<1>4. order \in Seq(Address) /\ DOMAIN order = 1..Len(order) /\ Len(order) \in Nat
  BY DEF OrderOK
<1>5. ASSUME NEW slot \in DOMAIN order
      PROVE  /\ order[slot] \in PageOrNone /\ Below(slot) \in PageOrNone /\ slot \in Nat
             /\ Own(slot, order[slot]) \in AHit /\ Join(slot + 1, order[slot], Below(slot)) \in AHit
             /\ OwnAlong(Own(slot, order[slot]), slot)
             /\ JoinAlong(Join(slot + 1, order[slot], Below(slot)), slot)
  <2>1. slot \in Nat /\ order[slot] \in PageOrNone
    BY <1>4 DEF PageOrNone
  <2>2. Below(slot) \in PageOrNone
    <3>1. CASE slot = Len(order)
      BY <3>1 DEF Below, PageOrNone
    <3>2. CASE slot # Len(order)
      <4>1. slot + 1 \in 1..Len(order)
        BY <1>4, <3>2
      <4> QED  BY <1>4, <3>2, <4>1 DEF Below, PageOrNone
    <3> QED  BY <3>1, <3>2
  <2>3. PICK a, b : a = order[slot] /\ b = Below(slot)
    OBVIOUS
  <2>4. a \in PageOrNone /\ b \in PageOrNone
    BY <2>1, <2>2, <2>3
  <2>5. Own(slot, a) = [from |-> slot, to |-> slot, text |-> <<a, a>>]
    BY DEF Own
  <2>6. Join(slot + 1, a, b) = [from |-> slot, to |-> slot + 1, text |-> <<a, b>>]
    BY <2>1 DEF Join
  <2>7. Own(slot, a) \in AHit /\ Join(slot + 1, a, b) \in AHit
    BY <2>1, <2>4, <2>5, <2>6 DEF AHit
  <2>8. OwnAlong(Own(slot, a), slot) /\ JoinAlong(Join(slot + 1, a, b), slot)
    BY <2>3, <2>5, <2>6 DEF OwnAlong, JoinAlong
  <2> QED  BY <2>1, <2>2, <2>3, <2>7, <2>8
<1>6. ASSUME NEW i \in 1..n
      PROVE  /\ H[2 * i] = Own(plan[i].page, order[plan[i].page])
             /\ H[2 * i + 1] = Join(plan[i].page + 1, order[plan[i].page], Below(plan[i].page))
  <2>1. 2 * i \in 1..2 * n + 1 /\ 2 * i + 1 \in 1..2 * n + 1 /\ 2 * i # 1 /\ 2 * i + 1 # 1 /\ i \in Nat
    BY <1>2
  <2>2. PICK x, y : x = 2 * i /\ y = 2 * i + 1
    OBVIOUS
  <2>3. /\ x \div 2 = i /\ y \div 2 = i /\ x % 2 = 0 /\ y % 2 # 0 /\ x # 1 /\ y # 1
        /\ x \in 1..2 * n + 1 /\ y \in 1..2 * n + 1
    BY <2>1, <2>2, Doubles
  <2>4. /\ H[x] = Own(plan[i].page, order[plan[i].page])
        /\ H[y] = Join(plan[i].page + 1, order[plan[i].page], Below(plan[i].page))
    BY <1>3, <2>3
  <2> QED  BY <2>2, <2>4
<1>7. \A k \in 1..2 * n + 1 : H[k] \in AHit
  <2> SUFFICES ASSUME NEW k \in 1..2 * n + 1  PROVE H[k] \in AHit
    OBVIOUS
  <2>1. CASE k = 1
    <3>1. H[k] = [from |-> 0, to |-> 0, text |-> <<NoPage, NoPage>>]
      BY <1>3, <2>1 DEF Own
    <3> QED  BY <3>1 DEF AHit, PageOrNone
  <2>2. CASE k # 1
    <3>1. k \in 2..2 * n + 1 /\ n \in Nat
      BY <1>2, <2>2
    <3>2. PICK i \in 1..n : k = 2 * i \/ k = 2 * i + 1
      BY <3>1, PlacesOfAPlan
    <3>3. plan[i].page \in DOMAIN order
      BY <1>2
    <3>4. \/ H[k] = Own(plan[i].page, order[plan[i].page])
          \/ H[k] = Join(plan[i].page + 1, order[plan[i].page], Below(plan[i].page))
      BY <1>6, <3>2
    <3> QED  BY <1>5, <3>3, <3>4
  <2> QED  BY <2>1, <2>2
<1>8. H \in Seq(AHit) /\ Len(H) = 2 * n + 1
  <2>1. H \in [1..2 * n + 1 -> AHit] /\ 2 * n + 1 \in Nat
    BY <1>2, <1>3, <1>7
  <2> QED  BY <2>1
<1>9. \A i \in 1..n : OwnAlong(H[2 * i], plan[i].page) /\ JoinAlong(H[2 * i + 1], plan[i].page)
  <2> SUFFICES ASSUME NEW i \in 1..n
               PROVE  OwnAlong(H[2 * i], plan[i].page) /\ JoinAlong(H[2 * i + 1], plan[i].page)
    OBVIOUS
  <2>1. PICK slot : slot = plan[i].page
    OBVIOUS
  <2>2. slot \in DOMAIN order
    BY <1>2, <2>1
  <2>3. H[2 * i] = Own(slot, order[slot]) /\ H[2 * i + 1] = Join(slot + 1, order[slot], Below(slot))
    BY <1>6, <2>1
  <2> QED  BY <1>5, <2>1, <2>2, <2>3
<1> QED  BY <1>1, <1>2, <1>6, <1>8, <1>9

\* What is good is a hit of the pages on the screen, and no two are the same.
LEMMA GoodHits ==
    ASSUME Bounded, OrderOK, NEW plan, NEW scoped, PlanOK(plan, scoped)
    PROVE  /\ Good(plan) \in SUBSET (1..Len(HitsAlong(plan)))
           /\ \A k \in Good(plan) : HitsAlong(plan)[k] \in Hit /\ HitOn(order, HitsAlong(plan)[k])
           /\ \A j, k \in Good(plan) : HitsAlong(plan)[j] = HitsAlong(plan)[k] => j = k
<1>1. PICK n, H : n = Len(plan) /\ H = HitsAlong(plan)
  OBVIOUS
<1>2. /\ n \in Nat \ {0} /\ Len(H) = 2 * n + 1
      /\ \A i \in 1..n : OwnAlong(H[2 * i], plan[i].page) /\ JoinAlong(H[2 * i + 1], plan[i].page)
      /\ H \in Seq(AHit)
  BY <1>1, HitsAlongAPlan
<1>3. /\ \A i \in 1..n : plan[i].page \in DOMAIN order
      /\ \A i, j \in 1..n : plan[i].page = plan[j].page => i = j
  <2>1. DOMAIN plan = 1..n
    BY <1>1 DEF PlanOK
  <2> QED  BY <2>1 DEF PlanOK
<1>4. order \in Seq(Address) /\ DOMAIN order = 1..Len(order) /\ Len(order) \in Nat /\ Len(order) <= Pages
      /\ Pages \in Nat
  BY DEF OrderOK, Bounded
<1>5. \A k \in Good(plan) : k \in 2..2 * n + 1 /\ H[k].text[2] # NoPage
  BY <1>1 DEF Good
<1>6. Good(plan) \in SUBSET (1..Len(H))
  BY <1>2, <1>5
<1>7. ASSUME NEW k \in Good(plan)
      PROVE  H[k] \in Hit /\ HitOn(order, H[k])
  <2>1. k \in 2..2 * n + 1 /\ H[k].text[2] # NoPage /\ n \in Nat
    BY <1>2, <1>5
  <2>2. PICK i \in 1..n : k = 2 * i \/ k = 2 * i + 1
    BY <2>1, PlacesOfAPlan
  <2>3. PICK slot, h : slot = plan[i].page /\ h = H[k]
    OBVIOUS
  <2>4. slot \in DOMAIN order /\ slot \in 1..Len(order) /\ slot \in Slots
    BY <1>3, <1>4, <2>3 DEF Slots
  <2>5. h \in AHit
    BY <1>2, <1>6, <2>3
  <2>6. OwnAlong(h, slot) \/ JoinAlong(h, slot)
    BY <1>2, <2>2, <2>3
  <2>7. CASE OwnAlong(h, slot)
    <3>1. HitOn(order, h)
      BY <2>4, <2>7 DEF OwnAlong, HitOn
    <3>2. h = [from |-> h.from, to |-> h.to, text |-> h.text]
      BY <2>5 DEF AHit
    <3>3. h.text \in Address \X Address
      BY <1>4, <2>4, <2>7 DEF OwnAlong
    <3> QED  BY <2>3, <2>4, <2>7, <3>1, <3>2, <3>3 DEF OwnAlong, Hit
  <2>8. CASE JoinAlong(h, slot)
    <3>1. Below(slot) # NoPage
      BY <2>1, <2>3, <2>8 DEF JoinAlong
    <3>2. slot # Len(order) /\ Below(slot) = order[slot + 1]
      BY <3>1 DEF Below
    <3>3. slot + 1 \in 1..Len(order) /\ slot + 1 \in Slots
      BY <1>4, <2>4, <3>2 DEF Slots
    <3>4. HitOn(order, h)
      BY <1>4, <2>4, <2>8, <3>2, <3>3 DEF JoinAlong, HitOn
    <3>5. h = [from |-> h.from, to |-> h.to, text |-> h.text]
      BY <2>5 DEF AHit
    <3>6. h.text \in Address \X Address
      BY <1>4, <2>4, <2>8, <3>2, <3>3 DEF JoinAlong
    <3> QED  BY <2>3, <2>4, <2>8, <3>3, <3>4, <3>5, <3>6 DEF JoinAlong, Hit
  <2> QED  BY <2>3, <2>6, <2>7, <2>8
<1>8. ASSUME NEW j \in Good(plan), NEW k \in Good(plan), H[j] = H[k]
      PROVE  j = k
  <2>1. j \in 2..2 * n + 1 /\ k \in 2..2 * n + 1 /\ n \in Nat
    BY <1>2, <1>5
  <2>2. PICK i \in 1..n : j = 2 * i \/ j = 2 * i + 1
    BY <2>1, PlacesOfAPlan
  <2>3. PICK l \in 1..n : k = 2 * l \/ k = 2 * l + 1
    BY <2>1, PlacesOfAPlan
  <2>4. PICK h, s, t : h = H[j] /\ s = plan[i].page /\ t = plan[l].page
    OBVIOUS
  <2>5. s \in Nat /\ t \in Nat /\ (s = t => i = l)
    BY <1>3, <1>4, <2>4
  <2>6. /\ j = 2 * i => OwnAlong(h, s)
        /\ j = 2 * i + 1 => JoinAlong(h, s)
        /\ k = 2 * l => OwnAlong(h, t)
        /\ k = 2 * l + 1 => JoinAlong(h, t)
    BY <1>2, <1>8, <2>4
  <2>7. /\ j = 2 * i => h.from = s /\ h.to = s
        /\ j = 2 * i + 1 => h.from = s /\ h.to = s + 1
        /\ k = 2 * l => h.from = t /\ h.to = t
        /\ k = 2 * l + 1 => h.from = t /\ h.to = t + 1
    BY <2>6 DEF OwnAlong, JoinAlong
  <2>8. i = l
    BY <2>2, <2>3, <2>5, <2>7
  <2> QED  BY <2>2, <2>3, <2>5, <2>7, <2>8
<1> QED  BY <1>1, <1>6, <1>7, <1>8

\* The list there is to find is what is good of the hits along the plan.
HitsOfPlan(plan) ==
    LET slot(k) == plan[(k + 1) \div 2].page
    IN  [k \in 1..2 * Len(plan) |->
            IF k % 2 = 1 THEN Own(slot(k), order[slot(k)])
            ELSE Join(slot(k) + 1, order[slot(k)],
                      IF slot(k) = Len(order) THEN NoPage ELSE order[slot(k) + 1])]

LEMMA AllHitsAre ==
    ASSUME Bounded, OrderOK, NEW plan, NEW scoped, PlanOK(plan, scoped)
    PROVE  AllHits(plan) = Subsequence(HitsAlong(plan), Good(plan))
<1>1. PICK n, H, t : n = Len(plan) /\ H = HitsAlong(plan) /\ t = HitsOfPlan(plan)
  OBVIOUS
<1>2. /\ n \in Nat \ {0} /\ H \in Seq(AHit) /\ Len(H) = 2 * n + 1
      /\ \A i \in 1..n :
            /\ H[2 * i] = Own(plan[i].page, order[plan[i].page])
            /\ H[2 * i + 1] = Join(plan[i].page + 1, order[plan[i].page], Below(plan[i].page))
  BY <1>1, HitsAlongAPlan
<1>3. /\ t = [k \in 1..2 * n |-> t[k]]
      /\ \A k \in 1..2 * n :
            t[k] = IF k % 2 = 1
                   THEN Own(plan[(k + 1) \div 2].page, order[plan[(k + 1) \div 2].page])
                   ELSE Join(plan[(k + 1) \div 2].page + 1, order[plan[(k + 1) \div 2].page],
                             Below(plan[(k + 1) \div 2].page))
  BY <1>1 DEF HitsOfPlan, Below
<1>4. \A k \in 1..2 * n : t[k] = H[k + 1]
  <2> SUFFICES ASSUME NEW k \in 1..2 * n  PROVE t[k] = H[k + 1]
    OBVIOUS
  <2>1. k + 1 \in 2..2 * n + 1 /\ n \in Nat
    BY <1>2
  <2>2. PICK i \in 1..n : k + 1 = 2 * i \/ k + 1 = 2 * i + 1
    BY <2>1, PlacesOfAPlan
  <2>3. CASE k + 1 = 2 * i
    <3>1. i - 1 \in Nat /\ k = 2 * (i - 1) + 1 /\ i \in Nat
      BY <1>2, <2>3
    <3>2. k % 2 = 1 /\ (k + 1) \div 2 = i
      <4>1. PICK m : m = i - 1
        OBVIOUS
      <4>2. m \in Nat /\ k = 2 * m + 1
        BY <3>1, <4>1
      <4>3. k % 2 = 1
        BY <4>2, Doubles
      <4> QED  BY <2>3, <3>1, <4>3, Doubles
    <3> QED  BY <1>2, <1>3, <2>3, <3>2
  <2>4. CASE k + 1 = 2 * i + 1
    <3>1. k = 2 * i /\ i \in Nat
      BY <1>2, <2>4
    <3>2. k % 2 # 1 /\ (k + 1) \div 2 = i
      BY <2>4, <3>1, Doubles
    <3> QED  BY <1>2, <1>3, <2>4, <3>2
  <2> QED  BY <2>2, <2>3, <2>4
<1>5. t \in Seq(AHit) /\ Len(t) = 2 * n /\ DOMAIN t = 1..2 * n
  <2>1. \A k \in 1..2 * n : t[k] \in AHit
    <3> SUFFICES ASSUME NEW k \in 1..2 * n  PROVE t[k] \in AHit
      OBVIOUS
    <3>1. k + 1 \in 1..Len(H)
      BY <1>2
    <3>2. H[k + 1] \in AHit
      BY <1>2, <3>1
    <3> QED  BY <1>4, <3>2
  <2>2. t \in [1..2 * n -> AHit] /\ 2 * n \in Nat
    BY <1>2, <1>3, <2>1
  <2> QED  BY <2>2
<1> DEFINE B == {k \in DOMAIN t : t[k].text[2] # NoPage /\ InScope(plan, t[k])}
<1>6. AllHits(plan) = Subsequence(t, B)
  BY <1>1 DEF AllHits, HitsOfPlan
<1>7. \A k \in 2..2 * n + 1 : k \in Good(plan) <=> k - 1 \in B
  <2> SUFFICES ASSUME NEW k \in 2..2 * n + 1  PROVE k \in Good(plan) <=> k - 1 \in B
    OBVIOUS
  <2>1. k - 1 \in 1..2 * n /\ (k - 1) + 1 = k
    BY <1>2
  <2>2. t[k - 1] = H[k]
    BY <1>4, <2>1
  <2> QED  BY <1>1, <1>5, <2>1, <2>2 DEF Good
<1>8. B \in SUBSET (1..Len(t)) /\ Good(plan) \in SUBSET (2..2 * n + 1)
  BY <1>1, <1>5 DEF Good
<1> HIDE DEF B
<1>9. Joined(Good(plan), {}, 1, B)
  <2>1. \A k \in Good(plan) : k - 1 \in B /\ k = 1 + (k - 1)
    <3> SUFFICES ASSUME NEW k \in Good(plan)  PROVE k - 1 \in B /\ k = 1 + (k - 1)
      OBVIOUS
    <3>1. k \in 2..2 * n + 1
      BY <1>8
    <3> QED  BY <1>2, <1>7, <3>1
  <2>2. \A i \in B : 1 + i \in Good(plan)
    <3> SUFFICES ASSUME NEW i \in B  PROVE 1 + i \in Good(plan)
      OBVIOUS
    <3>1. 1 + i \in 2..2 * n + 1 /\ (1 + i) - 1 = i
      BY <1>2, <1>5, <1>8
    <3> QED  BY <1>7, <3>1
  <2> QED  BY <2>1, <2>2 DEF Joined
<1>10. Follows(H, 1, t, B)
  <2> SUFFICES ASSUME NEW i \in B  PROVE 1 + i <= Len(H) /\ H[1 + i] = t[i]
    BY DEF Follows
  <2>1. i \in 1..2 * n /\ 1 + i = i + 1
    BY <1>2, <1>5, <1>8
  <2> QED  BY <1>2, <1>4, <2>1
<1>11. IsTwoParts(H, Good(plan), {}, t, B)
  <2>1. 1 \in 0..Len(H) /\ {} \in SUBSET (1..1)
    BY <1>2
  <2>2. PICK E, C, S : E = {} /\ C = Good(plan) /\ S = AHit
    OBVIOUS
  <2>3. IsTwoParts(H, C, E, t, B)
    BY <1>2, <1>5, <1>8, <1>9, <1>10, <2>1, <2>2, SubsequenceOfParts
  <2> QED  BY <2>2, <2>3
<1>12. Subsequence(H, {}) = <<>>
  <2>1. Len(H) \in Nat /\ 0 \in 0..Len(H) /\ Len(H) \in 0..Len(H)
    BY <1>2
  <2>2. Kept(H, {})[Len(H)] = Kept(H, {})[0]
    BY <2>1, KeptRests
  <2> QED  BY <2>1, <2>2, KeptIs
<1>13. Subsequence(t, B) \in Seq(AHit)
  BY <1>5, SubsequenceIs
<1>14. Subsequence(H, Good(plan)) = <<>> \o Subsequence(t, B)
  BY <1>11, <1>12 DEF IsTwoParts
<1>15. <<>> \o Subsequence(t, B) = Subsequence(t, B)
  BY <1>13
<1> QED  BY <1>1, <1>6, <1>14, <1>15

-----------------------------------------------------------------------------
\* A walk that goes on.

\* What is left of the plan is on the screen: it is asked for, and the break
\* behind only when something was carried there.
LEMMA GoesOn ==
    ASSUME Bounded, OrderOK, NEW u \in WalkType, u.at \in 1..Len(u.plan) + 1,
           PlanOK(u.plan, u.scoped), CarriedOK(u)
    PROVE  LET v == Onward(u) IN
           /\ v.plan = u.plan /\ v.scoped = u.scoped /\ v.carried = u.carried /\ v.at = u.at
           /\ v.pc # "none" /\ (Asking(v) => CarriedOK(v) /\ AskedOK(v))
           /\ v.pc = "ended" => v.at = Len(u.plan) + 1 /\ ~LooksBehind(u)
<1>1. PICK v, n : v = Onward(u) /\ n = Len(u.plan)
  OBVIOUS
<1>2. AsksNext(u, v) /\ (Finds(u, v) \/ LooksBack(u, v) \/ Stops(u, v))
  BY <1>1, OnwardIs
<1>3. n \in Nat /\ u.at \in Nat /\ u.at <= n + 1 /\ u.at >= 1
  BY <1>1 DEF WalkType
<1>4. \A k \in 1..n : Addressable(u.plan[k].page)
  <2>1. DOMAIN u.plan = 1..n
    BY <1>1 DEF PlanOK
  <2> QED  BY <2>1 DEF PlanOK, Addressable
<1>5. /\ v.plan = u.plan /\ v.scoped = u.scoped /\ v.carried = u.carried
      /\ Len(v.asked) = Len(v.sources) /\ \A i \in DOMAIN v.asked : v.sources[i] = order[v.asked[i]]
      /\ v.asked # <<>> => v.carry = CarryInto(u.carried, v.asked[1])
  BY <1>2 DEF AsksNext
<1>6. CASE Finds(u, v)
  <2>1. v.pc \in {"run", "page"} /\ v.at \in u.at..n /\ RunOK(u.plan, v.at, v.asked)
        /\ \A k \in u.at..v.at - 1 : ~Addressable(u.plan[k].page)
    BY <1>1, <1>6 DEF Finds
  <2>2. v.at = u.at
    <3>1. CASE v.at # u.at
      <4>1. u.at \in u.at..v.at - 1 /\ u.at \in 1..n
        BY <1>3, <2>1, <3>1
      <4> QED  BY <1>4, <2>1, <4>1
    <3> QED  BY <3>1
  <2>3. CarriedOK(v)
    BY <1>5, <2>2 DEF CarriedOK
  <2>4. AskedOK(v)
    <3>1. /\ v.asked # <<>> /\ v.at + Len(v.asked) - 1 <= Len(u.plan)
          /\ \A i \in DOMAIN v.asked : v.asked[i] = u.plan[v.at + i - 1].page
          /\ \A i \in 1..Len(v.asked) - 1 : v.asked[i + 1] = v.asked[i] + 1
                /\ order[v.asked[i + 1]].page = order[v.asked[i]].page + 1
          /\ DOMAIN v.asked = 1..Len(v.asked) /\ Len(v.asked) \in Nat
      BY <2>1 DEF RunOK
    <3>2. \A i \in 1..Len(v.asked) - 1 : v.sources[i + 1].page = v.sources[i].page + 1
      <4> SUFFICES ASSUME NEW i \in 1..Len(v.asked) - 1
                   PROVE  v.sources[i + 1].page = v.sources[i].page + 1
        OBVIOUS
      <4>1. i \in DOMAIN v.asked /\ i + 1 \in DOMAIN v.asked
        BY <3>1
      <4> QED  BY <1>5, <3>1, <4>1
    <3> QED  BY <1>5, <2>1, <3>1, <3>2 DEF AskedOK
  <2> QED  BY <1>1, <1>5, <2>1, <2>2, <2>3, <2>4
<1>7. ASSUME v.at = n + 1, \A k \in u.at..n : ~Addressable(u.plan[k].page)
      PROVE  v.at = u.at
  <2>1. CASE u.at # n + 1
    <3>1. u.at \in u.at..n /\ u.at \in 1..n
      BY <1>3, <2>1
    <3> QED  BY <1>4, <1>7, <3>1
  <2> QED  BY <1>7, <2>1
<1>8. CASE LooksBack(u, v)
  <2>1. v.pc = "join" /\ v.at = n + 1 /\ v.asked = <<u.plan[1].page>> /\ LooksBehind(u)
    BY <1>1, <1>8 DEF LooksBack
  <2>2. v.at = u.at
    BY <1>1, <1>7, <1>8, <2>1 DEF LooksBack
  <2>3. CarriedOK(v)
    BY <1>5, <2>2 DEF CarriedOK
  <2>4. AskedOK(v)
    BY <1>1, <1>5, <2>1 DEF AskedOK, LooksBehind
  <2> QED  BY <1>1, <1>5, <2>1, <2>2, <2>3, <2>4
<1>9. CASE Stops(u, v)
  <2>1. v.pc = "ended" /\ v.at = n + 1 /\ ~LooksBehind(u)
    BY <1>1, <1>9 DEF Stops
  <2>2. v.at = u.at
    BY <1>1, <1>7, <1>9, <2>1 DEF Stops
  <2> QED  BY <1>1, <1>5, <2>1, <2>2 DEF Asking
<1> QED  BY <1>2, <1>6, <1>8, <1>9

\* A plan that has come round has a last hit to find only where something was
\* carried out of it.
LEMMA NothingBehind ==
    ASSUME Bounded, OrderOK, NEW u, PlanOK(u.plan, u.scoped), ~LooksBehind(u),
           2 * Len(u.plan) + 1 \in Good(u.plan)
    PROVE  u.carried = NoCarry
<1>1. PICK n, plan : n = Len(u.plan) /\ plan = u.plan
  OBVIOUS
<1>2. PICK h, slot : h = HitsAlong(plan)[2 * n + 1] /\ slot = plan[n].page
  OBVIOUS
<1>3. n \in 1..n /\ n \in Nat /\ JoinAlong(h, slot)
  <2>1. /\ n \in Nat \ {0}
        /\ \A i \in 1..n : JoinAlong(HitsAlong(plan)[2 * i + 1], plan[i].page)
    BY <1>1, HitsAlongAPlan
  <2> QED  BY <1>2, <2>1
<1>4. h.text[2] # NoPage /\ InScope(plan, h)
  BY <1>1, <1>2 DEF Good
<1>5. h.to = slot + 1 /\ h.from = slot /\ Below(slot) # NoPage
  BY <1>3, <1>4 DEF JoinAlong
<1>6. slot \in DOMAIN order /\ DOMAIN plan = 1..n
  BY <1>1, <1>2, <1>3 DEF PlanOK
<1>7. slot # Len(order) /\ slot \in Nat /\ Len(order) \in Nat /\ slot < Len(order)
  BY <1>5, <1>6 DEF Below, OrderOK
<1>8. CASE u.scoped
  <2>1. \E e \in Range(plan) : e.page = slot + 1
    BY <1>4, <1>5 DEF InScope
  <2>2. \E k \in DOMAIN plan : plan[k].page = slot + 1
    BY <2>1 DEF Range
  <2> QED  BY <1>1, <1>2, <1>8, <2>2 DEF PlanOK
<1>9. CASE ~u.scoped
  <2>1. Len(plan) > 1 /\ plan[1].page > 1 /\ plan[1].page = slot + 1
    BY <1>1, <1>2, <1>7, <1>9 DEF PlanOK
  <2>2. Addressable(plan[1].page)
    BY <1>3, <1>6, <1>1, <2>1 DEF PlanOK, Addressable
  <2> QED  BY <1>1, <1>9, <2>1, <2>2 DEF LooksBehind
<1> QED  BY <1>8, <1>9

LEMMA ListGoesOn ==
    ASSUME Bounded, OrderOK, NEW u \in WalkType, u.at \in 1..Len(u.plan) + 1,
           PlanOK(u.plan, u.scoped), CarriedOK(u),
           NEW l, NEW m, NEW p, NEW A, NEW U, FoundBefore(l, m, u, A, U)
    PROVE  ListOK(l, m, p, Onward(u))
<1>1. PICK v, n : v = Onward(u) /\ n = Len(u.plan)
  OBVIOUS
<1>2. /\ v.plan = u.plan /\ v.scoped = u.scoped /\ v.carried = u.carried /\ v.at = u.at
      /\ v.pc # "none" /\ (Asking(v) => CarriedOK(v) /\ AskedOK(v))
      /\ v.pc = "ended" => v.at = n + 1 /\ ~LooksBehind(u)
  BY <1>1, GoesOn
<1>3. FoundBefore(l, m, v, A, U)
  BY <1>2 DEF FoundBefore
<1>4. Found(l, m, v.plan, 2 * (v.at - 1), A, U)
  BY <1>3 DEF FoundBefore
<1>5. ASSUME v.pc = "ended"
      PROVE  FoundAll(l, m, v.plan, A, U)
  <2>1. n \in Nat \ {0} /\ v.at = n + 1 /\ u.at = n + 1 /\ ~LooksBehind(u)
    BY <1>1, <1>2, <1>5, HitsAlongAPlan
  <2>2. /\ A \in SUBSET (Good(u.plan) \cap (1..2 * n)) /\ l = Subsequence(HitsAlong(u.plan), A)
        /\ U \in SUBSET (1..n + 1) /\ IsFiniteSet(U) /\ Cardinality(U) = m
        /\ \A k \in Good(u.plan) : k <= 2 * n => k \in A \/ k \in Hidden(U)
    <3>1. 2 * (v.at - 1) = 2 * n
      BY <2>1
    <3> QED  BY <1>1, <1>2, <1>4, <3>1 DEF Found
  <2>3. \A k \in Good(u.plan) : k <= 2 * n + 1 => k \in A \/ k \in Hidden(U)
    <3> SUFFICES ASSUME NEW k \in Good(u.plan)  PROVE k \in A \/ k \in Hidden(U)
      OBVIOUS
    <3>1. k \in 2..2 * n + 1
      BY <1>1 DEF Good
    <3>2. CASE k <= 2 * n
      BY <2>2, <3>2
    <3>3. CASE k = 2 * n + 1
      <4>1. u.carried = NoCarry
        BY <1>1, <2>1, <3>3, NothingBehind
      <4>2. n \in U
        <5>1. u.at > 1 /\ u.at - 1 = n
          BY <2>1
        <5> QED  BY <4>1, <5>1 DEF FoundBefore
      <4> QED  BY <3>3, <4>2 DEF Hidden
    <3> QED  BY <2>1, <3>1, <3>2, <3>3
  <2>4. A \in SUBSET (Good(u.plan) \cap (1..2 * n + 1)) /\ 2 * n + 1 \in 0..2 * n + 1
    BY <2>1, <2>2
  <2> QED  BY <1>1, <1>2, <2>2, <2>3, <2>4 DEF FoundAll, Found
<1> QED  BY <1>1, <1>2, <1>3, <1>4, <1>5 DEF ListOK

\* A new search has nothing listed and nothing missed.
LEMMA SearchBegins ==
    ASSUME Bounded, OrderOK, NEW plan, NEW scoped \in BOOLEAN, PlanOK(plan, scoped), NEW p
    PROVE  LET u == [NoWalk EXCEPT !.plan = plan, !.scoped = scoped] IN
           /\ ListOK(<<>>, 0, p, Onward(u)) /\ WalkOK(Onward(u)) /\ Onward(u).pc # "none"
<1>1. PICK u : u = [NoWalk EXCEPT !.plan = plan, !.scoped = scoped]
  OBVIOUS
<1>2. u = [pc |-> "none", plan |-> plan, scoped |-> scoped, at |-> 1,
           carried |-> NoCarry, asked |-> <<>>, sources |-> <<>>, carry |-> NoPage]
  BY <1>1 DEF NoWalk
<1>3. u \in WalkType
  <2>1. <<>> \in Seq(Slots) /\ <<>> \in Seq(Address) /\ NoPage \in PageOrNone
        /\ NoCarry \in [page : Nat, of : PageOrNone] /\ plan \in Seq(PlanEntry)
    BY DEF PageOrNone, NoCarry, PlanOK
  <2> HIDE DEF Slots, NoCarry, NoPage
  <2> QED  BY <1>2, <2>1 DEF WalkType
<1>4. u.plan = plan /\ u.scoped = scoped /\ u.at = 1 /\ u.carried = NoCarry
  BY <1>2
<1>5. u.at \in 1..Len(u.plan) + 1 /\ CarriedOK(u) /\ Len(plan) \in Nat
  BY <1>4 DEF PlanOK, CarriedOK
<1>6. FoundBefore(<<>>, 0, u, {}, {})
  <2>1. Len(HitsAlong(plan)) \in Nat
    BY HitsAlongAPlan
  <2>2. Subsequence(HitsAlong(plan), {}) = <<>>
    <3>1. Kept(HitsAlong(plan), {})[Len(HitsAlong(plan))] = Kept(HitsAlong(plan), {})[0]
      <4>1. 0 \in 0..Len(HitsAlong(plan)) /\ Len(HitsAlong(plan)) \in 0..Len(HitsAlong(plan))
        BY <2>1
      <4> QED  BY <2>1, <4>1, KeptRests
    <3> QED  BY <2>1, <3>1, KeptIs
  <2>3. 2 * (u.at - 1) = 0 /\ 0 \in 0..2 * Len(plan) + 1 /\ ~(u.at > 1)
    BY <1>4, <1>5
  <2>4. \A k \in Good(plan) : ~(k <= 0)
    BY <1>5 DEF Good
  <2>5. IsFiniteSet({}) /\ Cardinality({}) = 0
    BY FS_EmptySet
  <2>6. Found(<<>>, 0, plan, 0, {}, {})
    BY <2>2, <2>3, <2>4, <2>5 DEF Found
  <2> QED  BY <1>4, <2>3, <2>6 DEF FoundBefore
<1>7. ListOK(<<>>, 0, p, Onward(u))
  BY <1>3, <1>4, <1>5, <1>6, ListGoesOn
<1>8. WalkOK(Onward(u))
  BY <1>3, <1>5, AskedIsOK
<1> QED  BY <1>1, <1>7, <1>8 DEF ListOK

-----------------------------------------------------------------------------
\* What a page answers.

Takable(w, t) ==
    {k \in DOMAIN t : t[k].text[1] # NoPage /\ Takes(w, t[k]) /\ InScope(w.plan, t[k])}

\* The hits of the answers and the hits there are, side by side: an answer has
\* the hit that is there, or is without one that nothing was carried for.
Agrees(w, t, k) ==
    \/ /\ t[k] = HitsAlong(w.plan)[2 * (w.at - 1) + k]
       /\ k \in Takable(w, t) <=> 2 * (w.at - 1) + k \in Good(w.plan)
    \/ /\ k \notin Takable(w, t)
       /\ 2 * (w.at - 1) + k \in Good(w.plan) => k = 1 /\ w.at > 1 /\ w.carried = NoCarry

LEMMA HitsOfAre ==
    ASSUME NEW w, NEW n \in Nat
    PROVE  /\ HitsOf(w, n) = [k \in 1..2 * n |-> HitsOf(w, n)[k]]
           /\ \A i \in 1..n :
                 /\ HitsOf(w, n)[2 * i] = Own(w.asked[i], w.sources[i])
                 /\ HitsOf(w, n)[2 * i - 1] = Join(w.asked[i], Before(w, i), w.sources[i])
<1>1. PICK t : t = HitsOf(w, n)
  OBVIOUS
<1>2. /\ t = [k \in 1..2 * n |-> t[k]]
      /\ \A k \in 1..2 * n :
            t[k] = IF k = 2 * ((k + 1) \div 2) - 1
                   THEN Join(w.asked[(k + 1) \div 2], Before(w, (k + 1) \div 2), w.sources[(k + 1) \div 2])
                   ELSE Own(w.asked[(k + 1) \div 2], w.sources[(k + 1) \div 2])
  BY <1>1 DEF HitsOf
<1>3. ASSUME NEW i \in 1..n
      PROVE  /\ t[2 * i] = Own(w.asked[i], w.sources[i])
             /\ t[2 * i - 1] = Join(w.asked[i], Before(w, i), w.sources[i])
  <2>1. PICK x, y : x = 2 * i /\ y = 2 * i - 1
    OBVIOUS
  <2>2. i \in Nat /\ x \in 1..2 * n /\ y \in 1..2 * n /\ y + 1 = 2 * i /\ x + 1 = 2 * i + 1
    BY <2>1
  <2>3. (y + 1) \div 2 = i /\ (x + 1) \div 2 = i
    BY <2>2, Doubles
  <2>4. y = 2 * i - 1 /\ x # 2 * i - 1
    BY <2>1, <2>2
  <2>5. t[x] = Own(w.asked[i], w.sources[i])
    BY <1>2, <2>2, <2>3, <2>4
  <2>6. t[y] = Join(w.asked[i], Before(w, i), w.sources[i])
    BY <1>2, <2>2, <2>3, <2>4
  <2> QED  BY <2>1, <2>5, <2>6
<1> QED  BY <1>1, <1>2, <1>3

\* A hit that is on the screen is found if and only if it is in scope.
LEMMA AgreesWhere ==
    ASSUME NEW w, NEW t, NEW k \in DOMAIN t, 2 * (w.at - 1) + k \in 2..2 * Len(w.plan) + 1,
           t[k] = HitsAlong(w.plan)[2 * (w.at - 1) + k],
           t[k].text[1] # NoPage, t[k].text[2] # NoPage, Takes(w, t[k])
    PROVE  Agrees(w, t, k)
BY DEF Agrees, Takable, Good

LEMMA SourcesAre ==
    ASSUME Bounded, OrderOK, NEW w, WalkOK(w), Asking(w), AskedOK(w), PlanOK(w.plan, w.scoped)
    PROVE  /\ DOMAIN w.asked = 1..Len(w.asked) /\ Len(w.asked) \in Nat \ {0}
           /\ \A i \in 1..Len(w.asked) :
                 /\ w.asked[i] \in DOMAIN order /\ w.sources[i] = order[w.asked[i]]
                 /\ w.sources[i] # NoPage /\ w.sources[i] \in Address
<1>1. /\ DOMAIN w.asked = 1..Len(w.asked) /\ Len(w.asked) \in Nat \ {0}
      /\ w.pc \in {"run", "page", "join"} /\ w.at \in Nat \ {0} /\ Len(w.plan) \in Nat \ {0}
      /\ DOMAIN w.plan = 1..Len(w.plan)
  <2>1. w.asked \in Seq(Slots) /\ w.asked # <<>>
    BY DEF WalkOK, WalkType
  <2>2. w.pc \in {"run", "page", "join"} /\ w.at \in Nat /\ w.at \in 1..Len(w.plan) + 1
    BY DEF WalkOK, WalkType, Asking
  <2>3. Len(w.plan) \in Nat \ {0} /\ DOMAIN w.plan = 1..Len(w.plan)
    BY DEF PlanOK
  <2> HIDE DEF Slots
  <2>4. DOMAIN w.asked = 1..Len(w.asked) /\ Len(w.asked) \in Nat \ {0}
    BY <2>1
  <2> QED  BY <2>2, <2>3, <2>4
<1>2. ASSUME NEW i \in 1..Len(w.asked)
      PROVE  w.asked[i] \in DOMAIN order
  <2>1. CASE w.pc \in {"run", "page"}
    <3>1. /\ w.at + Len(w.asked) - 1 <= Len(w.plan)
          /\ \A j \in DOMAIN w.asked : w.asked[j] = w.plan[w.at + j - 1].page
      BY <2>1 DEF AskedOK
    <3>2. w.at + i - 1 \in DOMAIN w.plan /\ w.asked[i] = w.plan[w.at + i - 1].page
      <4>1. PICK at, a, n : at = w.at /\ a = Len(w.asked) /\ n = Len(w.plan)
        OBVIOUS
      <4>2. at + i - 1 \in 1..n
        BY <1>1, <3>1, <4>1
      <4>3. i \in DOMAIN w.asked
        BY <1>1
      <4> QED  BY <1>1, <3>1, <4>1, <4>2, <4>3
    <3> QED  BY <3>2 DEF PlanOK
  <2>2. CASE w.pc = "join"
    <3>1. w.asked = <<w.plan[1].page>> /\ 1 \in DOMAIN w.plan
      BY <1>1, <2>2 DEF AskedOK
    <3>2. w.asked[i] = w.plan[1].page
      BY <3>1
    <3> QED  BY <3>1, <3>2 DEF PlanOK
  <2> QED  BY <1>1, <2>1, <2>2
<1>3. \A i \in 1..Len(w.asked) : w.sources[i] = order[w.asked[i]]
  BY <1>1 DEF AskedOK
<1>4. order \in Seq(Address) /\ NoPage \notin Address
  BY DEF OrderOK, NoPage, Address
<1>5. \A i \in 1..Len(w.asked) : order[w.asked[i]] \in Address
  BY <1>2, <1>4
<1> QED  BY <1>1, <1>2, <1>3, <1>4, <1>5

\* What is carried into the first page is of the page before it in the plan.
LEMMA FirstAgrees ==
    ASSUME Bounded, OrderOK, NEW w, WalkOK(w), Asking(w), AskedOK(w), PlanOK(w.plan, w.scoped),
           CarriedOK(w), NEW n \in 1..Len(w.asked)
    PROVE  Agrees(w, HitsOf(w, n), 1)
<1>1. PICK t, slot, l, at : t = HitsOf(w, n) /\ slot = w.asked[1] /\ l = Len(w.plan) /\ at = w.at
  OBVIOUS
<1>2. /\ DOMAIN w.asked = 1..Len(w.asked) /\ Len(w.asked) \in Nat \ {0}
      /\ 1 \in 1..Len(w.asked)
      /\ slot \in DOMAIN order /\ w.sources[1] = order[slot] /\ order[slot] # NoPage
      /\ n \in Nat \ {0} /\ 1 \in 1..n
  <2>1. /\ DOMAIN w.asked = 1..Len(w.asked) /\ Len(w.asked) \in Nat \ {0}
        /\ \A i \in 1..Len(w.asked) :
              w.asked[i] \in DOMAIN order /\ w.sources[i] = order[w.asked[i]] /\ w.sources[i] # NoPage
    BY SourcesAre
  <2>2. 1 \in 1..Len(w.asked) /\ n \in Nat \ {0} /\ 1 \in 1..n
    BY <2>1
  <2> QED  BY <1>1, <2>1, <2>2
<1>3. /\ t = [k \in 1..2 * n |-> t[k]]
      /\ t[2 * 1 - 1] = Join(slot, Before(w, 1), order[slot])
  BY <1>1, <1>2, HitsOfAre
<1>4. Before(w, 1) = w.carry /\ w.carry = CarryInto(w.carried, slot)
  BY <1>1 DEF Before, AskedOK
<1>5. t[1] = [from |-> slot - 1, to |-> slot, text |-> <<w.carry, order[slot]>>] /\ 1 \in DOMAIN t
  <2>1. 2 * 1 - 1 = 1 /\ 1 \in 1..2 * n
    BY <1>2
  <2>2. t[1] = Join(slot, w.carry, order[slot])
    BY <1>3, <1>4, <2>1
  <2> QED  BY <1>3, <2>1, <2>2 DEF Join
<1>0. PICK o : o = Len(order)
  OBVIOUS
<1>6. o \in Nat /\ DOMAIN order = 1..o /\ slot \in 1..o
  <2>1. o \in Nat /\ DOMAIN order = 1..o
    BY <1>0 DEF OrderOK
  <2> QED  BY <1>2, <2>1
<1>7. /\ l \in Nat \ {0} /\ at \in 1..l + 1 /\ at \in Nat /\ DOMAIN w.plan = 1..l
  <2>1. l \in Nat \ {0} /\ DOMAIN w.plan = 1..l
    BY <1>1 DEF PlanOK
  <2>2. at \in 1..l + 1
    BY <1>1 DEF WalkOK
  <2> QED  BY <2>1, <2>2
<1>8. CASE w.carry = NoPage /\ (at > 1 => w.carried = NoCarry)
  <2>1. 1 \notin Takable(w, t)
    BY <1>5, <1>8 DEF Takable
  <2>2. 2 * (at - 1) + 1 \in Good(w.plan) => at > 1
    <3>1. Good(w.plan) \in SUBSET (2..2 * l + 1)
      BY <1>1 DEF Good
    <3>2. at = 1 => 2 * (at - 1) + 1 = 1
      OBVIOUS
    <3> QED  BY <1>7, <3>1, <3>2
  <2> QED  BY <1>1, <1>8, <2>1, <2>2 DEF Agrees
<1>9. w.carried = NoCarry => w.carry = NoPage
  BY <1>4 DEF CarryInto, NoCarry
<1>10. at = 1 => w.carried = NoCarry
  BY <1>1 DEF CarriedOK
<1>11. CASE at > 1 /\ w.carried # NoCarry
  <2>1. PICK slot0, h : slot0 = w.plan[at - 1].page /\ h = HitsAlong(w.plan)[2 * (at - 1) + 1]
    OBVIOUS
  <2>2. at - 1 \in 1..l
    BY <1>7, <1>11
  <2>3. w.carried.page = slot0 /\ w.carried.of = order[slot0]
    BY <1>1, <1>11, <2>1 DEF CarriedOK
  <2>4. slot0 \in 1..o
    BY <1>6, <1>7, <2>1, <2>2 DEF PlanOK
  <2>5. h = Join(slot0 + 1, order[slot0], Below(slot0)) /\ JoinAlong(h, slot0)
    BY <1>1, <2>1, <2>2, HitsAlongAPlan
  <2>6. order[slot0] # NoPage
    BY <2>4, <1>6 DEF OrderOK, NoPage, Address
  <2>7. CASE slot = slot0 + 1
    <3>1. w.carry = order[slot0]
      BY <1>4, <1>6, <2>3, <2>4, <2>7 DEF CarryInto
    <3>2. Below(slot0) = order[slot]
      <4>1. slot0 # o
        BY <1>6, <2>4, <2>7
      <4> QED  BY <1>0, <2>7, <4>1 DEF Below
    <3>3. t[1] = h
      <4>1. slot0 + 1 - 1 = slot - 1
        BY <2>4, <2>7
      <4> QED  BY <1>5, <2>5, <2>7, <3>1, <3>2, <4>1 DEF Join
    <3>4. /\ t[1].text[1] # NoPage /\ t[1].text[2] # NoPage /\ t[1].from # t[1].to
      BY <1>2, <1>5, <1>6, <2>6, <3>1
    <3>5. Takes(w, t[1])
      BY <3>4 DEF Takes
    <3>6. 2 * (at - 1) + 1 \in 2..2 * l + 1
      BY <1>7, <1>11
    <3> QED  BY <1>1, <1>5, <2>1, <3>3, <3>4, <3>5, <3>6, AgreesWhere
  <2>8. CASE slot # slot0 + 1
    <3>1. w.carry = NoPage
      <4>1. slot0 # slot - 1
        BY <1>6, <2>4, <2>8
      <4> QED  BY <1>4, <2>3, <4>1 DEF CarryInto
    <3>2. 1 \notin Takable(w, t)
      BY <1>5, <3>1 DEF Takable
    <3>3. ASSUME 2 * (at - 1) + 1 \in Good(w.plan)
          PROVE  FALSE
      <4>1. h.text[2] # NoPage
        BY <2>1, <3>3 DEF Good
      <4>2. Below(slot0) # NoPage
        BY <2>5, <4>1 DEF JoinAlong
      <4>3. slot0 < Len(order)
        <5>1. slot0 # o
          BY <1>0, <4>2 DEF Below
        <5> QED  BY <1>0, <1>6, <2>4, <5>1
      <4>4. CASE w.pc \in {"run", "page"}
        <5>1. /\ at + Len(w.asked) - 1 <= l
              /\ \A i \in DOMAIN w.asked : w.asked[i] = w.plan[at + i - 1].page
          BY <1>1, <4>4 DEF AskedOK
        <5>2. at <= l
          BY <1>2, <1>7, <5>1
        <5>3. slot = w.plan[at].page
          <6>1. at + 1 - 1 = at
            BY <1>7
          <6> QED  BY <1>1, <1>2, <5>1, <6>1
        <5>4. at - 1 \in 1..l - 1 /\ (at - 1) + 1 = at
          BY <1>7, <1>11, <5>2
        <5>5. w.plan[(at - 1) + 1].page = w.plan[at - 1].page + 1
          BY <1>1, <2>1, <4>3, <5>4 DEF PlanOK
        <5> QED  BY <2>1, <2>8, <5>3, <5>4, <5>5
      <4>5. CASE w.pc = "join"
        <5>1. at = l + 1 /\ w.asked = <<w.plan[1].page>> /\ ~w.scoped
          BY <1>1, <4>5 DEF AskedOK, LooksBehind
        <5>2. slot = w.plan[1].page /\ slot0 = w.plan[l].page
          BY <1>1, <1>7, <2>1, <5>1
        <5> QED  BY <1>1, <2>8, <4>3, <5>1, <5>2 DEF PlanOK
      <4> QED  BY <4>4, <4>5 DEF Asking
    <3> QED  BY <1>1, <3>2, <3>3 DEF Agrees
  <2> QED  BY <2>7, <2>8
<1>12. at = 1 \/ at > 1
  BY <1>7
<1> QED  BY <1>8, <1>9, <1>10, <1>11, <1>12

LEMMA AnswersAgree ==
    ASSUME Bounded, OrderOK, NEW w, WalkOK(w), Asking(w), AskedOK(w), PlanOK(w.plan, w.scoped),
           CarriedOK(w), NEW n \in 1..Len(w.asked), NEW k \in 1..2 * n
    PROVE  Agrees(w, HitsOf(w, n), k)
<1>1. PICK t, a, l, at : t = HitsOf(w, n) /\ a = Len(w.asked) /\ l = Len(w.plan) /\ at = w.at
  OBVIOUS
<1>2. /\ DOMAIN w.asked = 1..a /\ a \in Nat \ {0}
      /\ \A i \in 1..a : /\ w.asked[i] \in DOMAIN order /\ w.sources[i] = order[w.asked[i]]
                         /\ order[w.asked[i]] # NoPage
  BY <1>1, SourcesAre
<1>3. n \in Nat \ {0} /\ n \in 1..a
  BY <1>1, <1>2
<1>4. /\ t = [j \in 1..2 * n |-> t[j]]
      /\ \A i \in 1..n : /\ t[2 * i] = Own(w.asked[i], w.sources[i])
                         /\ t[2 * i - 1] = Join(w.asked[i], Before(w, i), w.sources[i])
  BY <1>1, <1>3, HitsOfAre
<1>5. /\ l \in Nat \ {0} /\ at \in 1..l + 1 /\ at \in Nat /\ DOMAIN w.plan = 1..l
  <2>1. l \in Nat \ {0} /\ DOMAIN w.plan = 1..l
    BY <1>1 DEF PlanOK
  <2>2. at \in 1..l + 1
    BY <1>1 DEF WalkOK
  <2> QED  BY <2>1, <2>2
<1>6. PICK i \in 1..n : k = 2 * i \/ k = 2 * i - 1
  <2>0. k \in Nat
    BY <1>3
  <2>1. PICK j \in Nat : k = 2 * j \/ k = 2 * j + 1
    BY <2>0, EvenOrOdd
  <2>2. CASE k = 2 * j
    <3>1. j \in 1..n
      BY <1>3, <2>2
    <3> QED  BY <2>2, <3>1
  <2>3. CASE k = 2 * j + 1
    <3>1. j + 1 \in 1..n /\ k = 2 * (j + 1) - 1
      BY <1>3, <2>3
    <3> QED  BY <3>1
  <2> QED  BY <2>1, <2>2, <2>3
<1>7. CASE i = 1 /\ k = 2 * i - 1
  <2>1. k = 1
    BY <1>7
  <2> QED  BY <2>1, FirstAgrees
<1>8. CASE w.pc \in {"run", "page"} /\ ~(i = 1 /\ k = 2 * i - 1)
  <2>1. /\ at + a - 1 <= l
        /\ \A j \in 1..a : w.asked[j] = w.plan[at + j - 1].page
        /\ \A j \in 1..a - 1 :
              w.asked[j + 1] = w.asked[j] + 1 /\ w.sources[j + 1].page = w.sources[j].page + 1
    BY <1>1, <1>2, <1>8 DEF AskedOK
  <2>2. PICK j : j = at + i - 1
    OBVIOUS
  <2>3. i \in 1..a /\ j \in 1..l /\ 2 * (at - 1) + 2 * i = 2 * j
    <3>1. at + a - 1 <= l /\ a \in Nat /\ at \in Nat /\ at >= 1 /\ l \in Nat /\ i \in Nat /\ i >= 1 /\ i <= a
      BY <1>2, <1>3, <1>5, <2>1
    <3> QED  BY <2>2, <3>1
  <2>4. w.asked[i] = w.plan[j].page
    BY <2>1, <2>2, <2>3
  <2>5. PICK slot : slot = w.asked[i]
    OBVIOUS
  <2>6. slot \in DOMAIN order /\ w.sources[i] = order[slot] /\ order[slot] # NoPage
    BY <1>2, <2>3, <2>5
  <2>7. CASE k = 2 * i
    <3>1. t[k] = Own(slot, order[slot])
      BY <1>4, <2>5, <2>6, <2>7
    <3>2. HitsAlong(w.plan)[2 * j] = Own(slot, order[slot])
      <4>1. \A m \in 1..l : HitsAlong(w.plan)[2 * m] = Own(w.plan[m].page, order[w.plan[m].page])
        BY <1>1, HitsAlongAPlan
      <4> QED  BY <2>3, <2>4, <2>5, <4>1
    <3>3. t[k].text = <<order[slot], order[slot]>>
      BY <3>1 DEF Own
    <3>4. k \in DOMAIN t /\ 2 * (at - 1) + k \in 2..2 * l + 1 /\ 2 * (at - 1) + k = 2 * j
      <4>1. k \in DOMAIN t
        BY <1>4
      <4>2. 2 * (at - 1) + k = 2 * j
        BY <2>3, <2>7
      <4> QED  BY <1>5, <2>3, <4>1, <4>2
    <3>5. Takes(w, t[k])
      BY <1>8 DEF Takes
    <3>6. t[k].text[1] # NoPage /\ t[k].text[2] # NoPage
      BY <2>6, <3>3
    <3>7. t[k] = HitsAlong(w.plan)[2 * (w.at - 1) + k]
      BY <1>1, <3>1, <3>2, <3>4
    <3> QED  BY <1>1, <3>4, <3>5, <3>6, <3>7, AgreesWhere
  <2>8. CASE k = 2 * i - 1
    <3>0. i # 1 /\ i \in Nat /\ i >= 1 /\ i <= a /\ a \in Nat
      BY <1>2, <1>3, <1>8, <2>8
    <3>1. i # 1 /\ i - 1 \in 1..a - 1 /\ i - 1 \in 1..a /\ (i - 1) + 1 = i
      BY <3>0
    <3>2. PICK slot0, j0 : slot0 = w.asked[i - 1] /\ j0 = j - 1
      OBVIOUS
    <3>3. slot = slot0 + 1 /\ w.sources[i].page = w.sources[i - 1].page + 1
      BY <2>1, <2>5, <3>1, <3>2
    <3>4. slot0 = w.plan[j0].page /\ j0 \in 1..l
      <4>1. at + (i - 1) - 1 = j0 /\ j0 \in 1..l
        BY <1>3, <1>5, <2>2, <2>3, <3>1, <3>2
      <4> QED  BY <2>1, <3>1, <3>2, <4>1
    <3>5. slot0 \in DOMAIN order /\ w.sources[i - 1] = order[slot0] /\ order[slot0] # NoPage
      BY <1>2, <3>1, <3>2
    <3>6. Before(w, i) = order[slot0]
      BY <3>1, <3>3, <3>5 DEF Before
    <3>7. t[k] = Join(slot, order[slot0], order[slot])
      BY <1>4, <2>5, <2>6, <2>8, <3>6
    <3>8. Below(slot0) = order[slot]
      <4>1. slot0 # Len(order)
        BY <2>6, <3>3, <3>5 DEF OrderOK
      <4> QED  BY <3>3, <4>1 DEF Below
    <3>9. HitsAlong(w.plan)[2 * j0 + 1] = Join(slot, order[slot0], order[slot])
      <4>1. HitsAlong(w.plan)[2 * j0 + 1] = Join(slot0 + 1, order[slot0], Below(slot0))
        BY <1>1, <3>4, HitsAlongAPlan
      <4> QED  BY <3>3, <3>8, <4>1
    <3>10. t[k].text = <<order[slot0], order[slot]>>
      BY <3>7 DEF Join
    <3>11. k \in DOMAIN t /\ 2 * (at - 1) + k \in 2..2 * l + 1 /\ 2 * (at - 1) + k = 2 * j0 + 1
      <4>1. k \in DOMAIN t
        BY <1>4
      <4>2. at \in Nat /\ l \in Nat /\ j0 \in Nat /\ j0 >= 1 /\ j0 <= l
        BY <1>5, <3>4
      <4>3. 2 * (at - 1) + k = 2 * j0 + 1
        BY <2>2, <2>8, <3>0, <3>2, <4>2
      <4> QED  BY <4>1, <4>2, <4>3
    <3>12. Takes(w, t[k])
      BY <1>8 DEF Takes
    <3>13. t[k].text[1] # NoPage /\ t[k].text[2] # NoPage
      BY <2>6, <3>5, <3>10
    <3>14. t[k] = HitsAlong(w.plan)[2 * (w.at - 1) + k]
      BY <1>1, <3>7, <3>9, <3>11
    <3> QED  BY <1>1, <3>11, <3>12, <3>13, <3>14, AgreesWhere
  <2> QED  BY <1>6, <2>7, <2>8
<1>9. CASE w.pc = "join" /\ ~(i = 1 /\ k = 2 * i - 1)
  <2>1. at = l + 1 /\ w.asked = <<w.plan[1].page>>
    BY <1>1, <1>9 DEF AskedOK
  <2>2. a = 1
    BY <1>1, <2>1
  <2>3. i = 1 /\ k = 2 * i /\ k = 2
    BY <1>3, <1>6, <1>9, <2>2
  <2>4. t[k] = Own(w.asked[i], w.sources[i])
    BY <1>4, <2>3
  <2>5. ~Takes(w, t[k])
    BY <1>9, <2>4 DEF Takes, Own
  <2>6. k \notin Takable(w, t)
    BY <2>5 DEF Takable
  <2>7. 2 * (at - 1) + k \notin Good(w.plan)
    <3>1. Good(w.plan) \in SUBSET (2..2 * l + 1)
      BY <1>1 DEF Good
    <3>2. 2 * (at - 1) + k = 2 * l + 2
      BY <1>5, <2>1, <2>3
    <3> QED  BY <1>5, <3>1, <3>2
  <2> QED  BY <1>1, <2>6, <2>7 DEF Agrees
<1> QED  BY <1>6, <1>7, <1>8, <1>9 DEF Asking

LEMMA HitsOfTypes ==
    ASSUME Bounded, OrderOK, NEW w, WalkOK(w), Asking(w), AskedOK(w), PlanOK(w.plan, w.scoped),
           NEW n \in 1..Len(w.asked)
    PROVE  HitsOf(w, n) \in Seq(AHit) /\ Len(HitsOf(w, n)) = 2 * n /\ n \in Nat
<1>1. PICK t, a : t = HitsOf(w, n) /\ a = Len(w.asked)
  OBVIOUS
<1>2. /\ a \in Nat \ {0}
      /\ \A i \in 1..a : /\ w.asked[i] \in DOMAIN order /\ w.sources[i] \in PageOrNone
  BY <1>1, SourcesAre DEF PageOrNone
<1>3. n \in Nat \ {0} /\ n \in 1..a
  BY <1>1, <1>2
<1>4. /\ t = [j \in 1..2 * n |-> t[j]]
      /\ \A i \in 1..n : /\ t[2 * i] = Own(w.asked[i], w.sources[i])
                         /\ t[2 * i - 1] = Join(w.asked[i], Before(w, i), w.sources[i])
  BY <1>1, <1>3, HitsOfAre
<1>5. w.carry \in PageOrNone /\ DOMAIN order \in SUBSET (Nat \ {0})
  BY DEF WalkOK, WalkType, OrderOK
<1>6. ASSUME NEW i \in 1..n
      PROVE  t[2 * i] \in AHit /\ t[2 * i - 1] \in AHit
  <2>0. a \in Nat /\ n \in Nat /\ n <= a
    BY <1>2, <1>3
  <2>1. i \in 1..a /\ (i # 1 => i - 1 \in 1..a)
    BY <2>0
  <2>2. Before(w, i) \in PageOrNone
    BY <1>2, <1>5, <2>1 DEF Before, PageOrNone
  <2>3. PICK slot, x, y : slot = w.asked[i] /\ x = w.sources[i] /\ y = Before(w, i)
    OBVIOUS
  <2>4. slot \in Nat /\ slot - 1 \in Nat /\ x \in PageOrNone /\ y \in PageOrNone
    BY <1>2, <1>5, <2>1, <2>2, <2>3
  <2>5. t[2 * i] = [from |-> slot, to |-> slot, text |-> <<x, x>>]
    BY <1>4, <2>3 DEF Own
  <2>6. t[2 * i - 1] = [from |-> slot - 1, to |-> slot, text |-> <<y, x>>]
    BY <1>4, <2>3 DEF Join
  <2> QED  BY <2>4, <2>5, <2>6 DEF AHit
<1>7. \A k \in 1..2 * n : t[k] \in AHit
  <2> SUFFICES ASSUME NEW k \in 1..2 * n  PROVE t[k] \in AHit
    OBVIOUS
  <2>0. k \in Nat
    BY <1>3
  <2>1. PICK j \in Nat : k = 2 * j \/ k = 2 * j + 1
    BY <2>0, EvenOrOdd
  <2>2. CASE k = 2 * j
    <3>1. j \in 1..n
      BY <1>3, <2>2
    <3> QED  BY <1>6, <2>2, <3>1
  <2>3. CASE k = 2 * j + 1
    <3>1. j + 1 \in 1..n /\ k = 2 * (j + 1) - 1
      BY <1>3, <2>3
    <3>2. PICK i : i = j + 1
      OBVIOUS
    <3> QED  BY <1>6, <3>1, <3>2
  <2> QED  BY <2>1, <2>2, <2>3
<1>8. t \in Seq(AHit) /\ Len(t) = 2 * n
  <2>1. t \in [1..2 * n -> AHit] /\ 2 * n \in Nat
    BY <1>3, <1>4, <1>7
  <2> QED  BY <2>1
<1> QED  BY <1>1, <1>3, <1>8

\* What has been found when an answer is filed.
Reaches(w, n) == IF w.pc = "join" THEN 2 * Len(w.plan) + 1 ELSE 2 * (w.at - 1) + 2 * n

LEMMA AnswersAreFound ==
    ASSUME Bounded, OrderOK, NEW w, WalkOK(w), Asking(w), AskedOK(w), PlanOK(w.plan, w.scoped),
           CarriedOK(w), NEW n \in 1..Len(w.asked),
           NEW l, NEW m, NEW A, NEW U, FoundBefore(l, m, w, A, U)
    PROVE  \E C : Found(l \o Filed(w, n), m, w.plan, Reaches(w, n), C, U)
<1>1. PICK t, B, H, L, o, e : /\ t = HitsOf(w, n) /\ B = Takable(w, t) /\ H = HitsAlong(w.plan)
                              /\ L = Len(w.plan) /\ o = 2 * (w.at - 1) /\ e = Reaches(w, n)
  OBVIOUS
<1>2. t \in Seq(AHit) /\ Len(t) = 2 * n /\ n \in Nat \ {0} /\ DOMAIN t = 1..2 * n
  <2>1. t \in Seq(AHit) /\ Len(t) = 2 * n /\ n \in Nat
    BY <1>1, HitsOfTypes
  <2>2. n # 0
    BY <2>1, SourcesAre
  <2> QED  BY <2>1, <2>2
<1>3. L \in Nat \ {0} /\ H \in Seq(AHit) /\ Len(H) = 2 * L + 1 /\ Good(w.plan) \in SUBSET (2..2 * L + 1)
  BY <1>1, HitsAlongAPlan DEF Good
<1>4. w.at \in Nat /\ w.at >= 1 /\ w.at <= L + 1 /\ o \in Nat /\ o <= 2 * L
  <2>1. PICK at : at = w.at
    OBVIOUS
  <2>2. at \in 1..L + 1 /\ o = 2 * (at - 1) /\ L \in Nat
    BY <1>1, <1>3, <2>1 DEF WalkOK
  <2>3. at \in Nat /\ at >= 1 /\ at <= L + 1
    BY <2>2
  <2>4. o \in Nat /\ o <= 2 * L
    BY <2>2, <2>3
  <2> QED  BY <2>1, <2>3, <2>4
<1>5. /\ o \in 0..2 * L + 1 /\ A \in SUBSET (Good(w.plan) \cap (1..o)) /\ l = Subsequence(H, A)
      /\ U \in SUBSET (1..L + 1) /\ IsFiniteSet(U) /\ Cardinality(U) = m
      /\ \A k \in Good(w.plan) : k <= o => k \in A \/ k \in Hidden(U)
      /\ w.at > 1 /\ w.carried = NoCarry => w.at - 1 \in U
  BY <1>1 DEF FoundBefore, Found
<1>6. \A k \in 1..2 * n :
         \/ t[k] = H[o + k] /\ (k \in B <=> o + k \in Good(w.plan))
         \/ k \notin B /\ (o + k \in Good(w.plan) => k = 1 /\ w.at > 1 /\ w.carried = NoCarry)
  <2> SUFFICES ASSUME NEW k \in 1..2 * n
               PROVE  \/ t[k] = H[o + k] /\ (k \in B <=> o + k \in Good(w.plan))
                      \/ k \notin B /\ (o + k \in Good(w.plan) => k = 1 /\ w.at > 1 /\ w.carried = NoCarry)
    OBVIOUS
  <2>1. Agrees(w, HitsOf(w, n), k)
    BY AnswersAgree
  <2> QED  BY <1>1, <2>1 DEF Agrees
<1>7. B \in SUBSET (1..2 * n)
  BY <1>1, <1>2 DEF Takable
<1>8. \A k \in B : t[k] = H[o + k] /\ o + k \in Good(w.plan) /\ o + k <= 2 * L + 1
  BY <1>3, <1>6, <1>7
<1>9. e \in o + 1..2 * L + 1 /\ e <= o + 2 * n /\ (e # o + 2 * n => e = 2 * L + 1)
  <2>1. CASE w.pc = "join"
    <3>1. w.at = L + 1
      BY <1>1, <2>1 DEF AskedOK
    <3>2. e = 2 * L + 1 /\ o = 2 * L
      BY <1>1, <1>3, <2>1, <3>1 DEF Reaches
    <3> QED  BY <1>2, <1>3, <3>2
  <2>2. CASE w.pc # "join"
    <3>1. w.at + Len(w.asked) - 1 <= L /\ Len(w.asked) \in Nat
      BY <1>1, <2>2, SourcesAre DEF AskedOK, Asking
    <3>2. n <= Len(w.asked)
      BY <3>1
    <3>0. PICK at, a : at = w.at /\ a = Len(w.asked)
      OBVIOUS
    <3>a. at + a - 1 <= L /\ n <= a /\ a \in Nat
      BY <3>0, <3>1, <3>2
    <3>b. at \in Nat /\ at >= 1 /\ n \in Nat /\ n >= 1 /\ L \in Nat
      BY <1>2, <1>3, <1>4, <3>0
    <3>3. at + n - 1 <= L /\ at \in Nat /\ at >= 1 /\ n \in Nat /\ n >= 1 /\ L \in Nat
      BY <3>a, <3>b
    <3>4. e = o + 2 * n
      BY <1>1, <2>2 DEF Reaches
    <3>5. o = 2 * (at - 1)
      BY <1>1, <3>0
    <3>6. e <= 2 * L /\ o + 1 <= e
      BY <3>3, <3>4, <3>5
    <3> QED  BY <1>4, <3>3, <3>4, <3>6
  <2> QED  BY <2>1, <2>2
<1> DEFINE C == A \cup {o + i : i \in B}
<1>10. l \o Filed(w, n) = Subsequence(H, C)
  <2>1. Filed(w, n) = Subsequence(t, B)
    BY <1>1 DEF Filed, Takable
  <2>2. Joined(C, A, o, B)
    BY DEF Joined
  <2>3. Follows(H, o, t, B)
    BY <1>3, <1>8 DEF Follows
  <2>4. o \in 0..Len(H) /\ A \in SUBSET (1..o) /\ B \in SUBSET (1..Len(t))
    BY <1>2, <1>3, <1>5, <1>7
  <2> HIDE DEF C
  <2>5. IsTwoParts(H, C, A, t, B)
    <3>1. PICK S : S = AHit
      OBVIOUS
    <3> QED  BY <1>2, <1>3, <2>2, <2>3, <2>4, <3>1, SubsequenceOfParts
  <2> QED  BY <1>5, <2>1, <2>5 DEF IsTwoParts
<1>11. C \in SUBSET (Good(w.plan) \cap (1..e))
  <2>1. \A k \in A : k \in Good(w.plan) /\ k \in 1..e
    BY <1>4, <1>5, <1>9
  <2>2. \A i \in B : o + i \in Good(w.plan) /\ o + i \in 1..e
    <3> SUFFICES ASSUME NEW i \in B  PROVE o + i \in Good(w.plan) /\ o + i \in 1..e
      OBVIOUS
    <3>1. i \in Nat /\ i >= 1 /\ i <= 2 * n /\ o + i \in Good(w.plan) /\ o + i <= 2 * L + 1
      BY <1>2, <1>7, <1>8
    <3>2. o \in Nat /\ L \in Nat /\ n \in Nat /\ e \in Nat
      BY <1>2, <1>3, <1>4, <1>9
    <3> QED  BY <1>9, <3>1, <3>2
  <2> QED  BY <2>1, <2>2
<1>12. ASSUME NEW k \in Good(w.plan), k <= e
       PROVE  k \in C \/ k \in Hidden(U)
  <2>1. k \in Nat /\ o \in Nat /\ n \in Nat /\ e \in Nat
    BY <1>2, <1>3, <1>4, <1>9
  <2>2. CASE k <= o
    BY <1>5, <2>2
  <2>3. CASE k > o
    <3>1. PICK j : j = k - o
      OBVIOUS
    <3>2. j \in 1..2 * n /\ k = o + j
      BY <1>9, <1>12, <2>1, <2>3, <3>1
    <3>3. CASE j \in B
      BY <3>2, <3>3
    <3>4. CASE j \notin B
      <4>1. j = 1 /\ w.at > 1 /\ w.carried = NoCarry
        BY <1>6, <3>2, <3>4
      <4>2. PICK i : i = w.at - 1
        OBVIOUS
      <4>3. i \in U /\ k = 2 * i + 1
        BY <1>1, <1>5, <3>2, <4>1, <4>2
      <4> QED  BY <4>3 DEF Hidden
    <3> QED  BY <3>3, <3>4
  <2> QED  BY <2>1, <2>2, <2>3
<1>13. Found(l \o Filed(w, n), m, w.plan, e, C, U)
  <2>1. e \in 0..2 * L + 1
    BY <1>3, <1>4, <1>9
  <2> HIDE DEF C
  <2> QED  BY <1>1, <1>5, <1>10, <1>11, <1>12, <2>1 DEF Found
<1> HIDE DEF C
<1> QED  BY <1>1, <1>13

\* A walk that stops has found everything.
LEMMA ListEnds ==
    ASSUME NEW u \in WalkType, PlanOK(u.plan, u.scoped), NEW l, NEW m, NEW p,
           p \/ (\E A, U : FoundAll(l, m, u.plan, A, U)), \E b, A, U : Found(l, m, u.plan, b, A, U)
    PROVE  ListOK(l, m, p, Ended(u))
<1>1. PICK v : v = Ended(u)
  OBVIOUS
<1>2. AsksNext(u, v) /\ v.pc = "ended"
  BY <1>1, EndedIs
<1>3. v.plan = u.plan /\ v.scoped = u.scoped
  BY <1>2 DEF AsksNext
<1> QED  BY <1>1, <1>2, <1>3 DEF ListOK, Asking

LEMMA PresentIs ==
    ASSUME NEW w, WalkOK(w), Asking(w), NEW l, NEW m, NEW p, ListOK(l, m, p, w)
    PROVE  /\ w \in WalkType /\ w.at \in 1..Len(w.plan) + 1 /\ PlanOK(w.plan, w.scoped)
           /\ CarriedOK(w) /\ AskedOK(w) /\ Len(w.plan) \in Nat \ {0}
           /\ \E A, U : FoundBefore(l, m, w, A, U)
<1>1. w \in WalkType /\ w.at \in 1..Len(w.plan) + 1
  BY DEF WalkOK
<1>2. /\ PlanOK(w.plan, w.scoped) /\ CarriedOK(w) /\ AskedOK(w)
      /\ \E A, U : FoundBefore(l, m, w, A, U)
  BY DEF ListOK
<1>3. Len(w.plan) \in Nat \ {0}
  BY <1>2 DEF PlanOK
<1> QED  BY <1>1, <1>2, <1>3

LEMMA ReplyKeepsList ==
    ASSUME Bounded, OrderOK, NEW w, WalkOK(w), Asking(w), NEW l, NEW m, NEW p, ListOK(l, m, p, w),
           NEW n \in 1..Len(w.asked)
    PROVE  ListOK(l \o Filed(w, n), m, p, Resumed(w, After(w, n))) /\ WalkOK(Resumed(w, After(w, n)))
<1>1. /\ w \in WalkType /\ w.at \in 1..Len(w.plan) + 1 /\ PlanOK(w.plan, w.scoped)
      /\ CarriedOK(w) /\ AskedOK(w) /\ Len(w.plan) \in Nat \ {0}
  BY PresentIs
<1>2. PICK A, U : FoundBefore(l, m, w, A, U)
  BY PresentIs
<1>3. PICK C : Found(l \o Filed(w, n), m, w.plan, Reaches(w, n), C, U)
  BY <1>1, <1>2, AnswersAreFound
<1>4. PICK u, L, at : u = After(w, n) /\ L = Len(w.plan) /\ at = w.at
  OBVIOUS
<1>5. /\ w.asked[n] \in DOMAIN order /\ w.sources[n] = order[w.asked[n]] /\ w.sources[n] \in PageOrNone
      /\ n \in Nat \ {0} /\ Len(w.asked) \in Nat
  <2>1. /\ Len(w.asked) \in Nat
        /\ \A i \in 1..Len(w.asked) :
              w.asked[i] \in DOMAIN order /\ w.sources[i] = order[w.asked[i]] /\ w.sources[i] \in Address
    BY <1>1, SourcesAre
  <2> QED  BY <2>1 DEF PageOrNone
<1>6. w.asked[n] \in Nat \ {0}
  BY <1>5 DEF OrderOK
<1>7. /\ u = [w EXCEPT !.at = IF w.pc = "join" THEN w.at ELSE w.at + n,
                       !.carried = [page |-> w.asked[n], of |-> w.sources[n]]]
  BY <1>4 DEF After
<1>8. at \in Nat /\ at >= 1 /\ at <= L + 1 /\ L \in Nat /\ L >= 1
  BY <1>1, <1>4
<1>9. u \in WalkType
  <2>1. PICK x, c : /\ x = (IF w.pc = "join" THEN w.at ELSE w.at + n)
                    /\ c = [page |-> w.asked[n], of |-> w.sources[n]]
    OBVIOUS
  <2>2. x \in Nat /\ c \in [page : Nat, of : PageOrNone]
    BY <1>4, <1>5, <1>6, <1>8, <2>1
  <2>3. u = [w EXCEPT !.at = x, !.carried = c]
    BY <1>7, <2>1
  <2> QED  BY <1>1, <2>2, <2>3 DEF WalkType
<1>10. /\ u.plan = w.plan /\ u.scoped = w.scoped
       /\ u.at = (IF w.pc = "join" THEN at ELSE at + n)
       /\ u.carried = [page |-> w.asked[n], of |-> w.sources[n]]
  BY <1>1, <1>4, <1>7 DEF WalkType
<1>11. u.carried # NoCarry
  BY <1>6, <1>10 DEF NoCarry
<1>12. CASE w.pc = "join"
  <2>1. Reaches(w, n) = 2 * L + 1
    BY <1>4, <1>12 DEF Reaches
  <2>2. FoundAll(l \o Filed(w, n), m, u.plan, C, U)
    BY <1>3, <1>4, <1>10, <2>1 DEF FoundAll
  <2>3. ListOK(l \o Filed(w, n), m, p, Ended(u))
    <3>1. PICK f : f = l \o Filed(w, n)
      OBVIOUS
    <3>2. \E b, D, E : Found(f, m, u.plan, b, D, E)
      BY <1>3, <1>10, <3>1
    <3>3. \E D, E : FoundAll(f, m, u.plan, D, E)
      BY <2>2, <3>1
    <3> QED  BY <1>1, <1>9, <1>10, <3>1, <3>2, <3>3, ListEnds
  <2>4. WalkOK(Ended(u))
    <3>1. u.at \in 1..Len(u.plan) + 1
      BY <1>1, <1>4, <1>10, <1>12
    <3> QED  BY <1>9, <3>1, AskedIsOK
  <2>5. Resumed(w, After(w, n)) = Ended(u)
    BY <1>4, <1>12 DEF Resumed
  <2> QED  BY <2>3, <2>4, <2>5
<1>13. CASE w.pc # "join"
  <2>1. /\ at + Len(w.asked) - 1 <= L
        /\ \A i \in DOMAIN w.asked : w.asked[i] = w.plan[at + i - 1].page
        /\ DOMAIN w.asked = 1..Len(w.asked)
    BY <1>1, <1>4, <1>13, SourcesAre DEF AskedOK, Asking
  <2>2. n <= Len(w.asked) /\ u.at = at + n
    BY <1>5, <1>10, <1>13
  <2>3. u.at \in Nat /\ u.at > 1 /\ u.at <= L + 1 /\ u.at - 1 = at + n - 1 /\ u.at - 1 >= at - 1
    <3>1. PICK a, x : a = Len(w.asked) /\ x = u.at
      OBVIOUS
    <3>2. at + a - 1 <= L /\ n <= a /\ x = at + n /\ n \in Nat /\ n >= 1 /\ a \in Nat
      BY <1>5, <2>1, <2>2, <3>1
    <3>3. x \in Nat /\ x > 1 /\ x <= L + 1 /\ x - 1 = at + n - 1 /\ x - 1 >= at - 1
      BY <1>8, <3>2
    <3> QED  BY <3>1, <3>3
  <2>4. CarriedOK(u)
    <3>1. w.asked[n] = w.plan[u.at - 1].page
      BY <1>5, <2>1, <2>3
    <3> QED  BY <1>5, <1>10, <2>3, <3>1 DEF CarriedOK
  <2>5. FoundBefore(l \o Filed(w, n), m, u, C, U)
    <3>1. Reaches(w, n) = 2 * (u.at - 1)
      <4>1. Reaches(w, n) = 2 * (at - 1) + 2 * n
        BY <1>4, <1>13 DEF Reaches
      <4> QED  BY <1>5, <1>8, <2>2, <4>1
    <3>2. U \subseteq 1..u.at - 1
      <4>1. U \subseteq 1..at - 1
        BY <1>2, <1>4 DEF FoundBefore
      <4> QED  BY <1>8, <2>3, <4>1
    <3> QED  BY <1>3, <1>10, <1>11, <3>1, <3>2 DEF FoundBefore
  <2>6. u.at \in 1..Len(u.plan) + 1
    BY <1>4, <1>8, <1>10, <2>3
  <2>7. PICK f : f = l \o Filed(w, n)
    OBVIOUS
  <2>8. ListOK(f, m, p, Onward(u))
    BY <1>1, <1>9, <1>10, <2>4, <2>5, <2>6, <2>7, ListGoesOn
  <2>9. WalkOK(Onward(u))
    BY <1>9, <2>6, AskedIsOK
  <2>10. Resumed(w, After(w, n)) = Onward(u)
    BY <1>4, <1>13 DEF Resumed
  <2> QED  BY <2>7, <2>8, <2>9, <2>10
<1> QED  BY <1>12, <1>13

LEMMA ProblemKeepsList ==
    ASSUME NEW w, WalkOK(w), Asking(w), NEW l, NEW m, NEW p, ListOK(l, m, p, w)
    PROVE  ListOK(l, m, TRUE, Ended(w))
<1>1. w \in WalkType /\ PlanOK(w.plan, w.scoped)
  BY PresentIs
<1>2. \E b, A, U : Found(l, m, w.plan, b, A, U)
  BY DEF ListOK
<1> QED  BY <1>1, <1>2, ListEnds

\* A page that cannot be read hides its own hit and those at its breaks.
LEMMA MissedIsFound ==
    ASSUME Bounded, OrderOK, NEW w, w.at \in 1..Len(w.plan) + 1, PlanOK(w.plan, w.scoped),
           NEW l, NEW m \in Nat, NEW A, NEW U, FoundBefore(l, m, w, A, U),
           NEW e \in 2 * (w.at - 1)..2 * w.at, e <= 2 * Len(w.plan) + 1
    PROVE  Found(l, m + 1, w.plan, e, A, U \cup {w.at})
<1>1. PICK L, at, o, V : L = Len(w.plan) /\ at = w.at /\ o = 2 * (w.at - 1) /\ V = U \cup {w.at}
  OBVIOUS
<1>2. L \in Nat /\ at \in Nat /\ at >= 1 /\ at <= L + 1 /\ o = 2 * (at - 1) /\ e \in o..2 * at
  BY <1>1 DEF PlanOK
<1>3. /\ o \in 0..2 * L + 1 /\ A \in SUBSET (Good(w.plan) \cap (1..o))
      /\ l = Subsequence(HitsAlong(w.plan), A)
      /\ U \in SUBSET (1..L + 1) /\ IsFiniteSet(U) /\ Cardinality(U) = m
      /\ \A k \in Good(w.plan) : k <= o => k \in A \/ k \in Hidden(U)
      /\ U \subseteq 1..at - 1
  BY <1>1 DEF FoundBefore, Found
<1>4. at \notin U /\ V \in SUBSET (1..L + 1)
  <2>1. at \in 1..L + 1 /\ at \notin 1..at - 1
    BY <1>2
  <2>2. V = U \cup {at}
    BY <1>1
  <2> QED  BY <1>3, <2>1, <2>2
<1>5. IsFiniteSet(V) /\ Cardinality(V) = m + 1
  BY <1>1, <1>3, <1>4, FS_AddElement
<1>6. A \in SUBSET (Good(w.plan) \cap (1..e)) /\ e \in 0..2 * L + 1
  BY <1>1, <1>2, <1>3
<1>7. ASSUME NEW k \in Good(w.plan), k <= e
      PROVE  k \in A \/ k \in Hidden(V)
  <2>1. k \in Nat
    BY <1>2 DEF Good
  <2>2. CASE k <= o
    BY <1>1, <1>3, <2>2 DEF Hidden
  <2>3. CASE k > o
    <3>1. k = 2 * at - 1 \/ k = 2 * at
      BY <1>2, <1>7, <2>1, <2>3
    <3> QED  BY <1>1, <3>1 DEF Hidden
  <2> QED  BY <1>2, <2>1, <2>2, <2>3
<1> QED  BY <1>1, <1>3, <1>4, <1>5, <1>6, <1>7 DEF Found

LEMMA FailureKeepsList ==
    ASSUME Bounded, OrderOK, NEW w, WalkOK(w), Asking(w), w.pc # "run",
           NEW l, NEW m \in Nat, NEW p, ListOK(l, m, p, w)
    PROVE  /\ ListOK(l, m + 1, p, Resumed(w, Unanswered(w)))
           /\ WalkOK(Resumed(w, Unanswered(w)))
<1>1. /\ w \in WalkType /\ w.at \in 1..Len(w.plan) + 1 /\ PlanOK(w.plan, w.scoped)
      /\ CarriedOK(w) /\ AskedOK(w) /\ Len(w.plan) \in Nat \ {0}
  BY PresentIs
<1>2. PICK A, U : FoundBefore(l, m, w, A, U)
  BY PresentIs
<1>3. PICK u, L, at : u = Unanswered(w) /\ L = Len(w.plan) /\ at = w.at
  OBVIOUS
<1>4. at \in Nat /\ at >= 1 /\ at <= L + 1 /\ L \in Nat /\ L >= 1
  BY <1>1, <1>3
<1>5. u = [w EXCEPT !.at = IF w.pc = "join" THEN w.at ELSE w.at + 1, !.carried = NoCarry]
  BY <1>3 DEF Unanswered
<1>6. u \in WalkType
  <2>1. PICK x : x = (IF w.pc = "join" THEN w.at ELSE w.at + 1)
    OBVIOUS
  <2>2. x \in Nat /\ NoCarry \in [page : Nat, of : PageOrNone]
    BY <1>3, <1>4, <2>1 DEF NoCarry, PageOrNone
  <2>3. u = [w EXCEPT !.at = x, !.carried = NoCarry]
    BY <1>5, <2>1
  <2> HIDE DEF NoCarry
  <2> QED  BY <1>1, <2>2, <2>3 DEF WalkType
<1>7. /\ u.plan = w.plan /\ u.scoped = w.scoped
      /\ u.at = (IF w.pc = "join" THEN at ELSE at + 1)
      /\ u.carried = NoCarry
  BY <1>1, <1>3, <1>5 DEF WalkType
<1>8. CASE w.pc = "join"
  <2>1. at = L + 1
    BY <1>1, <1>3, <1>8 DEF AskedOK
  <2>2. Found(l, m + 1, w.plan, 2 * L + 1, A, U \cup {w.at})
    <3>1. 2 * L + 1 \in 2 * (w.at - 1)..2 * w.at /\ 2 * L + 1 <= 2 * Len(w.plan) + 1
      BY <1>3, <1>4, <2>1
    <3> QED  BY <1>1, <1>2, <3>1, MissedIsFound
  <2>3. FoundAll(l, m + 1, u.plan, A, U \cup {w.at})
    BY <1>3, <1>7, <2>2 DEF FoundAll
  <2>4. ListOK(l, m + 1, p, Ended(u))
    <3>1. PICK k, V : k = m + 1 /\ V = U \cup {w.at}
      OBVIOUS
    <3>2. \E b, D, E : Found(l, k, u.plan, b, D, E)
      BY <1>7, <2>2, <3>1
    <3>3. \E D, E : FoundAll(l, k, u.plan, D, E)
      BY <2>3, <3>1
    <3> QED  BY <1>1, <1>6, <1>7, <3>1, <3>2, <3>3, ListEnds
  <2>5. WalkOK(Ended(u))
    <3>1. u.at \in 1..Len(u.plan) + 1
      BY <1>1, <1>3, <1>7, <1>8
    <3> QED  BY <1>6, <3>1, AskedIsOK
  <2>6. Resumed(w, Unanswered(w)) = Ended(u)
    BY <1>3, <1>8 DEF Resumed
  <2> QED  BY <2>4, <2>5, <2>6
<1>9. CASE w.pc # "join"
  <2>1. at <= L
    <3>1. at + Len(w.asked) - 1 <= L /\ Len(w.asked) \in Nat \ {0}
      BY <1>1, <1>3, <1>9, SourcesAre DEF AskedOK, Asking
    <3> QED  BY <1>4, <3>1
  <2>2. u.at = at + 1
    BY <1>7, <1>9
  <2>3. Found(l, m + 1, w.plan, 2 * at, A, U \cup {at})
    <3>1. 2 * at \in 2 * (w.at - 1)..2 * w.at /\ 2 * at <= 2 * Len(w.plan) + 1
      BY <1>3, <1>4, <2>1
    <3>2. PICK e : e = 2 * at
      OBVIOUS
    <3>3. Found(l, m + 1, w.plan, e, A, U \cup {w.at})
      BY <1>1, <1>2, <3>1, <3>2, MissedIsFound
    <3> QED  BY <1>3, <3>2, <3>3
  <2>4. FoundBefore(l, m + 1, u, A, U \cup {at})
    <3>1. 2 * (u.at - 1) = 2 * at /\ u.at - 1 = at
      BY <1>4, <2>2
    <3>2. U \cup {at} \subseteq 1..u.at - 1
      <4>1. U \subseteq 1..at - 1
        BY <1>2, <1>3 DEF FoundBefore
      <4> QED  BY <1>4, <3>1, <4>1
    <3> QED  BY <1>7, <2>3, <3>1, <3>2 DEF FoundBefore
  <2>5. u.at \in 1..Len(u.plan) + 1
    BY <1>3, <1>4, <1>7, <2>1, <2>2
  <2>6. CarriedOK(u)
    BY <1>7 DEF CarriedOK
  <2>7. PICK k, V : k = m + 1 /\ V = U \cup {at}
    OBVIOUS
  <2>8. ListOK(l, k, p, Onward(u))
    BY <1>1, <1>6, <1>7, <2>4, <2>5, <2>6, <2>7, ListGoesOn
  <2>9. WalkOK(Onward(u))
    BY <1>6, <2>5, AskedIsOK
  <2>10. Resumed(w, Unanswered(w)) = Onward(u)
    BY <1>3, <1>9 DEF Resumed
  <2> QED  BY <2>7, <2>8, <2>9, <2>10
<1> QED  BY <1>8, <1>9

\* The first page of a run that fails is asked for alone.
LEMMA AloneIsOK ==
    ASSUME Bounded, OrderOK, NEW w, WalkOK(w), w.pc = "run", Addressable(w.plan[w.at].page)
    PROVE  WalkOK(Asks(w, "page", <<w.plan[w.at].page>>))
<1>1. w \in WalkType /\ w.at \in 1..Len(w.plan) + 1 /\ w.at <= Len(w.plan) /\ w.plan \in Seq(PlanEntry)
  BY DEF WalkOK, WalkType
<1>2. PICK slot, v : slot = w.plan[w.at].page /\ v = Asks(w, "page", <<slot>>)
  OBVIOUS
<1>3. slot \in Slots
  <2>1. w.at \in 1..Len(w.plan)
    BY <1>1 DEF WalkType
  <2>2. w.plan[w.at] \in PlanEntry
    BY <1>1, <2>1
  <2> QED  BY <1>2, <2>2 DEF PlanEntry
<1>4. AsksNext(w, v) /\ v.pc = "page" /\ v.at = w.at /\ v.asked = <<slot>>
  BY <1>1, <1>2, <1>3, AsksOnePage
<1>5. v \in WalkType /\ v.plan = w.plan /\ Len(v.asked) = Len(v.sources)
  BY <1>4 DEF AsksNext
<1>6. WalkOK(v)
  BY <1>1, <1>4, <1>5 DEF WalkOK
<1> QED  BY <1>2, <1>6

LEMMA AloneKeepsList ==
    ASSUME Bounded, OrderOK, NEW w, WalkOK(w), w.pc = "run", Addressable(w.plan[w.at].page),
           NEW l, NEW m, NEW p, ListOK(l, m, p, w)
    PROVE  ListOK(l, m, p, Asks(w, "page", <<w.plan[w.at].page>>))
<1>0. Asking(w)
  BY DEF Asking
<1>1. /\ w \in WalkType /\ w.at \in 1..Len(w.plan) + 1 /\ PlanOK(w.plan, w.scoped)
      /\ CarriedOK(w) /\ AskedOK(w) /\ Len(w.plan) \in Nat \ {0}
  BY <1>0, PresentIs
<1>2. PICK A, U : FoundBefore(l, m, w, A, U)
  BY <1>0, PresentIs
<1>3. w.at \in 1..Len(w.plan)
  BY <1>1 DEF WalkOK
<1>4. PICK slot, v : slot = w.plan[w.at].page /\ v = Asks(w, "page", <<slot>>)
  OBVIOUS
<1>5. slot \in Slots
  <2>1. w.plan[w.at] \in PlanEntry
    BY <1>1, <1>3 DEF PlanOK
  <2> QED  BY <1>4, <2>1 DEF PlanEntry
<1>6. AsksNext(w, v) /\ v.pc = "page" /\ v.at = w.at /\ v.asked = <<slot>>
  BY <1>1, <1>4, <1>5, AsksOnePage
<1>7. /\ v.plan = w.plan /\ v.scoped = w.scoped /\ v.carried = w.carried
      /\ \A i \in DOMAIN v.asked : v.sources[i] = order[v.asked[i]]
      /\ v.asked # <<>> => v.carry = CarryInto(w.carried, v.asked[1])
  BY <1>6 DEF AsksNext
<1>8. v.asked # <<>> /\ DOMAIN v.asked = {1} /\ v.asked[1] = slot /\ Len(v.asked) = 1
  BY <1>5, <1>6, OneSlot
<1>9. CarriedOK(v)
  BY <1>1, <1>6, <1>7 DEF CarriedOK
<1>10. AskedOK(v)
  <2>1. v.at + Len(v.asked) - 1 <= Len(v.plan) /\ v.at + 1 - 1 = v.at
    <3>1. PICK at, n : at = v.at /\ n = Len(v.plan)
      OBVIOUS
    <3>2. at \in 1..n /\ n \in Nat
      BY <1>1, <1>3, <1>6, <1>7, <3>1
    <3>3. at + 1 - 1 <= n /\ at + 1 - 1 = at
      BY <3>2
    <3> QED  BY <1>8, <3>1, <3>3
  <2>2. \A i \in DOMAIN v.asked : v.asked[i] = v.plan[v.at + i - 1].page
    BY <1>4, <1>6, <1>7, <1>8, <2>1, ZenonT(60)
  <2>3. 1..Len(v.asked) - 1 = {}
    BY <1>8
  <2> QED  BY <1>6, <1>7, <1>8, <2>1, <2>2, <2>3 DEF AskedOK
<1>11. FoundBefore(l, m, v, A, U)
  BY <1>2, <1>6, <1>7 DEF FoundBefore
<1>12. Found(l, m, v.plan, 2 * (v.at - 1), A, U)
  BY <1>11 DEF FoundBefore
<1>13. ListOK(l, m, p, v)
  BY <1>1, <1>6, <1>7, <1>9, <1>10, <1>11, <1>12 DEF ListOK
<1> QED  BY <1>4, <1>13

-----------------------------------------------------------------------------
\* Marking.

LEMMA ChunkIs ==
    ASSUME Bounded, NEW S, NEW slots \in Seq(S)
    PROVE  \E c \in 0..Len(slots) : DOMAIN Chunk(slots) = 1..c
<1>1. PICK n, c : n = Len(slots) /\ c = (IF CopyChunk < Len(slots) THEN CopyChunk ELSE Len(slots))
  OBVIOUS
<1>2. n \in Nat /\ CopyChunk \in Nat \ {0}
  BY <1>1 DEF Bounded
<1>3. c \in 0..n
  BY <1>1, <1>2
<1>4. Chunk(slots) = SubSeq(slots, 1, c)
  BY <1>1 DEF Chunk
<1>5. SubSeq(slots, 1, c) = [i \in 1..c |-> slots[1 + i - 1]]
  BY <1>3
<1>6. DOMAIN Chunk(slots) = 1..c
  BY <1>4, <1>5
<1> QED  BY <1>1, <1>3, <1>6

\* What is listed is of the pages on the screen.
LEMMA ListedAreOnTheScreen ==
    ASSUME Bounded, OrderOK, NEW l, NEW m, NEW p, NEW w, ListOK(l, m, p, w)
    PROVE  /\ l \in Seq(AHit)
           /\ \A i \in DOMAIN l : l[i] \in Hit /\ HitOn(order, l[i])
<1>1. PICK b, A, U : Found(l, m, w.plan, b, A, U)
  BY DEF ListOK
<1>2. PlanOK(w.plan, w.scoped)
  BY DEF ListOK
<1>3. PICK H : H = HitsAlong(w.plan)
  OBVIOUS
<1>4. /\ H \in Seq(AHit) /\ DOMAIN H = 1..Len(H) /\ Good(w.plan) \in SUBSET (1..Len(H))
      /\ \A k \in Good(w.plan) : H[k] \in Hit /\ HitOn(order, H[k])
  BY <1>2, <1>3, HitsAlongAPlan, GoodHits
<1>5. l = Subsequence(H, A) /\ A \in SUBSET Good(w.plan)
  BY <1>1, <1>3 DEF Found
<1>6. l \in Seq(AHit) /\ Has(l, H, A \cap DOMAIN H)
  BY <1>4, <1>5, SubsequenceIs
<1>7. ASSUME NEW i \in DOMAIN l  PROVE l[i] \in Hit /\ HitOn(order, l[i])
  <2>1. \E k \in A \cap DOMAIN H : H[k] = l[i]
    BY <1>6 DEF Has
  <2> QED  BY <1>4, <1>5, <2>1
<1> QED  BY <1>6, <1>7

LEMMA MarkBegins ==
    ASSUME Bounded, OrderOK, PresentOK, Mark
    PROVE  MarkIs(mark')
<1> DEFINE hit == {s \in DOMAIN order : \E h \in Range(matches) : s \in {h.from, h.to}}
           ids == [s \in DOMAIN order |-> s]
           slots == Subsequence(ids, hit)
<1>1. PICK m : m = mark'
  OBVIOUS
<1>2. /\ matches # <<>>
      /\ m = [at |-> "loading", pages |-> order, hits |-> matches, slots |-> slots,
              texts |-> Loads(slots), out |-> {}]
  BY <1>1 DEF Mark
<1>3. /\ matches \in Seq(AHit)
      /\ \A i \in DOMAIN matches : HitOn(order, matches[i])
  <2>1. ListOK(matches, unread, problem, walk[scan])
    BY <1>2 DEF PresentOK
  <2> QED  BY <2>1, ListedAreOnTheScreen
<1>4. order \in Seq(Address) /\ DOMAIN order = 1..Len(order) /\ Len(order) \in Nat
  BY DEF OrderOK
<1>5. ids \in Seq(DOMAIN order) /\ DOMAIN ids = DOMAIN order /\ \A s \in DOMAIN order : ids[s] = s
  BY <1>4
<1> HIDE DEF ids
<1>6. slots \in Seq(DOMAIN order) /\ Has(slots, ids, hit \cap DOMAIN ids)
  <2> HIDE DEF hit
  <2> QED  BY <1>5, SubsequenceIs
<1>7. ASSUME NEW i \in DOMAIN matches, NEW slot \in {matches[i].from, matches[i].to}
      PROVE  \E k \in DOMAIN slots : slots[k] = slot
  <2>1. slot \in DOMAIN order
    BY <1>3 DEF HitOn
  <2>2. slot \in hit \cap DOMAIN ids
    BY <1>5, <2>1 DEF Range
  <2>3. ids[slot] = slot
    BY <1>5, <2>1
  <2> HIDE DEF slots, hit
  <2> QED  BY <1>6, <2>2, <2>3 DEF Has
<1> HIDE DEF slots
<1>8. /\ m.at = "loading" /\ m.pages = order /\ m.hits = matches /\ m.slots = slots
      /\ m.texts = Loads(slots) /\ m.out = {}
  BY <1>2
<1>9. Loads(slots) = [i \in DOMAIN Chunk(slots) |-> order[slots[i]]]
  BY DEF Loads
<1>10. Marks(m)
  BY <1>3, <1>4, <1>6, <1>7, <1>8, <1>9 DEF Marks
<1>11. m = [at |-> m.at, pages |-> m.pages, hits |-> m.hits, slots |-> m.slots,
            texts |-> m.texts, out |-> m.out]
  BY <1>2
<1> QED  BY <1>1, <1>8, <1>10, <1>11 DEF MarkIs

LEMMA MarkGoesOn ==
    ASSUME Bounded, OrderOK, MarkIs(mark), MarkLoads
    PROVE  MarkIs(mark')
<1>1. PICK m, k : m = mark /\ k = mark'
  OBVIOUS
<1> DEFINE rest == SubSeq(m.slots, Len(m.texts) + 1, Len(m.slots))
           found == UNION {{[page |-> m.pages[h.slot], text |-> m.texts[i], part |-> h.part] :
                              h \in HalvesOf(m.hits, m.slots[i])} : i \in DOMAIN m.texts}
           texts == [i \in DOMAIN Chunk(rest) |-> IF rest[i] \in DOMAIN order THEN order[rest[i]] ELSE NoPage]
<1>0. m = [at |-> m.at, pages |-> m.pages, hits |-> m.hits, slots |-> m.slots,
           texts |-> m.texts, out |-> m.out]
  BY <1>1 DEF MarkIs
<1>2. /\ m.at = "loading" /\ order = m.pages
      /\ k = [m EXCEPT !.out = m.out \cup found, !.slots = rest, !.texts = texts,
                       !.at = IF rest = <<>> THEN "given" ELSE "loading"]
  BY <1>1 DEF MarkLoads, SamePages
<1>3. Marks(m)
  BY <1>1, <1>2 DEF MarkIs
<1>4. /\ m.pages \in Seq(Address) /\ m.slots \in Seq(DOMAIN m.pages)
      /\ m.texts = [i \in DOMAIN Chunk(m.slots) |-> m.pages[m.slots[i]]]
  BY <1>3 DEF Marks
<1>5. PICK c \in 0..Len(m.slots) : DOMAIN Chunk(m.slots) = 1..c
  BY <1>4, ChunkIs
<1>6. PICK n : n = Len(m.slots)
  OBVIOUS
<1>7. n \in Nat /\ c \in 0..n /\ DOMAIN m.slots = 1..n /\ \A i \in 1..n : m.slots[i] \in DOMAIN m.pages
  BY <1>4, <1>5, <1>6
<1>8. DOMAIN m.texts = 1..c /\ Len(m.texts) = c /\ \A i \in 1..c : m.texts[i] = m.pages[m.slots[i]]
  BY <1>4, <1>5, <1>7
<1>9. rest = SubSeq(m.slots, c + 1, n)
  BY <1>6, <1>8
<1>10. /\ rest \in Seq(DOMAIN m.pages) /\ DOMAIN rest = 1..n - c /\ Len(rest) = n - c /\ n - c \in Nat
       /\ \A i \in 1..n - c : rest[i] = m.slots[c + i]
  <2>1. PICK S, s, r : S = DOMAIN m.pages /\ s = m.slots /\ r = rest
    OBVIOUS
  <2>2. s \in Seq(S) /\ n = Len(s) /\ c \in 0..Len(s) /\ r = SubSeq(s, c + 1, Len(s))
    BY <1>4, <1>6, <1>7, <1>9, <2>1
  <2>3. r \in Seq(S) /\ Len(r) = Len(s) - c /\ \A i \in 1..Len(s) - c : r[i] = s[c + i]
    BY <2>2
  <2>4. DOMAIN r = 1..n - c /\ n - c \in Nat
    BY <1>7, <2>2, <2>3
  <2> QED  BY <2>1, <2>2, <2>3, <2>4
<1> HIDE DEF rest
<1>11. texts = [i \in DOMAIN Chunk(rest) |-> m.pages[rest[i]]]
  <2>1. PICK d \in 0..Len(rest) : DOMAIN Chunk(rest) = 1..d
    BY <1>10, ChunkIs
  <2>2. \A i \in DOMAIN Chunk(rest) : rest[i] \in DOMAIN m.pages
    <3>1. \A i \in 1..n - c : rest[i] \in DOMAIN m.pages
      BY <1>10
    <3>2. \A i \in DOMAIN Chunk(rest) : i \in 1..n - c
      BY <1>10, <2>1
    <3> QED  BY <3>1, <3>2
  <2> QED  BY <1>2, <2>2
<1>12. ASSUME NEW half \in found
       PROVE  \E i \in DOMAIN m.hits : \E slot \in {m.hits[i].from, m.hits[i].to} :
                 half = HalfOn(m.pages, m.hits[i], slot)
  <2>1. PICK j \in 1..c : \E h \in HalvesOf(m.hits, m.slots[j]) :
           half = [page |-> m.pages[h.slot], text |-> m.texts[j], part |-> h.part]
    BY <1>8
  <2>2. PICK slot : slot = m.slots[j]
    OBVIOUS
  <2>3. PICK h \in HalvesOf(m.hits, slot) :
           half = [page |-> m.pages[h.slot], text |-> m.texts[j], part |-> h.part]
    BY <2>1, <2>2
  <2>4. PICK x \in Range(m.hits) :
           /\ slot \in {x.from, x.to}
           /\ h = [part |-> IF x.from = x.to THEN "own" ELSE IF x.from = slot THEN "tail" ELSE "head",
                   slot |-> slot]
    BY <2>3 DEF HalvesOf
  <2>5. PICK i \in DOMAIN m.hits : m.hits[i] = x
    BY <2>4 DEF Range
  <2>6. half = HalfOn(m.pages, x, slot)
    BY <1>8, <2>2, <2>3, <2>4 DEF HalfOn
  <2> QED  BY <2>4, <2>5, <2>6
<1>13. ASSUME NEW i \in DOMAIN m.hits, NEW slot \in {m.hits[i].from, m.hits[i].to},
              NEW j \in 1..c, m.slots[j] = slot
       PROVE  HalfOn(m.pages, m.hits[i], slot) \in found
  <2>1. PICK x : x = m.hits[i]
    OBVIOUS
  <2>2. PICK h : h = [part |-> IF x.from = x.to THEN "own" ELSE IF x.from = slot THEN "tail" ELSE "head",
                      slot |-> slot]
    OBVIOUS
  <2>3. x \in Range(m.hits) /\ slot \in {x.from, x.to}
    BY <2>1 DEF Range
  <2>4. h \in HalvesOf(m.hits, slot)
    BY <2>2, <2>3 DEF HalvesOf
  <2>5. HalfOn(m.pages, x, slot) = [page |-> m.pages[h.slot], text |-> m.texts[j], part |-> h.part]
    BY <1>8, <1>13, <2>2 DEF HalfOn
  <2>6. HalfOn(m.pages, x, slot) \in
          {[page |-> m.pages[g.slot], text |-> m.texts[j], part |-> g.part] :
             g \in HalvesOf(m.hits, m.slots[j])}
    BY <1>13, <2>4, <2>5
  <2> DEFINE F(l) == {[page |-> m.pages[g.slot], text |-> m.texts[l], part |-> g.part] :
                        g \in HalvesOf(m.hits, m.slots[l])}
  <2>7. HalfOn(m.pages, x, slot) \in F(j)
    BY <2>6
  <2>8. found = UNION {F(l) : l \in DOMAIN m.texts}
    OBVIOUS
  <2>9. j \in DOMAIN m.texts
    BY <1>8
  <2> HIDE DEF F, found
  <2>10. HalfOn(m.pages, x, slot) \in found
    BY <2>7, <2>8, <2>9
  <2> QED  BY <2>1, <2>10
<1> HIDE DEF found, texts
<1>14. /\ k.at = (IF rest = <<>> THEN "given" ELSE "loading") /\ k.pages = m.pages /\ k.hits = m.hits
       /\ k.slots = rest /\ k.texts = texts /\ k.out = m.out \cup found
  BY <1>0, <1>2
<1>16. ASSUME NEW i \in DOMAIN m.hits, NEW slot \in {m.hits[i].from, m.hits[i].to}
       PROVE  \/ \E j \in DOMAIN rest : rest[j] = slot
              \/ HalfOn(m.pages, m.hits[i], slot) \in m.out \cup found
  <2>1. \/ \E j \in DOMAIN m.slots : m.slots[j] = slot
        \/ HalfOn(m.pages, m.hits[i], slot) \in m.out
    BY <1>3 DEF Marks
  <2>2. ASSUME NEW j \in DOMAIN m.slots, m.slots[j] = slot
        PROVE  \/ \E l \in DOMAIN rest : rest[l] = slot
               \/ HalfOn(m.pages, m.hits[i], slot) \in found
    <3>1. CASE j <= c
      <4>1. j \in 1..c
        BY <1>7, <3>1
      <4> QED  BY <1>13, <2>2, <4>1
    <3>2. CASE j > c
      <4>1. j - c \in 1..n - c /\ c + (j - c) = j
        BY <1>7, <3>2
      <4> QED  BY <1>10, <2>2, <4>1
    <3> QED  BY <1>7, <3>1, <3>2
  <2> QED  BY <2>1, <2>2
<1>17. Marks(k)
  <2>1. \A i \in DOMAIN m.hits : HitOn(m.pages, m.hits[i])
    BY <1>3 DEF Marks
  <2>2. \A half \in k.out : \E i \in DOMAIN m.hits :
           \E slot \in {m.hits[i].from, m.hits[i].to} : half = HalfOn(m.pages, m.hits[i], slot)
    BY <1>3, <1>12, <1>14 DEF Marks
  <2> QED  BY <1>4, <1>10, <1>11, <1>14, <1>16, <2>1, <2>2 DEF Marks
<1>18. k = [at |-> k.at, pages |-> k.pages, hits |-> k.hits, slots |-> k.slots,
             texts |-> k.texts, out |-> k.out]
  BY <1>0, <1>2
<1> QED  BY <1>1, <1>14, <1>17, <1>18 DEF MarkIs

-----------------------------------------------------------------------------
\* The steps.

\* What has been said of a list holds while the pages stay in their places.
LEMMA SameScreen ==
    ASSUME order' = order, NEW l, NEW m, NEW p, NEW w
    PROVE  ListOK(l, m, p, w)' <=> ListOK(l, m, p, w)
<1>1. HitsAlong(w.plan)' = HitsAlong(w.plan)
  BY DEF HitsAlong, Below
<1>2. Good(w.plan)' = Good(w.plan)
  BY <1>1 DEF Good
<1>3. PlanOK(w.plan, w.scoped)' <=> PlanOK(w.plan, w.scoped)
  BY DEF PlanOK
<1>4. CarriedOK(w)' <=> CarriedOK(w)
  BY DEF CarriedOK
<1>5. AskedOK(w)' <=> AskedOK(w)
  <2>1. LooksBehind(w)' <=> LooksBehind(w)
    BY DEF LooksBehind, Addressable
  <2> QED  BY <2>1 DEF AskedOK
<1>6. ASSUME NEW b, NEW A, NEW U
      PROVE  Found(l, m, w.plan, b, A, U)' <=> Found(l, m, w.plan, b, A, U)
  BY <1>1, <1>2 DEF Found
<1>7. ASSUME NEW A, NEW U
      PROVE  /\ FoundBefore(l, m, w, A, U)' <=> FoundBefore(l, m, w, A, U)
             /\ FoundAll(l, m, w.plan, A, U)' <=> FoundAll(l, m, w.plan, A, U)
  BY <1>6 DEF FoundBefore, FoundAll
<1> QED  BY <1>3, <1>4, <1>5, <1>6, <1>7 DEF ListOK

LEMMA PresentStays ==
    ASSUME order' = order, scan' = scan, PresentOK,
           scan = 0 => matches' = matches,
           NEW w, scan # 0 => walk'[scan] = w /\ ListOK(matches', unread', problem', w)
    PROVE  PresentOK'
<1>1. PICK l, m, p : l = matches' /\ m = unread' /\ p = problem'
  OBVIOUS
<1>2. CASE scan = 0
  BY <1>2 DEF PresentOK
<1>3. CASE scan # 0
  <2>1. ListOK(l, m, p, w)
    BY <1>1, <1>3
  <2>2. ListOK(l, m, p, w)'
    BY <2>1, SameScreen
  <2>3. ListOK(matches, unread, problem, walk[scan])'
    BY <1>1, <1>3, <2>2
  <2> QED  BY <1>3, <2>3 DEF PresentOK
<1> QED  BY <1>2, <1>3

LEMMA WalksGo ==
    ASSUME Bounded, WalksOK, NEW g \in 1..MaxScans, Asking(walk[g]), scan' = scan, scans' = scans,
           NEW v, WalkOK(v), v.pc # "none",
           walk' = [walk EXCEPT ![g] = IF g = scan THEN v ELSE Superseded(v)]
    PROVE  /\ WalksOK' /\ (g = scan => walk'[scan] = v)
           /\ g # scan /\ scan # 0 => walk'[scan] = walk[scan]
<1>1. PICK u : u = (IF g = scan THEN v ELSE Superseded(v))
  OBVIOUS
<1>2. WalkOK(u) /\ u.pc # "none"
  BY <1>1, SupersededIsOK
<1>3. /\ walk = [i \in 1..MaxScans |-> walk[i]] /\ DOMAIN walk = 1..MaxScans
      /\ walk' = [walk EXCEPT ![g] = u]
      /\ \A i \in 1..MaxScans : WalkOK(walk[i]) /\ (walk[i].pc = "none" <=> i > scans)
      /\ scans \in 0..MaxScans /\ scan \in 0..scans
  BY <1>1 DEF WalksOK
<1>4. /\ walk'[g] = u /\ \A i \in 1..MaxScans : i # g => walk'[i] = walk[i]
      /\ DOMAIN walk' = 1..MaxScans /\ walk' = [i \in 1..MaxScans |-> walk'[i]]
  BY <1>3
<1>5. ~(g > scans)
  BY <1>3 DEF Asking
<1>6. \A i \in 1..MaxScans : WalkOK(walk'[i]) /\ (walk'[i].pc = "none" <=> i > scans)
  BY <1>2, <1>3, <1>4, <1>5
<1>7. WalksOK'
  <2>1. \A i \in 1..MaxScans : WalkOK(walk'[i]) /\ (walk'[i].pc = "none" <=> i > scans')
    BY <1>6
  <2> QED  BY <1>3, <1>4, <2>1 DEF WalksOK, WalkOK, Asking
<1>8. scan # 0 => scan \in 1..MaxScans
  <2>1. scans \in 0..MaxScans /\ scan \in 0..scans /\ MaxScans \in Nat
    BY <1>3 DEF Bounded
  <2> QED  BY <2>1
<1> QED  BY <1>1, <1>4, <1>7, <1>8

LEMMA WalkOf ==
    ASSUME WalksOK, NEW g \in 1..MaxScans, walk[g].pc \in {"run", "page", "join"}
    PROVE  /\ WalkOK(walk[g]) /\ Asking(walk[g]) /\ walk[g] \in WalkType
           /\ walk[g].at \in 1..Len(walk[g].plan) + 1
BY DEF WalksOK, WalkOK, Asking

LEMMA RunningIsKnown ==
    ASSUME Counted, NEW v, running' = (running /\ v.pc # "ended")
    PROVE  running' \in BOOLEAN
OBVIOUS

LEMMA ReplyStep ==
    ASSUME Bounded, SearchInv, NEW g \in 1..MaxScans, Reply(g)
    PROVE  SearchInv'
<1>1. PICK w : w = walk[g]
  OBVIOUS
<1>2. /\ w.pc \in {"run", "page", "join"} /\ g = scan
      /\ UNCHANGED <<order, scan, mark, scans, reorders, unread, problem>>
  BY <1>1 DEF Reply, Outstanding, Present
<1>3. PICK n \in 1..Len(w.asked) : /\ matches' = matches \o Filed(w, n)
                                   /\ Goes(g, Resumed(w, After(w, n)))
  BY <1>1 DEF Reply
<1>4. PICK v : v = Resumed(w, After(w, n))
  OBVIOUS
<1>5. /\ walk' = [walk EXCEPT ![g] = IF g = scan THEN v ELSE Superseded(v)]
      /\ running' = (running /\ v.pc # "ended")
  BY <1>3, <1>4 DEF Goes
<1>6. OrderOK /\ WalksOK /\ PresentOK /\ MarkOK /\ Counted
  BY DEF SearchInv
<1>7. WalkOK(w) /\ Asking(w)
  BY <1>1, <1>2, <1>6, WalkOf
<1>8. g # 0 /\ scan # 0
  BY <1>2
<1>9. ListOK(matches, unread, problem, w)
  BY <1>1, <1>2, <1>6, <1>8 DEF PresentOK
<1>10. ListOK(matches', unread', problem', v) /\ WalkOK(v)
  <2>1. PICK l, m, p : l = matches /\ m = unread /\ p = problem
    OBVIOUS
  <2>2. ListOK(l \o Filed(w, n), m, p, v) /\ WalkOK(v)
    BY <1>4, <1>6, <1>7, <1>9, <2>1, ReplyKeepsList
  <2> QED  BY <1>2, <1>3, <2>1, <2>2
<1>11. v.pc # "none"
  BY <1>10 DEF ListOK
<1>12. WalksOK' /\ walk'[scan] = v
  BY <1>1, <1>2, <1>5, <1>6, <1>7, <1>10, <1>11, WalksGo
<1>13. PresentOK'
  BY <1>2, <1>6, <1>8, <1>10, <1>12, PresentStays
<1>14. OrderOK' /\ MarkOK'
  BY <1>2, <1>6 DEF OrderOK, MarkOK
<1>15. Counted'
  <2>1. running' \in BOOLEAN
    BY <1>5, <1>6, RunningIsKnown
  <2> QED  BY <1>2, <1>6, <2>1 DEF Counted
<1> QED  BY <1>12, <1>13, <1>14, <1>15 DEF SearchInv

LEMMA ProblemStep ==
    ASSUME Bounded, SearchInv, NEW g \in 1..MaxScans, ReplyWithProblem(g)
    PROVE  SearchInv'
<1>1. PICK w, v : w = walk[g] /\ v = Ended(walk[g])
  OBVIOUS
<1>2. /\ w.pc \in {"run", "page", "join"} /\ g = scan /\ problem' = TRUE
      /\ UNCHANGED <<order, scan, mark, scans, reorders, matches, unread>>
      /\ walk' = [walk EXCEPT ![g] = IF g = scan THEN v ELSE Superseded(v)]
      /\ running' = (running /\ v.pc # "ended")
  BY <1>1 DEF ReplyWithProblem, Outstanding, Present, Goes
<1>3. OrderOK /\ WalksOK /\ PresentOK /\ MarkOK /\ Counted
  BY DEF SearchInv
<1>4. /\ WalkOK(w) /\ Asking(w) /\ w \in WalkType /\ w.at \in 1..Len(w.plan) + 1
  BY <1>1, <1>2, <1>3, WalkOf
<1>5. g # 0 /\ scan # 0
  BY <1>2
<1>6. ListOK(matches, unread, problem, w)
  BY <1>1, <1>2, <1>3, <1>5 DEF PresentOK
<1>7. ListOK(matches', unread', problem', v)
  <2>1. PICK l, m, p : l = matches /\ m = unread /\ p = problem
    OBVIOUS
  <2>2. ListOK(l, m, TRUE, v)
    BY <1>1, <1>4, <1>6, <2>1, ProblemKeepsList
  <2> QED  BY <1>2, <2>1, <2>2
<1>8. WalkOK(v) /\ v.pc # "none"
  BY <1>1, <1>3, <1>4, <1>7, AskedIsOK DEF ListOK
<1>9. WalksOK' /\ walk'[scan] = v
  BY <1>1, <1>2, <1>3, <1>4, <1>8, WalksGo
<1>10. PresentOK'
  BY <1>2, <1>3, <1>5, <1>7, <1>9, PresentStays
<1>11. OrderOK' /\ MarkOK'
  BY <1>2, <1>3 DEF OrderOK, MarkOK
<1>12. Counted'
  <2>1. running' \in BOOLEAN
    BY <1>2, <1>3, RunningIsKnown
  <2> QED  BY <1>2, <1>3, <2>1 DEF Counted
<1> QED  BY <1>9, <1>10, <1>11, <1>12 DEF SearchInv

\* A search nobody runs any more leaves what is listed alone.
LEMMA StaleStep ==
    ASSUME Bounded, SearchInv, NEW g \in 1..MaxScans, Asking(walk[g]), g # scan,
           UNCHANGED <<order, scan, mark, scans, matches, unread, problem>>,
           running' \in BOOLEAN, NEW v, WalkOK(v), v.pc # "none",
           walk' = [walk EXCEPT ![g] = Superseded(v)]
    PROVE  SearchInv'
<1>1. OrderOK /\ WalksOK /\ PresentOK /\ MarkOK /\ Counted
  BY DEF SearchInv
<1>2. walk' = [walk EXCEPT ![g] = IF g = scan THEN v ELSE Superseded(v)]
  OBVIOUS
<1>3. WalksOK' /\ (scan # 0 => walk'[scan] = walk[scan])
  BY <1>1, <1>2, WalksGo
<1>4. PresentOK'
  <2>1. PICK w : w = walk[scan]
    OBVIOUS
  <2>2. scan # 0 => walk'[scan] = w /\ ListOK(matches', unread', problem', w)
    <3>1. scan # 0 => ListOK(matches, unread, problem, w)
      BY <1>1, <2>1 DEF PresentOK
    <3>2. PICK l, m, p : l = matches /\ m = unread /\ p = problem
      OBVIOUS
    <3>3. scan # 0 => ListOK(l, m, p, w)
      BY <3>1, <3>2
    <3>4. l = matches' /\ m = unread' /\ p = problem'
      BY <3>2
    <3> QED  BY <1>3, <2>1, <3>3, <3>4
  <2> QED  BY <1>1, <2>2, PresentStays
<1>5. OrderOK' /\ MarkOK' /\ Counted'
  BY <1>1 DEF OrderOK, MarkOK, Counted
<1> QED  BY <1>3, <1>4, <1>5 DEF SearchInv

LEMMA LateStep ==
    ASSUME Bounded, SearchInv, NEW g \in 1..MaxScans, ReplyTooLate(g)
    PROVE  SearchInv'
<1>1. PICK w, v : w = walk[g] /\ v = Ended(walk[g])
  OBVIOUS
<1>2. /\ w.pc \in {"run", "page", "join"} /\ g # scan
      /\ UNCHANGED <<order, scan, mark, scans, matches, unread, problem, running>>
      /\ walk' = [walk EXCEPT ![g] = Superseded(v)]
  BY <1>1 DEF ReplyTooLate, Outstanding, Present, list
<1>3. OrderOK /\ WalksOK /\ Counted
  BY DEF SearchInv
<1>4. Asking(w) /\ w \in WalkType /\ w.at \in 1..Len(w.plan) + 1
  BY <1>1, <1>2, <1>3, WalkOf
<1>5. WalkOK(v) /\ v.pc # "none"
  BY <1>1, <1>3, <1>4, AskedIsOK, EndedIs
<1>6. running' \in BOOLEAN
  BY <1>2, <1>3 DEF Counted
<1> QED  BY <1>1, <1>2, <1>4, <1>5, <1>6, StaleStep

LEMMA FailureStep ==
    ASSUME Bounded, SearchInv, NEW g \in 1..MaxScans, PageFails(g)
    PROVE  SearchInv'
<1>1. PICK w : w = walk[g]
  OBVIOUS
<1>2. /\ w.pc \in {"page", "join"} /\ UNCHANGED <<order, scan, mark, scans, matches, problem>>
      /\ IF g = scan
         THEN unread' = unread + 1 /\ Goes(g, Resumed(w, Unanswered(w)))
         ELSE walk' = [walk EXCEPT ![g] = Superseded(Ended(w))] /\ UNCHANGED <<unread, running>>
  BY <1>1 DEF PageFails, Fails, Outstanding, Present
<1>3. OrderOK /\ WalksOK /\ PresentOK /\ MarkOK /\ Counted
  BY DEF SearchInv
<1>4. /\ WalkOK(w) /\ Asking(w) /\ w \in WalkType /\ w.at \in 1..Len(w.plan) + 1
  BY <1>1, <1>2, <1>3, WalkOf
<1>5. CASE g # scan
  <2>1. PICK v : v = Ended(w)
    OBVIOUS
  <2>2. WalkOK(v) /\ v.pc # "none"
    BY <1>3, <1>4, <2>1, AskedIsOK, EndedIs
  <2>3. running' \in BOOLEAN
    BY <1>2, <1>3, <1>5 DEF Counted
  <2> QED  BY <1>1, <1>2, <1>4, <1>5, <2>1, <2>2, <2>3, StaleStep
<1>6. CASE g = scan
  <2>1. PICK v : v = Resumed(w, Unanswered(w))
    OBVIOUS
  <2>2. /\ walk' = [walk EXCEPT ![g] = IF g = scan THEN v ELSE Superseded(v)]
        /\ running' = (running /\ v.pc # "ended") /\ unread' = unread + 1
    BY <1>2, <1>6, <2>1 DEF Goes
  <2>3. g # 0 /\ scan # 0
    BY <1>6
  <2>4. ListOK(matches, unread, problem, w)
    BY <1>1, <1>3, <1>6, <2>3 DEF PresentOK
  <2>5. ListOK(matches', unread', problem', v) /\ WalkOK(v)
    <3>1. PICK l, m, p : l = matches /\ m = unread /\ p = problem
      OBVIOUS
    <3>2. m \in Nat /\ w.pc # "run"
      BY <1>2, <1>3, <3>1 DEF Counted
    <3>3. ListOK(l, m + 1, p, v) /\ WalkOK(v)
      BY <1>3, <1>4, <2>1, <2>4, <3>1, <3>2, FailureKeepsList
    <3> QED  BY <1>2, <2>2, <3>1, <3>3
  <2>6. v.pc # "none"
    BY <2>5 DEF ListOK
  <2>7. WalksOK' /\ walk'[scan] = v
    BY <1>1, <1>2, <1>3, <1>4, <1>6, <2>2, <2>5, <2>6, WalksGo
  <2>8. PresentOK'
    BY <1>2, <1>3, <2>3, <2>5, <2>7, PresentStays
  <2>9. OrderOK' /\ MarkOK'
    BY <1>2, <1>3 DEF OrderOK, MarkOK
  <2>10. Counted'
    <3>1. running' \in BOOLEAN
      BY <1>3, <2>2, RunningIsKnown
    <3>2. unread' \in Nat
      BY <1>3, <2>2 DEF Counted
    <3> QED  BY <1>2, <1>3, <3>1, <3>2 DEF Counted
  <2> QED  BY <2>7, <2>8, <2>9, <2>10 DEF SearchInv
<1> QED  BY <1>5, <1>6

LEMMA RunStep ==
    ASSUME Bounded, SearchInv, NEW g \in 1..MaxScans, RunFails(g)
    PROVE  SearchInv'
<1>1. PICK w : w = walk[g]
  OBVIOUS
<1>2. PICK slot, v : /\ slot = w.plan[w.at].page
                     /\ v = (IF Addressable(slot) THEN Asks(w, "page", <<slot>>) ELSE Onward(w))
  OBVIOUS
<1>3. /\ w.pc = "run" /\ UNCHANGED <<order, scan, mark, scans, matches, unread, problem>>
      /\ Goes(g, v)
  BY <1>1, <1>2 DEF RunFails, Fails, Outstanding
<1>4. /\ walk' = [walk EXCEPT ![g] = IF g = scan THEN v ELSE Superseded(v)]
      /\ running' = (running /\ v.pc # "ended")
  BY <1>3 DEF Goes
<1>5. OrderOK /\ WalksOK /\ PresentOK /\ MarkOK /\ Counted
  BY DEF SearchInv
<1>6. /\ WalkOK(w) /\ Asking(w) /\ w \in WalkType /\ w.at \in 1..Len(w.plan) + 1
  BY <1>1, <1>3, <1>5, WalkOf
<1>7. WalkOK(v) /\ v.pc # "none"
  <2>1. CASE Addressable(slot)
    <3>1. v = Asks(w, "page", <<slot>>)
      BY <1>2, <2>1
    <3>2. WalkOK(v)
      BY <1>2, <1>3, <1>5, <1>6, <2>1, <3>1, AloneIsOK
    <3>3. v.pc = "page"
      <4>1. w.at \in 1..Len(w.plan) /\ w.plan \in Seq(PlanEntry)
        BY <1>3, <1>6 DEF WalkOK, WalkType
      <4>2. w.plan[w.at] \in PlanEntry
        BY <4>1
      <4>3. slot \in Slots
        BY <1>2, <4>2 DEF PlanEntry
      <4> QED  BY <1>5, <1>6, <2>1, <3>1, <4>3, AsksOnePage
    <3> QED  BY <3>2, <3>3
  <2>2. CASE ~Addressable(slot)
    <3>1. v = Onward(w)
      BY <1>2, <2>2
    <3>2. WalkOK(v)
      BY <1>5, <1>6, <3>1, AskedIsOK
    <3>3. v.pc # "none"
      <4>1. Finds(w, v) \/ LooksBack(w, v) \/ Stops(w, v)
        BY <1>5, <1>6, <3>1, OnwardIs
      <4> QED  BY <4>1 DEF Finds, LooksBack, Stops
    <3> QED  BY <3>2, <3>3
  <2> QED  BY <2>1, <2>2
<1>8. running' \in BOOLEAN
  BY <1>4, <1>5, RunningIsKnown
<1>9. CASE g # scan
  <2>1. walk' = [walk EXCEPT ![g] = Superseded(v)]
    BY <1>4, <1>9
  <2> QED  BY <1>1, <1>3, <1>6, <1>7, <1>8, <1>9, <2>1, StaleStep
<1>10. CASE g = scan
  <2>1. g # 0 /\ scan # 0
    BY <1>10
  <2>2. ListOK(matches, unread, problem, w)
    BY <1>1, <1>5, <1>10, <2>1 DEF PresentOK
  <2>3. Addressable(slot)
    <3>1. w.at \in 1..Len(w.plan) /\ PlanOK(w.plan, w.scoped)
      BY <1>3, <1>6, <2>2 DEF WalkOK, ListOK, WalkType
    <3> QED  BY <1>2, <3>1 DEF PlanOK, Addressable
  <2>4. ListOK(matches', unread', problem', v)
    <3>1. PICK l, m, p : l = matches /\ m = unread /\ p = problem
      OBVIOUS
    <3>2. ListOK(l, m, p, v)
      <4>1. v = Asks(w, "page", <<w.plan[w.at].page>>)
        BY <1>2, <2>3
      <4> QED  BY <1>2, <1>3, <1>5, <1>6, <2>2, <2>3, <3>1, <4>1, AloneKeepsList
    <3> QED  BY <1>3, <3>1, <3>2
  <2>5. WalksOK' /\ walk'[scan] = v
    BY <1>1, <1>3, <1>4, <1>5, <1>6, <1>7, <1>10, WalksGo
  <2>6. PresentOK'
    BY <1>3, <1>5, <2>1, <2>4, <2>5, PresentStays
  <2>7. OrderOK' /\ MarkOK' /\ Counted'
    BY <1>3, <1>5, <1>8 DEF OrderOK, MarkOK, Counted
  <2> QED  BY <2>5, <2>6, <2>7 DEF SearchInv
<1> QED  BY <1>9, <1>10

\* Whatever else, a superseded walk keeps its place.
LEMMA AllSuperseded ==
    ASSUME WalksOK
    PROVE  /\ Cancelled = [i \in 1..MaxScans |-> Cancelled[i]]
           /\ \A i \in 1..MaxScans : WalkOK(Cancelled[i]) /\ (Cancelled[i].pc = "none" <=> i > scans)
<1>1. PICK c : c = Cancelled
  OBVIOUS
<1>2. DOMAIN walk = 1..MaxScans
      /\ \A i \in 1..MaxScans : WalkOK(walk[i]) /\ (walk[i].pc = "none" <=> i > scans)
  BY DEF WalksOK
<1>3. c = [i \in 1..MaxScans |-> c[i]] /\ \A i \in 1..MaxScans : c[i] = Superseded(walk[i])
  BY <1>1, <1>2 DEF Cancelled
<1>4. \A i \in 1..MaxScans : WalkOK(c[i]) /\ (c[i].pc = "none" <=> i > scans)
  <2> SUFFICES ASSUME NEW i \in 1..MaxScans
               PROVE  WalkOK(c[i]) /\ (c[i].pc = "none" <=> i > scans)
    OBVIOUS
  <2>1. PICK u : u = walk[i]
    OBVIOUS
  <2>2. WalkOK(Superseded(u)) /\ Superseded(u).pc = u.pc
    BY <1>2, <2>1, SupersededIsOK
  <2> QED  BY <1>2, <1>3, <2>1, <2>2
<1> QED  BY <1>1, <1>3, <1>4

LEMMA SearchStep ==
    ASSUME Bounded, SearchInv, NEW plan, NEW scoped \in BOOLEAN, PlanOK(plan, scoped),
           Search(plan, scoped)
    PROVE  SearchInv'
<1>1. PICK g, v, c : /\ g = scans + 1 /\ c = Cancelled
                     /\ v = Onward([NoWalk EXCEPT !.plan = plan, !.scoped = scoped])
  OBVIOUS
<1>2. /\ scans < MaxScans /\ scans' = g /\ scan' = g /\ walk' = [c EXCEPT ![g] = v]
      /\ matches' = <<>> /\ unread' = 0 /\ problem' = FALSE /\ running' = TRUE
      /\ UNCHANGED <<order, mark>>
  BY <1>1 DEF Search, Emptied
<1>3. OrderOK /\ WalksOK /\ MarkOK
  BY DEF SearchInv
<1>4. ListOK(<<>>, 0, FALSE, v) /\ WalkOK(v) /\ v.pc # "none"
  BY <1>1, <1>3, SearchBegins
<1>5. scans \in Nat /\ MaxScans \in Nat /\ g \in Nat /\ g >= 1 /\ g <= MaxScans
  <2>1. scans \in Nat /\ MaxScans \in Nat
    BY <1>3 DEF WalksOK, Bounded
  <2> QED  BY <1>1, <1>2, <2>1
<1>6. /\ c = [i \in 1..MaxScans |-> c[i]]
      /\ \A i \in 1..MaxScans : WalkOK(c[i]) /\ (c[i].pc = "none" <=> i > scans)
  BY <1>1, <1>3, AllSuperseded
<1>7. /\ walk'[g] = v /\ \A i \in 1..MaxScans : i # g => walk'[i] = c[i]
      /\ DOMAIN walk' = 1..MaxScans /\ walk' = [i \in 1..MaxScans |-> walk'[i]]
  <2>1. g \in 1..MaxScans
    BY <1>5
  <2>2. c = [i \in 1..MaxScans |-> c[i]] /\ walk' = [c EXCEPT ![g] = v]
    BY <1>2, <1>6
  <2> QED  BY <2>1, <2>2
<1>8. WalksOK'
  <2>1. ASSUME NEW i \in 1..MaxScans
        PROVE  WalkOK(walk'[i]) /\ (walk'[i].pc = "none" <=> i > g)
    <3>1. i # g => (i > scans <=> i > g)
      BY <1>1, <1>5
    <3>2. ~(g > g)
      BY <1>5
    <3> QED  BY <1>4, <1>6, <1>7, <3>1, <3>2
  <2>2. scans' \in 0..MaxScans /\ scan' \in 0..scans'
    BY <1>2, <1>5
  <2>3. \A i \in 1..MaxScans : WalkOK(walk'[i]) /\ (walk'[i].pc = "none" <=> i > scans')
    BY <1>2, <2>1
  <2> QED  BY <1>7, <2>2, <2>3 DEF WalksOK, WalkOK, Asking
<1>9. PresentOK'
  <2>1. ListOK(<<>>, 0, FALSE, v)'
    <3>1. PICK l, m, p : l = <<>> /\ m = 0 /\ p = FALSE
      OBVIOUS
    <3>2. ListOK(l, m, p, v)' <=> ListOK(l, m, p, v)
      BY <1>2, SameScreen
    <3> QED  BY <1>4, <3>1, <3>2
  <2>2. ListOK(matches, unread, problem, walk[scan])'
    BY <1>2, <1>7, <2>1
  <2> QED  BY <1>2, <1>5, <2>2 DEF PresentOK
<1>10. OrderOK' /\ MarkOK' /\ Counted'
  BY <1>2, <1>3 DEF OrderOK, MarkOK, Counted
<1> QED  BY <1>8, <1>9, <1>10 DEF SearchInv

LEMMA ClearedStep ==
    ASSUME Bounded, SearchInv, Cleared, scans' = scans
    PROVE  WalksOK' /\ PresentOK' /\ Counted'
<1>1. /\ scan' = 0 /\ walk' = Cancelled /\ running' = FALSE
      /\ matches' = <<>> /\ unread' = 0 /\ problem' = FALSE
  BY DEF Cleared, Emptied
<1>2. WalksOK
  BY DEF SearchInv
<1>3. /\ walk' = [i \in 1..MaxScans |-> walk'[i]]
      /\ \A i \in 1..MaxScans : WalkOK(walk'[i]) /\ (walk'[i].pc = "none" <=> i > scans)
  BY <1>1, <1>2, AllSuperseded
<1>4. DOMAIN walk' = 1..MaxScans
  BY <1>3
<1>5. scans' \in 0..MaxScans /\ scan' \in 0..scans'
  BY <1>1, <1>2 DEF WalksOK, Bounded
<1>6. WalksOK'
  BY <1>3, <1>4, <1>5 DEF WalksOK, WalkOK, Asking
<1> QED  BY <1>1, <1>6 DEF PresentOK, Counted

-----------------------------------------------------------------------------
\* The order.

LEMMA Removed ==
    ASSUME NEW S, NEW s \in Seq(S), NEW i \in 1..Len(s)
    PROVE  /\ RemoveAt(s, i) \in Seq(S) /\ Len(RemoveAt(s, i)) = Len(s) - 1
           /\ \A k \in 1..Len(s) - 1 : RemoveAt(s, i)[k] = IF k < i THEN s[k] ELSE s[k + 1]
<1>1. PICK n, x, y : n = Len(s) /\ x = SubSeq(s, 1, i - 1) /\ y = SubSeq(s, i + 1, Len(s))
  OBVIOUS
<1>2. n \in Nat /\ i \in Nat /\ i >= 1 /\ i <= n
  BY <1>1
<1>3. x \in Seq(S) /\ Len(x) = i - 1 /\ \A k \in 1..i - 1 : x[k] = s[k]
  BY <1>1
<1>4. y \in Seq(S) /\ Len(y) = n - i /\ \A k \in 1..n - i : y[k] = s[i + k]
  BY <1>1
<1>5. PICK r : r = x \o y
  OBVIOUS
<1>6. /\ r \in Seq(S) /\ Len(r) = n - 1
      /\ \A k \in 1..n - 1 : r[k] = IF k < i THEN x[k] ELSE y[k - (i - 1)]
  <2>0. PICK a, b : a = i - 1 /\ b = n - i
    OBVIOUS
  <2>a. r = x \o y /\ x \in Seq(S) /\ Len(x) = a /\ y \in Seq(S) /\ Len(y) = b
    BY <1>3, <1>4, <1>5, <2>0
  <2>b. r \in Seq(S) /\ Len(r) = a + b
    BY <2>a, ConcatProperties
  <2>c. \A k \in 1..a + b : r[k] = IF k <= a THEN x[k] ELSE y[k - a]
    BY <2>a, ConcatProperties
  <2>1. r \in Seq(S) /\ Len(r) = (i - 1) + (n - i)
    BY <2>0, <2>b
  <2>2. \A k \in 1..(i - 1) + (n - i) : r[k] = IF k <= i - 1 THEN x[k] ELSE y[k - (i - 1)]
    BY <2>0, <2>c
  <2>3. (i - 1) + (n - i) = n - 1 /\ \A k \in 1..n - 1 : k <= i - 1 <=> k < i
    BY <1>2
  <2> QED  BY <2>1, <2>2, <2>3
<1>7. \A k \in 1..n - 1 : r[k] = IF k < i THEN s[k] ELSE s[k + 1]
  <2> SUFFICES ASSUME NEW k \in 1..n - 1  PROVE r[k] = IF k < i THEN s[k] ELSE s[k + 1]
    OBVIOUS
  <2>1. CASE k < i
    <3>1. k \in 1..i - 1
      BY <1>2, <2>1
    <3> QED  BY <1>3, <1>6, <2>1, <3>1
  <2>2. CASE ~(k < i)
    <3>1. PICK j : j = k - (i - 1)
      OBVIOUS
    <3>2. j \in 1..n - i /\ i + j = k + 1
      BY <1>2, <2>2, <3>1
    <3> QED  BY <1>4, <1>6, <2>2, <3>1, <3>2
  <2> QED  BY <2>1, <2>2
<1> QED  BY <1>1, <1>5, <1>6, <1>7 DEF RemoveAt

IsInserted(S, s, i, e, r) ==
    /\ r \in Seq(S) /\ Len(r) = Len(s) + 1
    /\ \A k \in 1..Len(s) + 1 : r[k] = IF k < i THEN s[k] ELSE IF k = i THEN e ELSE s[k - 1]

LEMMA Inserted ==
    ASSUME NEW S, NEW s \in Seq(S), NEW i \in 1..Len(s) + 1, NEW e \in S
    PROVE  IsInserted(S, s, i, e, InsertAt(s, i, e))
<1>1. PICK n, x, y : n = Len(s) /\ x = SubSeq(s, 1, i - 1) /\ y = SubSeq(s, i, Len(s))
  OBVIOUS
<1>2. n \in Nat /\ i \in Nat /\ i >= 1 /\ i <= n + 1
  BY <1>1
<1>3. x \in Seq(S) /\ Len(x) = i - 1 /\ \A k \in 1..i - 1 : x[k] = s[k]
  BY <1>1
<1>4. y \in Seq(S) /\ Len(y) = n - i + 1 /\ \A k \in 1..n - i + 1 : y[k] = s[i + k - 1]
  BY <1>1
<1>5. PICK z, r : z = x \o <<e>> /\ r = z \o y
  OBVIOUS
<1>6. z \in Seq(S) /\ Len(z) = i /\ \A k \in 1..i : z[k] = IF k < i THEN x[k] ELSE e
  <2>1. <<e>> \in Seq(S) /\ Len(<<e>>) = 1 /\ <<e>>[1] = e
    OBVIOUS
  <2>2. z \in Seq(S) /\ Len(z) = (i - 1) + 1
    BY <1>3, <1>5, <2>1
  <2>3. \A k \in 1..(i - 1) + 1 : z[k] = IF k <= i - 1 THEN x[k] ELSE <<e>>[k - (i - 1)]
    BY <1>3, <1>5, <2>1, ConcatProperties
  <2>4. (i - 1) + 1 = i /\ \A k \in 1..i : (k <= i - 1 <=> k < i) /\ (~(k < i) => k - (i - 1) = 1)
    BY <1>2
  <2> QED  BY <2>1, <2>2, <2>3, <2>4
<1>7. /\ r \in Seq(S) /\ Len(r) = n + 1
      /\ \A k \in 1..n + 1 : r[k] = IF k <= i THEN z[k] ELSE y[k - i]
  <2>0. PICK l : l = n - i + 1
    OBVIOUS
  <2>1. r = z \o y /\ z \in Seq(S) /\ Len(z) = i /\ y \in Seq(S) /\ Len(y) = l
    BY <1>4, <1>5, <1>6, <2>0
  <2>2. r \in Seq(S) /\ Len(r) = i + l
    BY <2>1, ConcatProperties
  <2>3. \A k \in 1..i + l : r[k] = IF k <= i THEN z[k] ELSE y[k - i]
    BY <2>1, ConcatProperties
  <2>4. i + l = n + 1
    BY <1>2, <2>0
  <2> QED  BY <2>2, <2>3, <2>4
<1>8. \A k \in 1..n + 1 : r[k] = IF k < i THEN s[k] ELSE IF k = i THEN e ELSE s[k - 1]
  <2> SUFFICES ASSUME NEW k \in 1..n + 1
               PROVE  r[k] = IF k < i THEN s[k] ELSE IF k = i THEN e ELSE s[k - 1]
    OBVIOUS
  <2>1. CASE k < i
    <3>1. k \in 1..i - 1 /\ k \in 1..i /\ k <= i
      BY <1>2, <2>1
    <3> QED  BY <1>3, <1>6, <1>7, <2>1, <3>1
  <2>2. CASE k = i
    <3>1. k \in 1..i /\ k <= i /\ ~(k < i)
      BY <1>2, <2>2
    <3> QED  BY <1>6, <1>7, <2>2, <3>1
  <2>3. CASE k > i
    <3>1. PICK j : j = k - i
      OBVIOUS
    <3>2. j \in 1..n - i + 1 /\ i + j - 1 = k - 1 /\ ~(k <= i) /\ ~(k < i) /\ k # i
      BY <1>2, <2>3, <3>1
    <3> QED  BY <1>4, <1>7, <3>1, <3>2
  <2> QED  BY <1>2, <2>1, <2>2, <2>3
<1>9. r = InsertAt(s, i, e)
  BY <1>1, <1>5 DEF InsertAt
<1>10. IsInserted(S, s, i, e, r)
  BY <1>1, <1>7, <1>8 DEF IsInserted
<1> QED  BY <1>9, <1>10

LEMMA Rotated ==
    ASSUME NEW S, NEW s \in Seq(S), s # <<>>
    PROVE  LET r == Tail(s) \o <<Head(s)>> IN
           /\ r \in Seq(S) /\ Len(r) = Len(s)
           /\ \A k \in 1..Len(s) : r[k] = IF k < Len(s) THEN s[k + 1] ELSE s[1]
<1>1. PICK n, x, e, r : n = Len(s) /\ x = Tail(s) /\ e = Head(s) /\ r = x \o <<e>>
  OBVIOUS
<1>2. n \in Nat /\ n >= 1 /\ e \in S /\ e = s[1]
  BY <1>1
<1>3. x \in Seq(S) /\ Len(x) = n - 1 /\ \A k \in 1..n - 1 : x[k] = s[k + 1]
  BY <1>1
<1>4. <<e>> \in Seq(S) /\ Len(<<e>>) = 1 /\ <<e>>[1] = e
  BY <1>2
<1>5. r \in Seq(S) /\ Len(r) = (n - 1) + 1
  BY <1>1, <1>3, <1>4
<1>6. \A k \in 1..(n - 1) + 1 : r[k] = IF k <= n - 1 THEN x[k] ELSE <<e>>[k - (n - 1)]
  BY <1>1, <1>3, <1>4, ConcatProperties
<1>7. (n - 1) + 1 = n /\ \A k \in 1..n : (k <= n - 1 <=> k < n) /\ (~(k < n) => k - (n - 1) = 1)
                                         /\ (k < n => k \in 1..n - 1)
  BY <1>2
<1> QED  BY <1>1, <1>2, <1>3, <1>4, <1>5, <1>6, <1>7

LEMMA OrderStays ==
    ASSUME Bounded, OrderOK, Reorder
    PROVE  OrderOK'
<1>1. PICK s, n, r : s = order /\ n = Len(order) /\ r = order'
  OBVIOUS
<1>2. /\ s \in Seq(Address) /\ n \in Nat /\ n = Len(s) /\ n <= Pages /\ n > 1 /\ s # <<>> /\ Pages \in Nat
      /\ \A j, k \in 1..n : s[j] = s[k] => j = k
  <2>1. DOMAIN order = 1..n
    BY <1>1 DEF OrderOK
  <2> QED  BY <1>1, <2>1 DEF OrderOK, IsInjective, Reorder, Bounded
<1>3. (\E i \in 1..n : r = RemoveAt(s, i)) \/ r = Tail(s) \o <<Head(s)>>
  BY <1>1, <1>2 DEF Reorder
<1>4. CASE \E i \in 1..n : r = RemoveAt(s, i)
  <2>1. PICK i \in 1..n : r = RemoveAt(s, i)
    BY <1>4
  <2>2. /\ r \in Seq(Address) /\ Len(r) = n - 1
        /\ \A k \in 1..n - 1 : r[k] = IF k < i THEN s[k] ELSE s[k + 1]
    BY <1>2, <2>1, Removed
  <2>3. DOMAIN r = 1..n - 1 /\ r # <<>> /\ Len(r) <= Pages
    BY <1>2, <2>2
  <2>4. \A j, k \in 1..n - 1 : r[j] = r[k] => j = k
    <3> SUFFICES ASSUME NEW j \in 1..n - 1, NEW k \in 1..n - 1, r[j] = r[k]  PROVE j = k
      OBVIOUS
    <3>1. PICK a, b : a = (IF j < i THEN j ELSE j + 1) /\ b = (IF k < i THEN k ELSE k + 1)
      OBVIOUS
    <3>2. a \in 1..n /\ b \in 1..n
      BY <1>2, <3>1
    <3>3. r[j] = s[a] /\ r[k] = s[b]
      BY <2>2, <3>1
    <3>4. a = b
      BY <1>2, <3>2, <3>3
    <3> QED  BY <1>2, <3>1, <3>4
  <2> QED  BY <1>1, <2>2, <2>3, <2>4 DEF OrderOK, IsInjective
<1>5. CASE r = Tail(s) \o <<Head(s)>>
  <2>1. /\ r \in Seq(Address) /\ Len(r) = n
        /\ \A k \in 1..n : r[k] = IF k < n THEN s[k + 1] ELSE s[1]
    BY <1>2, <1>5, Rotated
  <2>2. DOMAIN r = 1..n /\ r # <<>> /\ Len(r) <= Pages
    BY <1>2, <2>1
  <2>3. \A j, k \in 1..n : r[j] = r[k] => j = k
    <3> SUFFICES ASSUME NEW j \in 1..n, NEW k \in 1..n, r[j] = r[k]  PROVE j = k
      OBVIOUS
    <3>1. PICK a, b : a = (IF j < n THEN j + 1 ELSE 1) /\ b = (IF k < n THEN k + 1 ELSE 1)
      OBVIOUS
    <3>2. a \in 1..n /\ b \in 1..n
      BY <1>2, <3>1
    <3>3. r[j] = s[a] /\ r[k] = s[b]
      BY <2>1, <3>1
    <3>4. a = b
      BY <1>2, <3>2, <3>3
    <3> QED  BY <1>2, <3>1, <3>4
  <2> QED  BY <1>1, <2>1, <2>2, <2>3 DEF OrderOK, IsInjective
<1> QED  BY <1>3, <1>4, <1>5

LEMMA FileIs ==
    ASSUME Bounded, NEW k \in Nat, k <= Pages
    PROVE  LET file == [n \in 1..k |-> [doc |-> "opened", page |-> n]] IN
           /\ file \in Seq(Address) /\ Len(file) = k
           /\ \A n \in 1..k : file[n] = [doc |-> "opened", page |-> n]
<1>1. PICK file : file = [n \in 1..k |-> [doc |-> "opened", page |-> n]]
  OBVIOUS
<1>2. \A n \in 1..k : [doc |-> "opened", page |-> n] \in Address
  <2>1. \A n \in 1..k : n \in 1..Pages
    BY DEF Bounded
  <2> QED  BY <2>1 DEF Address
<1>3. file \in [1..k -> Address] /\ \A n \in 1..k : file[n] = [doc |-> "opened", page |-> n]
  BY <1>1, <1>2
<1>4. file \in Seq(Address) /\ Len(file) = k
  BY <1>3
<1> QED  BY <1>1, <1>3, <1>4

LEMMA SearchBeginsRight ==
    ASSUME Bounded, Init
    PROVE  SearchInv
<1> DEFINE file(k) == [n \in 1..k |-> [doc |-> "opened", page |-> n]]
           other == [doc |-> "inserted", page |-> 2]
<1>1. Pages \in Nat /\ Pages >= 2 /\ other \in Address
  BY DEF Bounded, Address
<1>2. order = file(Pages) \/ (\E i \in {2, Pages} : order = InsertAt(file(Pages - 1), i, other))
  BY DEF Init
<1>3. OrderOK
  <2>1. CASE order = file(Pages)
    <3>1. PICK f : f = file(Pages)
      OBVIOUS
    <3>2. /\ f \in Seq(Address) /\ Len(f) = Pages
          /\ \A n \in 1..Pages : f[n] = [doc |-> "opened", page |-> n]
      BY <1>1, <3>1, FileIs
    <3>3. DOMAIN f = 1..Pages /\ f # <<>>
      BY <1>1, <3>2
    <3>4. \A j, k \in 1..Pages : f[j] = f[k] => j = k
      BY <3>2
    <3> QED  BY <1>1, <2>1, <3>1, <3>2, <3>3, <3>4 DEF OrderOK, IsInjective
  <2>2. ASSUME NEW i \in {2, Pages}, order = InsertAt(file(Pages - 1), i, other)
        PROVE  OrderOK
    <3>1. PICK f, m, r : f = file(Pages - 1) /\ m = Pages - 1 /\ r = order
      OBVIOUS
    <3>2. m \in Nat /\ m <= Pages /\ m + 1 = Pages /\ i \in 1..m + 1
      BY <1>1, <3>1
    <3>3. /\ f \in Seq(Address) /\ Len(f) = m
          /\ \A n \in 1..m : f[n] = [doc |-> "opened", page |-> n]
      BY <3>1, <3>2, FileIs
    <3>4. /\ r \in Seq(Address) /\ Len(r) = m + 1
          /\ \A k \in 1..m + 1 : r[k] = IF k < i THEN f[k] ELSE IF k = i THEN other ELSE f[k - 1]
      <4>1. PICK e : e = other
        OBVIOUS
      <4>2. e \in Address /\ r = InsertAt(f, i, e) /\ i \in 1..Len(f) + 1
        BY <1>1, <2>2, <3>1, <3>2, <3>3, <4>1
      <4>3. f \in Seq(Address)
        BY <3>3
      <4>4. IsInserted(Address, f, i, e, r)
        BY <4>2, <4>3, Inserted
      <4>5. Len(f) = m /\ e = other
        BY <3>3, <4>1
      <4> HIDE DEF other, file
      <4> QED  BY <4>4, <4>5 DEF IsInserted
    <3>5. DOMAIN r = 1..m + 1 /\ r # <<>> /\ Len(r) <= Pages
      BY <3>2, <3>4
    <3>6. \A k \in 1..m + 1 :
             /\ k < i => r[k] = [doc |-> "opened", page |-> k]
             /\ k = i => r[k] = other
             /\ k > i => r[k] = [doc |-> "opened", page |-> k - 1]
      <4> SUFFICES ASSUME NEW k \in 1..m + 1
                   PROVE  /\ k < i => r[k] = [doc |-> "opened", page |-> k]
                          /\ k = i => r[k] = other
                          /\ k > i => r[k] = [doc |-> "opened", page |-> k - 1]
        OBVIOUS
      <4>1. (k < i => k \in 1..m) /\ (k > i => k - 1 \in 1..m /\ ~(k < i) /\ k # i)
            /\ (k = i => ~(k < i))
        BY <3>2
      <4> QED  BY <3>3, <3>4, <4>1
    <3>7. \A j, k \in 1..m + 1 : r[j] = r[k] => j = k
      <4> SUFFICES ASSUME NEW j \in 1..m + 1, NEW k \in 1..m + 1, r[j] = r[k]  PROVE j = k
        OBVIOUS
      <4>1. other.doc # "opened"
        OBVIOUS
      <4>2. /\ j # i => r[j].doc = "opened" /\ r[j].page = IF j < i THEN j ELSE j - 1
            /\ k # i => r[k].doc = "opened" /\ r[k].page = IF k < i THEN k ELSE k - 1
            /\ j = i => r[j].doc # "opened"
            /\ k = i => r[k].doc # "opened"
        <5>1. ASSUME NEW a \in 1..m + 1
              PROVE  /\ a # i => r[a].doc = "opened" /\ r[a].page = IF a < i THEN a ELSE a - 1
                     /\ a = i => r[a].doc # "opened"
          <6>0. PICK c : c = r[a]
            OBVIOUS
          <6>1. CASE a < i
            <7>1. c = [doc |-> "opened", page |-> a]
              BY <3>2, <3>6, <6>0, <6>1
            <7>2. c.doc = "opened" /\ c.page = a
              BY <7>1
            <7>3. a # i
              BY <3>2, <6>1
            <7> QED  BY <6>0, <6>1, <7>2, <7>3
          <6>2. CASE a = i
            <7>1. r[a] = other
              BY <3>6, <6>2
            <7> QED  BY <6>2, <7>1, <4>1
          <6>3. CASE a > i
            <7>1. c = [doc |-> "opened", page |-> a - 1]
              BY <3>2, <3>6, <6>0, <6>3
            <7>2. c.doc = "opened" /\ c.page = a - 1
              BY <7>1
            <7>3. a # i /\ ~(a < i)
              BY <3>2, <6>3
            <7> QED  BY <6>0, <7>2, <7>3
          <6> QED  BY <3>2, <6>1, <6>2, <6>3
        <5> QED  BY <5>1
      <4>3. j = i <=> k = i
        BY <4>2
      <4>4. CASE j # i
        <5>1. (IF j < i THEN j ELSE j - 1) = (IF k < i THEN k ELSE k - 1)
          BY <4>2, <4>3, <4>4
        <5> QED  BY <3>2, <4>3, <4>4, <5>1
      <4> QED  BY <4>3, <4>4
    <3> QED  BY <3>1, <3>4, <3>5, <3>7 DEF OrderOK, IsInjective
  <2> QED  BY <1>2, <2>1, <2>2
<1>4. /\ walk = [g \in 1..MaxScans |-> NoWalk] /\ scan = 0 /\ matches = <<>> /\ unread = 0
      /\ running = FALSE /\ problem = FALSE /\ mark = NoMark /\ scans = 0
  BY DEF Init
<1>5. WalkOK(NoWalk) /\ NoWalk.pc = "none"
  <2>1. NoWalk = [pc |-> "none", plan |-> <<>>, scoped |-> FALSE, at |-> 1,
                  carried |-> NoCarry, asked |-> <<>>, sources |-> <<>>, carry |-> NoPage]
    BY DEF NoWalk
  <2>2. <<>> \in Seq(Slots) /\ <<>> \in Seq(Address) /\ NoPage \in PageOrNone
        /\ NoCarry \in [page : Nat, of : PageOrNone] /\ <<>> \in Seq(PlanEntry)
    BY DEF PageOrNone, NoCarry
  <2> HIDE DEF Slots, NoCarry, NoPage
  <2>3. NoWalk \in WalkType
    BY <2>1, <2>2 DEF WalkType
  <2>4. NoWalk.pc = "none" /\ NoWalk.plan = <<>> /\ NoWalk.at = 1 /\ NoWalk.asked = <<>> /\ NoWalk.sources = <<>>
    BY <2>1
  <2>5. 1 \in 1..Len(NoWalk.plan) + 1
    BY <2>4
  <2> QED  BY <2>3, <2>4, <2>5 DEF WalkOK, Asking
<1>6. WalksOK
  <2>1. \A g \in 1..MaxScans : g > 0
    OBVIOUS
  <2> HIDE DEF NoWalk
  <2> QED  BY <1>4, <1>5, <2>1 DEF WalksOK, Bounded
<1>7. PresentOK /\ Counted
  BY <1>4 DEF PresentOK, Counted
<1>8. MarkOK
  BY <1>4 DEF MarkOK, MarkIs, NoMark
<1> QED  BY <1>3, <1>6, <1>7, <1>8 DEF SearchInv

-----------------------------------------------------------------------------
\* The steps.

LEMMA OnlyMarking ==
    ASSUME SearchInv, UNCHANGED <<order, walk, scan, list, scans>>, MarkIs(mark')
    PROVE  SearchInv'
<1>1. OrderOK' /\ WalksOK' /\ Counted'
  BY DEF SearchInv, OrderOK, WalksOK, Counted, list
<1>2. PresentOK'
  <2>1. PICK w : w = walk[scan]
    OBVIOUS
  <2>2. PresentOK
    BY DEF SearchInv
  <2>3. scan # 0 => ListOK(matches, unread, problem, w)
    BY <2>1, <2>2 DEF PresentOK
  <2>4. matches' = matches /\ unread' = unread /\ problem' = problem
    BY DEF list
  <2>5. scan # 0 => walk'[scan] = w /\ ListOK(matches', unread', problem', w)
    BY <2>1, <2>3, <2>4
  <2> QED  BY <2>2, <2>4, <2>5, PresentStays
<1>3. MarkOK'
  BY DEF MarkOK
<1> QED  BY <1>1, <1>2, <1>3 DEF SearchInv

LEMMA SelectionStep ==
    ASSUME Bounded, SearchInv, SearchSelection
    PROVE  SearchInv'
<1>1. OrderOK
  BY DEF SearchInv
<1>2. PICK first \in DOMAIN order, last \in DOMAIN order, cut \in {<<0, 2>>, <<5, Infinity>>} :
         first <= last /\ Search(Selection(first, last, cut[1], cut[2]), TRUE)
  BY DEF SearchSelection
<1>3. cut[1] \in Nat /\ cut[2] \in Nat
  BY <1>2 DEF Infinity
<1>4. PICK from \in Nat, to \in Nat : from = cut[1] /\ to = cut[2]
  BY <1>3
<1>5. PICK plan : plan = Selection(first, last, from, to)
  OBVIOUS
<1>6. PlanOK(plan, TRUE)
  BY <1>1, <1>2, <1>5, SelectedPlan
<1>7. Search(plan, TRUE)
  BY <1>2, <1>4, <1>5
<1> QED  BY <1>6, <1>7, SearchStep

LEMMA ReaderStep ==
    ASSUME Bounded, SearchInv, Reader
    PROVE  SearchInv'
<1>1. CASE SearchAll
  <2>1. PICK from \in DOMAIN order : Search(Whole(from), FALSE)
    BY <1>1 DEF SearchAll
  <2>2. PICK plan : plan = Whole(from)
    OBVIOUS
  <2>3. PlanOK(plan, FALSE)
    BY <2>1, <2>2, WholePlan DEF SearchInv
  <2> QED  BY <2>1, <2>2, <2>3, SearchStep
<1>2. CASE SearchSelection
  BY <1>2, SelectionStep
<1>3. CASE Clear
  <2>1. Cleared /\ scans' = scans /\ order' = order /\ mark' = mark
    BY <1>3 DEF Clear
  <2>2. WalksOK' /\ PresentOK' /\ Counted'
    BY <2>1, ClearedStep
  <2>3. OrderOK' /\ MarkOK'
    BY <2>1 DEF SearchInv, OrderOK, MarkOK
  <2> QED  BY <2>2, <2>3 DEF SearchInv
<1>4. CASE Reorder
  <2>1. Cleared /\ scans' = scans /\ mark' = mark
    BY <1>4 DEF Reorder
  <2>2. WalksOK' /\ PresentOK' /\ Counted'
    BY <2>1, ClearedStep
  <2>3. OrderOK'
    BY <1>4, OrderStays DEF SearchInv
  <2>4. MarkOK'
    BY <2>1 DEF SearchInv, MarkOK
  <2> QED  BY <2>2, <2>3, <2>4 DEF SearchInv
<1>5. CASE Mark
  <2>1. MarkIs(mark')
    BY <1>5, MarkBegins DEF SearchInv
  <2>2. UNCHANGED <<order, walk, scan, list, scans>>
    BY <1>5 DEF Mark
  <2> QED  BY <2>1, <2>2, OnlyMarking
<1> QED  BY <1>1, <1>2, <1>3, <1>4, <1>5 DEF Reader

\* Every step keeps the invariant.
LEMMA SearchStays ==
    ASSUME Bounded, SearchInv, [Next]_vars
    PROVE  SearchInv'
<1>1. MarkIs(NoMark)
  BY DEF MarkIs, NoMark
<1>2. ASSUME NEW g \in 1..MaxScans,
             Reply(g) \/ ReplyWithProblem(g) \/ ReplyTooLate(g) \/ PageFails(g) \/ RunFails(g)
      PROVE  SearchInv'
  BY <1>2, ReplyStep, ProblemStep, LateStep, FailureStep, RunStep
<1>3. CASE WalkStep
  BY <1>2, <1>3 DEF WalkStep
<1>4. CASE Reader
  BY <1>4, ReaderStep
<1>5. CASE MarkRefuses
  <2>1. mark' = NoMark /\ UNCHANGED <<order, walk, scan, list, scans>>
    BY <1>5 DEF MarkRefuses
  <2>2. MarkIs(mark')
    BY <1>1, <2>1
  <2> QED  BY <2>1, <2>2, OnlyMarking
<1>6. CASE MarkLoads
  <2>1. MarkIs(mark')
    BY <1>6, MarkGoesOn DEF SearchInv, MarkOK
  <2>2. UNCHANGED <<order, walk, scan, list, scans>>
    BY <1>6 DEF MarkLoads
  <2> QED  BY <2>1, <2>2, OnlyMarking
<1>7. CASE MarkEnds
  <2>1. mark' = NoMark /\ UNCHANGED <<order, walk, scan, list, scans>>
    BY <1>7 DEF MarkEnds
  <2>2. MarkIs(mark')
    BY <1>1, <2>1
  <2> QED  BY <2>1, <2>2, OnlyMarking
<1>8. CASE UNCHANGED vars
  <2>1. UNCHANGED <<order, walk, scan, list, scans, mark>>
    BY <1>8 DEF vars
  <2>2. MarkIs(mark')
    BY <2>1 DEF SearchInv, MarkOK
  <2> QED  BY <2>1, <2>2, OnlyMarking
<1> QED  BY <1>3, <1>4, <1>5, <1>6, <1>7, <1>8 DEF Next

LEMMA SearchIsSound == Bounded => (Spec => []SearchInv)
<1> SUFFICES ASSUME Bounded
             PROVE  Spec => []SearchInv
  OBVIOUS
<1>1. Init => SearchInv
  BY SearchBeginsRight
<1>2. SearchInv /\ [Next]_vars => SearchInv'
  BY SearchStays
<1> QED  BY <1>1, <1>2, PTL DEF Spec

-----------------------------------------------------------------------------
\* What is listed, and what is marked.

Shifted(U, d) == {2 * k + d : k \in U}

LEMMA ShiftedAreFew ==
    ASSUME NEW U \in SUBSET Nat, IsFiniteSet(U), NEW d \in Int
    PROVE  IsFiniteSet(Shifted(U, d)) /\ Cardinality(Shifted(U, d)) <= Cardinality(U)
<1>1. PICK T : T = Shifted(U, d)
  OBVIOUS
<1>2. PICK f : f = [k \in U |-> 2 * k + d]
  OBVIOUS
<1>3. f \in Surjection(U, T)
  BY <1>1, <1>2 DEF Surjection, Shifted
<1> QED  BY <1>1, <1>3, FS_Surjection

LEMMA HiddenAreFew ==
    ASSUME NEW U \in SUBSET Nat, IsFiniteSet(U)
    PROVE  IsFiniteSet(Hidden(U)) /\ Cardinality(Hidden(U)) <= 3 * Cardinality(U)
<1>1. PICK A, B, C : A = Shifted(U, -1) /\ B = Shifted(U, 0) /\ C = Shifted(U, 1)
  OBVIOUS
<1>2. /\ IsFiniteSet(A) /\ Cardinality(A) <= Cardinality(U)
      /\ IsFiniteSet(B) /\ Cardinality(B) <= Cardinality(U)
      /\ IsFiniteSet(C) /\ Cardinality(C) <= Cardinality(U)
  BY <1>1, ShiftedAreFew
<1>3. Hidden(U) = (A \cup B) \cup C
  <2>1. \A x : x \in Hidden(U) <=> \E k \in U : x = 2 * k - 1 \/ x = 2 * k \/ x = 2 * k + 1
    <3>1. Hidden(U) = UNION {{2 * k - 1, 2 * k, 2 * k + 1} : k \in U}
      BY DEF Hidden
    <3> DEFINE F(k) == {2 * k - 1, 2 * k, 2 * k + 1}
    <3>2. \A x, k : x \in F(k) <=> x = 2 * k - 1 \/ x = 2 * k \/ x = 2 * k + 1
      OBVIOUS
    <3>3. Hidden(U) = UNION {F(k) : k \in U}
      BY <3>1
    <3> HIDE DEF F
    <3>4. \A x : x \in Hidden(U) <=> \E k \in U : x \in F(k)
      BY <3>3
    <3> QED  BY <3>2, <3>4
  <2>2. /\ \A x : x \in A <=> \E k \in U : x = 2 * k + (-1)
        /\ \A x : x \in B <=> \E k \in U : x = 2 * k + 0
        /\ \A x : x \in C <=> \E k \in U : x = 2 * k + 1
    BY <1>1 DEF Shifted
  <2>3. \A k \in U : 2 * k + (-1) = 2 * k - 1 /\ 2 * k + 0 = 2 * k
    OBVIOUS
  <2>4. \A x : x \in Hidden(U) <=> x \in (A \cup B) \cup C
    BY <2>1, <2>2, <2>3
  <2> QED  BY <2>4
<1>4. /\ IsFiniteSet(A \cup B)
      /\ Cardinality(A \cup B) = Cardinality(A) + Cardinality(B) - Cardinality(A \cap B)
  BY <1>2, FS_Union
<1>5. /\ IsFiniteSet((A \cup B) \cup C)
      /\ Cardinality((A \cup B) \cup C) =
           Cardinality(A \cup B) + Cardinality(C) - Cardinality((A \cup B) \cap C)
  BY <1>2, <1>4, FS_Union
<1>6. IsFiniteSet(A \cap B) /\ IsFiniteSet((A \cup B) \cap C)
  BY <1>2, FS_Intersection
<1>7. PICK a, b, c, u, ab, i, j, all :
         /\ a = Cardinality(A) /\ b = Cardinality(B) /\ c = Cardinality(C) /\ u = Cardinality(U)
         /\ ab = Cardinality(A \cup B) /\ i = Cardinality(A \cap B)
         /\ j = Cardinality((A \cup B) \cap C) /\ all = Cardinality(Hidden(U))
  OBVIOUS
<1>8. /\ a \in Nat /\ b \in Nat /\ c \in Nat /\ u \in Nat /\ ab \in Nat /\ i \in Nat /\ j \in Nat
      /\ all \in Nat
  BY <1>2, <1>3, <1>4, <1>5, <1>6, <1>7, FS_CardinalityType
<1>9. a <= u /\ b <= u /\ c <= u /\ ab = a + b - i /\ all = ab + c - j
  BY <1>2, <1>3, <1>4, <1>5, <1>7
<1>10. all <= 3 * u
  BY <1>8, <1>9
<1> QED  BY <1>3, <1>5, <1>7, <1>10

\* A list is found where it says, among the hits there are.
LEMMA ListedByValue ==
    ASSUME Bounded, OrderOK, NEW plan, NEW scoped, PlanOK(plan, scoped),
           NEW A \in SUBSET Good(plan), NEW l, l = Subsequence(HitsAlong(plan), A)
    PROVE  Valued(AllHits(plan), Range(l)) = l
<1>1. PICK s, G : s = HitsAlong(plan) /\ G = Good(plan)
  OBVIOUS
<1>2. s \in Seq(AHit) /\ G \in SUBSET (1..Len(s)) /\ \A j, k \in G : s[j] = s[k] => j = k
  BY <1>1, HitsAlongAPlan, GoodHits
<1>3. AllHits(plan) = Subsequence(s, G)
  BY <1>1, AllHitsAre
<1>4. A \in SUBSET G /\ A \cap DOMAIN s = A /\ l = Subsequence(s, A)
  <2>1. A \in SUBSET G /\ l = Subsequence(s, A)
    BY <1>1
  <2>2. DOMAIN s = 1..Len(s)
    BY <1>2
  <2>3. A \in SUBSET (1..Len(s))
    BY <1>2, <2>1
  <2>4. A \cap DOMAIN s = A
    BY <2>2, <2>3
  <2> QED  BY <2>1, <2>4
<1>5. Has(l, s, A)
  BY <1>2, <1>4, SubsequenceIs
<1>6. \A k \in G : s[k] \in Range(l) <=> k \in A
  <2> SUFFICES ASSUME NEW k \in G  PROVE s[k] \in Range(l) <=> k \in A
    OBVIOUS
  <2>1. s[k] \in Range(l) <=> \E i \in DOMAIN l : l[i] = s[k]
    BY DEF Range
  <2>2. (\E i \in DOMAIN l : l[i] = s[k]) <=> (\E j \in A : s[j] = s[k])
    BY <1>5 DEF Has
  <2>3. (\E j \in A : s[j] = s[k]) <=> k \in A
    BY <1>2, <1>4
  <2> QED  BY <2>1, <2>2, <2>3
<1>7. PICK R : R = Range(l)
  OBVIOUS
<1>8. \A k \in G : s[k] \in R <=> k \in A
  BY <1>6, <1>7
<1>9. Valued(Subsequence(s, G), R) = Subsequence(s, A)
  BY <1>2, <1>4, <1>8, SubsequenceByValue
<1> QED  BY <1>3, <1>4, <1>7, <1>9

LEMMA NothingUnread ==
    ASSUME Bounded, OrderOK, NEW plan, NEW scoped, PlanOK(plan, scoped),
           NEW l, NEW b, NEW A, NEW U, Found(l, 0, plan, b, A, U)
    PROVE  IsPrefix(l, AllHits(plan))
<1>1. PICK s, G : s = HitsAlong(plan) /\ G = Good(plan)
  OBVIOUS
<1>2. s \in Seq(AHit) /\ Len(s) = 2 * Len(plan) + 1 /\ G \in SUBSET (1..Len(s))
  BY <1>1, HitsAlongAPlan, GoodHits
<1>3. /\ b \in 0..Len(s) /\ A \in SUBSET (G \cap (1..b)) /\ l = Subsequence(s, A)
      /\ IsFiniteSet(U) /\ Cardinality(U) = 0
      /\ \A k \in G : k <= b => k \in A \/ k \in Hidden(U)
  BY <1>1, <1>2 DEF Found
<1>4. Hidden(U) = {}
  <2>1. U = {}
    BY <1>3, FS_EmptySet
  <2> QED  BY <2>1 DEF Hidden
<1>5. A = G \cap (1..b)
  <2>1. \A k \in G : k <= b => k \in A
    BY <1>3, <1>4
  <2>2. A \subseteq G /\ A \subseteq 1..b
    BY <1>3
  <2>3. \A k \in 1..b : k <= b
    BY <1>2, <1>3
  <2> QED  BY <2>1, <2>2, <2>3
<1>6. IsPrefix(Subsequence(s, G \cap (1..b)), Subsequence(s, G))
  BY <1>2, <1>3, SubsequencePrefix
<1> QED  BY <1>1, <1>3, <1>5, <1>6, AllHitsAre

LEMMA FewAreMissing ==
    ASSUME Bounded, OrderOK, NEW plan, NEW scoped, PlanOK(plan, scoped),
           NEW l, NEW m, NEW A, NEW U, FoundAll(l, m, plan, A, U)
    PROVE  Len(AllHits(plan)) <= Len(l) + 3 * m
<1>1. PICK s, G, b : s = HitsAlong(plan) /\ G = Good(plan) /\ b = 2 * Len(plan) + 1
  OBVIOUS
<1>2. s \in Seq(AHit) /\ Len(s) = b /\ G \in SUBSET (1..b) /\ b \in Nat /\ Len(plan) \in Nat
  BY <1>1, HitsAlongAPlan, GoodHits
<1>3. /\ A \in SUBSET G /\ l = Subsequence(s, A)
      /\ U \in SUBSET (1..Len(plan) + 1) /\ IsFiniteSet(U) /\ Cardinality(U) = m
      /\ \A k \in G : k <= b => k \in A \/ k \in Hidden(U)
  BY <1>1 DEF FoundAll, Found
<1>4. G \in SUBSET (A \cup Hidden(U))
  BY <1>2, <1>3
<1>5. IsFiniteSet(Hidden(U)) /\ Cardinality(Hidden(U)) <= 3 * Cardinality(U)
  BY <1>3, HiddenAreFew
<1>6. /\ IsFiniteSet(A) /\ Len(Subsequence(s, A)) = Cardinality(A)
      /\ IsFiniteSet(G) /\ Len(Subsequence(s, G)) = Cardinality(G)
  BY <1>2, <1>3, SubsequenceLength
<1>7. PICK H : H = Hidden(U)
  OBVIOUS
<1>8. /\ IsFiniteSet(A \cup H) /\ IsFiniteSet(A \cap H)
      /\ Cardinality(A \cup H) = Cardinality(A) + Cardinality(H) - Cardinality(A \cap H)
  BY <1>5, <1>6, <1>7, FS_Union, FS_Intersection
<1>9. Cardinality(G) <= Cardinality(A \cup H)
  BY <1>4, <1>7, <1>8, FS_Subset
<1>10. PICK g, a, h, u, i, m0 : /\ g = Cardinality(G) /\ a = Cardinality(A) /\ h = Cardinality(H)
                                /\ u = Cardinality(A \cup H) /\ i = Cardinality(A \cap H) /\ m0 = m
  OBVIOUS
<1>11. g \in Nat /\ a \in Nat /\ h \in Nat /\ u \in Nat /\ i \in Nat /\ m0 \in Nat
  BY <1>3, <1>5, <1>6, <1>7, <1>8, <1>10, FS_CardinalityType
<1>12. g <= u /\ u = a + h - i /\ h <= 3 * m0
  BY <1>3, <1>5, <1>7, <1>8, <1>9, <1>10
<1>13. g <= a + 3 * m0
  BY <1>11, <1>12
<1>14. Len(AllHits(plan)) = g /\ Len(l) = a
  BY <1>1, <1>3, <1>6, <1>10, AllHitsAre
<1> QED  BY <1>10, <1>13, <1>14

LEMMA ListIsRight ==
    ASSUME Bounded, SearchInv
    PROVE  ListIsInReadingOrder
<1>1. OrderOK /\ PresentOK
  BY DEF SearchInv
<1>2. CASE scan = 0
  BY <1>1, <1>2 DEF PresentOK, ListIsInReadingOrder
<1>3. CASE scan # 0
  <2>1. PICK w, plan, l, m, p : /\ w = walk[scan] /\ plan = w.plan /\ l = matches /\ m = unread
                                /\ p = problem
    OBVIOUS
  <2>2. ListOK(l, m, p, w)
    BY <1>1, <1>3, <2>1 DEF PresentOK
  <2>3. PlanOK(plan, w.scoped)
    BY <2>1, <2>2 DEF ListOK
  <2>4. PICK b, A, U : Found(l, m, plan, b, A, U)
    BY <2>1, <2>2 DEF ListOK
  <2>5. A \in SUBSET Good(plan) /\ l = Subsequence(HitsAlong(plan), A)
    BY <2>4 DEF Found
  <2>6. PICK all : all = AllHits(plan)
    OBVIOUS
  <2>7. Valued(all, Range(l)) = l
    BY <1>1, <2>3, <2>5, <2>6, ListedByValue
  <2>8. l = Subsequence(all, {k \in DOMAIN all : all[k] \in Range(l)})
    BY <2>7 DEF Valued
  <2>9. m = 0 => IsPrefix(l, all)
    BY <1>1, <2>3, <2>4, <2>6, NothingUnread
  <2>10. w.pc = "ended" /\ ~p => Len(all) <= Len(l) + 3 * m
    <3> SUFFICES ASSUME w.pc = "ended", ~p  PROVE Len(all) <= Len(l) + 3 * m
      OBVIOUS
    <3>1. PICK B, V : FoundAll(l, m, plan, B, V)
      BY <2>1, <2>2 DEF ListOK
    <3> QED  BY <1>1, <2>3, <2>6, <3>1, FewAreMissing
  <2> QED  BY <1>3, <2>1, <2>6, <2>8, <2>9, <2>10 DEF ListIsInReadingOrder
<1> QED  BY <1>2, <1>3

\* The halves of one hit.
HalvesOfHit(h) ==
    {[page |-> h.text[1], text |-> h.text[1], part |-> IF h.from = h.to THEN "own" ELSE "tail"]}
    \cup {half \in {[page |-> h.text[2], text |-> h.text[2], part |-> "head"]} : h.from # h.to}

LEMMA HitHasItsHalves ==
    ASSUME NEW pages, NEW h, HitOn(pages, h), pages \in Seq(Address)
    PROVE  HalvesOfHit(h) = {HalfOn(pages, h, slot) : slot \in {h.from, h.to}}
<1>1. PICK a, b, x, y : a = h.from /\ b = h.to /\ x = pages[a] /\ y = pages[b]
  OBVIOUS
<1>2. h.text[1] = x /\ h.text[2] = y
  BY <1>1 DEF HitOn
<1>3. HalfOn(pages, h, a) = [page |-> x, text |-> x, part |-> IF a = b THEN "own" ELSE "tail"]
  BY <1>1 DEF HalfOn
<1>4. a # b => HalfOn(pages, h, b) = [page |-> y, text |-> y, part |-> "head"]
  BY <1>1 DEF HalfOn
<1>5. {HalfOn(pages, h, slot) : slot \in {h.from, h.to}} = {HalfOn(pages, h, a), HalfOn(pages, h, b)}
  BY <1>1
<1>6. HalvesOfHit(h) =
        {[page |-> x, text |-> x, part |-> IF a = b THEN "own" ELSE "tail"]}
        \cup {half \in {[page |-> y, text |-> y, part |-> "head"]} : a # b}
  BY <1>1, <1>2 DEF HalvesOfHit
<1>7. CASE a = b
  BY <1>3, <1>5, <1>6, <1>7
<1>8. CASE a # b
  BY <1>3, <1>4, <1>5, <1>6, <1>8
<1> QED  BY <1>7, <1>8

LEMMA HalvesAre == \A x : x \in Halves <=> \E i \in DOMAIN mark.hits : x \in HalvesOfHit(mark.hits[i])
<1>1. PICK hits : hits = mark.hits
  OBVIOUS
<1>2. \A h : h \in Range(hits) <=> \E i \in DOMAIN hits : h = hits[i]
  BY DEF Range
<1>3. \A x : x \in Halves <=> \E h \in Range(hits) : x \in HalvesOfHit(h)
  BY <1>1 DEF Halves, HalvesOfHit
<1> QED  BY <1>1, <1>2, <1>3

LEMMA MarksAreRight ==
    ASSUME SearchInv
    PROVE  MarksAreTheHits
<1> SUFFICES ASSUME mark.at = "given"
             PROVE  mark.out = Halves
  BY DEF MarksAreTheHits
<1>1. Marks(mark) /\ mark.slots = <<>>
  BY DEF SearchInv, MarkOK, MarkIs
<1>2. PICK pages, hits, out : pages = mark.pages /\ hits = mark.hits /\ out = mark.out
  OBVIOUS
<1>3. /\ pages \in Seq(Address) /\ \A i \in DOMAIN hits : HitOn(pages, hits[i])
      /\ \A half \in out : \E i \in DOMAIN hits :
            \E slot \in {hits[i].from, hits[i].to} : half = HalfOn(pages, hits[i], slot)
  BY <1>1, <1>2 DEF Marks
<1>4. \A i \in DOMAIN hits : \A slot \in {hits[i].from, hits[i].to} : HalfOn(pages, hits[i], slot) \in out
  BY <1>1, <1>2 DEF Marks
<1>5. \A i \in DOMAIN hits :
         HalvesOfHit(hits[i]) = {HalfOn(pages, hits[i], slot) : slot \in {hits[i].from, hits[i].to}}
  BY <1>3, HitHasItsHalves
<1>6. \A x : x \in out <=> \E i \in DOMAIN hits : x \in HalvesOfHit(hits[i])
  <2> SUFFICES ASSUME NEW x
               PROVE  x \in out <=> \E i \in DOMAIN hits : x \in HalvesOfHit(hits[i])
    OBVIOUS
  <2>1. ASSUME x \in out
        PROVE  \E i \in DOMAIN hits : x \in HalvesOfHit(hits[i])
    BY <1>3, <1>5, <2>1
  <2>2. ASSUME NEW i \in DOMAIN hits, x \in HalvesOfHit(hits[i])
        PROVE  x \in out
    BY <1>4, <1>5, <2>2
  <2> QED  BY <2>1, <2>2
<1>7. \A x : x \in Halves <=> \E i \in DOMAIN hits : x \in HalvesOfHit(hits[i])
  BY <1>2, HalvesAre
<1>8. \A x : x \in out <=> x \in Halves
  BY <1>6, <1>7
<1>9. out = Halves
  BY <1>8
<1> QED  BY <1>2, <1>9

LEMMA TypesAreRight ==
    ASSUME Bounded, SearchInv
    PROVE  TypeOK
<1>1. OrderOK /\ WalksOK /\ PresentOK /\ MarkOK /\ Counted
  BY DEF SearchInv
<1>2. order \in Seq(Address) /\ IsInjective(order) /\ order # <<>>
  BY <1>1 DEF OrderOK
<1>3. /\ scan \in 0..scans /\ scans \in 0..MaxScans /\ DOMAIN walk = 1..MaxScans
      /\ \A g \in 1..MaxScans : WalkOK(walk[g]) /\ (walk[g].pc = "none" <=> g > scans)
  BY <1>1 DEF WalksOK
<1>4. \A g \in 1..MaxScans :
          /\ walk[g].pc \in {"none", "run", "page", "join", "ended"}
          /\ (walk[g].pc = "none") <=> (g > scans)
          /\ walk[g].at \in 1..Len(walk[g].plan) + 1
          /\ walk[g].pc \in {"run", "page", "join"} /\ g = scan => walk[g].asked # <<>>
          /\ Len(walk[g].asked) = Len(walk[g].sources)
  <2> SUFFICES ASSUME NEW g \in 1..MaxScans
      PROVE   /\ walk[g].pc \in {"none", "run", "page", "join", "ended"}
              /\ (walk[g].pc = "none") <=> (g > scans)
              /\ walk[g].at \in 1..Len(walk[g].plan) + 1
              /\ walk[g].pc \in {"run", "page", "join"} /\ g = scan => walk[g].asked # <<>>
              /\ Len(walk[g].asked) = Len(walk[g].sources)
    OBVIOUS
  <2>1. PICK w : w = walk[g]
    OBVIOUS
  <2>2. WalkOK(w) /\ (w.pc = "none" <=> g > scans)
    BY <1>3, <2>1
  <2>3. w.pc \in {"none", "run", "page", "join", "ended"}
    BY <2>2 DEF WalkOK, WalkType
  <2>4. /\ w.at \in 1..Len(w.plan) + 1 /\ Len(w.asked) = Len(w.sources)
        /\ w.pc \in {"run", "page", "join"} => w.asked # <<>>
    BY <2>2 DEF WalkOK, Asking
  <2> QED  BY <2>1, <2>2, <2>3, <2>4
<1>5. matches \in Seq(Hit)
  <2>1. CASE scan = 0
    <3>1. matches = <<>>
      BY <1>1, <2>1 DEF PresentOK
    <3>2. <<>> \in Seq(Hit)
      OBVIOUS
    <3> QED  BY <3>1, <3>2
  <2>2. CASE scan # 0
    <3>1. PICK w, l, m, p : w = walk[scan] /\ l = matches /\ m = unread /\ p = problem
      OBVIOUS
    <3>2. ListOK(l, m, p, w)
      BY <1>1, <2>2, <3>1 DEF PresentOK
    <3>5. l \in Seq(AHit) /\ \A i \in DOMAIN l : l[i] \in Hit /\ HitOn(order, l[i])
      BY <1>1, <3>2, ListedAreOnTheScreen
    <3>6. l \in Seq(Hit)
      <4>1. Len(l) \in Nat /\ DOMAIN l = 1..Len(l) /\ l = [i \in 1..Len(l) |-> l[i]]
        BY <3>5
      <4>2. l \in [1..Len(l) -> Hit]
        BY <3>5, <4>1
      <4> QED  BY <4>1, <4>2
    <3> QED  BY <3>1, <3>6
  <2> QED  BY <2>1, <2>2
<1>6. unread \in Nat /\ running \in BOOLEAN /\ problem \in BOOLEAN
  BY <1>1 DEF Counted
<1>7. mark.at \in {"none", "loading", "given"}
  BY <1>1 DEF MarkOK, MarkIs
<1> QED  BY <1>2, <1>3, <1>4, <1>5, <1>6, <1>7 DEF TypeOK

-----------------------------------------------------------------------------

\* The walks, the list and the marking are of their types, for a document of any
\* number of pages and any number of searches, edits and failures (Search of
\* search.ts).
THEOREM SearchTypes == Bounded => (Spec => []TypeOK)
<1> SUFFICES ASSUME Bounded
             PROVE  Spec => []TypeOK
  OBVIOUS
<1>1. Spec => []SearchInv
  BY SearchIsSound
<1>2. SearchInv => TypeOK
  BY TypesAreRight
<1> QED  BY <1>1, <1>2, PTL

\* The list is what there is in reading order from where the search began, each
\* hit once, wherever a reply is cut short and whichever replies are late or
\* lost: only pages that could not be read hide a hit, and only those of theirs
\* (Search of search.ts, the comments on matches, generation and visit).
THEOREM ListIsWhatThereIs == Bounded => (Spec => []ListIsInReadingOrder)
<1> SUFFICES ASSUME Bounded
             PROVE  Spec => []ListIsInReadingOrder
  OBVIOUS
<1>1. Spec => []SearchInv
  BY SearchIsSound
<1>2. SearchInv => ListIsInReadingOrder
  BY ListIsRight
<1> QED  BY <1>1, <1>2, PTL

\* What is handed over to be marked is every half of every hit of the list, on
\* the page its text was read from, however the pages are loaded and edited
\* meanwhile (matchQuadsByPage of viewer.ts and redactMatches of App.svelte).
THEOREM MarksAreWhatWasListed == Bounded => (Spec => []MarksAreTheHits)
<1> SUFFICES ASSUME Bounded
             PROVE  Spec => []MarksAreTheHits
  OBVIOUS
<1>1. Spec => []SearchInv
  BY SearchIsSound
<1>2. SearchInv => MarksAreTheHits
  BY MarksAreRight
<1> QED  BY <1>1, <1>2, PTL
=============================================================================
