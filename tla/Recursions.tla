----------------------------- MODULE Recursions -----------------------------
(***************************************************************************)
(* What a recursion over 0..n computes, proved with the least element of a *)
(* set of numbers: the lemmas that stand in for an induction over data in  *)
(* the proof modules.                                                      *)
(***************************************************************************)
EXTENDS Naturals, Sequences, SequencesExt, TLAPS, WellFoundedInduction, SequenceTheorems

-----------------------------------------------------------------------------
LEMMA Smallest ==
  ASSUME NEW T \in SUBSET Nat, T # {}
  PROVE  \E m \in T : \A n \in T : m <= n
<1>. DEFINE R == OpToRel(<, Nat)
<1>1. IsWellFoundedOn(R, Nat)
  BY NatLessThanWellFounded
<1>2. \A x, y \in Nat : y < x => <<y, x>> \in R
  BY DEF OpToRel
<1>. HIDE DEF R
<1>3. PICK m \in T : \A n \in T : ~ (<<n, m>> \in R)
  BY <1>1, WFMin
<1>4. \A n \in T : m \in Nat /\ n \in Nat /\ ~ (n < m)
  BY <1>2, <1>3
<1>. QED  BY <1>4

LEMMA Largest ==
  ASSUME NEW n \in Nat, NEW T \in SUBSET (0..n), T # {}
  PROVE  \E m \in T : \A i \in T : i <= m
<1>. DEFINE D == {j \in 0..n : n - j \in T}
<1>1. PICK i \in T : TRUE
  OBVIOUS
<1>2. D \in SUBSET Nat /\ n - i \in D
  BY <1>1
<1>3. PICK j \in D : \A k \in D : j <= k
  <2>. HIDE DEF D
  <2>. QED  BY <1>2, Smallest
<1>4. n - j \in T
  OBVIOUS
<1>5. ASSUME NEW k \in T PROVE k <= n - j
  <2>1. k \in 0..n /\ n - k \in 0..n /\ n - (n - k) = k
    OBVIOUS
  <2>2. n - k \in D
    BY <2>1
  <2>. QED  BY <1>3, <2>1, <2>2
<1>. QED  BY <1>4, <1>5

\* A set with 0 and the successor of each of its numbers up to n has them all.
LEMMA Counting ==
  ASSUME NEW n \in Nat, NEW S, 0 \in S, \A i \in 1..n : i - 1 \in S => i \in S
  PROVE  \A i \in 0..n : i \in S
<1>. DEFINE T == (0..n) \ S
<1>. SUFFICES ASSUME T # {} PROVE FALSE
  OBVIOUS
<1>0. T \in SUBSET Nat
  OBVIOUS
<1>1. PICK m \in T : \A i \in T : m <= i
  <2>. HIDE DEF T
  <2>. QED  BY <1>0, Smallest
<1>2. m \in 1..n /\ m - 1 \in 0..n /\ m - 1 \notin T
  BY <1>1
<1>. QED  BY <1>2

\* A recursion over 0..n has a solution.
Solvable(n, V, b, G) ==
    \E f \in [0..n -> V] : f[0] = b /\ \A i \in 1..n : f[i] = G[<<i, f[i - 1]>>]

LEMMA Recursion ==
  ASSUME NEW n \in Nat, NEW V, NEW b \in V, NEW G \in [(1..n) \X V -> V]
  PROVE  Solvable(n, V, b, G)
<1>. DEFINE Sol(k, f) == f \in [0..k -> V] /\ f[0] = b
                           /\ \A i \in 1..k : f[i] = G[<<i, f[i - 1]>>]
            S == {k \in 0..n : \E f : Sol(k, f)}
<1>1. 0 \in S
  <2>. DEFINE f == [i \in 0..0 |-> b]
  <2>1. Sol(0, f) /\ 0 \in 0..n
    OBVIOUS
  <2>. QED  BY <2>1
<1>2. ASSUME NEW m \in 1..n, m - 1 \in S PROVE m \in S
  <2>1. PICK f : Sol(m - 1, f)
    BY <1>2
  <2>. DEFINE g == [i \in 0..m |-> IF i = m THEN G[<<m, f[m - 1]>>] ELSE f[i]]
  <2>2. f[m - 1] \in V /\ G[<<m, f[m - 1]>>] \in V
    BY <2>1
  <2>3. \A i \in 0..m : i # m => i \in 0..(m - 1)
    OBVIOUS
  <2>4. \A i \in 0..m : g[i] \in V
    BY <2>1, <2>2, <2>3
  <2>5. g \in [0..m -> V]
    BY <2>4
  <2>6. g[0] = b
    BY <2>1
  <2>7. ASSUME NEW i \in 1..m PROVE g[i] = G[<<i, g[i - 1]>>]
    <3>1. i \in 0..m /\ i - 1 \in 0..m /\ i - 1 # m
      OBVIOUS
    <3>2. g[i - 1] = f[i - 1]
      BY <3>1
    <3>3. CASE i = m
      BY <3>1, <3>2, <3>3
    <3>4. CASE i # m
      <4>1. i \in 1..(m - 1)
        BY <3>4
      <4>2. g[i] = f[i]
        BY <3>1, <3>4
      <4>. QED  BY <2>1, <3>2, <4>1, <4>2
    <3>. QED  BY <3>3, <3>4
  <2>. HIDE DEF g
  <2>8. Sol(m, g)
    BY <2>5, <2>6, <2>7
  <2>. QED  BY <2>8
<1>. HIDE DEF S
<1>3. \A k \in 0..n : k \in S
  BY <1>1, <1>2, Counting
<1>4. n \in S
  BY <1>3
<1>. QED  BY <1>4 DEF S, Solvable

-----------------------------------------------------------------------------
\* The joined beginnings of a sequence of sequences.
Joins(V, parts, f) ==
    /\ f \in [0..Len(parts) -> Seq(V)] /\ f[0] = <<>>
    /\ \A i \in 1..Len(parts) : f[i] = f[i - 1] \o parts[i]

LEMMA JoinsExist ==
  ASSUME NEW V, NEW parts \in Seq(Seq(V))
  PROVE  \E f : Joins(V, parts, f)
<1>. DEFINE N == Len(parts)
            G == [p \in (1..N) \X Seq(V) |-> p[2] \o parts[p[1]]]
<1>1. N \in Nat /\ <<>> \in Seq(V) /\ \A i \in 1..N : parts[i] \in Seq(V)
  OBVIOUS
<1>2. G \in [(1..N) \X Seq(V) -> Seq(V)]
  BY <1>1
<1>. HIDE DEF G
<1>3. PICK f \in [0..N -> Seq(V)] :
        f[0] = <<>> /\ \A i \in 1..N : f[i] = G[<<i, f[i - 1]>>]
  <2>1. Solvable(N, Seq(V), <<>>, G)
    <3>. HIDE DEF N
    <3>. QED  BY <1>1, <1>2, Recursion, Zenon
  <2>. QED  BY <2>1 DEF Solvable
<1>4. ASSUME NEW i \in 1..N PROVE f[i] = f[i - 1] \o parts[i]
  <2>1. i - 1 \in 0..N
    BY <1>1
  <2>2. f[i - 1] \in Seq(V) /\ f[i] = G[<<i, f[i - 1]>>]
    BY <1>3, <2>1
  <2>. QED  BY <2>2 DEF G
<1>. QED  BY <1>3, <1>4 DEF Joins

\* FlattenSeq is the last of them.
LEMMA JoinsFlatten ==
  ASSUME NEW V, NEW parts \in Seq(Seq(V)), NEW f, Joins(V, parts, f)
  PROVE  FlattenSeq(parts) = f[Len(parts)]
<1>. DEFINE N == Len(parts)
            flatten[i \in 1..N] == IF i = 1 THEN parts[i] ELSE flatten[i - 1] \o parts[i]
<1>1. N \in Nat /\ \A i \in 1..N : parts[i] \in Seq(V)
  OBVIOUS
<1>. HIDE DEF flatten
<1>. DEFINE g == [i \in 1..N |-> f[i]]
<1>2. ASSUME NEW i \in 1..N
      PROVE  g[i] = IF i = 1 THEN parts[i] ELSE f[i - 1] \o parts[i]
  <2>1. f[i] = f[i - 1] \o parts[i]
    BY DEF Joins
  <2>2. CASE i = 1
    <3>1. f[i - 1] = <<>>
      BY <2>2 DEF Joins
    <3>. QED  BY <1>1, <2>1, <2>2, <3>1
  <2>. QED  BY <2>1, <2>2
<1>3. g = [i \in 1..N |-> IF i = 1 THEN parts[i] ELSE g[i - 1] \o parts[i]]
  <2>1. \A i \in 1..N : i # 1 => i - 1 \in 1..N
    OBVIOUS
  <2>. QED  BY <1>2, <2>1
<1>4. flatten = [i \in 1..N |-> IF i = 1 THEN parts[i] ELSE flatten[i - 1] \o parts[i]]
  <2>. HIDE DEF g
  <2>. QED  BY <1>3 DEF flatten
<1>5. FlattenSeq(parts) = IF N = 0 THEN parts ELSE flatten[N]
  BY DEF FlattenSeq, flatten
<1>. DEFINE S == {i \in 0..N : i # 0 => flatten[i] = f[i]}
<1>6. 0 \in S
  BY <1>1
<1>7. ASSUME NEW i \in 1..N, i - 1 \in S PROVE i \in S
  <2>1. flatten[i] = f[i]
    <3>1. CASE i = 1
      BY <1>2, <1>4, <3>1
    <3>2. CASE i # 1
      <4>1. flatten[i] = flatten[i - 1] \o parts[i]
        BY <1>4, <3>2
      <4>2. flatten[i - 1] = f[i - 1]
        BY <1>7, <3>2
      <4>. QED  BY <4>1, <4>2 DEF Joins
    <3>. QED  BY <3>1, <3>2
  <2>. QED  BY <1>1, <2>1
<1>8. N \in S
  <2>1. N \in 0..N
    BY <1>1
  <2>. HIDE DEF N, S
  <2>. QED  BY <1>1, <1>6, <1>7, <2>1, Counting
<1>9. CASE N = 0
  <2>1. parts = <<>> /\ f[N] = <<>>
    BY <1>9 DEF Joins
  <2>. QED  BY <1>5, <1>9, <2>1
<1>10. CASE N # 0
  BY <1>5, <1>8, <1>10
<1>. QED  BY <1>9, <1>10

\* What is flattened holds what the parts hold.
LEMMA Flattened ==
  ASSUME NEW V, NEW parts \in Seq(Seq(V))
  PROVE  FlattenSeq(parts) \in Seq(V)
<1>1. PICK f : Joins(V, parts, f)
  BY JoinsExist
<1>2. Len(parts) \in 0..Len(parts)
  OBVIOUS
<1>3. f[Len(parts)] \in Seq(V)
  BY <1>1, <1>2 DEF Joins
<1>4. FlattenSeq(parts) = f[Len(parts)]
  BY <1>1, JoinsFlatten
<1>. QED  BY <1>3, <1>4

\* The joined first n parts, for every n.
LEMMA FlattenedPrefixes ==
  ASSUME NEW V, NEW parts \in Seq(Seq(V))
  PROVE  \E f : /\ Joins(V, parts, f)
                /\ \A n \in 0..Len(parts) : FlattenSeq(SubSeq(parts, 1, n)) = f[n]
<1>1. PICK f : Joins(V, parts, f)
  BY JoinsExist
<1>2. ASSUME NEW n \in 0..Len(parts) PROVE FlattenSeq(SubSeq(parts, 1, n)) = f[n]
  <2>. DEFINE q == SubSeq(parts, 1, n)
              g == [i \in 0..n |-> f[i]]
  <2>1. /\ q \in Seq(Seq(V)) /\ Len(q) = n /\ \A i \in 1..n : q[i] = parts[i]
    <3>1. n \in Nat /\ n <= Len(parts) /\ \A i \in 1..n : parts[i] \in Seq(V)
      OBVIOUS
    <3>. QED  BY <3>1, SubSeqProperties
  <2>2. n \in Nat /\ \A i \in 0..n : i \in 0..Len(parts)
    OBVIOUS
  <2>3. g \in [0..n -> Seq(V)] /\ g[0] = <<>>
    <3>1. \A i \in 0..n : f[i] \in Seq(V)
      BY <1>1, <2>2 DEF Joins
    <3>2. 0 \in 0..n /\ f[0] = <<>>
      BY <1>1, <2>2 DEF Joins
    <3>. QED  BY <3>1, <3>2
  <2>4. ASSUME NEW i \in 1..n PROVE g[i] = g[i - 1] \o q[i]
    <3>1. i \in 0..n /\ i - 1 \in 0..n /\ i \in 1..Len(parts)
      OBVIOUS
    <3>. QED  BY <1>1, <2>1, <3>1 DEF Joins
  <2>. HIDE DEF q, g
  <2>5. Joins(V, q, g)
    BY <2>1, <2>3, <2>4 DEF Joins
  <2>6. FlattenSeq(q) = g[n]
    BY <2>1, <2>5, JoinsFlatten
  <2>. QED  BY <2>2, <2>6 DEF q, g
<1>. QED  BY <1>1, <1>2

\* One part more.
LEMMA FlattenAppend ==
  ASSUME NEW V, NEW parts \in Seq(Seq(V)), NEW x \in Seq(V)
  PROVE  /\ FlattenSeq(Append(parts, x)) = FlattenSeq(parts) \o x
         /\ FlattenSeq(parts) \in Seq(V)
<1>. DEFINE more == Append(parts, x)
            N    == Len(parts)
<1>1. /\ more \in Seq(Seq(V)) /\ Len(more) = N + 1 /\ N \in Nat /\ more[N + 1] = x
      /\ \A i \in 1..N : more[i] = parts[i]
  OBVIOUS
<1>2. PICK f : /\ Joins(V, more, f)
               /\ \A n \in 0..Len(more) : FlattenSeq(SubSeq(more, 1, n)) = f[n]
  BY <1>1, FlattenedPrefixes
<1>3. SubSeq(more, 1, N) = parts
  <2>1. \A i \in 1..N : more[i] \in Seq(V)
    BY <1>1
  <2>2. /\ SubSeq(more, 1, N) \in Seq(Seq(V)) /\ Len(SubSeq(more, 1, N)) = N
        /\ \A i \in 1..N : SubSeq(more, 1, N)[i] = more[i]
    BY <1>1, <2>1, SubSeqProperties
  <2>. HIDE DEF more
  <2>. QED  BY <1>1, <2>2
<1>4. N \in 0..Len(more) /\ N + 1 \in 1..Len(more) /\ N + 1 - 1 = N
  BY <1>1
<1>5. f[N + 1] = f[N] \o x
  <2>1. PICK n \in 1..Len(more) : n = N + 1 /\ n - 1 = N
    BY <1>4
  <2>2. f[n] = f[n - 1] \o more[n]
    <3>. HIDE DEF more, N
    <3>. QED  BY <1>2 DEF Joins
  <2>. HIDE DEF more, N
  <2>. QED  BY <1>1, <2>1, <2>2
<1>6. FlattenSeq(more) = f[N + 1]
  BY <1>1, <1>2, JoinsFlatten
<1>7. FlattenSeq(parts) = f[N]
  BY <1>2, <1>3, <1>4
<1>. QED  BY <1>5, <1>6, <1>7, Flattened

\* A function over 1..n is a sequence.
LEMMA FunctionSeq ==
  ASSUME NEW S, NEW n \in Nat, NEW f \in [1..n -> S]
  PROVE  f \in Seq(S) /\ Len(f) = n
OBVIOUS

LEMMA JoinedThree ==
  ASSUME NEW S, NEW s \in Seq(S), NEW t \in Seq(S), NEW u \in Seq(S)
  PROVE  (s \o t) \o u = s \o (t \o u)
BY Z3

\* FlattenSeq of two sequences of sequences, one after the other.
LEMMA FlattenConcat ==
  ASSUME NEW V, NEW a \in Seq(Seq(V)), NEW b \in Seq(Seq(V))
  PROVE  /\ FlattenSeq(a \o b) = FlattenSeq(a) \o FlattenSeq(b)
         /\ FlattenSeq(<<>>) = <<>>
<1>. DEFINE N == Len(b)
            first(n) == SubSeq(b, 1, n)
            S == {n \in 0..N : FlattenSeq(a \o first(n)) = FlattenSeq(a) \o FlattenSeq(first(n))}
<1>1. /\ N \in Nat /\ N \in 0..N /\ first(0) = <<>> /\ first(N) = b
      /\ a \o <<>> = a /\ FlattenSeq(<<>>) = <<>>
      /\ \A n \in 1..N : first(n) = Append(first(n - 1), b[n]) /\ first(n - 1) \in Seq(Seq(V))
  <2>1. N \in Nat /\ first(0) = <<>> /\ first(N) = b /\ a \o <<>> = a
    OBVIOUS
  <2>2. ASSUME NEW n \in 1..N
        PROVE  first(n) = Append(first(n - 1), b[n]) /\ first(n - 1) \in Seq(Seq(V))
    OBVIOUS
  <2>3. FlattenSeq(<<>>) = <<>>
    BY DEF FlattenSeq
  <2>. QED  BY <2>1, <2>2, <2>3
<1>2. 0 \in S
  <2>1. PICK s \in Seq(V) : s = FlattenSeq(a)
    BY Flattened
  <2>2. s \o <<>> = s /\ 0 \in 0..N
    BY <1>1
  <2>3. FlattenSeq(a \o first(0)) = FlattenSeq(a) \o FlattenSeq(first(0))
    <3>. HIDE DEF first
    <3>. QED  BY <1>1, <2>1, <2>2
  <2>. QED  BY <2>2, <2>3
<1>3. ASSUME NEW n \in 1..N, n - 1 \in S PROVE n \in S
  <2>1. PICK s \in Seq(Seq(V)) : s = first(n - 1) /\ first(n) = Append(s, b[n])
    BY <1>1
  <2>2. b[n] \in Seq(V) /\ a \o s \in Seq(Seq(V)) /\ a \o Append(s, b[n]) = Append(a \o s, b[n])
    BY <2>1
  <2>3. /\ FlattenSeq(Append(s, b[n])) = FlattenSeq(s) \o b[n]
        /\ FlattenSeq(Append(a \o s, b[n])) = FlattenSeq(a \o s) \o b[n]
        /\ FlattenSeq(s) \in Seq(V) /\ FlattenSeq(a) \in Seq(V)
    BY <2>1, <2>2, FlattenAppend, Flattened
  <2>4. FlattenSeq(a \o s) = FlattenSeq(a) \o FlattenSeq(s)
    BY <1>3, <2>1
  <2>5. PICK t \in Seq(V), u \in Seq(V), v \in Seq(V) :
          t = FlattenSeq(a) /\ u = FlattenSeq(s) /\ v = b[n]
    BY <2>2, <2>3
  <2>6. (t \o u) \o v = t \o (u \o v)
    <3>. HIDE DEF first, S, N
    <3>. QED  BY JoinedThree, Z3
  <2>7. FlattenSeq(a \o first(n)) = FlattenSeq(a) \o FlattenSeq(first(n))
    <3>. HIDE DEF first
    <3>. QED  BY <2>1, <2>2, <2>3, <2>4, <2>5, <2>6
  <2>8. n \in 0..N
    OBVIOUS
  <2>. QED  BY <2>7, <2>8
<1>. HIDE DEF S
<1>4. N \in S
  BY <1>1, <1>2, <1>3, Counting
<1>. QED  BY <1>1, <1>4 DEF S

\* What makes a sequence the concatenation of two.
LEMMA Extended ==
  ASSUME NEW S, NEW u \in Seq(S), NEW v \in Seq(S), NEW w \in Seq(S),
         Len(w) = Len(u) + Len(v), \A i \in 1..Len(u) : w[i] = u[i],
         \A i \in 1..Len(v) : w[Len(u) + i] = v[i]
  PROVE  w = u \o v
<1>1. u \o v \in Seq(S) /\ Len(u \o v) = Len(w)
  OBVIOUS
<1>2. ASSUME NEW i \in 1..Len(w) PROVE w[i] = (u \o v)[i]
  <2>1. CASE i <= Len(u)
    BY <2>1
  <2>2. CASE i > Len(u)
    <3>1. PICK j \in 1..Len(v) : i = Len(u) + j
      <4>1. i - Len(u) \in 1..Len(v) /\ i = Len(u) + (i - Len(u))
        BY <2>2
      <4>. QED  BY <4>1
    <3>. QED  BY <2>2, <3>1
  <2>. QED  BY <2>1, <2>2
<1>. QED  BY <1>1, <1>2

\* A function applied to each element.
Each(F, s) == [i \in DOMAIN s |-> F[s[i]]]

LEMMA EachTyped ==
  ASSUME NEW T, NEW V, NEW F, \A x \in T : F[x] \in V, NEW s \in Seq(T)
  PROVE  Each(F, s) \in Seq(V)
<1>1. /\ Len(s) \in Nat /\ DOMAIN s = 1..Len(s) /\ \A i \in 1..Len(s) : s[i] \in T
  OBVIOUS
<1>2. Each(F, s) \in [1..Len(s) -> V]
  BY <1>1 DEF Each
<1>. QED  BY <1>1, <1>2, FunctionSeq

LEMMA EachConcat ==
  ASSUME NEW T, NEW F, NEW a \in Seq(T), NEW b \in Seq(T)
  PROVE  Each(F, a \o b) = Each(F, a) \o Each(F, b)
<1>. PICK V : \A x \in T : F[x] \in V
  <2>1. \A x \in T : F[x] \in {F[y] : y \in T}
    OBVIOUS
  <2>. QED  BY <2>1
<1>0. ASSUME NEW s \in Seq(T)
      PROVE  /\ Each(F, s) \in Seq(V) /\ Len(Each(F, s)) = Len(s) /\ Len(s) \in Nat
             /\ \A i \in 1..Len(s) : Each(F, s)[i] = F[s[i]] /\ F[s[i]] \in V
  <2>1. /\ Len(s) \in Nat /\ DOMAIN s = 1..Len(s) /\ \A i \in 1..Len(s) : s[i] \in T
    OBVIOUS
  <2>2. Each(F, s) \in [1..Len(s) -> V] /\ \A i \in 1..Len(s) : Each(F, s)[i] = F[s[i]]
    BY <2>1 DEF Each
  <2>3. Each(F, s) \in Seq(V) /\ Len(Each(F, s)) = Len(s)
    BY <2>1, <2>2, FunctionSeq
  <2>. QED  BY <2>1, <2>2, <2>3
<1>1. PICK c \in Seq(T) : c = a \o b
  <2>1. a \o b \in Seq(T)
    OBVIOUS
  <2>. QED  BY <2>1
<1>2. /\ Len(c) = Len(a) + Len(b) /\ \A i \in 1..Len(a) : c[i] = a[i]
      /\ \A i \in 1..Len(b) : c[Len(a) + i] = b[i]
  BY <1>1
<1>3. PICK u \in Seq(V), v \in Seq(V), w \in Seq(V) :
        u = Each(F, a) /\ v = Each(F, b) /\ w = Each(F, c)
  BY <1>0
<1>4. /\ Len(a) \in Nat /\ Len(b) \in Nat
      /\ \A i \in 1..Len(a) : i \in 1..Len(c)
      /\ \A i \in 1..Len(b) : Len(a) + i \in 1..Len(c)
  BY <1>2
<1>5. Len(u) = Len(a) /\ Len(v) = Len(b) /\ Len(w) = Len(c)
  BY <1>0, <1>3
<1>6. ASSUME NEW i \in 1..Len(u) PROVE w[i] = u[i]
  <2>1. i \in 1..Len(a) /\ i \in 1..Len(c) /\ c[i] = a[i]
    BY <1>2, <1>4, <1>5
  <2>2. w[i] = F[c[i]] /\ u[i] = F[a[i]]
    BY <1>0, <1>3, <2>1
  <2>. QED  BY <2>1, <2>2
<1>7. ASSUME NEW i \in 1..Len(v) PROVE w[Len(u) + i] = v[i]
  <2>1. PICK j \in 1..Len(c) : j = Len(u) + i /\ i \in 1..Len(b) /\ c[j] = b[i]
    BY <1>2, <1>4, <1>5
  <2>2. w[j] = F[c[j]] /\ v[i] = F[b[i]]
    BY <1>0, <1>3, <2>1
  <2>. QED  BY <2>1, <2>2
<1>8. w = u \o v
  <2>1. /\ u \in Seq(V) /\ v \in Seq(V) /\ w \in Seq(V) /\ Len(w) = Len(u) + Len(v)
        /\ \A i \in 1..Len(u) : w[i] = u[i]
        /\ \A i \in 1..Len(v) : w[Len(u) + i] = v[i]
    BY <1>2, <1>5, <1>6, <1>7
  <2>. QED  BY <2>1, Extended, Zenon
<1>. QED  BY <1>0, <1>1, <1>3, <1>8

\* A function applied to each element, and the results joined.
LEMMA FlattenEach ==
  ASSUME NEW T, NEW V, NEW F, \A x \in T : F[x] \in Seq(V), NEW s \in Seq(T)
  PROVE  Each(F, s) \in Seq(Seq(V)) /\ FlattenSeq(Each(F, s)) \in Seq(V)
<1>1. PICK W : W = Seq(V)
  OBVIOUS
<1>2. \A x \in T : F[x] \in W
  BY <1>1
<1>3. Each(F, s) \in Seq(W)
  BY <1>2, EachTyped
<1>. QED  BY <1>1, <1>3, Flattened

LEMMA FlattenEachConcat ==
  ASSUME NEW T, NEW V, NEW F, \A x \in T : F[x] \in Seq(V), NEW a \in Seq(T), NEW b \in Seq(T)
  PROVE  FlattenSeq(Each(F, a \o b)) = FlattenSeq(Each(F, a)) \o FlattenSeq(Each(F, b))
<1>1. Each(F, a) \in Seq(Seq(V)) /\ Each(F, b) \in Seq(Seq(V))
  BY FlattenEach
<1>2. Each(F, a \o b) = Each(F, a) \o Each(F, b)
  BY EachConcat
<1>3. FlattenSeq(Each(F, a) \o Each(F, b)) = FlattenSeq(Each(F, a)) \o FlattenSeq(Each(F, b))
  BY <1>1, FlattenConcat
<1>. QED  BY <1>2, <1>3

LEMMA FlattenEachOne ==
  ASSUME NEW V, NEW F, NEW x, F[x] \in Seq(V)
  PROVE  FlattenSeq(Each(F, <<x>>)) = F[x] /\ FlattenSeq(Each(F, <<>>)) = <<>>
<1>1. Each(F, <<x>>) = Append(<<>>, F[x]) /\ Each(F, <<>>) = <<>> /\ <<>> \in Seq(Seq(V))
  BY DEF Each
<1>2. FlattenSeq(<<>>) = <<>>
  BY DEF FlattenSeq
<1>3. FlattenSeq(Append(<<>>, F[x])) = FlattenSeq(<<>>) \o F[x]
  BY <1>1, FlattenAppend
<1>4. <<>> \o F[x] = F[x]
  OBVIOUS
<1>. QED  BY <1>1, <1>2, <1>3, <1>4

\* Elements made sequences of one and joined again.
LEMMA FlattenSingles ==
  ASSUME NEW V, NEW s \in Seq(V)
  PROVE  FlattenSeq([i \in DOMAIN s |-> <<s[i]>>]) = s
<1>. DEFINE parts == [i \in DOMAIN s |-> <<s[i]>>]
            N == Len(s)
            f == [n \in 0..N |-> SubSeq(s, 1, n)]
<1>1. parts \in Seq(Seq(V)) /\ Len(parts) = N /\ N \in 0..N
  <2>1. N \in Nat /\ DOMAIN s = 1..N /\ \A i \in 1..N : <<s[i]>> \in Seq(V)
    OBVIOUS
  <2>2. parts \in [1..N -> Seq(V)]
    BY <2>1
  <2>. HIDE DEF parts
  <2>. QED  BY <2>1, <2>2, FunctionSeq
<1>2. f \in [0..N -> Seq(V)] /\ f[0] = <<>> /\ f[N] = s
  OBVIOUS
<1>3. ASSUME NEW n \in 1..N PROVE f[n] = f[n - 1] \o parts[n]
  <2>1. f[n] = SubSeq(s, 1, n) /\ f[n - 1] = SubSeq(s, 1, n - 1) /\ parts[n] = <<s[n]>>
    OBVIOUS
  <2>2. SubSeq(s, 1, n) = SubSeq(s, 1, n - 1) \o <<s[n]>>
    OBVIOUS
  <2>. QED  BY <2>1, <2>2
<1>. HIDE DEF parts, f
<1>4. Joins(V, parts, f)
  BY <1>1, <1>2, <1>3 DEF Joins
<1>5. FlattenSeq(parts) = f[N]
  BY <1>1, <1>4, JoinsFlatten
<1>. QED  BY <1>2, <1>5 DEF parts
=============================================================================
