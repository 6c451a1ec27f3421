------------------------- MODULE SubsequencesProofs -------------------------
(***************************************************************************)
(* Lemmas about Subsequences, and the two induction principles they rest   *)
(* on.  The library's induction theorems take an operator; these take a    *)
(* set, which the provers can instantiate.                                 *)
(***************************************************************************)
EXTENDS Subsequences, SequenceTheorems, WellFoundedInduction, TLAPS

LOCAL Below == {p \in Nat \X Nat : p[1] < p[2]}

\* A set of numbers that is not empty has a least one.
LEMMA Least ==
  ASSUME NEW T \in SUBSET Nat, T # {}
  PROVE  \E n \in T : \A m \in T : n <= m
<1>1. OpToRel(<, Nat) = Below
  BY DEF OpToRel, Below
<1>2. IsWellFoundedOn(Below, Nat)
  BY <1>1, NatLessThanWellFounded
<1>3. PICK n \in T : \A m \in T : ~(<<m, n>> \in Below)
  BY <1>2, WFMin
<1>4. \A m \in T : ~(m < n)
  BY <1>3 DEF Below
<1> QED BY <1>4

\* Induction up to a bound: a set with 0 that is closed under the next number.
LEMMA UpTo ==
  ASSUME NEW n \in Nat, NEW P, 0 \in P, \A i \in 0 .. n : i # n /\ i \in P => i + 1 \in P
  PROVE  \A i \in 0 .. n : i \in P
<1> DEFINE Bad == {i \in 0 .. n : i \notin P}
<1>1. SUFFICES ASSUME Bad # {} PROVE FALSE
  OBVIOUS
<1>2. PICK m \in Bad : \A k \in Bad : m <= k
  <2>1. Bad \in SUBSET Nat
    OBVIOUS
  <2> HIDE DEF Bad
  <2> QED BY <1>1, <2>1, Least
<1>3. m # 0 /\ m \in 0 .. n /\ m - 1 \in 0 .. n /\ m - 1 # n
  BY <1>2
<1>4. m - 1 \in P
  BY <1>2, <1>3
<1>5. (m - 1) + 1 \in P
  BY <1>3, <1>4
<1> QED BY <1>2, <1>3, <1>5

\* g lists the values reached from base by the steps, up to n of them.
IsRun(g, V, n, base, step) ==
  /\ g \in [0 .. n -> V]
  /\ g[0] = base
  /\ \A i \in 1 .. n : g[i] = step[i][g[i - 1]]

\* A first value and the step to each next one determine such a list.
LEMMA Iterates ==
  ASSUME NEW V, NEW n \in Nat, NEW base \in V, NEW step \in [1 .. n -> [V -> V]]
  PROVE  \E g : IsRun(g, V, n, base, step)
<1> DEFINE Runs(g, m) == IsRun(g, V, m, base, step)
           P == {m \in 0 .. n : \E g : Runs(g, m)}
<1>1. 0 \in P
  <2>1. Runs([i \in 0 .. 0 |-> base], 0)
    BY DEF IsRun
  <2> HIDE DEF Runs
  <2> QED BY <2>1
<1>2. ASSUME NEW m \in 0 .. n, m # n, m \in P PROVE m + 1 \in P
  <2>1. PICK g : Runs(g, m)
    BY <1>2
  <2>2. m \in Nat /\ m + 1 \in 1 .. n /\ m \in 0 .. m
    BY <1>2
  <2>3. g[m] \in V
    BY <2>1, <2>2 DEF IsRun
  <2>4. step[m + 1][g[m]] \in V
    BY <2>2, <2>3
  <2> DEFINE v == step[m + 1][g[m]]
             h == [i \in 0 .. m + 1 |-> IF i = m + 1 THEN v ELSE g[i]]
  <2>5. /\ h \in [0 .. m + 1 -> V]
        /\ h[m + 1] = v
        /\ \A i \in 0 .. m : h[i] = g[i]
    <3>1. \A i \in 0 .. m + 1 : i = m + 1 \/ i \in 0 .. m
      BY <2>2
    <3>2. v \in V /\ g \in [0 .. m -> V] /\ m + 1 \in 0 .. m + 1 /\ m + 1 \notin 0 .. m
      BY <2>1, <2>2, <2>4 DEF IsRun
    <3>3. \A i \in 0 .. m : i \in 0 .. m + 1
      BY <2>2
    <3> HIDE DEF v
    <3> QED BY <3>1, <3>2, <3>3
  <2> HIDE DEF h
  <2>6. h[m] = g[m] /\ h[0] = base
    BY <2>1, <2>2, <2>5 DEF IsRun
  <2>7. ASSUME NEW i \in 1 .. m + 1 PROVE h[i] = step[i][h[i - 1]]
    <3>1. CASE i = m + 1
      <4>1. i - 1 = m
        BY <3>1, <2>2
      <4> QED BY <3>1, <4>1, <2>5, <2>6
    <3>2. CASE i # m + 1
      <4>1. i \in 1 .. m /\ i \in 0 .. m /\ i - 1 \in 0 .. m
        BY <3>2, <2>2
      <4>2. h[i] = g[i] /\ h[i - 1] = g[i - 1]
        BY <4>1, <2>5
      <4> QED BY <4>1, <4>2, <2>1 DEF IsRun
    <3> QED BY <3>1, <3>2
  <2>8. Runs(h, m + 1)
    BY <2>5, <2>6, <2>7 DEF IsRun
  <2> HIDE DEF Runs
  <2> QED BY <2>2, <2>8
<1>3. \A m \in 0 .. n : m \in P
  <2> HIDE DEF P
  <2> QED BY <1>1, <1>2, UpTo
<1> HIDE DEF Runs
<1> QED BY <1>3 DEF Runs
-----------------------------------------------------------------------------
\* The equations of the recursion.
LEMMA KeptUpToDef ==
  ASSUME NEW S, NEW T, NEW s \in Seq(S)
  PROVE  /\ KeptUpTo(s, T) \in [0 .. Len(s) -> Seq(S)]
         /\ KeptUpTo(s, T)[0] = <<>>
         /\ \A n \in 1 .. Len(s) :
              KeptUpTo(s, T)[n] = IF s[n] \in T THEN Append(KeptUpTo(s, T)[n - 1], s[n])
                                                ELSE KeptUpTo(s, T)[n - 1]
<1> DEFINE L == Len(s)
           Next(v, n) == IF s[n] \in T THEN Append(v, s[n]) ELSE v
           Body(g, n) == IF n = 0 THEN <<>> ELSE Next(g[n - 1], n)
           K == KeptUpTo(s, T)
<1>1. L \in Nat /\ \A n \in 1 .. L : s[n] \in S
  OBVIOUS
<1>2. \A v \in Seq(S), n \in 1 .. L : Next(v, n) \in Seq(S)
  BY <1>1
<1>3. PICK step : /\ step \in [1 .. L -> [Seq(S) -> Seq(S)]]
                  /\ \A v \in Seq(S), n \in 1 .. L : step[n][v] = Next(v, n)
  <2> DEFINE f == [n \in 1 .. L |-> [v \in Seq(S) |-> Next(v, n)]]
  <2> HIDE DEF Next, L
  <2>1. f \in [1 .. L -> [Seq(S) -> Seq(S)]]
    BY <1>2
  <2>2. \A v \in Seq(S), n \in 1 .. L : f[n][v] = Next(v, n)
    OBVIOUS
  <2> QED BY <2>1, <2>2
<1>0. <<>> \in Seq(S)
  OBVIOUS
<1>4. PICK e : e \in Seq(S) /\ e = <<>>
  BY <1>0
<1>5. PICK g : IsRun(g, Seq(S), L, e, step)
  BY <1>1, <1>3, <1>4, Iterates
<1>6. \A n \in 1 .. L : g[n] = Next(g[n - 1], n)
  <2>1. \A n \in 1 .. L : n - 1 \in 0 .. L
    BY <1>1
  <2> HIDE DEF L, Next
  <2> QED BY <2>1, <1>3, <1>5 DEF IsRun
<1>7. g = [n \in 0 .. L |-> Body(g, n)]
  <2>1. \A n \in 0 .. L : n = 0 \/ n \in 1 .. L
    BY <1>1
  <2> HIDE DEF L, Next
  <2> QED BY <2>1, <1>4, <1>5, <1>6 DEF IsRun
<1>8. K = CHOOSE f : f = [n \in 0 .. L |-> Body(f, n)]
  BY DEF KeptUpTo
<1>9. K = [n \in 0 .. L |-> Body(K, n)]
  <2> HIDE DEF K, Body, L
  <2> QED BY <1>7, <1>8
<1> HIDE DEF K
<1>10. K[0] = <<>> /\ \A n \in 1 .. L : K[n] = Next(K[n - 1], n)
  <2>1. 0 \in 0 .. L /\ \A n \in 1 .. L : n \in 0 .. L /\ n # 0
    BY <1>1
  <2> HIDE DEF L, Next
  <2> QED BY <2>1, <1>9
<1>11. \A n \in 0 .. L : K[n] \in Seq(S)
  <2> DEFINE P == {n \in 0 .. L : K[n] \in Seq(S)}
  <2>1. 0 \in P
    <3> HIDE DEF L, Next
    <3>1. 0 \in 0 .. L
      BY <1>1
    <3>2. K[0] \in Seq(S)
      BY <1>0, <1>10
    <3> QED BY <3>1, <3>2
  <2>2. ASSUME NEW n \in 0 .. L, n # L, n \in P PROVE n + 1 \in P
    <3>1. n + 1 \in 1 .. L /\ n + 1 \in 0 .. L /\ (n + 1) - 1 = n
      BY <1>1, <2>2
    <3> HIDE DEF L, Next
    <3>2. K[n + 1] = Next(K[n], n + 1) /\ K[n] \in Seq(S)
      BY <3>1, <2>2, <1>10
    <3> QED BY <3>1, <3>2, <1>2
  <2>3. \A n \in 0 .. L : n \in P
    <3> HIDE DEF P, L
    <3> QED BY <2>1, <2>2, <1>1, UpTo
  <2> QED BY <2>3
<1>12. K \in [0 .. L -> Seq(S)]
  <2> HIDE DEF L, Body
  <2> QED BY <1>9, <1>11
<1> QED BY <1>10, <1>12 DEF K

LEMMA KeptType ==
  ASSUME NEW S, NEW T, NEW s \in Seq(S)
  PROVE  Kept(s, T) \in Seq(S)
<1>1. Len(s) \in 0 .. Len(s)
  OBVIOUS
<1> QED BY <1>1, KeptUpToDef DEF Kept

LEMMA KeptEmpty == \A T : Kept(<<>>, T) = <<>>
<1>1. ASSUME NEW T, NEW S, NEW e \in Seq(S), Len(e) = 0 PROVE Kept(e, T) = <<>>
  <2>1. KeptUpTo(e, T)[0] = <<>>
    BY KeptUpToDef
  <2> QED BY <1>1, <2>1 DEF Kept
<1>2. <<>> \in Seq({}) /\ Len(<<>>) = 0
  BY EmptySeq
<1> QED BY <1>1, <1>2

\* Only the elements of T are kept, and only elements of s.
LEMMA KeptElements ==
  ASSUME NEW S, NEW T, NEW s \in Seq(S)
  PROVE  \A k \in 1 .. Len(Kept(s, T)) :
           Kept(s, T)[k] \in T /\ \E j \in 1 .. Len(s) : s[j] = Kept(s, T)[k]
<1> DEFINE L == Len(s)
           K == KeptUpTo(s, T)
           Fine(v) == \A k \in 1 .. Len(v) : v[k] \in T /\ \E j \in 1 .. L : s[j] = v[k]
           P == {n \in 0 .. L : Fine(K[n])}
<1>1. L \in Nat /\ L \in 0 .. L
  OBVIOUS
<1>2. /\ K \in [0 .. L -> Seq(S)] /\ K[0] = <<>>
      /\ \A n \in 1 .. L : K[n] = IF s[n] \in T THEN Append(K[n - 1], s[n]) ELSE K[n - 1]
  BY KeptUpToDef
<1> HIDE DEF K
<1>3. 0 \in P
  <2>1. Fine(<<>>)
    OBVIOUS
  <2> HIDE DEF Fine
  <2> QED BY <2>1, <1>1, <1>2
<1>4. ASSUME NEW n \in 0 .. L, n # L, n \in P PROVE n + 1 \in P
  <2>1. n + 1 \in 1 .. L /\ n + 1 \in 0 .. L /\ (n + 1) - 1 = n
    BY <1>1, <1>4
  <2>2. K[n + 1] = IF s[n + 1] \in T THEN Append(K[n], s[n + 1]) ELSE K[n]
    BY <1>2, <2>1
  <2>3. K[n] \in Seq(S) /\ Fine(K[n])
    BY <1>2, <1>4
  <2>4. ASSUME NEW v \in Seq(S), Fine(v), NEW j \in 1 .. L, s[j] \in T PROVE Fine(Append(v, s[j]))
    <3>1. ASSUME NEW k \in 1 .. Len(Append(v, s[j])), k # Len(v) + 1 PROVE k \in 1 .. Len(v)
      BY <3>1
    <3>2. \A k \in 1 .. Len(v) : Append(v, s[j])[k] = v[k]
      OBVIOUS
    <3>3. Append(v, s[j])[Len(v) + 1] = s[j]
      OBVIOUS
    <3> HIDE DEF L
    <3> QED BY <2>4, <3>1, <3>2, <3>3
  <2> HIDE DEF Fine
  <2> QED BY <2>1, <2>2, <2>3, <2>4
<1>5. L \in P
  <2> HIDE DEF P, L
  <2> QED BY <1>1, <1>3, <1>4, UpTo
<1> QED BY <1>5 DEF K, Kept

\* What a prefix keeps does not depend on the rest.
LEMMA KeptPrefix ==
  ASSUME NEW S, NEW T, NEW s \in Seq(S), NEW u \in Seq(S),
         Len(s) <= Len(u), \A i \in 1 .. Len(s) : u[i] = s[i]
  PROVE  KeptUpTo(u, T)[Len(s)] = Kept(s, T)
<1> DEFINE L == Len(s)
           K == KeptUpTo(s, T)
           J == KeptUpTo(u, T)
           P == {n \in 0 .. L : J[n] = K[n]}
<1>1. L \in Nat /\ L \in 0 .. L /\ \A n \in 1 .. L : n \in 1 .. Len(u) /\ u[n] = s[n]
  OBVIOUS
<1>2. /\ K[0] = <<>>
      /\ \A n \in 1 .. L : K[n] = IF s[n] \in T THEN Append(K[n - 1], s[n]) ELSE K[n - 1]
  BY KeptUpToDef
<1>3. /\ J[0] = <<>>
      /\ \A n \in 1 .. L : J[n] = IF s[n] \in T THEN Append(J[n - 1], s[n]) ELSE J[n - 1]
  BY <1>1, KeptUpToDef
<1> HIDE DEF K, J, L
<1>4. 0 \in P
  BY <1>1, <1>2, <1>3
<1>5. ASSUME NEW n \in 0 .. L, n # L, n \in P PROVE n + 1 \in P
  <2>1. n + 1 \in 1 .. L /\ n + 1 \in 0 .. L /\ (n + 1) - 1 = n
    BY <1>1, <1>5
  <2> QED BY <2>1, <1>2, <1>3, <1>5
<1>6. L \in P
  <2> HIDE DEF P
  <2> QED BY <1>1, <1>4, <1>5, UpTo
<1> QED BY <1>6 DEF J, K, L, Kept

LEMMA KeptAppend ==
  ASSUME NEW S, NEW T, NEW s \in Seq(S), NEW e \in S
  PROVE  Kept(Append(s, e), T) = IF e \in T THEN Append(Kept(s, T), e) ELSE Kept(s, T)
<1> DEFINE u == Append(s, e)
<1>1. /\ u \in Seq(S) /\ Len(u) = Len(s) + 1 /\ u[Len(u)] = e
      /\ Len(u) \in 1 .. Len(u) /\ Len(u) - 1 = Len(s) /\ Len(s) <= Len(u)
      /\ \A i \in 1 .. Len(s) : u[i] = s[i]
  OBVIOUS
<1> HIDE DEF u
<1>2. KeptUpTo(u, T)[Len(s)] = Kept(s, T)
  BY <1>1, KeptPrefix
<1>3. KeptUpTo(u, T)[Len(u)] = IF u[Len(u)] \in T THEN Append(KeptUpTo(u, T)[Len(u) - 1], u[Len(u)])
                                                 ELSE KeptUpTo(u, T)[Len(u) - 1]
  BY <1>1, KeptUpToDef
<1>4. Kept(u, T) = IF e \in T THEN Append(Kept(s, T), e) ELSE Kept(s, T)
  BY <1>1, <1>2, <1>3 DEF Kept
<1> QED BY <1>4 DEF u

LEMMA KeptConcat ==
  ASSUME NEW S, NEW T, NEW s \in Seq(S), NEW t \in Seq(S)
  PROVE  Kept(s \o t, T) = Kept(s, T) \o Kept(t, T)
<1> DEFINE M == Len(s)
           L == Len(t)
           u == s \o t
           K == KeptUpTo(t, T)
           J == KeptUpTo(u, T)
           P == {n \in 0 .. L : J[M + n] = Kept(s, T) \o K[n]}
<1>1. /\ L \in Nat /\ M \in Nat /\ u \in Seq(S) /\ Len(u) = M + L /\ M <= Len(u)
      /\ \A i \in 1 .. M : u[i] = s[i]
  OBVIOUS
<1>2. \A n \in 1 .. L : u[M + n] = t[n] /\ t[n] \in S
  OBVIOUS
<1>3. /\ K \in [0 .. L -> Seq(S)] /\ K[0] = <<>>
      /\ \A n \in 1 .. L : K[n] = IF t[n] \in T THEN Append(K[n - 1], t[n]) ELSE K[n - 1]
  BY KeptUpToDef
<1> HIDE DEF u
<1>4. \A n \in 1 .. M + L : J[n] = IF u[n] \in T THEN Append(J[n - 1], u[n]) ELSE J[n - 1]
  BY <1>1, KeptUpToDef
<1>5. J[M] = Kept(s, T) /\ Kept(s, T) \in Seq(S)
  BY <1>1, KeptPrefix, KeptType
<1> HIDE DEF K, J, L, M
<1>6. 0 \in P
  <2>1. 0 \in 0 .. L /\ M + 0 = M
    BY <1>1
  <2>2. Kept(s, T) \o <<>> = Kept(s, T)
    BY <1>5
  <2> QED BY <2>1, <2>2, <1>3, <1>5
<1>7. ASSUME NEW n \in 0 .. L, n # L, n \in P PROVE n + 1 \in P
  <2>1. n + 1 \in 1 .. L /\ n + 1 \in 0 .. L /\ (n + 1) - 1 = n /\ M + (n + 1) \in 1 .. M + L
        /\ (M + (n + 1)) - 1 = M + n
    BY <1>1, <1>7
  <2> DEFINE e == t[n + 1]
  <2>2. K[n + 1] = IF e \in T THEN Append(K[n], e) ELSE K[n]
    BY <2>1, <1>3
  <2>3. J[M + (n + 1)] = IF e \in T THEN Append(J[M + n], e) ELSE J[M + n]
    BY <2>1, <1>2, <1>4
  <2>4. J[M + n] = Kept(s, T) \o K[n] /\ K[n] \in Seq(S) /\ e \in S
    BY <2>1, <1>2, <1>3, <1>7
  <2>5. ASSUME NEW a \in Seq(S), NEW b \in Seq(S) PROVE Append(a \o b, e) = a \o Append(b, e)
    <3> HIDE DEF e
    <3>1. <<e>> \in Seq(S) /\ a \o b \in Seq(S)
      BY <2>4, ConcatProperties
    <3>2. Append(a \o b, e) = (a \o b) \o <<e>> /\ Append(b, e) = b \o <<e>>
      BY <2>4, <3>1, AppendIsConcat
    <3> QED BY <3>1, <3>2, ConcatAssociative
  <2> HIDE DEF e
  <2>6. J[M + (n + 1)] = Kept(s, T) \o K[n + 1]
    BY <2>2, <2>3, <2>4, <2>5, <1>5
  <2> QED BY <2>1, <2>6
<1>8. L \in P
  <2>1. L \in 0 .. L
    BY <1>1
  <2> HIDE DEF P
  <2> QED BY <2>1, <1>1, <1>6, <1>7, UpTo
<1>9. Kept(u, T) = J[M + L] /\ Kept(t, T) = K[L]
  BY <1>1 DEF Kept, J, K, L
<1> QED BY <1>8, <1>9 DEF u

\* Nothing of s is in T: nothing is kept.
LEMMA KeptNone ==
  ASSUME NEW S, NEW T, NEW s \in Seq(S), \A i \in 1 .. Len(s) : s[i] \notin T
  PROVE  Kept(s, T) = <<>>
<1>1. Kept(s, T) \in Seq(S)
  BY KeptType
<1>2. \A k \in 1 .. Len(Kept(s, T)) : FALSE
  BY KeptElements
<1>3. Len(Kept(s, T)) = 0
  <2> DEFINE K == Kept(s, T)
  <2> HIDE DEF K
  <2>1. \A k \in Seq(S) : (\A i \in 1 .. Len(k) : FALSE) => Len(k) = 0
    OBVIOUS
  <2> QED BY <1>1, <1>2, <2>1
<1> QED BY <1>1, <1>3, EmptySeq

LEMMA KeptOne == ASSUME NEW S, NEW T, NEW e \in S, e \in T PROVE Kept(<<e>>, T) = <<e>>
<1>1. <<>> \in Seq(S) /\ Append(<<>>, e) = <<e>>
  OBVIOUS
<1> QED BY <1>1, KeptAppend, KeptEmpty

\* What is kept depends on the elements of s only.
LEMMA KeptAgree ==
  ASSUME NEW S, NEW T, NEW U, NEW s \in Seq(S), \A i \in 1 .. Len(s) : s[i] \in T <=> s[i] \in U
  PROVE  Kept(s, T) = Kept(s, U)
<1> DEFINE L == Len(s)
           K == KeptUpTo(s, T)
           J == KeptUpTo(s, U)
           P == {n \in 0 .. L : J[n] = K[n]}
<1>1. L \in Nat /\ L \in 0 .. L /\ \A n \in 1 .. L : s[n] \in T <=> s[n] \in U
  OBVIOUS
<1>2. /\ K[0] = <<>>
      /\ \A n \in 1 .. L : K[n] = IF s[n] \in T THEN Append(K[n - 1], s[n]) ELSE K[n - 1]
  BY KeptUpToDef
<1>3. /\ J[0] = <<>>
      /\ \A n \in 1 .. L : J[n] = IF s[n] \in U THEN Append(J[n - 1], s[n]) ELSE J[n - 1]
  BY KeptUpToDef
<1> HIDE DEF K, J, L
<1>4. 0 \in P
  BY <1>1, <1>2, <1>3
<1>5. ASSUME NEW n \in 0 .. L, n # L, n \in P PROVE n + 1 \in P
  <2>1. n + 1 \in 1 .. L /\ n + 1 \in 0 .. L /\ (n + 1) - 1 = n
    BY <1>1, <1>5
  <2> QED BY <2>1, <1>1, <1>2, <1>3, <1>5
<1>6. L \in P
  <2> HIDE DEF P
  <2> QED BY <1>1, <1>4, <1>5, UpTo
<1> QED BY <1>6 DEF J, K, L, Kept

\* Where the elements that are kept come from: their places, in order.
Places(h, s, T) ==
  /\ h \in [1 .. Len(Kept(s, T)) -> 1 .. Len(s)]
  /\ \A k \in 1 .. Len(Kept(s, T)) : Kept(s, T)[k] = s[h[k]]
  /\ \A j, k \in 1 .. Len(Kept(s, T)) : j < k => h[j] < h[k]
  /\ \A i \in 1 .. Len(s) : s[i] \in T => \E k \in 1 .. Len(Kept(s, T)) : h[k] = i

LEMMA KeptPlaces == ASSUME NEW S, NEW T, NEW s \in Seq(S) PROVE \E h : Places(h, s, T)
<1> DEFINE L == Len(s)
           K == KeptUpTo(s, T)
           From(h, v, n) ==
             /\ h \in [1 .. Len(v) -> 1 .. n]
             /\ \A k \in 1 .. Len(v) : v[k] = s[h[k]]
             /\ \A j, k \in 1 .. Len(v) : j < k => h[j] < h[k]
             /\ \A i \in 1 .. n : s[i] \in T => \E k \in 1 .. Len(v) : h[k] = i
           P == {n \in 0 .. L : \E h : From(h, K[n], n)}
<1>1. L \in Nat /\ L \in 0 .. L /\ 0 \in 0 .. L
  OBVIOUS
<1>2. /\ K \in [0 .. L -> Seq(S)] /\ K[0] = <<>>
      /\ \A n \in 1 .. L : K[n] = IF s[n] \in T THEN Append(K[n - 1], s[n]) ELSE K[n - 1]
  BY KeptUpToDef
<1> HIDE DEF K
<1>3. 0 \in P
  <2>1. From(<<>>, K[0], 0)
    BY <1>2
  <2> HIDE DEF From
  <2> QED BY <1>1, <2>1
<1>4. ASSUME NEW n \in 0 .. L, n # L, n \in P PROVE n + 1 \in P
  <2>1. n + 1 \in 1 .. L /\ n + 1 \in 0 .. L /\ (n + 1) - 1 = n /\ n \in Nat /\ s[n + 1] \in S
    BY <1>1, <1>4
  <2>2. PICK h : From(h, K[n], n)
    BY <1>4
  <2>3. K[n] \in Seq(S) /\ Len(K[n]) \in Nat
    BY <1>2
  <2>4. CASE s[n + 1] \notin T
    <3>1. K[n + 1] = K[n]
      BY <1>2, <2>1, <2>4
    <3>2. From(h, K[n], n + 1)
      BY <2>1, <2>2, <2>3, <2>4
    <3> HIDE DEF From
    <3> QED BY <2>1, <3>1, <3>2
  <2>5. CASE s[n + 1] \in T
    <3> DEFINE v == K[n]
               w == Append(v, s[n + 1])
               g == [k \in 1 .. Len(v) + 1 |-> IF k = Len(v) + 1 THEN n + 1 ELSE h[k]]
    <3>1. K[n + 1] = w
      BY <1>2, <2>1, <2>5
    <3>2. Len(w) = Len(v) + 1 /\ w[Len(v) + 1] = s[n + 1] /\ \A k \in 1 .. Len(v) : w[k] = v[k]
      BY <2>1, <2>3
    <3>3. \A k \in 1 .. Len(v) : g[k] = h[k] /\ h[k] \in 1 .. n
      <4>1. \A k \in 1 .. Len(v) : k \in 1 .. Len(v) + 1 /\ k # Len(v) + 1
        BY <2>3
      <4>2. \A k \in 1 .. Len(v) : h[k] \in 1 .. n
        BY <2>2
      <4> QED BY <4>1, <4>2
    <3>4. g[Len(v) + 1] = n + 1 /\ DOMAIN g = 1 .. Len(v) + 1
      BY <2>3
    <3> HIDE DEF v, w, g
    <3>5. Len(v) \in Nat
      BY <2>3 DEF v
    <3>6. \A k \in 1 .. Len(v) + 1 : k \in 1 .. Len(v) \/ k = Len(v) + 1
      BY <3>5
    <3>7. g \in [1 .. Len(w) -> 1 .. n + 1]
      <4>1. \A k \in 1 .. Len(v) + 1 : g[k] \in 1 .. n + 1
        BY <2>1, <3>3, <3>4, <3>6
      <4>2. g = [k \in 1 .. Len(v) + 1 |-> g[k]]
        BY DEF g
      <4> QED BY <4>1, <4>2, <3>2
    <3>8. \A k \in 1 .. Len(w) : w[k] = s[g[k]]
      BY <2>2, <3>2, <3>3, <3>4, <3>6 DEF v
    <3>9. \A j, k \in 1 .. Len(w) : j < k => g[j] < g[k]
      BY <2>1, <2>2, <3>2, <3>3, <3>4, <3>5, <3>6 DEF v
    <3>10. \A i \in 1 .. n + 1 : s[i] \in T => \E k \in 1 .. Len(w) : g[k] = i
      <4>1. \A i \in 1 .. n + 1 : i = n + 1 \/ i \in 1 .. n
        BY <2>1
      <4>2. \A k \in 1 .. Len(v) : k \in 1 .. Len(w)
        BY <3>2, <3>5
      <4>3. Len(v) + 1 \in 1 .. Len(w)
        BY <3>2, <3>5
      <4> QED BY <2>2, <3>3, <3>4, <4>1, <4>2, <4>3 DEF v
    <3>11. From(g, K[n + 1], n + 1)
      BY <3>1, <3>7, <3>8, <3>9, <3>10
    <3> HIDE DEF From
    <3> QED BY <2>1, <3>11
  <2> QED BY <2>4, <2>5
<1>5. L \in P
  <2>1. \A n \in 0 .. L : n \in P
    <3> HIDE DEF P
    <3> QED BY <1>1, <1>3, <1>4, UpTo
  <2> QED BY <2>1, <1>1
<1>6. PICK h : From(h, K[L], L)
  BY <1>5
<1>7. K[L] = Kept(s, T)
  BY DEF K, Kept
<1>8. Places(h, s, T)
  BY <1>6, <1>7 DEF Places
<1> QED BY <1>8

\* How many elements the first i contribute, and where each of them ends up.
Counts(place, s, T) ==
  /\ place \in [0 .. Len(s) -> Nat]
  /\ place[0] = 0 /\ place[Len(s)] = Len(Kept(s, T))
  /\ \A i \in 1 .. Len(s) : s[i] \notin T => place[i] = place[i - 1]
  /\ \A i \in 1 .. Len(s) : s[i] \in T =>
       /\ place[i] = place[i - 1] + 1
       /\ place[i] \in 1 .. Len(Kept(s, T)) /\ Kept(s, T)[place[i]] = s[i]

LEMMA KeptCount == ASSUME NEW S, NEW T, NEW s \in Seq(S) PROVE \E place : Counts(place, s, T)
<1> DEFINE L == Len(s)
           K == KeptUpTo(s, T)
           place == [i \in 0 .. L |-> Len(K[i])]
           There(n) == \A i \in 1 .. n : s[i] \in T => place[i] \in 1 .. place[n] /\ K[n][place[i]] = s[i]
           P == {n \in 0 .. L : There(n)}
<1>1. L \in Nat /\ L \in 0 .. L /\ 0 \in 0 .. L
  OBVIOUS
<1>2. /\ K \in [0 .. L -> Seq(S)] /\ K[0] = <<>>
      /\ \A n \in 1 .. L : K[n] = IF s[n] \in T THEN Append(K[n - 1], s[n]) ELSE K[n - 1]
  BY KeptUpToDef
<1>3. \A n \in 1 .. L : s[n] \in S
  OBVIOUS
<1> HIDE DEF K
<1>4. \A n \in 0 .. L : place[n] = Len(K[n]) /\ place[n] \in Nat /\ K[n] \in Seq(S)
  BY <1>2
<1>5. place \in [0 .. L -> Nat]
  BY <1>4
<1> HIDE DEF place, L
<1>6. ASSUME NEW n \in 1 .. L
      PROVE  /\ s[n] \notin T => K[n] = K[n - 1] /\ place[n] = place[n - 1]
             /\ s[n] \in T => /\ place[n] = place[n - 1] + 1 /\ K[n][place[n]] = s[n]
                              /\ \A x \in 1 .. place[n - 1] : K[n][x] = K[n - 1][x]
  <2> DEFINE v == K[n - 1]
             e == s[n]
  <2>1. n \in 0 .. L /\ n - 1 \in 0 .. L
    BY <1>1, <1>6
  <2>2. v \in Seq(S) /\ e \in S /\ place[n - 1] = Len(v) /\ place[n] = Len(K[n])
    BY <1>3, <1>4, <2>1
  <2>3. K[n] = IF e \in T THEN Append(v, e) ELSE v
    BY <1>2, <1>6
  <2> HIDE DEF v, e
  <2>4. e \in T => Len(K[n]) = Len(v) + 1 /\ K[n][Len(v) + 1] = e /\ \A x \in 1 .. Len(v) : K[n][x] = v[x]
    BY <2>2, <2>3
  <2> QED BY <2>2, <2>3, <2>4 DEF v, e
<1>7. 0 \in P
  BY <1>1
<1>8. ASSUME NEW n \in 0 .. L, n # L, n \in P PROVE n + 1 \in P
  <2>1. n + 1 \in 1 .. L /\ n + 1 \in 0 .. L /\ (n + 1) - 1 = n /\ n \in Nat
    BY <1>1, <1>8
  <2>2. place[n] \in Nat /\ place[n + 1] \in Nat /\ There(n)
    BY <1>4, <1>8, <2>1
  <2>3. ASSUME NEW i \in 1 .. n + 1, s[i] \in T
        PROVE  place[i] \in 1 .. place[n + 1] /\ K[n + 1][place[i]] = s[i]
    <3>1. CASE i = n + 1
      BY <1>6, <2>1, <2>2, <2>3, <3>1
    <3>2. CASE i # n + 1
      <4>1. i \in 1 .. n
        BY <2>1, <3>2
      <4>2. place[i] \in 1 .. place[n] /\ K[n][place[i]] = s[i]
        BY <2>2, <2>3, <4>1
      <4>3. CASE s[n + 1] \in T
        <5>1. place[n + 1] = place[n] + 1 /\ \A x \in 1 .. place[n] : K[n + 1][x] = K[n][x]
          BY <1>6, <2>1, <4>3
        <5>2. place[i] \in 1 .. place[n + 1]
          BY <2>2, <4>2, <5>1
        <5> QED BY <4>2, <5>1, <5>2
      <4>4. CASE s[n + 1] \notin T
        BY <1>6, <2>1, <4>2, <4>4
      <4> QED BY <4>3, <4>4
    <3> QED BY <3>1, <3>2
  <2> QED BY <2>1, <2>3
<1>9. L \in P
  <2>1. \A n \in 0 .. L : n \in P
    <3> HIDE DEF P
    <3> QED BY <1>1, <1>7, <1>8, UpTo
  <2> QED BY <1>1, <2>1
<1>10. K[L] = Kept(s, T) /\ place[L] = Len(K[L]) /\ place[0] = 0
  BY <1>1, <1>2, <1>4 DEF K, L, Kept
<1>11. Counts(place, s, T)
  BY <1>5, <1>6, <1>9, <1>10 DEF L, Counts
<1> QED BY <1>11
=============================================================================
