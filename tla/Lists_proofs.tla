----------------------------- MODULE Lists_proofs -----------------------------
(***************************************************************************)
(* Facts about lists, for the other proofs.  The library states induction  *)
(* and recursion for operators, which the provers cannot instantiate; here *)
(* they are stated for sets and functions, and come from the smallest      *)
(* member of a set of naturals.                                            *)
(***************************************************************************)
EXTENDS Lists, SequenceTheorems, FiniteSetTheorems, WellFoundedInduction, TLAPS

\* A nonempty set of naturals has a smallest member.
LEMMA SmallestOf ==
  ASSUME NEW T, T \subseteq Nat, T # {}
  PROVE  \E n \in T : \A m \in T : n <= m
<1> DEFINE R == OpToRel(<, Nat)
<1>1. IsWellFoundedOn(R, Nat)
  BY NatLessThanWellFounded
<1>2. \A n, m \in Nat : m < n => <<m, n>> \in R
  BY DEF OpToRel
<1> HIDE DEF R
<1>3. PICK n \in T : \A m \in T : ~ (<<m, n>> \in R)
  BY <1>1, WFMin
<1>4. ASSUME NEW m \in T PROVE n <= m
  <2>1. m \in Nat /\ n \in Nat
    OBVIOUS
  <2>2. ~ (m < n)
    BY <1>2, <1>3, <2>1
  <2> QED
    BY <2>1, <2>2
<1> QED
  BY <1>4

\* Induction over the naturals up to N, for the set of those with a property.
LEMMA InductionUpTo ==
  ASSUME NEW N \in Nat, NEW P, 0 \in P,
         \A n \in 0..N : n # N /\ n \in P => n + 1 \in P
  PROVE  0..N \subseteq P
<1> DEFINE T == (0..N) \ P
<1>1. SUFFICES ASSUME T # {} PROVE FALSE
  OBVIOUS
<1>2. PICK n \in T : \A m \in T : n <= m
  <2>1. T \subseteq Nat
    OBVIOUS
  <2> HIDE DEF T
  <2> QED
    BY <1>1, <2>1, SmallestOf
<1>3. n \in 1..N /\ n - 1 \in 0..N /\ n - 1 # N /\ ~(n <= n - 1)
  BY <1>2
<1>4. n - 1 \in P
  BY <1>2, <1>3
<1>5. (n - 1) + 1 \in P
  BY <1>3, <1>4
<1> QED
  BY <1>2, <1>3, <1>5

\* What a recursive definition up to N makes of a value, from the place and
\* the value before, and the functions that it may define.
Makers(N, V) == [(1..N) \X V -> V]
DefinedBy(f, N, V, b, g) ==
  f \in [0..N -> V] /\ f[0] = b /\ \A n \in 1..N : f[n] = g[<<n, f[n - 1]>>]

\* There is one.
LEMMA RecursionUpTo ==
  ASSUME NEW N \in Nat, NEW V, NEW b \in V, NEW g \in Makers(N, V)
  PROVE  \E f : DefinedBy(f, N, V, b, g)
<1> USE DEF Makers
<1> DEFINE P == {k \in 0..N : \E f \in [0..k -> V] :
                    f[0] = b /\ \A n \in 1..k : f[n] = g[<<n, f[n - 1]>>]}
<1>1. 0 \in P
  <2> DEFINE e == [k \in 0..0 |-> b]
  <2>1. e \in [0..0 -> V] /\ e[0] = b /\ \A n \in 1..0 : e[n] = g[<<n, e[n - 1]>>]
    OBVIOUS
  <2>2. 0 \in 0..N
    OBVIOUS
  <2> HIDE DEF e
  <2> QED
    BY <2>1, <2>2
<1>2. ASSUME NEW k \in 0..N, k # N, k \in P PROVE k + 1 \in P
  <2>1. PICK f \in [0..k -> V] : f[0] = b /\ \A n \in 1..k : f[n] = g[<<n, f[n - 1]>>]
    BY <1>2
  <2>2. /\ k \in Nat /\ k + 1 \in 1..N /\ k + 1 \in 0..N
        /\ f[k] \in V /\ g[<<k + 1, f[k]>>] \in V
    BY <1>2, <2>1
  <2> DEFINE e == [n \in 0..(k + 1) |-> IF n = k + 1 THEN g[<<k + 1, f[k]>>] ELSE f[n]]
  <2>3. \A n \in 0..(k + 1) : n = k + 1 \/ n \in 0..k
    BY <2>2
  <2>4. e \in [0..(k + 1) -> V]
    BY <2>1, <2>2, <2>3
  <2>5. e[0] = b
    BY <2>1, <2>2
  <2>6. ASSUME NEW n \in 1..(k + 1) PROVE e[n] = g[<<n, e[n - 1]>>]
    <3>1. n - 1 \in 0..k /\ n - 1 # k + 1 /\ n - 1 \in 0..(k + 1) /\ n \in 0..(k + 1)
      BY <2>2
    <3>2. e[n - 1] = f[n - 1]
      BY <3>1
    <3>3. CASE n = k + 1
      BY <3>1, <3>2, <3>3, <2>2
    <3>4. CASE n # k + 1
      <4>1. n \in 1..k
        BY <2>2, <3>4
      <4> QED
        BY <4>1, <3>1, <3>2, <3>4, <2>1
    <3> QED
      BY <3>3, <3>4
  <2> HIDE DEF e
  <2> QED
    BY <2>2, <2>4, <2>5, <2>6
<1> HIDE DEF P
<1>3. 0..N \subseteq P
  BY <1>1, <1>2, InductionUpTo
<1> QED
  BY <1>3 DEF P, DefinedBy
-----------------------------------------------------------------------------
(* The sum of a list *)

\* What LET upTo[n \in 0..Len(s)] == ... stands for, and the equations it
\* satisfies.
LEMMA TotalEquations ==
  ASSUME NEW s \in Seq(Int)
  PROVE  \E f \in [0..Len(s) -> Int] :
            f[0] = 0 /\ (\A n \in 1..Len(s) : f[n] = f[n - 1] + s[n]) /\ TotalOf(s) = f[Len(s)]
<1> DEFINE N == Len(s)
           Body(h) == [n \in 0..N |-> IF n = 0 THEN 0 ELSE h[n - 1] + s[n]]
           f == CHOOSE h : h = Body(h)
           g == [p \in (1..N) \X Int |-> p[2] + s[p[1]]]
<1>1. N \in Nat /\ \A n \in 1..N : s[n] \in Int
  OBVIOUS
<1>2. g \in [(1..N) \X Int -> Int] /\ \A n \in 1..N, v \in Int : g[<<n, v>>] = v + s[n]
  BY <1>1
<1>3. \E h \in [0..N -> Int] : h[0] = 0 /\ \A n \in 1..N : h[n] = g[<<n, h[n - 1]>>]
  <2>1. g \in Makers(N, Int) /\ 0 \in Int
    BY <1>2 DEF Makers
  <2> HIDE DEF N, g, Body, f
  <2>2. \E h : DefinedBy(h, N, Int, 0, g)
    BY <1>1, <2>1, RecursionUpTo
  <2> QED
    BY <2>2 DEF DefinedBy
<1>4. PICK h \in [0..N -> Int] : h[0] = 0 /\ \A n \in 1..N : h[n] = h[n - 1] + s[n]
  <2>1. \A n \in 1..N : n - 1 \in 0..N
    BY <1>1
  <2> QED
    BY <1>2, <1>3, <2>1
<1>5. h = Body(h)
  <2>1. \A n \in 0..N : n = 0 \/ n \in 1..N
    BY <1>1
  <2> QED
    BY <1>4, <2>1
<1>6. f = Body(f)
  <2> HIDE DEF Body
  <2> QED
    BY <1>5
<1>7. TotalOf(s) = f[N]
  BY DEF TotalOf
<1> HIDE DEF f
<1>8. f[0] = 0 /\ \A n \in 1..N : f[n] = f[n - 1] + s[n]
  BY <1>1, <1>6
<1>9. \A n \in 0..N : f[n] \in Int
  <2> DEFINE P == {n \in 0..N : f[n] \in Int}
  <2>1. 0 \in P
    BY <1>1, <1>8
  <2>2. ASSUME NEW n \in 0..N, n # N, n \in P PROVE n + 1 \in P
    <3>1. n + 1 \in 1..N /\ n + 1 - 1 = n
      BY <1>1, <2>2
    <3> QED
      BY <1>1, <1>8, <2>2, <3>1
  <2>3. 0..N \subseteq P
    <3> HIDE DEF P, N
    <3> QED
      BY <1>1, <2>1, <2>2, InductionUpTo
  <2> QED
    BY <2>3
<1>10. f \in [0..N -> Int]
  BY <1>6, <1>9
<1> QED
  BY <1>7, <1>8, <1>10

LEMMA TotalEmpty == TotalOf(<<>>) = 0
<1>1. <<>> \in Seq(Int) /\ Len(<<>>) = 0
  OBVIOUS
<1> QED
  BY <1>1, TotalEquations

LEMMA TotalAppend ==
  ASSUME NEW s \in Seq(Int), NEW x \in Int
  PROVE  TotalOf(s) \in Int /\ TotalOf(Append(s, x)) = TotalOf(s) + x
<1> DEFINE t == Append(s, x)
<1>1. /\ t \in Seq(Int) /\ Len(t) = Len(s) + 1 /\ t[Len(s) + 1] = x
      /\ Len(s) \in Nat /\ \A n \in 1..Len(s) : t[n] = s[n]
  OBVIOUS
<1>2. PICK N \in Nat : N = Len(s)
  BY <1>1
<1> HIDE DEF t
<1>3. PICK f \in [0..N -> Int] :
        f[0] = 0 /\ (\A n \in 1..N : f[n] = f[n - 1] + s[n]) /\ TotalOf(s) = f[N]
  BY <1>2, TotalEquations
<1>4. PICK g \in [0..(N + 1) -> Int] :
        g[0] = 0 /\ (\A n \in 1..(N + 1) : g[n] = g[n - 1] + t[n]) /\ TotalOf(t) = g[N + 1]
  BY <1>1, <1>2, TotalEquations
<1> DEFINE P == {n \in 0..N : f[n] = g[n]}
<1>5. 0 \in P
  BY <1>3, <1>4
<1>6. ASSUME NEW n \in 0..N, n # N, n \in P PROVE n + 1 \in P
  <2>1. n + 1 \in 1..N /\ n + 1 \in 1..(N + 1) /\ n + 1 - 1 = n
    BY <1>6
  <2>2. f[n + 1] = f[n] + s[n + 1] /\ g[n + 1] = g[n] + t[n + 1] /\ t[n + 1] = s[n + 1]
    BY <1>1, <1>2, <1>3, <1>4, <2>1
  <2> QED
    BY <1>6, <2>1, <2>2
<1>7. N \in P
  <2>1. 0..N \subseteq P
    <3> HIDE DEF P
    <3> QED
      BY <1>5, <1>6, InductionUpTo
  <2> QED
    BY <2>1
<1>8. f[N] = g[N] /\ N + 1 \in 1..(N + 1) /\ N + 1 - 1 = N
  BY <1>7
<1> QED
  BY <1>1, <1>2, <1>3, <1>4, <1>8 DEF t

\* The sum of numbers that are not negative is not, and is positive as soon
\* as one of them is.
LEMMA TotalOfNaturals ==
  ASSUME NEW s \in Seq(Nat)
  PROVE  TotalOf(s) \in Nat /\ (TotalOf(s) > 0 <=> \E i \in DOMAIN s : s[i] > 0)
<1>1. PICK N \in Nat : N = Len(s)
  OBVIOUS
<1>2. s \in Seq(Int)
  OBVIOUS
<1>3. PICK f \in [0..N -> Int] :
        f[0] = 0 /\ (\A n \in 1..N : f[n] = f[n - 1] + s[n]) /\ TotalOf(s) = f[N]
  BY <1>1, <1>2, TotalEquations
<1> DEFINE P == {n \in 0..N : f[n] \in Nat /\ (f[n] > 0 <=> \E i \in 1..n : s[i] > 0)}
<1>4. 0 \in P
  BY <1>3
<1>5. ASSUME NEW n \in 0..N, n # N, n \in P PROVE n + 1 \in P
  <2>1. n + 1 \in 1..N /\ n + 1 \in 0..N /\ n + 1 - 1 = n /\ n \in Nat
    BY <1>5
  <2>2. f[n + 1] = f[n] + s[n + 1] /\ s[n + 1] \in Nat
    BY <1>1, <1>3, <2>1
  <2>3. \A i \in 1..(n + 1) : i \in 1..n \/ i = n + 1
    BY <2>1
  <2>4. 1..n \subseteq 1..(n + 1) /\ n + 1 \in 1..(n + 1)
    BY <2>1
  <2>5. f[n] \in Nat /\ (f[n] > 0 <=> \E i \in 1..n : s[i] > 0)
    BY <1>5
  <2>6. f[n + 1] \in Nat /\ (f[n + 1] > 0 <=> f[n] > 0 \/ s[n + 1] > 0)
    <3>1. PICK a \in Nat, b \in Nat : a = f[n] /\ b = s[n + 1] /\ f[n + 1] = a + b
      BY <2>2, <2>5
    <3>2. a + b \in Nat /\ (a + b > 0 <=> a > 0 \/ b > 0)
      OBVIOUS
    <3> QED
      BY <3>1, <3>2
  <2>7. (\E i \in 1..(n + 1) : s[i] > 0) <=> (\E i \in 1..n : s[i] > 0) \/ s[n + 1] > 0
    BY <2>3, <2>4
  <2> QED
    BY <2>1, <2>5, <2>6, <2>7
<1>6. N \in P
  <2>1. 0..N \subseteq P
    <3> HIDE DEF P
    <3> QED
      BY <1>4, <1>5, InductionUpTo
  <2> QED
    BY <2>1
<1>7. f[N] \in Nat /\ (f[N] > 0 <=> \E i \in 1..N : s[i] > 0) /\ DOMAIN s = 1..N
  BY <1>1, <1>6
<1> QED
  BY <1>3, <1>7
-----------------------------------------------------------------------------
(* The elements of a list that are in a set *)

SelectsUp(f, S, s, T) ==
  /\ f \in [0..Len(s) -> Seq(S)]
  /\ f[0] = <<>>
  /\ \A n \in 1..Len(s) : f[n] = IF s[n] \in T THEN Append(f[n - 1], s[n]) ELSE f[n - 1]
  /\ Only(s, T) = f[Len(s)]

LEMMA OnlyEquations ==
  ASSUME NEW S, NEW s \in Seq(S), NEW T
  PROVE  \E f : SelectsUp(f, S, s, T)
<1> DEFINE N == Len(s)
           Step(n, before) == IF s[n] \in T THEN Append(before, s[n]) ELSE before
           Body(h) == [n \in 0..N |-> IF n = 0 THEN <<>> ELSE Step(n, h[n - 1])]
           f == CHOOSE h : h = Body(h)
           g == [p \in (1..N) \X Seq(S) |-> Step(p[1], p[2])]
<1>1. N \in Nat /\ \A n \in 1..N : s[n] \in S
  OBVIOUS
<1>2. \A n \in 1..N, v \in Seq(S) : Step(n, v) \in Seq(S)
  BY <1>1, AppendProperties
<1>3. <<>> \in Seq(S)
  OBVIOUS
<1> HIDE DEF Step
<1>4. g \in Makers(N, Seq(S)) /\ \A n \in 1..N, v \in Seq(S) : g[<<n, v>>] = Step(n, v)
  BY <1>1, <1>2 DEF Makers
<1>5. \E h : DefinedBy(h, N, Seq(S), <<>>, g)
  <2> HIDE DEF N, g, Body, f
  <2> QED
    BY <1>1, <1>3, <1>4, RecursionUpTo
<1>6. PICK h \in [0..N -> Seq(S)] : h[0] = <<>> /\ \A n \in 1..N : h[n] = Step(n, h[n - 1])
  <2>1. \A n \in 1..N : n - 1 \in 0..N
    BY <1>1
  <2> HIDE DEF N, g, Body, f
  <2> QED
    BY <1>4, <1>5, <2>1 DEF DefinedBy
<1>7. h = Body(h)
  <2>1. \A n \in 0..N : n = 0 \/ n \in 1..N
    BY <1>1
  <2> QED
    BY <1>6, <2>1
<1>8. f = Body(f)
  <2> HIDE DEF Body
  <2> QED
    BY <1>7
<1>9. Only(s, T) = f[N]
  BY DEF Only, Step
<1> HIDE DEF f
<1>10. f[0] = <<>> /\ \A n \in 1..N : f[n] = Step(n, f[n - 1])
  BY <1>1, <1>8
<1>11. \A n \in 0..N : f[n] \in Seq(S)
  <2> DEFINE P == {n \in 0..N : f[n] \in Seq(S)}
  <2>1. 0 \in P
    <3>1. 0 \in 0..N
      BY <1>1
    <3> HIDE DEF N, g, Body
    <3> QED
      BY <3>1, <1>3, <1>10
  <2>2. ASSUME NEW n \in 0..N, n # N, n \in P PROVE n + 1 \in P
    <3>1. n + 1 \in 1..N /\ n + 1 - 1 = n
      BY <1>1, <2>2
    <3> QED
      BY <1>2, <1>10, <2>2, <3>1
  <2>3. 0..N \subseteq P
    <3> HIDE DEF P, N
    <3> QED
      BY <1>1, <2>1, <2>2, InductionUpTo
  <2> QED
    BY <2>3
<1>12. f \in [0..N -> Seq(S)]
  BY <1>8, <1>11
<1>13. SelectsUp(f, S, s, T)
  BY <1>9, <1>10, <1>12 DEF Step, SelectsUp
<1> QED
  BY <1>13

LEMMA OnlyOfNone == ASSUME NEW T PROVE Only(<<>>, T) = <<>>
<1>1. <<>> \in Seq({}) /\ Len(<<>>) = 0
  OBVIOUS
<1>2. PICK s \in Seq({}) : s = <<>> /\ Len(s) = 0
  BY <1>1
<1>3. PICK f : SelectsUp(f, {}, s, T)
  BY <1>2, OnlyEquations
<1> QED
  BY <1>2, <1>3 DEF SelectsUp

LEMMA OnlyAppend ==
  ASSUME NEW S, NEW s \in Seq(S), NEW T, NEW x \in S
  PROVE  /\ Only(s, T) \in Seq(S)
         /\ Only(Append(s, x), T) = IF x \in T THEN Append(Only(s, T), x) ELSE Only(s, T)
<1>1. PICK t \in Seq(S) : t = Append(s, x)
  BY AppendProperties
<1>2. PICK N \in Nat : N = Len(s)
  BY LenProperties
<1>3. Len(t) = N + 1 /\ t[N + 1] = x /\ \A n \in 1..N : t[n] = s[n]
  BY <1>1, <1>2, AppendProperties
<1>4. PICK f \in [0..N -> Seq(S)] :
        /\ f[0] = <<>>
        /\ \A n \in 1..N : f[n] = IF s[n] \in T THEN Append(f[n - 1], s[n]) ELSE f[n - 1]
        /\ Only(s, T) = f[N]
  <2>1. PICK f : SelectsUp(f, S, s, T)
    BY OnlyEquations
  <2> QED
    BY <1>2, <2>1 DEF SelectsUp
<1>5. PICK g \in [0..(N + 1) -> Seq(S)] :
        /\ g[0] = <<>>
        /\ \A n \in 1..(N + 1) : g[n] = IF t[n] \in T THEN Append(g[n - 1], t[n]) ELSE g[n - 1]
        /\ Only(t, T) = g[N + 1]
  <2>1. PICK g : SelectsUp(g, S, t, T)
    BY <1>1, OnlyEquations
  <2> QED
    BY <1>3, <2>1 DEF SelectsUp
<1> DEFINE P == {n \in 0..N : f[n] = g[n]}
<1>6. 0 \in P
  BY <1>4, <1>5
<1>7. ASSUME NEW n \in 0..N, n # N, n \in P PROVE n + 1 \in P
  <2>1. n + 1 \in 1..N /\ n + 1 \in 1..(N + 1) /\ n + 1 - 1 = n /\ n + 1 \in 0..N
    BY <1>7
  <2>2. PICK m \in 1..N : m = n + 1 /\ m \in 1..(N + 1) /\ m - 1 = n
    BY <2>1
  <2>3. f[m] = IF s[m] \in T THEN Append(f[n], s[m]) ELSE f[n]
    BY <1>4, <2>2
  <2>4. g[m] = IF t[m] \in T THEN Append(g[n], t[m]) ELSE g[n]
    BY <1>5, <2>2
  <2>5. t[m] = s[m] /\ f[n] = g[n]
    BY <1>3, <1>7, <2>2
  <2> QED
    BY <2>1, <2>2, <2>3, <2>4, <2>5
<1>8. N \in P
  <2>1. 0..N \subseteq P
    <3> HIDE DEF P
    <3> QED
      BY <1>6, <1>7, InductionUpTo
  <2> QED
    BY <2>1
<1>9. f[N] = g[N] /\ f[N] \in Seq(S) /\ N + 1 \in 1..(N + 1) /\ N + 1 - 1 = N
  BY <1>4, <1>8
<1>10. g[N + 1] = IF t[N + 1] \in T THEN Append(g[N], t[N + 1]) ELSE g[N]
  BY <1>5, <1>9
<1>11. Only(t, T) = IF x \in T THEN Append(f[N], x) ELSE f[N]
  BY <1>3, <1>5, <1>9, <1>10
<1> QED
  BY <1>1, <1>4, <1>9, <1>11

\* Only(s, T) is what is at some places of s, in their order, and these are the
\* places where s has something in T.
Selects(at, s, T, t, n) ==
  /\ at \in [1..Len(t) -> 1..n]
  /\ \A i, j \in 1..Len(t) : i < j => at[i] < at[j]
  /\ \A i \in 1..Len(t) : t[i] = s[at[i]] /\ t[i] \in T
  /\ \A m \in 1..n : s[m] \in T => \E i \in 1..Len(t) : at[i] = m
  /\ Len(t) <= n
  /\ (\E m \in 1..n : s[m] \notin T) => Len(t) < n

LEMMA OnlySelects ==
  ASSUME NEW S, NEW s \in Seq(S), NEW T
  PROVE  Only(s, T) \in Seq(S) /\ \E at : Selects(at, s, T, Only(s, T), Len(s))
<1>1. PICK N \in Nat : N = Len(s)
  OBVIOUS
<1>2. PICK f \in [0..N -> Seq(S)] :
        /\ f[0] = <<>>
        /\ \A n \in 1..N : f[n] = IF s[n] \in T THEN Append(f[n - 1], s[n]) ELSE f[n - 1]
        /\ Only(s, T) = f[N]
  BY <1>1, OnlyEquations DEF SelectsUp
<1> DEFINE P == {n \in 0..N : \E at : Selects(at, s, T, f[n], n)}
<1>3. 0 \in P
  <2> DEFINE at == [i \in {} |-> 0]
  <2>1. Len(f[0]) = 0 /\ 1..0 = {}
    BY <1>2
  <2>2. Selects(at, s, T, f[0], 0)
    BY <2>1 DEF Selects
  <2> HIDE DEF at
  <2> QED
    BY <2>2
<1>4. ASSUME NEW n \in 0..N, n # N, n \in P PROVE n + 1 \in P
  <2>1. n + 1 \in 1..N /\ n + 1 \in 0..N /\ n + 1 - 1 = n /\ n \in Nat
    BY <1>4
  <2>2. PICK at : Selects(at, s, T, f[n], n)
    BY <1>4
  <2>n. SUFFICES \E to : Selects(to, s, T, f[n + 1], n + 1)
    BY <2>1
  <2> HIDE DEF P
  <2>3. PICK t \in Seq(S) : t = f[n]
    BY <1>2
  <2>4. PICK l \in Nat : l = Len(t)
    OBVIOUS
  <2>5. \A m \in 1..(n + 1) : m \in 1..n \/ m = n + 1
    BY <2>1
  <2>6. CASE s[n + 1] \notin T
    <3>1. f[n + 1] = t
      BY <1>2, <2>1, <2>3, <2>6
    <3>2. at \in [1..l -> 1..n] /\ 1..n \subseteq 1..(n + 1)
      BY <2>1, <2>2, <2>3, <2>4 DEF Selects
    <3>3. at \in [1..l -> 1..(n + 1)]
      BY <3>2
    <3>4. l <= n /\ l <= n + 1 /\ l < n + 1
      BY <2>1, <2>2, <2>3, <2>4 DEF Selects
    <3>5. Selects(at, s, T, t, n + 1)
      BY <3>3, <3>4, <2>2, <2>3, <2>4, <2>5, <2>6 DEF Selects
    <3> QED
      BY <3>1, <3>5
  <2>7. CASE s[n + 1] \in T
    <3> DEFINE u == Append(t, s[n + 1])
               to == [i \in 1..(l + 1) |-> IF i = l + 1 THEN n + 1 ELSE at[i]]
    <3>1. f[n + 1] = u
      <4>1. f[n + 1] = IF s[n + 1] \in T THEN Append(f[n + 1 - 1], s[n + 1]) ELSE f[n + 1 - 1]
        BY <1>2, <2>1
      <4> QED
        BY <2>1, <2>3, <2>7, <4>1
    <3>2. s[n + 1] \in S
      BY <1>1, <2>1
    <3>3. Len(u) = l + 1 /\ u[l + 1] = s[n + 1] /\ \A i \in 1..l : u[i] = t[i]
      BY <2>4, <3>2
    <3>4. \A i \in 1..(l + 1) : i = l + 1 \/ i \in 1..l
      BY <2>4
    <3>5. /\ \A i \in 1..l : at[i] \in 1..n /\ to[i] = at[i]
          /\ to[l + 1] = n + 1
      BY <2>2, <2>3, <2>4 DEF Selects
    <3>6. to \in [1..(l + 1) -> 1..(n + 1)]
      <4>1. 1..n \subseteq 1..(n + 1) /\ n + 1 \in 1..(n + 1)
        BY <2>1
      <4>2. PICK M : M = 1..(n + 1)
        OBVIOUS
      <4>3. \A i \in 1..(l + 1) : IF i = l + 1 THEN n + 1 \in M ELSE at[i] \in M
        BY <3>4, <3>5, <4>1, <4>2
      <4> QED
        BY <4>2, <4>3
    <3> HIDE DEF u, to
    <3>7. \A i, j \in 1..(l + 1) : i < j => to[i] < to[j]
      <4>1. \A i, j \in 1..l : i < j => to[i] < to[j]
        BY <2>2, <2>3, <2>4, <3>5 DEF Selects
      <4>2. \A i \in 1..l : to[i] < to[l + 1]
        <5>1. \A k \in 1..n : k < n + 1
          BY <2>1
        <5> QED
          BY <3>5, <5>1
      <4>3. \A i, j \in 1..(l + 1) : i < j => i \in 1..l
        BY <2>4
      <4> QED
        BY <3>4, <4>1, <4>2, <4>3
    <3>8. \A i \in 1..(l + 1) : u[i] = s[to[i]] /\ u[i] \in T
      BY <2>2, <2>3, <2>4, <2>7, <3>3, <3>4, <3>5 DEF Selects
    <3>9. \A m \in 1..(n + 1) : s[m] \in T => \E i \in 1..(l + 1) : to[i] = m
      <4>1. l + 1 \in 1..(l + 1) /\ 1..l \subseteq 1..(l + 1)
        BY <2>4
      <4> QED
        BY <2>2, <2>3, <2>4, <2>5, <3>5, <4>1 DEF Selects
    <3>10. /\ l + 1 <= n + 1
           /\ (\E m \in 1..(n + 1) : s[m] \notin T) => l + 1 < n + 1
      BY <2>1, <2>2, <2>3, <2>4, <2>5, <2>7 DEF Selects
    <3>11. Selects(to, s, T, u, n + 1)
      BY <3>3, <3>6, <3>7, <3>8, <3>9, <3>10 DEF Selects
    <3> QED
      BY <3>1, <3>11
  <2> QED
    BY <2>6, <2>7
<1>5. N \in P
  <2>1. 0..N \subseteq P
    <3> HIDE DEF P
    <3> QED
      BY <1>3, <1>4, InductionUpTo
  <2> QED
    BY <2>1
<1> QED
  BY <1>1, <1>2, <1>5
-----------------------------------------------------------------------------
(* Sorting *)

\* R orders S strictly and totally.
Orders(R, S) ==
  /\ \A x \in S : <<x, x>> \notin R
  /\ \A x, y \in S : x = y \/ <<x, y>> \in R \/ <<y, x>> \in R
  /\ \A x, y, z \in S : <<x, y>> \in R /\ <<y, z>> \in R => <<x, z>> \in R

\* r goes through S in the order R, and through all of it.
GoesThrough(r, S, R, n) ==
  /\ r \in [1..n -> S]
  /\ \A i, j \in 1..n : i < j => <<r[i], r[j]>> \in R
  /\ \A x \in S : \E i \in 1..n : r[i] = x

\* A finite set has a last member.
LEMMA LastMember ==
  ASSUME NEW S, IsFiniteSet(S), S # {}, NEW R, Orders(R, S)
  PROVE  \E x \in S : \A y \in S \ {x} : <<y, x>> \in R
<1> DEFINE P == {n \in 0..Cardinality(S) :
                   \A T \in SUBSET S : Cardinality(T) = n /\ T # {} =>
                     \E x \in T : \A y \in T \ {x} : <<y, x>> \in R}
<1>1. PICK N \in Nat : N = Cardinality(S)
  BY FS_CardinalityType
<1>2. \A T \in SUBSET S : IsFiniteSet(T)
  BY FS_Subset
<1>3. 0 \in P
  <2>1. \A T \in SUBSET S : Cardinality(T) = 0 => T = {}
    BY <1>2, FS_EmptySet
  <2> QED
    BY <1>1, <2>1
<1>4. ASSUME NEW n \in 0..N, n # N, n \in P PROVE n + 1 \in P
  <2> SUFFICES ASSUME NEW T \in SUBSET S, Cardinality(T) = n + 1, T # {}
               PROVE  \E x \in T : \A y \in T \ {x} : <<y, x>> \in R
    BY <1>1, <1>4
  <2>1. PICK z \in T : TRUE
    OBVIOUS
  <2>2. Cardinality(T \ {z}) = n
    <3>1. Cardinality(T \ {z}) = Cardinality(T) - 1
      BY <1>2, <2>1, FS_RemoveElement
    <3> QED
      BY <3>1
  <2>3. CASE T \ {z} = {}
    BY <2>3
  <2>4. CASE T \ {z} # {}
    <3>1. PICK x \in T \ {z} : \A y \in (T \ {z}) \ {x} : <<y, x>> \in R
      <4>1. T \ {z} \in SUBSET S
        OBVIOUS
      <4> QED
        BY <1>1, <1>4, <2>2, <2>4, <4>1
    <3>2. <<z, x>> \in R \/ <<x, z>> \in R
      BY <2>1, <3>1 DEF Orders
    <3>3. CASE <<z, x>> \in R
      BY <3>1, <3>3
    <3>4. CASE <<x, z>> \in R
      <4>1. \A y \in T \ {z} : <<y, z>> \in R
        BY <2>1, <3>1, <3>4 DEF Orders
      <4> QED
        BY <2>1, <4>1
    <3> QED
      BY <3>2, <3>3, <3>4
  <2> QED
    BY <2>3, <2>4
<1>5. N \in P
  <2>1. 0..N \subseteq P
    <3> HIDE DEF P
    <3> QED
      BY <1>3, <1>4, InductionUpTo
  <2> QED
    BY <2>1
<1> QED
  BY <1>1, <1>5

LEMMA SortedExists ==
  ASSUME NEW S, IsFiniteSet(S), NEW R, Orders(R, S)
  PROVE  \E r : GoesThrough(r, S, R, Cardinality(S))
<1> DEFINE P == {n \in 0..Cardinality(S) :
                   \A T \in SUBSET S : Cardinality(T) = n => \E r : GoesThrough(r, T, R, n)}
<1>1. PICK N \in Nat : N = Cardinality(S)
  BY FS_CardinalityType
<1>2. \A T \in SUBSET S : IsFiniteSet(T) /\ Orders(R, T)
  BY FS_Subset DEF Orders
<1>3. 0 \in P
  <2>1. ASSUME NEW T \in SUBSET S, Cardinality(T) = 0 PROVE GoesThrough([i \in {} |-> 0], T, R, 0)
    <3>1. T = {} /\ 1..0 = {}
      BY <1>2, <2>1, FS_EmptySet
    <3> QED
      BY <3>1 DEF GoesThrough
  <2> QED
    BY <1>1, <2>1
<1>4. ASSUME NEW n \in 0..N, n # N, n \in P PROVE n + 1 \in P
  <2> SUFFICES ASSUME NEW T \in SUBSET S, Cardinality(T) = n + 1
               PROVE  \E r : GoesThrough(r, T, R, n + 1)
    BY <1>1, <1>4
  <2>0. T # {}
    BY <1>4, FS_EmptySet
  <2>1. PICK z \in T : \A y \in T \ {z} : <<y, z>> \in R
    <3>1. IsFiniteSet(T) /\ Orders(R, T)
      BY <1>2
    <3> QED
      BY <2>0, <3>1, LastMember
  <2>2. Cardinality(T \ {z}) = n
    <3>1. Cardinality(T \ {z}) = Cardinality(T) - 1
      BY <1>2, <2>1, FS_RemoveElement
    <3> QED
      BY <3>1
  <2>3. PICK r : GoesThrough(r, T \ {z}, R, n)
    <3>1. T \ {z} \in SUBSET S
      OBVIOUS
    <3> QED
      BY <1>1, <1>4, <2>2, <3>1
  <2> DEFINE u == [i \in 1..(n + 1) |-> IF i = n + 1 THEN z ELSE r[i]]
  <2>4. n \in Nat /\ n + 1 \in 1..(n + 1) /\ 1..n \subseteq 1..(n + 1)
        /\ \A i \in 1..(n + 1) : i = n + 1 \/ (i \in 1..n /\ i # n + 1)
    OBVIOUS
  <2>5. u[n + 1] = z /\ \A i \in 1..n : u[i] = r[i]
    BY <2>4
  <2>6. \A i \in 1..n : r[i] \in T \ {z}
    BY <2>3 DEF GoesThrough
  <2>7. u \in [1..(n + 1) -> T]
    BY <2>1, <2>4, <2>6
  <2> HIDE DEF u
  <2>8. ASSUME NEW i \in 1..(n + 1), NEW j \in 1..(n + 1), i < j PROVE <<u[i], u[j]>> \in R
    <3>1. i \in 1..n
      BY <2>4, <2>8
    <3>2. CASE j = n + 1
      BY <2>1, <2>5, <2>6, <3>1, <3>2
    <3>3. CASE j \in 1..n
      BY <2>3, <2>5, <2>8, <3>1, <3>3 DEF GoesThrough
    <3> QED
      BY <2>4, <3>2, <3>3
  <2>9. ASSUME NEW x \in T PROVE \E i \in 1..(n + 1) : u[i] = x
    <3>1. CASE x = z
      BY <2>4, <2>5, <3>1
    <3>2. CASE x # z
      <4>1. PICK i \in 1..n : r[i] = x
        BY <2>3, <3>2 DEF GoesThrough
      <4> QED
        BY <2>4, <2>5, <4>1
    <3> QED
      BY <3>1, <3>2
  <2>10. GoesThrough(u, T, R, n + 1)
    BY <2>7, <2>8, <2>9 DEF GoesThrough
  <2> QED
    BY <2>10
<1>5. N \in P
  <2>1. 0..N \subseteq P
    <3> HIDE DEF P
    <3> QED
      BY <1>3, <1>4, InductionUpTo
  <2> QED
    BY <2>1
<1> QED
  BY <1>1, <1>5

LEMMA SortedProperties ==
  ASSUME NEW S, IsFiniteSet(S), NEW R, Orders(R, S)
  PROVE  GoesThrough(Sorted(S, R), S, R, Cardinality(S))
<1>1. PICK n \in Nat : n = Cardinality(S)
  BY FS_CardinalityType
<1>2. PICK r : r = Sorted(S, R)
  OBVIOUS
<1>3. r \in [1..n -> S] /\ \A i, j \in 1..n : i < j => <<r[i], r[j]>> \in R
  <2>1. \E u \in [1..n -> S] : \A i, j \in 1..n : i < j => <<u[i], u[j]>> \in R
    BY <1>1, SortedExists DEF GoesThrough
  <2> QED
    BY <1>1, <1>2, <2>1 DEF Sorted
<1>4. \A i, j \in 1..n : r[i] = r[j] => i = j
  <2> SUFFICES ASSUME NEW i \in 1..n, NEW j \in 1..n, r[i] = r[j] PROVE i = j
    OBVIOUS
  <2>1. ~(i < j) /\ ~(j < i)
    BY <1>3 DEF Orders
  <2> QED
    BY <2>1
<1> DEFINE T == {r[i] : i \in 1..n}
<1>5. r \in Bijection(1..n, T)
  <2>1. r \in [1..n -> T]
    BY <1>3
  <2>2. r \in Injection(1..n, T)
    <3> HIDE DEF T
    <3> QED
      BY <1>4, <2>1 DEF Injection, IsInjective
  <2>3. \A x \in T : \E i \in 1..n : r[i] = x
    OBVIOUS
  <2>4. r \in Surjection(1..n, T)
    <3> HIDE DEF T
    <3> QED
      BY <2>1, <2>3 DEF Surjection
  <2> QED
    BY <2>2, <2>4 DEF Bijection
<1>6. T \in SUBSET S
  BY <1>3
<1>7. T = S
  <2>1. Cardinality(T) = n
    <3> HIDE DEF T
    <3> QED
      BY <1>5, FS_CountingElements DEF ExistsBijection
  <2> HIDE DEF T
  <2> QED
    BY <1>1, <1>6, <2>1, FS_Subset
<1>8. \A x \in S : \E i \in 1..n : r[i] = x
  BY <1>7
<1> QED
  BY <1>1, <1>2, <1>3, <1>8 DEF GoesThrough
-----------------------------------------------------------------------------
(* Induction over lists *)

\* What holds of a list if it holds of all shorter ones holds of every list.
LEMMA InductionOnLength ==
  ASSUME NEW S, NEW P,
         \A s \in Seq(S) : (\A t \in Seq(S) : Len(t) < Len(s) => t \in P) => s \in P
  PROVE  Seq(S) \subseteq P
<1> DEFINE T == {n \in Nat : \E s \in Seq(S) : Len(s) = n /\ s \notin P}
<1> SUFFICES ASSUME NEW s \in Seq(S), s \notin P PROVE FALSE
  OBVIOUS
<1>1. T \subseteq Nat /\ T # {}
  <2>1. Len(s) \in Nat
    OBVIOUS
  <2> QED
    BY <2>1
<1>2. PICK n \in T : \A m \in T : n <= m
  <2> HIDE DEF T
  <2> QED
    BY <1>1, SmallestOf
<1>3. PICK u \in Seq(S) : Len(u) = n /\ u \notin P
  BY <1>2
<1>4. ASSUME NEW t \in Seq(S), Len(t) < Len(u) PROVE t \in P
  <2>1. PICK m \in Nat : m = Len(t)
    OBVIOUS
  <2>2. n \in Nat /\ ~(n <= m)
    BY <1>3, <1>4, <2>1
  <2> QED
    BY <1>2, <2>1, <2>2
<1> QED
  BY <1>3, <1>4

\* What an element at the end keeps holds of every list if it holds of none.
LEMMA InductionByAppend ==
  ASSUME NEW S, NEW P, <<>> \in P,
         \A s \in Seq(S), x \in S : s \in P => Append(s, x) \in P
  PROVE  Seq(S) \subseteq P
<1>1. ASSUME NEW s \in Seq(S), \A t \in Seq(S) : Len(t) < Len(s) => t \in P PROVE s \in P
  <2>1. CASE s = <<>>
    BY <2>1
  <2>2. CASE s # <<>>
    <3>1. PICK n \in Nat : n = Len(s) /\ n # 0
      BY <2>2, EmptySeq
    <3>2. PICK t \in Seq(S) : t = SubSeq(s, 1, n - 1) /\ Len(t) = n - 1
      <4>1. SubSeq(s, 1, n - 1) \in Seq(S) /\ Len(SubSeq(s, 1, n - 1)) = n - 1
        BY <3>1
      <4> QED
        BY <4>1
    <3>3. s = Append(t, s[n]) /\ s[n] \in S
      BY <3>1, <3>2
    <3>4. Len(t) < Len(s)
      BY <3>1, <3>2
    <3> QED
      BY <1>1, <3>3, <3>4
  <2> QED
    BY <2>1, <2>2
<1> QED
  BY <1>1, InductionOnLength
-----------------------------------------------------------------------------
(* Folds *)

StepsOver(V, S) == [V \X S -> V]

\* f has what a fold makes of the elements of s so far.
FoldsUp(f, V, step, v, s) ==
  /\ f \in [0..Len(s) -> V]
  /\ f[0] = v /\ \A n \in 1..Len(s) : f[n] = step[<<f[n - 1], s[n]>>]
  /\ Folded(step, v, s) = f[Len(s)]

LEMMA FoldedEquations ==
  ASSUME NEW S, NEW V, NEW step \in StepsOver(V, S), NEW v \in V, NEW s \in Seq(S)
  PROVE  \E f : FoldsUp(f, V, step, v, s)
<1> DEFINE N == Len(s)
           Body(h) == [n \in 0..N |-> IF n = 0 THEN v ELSE step[<<h[n - 1], s[n]>>]]
           f == CHOOSE h : h = Body(h)
           g == [p \in (1..N) \X V |-> step[<<p[2], s[p[1]]>>]]
<1>1. N \in Nat /\ \A n \in 1..N : s[n] \in S
  OBVIOUS
<1>2. \A n \in 1..N, x \in V : step[<<x, s[n]>>] \in V
  BY <1>1 DEF StepsOver
<1>3. g \in Makers(N, V) /\ \A n \in 1..N, x \in V : g[<<n, x>>] = step[<<x, s[n]>>]
  BY <1>2 DEF Makers
<1>4. \E h : DefinedBy(h, N, V, v, g)
  <2> HIDE DEF N, g, Body, f
  <2> QED
    BY <1>1, <1>3, RecursionUpTo
<1>5. PICK h \in [0..N -> V] : h[0] = v /\ \A n \in 1..N : h[n] = step[<<h[n - 1], s[n]>>]
  <2>1. \A n \in 1..N : n - 1 \in 0..N
    BY <1>1
  <2> HIDE DEF N, g, Body, f
  <2> QED
    BY <1>3, <1>4, <2>1 DEF DefinedBy
<1>6. h = Body(h)
  <2>1. \A n \in 0..N : n = 0 \/ n \in 1..N
    BY <1>1
  <2> QED
    BY <1>5, <2>1
<1>7. f = Body(f)
  <2> HIDE DEF Body
  <2> QED
    BY <1>6
<1>8. Folded(step, v, s) = f[N]
  BY DEF Folded
<1> HIDE DEF f
<1>9. f[0] = v /\ \A n \in 1..N : f[n] = step[<<f[n - 1], s[n]>>]
  BY <1>1, <1>7
<1>10. \A n \in 0..N : f[n] \in V
  <2> DEFINE P == {n \in 0..N : f[n] \in V}
  <2>1. 0 \in P
    BY <1>1, <1>9
  <2>2. ASSUME NEW n \in 0..N, n # N, n \in P PROVE n + 1 \in P
    <3>1. n + 1 \in 1..N /\ n + 1 - 1 = n /\ n + 1 \in 0..N /\ f[n] \in V
      BY <1>1, <2>2
    <3>2. f[n + 1] = step[<<f[n], s[n + 1]>>]
      BY <1>9, <3>1
    <3> HIDE DEF N
    <3> QED
      BY <1>2, <3>1, <3>2
  <2>3. 0..N \subseteq P
    <3> HIDE DEF P, N
    <3> QED
      BY <1>1, <2>1, <2>2, InductionUpTo
  <2> QED
    BY <2>3
<1>11. f \in [0..N -> V]
  BY <1>7, <1>10
<1>12. FoldsUp(f, V, step, v, s)
  BY <1>8, <1>9, <1>11 DEF FoldsUp
<1> QED
  BY <1>12

LEMMA FoldedType ==
  ASSUME NEW S, NEW V, NEW step \in StepsOver(V, S), NEW v \in V, NEW s \in Seq(S)
  PROVE  Folded(step, v, s) \in V
<1>1. PICK f : FoldsUp(f, V, step, v, s)
  BY FoldedEquations
<1>2. Len(s) \in 0..Len(s)
  OBVIOUS
<1> QED
  BY <1>1, <1>2 DEF FoldsUp

LEMMA FoldedEmpty ==
  ASSUME NEW S, NEW V, NEW step \in StepsOver(V, S), NEW v \in V
  PROVE  Folded(step, v, <<>>) = v
<1>1. <<>> \in Seq(S) /\ Len(<<>>) = 0
  OBVIOUS
<1>2. PICK s \in Seq(S) : s = <<>> /\ Len(s) = 0
  BY <1>1
<1>3. PICK f : FoldsUp(f, V, step, v, s)
  BY <1>2, FoldedEquations
<1> QED
  BY <1>2, <1>3 DEF FoldsUp

LEMMA FoldedAppend ==
  ASSUME NEW S, NEW V, NEW step \in StepsOver(V, S), NEW v \in V, NEW s \in Seq(S), NEW x \in S
  PROVE  /\ Folded(step, v, s) \in V
         /\ Folded(step, v, Append(s, x)) = step[<<Folded(step, v, s), x>>]
<1>1. PICK t \in Seq(S) : t = Append(s, x)
  BY AppendProperties
<1>2. PICK N \in Nat : N = Len(s)
  BY LenProperties
<1>3. Len(t) = N + 1 /\ t[N + 1] = x /\ \A n \in 1..N : t[n] = s[n]
  BY <1>1, <1>2, AppendProperties
<1>4. PICK f \in [0..N -> V] :
        /\ f[0] = v /\ \A n \in 1..N : f[n] = step[<<f[n - 1], s[n]>>]
        /\ Folded(step, v, s) = f[N]
  BY <1>2, FoldedEquations DEF FoldsUp
<1>5. PICK g \in [0..(N + 1) -> V] :
        /\ g[0] = v /\ \A n \in 1..(N + 1) : g[n] = step[<<g[n - 1], t[n]>>]
        /\ Folded(step, v, t) = g[N + 1]
  <2>1. PICK g : FoldsUp(g, V, step, v, t)
    BY <1>1, FoldedEquations
  <2> QED
    BY <1>3, <2>1 DEF FoldsUp
<1> DEFINE P == {n \in 0..N : f[n] = g[n]}
<1>6. 0 \in P
  BY <1>4, <1>5
<1>7. ASSUME NEW n \in 0..N, n # N, n \in P PROVE n + 1 \in P
  <2>1. n + 1 \in 1..N /\ n + 1 \in 1..(N + 1) /\ n + 1 - 1 = n /\ n + 1 \in 0..N
    BY <1>7
  <2>2. f[n + 1] = step[<<f[n], s[n + 1]>>] /\ g[n + 1] = step[<<g[n], t[n + 1]>>]
    BY <1>4, <1>5, <2>1
  <2> QED
    BY <1>3, <1>7, <2>1, <2>2
<1>8. N \in P
  <2>1. 0..N \subseteq P
    <3> HIDE DEF P
    <3> QED
      BY <1>6, <1>7, InductionUpTo
  <2> QED
    BY <2>1
<1>9. f[N] = g[N] /\ f[N] \in V /\ N + 1 \in 1..(N + 1) /\ N + 1 - 1 = N
  BY <1>8
<1>10. g[N + 1] = step[<<g[N], x>>]
  BY <1>3, <1>5, <1>9
<1> QED
  BY <1>1, <1>4, <1>5, <1>9, <1>10

LEMMA FoldedConcat ==
  ASSUME NEW S, NEW V, NEW step \in StepsOver(V, S), NEW v \in V,
         NEW s \in Seq(S), NEW t \in Seq(S)
  PROVE  Folded(step, v, s \o t) = Folded(step, Folded(step, v, s), t)
<1>1. PICK w \in V : w = Folded(step, v, s)
  BY FoldedType
<1> DEFINE P == {u \in Seq(S) : Folded(step, v, s \o u) = Folded(step, w, u)}
<1>2. <<>> \in P
  <2>1. s \o <<>> = s /\ <<>> \in Seq(S)
    OBVIOUS
  <2> QED
    BY <1>1, <2>1, FoldedEmpty
<1>3. ASSUME NEW u \in Seq(S), NEW x \in S, u \in P PROVE Append(u, x) \in P
  <2>1. PICK r \in Seq(S) : r = s \o u
    BY ConcatProperties
  <2>2. s \o Append(u, x) = Append(r, x) /\ Append(u, x) \in Seq(S)
    BY <2>1
  <2>3. Folded(step, v, Append(r, x)) = step[<<Folded(step, v, r), x>>]
    BY FoldedAppend
  <2>4. Folded(step, w, Append(u, x)) = step[<<Folded(step, w, u), x>>]
    BY FoldedAppend
  <2> QED
    BY <1>3, <2>1, <2>2, <2>3, <2>4
<1>4. t \in P
  <2> HIDE DEF P
  <2> QED
    BY <1>2, <1>3, InductionByAppend
<1> QED
  BY <1>1, <1>4
-----------------------------------------------------------------------------
(* What is done again and again *)

\* A step from V to V is taken no times, or once more.
TakenAgain(step, v, V) ==
  /\ Iterated(step, v, 0) = v
  /\ \A n \in Nat :
       /\ Iterated(step, v, n) \in V
       /\ Iterated(step, v, n + 1) = step[Iterated(step, v, n)]

\* f has what the step makes of v up to N times.
StepsUp(f, step, v, V, N) ==
  /\ f \in [0..N -> V]
  /\ f[0] = v /\ \A n \in 1..N : f[n] = step[f[n - 1]]
  /\ Iterated(step, v, N) = f[N]

LEMMA IteratedEquations ==
  ASSUME NEW V, NEW step \in [V -> V], NEW v \in V, NEW N \in Nat
  PROVE  \E f : StepsUp(f, step, v, V, N)
<1> DEFINE Body(h) == [n \in 0..N |-> IF n = 0 THEN v ELSE step[h[n - 1]]]
           f == CHOOSE h : h = Body(h)
           g == [p \in (1..N) \X V |-> step[p[2]]]
<1>1. g \in Makers(N, V) /\ \A n \in 1..N, x \in V : g[<<n, x>>] = step[x]
  BY DEF Makers
<1>2. \E h : DefinedBy(h, N, V, v, g)
  <2> HIDE DEF g, Body, f
  <2> QED
    BY <1>1, RecursionUpTo
<1>3. PICK h \in [0..N -> V] : h[0] = v /\ \A n \in 1..N : h[n] = step[h[n - 1]]
  <2> HIDE DEF g, Body, f
  <2>1. PICK h : DefinedBy(h, N, V, v, g)
    BY <1>2
  <2>2. h \in [0..N -> V] /\ h[0] = v
    BY <2>1 DEF DefinedBy
  <2>3. ASSUME NEW n \in 1..N PROVE h[n] = step[h[n - 1]]
    <3>1. n - 1 \in 0..N /\ h[n - 1] \in V
      BY <2>2
    <3> QED
      BY <1>1, <2>1, <3>1 DEF DefinedBy
  <2> QED
    BY <2>2, <2>3
<1>4. h = Body(h)
  <2>1. \A n \in 0..N : n = 0 \/ n \in 1..N
    OBVIOUS
  <2> QED
    BY <1>3, <2>1
<1>5. f = Body(f)
  <2> HIDE DEF Body
  <2> QED
    BY <1>4
<1>6. Iterated(step, v, N) = f[N]
  BY DEF Iterated
<1> HIDE DEF f
<1>7. f[0] = v /\ \A n \in 1..N : f[n] = step[f[n - 1]]
  BY <1>5
<1>8. 0..N \subseteq {n \in 0..N : f[n] \in V}
  <2> DEFINE P == {n \in 0..N : f[n] \in V}
  <2>1. 0 \in P
    BY <1>7
  <2>2. ASSUME NEW n \in 0..N, n # N, n \in P PROVE n + 1 \in P
    <3>1. n + 1 \in 1..N /\ n + 1 - 1 = n /\ n + 1 \in 0..N /\ f[n] \in V
      BY <2>2
    <3>2. f[n + 1] = step[f[n]]
      BY <1>7, <3>1
    <3> QED
      BY <3>1, <3>2
  <2> HIDE DEF P
  <2>3. 0..N \subseteq P
    BY <2>1, <2>2, InductionUpTo
  <2> QED
    BY <2>3 DEF P
<1>9. f \in [0..N -> V]
  BY <1>5, <1>8
<1>10. StepsUp(f, step, v, V, N)
  BY <1>6, <1>7, <1>9 DEF StepsUp
<1> QED
  BY <1>10

LEMMA IteratedAgain ==
  ASSUME NEW V, NEW step \in [V -> V], NEW v \in V
  PROVE  TakenAgain(step, v, V)
<1>1. Iterated(step, v, 0) = v
  <2>1. PICK f : StepsUp(f, step, v, V, 0)
    BY IteratedEquations
  <2> QED
    BY <2>1 DEF StepsUp
<1>2. ASSUME NEW n \in Nat
      PROVE  /\ Iterated(step, v, n) \in V
             /\ Iterated(step, v, n + 1) = step[Iterated(step, v, n)]
  <2>1. PICK f : StepsUp(f, step, v, V, n)
    BY IteratedEquations
  <2>2. PICK m \in Nat : m = n + 1
    OBVIOUS
  <2>3. PICK g : StepsUp(g, step, v, V, m)
    BY IteratedEquations
  <2> DEFINE P == {k \in 0..n : f[k] = g[k]}
  <2>4. 0 \in P
    BY <2>1, <2>3 DEF StepsUp
  <2>5. ASSUME NEW k \in 0..n, k # n, k \in P PROVE k + 1 \in P
    <3>1. k + 1 \in 1..n /\ k + 1 \in 1..m /\ k + 1 - 1 = k
      BY <2>2, <2>5
    <3>2. f[k + 1] = step[f[k]] /\ g[k + 1] = step[g[k]]
      BY <2>1, <2>3, <3>1 DEF StepsUp
    <3> QED
      BY <2>5, <3>1, <3>2
  <2>6. f[n] = g[n]
    <3> HIDE DEF P
    <3>1. 0..n \subseteq P
      BY <2>4, <2>5, InductionUpTo
    <3> QED
      BY <3>1 DEF P
  <2>7. m \in 1..m /\ m - 1 = n /\ n \in 0..n
    BY <2>2
  <2>8. g[m] = step[g[m - 1]] /\ Iterated(step, v, m) = g[m]
    BY <2>3, <2>7 DEF StepsUp
  <2>9. Iterated(step, v, n) = f[n] /\ f[n] \in V
    BY <2>1, <2>7 DEF StepsUp
  <2> QED
    BY <2>2, <2>6, <2>7, <2>8, <2>9
<1> QED
  BY <1>1, <1>2 DEF TakenAgain

\* A set that every step lets grow, within finitely many members, has grown to
\* its full size after as many steps as there are members.
LEMMA IterationSettles ==
  ASSUME NEW S, IsFiniteSet(S), NEW step \in [SUBSET S -> SUBSET S],
         NEW v \in SUBSET S, \A X \in SUBSET S : X \subseteq step[X]
  PROVE  LET all == Iterated(step, v, Cardinality(S))
         IN  all \in SUBSET S /\ step[all] = all
<1>1. PICK N \in Nat : N = Cardinality(S)
  BY FS_CardinalityType
<1> DEFINE I(n) == Iterated(step, v, n)
<1>2. \A n \in Nat : I(n) \in SUBSET S /\ I(n + 1) = step[I(n)]
  <2>1. TakenAgain(step, v, SUBSET S)
    BY IteratedAgain
  <2> QED
    BY <2>1 DEF TakenAgain
<1> HIDE DEF I
<1> DEFINE P == {n \in Nat : step[I(n)] = I(n) \/ Cardinality(I(n)) >= n}
<1>3. \A n \in Nat : IsFiniteSet(I(n)) /\ Cardinality(I(n)) \in Nat
  BY <1>2, FS_Subset, FS_CardinalityType
<1>4. 0 \in P
  BY <1>3
<1>5. ASSUME NEW n \in 0..N, n # N, n \in P PROVE n + 1 \in P
  <2>1. n \in Nat /\ n + 1 \in Nat
    BY <1>5
  <2>2. CASE step[I(n)] = I(n)
    BY <1>2, <2>1, <2>2
  <2>3. CASE step[I(n)] # I(n)
    <3>1. I(n) \subseteq I(n + 1) /\ I(n) # I(n + 1)
      BY <1>2, <2>1, <2>3
    <3>2. PICK x \in I(n + 1) : x \notin I(n)
      BY <3>1
    <3>3. Cardinality(I(n) \cup {x}) = Cardinality(I(n)) + 1
      BY <1>3, <2>1, <3>2, FS_AddElement
    <3>4. I(n) \cup {x} \subseteq I(n + 1)
      BY <3>1, <3>2
    <3>5. Cardinality(I(n) \cup {x}) <= Cardinality(I(n + 1))
      BY <1>3, <2>1, <3>4, FS_Subset
    <3>6. Cardinality(I(n)) >= n
      BY <1>5, <2>3
    <3> QED
      BY <1>3, <2>1, <3>3, <3>5, <3>6
  <2> QED
    BY <2>2, <2>3
<1>6. N \in P
  <2> HIDE DEF P
  <2>1. 0..N \subseteq P
    BY <1>4, <1>5, InductionUpTo
  <2> QED
    BY <2>1
<1>7. step[I(N)] = I(N)
  <2>1. CASE Cardinality(I(N)) >= N
    <3>1. I(N) \subseteq S /\ Cardinality(I(N)) <= Cardinality(S)
      BY <1>2, FS_Subset
    <3>2. Cardinality(I(N)) = Cardinality(S)
      BY <1>1, <1>3, <2>1, <3>1
    <3>3. I(N) = S
      BY <3>1, <3>2, FS_Subset
    <3>4. step[S] \subseteq S /\ S \subseteq step[S]
      OBVIOUS
    <3> QED
      BY <3>3, <3>4
  <2> QED
    BY <1>6, <2>1
<1> QED
  BY <1>1, <1>2, <1>7 DEF I
-----------------------------------------------------------------------------
(* Recursion from a list to a shorter one *)

\* f has base for the lists in B, and for another list what more makes of it
\* and of the value of its cut.
CutEquation(f, t, B, base, more, cut) ==
  f[t] = IF t \in B THEN base[t] ELSE more[<<t, f[cut[t]]>>]

\* What a recursion on lists is made of.
CutRecursion(S, V, B, base, more, cut) ==
  /\ base \in [Seq(S) -> V]
  /\ more \in [Seq(S) \X V -> V]
  /\ cut \in [Seq(S) -> Seq(S)]
  /\ \A t \in Seq(S) : t \notin B => Len(cut[t]) < Len(t)

LEMMA RecursionOnLength ==
  ASSUME NEW S, NEW V, NEW B, NEW base, NEW more, NEW cut,
         CutRecursion(S, V, B, base, more, cut)
  PROVE  \E f \in [Seq(S) -> V] : \A t \in Seq(S) : CutEquation(f, t, B, base, more, cut)
<1> DEFINE Short(n) == {t \in Seq(S) : Len(t) <= n}
           Works(h, n) == /\ h \in [Short(n) -> V]
                          /\ \A t \in Short(n) : CutEquation(h, t, B, base, more, cut)
           P == {n \in Nat : \E h : Works(h, n)}
<1>1. /\ \A t \in Seq(S) : base[t] \in V /\ cut[t] \in Seq(S) /\ Len(t) \in Nat
      /\ \A t \in Seq(S), v \in V : more[<<t, v>>] \in V
      /\ \A t \in Seq(S) : t \notin B => Len(cut[t]) < Len(t)
  BY DEF CutRecursion
<1>2. \A n \in Nat : \A t \in Short(n) : t \notin B => cut[t] \in Short(n)
  <2> SUFFICES ASSUME NEW n \in Nat, NEW t \in Short(n), t \notin B PROVE cut[t] \in Short(n)
    OBVIOUS
  <2>1. PICK a \in Nat, b \in Nat : a = Len(t) /\ b = Len(cut[t]) /\ b < a /\ a <= n
    BY <1>1
  <2>2. b <= n
    BY <2>1
  <2> QED
    BY <1>1, <2>1, <2>2
<1>3. \A n \in Nat : n \in P
  <2> SUFFICES ASSUME NEW N \in Nat PROVE N \in P
    OBVIOUS
  <2> DEFINE Q == P \cap (0..N)
  <2>1. 0 \in Q
    <3> DEFINE h == [t \in Short(0) |-> base[t]]
    <3>1. \A t \in Short(0) : t \in B
      <4> SUFFICES ASSUME NEW t \in Short(0), t \notin B PROVE FALSE
        OBVIOUS
      <4>1. PICK a \in Nat, b \in Nat : a = Len(t) /\ b = Len(cut[t]) /\ b < a /\ a <= 0
        BY <1>1
      <4> QED
        BY <4>1
    <3>2. Works(h, 0)
      BY <1>1, <3>1 DEF CutEquation
    <3> HIDE DEF Works
    <3> QED
      BY <3>2
  <2>2. ASSUME NEW n \in 0..N, n # N, n \in Q PROVE n + 1 \in Q
    <3>1. PICK h : Works(h, n)
      BY <2>2
    <3> DEFINE k == [t \in Short(n + 1) |->
                       IF t \in Short(n) THEN h[t]
                       ELSE IF t \in B THEN base[t] ELSE more[<<t, h[cut[t]]>>]]
    <3>2. \A t \in Short(n + 1) : t \notin B => cut[t] \in Short(n)
      <4> SUFFICES ASSUME NEW t \in Short(n + 1), t \notin B PROVE cut[t] \in Short(n)
        OBVIOUS
      <4>1. PICK a \in Nat, b \in Nat : a = Len(t) /\ b = Len(cut[t]) /\ b < a /\ a <= n + 1
        BY <1>1
      <4>2. b <= n
        BY <4>1
      <4> QED
        BY <1>1, <4>1, <4>2
    <3>3. \A t \in Short(n) : t \in Short(n + 1)
      BY <1>1
    <3> HIDE DEF Short
    <3>4. k \in [Short(n + 1) -> V]
      <4>1. \A t \in Short(n) : h[t] \in V
        BY <3>1
      <4>2. \A t \in Short(n + 1) : t \in Seq(S)
        BY DEF Short
      <4> QED
        BY <1>1, <3>2, <4>1, <4>2
    <3>5. \A t \in Short(n) : k[t] = h[t]
      BY <3>3
    <3>6. ASSUME NEW t \in Short(n + 1) PROVE CutEquation(k, t, B, base, more, cut)
      <4>1. CASE t \in Short(n)
        <5>1. t \notin B => k[cut[t]] = h[cut[t]]
          BY <3>2, <3>5, <3>6
        <5>2. k[t] = h[t] /\ CutEquation(h, t, B, base, more, cut)
          BY <3>1, <3>5, <4>1
        <5> HIDE DEF k
        <5> QED
          BY <5>1, <5>2 DEF CutEquation
      <4>2. CASE t \notin Short(n)
        <5>1. t \notin B => k[cut[t]] = h[cut[t]]
          BY <3>2, <3>5, <3>6
        <5>2. k[t] = IF t \in B THEN base[t] ELSE more[<<t, h[cut[t]]>>]
          BY <3>6, <4>2
        <5> HIDE DEF k
        <5> QED
          BY <5>1, <5>2 DEF CutEquation
      <4> QED
        BY <4>1, <4>2
    <3>7. Works(k, n + 1)
      BY <3>4, <3>6
    <3> HIDE DEF Works
    <3> QED
      BY <2>2, <3>7
  <2>3. 0..N \subseteq Q
    <3> HIDE DEF Q
    <3> QED
      BY <2>1, <2>2, InductionUpTo
  <2>4. N \in 0..N
    OBVIOUS
  <2> HIDE DEF P
  <2> QED
    BY <2>3, <2>4
\* Two of them agree.
<1> DEFINE U == {t \in Seq(S) : \A n, m \in Nat : \A h, k :
                   Works(h, n) /\ Works(k, m) /\ t \in Short(n) /\ t \in Short(m) => h[t] = k[t]}
<1>4. Seq(S) \subseteq U
  <2>1. ASSUME NEW t \in Seq(S), \A u \in Seq(S) : Len(u) < Len(t) => u \in U
        PROVE  t \in U
    <3> SUFFICES ASSUME NEW n \in Nat, NEW m \in Nat, NEW h, NEW k,
                        Works(h, n), Works(k, m), t \in Short(n), t \in Short(m)
                 PROVE  h[t] = k[t]
      OBVIOUS
    <3>1. /\ CutEquation(h, t, B, base, more, cut)
          /\ CutEquation(k, t, B, base, more, cut)
      OBVIOUS
    <3>2. CASE t \in B
      BY <3>1, <3>2 DEF CutEquation
    <3>3. CASE t \notin B
      <4>1. cut[t] \in U /\ cut[t] \in Short(n) /\ cut[t] \in Short(m)
        BY <1>1, <1>2, <2>1, <3>3
      <4>2. h[cut[t]] = k[cut[t]]
        <5> HIDE DEF Works, Short
        <5> QED
          BY <4>1
      <4> QED
        BY <3>1, <3>3, <4>2 DEF CutEquation
    <3> QED
      BY <3>2, <3>3
  <2> HIDE DEF U
  <2> QED
    BY <2>1, InductionOnLength
<1> DEFINE pick(t) == CHOOSE h : Works(h, Len(t))
           f == [t \in Seq(S) |-> pick(t)[t]]
<1>5. \A t \in Seq(S) : Works(pick(t), Len(t)) /\ t \in Short(Len(t))
  <2> SUFFICES ASSUME NEW t \in Seq(S) PROVE Works(pick(t), Len(t)) /\ t \in Short(Len(t))
    OBVIOUS
  <2>1. Len(t) \in Nat
    OBVIOUS
  <2>2. \E h : Works(h, Len(t))
    <3> HIDE DEF Works
    <3> QED
      BY <1>3, <2>1
  <2>3. Works(pick(t), Len(t))
    <3> HIDE DEF Works
    <3> QED
      BY <2>2
  <2>4. t \in Short(Len(t))
    BY <2>1
  <2> HIDE DEF Works, Short, pick
  <2> QED
    BY <2>3, <2>4
<1>6. f \in [Seq(S) -> V]
  <2>1. \A t \in Seq(S) : pick(t)[t] \in V
    <3> HIDE DEF pick, Short
    <3> QED
      BY <1>5
  <2> HIDE DEF pick
  <2> QED
    BY <2>1
<1>7. ASSUME NEW t \in Seq(S) PROVE CutEquation(f, t, B, base, more, cut)
  <2>1. PICK h : h = pick(t)
    OBVIOUS
  <2>2. Works(h, Len(t)) /\ t \in Short(Len(t)) /\ f[t] = h[t]
    BY <1>5, <2>1
  <2>3. CutEquation(h, t, B, base, more, cut)
    <3> HIDE DEF Short
    <3> QED
      BY <2>2
  <2>4. CASE t \in B
    <3> HIDE DEF f, Works, Short
    <3> QED
      BY <2>2, <2>3, <2>4 DEF CutEquation
  <2>5. CASE t \notin B
    <3>1. PICK c \in Seq(S) : c = cut[t]
      BY <1>1
    <3>2. PICK k : k = pick(c)
      OBVIOUS
    <3>3. Works(k, Len(c)) /\ c \in Short(Len(c)) /\ f[c] = k[c]
      BY <1>5, <3>1, <3>2
    <3>4. c \in Short(Len(t)) /\ Len(t) \in Nat /\ Len(c) \in Nat
      <4>1. Len(t) \in Nat /\ Len(c) \in Nat
        BY <3>1
      <4> HIDE DEF Short
      <4> QED
        BY <1>2, <2>2, <2>5, <3>1, <4>1
    <3>5. k[c] = h[c]
      <4>1. c \in U
        <5> HIDE DEF U
        <5> QED
          BY <1>4, <3>1
      <4> HIDE DEF Works, Short
      <4> QED
        BY <2>2, <3>3, <3>4, <4>1
    <3> HIDE DEF f, Works, Short
    <3> QED
      BY <2>2, <2>3, <2>5, <3>1, <3>3, <3>5 DEF CutEquation
  <2> QED
    BY <2>4, <2>5
<1> HIDE DEF f
<1> QED
  BY <1>6, <1>7
-----------------------------------------------------------------------------
(* Lists put together *)

\* An appended list, as a function.
GrownBy(t, s, x, S) ==
  \E n \in Nat : /\ n = Len(s) /\ n + 1 = Len(t)
                 /\ t \in [1..(n + 1) -> S]
                 /\ t[n + 1] = x
                 /\ \A i \in 1..n : t[i] = s[i]

LEMMA AppendAs ==
  ASSUME NEW S, NEW s \in Seq(S), NEW x \in S
  PROVE  GrownBy(Append(s, x), s, x, S)
<1>1. PICK t \in Seq(S) : t = Append(s, x)
  BY AppendProperties
<1>2. PICK n \in Nat : n = Len(s)
  BY LenProperties
<1>3. Len(t) = n + 1 /\ t[n + 1] = x /\ \A i \in 1..n : t[i] = s[i]
  BY <1>1, <1>2, AppendProperties
<1>4. t \in [1..(n + 1) -> S]
  BY <1>3, LenProperties
<1> QED
  BY <1>1, <1>2, <1>3, <1>4 DEF GrownBy

AppendsAfter(s, t, x) == Append(s \o t, x) = s \o Append(t, x)

LEMMA AppendToConcat ==
  ASSUME NEW S, NEW s \in Seq(S), NEW t \in Seq(S), NEW x \in S
  PROVE  AppendsAfter(s, t, x)
BY DEF AppendsAfter

Regroups(s, t, u) == (s \o t) \o u = s \o (t \o u)

LEMMA ConcatRegroups ==
  ASSUME NEW S, NEW s \in Seq(S), NEW t \in Seq(S), NEW u \in Seq(S)
  PROVE  Regroups(s, t, u)
BY ConcatAssociative DEF Regroups

\* The first of a list is put at the end of another.
MovesFirst(s, t) == Append(s, Head(t)) \o Tail(t) = s \o t

LEMMA FirstMoves ==
  ASSUME NEW S, NEW s \in Seq(S), NEW t \in Seq(S), t # <<>>
  PROVE  MovesFirst(s, t) /\ Append(s, Head(t)) \in Seq(S) /\ Tail(t) \in Seq(S)
<1>1. PICK x \in S, u \in Seq(S) : x = Head(t) /\ u = Tail(t)
  BY HeadTailProperties
<1>2. t = <<x>> \o u
  BY <1>1
<1>3. Append(s, x) \o u = s \o (<<x>> \o u)
  BY <1>1
<1>4. Append(s, x) \in Seq(S)
  BY <1>1, AppendProperties
<1> QED
  BY <1>1, <1>2, <1>3, <1>4 DEF MovesFirst
=============================================================================
