----------------------------- MODULE Sieve_proofs -----------------------------
(***************************************************************************)
(* What sifting a sequence leaves and keeps, by induction on its length in *)
(* the form of a least counterexample; and which elements of a finite set  *)
(* an order puts first.                                                    *)
(***************************************************************************)
EXTENDS Sieve, SequenceTheorems, FiniteSetTheorems, NaturalsInduction, WellFoundedInduction,
        TLAPS

LEMMA LeastNatural ==
  ASSUME NEW T, T \subseteq Nat, T # {}
  PROVE  \E x \in T : \A y \in T : x <= y
<1> DEFINE Less == {p \in Nat \X Nat : p[1] < p[2]}
<1>1. IsWellFoundedOn(Less, Nat)
  BY NatLessThanWellFounded DEF OpToRel
<1>2. \A x, y \in Nat : y < x => <<y, x>> \in Less
  OBVIOUS
<1> HIDE DEF Less
<1>3. PICK x \in T : \A y \in T : ~(<<y, x>> \in Less)
  BY <1>1, WFMin
<1>4. ASSUME NEW y \in T PROVE x <= y
  <2>1. <<y, x>> \notin Less
    BY <1>3
  <2>2. x \in Nat /\ y \in Nat /\ ~(y < x)
    BY <1>2, <2>1
  <2> QED BY <2>2
<1> QED BY <1>4

(* Induction over 0..N, for a set of numbers that holds what is proved.    *)
LEMMA UpTo ==
  ASSUME NEW N \in Nat, NEW T, 0 \in T, \A n \in 1..N : n - 1 \in T => n \in T
  PROVE  \A n \in 0..N : n \in T
<1> DEFINE Missing == {n \in 0..N : n \notin T}
<1>1. SUFFICES ASSUME Missing # {} PROVE FALSE
  OBVIOUS
<1>2. PICK n \in Missing : \A m \in Missing : n <= m
  <2>1. Missing \subseteq Nat
    OBVIOUS
  <2> HIDE DEF Missing
  <2> QED BY <1>1, <2>1, LeastNatural
<1>3. n \in 1..N /\ n - 1 \in 0..N /\ n - 1 \notin Missing
  BY <1>2
<1> QED BY <1>2, <1>3

(* The recursion that Sieve states has a solution.                         *)
LEMMA SieveDef ==
  ASSUME NEW s, Len(s) \in Nat, NEW keep
  PROVE  /\ DOMAIN Sieve(s, keep) = 0..Len(s)
         /\ Sieve(s, keep)[0] = <<>>
         /\ \A n \in 1..Len(s) :
              Sieve(s, keep)[n] = IF s[n] \in keep THEN Append(Sieve(s, keep)[n - 1], s[n])
                                  ELSE Sieve(s, keep)[n - 1]
<1> DEFINE F(f) == [n \in 0..Len(s) |->
                      IF n = 0 THEN <<>>
                      ELSE IF s[n] \in keep THEN Append(f[n - 1], s[n])
                      ELSE f[n - 1]]
           Step(f, n) == IF n = 0 THEN <<>>
                         ELSE IF s[n] \in keep THEN Append(f[n - 1], s[n])
                         ELSE f[n - 1]
           Partial(n, f) == f = [m \in 0..n |-> Step(f, m)]
           T == {n \in 0..Len(s) : \E f : Partial(n, f)}
<1>1. 0 \in T
  <2> DEFINE f == [m \in 0..0 |-> <<>>]
  <2>1. Partial(0, f) /\ 0 \in 0..Len(s)
    OBVIOUS
  <2> HIDE DEF Partial
  <2> QED BY <2>1
<1>2. ASSUME NEW n \in 1..Len(s), n - 1 \in T PROVE n \in T
  <2>1. PICK f : Partial(n - 1, f)
    BY <1>2
  <2> DEFINE g == [m \in 0..n |-> IF m = n THEN Step(f, n) ELSE f[m]]
  <2>2. \A m \in 0..n : g[m] = Step(g, m)
    <3>1. SUFFICES ASSUME NEW m \in 0..n PROVE g[m] = Step(g, m)
      OBVIOUS
    <3>2. m # 0 => m - 1 \in 0..(n - 1) /\ g[m - 1] = f[m - 1]
      OBVIOUS
    <3>3. Step(g, m) = Step(f, m)
      BY <3>2
    <3>4. m # n => m \in 0..(n - 1) /\ f[m] = Step(f, m)
      <4> HIDE DEF Step
      <4> QED BY <2>1
    <3> HIDE DEF Step
    <3> QED BY <3>3, <3>4
  <2>3. Partial(n, g)
    <3> HIDE DEF Step
    <3>1. DOMAIN g = 0..n /\ g = [m \in 0..n |-> g[m]]
      OBVIOUS
    <3> HIDE DEF g
    <3> QED BY <2>2, <3>1
  <2>4. n \in 0..Len(s)
    OBVIOUS
  <2> HIDE DEF Partial
  <2> QED BY <2>3, <2>4
<1>3. Len(s) \in T
  <2>1. Len(s) \in 0..Len(s)
    OBVIOUS
  <2> HIDE DEF T
  <2> QED BY <1>1, <1>2, <2>1, UpTo
<1>4. PICK f : f = F(f)
  BY <1>3
<1>5. Sieve(s, keep) = CHOOSE g : g = F(g)
  BY DEF Sieve
<1> HIDE DEF F
<1>6. Sieve(s, keep) = F(Sieve(s, keep))
  BY <1>4, <1>5
<1> DEFINE left == Sieve(s, keep)
<1>7. left = F(left)
  BY <1>6
<1> HIDE DEF left
<1>8. /\ DOMAIN left = 0..Len(s)
      /\ left[0] = <<>>
      /\ \A n \in 1..Len(s) :
           left[n] = IF s[n] \in keep THEN Append(left[n - 1], s[n]) ELSE left[n - 1]
  <2>1. \A n \in 1..Len(s) : n \in 0..Len(s) /\ n # 0
    OBVIOUS
  <2>2. 0 \in 0..Len(s)
    OBVIOUS
  <2>3. \A n \in 0..Len(s) : left[n] = Step(left, n)
    BY <1>7 DEF F
  <2>4. DOMAIN left = 0..Len(s)
    BY <1>7 DEF F
  <2> QED BY <2>1, <2>2, <2>3, <2>4
<1> QED BY <1>8 DEF left

-----------------------------------------------------------------------------
(* The first n elements of s leave t, each of its places k coming from     *)
(* place from[k].                                                          *)
Leave(s, n, keep, t, from) ==
  /\ Len(t) <= n
  /\ from \in [1..Len(t) -> 1..n]
  /\ \A k \in 1..Len(t) : /\ t[k] = s[from[k]] /\ s[from[k]] \in keep
                          /\ Len(t) - k <= n - from[k]
  /\ \A j, k \in 1..Len(t) : j < k => from[j] < from[k]
  /\ \A i \in 1..n : s[i] \in keep => \E k \in 1..Len(t) : from[k] = i

LEMMA SieveLeaves ==
  ASSUME NEW S, NEW s \in Seq(S), NEW keep
  PROVE  \A n \in 0..Len(s) : /\ Sieve(s, keep)[n] \in Seq(S)
                              /\ \E from : Leave(s, n, keep, Sieve(s, keep)[n], from)
<1> DEFINE left == Sieve(s, keep)
           T == {n \in 0..Len(s) : /\ left[n] \in Seq(S)
                                   /\ \E from : Leave(s, n, keep, left[n], from)}
<1>1. /\ left[0] = <<>>
      /\ \A n \in 1..Len(s) :
           left[n] = IF s[n] \in keep THEN Append(left[n - 1], s[n]) ELSE left[n - 1]
  BY SieveDef
<1> HIDE DEF left
<1>2. 0 \in T
  <2> DEFINE from == [k \in 1..0 |-> 0]
  <2>1. Leave(s, 0, keep, <<>>, from)
    BY DEF Leave
  <2>2. 0 \in 0..Len(s) /\ <<>> \in Seq(S)
    OBVIOUS
  <2> HIDE DEF from
  <2> QED BY <1>1, <2>1, <2>2
<1>3. ASSUME NEW n \in 1..Len(s), n - 1 \in T PROVE n \in T
  <2> DEFINE t == left[n - 1]
             u == left[n]
  <2>1. n \in 0..Len(s) /\ n \in Nat /\ n - 1 \in Nat /\ s[n] \in S
    OBVIOUS
  <2>2. t \in Seq(S) /\ \E from : Leave(s, n - 1, keep, t, from)
    BY <1>3
  <2>3. PICK from : Leave(s, n - 1, keep, t, from)
    BY <2>2
  <2>4. u = IF s[n] \in keep THEN Append(t, s[n]) ELSE t
    BY <1>1
  <2> HIDE DEF t, u
  <2>5. u \in Seq(S) /\ \E g : Leave(s, n, keep, u, g)
    <3>1. CASE s[n] \notin keep
      <4>1. u = t
        BY <2>4, <3>1
      <4>2. Leave(s, n, keep, t, from)
        <5>1. \A i \in 1..n : i = n \/ i \in 1..(n - 1)
          BY <2>1
        <5>2. from \in [1..Len(t) -> 1..n] /\ Len(t) <= n
          BY <2>1, <2>2, <2>3 DEF Leave
        <5>3. \A k \in 1..Len(t) : Len(t) - k <= n - from[k]
          <6>1. SUFFICES ASSUME NEW k \in 1..Len(t) PROVE Len(t) - k <= n - from[k]
            OBVIOUS
          <6>2. Len(t) - k <= (n - 1) - from[k]
            BY <2>3 DEF Leave
          <6>3. from[k] \in 1..(n - 1)
            BY <2>3 DEF Leave
          <6>4. Len(t) \in Nat /\ k \in 1..Len(t)
            BY <2>2
          <6> QED BY ONLY <2>1, <6>2, <6>3, <6>4
        <5> QED BY <2>3, <3>1, <5>1, <5>2, <5>3 DEF Leave
      <4> QED BY <2>2, <4>1, <4>2
    <3>2. CASE s[n] \in keep
      <4> DEFINE g == [k \in 1..(Len(t) + 1) |-> IF k = Len(t) + 1 THEN n ELSE from[k]]
      <4>1. u = Append(t, s[n]) /\ Len(t) \in Nat
        BY <2>2, <2>4, <3>2
      <4>2. u \in Seq(S) /\ Len(u) = Len(t) + 1 /\ u[Len(t) + 1] = s[n]
        BY <2>1, <2>2, <4>1
      <4>3. \A k \in 1..Len(t) : u[k] = t[k]
        BY <2>2, <4>1
      <4>4. \A k \in 1..Len(t) : from[k] \in 1..(n - 1) /\ Len(t) - k <= (n - 1) - from[k]
        BY <2>3 DEF Leave
      <4>5. \A k \in 1..Len(u) : k = Len(t) + 1 \/ k \in 1..Len(t)
        BY <4>1, <4>2
      <4>6. Len(u) <= n
        BY <2>1, <2>3, <4>1, <4>2 DEF Leave
      <4>7. g \in [1..Len(u) -> 1..n]
        BY <2>1, <4>1, <4>2, <4>4
      <4>8. /\ \A k \in 1..Len(t) : g[k] = from[k]
            /\ g[Len(t) + 1] = n /\ Len(t) + 1 \in 1..Len(u)
        BY <4>1, <4>2
      <4> HIDE DEF g
      <4>9. \A k \in 1..Len(u) : /\ u[k] = s[g[k]] /\ s[g[k]] \in keep
                                 /\ Len(u) - k <= n - g[k]
        <5>1. SUFFICES ASSUME NEW k \in 1..Len(u)
                       PROVE  /\ u[k] = s[g[k]] /\ s[g[k]] \in keep
                              /\ Len(u) - k <= n - g[k]
          OBVIOUS
        <5>2. CASE k = Len(t) + 1
          BY <2>1, <3>2, <4>1, <4>2, <4>8, <5>2
        <5>3. CASE k \in 1..Len(t)
          <6>1. u[k] = s[g[k]] /\ s[g[k]] \in keep
            BY <2>3, <4>3, <4>8, <5>3 DEF Leave
          <6>2. from[k] \in 1..(n - 1) /\ Len(t) - k <= (n - 1) - from[k] /\ g[k] = from[k]
            BY <4>4, <4>8, <5>3
          <6>3. (Len(t) + 1) - k <= n - from[k]
            BY <2>1, <4>1, <6>2
          <6> QED BY <4>2, <6>1, <6>2, <6>3
        <5> QED BY <4>5, <5>2, <5>3
      <4>10. \A j, k \in 1..Len(u) : j < k => g[j] < g[k]
        <5>1. SUFFICES ASSUME NEW j \in 1..Len(u), NEW k \in 1..Len(u), j < k PROVE g[j] < g[k]
          OBVIOUS
        <5>2. j \in 1..Len(t)
          BY <4>1, <4>2, <5>1
        <5>3. CASE k = Len(t) + 1
          <6>1. g[j] \in 1..(n - 1) /\ g[k] = n
            BY <4>4, <4>8, <5>2, <5>3
          <6> QED BY <2>1, <6>1
        <5>4. CASE k \in 1..Len(t)
          BY <2>3, <4>8, <5>1, <5>2, <5>4 DEF Leave
        <5> QED BY <4>5, <5>3, <5>4
      <4>11. ASSUME NEW i \in 1..n, s[i] \in keep PROVE \E k \in 1..Len(u) : g[k] = i
        <5>1. CASE i = n
          BY <4>8, <5>1
        <5>2. CASE i # n
          <6>1. i \in 1..(n - 1)
            BY <2>1, <5>2
          <6>2. PICK k \in 1..Len(t) : from[k] = i
            BY <2>3, <4>11, <6>1 DEF Leave
          <6>3. k \in 1..Len(u) /\ g[k] = i
            BY <4>1, <4>2, <4>8, <6>2
          <6> QED BY <6>3
        <5> QED BY <5>1, <5>2
      <4>12. Leave(s, n, keep, u, g)
        BY <4>6, <4>7, <4>9, <4>10, <4>11 DEF Leave
      <4> QED BY <4>2, <4>12
    <3> QED BY <3>1, <3>2
  <2> QED BY <2>1, <2>5 DEF u
<1>4. \A n \in 0..Len(s) : n \in T
  <2> HIDE DEF T
  <2>1. Len(s) \in Nat
    OBVIOUS
  <2> QED BY <1>2, <1>3, <2>1, UpTo
<1> QED BY <1>4 DEF left

(* What sifting leaves: a sequence, from increasing places of s, that has  *)
(* every element to keep, and none further from its end than it was in s.  *)
LEMMA SiftedLeaves ==
  ASSUME NEW S, NEW s \in Seq(S), NEW keep
  PROVE  /\ Sifted(s, keep) \in Seq(S)
         /\ \E from : Leave(s, Len(s), keep, Sifted(s, keep), from)
<1>1. Len(s) \in 0..Len(s)
  OBVIOUS
<1> QED BY <1>1, SieveLeaves DEF Sifted

LEMMA SiftedElements ==
  ASSUME NEW S, NEW s \in Seq(S), NEW keep
  PROVE  /\ Len(Sifted(s, keep)) \in Nat /\ Len(Sifted(s, keep)) <= Len(s)
         /\ \A k \in 1..Len(Sifted(s, keep)) :
              Sifted(s, keep)[k] \in keep /\ \E i \in 1..Len(s) : Sifted(s, keep)[k] = s[i]
         /\ \A i \in 1..Len(s) : s[i] \in keep =>
              \E k \in 1..Len(Sifted(s, keep)) : Sifted(s, keep)[k] = s[i]
<1> DEFINE t == Sifted(s, keep)
<1>1. t \in Seq(S) /\ \E from : Leave(s, Len(s), keep, t, from)
  BY SiftedLeaves
<1> HIDE DEF t
<1>2. PICK from : Leave(s, Len(s), keep, t, from)
  BY <1>1
<1>3. Len(t) \in Nat
  BY <1>1
<1>4. \A k \in 1..Len(t) : from[k] \in 1..Len(s) /\ t[k] = s[from[k]] /\ t[k] \in keep
  BY <1>2 DEF Leave
<1>5. \A i \in 1..Len(s) : s[i] \in keep => \E k \in 1..Len(t) : t[k] = s[i]
  <2>1. SUFFICES ASSUME NEW i \in 1..Len(s), s[i] \in keep PROVE \E k \in 1..Len(t) : t[k] = s[i]
    OBVIOUS
  <2>2. PICK k \in 1..Len(t) : from[k] = i
    BY <1>2, <2>1 DEF Leave
  <2> QED BY <1>4, <2>2
<1>6. Len(t) <= Len(s)
  BY <1>2 DEF Leave
<1>7. \A k \in 1..Len(t) : t[k] \in keep /\ \E i \in 1..Len(s) : t[k] = s[i]
  BY <1>4
<1> QED BY <1>3, <1>5, <1>6, <1>7 DEF t

LEMMA SiftedNone ==
  ASSUME NEW S, NEW s \in Seq(S), NEW keep, \A i \in 1..Len(s) : s[i] \notin keep
  PROVE  Sifted(s, keep) = <<>>
<1> DEFINE t == Sifted(s, keep)
<1>1. t \in Seq(S) /\ \A k \in 1..Len(t) : t[k] \in keep /\ \E i \in 1..Len(s) : t[k] = s[i]
  BY SiftedLeaves, SiftedElements
<1> HIDE DEF t
<1>2. \A k \in 1..Len(t) : FALSE
  BY <1>1
<1>3. Len(t) = 0
  BY <1>1, <1>2
<1>4. t = <<>>
  BY <1>1, <1>3
<1> QED BY <1>4 DEF t

(* The elements of a concatenation.                                        *)
LEMMA ConcatParts ==
  ASSUME NEW S, NEW s \in Seq(S), NEW t \in Seq(S), NEW u, u = s \o t
  PROVE  /\ u \in Seq(S) /\ Len(u) = Len(s) + Len(t) /\ Len(s) \in Nat /\ Len(t) \in Nat
         /\ \A i \in 1..Len(s) : u[i] = s[i]
         /\ \A i \in 1..Len(t) : u[Len(s) + i] = t[i]
BY ConcatProperties

(* Sifting two sequences in a row is sifting each.                         *)
LEMMA SiftedConcat ==
  ASSUME NEW S, NEW s \in Seq(S), NEW t \in Seq(S), NEW keep
  PROVE  Sifted(s \o t, keep) = Sifted(s, keep) \o Sifted(t, keep)
<1>0. ASSUME NEW a \in Seq(S), NEW b \in Seq(S), NEW x \in S
      PROVE  Append(a \o b, x) = a \o Append(b, x)
  <2>1. a \o b \in Seq(S)
    BY ConcatProperties
  <2>2. <<x>> \in Seq(S)
    OBVIOUS
  <2>3. Append(a \o b, x) = (a \o b) \o <<x>>
    BY <2>1, AppendIsConcat
  <2>4. Append(b, x) = b \o <<x>>
    BY AppendIsConcat
  <2>5. (a \o b) \o <<x>> = a \o (b \o <<x>>)
    BY <2>2, ConcatAssociative
  <2> QED BY <2>3, <2>4, <2>5
<1> DEFINE u == s \o t
           A == Sieve(s, keep)
           B == Sieve(t, keep)
           C == Sieve(u, keep)
           N == Len(s)
           M == Len(t)
<1>1. /\ u \in Seq(S) /\ Len(u) = N + M /\ N \in Nat /\ M \in Nat
      /\ \A i \in 1..N : u[i] = s[i]
      /\ \A i \in 1..M : u[N + i] = t[i]
  BY ConcatProperties
<1> HIDE DEF u
<1>2. /\ A[0] = <<>>
      /\ \A n \in 1..N : A[n] = IF s[n] \in keep THEN Append(A[n - 1], s[n]) ELSE A[n - 1]
  BY SieveDef, <1>1
<1>3. /\ B[0] = <<>>
      /\ \A n \in 1..M : B[n] = IF t[n] \in keep THEN Append(B[n - 1], t[n]) ELSE B[n - 1]
  BY SieveDef, <1>1
<1>4. /\ C[0] = <<>>
      /\ \A n \in 1..(N + M) :
           C[n] = IF u[n] \in keep THEN Append(C[n - 1], u[n]) ELSE C[n - 1]
  <2>1. Len(u) \in Nat
    BY <1>1
  <2> QED BY SieveDef, <1>1, <2>1
<1>5. /\ \A n \in 0..N : A[n] \in Seq(S)
      /\ \A n \in 0..M : B[n] \in Seq(S)
  BY SieveLeaves
<1> HIDE DEF A, B, C
<1>6. \A n \in 0..N : C[n] = A[n]
  <2> DEFINE T == {n \in 0..N : C[n] = A[n]}
  <2>1. 0 \in T
    BY <1>1, <1>2, <1>4
  <2>2. ASSUME NEW n \in 1..N, n - 1 \in T PROVE n \in T
    <3>1. n \in 1..(N + M) /\ n \in 0..N
      BY <1>1
    <3> QED BY <1>1, <1>2, <1>4, <2>2, <3>1
  <2>3. \A n \in 0..N : n \in T
    <3> HIDE DEF T
    <3> QED BY <1>1, <2>1, <2>2, UpTo
  <2> QED BY <2>3
<1>7. \A n \in 0..M : C[N + n] = A[N] \o B[n]
  <2> DEFINE T == {n \in 0..M : C[N + n] = A[N] \o B[n]}
  <2>1. 0 \in T
    <3>1. N \in 0..N /\ N + 0 = N /\ 0 \in 0..M
      BY <1>1
    <3>2. A[N] \o <<>> = A[N]
      BY <1>5, <3>1
    <3> QED BY <1>3, <1>6, <3>1, <3>2
  <2>2. ASSUME NEW n \in 1..M, n - 1 \in T PROVE n \in T
    <3>1. /\ N + n \in 1..(N + M) /\ n \in 0..M /\ n - 1 \in 0..M
          /\ (N + n) - 1 = N + (n - 1) /\ N \in 0..N
      BY <1>1
    <3>2. u[N + n] = t[n] /\ t[n] \in S
      BY <1>1
    <3>3. C[N + n] = IF t[n] \in keep THEN Append(C[N + (n - 1)], t[n]) ELSE C[N + (n - 1)]
      BY <1>4, <3>1, <3>2
    <3>4. C[N + (n - 1)] = A[N] \o B[n - 1]
      BY <2>2
    <3>5. Append(A[N] \o B[n - 1], t[n]) = A[N] \o Append(B[n - 1], t[n])
      <4>1. A[N] \in Seq(S) /\ B[n - 1] \in Seq(S)
        BY <1>5, <3>1
      <4> QED BY <1>0, <3>2, <4>1
    <3>6. B[n] = IF t[n] \in keep THEN Append(B[n - 1], t[n]) ELSE B[n - 1]
      BY <1>3
    <3>7. C[N + n] = A[N] \o B[n]
      BY <3>3, <3>4, <3>5, <3>6
    <3> QED BY <3>1, <3>7
  <2>3. \A n \in 0..M : n \in T
    <3> HIDE DEF T
    <3> QED BY <1>1, <2>1, <2>2, UpTo
  <2> QED BY <2>3
<1>8. C[N + M] = A[N] \o B[M]
  <2>1. M \in 0..M
    BY <1>1
  <2> QED BY <1>7, <2>1
<1>9. Sifted(u, keep) = C[N + M] /\ Sifted(s, keep) = A[N] /\ Sifted(t, keep) = B[M]
  BY <1>1 DEF A, B, C, Sifted
<1> QED BY <1>8, <1>9 DEF u

-----------------------------------------------------------------------------
(* Finite sets in order.  An order is the set of its pairs.                *)

IsOrder(R, S) ==
  /\ \A r \in S : <<r, r>> \notin R
  /\ \A r, s, t \in S : <<r, s>> \in R /\ <<s, t>> \in R => <<r, t>> \in R

Preceding(R, S, r) == {s \in S : <<s, r>> \in R}

LEMMA FewerPreceding ==
  ASSUME NEW S, IsFiniteSet(S), NEW R, IsOrder(R, S), NEW r \in S
  PROVE  /\ IsFiniteSet(Preceding(R, S, r))
         /\ Cardinality(Preceding(R, S, r)) \in Nat
         /\ \A p \in Preceding(R, S, r) :
              /\ Cardinality(Preceding(R, S, p)) \in Nat
              /\ Cardinality(Preceding(R, S, p)) < Cardinality(Preceding(R, S, r))
<1>1. \A s : IsFiniteSet(Preceding(R, S, s)) /\ Cardinality(Preceding(R, S, s)) \in Nat
  <2>1. \A s : Preceding(R, S, s) \in SUBSET S
    BY DEF Preceding
  <2>2. \A s : IsFiniteSet(Preceding(R, S, s))
    BY <2>1, FS_Subset
  <2> QED BY <2>2, FS_CardinalityType
<1>2. ASSUME NEW p \in Preceding(R, S, r)
      PROVE  Cardinality(Preceding(R, S, p)) < Cardinality(Preceding(R, S, r))
  <2>1. Preceding(R, S, p) \in SUBSET Preceding(R, S, r) /\ p \notin Preceding(R, S, p)
    BY <1>2 DEF Preceding, IsOrder
  <2>2. Cardinality(Preceding(R, S, p)) <= Cardinality(Preceding(R, S, r))
    BY <1>1, <2>1, FS_Subset
  <2>3. Cardinality(Preceding(R, S, p)) # Cardinality(Preceding(R, S, r))
    BY <1>1, <1>2, <2>1, FS_Subset
  <2> QED BY <1>1, <2>2, <2>3
<1> QED BY <1>1, <1>2

LEMMA FirstInOrder ==
  ASSUME NEW S, IsFiniteSet(S), NEW R, IsOrder(R, S), NEW T, T \subseteq S, T # {}
  PROVE  \E r \in T : \A s \in T : <<s, r>> \notin R
<1> DEFINE ranks == {Cardinality(Preceding(R, S, r)) : r \in T}
<1>1. ranks \subseteq Nat /\ ranks # {}
  BY FewerPreceding
<1>2. PICK n \in ranks : \A m \in ranks : n <= m
  <2> HIDE DEF ranks
  <2> QED BY <1>1, LeastNatural
<1>3. PICK r \in T : n = Cardinality(Preceding(R, S, r))
  BY <1>2
<1>4. ASSUME NEW s \in T, <<s, r>> \in R PROVE FALSE
  <2>1. s \in Preceding(R, S, r)
    BY <1>4 DEF Preceding
  <2>2. Cardinality(Preceding(R, S, s)) \in Nat /\ n \in Nat /\ Cardinality(Preceding(R, S, s)) < n
    BY <1>3, <2>1, FewerPreceding
  <2>3. n <= Cardinality(Preceding(R, S, s))
    BY <1>2
  <2> QED BY <2>2, <2>3
<1> QED BY <1>4

LEMMA ImagesAreFinite ==
  ASSUME NEW S, IsFiniteSet(S), NEW f, DOMAIN f = S
  PROVE  IsFiniteSet({f[x] : x \in S})
<1> DEFINE T == {f[x] : x \in S}
           h == [x \in S |-> f[x]]
<1>1. h \in Surjection(S, T)
  BY DEF Surjection
<1> HIDE DEF h, T
<1>2. IsFiniteSet(T)
  BY <1>1, FS_Surjection
<1> QED BY <1>2 DEF T

===============================================================================
