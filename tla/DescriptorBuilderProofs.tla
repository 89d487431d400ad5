----------------------- MODULE DescriptorBuilderProofs -----------------------
(* Proofs about DescriptorBuilder for methods of any signature.  What a     *)
(* recursive function computes is proved by the least index at which it     *)
(* would be wrong.                                                          *)
EXTENDS DescriptorBuilder, SequenceTheorems, FiniteSetTheorems, WellFoundedInduction, TLAPS

-----------------------------------------------------------------------------
(* Numbers, and sequences that are put together.                           *)

LEMMA LeastNat ==
  ASSUME NEW T, T \subseteq Nat, T # {}
  PROVE  \E x \in T : \A y \in T : x <= y
<1>1. \E x \in T : \A y \in T : ~(<<y, x>> \in OpToRel(<, Nat))
  BY WFMin, NatLessThanWellFounded, Zenon
<1>2. PICK x \in T : \A y \in T : ~(<<y, x>> \in OpToRel(<, Nat))
  BY <1>1
<1>3. \A a, b \in Nat : a < b => <<a, b>> \in OpToRel(<, Nat)
  BY Zenon DEF OpToRel
<1>4. \A y \in T : ~(y < x)
  BY <1>2, <1>3, Zenon
<1> QED BY <1>4

\* A set of numbers that has 0 and the next of each of its numbers up to n has
\* them all up to n.
LEMMA UpTo ==
  ASSUME NEW T, NEW n \in Nat, 0 \in T, \A k \in 0..(n - 1) : k \in T => k + 1 \in T
  PROVE  \A k \in 0..n : k \in T
<1> DEFINE B == {k \in 0..n : k \notin T}
<1> SUFFICES ASSUME B # {} PROVE FALSE
  OBVIOUS
<1>1. B \subseteq Nat
  OBVIOUS
<1>2. PICK k \in B : \A j \in B : k <= j
  BY <1>1, LeastNat, Zenon
<1>3. k \in 0..n /\ k # 0 /\ k - 1 \in 0..(n - 1) /\ k - 1 \notin B /\ (k - 1) + 1 = k
  BY <1>2
<1> QED BY <1>2, <1>3

\* A function that is defined from each value to the next is there.
Rules(n, S) == [(1..n) \X S -> S]
Follows(f, n, S, a, G) ==
  f \in [0..n -> S] /\ f[0] = a /\ \A i \in 1..n : f[i] = G[<<i, f[i - 1]>>]

LEMMA Recursion ==
  ASSUME NEW n \in Nat, NEW S, NEW a \in S, NEW G \in Rules(n, S)
  PROVE  \E f : Follows(f, n, S, a, G)
<1>r. G \in [(1..n) \X S -> S]
  BY DEF Rules
<1> DEFINE Upto(k, f) == f \in [0..k -> S] /\ f[0] = a /\ \A i \in 1..k : f[i] = G[<<i, f[i - 1]>>]
           T == {k \in 0..n : \E f : Upto(k, f)}
<1>1. 0 \in T
  <2> DEFINE g == [i \in 0..0 |-> a]
  <2>1. g \in [0..0 -> S] /\ g[0] = a
    OBVIOUS
  <2>2. Upto(0, g) /\ 0 \in 0..n
    BY <2>1
  <2> HIDE DEF Upto
  <2> QED BY <2>2
<1>2. ASSUME NEW k \in 0..(n - 1), k \in T PROVE k + 1 \in T
  <2>1. PICK f : Upto(k, f)
    BY <1>2
  <2> DEFINE g == [i \in 0..(k + 1) |-> IF i <= k THEN f[i] ELSE G[<<k + 1, f[k]>>]]
  <2>2. f[k] \in S /\ k + 1 \in 1..n
    BY <1>2, <2>1
  <2>3. g \in [0..(k + 1) -> S]
    BY <1>2, <1>r, <2>1, <2>2
  <2>4. g[0] = a
    BY <1>2, <2>1
  <2>5. ASSUME NEW i \in 1..(k + 1) PROVE g[i] = G[<<i, g[i - 1]>>]
    <3>1. CASE i <= k
      BY <1>2, <2>1, <3>1
    <3>3. k \in Nat
      BY <1>2
    <3>2. CASE i = k + 1
      <4>1. k + 1 \in 0..(k + 1) /\ k \in 0..(k + 1) /\ ~(k + 1 <= k) /\ k <= k /\ (k + 1) - 1 = k
        BY <3>3
      <4>2. g[k + 1] = G[<<k + 1, f[k]>>] /\ g[k] = f[k]
        BY <4>1
      <4> QED BY <3>2, <4>1, <4>2
    <3>4. i <= k \/ i = k + 1
      BY <3>3
    <3> QED BY <3>1, <3>2, <3>4
  <2>6. Upto(k + 1, g)
    BY <2>3, <2>4, <2>5
  <2>7. k + 1 \in 0..n
    BY <1>2
  <2> QED BY <2>6, <2>7
<1> HIDE DEF T
<1>3. n \in T
  BY <1>1, <1>2, UpTo
<1> QED BY <1>3 DEF T, Follows

\* FlattenSeq is the concatenation.
LEMMA FlattenFcn ==
  ASSUME NEW S, NEW ps \in Seq(Seq(S)), Len(ps) >= 1
  PROVE  \E f \in [1..Len(ps) -> Seq(S)] :
           /\ FlattenSeq(ps) = f[Len(ps)] /\ f[1] = ps[1]
           /\ \A i \in 2..Len(ps) : f[i] = f[i - 1] \o ps[i]
<1> DEFINE n == Len(ps)
           G == [x \in (1..n) \X Seq(S) |-> IF x[1] = 1 THEN ps[1] ELSE x[2] \o ps[x[1]]]
<1>1. n \in Nat /\ n >= 1 /\ \A i \in 1..n : ps[i] \in Seq(S)
  OBVIOUS
<1>2. G \in [(1..n) \X Seq(S) -> Seq(S)]
  <2> SUFFICES ASSUME NEW x \in (1..n) \X Seq(S)
               PROVE  (IF x[1] = 1 THEN ps[1] ELSE x[2] \o ps[x[1]]) \in Seq(S)
    BY Zenon
  <2>1. x[1] \in 1..n /\ x[2] \in Seq(S) /\ ps[1] \in Seq(S) /\ ps[x[1]] \in Seq(S)
    BY <1>1
  <2> QED BY <2>1, ConcatProperties
<1>3. <<>> \in Seq(S)
  OBVIOUS
<1> DEFINE R == Seq(S)
           e == <<>>
<1>a. n \in Nat /\ e \in R /\ G \in Rules(n, R)
  BY <1>1, <1>2, <1>3 DEF Rules
<1> HIDE DEF n, G, R, e
<1>b. PICK g : Follows(g, n, R, e, G)
  BY <1>a, Recursion, Zenon
<1> USE DEF n, G, R, e
<1>4. g \in [0..n -> Seq(S)] /\ g[0] = <<>> /\ \A i \in 1..n : g[i] = G[<<i, g[i - 1]>>]
  BY <1>b, Zenon DEF Follows
<1>5. \A i \in 1..n : i # 1 => i \in 2..n /\ i - 1 \in 1..n /\ i - 1 \in 0..n
  BY <1>1
<1>6. \A i \in 1..n : g[i] = IF i = 1 THEN ps[i] ELSE g[i - 1] \o ps[i]
  <2> SUFFICES ASSUME NEW i \in 1..n
               PROVE  g[i] = IF i = 1 THEN ps[i] ELSE g[i - 1] \o ps[i]
    OBVIOUS
  <2>1. i - 1 \in 0..n
    BY <1>1
  <2>2. <<i, g[i - 1]>> \in (1..n) \X Seq(S)
    BY <1>4, <2>1
  <2>3. G[<<i, g[i - 1]>>] = IF i = 1 THEN ps[1] ELSE g[i - 1] \o ps[i]
    BY <2>2
  <2> QED BY <1>4, <2>3
<1> DEFINE f == [i \in 1..n |-> g[i]]
<1>7. f = [i \in 1..n |-> IF i = 1 THEN ps[i] ELSE f[i - 1] \o ps[i]]
  BY <1>5, <1>6
<1> HIDE DEF f
<1>8. PICK h : h = [i \in 1..n |-> IF i = 1 THEN ps[i] ELSE h[i - 1] \o ps[i]] /\ FlattenSeq(ps) = h[n]
  <2>1. n # 0
    BY <1>1
  <2> QED BY <1>7, <2>1, Zenon DEF FlattenSeq
<1>9. h[1] = ps[1] /\ \A i \in 2..n : h[i] = h[i - 1] \o ps[i]
  <2>1. \A i \in 1..n : h[i] = IF i = 1 THEN ps[i] ELSE h[i - 1] \o ps[i]
    BY <1>8, Zenon
  <2>2. 1 \in 1..n /\ \A i \in 2..n : i \in 1..n /\ i # 1
    BY <1>1
  <2> QED BY <2>1, <2>2, Zenon
<1>10. \A k \in 0..n : k \in {j \in Nat : j = 0 \/ h[j] \in Seq(S)}
  <2> DEFINE T == {j \in Nat : j = 0 \/ h[j] \in Seq(S)}
  <2>1. 0 \in T
    OBVIOUS
  <2>2. ASSUME NEW k \in 0..(n - 1), k \in T PROVE k + 1 \in T
    <3>1. CASE k = 0
      BY <1>1, <1>9, <3>1
    <3>2. CASE k # 0
      <4>1. h[k] \in Seq(S) /\ k + 1 \in 2..n /\ (k + 1) - 1 = k /\ ps[k + 1] \in Seq(S)
        BY <1>1, <2>2, <3>2
      <4>2. h[k + 1] = h[k] \o ps[k + 1]
        BY <1>9, <4>1
      <4>3. h[k] \o ps[k + 1] \in Seq(S)
        BY <4>1, ConcatProperties, Zenon
      <4>4. k + 1 \in Nat
        BY <1>1
      <4> QED BY <4>2, <4>3, <4>4
    <3> QED BY <3>1, <3>2
  <2> HIDE DEF T
  <2> QED BY <1>1, <2>1, <2>2, UpTo DEF T
<1>11. h \in [1..n -> Seq(S)]
  <2>1. \A k \in 1..n : h[k] \in Seq(S)
    BY <1>10
  <2> QED BY <1>8, <2>1
<1> QED BY <1>8, <1>9, <1>11

LEMMA FlattenEmpty == FlattenSeq(<<>>) = <<>>
  BY DEF FlattenSeq

LEMMA FlattenType == ASSUME NEW S, NEW ps \in Seq(Seq(S)) PROVE FlattenSeq(ps) \in Seq(S)
<1>1. CASE Len(ps) = 0
  <2>1. ps = <<>> /\ <<>> \in Seq(S)
    BY <1>1
  <2> QED BY <2>1, FlattenEmpty
<1>2. CASE Len(ps) # 0
  <2>1. Len(ps) \in Nat /\ Len(ps) >= 1
    BY <1>2
  <2>2. PICK f \in [1..Len(ps) -> Seq(S)] : FlattenSeq(ps) = f[Len(ps)]
    BY <2>1, FlattenFcn
  <2>3. Len(ps) \in 1..Len(ps)
    BY <2>1
  <2> QED BY <2>2, <2>3, Zenon
<1> QED BY <1>1, <1>2

LEMMA FlattenAppend ==
  ASSUME NEW S, NEW ps \in Seq(Seq(S)), NEW x \in Seq(S)
  PROVE  FlattenSeq(Append(ps, x)) = FlattenSeq(ps) \o x
<1> DEFINE n == Len(ps)
           qs == Append(ps, x)
<1>1. /\ n \in Nat /\ qs \in Seq(Seq(S)) /\ Len(qs) = n + 1 /\ Len(qs) >= 1
      /\ qs[n + 1] = x /\ \A i \in 1..n : qs[i] = ps[i]
  OBVIOUS
<1> HIDE DEF qs
<1>2. PICK g \in [1..Len(qs) -> Seq(S)] : /\ FlattenSeq(qs) = g[Len(qs)] /\ g[1] = qs[1]
                                          /\ \A i \in 2..Len(qs) : g[i] = g[i - 1] \o qs[i]
  <2>1. qs \in Seq(Seq(S)) /\ Len(qs) >= 1
    BY <1>1
  <2> QED BY <2>1, FlattenFcn
<1>3. CASE n = 0
  <2>1. ps = <<>> /\ FlattenSeq(qs) = x
    BY <1>1, <1>2, <1>3
  <2>2. <<>> \o x = x
    OBVIOUS
  <2> QED BY <2>1, <2>2, FlattenEmpty DEF qs
<1>4. CASE n # 0
  <2>1. n >= 1
    BY <1>1, <1>4
  <2>2. PICK f \in [1..n -> Seq(S)] : /\ FlattenSeq(ps) = f[n] /\ f[1] = ps[1]
                                      /\ \A i \in 2..n : f[i] = f[i - 1] \o ps[i]
    BY <2>1, FlattenFcn
  <2> DEFINE T == {k \in Nat : k = 0 \/ f[k] = g[k]}
  <2>3. 0 \in T
    OBVIOUS
  <2>4. ASSUME NEW k \in 0..(n - 1), k \in T PROVE k + 1 \in T
    <3>1. k + 1 \in 1..n /\ k + 1 \in Nat
      BY <1>1
    <3>2. CASE k = 0
      BY <1>1, <1>2, <2>1, <2>2, <3>2
    <3>3. CASE k # 0
      <4>1. f[k] = g[k] /\ k + 1 \in 2..n /\ k + 1 \in 2..Len(qs) /\ (k + 1) - 1 = k
        BY <1>1, <2>4, <3>3
      <4>2. f[k + 1] = f[k] \o ps[k + 1] /\ g[k + 1] = g[k] \o qs[k + 1] /\ qs[k + 1] = ps[k + 1]
        BY <1>1, <1>2, <2>2, <3>1, <4>1
      <4> QED BY <3>1, <4>1, <4>2
    <3> QED BY <3>2, <3>3
  <2> HIDE DEF T
  <2>5. n \in T
    <3>1. n \in Nat /\ n \in 0..n
      BY <1>1
    <3> HIDE DEF n
    <3> QED BY <2>3, <2>4, <3>1, UpTo
  <2>6. g[n] = FlattenSeq(ps)
    BY <1>4, <2>2, <2>5 DEF T
  <2>7. n + 1 \in 2..Len(qs) /\ (n + 1) - 1 = n
    BY <1>1, <2>1
  <2>8. g[n + 1] = g[n] \o x
    BY <1>1, <1>2, <2>7
  <2> QED BY <1>1, <1>2, <2>6, <2>8 DEF qs
<1> QED BY <1>3, <1>4

LEMMA FlattenConcat ==
  ASSUME NEW S, NEW ps \in Seq(Seq(S)), NEW qs \in Seq(Seq(S))
  PROVE  FlattenSeq(ps \o qs) = FlattenSeq(ps) \o FlattenSeq(qs)
<1> DEFINE T == {k \in Nat : FlattenSeq(ps \o SubSeq(qs, 1, k)) = FlattenSeq(ps) \o FlattenSeq(SubSeq(qs, 1, k))}
<1>1. Len(qs) \in Nat /\ FlattenSeq(ps) \in Seq(S) /\ SubSeq(qs, 1, Len(qs)) = qs
  BY FlattenType
<1>2. 0 \in T
  <2>1. SubSeq(qs, 1, 0) = <<>> /\ ps \o <<>> = ps /\ FlattenSeq(ps) \o <<>> = FlattenSeq(ps)
    BY <1>1
  <2> QED BY <2>1, FlattenEmpty
<1>3. ASSUME NEW k \in 0..(Len(qs) - 1), k \in T PROVE k + 1 \in T
  <2> DEFINE r == SubSeq(qs, 1, k)
             x == qs[k + 1]
  <2>1. k \in Nat /\ k + 1 \in Nat /\ x \in Seq(S) /\ r \in Seq(Seq(S))
    BY <1>1
  <2>2. SubSeq(qs, 1, k + 1) = Append(r, x)
    BY <1>1
  <2>3. ps \o Append(r, x) = Append(ps \o r, x) /\ ps \o r \in Seq(Seq(S))
    BY <2>1
  <2>4. FlattenSeq(ps \o r) = FlattenSeq(ps) \o FlattenSeq(r)
    BY <1>3
  <2>5. FlattenSeq(r) \in Seq(S)
    BY <2>1, FlattenType
  <2> HIDE DEF r, x
  <2>6. FlattenSeq(Append(ps \o r, x)) = (FlattenSeq(ps) \o FlattenSeq(r)) \o x
    BY <2>1, <2>3, <2>4, FlattenAppend
  <2>7. FlattenSeq(ps) \o FlattenSeq(Append(r, x)) = FlattenSeq(ps) \o (FlattenSeq(r) \o x)
    BY <2>1, FlattenAppend
  <2>8. (FlattenSeq(ps) \o FlattenSeq(r)) \o x = FlattenSeq(ps) \o (FlattenSeq(r) \o x)
    <3>1. FlattenSeq(ps) \in Seq(S)
      BY <1>1
    <3>2. x \in Seq(S)
      BY <2>1
    <3>3. \A u, v, w \in Seq(S) : (u \o v) \o w = u \o (v \o w)
      BY ConcatAssociative
    <3> QED BY <2>5, <3>1, <3>2, <3>3, Zenon
  <2>9. FlattenSeq(ps \o SubSeq(qs, 1, k + 1)) = FlattenSeq(ps) \o FlattenSeq(SubSeq(qs, 1, k + 1))
    BY <2>2, <2>3, <2>6, <2>7, <2>8, Zenon
  <2> QED BY <2>1, <2>9, Zenon
<1> HIDE DEF T
<1>4. Len(qs) \in T
  <2> DEFINE n == Len(qs)
  <2>1. n \in Nat /\ n \in 0..n /\ \A k \in 0..(n - 1) : k \in T => k + 1 \in T
    BY <1>1, <1>3
  <2> HIDE DEF n
  <2>2. n \in T
    BY <1>2, <2>1, UpTo
  <2> QED BY <2>2 DEF n
<1>5. FlattenSeq(ps \o SubSeq(qs, 1, Len(qs))) = FlattenSeq(ps) \o FlattenSeq(SubSeq(qs, 1, Len(qs)))
  BY <1>4, Zenon DEF T
<1> DEFINE q == SubSeq(qs, 1, Len(qs))
<1>6. FlattenSeq(ps \o q) = FlattenSeq(ps) \o FlattenSeq(q) /\ q = qs
  BY <1>1, <1>5
<1> HIDE DEF q
<1> QED BY <1>6

LEMMA FlattenOne == ASSUME NEW S, NEW x \in Seq(S) PROVE FlattenSeq(<<x>>) = x
<1>1. <<>> \in Seq(Seq(S)) /\ Append(<<>>, x) = <<x>> /\ <<>> \o x = x
  OBVIOUS
<1> QED BY <1>1, FlattenAppend, FlattenEmpty

LEMMA FlattenHead ==
  ASSUME NEW S, NEW ps \in Seq(Seq(S)), ps # <<>>
  PROVE  FlattenSeq(ps) = Head(ps) \o FlattenSeq(Tail(ps))
<1>1. Head(ps) \in Seq(S) /\ Tail(ps) \in Seq(Seq(S)) /\ <<Head(ps)>> \in Seq(Seq(S))
  OBVIOUS
<1>2. ps = <<Head(ps)>> \o Tail(ps)
  OBVIOUS
<1>3. FlattenSeq(<<Head(ps)>> \o Tail(ps)) = FlattenSeq(<<Head(ps)>>) \o FlattenSeq(Tail(ps))
  BY <1>1, FlattenConcat
<1>4. FlattenSeq(<<Head(ps)>>) = Head(ps)
  BY <1>1, FlattenOne
<1> QED BY <1>2, <1>3, <1>4, Zenon

\* Flattening what was flattened already, one by one.
LEMMA FlattenTwice ==
  ASSUME NEW S, NEW pp \in Seq(Seq(Seq(S))), NEW tt \in Seq(Seq(S)), Len(pp) = Len(tt),
         \A i \in 1..Len(pp) : FlattenSeq(pp[i]) = tt[i]
  PROVE  FlattenSeq(FlattenSeq(pp)) = FlattenSeq(tt)
<1> DEFINE T == {k \in Nat : FlattenSeq(FlattenSeq(SubSeq(pp, 1, k))) = FlattenSeq(SubSeq(tt, 1, k))}
<1>1. Len(pp) \in Nat /\ SubSeq(pp, 1, Len(pp)) = pp /\ SubSeq(tt, 1, Len(pp)) = tt
  OBVIOUS
<1>2. 0 \in T
  <2>1. SubSeq(pp, 1, 0) = <<>> /\ SubSeq(tt, 1, 0) = <<>>
    OBVIOUS
  <2> QED BY <2>1, FlattenEmpty
<1>3. ASSUME NEW k \in 0..(Len(pp) - 1), k \in T PROVE k + 1 \in T
  <2> DEFINE p == SubSeq(pp, 1, k)
             t == SubSeq(tt, 1, k)
             x == pp[k + 1]
             y == tt[k + 1]
  <2>1. /\ k + 1 \in Nat /\ k + 1 \in 1..Len(pp) /\ x \in Seq(Seq(S)) /\ y \in Seq(S)
        /\ p \in Seq(Seq(Seq(S))) /\ t \in Seq(Seq(S))
    BY <1>1
  <2>2. SubSeq(pp, 1, k + 1) = Append(p, x)
    BY <1>1
  <2>3. SubSeq(tt, 1, k + 1) = Append(t, y)
    BY <1>1
  <2>4. FlattenSeq(FlattenSeq(p)) = FlattenSeq(t) /\ FlattenSeq(x) = y
    BY <1>3, <2>1
  <2> HIDE DEF p, t, x, y
  <2>5. FlattenSeq(p) \in Seq(Seq(S))
    BY <2>1, FlattenType
  <2>6. FlattenSeq(Append(p, x)) = FlattenSeq(p) \o x
    BY <2>1, FlattenAppend
  <2>7. FlattenSeq(FlattenSeq(p) \o x) = FlattenSeq(t) \o y
    BY <2>1, <2>4, <2>5, FlattenConcat
  <2>8. FlattenSeq(Append(t, y)) = FlattenSeq(t) \o y
    BY <2>1, FlattenAppend
  <2> QED BY <2>1, <2>2, <2>3, <2>6, <2>7, <2>8
<1> HIDE DEF T
<1>4. Len(pp) \in T
  <2> DEFINE n == Len(pp)
  <2>1. n \in Nat /\ n \in 0..n /\ \A k \in 0..(n - 1) : k \in T => k + 1 \in T
    BY <1>1, <1>3
  <2> HIDE DEF n
  <2>2. n \in T
    BY <1>2, <2>1, UpTo
  <2> QED BY <2>2 DEF n
<1>5. FlattenSeq(FlattenSeq(SubSeq(pp, 1, Len(pp)))) = FlattenSeq(SubSeq(tt, 1, Len(pp)))
  BY <1>4, Zenon DEF T
<1> DEFINE p == SubSeq(pp, 1, Len(pp))
           t == SubSeq(tt, 1, Len(pp))
<1>6. FlattenSeq(FlattenSeq(p)) = FlattenSeq(t) /\ p = pp /\ t = tt
  BY <1>1, <1>5
<1> HIDE DEF p, t
<1> QED BY <1>6

LEMMA TwoMore ==
  \A ps \in Seq(Seq(Chars)) : \A x, y \in Seq(Chars) :
    /\ ps \o <<x, y>> \in Seq(Seq(Chars))
    /\ FlattenSeq(ps \o <<x, y>>) = (FlattenSeq(ps) \o x) \o y
<1> SUFFICES ASSUME NEW ps \in Seq(Seq(Chars)), NEW x \in Seq(Chars), NEW y \in Seq(Chars)
             PROVE  /\ ps \o <<x, y>> \in Seq(Seq(Chars))
                    /\ FlattenSeq(ps \o <<x, y>>) = (FlattenSeq(ps) \o x) \o y
  OBVIOUS
<1>1. Append(ps, x) \in Seq(Seq(Chars)) /\ ps \o <<x, y>> \in Seq(Seq(Chars))
  OBVIOUS
<1>2. ps \o <<x, y>> = Append(Append(ps, x), y)
  OBVIOUS
<1>3. FlattenSeq(Append(Append(ps, x), y)) = FlattenSeq(Append(ps, x)) \o y
  BY <1>1, FlattenAppend
<1>4. FlattenSeq(Append(ps, x)) = FlattenSeq(ps) \o x
  BY FlattenAppend
<1> QED BY <1>1, <1>2, <1>3, <1>4, Zenon

-----------------------------------------------------------------------------
(* The pieces of a type.                                                   *)

LEMMA Characters ==
  /\ {"[", "L", "/", ";", "-", ">", "(", ")", "V"} \subseteq Chars
  /\ \A c \in Chars : <<c>> \in Seq(Chars)
<1>1. {"[", "L", "/", ";", "-", ">", "(", ")", "V"} \subseteq Chars
  BY BuilderAssumption, Zenon
<1>2. \A c \in Chars : <<c>> \in Seq(Chars)
  OBVIOUS
<1> QED BY <1>1, <1>2

LEMMA SlashInChars == "/" \in Chars
  BY Characters, Zenon

LEMMA SlashedType ==
  ASSUME NEW s \in Seq(Chars)
  PROVE  /\ Slashed(s) \in Seq(Chars) /\ Len(Slashed(s)) = Len(s)
         /\ \A i \in 1..Len(s) : Slashed(s)[i] = IF s[i] = "." THEN "/" ELSE s[i]
<1>1. "/" \in Chars /\ Len(s) \in Nat /\ DOMAIN s = 1..Len(s) /\ \A i \in 1..Len(s) : s[i] \in Chars
  BY SlashInChars
<1>2. Slashed(s) \in [1..Len(s) -> Chars]
  BY <1>1 DEF Slashed
<1>3. Slashed(s) \in Seq(Chars) /\ Len(Slashed(s)) = Len(s)
  BY <1>1, <1>2
<1> QED BY <1>1, <1>3 DEF Slashed

LEMMA SlashedAppend ==
  ASSUME NEW s \in Seq(Chars), NEW c \in Chars
  PROVE  Slashed(Append(s, c)) = Append(Slashed(s), IF c = "." THEN "/" ELSE c)
<1> DEFINE d == IF c = "." THEN "/" ELSE c
           l == Slashed(Append(s, c))
           r == Append(Slashed(s), d)
<1>1. Append(s, c) \in Seq(Chars) /\ Len(Append(s, c)) = Len(s) + 1 /\ Len(s) \in Nat /\ d \in Chars
  BY SlashInChars
<1>2. l \in Seq(Chars) /\ Len(l) = Len(s) + 1
  BY <1>1, SlashedType
<1>3. Slashed(s) \in Seq(Chars) /\ Len(Slashed(s)) = Len(s)
  BY SlashedType
<1>4. r \in Seq(Chars) /\ Len(r) = Len(s) + 1
  BY <1>1, <1>3
<1>5. ASSUME NEW i \in 1..(Len(s) + 1) PROVE l[i] = r[i]
  <2>1. l[i] = IF Append(s, c)[i] = "." THEN "/" ELSE Append(s, c)[i]
    BY <1>1, SlashedType
  <2>2. CASE i = Len(s) + 1
    BY <1>1, <1>3, <2>1, <2>2
  <2>3. CASE i # Len(s) + 1
    <3>1. i \in 1..Len(s) /\ Append(s, c)[i] = s[i] /\ r[i] = Slashed(s)[i]
      BY <1>1, <1>3, <2>3
    <3> QED BY <2>1, <3>1, SlashedType
  <2> QED BY <2>2, <2>3
<1> HIDE DEF l, r
<1>6. l = r
  BY <1>2, <1>4, <1>5, SeqEqual
<1> QED BY <1>6 DEF l, r

\* The states of the loop that splits a name.
SplitStates(name) == [pieces : Seq(Seq(Chars)), off : 0..Len(name)]

SplitStart == [pieces |-> <<<<"L">>>>, off |-> 0]

SplitNext(name, i, s) ==
  IF name[i] # "." THEN s
  ELSE [pieces |-> s.pieces \o <<SubSeq(name, s.off + 1, i - 1), <<"/">>>>, off |-> i]

LEMMA SplitType ==
  ASSUME NEW name \in Seq(Chars), NEW i \in 1..Len(name), NEW s \in SplitStates(name)
  PROVE  SplitNext(name, i, s) \in SplitStates(name)
<1>1. s.pieces \in Seq(Seq(Chars)) /\ s.off \in 0..Len(name) /\ Len(name) \in Nat
  BY DEF SplitStates
<1> DEFINE x == SubSeq(name, s.off + 1, i - 1)
           ps == s.pieces
<1>2. x \in Seq(Chars)
  BY <1>1
<1>3. <<"/">> \in Seq(Chars)
  BY SlashInChars
<1> HIDE DEF x, ps
<1>4. ps \o <<x, <<"/">>>> \in Seq(Seq(Chars))
  BY <1>1, <1>2, <1>3, TwoMore DEF ps
<1>5. i \in 0..Len(name)
  BY <1>1
<1> QED BY <1>4, <1>5 DEF SplitNext, SplitStates, x, ps

\* ClassName is what the loop leaves.
LEMMA SplitFcn ==
  ASSUME NEW name \in Seq(Chars)
  PROVE  \E h : /\ h[0] = SplitStart
                /\ \A i \in 1..Len(name) : h[i] = SplitNext(name, i, h[i - 1])
                /\ ClassName(name) = h[Len(name)].pieces
                                     \o <<SubSeq(name, h[Len(name)].off + 1, Len(name)), <<";">>>>
<1> DEFINE n == Len(name)
           R == SplitStates(name)
           e == SplitStart
           G == [x \in (1..n) \X R |-> SplitNext(name, x[1], x[2])]
<1>1. n \in Nat /\ n \in 0..n /\ 0 \in 0..n
  OBVIOUS
<1>2. e \in R
  <2>1. <<<<"L">>>> \in Seq(Seq(Chars))
    <3>1. <<"L">> \in Seq(Chars)
      BY Characters, Zenon
    <3> QED BY <3>1
  <2> QED BY <1>1, <2>1 DEF SplitStart, SplitStates
<1>3. G \in Rules(n, R)
  <2>1. \A x \in (1..n) \X R : SplitNext(name, x[1], x[2]) \in R
    BY SplitType
  <2> HIDE DEF R
  <2> QED BY <2>1 DEF Rules
<1> HIDE DEF n, R, e, G
<1>4. PICK g : Follows(g, n, R, e, G)
  BY <1>1, <1>2, <1>3, Recursion, Zenon
<1>5. g \in [0..n -> R] /\ g[0] = e /\ \A i \in 1..n : g[i] = G[<<i, g[i - 1]>>]
  BY <1>4, Zenon DEF Follows
<1>6. \A i \in 0..n : g[i] = IF i = 0 THEN e ELSE SplitNext(name, i, g[i - 1])
  <2> SUFFICES ASSUME NEW i \in 0..n, i # 0 PROVE g[i] = SplitNext(name, i, g[i - 1])
    BY <1>5
  <2>1. i \in 1..n /\ i - 1 \in 0..n
    BY <1>1
  <2>2. <<i, g[i - 1]>> \in (1..n) \X R
    BY <1>5, <2>1
  <2>3. G[<<i, g[i - 1]>>] = SplitNext(name, i, g[i - 1])
    BY <2>2 DEF G
  <2> QED BY <1>5, <2>1, <2>3
<1>7. g = [i \in 0..n |-> IF i = 0 THEN e ELSE SplitNext(name, i, g[i - 1])]
  BY <1>5, <1>6
<1>8. PICK h : /\ h = [i \in 0..n |-> IF i = 0 THEN e ELSE SplitNext(name, i, h[i - 1])]
               /\ ClassName(name) = h[n].pieces \o <<SubSeq(name, h[n].off + 1, n), <<";">>>>
  BY <1>7, Zenon DEF ClassName, SplitNext, SplitStart, e, n
<1>9. h[0] = e /\ \A i \in 1..n : h[i] = SplitNext(name, i, h[i - 1])
  <2>1. \A i \in 1..n : i \in 0..n /\ i # 0
    BY <1>1
  <2>2. \A i \in 0..n : h[i] = IF i = 0 THEN e ELSE SplitNext(name, i, h[i - 1])
    BY <1>8, Zenon
  <2> QED BY <1>1, <2>1, <2>2, Zenon
<1> QED BY <1>8, <1>9, Zenon DEF n, e

\* What the pieces of a part of a name and its rest say together.
SplitInv(name, k, s) ==
  /\ s \in SplitStates(name) /\ s.off <= k
  /\ \A i \in (s.off + 1)..k : name[i] # "."
  /\ FlattenSeq(s.pieces) \o SubSeq(name, s.off + 1, k) = <<"L">> \o Slashed(SubSeq(name, 1, k))

LEMMA SplitInitially == ASSUME NEW name \in Seq(Chars) PROVE SplitInv(name, 0, SplitStart)
<1>1. <<"L">> \in Seq(Chars)
  BY Characters, Zenon
<1>2. <<<<"L">>>> \in Seq(Seq(Chars)) /\ Len(name) \in Nat
  BY <1>1
<1>3. SplitStart.pieces = <<<<"L">>>> /\ SplitStart.off = 0 /\ SplitStart \in SplitStates(name)
  BY <1>2 DEF SplitStart, SplitStates
<1>4. FlattenSeq(SplitStart.pieces) = <<"L">>
  BY <1>1, <1>3, FlattenOne
<1>5. SubSeq(name, 1, 0) = <<>> /\ SubSeq(name, SplitStart.off + 1, 0) = <<>>
  BY <1>3
<1>6. Slashed(<<>>) = <<>>
  BY DEF Slashed
<1>7. FlattenSeq(SplitStart.pieces) \o SubSeq(name, SplitStart.off + 1, 0) = <<"L">> \o Slashed(SubSeq(name, 1, 0))
  BY <1>4, <1>5, <1>6, Zenon
<1>8. SplitStart.off <= 0 /\ \A i \in (SplitStart.off + 1)..0 : name[i] # "."
  BY <1>3
<1> QED BY <1>3, <1>7, <1>8, Zenon DEF SplitInv

\* The next character, and what is appended to a part that is put together.
LEMMA ConcatNext ==
  \A u, v \in Seq(Chars) : \A d \in Chars :
    Append(u \o v, d) = u \o Append(v, d) /\ (u \o v) \o <<d>> = u \o Append(v, d)
  BY SMTT(30)

LEMMA SubSeqNext ==
  ASSUME NEW S, NEW s \in Seq(S), NEW m \in Nat, NEW k \in Nat, 1 <= m, m <= k + 1, k + 1 <= Len(s)
  PROVE  SubSeq(s, m, k + 1) = Append(SubSeq(s, m, k), s[k + 1])
  OBVIOUS

LEMMA SplitKeeps ==
  ASSUME NEW name \in Seq(Chars), NEW k \in 0..(Len(name) - 1), NEW s, SplitInv(name, k, s)
  PROVE  SplitInv(name, k + 1, SplitNext(name, k + 1, s))
<1> DEFINE c == name[k + 1]
           F == FlattenSeq(s.pieces)
           x == SubSeq(name, s.off + 1, k)
           p == SubSeq(name, 1, k)
           t == SplitNext(name, k + 1, s)
<1>1. /\ s \in SplitStates(name) /\ s.pieces \in Seq(Seq(Chars)) /\ s.off \in Nat /\ s.off <= k
      /\ Len(name) \in Nat /\ k \in Nat /\ k + 1 \in 1..Len(name) /\ c \in Chars
      /\ F \o x = <<"L">> \o Slashed(p)
  <2>1. s \in SplitStates(name) /\ s.off <= k /\ F \o x = <<"L">> \o Slashed(p)
    BY Zenon DEF SplitInv
  <2>2. Len(name) \in Nat /\ k \in Nat /\ k + 1 \in 1..Len(name) /\ c \in Chars
    OBVIOUS
  <2> HIDE DEF F, x, p, c
  <2> QED BY <2>1, <2>2 DEF SplitStates
<1>2. x \in Seq(Chars) /\ p \in Seq(Chars)
  BY <1>1, SMTT(30)
<1>3. F \in Seq(Chars) /\ <<"L">> \in Seq(Chars) /\ Slashed(p) \in Seq(Chars) /\ <<"/">> \in Seq(Chars)
  BY <1>1, <1>2, FlattenType, SlashedType, Characters, Zenon
<1>4. SubSeq(name, 1, k + 1) = Append(p, c)
  BY <1>1
<1>5. Slashed(SubSeq(name, 1, k + 1)) = Append(Slashed(p), IF c = "." THEN "/" ELSE c)
  BY <1>1, <1>2, <1>4, SlashedAppend
<1>6. t \in SplitStates(name)
  BY <1>1, SplitType
<1>7. CASE c # "."
  <2>1. t = s
    BY <1>7 DEF SplitNext
  <2>2. SubSeq(name, s.off + 1, k + 1) = Append(x, c)
    <3>1. s.off + 1 \in Nat /\ 1 <= s.off + 1 /\ s.off + 1 <= k + 1 /\ k + 1 <= Len(name)
      BY <1>1
    <3> QED BY <1>1, <3>1, SubSeqNext
  <2>3. Slashed(SubSeq(name, 1, k + 1)) = Append(Slashed(p), c)
    BY <1>5, <1>7
  <2> HIDE DEF F, x, p, t, c
  <2>4. F \o Append(x, c) = <<"L">> \o Append(Slashed(p), c)
    <3>1. F \o Append(x, c) = Append(F \o x, c)
      BY <1>1, <1>2, <1>3, ConcatNext, Zenon
    <3>2. <<"L">> \o Append(Slashed(p), c) = Append(<<"L">> \o Slashed(p), c)
      BY <1>1, <1>3, ConcatNext, Zenon
    <3>3. Append(F \o x, c) = Append(<<"L">> \o Slashed(p), c)
      BY <1>1, Zenon
    <3> QED BY <3>1, <3>2, <3>3, Zenon
  <2>5. \A i \in (s.off + 1)..(k + 1) : name[i] # "."
    BY <1>1, <1>7 DEF SplitInv, c
  <2>6. s.off <= k + 1
    BY <1>1
  <2>7. F \o SubSeq(name, s.off + 1, k + 1) = <<"L">> \o Slashed(SubSeq(name, 1, k + 1))
    BY <2>2, <2>3, <2>4, Zenon
  <2>8. SplitInv(name, k + 1, s)
    BY <1>1, <2>5, <2>6, <2>7 DEF SplitInv, F
  <2> QED BY <2>1, <2>8 DEF t
<1>8. CASE c = "."
  <2>1. t.pieces = s.pieces \o <<x, <<"/">>>> /\ t.off = k + 1
    <3>1. t = [pieces |-> s.pieces \o <<SubSeq(name, s.off + 1, (k + 1) - 1), <<"/">>>>, off |-> k + 1]
      BY <1>8, Zenon DEF SplitNext
    <3>2. (k + 1) - 1 = k
      BY <1>1
    <3>3. t = [pieces |-> s.pieces \o <<x, <<"/">>>>, off |-> k + 1]
      BY <3>1, <3>2, Zenon
    <3> HIDE DEF x, t
    <3> QED BY <3>3
  <2>2. SubSeq(name, t.off + 1, k + 1) = <<>>
    BY <1>1, <2>1
  <2>3. Slashed(SubSeq(name, 1, k + 1)) = Append(Slashed(p), "/")
    BY <1>5, <1>8
  <2> HIDE DEF x, p, t
  <2>4. FlattenSeq(t.pieces) = (F \o x) \o <<"/">>
    <3>1. s.pieces \in Seq(Seq(Chars)) /\ x \in Seq(Chars) /\ <<"/">> \in Seq(Chars)
      BY <1>1, <1>2, <1>3
    <3> HIDE DEF F
    <3>2. FlattenSeq(s.pieces \o <<x, <<"/">>>>) = (FlattenSeq(s.pieces) \o x) \o <<"/">>
      BY <3>1, TwoMore, Zenon
    <3>3. FlattenSeq(t.pieces) = FlattenSeq(s.pieces \o <<x, <<"/">>>>)
      BY <2>1, Zenon
    <3> QED BY <3>2, <3>3, Zenon DEF F
  <2> HIDE DEF F
  <2>5. (<<"L">> \o Slashed(p)) \o <<"/">> = <<"L">> \o Append(Slashed(p), "/")
    BY <1>3, SlashInChars, ConcatNext, Zenon
  <2>6. FlattenSeq(t.pieces) = <<"L">> \o Append(Slashed(p), "/")
    BY <1>1, <2>4, <2>5, Zenon
  <2>7. FlattenSeq(t.pieces) \in Seq(Chars)
    <3>1. t.pieces \in Seq(Seq(Chars))
      BY <1>6 DEF SplitStates
    <3> QED BY <3>1, FlattenType
  <2>8. FlattenSeq(t.pieces) \o <<>> = FlattenSeq(t.pieces)
    BY <2>7, ConcatEmptySeq
  <2>9. FlattenSeq(t.pieces) \o SubSeq(name, t.off + 1, k + 1) = <<"L">> \o Slashed(SubSeq(name, 1, k + 1))
    BY <2>2, <2>3, <2>6, <2>8, Zenon
  <2>10. \A i \in (t.off + 1)..(k + 1) : name[i] # "."
    BY <1>1, <2>1
  <2>11. t.off <= k + 1
    BY <1>1, <2>1
  <2>12. SplitInv(name, k + 1, t)
    BY <1>6, <2>9, <2>10, <2>11 DEF SplitInv
  <2> QED BY <2>12 DEF t
<1> QED BY <1>7, <1>8

\* A class's name is put together with slashes (descriptor_builder.cc:220-261).
LEMMA ClassNameText ==
  ASSUME NEW name \in Seq(Chars)
  PROVE  /\ ClassName(name) \in Seq(Seq(Chars))
         /\ FlattenSeq(ClassName(name)) = <<"L">> \o Slashed(name) \o <<";">>
<1> DEFINE n == Len(name)
<1>1. PICK h : /\ h[0] = SplitStart
               /\ \A i \in 1..n : h[i] = SplitNext(name, i, h[i - 1])
               /\ ClassName(name) = h[n].pieces \o <<SubSeq(name, h[n].off + 1, n), <<";">>>>
  BY SplitFcn, Zenon
<1> DEFINE T == {k \in Nat : SplitInv(name, k, h[k])}
<1>2. 0 \in T
  BY <1>1, SplitInitially
<1>3. ASSUME NEW k \in 0..(n - 1), k \in T PROVE k + 1 \in T
  <2>1. k + 1 \in 1..n /\ k + 1 \in Nat /\ (k + 1) - 1 = k
    OBVIOUS
  <2>2. h[k + 1] = SplitNext(name, k + 1, h[k])
    BY <1>1, <2>1
  <2>3. SplitInv(name, k, h[k])
    BY <1>3
  <2> QED BY <2>1, <2>2, <2>3, SplitKeeps
<1>4. n \in Nat /\ n \in 0..n /\ SubSeq(name, 1, n) = name
  OBVIOUS
<1>5. n \in T
  <2> HIDE DEF T, n
  <2> QED BY <1>2, <1>3, <1>4, UpTo
<1>6. SplitInv(name, n, h[n])
  BY <1>5
<1> DEFINE s == h[n]
           x == SubSeq(name, s.off + 1, n)
<1>7. s.pieces \in Seq(Seq(Chars)) /\ x \in Seq(Chars)
  BY <1>4, <1>6 DEF SplitInv, SplitStates
<1>8. FlattenSeq(s.pieces) \o x = <<"L">> \o Slashed(name)
  BY <1>4, <1>6 DEF SplitInv
<1>9. <<";">> \in Seq(Chars)
  BY Characters, Zenon
<1>10. ClassName(name) = s.pieces \o <<x, <<";">>>>
  BY <1>1
<1> HIDE DEF s, x
<1>11. /\ s.pieces \o <<x, <<";">>>> \in Seq(Seq(Chars))
       /\ FlattenSeq(s.pieces \o <<x, <<";">>>>) = (FlattenSeq(s.pieces) \o x) \o <<";">>
  BY <1>7, <1>9, TwoMore, Zenon
<1>12. (FlattenSeq(s.pieces) \o x) \o <<";">> = (<<"L">> \o Slashed(name)) \o <<";">>
  BY <1>8, Zenon
<1>13. ClassName(name) \in Seq(Seq(Chars))
  BY <1>10, <1>11, Zenon
<1>14. FlattenSeq(ClassName(name)) = (FlattenSeq(s.pieces) \o x) \o <<";">>
  BY <1>10, <1>11, Zenon
<1> QED BY <1>12, <1>13, <1>14, Zenon

LEMMA SlashedSame ==
  ASSUME NEW s \in Seq(Chars), \A i \in 1..Len(s) : s[i] # "."
  PROVE  Slashed(s) = s
<1>1. \A i \in 1..Len(s) : Slashed(s)[i] = s[i]
  BY SlashedType
<1> QED BY <1>1, SlashedType, SeqEqual

LEMMA LetterPlain == \A c \in Letters : c # "." /\ c # "[" /\ c # "L"
  BY DEF Letters

LEMMA TypeFacts ==
  ASSUME NEW t \in Types
  PROVE  /\ t.kind \in {"primitive", "array", "object", "null"} /\ t.name \in Seq(Chars)
         /\ t.kind = "primitive" => \E c \in Letters \cup {"V"} : t.name = <<c>>
         /\ t.kind = "array" => t.name \in ArrayNames
<1>1. /\ t.kind \in {"primitive", "array", "object", "null"} /\ t.name \in Seq(Chars)
      /\ t.kind = "primitive" => t.name \in {<<c>> : c \in Letters \cup {"V"}}
      /\ t.kind = "array" => t.name \in ArrayNames
  BY BuilderAssumption, Zenon
<1>2. ASSUME t.name \in {<<c>> : c \in Letters \cup {"V"}}
      PROVE  \E c \in Letters \cup {"V"} : t.name = <<c>>
  BY <1>2, Zenon
<1> QED BY <1>1, <1>2, Zenon

LEMMA PrimitiveText ==
  ASSUME NEW t \in Types, t.kind = "primitive"
  PROVE  Primitive(t) = t.name /\ Slashed(t.name) = t.name
<1>1. t.name \in Seq(Chars)
  BY TypeFacts, Zenon
<1>2. PICK c \in Letters \cup {"V"} : t.name = <<c>>
  BY TypeFacts, Zenon
<1>3. t.name[1] = c /\ Len(t.name) = 1 /\ c # "."
  BY <1>2, LetterPlain
<1>4. Slashed(t.name) = t.name
  BY <1>1, <1>3, SlashedSame
<1>5. Primitive(t) = t.name
  <2>1. CASE c \in Letters
    BY <1>3, <2>1 DEF Primitive
  <2>2. CASE c \notin Letters
    <3>1. c = "V"
      BY <2>2
    <3> QED BY <1>2, <1>3, <2>2, <3>1 DEF Primitive
  <2> QED BY <2>1, <2>2
<1> QED BY <1>4, <1>5

LEMMA BracketsCount ==
  ASSUME NEW name \in Seq(Chars), NEW n \in 1..(Len(name) - 1),
         \A j \in 1..n : name[j] = "[", name[n + 1] # "["
  PROVE  Brackets(name) = n
<1>1. n \in Nat /\ Len(name) \in Nat /\ DOMAIN name = 1..Len(name) /\ n + 1 \in 1..Len(name)
  OBVIOUS
<1>2. {i \in DOMAIN name : \A j \in 1..i : name[j] = "["} = 1..n
  <2>1. ASSUME NEW i \in 1..Len(name), \A j \in 1..i : name[j] = "[" PROVE i \in 1..n
    <3>1. n + 1 \notin 1..i
      BY <2>1
    <3> QED BY <1>1, <3>1
  <2>2. ASSUME NEW i \in 1..n PROVE i \in 1..Len(name) /\ \A j \in 1..i : name[j] = "["
    BY <1>1
  <2> QED BY <1>1, <2>1, <2>2
<1>3. Cardinality(1..n) = n
  BY <1>1, FS_Interval
<1> QED BY <1>2, <1>3 DEF Brackets

\* Where the characters are of two sequences put together.
LEMMA Joined ==
  \A u, v \in Seq(Chars) :
    /\ u \o v \in Seq(Chars) /\ Len(u \o v) = Len(u) + Len(v)
    /\ \A i \in 1..Len(u) : (u \o v)[i] = u[i]
    /\ \A i \in 1..Len(v) : (u \o v)[Len(u) + i] = v[i]
<1> SUFFICES ASSUME NEW u \in Seq(Chars), NEW v \in Seq(Chars)
             PROVE  /\ u \o v \in Seq(Chars) /\ Len(u \o v) = Len(u) + Len(v)
                    /\ \A i \in 1..Len(u) : (u \o v)[i] = u[i]
                    /\ \A i \in 1..Len(v) : (u \o v)[Len(u) + i] = v[i]
  OBVIOUS
<1> QED OBVIOUS

\* An array's brackets and its element are put together (:264-290).
LEMMA ArrayText ==
  ASSUME NEW name \in ArrayNames
  PROVE  /\ ArrayName(name) \in Seq(Seq(Chars))
         /\ FlattenSeq(ArrayName(name)) = Slashed(name)
<1>1. name \in Seq(Chars) /\ DOMAIN name = 1..Len(name) /\ Len(name) \in Nat
  <2>1. name \in Seq(Chars)
    BY Zenon DEF ArrayNames
  <2> QED BY <2>1
<1>2. PICK n \in 1..(Len(name) - 1) :
        /\ \A j \in 1..n : name[j] = "["
        /\ \/ Len(name) = n + 1 /\ name[n + 1] \in Letters
           \/ Len(name) > n + 1 /\ name[n + 1] = "L" /\ name[Len(name)] = ";"
  BY DEF ArrayNames
<1>3. n \in Nat /\ n + 1 \in 1..Len(name) /\ name[n + 1] # "["
  <2>1. name[n + 1] \in Letters \/ name[n + 1] = "L"
    BY <1>2, Zenon
  <2>2. name[n + 1] # "["
    BY <2>1, LetterPlain
  <2>3. n \in Nat /\ n + 1 \in 1..Len(name)
    BY <1>1
  <2> QED BY <2>2, <2>3
<1>4. Brackets(name) = n
  BY <1>1, <1>2, <1>3, BracketsCount
<1> DEFINE b == SubSeq(name, 1, n)
<1>5. b \in Seq(Chars) /\ Len(b) = n /\ \A j \in 1..n : b[j] = name[j]
  BY <1>1, <1>3
<1>6. CASE Len(name) = n + 1 /\ name[n + 1] \in Letters
  <2> DEFINE c == name[n + 1]
  <2>1. c \in Letters /\ c # "L" /\ c # "." /\ c \in Chars
    BY <1>1, <1>3, <1>6, LetterPlain
  <2>2. ArrayName(name) = <<b>> \o <<<<c>>>>
    BY <1>4, <2>1, Zenon DEF ArrayName
  <2>3. <<b>> \in Seq(Seq(Chars)) /\ <<<<c>>>> \in Seq(Seq(Chars)) /\ <<c>> \in Seq(Chars)
    BY <1>5, <2>1
  <2>4. FlattenSeq(<<b>>) = b /\ FlattenSeq(<<<<c>>>>) = <<c>>
    BY <1>5, <2>3, FlattenOne
  <2>5. FlattenSeq(<<b>> \o <<<<c>>>>) = FlattenSeq(<<b>>) \o FlattenSeq(<<<<c>>>>)
    BY <2>3, FlattenConcat
  <2>6. b \o <<c>> = name
    <3>1. b \o <<c>> \in Seq(Chars) /\ Len(b \o <<c>>) = n + 1
      BY <1>5, <2>1
    <3>2. \A j \in 1..(n + 1) : (b \o <<c>>)[j] = name[j]
      BY <1>3, <1>5, <2>1
    <3> QED BY <1>1, <1>6, <3>1, <3>2, SeqEqual
  <2>7. Slashed(name) = name
    <3>1. \A j \in 1..Len(name) : name[j] # "."
      <4>1. \A j \in 1..Len(name) : j \in 1..n \/ j = n + 1
        BY <1>3, <1>6
      <4> QED BY <1>2, <2>1, <4>1
    <3> QED BY <1>1, <3>1, SlashedSame
  <2>8. <<b>> \o <<<<c>>>> \in Seq(Seq(Chars))
    BY <2>3, ConcatProperties
  <2> HIDE DEF b, c
  <2>9. FlattenSeq(ArrayName(name)) = b \o <<c>>
    BY <2>2, <2>4, <2>5, Zenon
  <2> QED BY <2>2, <2>6, <2>7, <2>8, <2>9, Zenon
<1>7. CASE Len(name) > n + 1 /\ name[n + 1] = "L" /\ name[Len(name)] = ";"
  <2> DEFINE l == Len(name) - n - 2
             inner == SubSeq(name, n + 2, Len(name))
             bare == IF inner # <<>> /\ Last(inner) = ";" THEN Front(inner) ELSE inner
  <2>a. l \in Nat /\ n + 2 \in 1..Len(name) /\ (Len(name) - (n + 2)) + 1 = l + 1
    <3> DEFINE e == Len(name)
    <3>1. e \in Nat /\ n \in Nat /\ e > n + 1
      BY <1>1, <1>3, <1>7
    <3> HIDE DEF e
    <3>2. e - n - 2 \in Nat /\ n + 2 \in 1..e /\ (e - (n + 2)) + 1 = (e - n - 2) + 1
      BY <3>1
    <3> QED BY <3>2 DEF e
  <2>b. /\ inner \in Seq(Chars) /\ Len(inner) = l + 1
        /\ \A i \in 1..(l + 1) : inner[i] = name[n + 2 + i - 1]
    <3>1. /\ n + 2 \in Int /\ Len(name) \in Int /\ n + 2 <= Len(name)
          /\ \A i \in (n + 2)..Len(name) : name[i] \in Chars
      BY <1>1, <1>3, <2>a
    <3>2. /\ inner \in Seq(Chars)
          /\ Len(inner) = IF n + 2 <= Len(name) THEN Len(name) - (n + 2) + 1 ELSE 0
          /\ \A i \in 1..(Len(name) - (n + 2) + 1) : inner[i] = name[n + 2 + i - 1]
      <4> DEFINE m == n + 2
                 e == Len(name)
      <4>1. m \in Int /\ e \in Int /\ \A i \in m..e : name[i] \in Chars
        BY <3>1
      <4> HIDE DEF m, e
      <4>2. /\ SubSeq(name, m, e) \in Seq(Chars)
            /\ Len(SubSeq(name, m, e)) = IF m <= e THEN e - m + 1 ELSE 0
            /\ \A i \in 1..(e - m + 1) : SubSeq(name, m, e)[i] = name[m + i - 1]
        BY <4>1, SubSeqProperties
      <4> QED BY <4>2, Zenon DEF m, e
    <3> HIDE DEF inner, l
    <3>3. Len(inner) = l + 1
      BY <2>a, <3>1, <3>2
    <3> QED BY <2>a, <3>2, <3>3
  <2>1. l \in Nat /\ inner \in Seq(Chars) /\ Len(inner) = l + 1 /\ inner[l + 1] = ";" /\ inner # <<>>
    <3> HIDE DEF inner
    <3>1. l + 1 \in 1..(l + 1) /\ n + 2 + (l + 1) - 1 = Len(name)
      BY <1>1, <1>3, <2>a
    <3>2. inner[l + 1] = name[Len(name)]
      BY <2>b, <3>1
    <3>3. inner # <<>>
      BY <2>a, <2>b
    <3> QED BY <1>7, <2>a, <2>b, <3>2, <3>3
  <2>2. \A i \in 1..l : inner[i] = name[n + 1 + i] /\ n + 1 + i \in 1..Len(name)
    <3> HIDE DEF inner
    <3> SUFFICES ASSUME NEW i \in 1..l PROVE inner[i] = name[n + 1 + i] /\ n + 1 + i \in 1..Len(name)
      OBVIOUS
    <3>1. i \in 1..(l + 1) /\ n + 2 + i - 1 = n + 1 + i /\ n + 1 + i \in 1..Len(name)
      BY <1>1, <1>3, <2>a
    <3> QED BY <2>b, <3>1
  <2>3. bare = SubSeq(inner, 1, l)
    <3>1. Last(inner) = ";" /\ Front(inner) = SubSeq(inner, 1, l)
      <4> HIDE DEF inner, l
      <4>1. l \in Nat /\ Len(inner) = l + 1 /\ inner[l + 1] = ";"
        BY <2>1
      <4>2. Len(inner) - 1 = l
        <5>1. l \in Nat /\ Len(inner) = l + 1
          BY <4>1, Zenon
        <5> DEFINE e == Len(inner)
        <5>2. e = l + 1
          BY <5>1
        <5> HIDE DEF e
        <5> QED BY <5>1, <5>2 DEF e
      <4>3. Last(inner) = inner[l + 1]
        BY <4>1, Zenon DEF Last
      <4>4. Front(inner) = SubSeq(inner, 1, l)
        BY <4>2, Zenon DEF Front
      <4> QED BY <4>1, <4>3, <4>4, Zenon
    <3> HIDE DEF inner, l
    <3> QED BY <2>1, <3>1
  <2>4. ArrayName(name) = <<b>> \o ClassName(bare)
    BY <1>4, <1>7, Zenon DEF ArrayName
  <2> HIDE DEF bare, inner
  <2>5. bare \in Seq(Chars) /\ Len(bare) = l /\ \A i \in 1..l : bare[i] = inner[i]
    <3>1. l \in Nat /\ Len(inner) = l + 1 /\ inner \in Seq(Chars)
      BY <2>1
    <3> HIDE DEF l
    <3> QED BY <2>3, <3>1
  <2>6. ClassName(bare) \in Seq(Seq(Chars)) /\ FlattenSeq(ClassName(bare)) = <<"L">> \o Slashed(bare) \o <<";">>
    BY <2>5, ClassNameText
  <2>7. <<b>> \in Seq(Seq(Chars)) /\ FlattenSeq(<<b>>) = b
    <3>1. b \in Seq(Chars)
      BY <1>5
    <3> HIDE DEF b
    <3> QED BY <3>1, FlattenOne
  <2> DEFINE C == ClassName(bare)
             t == Slashed(bare)
             r == b \o (<<"L">> \o t \o <<";">>)
  <2>8. C \in Seq(Seq(Chars)) /\ FlattenSeq(C) = <<"L">> \o t \o <<";">>
    BY <2>6
  <2>9. t \in Seq(Chars) /\ Len(t) = l /\ \A i \in 1..l : t[i] = IF bare[i] = "." THEN "/" ELSE bare[i]
    BY <2>5, SlashedType
  <2> HIDE DEF b, C, t, r, l
  <2>10. <<b>> \o C \in Seq(Seq(Chars)) /\ FlattenSeq(<<b>> \o C) = FlattenSeq(<<b>>) \o FlattenSeq(C)
    BY <2>7, <2>8, FlattenConcat, ConcatProperties
  <2>11. FlattenSeq(<<b>> \o C) = r
    BY <2>7, <2>8, <2>10, Zenon DEF r
  <2>12. "L" \in Chars /\ ";" \in Chars
    BY Characters, Zenon
  <2>13. /\ r \in Seq(Chars) /\ Len(r) = n + l + 2
         /\ \A i \in 1..n : r[i] = b[i]
         /\ r[n + 1] = "L" /\ r[n + l + 2] = ";"
         /\ \A i \in 1..l : r[n + 1 + i] = t[i]
    <3>1. l \in Nat /\ n \in Nat
      BY <1>3, <2>1
    <3>2. b \in Seq(Chars) /\ Len(b) = n
      BY <1>5
    <3> DEFINE u == <<"L">> \o t
               w == u \o <<";">>
    <3>a. <<"L">> \in Seq(Chars) /\ Len(<<"L">>) = 1 /\ <<"L">>[1] = "L" /\ 1 \in 1..1
      <4>1. <<"L">> \in Seq(Chars)
        BY Characters, Zenon
      <4>2. Len(<<"L">>) = 1 /\ <<"L">>[1] = "L" /\ 1 \in 1..1
        OBVIOUS
      <4> QED BY <4>1, <4>2, Zenon
    <3>b. <<";">> \in Seq(Chars) /\ Len(<<";">>) = 1 /\ <<";">>[1] = ";"
      <4>1. <<";">> \in Seq(Chars)
        BY Characters, Zenon
      <4>2. Len(<<";">>) = 1 /\ <<";">>[1] = ";"
        OBVIOUS
      <4> QED BY <4>1, <4>2, Zenon
    <3>c. t \in Seq(Chars) /\ Len(t) = l
      BY <2>9, Zenon
    <3>3. u \in Seq(Chars) /\ Len(u) = 1 + l /\ u[1] = "L" /\ \A i \in 1..l : u[1 + i] = t[i]
      <4>1. /\ u \in Seq(Chars) /\ Len(u) = Len(<<"L">>) + Len(t)
            /\ \A i \in 1..Len(<<"L">>) : u[i] = <<"L">>[i]
            /\ \A i \in 1..Len(t) : u[Len(<<"L">>) + i] = t[i]
        BY <3>a, <3>c, Joined, Zenon
      <4> HIDE DEF u
      <4> QED BY <3>a, <3>c, <4>1, Zenon
    <3> HIDE DEF u
    <3>4. /\ w \in Seq(Chars) /\ Len(w) = (1 + l) + 1 /\ w[(1 + l) + 1] = ";"
          /\ \A i \in 1..(1 + l) : w[i] = u[i]
      <4>1. /\ w \in Seq(Chars) /\ Len(w) = Len(u) + Len(<<";">>)
            /\ \A i \in 1..Len(u) : w[i] = u[i]
            /\ \A i \in 1..Len(<<";">>) : w[Len(u) + i] = <<";">>[i]
        BY <3>3, <3>b, Joined, Zenon
      <4> HIDE DEF w
      <4> QED BY <3>3, <3>a, <3>b, <4>1, Zenon
    <3> HIDE DEF w
    <3>5. r = b \o w
      BY Zenon DEF r, w, u
    <3>6. /\ r \in Seq(Chars) /\ Len(r) = n + ((1 + l) + 1)
          /\ \A i \in 1..n : r[i] = b[i]
          /\ \A i \in 1..((1 + l) + 1) : r[n + i] = w[i]
      <4>1. /\ b \o w \in Seq(Chars) /\ Len(b \o w) = Len(b) + Len(w)
            /\ \A i \in 1..Len(b) : (b \o w)[i] = b[i]
            /\ \A i \in 1..Len(w) : (b \o w)[Len(b) + i] = w[i]
        BY <3>2, <3>4, Joined, Zenon
      <4> QED BY <3>2, <3>4, <3>5, <4>1, Zenon
    <3>7. /\ n + ((1 + l) + 1) = n + l + 2 /\ 1 \in 1..((1 + l) + 1) /\ 1 \in 1..(1 + l)
          /\ (1 + l) + 1 \in 1..((1 + l) + 1)
          /\ \A i \in 1..l : 1 + i \in 1..((1 + l) + 1) /\ 1 + i \in 1..(1 + l) /\ n + (1 + i) = n + 1 + i
      BY <3>1
    <3>8. r[n + 1] = "L" /\ r[n + ((1 + l) + 1)] = ";"
      BY <3>3, <3>4, <3>6, <3>7, Zenon
    <3>9. \A i \in 1..l : r[n + (1 + i)] = t[i]
      <4> SUFFICES ASSUME NEW i \in 1..l PROVE r[n + (1 + i)] = t[i]
        OBVIOUS
      <4>1. r[n + (1 + i)] = w[1 + i]
        BY <3>6, <3>7, Zenon
      <4>2. w[1 + i] = u[1 + i]
        BY <3>4, <3>7, Zenon
      <4> QED BY <3>3, <4>1, <4>2, Zenon
    <3>10. r[n + l + 2] = ";" /\ Len(r) = n + l + 2
      BY <3>6, <3>7, <3>8, Zenon
    <3>11. \A i \in 1..l : r[n + 1 + i] = t[i]
      BY <3>7, <3>9, Zenon
    <3> QED BY <3>6, <3>8, <3>10, <3>11, Zenon
  <2>14. Slashed(name) = r
    <3>1. Slashed(name) \in Seq(Chars) /\ Len(Slashed(name)) = Len(name)
      BY <1>1, SlashedType
    <3>2. Len(name) = n + l + 2
      BY <1>1, <1>3 DEF l
    <3>3. ASSUME NEW i \in 1..Len(name) PROVE Slashed(name)[i] = r[i]
      <4>1. Slashed(name)[i] = IF name[i] = "." THEN "/" ELSE name[i]
        BY <1>1, SlashedType
      <4>2. CASE i \in 1..n
        BY <1>2, <1>5, <2>13, <4>1, <4>2
      <4>3. CASE i = n + 1
        BY <1>7, <2>13, <4>1, <4>3
      <4>4. CASE i = n + l + 2
        BY <1>7, <2>13, <3>2, <4>1, <4>4
      <4>5. CASE i \in (n + 2)..(n + l + 1)
        <5>1. i - n - 1 \in 1..l /\ n + 1 + (i - n - 1) = i
          <6>1. l \in Nat /\ n \in Nat
            BY <1>3, <2>1
          <6> QED BY <4>5, <6>1
        <5>2. r[i] = t[i - n - 1] /\ bare[i - n - 1] = name[i]
          BY <2>2, <2>5, <2>13, <5>1
        <5> QED BY <2>9, <4>1, <5>1, <5>2
      <4>6. i \in 1..n \/ i = n + 1 \/ i = n + l + 2 \/ i \in (n + 2)..(n + l + 1)
        <5>1. l \in Nat /\ n \in Nat
          BY <1>3, <2>1
        <5> QED BY <3>2, <5>1
      <4> QED BY <4>2, <4>3, <4>4, <4>5, <4>6
    <3>4. \A i \in 1..Len(name) : Slashed(name)[i] = r[i]
      BY <3>3
    <3>5. \A u, v \in Seq(Chars) : Len(u) = Len(v) /\ (\A i \in 1..Len(u) : u[i] = v[i]) => u = v
      BY SeqEqual
    <3>6. Slashed(name) \in Seq(Chars) /\ Len(Slashed(name)) = Len(name) /\ r \in Seq(Chars) /\ Len(r) = Len(name)
      BY <2>13, <3>1, <3>2
    <3> HIDE DEF r
    <3> QED BY <3>4, <3>5, <3>6, Zenon
  <2>15. ArrayName(name) = <<b>> \o C
    BY <2>4, Zenon DEF C
  <2> QED BY <2>10, <2>11, <2>14, <2>15, Zenon
<1> QED BY <1>2, <1>6, <1>7

\* What appendClassDescriptor appends says the type.
LEMMA TypeSays ==
  ASSUME NEW t \in Types
  PROVE  /\ TypePieces(t) \in Seq(Seq(Chars)) /\ TypeText(t) \in Seq(Chars)
         /\ FlattenSeq(TypePieces(t)) = TypeText(t)
<1>1. t.name \in Seq(Chars) /\ t.kind \in {"primitive", "array", "object", "null"}
  BY TypeFacts, Zenon
<1>2. CASE t.kind = "primitive"
  <2>1. TypePieces(t) = <<t.name>> /\ TypeText(t) = t.name
    <3>1. Primitive(t) = t.name /\ Slashed(t.name) = t.name
      BY <1>2, PrimitiveText
    <3>2. TypePieces(t) = <<Primitive(t)>> /\ TypeText(t) = Slashed(t.name)
      BY <1>2 DEF TypePieces, TypeText
    <3> QED BY <3>1, <3>2, Zenon
  <2>2. <<t.name>> \in Seq(Seq(Chars)) /\ FlattenSeq(<<t.name>>) = t.name
    BY <1>1, FlattenOne
  <2> QED BY <1>1, <2>1, <2>2, Zenon
<1>3. CASE t.kind = "array"
  <2>1. TypePieces(t) = ArrayName(t.name) /\ TypeText(t) = Slashed(t.name)
    BY <1>3 DEF TypePieces, TypeText
  <2>2. t.name \in ArrayNames
    BY <1>3, TypeFacts, Zenon
  <2>3. Slashed(t.name) \in Seq(Chars)
    BY <1>1, SlashedType
  <2> QED BY <2>1, <2>2, <2>3, ArrayText, Zenon
<1>4. CASE t.kind = "object"
  <2>1. TypePieces(t) = ClassName(t.name) /\ TypeText(t) = <<"L">> \o Slashed(t.name) \o <<";">>
    BY <1>4, Zenon DEF TypePieces, TypeText
  <2>2. ClassName(t.name) \in Seq(Seq(Chars)) /\ FlattenSeq(ClassName(t.name)) = <<"L">> \o Slashed(t.name) \o <<";">>
    BY <1>1, ClassNameText
  <2>3. FlattenSeq(ClassName(t.name)) \in Seq(Chars)
    BY <2>2, FlattenType
  <2> QED BY <2>1, <2>2, <2>3, Zenon
<1>5. CASE t.kind = "null"
  <2>1. TypePieces(t) = <<>> /\ TypeText(t) = <<>>
    BY <1>5 DEF TypePieces, TypeText
  <2>2. <<>> \in Seq(Seq(Chars)) /\ <<>> \in Seq(Chars) /\ FlattenSeq(<<>>) = <<>>
    BY FlattenEmpty
  <2> QED BY <2>1, <2>2, Zenon
<1> QED BY <1>1, <1>2, <1>3, <1>4, <1>5

-----------------------------------------------------------------------------
(* The pieces of a method.                                                 *)

LEMMA MethodFacts ==
  ASSUME NEW m \in Reportable
  PROVE  m.class \in Types /\ m.ret \in Types /\ m.name \in Seq(Chars) /\ m.params \in Seq(Types)
<1>1. {m.class, m.ret} \subseteq Types /\ m.name \in Seq(Chars) /\ m.params \in Seq(Types)
  BY BuilderAssumption, Zenon
<1> QED BY <1>1, Zenon

\* What is appended to what.
LEMMA PartsConcat ==
  \A ps, qs \in Seq(Seq(Chars)) :
    /\ ps \o qs \in Seq(Seq(Chars))
    /\ FlattenSeq(ps \o qs) = FlattenSeq(ps) \o FlattenSeq(qs)
  BY FlattenConcat, ConcatProperties

LEMMA ParamsSay ==
  ASSUME NEW ts \in Seq(Types)
  PROVE  /\ FlattenSeq([i \in DOMAIN ts |-> TypePieces(ts[i])]) \in Seq(Seq(Chars))
         /\ FlattenSeq(FlattenSeq([i \in DOMAIN ts |-> TypePieces(ts[i])]))
              = FlattenSeq([i \in DOMAIN ts |-> TypeText(ts[i])])
<1> DEFINE pp == [i \in DOMAIN ts |-> TypePieces(ts[i])]
           tt == [i \in DOMAIN ts |-> TypeText(ts[i])]
<1>1. Len(ts) \in Nat /\ DOMAIN ts = 1..Len(ts) /\ \A i \in 1..Len(ts) : ts[i] \in Types
  OBVIOUS
<1>2. \A i \in 1..Len(ts) : /\ TypePieces(ts[i]) \in Seq(Seq(Chars)) /\ TypeText(ts[i]) \in Seq(Chars)
                            /\ FlattenSeq(TypePieces(ts[i])) = TypeText(ts[i])
  BY <1>1, TypeSays
<1>3. pp \in [1..Len(ts) -> Seq(Seq(Chars))] /\ tt \in [1..Len(ts) -> Seq(Chars)]
  BY <1>1, <1>2, Zenon
<1>4. \A i \in 1..Len(ts) : pp[i] = TypePieces(ts[i]) /\ tt[i] = TypeText(ts[i])
  BY <1>1, Zenon
<1> HIDE DEF pp, tt
<1>5. pp \in Seq(Seq(Seq(Chars))) /\ tt \in Seq(Seq(Chars)) /\ Len(pp) = Len(ts) /\ Len(tt) = Len(ts)
  <2> DEFINE U == Seq(Seq(Chars))
             V == Seq(Chars)
             n == Len(ts)
  <2>1. pp \in [1..n -> U] /\ tt \in [1..n -> V] /\ n \in Nat
    BY <1>1, <1>3, Zenon
  <2> HIDE DEF U, V, n
  <2>2. pp \in Seq(U) /\ tt \in Seq(V) /\ Len(pp) = n /\ Len(tt) = n
    BY <2>1
  <2> QED BY <2>2 DEF U, V, n
<1>6. \A i \in 1..Len(pp) : FlattenSeq(pp[i]) = tt[i]
  BY <1>2, <1>4, <1>5, Zenon
<1>7. Len(pp) = Len(tt)
  BY <1>5
<1>8. FlattenSeq(FlattenSeq(pp)) = FlattenSeq(tt)
  BY <1>5, <1>6, <1>7, FlattenTwice
<1>9. FlattenSeq(pp) \in Seq(Seq(Chars))
  BY <1>5, FlattenType
<1> QED BY <1>8, <1>9 DEF pp, tt

\* What GetDescriptor appends says the method (:294-314).
LEMMA MethodSays ==
  ASSUME NEW m \in Reportable
  PROVE  /\ MethodPieces(m) \in Seq(Seq(Chars)) /\ Text(m) \in Seq(Chars)
         /\ FlattenSeq(MethodPieces(m)) = Text(m)
<1> DEFINE A == TypePieces(m.class)
           arrow == <<"-", ">">>
           P == FlattenSeq([i \in DOMAIN m.params |-> TypePieces(m.params[i])])
           T == FlattenSeq([i \in DOMAIN m.params |-> TypeText(m.params[i])])
           R == TypePieces(m.ret)
<1>1. m.class \in Types /\ m.ret \in Types /\ m.name \in Seq(Chars) /\ m.params \in Seq(Types)
  BY MethodFacts
<1>2. A \in Seq(Seq(Chars)) /\ FlattenSeq(A) = TypeText(m.class)
  BY <1>1, TypeSays, Zenon
<1>3. R \in Seq(Seq(Chars)) /\ FlattenSeq(R) = TypeText(m.ret)
  BY <1>1, TypeSays, Zenon
<1>4. P \in Seq(Seq(Chars)) /\ FlattenSeq(P) = T
  BY <1>1, ParamsSay, Zenon
<1>5. arrow \in Seq(Chars) /\ <<"(">> \in Seq(Chars) /\ <<")">> \in Seq(Chars)
  <2>1. "-" \in Chars /\ ">" \in Chars /\ <<"(">> \in Seq(Chars) /\ <<")">> \in Seq(Chars)
    BY Characters, Zenon
  <2>2. \A c, d \in Chars : <<c, d>> \in Seq(Chars)
    OBVIOUS
  <2> QED BY <2>1, <2>2, Zenon
<1> DEFINE three == <<arrow, m.name, <<"(">>>>
           one == <<<<")">>>>
<1>6. three \in Seq(Seq(Chars)) /\ FlattenSeq(three) = (arrow \o m.name) \o <<"(">>
  <2>1. <<arrow>> \in Seq(Seq(Chars)) /\ FlattenSeq(<<arrow>>) = arrow
    <3> HIDE DEF arrow
    <3> QED BY <1>5, FlattenOne
  <2>2. \A x, y, z : <<x, y, z>> = <<x>> \o <<y, z>>
    OBVIOUS
  <2> DEFINE q == <<arrow>>
  <2>3. three = q \o <<m.name, <<"(">>>>
    <3> DEFINE k == m.name
               o == <<"(">>
    <3> HIDE DEF arrow, k, o
    <3>1. <<arrow, k, o>> = <<arrow>> \o <<k, o>>
      BY <2>2, Zenon
    <3> QED BY <3>1, Zenon DEF k, o
  <2>4. q \in Seq(Seq(Chars)) /\ FlattenSeq(q) = arrow
    BY <2>1
  <2> HIDE DEF q, arrow, three
  <2>5. /\ q \o <<m.name, <<"(">>>> \in Seq(Seq(Chars))
        /\ FlattenSeq(q \o <<m.name, <<"(">>>>) = (FlattenSeq(q) \o m.name) \o <<"(">>
    BY <1>1, <1>5, <2>4, TwoMore, Zenon
  <2> QED BY <2>3, <2>4, <2>5, Zenon
<1>7. one \in Seq(Seq(Chars)) /\ FlattenSeq(one) = <<")">>
  <2> DEFINE c == <<")">>
  <2>1. c \in Seq(Chars)
    BY <1>5
  <2> HIDE DEF c
  <2>2. <<c>> \in Seq(Seq(Chars)) /\ FlattenSeq(<<c>>) = c
    BY <2>1, FlattenOne
  <2> QED BY <2>2, Zenon DEF c
<1>8. MethodPieces(m) = (((A \o three) \o P) \o one) \o R
  BY Zenon DEF MethodPieces
<1>9. Text(m) = (((((TypeText(m.class) \o arrow) \o m.name) \o <<"(">>) \o T) \o <<")">>) \o TypeText(m.ret)
  BY Zenon DEF Text
<1> DEFINE C == TypeText(m.class)
<1>10. C \in Seq(Chars)
  BY <1>1, TypeSays, Zenon
<1>11. C \o ((arrow \o m.name) \o <<"(">>) = ((C \o arrow) \o m.name) \o <<"(">>
  <2> DEFINE o == <<"(">>
             k == m.name
  <2>1. C \in Seq(Chars) /\ arrow \in Seq(Chars) /\ k \in Seq(Chars) /\ o \in Seq(Chars)
    BY <1>1, <1>5, <1>10, Zenon
  <2> HIDE DEF o, k, C, arrow
  <2>2. arrow \o k \in Seq(Chars)
    BY <2>1, ConcatProperties
  <2>3. \A u, v, w \in Seq(Chars) : (u \o v) \o w = u \o (v \o w)
    BY ConcatAssociative
  <2>4. C \o ((arrow \o k) \o o) = (C \o (arrow \o k)) \o o /\ C \o (arrow \o k) = (C \o arrow) \o k
    BY <2>1, <2>2, <2>3, ZenonT(30)
  <2> QED BY <2>4, Zenon DEF o, k
<1> HIDE DEF A, P, T, R, three, one, C, arrow
<1>12. A \o three \in Seq(Seq(Chars)) /\ FlattenSeq(A \o three) = ((C \o arrow) \o m.name) \o <<"(">>
  <2>1. A \o three \in Seq(Seq(Chars)) /\ FlattenSeq(A \o three) = FlattenSeq(A) \o FlattenSeq(three)
    BY <1>2, <1>6, PartsConcat, Zenon
  <2> QED BY <1>2, <1>6, <1>11, <2>1, Zenon DEF C
<1>13. /\ (A \o three) \o P \in Seq(Seq(Chars))
       /\ FlattenSeq((A \o three) \o P) = (((C \o arrow) \o m.name) \o <<"(">>) \o T
  BY <1>4, <1>12, PartsConcat, Zenon
<1>14. /\ ((A \o three) \o P) \o one \in Seq(Seq(Chars))
       /\ FlattenSeq(((A \o three) \o P) \o one) = ((((C \o arrow) \o m.name) \o <<"(">>) \o T) \o <<")">>
  BY <1>7, <1>13, PartsConcat, Zenon
<1>15. /\ (((A \o three) \o P) \o one) \o R \in Seq(Seq(Chars))
       /\ FlattenSeq((((A \o three) \o P) \o one) \o R)
            = (((((C \o arrow) \o m.name) \o <<"(">>) \o T) \o <<")">>) \o TypeText(m.ret)
  BY <1>3, <1>14, PartsConcat, Zenon
<1>16. MethodPieces(m) \in Seq(Seq(Chars)) /\ FlattenSeq(MethodPieces(m)) = Text(m)
  BY <1>8, <1>9, <1>15, Zenon DEF C
<1>17. FlattenSeq(MethodPieces(m)) \in Seq(Chars)
  BY <1>16, FlattenType
<1> QED BY <1>16, <1>17, Zenon

-----------------------------------------------------------------------------
(* Bytes and units.                                                        *)

\* A piece has as many bytes as units when each character is of one byte, and
\* more when one is not.
LEMMA SizeOf ==
  ASSUME NEW p \in Seq(Chars)
  PROVE  /\ Size(p) \in Nat /\ Size(p) >= Len(p)
         /\ Size(p) <= Len(p) <=> Narrow(p)
<1> DEFINE W == {i \in DOMAIN p : p[i] \in Wide}
<1>1. Len(p) \in Nat /\ DOMAIN p = 1..Len(p)
  OBVIOUS
<1>2. IsFiniteSet(W)
  <2>1. IsFiniteSet(DOMAIN p)
    BY <1>1, FS_Interval
  <2> QED BY <2>1, FS_Subset
<1>3. Cardinality(W) \in Nat /\ (Cardinality(W) = 0 <=> W = {})
  BY <1>2, FS_CardinalityType, FS_EmptySet
<1>4. Narrow(p) <=> W = {}
  BY DEF Narrow
<1>5. Size(p) = Len(p) + Cardinality(W)
  BY DEF Size
<1> HIDE DEF W
<1> QED BY <1>1, <1>3, <1>4, <1>5

LEMMA NarrowParts ==
  ASSUME NEW u \in Seq(Chars), NEW v \in Seq(Chars)
  PROVE  Narrow(u \o v) <=> Narrow(u) /\ Narrow(v)
<1>1. Len(u) \in Nat /\ Len(v) \in Nat /\ DOMAIN u = 1..Len(u) /\ DOMAIN v = 1..Len(v)
  OBVIOUS
<1> DEFINE w == u \o v
<1>2. /\ w \in Seq(Chars) /\ Len(w) = Len(u) + Len(v)
      /\ \A i \in 1..Len(u) : w[i] = u[i]
      /\ \A i \in 1..Len(v) : w[Len(u) + i] = v[i]
  BY Joined, Zenon
<1> HIDE DEF w
<1>3. DOMAIN w = 1..(Len(u) + Len(v))
  BY <1>2
<1>4. ASSUME Narrow(w) PROVE Narrow(u) /\ Narrow(v)
  <2>1. \A i \in 1..Len(u) : i \in DOMAIN w
    BY <1>1, <1>3
  <2>2. \A i \in 1..Len(v) : Len(u) + i \in DOMAIN w
    BY <1>1, <1>3
  <2> QED BY <1>1, <1>2, <1>4, <2>1, <2>2, Zenon DEF Narrow
<1>5. ASSUME Narrow(u), Narrow(v) PROVE Narrow(w)
  <2> SUFFICES ASSUME NEW i \in DOMAIN w PROVE w[i] \notin Wide
    BY DEF Narrow
  <2>1. CASE i \in 1..Len(u)
    BY <1>1, <1>2, <1>5, <2>1, Zenon DEF Narrow
  <2>2. CASE i \notin 1..Len(u)
    <3>1. i - Len(u) \in 1..Len(v) /\ Len(u) + (i - Len(u)) = i
      BY <1>1, <1>3, <2>2
    <3>2. w[i] = v[i - Len(u)]
      BY <1>2, <3>1, Zenon
    <3> QED BY <1>1, <1>5, <3>1, <3>2, Zenon DEF Narrow
  <2> QED BY <2>1, <2>2
<1> QED BY <1>4, <1>5 DEF w

-----------------------------------------------------------------------------
(* The builder keeps its invariant.                                        *)

LEMMA DInitial == Init => DInv
<1> SUFFICES ASSUME Init PROVE DInv
  OBVIOUS
<1>1. TypeOK
  <2>1. <<>> \in Seq(Seq(Chars))
    OBVIOUS
  <2>2. <<>> \in Seq(Chars) /\ <<>> \in Seq(Spans) /\ <<>> \in Seq([method : Reportable, text : Seq(Chars)])
    OBVIOUS
  <2>3. 12 \in Nat /\ 0 \in Nat
    OBVIOUS
  <2> QED BY <2>1, <2>2, <2>3, Zenon DEF Init, TypeOK, CacheSize
<1>2. PendingInv /\ TextInv /\ LocalsInv
  BY DEF Init, PendingInv, TextInv, LocalsInv, CacheSize
<1>3. TextIsDescriptor /\ SpansTile
  BY DEF Init, TextIsDescriptor, SpansTile
<1> QED BY <1>1, <1>2, <1>3 DEF DInv

LEMMA BeginKeeps == ASSUME DInv, NEW m \in Reportable, Begin(m) PROVE DInv'
<1>1. /\ pc = "idle" /\ pc' = "append" /\ method' = m /\ pieces' = MethodPieces(m)
      /\ ssb' = <<>> /\ spans' = <<>> /\ locals' = locals + 1 /\ met' = met + 1
      /\ pending' = pending /\ appends' = appends /\ list' = list
  BY DEF Begin
<1>2. TypeOK /\ pending = FALSE
  BY <1>1 DEF DInv, PendingInv, TypeOK
<1>3. MethodPieces(m) \in Seq(Seq(Chars)) /\ FlattenSeq(MethodPieces(m)) = Text(m) /\ Text(m) \in Seq(Chars)
  BY MethodSays
<1>4. TypeOK'
  <2>1. ssb' \in Seq(Chars) /\ spans' \in Seq(Spans) /\ pieces' \in Seq(Seq(Chars))
    BY <1>1, <1>3
  <2>2. {locals, met, appends}' \subseteq Nat
    BY <1>1, <1>2 DEF TypeOK
  <2> QED BY <1>1, <1>2, <2>1, <2>2 DEF TypeOK
<1>5. PendingInv'
  BY <1>1, <1>2 DEF PendingInv
<1>6. TextInv'
  <2>1. \A u \in Seq(Chars) : <<>> \o u = u
    OBVIOUS
  <2>2. ssb' \o FlattenSeq(pieces') = Text(method')
    BY <1>1, <1>3, <2>1, Zenon
  <2> QED BY <2>2 DEF TextInv
<1>7. LocalsInv'
  BY <1>1, <1>2 DEF DInv, LocalsInv, TypeOK, CacheSize
<1>8. TextIsDescriptor'
  BY <1>1, Zenon DEF DInv, TextIsDescriptor
<1>9. SpansTile'
  BY <1>1 DEF SpansTile
<1> QED BY <1>4, <1>5, <1>6, <1>7, <1>8, <1>9 DEF DInv

\* What setSpan is given fits unless a character of the piece is wide.
LEMMA AppendKeeps == ASSUME DInv, AppendPiece PROVE DInv'
<1> DEFINE h == Head(pieces)
           start == Len(ssb)
           end == start + Size(h)
<1>1. /\ pc = "append" /\ pieces # <<>> /\ ssb' = ssb \o h /\ pieces' = Tail(pieces)
      /\ IF end <= Len(ssb') THEN spans' = Append(spans, [from |-> start, to |-> end]) /\ pending' = pending
                             ELSE pending' = TRUE /\ spans' = spans
      /\ locals' = locals + 1 /\ appends' = appends + 1
      /\ pc' = pc /\ method' = method /\ list' = list /\ met' = met
  BY DEF AppendPiece
<1>2. TypeOK
  BY DEF DInv
<1>3. h \in Seq(Chars) /\ pieces' \in Seq(Seq(Chars)) /\ ssb \in Seq(Chars) /\ pieces \in Seq(Seq(Chars))
      /\ spans \in Seq(Spans) /\ method \in Reportable
  BY <1>1, <1>2 DEF TypeOK
<1>4. FlattenSeq(pieces) = h \o FlattenSeq(pieces') /\ FlattenSeq(pieces') \in Seq(Chars)
  BY <1>1, <1>3, FlattenHead, FlattenType
<1> HIDE DEF h
<1>5. Size(h) \in Nat /\ Size(h) >= Len(h) /\ (Size(h) <= Len(h) <=> Narrow(h)) /\ Len(h) \in Nat
  BY <1>3, SizeOf
<1>6. ssb' \in Seq(Chars) /\ Len(ssb') = start + Len(h) /\ start \in Nat
  BY <1>1, <1>3, ConcatProperties
<1> HIDE DEF start
<1>7. end \in Nat /\ (end <= Len(ssb') <=> Narrow(h)) /\ (Narrow(h) => end = Len(ssb'))
  BY <1>5, <1>6
<1>8. Narrow(ssb') <=> Narrow(ssb) /\ Narrow(h)
  BY <1>1, <1>3, NarrowParts, Zenon
<1> HIDE DEF end
<1>9. TypeOK'
  <2>1. spans' \in Seq(Spans)
    <3>1. [from |-> start, to |-> end] \in Spans
      <4>1. start \in Nat /\ end \in Nat
        BY <1>6, <1>7, Zenon
      <4> QED BY <4>1 DEF Spans
    <3>2. \A ss \in Seq(Spans), e \in Spans : Append(ss, e) \in Seq(Spans)
      OBVIOUS
    <3>3. spans' = Append(spans, [from |-> start, to |-> end]) \/ spans' = spans
      BY <1>1, Zenon
    <3> QED BY <1>3, <3>1, <3>2, <3>3, Zenon
  <2>2. pending' \in BOOLEAN
    BY <1>1, <1>2, Zenon DEF TypeOK
  <2>3. {locals, met, appends}' \subseteq Nat
    BY <1>1, <1>2 DEF TypeOK
  <2>4. pc' \in {"idle", "append", "done", "aborted"} /\ method' \in Reportable
        /\ list' \in Seq([method : Reportable, text : Seq(Chars)])
    BY <1>1, <1>2, Zenon DEF TypeOK
  <2> QED BY <1>3, <1>6, <2>1, <2>2, <2>3, <2>4 DEF TypeOK
<1>10. ~Narrow(h) /\ ~pending => ~Narrow(Text(method))
  <2> SUFFICES ASSUME ~pending, Narrow(Text(method)) PROVE Narrow(h)
    OBVIOUS
  <2>1. ssb \o FlattenSeq(pieces) = Text(method)
    BY <1>1 DEF DInv, TextInv
  <2>2. FlattenSeq(pieces) \in Seq(Chars)
    BY <1>3, FlattenType
  <2>3. Narrow(FlattenSeq(pieces))
    BY <1>3, <2>1, <2>2, NarrowParts, Zenon
  <2> QED BY <1>3, <1>4, <2>3, NarrowParts, Zenon
<1>11. PendingInv'
  <2>1. pc' = "append" /\ method' = method
    BY <1>1
  <2>2. pending' => pending \/ ~Narrow(h)
    BY <1>1, <1>7, Zenon
  <2>3. pending => ~Narrow(Text(method))
    BY DEF DInv, PendingInv
  <2> QED BY <1>10, <2>1, <2>2, <2>3, Zenon DEF PendingInv
<1>12. TextInv'
  <2> SUFFICES ASSUME ~pending' PROVE ssb' \o FlattenSeq(pieces') = Text(method')
    BY DEF TextInv
  <2>1. ~pending /\ pending' = pending
    BY <1>1, Zenon
  <2>2. ssb \o FlattenSeq(pieces) = Text(method)
    BY <1>1, <2>1 DEF DInv, TextInv
  <2>3. \A u, v, w \in Seq(Chars) : (u \o v) \o w = u \o (v \o w)
    BY ConcatAssociative
  <2>4. (ssb \o h) \o FlattenSeq(pieces') = ssb \o (h \o FlattenSeq(pieces'))
    BY <1>3, <1>4, <2>3, Zenon
  <2>5. ssb' = ssb \o h /\ method' = method
    BY <1>1
  <2> QED BY <1>4, <2>2, <2>4, <2>5, Zenon
<1>13. LocalsInv'
  <2>1. locals = appends + (CacheSize + 1) /\ locals \in Nat /\ appends \in Nat
    BY <1>1, <1>2 DEF DInv, LocalsInv, TypeOK
  <2>2. locals' = appends' + (CacheSize + 1)
    BY <1>1, <2>1 DEF CacheSize
  <2> QED BY <1>1, <2>2 DEF LocalsInv
<1>14. TextIsDescriptor'
  BY <1>1, Zenon DEF DInv, TextIsDescriptor
<1>15. SpansTile'
  <2> SUFFICES ASSUME Narrow(ssb')
               PROVE  /\ \A i \in DOMAIN spans' :
                           spans'[i].from = (IF i = 1 THEN 0 ELSE spans'[i - 1].to)
                      /\ spans' # <<>> => Last(spans').to = Len(ssb')
                      /\ spans' = <<>> => ssb' = <<>>
    BY DEF SpansTile
  <2>1. Narrow(ssb) /\ Narrow(h)
    BY <1>8
  <2> DEFINE span == [from |-> start, to |-> end]
  <2>2. spans' = Append(spans, span) /\ end = Len(ssb')
    BY <1>1, <1>7, <2>1
  <2>3. /\ \A i \in DOMAIN spans : spans[i].from = (IF i = 1 THEN 0 ELSE spans[i - 1].to)
        /\ spans # <<>> => Last(spans).to = Len(ssb)
        /\ spans = <<>> => ssb = <<>>
    BY <2>1 DEF DInv, SpansTile
  <2> DEFINE k == Len(spans)
  <2>4. k \in Nat /\ DOMAIN spans = 1..k /\ span.from = start /\ span.to = end
    BY <1>3
  <2> HIDE DEF span
  <2>5. DOMAIN spans' = 1..(k + 1) /\ spans'[k + 1] = span /\ (\A i \in 1..k : spans'[i] = spans[i])
        /\ Len(spans') = k + 1
    BY <1>3, <2>2
  <2>6. span.from = IF k + 1 = 1 THEN 0 ELSE spans'[(k + 1) - 1].to
    <3>1. CASE k = 0
      <4>1. spans = <<>>
        BY <1>3, <3>1
      <4>2. start = 0
        BY <2>3, <4>1 DEF start
      <4> QED BY <2>4, <3>1, <4>2
    <3>2. CASE k # 0
      <4>1. spans # <<>> /\ k \in 1..k /\ (k + 1) - 1 = k /\ k + 1 # 1
        BY <1>3, <2>4, <3>2
      <4>2. spans[k].to = start
        BY <2>3, <4>1, Zenon DEF Last, start
      <4>3. spans'[k].to = start
        BY <2>5, <4>1, <4>2, Zenon
      <4> QED BY <2>4, <4>1, <4>3, Zenon
    <3> QED BY <3>1, <3>2
  <2>7. ASSUME NEW i \in 1..(k + 1) PROVE spans'[i].from = IF i = 1 THEN 0 ELSE spans'[i - 1].to
    <3>1. CASE i = k + 1
      BY <2>5, <2>6, <3>1, Zenon
    <3>2. CASE i # k + 1
      <4>1. i \in 1..k /\ (i # 1 => i - 1 \in 1..k)
        BY <2>4, <3>2
      <4>2. spans'[i] = spans[i] /\ (i # 1 => spans'[i - 1] = spans[i - 1])
        BY <2>5, <4>1, Zenon
      <4>3. spans[i].from = IF i = 1 THEN 0 ELSE spans[i - 1].to
        BY <2>3, <2>4, <4>1, Zenon
      <4> QED BY <4>2, <4>3, Zenon
    <3> QED BY <3>1, <3>2
  <2>8. Last(spans').to = Len(ssb')
    BY <2>2, <2>4, <2>5, Zenon DEF Last
  <2>9. spans' # <<>>
    BY <2>4, <2>5
  <2> QED BY <2>5, <2>7, <2>8, <2>9, Zenon
<1> QED BY <1>9, <1>11, <1>12, <1>13, <1>14, <1>15 DEF DInv

LEMMA SkipKeeps == ASSUME DInv, SkipPiece PROVE DInv'
<1>1. /\ pc = "append" /\ pending /\ pieces # <<>> /\ pieces' = Tail(pieces) /\ pc' = pc
      /\ method' = method /\ ssb' = ssb /\ spans' = spans /\ pending' = pending
      /\ locals' = locals /\ met' = met /\ appends' = appends /\ list' = list
  BY DEF SkipPiece
<1>2. TypeOK'
  <2>1. pieces' \in Seq(Seq(Chars))
    BY <1>1 DEF DInv, TypeOK
  <2> QED BY <1>1, <2>1 DEF DInv, TypeOK
<1>3. PendingInv' /\ TextInv' /\ LocalsInv'
  BY <1>1, Zenon DEF DInv, PendingInv, TextInv, LocalsInv
<1>4. TextIsDescriptor' /\ SpansTile'
  BY <1>1, Zenon DEF DInv, TextIsDescriptor, SpansTile
<1> QED BY <1>2, <1>3, <1>4 DEF DInv

LEMMA AbortKeeps == ASSUME DInv, Abort PROVE DInv'
<1>1. /\ pc = "append" /\ pending /\ pc' = "aborted" /\ pieces' = pieces
      /\ method' = method /\ ssb' = ssb /\ spans' = spans /\ pending' = pending
      /\ locals' = locals /\ met' = met /\ appends' = appends /\ list' = list
  BY DEF Abort
<1>2. TypeOK'
  BY <1>1 DEF DInv, TypeOK
<1>3. PendingInv' /\ TextInv' /\ LocalsInv'
  BY <1>1 DEF DInv, PendingInv, TextInv, LocalsInv
<1>4. TextIsDescriptor' /\ SpansTile'
  BY <1>1, Zenon DEF DInv, TextIsDescriptor, SpansTile
<1> QED BY <1>2, <1>3, <1>4 DEF DInv

\* The text that is put into the list is whole unless an exception came.
LEMMA EndKeeps == ASSUME DInv, End PROVE DInv'
<1>1. /\ pc = "append" /\ pieces = <<>> /\ pc' = "idle"
      /\ (list' = Append(list, [method |-> method, text |-> ssb]) \/ list' = list)
      /\ pending' = FALSE /\ locals' = locals - 1 /\ method' = method /\ pieces' = pieces
      /\ ssb' = ssb /\ spans' = spans /\ met' = met /\ appends' = appends
  BY DEF End
<1>2. TypeOK
  BY DEF DInv
<1> DEFINE entry == [method |-> method, text |-> ssb]
           S == [method : Reportable, text : Seq(Chars)]
<1>3. entry \in S /\ list \in Seq(S) /\ ssb \in Seq(Chars) /\ method \in Reportable
  BY <1>2 DEF TypeOK
<1>4. locals = appends + (CacheSize + 1) /\ locals \in Nat /\ appends \in Nat
  BY <1>1, <1>2 DEF DInv, LocalsInv, TypeOK
<1>5. locals' = appends' + CacheSize /\ locals' \in Nat
  BY <1>1, <1>4 DEF CacheSize
<1>6. list' \in Seq(S)
  <2> HIDE DEF entry, S
  <2>1. \A l \in Seq(S), e \in S : Append(l, e) \in Seq(S)
    OBVIOUS
  <2> QED BY <1>1, <1>3, <2>1, Zenon DEF entry
<1>7. TypeOK'
  <2>1. {locals, met, appends}' \subseteq Nat
    BY <1>1, <1>2, <1>5 DEF TypeOK
  <2> QED BY <1>1, <1>2, <1>6, <2>1 DEF TypeOK
<1>8. PendingInv' /\ TextInv' /\ LocalsInv'
  BY <1>1, <1>5 DEF PendingInv, TextInv, LocalsInv
<1>9. Narrow(Text(method)) => ssb = Text(method)
  <2> SUFFICES ASSUME Narrow(Text(method)) PROVE ssb = Text(method)
    OBVIOUS
  <2>1. ~pending
    BY DEF DInv, PendingInv
  <2>2. ssb \o FlattenSeq(pieces) = Text(method)
    BY <1>1, <2>1 DEF DInv, TextInv
  <2>3. \A u \in Seq(Chars) : u \o <<>> = u
    OBVIOUS
  <2> QED BY <1>1, <1>3, <2>2, <2>3, FlattenEmpty, Zenon
<1>10. TextIsDescriptor'
  <2>1. CASE list' = list
    BY <2>1, Zenon DEF DInv, TextIsDescriptor
  <2>2. CASE list' = Append(list, entry)
    <3> SUFFICES ASSUME NEW i \in DOMAIN list', Narrow(Text(list'[i].method))
                 PROVE  list'[i].text = Text(list'[i].method)
      BY DEF TextIsDescriptor
    <3> DEFINE k == Len(list)
    <3>1. k \in Nat /\ DOMAIN list = 1..k /\ entry.method = method /\ entry.text = ssb
      BY <1>3
    <3> HIDE DEF entry, S
    <3>2. i \in 1..(k + 1) /\ list'[k + 1] = entry /\ \A j \in 1..k : list'[j] = list[j]
      BY <1>3, <2>2
    <3>3. CASE i = k + 1
      BY <1>9, <3>1, <3>2, <3>3, Zenon
    <3>4. CASE i # k + 1
      <4>1. i \in 1..k
        BY <3>1, <3>2, <3>4
      <4>2. list'[i] = list[i] /\ i \in DOMAIN list
        BY <3>1, <3>2, <4>1, Zenon
      <4>3. Narrow(Text(list[i].method)) => list[i].text = Text(list[i].method)
        BY <4>2, Zenon DEF DInv, TextIsDescriptor
      <4> QED BY <4>2, <4>3, Zenon
    <3> QED BY <3>3, <3>4
  <2> QED BY <1>1, <2>1, <2>2
<1>11. SpansTile'
  BY <1>1, Zenon DEF DInv, SpansTile
<1> QED BY <1>7, <1>8, <1>10, <1>11 DEF DInv

LEMMA DestroyKeeps == ASSUME DInv, Destroy PROVE DInv'
<1>1. /\ pc = "idle" /\ pc' = "done" /\ locals' = locals - CacheSize /\ pieces' = pieces
      /\ method' = method /\ ssb' = ssb /\ spans' = spans /\ pending' = pending
      /\ met' = met /\ appends' = appends /\ list' = list
  BY DEF Destroy
<1>2. locals = appends + CacheSize /\ locals \in Nat /\ appends \in Nat
  BY <1>1 DEF DInv, LocalsInv, TypeOK
<1>3. locals' = appends' + 0 /\ locals' \in Nat
  BY <1>1, <1>2 DEF CacheSize
<1>4. TypeOK'
  BY <1>1, <1>3 DEF DInv, TypeOK
<1>5. PendingInv' /\ TextInv' /\ LocalsInv'
  BY <1>1, <1>3 DEF DInv, PendingInv, TextInv, LocalsInv
<1>6. TextIsDescriptor' /\ SpansTile'
  BY <1>1, Zenon DEF DInv, TextIsDescriptor, SpansTile
<1> QED BY <1>4, <1>5, <1>6 DEF DInv

LEMMA DStutter == ASSUME DInv, UNCHANGED vars PROVE DInv'
<1>1. /\ pc' = pc /\ method' = method /\ pieces' = pieces /\ ssb' = ssb /\ spans' = spans
      /\ pending' = pending /\ locals' = locals /\ met' = met /\ appends' = appends /\ list' = list
  BY DEF vars
<1>2. TypeOK' /\ PendingInv' /\ TextInv' /\ LocalsInv'
  BY <1>1 DEF DInv, TypeOK, PendingInv, TextInv, LocalsInv
<1>3. TextIsDescriptor' /\ SpansTile'
  BY <1>1, Zenon DEF DInv, TextIsDescriptor, SpansTile
<1> QED BY <1>2, <1>3 DEF DInv

LEMMA DStep == DInv /\ [Next]_vars => DInv'
  BY BeginKeeps, AppendKeeps, SkipKeeps, AbortKeeps, EndKeeps, DestroyKeeps, DStutter DEF Next

\* The builder keeps its invariant: types, what makes the text, references,
\* exceptions, the list and the spans, for methods of any signature.
THEOREM DescriptorInvariance == Spec => []DInv
  BY DInitial, DStep, PTL DEF Spec

\* A method whose characters are one byte each is shown by its descriptor
\* (descriptor_builder.cc:220-312).
THEOREM DescriptorCorrect == Spec => []TextIsDescriptor
<1>1. DInv => TextIsDescriptor
  BY DEF DInv
<1> QED BY <1>1, DescriptorInvariance, PTL

\* The spans of such a text lie one after another from its beginning to its
\* end (descriptor_builder.cc:179-198).
THEOREM SpansCorrect == Spec => []SpansTile
<1>1. DInv => SpansTile
  BY DEF DInv
<1> QED BY <1>1, DescriptorInvariance, PTL

\* One reference for each append that returned is left and no other
\* (descriptor_builder.cc:157-174, :199-201, main.cc:826).
THEOREM LocalsCorrect == Spec => []LocalsLeft
<1>1. DInv => LocalsLeft
  BY DEF DInv, LocalsInv, LocalsLeft, TypeOK, CacheSize
<1> QED BY <1>1, DescriptorInvariance, PTL
=============================================================================
