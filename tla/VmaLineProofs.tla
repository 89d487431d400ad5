----------------------------- MODULE VmaLineProofs -----------------------------
(* Proofs about VmaLine for words, widths, names, fields and flags of any  *)
(* length.                                                                 *)
EXTENDS VmaLine, SequenceTheorems, WellFoundedInduction, TLAPS

-----------------------------------------------------------------------------
(* Numbers and texts.                                                      *)

LEMMA LeastNat ==
  ASSUME NEW T, T \subseteq Nat, T # {}
  PROVE  \E x \in T : \A y \in T : x <= y
<1>1. \E x \in T : \A y \in T : ~(<<y, x>> \in OpToRel(<, Nat))
  BY WFMin, NatLessThanWellFounded, Zenon
<1>2. PICK x \in T : \A y \in T : ~(<<y, x>> \in OpToRel(<, Nat))
  BY <1>1
<1>3. \A a, b \in Nat : a < b => <<a, b>> \in OpToRel(<, Nat)
  BY Zenon DEF OpToRel
<1>4. \A y \in T : ~(y < x)
  BY <1>2, <1>3, Zenon
<1> QED BY <1>4

\* A set of numbers that has 0 and the next of each of its numbers up to n has
\* them all up to n.
LEMMA UpTo ==
  ASSUME NEW T, NEW n \in Nat, 0 \in T, \A k \in 0..(n - 1) : k \in T => k + 1 \in T
  PROVE  \A k \in 0..n : k \in T
<1> DEFINE B == {k \in 0..n : k \notin T}
<1> SUFFICES ASSUME B # {} PROVE FALSE
  OBVIOUS
<1>1. B \subseteq Nat
  OBVIOUS
<1>2. PICK k \in B : \A j \in B : k <= j
  BY <1>1, LeastNat, Zenon
<1>3. k \in 0..n /\ k # 0 /\ k - 1 \in 0..(n - 1) /\ k - 1 \notin B /\ (k - 1) + 1 = k
  BY <1>2
<1> QED BY <1>2, <1>3

\* A function that is defined from each value to the next is there.
Rules(n, S) == [(1..n) \X S -> S]
Follows(f, n, S, a, G) ==
  f \in [0..n -> S] /\ f[0] = a /\ \A i \in 1..n : f[i] = G[<<i, f[i - 1]>>]

LEMMA Recursion ==
  ASSUME NEW n \in Nat, NEW S, NEW a \in S, NEW G \in Rules(n, S)
  PROVE  \E f : Follows(f, n, S, a, G)
<1>r. G \in [(1..n) \X S -> S]
  BY DEF Rules
<1> DEFINE Upto(k, f) == f \in [0..k -> S] /\ f[0] = a /\ \A i \in 1..k : f[i] = G[<<i, f[i - 1]>>]
           T == {k \in 0..n : \E f : Upto(k, f)}
<1>1. 0 \in T
  <2> DEFINE g == [i \in 0..0 |-> a]
  <2>1. g \in [0..0 -> S] /\ g[0] = a
    OBVIOUS
  <2>2. Upto(0, g) /\ 0 \in 0..n
    BY <2>1
  <2> HIDE DEF Upto
  <2> QED BY <2>2
<1>2. ASSUME NEW k \in 0..(n - 1), k \in T PROVE k + 1 \in T
  <2>1. PICK f : Upto(k, f)
    BY <1>2
  <2> DEFINE g == [i \in 0..(k + 1) |-> IF i <= k THEN f[i] ELSE G[<<k + 1, f[k]>>]]
  <2>2. f[k] \in S /\ k + 1 \in 1..n
    BY <1>2, <2>1
  <2>3. g \in [0..(k + 1) -> S]
    BY <1>2, <1>r, <2>1, <2>2
  <2>4. g[0] = a
    BY <1>2, <2>1
  <2>5. ASSUME NEW i \in 1..(k + 1) PROVE g[i] = G[<<i, g[i - 1]>>]
    <3>1. CASE i <= k
      BY <1>2, <2>1, <3>1
    <3>3. k \in Nat
      BY <1>2
    <3>2. CASE i = k + 1
      <4>1. k + 1 \in 0..(k + 1) /\ k \in 0..(k + 1) /\ ~(k + 1 <= k) /\ k <= k /\ (k + 1) - 1 = k
        BY <3>3
      <4>2. g[k + 1] = G[<<k + 1, f[k]>>] /\ g[k] = f[k]
        BY <4>1
      <4> QED BY <3>2, <4>1, <4>2
    <3>4. i <= k \/ i = k + 1
      BY <3>3
    <3> QED BY <3>1, <3>2, <3>4
  <2>6. Upto(k + 1, g)
    BY <2>3, <2>4, <2>5
  <2>7. k + 1 \in 0..n
    BY <1>2
  <2> QED BY <2>6, <2>7
<1> HIDE DEF T
<1>3. n \in T
  BY <1>1, <1>2, UpTo
<1> QED BY <1>3 DEF T, Follows

LEMMA MaxTwo == \A a, b \in Nat : Max({a, b}) = IF a >= b THEN a ELSE b
<1> SUFFICES ASSUME NEW a \in Nat, NEW b \in Nat PROVE Max({a, b}) = IF a >= b THEN a ELSE b
  OBVIOUS
<1> DEFINE m == IF a >= b THEN a ELSE b
<1>1. m \in {a, b} /\ \A y \in {a, b} : m >= y
  OBVIOUS
<1>2. \A x, z \in {a, b} : (\A y \in {a, b} : x >= y) /\ (\A y \in {a, b} : z >= y) => x = z
  OBVIOUS
<1> HIDE DEF m
<1>3. Max({a, b}) \in {a, b} /\ \A y \in {a, b} : Max({a, b}) >= y
  BY <1>1, Zenon DEF Max
<1>4. Max({a, b}) = m
  BY <1>1, <1>2, <1>3, Zenon
<1> QED BY <1>4 DEF m

LEMMA MaxThree ==
  \A a, b, c \in Nat : Max({a, b, c}) = IF a >= b /\ a >= c THEN a ELSE IF b >= c THEN b ELSE c
<1> SUFFICES ASSUME NEW a \in Nat, NEW b \in Nat, NEW c \in Nat
             PROVE  Max({a, b, c}) = IF a >= b /\ a >= c THEN a ELSE IF b >= c THEN b ELSE c
  OBVIOUS
<1> DEFINE m == IF a >= b /\ a >= c THEN a ELSE IF b >= c THEN b ELSE c
<1>1. m \in {a, b, c} /\ \A y \in {a, b, c} : m >= y
  OBVIOUS
<1>2. \A x, z \in {a, b, c} : (\A y \in {a, b, c} : x >= y) /\ (\A y \in {a, b, c} : z >= y) => x = z
  OBVIOUS
<1> HIDE DEF m
<1>3. Max({a, b, c}) \in {a, b, c} /\ \A y \in {a, b, c} : Max({a, b, c}) >= y
  BY <1>1, Zenon DEF Max
<1>4. Max({a, b, c}) = m
  BY <1>1, <1>2, <1>3, Zenon
<1> QED BY <1>4 DEF m

LEMMA Characters ==
  /\ " " \in Chars /\ "d" \in Chars /\ ":" \in Chars /\ "V" \in Chars /\ "m" \in Chars
  /\ "0" \in Chars /\ "1" \in Chars /\ "\n" \in Chars
<1>1. {" ", "d", ":", "V", "m", "0", "1", "\n"} \subseteq Chars
  BY LineAssumption, Zenon
<1> QED BY <1>1, Zenon

LEMMA Numbers == Col32 \in Nat \ {0} /\ Col64 \in Nat /\ Col32 < Col64 /\ Room \in Nat
  BY LineAssumption, Zenon

LEMMA CharText == \A c \in Chars : <<c>> \in Seq(Chars) /\ Len(<<c>>) = 1 /\ <<c>>[1] = c
  OBVIOUS

\* Where the characters are of two texts put together.
LEMMA Joined ==
  \A u, v \in Seq(Chars) :
    /\ u \o v \in Seq(Chars) /\ Len(u \o v) = Len(u) + Len(v)
    /\ \A i \in 1..Len(u) : (u \o v)[i] = u[i]
    /\ \A i \in 1..Len(v) : (u \o v)[Len(u) + i] = v[i]
<1> SUFFICES ASSUME NEW u \in Seq(Chars), NEW v \in Seq(Chars)
             PROVE  /\ u \o v \in Seq(Chars) /\ Len(u \o v) = Len(u) + Len(v)
                    /\ \A i \in 1..Len(u) : (u \o v)[i] = u[i]
                    /\ \A i \in 1..Len(v) : (u \o v)[Len(u) + i] = v[i]
  OBVIOUS
<1> QED OBVIOUS

LEMMA AppendText ==
  \A s \in Seq(Chars) : \A c \in Chars :
    /\ Append(s, c) \in Seq(Chars) /\ Len(Append(s, c)) = Len(s) + 1
    /\ \A i \in 1..Len(s) : Append(s, c)[i] = s[i]
    /\ Append(s, c)[Len(s) + 1] = c
<1> SUFFICES ASSUME NEW s \in Seq(Chars), NEW c \in Chars
             PROVE  /\ Append(s, c) \in Seq(Chars) /\ Len(Append(s, c)) = Len(s) + 1
                    /\ \A i \in 1..Len(s) : Append(s, c)[i] = s[i]
                    /\ Append(s, c)[Len(s) + 1] = c
  OBVIOUS
<1> QED OBVIOUS

LEMMA SubSeqText ==
  \A s \in Seq(Chars) : \A m \in Nat, n \in Nat : 1 <= m /\ n <= Len(s) =>
    /\ SubSeq(s, m, n) \in Seq(Chars)
    /\ Len(SubSeq(s, m, n)) = (IF m <= n THEN n - m + 1 ELSE 0)
    /\ \A i \in 1..(n - m + 1) : SubSeq(s, m, n)[i] = s[m + i - 1]
<1> SUFFICES ASSUME NEW s \in Seq(Chars), NEW m \in Nat, NEW n \in Nat, 1 <= m, n <= Len(s)
             PROVE  /\ SubSeq(s, m, n) \in Seq(Chars)
                    /\ Len(SubSeq(s, m, n)) = (IF m <= n THEN n - m + 1 ELSE 0)
                    /\ \A i \in 1..(n - m + 1) : SubSeq(s, m, n)[i] = s[m + i - 1]
  OBVIOUS
<1>1. \A i \in m..n : s[i] \in Chars
  OBVIOUS
<1>2. m \in Int /\ n \in Int
  OBVIOUS
<1> QED BY <1>1, <1>2, SubSeqProperties

\* What is left of a text behind its first part.
LEMMA FromJoined ==
  ASSUME NEW u \in Seq(Chars), NEW v \in Seq(Chars)
  PROVE  From(u \o v, Len(u)) = v
<1> DEFINE t == u \o v
           m == Len(u) + 1
           n == Len(t)
<1>1. /\ t \in Seq(Chars) /\ n = Len(u) + Len(v)
      /\ \A i \in 1..Len(v) : t[Len(u) + i] = v[i]
  BY Joined, Zenon
<1>2. Len(u) \in Nat /\ Len(v) \in Nat
  OBVIOUS
<1> HIDE DEF t
<1>3. m \in Nat /\ n \in Nat /\ 1 <= m /\ n <= Len(t) /\ n - m + 1 = Len(v)
  BY <1>1, <1>2
<1> DEFINE r == SubSeq(t, m, n)
<1>4. /\ r \in Seq(Chars) /\ Len(r) = (IF m <= n THEN n - m + 1 ELSE 0)
      /\ \A i \in 1..(n - m + 1) : r[i] = t[m + i - 1]
  <2>1. \A a, b \in Nat : 1 <= a /\ b <= Len(t) =>
           /\ SubSeq(t, a, b) \in Seq(Chars)
           /\ Len(SubSeq(t, a, b)) = (IF a <= b THEN b - a + 1 ELSE 0)
           /\ \A i \in 1..(b - a + 1) : SubSeq(t, a, b)[i] = t[a + i - 1]
    BY <1>1, SubSeqText, Zenon
  <2> HIDE DEF m, n
  <2> QED BY <1>3, <2>1, Zenon
<1> HIDE DEF r
<1>5. Len(r) = Len(v)
  BY <1>1, <1>2, <1>3, <1>4
<1>6. ASSUME NEW i \in 1..Len(v) PROVE r[i] = v[i]
  <2>1. m + i - 1 = Len(u) + i
    BY <1>2
  <2> QED BY <1>1, <1>3, <1>4, <2>1, Zenon
<1>7. r = v
  BY <1>4, <1>5, <1>6, SeqEqual
<1> QED BY <1>7, Zenon DEF From, r, m, n, t

LEMMA BlanksText ==
  ASSUME NEW n \in Nat
  PROVE  /\ Blanks(n) \in Seq(Chars) /\ Len(Blanks(n)) = n
         /\ \A i \in 1..n : Blanks(n)[i] = " "
<1>1. Blanks(n) \in [1..n -> Chars]
  BY Characters DEF Blanks
<1> DEFINE s == Blanks(n)
<1>2. \A i \in 1..n : s[i] = " "
  BY DEF Blanks
<1>3. s \in [1..n -> Chars]
  BY <1>1
<1> HIDE DEF s
<1>4. s \in Seq(Chars) /\ Len(s) = n
  BY <1>3
<1> QED BY <1>2, <1>4 DEF s

LEMMA PrefixText ==
  ASSUME NEW w \in Nat, w >= 1
  PROVE  /\ Prefix(w) \in Seq(Chars) /\ Len(Prefix(w)) = w /\ Prefix(w)[w] = " "
<1>1. Prefix(w) \in [1..w -> Chars]
  BY Characters DEF Prefix
<1> DEFINE s == Prefix(w)
<1>2. s[w] = " "
  BY DEF Prefix
<1>3. s \in [1..w -> Chars]
  BY <1>1
<1> HIDE DEF s
<1>4. s \in Seq(Chars) /\ Len(s) = w
  BY <1>3
<1> QED BY <1>2, <1>4 DEF s

-----------------------------------------------------------------------------
(* What the kernel writes.                                                 *)

IsLine(l) == l.width \in Widths /\ l.name \in Names

LEMMA LineFacts ==
  ASSUME NEW l, IsLine(l)
  PROVE  /\ l.width \in Nat /\ l.width >= 1 /\ l.name \in Seq(Chars) /\ Len(l.name) \in Nat
         /\ l.name # <<>> => Len(l.name) >= 1 /\ l.name[1] # " "
         /\ l.width + 1 + Len(l.name) <= Room /\ Col64 + Len(l.name) <= Room
<1>1. l.width \in Nat \ {0} /\ l.name \in Seq(Chars)
  BY LineAssumption, Zenon DEF IsLine
<1>2. l.name # <<>> => l.name[1] # " "
  BY LineAssumption, Zenon DEF IsLine
<1>3. l.width + 1 + Len(l.name) <= Room /\ Col64 + Len(l.name) <= Room
  BY LineAssumption, Zenon DEF IsLine
<1> DEFINE n == l.name
           w == l.width
<1>4. Len(n) \in Nat /\ (n # <<>> => Len(n) >= 1)
  <2>1. n \in Seq(Chars)
    BY <1>1
  <2> HIDE DEF n
  <2> QED BY <2>1
<1>5. w >= 1 /\ w \in Nat
  BY <1>1
<1> QED BY <1>1, <1>2, <1>3, <1>4, <1>5, Zenon

LEMMA ColumnFacts ==
  ASSUME kernel \in {Col32, Col64}
  PROVE  /\ Col32 \in Nat /\ Col64 \in Nat /\ 1 <= Col32 /\ Col32 < Col64 /\ kernel \in Nat
         /\ Col32 <= kernel /\ kernel <= Col64
  BY Numbers

\* A mapping without a name.
LEMMA Unnamed ==
  ASSUME NEW l, IsLine(l), l.name = <<>>
  PROVE  KernelLine(l) = Prefix(l.width) /\ KernelLine(l) \in Seq(Chars) /\ Len(KernelLine(l)) = l.width
<1>1. Prefix(l.width) \in Seq(Chars) /\ Len(Prefix(l.width)) = l.width
  BY LineFacts, PrefixText
<1>2. \A u \in Seq(Chars) : u \o <<>> = u
  OBVIOUS
<1>3. KernelLine(l) = Prefix(l.width) \o <<>>
  BY Zenon DEF KernelLine
<1> QED BY <1>1, <1>2, <1>3, Zenon

\* A name in the column of names.
LEMMA NameInColumn ==
  ASSUME NEW l, IsLine(l), l.name # <<>>, kernel \in {Col32, Col64}, l.width < kernel
  PROVE  LET text == KernelLine(l) IN
         /\ text = (Prefix(l.width) \o Blanks(kernel - l.width)) \o l.name
         /\ text \in Seq(Chars) /\ Len(text) = kernel + Len(l.name)
         /\ text[kernel] = " " /\ text[kernel + 1] = l.name[1]
         /\ From(text, kernel) = l.name
<1> DEFINE w == l.width
           n == l.name
           b == kernel - w
           p == Prefix(w)
           s == Blanks(b)
           u == p \o s
<1>1. /\ w \in Nat /\ w >= 1 /\ n \in Seq(Chars) /\ Len(n) \in Nat /\ Len(n) >= 1 /\ kernel \in Nat
      /\ b \in Nat /\ b >= 1
  <2>1. w \in Nat /\ w >= 1 /\ n \in Seq(Chars) /\ Len(n) \in Nat /\ Len(n) >= 1
    BY LineFacts, Zenon
  <2>2. kernel \in Nat /\ w < kernel
    BY ColumnFacts
  <2> HIDE DEF w, n
  <2>3. b \in Nat /\ b >= 1
    BY <2>1, <2>2
  <2> QED BY <2>1, <2>2, <2>3
<1>2. p \in Seq(Chars) /\ Len(p) = w /\ s \in Seq(Chars) /\ Len(s) = b /\ s[b] = " "
  <2>1. p \in Seq(Chars) /\ Len(p) = w
    BY <1>1, PrefixText
  <2> HIDE DEF b
  <2>2. s \in Seq(Chars) /\ Len(s) = b /\ \A i \in 1..b : s[i] = " "
    BY <1>1, BlanksText
  <2>3. b \in 1..b
    BY <1>1
  <2> QED BY <2>1, <2>2, <2>3, Zenon
<1>3. KernelLine(l) = u \o n
  <2>1. KernelLine(l) = p \o (s \o n)
    BY Zenon DEF KernelLine
  <2>2. \A x, y, z \in Seq(Chars) : (x \o y) \o z = x \o (y \o z)
    BY ConcatAssociative
  <2> HIDE DEF p, s, n
  <2> QED BY <1>1, <1>2, <2>1, <2>2, Zenon
<1> HIDE DEF p, s
<1>4. /\ u \in Seq(Chars) /\ Len(u) = Len(p) + Len(s) /\ \A i \in 1..Len(s) : u[Len(p) + i] = s[i]
  BY <1>2, Joined, Zenon
<1> HIDE DEF u
<1>5. Len(u) = kernel /\ u[kernel] = " "
  <2>1. w + b = kernel /\ b \in 1..b
    BY <1>1
  <2> QED BY <1>2, <1>4, <2>1, Zenon
<1> DEFINE t == u \o n
<1>6. /\ t \in Seq(Chars) /\ Len(t) = Len(u) + Len(n)
      /\ \A i \in 1..Len(u) : t[i] = u[i]
      /\ \A i \in 1..Len(n) : t[Len(u) + i] = n[i]
  BY <1>1, <1>4, Joined, Zenon
<1>7. From(t, Len(u)) = n
  BY <1>1, <1>4, FromJoined
<1>8. kernel \in 1..kernel /\ 1 \in 1..Len(n)
  BY <1>1
<1> HIDE DEF t
<1>9. t[kernel] = " " /\ t[kernel + 1] = n[1] /\ From(t, kernel) = n /\ Len(t) = kernel + Len(n)
  BY <1>5, <1>6, <1>7, <1>8, Zenon
<1> QED BY <1>3, <1>6, <1>9, Zenon DEF t, u, p, s

\* A name behind it.
LEMMA NameBehind ==
  ASSUME NEW l, IsLine(l), l.name # <<>>, kernel \in {Col32, Col64}, l.width >= kernel
  PROVE  LET text == KernelLine(l) IN
         /\ text = Prefix(l.width) \o (<<" ">> \o l.name)
         /\ text \in Seq(Chars) /\ Len(text) = l.width + 1 + Len(l.name)
         /\ From(text, l.width) = <<" ">> \o l.name
<1> DEFINE w == l.width
           n == l.name
           p == Prefix(w)
           s == Blanks(1)
           v == <<" ">> \o n
<1>1. w \in Nat /\ w >= 1 /\ n \in Seq(Chars) /\ Len(n) \in Nat /\ kernel \in Nat
  BY LineFacts, ColumnFacts
<1>2. p \in Seq(Chars) /\ Len(p) = w
  BY <1>1, PrefixText
<1>3. s = <<" ">>
  <2> DEFINE r == <<" ">>
  <2>1. s \in Seq(Chars) /\ Len(s) = 1 /\ \A i \in 1..1 : s[i] = " "
    BY BlanksText
  <2>2. r \in Seq(Chars) /\ Len(r) = 1 /\ r[1] = " "
    BY Characters, CharText, Zenon
  <2>3. \A i \in 1..1 : i = 1
    OBVIOUS
  <2> HIDE DEF s, r
  <2>4. \A i \in 1..1 : s[i] = r[i]
    BY <2>1, <2>2, <2>3, Zenon
  <2>5. s = r
    BY <2>1, <2>2, <2>4, SeqEqual
  <2> QED BY <2>5 DEF r
<1>4. KernelLine(l) = p \o v
  <2>1. ~(w < kernel)
    BY <1>1
  <2>2. KernelLine(l) = p \o (s \o n)
    BY <2>1, Zenon DEF KernelLine
  <2> QED BY <1>3, <2>2, Zenon
<1>5. <<" ">> \in Seq(Chars) /\ Len(<<" ">>) = 1
  BY Characters, CharText, Zenon
<1>6. v \in Seq(Chars) /\ Len(v) = 1 + Len(n)
  BY <1>1, <1>5, Joined, Zenon
<1> HIDE DEF p, v
<1>7. p \o v \in Seq(Chars) /\ Len(p \o v) = Len(p) + Len(v)
  BY <1>2, <1>6, Joined, Zenon
<1>8. From(p \o v, Len(p)) = v
  BY <1>2, <1>6, FromJoined
<1>9. w + (1 + Len(n)) = w + 1 + Len(n)
  BY <1>1
<1> QED BY <1>2, <1>4, <1>6, <1>7, <1>8, <1>9, Zenon DEF p, v

LEMMA LineText ==
  ASSUME NEW l, IsLine(l), kernel \in {Col32, Col64}
  PROVE  KernelLine(l) \in Seq(Chars)
<1>1. l.width \in Nat /\ kernel \in Nat
  BY LineFacts, ColumnFacts
<1> DEFINE w == l.width
<1>2. w < kernel \/ w >= kernel
  <2> HIDE DEF w
  <2>1. w \in Nat
    BY <1>1 DEF w
  <2> QED BY <1>1, <2>1
<1> QED BY <1>2, Unnamed, NameInColumn, NameBehind, Zenon

LEMMA FromText == ASSUME NEW s \in Seq(Chars), NEW k \in Nat PROVE From(s, k) \in Seq(Chars)
<1> DEFINE n == Len(s)
           m == k + 1
<1>1. n \in Nat /\ m \in Nat /\ 1 <= m /\ n <= Len(s)
  OBVIOUS
<1>2. SubSeq(s, m, n) \in Seq(Chars)
  <2> HIDE DEF n, m
  <2> QED BY <1>1, SubSeqText, Zenon
<1> QED BY <1>2 DEF From

LEMMA FromEnd == ASSUME NEW s \in Seq(Chars) PROVE From(s, Len(s)) = <<>>
<1>1. SubSeq(s, Len(s) + 1, Len(s)) = <<>>
  OBVIOUS
<1> QED BY <1>1 DEF From

-----------------------------------------------------------------------------
(* What ParseVmaEntry makes of it.                                         *)

\* A name, with a blank before it when it is behind the column.
Shown(l) == IF l.width < kernel \/ l.name = <<>> THEN l.name ELSE <<" ">> \o l.name

\* Where a name has to be looked for.
Column(w) == IF w < kernel THEN kernel ELSE w

LEMMA ShownAt ==
  ASSUME NEW l, IsLine(l), kernel \in {Col32, Col64}
  PROVE  LET text == KernelLine(l)
             k == Column(l.width)
         IN /\ text \in Seq(Chars) /\ k \in Nat /\ Len(text) \in Nat
            /\ NameAt(text, k) = Shown(l)
            /\ l.name = <<>> => Len(text) = l.width
            /\ l.name # <<>> => Len(text) > k /\ From(text, k) = Shown(l)
<1> DEFINE w == l.width
           n == Len(l.name)
           text == KernelLine(l)
           k == Column(w)
           size == Len(text)
<1>1. text \in Seq(Chars) /\ size \in Nat
  BY LineText
<1>2. w \in Nat /\ n \in Nat /\ (l.name # <<>> => n >= 1) /\ kernel \in Nat
  <2>1. w \in Nat /\ n \in Nat /\ (l.name # <<>> => n >= 1)
    BY LineFacts, Zenon
  <2> QED BY <2>1, ColumnFacts, Zenon
<1>3. CASE l.name = <<>>
  <2>1. size = w /\ Shown(l) = <<>>
    BY <1>3, Unnamed, Zenon DEF Shown
  <2> HIDE DEF text, size, w
  <2>2. k \in Nat /\ ~(size > k)
    BY <1>2, <2>1 DEF Column
  <2>3. NameAt(text, k) = <<>>
    BY <2>2, Zenon DEF NameAt, size
  <2> QED BY <1>1, <1>3, <2>1, <2>2, <2>3, Zenon DEF text, w, size
<1>4. CASE l.name # <<>> /\ w < kernel
  <2>1. k = kernel /\ Shown(l) = l.name
    BY <1>4, Zenon DEF Shown, Column
  <2>2. size = kernel + n /\ From(text, kernel) = l.name
    BY <1>4, NameInColumn, Zenon
  <2> HIDE DEF text, size, w, n, k
  <2>3. size > k /\ k \in Nat
    BY <1>2, <1>4, <2>1, <2>2
  <2>4. NameAt(text, k) = From(text, k)
    BY <2>3, Zenon DEF NameAt, size
  <2> QED BY <1>1, <1>4, <2>1, <2>2, <2>3, <2>4, Zenon DEF text, w, size, k
<1>5. CASE l.name # <<>> /\ ~(w < kernel)
  <2>0. w >= kernel
    <3> HIDE DEF w
    <3> QED BY <1>2, <1>5
  <2>1. k = w /\ Shown(l) = <<" ">> \o l.name
    BY <1>5, Zenon DEF Shown, Column
  <2>2. size = w + 1 + n /\ From(text, w) = <<" ">> \o l.name
    BY <1>5, <2>0, NameBehind, Zenon
  <2> HIDE DEF text, size, w, n, k
  <2>3. size > k /\ k \in Nat
    <3>1. size = w + 1 + n /\ k = w
      BY <2>1, <2>2, Zenon
    <3> QED BY <1>2, <3>1
  <2>4. NameAt(text, k) = From(text, k)
    BY <2>3, Zenon DEF NameAt, size
  <2> QED BY <1>1, <1>5, <2>1, <2>2, <2>3, <2>4, Zenon DEF text, w, size, k
<1> QED BY <1>3, <1>4, <1>5

\* A column is guessed from lines that have a name, and guessed right unless
\* the line is a trap.
LEMMA GuessRight ==
  ASSUME NEW l, IsLine(l), kernel \in {Col32, Col64},
         Guesses(KernelLine(l), l.width)
  PROVE  /\ l.name # <<>> /\ name_offset_ = 0 /\ l.width < Col64
         /\ Guess(KernelLine(l)) \in {Col32, Col64}
         /\ ~Trap(KernelLine(l)) => Guess(KernelLine(l)) = kernel
<1> DEFINE w == l.width
           text == KernelLine(l)
           size == Len(text)
<1>1. w \in Nat /\ size \in Nat /\ Col32 \in Nat /\ Col64 \in Nat
  <2>1. w \in Nat
    BY LineFacts, Zenon
  <2>2. size \in Nat
    BY ShownAt, Zenon
  <2> QED BY <2>1, <2>2, ColumnFacts, Zenon
<1>2. name_offset_ = 0 /\ w < Col64 /\ size > Max({w, Col32})
  BY Zenon DEF Guesses
<1>3. Max({w, Col32}) = IF w >= Col32 THEN w ELSE Col32
  BY <1>1, MaxTwo, Zenon
<1>4. l.name # <<>>
  <2> SUFFICES ASSUME l.name = <<>> PROVE FALSE
    OBVIOUS
  <2>1. size = w
    BY Unnamed, Zenon
  <2> HIDE DEF w, size
  <2> QED BY <1>1, <1>2, <1>3, <2>1
<1>5. Guess(text) \in {Col32, Col64}
  BY Zenon DEF Guess
<1>6. CASE kernel = Col64
  <2>1. size = kernel + Len(l.name) /\ text[kernel] = " " /\ text[kernel + 1] = l.name[1]
    BY <1>2, <1>4, <1>6, NameInColumn, Zenon
  <2>2. l.name[1] # " " /\ Len(l.name) \in Nat /\ Len(l.name) >= 1
    BY <1>4, LineFacts, Zenon
  <2>3. size > Col64
    <3> DEFINE n == Len(l.name)
    <3>1. n \in Nat /\ n >= 1 /\ size = Col64 + n
      BY <1>6, <2>1, <2>2, Zenon
    <3> HIDE DEF n, size
    <3> QED BY <1>1, <3>1
  <2>4. text[Col64] = " " /\ text[Col64 + 1] # " "
    BY <1>6, <2>1, <2>2, Zenon
  <2>5. Guess(text) = Col64
    BY <2>3, <2>4, Zenon DEF Guess
  <2> QED BY <1>2, <1>4, <1>5, <1>6, <2>5, Zenon
<1>7. CASE kernel = Col32
  <2>1. ~Trap(text) => Guess(text) = Col32
    BY <1>7, Zenon DEF Trap, Guess
  <2> QED BY <1>2, <1>4, <1>5, <1>7, <2>1, Zenon
<1> QED BY <1>6, <1>7

\* The lines that are looked at: the prefix leaves a blank column, or its last
\* blank is in the column before.
Fits(l) == l.width < kernel \/ kernel = Col64 \/ l.width <= Col32

LEMMA ParsedRight ==
  ASSUME NEW l, IsLine(l), TypeOK, name_offset_ \in {0, kernel}, Fits(l),
         name_offset_ = 0 => ~Trap(KernelLine(l))
  PROVE  ParsedName(KernelLine(l), l.width) = Shown(l)
<1> DEFINE w == l.width
           text == KernelLine(l)
           size == Len(text)
           k == Column(w)
           parsed == ParsedName(text, w)
<1>1. kernel \in {Col32, Col64} /\ (lp64 => kernel = Col64) /\ lp64 \in BOOLEAN
  BY DEF TypeOK
<1>2. w \in Nat
  BY LineFacts, Zenon
<1>3. Col32 \in Nat /\ Col64 \in Nat /\ 1 <= Col32 /\ Col32 < Col64 /\ kernel \in Nat
      /\ Col32 <= kernel /\ kernel <= Col64
  BY <1>1, ColumnFacts
<1>4. /\ text \in Seq(Chars) /\ k \in Nat /\ size \in Nat /\ NameAt(text, k) = Shown(l)
      /\ (l.name = <<>> => size = w)
      /\ (l.name # <<>> => size > k /\ From(text, k) = Shown(l))
  BY <1>1, ShownAt, Zenon
<1>5. k = IF w < kernel THEN kernel ELSE w
  BY Zenon DEF Column
<1>6. w < kernel \/ kernel = Col64 \/ w <= Col32
  BY Zenon DEF Fits
<1>7. l.name = <<>> => Shown(l) = <<>>
  BY Zenon DEF Shown
<1>8. CASE lp64
  <2>1. parsed = NameAt(text, Max({w, Col64}))
    BY <1>8, Zenon DEF ParsedName
  <2>2. Max({w, Col64}) = IF w >= Col64 THEN w ELSE Col64
    BY <1>2, <1>3, MaxTwo, Zenon
  <2>3. kernel = Col64
    BY <1>1, <1>8
  <2>4. Max({w, Col64}) = k
    <3> HIDE DEF w, k
    <3> QED BY <1>2, <1>3, <1>5, <2>2, <2>3
  <2> QED BY <1>4, <2>1, <2>4, Zenon
<1>9. CASE ~lp64 /\ name_offset_ # 0
  <2>a. ~Guesses(text, w)
    BY <1>9, Zenon DEF Guesses
  <2>1. parsed = NameAt(text, Max({w, name_offset_, Col32}))
    BY <1>9, <2>a, Zenon DEF ParsedName
  <2>2. name_offset_ = kernel
    BY <1>9
  <2>3. Max({w, kernel, Col32}) = IF w >= kernel /\ w >= Col32 THEN w ELSE IF kernel >= Col32 THEN kernel ELSE Col32
    BY <1>2, <1>3, MaxThree, Zenon
  <2>4. Max({w, kernel, Col32}) = k
    <3> HIDE DEF w, k
    <3> QED BY <1>2, <1>3, <1>5, <2>3
  <2> QED BY <1>4, <2>1, <2>2, <2>4, Zenon
<1>10. CASE ~lp64 /\ name_offset_ = 0 /\ w >= Col64
  <2>1. ~Guesses(text, w)
    <3>1. ~(w < Col64)
      <4> HIDE DEF w
      <4> QED BY <1>2, <1>3, <1>10
    <3> QED BY <3>1, Zenon DEF Guesses
  <2>2. parsed = From(text, w)
    BY <1>10, <2>1, Zenon DEF ParsedName
  <2>3. k = w
    <3> HIDE DEF w, k
    <3> QED BY <1>2, <1>3, <1>5, <1>10
  <2>4. l.name = <<>> => From(text, w) = <<>>
    BY <1>4, FromEnd, Zenon
  <2> QED BY <1>4, <1>7, <2>2, <2>3, <2>4, Zenon
<1>11. CASE ~lp64 /\ Guesses(text, w)
  <2>1. name_offset_ = 0 /\ l.name # <<>> /\ w < Col64 /\ Guess(text) = kernel
    BY <1>1, <1>11, GuessRight, Zenon
  <2>2. ~(w >= Col64)
    <3> HIDE DEF w
    <3> QED BY <1>2, <1>3, <2>1
  <2>3. parsed = From(text, Guess(text))
    BY <1>11, <2>1, <2>2, Zenon DEF ParsedName
  <2>4. k = kernel
    <3>1. w < Col64
      BY <2>1
    <3> HIDE DEF w, k
    <3> QED BY <1>1, <1>2, <1>3, <1>5, <1>6, <3>1
  <2> QED BY <1>4, <2>1, <2>3, <2>4, Zenon
<1>12. CASE ~lp64 /\ name_offset_ = 0 /\ ~(w >= Col64) /\ ~Guesses(text, w)
  <2>1. parsed = <<>>
    BY <1>12, Zenon DEF ParsedName
  <2>2. w < Col64
    <3> HIDE DEF w
    <3> QED BY <1>2, <1>3, <1>12
  <2>3. ~(size > Max({w, Col32}))
    BY <1>12, <2>2, Zenon DEF Guesses
  <2>4. Max({w, Col32}) = IF w >= Col32 THEN w ELSE Col32
    BY <1>2, <1>3, MaxTwo, Zenon
  <2>5. ~(size > k)
    <3> DEFINE m == Max({w, Col32})
    <3>1. m = (IF w >= Col32 THEN w ELSE Col32) /\ ~(size > m) /\ size \in Nat
      BY <1>4, <2>3, <2>4, Zenon
    <3> HIDE DEF w, k, size, m
    <3> QED BY <1>2, <1>3, <1>5, <3>1
  <2> QED BY <1>4, <1>7, <2>1, <2>5, Zenon
<1> QED BY <1>1, <1>8, <1>9, <1>10, <1>11, <1>12, Zenon

LEMMA ParsedText ==
  ASSUME NEW text \in Seq(Chars), NEW w \in Nat, TypeOK
  PROVE  ParsedName(text, w) \in Seq(Chars)
<1>1. Col32 \in Nat /\ Col64 \in Nat /\ name_offset_ \in Nat
  BY Numbers DEF TypeOK
<1>2. \A k \in Nat : From(text, k) \in Seq(Chars)
  BY FromText
<1>3. \A k \in Nat : NameAt(text, k) \in Seq(Chars)
  <2>1. <<>> \in Seq(Chars)
    OBVIOUS
  <2> QED BY <1>2, <2>1, Zenon DEF NameAt
<1>4. Max({w, Col64}) \in Nat
  BY <1>1, MaxTwo
<1>5. Max({w, name_offset_, Col32}) \in Nat
  BY <1>1, MaxThree
<1>6. Guess(text) \in Nat
  BY <1>1, Zenon DEF Guess
<1>7. CASE lp64
  BY <1>3, <1>4, <1>7, Zenon DEF ParsedName
<1>8. CASE ~lp64 /\ name_offset_ # 0
  <2>1. ~Guesses(text, w)
    BY <1>8, Zenon DEF Guesses
  <2> QED BY <1>3, <1>5, <1>8, <2>1, Zenon DEF ParsedName
<1>9. CASE ~lp64 /\ name_offset_ = 0 /\ w >= Col64
  <2>1. ~(w < Col64)
    BY <1>1, <1>9
  <2>2. ~Guesses(text, w)
    BY <2>1, Zenon DEF Guesses
  <2> QED BY <1>2, <1>9, <2>2, Zenon DEF ParsedName
<1>10. CASE ~lp64 /\ Guesses(text, w)
  <2>1. name_offset_ = 0 /\ w < Col64
    BY <1>10, Zenon DEF Guesses
  <2>2. ~(w >= Col64)
    BY <1>1, <2>1
  <2> QED BY <1>2, <1>6, <1>10, <2>1, <2>2, Zenon DEF ParsedName
<1>11. CASE ~lp64 /\ name_offset_ = 0 /\ ~(w >= Col64) /\ ~Guesses(text, w)
  <2>1. <<>> \in Seq(Chars)
    OBVIOUS
  <2> QED BY <1>11, <2>1, Zenon DEF ParsedName
<1> QED BY <1>7, <1>8, <1>9, <1>10, <1>11, Zenon

-----------------------------------------------------------------------------
(* Reading keeps the invariant.                                            *)

LEMMA LInitial == Init => LInv
<1> SUFFICES ASSUME Init PROVE LInv
  OBVIOUS
<1>1. /\ lp64 \in BOOLEAN /\ kernel \in {Col32, Col64} /\ (lp64 => kernel = Col64)
      /\ name_offset_ = 0 /\ line = [width |-> 0, name |-> <<>>, match |-> FALSE]
      /\ entry = NoEntry /\ smaps = NoLists /\ trap = FALSE
  BY Zenon DEF Init
<1>2. <<>> \in Seq(Chars) /\ 0 \in Nat
  OBVIOUS
<1>3. line \in [width : Nat, name : Seq(Chars), match : BOOLEAN]
  BY <1>1, <1>2
<1>4. entry \in [width : Nat, name : Seq(Chars)]
  BY <1>1, <1>2 DEF NoEntry
<1>5. TypeOK
  BY <1>1, <1>2, <1>3, <1>4, Zenon DEF TypeOK
<1>6. ColumnInv /\ EntryInv
  BY <1>1, Zenon DEF ColumnInv, EntryInv
<1> QED BY <1>5, <1>6 DEF LInv

LEMMA ReadLineKeeps ==
  ASSUME LInv, NEW l \in [width : Widths, name : Names, match : BOOLEAN], ReadLine(l)
  PROVE  LInv'
<1> DEFINE w == l.width
           text == KernelLine(l)
           name == ParsedName(text, w)
           asked == query.filter \/ query.file
           skipped == asked /\ ~l.match
           learnt == ~skipped /\ ~lp64 /\ Guesses(text, w)
<1>1. /\ line' = l /\ smaps' = NoLists
      /\ trap' = (trap \/ (name_offset_ = 0 /\ Trap(text)))
      /\ name_offset_' = IF learnt THEN Guess(text) ELSE name_offset_
      /\ entry' = IF skipped \/ (query.file /\ (name = <<>> \/ name[1] # "/")) THEN NoEntry
                  ELSE [width |-> w, name |-> name]
      /\ lp64' = lp64 /\ kernel' = kernel
  BY Zenon DEF ReadLine
<1>2. IsLine(l) /\ l \in [width : Nat, name : Seq(Chars), match : BOOLEAN]
  <2>1. l.width \in Widths /\ l.name \in Names /\ l = [width |-> l.width, name |-> l.name, match |-> l.match]
        /\ l.match \in BOOLEAN
    OBVIOUS
  <2>2. IsLine(l)
    BY <2>1 DEF IsLine
  <2>3. l.width \in Nat /\ l.name \in Seq(Chars)
    BY <2>2, LineFacts, Zenon
  <2> QED BY <2>1, <2>2, <2>3
<1>3. TypeOK /\ kernel \in {Col32, Col64} /\ lp64 \in BOOLEAN /\ trap \in BOOLEAN /\ (lp64 => kernel = Col64)
      /\ name_offset_ \in Nat
  BY DEF LInv, TypeOK
<1>4. text \in Seq(Chars) /\ w \in Nat
  <2>1. w \in Nat
    BY <1>2, LineFacts, Zenon
  <2> QED BY <1>2, <1>3, <2>1, LineText, Zenon
<1>5. name \in Seq(Chars)
  BY <1>3, <1>4, ParsedText, Zenon
<1>6. learnt => /\ l.name # <<>> /\ name_offset_ = 0 /\ Guess(text) \in {Col32, Col64}
                /\ ~Trap(text) => Guess(text) = kernel
  BY <1>2, <1>3, GuessRight, Zenon
<1>7. ~trap' => ~trap /\ (name_offset_ = 0 => ~Trap(text)) /\ name_offset_ \in {0, kernel}
  BY <1>1, Zenon DEF LInv, ColumnInv
<1>8. ColumnInv'
  <2> SUFFICES ASSUME ~trap' PROVE name_offset_' \in {0, kernel}
    BY <1>1 DEF ColumnInv
  <2>1. CASE learnt
    BY <1>1, <1>6, <1>7, <2>1, Zenon
  <2>2. CASE ~learnt
    BY <1>1, <1>7, <2>2, Zenon
  <2> QED BY <2>1, <2>2
<1> DEFINE e == [width |-> w, name |-> name]
<1>9. e.width = w /\ e.name = name
  OBVIOUS
<1>10. entry' = NoEntry \/ (~skipped /\ entry' = e)
  BY <1>1, Zenon
<1>11. entry' \in [width : Nat, name : Seq(Chars)]
  <2>1. NoEntry \in [width : Nat, name : Seq(Chars)]
    <3>1. <<>> \in Seq(Chars)
      OBVIOUS
    <3> QED BY <3>1 DEF NoEntry
  <2>2. e \in [width : Nat, name : Seq(Chars)]
    <3> HIDE DEF w, name
    <3> QED BY <1>4, <1>5
  <2> HIDE DEF e
  <2> QED BY <1>10, <2>1, <2>2, Zenon
<1>12. TypeOK'
  <2>1. name_offset_' \in Nat
    <3>1. Col32 \in Nat /\ Col64 \in Nat
      BY Numbers
    <3> QED BY <1>1, <1>3, <1>6, <3>1, Zenon
  <2>2. trap' \in BOOLEAN
    BY <1>1, Zenon
  <2>3. smaps' \in Lists \cup {NoLists}
    BY <1>1, Zenon
  <2> QED BY <1>1, <1>2, <1>3, <1>11, <2>1, <2>2, <2>3, Zenon DEF TypeOK
<1>13. EntryInv'
  <2> SUFFICES ASSUME entry' # NoEntry
               PROVE /\ entry'.width = w /\ w \in Widths /\ l.name \in Names
                     /\ ~trap' /\ (w < kernel \/ kernel = Col64 \/ w <= Col32) =>
                          entry'.name = IF w < kernel \/ l.name = <<>> THEN l.name
                                        ELSE <<" ">> \o l.name
                     /\ ~trap' /\ ~lp64 /\ kernel = Col64 /\ w < kernel /\ l.name # <<>> =>
                          name_offset_' = Col64
    BY <1>1, Zenon DEF EntryInv
  <2>1. ~skipped /\ entry' = e
    BY <1>10
  <2>2. entry'.width = w /\ entry'.name = name
    BY <1>9, <2>1, Zenon
  <2>3. w \in Widths /\ l.name \in Names
    BY <1>2 DEF IsLine
  <2>4. ASSUME ~trap', w < kernel \/ kernel = Col64 \/ w <= Col32
        PROVE  entry'.name = IF w < kernel \/ l.name = <<>> THEN l.name ELSE <<" ">> \o l.name
    <3>1. Fits(l)
      BY <2>4, Zenon DEF Fits
    <3>2. name = Shown(l)
      BY <1>2, <1>3, <1>7, <2>4, <3>1, ParsedRight, Zenon
    <3> QED BY <2>2, <3>2, Zenon DEF Shown
  <2>5. ASSUME ~trap', ~lp64, kernel = Col64, w < kernel, l.name # <<>>
        PROVE  name_offset_' = Col64
    <3>1. CASE name_offset_ = 0
      <4> DEFINE n == Len(l.name)
                 size == Len(text)
      <4>1. size = kernel + n /\ n \in Nat /\ n >= 1
        <5>1. size = kernel + n
          BY <1>2, <1>3, <2>5, NameInColumn, Zenon
        <5> QED BY <1>2, <2>5, <5>1, LineFacts, Zenon
      <4>2. Max({w, Col32}) = IF w >= Col32 THEN w ELSE Col32
        BY <1>4, Numbers, MaxTwo
      <4>3. size > Max({w, Col32})
        <5> DEFINE m == Max({w, Col32})
        <5>1. m = (IF w >= Col32 THEN w ELSE Col32) /\ w < Col64 /\ w \in Nat /\ size = Col64 + n
          BY <1>4, <2>5, <4>1, <4>2, Zenon
        <5>2. Col32 \in Nat /\ Col64 \in Nat /\ Col32 < Col64
          BY Numbers
        <5>3. n \in Nat /\ n >= 1
          BY <4>1, Zenon
        <5> HIDE DEF m, w, n, size
        <5>4. size > m
          BY <5>1, <5>2, <5>3
        <5> QED BY <5>4, Zenon DEF m
      <4>4. Guesses(text, w)
        BY <2>5, <3>1, <4>3, Zenon DEF Guesses
      <4>5. learnt
        BY <2>1, <2>5, <4>4, Zenon
      <4> QED BY <1>1, <1>6, <1>7, <2>5, <3>1, <4>5, Zenon
    <3>2. CASE name_offset_ # 0
      <4>1. ~learnt
        BY <1>6, <3>2, Zenon
      <4>2. name_offset_ = Col64
        BY <1>7, <2>5, <3>2
      <4> QED BY <1>1, <4>1, <4>2, Zenon
    <3> QED BY <3>1, <3>2
  <2> QED BY <2>2, <2>3, <2>4, <2>5, Zenon
<1> QED BY <1>8, <1>12, <1>13 DEF LInv

LEMMA ReadFieldsKeeps == ASSUME LInv, NEW s \in Lists, ReadFields(s) PROVE LInv'
<1>1. /\ smaps' = s /\ lp64' = lp64 /\ kernel' = kernel /\ name_offset_' = name_offset_
      /\ line' = line /\ entry' = entry /\ trap' = trap
  BY DEF ReadFields
<1>2. TypeOK'
  <2>1. smaps' \in Lists \cup {NoLists}
    BY <1>1
  <2> QED BY <1>1, <2>1, Zenon DEF LInv, TypeOK
<1>3. ColumnInv' /\ EntryInv'
  BY <1>1, Zenon DEF LInv, ColumnInv, EntryInv
<1> QED BY <1>2, <1>3 DEF LInv

LEMMA LStutter == ASSUME LInv, UNCHANGED vars PROVE LInv'
<1>1. /\ smaps' = smaps /\ lp64' = lp64 /\ kernel' = kernel /\ name_offset_' = name_offset_
      /\ line' = line /\ entry' = entry /\ trap' = trap
  BY DEF vars
<1>2. TypeOK' /\ ColumnInv' /\ EntryInv'
  BY <1>1, Zenon DEF LInv, TypeOK, ColumnInv, EntryInv
<1> QED BY <1>2 DEF LInv

LEMMA LStep == LInv /\ [Next]_vars => LInv'
  BY ReadLineKeeps, ReadFieldsKeeps, LStutter DEF Next

\* What is learnt of the column and what becomes of names, whatever lines a
\* process of either width reads from a kernel of either width.
THEOREM LineInvariance == Spec => []LInv
  BY LInitial, LStep, PTL DEF Spec

\* A mapping that is returned has the name it has in the kernel
\* (maps_parser.cc:129-153), for columns, prefixes and names of any width.
THEOREM NamesCorrect == Spec => []NamesRight
<1>1. LInv => NamesRight
  BY Zenon DEF LInv, EntryInv, NamesRight
<1> QED BY <1>1, LineInvariance, PTL

-----------------------------------------------------------------------------
(* Writing.                                                                *)

\* A text is the first k characters of another.
Begins(t, s, k) == t \in Seq(Chars) /\ k \in Nat /\ Len(t) = k /\ k <= Len(s) /\ \A i \in 1..k : t[i] = s[i]

Least(m, n) == IF m < n THEN m ELSE n

LEMMA FirstText ==
  ASSUME NEW s \in Seq(Chars), NEW k \in Nat, k <= Len(s)
  PROVE  Begins(SubSeq(s, 1, k), s, k)
<1> DEFINE r == SubSeq(s, 1, k)
<1>1. 1 \in Nat /\ 1 <= 1
  OBVIOUS
<1>2. r \in Seq(Chars) /\ Len(r) = (IF 1 <= k THEN k - 1 + 1 ELSE 0) /\ \A i \in 1..(k - 1 + 1) : r[i] = s[1 + i - 1]
  BY <1>1, SubSeqText, Zenon
<1>3. k - 1 + 1 = k /\ (~(1 <= k) => k = 0) /\ \A i \in 1..k : 1 + i - 1 = i
  OBVIOUS
<1> HIDE DEF r
<1>4. Len(r) = k /\ \A i \in 1..k : r[i] = s[i]
  BY <1>2, <1>3, Zenon
<1>5. r \in Seq(Chars)
  BY <1>2
<1> QED BY <1>4, <1>5, Zenon DEF Begins, r

LEMMA CutText == ASSUME NEW s \in Seq(Chars), NEW n \in Nat PROVE Begins(Cut(s, n), s, Least(n, Len(s)))
<1> DEFINE k == Least(n, Len(s))
<1>1. k \in Nat /\ k <= Len(s)
  BY DEF Least
<1>2. Cut(s, n) = SubSeq(s, 1, k)
  BY Zenon DEF Cut, Least
<1> HIDE DEF k
<1>3. Begins(SubSeq(s, 1, k), s, k)
  BY <1>1, FirstText
<1> QED BY <1>2, <1>3, Zenon DEF k

LEMMA SameBeginning ==
  ASSUME NEW s \in Seq(Chars), NEW t, NEW u, NEW k, Begins(t, s, k), Begins(u, s, k)
  PROVE  t = u
<1>1. t \in Seq(Chars) /\ u \in Seq(Chars) /\ Len(t) = Len(u) /\ \A i \in 1..Len(t) : t[i] = u[i]
  BY Zenon DEF Begins
<1> QED BY <1>1, SeqEqual

LEMMA WholeText == ASSUME NEW s \in Seq(Chars) PROVE Begins(s, s, Len(s))
<1>1. Len(s) \in Nat /\ Len(s) <= Len(s)
  OBVIOUS
<1> QED BY <1>1, Zenon DEF Begins

LEMMA BeginsPrefix ==
  ASSUME NEW s \in Seq(Chars), NEW t, NEW k, Begins(t, s, k)
  PROVE  IsPrefix(t, s)
<1>1. t \in Seq(Chars) /\ k \in Nat /\ Len(t) = k /\ k <= Len(s)
  BY Zenon DEF Begins
<1>2. Begins(SubSeq(s, 1, k), s, k)
  BY <1>1, FirstText
<1>3. t = SubSeq(s, 1, k)
  BY <1>2, SameBeginning
<1>4. Begins(SubSeq(t, 1, k), t, k)
  BY <1>1, FirstText
<1>5. Begins(t, t, k)
  BY <1>1, WholeText, Zenon
<1>6. SubSeq(t, 1, k) = t
  BY <1>1, <1>4, <1>5, SameBeginning, Zenon
<1> QED BY <1>1, <1>3, <1>6, Zenon DEF IsPrefix

\* A shorter beginning is a beginning of a longer one.
LEMMA BeginsBoth ==
  ASSUME NEW s \in Seq(Chars), NEW t, NEW u, NEW j, NEW k, Begins(t, s, j), Begins(u, s, k), j <= k
  PROVE  Begins(t, u, j)
<1>1. t \in Seq(Chars) /\ j \in Nat /\ k \in Nat /\ Len(t) = j /\ Len(u) = k
  BY Zenon DEF Begins
<1>2. \A i \in 1..j : i \in 1..k
  BY <1>1
<1>3. \A i \in 1..j : t[i] = u[i]
  BY <1>2, Zenon DEF Begins
<1> QED BY <1>1, <1>3, Zenon DEF Begins

-----------------------------------------------------------------------------
(* The line of a mapping.                                                  *)

\* What get_line would write into a buffer without an end.
Whole == IF entry.name = <<>> THEN Append(Header, " ") ELSE Append(Header, " ") \o NameField

LEMMA HeaderText ==
  ASSUME NEW w \in Nat, w >= 1, entry.width = w
  PROVE  Header \in Seq(Chars) /\ Len(Header) = w - 1 /\ Append(Header, " ") = Prefix(w)
<1> DEFINE p == Prefix(w)
           k == w - 1
           h == Header
<1>1. p \in Seq(Chars) /\ Len(p) = w /\ p[w] = " "
  BY PrefixText
<1> HIDE DEF p
<1>2. k \in Nat /\ k <= Len(p) /\ k + 1 = w
  <2>1. Len(p) = w
    BY <1>1, Zenon
  <2>2. k \in Nat /\ k <= w /\ k + 1 = w
    OBVIOUS
  <2> HIDE DEF k
  <2> QED BY <2>1, <2>2, Zenon
<1>3. h = SubSeq(p, 1, k)
  BY Zenon DEF Header, p
<1> HIDE DEF k
<1>4. Begins(SubSeq(p, 1, k), p, k)
  BY <1>1, <1>2, FirstText
<1> HIDE DEF h
<1>5. h \in Seq(Chars) /\ Len(h) = k /\ \A i \in 1..k : h[i] = p[i]
  BY <1>3, <1>4, Zenon DEF Begins
<1> DEFINE a == Append(h, " ")
<1>6. a \in Seq(Chars) /\ Len(a) = w /\ (\A i \in 1..k : a[i] = h[i]) /\ a[w] = " "
  <2>1. /\ a \in Seq(Chars) /\ Len(a) = Len(h) + 1
        /\ (\A i \in 1..Len(h) : a[i] = h[i]) /\ a[Len(h) + 1] = " "
    BY <1>5, Characters, AppendText, Zenon
  <2> HIDE DEF a
  <2>2. Len(h) = k /\ k + 1 = w
    BY <1>2, <1>5, Zenon
  <2> QED BY <2>1, <2>2, Zenon
<1> HIDE DEF a
<1>7. ASSUME NEW i \in 1..w PROVE a[i] = p[i]
  <2>1. i \in 1..k \/ i = w
    BY <1>2
  <2> QED BY <1>1, <1>5, <1>6, <2>1, Zenon
<1>8. a = p
  BY <1>1, <1>6, <1>7, SeqEqual
<1> QED BY <1>5, <1>8, Zenon DEF p, h, k, a

LEMMA ColumnText ==
  ASSUME TypeOK
  PROVE  /\ NameColumn \in Nat
         /\ name_offset_ \in {0, kernel} => NameColumn <= kernel
         /\ name_offset_ \in {0, kernel} /\ (lp64 \/ kernel = Col32 \/ name_offset_ = Col64) => NameColumn = kernel
<1>1. /\ Col32 \in Nat /\ Col64 \in Nat /\ Col32 < Col64 /\ kernel \in {Col32, Col64} /\ name_offset_ \in Nat
      /\ (lp64 => kernel = Col64) /\ 1 <= Col32
  BY Numbers DEF TypeOK
<1>2. Max({name_offset_, Col32}) = IF name_offset_ >= Col32 THEN name_offset_ ELSE Col32
  BY <1>1, MaxTwo
<1> DEFINE m == Max({name_offset_, Col32})
<1>3. NameColumn = IF lp64 THEN Col64 ELSE m
  BY Zenon DEF NameColumn
<1>4. CASE lp64
  <2>1. NameColumn = kernel /\ kernel \in Nat
    BY <1>1, <1>3, <1>4, Zenon
  <2> DEFINE c == NameColumn
  <2> HIDE DEF c, m
  <2>2. c \in Nat /\ c <= kernel /\ c = kernel
    BY <1>1, <2>1 DEF c
  <2> QED BY <2>2 DEF c
<1>5. CASE ~lp64
  <2> DEFINE c == NameColumn
  <2>1. c = m
    BY <1>3, <1>5, Zenon
  <2>2. m = IF name_offset_ >= Col32 THEN name_offset_ ELSE Col32
    BY <1>2, Zenon
  <2> HIDE DEF c, m
  <2>3. /\ c \in Nat
        /\ name_offset_ \in {0, kernel} => c <= kernel
        /\ name_offset_ \in {0, kernel} /\ (kernel = Col32 \/ name_offset_ = Col64) => c = kernel
    BY <1>1, <2>1, <2>2
  <2> QED BY <1>5, <2>3, Zenon DEF c
<1> QED BY <1>4, <1>5

LEMMA NameFieldText ==
  ASSUME TypeOK, NEW w \in Nat, entry.width = w
  PROVE  NameField \in Seq(Chars)
<1>1. entry.name \in Seq(Chars) /\ NameColumn \in Nat
  BY ColumnText DEF TypeOK
<1> DEFINE b == IF w < NameColumn THEN Blanks(NameColumn - w) ELSE <<>>
<1>2. b \in Seq(Chars)
  <2>1. <<>> \in Seq(Chars)
    OBVIOUS
  <2> DEFINE c == NameColumn
  <2>2. ASSUME w < c PROVE Blanks(c - w) \in Seq(Chars)
    <3>1. c \in Nat
      BY <1>1
    <3> HIDE DEF c
    <3> DEFINE k == c - w
    <3>2. k \in Nat
      BY <2>2, <3>1
    <3> HIDE DEF k
    <3>3. Blanks(k) \in Seq(Chars)
      BY <3>2, BlanksText
    <3> QED BY <3>3 DEF k
  <2> QED BY <2>1, <2>2, Zenon
<1>3. NameField = b \o entry.name
  BY Zenon DEF NameField
<1> HIDE DEF b
<1> QED BY <1>1, <1>2, <1>3, Joined, Zenon

LEMMA WholeFacts ==
  ASSUME TypeOK, NEW w \in Nat, w >= 1, entry.width = w
  PROVE  /\ Whole \in Seq(Chars) /\ Len(Whole) >= w
         /\ entry.name = <<>> => Len(Whole) = w
         /\ Begins(Header, Whole, w - 1)
<1> DEFINE a == Append(Header, " ")
           p == Prefix(w)
<1>1. Header \in Seq(Chars) /\ Len(Header) = w - 1 /\ a = p
  BY HeaderText
<1>2. p \in Seq(Chars) /\ Len(p) = w
  BY PrefixText
<1>3. \A i \in 1..(w - 1) : a[i] = Header[i]
  <2> DEFINE h == Header
  <2>1. h \in Seq(Chars) /\ Len(h) = w - 1
    BY <1>1
  <2> HIDE DEF h
  <2>2. \A i \in 1..(w - 1) : Append(h, " ")[i] = h[i]
    <3>1. \A i \in 1..Len(h) : Append(h, " ")[i] = h[i]
      BY <2>1, Characters, AppendText, Zenon
    <3> QED BY <2>1, <3>1, Zenon
  <2> QED BY <2>2 DEF h
<1> HIDE DEF a, p
<1>4. NameField \in Seq(Chars)
  BY NameFieldText
<1>5. /\ Whole \in Seq(Chars) /\ Len(Whole) >= w
      /\ (entry.name = <<>> => Len(Whole) = w)
      /\ \A i \in 1..w : Whole[i] = a[i]
  <2>1. CASE entry.name = <<>>
    <3>1. Whole = a
      BY <2>1, Zenon DEF Whole, a
    <3>2. a \in Seq(Chars) /\ Len(a) = w
      BY <1>1, <1>2
    <3>3. w >= w
      OBVIOUS
    <3> QED BY <3>1, <3>2, <3>3, Zenon
  <2>2. CASE entry.name # <<>>
    <3>1. Whole = a \o NameField
      BY <2>2, Zenon DEF Whole, a
    <3>2. a \in Seq(Chars) /\ Len(a) = w
      BY <1>1, <1>2
    <3>3. /\ a \o NameField \in Seq(Chars) /\ Len(a \o NameField) = Len(a) + Len(NameField)
          /\ \A i \in 1..Len(a) : (a \o NameField)[i] = a[i]
      BY <1>4, <3>2, Joined, Zenon
    <3>4. Len(NameField) \in Nat
      BY <1>4
    <3>5. Len(Whole) >= w
      <4> DEFINE x == Len(NameField)
                 y == Len(Whole)
      <4>1. y = w + x /\ x \in Nat
        BY <3>1, <3>2, <3>3, <3>4, Zenon
      <4> HIDE DEF x, y
      <4>2. y >= w
        BY <4>1
      <4> QED BY <4>2 DEF y
    <3> QED BY <2>2, <3>1, <3>2, <3>3, <3>5, Zenon
  <2> QED BY <2>1, <2>2
<1>6. \A i \in 1..(w - 1) : i \in 1..w
  OBVIOUS
<1>7. \A i \in 1..(w - 1) : Header[i] = Whole[i]
  BY <1>3, <1>5, <1>6, Zenon
<1>8. w - 1 \in Nat /\ w - 1 <= Len(Whole)
  <2> DEFINE y == Len(Whole)
  <2>1. y >= w /\ y \in Nat
    BY <1>5
  <2> HIDE DEF y
  <2>2. w - 1 \in Nat /\ w - 1 <= y
    BY <2>1
  <2> QED BY <2>2 DEF y
<1> QED BY <1>1, <1>5, <1>7, <1>8, Zenon DEF Begins

\* What get_line writes into a buffer of n bytes: snprintf's NUL takes a byte
\* when the numbers do not fit.
LEMMA LineWritten ==
  ASSUME TypeOK, NEW w \in Nat, w >= 1, entry.width = w, NEW n \in Nat, n >= 1
  PROVE  Begins(get_line(n), Whole, IF n < w THEN n - 1 ELSE Least(n, Len(Whole)))
<1> DEFINE h == Header
           W == Whole
           size == Len(W)
           a == Append(h, " ")
<1>1. /\ W \in Seq(Chars) /\ size >= w /\ Begins(h, W, w - 1) /\ size \in Nat
      /\ (entry.name = <<>> => size = w)
  <2>1. W \in Seq(Chars) /\ size >= w /\ Begins(h, W, w - 1) /\ (entry.name = <<>> => size = w)
    BY WholeFacts, Zenon
  <2> QED BY <2>1
<1>2. h \in Seq(Chars) /\ Len(h) = w - 1
  BY HeaderText
<1>3. n # 0 /\ n > 0 /\ n - 1 \in Nat
  OBVIOUS
<1>4. CASE n < w
  <2>1. Len(h) >= n
    <3> HIDE DEF h
    <3> QED BY <1>2, <1>4
  <2>2. get_line(n) = Cut(h, n - 1)
    BY <1>3, <2>1, Zenon DEF get_line
  <2> DEFINE k == n - 1
             c == Cut(h, k)
  <2>3. Begins(c, h, Least(k, w - 1))
    <3>1. k \in Nat
      BY <1>3
    <3> HIDE DEF h, k
    <3> QED BY <1>2, <3>1, CutText, Zenon
  <2>4. Least(k, w - 1) = k
    BY <1>4 DEF Least
  <2>5. c \in Seq(Chars) /\ k \in Nat /\ Len(c) = k /\ \A i \in 1..k : c[i] = h[i]
    BY <2>3, <2>4, Zenon DEF Begins
  <2>6. \A i \in 1..(w - 1) : h[i] = W[i]
    BY <1>1, Zenon DEF Begins
  <2> HIDE DEF c, h, W, size
  <2>7. k <= size /\ \A i \in 1..k : i \in 1..(w - 1)
    BY <1>1, <1>3, <1>4
  <2>8. Begins(c, W, k)
    BY <2>5, <2>6, <2>7, Zenon DEF Begins, size
  <2> QED BY <1>4, <2>2, <2>8, Zenon DEF c, h, W
<1>5. CASE ~(n < w)
  <2>1. ~(Len(h) >= n)
    <3> HIDE DEF h
    <3> QED BY <1>2, <1>5
  <2>2. get_line(n) = IF entry.name = <<>> THEN a ELSE Cut(a \o NameField, n)
    BY <1>3, <2>1, Zenon DEF get_line
  <2>3. CASE entry.name = <<>>
    <3>1. get_line(n) = W /\ size = w
      BY <1>1, <2>2, <2>3, Zenon DEF Whole
    <3>2. Begins(W, W, size)
      BY <1>1, WholeText
    <3>3. Least(n, size) = size
      <4> HIDE DEF size
      <4> QED BY <1>5, <3>1 DEF Least
    <3> QED BY <1>5, <3>1, <3>2, <3>3, Zenon
  <2>4. CASE entry.name # <<>>
    <3>1. get_line(n) = Cut(W, n)
      BY <2>2, <2>4, Zenon DEF Whole
    <3>2. Begins(Cut(W, n), W, Least(n, size))
      BY <1>1, CutText, Zenon
    <3> QED BY <1>5, <3>1, <3>2, Zenon
  <2> QED BY <2>3, <2>4
<1> QED BY <1>4, <1>5

\* What was read is what there was, and it is written to the same columns.
LEMMA WholeIsLine ==
  ASSUME LInv, entry # NoEntry, ~trap, kernel = Col64 \/ line.width <= Col32
  PROVE  Whole = KernelLine(line)
<1> DEFINE w == line.width
           n == line.name
           p == Prefix(w)
<1>1. TypeOK /\ name_offset_ \in {0, kernel} /\ kernel \in {Col32, Col64}
  BY DEF LInv, TypeOK, ColumnInv
<1>2. /\ entry.width = w /\ IsLine(line)
      /\ entry.name = IF w < kernel \/ n = <<>> THEN n ELSE <<" ">> \o n
      /\ ~lp64 /\ kernel = Col64 /\ w < kernel /\ n # <<>> => name_offset_ = Col64
  BY Zenon DEF LInv, EntryInv, IsLine
<1>3. w \in Nat /\ w >= 1 /\ n \in Seq(Chars)
  BY <1>2, LineFacts, Zenon
<1>4. Append(Header, " ") = p
  BY <1>2, <1>3, HeaderText, Zenon
<1>5. NameColumn \in Nat /\ NameColumn <= kernel /\ kernel \in Nat
  BY <1>1, ColumnText, ColumnFacts
<1>6. CASE n = <<>>
  <2>1. KernelLine(line) = p
    BY <1>2, <1>6, Unnamed, Zenon
  <2>2. entry.name = <<>>
    BY <1>2, <1>6, Zenon
  <2> QED BY <1>4, <2>1, <2>2, Zenon DEF Whole
<1>7. CASE n # <<>> /\ w < kernel
  <2>1. entry.name = n
    BY <1>2, <1>7, Zenon
  <2>2. NameColumn = kernel
    <3>1. lp64 \/ kernel = Col32 \/ name_offset_ = Col64
      BY <1>1, <1>2, <1>7, Zenon
    <3> QED BY <1>1, <3>1, ColumnText, Zenon
  <2>3. NameField = Blanks(kernel - w) \o n
    BY <1>2, <1>7, <2>1, <2>2, Zenon DEF NameField
  <2>4. KernelLine(line) = p \o (Blanks(kernel - w) \o n)
    BY <1>7, Zenon DEF KernelLine
  <2> QED BY <1>4, <1>7, <2>1, <2>3, <2>4, Zenon DEF Whole
<1>8. CASE n # <<>> /\ ~(w < kernel)
  <2>1. w >= kernel /\ ~(w < NameColumn)
    <3> DEFINE c == NameColumn
    <3>1. c \in Nat /\ c <= kernel
      BY <1>5
    <3> HIDE DEF c, w
    <3>2. w >= kernel /\ ~(w < c)
      BY <1>3, <1>5, <1>8, <3>1
    <3> QED BY <3>2 DEF c
  <2> DEFINE v == <<" ">> \o n
  <2>2. entry.name = v
    BY <1>2, <1>8, Zenon
  <2>3. v \in Seq(Chars) /\ Len(v) = 1 + Len(n)
    <3>1. <<" ">> \in Seq(Chars) /\ Len(<<" ">>) = 1
      BY Characters, CharText, Zenon
    <3> QED BY <1>3, <3>1, Joined, Zenon
  <2> HIDE DEF v
  <2>4. v # <<>> /\ <<>> \o v = v
    <3>1. Len(n) \in Nat
      BY <1>3
    <3>2. Len(v) # 0
      BY <2>3, <3>1
    <3>3. \A u \in Seq(Chars) : <<>> \o u = u
      OBVIOUS
    <3>4. v # <<>>
      BY <3>2
    <3> QED BY <2>3, <3>3, <3>4, Zenon
  <2>5. NameField = v
    BY <1>2, <2>1, <2>2, <2>4, Zenon DEF NameField
  <2>6. KernelLine(line) = p \o v
    BY <1>1, <1>2, <1>8, <2>1, NameBehind, Zenon DEF v
  <2> QED BY <1>4, <2>2, <2>4, <2>5, <2>6, Zenon DEF Whole
<1> QED BY <1>6, <1>7, <1>8

\* get_line writes what the kernel wrote (maps_parser.cc:276-335): parsing it
\* again gives the same entry, also when the column had to be learnt.
THEOREM LineCorrect == Spec => []LineKept
<1>1. LInv => LineKept
  <2> SUFFICES ASSUME LInv, entry # NoEntry, ~trap, kernel = Col64 \/ line.width <= Col32
               PROVE  get_line(Room) = KernelLine(line)
    BY Zenon DEF LineKept
  <2> DEFINE w == line.width
             n == Len(line.name)
             size == Len(Whole)
  <2>1. TypeOK /\ kernel \in {Col32, Col64} /\ entry.width = w /\ IsLine(line)
    BY Zenon DEF LInv, EntryInv, TypeOK, IsLine
  <2>2. w \in Nat /\ w >= 1 /\ n \in Nat /\ w + 1 + n <= Room /\ Col64 + n <= Room
    BY <2>1, LineFacts, Zenon
  <2>3. Whole = KernelLine(line)
    BY WholeIsLine
  <2>4. kernel \in Nat /\ kernel <= Col64 /\ Col64 \in Nat /\ Room \in Nat
    BY <2>1, ColumnFacts, Numbers
  <2>5. size <= Room
    <3>1. CASE line.name = <<>>
      <4>1. size = w
        BY <2>1, <2>3, <3>1, Unnamed, Zenon
      <4> HIDE DEF size, w, n
      <4> QED BY <2>2, <2>4, <4>1
    <3>2. CASE line.name # <<>> /\ w < kernel
      <4>1. size = kernel + n
        BY <2>1, <2>3, <3>2, NameInColumn, Zenon
      <4> HIDE DEF size, w, n
      <4> QED BY <2>2, <2>4, <4>1
    <3>3. CASE line.name # <<>> /\ ~(w < kernel)
      <4>1. w >= kernel
        <5> HIDE DEF w
        <5> QED BY <2>2, <2>4, <3>3
      <4>2. size = w + 1 + n
        BY <2>1, <2>3, <3>3, <4>1, NameBehind, Zenon
      <4> HIDE DEF size, w, n
      <4> QED BY <2>2, <2>4, <4>2
    <3> QED BY <3>1, <3>2, <3>3
  <2>6. Room >= 1 /\ ~(Room < w)
    <3> HIDE DEF w, n
    <3> QED BY <2>2, <2>4
  <2>7. Begins(get_line(Room), Whole, Least(Room, size))
    BY <2>1, <2>2, <2>4, <2>6, LineWritten, Zenon
  <2>8. Whole \in Seq(Chars)
    BY <2>1, <2>2, WholeFacts, Zenon
  <2>9. Least(Room, size) = size
    <3>1. size \in Nat
      BY <2>8
    <3> HIDE DEF size
    <3> QED BY <2>4, <2>5, <3>1 DEF Least
  <2>10. Begins(Whole, Whole, size)
    BY <2>8, WholeText
  <2>11. get_line(Room) = Whole
    BY <2>7, <2>8, <2>9, <2>10, SameBeginning, Zenon
  <2> QED BY <2>3, <2>11, Zenon
<1> QED BY <1>1, LineInvariance, PTL

-----------------------------------------------------------------------------
(* The lines of smaps.                                                     *)

Digits == {"0", "1"}
Field == [key : Seq(Chars), num : Seq(Digits), unit : Seq(Chars)]

LEMMA ListFacts ==
  ASSUME TypeOK
  PROVE  /\ smaps.fields \in Seq(Field) /\ smaps.flags \in Seq(Seq(Chars))
         /\ \A i \in DOMAIN smaps.fields :
              /\ Without(smaps.fields[i].key, ":")
              /\ smaps.fields[i].unit # <<>> =>
                   /\ smaps.fields[i].num # <<>> /\ smaps.fields[i].unit[1] \notin Digits
         /\ \A i \in DOMAIN smaps.flags : Len(smaps.flags[i]) = 2 /\ Without(smaps.flags[i], " ")
<1>1. smaps \in Lists \cup {NoLists}
  BY DEF TypeOK
<1>2. CASE smaps \in Lists
  <2>1. smaps \in [fields : Seq(Field), flags : Seq(Seq(Chars))]
    BY <1>2, ListAssumption, Zenon DEF Field, Digits
  <2>2. smaps.fields \in Seq(Field) /\ smaps.flags \in Seq(Seq(Chars))
    BY <2>1
  <2>3. /\ \A i \in DOMAIN smaps.fields :
              /\ Without(smaps.fields[i].key, ":")
              /\ smaps.fields[i].unit # <<>> =>
                   /\ smaps.fields[i].num # <<>> /\ smaps.fields[i].unit[1] \notin Digits
        /\ \A i \in DOMAIN smaps.flags : Len(smaps.flags[i]) = 2 /\ Without(smaps.flags[i], " ")
    BY <1>2, ListAssumption, Zenon DEF Digits
  <2> QED BY <2>2, <2>3, Zenon
<1>3. CASE smaps = NoLists
  <2>1. smaps.fields = <<>> /\ smaps.flags = <<>>
    BY <1>3 DEF NoLists
  <2>2. <<>> \in Seq(Field) /\ <<>> \in Seq(Seq(Chars)) /\ DOMAIN <<>> = {}
    <3>1. <<>> \in Seq(Field)
      OBVIOUS
    <3>2. <<>> \in Seq(Seq(Chars))
      OBVIOUS
    <3> QED BY <3>1, <3>2
  <2> QED BY <2>1, <2>2, Zenon
<1> QED BY <1>1, <1>2, <1>3

\* A value is a number and its unit.
LEMMA FieldFacts ==
  ASSUME NEW f \in Field
  PROVE  /\ f.key \in Seq(Chars) /\ f.num \in Seq(Chars) /\ f.unit \in Seq(Chars)
         /\ f.num \o f.unit \in Seq(Chars) /\ Len(f.num \o f.unit) = Len(f.num) + Len(f.unit)
         /\ \A i \in 1..Len(f.num) : f.num[i] \in Digits
<1>1. f.key \in Seq(Chars) /\ f.num \in Seq(Digits) /\ f.unit \in Seq(Chars)
  BY DEF Field
<1>2. Digits \subseteq Chars
  BY Characters DEF Digits
<1>3. \A n \in Seq(Digits) : n \in Seq(Chars) /\ \A i \in 1..Len(n) : n[i] \in Digits
  BY <1>2
<1>4. f.num \in Seq(Chars) /\ \A i \in 1..Len(f.num) : f.num[i] \in Digits
  BY <1>1, <1>3, Zenon
<1> QED BY <1>1, <1>4, Joined, Zenon

\* Where its characters are in its line: behind the name, ":" and two blanks.
LEMMA FieldChars ==
  ASSUME NEW f \in Field
  PROVE  LET v == f.num \o f.unit
             k == Len(f.key)
             text == FieldText(f)
         IN /\ text \in Seq(Chars) /\ Len(text) = k + 3 + Len(v)
            /\ \A i \in 1..k : text[i] = f.key[i]
            /\ text[k + 1] = ":" /\ text[k + 2] = " " /\ text[k + 3] = " "
            /\ \A i \in 1..Len(v) : text[k + 3 + i] = v[i]
            /\ From(text, k + 3) = v
<1> DEFINE v == f.num \o f.unit
           q == f.key
           k == Len(q)
           c == <<":", " ", " ">>
           u == q \o c
           text == FieldText(f)
<1>1. q \in Seq(Chars) /\ v \in Seq(Chars) /\ k \in Nat /\ Len(v) \in Nat
  <2>1. q \in Seq(Chars) /\ v \in Seq(Chars)
    BY FieldFacts, Zenon
  <2> HIDE DEF q, v
  <2> QED BY <2>1
<1>2. c \in Seq(Chars) /\ Len(c) = 3 /\ c[1] = ":" /\ c[2] = " " /\ c[3] = " "
  <2>1. \A x, y \in Chars : <<x, y, y>> \in Seq(Chars)
    OBVIOUS
  <2>2. c \in Seq(Chars)
    BY <2>1, Characters, Zenon
  <2> QED BY <2>2
<1>3. text = u \o v
  <2>1. text = ((q \o c) \o f.num) \o f.unit
    BY Zenon DEF FieldText
  <2>2. f.num \in Seq(Chars) /\ f.unit \in Seq(Chars)
    BY FieldFacts, Zenon
  <2> HIDE DEF c, q
  <2>3. u \in Seq(Chars)
    BY <1>1, <1>2, Joined, Zenon
  <2>4. \A x, y, z \in Seq(Chars) : (x \o y) \o z = x \o (y \o z)
    BY ConcatAssociative
  <2> QED BY <2>1, <2>2, <2>3, <2>4, Zenon
<1> HIDE DEF c, q, v, text
<1>4. /\ u \in Seq(Chars) /\ Len(u) = k + 3 /\ (\A i \in 1..k : u[i] = q[i])
      /\ \A i \in 1..3 : u[k + i] = c[i]
  <2>1. /\ u \in Seq(Chars) /\ Len(u) = Len(q) + Len(c) /\ (\A i \in 1..Len(q) : u[i] = q[i])
        /\ \A i \in 1..Len(c) : u[Len(q) + i] = c[i]
    BY <1>1, <1>2, Joined, Zenon
  <2> HIDE DEF u
  <2> QED BY <1>2, <2>1, Zenon
<1> HIDE DEF u
<1>5. /\ text \in Seq(Chars) /\ Len(text) = Len(u) + Len(v) /\ (\A i \in 1..Len(u) : text[i] = u[i])
      /\ \A i \in 1..Len(v) : text[Len(u) + i] = v[i]
  BY <1>1, <1>3, <1>4, Joined, Zenon
<1>6. /\ \A i \in 1..k : i \in 1..(k + 3)
      /\ k + 1 \in 1..(k + 3) /\ k + 2 \in 1..(k + 3) /\ k + 3 \in 1..(k + 3)
      /\ 1 \in 1..3 /\ 2 \in 1..3 /\ 3 \in 1..3
  <2> HIDE DEF k
  <2> QED BY <1>1
<1>7. text \in Seq(Chars) /\ Len(text) = k + 3 + Len(v) /\ \A i \in 1..Len(v) : text[k + 3 + i] = v[i]
  BY <1>4, <1>5, Zenon
<1>8. \A i \in 1..k : text[i] = q[i]
  BY <1>4, <1>5, <1>6, Zenon
<1>9. text[k + 1] = ":" /\ text[k + 2] = " " /\ text[k + 3] = " "
  <2>1. text[k + 1] = u[k + 1] /\ text[k + 2] = u[k + 2] /\ text[k + 3] = u[k + 3]
    BY <1>4, <1>5, <1>6, Zenon
  <2>2. u[k + 1] = c[1] /\ u[k + 2] = c[2] /\ u[k + 3] = c[3]
    BY <1>4, <1>6, Zenon
  <2> QED BY <1>2, <2>1, <2>2, Zenon
<1>10. From(text, k + 3) = v
  <2>1. From(u \o v, Len(u)) = v
    BY <1>1, <1>4, FromJoined
  <2> QED BY <1>3, <1>4, <2>1, Zenon
<1> QED BY <1>7, <1>8, <1>9, <1>10, Zenon DEF q, v, k, text

\* Where those of the flags are.
LEMMA FlagChars ==
  ASSUME TypeOK
  PROVE  LET n == Len(smaps.flags)
             text == VmFlagsText
         IN /\ text \in Seq(Chars) /\ n \in Nat /\ Len(text) = 4 + 3 * n /\ text[4] = " "
            /\ \A i \in 1..(3 * n) :
                 text[4 + i] = IF i % 3 = 0 THEN " " ELSE smaps.flags[(i + 2) \div 3][i % 3]
<1> DEFINE flags == smaps.flags
           n == Len(flags)
           r == [i \in 1..(3 * n) |-> IF i % 3 = 0 THEN " " ELSE flags[(i + 2) \div 3][i % 3]]
           text == VmFlagsText
<1>1. flags \in Seq(Seq(Chars)) /\ \A i \in DOMAIN flags : Len(flags[i]) = 2
  BY ListFacts, Zenon
<1>2. n \in Nat /\ DOMAIN flags = 1..n /\ \A i \in 1..n : flags[i] \in Seq(Chars)
  <2> HIDE DEF flags
  <2> QED BY <1>1
<1> HIDE DEF n
<1>3. r \in [1..(3 * n) -> Chars]
  <2> SUFFICES ASSUME NEW i \in 1..(3 * n)
               PROVE  (IF i % 3 = 0 THEN " " ELSE flags[(i + 2) \div 3][i % 3]) \in Chars
    BY Zenon
  <2> DEFINE j == (i + 2) \div 3
             k == i % 3
  <2>1. j \in 1..n /\ k \in 0..2
    BY <1>2
  <2>2. flags[j] \in Seq(Chars) /\ Len(flags[j]) = 2
    BY <1>1, <1>2, <2>1, Zenon
  <2>3. \A f \in Seq(Chars) : Len(f) = 2 => f[1] \in Chars /\ f[2] \in Chars
    OBVIOUS
  <2>4. k = 0 \/ k = 1 \/ k = 2
    BY <2>1
  <2> HIDE DEF j, k
  <2>5. (IF k = 0 THEN " " ELSE flags[j][k]) \in Chars
    BY <2>2, <2>3, <2>4, Characters, Zenon
  <2> QED BY <2>5 DEF j, k
<1>4. r \in Seq(Chars) /\ Len(r) = 3 * n
  <2> HIDE DEF r
  <2> DEFINE m == 3 * n
  <2>1. m \in Nat /\ r \in [1..m -> Chars]
    BY <1>2, <1>3
  <2> HIDE DEF m
  <2>2. r \in Seq(Chars) /\ Len(r) = m
    BY <2>1
  <2> QED BY <2>2 DEF m
<1>5. \A i \in 1..(3 * n) : r[i] = IF i % 3 = 0 THEN " " ELSE flags[(i + 2) \div 3][i % 3]
  BY Zenon
<1>6. Title \in Seq(Chars) /\ Len(Title) = 4 /\ Title[4] = " "
  <2>1. \A a, b, c, d \in Chars : <<a, b, c, d>> \in Seq(Chars)
    OBVIOUS
  <2>2. Title \in Seq(Chars)
    BY <2>1, Characters, Zenon DEF Title
  <2>3. Len(Title) = 4 /\ Title[4] = " "
    BY DEF Title
  <2> QED BY <2>2, <2>3
<1>7. text = Title \o r
  BY Zenon DEF VmFlagsText, n
<1> HIDE DEF r, text
<1>8. /\ Title \o r \in Seq(Chars) /\ Len(Title \o r) = Len(Title) + Len(r)
      /\ \A i \in 1..Len(Title) : (Title \o r)[i] = Title[i]
      /\ \A i \in 1..Len(r) : (Title \o r)[Len(Title) + i] = r[i]
  BY <1>4, <1>6, Joined, Zenon
<1>a. 4 \in 1..4
  OBVIOUS
<1>9. /\ text \in Seq(Chars) /\ Len(text) = 4 + 3 * n /\ text[4] = " "
      /\ \A i \in 1..(3 * n) : text[4 + i] = r[i]
  BY <1>4, <1>6, <1>7, <1>8, <1>a, Zenon
<1>10. \A i \in 1..(3 * n) : text[4 + i] = IF i % 3 = 0 THEN " " ELSE flags[(i + 2) \div 3][i % 3]
  BY <1>5, <1>9, Zenon
<1> QED BY <1>2, <1>9, <1>10, Zenon DEF text, n

LEMMA ManyJoined ==
  \A S : \A u, v \in Seq(S) :
    /\ u \o v \in Seq(S) /\ Len(u \o v) = Len(u) + Len(v)
    /\ \A i \in 1..Len(u) : (u \o v)[i] = u[i]
    /\ \A i \in 1..Len(v) : (u \o v)[Len(u) + i] = v[i]
<1> SUFFICES ASSUME NEW S, NEW u \in Seq(S), NEW v \in Seq(S)
             PROVE  /\ u \o v \in Seq(S) /\ Len(u \o v) = Len(u) + Len(v)
                    /\ \A i \in 1..Len(u) : (u \o v)[i] = u[i]
                    /\ \A i \in 1..Len(v) : (u \o v)[Len(u) + i] = v[i]
  OBVIOUS
<1> QED OBVIOUS

\* A line break comes first of what follows the line.
LEMMA PiecesText ==
  ASSUME TypeOK
  PROVE  /\ Pieces \in Seq(Seq(Chars)) /\ Len(Pieces) \in Nat /\ Len(Pieces) >= 1
         /\ Pieces[1] = <<"\n">>
<1> DEFINE S == Seq(Chars)
           a == <<<<"\n">>>>
           b == [i \in DOMAIN FieldTexts |-> Append(FieldTexts[i], "\n")]
           c == <<VmFlagsText>>
<1>1. a \in Seq(S) /\ Len(a) = 1 /\ a[1] = <<"\n">>
  <2>1. <<"\n">> \in S
    BY Characters, CharText, Zenon
  <2>2. \A t \in S : <<t>> \in Seq(S) /\ Len(<<t>>) = 1 /\ <<t>>[1] = t
    OBVIOUS
  <2> HIDE DEF S
  <2> QED BY <2>1, <2>2, Zenon
<1>2. c \in Seq(S)
  <2>1. VmFlagsText \in S
    BY FlagChars, Zenon
  <2>2. \A t \in S : <<t>> \in Seq(S)
    OBVIOUS
  <2> HIDE DEF S
  <2> QED BY <2>1, <2>2, Zenon
<1>3. b \in Seq(S)
  <2> DEFINE fields == smaps.fields
             n == Len(fields)
  <2>1. fields \in Seq(Field)
    BY ListFacts, Zenon
  <2>2. n \in Nat /\ DOMAIN fields = 1..n /\ \A i \in 1..n : fields[i] \in Field
    <3> HIDE DEF fields
    <3> QED BY <2>1
  <2> HIDE DEF n
  <2>3. FieldTexts = [i \in 1..n |-> FieldText(fields[i])]
    BY <2>2, Zenon DEF FieldTexts
  <2>4. b = [i \in 1..n |-> Append(FieldText(fields[i]), "\n")]
    BY <2>3, Zenon
  <2>5. ASSUME NEW i \in 1..n PROVE Append(FieldText(fields[i]), "\n") \in S
    <3>1. FieldText(fields[i]) \in Seq(Chars)
      BY <2>2, FieldChars, Zenon
    <3> QED BY <3>1, Characters, AppendText, Zenon
  <2> HIDE DEF b, S
  <2>6. b \in [1..n -> S]
    BY <2>4, <2>5, Zenon
  <2> QED BY <2>2, <2>6
<1> DEFINE ab == a \o b
<1>4. ab \in Seq(S) /\ Len(ab) = Len(a) + Len(b) /\ \A i \in 1..Len(a) : ab[i] = a[i]
  <2> HIDE DEF a, b, S
  <2> QED BY <1>1, <1>3, ManyJoined, Zenon
<1>5. Pieces = ab \o c
  BY Zenon DEF Pieces
<1> HIDE DEF ab
<1>6. Pieces \in Seq(S) /\ Len(Pieces) = Len(ab) + Len(c) /\ \A i \in 1..Len(ab) : Pieces[i] = ab[i]
  <2> HIDE DEF a, b, c, S
  <2> QED BY <1>2, <1>4, <1>5, ManyJoined, Zenon
<1> HIDE DEF a, b, c, S
<1>7. Len(a) \in Nat /\ Len(b) \in Nat /\ Len(c) \in Nat
  BY <1>1, <1>2, <1>3
<1> DEFINE x == Len(a)
           y == Len(b)
           z == Len(c)
           l == Len(ab)
           p == Len(Pieces)
<1>8. x = 1 /\ y \in Nat /\ z \in Nat /\ l = x + y /\ p = l + z
  BY <1>1, <1>4, <1>6, <1>7, Zenon
<1> HIDE DEF x, y, z, l, p
<1>9. p \in Nat /\ p >= 1 /\ 1 \in 1..x /\ 1 \in 1..l
  BY <1>8
<1>10. Pieces[1] = <<"\n">>
  BY <1>1, <1>4, <1>6, <1>9, Zenon DEF x, l
<1> QED BY <1>6, <1>9, <1>10, Zenon DEF S, p

\* A text and a piece of it that fits into what is left of n bytes.
LEMMA AddText ==
  ASSUME NEW n \in Nat, NEW t \in Seq(Chars), Len(t) <= n, NEW p \in Seq(Chars)
  PROVE  LET k == n - Len(t)
             u == t \o Cut(p, k)
         IN /\ k \in Nat /\ u \in Seq(Chars) /\ Len(u) = Len(t) + Least(k, Len(p))
            /\ Least(k, Len(p)) \in Nat /\ Len(u) <= n
            /\ \A i \in 1..Len(t) : u[i] = t[i]
            /\ \A i \in 1..Least(k, Len(p)) : u[Len(t) + i] = p[i]
<1> DEFINE k == n - Len(t)
           c == Cut(p, k)
           u == t \o c
           j == Least(k, Len(p))
           m == Len(t)
<1>1. k \in Nat /\ Len(p) \in Nat /\ m \in Nat /\ m <= n
  OBVIOUS
<1>2. j \in Nat /\ m + j <= n
  BY <1>1 DEF Least
<1> HIDE DEF k
<1>3. Begins(c, p, j)
  BY <1>1, CutText
<1>4. c \in Seq(Chars) /\ Len(c) = j /\ \A i \in 1..j : c[i] = p[i]
  BY <1>3, Zenon DEF Begins
<1> HIDE DEF c, j
<1>5. /\ u \in Seq(Chars) /\ Len(u) = Len(t) + Len(c)
      /\ (\A i \in 1..Len(t) : u[i] = t[i]) /\ \A i \in 1..Len(c) : u[Len(t) + i] = c[i]
  BY <1>4, Joined, Zenon
<1> HIDE DEF u
<1>6. u \in Seq(Chars) /\ Len(u) = m + j /\ (\A i \in 1..m : u[i] = t[i]) /\ \A i \in 1..j : u[m + i] = p[i]
  BY <1>4, <1>5, Zenon
<1>7. Len(u) <= n
  BY <1>2, <1>6
<1> QED BY <1>1, <1>2, <1>6, <1>7, Zenon DEF k, c, u, j, m

\* What get_lines(n) has written after each piece.
Fitting(n) == {t \in Seq(Chars) : Len(t) <= n}
Writes(h, n) ==
  /\ h \in [0..Len(Pieces) -> Fitting(n)] /\ h[0] = get_line(n)
  /\ \A k \in 1..Len(Pieces) : h[k] = h[k - 1] \o Cut(Pieces[k], n - Len(h[k - 1]))

LEMMA LinesWritten ==
  ASSUME TypeOK, NEW n \in Nat, get_line(n) \in Fitting(n)
  PROVE  \E h : Writes(h, n) /\ get_lines(n) = h[Len(Pieces)]
<1> DEFINE P == Pieces
           m == Len(P)
           R == Fitting(n)
           e == get_line(n)
           Add(k, t) == t \o Cut(P[k], n - Len(t))
           G == [x \in (1..m) \X R |-> Add(x[1], x[2])]
<1>1. P \in Seq(Seq(Chars)) /\ m \in Nat /\ m >= 1
  BY PiecesText, Zenon
<1>2. \A k \in 1..m : P[k] \in Seq(Chars)
  <2> HIDE DEF P
  <2> QED BY <1>1
<1>3. ASSUME NEW k \in 1..m, NEW t \in R PROVE Add(k, t) \in R
  <2>1. t \in Seq(Chars) /\ Len(t) <= n /\ P[k] \in Seq(Chars)
    BY <1>2, Zenon DEF Fitting
  <2> HIDE DEF P
  <2>2. Add(k, t) \in Seq(Chars) /\ Len(Add(k, t)) <= n
    BY <2>1, AddText, Zenon
  <2> HIDE DEF Add
  <2> QED BY <2>2, Zenon DEF Fitting
<1> HIDE DEF P, m, R, e, Add
<1>4. G \in [(1..m) \X R -> R]
  <2> SUFFICES ASSUME NEW x \in (1..m) \X R PROVE Add(x[1], x[2]) \in R
    BY Zenon
  <2>1. x[1] \in 1..m /\ x[2] \in R
    OBVIOUS
  <2> QED BY <1>3, <2>1, Zenon
<1>5. m \in Nat /\ e \in R /\ G \in Rules(m, R)
  BY <1>1, <1>4, Zenon DEF Rules, e, R
<1>6. \A k \in 1..m, t \in R : G[<<k, t>>] = Add(k, t)
  <2> SUFFICES ASSUME NEW k \in 1..m, NEW t \in R PROVE G[<<k, t>>] = Add(k, t)
    BY Zenon
  <2>1. <<k, t>> \in (1..m) \X R /\ <<k, t>>[1] = k /\ <<k, t>>[2] = t
    OBVIOUS
  <2> QED BY <2>1, Zenon
<1> HIDE DEF G
<1>7. PICK g : Follows(g, m, R, e, G)
  BY <1>5, Recursion, Zenon
<1>8. g \in [0..m -> R] /\ g[0] = e /\ \A i \in 1..m : g[i] = G[<<i, g[i - 1]>>]
  BY <1>7, Zenon DEF Follows
<1>9. \A i \in 1..m : g[i - 1] \in R /\ i # 0
  BY <1>1, <1>8
<1>10. \A i \in 0..m : g[i] = IF i = 0 THEN e ELSE Add(i, g[i - 1])
  <2>1. \A i \in 0..m : i = 0 \/ i \in 1..m
    BY <1>1
  <2> QED BY <1>6, <1>8, <1>9, <2>1, Zenon
<1>11. g = [i \in 0..m |-> IF i = 0 THEN e ELSE Add(i, g[i - 1])]
  BY <1>8, <1>10, Zenon
<1>12. PICK h : /\ h = [i \in 0..m |-> IF i = 0 THEN e ELSE Add(i, h[i - 1])]
               /\ get_lines(n) = h[m]
  BY <1>11, Zenon DEF get_lines, m, P, e, Add
<1>13. 0 \in 0..m /\ \A i \in 1..m : i \in 0..m /\ i # 0
  BY <1>1
<1>14. h[0] = e /\ \A i \in 1..m : h[i] = Add(i, h[i - 1])
  BY <1>12, <1>13, Zenon
<1>15. \A k \in 0..m : h[k] \in R
  <2> DEFINE T == {j \in Nat : h[j] \in R}
  <2>1. 0 \in T
    BY <1>5, <1>14
  <2>2. ASSUME NEW k \in 0..(m - 1), k \in T PROVE k + 1 \in T
    <3>1. k + 1 \in 1..m /\ (k + 1) - 1 = k /\ k + 1 \in Nat
      BY <1>1
    <3>2. h[k] \in R
      BY <2>2
    <3>3. h[k + 1] \in R
      BY <1>3, <1>14, <3>1, <3>2, Zenon
    <3> QED BY <3>1, <3>3
  <2> HIDE DEF T
  <2>3. \A k \in 0..m : k \in T
    BY <1>1, <2>1, <2>2, UpTo
  <2> QED BY <2>3, Zenon DEF T
<1>16. h \in [0..m -> R]
  <2>1. \E B : h \in [0..m -> B]
    BY <1>12, <1>15, Zenon
  <2> QED BY <1>15, <2>1, Zenon
<1> QED BY <1>12, <1>14, <1>16, Zenon DEF Writes, R, m, P, e, Add

\* What is written into the smaller of two buffers is the beginning of what is
\* written into the larger one, and the next piece keeps it so.
LEMMA BothAdd ==
  ASSUME NEW n \in Nat, NEW r \in Nat, n <= r, NEW p \in Seq(Chars),
         NEW t \in Fitting(r), NEW u, Begins(u, t, Least(n, Len(t)))
  PROVE  LET x == t \o Cut(p, r - Len(t))
         IN Begins(u \o Cut(p, n - Len(u)), x, Least(n, Len(x)))
<1> DEFINE x == t \o Cut(p, r - Len(t))
           y == u \o Cut(p, n - Len(u))
           lt == Len(t)
           lu == Len(u)
           lp == Len(p)
           i1 == Least(r - lt, lp)
           j1 == Least(n - lu, lp)
<1>1. t \in Seq(Chars) /\ lt <= r
  BY Zenon DEF Fitting
<1>2. u \in Seq(Chars) /\ lu = Least(n, lt) /\ \A i \in 1..lu : u[i] = t[i]
  BY Zenon DEF Begins
<1>3. lt \in Nat /\ lu \in Nat /\ lp \in Nat
  BY <1>1, <1>2
<1>4. lu <= n /\ lu <= lt
  <2> HIDE DEF lt, lu
  <2> QED BY <1>2, <1>3 DEF Least
<1>5. /\ r - lt \in Nat /\ x \in Seq(Chars) /\ Len(x) = lt + i1 /\ i1 \in Nat
      /\ (\A i \in 1..lt : x[i] = t[i]) /\ \A i \in 1..i1 : x[lt + i] = p[i]
  BY <1>1, AddText, Zenon
<1>6. /\ n - lu \in Nat /\ y \in Seq(Chars) /\ Len(y) = lu + j1 /\ j1 \in Nat
      /\ (\A i \in 1..lu : y[i] = u[i]) /\ \A i \in 1..j1 : y[lu + i] = p[i]
  BY <1>2, <1>4, AddText, Zenon
<1> DEFINE k == Least(n, Len(x))
<1> HIDE DEF x, y, lt, lu, lp
<1>7. /\ k \in Nat /\ lu + j1 = k /\ k <= Len(x)
      /\ j1 <= i1 /\ (j1 > 0 => lu = lt)
  BY <1>2, <1>3, <1>4, <1>5, <1>6 DEF Least
<1> HIDE DEF i1, j1, k
<1>8. ASSUME NEW i \in 1..k PROVE y[i] = x[i]
  <2>1. CASE i <= lu
    <3>1. i \in 1..lu /\ i \in 1..lt
      BY <1>3, <1>4, <2>1
    <3> QED BY <1>2, <1>5, <1>6, <3>1, Zenon
  <2>2. CASE ~(i <= lu)
    <3> DEFINE j == i - lu
    <3>1. j \in 1..j1 /\ j \in 1..i1 /\ lu + j = i /\ j1 > 0
      BY <1>3, <1>5, <1>6, <1>7, <2>2, SMTT(30)
    <3> HIDE DEF j
    <3>2. lu = lt
      BY <1>7, <3>1
    <3> QED BY <1>5, <1>6, <3>1, <3>2, Zenon
  <2> QED BY <2>1, <2>2
<1>9. Begins(y, x, k)
  BY <1>6, <1>7, <1>8, Zenon DEF Begins
<1> QED BY <1>9, Zenon DEF x, y, k, lt, lu

LEMMA BothWritten ==
  ASSUME TypeOK, NEW n \in Nat, NEW r \in Nat, n <= r, NEW g, NEW h, Writes(g, n), Writes(h, r),
         Begins(get_line(n), get_line(r), Least(n, Len(get_line(r))))
  PROVE  Begins(g[Len(Pieces)], h[Len(Pieces)], Least(n, Len(h[Len(Pieces)])))
<1> DEFINE m == Len(Pieces)
           T == {k \in Nat : Begins(g[k], h[k], Least(n, Len(h[k])))}
<1>1. m \in Nat /\ m >= 1 /\ Pieces \in Seq(Seq(Chars))
  BY PiecesText, Zenon
<1>2. \A k \in 1..m : Pieces[k] \in Seq(Chars)
  BY <1>1
<1>3. /\ h \in [0..m -> Fitting(r)] /\ h[0] = get_line(r) /\ g[0] = get_line(n)
      /\ \A k \in 1..m : h[k] = h[k - 1] \o Cut(Pieces[k], r - Len(h[k - 1]))
      /\ \A k \in 1..m : g[k] = g[k - 1] \o Cut(Pieces[k], n - Len(g[k - 1]))
  BY Zenon DEF Writes
<1>4. 0 \in T
  BY <1>3, Zenon
<1>5. ASSUME NEW k \in 0..(m - 1), k \in T PROVE k + 1 \in T
  <2> HIDE DEF m
  <2> DEFINE l == k + 1
  <2>1. l \in 1..m /\ l - 1 = k /\ k \in 0..m /\ l \in Nat
    BY <1>1
  <2> HIDE DEF l
  <2>2. h[k] \in Fitting(r) /\ Begins(g[k], h[k], Least(n, Len(h[k])))
    BY <1>3, <1>5, <2>1
  <2>3. /\ Pieces[l] \in Seq(Chars) /\ h[l] = h[k] \o Cut(Pieces[l], r - Len(h[k]))
        /\ g[l] = g[k] \o Cut(Pieces[l], n - Len(g[k]))
    BY <1>2, <1>3, <2>1, Zenon
  <2>4. Begins(g[l], h[l], Least(n, Len(h[l])))
    BY <2>2, <2>3, BothAdd, Zenon
  <2> QED BY <2>1, <2>4, Zenon DEF l
<1> HIDE DEF m, T
<1>6. m \in T
  <2>1. \A k \in 0..m : k \in T
    BY <1>1, <1>4, <1>5, UpTo
  <2> QED BY <1>1, <2>1
<1> QED BY <1>6, Zenon DEF m, T

\* A buffer that is too small for the numbers: after the byte of snprintf's NUL
\* only the line break has room.
LEMMA ShortWritten ==
  ASSUME TypeOK, NEW n \in Nat, NEW h, Writes(h, n), Len(get_line(n)) = n - 1, n >= 1
  PROVE  Len(h[Len(Pieces)]) = n
<1> DEFINE m == Len(Pieces)
           T == {k \in Nat : k = 0 \/ Len(h[k]) = n}
<1>1. m \in Nat /\ m >= 1 /\ Pieces \in Seq(Seq(Chars)) /\ Pieces[1] = <<"\n">>
  BY PiecesText, Zenon
<1>2. \A k \in 1..m : Pieces[k] \in Seq(Chars)
  BY <1>1
<1>3. /\ h \in [0..m -> Fitting(n)] /\ h[0] = get_line(n)
      /\ \A k \in 1..m : h[k] = h[k - 1] \o Cut(Pieces[k], n - Len(h[k - 1]))
  BY Zenon DEF Writes
<1>4. 0 \in T
  OBVIOUS
<1>5. ASSUME NEW k \in 0..(m - 1), k \in T PROVE k + 1 \in T
  <2> HIDE DEF m
  <2> DEFINE l == k + 1
  <2>1. l \in 1..m /\ l - 1 = k /\ k \in 0..m /\ l \in Nat
    BY <1>1
  <2>2. l = 1 <=> k = 0
    OBVIOUS
  <2> HIDE DEF l
  <2> DEFINE t == h[k]
             p == Pieces[l]
             lt == Len(t)
             lp == Len(p)
  <2>3. t \in Seq(Chars) /\ lt <= n /\ p \in Seq(Chars) /\ h[l] = t \o Cut(p, n - lt)
    <3>1. t \in Fitting(n)
      BY <1>3, <2>1
    <3> QED BY <1>2, <1>3, <2>1, <3>1, Zenon DEF Fitting
  <2>4. Len(h[l]) = lt + Least(n - lt, lp)
    <3> HIDE DEF t, p
    <3>1. /\ t \o Cut(p, n - lt) \in Seq(Chars)
          /\ Len(t \o Cut(p, n - lt)) = lt + Least(n - lt, lp)
      BY <2>3, AddText, Zenon
    <3> QED BY <2>3, <3>1, Zenon
  <2>5. lt \in Nat /\ lp \in Nat
    <3> HIDE DEF t, p
    <3> QED BY <2>3
  <2>6. (k = 0 => lt = n - 1 /\ lp = 1) /\ (k # 0 => lt = n)
    <3>1. ASSUME k = 0 PROVE lt = n - 1 /\ lp = 1
      <4>1. l = 1
        BY <2>2, <3>1
      <4>2. Len(<<"\n">>) = 1
        BY Characters, CharText, Zenon
      <4> QED BY <1>1, <1>3, <3>1, <4>1, <4>2, Zenon
    <3>2. ASSUME k # 0 PROVE lt = n
      BY <1>5, <3>2
    <3> QED BY <3>1, <3>2
  <2> HIDE DEF lt, lp
  <2>7. lt + Least(n - lt, lp) = n
    BY <2>5, <2>6 DEF Least
  <2> QED BY <2>1, <2>4, <2>7, Zenon DEF l
<1> HIDE DEF m, T
<1>6. m \in T /\ m # 0
  <2>1. \A k \in 0..m : k \in T
    BY <1>1, <1>4, <1>5, UpTo
  <2> QED BY <1>1, <2>1
<1> QED BY <1>6, Zenon DEF m, T

\* A buffer that is too small gets the beginning of the text and nothing else
\* (maps_parser.cc:299-303, :387-413), filled to its last byte, whatever the
\* line and the lists behind it are.
THEOREM CutCorrect == Spec => []CutIsPrefix
<1>1. LInv => CutIsPrefix
  <2> DEFINE whole == get_line(Room)
             lines == get_lines(Room)
             w == entry.width
  <2> SUFFICES ASSUME LInv, entry # NoEntry, NEW n \in 1..Len(lines)
               PROVE  /\ IsPrefix(get_line(n), whole)
                      /\ Len(get_line(n)) = IF n < w THEN n - 1 ELSE Least(n, Len(whole))
                      /\ n >= w => IsPrefix(get_lines(n), lines)
                      /\ Len(get_lines(n)) = n
    BY Zenon DEF CutIsPrefix, Least
  <2>1. TypeOK /\ IsLine(line) /\ w = line.width
    BY Zenon DEF LInv, EntryInv, IsLine
  <2>2. w \in Nat /\ w >= 1 /\ Room \in Nat /\ w <= Room
    <3> DEFINE lw == line.width
               ln == Len(line.name)
    <3>1. lw \in Nat /\ lw >= 1 /\ ln \in Nat /\ lw + 1 + ln <= Room /\ Room \in Nat
      BY <2>1, LineFacts, Numbers, Zenon
    <3> HIDE DEF lw, ln
    <3>2. lw <= Room
      BY <3>1
    <3> QED BY <2>1, <3>1, <3>2, Zenon DEF lw
  <2> DEFINE W == Whole
             size == Len(W)
  <2>3. W \in Seq(Chars) /\ size >= w
    BY <2>1, <2>2, WholeFacts, Zenon
  <2>4. size \in Nat
    <3> HIDE DEF W
    <3> QED BY <2>3
  <2> HIDE DEF w, W
  <2>5. \A k \in Nat : k >= 1 => Begins(get_line(k), W, IF k < w THEN k - 1 ELSE Least(k, size))
    BY <2>1, <2>2, LineWritten, Zenon DEF w, W
  <2> HIDE DEF size
  <2>6. Room >= 1 /\ ~(Room < w)
    BY <2>2
  <2>7. Begins(whole, W, Least(Room, size))
    BY <2>2, <2>5, <2>6, Zenon
  <2>8. \A k \in Nat : k >= 1 => get_line(k) \in Fitting(k)
    <3> SUFFICES ASSUME NEW k \in Nat, k >= 1 PROVE get_line(k) \in Fitting(k)
      BY Zenon
    <3> DEFINE a == get_line(k)
               j == IF k < w THEN k - 1 ELSE Least(k, size)
    <3>1. a \in Seq(Chars) /\ Len(a) = j
      BY <2>5, Zenon DEF Begins
    <3>2. j <= k
      BY <2>2, <2>4 DEF Least
    <3> HIDE DEF j
    <3> QED BY <3>1, <3>2, Zenon DEF Fitting, a
  <2>9. PICK h : Writes(h, Room) /\ lines = h[Len(Pieces)]
    BY <2>1, <2>2, <2>6, <2>8, LinesWritten, Zenon
  <2>10. lines \in Seq(Chars) /\ Len(lines) <= Room
    <3>1. Len(Pieces) \in 0..Len(Pieces)
      BY <2>1, PiecesText
    <3>2. h[Len(Pieces)] \in Fitting(Room)
      BY <2>9, <3>1, Zenon DEF Writes
    <3> QED BY <2>9, <3>2, Zenon DEF Fitting
  <2> HIDE DEF lines
  <2>11. n \in Nat /\ n >= 1 /\ n <= Room /\ Len(lines) \in Nat /\ n <= Len(lines)
    BY <2>2, <2>10
  <2> DEFINE a == get_line(n)
             j == IF n < w THEN n - 1 ELSE Least(n, size)
             lw == Len(whole)
  <2>12. Begins(a, W, j)
    BY <2>5, <2>11, Zenon
  <2>13. lw = Least(Room, size) /\ whole \in Seq(Chars)
    BY <2>7, Zenon DEF Begins
  <2> HIDE DEF whole, lw
  <2>14. j <= Least(Room, size) /\ j = IF n < w THEN n - 1 ELSE Least(n, lw)
    BY <2>2, <2>3, <2>4, <2>11, <2>13 DEF Least, size
  <2>15. Begins(a, whole, j)
    BY <2>3, <2>7, <2>12, <2>14, BeginsBoth
  <2> HIDE DEF a, j
  <2>16. IsPrefix(a, whole) /\ Len(a) = j
    <3>1. IsPrefix(a, whole)
      BY <2>13, <2>15, BeginsPrefix
    <3> QED BY <2>15, <3>1, Zenon DEF Begins
  <2>17. PICK g : Writes(g, n) /\ get_lines(n) = g[Len(Pieces)]
    BY <2>1, <2>8, <2>11, LinesWritten, Zenon
  <2>18. CASE n < w
    <3>1. Len(get_line(n)) = n - 1 /\ ~(n >= w)
      BY <2>2, <2>11, <2>14, <2>16, <2>18 DEF a
    <3>2. Len(get_lines(n)) = n
      BY <2>1, <2>11, <2>17, <3>1, ShortWritten, Zenon
    <3> QED BY <2>14, <2>16, <3>1, <3>2, Zenon DEF a, lw
  <2>19. CASE ~(n < w)
    <3>1. Begins(get_line(n), get_line(Room), Least(n, Len(get_line(Room))))
      BY <2>14, <2>15, <2>19, Zenon DEF a, lw, whole
    <3>2. Begins(get_lines(n), lines, Least(n, Len(lines)))
      BY <2>1, <2>2, <2>9, <2>11, <2>17, <3>1, BothWritten, Zenon
    <3>3. Least(n, Len(lines)) = n
      <4> DEFINE ll == Len(lines)
      <4>1. ll \in Nat /\ n <= ll
        BY <2>11
      <4> HIDE DEF ll
      <4>2. Least(n, ll) = n
        BY <2>11, <4>1 DEF Least
      <4> QED BY <4>2 DEF ll
    <3>4. IsPrefix(get_lines(n), lines) /\ Len(get_lines(n)) = n
      <4>1. Begins(get_lines(n), lines, n)
        BY <3>2, <3>3, Zenon
      <4> QED BY <2>10, <4>1, BeginsPrefix, Zenon DEF Begins
    <3> QED BY <2>14, <2>16, <2>19, <3>4, Zenon DEF a, lw
  <2> QED BY <2>18, <2>19
<1> QED BY <1>1, LineInvariance, PTL

-----------------------------------------------------------------------------
(* The accessors.                                                          *)

LEMMA LeastOf ==
  ASSUME NEW T, T \subseteq Nat, NEW m \in T, \A x \in T : m <= x
  PROVE  Min(T) = m
<1>1. \A x, y \in Nat : x <= y /\ y <= x => x = y
  OBVIOUS
<1>2. Min(T) \in T /\ \A x \in T : Min(T) <= x
  BY Zenon DEF Min
<1> QED BY <1>1, <1>2, Zenon

LEMMA LeastIn ==
  ASSUME NEW T, T \subseteq Nat, T # {}
  PROVE  Min(T) \in T /\ \A x \in T : Min(T) <= x
<1>1. \E m \in T : \A x \in T : m <= x
  BY LeastNat, Zenon
<1> QED BY <1>1, Zenon DEF Min

LEMMA PrefixBegins ==
  ASSUME NEW s \in Seq(Chars), NEW t \in Seq(Chars)
  PROVE  IsPrefix(t, s) <=> Len(t) <= Len(s) /\ \A i \in 1..Len(t) : t[i] = s[i]
<1> DEFINE k == Len(t)
<1>1. k \in Nat /\ Len(s) \in Nat
  OBVIOUS
<1>2. ASSUME IsPrefix(t, s) PROVE k <= Len(s) /\ \A i \in 1..k : t[i] = s[i]
  <2>1. k <= Len(s) /\ SubSeq(t, 1, k) = SubSeq(s, 1, k)
    BY <1>2, Zenon DEF IsPrefix
  <2>2. k <= Len(t)
    BY <1>1
  <2>3. Begins(SubSeq(t, 1, k), t, k) /\ Begins(SubSeq(s, 1, k), s, k)
    BY <1>1, <2>1, <2>2, FirstText, Zenon
  <2> QED BY <2>1, <2>3, Zenon DEF Begins
<1>3. ASSUME k <= Len(s), \A i \in 1..k : t[i] = s[i] PROVE IsPrefix(t, s)
  <2>1. Begins(t, s, k)
    BY <1>1, <1>3, Zenon DEF Begins
  <2> QED BY <2>1, BeginsPrefix
<1> QED BY <1>2, <1>3, Zenon

LEMMA FromChars ==
  ASSUME NEW s \in Seq(Chars), NEW k \in Nat, k <= Len(s)
  PROVE  /\ From(s, k) \in Seq(Chars) /\ Len(From(s, k)) = Len(s) - k
         /\ \A i \in 1..(Len(s) - k) : From(s, k)[i] = s[k + i]
<1> DEFINE m == k + 1
           n == Len(s)
<1>1. m \in Nat /\ n \in Nat /\ 1 <= m /\ n <= Len(s)
  OBVIOUS
<1>2. (IF m <= n THEN n - m + 1 ELSE 0) = n - k /\ n - m + 1 = n - k /\ \A i \in 1..(n - k) : m + i - 1 = k + i
  BY <1>1
<1>3. From(s, k) = SubSeq(s, m, n)
  BY Zenon DEF From
<1> DEFINE r == SubSeq(s, m, n)
<1>4. r \in Seq(Chars) /\ Len(r) = (IF m <= n THEN n - m + 1 ELSE 0) /\ \A i \in 1..(n - m + 1) : r[i] = s[m + i - 1]
  BY <1>1, SubSeqText, Zenon
<1> HIDE DEF m, n, r
<1> QED BY <1>2, <1>3, <1>4, Zenon DEF n, r

\* A flag and its blank take three places.
LEMMA Places ==
  ASSUME NEW n \in Nat, NEW j \in 1..n
  PROVE  LET a == 3 * j - 3
             b == 3 * j - 2
             c == 3 * j - 1
             d == 3 * j
         IN /\ d \in 1..(3 * n) /\ d % 3 = 0 /\ 4 + d = 3 * j + 4
            /\ c \in 1..(3 * n) /\ c % 3 = 2 /\ (c + 2) \div 3 = j /\ 4 + c = 3 * j + 3
            /\ b \in 1..(3 * n) /\ b % 3 = 1 /\ (b + 2) \div 3 = j /\ 4 + b = 3 * j + 2
            /\ a % 3 = 0 /\ 4 + a = 3 * j + 1 /\ (a = 0 \/ a \in 1..(3 * n))
  OBVIOUS

LEMMA PlaceOf ==
  ASSUME NEW n \in Nat, NEW i \in Nat, i >= 4, i + 2 <= 4 + 3 * n
  PROVE  \E j \in 1..n : i = 3 * j + 1 \/ i = 3 * j + 2 \/ i = 3 * j + 3
<1> DEFINE j == (i - 1) \div 3
<1>1. j \in 1..n /\ (i = 3 * j + 1 \/ i = 3 * j + 2 \/ i = 3 * j + 3)
  OBVIOUS
<1> QED BY <1>1

LEMMA NextPlaces ==
  ASSUME NEW j \in Nat, NEW i \in Nat
  PROVE  /\ i = 3 * j + 2 => i + 2 = 3 * j + 4
         /\ i = 3 * j + 3 => i + 1 = 3 * j + 4
         /\ i = 3 * j + 1 => i + 1 = 3 * j + 2 /\ i + 2 = 3 * j + 3 /\ i + 3 = 3 * j + 4
  OBVIOUS

\* Two letters are found in the list only where a flag begins, and it is that
\* flag.
LEMMA FlagFound ==
  ASSUME TypeOK, NEW f \in Flags, NEW i \in 4..(Len(VmFlagsText) - 2)
  PROVE  LET n == Len(smaps.flags)
         IN /\ IsPrefix(f, From(VmFlagsText, i)) <=> \E j \in 1..n : i = 3 * j + 1 /\ smaps.flags[j] = f
            /\ \A j \in 1..n : i = 3 * j + 1 => VmFlagsText[i] = " " /\ VmFlagsText[i + 3] = " "
<1> DEFINE flags == smaps.flags
           n == Len(flags)
           t == VmFlagsText
           u == From(t, i)
<1>1. /\ t \in Seq(Chars) /\ n \in Nat /\ Len(t) = 4 + 3 * n /\ t[4] = " "
      /\ \A k \in 1..(3 * n) : t[4 + k] = IF k % 3 = 0 THEN " " ELSE flags[(k + 2) \div 3][k % 3]
  BY FlagChars, Zenon
<1>2. f \in Seq(Chars) /\ Len(f) = 2 /\ f[1] # " " /\ f[2] # " "
  <2>1. f \in Seq(Chars) /\ Len(f) = 2 /\ Without(f, " ")
    BY ListAssumption, Zenon
  <2>2. 1 \in 1..2 /\ 2 \in 1..2 /\ \A g \in Seq(Chars) : DOMAIN g = 1..Len(g)
    OBVIOUS
  <2> QED BY <2>1, <2>2, Zenon DEF Without
<1>3. \A j \in 1..n : flags[j] \in Seq(Chars) /\ Len(flags[j]) = 2
  <2>1. flags \in Seq(Seq(Chars)) /\ \A j \in DOMAIN flags : Len(flags[j]) = 2
    BY ListFacts, Zenon
  <2> HIDE DEF flags
  <2> QED BY <2>1
<1> HIDE DEF t, n
<1>4. i \in Nat /\ i >= 4 /\ i + 2 <= 4 + 3 * n /\ i <= Len(t) /\ Len(t) - i \in Nat /\ 2 <= Len(t) - i
  <2> DEFINE l == Len(t)
  <2>1. l = 4 + 3 * n /\ n \in Nat /\ i \in 4..(l - 2)
    BY <1>1, Zenon DEF t
  <2> HIDE DEF l
  <2>2. i \in Nat /\ i >= 4 /\ i + 2 <= 4 + 3 * n /\ i <= l /\ l - i \in Nat /\ 2 <= l - i
    BY <2>1
  <2> QED BY <2>2, Zenon DEF l
<1>5. IsPrefix(f, u) <=> f[1] = t[i + 1] /\ f[2] = t[i + 2]
  <2>1. u \in Seq(Chars) /\ Len(u) = Len(t) - i /\ \A k \in 1..(Len(t) - i) : u[k] = t[i + k]
    BY <1>1, <1>4, FromChars
  <2> HIDE DEF u
  <2>2. IsPrefix(f, u) <=> Len(f) <= Len(u) /\ \A k \in 1..Len(f) : f[k] = u[k]
    BY <1>2, <2>1, PrefixBegins
  <2>3. 2 <= Len(u) /\ 1 \in 1..(Len(t) - i) /\ 2 \in 1..(Len(t) - i) /\ \A k \in 1..2 : k = 1 \/ k = 2
    <3> DEFINE d == Len(t) - i
    <3>1. d \in Nat /\ 2 <= d
      BY <1>4
    <3> HIDE DEF d
    <3>2. 1 \in 1..d /\ 2 \in 1..d /\ \A k \in 1..2 : k = 1 \/ k = 2
      BY <3>1
    <3> QED BY <2>1, <3>1, <3>2, Zenon DEF d
  <2>4. 1 \in 1..2 /\ 2 \in 1..2
    OBVIOUS
  <2> QED BY <1>2, <2>1, <2>2, <2>3, <2>4, Zenon
<1> HIDE DEF u
<1>6. \A j \in 1..n : /\ t[3 * j + 1] = " " /\ t[3 * j + 4] = " "
                      /\ t[3 * j + 2] = flags[j][1] /\ t[3 * j + 3] = flags[j][2]
  <2> SUFFICES ASSUME NEW j \in 1..n
               PROVE  /\ t[3 * j + 1] = " " /\ t[3 * j + 4] = " "
                      /\ t[3 * j + 2] = flags[j][1] /\ t[3 * j + 3] = flags[j][2]
    BY Zenon
  <2> DEFINE a == 3 * j - 3
             b == 3 * j - 2
             c == 3 * j - 1
             d == 3 * j
  <2>1. /\ d \in 1..(3 * n) /\ d % 3 = 0 /\ 4 + d = 3 * j + 4
        /\ c \in 1..(3 * n) /\ c % 3 = 2 /\ (c + 2) \div 3 = j /\ 4 + c = 3 * j + 3
        /\ b \in 1..(3 * n) /\ b % 3 = 1 /\ (b + 2) \div 3 = j /\ 4 + b = 3 * j + 2
        /\ a % 3 = 0 /\ 4 + a = 3 * j + 1 /\ (a = 0 \/ a \in 1..(3 * n))
    BY <1>1, Places, Zenon
  <2>a. 4 + 0 = 4 /\ 1 # 0 /\ 2 # 0
    OBVIOUS
  <2> HIDE DEF a, b, c, d
  <2>2. t[4 + d] = " " /\ t[4 + c] = flags[j][2] /\ t[4 + b] = flags[j][1]
    BY <1>1, <2>1, <2>a, Zenon
  <2>3. t[4 + a] = " "
    BY <1>1, <2>1, <2>a, Zenon
  <2> QED BY <2>1, <2>2, <2>3, Zenon
<1>7. \E j \in 1..n : i = 3 * j + 1 \/ i = 3 * j + 2 \/ i = 3 * j + 3
  BY <1>1, <1>4, PlaceOf, Zenon
<1>b. \A j \in 1..n : j \in Nat
  OBVIOUS
<1>8. ASSUME f[1] = t[i + 1], f[2] = t[i + 2] PROVE \E j \in 1..n : i = 3 * j + 1 /\ flags[j] = f
  <2>1. PICK j \in 1..n : i = 3 * j + 1 \/ i = 3 * j + 2 \/ i = 3 * j + 3
    BY <1>7
  <2>2. /\ i = 3 * j + 2 => i + 2 = 3 * j + 4
        /\ i = 3 * j + 3 => i + 1 = 3 * j + 4
        /\ i = 3 * j + 1 => i + 1 = 3 * j + 2 /\ i + 2 = 3 * j + 3
    BY <1>4, <1>b, NextPlaces, Zenon
  <2>3. i = 3 * j + 1
    BY <1>2, <1>6, <1>8, <2>1, <2>2, Zenon
  <2>4. flags[j][1] = f[1] /\ flags[j][2] = f[2]
    BY <1>6, <1>8, <2>2, <2>3, Zenon
  <2> DEFINE g == flags[j]
  <2>5. g \in Seq(Chars) /\ Len(g) = 2 /\ g[1] = f[1] /\ g[2] = f[2]
    BY <1>3, <2>4, Zenon
  <2> HIDE DEF g
  <2>6. g = f
    <3>1. \A k \in 1..2 : k = 1 \/ k = 2
      OBVIOUS
    <3>2. \A k \in 1..Len(g) : g[k] = f[k]
      BY <2>5, <3>1, Zenon
    <3> QED BY <1>2, <2>5, <3>2, SeqEqual
  <2> QED BY <2>3, <2>6, Zenon DEF g
<1>9. ASSUME NEW j \in 1..n, i = 3 * j + 1
      PROVE  t[i + 1] = flags[j][1] /\ t[i + 2] = flags[j][2] /\ t[i] = " " /\ t[i + 3] = " "
  <2>1. i + 1 = 3 * j + 2 /\ i + 2 = 3 * j + 3 /\ i + 3 = 3 * j + 4
    BY <1>4, <1>9, <1>b, NextPlaces, Zenon
  <2> QED BY <1>6, <1>9, <2>1, Zenon
<1>10. IsPrefix(f, u) <=> \E j \in 1..n : i = 3 * j + 1 /\ flags[j] = f
  BY <1>5, <1>8, <1>9, Zenon
<1> QED BY <1>7, <1>9, <1>10, Zenon DEF t, n, u

\* A flag is there if it is in the list.
LEMMA FlagsFound ==
  ASSUME TypeOK, NEW f \in Flags
  PROVE  has_vm_flag(f) <=> Contains(smaps.flags, f)
<1> DEFINE flags == smaps.flags
           n == Len(flags)
           t == VmFlagsText
           l == Len(t)
           ends == {i \in 4..(l - 2) : IsPrefix(f, From(t, i))}
           pos == Min(ends)
<1>1. n \in Nat /\ l = 4 + 3 * n /\ l - 2 \in Nat
  <2>1. n \in Nat /\ l = 4 + 3 * n
    BY FlagChars, Zenon
  <2> HIDE DEF n, l
  <2> QED BY <2>1
<1>2. Len(Title) = 4 /\ Len(f) = 2
  <2>1. Len(Title) = 4
    BY DEF Title
  <2> QED BY <2>1, ListAssumption, Zenon
<1>3. has_vm_flag(f) <=> ends # {} /\ t[pos] = " " /\ (pos + 2 = l \/ t[pos + 2 + 1] = " ")
  BY <1>2, Zenon DEF has_vm_flag
<1>4. \A i \in 4..(l - 2) :
        /\ IsPrefix(f, From(t, i)) <=> \E j \in 1..n : i = 3 * j + 1 /\ flags[j] = f
        /\ \A j \in 1..n : i = 3 * j + 1 => t[i] = " " /\ t[i + 3] = " "
  BY FlagFound, Zenon
<1> HIDE DEF t, l, flags, n
<1>5. \A j \in 1..n : 3 * j + 1 \in 4..(l - 2)
  BY <1>1
<1>6. Contains(flags, f) <=> \E j \in 1..n : flags[j] = f
  BY Zenon DEF Contains, n
<1>7. ends # {} <=> \E j \in 1..n : flags[j] = f
  BY <1>4, <1>5, Zenon
<1>8. ASSUME ends # {} PROVE t[pos] = " " /\ t[pos + 2 + 1] = " "
  <2>1. ends \subseteq Nat
    BY <1>1
  <2> HIDE DEF ends
  <2>2. pos \in ends
    BY <1>8, <2>1, LeastIn
  <2> HIDE DEF pos
  <2> USE DEF ends
  <2>3. pos \in 4..(l - 2) /\ IsPrefix(f, From(t, pos))
    BY <2>2, Zenon
  <2>4. t[pos] = " " /\ t[pos + 3] = " "
    BY <1>4, <2>3, Zenon
  <2>5. pos + 2 + 1 = pos + 3
    BY <1>1, <2>3
  <2> QED BY <2>4, <2>5, Zenon
<1> HIDE DEF ends, pos
<1> QED BY <1>3, <1>6, <1>7, <1>8, Zenon DEF flags

\* The line of a field has a value for a name if the name is its own and it has
\* one, which begins behind the two blanks.
LEMMA FieldHas ==
  ASSUME NEW f \in Field, Without(f.key, ":"), f.unit # <<>> => f.num # <<>>, NEW q \in Keys
  PROVE  LET v == f.num \o f.unit
             text == FieldText(f)
         IN /\ HasValue(text, q) <=> f.key = q /\ v # <<>>
            /\ f.key = q /\ v # <<>> => From(text, Min(NonBlank(text, Len(q) + 2)) - 1) = v
<1> DEFINE key == f.key
           v == f.num \o f.unit
           k == Len(key)
           lq == Len(q)
           lv == Len(v)
           text == FieldText(f)
           size == Len(text)
           blank == NonBlank(text, lq + 2)
<1>1. /\ text \in Seq(Chars) /\ size = k + 3 + lv
      /\ (\A i \in 1..k : text[i] = key[i])
      /\ text[k + 1] = ":" /\ text[k + 2] = " " /\ text[k + 3] = " "
      /\ (\A i \in 1..lv : text[k + 3 + i] = v[i])
      /\ From(text, k + 3) = v
  BY FieldChars, Zenon
<1>2. /\ key \in Seq(Chars) /\ f.num \in Seq(Chars) /\ f.unit \in Seq(Chars) /\ v \in Seq(Chars)
      /\ lv = Len(f.num) + Len(f.unit) /\ \A i \in 1..Len(f.num) : f.num[i] \in Digits
  BY FieldFacts, Zenon
<1>3. q \in Seq(Chars) /\ Without(q, ":")
  BY ListAssumption, Zenon
<1>4. k \in Nat /\ lq \in Nat /\ lv \in Nat
  <2>1. \A s \in Seq(Chars) : Len(s) \in Nat
    OBVIOUS
  <2> QED BY <1>2, <1>3, <2>1, Zenon
<1>a. size = k + 3 + lv
  BY <1>1, Zenon
<1>5. \A s \in Seq(Chars) : Without(s, ":") => \A i \in 1..Len(s) : s[i] # ":"
  <2>1. \A s \in Seq(Chars) : DOMAIN s = 1..Len(s)
    OBVIOUS
  <2> QED BY <2>1, Zenon DEF Without
<1>6. (\A i \in 1..k : key[i] # ":") /\ \A i \in 1..lq : q[i] # ":"
  BY <1>2, <1>3, <1>5, Zenon
<1>7. v # <<>> => lv >= 1 /\ v[1] # " "
  <2> SUFFICES ASSUME v # <<>> PROVE lv >= 1 /\ v[1] # " "
    OBVIOUS
  <2> DEFINE a == f.num
             b == f.unit
             la == Len(a)
             lb == Len(b)
  <2>1. a \in Seq(Chars) /\ b \in Seq(Chars) /\ lv = la + lb /\ (b # <<>> => a # <<>>)
    BY <1>2, Zenon
  <2>2. \A s \in Seq(Chars) : Len(s) \in Nat /\ (Len(s) = 0 <=> s = <<>>)
    OBVIOUS
  <2>3. la \in Nat /\ lb \in Nat /\ lv # 0 /\ (lb # 0 => la # 0)
    BY <1>2, <2>1, <2>2, Zenon
  <2> HIDE DEF la, lb, lv
  <2>4. la >= 1 /\ lv >= 1 /\ 1 \in 1..la
    BY <2>1, <2>3
  <2>5. v[1] = a[1]
    BY <2>1, <2>4, Joined, Zenon DEF la
  <2>6. a[1] \in Digits
    BY <1>2, <2>4, Zenon DEF la
  <2>7. a[1] # " "
    BY <2>6 DEF Digits
  <2> QED BY <2>4, <2>5, <2>7
<1> HIDE DEF key, v, text
<1>8. ASSUME IsPrefix(q, text), lq < size, text[lq + 1] = ":" PROVE key = q
  <2>1. \A i \in 1..lq : q[i] = text[i]
    BY <1>1, <1>3, <1>8, PrefixBegins
  <2> HIDE DEF k, lq, lv, size
  <2>2. lq = k
    <3>1. CASE lq < k
      <4>1. lq + 1 \in 1..k
        BY <1>4, <3>1
      <4> QED BY <1>1, <1>6, <1>8, <4>1, Zenon
    <3>2. CASE k < lq
      <4>1. k + 1 \in 1..lq
        BY <1>4, <3>2
      <4> QED BY <1>1, <1>6, <2>1, <4>1, Zenon
    <3> QED BY <1>4, <3>1, <3>2
  <2>3. \A i \in 1..Len(key) : key[i] = q[i]
    BY <1>1, <2>1, <2>2, Zenon DEF k
  <2>4. Len(key) = Len(q)
    BY <2>2, Zenon DEF k, lq
  <2> QED BY <1>2, <1>3, <2>3, <2>4, SeqEqual
<1>9. \A i : i \in blank <=> i \in (lq + 2)..size /\ text[i] # " "
  BY Zenon DEF NonBlank
<1> HIDE DEF blank
<1>10. ASSUME key = q PROVE /\ blank # {} <=> v # <<>>
                            /\ v # <<>> => Min(blank) = k + 4
  <2> HIDE DEF lv, size
  <2>1. lq = k
    BY <1>10
  <2> HIDE DEF k, lq
  <2>2. \A i \in (k + 2)..size : \/ i = k + 2
                                 \/ i = k + 3
                                 \/ i - (k + 3) \in 1..lv /\ k + 4 <= i
    BY <1>4, <1>a
  <2>3. ASSUME NEW i \in blank PROVE i \in Nat /\ k + 4 <= i /\ lv # 0
    <3>1. i \in (k + 2)..size /\ text[i] # " "
      BY <1>9, <2>1, Zenon
    <3>2. i - (k + 3) \in 1..lv /\ k + 4 <= i
      BY <1>1, <2>2, <3>1, Zenon
    <3>3. i \in (k + 2)..size
      BY <3>1
    <3> QED BY <1>4, <3>2, <3>3
  <2>4. ASSUME v # <<>> PROVE k + 4 \in blank
    <3>a. lv >= 1
      BY <1>7, <2>4, Zenon
    <3>1. 1 \in 1..lv /\ k + 3 + 1 = k + 4 /\ k + 4 \in (k + 2)..size
      BY <1>4, <1>a, <3>a
    <3> QED BY <1>1, <1>7, <1>9, <2>1, <2>4, <3>1, Zenon
  <2>5. \A s \in Seq(Chars) : Len(s) # 0 => s # <<>>
    OBVIOUS
  <2>6. blank # {} => v # <<>>
    BY <1>2, <2>3, <2>5, Zenon DEF lv
  <2>7. ASSUME v # <<>> PROVE Min(blank) = k + 4
    BY <2>3, <2>4, <2>7, LeastOf, Zenon
  <2> QED BY <2>4, <2>6, <2>7, Zenon
<1>11. HasValue(text, q) <=> IsPrefix(q, text) /\ lq < size /\ text[lq + 1] = ":" /\ blank # {}
  BY Zenon DEF HasValue, blank
<1>12. ASSUME key = q, v # <<>> PROVE IsPrefix(q, text) /\ lq < size /\ text[lq + 1] = ":"
  <2>1. lq = k /\ \A i \in 1..lq : q[i] = text[i]
    BY <1>1, <1>12, Zenon
  <2>2. lq < size /\ lq <= size
    <3> HIDE DEF k, lq, lv, size
    <3>1. lq = k
      BY <2>1
    <3> QED BY <1>4, <1>a, <3>1
  <2> QED BY <1>1, <1>3, <2>1, <2>2, PrefixBegins, Zenon
<1>13. HasValue(text, q) <=> key = q /\ v # <<>>
  BY <1>8, <1>10, <1>11, <1>12, Zenon
<1>14. (k + 4) - 1 = k + 3
  BY <1>4
<1>15. key = q /\ v # <<>> => From(text, Min(blank) - 1) = v
  BY <1>1, <1>10, <1>14, Zenon
<1> QED BY <1>13, <1>15, Zenon DEF key, v, text, blank, k, lq

\* The digits of a value, if nothing or a blank follows them.
Number(text) ==
  LET others == {i \in DOMAIN text : text[i] \notin Digits}
      digits == IF others = {} THEN Len(text) ELSE Min(others) - 1
  IN IF digits > 0 /\ (digits = Len(text) \/ text[digits + 1] = " ")
     THEN SubSeq(text, 1, digits) ELSE <<>>

LEMMA NumberOfNothing == Number(<<>>) = <<>>
<1>1. Len(<<>>) = 0 /\ DOMAIN <<>> = {} /\ ~(0 > 0)
  OBVIOUS
<1>2. {i \in DOMAIN <<>> : <<>>[i] \notin Digits} = {}
  BY <1>1, Zenon
<1> QED BY <1>1, <1>2, Zenon DEF Number

LEMMA NumberOfValue ==
  ASSUME NEW f \in Field, f.unit # <<>> => f.num # <<>> /\ f.unit[1] \notin Digits,
         f.num \o f.unit # <<>>
  PROVE  Number(f.num \o f.unit) = IF f.unit = <<>> \/ f.unit[1] = " " THEN f.num ELSE <<>>
<1> DEFINE a == f.num
           b == f.unit
           v == a \o b
           la == Len(a)
           lb == Len(b)
           lv == Len(v)
           others == {i \in DOMAIN v : v[i] \notin Digits}
           digits == IF others = {} THEN lv ELSE Min(others) - 1
<1>1. /\ a \in Seq(Chars) /\ b \in Seq(Chars) /\ v \in Seq(Chars) /\ lv = la + lb
      /\ \A i \in 1..la : a[i] \in Digits
  BY FieldFacts, Zenon
<1>2. \A s \in Seq(Chars) : Len(s) \in Nat /\ (Len(s) = 0 <=> s = <<>>) /\ DOMAIN s = 1..Len(s)
  OBVIOUS
<1>3. la \in Nat /\ lb \in Nat /\ lv \in Nat
  BY <1>1, <1>2, Zenon
<1>4. lv = la + lb
  BY <1>1, Zenon
<1>5. (\A i \in 1..la : v[i] = a[i]) /\ \A i \in 1..lb : v[la + i] = b[i]
  BY <1>1, Joined, Zenon
<1>6. la # 0
  <2>1. lv # 0 /\ (lb # 0 => la # 0)
    BY <1>1, <1>2, Zenon
  <2> HIDE DEF la, lb, lv
  <2> QED BY <1>3, <1>4, <2>1
<1>7. DOMAIN v = 1..lv
  BY <1>1, <1>2, Zenon
<1>8. Number(v) = IF digits > 0 /\ (digits = lv \/ v[digits + 1] = " ") THEN SubSeq(v, 1, digits) ELSE <<>>
  BY Zenon DEF Number
<1>9. \A i \in 1..la : v[i] \in Digits
  BY <1>1, <1>5, Zenon
<1>10. SubSeq(v, 1, la) = a
  <2> HIDE DEF v
  <2>1. la <= Len(v)
    <3> HIDE DEF la, lb
    <3>1. la <= lv
      BY <1>3, <1>4
    <3> QED BY <3>1 DEF lv
  <2>2. Begins(SubSeq(v, 1, la), v, la)
    BY <1>1, <1>3, <2>1, FirstText
  <2>3. Begins(a, v, la)
    BY <1>1, <1>3, <1>5, <2>1, Zenon DEF Begins
  <2> QED BY <1>1, <2>2, <2>3, SameBeginning
<1> HIDE DEF v, lv
<1>11. CASE b = <<>>
  <2>1. lb = 0
    BY <1>1, <1>2, <1>11, Zenon
  <2>2. lv = la /\ la > 0
    <3> HIDE DEF la, lb
    <3> QED BY <1>3, <1>4, <1>6, <2>1
  <2>3. others = {}
    BY <1>7, <1>9, <2>2, Zenon
  <2>4. digits = la
    BY <2>2, <2>3, Zenon
  <2> HIDE DEF others, digits, la
  <2>5. Number(v) = a
    BY <1>8, <1>10, <2>2, <2>4, Zenon
  <2> QED BY <1>11, <2>5, Zenon DEF v
<1>12. CASE b # <<>>
  <2>1. lb # 0 /\ b[1] \notin Digits
    BY <1>1, <1>2, <1>12, Zenon
  <2> DEFINE m == la + 1
  <2> HIDE DEF la, lb
  <2>2. lb \in Nat /\ lb # 0
    BY <1>3, <2>1
  <2>3. /\ 1 \in 1..lb /\ m \in 1..lv /\ m \in Nat /\ m - 1 = la /\ la > 0 /\ la # lv
        /\ \A i \in 1..lv : ~(i \in 1..la) => m <= i
        /\ \A i \in 1..lv : i \in Nat
    BY <1>3, <1>4, <1>6, <2>2
  <2>4. v[m] = b[1]
    BY <1>5, <2>3, Zenon
  <2> HIDE DEF m
  <2>5. m \in others /\ others \subseteq Nat /\ \A i \in others : m <= i
    BY <1>7, <1>9, <2>1, <2>3, <2>4, Zenon
  <2> HIDE DEF others
  <2>6. Min(others) = m /\ others # {}
    <3>1. Min(others) = m
      BY <2>5, LeastOf
    <3> QED BY <2>5, <3>1, Zenon
  <2>7. digits = la
    BY <2>3, <2>6, Zenon
  <2> HIDE DEF digits
  <2>8. Number(v) = IF v[m] = " " THEN a ELSE <<>>
    BY <1>8, <1>10, <2>3, <2>7, Zenon DEF m
  <2> QED BY <1>12, <2>4, <2>8, Zenon DEF v
<1> QED BY <1>11, <1>12

\* The accessors answer for the field and the flag that is asked for
\* (maps_parser.cc:337-375), whatever names, values and flags there are.
THEOREM AccessorsCorrect == Spec => []AccessorsExact
<1>1. LInv => AccessorsExact
  <2> SUFFICES ASSUME TypeOK PROVE AccessorsExact
    BY Zenon DEF LInv
  <2> DEFINE fields == smaps.fields
             value(i) == fields[i].num \o fields[i].unit
             with(k) == {i \in DOMAIN fields : fields[i].key = k /\ value(i) # <<>>}
             first(k) == fields[Min(with(k))]
             hits(k) == {i \in DOMAIN FieldTexts : HasValue(FieldTexts[i], k)}
  <2>1. /\ fields \in Seq(Field)
        /\ \A i \in DOMAIN fields :
             /\ Without(fields[i].key, ":")
             /\ fields[i].unit # <<>> => fields[i].num # <<>> /\ fields[i].unit[1] \notin Digits
    BY ListFacts, Zenon
  <2>2. DOMAIN fields \subseteq Nat /\ \A i \in DOMAIN fields : fields[i] \in Field
    <3> HIDE DEF fields
    <3>1. fields \in Seq(Field)
      BY <2>1
    <3> QED BY <3>1
  <2>3. DOMAIN FieldTexts = DOMAIN fields /\ \A i \in DOMAIN fields : FieldTexts[i] = FieldText(fields[i])
    BY Zenon DEF FieldTexts
  <2> HIDE DEF fields
  <2>4. ASSUME NEW k \in Keys
        PROVE  IF with(k) = {} THEN get_field_string(k) = <<>> /\ get_field(k) = <<>>
               ELSE /\ get_field_string(k) = first(k).num \o first(k).unit
                    /\ get_field(k) = IF first(k).unit = <<>> \/ first(k).unit[1] = " "
                                      THEN first(k).num ELSE <<>>
    <3>1. \A i \in DOMAIN fields :
            /\ HasValue(FieldTexts[i], k) <=> fields[i].key = k /\ value(i) # <<>>
            /\ fields[i].key = k /\ value(i) # <<>> =>
                 From(FieldTexts[i], Min(NonBlank(FieldTexts[i], Len(k) + 2)) - 1) = value(i)
      <4> SUFFICES ASSUME NEW i \in DOMAIN fields
                   PROVE  /\ HasValue(FieldTexts[i], k) <=> fields[i].key = k /\ value(i) # <<>>
                          /\ fields[i].key = k /\ value(i) # <<>> =>
                               From(FieldTexts[i], Min(NonBlank(FieldTexts[i], Len(k) + 2)) - 1) = value(i)
        BY Zenon
      <4> DEFINE f == fields[i]
      <4>1. f \in Field /\ Without(f.key, ":") /\ (f.unit # <<>> => f.num # <<>>)
        BY <2>1, <2>2, Zenon
      <4>2. FieldTexts[i] = FieldText(f)
        BY <2>3, Zenon
      <4> HIDE DEF f
      <4>3. /\ HasValue(FieldText(f), k) <=> f.key = k /\ f.num \o f.unit # <<>>
            /\ f.key = k /\ f.num \o f.unit # <<>> =>
                 From(FieldText(f), Min(NonBlank(FieldText(f), Len(k) + 2)) - 1) = f.num \o f.unit
        BY <4>1, FieldHas
      <4> QED BY <4>2, <4>3, Zenon DEF f
    <3>2. hits(k) = with(k)
      BY <2>3, <3>1, Zenon
    <3>3. get_field_string(k) =
            IF hits(k) = {} THEN <<>>
            ELSE From(FieldTexts[Min(hits(k))],
                      Min(NonBlank(FieldTexts[Min(hits(k))], Len(k) + 2)) - 1)
      BY Zenon DEF get_field_string
    <3>4. get_field(k) = Number(get_field_string(k))
      BY Zenon DEF get_field, Number, Digits
    <3>5. CASE with(k) = {}
      <4>1. get_field_string(k) = <<>>
        BY <3>2, <3>3, <3>5, Zenon
      <4>2. get_field(k) = <<>>
        BY <3>4, <4>1, NumberOfNothing, Zenon
      <4> QED BY <3>5, <4>1, <4>2, Zenon
    <3>6. CASE with(k) # {}
      <4> DEFINE m == Min(with(k))
      <4>1. with(k) \subseteq Nat
        BY <2>2, Zenon
      <4>2. m \in with(k)
        <5> HIDE DEF with
        <5> QED BY <3>6, <4>1, LeastIn, Zenon
      <4>3. m \in DOMAIN fields /\ fields[m].key = k /\ value(m) # <<>>
        <5> HIDE DEF m, value
        <5> QED BY <4>2, Zenon
      <4>4. get_field_string(k) = value(m)
        <5>1. From(FieldTexts[m], Min(NonBlank(FieldTexts[m], Len(k) + 2)) - 1) = value(m)
          <6> HIDE DEF m, value
          <6> QED BY <3>1, <4>3, Zenon
        <5> HIDE DEF hits, with, value
        <5> QED BY <3>2, <3>3, <3>6, <5>1, Zenon DEF m
      <4> HIDE DEF m
      <4> DEFINE f == fields[m]
      <4>5. f \in Field /\ (f.unit # <<>> => f.num # <<>> /\ f.unit[1] \notin Digits) /\ f.num \o f.unit # <<>>
        BY <2>1, <2>2, <4>3, Zenon
      <4> HIDE DEF f
      <4>6. Number(f.num \o f.unit) = IF f.unit = <<>> \/ f.unit[1] = " " THEN f.num ELSE <<>>
        BY <4>5, NumberOfValue
      <4>7. get_field(k) = IF f.unit = <<>> \/ f.unit[1] = " " THEN f.num ELSE <<>>
        BY <3>4, <4>4, <4>6, Zenon DEF f
      <4> HIDE DEF with
      <4> QED BY <3>6, <4>4, <4>7, Zenon DEF m, f
    <3> QED BY <3>5, <3>6
  <2>5. \A f \in Flags : has_vm_flag(f) <=> Contains(smaps.flags, f)
    BY FlagsFound
  <2> QED BY <2>4, <2>5, Zenon DEF AccessorsExact, fields
<1> QED BY <1>1, LineInvariance, PTL
=============================================================================
