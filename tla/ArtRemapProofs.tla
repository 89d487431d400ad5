--------------------------- MODULE ArtRemapProofs ---------------------------
(* Proofs about ArtRemap, for any page size, any program headers that are  *)
(* laid out as linkers do it, and any base the linker may choose.          *)
EXTENDS ArtRemap, TLAPS

\* What division leaves over.
LEMMA Division ==
  ASSUME NEW x \in Int, NEW n \in Nat, n > 0
  PROVE  /\ x \div n \in Int /\ x % n \in Int
         /\ x = n * (x \div n) + (x % n) /\ 0 <= x % n /\ x % n < n
OBVIOUS

LEMMA Multiples ==
  ASSUME NEW n \in Nat, n > 0, NEW k \in Int, NEW l \in Int, n * k < n * l + n
  PROVE  k <= l /\ n * k <= n * l
<1>1. ASSUME k >= l + 1 PROVE FALSE
  <2>1. k - l - 1 \in Nat BY <1>1
  <2>2. n * (k - l - 1) >= 0 BY <2>1
  <2>3. n * (k - l - 1) = n * k - n * l - n OBVIOUS
  <2> QED BY <2>2, <2>3
<1>2. k <= l BY <1>1
<1>3. l - k \in Nat BY <1>2
<1>4. n * (l - k) >= 0 BY <1>3
<1>5. n * (l - k) = n * l - n * k OBVIOUS
<1> QED BY <1>2, <1>4, <1>5

LEMMA DownFacts ==
  ASSUME NEW x \in Int, NEW n \in Nat, n > 0
  PROVE  /\ AlignDown(x, n) \in Int /\ AlignDown(x, n) = n * (x \div n)
         /\ AlignDown(x, n) <= x /\ x < AlignDown(x, n) + n
BY Division DEF AlignDown

\* AlignUp gives the first multiple that is not below.
LEMMA UpFacts ==
  ASSUME NEW x \in Int, NEW n \in Nat, n > 0
  PROVE  /\ AlignUp(x, n) \in Int /\ x <= AlignUp(x, n)
         /\ \A k \in Int : x <= n * k => AlignUp(x, n) <= n * k
<1>1. x + n - 1 \in Int OBVIOUS
<1>2. /\ AlignUp(x, n) \in Int /\ AlignUp(x, n) = n * ((x + n - 1) \div n)
      /\ AlignUp(x, n) <= x + n - 1 /\ x + n - 1 < AlignUp(x, n) + n
      /\ (x + n - 1) \div n \in Int
  BY <1>1, DownFacts, Division DEF AlignUp
<1>3. ASSUME NEW k \in Int, x <= n * k PROVE AlignUp(x, n) <= n * k
  <2>1. n * ((x + n - 1) \div n) < n * k + n BY <1>2, <1>3
  <2> QED BY <1>2, <2>1, Multiples
<1> QED BY <1>2, <1>3

LEMMA UpInt ==
  ASSUME NEW x \in Nat, NEW n \in Nat, n > 0
  PROVE  AlignUp(x, n) \in Int
<1> x \in Int OBVIOUS
<1> QED BY UpFacts

\* A multiple of the alignment is one of the page.
LEMMA PageMultiple ==
  ASSUME NEW x \in Int, NEW n \in Nat, NEW p \in Nat, n > 0, p > 0, n % p = 0
  PROVE  \E k \in Int : AlignDown(x, n) = p * k
<1>1. n = p * (n \div p) /\ n \div p \in Int BY Division
<1>2. x \div n \in Int /\ AlignDown(x, n) = n * (x \div n) BY DownFacts, Division
<1>3. AlignDown(x, n) = p * ((n \div p) * (x \div n)) BY <1>1, <1>2
<1>4. (n \div p) * (x \div n) \in Int BY <1>1, <1>2
<1> QED BY <1>3, <1>4

\* Adding a multiple of the alignment commutes with aligning.
LEMMA DownShift ==
  ASSUME NEW b \in Int, NEW x \in Int, NEW n \in Nat, n > 0, b % n = 0
  PROVE  AlignDown(b + x, n) = b + AlignDown(x, n)
<1> DEFINE s == b + x
<1>1. b = n * (b \div n) /\ b \div n \in Int BY Division
<1>2. x = n * (x \div n) + (x % n) /\ x \div n \in Int /\ x % n \in Int /\ 0 <= x % n /\ x % n < n
  BY Division
<1>s. s \in Int OBVIOUS
<1> HIDE DEF s
<1>3. s = n * (s \div n) + (s % n) /\ s \div n \in Int /\ s % n \in Int /\ 0 <= s % n /\ s % n < n
  BY <1>s, Division
<1> DEFINE k == s \div n  l == b \div n + x \div n
<1>4. n * l = n * (b \div n) + n * (x \div n) /\ l \in Int BY <1>1, <1>2
<1>5. s = n * l + (x % n)
  <2>1. n * (x \div n) \in Int /\ n * (b \div n) \in Int BY <1>1, <1>2
  <2>2. s = b + x BY DEF s
  <2> QED BY <1>1, <1>2, <1>4, <2>1, <2>2
<1>6. k \in Int /\ l \in Int /\ n * k \in Int /\ n * l \in Int BY <1>3, <1>4
<1> DEFINE r == s % n  t == x % n
<1>7. /\ s = n * k + r /\ r \in Int /\ 0 <= r /\ r < n
      /\ s = n * l + t /\ t \in Int /\ 0 <= t /\ t < n
  BY <1>2, <1>3, <1>5
<1> HIDE DEF k, l, r, t
<1>8. n * k < n * l + n /\ n * l < n * k + n BY <1>6, <1>7
<1>9. n * k = n * l
  <2>1. n * k <= n * l BY <1>6, <1>8, Multiples
  <2>2. n * l <= n * k BY <1>6, <1>8, Multiples
  <2> QED BY <1>6, <2>1, <2>2
<1>10. r = t BY <1>6, <1>7, <1>9
<1>11. (b + x) - r = b + (x - t) BY <1>7, <1>10
<1> QED BY <1>11 DEF s, r, t, AlignDown

\* What begins at or above zero is not aligned below it.
LEMMA DownNat ==
  ASSUME NEW x \in Nat, NEW n \in Nat, n > 0
  PROVE  AlignDown(x, n) \in Nat
<1>1. x \in Int OBVIOUS
<1>2. x = n * (x \div n) + (x % n) /\ x \div n \in Int /\ x % n < n /\ 0 <= x % n /\ x % n \in Int
  BY <1>1, Division
<1>3. n * 0 < n * (x \div n) + n /\ n * 0 = 0 BY <1>2
<1>4. n * 0 <= n * (x \div n) BY <1>2, <1>3, Multiples
<1>5. AlignDown(x, n) \in Int /\ AlignDown(x, n) = n * (x \div n) BY <1>1, DownFacts
<1> QED BY <1>3, <1>4, <1>5

-----------------------------------------------------------------------------
\* The types of a program header.
LEMMA HeaderFacts ==
  ASSUME RemapAssumption, phdrs \in Layouts, NEW i \in DOMAIN phdrs
  PROVE  LET s == phdrs[i] IN
         /\ i \in Nat /\ s.p_vaddr \in Nat /\ s.p_memsz \in Nat /\ s.p_memsz > 0
         /\ s.p_align \in Nat /\ s.p_align > 0 /\ s.p_offset \in Nat
         /\ s.p_align % Page = 0 /\ s.p_vaddr % s.p_align = s.p_offset % s.p_align
<1>1. phdrs \in Seq(Headers) /\ WellLaidOut(phdrs) /\ Limit \in Nat BY DEF RemapAssumption
<1>2. phdrs[i] \in Headers /\ i \in Nat BY <1>1
<1>3. /\ phdrs[i].p_align % Page = 0
      /\ phdrs[i].p_vaddr % phdrs[i].p_align = phdrs[i].p_offset % phdrs[i].p_align
  BY <1>1 DEF WellLaidOut
<1> QED BY <1>1, <1>2, <1>3 DEF Headers

\* A segment's last byte is below the aligned address of every later one.
LEMMA InOrder ==
  ASSUME RemapAssumption, phdrs \in Layouts,
         NEW i \in DOMAIN phdrs, NEW j \in DOMAIN phdrs, i < j
  PROVE  phdrs[i].p_vaddr + phdrs[i].p_memsz <= AlignDown(phdrs[j].p_vaddr, phdrs[j].p_align)
<1> DEFINE e == phdrs[i].p_vaddr + phdrs[i].p_memsz
           v == phdrs[j].p_vaddr
           a == phdrs[j].p_align
<1>0. WellLaidOut(phdrs) BY DEF RemapAssumption
<1>2. e \in Int /\ v \in Nat /\ a \in Nat /\ a > 0 /\ i \in Nat /\ j \in Nat BY HeaderFacts
<1>1. v \div a > (e - 1) \div a
  <2>1. i < j => phdrs[j].p_vaddr \div phdrs[j].p_align
                   > (phdrs[i].p_vaddr + phdrs[i].p_memsz - 1) \div phdrs[j].p_align
    BY <1>0 DEF WellLaidOut
  <2>2. phdrs[i].p_vaddr + phdrs[i].p_memsz - 1 = e - 1 BY HeaderFacts
  <2> QED BY <2>1, <2>2
<1> HIDE DEF e, v, a
<1>3. v \div a \in Int /\ (e - 1) \div a \in Int BY <1>2, Division
<1>4. e - 1 \in Int BY <1>2
<1>a. e - 1 < AlignDown(e - 1, a) + a /\ AlignDown(e - 1, a) = a * ((e - 1) \div a)
  BY <1>2, <1>4, DownFacts
<1>b. AlignDown(v, a) = a * (v \div a) BY <1>2, DownFacts
<1>5. (e - 1) \div a + 1 \in Int /\ (e - 1) \div a + 1 <= v \div a BY <1>1, <1>3
<1>6. v \div a - ((e - 1) \div a + 1) \in Nat BY <1>3, <1>5
<1>7. a * (v \div a - ((e - 1) \div a + 1)) >= 0 BY <1>2, <1>6
<1>8. a * (v \div a - ((e - 1) \div a + 1)) = a * (v \div a) - a * ((e - 1) \div a) - a
  BY <1>2, <1>3
<1>9. a * (v \div a) \in Int /\ a * ((e - 1) \div a) \in Int BY <1>2, <1>3
<1>10. e <= AlignDown(v, a) BY <1>2, <1>a, <1>b, <1>7, <1>8, <1>9
<1> QED BY <1>10 DEF e, v, a

\* A mapping of whole pages ends where the next aligned segment may begin.
LEMMA Reach ==
  ASSUME NEW p \in Nat, p > 0, NEW v \in Nat, NEW m \in Nat, NEW a \in Nat, a > 0, a % p = 0,
         NEW w \in Nat, NEW b \in Nat, b > 0, b % p = 0, v + m <= AlignDown(w, b)
  PROVE  AlignDown(v, a) + AlignUp(m, p) <= AlignDown(w, b)
<1>0. v \in Int /\ m \in Int /\ w \in Int OBVIOUS
<1>1. AlignDown(v, a) \in Int /\ AlignDown(v, a) <= v BY <1>0, DownFacts
<1>w. AlignDown(w, b) \in Int BY <1>0, DownFacts
<1>2. PICK k \in Int : AlignDown(v, a) = p * k BY <1>0, PageMultiple
<1>3. PICK l \in Int : AlignDown(w, b) = p * l BY <1>0, PageMultiple
<1>4. l - k \in Int /\ p * (l - k) = p * l - p * k OBVIOUS
<1>5. p * l \in Int /\ p * k \in Int OBVIOUS
<1>6. m <= p * (l - k) BY <1>1, <1>2, <1>3, <1>4, <1>5
<1>7. AlignUp(m, p) \in Int /\ AlignUp(m, p) <= p * (l - k) BY <1>0, <1>4, <1>6, UpFacts
<1> QED BY <1>2, <1>3, <1>4, <1>5, <1>7

\* The range of the mapping that replaces the segment at phdr, and where it
\* would begin at a base of zero.
Place(u) == dli_fbase + u - segment_addr
InRange(u) == 0 <= Place(u) /\ Place(u) < segment_size
Start == AlignDown(this.p_vaddr, this.p_align)

LEMMA BaseFacts ==
  ASSUME RemapAssumption, phdrs \in Layouts, dli_fbase \in Bases, phdr \in DOMAIN phdrs
  PROVE  /\ Page \in Nat /\ Page > 0 /\ dli_fbase \in Nat
         /\ Start \in Nat /\ segment_addr \in Int /\ segment_size \in Int
         /\ this.p_memsz <= segment_size
<1>1. Page \in Nat /\ Page > 0 /\ dli_fbase \in Nat BY DEF RemapAssumption
<1>2. this.p_vaddr \in Nat /\ this.p_memsz \in Nat /\ this.p_align \in Nat /\ this.p_align > 0
  BY HeaderFacts DEF this
<1>3. Start \in Nat BY <1>2, DownNat DEF Start
<1>4. segment_addr \in Int
  <2>1. dli_fbase + this.p_vaddr \in Int BY <1>1, <1>2
  <2> QED BY <1>2, <2>1, DownFacts DEF segment_addr
<1>5. segment_size \in Int /\ this.p_memsz <= segment_size
  <2>1. this.p_memsz \in Int BY <1>2
  <2> QED BY <1>1, <2>1, UpFacts DEF segment_size
<1> QED BY <1>1, <1>3, <1>4, <1>5

\* With a base that fits, the mapping begins where its segment would.
LEMMA Fitting ==
  ASSUME RemapAssumption, phdrs \in Layouts, dli_fbase \in Bases, phdr \in DOMAIN phdrs,
         Fits(this)
  PROVE  segment_addr = dli_fbase + Start
<1>1. dli_fbase \in Int BY DEF RemapAssumption
<1>2. this.p_vaddr \in Int /\ this.p_align \in Nat /\ this.p_align > 0 BY HeaderFacts DEF this
<1>3. dli_fbase % this.p_align = 0 BY DEF Fits
<1> QED BY <1>1, <1>2, <1>3, DownShift DEF segment_addr, Start

\* The range covers no byte of another segment and none in front.
LEMMA Apart ==
  ASSUME RemapAssumption, phdrs \in Layouts, dli_fbase \in Bases, phdr \in DOMAIN phdrs,
         Fits(this), NEW u \in Int, InRange(u)
  PROVE  u >= 0 /\ \A j \in DOMAIN phdrs : j # phdr => ~In(phdrs[j], u)
<1>1. /\ Page \in Nat /\ Page > 0 /\ dli_fbase \in Nat /\ Start \in Nat
      /\ segment_addr = dli_fbase + Start /\ segment_size \in Int
  BY BaseFacts, Fitting
<1>2. Start <= u /\ u < Start + segment_size BY <1>1 DEF InRange, Place
<1> SUFFICES ASSUME NEW j \in DOMAIN phdrs, j # phdr PROVE ~In(phdrs[j], u)
  BY <1>1, <1>2
<1> DEFINE v == phdrs[phdr].p_vaddr  m == phdrs[phdr].p_memsz  a == phdrs[phdr].p_align
           w == phdrs[j].p_vaddr     n == phdrs[j].p_memsz     b == phdrs[j].p_align
<1>3. /\ v \in Nat /\ m \in Nat /\ a \in Nat /\ a > 0 /\ a % Page = 0 /\ phdr \in Nat
      /\ w \in Nat /\ n \in Nat /\ b \in Nat /\ b > 0 /\ b % Page = 0 /\ j \in Nat
  BY HeaderFacts
<1>4. AlignDown(v, a) <= u /\ u < AlignDown(v, a) + AlignUp(m, Page)
  BY <1>2 DEF Start, segment_size, this
<1>5. SUFFICES ~(w <= u /\ u < w + n) BY DEF In
<1>6. j < phdr => w + n <= AlignDown(v, a) BY InOrder
<1>7. phdr < j => v + m <= AlignDown(w, b) BY InOrder
<1> HIDE DEF v, m, a, w, n, b
<1>i. v \in Int /\ w \in Int BY <1>3
<1>8. AlignDown(v, a) \in Int BY <1>3, <1>i, DownFacts
<1>9. AlignDown(w, b) \in Int /\ AlignDown(w, b) <= w BY <1>3, <1>i, DownFacts
<1>10. AlignUp(m, Page) \in Int BY <1>1, <1>3, UpInt
<1>11. CASE j < phdr BY <1>3, <1>4, <1>6, <1>8, <1>11
<1>12. CASE phdr < j
  <2>1. AlignDown(v, a) + AlignUp(m, Page) <= AlignDown(w, b) BY <1>1, <1>3, <1>7, <1>12, Reach
  <2> QED BY <1>3, <1>4, <1>8, <1>9, <1>10, <2>1
<1> QED BY <1>3, <1>11, <1>12

\* Within its own segment a mapping that fits the base brings the bytes of the
\* file.
LEMMA OwnBytes ==
  ASSUME RemapAssumption, phdrs \in Layouts, dli_fbase \in Bases, phdr \in DOMAIN phdrs,
         Fits(this), NEW u \in Int
  PROVE  segment_offset + Place(u) = this.p_offset + u - this.p_vaddr
<1>1. /\ this.p_vaddr \in Nat /\ this.p_align \in Nat /\ this.p_align > 0 /\ this.p_offset \in Nat
      /\ this.p_vaddr % this.p_align = this.p_offset % this.p_align
  BY HeaderFacts DEF this
<1>2. this.p_vaddr % this.p_align \in Int BY <1>1, Division
<1>3. segment_addr = dli_fbase + Start /\ dli_fbase \in Nat BY Fitting, BaseFacts
<1>4. Start = this.p_vaddr - (this.p_vaddr % this.p_align) BY DEF Start, AlignDown
<1>5. segment_offset = this.p_offset - (this.p_vaddr % this.p_align)
  BY <1>1 DEF segment_offset, AlignDown
<1> QED BY <1>1, <1>2, <1>3, <1>4, <1>5 DEF Place

\* A segment at a multiple of its alignment is covered.
LEMMA Covered ==
  ASSUME RemapAssumption, phdrs \in Layouts, dli_fbase \in Bases, phdr \in DOMAIN phdrs,
         (dli_fbase + this.p_vaddr) % this.p_align = 0, NEW u \in Int, In(this, u)
  PROVE  InRange(u)
<1>1. /\ dli_fbase \in Nat /\ segment_size \in Int /\ this.p_memsz <= segment_size
      /\ this.p_vaddr \in Nat /\ this.p_memsz \in Nat
  BY BaseFacts, HeaderFacts DEF this
<1>2. segment_addr = dli_fbase + this.p_vaddr BY <1>1 DEF segment_addr, AlignDown
<1>3. Place(u) = u - this.p_vaddr BY <1>1, <1>2 DEF Place
<1>4. this.p_vaddr <= u /\ u < this.p_vaddr + this.p_memsz BY DEF In
<1> QED BY <1>1, <1>3, <1>4 DEF InRange

-----------------------------------------------------------------------------
\* The descriptor and the mapping are as the place in the code says.
PlaceInv == /\ fd <=> pc \in {"mmap", "loop"}
            /\ elf <=> pc = "loop"

RemapInv == TypeOK /\ PlaceInv /\ SegmentsKept /\ AlignedRestored

LEMMA RemapInit ==
  ASSUME RemapAssumption, Init
  PROVE  RemapInv
<1>1. Limit \in Nat /\ phdrs \in Seq(Headers) BY DEF RemapAssumption, Init
<1>2. PICK hooks \in SUBSET Code : memory = MemoryWith(hooks) BY DEF Init
<1>3. memory \in [Units -> {"file", "hook", "data", "new", "wrong"}] BY <1>2 DEF MemoryWith
<1>4. \A u \in Units : /\ memory[u] # "wrong"
                       /\ u \in Within("W") \/ u < 0 => memory[u] = "data"
  BY <1>2 DEF MemoryWith
<1>5. Within("W") \subseteq Units /\ Within("X") \subseteq Units /\ Within("R") \subseteq Units
  BY DEF Within
<1>6. Len(phdrs) \in Nat BY <1>1
<1>7. TypeOK
  <2>1. phdr \in 1..(Len(phdrs) + 1) BY <1>6 DEF Init
  <2> QED BY <1>3, <2>1 DEF Init, TypeOK
<1>8. SegmentsKept BY <1>4, <1>5 DEF SegmentsKept, Init
<1> QED BY <1>7, <1>8 DEF Init, RemapInv, PlaceInv, AlignedRestored

\* A segment is mapped again.
LEMMA MapKeeps ==
  ASSUME RemapAssumption, RemapInv, MapSegment
  PROVE  SegmentsKept' /\ AlignedRestored'
<1> USE DEF RemapInv
<1>1. /\ phdrs' = phdrs /\ phdrs \in Layouts /\ phdr \in DOMAIN phdrs /\ Selected(this)
      /\ dli_fbase' = dli_fbase /\ dli_fbase \in Bases
      /\ remapped' = remapped \cup {phdr} /\ written' = written
  <2>1. phdrs \in Seq(Headers) /\ phdr \in 1..(Len(phdrs) + 1) /\ phdr <= Len(phdrs)
    BY DEF MapSegment, TypeOK, RemapAssumption
  <2>2. phdr \in DOMAIN phdrs BY <2>1
  <2> QED BY <2>2 DEF MapSegment, TypeOK, library
<1>2. Units \subseteq Int BY DEF RemapAssumption, Units
<1>3. \A u \in Units : ~InRange(u) => memory'[u] = memory[u] /\ (u \in late' <=> u \in late)
  BY DEF MapSegment, InRange, Place
<1>4. \A u \in Units : InRange(u) =>
        memory'[u] = IF OffsetOf(u) \subseteq {segment_offset + Place(u)}
                     THEN "file" ELSE "wrong"
  BY DEF MapSegment, InRange, Place
<1>5. \A f : Within(f)' = Within(f) BY <1>1 DEF Within
<1>6. SegmentsKept'
  <2> SUFFICES ASSUME \A i \in remapped' : Fits(phdrs[i])' PROVE SegmentsKept'
    BY DEF SegmentsKept
  <2>1. (\A i \in remapped : Fits(phdrs[i])) /\ Fits(this) BY <1>1 DEF Fits, this
  <2>2. /\ \A u \in Within("W") : memory[u] = IF u \in written THEN "new" ELSE "data"
        /\ \A u \in Units : u < 0 => memory[u] = "data"
        /\ \A u \in Within("X") \cup Within("R") : memory[u] # "wrong"
    BY <2>1 DEF SegmentsKept
  <2>3. \A u \in Units : InRange(u) =>
          u >= 0 /\ \A j \in DOMAIN phdrs : In(phdrs[j], u) => j = phdr
    BY <1>1, <1>2, <2>1, Apart
\* Nothing writable is touched ...
  <2>4. \A u \in Within("W") : u \in Units /\ ~InRange(u)
    BY <1>1, <2>3 DEF Within, Selected, this
\* ... nor what is in front, and in a segment the range brings its own bytes.
  <2>5. \A u \in Units : u < 0 => ~InRange(u) BY <1>2, <2>3
  <2>6. \A u \in Units : InRange(u) => OffsetOf(u) \subseteq {segment_offset + Place(u)}
    <3> SUFFICES ASSUME NEW u \in Units, InRange(u), NEW o \in OffsetOf(u)
                 PROVE  o = segment_offset + Place(u)
      OBVIOUS
    <3>1. o = this.p_offset + u - this.p_vaddr BY <2>3 DEF OffsetOf, this
    <3> QED BY <1>1, <1>2, <2>1, <3>1, OwnBytes
  <2>7. \A u \in Within("W") : memory'[u] = IF u \in written THEN "new" ELSE "data"
    BY <1>3, <2>2, <2>4
  <2>8. \A u \in Units : u < 0 => memory'[u] = "data" BY <1>3, <2>2, <2>5
  <2>9. \A u \in Units : memory'[u] = "file" \/ memory'[u] = memory[u]
    BY <1>3, <1>4, <2>6
  <2>10. \A u \in Within("X") \cup Within("R") : memory'[u] # "wrong"
    BY <2>2, <2>9 DEF Within
  <2> QED BY <1>1, <1>5, <2>7, <2>8, <2>10 DEF SegmentsKept
<1>7. AlignedRestored'
  <2> SUFFICES ASSUME NEW i \in remapped', (dli_fbase + phdrs[i].p_vaddr) % phdrs[i].p_align = 0,
                      NEW u \in Units, In(phdrs[i], u), memory'[u] = "hook"
               PROVE  u \in late'
    BY <1>1 DEF AlignedRestored
  <2>1. memory[u] = "hook" /\ ~InRange(u) BY <1>3, <1>4
  <2>2. i # phdr BY <1>1, <1>2, <2>1, Covered DEF this
  <2>3. u \in late BY <1>1, <2>1, <2>2 DEF AlignedRestored
  <2> QED BY <1>3, <2>1, <2>3
<1> QED BY <1>6, <1>7

\* Another thread patches or writes the library.
LEMMA OthersKeep ==
  ASSUME RemapAssumption, RemapInv, NEW u \in Units, Patch(u) \/ Write(u)
  PROVE  RemapInv'
<1> USE DEF RemapInv
<1>1. UNCHANGED <<phdrs, dli_fbase, pc, phdr, fd, elf, is_art_restored_, remapped>>
  BY DEF Patch, Write, library
<1>2. \A f : Within(f)' = Within(f) BY <1>1 DEF Within
<1>3. /\ Within("X") \subseteq Units /\ Within("R") \subseteq Units /\ Within("W") \subseteq Units
      /\ \A w \in Units : w \in Int
      /\ \A w \in Within("X") \cup Within("W") : ~(w < 0)
  <2>1. Limit \in Nat /\ phdrs \in Layouts BY DEF RemapAssumption, TypeOK
  <2>2. \A w \in Units : w \in Int BY <2>1 DEF Units
  <2>3. \A i \in DOMAIN phdrs : phdrs[i].p_vaddr \in Nat BY <2>1, HeaderFacts
  <2>4. \A w \in Units, i \in DOMAIN phdrs : In(phdrs[i], w) => ~(w < 0) BY <2>2, <2>3 DEF In
  <2> QED BY <2>2, <2>4 DEF Within
<1>4. PlaceInv' BY <1>1 DEF PlaceInv
<1>5. CASE Patch(u)
  <2>1. /\ u \in Code /\ memory' = [memory EXCEPT ![u] = "hook"] /\ late' = late \cup {u}
        /\ written' = written
    BY <1>5 DEF Patch
  <2>2. TypeOK' BY <1>1, <2>1 DEF TypeOK
  <2>3. u \notin Within("W") /\ u \in Within("X") BY <2>1 DEF Code
  <2>4. \A w \in Units : memory'[w] = IF w = u THEN "hook" ELSE memory[w] BY <2>1 DEF TypeOK
  <2>5. SegmentsKept' BY <1>1, <1>2, <1>3, <2>1, <2>3, <2>4 DEF SegmentsKept, Fits
  <2>6. AlignedRestored' BY <1>1, <2>1, <2>4 DEF AlignedRestored
  <2> QED BY <1>4, <2>2, <2>5, <2>6
<1>6. CASE Write(u)
  <2>1. /\ u \in Within("W") /\ memory' = [memory EXCEPT ![u] = "new"] /\ late' = late
        /\ written' = written \cup {u}
    BY <1>6 DEF Write
  <2>2. TypeOK' BY <1>1, <2>1 DEF TypeOK
  <2>4. \A w \in Units : memory'[w] = IF w = u THEN "new" ELSE memory[w] BY <2>1 DEF TypeOK
  <2>5. SegmentsKept' BY <1>1, <1>2, <1>3, <2>1, <2>4 DEF SegmentsKept, Fits
  <2>6. AlignedRestored' BY <1>1, <2>1, <2>4 DEF AlignedRestored
  <2> QED BY <1>4, <2>2, <2>5, <2>6
<1> QED BY <1>5, <1>6

LEMMA RemapNext ==
  ASSUME RemapAssumption, RemapInv, [Next]_vars
  PROVE  RemapInv'
<1> USE DEF RemapInv, library, history
<1>0. phdrs \in Seq(Headers) /\ Len(phdrs) \in Nat BY DEF RemapAssumption, TypeOK
<1>1. ASSUME UNCHANGED <<library, memory, history>> PROVE SegmentsKept' /\ AlignedRestored'
  BY <1>1 DEF SegmentsKept, AlignedRestored, Within, Fits
<1>2. ASSUME NEW u \in Units, Patch(u) \/ Write(u) PROVE RemapInv' BY <1>2, OthersKeep
<1>3. CASE Open
  <2>1. TypeOK' BY <1>3 DEF Open, TypeOK, PlaceInv
  <2>2. PlaceInv' BY <1>3 DEF Open, PlaceInv
  <2> QED BY <1>1, <1>3, <2>1, <2>2 DEF Open
<1>4. CASE MapFile
  <2>1. fd = TRUE /\ pc = "mmap" BY <1>4 DEF MapFile, TypeOK, PlaceInv
  <2>2. \/ pc' = "loop" /\ elf' = TRUE /\ fd' = TRUE
        \/ pc' = "done" /\ fd' = FALSE /\ elf' = FALSE
    BY <1>4, <2>1 DEF MapFile, TypeOK, PlaceInv
  <2>3. UNCHANGED <<library, memory, phdr, is_art_restored_, history>> BY <1>4 DEF MapFile
  <2>4. TypeOK' BY <2>2, <2>3 DEF TypeOK
  <2>5. PlaceInv' BY <2>2 DEF PlaceInv
  <2> QED BY <1>1, <2>3, <2>4, <2>5
<1>5. CASE SkipSegment
  BY <1>0, <1>1, <1>5 DEF SkipSegment, TypeOK, PlaceInv
<1>6. CASE MapSegment
  <2>1. phdrs' = phdrs /\ phdr' \in 1..(Len(phdrs) + 1) /\ remapped' \subseteq DOMAIN phdrs
    BY <1>0, <1>6 DEF MapSegment, TypeOK
  <2>2. memory' \in [Units -> {"file", "hook", "data", "new", "wrong"}] /\ late' \subseteq Units
    BY <1>6 DEF MapSegment, TypeOK
  <2>3. TypeOK' BY <1>6, <2>1, <2>2 DEF MapSegment, TypeOK
  <2> QED BY <1>6, <2>3, MapKeeps DEF MapSegment, PlaceInv
<1>7. CASE MapFails BY <1>0, <1>1, <1>7 DEF MapFails, TypeOK, PlaceInv
<1>8. CASE Finish BY <1>1, <1>8 DEF Finish, TypeOK, PlaceInv
<1>9. CASE UNCHANGED vars BY <1>1, <1>9 DEF vars, TypeOK, PlaceInv
<1> QED BY <1>2, <1>3, <1>4, <1>5, <1>6, <1>7, <1>8, <1>9 DEF Next, Remap

THEOREM RemapInvariance == ASSUME RemapAssumption PROVE Spec => []RemapInv
<1>1. Init => RemapInv BY RemapInit
<1>2. RemapInv /\ [Next]_vars => RemapInv' BY RemapNext
<1> QED BY <1>1, <1>2, PTL DEF Spec

\* Whatever the size of pages, the alignments, the base, and what other threads
\* patch and write meanwhile: as long as the mappings made fit the base, no
\* value of a variable and nothing in front of the library is lost, and no byte
\* of another place of the file comes into a segment (main.cc:602-613).
THEOREM SegmentsCorrect == ASSUME RemapAssumption PROVE Spec => []SegmentsKept
<1>1. RemapInv => SegmentsKept BY DEF RemapInv
<1> QED BY <1>1, RemapInvariance, PTL

\* At any base, a segment that lies at a multiple of its alignment in memory has
\* lost every earlier patch once it is mapped again (main.cc:602-615).
THEOREM AlignedCorrect == ASSUME RemapAssumption PROVE Spec => []AlignedRestored
<1>1. RemapInv => AlignedRestored BY DEF RemapInv
<1> QED BY <1>1, RemapInvariance, PTL

\* Every way out closes the file and unmaps it (main.cc:585-592, :618-619).
THEOREM ReturnCorrect == ASSUME RemapAssumption PROVE Spec => []ReturnsClean
<1>1. RemapInv => ReturnsClean BY DEF RemapInv, PlaceInv, ReturnsClean
<1> QED BY <1>1, RemapInvariance, PTL
=============================================================================
