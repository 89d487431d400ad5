--------------------------- MODULE MapsParserProofs ---------------------------
(***************************************************************************)
(* Proofs about MapsParser for any memory and any number of changes.       *)
(***************************************************************************)
EXTENDS MapsParser, TLAPS, WellFoundedInduction

\* A non-empty set of numbers has a least one (the choice of FirstOf).
LEMMA LeastNat ==
  ASSUME NEW T, T \subseteq Nat, T # {}
  PROVE  \E x \in T : \A y \in T : x <= y
<1>1. \E x \in T : \A y \in T : ~(<<y, x>> \in OpToRel(<, Nat))
  BY WFMin, NatLessThanWellFounded, Zenon
<1>2. PICK x \in T : \A y \in T : ~(<<y, x>> \in OpToRel(<, Nat))
  BY <1>1
<1>3. \A a, b \in Nat : a < b => <<a, b>> \in OpToRel(<, Nat)
  BY Zenon DEF OpToRel
<1>4. \A y \in T : ~(y < x)
  BY <1>2, <1>3, Zenon
<1> QED BY <1>4

\* What FirstOf returns: a member, and none starts before it.
LEMMA FirstIsLeast ==
  ASSUME NEW vs, vs \subseteq Vmas, vs # {}
  PROVE  FirstOf(vs) \in vs /\ \A w \in vs : FirstOf(vs).start <= w.start
<1> DEFINE T == {v.start : v \in vs}
<1>1. T \subseteq Nat /\ T # {}
  BY DEF Vmas, Pages
<1>2. PICK x \in T : \A y \in T : x <= y
  BY <1>1, LeastNat, Zenon
<1>3. \E v \in vs : \A w \in vs : v.start <= w.start
  BY <1>2
<1> QED BY <1>3, Zenon DEF FirstOf

\* Of two mappings, the one that starts first ends before the other starts.
LEMMA RunsApart ==
  ASSUME MapsAssumption, NEW v \in Mapped, NEW w \in Mapped, v.start < w.start
  PROVE  v.end <= w.start
<1>1. /\ v \in Vmas /\ w \in Vmas
      /\ v.start \in Nat /\ v.start >= 1 /\ w.start \in Nat
      /\ v.end \in Nat /\ w.end \in Nat
  BY MapsAssumption DEF Mapped, Vmas, Pages
<1>2. SUFFICES ASSUME w.start < v.end PROVE FALSE
  BY <1>1
<1>3. w.start \in v.start..(v.end - 1) /\ w.start - 1 \in v.start..(v.end - 1)
  BY <1>1, <1>2
<1>4. mem[w.start] = v.kind /\ mem[w.start - 1] = v.kind
  BY <1>3 DEF Mapped, IsRun
<1>5. w.start \in w.start..(w.end - 1)
  BY <1>1 DEF Mapped, IsRun
<1>6. mem[w.start] = w.kind
  BY <1>5 DEF Mapped, IsRun
<1>7. mem[w.start - 1] # w.kind
  BY <1>1 DEF Mapped, IsRun
<1> QED BY <1>4, <1>6, <1>7

\* A mapping does not end before another that starts where it does.
LEMMA NoShorterRun ==
  ASSUME MapsAssumption, NEW v \in Mapped, NEW w \in Mapped, v.start = w.start
  PROVE  v.kind = w.kind /\ v.end >= w.end
<1>1. /\ v \in Vmas /\ w \in Vmas
      /\ v.start \in Nat /\ w.start \in Nat /\ v.end \in Nat
      /\ w.end \in Nat /\ w.end <= Top + 1 /\ Top \in Nat
  BY MapsAssumption DEF MapsAssumption, Mapped, Vmas, Pages
<1>2. v.start < v.end /\ w.start < w.end
  BY DEF Mapped, IsRun
<1>3. v.start \in v.start..(v.end - 1) /\ v.start \in w.start..(w.end - 1)
  BY <1>1, <1>2
<1>4. v.kind = w.kind
  BY <1>3 DEF Mapped, IsRun
<1>5. SUFFICES ASSUME v.end < w.end PROVE FALSE
  BY <1>1, <1>4
<1>6. v.end \in w.start..(w.end - 1) /\ v.end <= Top
  BY <1>1, <1>2, <1>5
<1>7. mem[v.end] = w.kind /\ mem[v.end] # v.kind
  BY <1>6 DEF Mapped, IsRun
<1> QED BY <1>4, <1>7

\* A mapping is known by its start.
LEMMA RunsEqual ==
  ASSUME MapsAssumption, NEW v \in Mapped, NEW w \in Mapped, v.start = w.start
  PROVE  v = w
<1>1. v \in Vmas /\ w \in Vmas
  BY DEF Mapped
<1>2. v.kind = w.kind /\ v.end >= w.end /\ w.end >= v.end
  BY NoShorterRun
<1>3. v.end = w.end
  BY <1>1, <1>2, MapsAssumption DEF Vmas, MapsAssumption
<1> QED BY <1>1, <1>2, <1>3 DEF Vmas

\* The reference table lies in a mapping of its kind.
LEMMA TableKind ==
  ASSUME MapsAssumption, mem[RefTable] = "table", NEW v \in Table
  PROVE  /\ v \in Mapped /\ v \in Vmas /\ v.kind = "table"
         /\ v.start \in Nat /\ v.end \in Nat
         /\ 1 <= v.start /\ v.start < v.end
<1>1. /\ v \in Mapped /\ v \in Vmas /\ v.start <= RefTable /\ RefTable < v.end
      /\ RefTable \in Nat
      /\ v.start \in Nat /\ v.end \in Nat /\ v.start >= 1
  BY MapsAssumption DEF MapsAssumption, Pages, Table, Mapped, Vmas
<1>2. RefTable \in v.start..(v.end - 1)
  BY <1>1
<1>3. v.kind = "table"
  BY <1>1, <1>2 DEF Mapped, IsRun
<1> QED BY <1>1, <1>3

\* There is such a mapping: from the first page of the run of "table" pages
\* around RefTable to the first page behind it of another kind.
LEMMA TableExists ==
  ASSUME MapsAssumption, mem[RefTable] = "table"
  PROVE  Table # {}
<1> DEFINE S == {s \in Pages : s <= RefTable
                               /\ \A p \in s..RefTable : mem[p] = "table"}
           E == {e \in Nat : /\ RefTable < e /\ e <= Top + 1
                             /\ e = Top + 1 \/ mem[e] # "table"}
<1>1. Top \in Nat /\ RefTable \in Nat /\ 1 <= RefTable /\ RefTable <= Top
  BY MapsAssumption DEF MapsAssumption, Pages
<1>2. RefTable \in S /\ S \subseteq Nat
  <2>1. RefTable..RefTable = {RefTable}
    BY <1>1
  <2> QED BY <1>1, <2>1, MapsAssumption DEF MapsAssumption, Pages
<1>3. Top + 1 \in E /\ E \subseteq Nat
  BY <1>1
<1>4. PICK s \in S : \A y \in S : s <= y
  BY <1>2, LeastNat, Zenon
<1>5. PICK e \in E : \A y \in E : e <= y
  BY <1>3, LeastNat, Zenon
<1>6. /\ s \in Nat /\ 1 <= s /\ s <= RefTable /\ s \in Pages
      /\ e \in Nat /\ RefTable < e /\ e <= Top + 1
      /\ e = Top + 1 \/ mem[e] # "table"
  BY <1>1, <1>4, <1>5 DEF Pages
<1> DEFINE v == [start |-> s, end |-> e, kind |-> "table"]
<1>7. v \in Vmas
  BY <1>1, <1>6 DEF Vmas, Kinds
<1>8. \A p \in s..(e - 1) : mem[p] = "table"
  <2> SUFFICES ASSUME NEW p \in s..(e - 1) PROVE mem[p] = "table"
    OBVIOUS
  <2>1. CASE p <= RefTable
    <3>1. p \in s..RefTable
      BY <2>1, <1>1, <1>6
    <3> QED BY <3>1, <1>4
  <2>2. CASE RefTable < p
    <3>1. p \in Nat /\ p <= Top /\ p < e
      BY <1>1, <1>6
    <3>2. p \notin E
      BY <1>5, <3>1
    <3> QED BY <3>1, <3>2, <2>2, <1>1
  <2> QED BY <2>1, <2>2, <1>1, <1>6
<1>9. s > 1 => mem[s - 1] # "table"
  <2> SUFFICES ASSUME s > 1, mem[s - 1] = "table" PROVE FALSE
    OBVIOUS
  <2>1. s - 1 \in Pages /\ s - 1 <= RefTable
    BY <1>1, <1>6 DEF Pages
  <2>2. \A p \in (s - 1)..RefTable : p = s - 1 \/ p \in s..RefTable
    BY <1>6
  <2>3. \A p \in (s - 1)..RefTable : mem[p] = "table"
    BY <2>2, <1>4
  <2>4. s - 1 \in S
    BY <2>1, <2>3
  <2> QED BY <2>4, <1>4, <1>6
<1>10. v \in Mapped
  BY <1>1, <1>6, <1>7, <1>8, <1>9 DEF Mapped, IsRun
<1>11. v \in Table
  BY <1>6, <1>10 DEF Table
<1> QED BY <1>11

\* What is mapped depends on the memory alone.
LEMMA SameMemory ==
  ASSUME mem' = mem
  PROVE  Mapped' = Mapped /\ Table' = Table
BY DEF Mapped, Table, IsRun

\* Facts about the mappings of the parser's sets.
LEMMA MappedTypes ==
  ASSUME MapsAssumption, NEW v \in Vmas
  PROVE  /\ v.start \in Pages /\ v.start \in Nat /\ 1 <= v.start
         /\ v.end \in 2..(Top + 1) /\ v.end \in Nat /\ v.end \in 0..(Top + 1)
BY DEF MapsAssumption, Vmas, Pages

-----------------------------------------------------------------------------
(* The invariant holds at first, and each action keeps it.                 *)

LEMMA InitMaps ==
  ASSUME MapsAssumption, Init
  PROVE  MapsInv
<1>1. TypeOK
  <2>1. tables \in [Pages -> {0} \cup 2..(Top + 1)]
    BY DEF Init
  <2>2. query_addr \in 0..(Top + 1) /\ position \in 0..(Top + 1)
        /\ changes \in 0..MaxChanges
    BY DEF Init, MapsAssumption
  <2> QED BY <2>1, <2>2 DEF Init, TypeOK
<1>2. ModeInv /\ OrderInv /\ TableFound
  BY DEF Init, ModeInv, OrderInv, TableFound, NoEntry
<1>3. StartInv /\ AheadInv
  <2>1. \A v \in Table : v.start \in Pages /\ 0 <= v.start
    BY TableKind DEF Init, Table, Mapped, Vmas, Pages
  <2> QED BY <2>1 DEF Init, StartInv, AheadInv
<1> QED BY <1>1, <1>2, <1>3 DEF MapsInv

\* The table's mapping in a state of the invariant.
LEMMA TableFacts ==
  ASSUME MapsAssumption, MapsInv, NEW v \in Table
  PROVE  /\ v \in Mapped /\ v \in Vmas /\ v.kind = "table" /\ v.kind \in Readable
         /\ v.start \in Pages /\ v.start \in Nat /\ v.end \in Nat
         /\ 1 <= v.start /\ v.start < v.end
BY TableKind, MappedTypes DEF MapsInv, TypeOK, Readable

LEMMA ChangeStep ==
  ASSUME MapsAssumption, MapsInv, NEW p \in Pages, NEW k \in Kinds, Change(p, k)
  PROVE  MapsInv'
<1>1. TypeOK'
  BY DEF MapsInv, TypeOK, Change, parser, text, MapsAssumption
<1>2. ModeInv' /\ OrderInv' /\ TableFound'
  BY DEF MapsInv, ModeInv, OrderInv, TableFound, Change, parser, text
<1>3. StartInv' /\ AheadInv'
  <2>1. ~disturbed' => ~disturbed /\ Table' = Table
    BY DEF Change
  <2> QED BY <2>1 DEF MapsInv, StartInv, AheadInv, Change, parser, text
<1> QED BY <1>1, <1>2, <1>3 DEF MapsInv

\* The mapping that a query returns.
LEMMA QueriedFirst ==
  ASSUME MapsAssumption, Queried # {}
  PROVE  /\ FirstOf(Queried) \in Mapped /\ FirstOf(Queried) \in Vmas
         /\ FirstOf(Queried).end > query_addr
         /\ \A w \in Queried : FirstOf(Queried).start <= w.start
<1>1. Queried \subseteq Vmas
  BY DEF Queried, After, Mapped
<1>2. FirstOf(Queried) \in Queried
      /\ \A w \in Queried : FirstOf(Queried).start <= w.start
  BY <1>1, FirstIsLeast
<1> QED BY <1>1, <1>2 DEF Queried, After

LEMMA QueryFoundStep ==
  ASSUME MapsAssumption, MapsInv, QueryFound
  PROVE  MapsInv'
<1> DEFINE w == FirstOf(Queried)
<1>1. /\ w \in Mapped /\ w \in Vmas /\ w.end > query_addr
      /\ \A v \in Queried : w.start <= v.start
  BY QueriedFirst DEF QueryFound
<1>2. /\ entry' = w /\ query_addr' = w.end /\ pc' = "body"
      /\ pc = "next" /\ status_ = "kTryIoctl" /\ status_' = status_
      /\ UNCHANGED <<procmap_query_failed_, mem, changes, disturbed, position,
                     lines, truncated, tables>>
  BY DEF QueryFound, ByIoctl, memory, text
<1> HIDE DEF w
<1>3. TypeOK'
  BY <1>1, <1>2, MappedTypes DEF MapsInv, TypeOK
<1>4. ModeInv' /\ OrderInv' /\ TableFound'
  BY <1>1, <1>2 DEF MapsInv, ModeInv, OrderInv, TableFound
<1>5. lines = {}
  BY <1>2 DEF MapsInv, ModeInv
<1>6. Table' = Table
  BY <1>2, SameMemory
<1>7. StartInv'
  BY <1>1, <1>2, <1>5, <1>6, RunsEqual, TableFacts DEF MapsInv, StartInv
<1>8. AheadInv'
  <2> SUFFICES ASSUME ~disturbed, ~truncated, NEW v \in Table
               PROVE  \/ tables[v.start] = v.end
                      \/ w = v
                      \/ w.end <= v.start
    BY <1>2, <1>6 DEF AheadInv
  <2>1. v \in Mapped /\ v.kind \in Readable /\ v.start < v.end
        /\ v.start \in Nat /\ v.end \in Nat
    BY TableFacts
  <2>2. tables[v.start] = v.end \/ query_addr <= v.start
    BY <1>2 DEF MapsInv, AheadInv
  <2>3. CASE query_addr <= v.start
    <3>1. query_addr \in Nat
      BY DEF MapsInv, TypeOK, MapsAssumption
    <3>2. v \in Queried
      BY <2>1, <2>3, <3>1 DEF Queried, After
    <3>3. w.start <= v.start /\ w.start \in Nat
      BY <1>1, <3>2, MappedTypes
    <3>4. CASE w.start = v.start
      BY <1>1, <2>1, <3>4, RunsEqual
    <3>5. CASE w.start < v.start
      BY <1>1, <2>1, <3>5, RunsApart
    <3> QED BY <2>1, <3>3, <3>4, <3>5
  <2> QED BY <2>2, <2>3
<1> QED BY <1>3, <1>4, <1>7, <1>8 DEF MapsInv

LEMMA QueryNoneStep ==
  ASSUME MapsAssumption, MapsInv, QueryNone
  PROVE  MapsInv'
<1>1. /\ Queried = {} /\ status_' = "kCompleted" /\ pc' = "collected"
      /\ pc = "next" /\ status_ = "kTryIoctl"
      /\ UNCHANGED <<procmap_query_failed_, mem, changes, disturbed, position,
                     lines, truncated, tables, entry, query_addr>>
  BY DEF QueryNone, ByIoctl, memory, text
<1>2. TypeOK' /\ ModeInv' /\ OrderInv' /\ TableFound'
  BY <1>1 DEF MapsInv, TypeOK, ModeInv, OrderInv, TableFound
<1>3. Table' = Table
  BY <1>1, SameMemory
<1>4. StartInv'
  BY <1>1, <1>3 DEF MapsInv, StartInv
<1>5. AheadInv'
  <2> SUFFICES ASSUME ~disturbed, ~truncated, NEW v \in Table
               PROVE  tables[v.start] = v.end
    BY <1>1, <1>3 DEF AheadInv
  <2>1. v \in Mapped /\ v.kind \in Readable /\ v.start < v.end
        /\ v.start \in Nat /\ v.end \in Nat /\ query_addr \in Nat
    BY TableFacts DEF MapsInv, TypeOK, MapsAssumption
  <2>2. ~(query_addr <= v.start)
    BY <1>1, <2>1 DEF Queried, After
  <2> QED BY <1>1, <2>2 DEF MapsInv, AheadInv
<1> QED BY <1>2, <1>4, <1>5 DEF MapsInv

LEMMA QueryFailsStep ==
  ASSUME MapsAssumption, MapsInv, QueryFails
  PROVE  MapsInv'
<1>1. /\ procmap_query_failed_' \in BOOLEAN
      /\ status_' = "kParseText" /\ entry' = NoEntry
      /\ pc = "next" /\ status_ = "kTryIoctl" /\ position = 0 /\ lines = {}
      /\ UNCHANGED <<mem, changes, disturbed, position, lines, truncated,
                     tables, pc, query_addr>>
  BY DEF QueryFails, ByIoctl, memory, text, MapsInv, ModeInv
<1>2. TypeOK' /\ ModeInv' /\ OrderInv' /\ TableFound'
  BY <1>1 DEF MapsInv, TypeOK, ModeInv, OrderInv, TableFound, NoEntry
<1>3. Table' = Table
  BY <1>1, SameMemory
<1>4. StartInv'
  BY <1>1, <1>3 DEF MapsInv, StartInv
<1>5. AheadInv'
  BY <1>1, <1>3, TableFacts DEF AheadInv
<1> QED BY <1>2, <1>4, <1>5 DEF MapsInv

\* In the text mode the parser has not finished and has given up the ioctl.
LEMMA TextMode ==
  ASSUME MapsInv, ByText
  PROVE  pc = "next" /\ status_ = "kParseText"
BY DEF MapsInv, TypeOK, ModeInv, ByText

LEMMA ReadLinesStep ==
  ASSUME MapsAssumption, MapsInv, NEW last \in Mapped, ReadLines(last)
  PROVE  MapsInv'
<1> DEFINE got == {v \in After(position) : v.start <= last.start}
<1>1. /\ pc = "next" /\ status_ = "kParseText" /\ lines = {}
      /\ lines' = got /\ position' = last.end /\ last.end > position
      /\ UNCHANGED <<mem, changes, disturbed, truncated, tables, pc, entry,
                     status_, procmap_query_failed_, query_addr>>
  BY TextMode DEF ReadLines, After, memory, parser
<1>2. \A v \in got : v \in Mapped /\ v \in Vmas /\ v.end > position
                     /\ v.start <= last.start /\ v.start < v.end
  BY DEF After, Mapped, IsRun
<1>3. last \in Vmas /\ last.start \in Nat /\ last.end \in Nat
      /\ last.start < last.end /\ last.end \in 0..(Top + 1)
  BY MappedTypes DEF Mapped, IsRun
<1>4. \A v \in got : v.start \in Nat /\ v.end \in Nat /\ v.end <= last.end
  <2> SUFFICES ASSUME NEW v \in got
               PROVE  v.start \in Nat /\ v.end \in Nat /\ v.end <= last.end
    OBVIOUS
  <2>1. v.start \in Nat /\ v.end \in Nat /\ v \in Mapped /\ v.start <= last.start
    BY <1>2, MappedTypes
  <2>2. CASE v.start = last.start
    BY <2>1, <2>2, <1>3, RunsEqual
  <2>3. CASE v.start < last.start
    <3>1. v.end <= last.start
      BY <2>1, <2>3, RunsApart
    <3> QED BY <3>1, <2>1, <1>3
  <2> QED BY <2>1, <2>2, <2>3, <1>3
<1>5. \A l, k \in got : /\ l.start < k.start => l.end <= k.start
                        /\ l.start = k.start => l = k
  BY <1>2, RunsApart, RunsEqual
<1>6. entry.end <= position /\ entry.end \in Nat /\ position \in Nat
  <2>1. position \in Nat
    BY DEF MapsInv, TypeOK, MapsAssumption
  <2>2. entry.end \in Nat
    <3>1. CASE entry \in Vmas
      BY <3>1, MappedTypes
    <3>2. CASE entry = NoEntry
      BY <3>2 DEF NoEntry
    <3> QED BY <3>1, <3>2 DEF MapsInv, TypeOK
  <2> QED BY <1>1, <2>1, <2>2 DEF MapsInv, OrderInv
<1> HIDE DEF got
<1>7. TypeOK'
  <2>1. got \subseteq Vmas
    BY <1>2
  <2> QED BY <1>1, <1>3, <2>1 DEF MapsInv, TypeOK
<1>8. ModeInv' /\ TableFound'
  BY <1>1 DEF MapsInv, ModeInv, TableFound
<1>9. OrderInv'
  <2>1. entry.end <= last.end
    BY <1>1, <1>3, <1>6
  <2>2. \A l \in got : l.start < l.end /\ entry.end < l.end /\ l.end <= last.end
    BY <1>2, <1>4, <1>6
  <2> QED BY <1>1, <1>5, <2>1, <2>2 DEF OrderInv
<1>10. Table' = Table
  BY <1>1, SameMemory
<1>11. StartInv'
  BY <1>1, <1>2, <1>10, RunsEqual, TableFacts DEF MapsInv, StartInv
<1>12. AheadInv'
  <2> SUFFICES ASSUME ~disturbed, ~truncated, NEW v \in Table
               PROVE  \/ tables[v.start] = v.end
                      \/ last.end <= v.start
                      \/ v \in got
    BY <1>1, <1>10 DEF AheadInv
  <2>1. v \in Mapped /\ v.start < v.end /\ v.start \in Nat /\ v.end \in Nat
    BY TableFacts
  <2>2. tables[v.start] = v.end \/ position <= v.start
    BY <1>1 DEF MapsInv, AheadInv
  <2>3. CASE position <= v.start
    <3>1. CASE v.start <= last.start
      BY <1>6, <2>1, <2>3, <3>1 DEF got, After
    <3>2. CASE last.start < v.start
      BY <2>1, <3>2, RunsApart
    <3> QED BY <1>3, <2>1, <3>1, <3>2
  <2> QED BY <2>2, <2>3
<1> QED BY <1>7, <1>8, <1>9, <1>11, <1>12 DEF MapsInv

LEMMA ReadEndStep ==
  ASSUME MapsAssumption, MapsInv, ReadEnd
  PROVE  MapsInv'
<1>1. /\ pc = "next" /\ status_ = "kParseText" /\ lines = {}
      /\ \/ truncated' = truncated /\ After(position) = {}
         \/ truncated' = TRUE
      /\ status_' = "kCompleted" /\ pc' = "collected"
      /\ UNCHANGED <<mem, changes, disturbed, tables, entry, lines, position,
                     procmap_query_failed_, query_addr>>
  BY TextMode DEF ReadEnd, memory
<1>2. TypeOK' /\ ModeInv' /\ OrderInv' /\ TableFound'
  BY <1>1 DEF MapsInv, TypeOK, ModeInv, OrderInv, TableFound
<1>3. Table' = Table
  BY <1>1, SameMemory
<1>4. StartInv'
  BY <1>1, <1>3 DEF MapsInv, StartInv
<1>5. AheadInv'
  <2> SUFFICES ASSUME ~disturbed, ~truncated', NEW v \in Table
               PROVE  tables[v.start] = v.end
    BY <1>1, <1>3 DEF AheadInv
  <2>1. ~truncated /\ After(position) = {}
    BY <1>1 DEF MapsInv, TypeOK
  <2>2. v \in Mapped /\ v.start < v.end /\ v.start \in Nat /\ v.end \in Nat
        /\ position \in Nat
    BY TableFacts DEF MapsInv, TypeOK, MapsAssumption
  <2>3. ~(position <= v.start)
    BY <2>1, <2>2 DEF After
  <2> QED BY <1>1, <2>1, <2>3 DEF MapsInv, AheadInv
<1> QED BY <1>2, <1>4, <1>5 DEF MapsInv

LEMMA SkipLineStep ==
  ASSUME MapsAssumption, MapsInv, SkipLine
  PROVE  MapsInv'
<1>1. /\ pc = "next" /\ status_ = "kParseText"
      /\ FirstOf(lines).kind \notin Readable
      /\ lines' = lines \ {FirstOf(lines)}
      /\ UNCHANGED <<mem, changes, disturbed, truncated, tables, pc, entry,
                     position, status_, procmap_query_failed_, query_addr>>
  BY TextMode DEF SkipLine, memory, parser
<1>2. lines' \subseteq lines
  BY <1>1
<1>3. TypeOK' /\ ModeInv' /\ OrderInv' /\ TableFound'
  <2>1. TypeOK'
    BY <1>1, <1>2 DEF MapsInv, TypeOK
  <2>2. ModeInv' /\ TableFound'
    BY <1>1 DEF MapsInv, ModeInv, TableFound
  <2>3. OrderInv'
    BY <1>1, <1>2 DEF MapsInv, OrderInv
  <2> QED BY <2>1, <2>2, <2>3
<1>4. Table' = Table
  BY <1>1, SameMemory
<1>5. StartInv'
  BY <1>1, <1>2, <1>4 DEF MapsInv, StartInv
<1>6. AheadInv'
  <2>1. \A v \in Table : v \in lines => v \in lines'
    BY <1>1, TableFacts
  <2> QED BY <1>1, <1>4, <2>1 DEF MapsInv, AheadInv
<1> QED BY <1>3, <1>5, <1>6 DEF MapsInv

\* The line taken ends behind the entry before it, and the others behind it.
LEMMA TakenLine ==
  ASSUME MapsAssumption, MapsInv, TakeLine
  PROVE  LET l == FirstOf(lines)
         IN  /\ l \in lines /\ l \in Vmas /\ entry.end < l.end /\ l.end <= position
             /\ \A k \in lines \ {l} : l.end < k.end
<1> DEFINE l == FirstOf(lines)
<1>1. lines # {} /\ lines \subseteq Vmas
  BY DEF TakeLine, MapsInv, TypeOK
<1>2. l \in lines /\ \A k \in lines : l.start <= k.start
  BY <1>1, FirstIsLeast
<1> HIDE DEF l
<1>3. l \in Vmas /\ entry.end < l.end /\ l.end <= position
  BY <1>1, <1>2 DEF MapsInv, OrderInv
<1>4. \A k \in lines \ {l} : l.end < k.end
  <2> SUFFICES ASSUME NEW k \in lines \ {l} PROVE l.end < k.end
    OBVIOUS
  <2>1. l.start \in Nat /\ l.end \in Nat /\ k.start \in Nat /\ k.end \in Nat
    BY <1>1, <1>3, MappedTypes
  <2>2. l.start # k.start
    BY <1>2 DEF MapsInv, OrderInv
  <2>3. l.start < k.start
    BY <1>2, <2>1, <2>2
  <2>4. l.end <= k.start /\ k.start < k.end
    BY <1>2, <2>3 DEF MapsInv, OrderInv
  <2> QED BY <2>1, <2>4
<1> QED BY <1>2, <1>3, <1>4 DEF l

LEMMA TakeLineStep ==
  ASSUME MapsAssumption, MapsInv, TakeLine
  PROVE  MapsInv'
<1> DEFINE l == FirstOf(lines)
<1>1. /\ l \in lines /\ l \in Vmas /\ entry.end < l.end /\ l.end <= position
      /\ \A k \in lines \ {l} : l.end < k.end
  BY TakenLine
<1>2. /\ pc = "next" /\ status_ = "kParseText" /\ pc' = "body"
      /\ entry' = l /\ lines' = lines \ {l}
      /\ UNCHANGED <<mem, changes, disturbed, truncated, tables,
                     position, status_, procmap_query_failed_, query_addr>>
  BY TextMode DEF TakeLine, ByText, memory, parser
<1> HIDE DEF l
<1>3. TypeOK'
  BY <1>1, <1>2 DEF MapsInv, TypeOK
<1>4. ModeInv' /\ TableFound'
  BY <1>1, <1>2 DEF MapsInv, ModeInv, TableFound
<1>5. OrderInv'
  BY <1>1, <1>2 DEF MapsInv, OrderInv
<1>6. Table' = Table
  BY <1>2, SameMemory
<1>7. StartInv'
  BY <1>1, <1>2, <1>6 DEF MapsInv, StartInv
<1>8. AheadInv'
  BY <1>1, <1>2, <1>6 DEF MapsInv, AheadInv
<1> QED BY <1>3, <1>4, <1>5, <1>7, <1>8 DEF MapsInv

LEMMA CollectStep ==
  ASSUME MapsAssumption, MapsInv, Collect
  PROVE  MapsInv'
<1>1. /\ pc = "body" /\ pc' = "next" /\ entry \in Vmas
      /\ UNCHANGED <<mem, changes, disturbed, truncated, entry, lines,
                     position, status_, procmap_query_failed_, query_addr>>
  BY DEF Collect, memory, parser, text, MapsInv, ModeInv
<1>2. /\ entry.start \in Pages /\ entry.end \in 2..(Top + 1)
      /\ tables \in [Pages -> {0} \cup 2..(Top + 1)]
  BY <1>1, MappedTypes DEF MapsInv, TypeOK
<1>3. /\ tables' \in [Pages -> {0} \cup 2..(Top + 1)]
      /\ \A p \in Pages : \/ tables'[p] = tables[p]
                          \/ p = entry.start /\ tables'[p] = entry.end
      /\ entry.kind = "table" /\ tables[entry.start] = 0
           => tables'[entry.start] = entry.end
      /\ \A p \in Pages : tables[p] # 0 => tables'[p] = tables[p]
  BY <1>2 DEF Collect
<1>4. TypeOK'
  BY <1>1, <1>3 DEF MapsInv, TypeOK
<1>5. ModeInv' /\ OrderInv' /\ TableFound'
  BY <1>1 DEF MapsInv, ModeInv, OrderInv, TableFound
<1>6. Table' = Table
  BY <1>1, SameMemory
<1>7. StartInv'
  <2> SUFFICES ASSUME ~disturbed, NEW v \in Table
               PROVE  /\ tables'[v.start] \in {0, v.end}
                      /\ \A l \in lines : l.start = v.start => l = v
    BY <1>1, <1>6 DEF StartInv
  <2>1. /\ tables[v.start] \in {0, v.end}
        /\ entry.start = v.start => entry = v
        /\ \A l \in lines : l.start = v.start => l = v
    BY <1>1 DEF MapsInv, StartInv
  <2> QED BY <1>3, <2>1, TableFacts
<1>8. AheadInv'
  <2> SUFFICES ASSUME ~disturbed, ~truncated, NEW v \in Table
               PROVE  \/ tables'[v.start] = v.end
                      \/ status_ = "kTryIoctl" /\ query_addr <= v.start
                      \/ /\ status_ = "kParseText"
                         /\ position <= v.start \/ v \in lines
    BY <1>1, <1>6 DEF AheadInv
  <2>1. v.kind = "table" /\ v.start \in Pages /\ v.end # 0
        /\ tables[v.start] \in {0, v.end}
    BY TableFacts DEF MapsInv, StartInv
  <2>2. entry = v => tables'[v.start] = v.end
    BY <1>3, <2>1
  <2>3. tables[v.start] = v.end => tables'[v.start] = v.end
    BY <1>3, <2>1
  <2> QED BY <2>2, <2>3 DEF MapsInv, AheadInv
<1> QED BY <1>4, <1>5, <1>7, <1>8 DEF MapsInv

LEMMA FindStep ==
  ASSUME MapsAssumption, MapsInv, FindGlobalRefTable
  PROVE  MapsInv'
<1>1. /\ pc = "collected" /\ pc' \in {"found", "missing"}
      /\ pc' = "missing" => ~Covers(RefTable)
      /\ UNCHANGED <<mem, changes, disturbed, truncated, entry, lines, tables,
                     position, status_, procmap_query_failed_, query_addr>>
  BY DEF FindGlobalRefTable, memory, parser, text
<1>2. TypeOK' /\ ModeInv' /\ OrderInv'
  BY <1>1 DEF MapsInv, TypeOK, ModeInv, OrderInv
<1>3. Table' = Table
  BY <1>1, SameMemory
<1>4. StartInv' /\ AheadInv'
  BY <1>1, <1>3 DEF MapsInv, StartInv, AheadInv
<1>5. TableFound'
  <2> SUFFICES ASSUME ~disturbed, ~truncated PROVE Covers(RefTable)
    BY <1>1 DEF TableFound
  <2>1. PICK v \in Table : TRUE
    BY TableExists DEF MapsInv, TypeOK
  <2>2. status_ = "kCompleted"
    BY <1>1 DEF MapsInv, TypeOK, ModeInv
  <2>3. tables[v.start] = v.end
    BY <1>1, <2>2 DEF MapsInv, AheadInv
  <2>4. v.start \in Pages /\ v.start <= RefTable /\ RefTable < v.end
    BY TableFacts DEF Table
  <2> QED BY <2>3, <2>4 DEF Covers
<1> QED BY <1>2, <1>4, <1>5 DEF MapsInv

LEMMA StutterMaps ==
  ASSUME MapsInv, UNCHANGED vars
  PROVE  MapsInv'
<1>1. UNCHANGED <<mem, changes, disturbed, truncated, entry, lines, tables, pc,
                  position, status_, procmap_query_failed_, query_addr>>
  BY DEF vars, memory, parser, text
<1>2. Table' = Table
  BY <1>1, SameMemory
<1> QED
  BY <1>1, <1>2 DEF MapsInv, TypeOK, ModeInv, OrderInv, StartInv, AheadInv,
                    TableFound

-----------------------------------------------------------------------------
\* The inductive invariant holds in every reachable state, for memory of any
\* size that other threads change any number of times.
THEOREM MapsInvariance == Spec => []MapsInv
<1> USE MapsAssumption
<1>1. Init => MapsInv
  BY InitMaps
<1>2. MapsInv /\ [Next]_vars => MapsInv'
  <2> SUFFICES ASSUME MapsInv, [Next]_vars PROVE MapsInv'
    OBVIOUS
  <2>1. CASE QueryFound
    BY <2>1, QueryFoundStep
  <2>2. CASE QueryNone
    BY <2>2, QueryNoneStep
  <2>3. CASE QueryFails
    BY <2>3, QueryFailsStep
  <2>4. CASE \E v \in Mapped : ReadLines(v)
    BY <2>4, ReadLinesStep
  <2>5. CASE ReadEnd
    BY <2>5, ReadEndStep
  <2>6. CASE SkipLine
    BY <2>6, SkipLineStep
  <2>7. CASE TakeLine
    BY <2>7, TakeLineStep
  <2>8. CASE Collect
    BY <2>8, CollectStep
  <2>9. CASE FindGlobalRefTable
    BY <2>9, FindStep
  <2>10. CASE \E p \in Pages, k \in Kinds : Change(p, k)
    BY <2>10, ChangeStep
  <2>11. CASE UNCHANGED vars
    BY <2>11, StutterMaps
  <2> QED BY <2>1, <2>2, <2>3, <2>4, <2>5, <2>6, <2>7, <2>8, <2>9, <2>10,
             <2>11 DEF Next, Loader
<1> QED BY <1>1, <1>2, PTL DEF Spec

\* The parser's and the collector's variables keep their types
\* (maps_parser.hpp:100-109, main.cc:511).
THEOREM MapsTypeCorrect == Spec => []TypeOK
<1>1. MapsInv => TypeOK
  BY DEF MapsInv
<1> QED BY <1>1, MapsInvariance, PTL

\* FindGlobalRefTable (main.cc:529) misses the reference table only when its
\* own mapping has changed or the text could not be read to its end.
THEOREM TableCorrect == Spec => []TableFound
<1>1. MapsInv => TableFound
  BY DEF MapsInv
<1> QED BY <1>1, MapsInvariance, PTL

\* NextEntry (maps_parser.cc:184) never returns a mapping again and never goes
\* back in one pass.
THEOREM EntriesCorrect == Spec => EntriesAdvance
<1> USE MapsAssumption
<1>1. MapsInv /\ [Next]_vars
        => [pc = "next" /\ pc' = "body" => entry'.end > entry.end]_vars
  <2> SUFFICES ASSUME MapsInv, Next, pc = "next", pc' = "body"
               PROVE  entry'.end > entry.end
    OBVIOUS
  <2>1. QueryFound \/ TakeLine
    BY DEF Next, Loader, QueryNone, QueryFails, ReadLines, ReadEnd, SkipLine,
           Collect, FindGlobalRefTable, Change
  <2>2. CASE QueryFound
    BY <2>2, QueriedFirst DEF QueryFound, ByIoctl, MapsInv, ModeInv
  <2>3. CASE TakeLine
    <3>1. LET l == FirstOf(lines) IN l \in Vmas /\ entry.end < l.end
      BY <2>3, TakenLine
    <3>2. entry' = FirstOf(lines)
      BY <2>3 DEF TakeLine
    <3>3. entry.end \in Nat
      <4>1. CASE entry \in Vmas
        BY <4>1, MappedTypes
      <4>2. CASE entry = NoEntry
        BY <4>2 DEF NoEntry
      <4> QED BY <4>1, <4>2 DEF MapsInv, TypeOK
    <3>4. FirstOf(lines).end \in Nat
      BY <3>1, MappedTypes
    <3> QED BY <3>1, <3>2, <3>3, <3>4
  <2> QED BY <2>1, <2>2, <2>3
<1> QED BY <1>1, MapsInvariance, PTL DEF Spec, EntriesAdvance
=============================================================================
