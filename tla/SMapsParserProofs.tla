-------------------------- MODULE SMapsParserProofs --------------------------
(***************************************************************************)
(* The reader first: ReaderInv is an invariant of FileReader, and with it  *)
(* every step is a step of LineStream or leaves what LineStream sees       *)
(* alone, for every file, delimiter and size of the buffer.  Then the      *)
(* parser on top of it: SInv is an invariant of SMapsParser for every text *)
(* whose lines fit the buffer, whatever read() does.                       *)
(***************************************************************************)
EXTENDS SMapsParser, TLAPS

\* How much the buffer holds.
rem == buf_end_ - buf_pos_

\* The size and the delimiter's length are numbers.
LEMMA Sizes == Size \in Nat /\ Len(Delim) \in Nat /\ Len(Delim) >= 1
  BY ReaderAssumption

\* What NextLine finds in the buffer is what stands in the file
\* (file_reader.h:446-482): the window says so byte for byte.
LEMMA FoundInFile ==
  ASSUME TypeOK, Window, ~eof_, NEW n \in Nat
  PROVE  FoundAt(n) <=> n + Len(Delim) <= rem /\ Lines!DelimAt(consumed + n)
<1>1. /\ buf_pos_ \in Nat /\ buf_end_ \in Nat /\ consumed \in Nat /\ offset \in Nat
      /\ Len(Delim) \in Nat /\ Len(file) \in Nat
      /\ buf_pos_ <= buf_end_ /\ offset <= Len(file) /\ offset = consumed + rem
  BY Sizes DEF TypeOK, Window, rem
<1>2. ASSUME NEW j \in 1..Len(Delim), n + Len(Delim) <= rem
      PROVE  buffer[buf_pos_ + n + j] = file[consumed + n + j]
  <2>1. n + j \in 1..rem
    BY <1>1, <1>2 DEF rem
  <2>2. buffer[buf_pos_ + (n + j)] = file[consumed + (n + j)]
    BY <2>1 DEF Window, rem
  <2> QED BY <1>1, <2>2
<1>3. buf_pos_ + n + Len(Delim) <= buf_end_ <=> n + Len(Delim) <= rem
  BY <1>1 DEF rem
<1>4. n + Len(Delim) <= rem => consumed + n + Len(Delim) <= Len(file)
  BY <1>1 DEF rem
<1> QED BY <1>2, <1>3, <1>4 DEF FoundAt, Lines!DelimAt

\* With no hit the bytes in the buffer contain no delimiter.
LEMMA MissMeansUncut ==
  ASSUME TypeOK, Window, ~eof_, \A n \in 0..Size : ~FoundAt(n)
  PROVE  Lines!Uncut(consumed, rem)
<1>1. rem \in 0..Size
  BY Sizes DEF TypeOK, rem
<1>2. SUFFICES ASSUME NEW k \in 0..rem, k + Len(Delim) <= rem
               PROVE  ~Lines!DelimAt(consumed + k)
  BY DEF Lines!Uncut
<1>3. k \in Nat /\ k \in 0..Size
  BY <1>1, Sizes
<1> QED BY <1>2, <1>3, FoundInFile

-----------------------------------------------------------------------------
\* The reader starts with an empty buffer and nothing handed out.
LEMMA ReaderInit == Init => ReaderInv
<1> SUFFICES ASSUME Init PROVE ReaderInv
  OBVIOUS
<1>1. file \in Seq(Bytes) /\ Len(file) \in Nat
  BY ReaderAssumption DEF Init
<1>2. TypeOK
  <2>1. buffer \in [1..Size -> Bytes \cup {0}]
    BY DEF Init
  <2>2. view \in Spans /\ line \in Spans
    BY DEF Init, Spans
  <2>3. /\ offset \in 0..Len(file) /\ consumed \in 0..Len(file)
        /\ buf_pos_ \in 0..Size /\ buf_end_ \in buf_pos_..Size
    BY <1>1, Sizes DEF Init
  <2> QED BY <1>1, <2>1, <2>2, <2>3 DEF Init, TypeOK
<1>3. PcInv /\ Window /\ ViewIsLine
  BY <1>1 DEF Init, PcInv, Window, ViewIsLine
<1> QED BY <1>2, <1>3 DEF ReaderInv

\* One step of the reader keeps the invariant.
LEMMA ReaderStep == ReaderInv /\ [Next]_vars => ReaderInv'
<1> SUFFICES ASSUME ReaderInv, [Next]_vars PROVE ReaderInv'
  OBVIOUS
<1> USE Sizes
<1>0. TypeOK /\ PcInv /\ Window /\ ViewIsLine
  BY DEF ReaderInv
<1>n. /\ buf_pos_ \in Nat /\ buf_end_ \in Nat /\ consumed \in Nat /\ offset \in Nat
      /\ Len(file) \in Nat /\ buf_pos_ <= buf_end_ /\ buf_end_ <= Size
      /\ offset <= Len(file)
  BY <1>0 DEF TypeOK
<1>w. ~eof_ => offset = consumed + (buf_end_ - buf_pos_)
  BY <1>0 DEF Window
<1>1. CASE NextLine
  <2>1. TypeOK' /\ PcInv'
    BY <1>0, <1>1 DEF NextLine, TypeOK, PcInv, bufVars, lineVars
  <2>2. Window' /\ ViewIsLine'
    BY <1>0, <1>1 DEF NextLine, Window, ViewIsLine, bufVars, lineVars
  <2> QED BY <2>1, <2>2 DEF ReaderInv
<1>2. CASE Miss
  <2>0. ~eof_ /\ Lines!Uncut(consumed, rem)
    BY <1>0, <1>2, MissMeansUncut DEF Miss, PcInv
  <2>1. /\ buf_pos_' = 0 /\ buf_end_' = rem /\ rem \in 0..Size
        /\ UNCHANGED <<file, offset, eof_, view, line, consumed, failed>>
        /\ pc' = IF rem = Size THEN "full" ELSE "read"
    BY <1>2, <1>n DEF Miss, rem, lineVars
  <2>2. /\ buffer' \in [1..Size -> Bytes \cup {0}]
        /\ \A i \in 1..rem : buffer'[i] = buffer[buf_pos_ + i]
    <3>1. buffer \in [1..Size -> Bytes \cup {0}]
      BY <1>0 DEF TypeOK
    <3>2. \A i \in 1..rem : buf_pos_ + i \in 1..Size /\ i \in 1..Size
      BY <1>n DEF rem
    <3>3. Moved \in [1..Size -> Bytes \cup {0}]
      BY <3>1, <3>2 DEF Moved, rem
    <3>4. \A i \in 1..rem : Moved[i] = buffer[buf_pos_ + i]
      BY <3>2 DEF Moved, rem
    <3>5. CASE buf_pos_ > 0 /\ buf_pos_ < buf_end_
      BY <1>2, <3>3, <3>4, <3>5 DEF Miss
    <3>6. CASE ~(buf_pos_ > 0 /\ buf_pos_ < buf_end_)
      <4>1. buffer' = buffer
        BY <1>2, <3>6 DEF Miss
      <4>2. \A i \in 1..rem : buf_pos_ = 0
        BY <1>n, <3>6 DEF rem
      <4> QED BY <3>1, <4>1, <4>2
    <3> QED BY <3>5, <3>6
  <2>3. TypeOK'
    BY <1>0, <2>1, <2>2 DEF TypeOK
  <2>4. PcInv'
    <3>1. Lines!Uncut(consumed, rem)'
      BY <2>0, <2>1 DEF Lines!Uncut, Lines!DelimAt, rem
    <3> QED BY <2>0, <2>1 DEF PcInv, Lines!Uncut, Lines!DelimAt
  <2>5. Window'
    <3>1. \A i \in 1..rem : buffer[buf_pos_ + i] = file[consumed + i]
      BY <1>0, <2>0 DEF Window, rem
    <3> QED BY <1>w, <2>0, <2>1, <2>2, <3>1 DEF Window, rem
  <2>6. ViewIsLine'
    BY <2>1 DEF ViewIsLine
  <2> QED BY <2>3, <2>4, <2>5, <2>6 DEF ReaderInv
<1>3. CASE BufferFull
  <2>0. ~eof_ /\ buf_pos_ = 0 /\ buf_end_ = Size /\ consumed + buf_end_ = offset
    BY <1>0, <1>3, <1>w, <1>n DEF BufferFull, PcInv
  <2>1. TypeOK'
    BY <1>0, <1>3, <2>0, <1>n DEF BufferFull, TypeOK, Spans
  <2>2. PcInv'
    BY <1>3 DEF BufferFull, PcInv
  <2>3. Window'
    BY <1>3, <1>n, <2>0 DEF BufferFull, Window
  <2>4. ViewIsLine'
    BY <1>0, <1>3, <1>n, <2>0 DEF BufferFull, ViewIsLine, Window
  <2> QED BY <2>1, <2>2, <2>3, <2>4 DEF ReaderInv
<1>4. CASE ReadEnd
  <2>0. ~eof_ /\ buf_pos_ = 0 /\ consumed + buf_end_ = offset
    BY <1>0, <1>4, <1>w, <1>n DEF ReadEnd, PcInv
  <2>1. TypeOK'
    BY <1>0, <1>4, <2>0, <1>n DEF ReadEnd, TypeOK, Spans, bufVars
  <2>2. PcInv' /\ Window'
    BY <1>4 DEF ReadEnd, PcInv, Window
  <2>3. ViewIsLine'
    BY <1>0, <1>4, <1>n, <2>0 DEF ReadEnd, ViewIsLine, Window, bufVars
  <2> QED BY <2>1, <2>2, <2>3 DEF ReaderInv
<1>5. ASSUME NEW n \in 0..Size, Hit(n) PROVE ReaderInv'
  <2>0. ~eof_ /\ n \in Nat /\ buf_pos_ + n + Len(Delim) <= buf_end_
    BY <1>0, <1>5 DEF Hit, PcInv, FirstFound, FoundAt
  <2>1. /\ consumed' = consumed + n + Len(Delim) /\ pc' = "idle"
        /\ view' = [at |-> buf_pos_, len |-> n] /\ line' = [at |-> consumed, len |-> n]
        /\ UNCHANGED <<file, offset, buffer, eof_, failed>>
    BY <1>5 DEF Hit
  <2>2. \/ buf_pos_' = 0 /\ buf_end_' = 0 /\ buf_pos_ + n + Len(Delim) = buf_end_
        \/ buf_pos_' = buf_pos_ + n + Len(Delim) /\ buf_end_' = buf_end_
    BY <1>5 DEF Hit
  <2>3. consumed' <= offset
    BY <1>w, <1>n, <2>0, <2>1
  <2>4. TypeOK'
    <3>1. consumed' \in 0..Len(file) /\ view' \in Spans /\ line' \in Spans
      BY <1>n, <2>0, <2>1, <2>3 DEF Spans
    <3>2. buf_pos_' \in 0..Size /\ buf_end_' \in buf_pos_'..Size
      BY <1>n, <2>0, <2>2
    <3> QED BY <1>0, <2>1, <3>1, <3>2 DEF TypeOK
  <2>5. PcInv'
    BY <2>1 DEF PcInv
  <2>6. Window'
    <3>1. offset' = consumed' + (buf_end_' - buf_pos_')
      BY <1>w, <1>n, <2>0, <2>1, <2>2
    <3>2. ASSUME NEW i \in 1..(buf_end_' - buf_pos_')
          PROVE  buffer'[buf_pos_' + i] = file'[consumed' + i]
      <4>1. /\ buf_pos_' = buf_pos_ + n + Len(Delim)
            /\ n + Len(Delim) + i \in 1..(buf_end_ - buf_pos_)
        BY <1>n, <2>0, <2>2, <3>2
      <4>2. buffer[buf_pos_ + (n + Len(Delim) + i)] = file[consumed + (n + Len(Delim) + i)]
        BY <1>0, <2>0, <4>1 DEF Window
      <4>3. /\ buf_pos_' + i = buf_pos_ + (n + Len(Delim) + i)
            /\ consumed' + i = consumed + (n + Len(Delim) + i)
        BY <1>n, <2>0, <2>1, <4>1
      <4> QED BY <2>1, <4>2, <4>3
    <3> QED BY <3>1, <3>2 DEF Window
  <2>7. ViewIsLine'
    <3>1. \A i \in 1..n : i \in 1..(buf_end_ - buf_pos_)
      BY <1>n, <2>0
    <3> QED BY <1>0, <2>0, <2>1, <3>1 DEF ViewIsLine, Window
  <2> QED BY <2>4, <2>5, <2>6, <2>7 DEF ReaderInv
<1>6. ASSUME NEW n \in 1..Size, Read(n) PROVE ReaderInv'
  <2>0. ~eof_ /\ buf_pos_ = 0 /\ n \in Nat
    BY <1>0, <1>6 DEF Read, PcInv
  <2>1. /\ n <= Size - buf_end_ /\ offset + n <= Len(file)
        /\ offset' = offset + n /\ buf_end_' = buf_end_ + n /\ pc' = "scan"
        /\ UNCHANGED <<file, buf_pos_, eof_, view, line, consumed, failed>>
        /\ buffer' = [i \in 1..Size |-> IF i \in (buf_end_ + 1)..(buf_end_ + n)
                                        THEN file[offset + i - buf_end_] ELSE buffer[i]]
    BY <1>6 DEF Read, lineVars
  <2>2. ASSUME NEW i \in (buf_end_ + 1)..(buf_end_ + n)
        PROVE  i \in 1..Size /\ offset + i - buf_end_ \in 1..Len(file)
    BY <1>n, <2>0, <2>1, <2>2
  <2>3. TypeOK'
    <3>1. \A i \in 1..Len(file) : file[i] \in Bytes
      BY <1>0 DEF TypeOK
    <3>2. buffer' \in [1..Size -> Bytes \cup {0}]
      BY <1>0, <2>1, <2>2, <3>1 DEF TypeOK
    <3>3. offset' \in 0..Len(file) /\ buf_end_' \in buf_pos_'..Size
      BY <1>n, <2>0, <2>1
    <3> QED BY <1>0, <2>1, <3>2, <3>3 DEF TypeOK
  <2>4. PcInv' /\ ViewIsLine'
    BY <2>0, <2>1 DEF PcInv, ViewIsLine
  <2>5. Window'
    <3>1. offset' = consumed' + (buf_end_' - buf_pos_')
      BY <1>w, <1>n, <2>0, <2>1
    <3>2. ASSUME NEW i \in 1..(buf_end_' - buf_pos_')
          PROVE  buffer'[buf_pos_' + i] = file'[consumed' + i]
      <4>1. i \in 1..Size /\ buf_pos_' + i = i
        BY <1>n, <2>0, <2>1, <3>2
      <4>2. CASE i \in 1..buf_end_
        <5>1. buffer'[i] = buffer[i]
          BY <1>n, <2>1, <4>1, <4>2
        <5>2. buffer[0 + i] = file[consumed + i]
          BY <1>0, <1>n, <2>0, <4>2 DEF Window
        <5> QED BY <1>n, <2>1, <4>1, <5>1, <5>2
      <4>3. CASE i \notin 1..buf_end_
        <5>1. i \in (buf_end_ + 1)..(buf_end_ + n)
          BY <1>n, <2>0, <2>1, <3>2, <4>3
        <5>2. buffer'[i] = file[offset + i - buf_end_]
          BY <2>1, <4>1, <5>1
        <5>3. offset + i - buf_end_ = consumed + i
          BY <1>w, <1>n, <2>0, <4>1
        <5> QED BY <2>1, <4>1, <5>2, <5>3
      <4> QED BY <4>2, <4>3
    <3> QED BY <3>1, <3>2 DEF Window
  <2> QED BY <2>3, <2>4, <2>5 DEF ReaderInv
<1>7. CASE UNCHANGED vars
  BY <1>0, <1>7 DEF ReaderInv, TypeOK, PcInv, Window, ViewIsLine, vars, bufVars, lineVars,
                    Lines!Uncut, Lines!DelimAt
<1> QED
  BY <1>1, <1>2, <1>3, <1>4, <1>5, <1>6, <1>7 DEF Next, Step, Interrupted

\* The invariant holds in every reachable state.
THEOREM ReaderInvariance == Spec => []ReaderInv
  BY ReaderInit, ReaderStep, PTL DEF Spec

\* BaseReader keeps its indices and states in range (file_reader.h:133-247).
THEOREM ReaderTypeCorrect == Spec => []TypeOK
<1>1. ReaderInv => TypeOK BY DEF ReaderInv
<1> QED BY <1>1, ReaderInvariance, PTL

\* The buffer is the window of the file that was read and not handed out
\* (file_reader.h:177-182, :188-226).
THEOREM WindowCorrect == Spec => []Window
<1>1. ReaderInv => Window BY DEF ReaderInv
<1> QED BY <1>1, ReaderInvariance, PTL

\* The view of the current line shows that line (file_reader.h:196-201).
THEOREM ViewCorrect == Spec => []ViewIsLine
<1>1. ReaderInv => ViewIsLine BY DEF ReaderInv
<1> QED BY <1>1, ReaderInvariance, PTL

-----------------------------------------------------------------------------
\* The reader starts where LineStream does.
LEMMA StreamInit == Init => Lines!Init
  BY DEF Init, Lines!Init

\* A line found in the buffer is one of the file's (file_reader.h:446-482).
LEMMA HitLine ==
  ASSUME ReaderInv, NEW n \in 0..Size, Hit(n)
  PROVE  /\ Lines!Line(n) /\ ~eof_ /\ pc' = "idle"
         /\ line' = [at |-> consumed, len |-> n] /\ UNCHANGED <<file, failed>>
<1> USE Sizes
<1>0. TypeOK /\ PcInv /\ Window
  BY DEF ReaderInv
<1>n. /\ buf_pos_ \in Nat /\ buf_end_ \in Nat /\ consumed \in Nat
      /\ buf_pos_ <= buf_end_ /\ buf_end_ <= Size
  BY <1>0 DEF TypeOK
<1>1. ~eof_ /\ n \in Nat /\ FoundAt(n) /\ \A k \in 0..n : FoundAt(k) => k = n
  BY <1>0 DEF Hit, PcInv, FirstFound
<1>2. /\ line' = [at |-> consumed, len |-> n] /\ consumed' = consumed + n + Len(Delim)
      /\ pc' = "idle" /\ UNCHANGED <<file, eof_, failed>>
  BY DEF Hit
<1>3. n + Len(Delim) <= rem /\ Lines!DelimAt(consumed + n)
  BY <1>0, <1>1, FoundInFile
<1>4. n + Len(Delim) <= Size
  BY <1>n, <1>1, <1>3 DEF rem
<1>5. Lines!Uncut(consumed, n + Len(Delim) - 1)
  <2>1. SUFFICES ASSUME NEW k \in 0..(n + Len(Delim) - 1), k + Len(Delim) <= n + Len(Delim) - 1
                 PROVE  ~Lines!DelimAt(consumed + k)
    BY DEF Lines!Uncut
  <2>2. k \in Nat /\ k \in 0..n /\ k # n /\ k + Len(Delim) <= rem
    BY <1>n, <1>1, <1>3, <2>1 DEF rem
  <2> QED BY <1>0, <1>1, <2>2, FoundInFile
<1>6. Lines!Line(n)
  BY <1>2, <1>3, <1>4, <1>5 DEF Lines!Line
<1> QED BY <1>1, <1>2, <1>6

\* A full buffer is a piece of a long line (file_reader.h:206-208).
LEMMA FullPiece ==
  ASSUME ReaderInv, BufferFull
  PROVE  /\ Lines!Piece(Size) /\ ~eof_ /\ pc' = "idle"
         /\ line' = [at |-> consumed, len |-> Size] /\ UNCHANGED <<file, failed>>
<1> USE Sizes
<1>0. TypeOK /\ PcInv /\ Window
  BY DEF ReaderInv
<1>1. /\ ~eof_ /\ buf_pos_ = 0 /\ buf_end_ = Size /\ consumed + Size = offset
      /\ offset <= Len(file) /\ Lines!Uncut(consumed, Size)
  BY <1>0 DEF BufferFull, PcInv, TypeOK, Window
<1>2. /\ line' = [at |-> consumed, len |-> Size] /\ consumed' = consumed + Size
      /\ pc' = "idle" /\ UNCHANGED <<file, eof_, failed>>
  BY <1>1 DEF BufferFull
<1> QED BY <1>1, <1>2 DEF Lines!Piece

\* At the end, what had been read and not handed out (file_reader.h:213-222).
LEMMA EndRest ==
  ASSUME ReaderInv, ReadEnd
  PROVE  /\ Lines!Rest(buf_end_) /\ ~eof_ /\ eof_' /\ pc' = "idle" /\ buf_end_ \in 0..Size
         /\ line' = [at |-> consumed, len |-> buf_end_] /\ UNCHANGED file
         /\ failed' \/ (consumed' = Len(file) /\ UNCHANGED failed)
<1> USE Sizes
<1>0. TypeOK /\ PcInv /\ Window
  BY DEF ReaderInv
<1>1. /\ ~eof_ /\ buf_pos_ = 0 /\ consumed + buf_end_ = offset /\ buf_end_ \in 0..Size
      /\ offset <= Len(file) /\ Lines!Uncut(consumed, buf_end_)
  BY <1>0 DEF ReadEnd, PcInv, TypeOK, Window
<1>2. /\ line' = [at |-> consumed, len |-> buf_end_] /\ consumed' = consumed + buf_end_
      /\ eof_' = TRUE /\ pc' = "idle" /\ UNCHANGED file
  BY DEF ReadEnd
<1>3. failed' \/ (offset = Len(file) /\ UNCHANGED failed)
  BY DEF ReadEnd
<1> QED BY <1>1, <1>2, <1>3 DEF Lines!Rest

\* A step that hands out a line is a step of LineStream, any other changes
\* nothing that LineStream sees.
LEMMA StreamStep == ReaderInv /\ [Next]_vars => [Lines!Next]_(Lines!streamVars)
<1> SUFFICES ASSUME ReaderInv, [Next]_vars
             PROVE  Lines!Next \/ UNCHANGED <<file, consumed, line, eof_>>
  BY DEF Lines!streamVars
<1>1. CASE NextLine \/ Miss \/ UNCHANGED vars \/ Interrupted
  BY <1>1 DEF NextLine, Miss, Interrupted, vars, lineVars, bufVars
<1>2. ASSUME NEW n \in 1..Size, Read(n) PROVE UNCHANGED <<file, consumed, line, eof_>>
  BY <1>2 DEF Read, lineVars
<1>3. CASE BufferFull
  <2>1. Size \in 0..Size
    BY Sizes
  <2> QED BY <1>3, <2>1, FullPiece DEF Lines!Next
<1>4. CASE ReadEnd
  BY <1>4, EndRest DEF Lines!Next
<1>5. ASSUME NEW n \in 0..Size, Hit(n) PROVE Lines!Next
  BY <1>5, HitLine DEF Lines!Next
<1> QED
  BY <1>1, <1>2, <1>3, <1>4, <1>5 DEF Next, Step

\* FileReader implements LineStream: its lines are the file, cut at the
\* delimiters and at full buffers only, in order (file_reader.h:188-226).
THEOREM ReaderCorrect == Spec => KeepsLines
  BY ReaderInvariance, StreamInit, StreamStep, PTL DEF Spec, KeepsLines, Lines!Spec

-----------------------------------------------------------------------------
(* The parser.  First what a text of smaps is like.                        *)

LEMMA TextFacts ==
  ASSUME file \in Files
  PROVE  /\ file \in Seq(Bytes) /\ Len(file) \in Nat /\ SmapsText(file)
         /\ Len(Delim) = 1 /\ Size \in Nat /\ Size >= 1 /\ VmFlags \notin Heads
  BY ReaderAssumption, SMapsAssumption

\* A delimiter is one byte.
LEMMA DelimByte ==
  ASSUME file \in Files, NEW p \in Nat
  PROVE  Lines!DelimAt(p) <=> p + 1 <= Len(file) /\ file[p + 1] = Delim[1]
<1>1. Len(Delim) = 1
  BY TextFacts
<1>2. 1..Len(Delim) = {1}
  BY <1>1
<1> QED BY <1>1, <1>2 DEF Lines!DelimAt

LEMMA UncutBytes ==
  ASSUME file \in Files, NEW p \in Nat, NEW n \in Nat, p + n <= Len(file), Lines!Uncut(p, n)
  PROVE  \A q \in (p + 1)..(p + n) : file[q] # Delim[1]
<1> SUFFICES ASSUME NEW q \in (p + 1)..(p + n) PROVE file[q] # Delim[1]
  OBVIOUS
<1>1. Len(Delim) = 1 /\ Len(file) \in Nat
  BY TextFacts
<1> DEFINE k == q - p - 1
<1>2. /\ k \in 0..n /\ k + Len(Delim) <= n /\ p + k = q - 1
      /\ q - 1 \in Nat /\ q <= Len(file) /\ (q - 1) + 1 = q
  BY <1>1
<1>3. ~Lines!DelimAt(p + k)
  BY <1>2 DEF Lines!Uncut
<1> HIDE DEF k
<1> QED BY <1>2, <1>3, DelimByte

\* From the beginning of a line to its end: the next line begins there or the
\* text ends, and what the next line is follows from what this one is.
LEMMA NextStart ==
  ASSUME file \in Files, NEW p \in Starts(file), NEW e \in Nat, p < e, e <= Len(file),
         file[e] = Delim[1], \A q \in (p + 1)..(e - 1) : file[q] # Delim[1]
  PROVE  /\ e \in Starts(file) \cup {Len(file)}
         /\ \A r \in Starts(file) : r <= p \/ e <= r
         /\ e \in Starts(file) => (file[e + 1] \in Heads <=> file[p + 1] = VmFlags)
         /\ file[p + 1] # VmFlags => e \in Starts(file)
<1>1. /\ p \in Nat /\ Len(file) \in Nat
  BY TextFacts DEF Starts
<1>2. e \in Starts(file) \cup {Len(file)}
  BY <1>1 DEF Starts
<1>3. ASSUME NEW r \in Starts(file) PROVE r <= p \/ e <= r
  <2>1. r \in Nat /\ (r = 0 \/ file[r] = Delim[1])
    BY <1>1 DEF Starts
  <2>2. p < r /\ r < e => r \in (p + 1)..(e - 1)
    BY <1>1, <2>1
  <2> QED BY <1>1, <2>1, <2>2
<1>4. e \in Starts(file) => (file[e + 1] \in Heads <=> file[p + 1] = VmFlags)
  BY <1>3, TextFacts DEF SmapsText
<1>5. ASSUME file[p + 1] # VmFlags PROVE e \in Starts(file)
  <2>1. PICK r \in Starts(file) : ~(r <= p)
    BY <1>5, TextFacts DEF SmapsText
  <2>2. r < Len(file) /\ r \in Nat /\ e <= r
    BY <1>1, <1>3, <2>1 DEF Starts
  <2> QED BY <1>1, <1>2, <2>2
<1> QED BY <1>2, <1>3, <1>4, <1>5

\* Every line that begins ends within the buffer's size, and is not empty.
LEMMA LineEnds ==
  ASSUME file \in Files, NEW p \in Starts(file)
  PROVE  /\ p \in Nat /\ p < Len(file) /\ file[p + 1] # Delim[1]
         /\ \E q \in (p + 1)..Len(file) : q - p <= Size /\ file[q] = Delim[1]
  BY TextFacts DEF SmapsText, Starts

-----------------------------------------------------------------------------
(* What the reader's steps do to the parser's view of the text.            *)

\* A compaction of the buffer loses nothing (file_reader.h:177-182).
LEMMA Compacted ==
  ASSUME TypeOK, PcInv, Window, pc = "idle",
         buffer' = Moved, buf_pos_' = 0, buf_end_' = buf_end_ - buf_pos_, UNCHANGED readerRest
  PROVE  TypeOK' /\ PcInv' /\ Window'
<1> USE Sizes
<1>1. /\ buf_pos_ \in Nat /\ buf_end_ \in Nat /\ buf_pos_ <= buf_end_ /\ buf_end_ <= Size
      /\ buffer \in [1..Size -> Bytes \cup {0}]
  BY DEF TypeOK
<1>2. UNCHANGED <<file, offset, eof_, pc, view, line, consumed, failed>>
  BY DEF readerRest, lineVars
<1>3. \A i \in 1..(buf_end_ - buf_pos_) : buf_pos_ + i \in 1..Size /\ i \in 1..Size
  BY <1>1
<1>4. /\ buffer' \in [1..Size -> Bytes \cup {0}]
      /\ \A i \in 1..(buf_end_ - buf_pos_) : buffer'[i] = buffer[buf_pos_ + i]
  BY <1>1, <1>3 DEF Moved
<1>5. TypeOK'
  BY <1>1, <1>2, <1>4 DEF TypeOK
<1>6. PcInv'
  BY <1>2 DEF PcInv
<1>7. Window'
  <2>1. SUFFICES ASSUME ~eof_ PROVE Window'
    BY <1>2 DEF Window
  <2>2. offset' = consumed' + (buf_end_' - buf_pos_')
    BY <1>1, <1>2, <2>1 DEF Window
  <2>3. \A i \in 1..(buf_end_' - buf_pos_') : buffer'[buf_pos_' + i] = file'[consumed' + i]
    BY <1>1, <1>2, <1>4, <2>1 DEF Window
  <2> QED BY <2>2, <2>3 DEF Window
<1> QED BY <1>5, <1>6, <1>7

\* While a line is asked for, the reader is in its own invariant.
LEMMA AskedReader == BufferInv /\ asked => ReaderInv
  BY DEF BufferInv, ReaderInv

\* The reader goes on towards the line, or hands it out: a whole line of the
\* text, unless an error came.
LEMMA ReaderAnswers ==
  ASSUME BufferInv, ModeInv, PlaceInv, Reader
  PROVE  /\ BufferInv' /\ LineInv' /\ here' = here /\ UNCHANGED <<file, entryVars>>
         /\ ~eof_ /\ pc # "idle"
<1>0. /\ asked /\ asked' = asked /\ pc # "idle" /\ (Step \/ Interrupted) /\ UNCHANGED entryVars
      /\ ~eof_ /\ ~failed
  BY DEF Reader, entryVars, BufferInv, PcInv
<1>1. ReaderInv /\ ReaderInv'
  <2>1. ReaderInv
    BY <1>0, AskedReader
  <2>2. [Next]_vars
    BY <1>0 DEF Next
  <2> QED BY <2>1, <2>2, ReaderStep
<1>2. file \in Files /\ consumed \in Nat /\ consumed <= Len(file) /\ Len(file) \in Nat
  BY TextFacts DEF BufferInv, TypeOK
<1>3. here = consumed /\ (consumed \in Starts(file) \/ consumed = Len(file))
  BY <1>0 DEF here, PlaceInv, ModeInv, Reader
<1>4. CASE pc' # "idle"
  <2>1. UNCHANGED <<file, consumed, line, eof_, failed>>
    BY <1>0, <1>4
       DEF Step, Interrupted, NextLine, Miss, BufferFull, ReadEnd, Hit, Read, vars, lineVars, bufVars
  <2>2. BufferInv'
    BY <1>0, <1>1, <2>1 DEF BufferInv, ReaderInv
  <2>3. LineInv' /\ here' = here
    BY <1>0, <1>3, <1>4, <2>1 DEF LineInv, here
  <2> QED BY <1>0, <2>1, <2>2, <2>3
<1>5. CASE pc' = "idle"
  <2>1. \/ BufferFull \/ ReadEnd \/ \E n \in 0..Size : Hit(n)
    BY <1>0, <1>5 DEF Step, Interrupted, NextLine, Miss, Read, vars
  <2>2. ~BufferFull
    <3>1. SUFFICES ASSUME BufferFull PROVE FALSE
      OBVIOUS
    <3>2. consumed + Size <= Len(file) /\ Lines!Uncut(consumed, Size)
      BY <1>1, <3>1, FullPiece DEF Lines!Piece
    <3>3. \A q \in (consumed + 1)..(consumed + Size) : file[q] # Delim[1]
      <4>1. Size \in Nat
        BY Sizes
      <4> QED BY <1>2, <3>2, <4>1, UncutBytes, Zenon
    <3>4. consumed \in Starts(file)
      BY <1>2, <1>3, <3>2, TextFacts
    <3> QED BY <1>2, <3>3, <3>4, LineEnds, TextFacts
  <2>3. ASSUME NEW n \in 0..Size, Hit(n)
        PROVE  /\ line' = [at |-> consumed, len |-> n] /\ UNCHANGED <<file, failed>> /\ ~eof_'
               /\ LineInv'
    <3>1. /\ Lines!Line(n) /\ line' = [at |-> consumed, len |-> n] /\ UNCHANGED <<file, failed>>
          /\ n \in Nat
      BY <1>1, <2>3, HitLine, Sizes
    <3>2. /\ consumed' = consumed + n + 1 /\ eof_' = eof_ /\ Lines!DelimAt(consumed + n)
          /\ Lines!Uncut(consumed, n)
      <4>0. Len(Delim) = 1
        BY <1>2, TextFacts
      <4>1. n + Len(Delim) - 1 = n /\ Len(Delim) = 1
        BY <3>1, <4>0
      <4> QED BY <1>2, <3>1, <4>1 DEF Lines!Line
    <3>3. consumed + n + 1 <= Len(file) /\ file[consumed + n + 1] = Delim[1]
      BY <1>2, <3>1, <3>2, DelimByte
    <3>4. \A q \in (consumed + 1)..(consumed + n) : file[q] # Delim[1]
      <4>1. consumed + n <= Len(file)
        BY <1>2, <3>1, <3>3
      <4> QED BY <1>2, <3>1, <3>2, <4>1, UncutBytes, Zenon
    <3>5. consumed \in Starts(file) /\ n # 0
      BY <1>2, <1>3, <3>1, <3>3, LineEnds
    <3> QED BY <1>0, <1>2, <3>1, <3>2, <3>3, <3>4, <3>5 DEF LineInv
  <2>4. ASSUME ReadEnd
        PROVE  /\ line' = [at |-> consumed, len |-> buf_end_] /\ UNCHANGED file
               /\ eof_' /\ LineInv'
    <3>1. /\ Lines!Rest(buf_end_) /\ line' = [at |-> consumed, len |-> buf_end_]
          /\ UNCHANGED file /\ eof_' /\ buf_end_ \in Nat
          /\ failed' \/ (consumed' = Len(file) /\ UNCHANGED failed)
      BY <1>1, <2>4, EndRest, Sizes
    <3>2. /\ consumed' = consumed + buf_end_ /\ consumed + buf_end_ <= Len(file)
          /\ Lines!Uncut(consumed, buf_end_)
      BY <3>1 DEF Lines!Rest
    <3>3. \A q \in (consumed + 1)..(consumed + buf_end_) : file[q] # Delim[1]
      BY <1>2, <3>1, <3>2, UncutBytes, Zenon
    <3>4. ~failed' => consumed = Len(file) /\ buf_end_ = 0
      BY <1>2, <1>3, <3>1, <3>2, <3>3, LineEnds
    <3>5. buf_end_ > 0 => consumed \in Starts(file)
      BY <1>2, <1>3, <3>1, <3>2
    <3> QED BY <1>0, <3>1, <3>4, <3>5 DEF LineInv
  <2>5. line'.at = consumed /\ UNCHANGED file /\ LineInv' /\ (failed' => eof_')
    BY <1>0, <2>1, <2>2, <2>3, <2>4
  <2>6. BufferInv'
    BY <1>0, <1>1, <2>5 DEF BufferInv, ReaderInv
  <2>7. here' = here
    BY <1>0, <1>3, <1>5, <2>5 DEF here
  <2> QED BY <1>0, <2>5, <2>6, <2>7
<1> QED BY <1>4, <1>5

-----------------------------------------------------------------------------
(* The parser's own steps.                                                 *)

LEMMA SInitial == SInit => SInv
<1> SUFFICES ASSUME SInit PROVE SInv
  OBVIOUS
<1>1. /\ Init /\ mode = "out" /\ asked = FALSE /\ fields = <<>> /\ returned = {}
      /\ file \in Files /\ pc = "idle" /\ eof_ = FALSE /\ failed = FALSE /\ consumed = 0
  BY DEF SInit, Init
<1>2. BufferInv
  BY <1>1, ReaderInit DEF BufferInv, ReaderInv
<1>3. ModeInv /\ LineInv /\ WholeEntry /\ AllReturned
  <2>1. <<>> \in Seq([view : Spans, line : Spans])
    OBVIOUS
  <2>2. ModeInv
    BY <1>1, <2>1 DEF ModeInv
  <2> QED BY <1>1, <2>2 DEF LineInv, WholeEntry, AllReturned
<1>4. PlaceInv
  <2>1. Len(file) \in Nat
    BY <1>1, TextFacts
  <2>2. here = 0 /\ (0 \in Starts(file) \/ Len(file) = 0)
    BY <1>1, <2>1 DEF here, Starts
  <2>3. 0 \in Starts(file) => file[0 + 1] \in Heads
    BY <1>1, TextFacts DEF SmapsText
  <2>4. Before(0) = {}
    BY <2>1 DEF Before, WantedAt, Starts
  <2> QED BY <1>1, <2>2, <2>3, <2>4 DEF PlaceInv
<1> QED BY <1>2, <1>3, <1>4 DEF SInv

\* While the place and the text stay, so does what lies behind it.
LEMMA SamePlace ==
  ASSUME UNCHANGED <<file, returned>>, here' = here
  PROVE  Before(here)' = Before(here) /\ WantedAt' = WantedAt
  BY DEF Before, WantedAt, Starts

\* What the parser finds when the reader has answered with a line: a line of
\* the text, its first byte in the buffer, and behind it the next line.
LEMMA Answered ==
  ASSUME BufferInv, ModeInv, LineInv, Got
  PROVE  /\ line.at \in Starts(file) /\ line.at \in Nat /\ line.len \in Nat /\ line \in Spans
         /\ here = line.at /\ view.len > 0 /\ view \in Spans /\ First = file[line.at + 1]
         /\ consumed \in Nat
         /\ ~eof_ => /\ consumed = line.at + line.len + 1
                     /\ consumed \in Starts(file) \cup {Len(file)}
                     /\ \A r \in Starts(file) : r <= line.at \/ consumed <= r
                     /\ consumed \in Starts(file) =>
                          (file[consumed + 1] \in Heads <=> file[line.at + 1] = VmFlags)
                     /\ file[line.at + 1] # VmFlags => consumed \in Starts(file)
<1>1. /\ asked /\ pc = "idle" /\ ~(eof_ /\ view.len = 0) /\ view.len = line.len
      /\ line \in Spans /\ view \in Spans /\ consumed \in 0..Len(file)
      /\ \A i \in 1..view.len : buffer[view.at + i] = file[line.at + i]
      /\ file \in Files
  BY DEF Got, BufferInv, TypeOK, ViewIsLine
<1>2. /\ view.len \in Nat /\ view.at \in Nat /\ line.at \in Nat /\ line.len \in Nat
      /\ consumed \in Nat /\ consumed <= Len(file)
  BY <1>1, TextFacts DEF Spans
<1>3. view.len > 0 /\ line.at \in Starts(file)
  BY <1>1, <1>2 DEF LineInv
<1>4. First = file[line.at + 1]
  BY <1>1, <1>2, <1>3 DEF First
<1>5. ~eof_ => /\ consumed = line.at + line.len + 1 /\ file[consumed] = Delim[1]
               /\ \A q \in (line.at + 1)..(consumed - 1) : file[q] # Delim[1]
  BY <1>1 DEF LineInv
<1>6. here = line.at
  BY <1>1 DEF here
<1>7. ~eof_ => line.at < consumed
  BY <1>2, <1>5
<1> QED BY <1>1, <1>2, <1>3, <1>4, <1>5, <1>6, <1>7, NextStart

\* A call of NextEntry.
LEMMA CallStep == ASSUME SInv, NextEntry PROVE SInv'
<1>1. /\ mode = "out" /\ mode' = "header" /\ fields' = <<>> /\ UNCHANGED <<asked, returned>>
      /\ buffer' = Moved /\ buf_pos_' = 0 /\ buf_end_' = buf_end_ - buf_pos_
      /\ UNCHANGED readerRest
      /\ UNCHANGED <<file, eof_, pc, view, line, consumed, failed>>
  BY DEF NextEntry, readerRest, lineVars
<1>2. /\ BufferInv /\ ModeInv /\ PlaceInv /\ ~asked /\ pc = "idle" /\ (eof_ => failed)
  BY <1>1 DEF SInv, ModeInv
<1>3. BufferInv'
  BY <1>1, <1>2, Compacted DEF BufferInv
<1>4. ModeInv' /\ LineInv' /\ WholeEntry' /\ AllReturned'
  BY <1>1, <1>2 DEF ModeInv, LineInv, WholeEntry, AllReturned
<1>5. here' = here
  BY <1>1 DEF here
<1>6. PlaceInv'
  BY <1>1, <1>2, <1>5, SamePlace DEF PlaceInv
<1> QED BY <1>3, <1>4, <1>6 DEF SInv

\* A line is asked for.
LEMMA AskStep == ASSUME SInv, Ask PROVE SInv'
<1>1. /\ mode \in {"header", "fields", "skip"} /\ ~asked /\ asked' = TRUE /\ ~eof_
      /\ pc = "idle" /\ pc' = "scan" /\ UNCHANGED <<mode, fields, returned>>
      /\ UNCHANGED <<file, offset, buffer, buf_pos_, buf_end_, eof_, view, line, consumed, failed>>
  BY DEF Ask, NextLine, bufVars, lineVars
<1>2. BufferInv /\ ModeInv /\ PlaceInv
  BY DEF SInv
<1>3. BufferInv'
  BY <1>1, <1>2 DEF BufferInv, TypeOK, PcInv, Window, ViewIsLine
<1>4. ModeInv' /\ LineInv' /\ WholeEntry' /\ AllReturned'
  BY <1>1, <1>2 DEF ModeInv, LineInv, WholeEntry, AllReturned
<1>5. here' = here
  BY <1>1 DEF here
<1>6. EntryInv => EntryInv'
  BY <1>1, <1>5, SamePlace DEF EntryInv, Before
<1>7. PlaceInv'
  BY <1>1, <1>2, <1>5, <1>6, SamePlace DEF PlaceInv
<1> QED BY <1>3, <1>4, <1>7 DEF SInv

\* A step of the reader.
LEMMA AnswerStep == ASSUME SInv, Reader PROVE SInv'
<1>1. BufferInv /\ ModeInv /\ PlaceInv /\ asked /\ asked' = asked /\ UNCHANGED <<mode, fields, returned>>
  BY DEF SInv, Reader, entryVars
<1>2. /\ BufferInv' /\ LineInv' /\ here' = here /\ UNCHANGED file /\ ~eof_
  BY <1>1, ReaderAnswers
<1>3. mode \in {"header", "fields", "skip"}
  BY <1>1 DEF ModeInv
<1>4. ModeInv' /\ WholeEntry' /\ AllReturned'
  BY <1>1, <1>3 DEF ModeInv, WholeEntry, AllReturned
<1>5. EntryInv => EntryInv'
  BY <1>1, <1>2, SamePlace DEF EntryInv, Before
<1>6. PlaceInv'
  BY <1>1, <1>2, <1>3, <1>5, SamePlace DEF PlaceInv
<1> QED BY <1>2, <1>4, <1>6 DEF SInv

\* Handling a line leaves the place behind it.
LEMMA PlaceAfter ==
  ASSUME asked' = FALSE, UNCHANGED <<file, consumed>>
  PROVE  /\ here' = consumed /\ Starts(file)' = Starts(file) /\ WantedAt' = WantedAt
         /\ \A p : Before(p)' = Before(p)
  BY DEF here, Before, WantedAt, Starts

\* No mapping of interest begins between two neighbours, nor at the first.
LEMMA NoneBetween ==
  ASSUME NEW p \in Nat, NEW q \in Nat, p < q,
         \A w \in WantedAt : w \in Nat /\ (w <= p \/ q <= w) /\ w # p
  PROVE  Before(q) = Before(p)
<1>1. \A w \in WantedAt : w < q <=> w < p
  OBVIOUS
<1> QED BY <1>1 DEF Before

\* The mapping's line (maps_parser.cc:246-253).
LEMMA HeaderStep == ASSUME SInv, Header PROVE SInv'
<1>1. /\ BufferInv /\ ModeInv /\ LineInv /\ PlaceInv /\ Got /\ mode = "header"
      /\ asked /\ pc = "idle" /\ asked' = FALSE /\ UNCHANGED <<vars, returned>>
  BY DEF SInv, Header, Handled, Got
<1>2. UNCHANGED <<file, offset, buffer, buf_pos_, buf_end_, eof_, pc, view, line, consumed, failed>>
  BY <1>1 DEF vars, bufVars, lineVars
<1>3. BufferInv'
  BY <1>1, <1>2 DEF BufferInv, TypeOK, PcInv, Window, Lines!Uncut, Lines!DelimAt
<1>4. /\ line.at \in Starts(file) /\ line.at \in Nat /\ line \in Spans /\ view \in Spans
      /\ view.len # 0 /\ First = file[line.at + 1] /\ here = line.at /\ consumed \in Nat
      /\ line.len \in Nat
  BY <1>1, Answered
<1>5. ~eof_ => /\ consumed = line.at + line.len + 1
               /\ consumed \in Starts(file) \cup {Len(file)}
               /\ \A r \in Starts(file) : r <= line.at \/ consumed <= r
               /\ consumed \in Starts(file) =>
                    (file[consumed + 1] \in Heads <=> file[line.at + 1] = VmFlags)
               /\ file[line.at + 1] # VmFlags => consumed \in Starts(file)
  BY <1>1, Answered
<1>6. First \in Heads /\ returned = Before(line.at) /\ First # VmFlags
  <2>1. First \in Heads /\ returned = Before(line.at)
    BY <1>1, <1>4 DEF PlaceInv
  <2> QED BY <2>1, SMapsAssumption
<1>7. eof_ => failed
  BY <1>1, <1>4 DEF LineInv, Got, BufferInv, ViewIsLine
<1>8. /\ here' = consumed /\ Starts(file)' = Starts(file) /\ WantedAt' = WantedAt
      /\ \A p : Before(p)' = Before(p)
  BY <1>1, <1>2, PlaceAfter
<1>9. LineInv'
  BY <1>1 DEF LineInv
<1>10. CASE First \in Wanted /\ Handled("fields", <<[view |-> view, line |-> line]>>)
  <2> DEFINE e == [view |-> view, line |-> line]
  <2>1. /\ mode' = "fields" /\ fields' = <<e>> /\ e \in [view : Spans, line : Spans]
    BY <1>4, <1>10 DEF Handled
  <2>2. ModeInv'
    <3>1. fields' \in Seq([view : Spans, line : Spans])
      BY <2>1
    <3> QED BY <1>1, <1>2, <1>7, <2>1, <3>1 DEF ModeInv
  <2>3. WholeEntry' /\ AllReturned'
    BY <2>1 DEF WholeEntry, AllReturned
  <2>4. ASSUME ~eof_ PROVE PlaceInv'
    <3>1. line.at \in WantedAt
      BY <1>4, <1>10 DEF WantedAt
    <3>2. Len(fields') = 1 /\ fields'[1] = e /\ e.line = line
      BY <2>1
    <3>3. EntryInv'
      <4>1. \A p \in WantedAt : p <= line.at \/ consumed <= p
        BY <1>5, <2>4 DEF WantedAt
      <4>2. here' = line.at + line.len + 1
        BY <1>5, <1>8, <2>4
      <4>3. fields' # <<>>
        BY <2>1
      <4>4. /\ fields'[1].line = line /\ returned' = Before(line.at)
            /\ file' = file /\ Before(line.at)' = Before(line.at)
        BY <1>1, <1>2, <1>6, <1>8, <3>2
      <4>5. \A i \in 1..Len(fields') : i = 1
        BY <3>2
      <4>6. returned' = Before(fields[1].line.at)'
        BY <1>2, <1>8, <4>4 DEF Before
      <4>7. \A i \in 1..Len(fields') :
              /\ file'[fields'[i].line.at + 1] # VmFlags
              /\ i > 1 => fields'[i].line.at = fields'[i - 1].line.at + fields'[i - 1].line.len + 1
        BY <1>4, <1>6, <4>4, <4>5
      <4>8. fields'[1].line.at < here'
        BY <1>4, <4>2, <4>4
      <4> QED BY <1>8, <3>1, <3>2, <4>1, <4>2, <4>3, <4>4, <4>6, <4>7, <4>8 DEF EntryInv
    <3>4. consumed \in Starts(file) /\ file[consumed + 1] \notin Heads
      BY <1>4, <1>5, <1>6, <2>4
    <3> QED BY <1>2, <1>8, <2>1, <3>3, <3>4 DEF PlaceInv
  <2>5. eof_ => PlaceInv'
    BY <1>1, <1>2 DEF PlaceInv
  <2> QED BY <1>3, <1>9, <2>2, <2>3, <2>4, <2>5 DEF SInv
<1>11. CASE First \in Unwanted /\ Handled("skip", fields)
  <2>1. mode' = "skip" /\ fields' = fields
    BY <1>11 DEF Handled
  <2>2. ModeInv' /\ WholeEntry' /\ AllReturned'
    BY <1>1, <1>2, <1>7, <2>1 DEF ModeInv, WholeEntry, AllReturned
  <2>3. ASSUME ~eof_ PROVE PlaceInv'
    <3>1. consumed \in Starts(file) /\ file[consumed + 1] \notin Heads
      BY <1>4, <1>5, <1>6, <2>3
    <3>2. line.at \notin WantedAt
      BY <1>4, <1>11, SMapsAssumption DEF WantedAt
    <3>3. Before(consumed) = Before(line.at)
      <4>1. \A p \in WantedAt : p \in Nat /\ (p <= line.at \/ consumed <= p) /\ p # line.at
        BY <1>5, <2>3, <3>2, <1>1, TextFacts DEF WantedAt, Starts, BufferInv
      <4>2. line.at < consumed
        BY <1>4, <1>5, <2>3
      <4> QED BY <1>4, <4>1, <4>2, NoneBetween
    <3>4. returned' = Before(here)'
      BY <1>1, <1>2, <1>6, <1>8, <3>3 DEF Before
    <3> QED BY <1>2, <1>8, <2>1, <3>1, <3>4 DEF PlaceInv
  <2>4. eof_ => PlaceInv'
    BY <1>1, <1>2 DEF PlaceInv
  <2> QED BY <1>3, <1>9, <2>2, <2>3, <2>4 DEF SInv
<1> QED BY <1>4, <1>6, <1>10, <1>11 DEF Header, Heads

\* A line of a mapping of no interest (maps_parser.cc:247-253).
LEMMA SkipStep == ASSUME SInv, Skip PROVE SInv'
<1>1. /\ BufferInv /\ ModeInv /\ LineInv /\ PlaceInv /\ Got /\ mode = "skip"
      /\ asked /\ pc = "idle" /\ asked' = FALSE /\ UNCHANGED <<readerRest, returned>>
      /\ fields' = fields
  BY DEF SInv, Skip, Handled, Got
<1>2. UNCHANGED <<file, offset, eof_, pc, view, line, consumed, failed>>
  BY <1>1 DEF readerRest, lineVars
<1>3. BufferInv'
  <2>1. CASE UNCHANGED bufVars
    BY <1>1, <1>2, <2>1 DEF BufferInv, bufVars, TypeOK, PcInv, Window, Lines!Uncut, Lines!DelimAt
  <2>2. CASE buffer' = Moved /\ buf_pos_' = 0 /\ buf_end_' = buf_end_ - buf_pos_
    BY <1>1, <1>2, <2>2, Compacted DEF BufferInv
  <2> QED BY <2>1, <2>2 DEF Skip
<1>4. /\ line.at \in Starts(file) /\ line.at \in Nat /\ view.len # 0 /\ view.len > 0
      /\ First = file[line.at + 1] /\ here = line.at /\ consumed \in Nat /\ line.len \in Nat
  BY <1>1, Answered
<1>5. ~eof_ => /\ consumed = line.at + line.len + 1
               /\ consumed \in Starts(file) \cup {Len(file)}
               /\ \A r \in Starts(file) : r <= line.at \/ consumed <= r
               /\ consumed \in Starts(file) =>
                    (file[consumed + 1] \in Heads <=> file[line.at + 1] = VmFlags)
               /\ file[line.at + 1] # VmFlags => consumed \in Starts(file)
  BY <1>1, Answered
<1>6. First \notin Heads /\ returned = Before(line.at)
  BY <1>1, <1>4 DEF PlaceInv
<1>7. eof_ => failed
  BY <1>1, <1>4 DEF LineInv, Got, BufferInv, ViewIsLine
<1>8. /\ here' = consumed /\ Starts(file)' = Starts(file) /\ WantedAt' = WantedAt
  BY <1>1, <1>2, PlaceAfter
<1>9. LineInv'
  BY <1>1 DEF LineInv
<1>10. mode' = IF First = VmFlags THEN "header" ELSE "skip"
  BY <1>4 DEF Skip, Handled
<1>11. ModeInv' /\ WholeEntry' /\ AllReturned'
  BY <1>1, <1>2, <1>7, <1>10 DEF ModeInv, WholeEntry, AllReturned
<1>12. ASSUME ~eof_ PROVE PlaceInv'
  <2>1. line.at \notin WantedAt
    BY <1>4, <1>6 DEF WantedAt, Heads
  <2>2. Before(consumed) = Before(line.at)
    <3>1. \A p \in WantedAt : p \in Nat /\ (p <= line.at \/ consumed <= p) /\ p # line.at
      BY <1>1, <1>5, <1>12, <2>1, TextFacts DEF WantedAt, Starts, BufferInv
    <3>2. line.at < consumed
      BY <1>4, <1>5, <1>12
    <3> QED BY <1>4, <3>1, <3>2, NoneBetween
  <2>3. returned' = Before(here)'
    BY <1>1, <1>2, <1>6, <1>8, <2>2 DEF Before
  <2>4. CASE First = VmFlags
    BY <1>2, <1>4, <1>5, <1>8, <1>10, <1>12, <2>3, <2>4 DEF PlaceInv
  <2>5. CASE First # VmFlags
    BY <1>2, <1>4, <1>5, <1>8, <1>10, <1>12, <2>3, <2>5 DEF PlaceInv
  <2> QED BY <2>4, <2>5
<1>13. eof_ => PlaceInv'
  BY <1>1, <1>2 DEF PlaceInv
<1> QED BY <1>3, <1>9, <1>11, <1>12, <1>13 DEF SInv

\* Appending leaves the lines before where they are.
LEMMA Appended ==
  ASSUME NEW R, NEW s \in Seq(R), NEW x \in R
  PROVE  /\ Append(s, x) \in Seq(R) /\ Len(Append(s, x)) = Len(s) + 1 /\ Len(s) \in Nat
         /\ s # <<>> => Len(s) >= 1 /\ 1 \in 1..Len(s)
         /\ \A i \in 1..Len(s) : s[i] \in R /\ Append(s, x)[i] = s[i]
         /\ Append(s, x)[Len(s) + 1] = x
  OBVIOUS

\* A line of the entry (maps_parser.cc:254-265).
LEMMA FieldStep == ASSUME SInv, Field PROVE SInv'
<1> DEFINE e == [view |-> view, line |-> line]
           last == view.len > 0 /\ First = VmFlags
<1>1. /\ BufferInv /\ ModeInv /\ LineInv /\ PlaceInv /\ Got /\ mode = "fields"
      /\ asked /\ pc = "idle" /\ asked' = FALSE /\ UNCHANGED vars
      /\ fields' = Append(fields, e) /\ mode' = IF last THEN "out" ELSE "fields"
      /\ returned' = returned \cup (IF last THEN {fields[1].line.at} ELSE {})
  BY DEF SInv, Field, Handled, Got
<1>2. UNCHANGED <<file, offset, buffer, buf_pos_, buf_end_, eof_, pc, view, line, consumed, failed>>
  BY <1>1 DEF vars, bufVars, lineVars
<1>3. BufferInv'
  BY <1>1, <1>2 DEF BufferInv, TypeOK, PcInv, Window, Lines!Uncut, Lines!DelimAt
<1>4. /\ line.at \in Starts(file) /\ line.at \in Nat /\ line \in Spans /\ view \in Spans
      /\ view.len > 0 /\ view.len # 0 /\ First = file[line.at + 1] /\ here = line.at
      /\ consumed \in Nat /\ line.len \in Nat
  BY <1>1, Answered
<1>5. ~eof_ => /\ consumed = line.at + line.len + 1
               /\ consumed \in Starts(file) \cup {Len(file)}
               /\ \A r \in Starts(file) : r <= line.at \/ consumed <= r
               /\ consumed \in Starts(file) =>
                    (file[consumed + 1] \in Heads <=> file[line.at + 1] = VmFlags)
               /\ file[line.at + 1] # VmFlags => consumed \in Starts(file)
  BY <1>1, Answered
<1>6. First \notin Heads /\ EntryInv
  BY <1>1, <1>4 DEF PlaceInv
<1>7. eof_ => failed
  BY <1>1, <1>4 DEF LineInv, Got, BufferInv, ViewIsLine
<1>8. /\ here' = consumed /\ Starts(file)' = Starts(file) /\ WantedAt' = WantedAt
      /\ \A p : Before(p)' = Before(p)
  BY <1>1, <1>2, PlaceAfter
<1>9. LineInv'
  BY <1>1 DEF LineInv
<1> DEFINE n == Len(fields)
<1>10. /\ fields \in Seq([view : Spans, line : Spans]) /\ n \in Nat /\ n >= 1
       /\ fields' \in Seq([view : Spans, line : Spans]) /\ Len(fields') = n + 1
       /\ \A i \in 1..n : fields'[i] = fields[i] /\ fields[i] \in [view : Spans, line : Spans]
       /\ fields'[n + 1] = e /\ e.line = line /\ EntryInv /\ 1 \in 1..n /\ n + 1 \in Nat
  <2>1. fields \in Seq([view : Spans, line : Spans]) /\ fields # <<>>
    BY <1>1, <1>6 DEF ModeInv, EntryInv
  <2>2. e \in [view : Spans, line : Spans] /\ e.line = line
    BY <1>4
  <2> HIDE DEF e
  <2> DEFINE R == [view : Spans, line : Spans]
  <2>3. /\ Append(fields, e) \in Seq(R) /\ Len(Append(fields, e)) = n + 1
        /\ n \in Nat /\ n >= 1 /\ 1 \in 1..n
        /\ \A i \in 1..n : fields[i] \in R /\ Append(fields, e)[i] = fields[i]
        /\ Append(fields, e)[n + 1] = e
    <3>1. fields \in Seq(R) /\ e \in R /\ fields # <<>>
      BY <2>1, <2>2
    <3> HIDE DEF R
    <3> QED BY <3>1, Appended
  <2>4. n + 1 \in Nat
    BY <2>3
  <2> HIDE DEF n
  <2> QED BY <1>1, <1>6, <2>1, <2>2, <2>3, <2>4
<1>11. /\ fields[1].line.at \in WantedAt /\ fields[1].line.at \in Nat
       /\ fields[1].line.at < line.at
       /\ returned = Before(fields[1].line.at)
       /\ \A p \in WantedAt : p <= fields[1].line.at \/ line.at <= p
       /\ line.at = fields[n].line.at + fields[n].line.len + 1
       /\ fields'[1] = fields[1]
  <2>1. fields[1] \in [view : Spans, line : Spans]
    BY <1>10
  <2>2. fields[1].line.at \in Nat /\ fields'[1] = fields[1]
    BY <1>10, <2>1 DEF Spans
  <2> QED BY <1>4, <1>6, <2>2 DEF EntryInv
<1>12. \A i \in 1..n : /\ file[fields[i].line.at + 1] # VmFlags
                       /\ i > 1 => fields[i].line.at = fields[i - 1].line.at + fields[i - 1].line.len + 1
  BY <1>6 DEF EntryInv
<1> HIDE DEF e, n
<1>13. \A i \in 1..(n + 1) :
          i > 1 => fields'[i].line.at = fields'[i - 1].line.at + fields'[i - 1].line.len + 1
  <2> SUFFICES ASSUME NEW i \in 1..(n + 1), i > 1
               PROVE  fields'[i].line.at = fields'[i - 1].line.at + fields'[i - 1].line.len + 1
    OBVIOUS
  <2>1. CASE i = n + 1
    BY <1>10, <1>11, <2>1
  <2>2. CASE i # n + 1
    <3>1. i \in 1..n /\ i - 1 \in 1..n
      BY <1>10, <2>2
    <3>2. fields'[i] = fields[i] /\ fields'[i - 1] = fields[i - 1]
      BY <1>10, <3>1
    <3> QED BY <1>12, <3>1, <3>2
  <2> QED BY <2>1, <2>2
<1>14. \A i \in 1..n : file[fields'[i].line.at + 1] # VmFlags
  <2> SUFFICES ASSUME NEW i \in 1..n PROVE file[fields'[i].line.at + 1] # VmFlags
    OBVIOUS
  <2>1. fields'[i] = fields[i]
    BY <1>10
  <2> QED BY <1>12, <2>1
<1>15. ModeInv'
  BY <1>1, <1>2, <1>7, <1>10, <1>11 DEF ModeInv
<1>16. AllReturned'
  BY <1>1 DEF AllReturned
<1>17. line.at \notin WantedAt
  BY <1>4, <1>6 DEF WantedAt, Heads
<1>18. CASE First = VmFlags
  <2>1. mode' = "out" /\ returned' = Before(fields[1].line.at) \cup {fields[1].line.at}
    BY <1>1, <1>4, <1>11, <1>18
  <2>2. WholeEntry'
    <3>1. file'[fields'[1].line.at + 1] \in Wanted
      BY <1>2, <1>11 DEF WantedAt
    <3>2. \A i \in 1..(n + 1) : file[fields'[i].line.at + 1] = VmFlags <=> i = n + 1
      <4> SUFFICES ASSUME NEW i \in 1..(n + 1)
                   PROVE  file[fields'[i].line.at + 1] = VmFlags <=> i = n + 1
        OBVIOUS
      <4>1. CASE i = n + 1
        <5>1. fields'[i].line = line
          BY <1>10, <4>1
        <5> QED BY <1>4, <1>18, <4>1, <5>1
      <4>2. CASE i # n + 1
        <5>1. i \in 1..n
          BY <1>10, <4>2
        <5> QED BY <1>14, <4>2, <5>1
      <4> QED BY <4>1, <4>2
    <3>3. Len(Delim) = 1
      BY SMapsAssumption
    <3>4. \A i \in 1..Len(fields') :
            /\ i > 1 => fields'[i].line.at = fields'[i - 1].line.at + fields'[i - 1].line.len + Len(Delim)
            /\ file'[fields'[i].line.at + 1] = VmFlags <=> i = Len(fields')
      BY <1>2, <1>10, <1>13, <3>2, <3>3
    <3> QED BY <3>1, <3>4 DEF WholeEntry
  <2>3. ASSUME ~eof_ PROVE PlaceInv'
    <3>1. \A p \in WantedAt : /\ p \in Nat /\ p # line.at
                              /\ p <= line.at \/ consumed <= p
      BY <1>1, <1>5, <1>17, <2>3, TextFacts DEF WantedAt, Starts, BufferInv
    <3>2. fields[1].line.at < consumed
      BY <1>4, <1>5, <1>11, <2>3
    <3>3. returned' = Before(consumed)
      <4> DEFINE f == fields[1].line.at
      <4>1. \A p \in WantedAt : p \in Nat /\ p # line.at /\ (p <= line.at \/ consumed <= p)
        BY <3>1
      <4>5. \A p \in WantedAt : p <= f \/ line.at <= p
        BY <1>11
      <4>2. f \in WantedAt /\ f \in Nat /\ f < line.at /\ f < consumed
        BY <1>11, <3>2
      <4> HIDE DEF f
      <4>3. \A p \in WantedAt : p < consumed <=> p < f \/ p = f
        BY <1>4, <4>1, <4>2, <4>5
      <4>4. returned' = Before(f) \cup {f}
        BY <2>1 DEF f
      <4> QED BY <4>2, <4>3, <4>4 DEF Before
    <3> QED BY <1>2, <1>4, <1>5, <1>8, <1>18, <2>1, <2>3, <3>3 DEF PlaceInv
  <2>4. eof_ => PlaceInv'
    BY <1>1, <1>2 DEF PlaceInv
  <2> QED BY <1>3, <1>9, <1>15, <1>16, <2>2, <2>3, <2>4 DEF SInv
<1>19. CASE First # VmFlags
  <2>1. mode' = "fields" /\ returned' = returned
    BY <1>1, <1>19
  <2>2. WholeEntry'
    BY <2>1 DEF WholeEntry
  <2>3. ASSUME ~eof_ PROVE PlaceInv'
    <3>1. consumed \in Starts(file) /\ file[consumed + 1] \notin Heads
      BY <1>4, <1>5, <1>19, <2>3
    <3>2. EntryInv'
      <4>1. \A p \in WantedAt : p <= fields[1].line.at \/ consumed <= p
        <5>1. \A p \in WantedAt : /\ p \in Nat /\ p # line.at
                                  /\ p <= line.at \/ consumed <= p
          BY <1>1, <1>5, <1>17, <2>3, TextFacts DEF WantedAt, Starts, BufferInv
        <5> QED BY <1>4, <1>11, <5>1
      <4>2. \A i \in 1..Len(fields') :
              /\ file'[fields'[i].line.at + 1] # VmFlags
              /\ i > 1 => fields'[i].line.at = fields'[i - 1].line.at + fields'[i - 1].line.len + 1
        BY <1>2, <1>4, <1>10, <1>13, <1>14, <1>19
      <4>3. returned' = Before(fields[1].line.at)'
        BY <1>2, <1>8, <1>11, <2>1 DEF Before
      <4>4. here' = fields'[Len(fields')].line.at + fields'[Len(fields')].line.len + 1
        BY <1>5, <1>8, <1>10, <2>3
      <4>5. fields' # <<>>
        BY <1>10
      <4>6. fields'[1].line.at < here'
        BY <1>4, <1>5, <1>8, <1>11, <2>3
      <4> QED BY <1>8, <1>11, <4>1, <4>2, <4>3, <4>4, <4>5, <4>6 DEF EntryInv
    <3> QED BY <1>2, <1>8, <2>1, <3>1, <3>2 DEF PlaceInv
  <2>4. eof_ => PlaceInv'
    BY <1>1, <1>2 DEF PlaceInv
  <2> QED BY <1>3, <1>9, <1>15, <1>16, <2>2, <2>3, <2>4 DEF SInv
<1> QED BY <1>18, <1>19

\* There is no further line (maps_parser.cc:242, 248): without an error the
\* text is at its end, behind the last entry.
LEMMA NoLineStep == ASSUME SInv, NoLine PROVE SInv'
<1>1. /\ BufferInv /\ ModeInv /\ LineInv /\ PlaceInv /\ mode \in {"header", "fields", "skip"}
      /\ mode' = "completed" /\ fields' = fields /\ asked' = FALSE /\ UNCHANGED <<vars, returned>>
      /\ eof_ /\ pc = "idle"
  BY DEF SInv, NoLine, Handled, Got, ModeInv
<1>2. UNCHANGED <<file, offset, buffer, buf_pos_, buf_end_, eof_, pc, view, line, consumed, failed>>
  BY <1>1 DEF vars, bufVars, lineVars
<1>3. BufferInv'
  BY <1>1, <1>2 DEF BufferInv, TypeOK, PcInv, Window, Lines!Uncut, Lines!DelimAt
<1>4. ModeInv' /\ LineInv' /\ WholeEntry' /\ PlaceInv'
  BY <1>1, <1>2 DEF ModeInv, LineInv, WholeEntry, PlaceInv
<1>5. AllReturned'
  <2> SUFFICES ASSUME ~failed PROVE returned = WantedAt
    BY <1>1, <1>2 DEF AllReturned, WantedAt, Starts
  <2>1. asked
    BY <1>1 DEF ModeInv
  <2>2. line.at = Len(file) /\ here = line.at
    BY <1>1, <2>1 DEF LineInv, here
  <2>3. file \in Files /\ Len(file) \in Nat
    BY <1>1, TextFacts DEF BufferInv
  <2>4. here \notin Starts(file)
    BY <2>2, <2>3 DEF Starts
  <2>5. mode = "header" /\ returned = Before(here)
    BY <1>1, <2>1, <2>4 DEF PlaceInv
  <2>6. \A p \in WantedAt : p < here
    BY <2>2, <2>3 DEF WantedAt, Starts
  <2> QED BY <2>5, <2>6 DEF Before
<1> QED BY <1>3, <1>4, <1>5 DEF SInv

LEMMA SStutter == ASSUME SInv, UNCHANGED smapsVars PROVE SInv'
<1>1. UNCHANGED <<file, offset, buffer, buf_pos_, buf_end_, eof_, pc, view, line, consumed, failed>>
  BY DEF smapsVars, vars, bufVars, lineVars
<1>2. UNCHANGED <<mode, asked, fields, returned>>
  BY DEF smapsVars, entryVars
<1>3. BufferInv'
  BY <1>1, <1>2 DEF SInv, BufferInv, TypeOK, PcInv, Window, ViewIsLine, Lines!Uncut, Lines!DelimAt
<1>4. here' = here /\ WantedAt' = WantedAt /\ Starts(file)' = Starts(file)
  BY <1>1, <1>2 DEF here, WantedAt, Starts
<1>5. ModeInv' /\ LineInv'
  BY <1>1, <1>2 DEF SInv, ModeInv, LineInv, Starts
<1>6. WholeEntry' /\ AllReturned'
  BY <1>1, <1>2, <1>4 DEF SInv, WholeEntry, AllReturned
<1>7. EntryInv => EntryInv'
  BY <1>1, <1>2, <1>4 DEF EntryInv, Before
<1>8. PlaceInv'
  BY <1>1, <1>2, <1>4, <1>7 DEF SInv, PlaceInv, Before
<1> QED BY <1>3, <1>5, <1>6, <1>8 DEF SInv

LEMMA SStep == SInv /\ [SNext]_smapsVars => SInv'
  BY CallStep, AskStep, AnswerStep, HeaderStep, SkipStep, FieldStep, NoLineStep, SStutter DEF SNext

\* The parser keeps its invariant over every step of it and of its reader.
THEOREM SMapsInvariance == SSpec => []SInv
  BY SInitial, SStep, PTL DEF SSpec

\* NextEntry never mixes two entries and never loses a line of one
\* (maps_parser.cc:246-265), however reads cut the text and whatever fails.
THEOREM EntryCorrect == SSpec => []WholeEntry
<1>1. SInv => WholeEntry
  BY DEF SInv
<1> QED BY <1>1, SMapsInvariance, PTL

\* Unless a read failed, the parser has returned every mapping that the query
\* accepts, and no other, when it completes (maps_parser.cc:242-265).
THEOREM ReturnedCorrect == SSpec => []AllReturned
<1>1. SInv => AllReturned
  BY DEF SInv
<1> QED BY <1>1, SMapsInvariance, PTL
=============================================================================
