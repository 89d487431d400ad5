--------------------------- MODULE DescriptorBuilder ---------------------------
(***************************************************************************)
(* DescriptorBuilder::GetDescriptor (descriptor_builder.cc), called once   *)
(* for every method of the report (main.cc:806-826): a descriptor is built *)
(* piece by piece, each with a span that colours it.  The builder's text   *)
(* counts UTF-16 units; the native string counts the bytes of its modified *)
(* UTF-8.                                                                  *)
(*                                                                         *)
(* A text is a sequence of characters of one unit each.  A type is a       *)
(* record: kind, and name as Class.getName gives it, for a primitive its   *)
(* letter.  Where reflection failed the class or the return type is null,  *)
(* of kind "null"; the array of parameter types may be null too, which is  *)
(* the same as an empty one.  Colours are left out; local references that  *)
(* are deleted on the way to where they were made are not counted.         *)
(***************************************************************************)
EXTENDS Naturals, Sequences, FiniteSets, SequencesExt

CONSTANTS Chars,
          Wide,          \* characters of more than one byte
          Types,
          Reportable,    \* methods: class, name, params, ret
          MaxMet         \* bound on the methods that are met

Letters == {"Z", "B", "S", "C", "I", "J", "F", "D"}

\* What Class.getName gives for an array: brackets, then a primitive's letter
\* or the name of a class between "L" and ";".
ArrayNames ==
  {name \in Seq(Chars) : \E n \in 1..(Len(name) - 1) :
     /\ \A j \in 1..n : name[j] = "["
     /\ \/ Len(name) = n + 1 /\ name[n + 1] \in Letters
        \/ Len(name) > n + 1 /\ name[n + 1] = "L" /\ name[Len(name)] = ";"}

ASSUME BuilderAssumption ==
  /\ Wide \subseteq Chars
  /\ {"[", "L", "/", ";", "-", ">", "(", ")", "V"} \subseteq Chars
  /\ \A t \in Types :
       /\ t.kind \in {"primitive", "array", "object", "null"} /\ t.name \in Seq(Chars)
       /\ t.kind = "primitive" => t.name \in {<<c>> : c \in Letters \cup {"V"}}
       /\ t.kind = "array" => t.name \in ArrayNames
  /\ \A m \in Reportable : /\ {m.class, m.ret} \subseteq Types /\ m.name \in Seq(Chars)
                           /\ m.params \in Seq(Types)
                           /\ \A i \in DOMAIN m.params : m.params[i].kind # "null"
  /\ MaxMet \in Nat

VARIABLES pc, method,     \* the method that is described
          pieces,         \* what appendStringWithColor is still to be called with
          ssb, spans,     \* the text and the ranges that have a colour
          pending,        \* a Java exception is pending
          locals,         \* local references of JNI_OnLoad's frame
          met, appends,   \* history: methods met, appends that returned
          list            \* unhooked_method_list_, with the method of each text

vars == <<pc, method, pieces, ssb, spans, pending, locals, met, appends, list>>

Spans == [from : Nat, to : Nat]

TypeOK ==
  /\ pc \in {"idle", "append", "done", "aborted"}
  /\ method \in Reportable
  /\ pieces \in Seq(Seq(Chars)) /\ ssb \in Seq(Chars) /\ spans \in Seq(Spans)
  /\ pending \in BOOLEAN
  /\ {locals, met, appends} \subseteq Nat
  /\ list \in Seq([method : Reportable, text : Seq(Chars)])

\* JniCache::init keeps three classes and nine primitive types.
CacheSize == 12

Init == /\ pc = "idle" /\ method \in Reportable
        /\ pieces = <<>> /\ ssb = <<>> /\ spans = <<>>
        /\ pending = FALSE /\ locals = CacheSize
        /\ met = 0 /\ appends = 0 /\ list = <<>>

-----------------------------------------------------------------------------
(* The pieces of a descriptor.                                             *)

\* splitClassNameToParts and appendClassName: the part that starts at off ends
\* at the next dot; each but the last is followed by "/".
ClassName(name) ==
  LET split[i \in 0..Len(name)] ==
        IF i = 0 THEN [pieces |-> <<<<"L">>>>, off |-> 0]
        ELSE LET s == split[i - 1] IN
             IF name[i] # "." THEN s
             ELSE [pieces |-> s.pieces \o <<SubSeq(name, s.off + 1, i - 1), <<"/">>>>, off |-> i]
      end == split[Len(name)]
  IN end.pieces \o <<SubSeq(name, end.off + 1, Len(name)), <<";">>>>

\* appendPrimitiveDescriptor: what is none of the eight types is void.
Primitive(t) == IF t.name[1] \in Letters THEN t.name ELSE <<"V">>

Brackets(name) == Cardinality({i \in DOMAIN name : \A j \in 1..i : name[j] = "["})

\* Fault: the name of an array's class keeps its ';'.
KeepSemicolon(name) ==
  LET n == Brackets(name)
  IN <<SubSeq(name, 1, n)>>
     \o IF name[n + 1] = "L" THEN ClassName(SubSeq(name, n + 2, Len(name)))
                             ELSE <<<<name[n + 1]>>>>

\* The array branch of appendClassDescriptor: "[[I", "[Lpkg.Name;".
ArrayName(name) ==
  LET n == Brackets(name)
      inner == SubSeq(name, n + 2, Len(name))
      bare == IF inner # <<>> /\ Last(inner) = ";" THEN Front(inner) ELSE inner
  IN <<SubSeq(name, 1, n)>>
     \o IF name[n + 1] = "L" THEN ClassName(bare) ELSE <<<<name[n + 1]>>>>

\* appendClassDescriptor, which GetDescriptor does not call for null.
TypePieces(t) == CASE t.kind = "primitive" -> <<Primitive(t)>>
                   [] t.kind = "array" -> ArrayName(t.name)
                   [] t.kind = "object" -> ClassName(t.name)
                   [] t.kind = "null" -> <<>>

\* GetDescriptor
MethodPieces(m) ==
  TypePieces(m.class) \o <<<<"-", ">">>, m.name, <<"(">>>>
  \o FlattenSeq([i \in DOMAIN m.params |-> TypePieces(m.params[i])])
  \o <<<<")">>>> \o TypePieces(m.ret)

-----------------------------------------------------------------------------
\* The visitor has met a method; the builder's text is created.
Begin(m) ==
  /\ pc = "idle" /\ met < MaxMet
  /\ pc' = "append" /\ method' = m
  /\ pieces' = MethodPieces(m) /\ ssb' = <<>> /\ spans' = <<>>
  /\ locals' = locals + 1 /\ met' = met + 1
  /\ UNCHANGED <<pending, appends, list>>

\* std::string::size
Size(str) == Len(str) + Cardinality({i \in DOMAIN str : str[i] \in Wide})

\* Fault: the start is taken after the text has been appended.
LateStart ==
  /\ pc = "append" /\ pieces # <<>>
  /\ ssb' = ssb \o Head(pieces) /\ pieces' = Tail(pieces)
  /\ spans' = Append(spans, [from |-> Len(ssb'), to |-> Len(ssb') + Size(Head(pieces))])
  /\ locals' = locals + 1 /\ appends' = appends + 1
  /\ UNCHANGED <<pc, method, list, pending, met>>

\* Fault: the Java string is not deleted.
KeepString ==
  /\ pc = "append" /\ pieces # <<>>
  /\ ssb' = ssb \o Head(pieces) /\ pieces' = Tail(pieces)
  /\ spans' = Append(spans, [from |-> Len(ssb), to |-> Len(ssb')])
  /\ locals' = locals + 2 /\ appends' = appends + 1
  /\ UNCHANGED <<pc, method, list, pending, met>>

\* appendStringWithColor: setSpan throws when the span ends beyond the text,
\* and the calls that follow are made with the exception pending.  The
\* builder that append returns is a new local reference, which is kept.
AppendPiece ==
  /\ pc = "append" /\ pieces # <<>>
  /\ LET start == Len(ssb)
         end == start + Size(Head(pieces))
     IN /\ ssb' = ssb \o Head(pieces)
        /\ IF end <= Len(ssb')
           THEN spans' = Append(spans, [from |-> start, to |-> end]) /\ UNCHANGED pending
           ELSE pending' = TRUE /\ UNCHANGED spans
  /\ pieces' = Tail(pieces)
  /\ locals' = locals + 1 /\ appends' = appends + 1
  /\ UNCHANGED <<pc, method, list, met>>

\* A call with an exception pending is undefined: it works as ever
\* (AppendPiece), it has no effect, or the process aborts.
SkipPiece ==
  /\ pc = "append" /\ pending /\ pieces # <<>>
  /\ pieces' = Tail(pieces)
  /\ UNCHANGED <<pc, method, ssb, spans, pending, locals, met, appends, list>>

Abort ==
  /\ pc = "append" /\ pending
  /\ pc' = "aborted"
  /\ UNCHANGED <<method, pieces, ssb, spans, pending, locals, met, appends, list>>

\* The text goes into the list and its reference is deleted; the wrapper of
\* that call clears an exception.
End ==
  /\ pc = "append" /\ pieces = <<>>
  /\ pc' = "idle"
  /\ \/ list' = Append(list, [method |-> method, text |-> ssb])
     \/ pending /\ UNCHANGED list
  /\ pending' = FALSE
  /\ locals' = locals - 1
  /\ UNCHANGED <<method, pieces, ssb, spans, met, appends>>

\* ~DescriptorBuilder: the cache's references are deleted.
Destroy ==
  /\ pc = "idle" /\ pc' = "done"
  /\ locals' = locals - CacheSize
  /\ UNCHANGED <<method, pieces, ssb, spans, pending, met, appends, list>>

Next == (\E m \in Reportable : Begin(m)) \/ AppendPiece \/ SkipPiece \/ Abort \/ End \/ Destroy

Spec == Init /\ [][Next]_vars

-----------------------------------------------------------------------------
(* What a descriptor is, without the builder.                              *)

Slashed(name) == [i \in DOMAIN name |-> IF name[i] = "." THEN "/" ELSE name[i]]

TypeText(t) == CASE t.kind = "object" -> <<"L">> \o Slashed(t.name) \o <<";">>
                 [] t.kind = "null" -> <<>>
                 [] OTHER -> Slashed(t.name)

Text(m) == TypeText(m.class) \o <<"-", ">">> \o m.name \o <<"(">>
           \o FlattenSeq([i \in DOMAIN m.params |-> TypeText(m.params[i])])
           \o <<")">> \o TypeText(m.ret)

Narrow(text) == \A p \in DOMAIN text : text[p] \notin Wide

\* The list shows each method whose characters are one byte each by its
\* descriptor: splitting at dots, counting brackets and dropping the letters
\* around an array's class put together what Class.getName says with slashes
\* (descriptor_builder.cc:220-312), also after the exceptions of others.
TextIsDescriptor ==
  \A i \in DOMAIN list :
    Narrow(Text(list[i].method)) => list[i].text = Text(list[i].method)

\* As long as every character is one byte, the spans lie one after another
\* from the beginning of the text to its end (descriptor_builder.cc:179-198).
SpansTile ==
  Narrow(ssb) => /\ \A i \in DOMAIN spans :
                      spans[i].from = (IF i = 1 THEN 0 ELSE spans[i - 1].to)
                 /\ spans # <<>> => Last(spans).to = Len(ssb)
                 /\ spans = <<>> => ssb = <<>>

\* The frame of JNI_OnLoad keeps one reference for each append that returned
\* and, at the end, nothing else: not of the cache, of the strings, spans and texts
\* (descriptor_builder.cc:157-174, :199-201, main.cc:826).
LocalsLeft ==
  pc \in {"idle", "done"} => locals = appends + (IF pc = "done" THEN 0 ELSE CacheSize)

\* "setSpan(span, start, start+len, flags)" (descriptor_builder.cc:180): the
\* piece that was appended has its span when the call returns.
SpansCoverText == ssb # <<>> => spans # <<>> /\ Last(spans).to = Len(ssb)

-----------------------------------------------------------------------------
(* Why they hold: the inductive invariant.                                 *)

\* An exception ends with the text it came with.
PendingInv == pending => pc \in {"append", "aborted"} /\ ~Narrow(Text(method))

\* What there is and what is still to be appended make the descriptor.
TextInv == pc = "append" /\ ~pending => ssb \o FlattenSeq(pieces) = Text(method)

LocalsInv == locals = appends + CASE pc = "idle" -> CacheSize
                                  [] pc = "done" -> 0
                                  [] OTHER -> CacheSize + 1

DInv == TypeOK /\ PendingInv /\ TextInv /\ LocalsInv /\ TextIsDescriptor /\ SpansTile
=============================================================================
