-------------------------- MODULE MCDescriptorBuilder --------------------------
(* Types with packages of no, one and two parts, arrays of them and of      *)
(* primitives, void, a class and a return type that are null, and a name    *)
(* with a character of two bytes ("e").                                     *)
EXTENDS DescriptorBuilder

MCChars == {"a", "e", ".", "/", "[", "L", ";", "I", "V", "-", ">", "(", ")"}

Object(name) == [kind |-> "object", name |-> name]
Array(name) == [kind |-> "array", name |-> name]

Values == {[kind |-> "primitive", name |-> <<"I">>],
           Object(<<"a">>), Object(<<"a", ".", "a", "a">>), Object(<<"a", ".", "I", ".", "L">>),
           Array(<<"[", "I">>), Array(<<"[", "[", "L", "a", ".", "a", ";">>)}
WideType == Object(<<"a", ".", "e">>)
Void == [kind |-> "primitive", name |-> <<"V">>]
Null == [kind |-> "null", name |-> <<>>]
MCTypes == Values \cup {WideType, Void, Null}

Method(c, n, ps, r) == [class |-> c, name |-> n, params |-> ps, ret |-> r]

MCReportable ==
  {Method(Object(<<"a", ".", "I", ".", "L">>), <<"a">>, ps, Void) :
     ps \in {<<>>} \cup {<<p>> : p \in Values} \cup {<<p, p>> : p \in Values}}
  \cup {Method(Object(<<"a">>), <<"a">>, <<p>>, WideType) : p \in Values}
  \cup {Method(Object(<<"a">>), <<"e", "a">>, <<>>, Void),
        Method(Object(<<"a">>), <<"a">>, <<>>, Null), Method(Null, <<"a">>, <<>>, Void)}
=============================================================================
