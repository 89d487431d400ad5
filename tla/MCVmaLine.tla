------------------------------ MODULE MCVmaLine ------------------------------
EXTENDS VmaLine

MCChars == {" ", "d", ":", "V", "m", "0", "1", "\n", "/", "a", "[", "n", "k", "x", "P", "D", "r"}

\* A file, a file with a blank in its name, names of anonymous memory, short
\* and past Col64 (7) when they begin at Col32 (4), and one whose second word
\* begins there.
MCNames == { <<>>, <<"/">>, <<"/", "a", " ", "a">>, <<"[", "n">>,
             <<"[", "n", "n", "n">>, <<"[", "n", "n", "n", "n", "n">>,
             <<"[", "n", " ", "n", "n">>, <<"[", "n", " ", " ", "n">>,
             <<"[", " ", "n", "n">>, <<"[", "n", "n", " ", "n">> }

Number(n) == [num |-> n, unit |-> <<>>]
Size(n) == [num |-> n, unit |-> <<" ", "k">>]
Hex == [num |-> <<"0">>, unit |-> <<"x">>]
Empty == Number(<<>>)
Field(k, v) == [key |-> k, num |-> v.num, unit |-> v.unit]

P == <<"P">>
PD == <<"P", "D">>
MCKeys == {P, PD, <<"D">>}
MCFields == { <<>>,
              <<Field(P, Size(<<"1", "0">>)), Field(PD, Size(<<"1">>))>>,
              <<Field(PD, Number(<<"1">>)), Field(P, Number(<<"0">>))>>,
              <<Field(PD, Size(<<"0">>))>>,
              <<Field(P, Empty), Field(P, Hex)>>,
              <<Field(P, Hex), Field(PD, Empty)>> }

RD == <<"r", "d">>
DR == <<"d", "r">>
MCFlags == {RD, DR, <<"V", "m">>}
MCLists == [fields : MCFields, flags : {<<>>, <<RD>>, <<DR, RD>>, <<RD, RD>>}]
=============================================================================
