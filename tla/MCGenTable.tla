---------------------------- MODULE MCGenTable ----------------------------
(***************************************************************************)
(* Instances of GenTable for TLC: an encoding of two bytes with two ranges *)
(* in the first, and tables over the keys a, b and w.                      *)
(***************************************************************************)
EXTENDS GenTable

TwoBytes == << << <<3, 3>>, <<7, 7>> >>, << <<2, 3>> >> >>

line(k, c, m) == [keys |-> k, ch |-> c, mark |-> m]

A == <<"a">>
AB == <<"a", "b">>
FourKeys == <<"a", "b", "w", "a">>
FiveKeys == {FourKeys \o <<k>> : k \in {"b", "w"}}
SixKeys == {FourKeys \o <<"b", k>> : k \in {"a", "b"}}

\* <<5, 2>> is outside the encoding.
TableLines ==
    {line(A, <<3, 2>>, FALSE), line(A, <<7, 3>>, FALSE),
     line(AB, <<7, 3>>, TRUE), line(AB, <<5, 2>>, FALSE),
     line(FourKeys \o <<"b">>, <<3, 2>>, TRUE)}
    \cup {line(k, <<7, 2>>, FALSE) : k \in SixKeys}

Typed == {A, AB, <<"b">>, FourKeys, FourKeys \o <<"b">>} \cup SixKeys

FiveKeyLines == {line(k, c, FALSE) : k \in FiveKeys \cup {AB},
                                     c \in {<<3, 3>>, <<7, 2>>}}
=============================================================================
