----------------------------- MODULE MCGenInp -----------------------------
(***************************************************************************)
(* An instance of ZhHex for TLC: a small Telex table with keystrokes of    *)
(* up to three keys, one of them with three characters, and the keys that  *)
(* gen_inp_keystroke() tells apart.                                        *)
(***************************************************************************)
EXTENDS ZhHex

\* Eighteen characters of two bytes: nine first bytes, two second ones.
TwoBytes == << << <<161, 169>> >>, << <<64, 65>> >> >>

\* The definitions in the order of their codes.
Telex == << << <<"a">>, 1 >>, << <<"a", "a">>, 2 >>, << <<"a", "a", "s">>, 3 >>,
            << <<"a", "s">>, 4 >>, << <<"a", "s">>, 5 >>, << <<"a", "s">>, 6 >>,
            << <<"w">>, 7 >>, << <<"w", "s">>, 8 >>, << <<"w", "s">>, 9 >> >>

at(i) == Telex[i + 1]
Units == 0 .. Len(Telex) - 1

TelexTab == [icidx |-> [i \in Units |-> at(i)[2] - 1],
             ichar |-> Units,
             ic1 |-> [i \in Units |-> keys2codes(<<0, 0>>, at(i)[1])[1]],
             ic2 |-> [i \in Units |-> 0]]

\* What bsearch_char() relies on.
ASSUME TelexSorted == \A i, j \in Units : i < j => TelexTab.ic1[i] <= TelexTab.ic1[j]

TypedKeys == {"a", "s", "w", "e", "b", "Tab", "Return", "Delete", "Escape", "Shift"}

Names == [k \in TypedKeys |-> IF k \in {"a", "s", "w", "e"} THEN k ELSE NUL]

RemapOne == [k \in {<<"a", "a">>} |-> <<165, 64>>]

\* Digits of A1 40, A1 41, A4 40 and A4 41, and of many codes of none.
SomeDigits == {"0", "1", "4", "A"}
=============================================================================
