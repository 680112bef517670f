---------------------------- MODULE MCXimServer ----------------------------
(***************************************************************************)
(* Instances of XimServer for TLC: two clients with a window each, and the *)
(* sets of attributes and keys from which the configurations choose.       *)
(***************************************************************************)
EXTENDS XimProperties, TLC

CONSTANTS c1, c2, w1, w2

OneWindowEach == c1 :> {w1} @@ c2 :> {w2}
OneClient     == c1 :> {w1, w2}

\* The clients can be exchanged together with their windows.
Exchange == {c1 :> c1 @@ c2 :> c2 @@ w1 :> w1 @@ w2 :> w2,
             c1 :> c2 @@ c2 :> c1 @@ w1 :> w2 @@ w2 :> w1}

ICs(wins, focus, styles) ==
    [client_win : wins, focus_win : focus, input_style : styles]

OneICs    == ICs({w1}, {NoWindow}, {"Root"})
\* One of the two clients may name its window as the focus window as well.
SharingICs == ICs({w1, w2}, {w1, NoWindow}, {"Root"})
StyledICs == ICs({w1, w2}, {NoWindow}, Style)
FocusedICs == ICs({w1, w2}, {w1, w2, NoWindow}, Style)
NoChange  == {}
Restyled  == ICs({NoWindow}, {NoWindow}, Style)

\* xcin_mode at the start.
GCOff  == {{"ICCHECK_OFF"}}
GCOn   == {{}}
FocusOrNot == GCOff \cup {{"ICCHECK_OFF", "IM_FOCUS"}}

AnyIM  == Inp \cup {English}
NoneIM == {English}

ImKeys      == {<<"IMN", n>> : n \in Inp}
OnKeys      == {Plain("ZHEN"), Plain("QPHRASE")} \cup ImKeys
BasicKeys   == {Plain("ZHEN"), Plain("2BSB")} \cup ImKeys
FocusKeys   == BasicKeys \cup {Plain("IMFOCUS")}
SwitchKeys  == BasicKeys \cup {Plain(f) : f \in {"CIRIM", "CIRRIM", "SIMD", "IMFOCUS"}}
ZhEnKey     == {Plain("ZHEN")}
AnyKeys     == FKey
NoKeys      == {}
=============================================================================
