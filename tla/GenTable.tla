----------------------------- MODULE GenTable -----------------------------
(***************************************************************************)
(* The table from its source to its use: cin2tab compiles it (GenCin),     *)
(* gen_inp loads it and searches keystrokes in it (BSearchChar), and reads *)
(* the candidates at the index found (TabMatch).                           *)
(***************************************************************************)
EXTENDS GenCin, TabMatch, BSearchChar

CONSTANT Asked   \* keystrokes that are typed

VARIABLE asked

tablevars == <<cinvars, vars, asked>>

TableInit ==
    /\ CinInit /\ SearchInit /\ asked = << >>
    /\ ic1 = << >> /\ ic2 = << >> /\ size = 0 /\ md = FALSE

compile == CinNext /\ UNCHANGED <<vars, asked>>

\* loadtab(): a table without a definition is refused.
loadtab ==
    /\ stage = "tab" /\ th.n_icode > 0 /\ size = 0
    /\ ic1' = tab.ic1 /\ ic2' = tab.ic2
    /\ size' = th.n_icode /\ md' = (th.icode_mode = ICODE_MODE2)
    /\ UNCHANGED <<cinvars, search, asked>>

\* The buffer of gen_inp never holds more keys than the longest keystroke.
look_up(keystroke) ==
    /\ size > 0 /\ pc = "start"
    /\ Len(keystroke) <= th.n_max_keystroke
    /\ asked' = keystroke
    /\ Call(icode_of(keystroke))
    /\ UNCHANGED cinvars

search_step == Step /\ UNCHANGED <<cinvars, asked>>

TableNext == compile \/ loadtab \/ (\E k \in Asked : look_up(k)) \/ search_step

TableSpec == TableInit /\ [][TableNext]_tablevars

----------------------------------------------------------------------------
answer == IF found = -1 THEN << >>
          ELSE match_list(tab, md, found, icode_of(asked))

defined == SelectSeq(lines, LAMBDA line : ccode_to_idx(line.ch) # -1)

chars_of(keystroke) ==
    LET own == SelectSeq(defined, LAMBDA line : line.keys = keystroke)
    IN  [i \in DOMAIN own |-> own[i].ch]

\* What the user types finds exactly the characters that the table source
\* defines for that keystroke: all the keys of a keystroke count (GenTable is
\* in the single-word memory model up to five keys, gencin.c:212).
OwnChars == pc = "done" => answer = chars_of(asked)

\* No unit holds an uninitialised word, and the memory model keeps every key.
whole_codes == th.n_icode <= total_char /\ th.n_max_keystroke # 5

\* What the user types finds exactly the characters that the table source
\* defines for that keystroke, in the order of the source (match_keystroke
\* of gen_inp.c on the arrays of gencin.c).
FindsOwnChars == whole_codes => OwnChars

marked(ch) == {i \in DOMAIN defined : defined[i].ch = ch /\ defined[i].mark}
keystrokes(ch) == {defined[i].keys : i \in {j \in DOMAIN defined : defined[j].ch = ch}}

\* The keystroke recalled for a composed character is one the source defines
\* for it, and a marked one where there is any (gen_inp_show_keystroke).
RecallsKeystroke ==
    size > 0 /\ pc = "start" /\ whole_codes =>
      \A i \in DOMAIN defined :
        LET ch == defined[i].ch
            shown == show_keystroke(tab, md, ch)
        IN  IF marked(ch) = {} THEN shown \in keystrokes(ch)
            ELSE shown \in {defined[m].keys : m \in marked(ch)}
=============================================================================
