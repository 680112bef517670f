------------------------------ MODULE GenInp ------------------------------
(***************************************************************************)
(* The table-driven input method gen_inp: its keystroke buffer, preedit    *)
(* and candidates in one IC, from gen_inp_xim_init() to gen_inp_xim_end(). *)
(* A step of keystroke() is one call of gen_inp_keystroke().               *)
(***************************************************************************)
EXTENDS TabMatch

CONSTANTS
    Key,              \* keys that are pressed
    NUL,              \* the character that ends a string
    tab, md,          \* the table, and whether its codes have two words
    n_max_keystroke,  \* keys in its longest keystroke
    n_selkey,         \* its selection keys
    keyname,          \* the name shown for a key; NUL for a key without one
    Kremap,           \* keystrokes with a remapped character, to it
    Autocompose       \* AUTO_COMPOSE of the rcfile

INP_CODE_LENGTH == 8

ASSUME GenInpAssumption ==
    /\ NUL \notin Key
    /\ keyname \in [Key -> Key \cup {NUL}]
    /\ n_max_keystroke \in 1 .. INP_CODE_LENGTH
    /\ n_selkey \in Nat \ {0}
    /\ md \in BOOLEAN /\ Autocompose \in BOOLEAN

\* The arrays of codes and of characters go side by side, from 0.
ASSUME TableAssumption ==
    LET n_icode == Cardinality(DOMAIN tab.icidx)
    IN  /\ n_icode \in Nat /\ DOMAIN tab.icidx = 0 .. n_icode - 1
        /\ DOMAIN tab.ic1 = 0 .. n_icode - 1

VARIABLES
    active,  \* between xim_init() and xim_end()
    inp,     \* the inpinfo_t: keystroke_len, s_keystroke, mcch, mcch_pgstate, cch
    iccf,    \* the gen_inp_iccf_t: keystroke, mcch_list
    live,    \* lists of candidates that are allocated
    key, ret \* the last key and what keystroke() returned for it

vars == <<active, inp, iccf, live, key, ret>>

Cell == 0 .. INP_CODE_LENGTH

Blank == [i \in Cell |-> NUL]

\* The string that a zero-terminated array holds.
length(cells) ==
    CHOOSE n \in Cell : cells[n] = NUL /\ \A i \in 0 .. n - 1 : cells[i] # NUL
text(cells) == [i \in 1 .. length(cells) |-> cells[i - 1]]

NoList == << >>

FreshInp == [keystroke_len |-> 0, s_keystroke |-> Blank, mcch |-> << >>,
             mcch_pgstate |-> "ONEPG", cch |-> << >>]
FreshIccf == [keystroke |-> Blank, mcch_list |-> NoList]

\* n_mcch_list counts the lists that free() will be called for.
held(c) == IF c.mcch_list = NoList THEN 0 ELSE 1

Init ==
    /\ active = FALSE
    /\ inp = FreshInp /\ iccf = FreshIccf
    /\ live = 0 /\ key = NUL /\ ret = "IGNORE"

\* calloc() clears the new buffers.
xim_init ==
    /\ ~active /\ active' = TRUE
    /\ inp' = [FreshInp EXCEPT !.cch = inp.cch] /\ iccf' = FreshIccf
    /\ UNCHANGED <<live, key, ret>>

xim_end ==
    /\ active /\ active' = FALSE
    /\ live' = live - held(iccf)
    /\ UNCHANGED <<inp, iccf, key, ret>>

----------------------------------------------------------------------------
(***************************************************************************)
(* The matching functions map a record s = [inp, iccf, live] to the next.  *)
(***************************************************************************)
State == [inp |-> inp, iccf |-> iccf, live |-> live]

\* Slip: the string is not cut.
emptied_not(cells) == cells

emptied(cells) == [cells EXCEPT ![0] = NUL]

\* reset_keystroke(), with the three assignments that follow each call.
reset_keystroke(s) ==
    [inp |-> [s.inp EXCEPT !.keystroke_len = 0,
                           !.s_keystroke = emptied(s.inp.s_keystroke),
                           !.mcch = << >>, !.mcch_pgstate = "ONEPG"],
     iccf |-> [keystroke |-> emptied(s.iccf.keystroke), mcch_list |-> NoList],
     live |-> s.live - held(s.iccf)]

\* bsearch_char(), as BSearchChar shows it: the first index of the code.
matching(icode) == {i \in DOMAIN tab.ic1 : same_code(tab, md, i, icode)}
first_match(icode) == CHOOSE i \in matching(icode) :
                        \A j \in matching(icode) : i <= j

in_table(keystroke) == matching(icode_of(keystroke)) # {}
chars_of(keystroke) ==
    match_list(tab, md, first_match(icode_of(keystroke)), icode_of(keystroke))

shown(list) == SubSeq(list, 1, IF Len(list) < n_selkey THEN Len(list)
                                                       ELSE n_selkey)

\* Slip: the list of an earlier match is not freed.
relisted_kept(s, list) ==
    [s EXCEPT !.iccf.mcch_list = list, !.live = s.live + 1]

relisted(s, list) ==
    [s EXCEPT !.iccf.mcch_list = list, !.live = s.live - held(s.iccf) + 1]

one_page(s) == [s EXCEPT !.inp.mcch_pgstate = "ONEPG"]

(***************************************************************************)
(* match_keystroke(): the candidates of the buffer.  Those that do not fit *)
(* on the page are kept in a list; a list of an earlier match is freed     *)
(* only then.                                                              *)
(***************************************************************************)
match_keystroke(s) ==
    LET keystroke == text(s.iccf.keystroke)
        list == chars_of(keystroke)
        m == [s EXCEPT !.inp.mcch = shown(list)]
    IN  IF ~in_table(keystroke) THEN [s EXCEPT !.inp.mcch = << >>]
        ELSE IF Len(list) <= n_selkey THEN one_page(m)
        ELSE relisted([m EXCEPT !.inp.mcch_pgstate = "BEGIN"], list)

\* commit_keystroke() on a buffer that has just matched.
commit_keystroke(s) ==
    LET keystroke == text(s.iccf.keystroke)
        m == match_keystroke(s)
    IN  IF keystroke \in DOMAIN Kremap
        THEN [s EXCEPT !.inp.cch = Kremap[keystroke]]
        ELSE [m EXCEPT !.inp.cch = m.inp.mcch[1]]

----------------------------------------------------------------------------
becomes(s, result) ==
    inp' = s.inp /\ iccf' = s.iccf /\ live' = s.live /\ ret' = result

\* The keys for which if_vowel() returns 1, the space among them.
ends_word ==
    {" ", "b", "c", "g", "h", "k", "l", "m", "n", "p", "q", "t", "v", "z",
     "B", "C", "G", "H", "K", "L", "M", "N", "P", "Q", "T", "V", "Z"}

\* Slip: the candidates of the longer keystroke stay.
uncandidated_kept(i) == i

uncandidated(i) == [i EXCEPT !.mcch = << >>, !.mcch_pgstate = "ONEPG"]

(***************************************************************************)
(* XK_Delete on a buffer of len keys takes the last one back.              *)
(***************************************************************************)
delete_key(s) ==
    LET len == s.inp.keystroke_len
        cut == [inp |-> [uncandidated(s.inp) EXCEPT
                           !.keystroke_len = len - 1,
                           !.s_keystroke = [s.inp.s_keystroke EXCEPT
                                              ![len - 1] = NUL]],
                iccf |-> [s.iccf EXCEPT
                           !.keystroke = [s.iccf.keystroke EXCEPT
                                            ![len - 1] = NUL]],
                live |-> s.live]
    IN  IF len > 1 /\ Autocompose THEN match_keystroke(cut) ELSE cut

(***************************************************************************)
(* A key enters the buffer; its name goes one cell further in the preedit. *)
(* The end that follows the name of an eighth key has no cell: it falls on *)
(* the heap behind the array.  That changes no cell of these buffers, and  *)
(* if it ends xcin there are no further steps.                             *)
(***************************************************************************)
put_key(s, k) ==
    LET len == s.inp.keystroke_len
    IN  [inp |-> [s.inp EXCEPT
                    !.keystroke_len = len + 1,
                    !.s_keystroke = [s.inp.s_keystroke EXCEPT
                                       ![len + 1] = keyname[k],
                                       ![len + 2] = NUL]],
         iccf |-> [s.iccf EXCEPT
                     !.keystroke = [s.iccf.keystroke EXCEPT
                                      ![len] = k, ![len + 1] = NUL]],
         live |-> s.live]

\* Slip: the rejected keystroke stays in front of the key.
restart_not(s) == s

(***************************************************************************)
(* A key that completes no keystroke starts a new buffer.  The preedit     *)
(* starts with the cell before the key's own.                              *)
(***************************************************************************)
restart(s) ==
    LET last == s.inp.keystroke_len - 1
        r == reset_keystroke(s)
    IN  [r EXCEPT
           !.inp.keystroke_len = 1,
           !.inp.s_keystroke = [r.inp.s_keystroke EXCEPT
                                  ![0] = s.inp.s_keystroke[last], ![1] = NUL],
           !.iccf.keystroke = [r.iccf.keystroke EXCEPT
                                 ![0] = s.iccf.keystroke[last], ![1] = NUL]]

char_key(k) ==
    LET s == put_key(State, k)
        len == s.inp.keystroke_len
        m == match_keystroke(s)
        known == in_table(text(s.iccf.keystroke))
    IN  \/ k \in ends_word /\ becomes(reset_keystroke(s), "IGNORE")
        \/ k \notin ends_word /\ ~known /\ becomes(restart(m), "IGNORE")
        \/ /\ k \notin ends_word /\ known
           /\ \/ len = 1 /\ becomes(commit_keystroke(m), "IGNORE")
              \/ /\ len > 1 /\ len < n_max_keystroke
                 /\ becomes(commit_keystroke(m), "BACKSPACE")
              \/ /\ len > 1 /\ len >= n_max_keystroke
                 /\ becomes(reset_keystroke(commit_keystroke(m)), "BACKSPACE")

(***************************************************************************)
(* gen_inp_keystroke().  Delete and Escape on an empty buffer are ordinary *)
(* keys to it; a key that yields no single character is left alone.        *)
(***************************************************************************)
Silent == {"Shift", "Left"}

keystroke(k) ==
    /\ active /\ key' = k /\ UNCHANGED active
    /\ LET buffered == inp.keystroke_len > 0
       IN  CASE k \in {"Return", "BackSpace"} ->
                  becomes(reset_keystroke(State), "IGNORE")
             [] k = "Delete" /\ buffered -> becomes(delete_key(State), "ABSORB")
             [] k = "Escape" /\ buffered ->
                  becomes(reset_keystroke(State), "ABSORB")
             [] k \in Silent -> becomes(State, "IGNORE")
             [] OTHER -> char_key(k)

Next == xim_init \/ xim_end \/ \E k \in Key : keystroke(k)

Spec == Init /\ [][Next]_vars

----------------------------------------------------------------------------
\* The types of the buffers and of the result.
TypeOK ==
    /\ active \in BOOLEAN
    /\ inp.keystroke_len \in Cell
    /\ inp.s_keystroke \in [Cell -> Key \cup {NUL}]
    /\ inp.mcch_pgstate \in {"ONEPG", "BEGIN"}
    /\ iccf.keystroke \in [Cell -> Key \cup {NUL}]
    /\ live \in {0, 1}
    /\ key \in Key \cup {NUL} /\ ret \in {"IGNORE", "ABSORB", "BACKSPACE"}

\* keystroke_len is the length of the string in the buffer, and the keystroke
\* is still to be completed: one of n_max_keystroke keys is taken out at once.
BufferConsistent ==
    /\ inp.keystroke_len < n_max_keystroke \/ inp.keystroke_len <= 1
    /\ iccf.keystroke[inp.keystroke_len] = NUL
    /\ \A i \in 0 .. inp.keystroke_len - 1 : iccf.keystroke[i] # NUL

\* The buffers have room for a keystroke of INP_CODE_LENGTH keys, "max # of
\* keys in a keystroke" (gencin.h:46): the cells that the next key writes, up to
\* keystroke_len + 2 of s_keystroke, exist (gen_inp.c:704-705).
PreeditFits == inp.keystroke_len + 2 \in Cell

\* Every list of candidates that is allocated is the one xim_end() frees.
ListsOwned == live = IF active THEN held(iccf) ELSE 0

\* The candidates on the page are those of the keys now in the buffer, and
\* when there are more of them than a page shows, the list holds them all.
CandidatesOfBuffer ==
    active /\ inp.mcch # << >> =>
      /\ in_table(text(iccf.keystroke))
      /\ inp.mcch = shown(chars_of(text(iccf.keystroke)))
      /\ IF inp.mcch_pgstate = "BEGIN"
         THEN iccf.mcch_list = chars_of(text(iccf.keystroke))
         ELSE inp.mcch = chars_of(text(iccf.keystroke))

\* A buffer of several keys was composed key by key: every beginning of it
\* of two keys or more is a keystroke of the table.
ComposedKeyByKey ==
    \A n \in 2 .. inp.keystroke_len : in_table(SubSeq(text(iccf.keystroke), 1, n))
=============================================================================
