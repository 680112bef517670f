----------------------------- MODULE TabMatch -----------------------------
(***************************************************************************)
(* What a search in a compiled table yields (gen_inp.c).  A table t is the *)
(* record of arrays of a .tab file; md tells whether codes have two words. *)
(***************************************************************************)
EXTENDS KeyCodes, CharCode, FiniteSets

same_code(t, md, i, icode) ==
    t.ic1[i] = icode[1] /\ (md => t.ic2[i] = icode[2])

\* The code match_keystroke_normal() searches.
icode_of(keystroke) == keys2codes(<<0, 0>>, keystroke)

\* From the first index found, the characters up to the next code.
match_list(t, md, first, icode) ==
    LET stops == {i \in first + 1 .. Cardinality(DOMAIN t.icidx) :
                    i \notin DOMAIN t.icidx \/ ~same_code(t, md, i, icode)}
        stop == CHOOSE i \in stops : \A j \in stops : i <= j
    IN  [i \in 1 .. stop - first |-> ccode_to_char(t.icidx[first + i - 1])]

\* gen_inp_show_keystroke(): the keystroke recalled for a character.
show_keystroke(t, md, ch) ==
    LET at == t.ichar[ccode_to_idx(ch)]
    IN  codes2keys(IF md THEN <<t.ic1[at], t.ic2[at]>> ELSE <<t.ic1[at]>>)
=============================================================================
