------------------------------ MODULE GenCin ------------------------------
(***************************************************************************)
(* cin2tab for a %gen_inp table: the %chardef block of gencin.c, read line *)
(* by line, then sorted and written as the arrays that gen_inp searches.   *)
(* The file has one such block; its other commands set header fields that  *)
(* nothing here depends on.                                                *)
(***************************************************************************)
EXTENDS KeyCodes, CharCode, FiniteSets

CONSTANTS
    ChardefLine,  \* possible lines: [keys, ch, mark]
    MaxLines,     \* bound on the lines of the block
    Garbage       \* what an uninitialised word may hold

ASSUME LineAssumption ==
    /\ MaxLines \in Nat
    /\ \A line \in ChardefLine : line.keys # << >> /\ line.mark \in BOOLEAN

ICODE_IDX_NOTEXIST == 65535

VARIABLES
    stage,   \* "chardef" while the block is read, then "tab"
    lines,   \* the lines read (history)
    th,      \* header: n_icode, n_ichar, n_max_keystroke, icode_mode
    cchar,   \* the cin_char_t units
    idx,     \* indices whose byte is set in the first use of idx[]
    n_ignore,
    tab      \* the arrays written: icidx, ichar, ic1, ic2, indexed from 0

cinvars == <<stage, lines, th, cchar, idx, n_ignore, tab>>

NoTab == [icidx |-> << >>, ichar |-> << >>, ic1 |-> << >>, ic2 |-> << >>]

CinInit ==
    /\ stage = "chardef" /\ lines = << >>
    /\ th = [n_icode |-> 0, n_ichar |-> 0, n_max_keystroke |-> 0, icode_mode |-> 0]
    /\ cchar = << >> /\ idx = {} /\ n_ignore = 0
    /\ tab = NoTab

(***************************************************************************)
(* The units come from calloc() as long as there are no more of them than  *)
(* characters in the encoding; those realloc() adds are not cleared.       *)
(***************************************************************************)
blank_units == IF th.n_icode < total_char THEN {0} ELSE Garbage

read_unit(line, i) ==
    \E w \in blank_units :
        cchar' = Append(cchar, [char_idx |-> i,
                                key  |-> keys2codes(<<0, w>>, line.keys),
                                mark |-> line.mark])

\* One line of the block; a character outside the encoding is ignored.
read_line(line) ==
    LET i == ccode_to_idx(line.ch)
    IN  /\ stage = "chardef" /\ Len(lines) < MaxLines
        /\ lines' = Append(lines, line)
        /\ IF i = -1
           THEN n_ignore' = n_ignore + 1 /\ UNCHANGED <<th, cchar, idx>>
           ELSE /\ read_unit(line, i)
                /\ th' = [th EXCEPT
                     !.n_icode = @ + 1,
                     !.n_ichar = IF i \in idx THEN @ ELSE @ + 1,
                     !.n_max_keystroke = IF @ < Len(line.keys)
                                         THEN Len(line.keys) ELSE @]
                /\ idx' = IF i \in idx THEN idx \cup {i} ELSE idx
                /\ UNCHANGED n_ignore
        /\ UNCHANGED <<stage, tab>>

----------------------------------------------------------------------------
(***************************************************************************)
(* stable_sort(): a merge sort that compares with icode_cmp().             *)
(***************************************************************************)
\* Slip: only the first word is compared.
icode_after_first(a, b) == a.key[1] > b.key[1]

icode_after(a, b) ==
    a.key[1] > b.key[1] \/ (a.key[1] = b.key[1] /\ a.key[2] > b.key[2])

\* Slip: of two equal units the second one is taken.
takes_second_equal(a, b) == ~icode_after(b, a)

takes_second(a, b) == icode_after(a, b)

RECURSIVE merge(_, _)
merge(b1, b2) ==
    IF b1 = << >> \/ b2 = << >> THEN b1 \o b2
    ELSE IF takes_second(Head(b1), Head(b2))
         THEN <<Head(b2)>> \o merge(b1, Tail(b2))
         ELSE <<Head(b1)>> \o merge(Tail(b1), b2)

RECURSIVE my_merge_sort(_)
my_merge_sort(units) ==
    LET n == Len(units)
    IN  IF n <= 1 THEN units
        ELSE merge(my_merge_sort(SubSeq(units, 1, n \div 2)),
                   my_merge_sort(SubSeq(units, n \div 2 + 1, n)))

\* Slip: a marked unit does not replace the one found first.
shown_unit_first(units, shown, i) == shown

\* The unit whose keystroke is shown for a character: the first in code
\* order, unless a later one is marked.
shown_unit(units, shown, i) == IF units[i].mark THEN i - 1 ELSE shown

\* ichar[]: for each index of the encoding, a position in the other arrays.
ichar_of(units) ==
    [c \in 0 .. total_char - 1 |->
       FoldLeftDomain(
         LAMBDA shown, i : IF units[i].char_idx # c THEN shown
                           ELSE IF shown = ICODE_IDX_NOTEXIST THEN i - 1
                           ELSE shown_unit(units, shown, i),
         ICODE_IDX_NOTEXIST, units)]

ICODE_MODE1 == 1
ICODE_MODE2 == 2

memory_model == IF th.n_max_keystroke <= 5 THEN ICODE_MODE1 ELSE ICODE_MODE2

from_0(s) == [i \in 0 .. Len(s) - 1 |-> s[i + 1]]

\* "%chardef end": the memory model, the sort, and the arrays.
end_chardef ==
    /\ stage = "chardef"
    /\ stage' = "tab"
    /\ th' = [th EXCEPT !.icode_mode = memory_model]
    /\ LET units == from_0(my_merge_sort(cchar))
       IN  tab' = [icidx |-> [i \in DOMAIN units |-> units[i].char_idx],
                   ichar |-> ichar_of(my_merge_sort(cchar)),
                   ic1   |-> [i \in DOMAIN units |-> units[i].key[1]],
                   ic2   |-> IF memory_model = ICODE_MODE2
                             THEN [i \in DOMAIN units |-> units[i].key[2]]
                             ELSE [i \in DOMAIN units |-> 0]]
    /\ UNCHANGED <<lines, cchar, idx, n_ignore>>

CinNext == (\E line \in ChardefLine : read_line(line)) \/ end_chardef
=============================================================================
