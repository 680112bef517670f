---------------------------- MODULE BSearchChar ----------------------------
(***************************************************************************)
(* bsearch_char() of gen_inp.c, step by step: the search of a keystroke    *)
(* code in the sorted code arrays of a table, for the first index that     *)
(* holds it.  The only call of the code has wild = 0.                      *)
(***************************************************************************)
EXTENDS Integers

VARIABLES
    ic1, ic2,     \* the arrays, indexed from 0; ic2 counts in ICODE_MODE2
    size, md,     \* their length; whether the table has two words per code
    goal,         \* the words icode1 and icode2 that are searched
    head, middle, end,
    pc,           \* "start", "probe" (first loop), "back" (second), "done"
    found         \* the index returned, -1 for none

array == <<ic1, ic2, size, md>>
search == <<goal, head, middle, end, pc, found>>
vars == <<array, search>>

(***************************************************************************)
(* cmp_icvalue(): the second word decides only in the two-word model.      *)
(***************************************************************************)
below(i, g) == ic1[i] < g[1] \/ (ic1[i] = g[1] /\ md /\ ic2[i] < g[2])
above(i, g) == ic1[i] > g[1] \/ (ic1[i] = g[1] /\ md /\ ic2[i] > g[2])
equal(i, g) == ~below(i, g) /\ ~above(i, g)

Index == 0 .. size - 1

\* What loadtab() accepts from a table compiled by cin2tab.
Sorted ==
    /\ size \in Nat \ {0} /\ md \in BOOLEAN
    /\ ic1 \in [Index -> Nat] /\ ic2 \in [Index -> Nat]
    /\ \A i, j \in Index : i < j => ~above(i, <<ic1[j], ic2[j]>>)

TypeOK ==
    /\ goal \in Nat \X Nat
    /\ head \in Nat /\ middle \in Nat /\ end \in Nat
    /\ pc \in {"start", "probe", "back", "done"}
    /\ found \in Nat \cup {-1}

SearchInit ==
    /\ goal = <<0, 0>> /\ head = 0 /\ middle = 0 /\ end = 0
    /\ pc = "start" /\ found = -1

Init == Sorted /\ SearchInit

Call(g) ==
    /\ pc \in {"start", "done"}
    /\ goal' = g /\ head' = 0 /\ middle' = size \div 2 /\ end' = size
    /\ pc' = "probe" /\ found' = -1
    /\ UNCHANGED array

\* Slip: the probed index itself stays out of the upper half.
halves_short(h, e) ==
    IF above(middle, goal) THEN h = head /\ e = middle - 1
                           ELSE h = middle + 1 /\ e = end

halves(h, e) ==
    IF above(middle, goal) THEN h = head /\ e = middle
                           ELSE h = middle + 1 /\ e = end

\* One round of the first loop on an index that does not match.
Probe ==
    /\ pc = "probe" /\ ~equal(middle, goal)
    /\ halves(head', end')
    /\ middle' = (end' + head') \div 2
    /\ pc' = IF middle' = head' /\ middle' = end' THEN "done" ELSE pc
    /\ found' = -1
    /\ UNCHANGED <<array, goal>>

Match ==
    /\ pc = "probe" /\ equal(middle, goal)
    /\ pc' = "back"
    /\ UNCHANGED <<array, goal, head, middle, end, found>>

more_before == middle > 0 /\ equal(middle - 1, goal)

Back ==
    /\ pc = "back" /\ more_before
    /\ middle' = middle - 1
    /\ UNCHANGED <<array, goal, head, end, pc, found>>

last_step == pc = "back" /\ ~more_before

Return ==
    /\ last_step
    /\ found' = middle /\ pc' = "done"
    /\ UNCHANGED <<array, goal, head, middle, end>>

Step == Probe \/ Match \/ Back \/ Return

Next == Step \/ \E g \in Nat \X Nat : Call(g)

Spec == Init /\ [][Next]_vars

----------------------------------------------------------------------------
Holds(i) == i \in Index /\ equal(i, goal)

\* The index returned is the first that holds the code, and -1 is returned
\* only for a code the table does not have.
FirstFound ==
    pc = "done" =>
      IF found = -1 THEN \A i \in Index : ~Holds(i)
      ELSE Holds(found) /\ \A i \in Index : Holds(i) => found <= i

\* No loop reads past the arrays.
ReadsInside ==
    /\ pc = "probe" => middle \in Index
    /\ pc = "back" => middle \in Index
=============================================================================
