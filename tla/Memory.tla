------------------------------- MODULE Memory -------------------------------
(***************************************************************************)
(* The linked lists of gui.c.  A memory is the sequence of the structs     *)
(* that were ever allocated.  A struct is named by its place there, 0      *)
(* being NULL, and its field next names the one after it on a list.        *)
(***************************************************************************)
EXTENDS Integers, Sequences, SequencesExt

NULL == 0

\* head, and then what the fields next lead to.
walk(mem, head) ==
    LET met[k \in 0 .. Len(mem)] ==
            IF k = 0 THEN head
            ELSE IF met[k - 1] = NULL THEN NULL ELSE mem[met[k - 1]].next
    IN  met

on_list(mem, head) == Range(walk(mem, head)) \ {NULL}

\* The first struct of a list that is in S, or none.
first_of(mem, head, S) ==
    LET w    == walk(mem, head)
        hits == {k \in DOMAIN w : w[k] \in S}
    IN  IF hits = {} THEN NULL ELSE w[Min(hits)]
=============================================================================
