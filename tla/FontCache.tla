------------------------------ MODULE FontCache ------------------------------
(***************************************************************************)
(* The cache of fontsets of gui.c: gui_create_fontset() and                *)
(* gui_free_fontset(), and update_IC_fontset() of gui_overspot.c.          *)
(*                                                                         *)
(* F is the memory of the cache: the cells, which are ifont_t structs, and *)
(* the heads of the two lists they are on.  open tells that the cell's     *)
(* XFontSet has not been given to XFreeFontSet().  A cell that is on no    *)
(* list stays allocated for ever.                                          *)
(***************************************************************************)
EXTENDS Memory

CONSTANTS
    FontName,      \* the names of fontsets that anybody asks for
    Loadable,      \* those that XCreateFontSet() finds every charset of
    DefaultFont,   \* gui->font
    OverspotFont,  \* gui->overspot_font
    NoName         \* no name: the NULL pointer

ASSUME FontAssumption ==
    /\ Loadable \subseteq FontName
    /\ DefaultFont \in Loadable
    /\ OverspotFont \in FontName
    /\ NoName \notin FontName

NoFont == NULL

IFont == [basename : FontName \cup {NoName}, ref_cnt : Int,
          next : Nat, prev : Nat, open : BOOLEAN]

Unused == [basename |-> NoName, ref_cnt |-> 0, next |-> NoFont, prev |-> NoFont,
           open |-> FALSE]

NoFonts == [cell |-> <<>>, fontlist |-> NoFont, freef_head |-> NoFont,
            freef_end |-> NoFont]

named(F, head, name) ==
    first_of(F.cell, head, {c \in DOMAIN F.cell : F.cell[c].basename = name})

\* c's two neighbours are joined.
joined(F, c) ==
    LET n  == F.cell[c].next
        p  == F.cell[c].prev
        F1 == IF p # NoFont THEN [F EXCEPT !.cell[p].next = n] ELSE F
    IN  IF n # NoFont THEN [F1 EXCEPT !.cell[n].prev = p] ELSE F1

\* c, put at the head of fontlist as the cell r.
enlisted(F, c, r) ==
    [F EXCEPT !.cell[c] = [r EXCEPT !.next = F.fontlist, !.prev = NoFont],
              !.fontlist = c]

\* Slip: a fontset that is shared counts as one.
one_more_not(F, c) == F

one_more(F, c) == [F EXCEPT !.cell[c].ref_cnt = @ + 1]

revived(F, c) ==
    LET n == F.cell[c].next
        p == F.cell[c].prev
        F1 == [joined(F, c) EXCEPT !.freef_head = IF p = NoFont THEN n ELSE @,
                                   !.freef_end  = IF n = NoFont THEN p ELSE @]
    IN  enlisted(F1, c, one_more(F, c).cell[c])

\* The last cell of the free list is taken, and its fontset closed.
recycled(F) ==
    LET e == F.freef_end
        p == F.cell[e].prev
        F1 == [F EXCEPT !.cell[e] = Unused, !.freef_end = p]
    IN  IF p = NoFont THEN [F1 EXCEPT !.freef_head = NoFont]
                      ELSE [F1 EXCEPT !.cell[p].next = NoFont]

allocated(F) == [F EXCEPT !.cell = Append(@, Unused)]

\* A new fontset, in the cell of the oldest idle one if there is any.
opened(F, name) ==
    LET reused == F.freef_end # NoFont
        F1 == IF reused THEN recycled(F) ELSE F
        c  == IF reused THEN F.freef_end ELSE Len(F.cell) + 1
        r  == [Unused EXCEPT !.basename = name, !.ref_cnt = 1, !.open = TRUE]
    IN  IF name \in Loadable
        THEN [fonts |-> enlisted(IF reused THEN F1 ELSE allocated(F1), c, r), font |-> c]
        ELSE [fonts |-> F1, font |-> NoFont]

shared(F, name, used, idle) ==
    IF used # NoFont THEN [fonts |-> one_more(F, used), font |-> used]
    ELSE IF idle # NoFont THEN [fonts |-> revived(F, idle), font |-> idle]
    ELSE opened(F, name)

gui_create_fontset(F, name) ==
    IF name = NoName THEN [fonts |-> F, font |-> NoFont]
    ELSE shared(F, name, named(F, F.fontlist, name), named(F, F.freef_head, name))

retired(F, c) ==
    LET r  == F.cell[c]
        F1 == [joined(F, c) EXCEPT !.fontlist = IF r.prev = NoFont THEN r.next ELSE @]
    IN  [F1 EXCEPT !.cell[c] = [r EXCEPT !.prev = NoFont, !.next = F.freef_head],
                   !.freef_head = c,
                   !.freef_end  = IF @ = NoFont THEN c ELSE @]

gui_free_fontset(F, c) ==
    IF c \notin on_list(F.cell, F.fontlist) THEN F
    ELSE LET F1 == [F EXCEPT !.cell[c].ref_cnt = @ - 1]
         IN  IF F1.cell[c].ref_cnt <= 0 THEN retired(F1, c) ELSE F1

\* The font of a candidate window: its client's, or else xcin's own.
or_else(r, name) == IF r.font # NoFont THEN r ELSE gui_create_fontset(r.fonts, name)

update_IC_fontset(F, name) ==
    or_else(or_else(gui_create_fontset(F, name), OverspotFont), DefaultFont)
=============================================================================
