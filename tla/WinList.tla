------------------------------- MODULE WinList -------------------------------
(***************************************************************************)
(* The windows of xcin: the window records of gui.c and the lists they are *)
(* on, the request windows of an IMC (xim_IC.c) and what frees them.  The  *)
(* server runs as one thread, so every C function is an operator from a    *)
(* memory s to a memory.  Every IC has an IMC of its own (XCIN_SINGLE_IMC  *)
(* is off), so IC[i] holds the fields of both; the IMC's id is i.          *)
(*                                                                         *)
(* The records (winlist_t) are a memory, and X windows are numbers, 0      *)
(* being None.  What a window draws is left out: where it is, what it      *)
(* says, its GCs.  A record's "asked" is history, the font it was given,   *)
(* and so are "unseen", the current IC is another one and nothing has been *)
(* redrawn, and "left", the ICs that lost the focus for the last time      *)
(* while there was no current IC.                                          *)
(***************************************************************************)
EXTENDS FontCache, FiniteSets

CONSTANTS
    MaxIC,          \* bound on the ICs alive together
    MaxReq,         \* requests of an IMC (MAX_GREQ_CNT)
    Ims             \* the entries of the cinput table, all loaded

ASSUME WinAssumption ==
    /\ MaxIC \in Nat \ {0}
    /\ MaxReq \in Nat

ICID  == 1 .. MaxIC

NoIC == [live |-> FALSE, style |-> "Root", base_font |-> NoName, font_update |-> FALSE,
         focus |-> FALSE, inp_state |-> {}, inp_num |-> CHOOSE n \in Ims : TRUE,
         typed |-> FALSE, overspot_win |-> NULL, gwin |-> <<>>]

ZeroWin == [window |-> NULL, kind |-> "none", imid |-> NULL, map |-> FALSE,
            exit |-> FALSE, font |-> NoFont, asked |-> NoName, data |-> NULL,
            next |-> NULL]

is_on(s, i, flag) == flag \in s.IC[i].inp_state
in_mode(s, flag)  == flag \in s.mode
\* An input method, or the two-byte mode, takes the keys of the IC.
converts(s, i)    == is_on(s, i, "CINPUT") \/ is_on(s, i, "2BYTES")

-----------------------------------------------------------------------------
\* The lists.
gui_search_win(s, x) ==
    first_of(s.win, s.winlist, {r \in DOMAIN s.win : s.win[r].window = x})

\* The record before r on winlist.
before(s, r) == first_of(s.win, s.winlist, {q \in DOMAIN s.win : s.win[q].next = r})

new_rec(s, w) ==
    [rec |-> w,
     mem |-> [s EXCEPT !.win[w] = [ZeroWin EXCEPT !.next = s.winlist], !.winlist = w]]

gui_new_win(s) ==
    IF s.free_win # NULL
    THEN new_rec([s EXCEPT !.free_win = s.win[@].next], s.free_win)
    ELSE new_rec([s EXCEPT !.win = Append(@, ZeroWin)], Len(s.win) + 1)

\* gui_freewin(): the record's content is freed, which may free other
\* records, and then it is unlinked by what was read before that.
unlinked(s, w, wp) ==
    LET n  == s.win[w].next
        s1 == IF wp = NULL THEN [s EXCEPT !.winlist = n] ELSE [s EXCEPT !.win[wp].next = n]
    IN  [s1 EXCEPT !.win[w].next = s.free_win, !.free_win = w]

freewin(s, x, Content(_, _)) ==
    LET w == gui_search_win(s, x)
    IN  IF w = NULL THEN s
        ELSE unlinked(IF s.win[w].exit THEN s
                      ELSE [Content(s, w) EXCEPT !.win[w].exit = TRUE],
                      w, before(s, w))

gui_winmap_change(s, w, state) ==
    IF s.win[w].exit THEN s ELSE [s EXCEPT !.win[w].map = state]

\* XCreateSimpleWindow: an id that was never given before.
XCreateWindow(s, w) ==
    [s EXCEPT !.xid = @ + 1, !.xwin = @ \cup {s.xid + 1}, !.win[w].window = s.xid + 1]

\* The font of a new window, or of one that changes its font.
give_font(s, w, r) ==
    [s EXCEPT !.fonts = r.fonts, !.win[w].font = r.font,
              !.win[w].asked = IF r.font = NoFont THEN NoName
                               ELSE r.fonts.cell[r.font].basename]

\* What every window starts as: a new record, a font and an X window.
new_window(n, kind, imid, data, r) ==
    LET mem == [n.mem EXCEPT !.win[n.rec].kind = kind, !.win[n.rec].imid = imid,
                             !.win[n.rec].data = data]
    IN  [rec |-> n.rec, mem |-> XCreateWindow(give_font(mem, n.rec, r), n.rec)]

-----------------------------------------------------------------------------
(***************************************************************************)
(* The requests of an IMC.  A request is found by its element of gwin, and *)
(* its window's data points to that element: the place it was made at.     *)
(***************************************************************************)
imc_find(s, imid) == imid # NULL /\ s.IC[imid].live

greq_unregister_internal(s, i, k) == [s EXCEPT !.IC[i].gwin = RemoveAt(@, k)]

\* A request whose element has been zeroed has no callback.
request_of(s, w) ==
    LET g == s.IC[s.win[w].imid].gwin
        k == s.win[w].data
    IN  IF k <= Len(g) THEN g[k] ELSE [reqid |-> 0, window |-> NULL, callback |-> FALSE]

gui_menusel_destroy(s, w) ==
    LET i  == s.win[w].imid
        gw == request_of(s, w)
        k  == CHOOSE j \in DOMAIN s.IC[i].gwin : s.IC[i].gwin[j].reqid = gw.reqid
        s1 == IF gw.callback THEN greq_unregister_internal(s, i, k) ELSE s
    IN  IF ~imc_find(s, i) THEN s
        ELSE [s1 EXCEPT !.xwin = @ \ {s.win[w].window}]

\* free_win_content() of a window that has no destroy function.
plain_destroy(s, w) ==
    [s EXCEPT !.win[w].map = FALSE,
              !.fonts = gui_free_fontset(@, s.win[w].font),
              !.xwin = @ \ {s.win[w].window}]

child_content(s, w) ==
    IF s.win[w].kind = "menusel" THEN gui_menusel_destroy(s, w) ELSE plain_destroy(s, w)

free_child(s, x) == freewin(s, x, child_content)

\* for (i=0; i<imc->n_gwin; i++) gui_freewin(imc->gwin[i].window);
free_requests(s, i) ==
    FoldLeft(LAMBDA t, k : IF k <= Len(t.IC[i].gwin)
                           THEN free_child(t, t.IC[i].gwin[k].window) ELSE t,
             s, [k \in 1 .. MaxReq |-> k])

\* Slip: the candidate window of an IC outlives it.
free_overspot_not(s, i) == s

free_overspot(s, i) ==
    IF s.IC[i].overspot_win = NULL THEN s ELSE free_child(s, s.IC[i].overspot_win)

greq_unregister(s, i, reqid) ==
    LET hits == {k \in DOMAIN s.IC[i].gwin : s.IC[i].gwin[k].reqid = reqid}
        k    == Min(hits)
        s1   == [s EXCEPT !.IC[i].gwin[k].callback = FALSE]
    IN  IF hits = {} THEN s
        ELSE greq_unregister_internal(free_child(s1, s.IC[i].gwin[k].window), i, k)

\* xim_close(), as far as the windows go.
xim_close(s) ==
    [s EXCEPT !.mode = @ \cup {"RUN_EXIT"} \cup (IF s.ic = NULL THEN {"RUN_EXITALL"} ELSE {})]

\* xcin_mainwin_destroy() and xcin_mainwin2_destroy(): the window stays.
main_destroy(s, w) ==
    xim_close(IF s.ic = NULL THEN s ELSE free_overspot(free_requests(s, s.ic), s.ic))

free_win_content(s, w) ==
    IF s.win[w].kind \in {"main", "main2"} THEN main_destroy(s, w) ELSE child_content(s, w)

gui_freewin(s, x) == freewin(s, x, free_win_content)
=============================================================================
