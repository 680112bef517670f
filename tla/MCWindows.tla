----------------------------- MODULE MCWindows -----------------------------
(***************************************************************************)
(* Model values for the runs of Windows.                                   *)
(***************************************************************************)
EXTENDS Windows

Play(mode, ics, styles, fonts, keys) ==
    [mode |-> mode, ics |-> ics, styles |-> styles, fonts |-> fonts, keys |-> keys]

\* Each play puts one thing to the test: the sharing of a client's fonts, a
\* font that is not there, the user's fontset instead of the clients', the
\* two-byte mode in windows that hide, the choice between the two main
\* windows, the typing in a candidate window that need not be up, and menus of
\* ICs of either style.  Some end with xcin being closed.
Plays == {
    Play({}, 2,                       {"OverSpot"},         {"f1"},  {}),
    Play({}, 2,                       {"OverSpot"},         {"bad"}, {"CLOSE"}),
    Play({"USRFONTSET"}, 2,           {"OverSpot"},         {},      {}),
    Play({"HIDE", "MAINWIN2"}, 2,     {"OverSpot"},         {},      {"2BYTES", "CLOSE"}),
    Play({"HIDE", "MAINWIN2"}, 2,     {"Root", "OverSpot"}, {},      {}),
    Play({"MAINWIN2", "WINONLY"}, 2,  {"OverSpot"},         {},      {"TYPE", "PHRASE", "CLOSE"}),
    Play({"HIDE"}, 2,                 {"Root"},             {},      {"PHRASE", "MENU"}),
    Play({}, 2,                       {"OverSpot"},         {},      {"MENU", "CLOSE"}),
    Play({"USRFONTSET", "WINONLY"}, 3, {"OverSpot"},     {},      {})}

(***************************************************************************)
(* What a struct or an X window is called does not matter.  In the view,   *)
(* which tells states apart, records and cells are named by the places     *)
(* where the lists lead to them, and windows by the record that stands for *)
(* them.  What nothing leads to is not seen, and of a cell that only a     *)
(* window leads to nothing but what the window draws with.                 *)
(***************************************************************************)
\* The names in q, each at its first place.
first_met(q) ==
    FoldLeft(LAMBDA p, c : IF c = 0 \/ c \in Range(p) THEN p ELSE Append(p, c), <<>>, q)

\* The place of a name in p, 0 when it is not there.
place(p, c) == IF c \in Range(p) THEN CHOOSE k \in DOMAIN p : p[k] = c ELSE 0

along(mem, head) == LET w == walk(mem, head) IN [k \in 1 .. Len(mem) |-> w[k - 1]]

View ==
    LET F     == s.fonts
        recs  == first_met(along(s.win, s.winlist) \o along(s.win, s.free_win)
                           \o <<s.mainwin, s.mainwin2>>)
        used  == on_list(s.win, s.winlist) \cup {s.mainwin, s.mainwin2}
        cells == first_met(along(F.cell, F.fontlist) \o along(F.cell, F.freef_head)
                           \o [k \in DOMAIN recs |->
                                  IF recs[k] \in used /\ ~s.win[recs[k]].exit
                                  THEN s.win[recs[k]].font ELSE NoFont])
        lists == on_list(F.cell, F.fontlist) \cup on_list(F.cell, F.freef_head)
        at(r)  == place(recs, r)
        fat(c) == place(cells, c)
        wid(x) == LET k == {j \in DOMAIN recs : recs[j] \in used /\ s.win[recs[j]].window = x}
                  IN  IF x = NULL THEN NULL ELSE IF k = {} THEN -1 ELSE Min(k)
        win(r) == IF r \in used
                  THEN [s.win[r] EXCEPT !.window = wid(@), !.font = fat(@), !.next = at(@)]
                  ELSE [ZeroWin EXCEPT !.next = at(s.win[r].next)]
        cell(c) == IF c \in lists
                   THEN [F.cell[c] EXCEPT !.next = fat(@), !.prev = fat(@)]
                   ELSE [F.cell[c] EXCEPT !.ref_cnt = 0, !.next = NoFont, !.prev = NoFont]
    IN  <<start,
          [s EXCEPT
            !.win = [k \in DOMAIN recs |-> win(recs[k])],
            !.winlist = at(@), !.free_win = at(@), !.mainwin = at(@), !.mainwin2 = at(@),
            !.xwin = {wid(x) : x \in @}, !.xid = 0,
            !.fonts = [cell |-> [k \in DOMAIN cells |-> cell(cells[k])],
                       fontlist |-> fat(F.fontlist), freef_head |-> fat(F.freef_head),
                       freef_end |-> fat(F.freef_end)],
            !.IC = [i \in ICID \cup {NULL} |->
                [@[i] EXCEPT !.overspot_win = wid(@), !.gwin =
                    [k \in DOMAIN @ |-> [@[k] EXCEPT !.window = wid(@)]]]]]>>
=============================================================================
