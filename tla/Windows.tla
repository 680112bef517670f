------------------------------- MODULE Windows -------------------------------
(***************************************************************************)
(* What xcin shows on the screen: the handlers of xim.c as far as they     *)
(* change it, the update of the windows that follows every message         *)
(* (gui_update_winlist), and the events of gui_loop().                     *)
(***************************************************************************)
EXTENDS WinList

CONSTANTS
    MaxRef,         \* bound on the references to a fontset
    Start           \* what the rcfile sets and what the clients then do

\* Each start keeps to a number of ICs, to the styles and fonts that its clients
\* use and to some of what the user does: types, opens menus, sends phrases,
\* goes to the two-byte mode, and closes xcin.
ASSUME StartAssumption ==
    Start \subseteq [mode : SUBSET {"HIDE", "MAINWIN2", "WINONLY", "USRFONTSET"}, ics : ICID,
                     styles : SUBSET {"Root", "OverSpot"}, fonts : SUBSET FontName,
                     keys : SUBSET {"TYPE", "MENU", "PHRASE", "2BYTES", "CLOSE"}]

\* A number outside the table asks for English mode.
English == CHOOSE n \in 0 .. Cardinality(Ims) : n \notin Ims

VARIABLES s, start

-----------------------------------------------------------------------------
\* The main windows.
asked_for(t) == t.ic # NULL /\ converts(t, t.ic)

\* What inpstate_content() makes of the state of an IMC.
NoTitle == [im |-> English, wide |-> FALSE]

title(t, i) ==
    IF i = NULL THEN NoTitle
    ELSE [im   |-> IF is_on(t, i, "XIMFOCUS") THEN t.IC[i].inp_num ELSE English,
          wide |-> is_on(t, i, "2BFOCUS")]

win_draw(t, w) == [t EXCEPT !.drawn[t.win[w].kind] = title(t, t.ic)]

xcin_mainwin_draw(t, w) ==
    LET comes_and_goes == in_mode(t, "HIDE") \/ in_mode(t, "MAINWIN2")
    IN  IF t.win[w].exit THEN t
        ELSE IF ~asked_for(t)
        THEN IF comes_and_goes THEN gui_winmap_change(t, w, FALSE) ELSE win_draw(t, w)
        ELSE IF in_mode(t, "MAINWIN2") /\ t.IC[t.ic].style # "Root"
        THEN gui_winmap_change(t, w, FALSE)
        ELSE win_draw(IF comes_and_goes THEN gui_winmap_change(t, w, TRUE) ELSE t, w)

\* Slip: the wide window is taken to be out of the way.
wide_is_up_never(t) == FALSE

wide_is_up(t) == t.mainwin # NULL /\ t.win[t.mainwin].map

xcin_mainwin2_draw(t, w) ==
    IF t.win[w].exit \/ in_mode(t, "WINONLY") THEN t
    ELSE IF (~asked_for(t) /\ in_mode(t, "HIDE")) \/ wide_is_up(t)
    THEN gui_winmap_change(t, w, FALSE)
    ELSE win_draw(gui_winmap_change(t, w, TRUE), w)

new_main(t, kind) ==
    new_window(gui_new_win(t), kind, NULL, NULL, gui_create_fontset(t.fonts, DefaultFont))

xcin_mainwin_init(t) ==
    LET up     == ~in_mode(t, "HIDE") /\ ~in_mode(t, "MAINWIN2")
        set(n) == [gui_winmap_change(n.mem, n.rec, up) EXCEPT !.mainwin = n.rec]
    IN  set(new_main(t, "main"))

xcin_mainwin2_init(t) ==
    LET up     == ~in_mode(t, "HIDE") /\ ~in_mode(t, "WINONLY") /\ in_mode(t, "MAINWIN2")
        set(n) == [gui_winmap_change(n.mem, n.rec, up) EXCEPT !.mainwin2 = n.rec]
    IN  set(new_main(t, "main2"))

-----------------------------------------------------------------------------
\* The candidate window of an over-the-spot IC.
user_font(t, i) == IF in_mode(t, "USRFONTSET") THEN NoName ELSE t.IC[i].base_font

change_font(t, w, i) ==
    give_font([t EXCEPT !.IC[i].font_update = FALSE], w,
              update_IC_fontset(gui_free_fontset(t.fonts, t.win[w].font),
                                t.IC[i].base_font))

gui_overspot_draw(t, w) ==
    LET i       == t.win[w].data
        focused == is_on(t, i, "XIMFOCUS") \/ is_on(t, i, "2BFOCUS")
        flag    == \/ focused /\ in_mode(t, "WINONLY")
                   \/ is_on(t, i, "XIMFOCUS") /\ t.IC[i].typed
        t1      == IF focused /\ ~in_mode(t, "USRFONTSET") /\ t.IC[i].font_update
                   THEN change_font(t, w, i) ELSE t
    IN  IF t.win[w].exit THEN t ELSE gui_winmap_change(t1, w, flag)

gui_overspot_init(t, i) ==
    LET set(n) == [gui_overspot_draw(n.mem, n.rec) EXCEPT
                      !.IC[i].overspot_win = n.mem.win[n.rec].window]
    IN  set(new_window(gui_new_win(t), "overspot", i, i,
                       update_IC_fontset(t.fonts, user_font(t, i))))

-----------------------------------------------------------------------------
\* The menu window of a request.
gui_menusel_init(t, i, k) ==
    LET set(n) == [n EXCEPT !.mem = gui_winmap_change(@, n.rec, TRUE)]
    IN  set(new_window(gui_new_win(t), "menusel", i, k,
                       gui_create_fontset(t.fonts, DefaultFont)))

greq_register(t, i, callback) ==
    LET g     == t.IC[i].gwin
        reqid == 1 + Max({r.reqid : r \in Range(g)} \cup {0})
        set(n) == [n.mem EXCEPT !.IC[i].gwin =
                      Append(@, [reqid |-> reqid, window |-> n.mem.win[n.rec].window,
                                 callback |-> callback])]
    IN  IF Len(g) >= MaxReq THEN t ELSE set(gui_menusel_init(t, i, Len(g) + 1))

\* win_draw_func; a menu window is drawn without a change of its own.
draw(t, w) == CASE t.win[w].kind = "main"     -> xcin_mainwin_draw(t, w)
                [] t.win[w].kind = "main2"    -> xcin_mainwin2_draw(t, w)
                [] t.win[w].kind = "overspot" -> gui_overspot_draw(t, w)
                [] OTHER                      -> t

-----------------------------------------------------------------------------
\* The update after a message.
windraw(t, i, state) ==
    LET found == {gui_search_win(t, g.window) : g \in Range(t.IC[i].gwin)}
        map(r, w) == IF w \in found /\ ~r.exit THEN [r EXCEPT !.map = state] ELSE r
    IN  [t EXCEPT !.win = <<>> \o [w \in DOMAIN @ |-> map(@[w], w)]]

left_focus(t) == "FOCUS" \in t.winchange /\ t.icp # NULL

update_gui_request(t) ==
    windraw(IF left_focus(t) THEN windraw(t, t.icp, FALSE) ELSE t,
            t.ic, is_on(t, t.ic, "XIMFOCUS"))

\* The candidate window of the IC that was left is hidden, and the one of the
\* current IC drawn.
candidates_left(t) ==
    LET old == gui_search_win(t, t.IC[t.icp].overspot_win)
    IN  IF left_focus(t) /\ t.IC[t.icp].style = "OverSpot" /\ old # NULL
        THEN gui_winmap_change(t, old, FALSE) ELSE t

candidates_drawn(t, own) ==
    IF t.IC[t.ic].style # "OverSpot" THEN t
    ELSE IF own # NULL THEN draw(t, own) ELSE gui_overspot_init(t, t.ic)

update_gui_overspot(t) ==
    candidates_drawn(candidates_left(t), gui_search_win(t, t.IC[t.ic].overspot_win))

with_mainwin(t) ==
    IF t.IC[t.ic].style = "Root" /\ t.mainwin = NULL THEN xcin_mainwin_init(t) ELSE t

current_drawn(t) ==
    IF t.ic = NULL THEN t
    ELSE [update_gui_overspot(update_gui_request(with_mainwin(t))) EXCEPT
             !.IC[t.ic].font_update = FALSE]

mains_drawn(t) ==
    LET draw_if(u, w) == IF w = NULL THEN u ELSE draw(u, w)
    IN  IF "IM" \in t.winchange
        THEN [draw_if(draw_if(t, t.mainwin), t.mainwin2) EXCEPT !.unseen = FALSE] ELSE t

gui_update_winlist(t) == [mains_drawn(current_drawn(t)) EXCEPT !.winchange = {}]

-----------------------------------------------------------------------------
\* The handlers.
changed(t, flags) == [t EXCEPT !.winchange = @ \cup flags]

call_xim_end(t, i) ==
    IF is_on(t, i, "CINPUT")
    THEN [free_requests(t, i) EXCEPT !.IC[i].gwin = <<>>, !.IC[i].typed = FALSE]
    ELSE t

\* imodp is NULL exactly when the IC has no input method on.
change_IM(t, i, n) ==
    LET ends  == is_on(t, i, "CINPUT") /\ n # t.IC[i].inp_num
        on(u) == [u EXCEPT !.IC[i].inp_num = n,
                           !.IC[i].inp_state = @ \cup {"CINPUT", "XIMFOCUS"}]
        old   == IF ends
                 THEN [call_xim_end(t, i) EXCEPT !.IC[i].inp_state = @ \ {"CINPUT", "XIMFOCUS"}]
                 ELSE t
    IN  changed(IF n = English THEN old ELSE on(old), {"IM"})

delete_IC(t, i) ==
    [free_overspot(changed(call_xim_end(t, i), {"IM"}), i) EXCEPT
        !.IC[i] = NoIC, !.ic  = IF @ = i THEN NULL ELSE @,
                        !.icp = IF @ = i THEN NULL ELSE @, !.left = @ \ {i}]

ic_set_font(t, i, f) ==
    IF f = NoName \/ t.IC[i].base_font = f THEN t
    ELSE [t EXCEPT !.IC[i].base_font = f, !.IC[i].font_update = TRUE]

ic_create(t, i, style, f) ==
    ic_set_font([t EXCEPT !.IC[i] = [NoIC EXCEPT !.live = TRUE, !.style = style]], i, f)

\* Slip: the windows of the IC that is left stay as they are.
focus_changes_title == {"IM"}

\* Slip: the titles stay as they are.
focus_changes_windows == {"FOCUS"}

focus_changes == {"IM", "FOCUS"}

set_focus(t, i) ==
    IF t.IC[i].focus THEN t
    ELSE changed([t EXCEPT !.IC[i].focus = TRUE, !.ic = i, !.left = @ \ {i},
                           !.IC[i].inp_state = IF "CINPUT" \in @ THEN @ \cup {"XIMFOCUS"} ELSE @],
                 focus_changes)

unset_focus(t, i) ==
    IF ~t.IC[i].focus THEN t
    ELSE changed([t EXCEPT !.IC[i].focus = FALSE, !.icp = i,
                           !.left = IF t.ic = NULL THEN @ \cup {i} ELSE @,
                           !.IC[i].inp_state = @ \ {"XIMFOCUS", "2BFOCUS"}],
                 focus_changes)

wide == {"2BYTES", "2BFOCUS"}

trigger_base(t, i) ==
    [t EXCEPT !.icp = t.ic, !.ic = i, !.IC[i].focus = TRUE, !.left = @ \ {i}]

\* A phrase is sent, or there is no IM to change to: nothing is redrawn.
phrase(t) == [t EXCEPT !.unseen = @ \/ t.ic # t.icp]

toggle_2bytes(t, i) ==
    changed([t EXCEPT !.IC[i].inp_state =
                 IF "2BYTES" \in @ THEN @ \ wide ELSE @ \cup wide], {"IM"})

-----------------------------------------------------------------------------
(***************************************************************************)
(* The steps of the server, one for each message and event.                *)
(***************************************************************************)
gui_init(mode) ==
    LET t == [IC |-> [i \in ICID \cup {NULL} |-> NoIC], ic |-> NULL, icp |-> NULL,
              mode |-> mode, winchange |-> {"IM"}, fonts |-> NoFonts,
              win |-> <<>>, winlist |-> NULL, free_win |-> NULL, mainwin |-> NULL,
              mainwin2 |-> NULL, xwin |-> {}, xid |-> 0, unseen |-> FALSE, left |-> {},
              drawn |-> [k \in {"main", "main2"} |-> NoTitle]]
    IN  IF in_mode(t, "MAINWIN2") THEN xcin_mainwin2_init(t) ELSE xcin_mainwin_init(t)

Init == start \in Start /\ s = gui_init(start.mode)

\* im_protocol_handler(); a server that is told to exit handles no message.
Handled(t) ==
    /\ "RUN_EXITALL" \notin s.mode
    /\ s' = gui_update_winlist(IF in_mode(s, "RUN_EXIT") THEN s ELSE t)
    /\ UNCHANGED start

Live == {i \in ICID : s.IC[i].live}

\* The slots of dead ICs are interchangeable.
CreateIC == \E style \in start.styles, f \in start.fonts \cup {NoName} :
    LET dead == (1 .. start.ics) \ Live
    IN  dead # {} /\ Handled(ic_create(s, Min(dead), style, f))

\* XIM_DESTROY_IC, a sweep, or XIM_CLOSE, which deletes all ICs of a client.
DeleteICs == \E I \in (SUBSET Live) \ {{}} : Handled(FoldSet(LAMBDA i, t : delete_IC(t, i), s, I))

SetFocus(i)   == Handled(set_focus(s, i))
UnsetFocus(i) == Handled(unset_focus(s, i))
SetFont(i)    == \E f \in start.fonts : Handled(ic_set_font(s, i, f))

\* The client's library sends a trigger key of the IC in focus while it is
\* not connected.
triggered(t, i) ==
    {change_IM(t, i, n) : n \in Ims}
    \cup {[toggle_2bytes(t, i) EXCEPT !.winchange = {"IM"}] : k \in start.keys \cap {"2BYTES"}}
    \cup {phrase(t) : k \in start.keys \cap {"PHRASE"}}

Trigger(i) ==
    /\ s.IC[i].focus /\ ~converts(s, i)
    /\ \E t \in triggered(trigger_base(s, i), i) : Handled(t)

\* And forwards the keys once it is.
Connected(i) == s.IC[i].focus /\ converts(s, i)

FuncKey(i) ==
    /\ Connected(i)
    /\ \E t \in {change_IM(s, i, n) : n \in Ims \cup {English}}
                \cup {toggle_2bytes(s, i) : k \in start.keys \cap {"2BYTES"}} : Handled(t)

\* What the input method does with a key.  A menu window never gives its font
\* back, so the references to gui->font only grow.
SomeRef == \A c \in on_list(s.fonts.cell, s.fonts.fontlist) :
               s.fonts.cell[c].ref_cnt < MaxRef

typed(t, i) ==
    {[t EXCEPT !.IC[i].typed = ~@] : k \in start.keys \cap {"TYPE"}}
    \cup {greq_register(t, i, callback) :
             callback \in IF "MENU" \in start.keys /\ SomeRef THEN BOOLEAN ELSE {}}
    \cup {greq_unregister(t, i, g.reqid) : g \in Range(t.IC[i].gwin)}

Keystroke(i) ==
    /\ Connected(i) /\ is_on(s, i, "CINPUT")
    /\ \E t \in typed(changed(s, {"IM"}), i) : Handled(t)

\* The answer that xim_close() waits for.
SyncReply ==
    /\ in_mode(s, "RUN_EXIT") /\ ~in_mode(s, "RUN_EXITALL")
    /\ s' = [gui_update_winlist(s) EXCEPT !.mode = @ \cup {"RUN_EXITALL"}]
    /\ UNCHANGED start

Expose == \E w \in on_list(s.win, s.winlist) :
    /\ "RUN_EXITALL" \notin s.mode
    /\ s' = draw(s, w)
    /\ UNCHANGED start

\* WM_DELETE_WINDOW, which only a main window takes.
CloseMain == \E w \in {s.mainwin, s.mainwin2} \ {NULL} :
    /\ "CLOSE" \in start.keys
    /\ w \in on_list(s.win, s.winlist) /\ s.win[w].kind \in {"main", "main2"}
    /\ "RUN_EXITALL" \notin s.mode
    /\ s' = gui_freewin(s, s.win[w].window)
    /\ UNCHANGED start

Signal ==
    /\ "CLOSE" \in start.keys
    /\ "RUN_EXITALL" \notin s.mode
    /\ s' = xim_close(s)
    /\ UNCHANGED start

Next == \/ CreateIC \/ DeleteICs
        \/ \E i \in Live : \/ SetFocus(i) \/ UnsetFocus(i) \/ SetFont(i)
                           \/ Trigger(i) \/ FuncKey(i) \/ Keystroke(i)
        \/ SyncReply \/ Expose \/ CloseMain \/ Signal

Spec == Init /\ [][Next]_<<s, start>>

-----------------------------------------------------------------------------
(***************************************************************************)
(* Properties.                                                             *)
(***************************************************************************)
Shown(w) == w \in on_list(s.win, s.winlist) /\ ~s.win[w].exit

Closing == in_mode(s, "RUN_EXIT")

\* The ICs that the screen may be about: the current one, and the others
\* that still have the input focus until their own message arrives.
InFocus == ({s.ic} \ {NULL}) \cup {i \in Live : s.IC[i].focus}

\* A window draws with a fontset that is open and is the one it was given:
\* whatever fonts the other windows share, change and give back, no fontset
\* is closed or taken for another name under a window (gui.c:56-197).
FontsOpen == \A w \in DOMAIN s.win : Shown(w) =>
    /\ s.win[w].font # NoFont
    /\ s.fonts.cell[s.win[w].font].open
    /\ s.fonts.cell[s.win[w].font].basename = s.win[w].asked

\* The window list can be walked to its end even while xcin exits.  Until
\* then each record of it stands for an X window of its own, none of them is
\* free for reuse, a candidate window and a menu belong to a live IC that
\* knows them, and every window an IC knows of is there: nothing is leaked,
\* drawn after its IC is gone or looked for in vain (gui.c:205-297,
\* xim_IC.c:98-121 and 674-752).
WindowsLive ==
    LET w == on_list(s.win, s.winlist)
    IN  /\ walk(s.win, s.winlist)[Len(s.win)] = NULL
        /\ Closing \/
            /\ w \cap on_list(s.win, s.free_win) = {}
            /\ {s.win[r].window : r \in w} = s.xwin /\ Cardinality(w) = Cardinality(s.xwin)
            /\ \A r \in w : ~s.win[r].exit
            /\ \A r \in w : s.win[r].kind = "overspot" =>
                   s.IC[s.win[r].data].overspot_win = s.win[r].window
            /\ \A r \in w : s.win[r].kind = "menusel" =>
                   request_of(s, r).window = s.win[r].window
            /\ \A i \in ICID : \A x \in ({s.IC[i].overspot_win} \ {NULL})
                                    \cup {g.window : g \in Range(s.IC[i].gwin)} :
                   gui_search_win(s, x) # NULL

\* A candidate window or a menu is on the screen only for the current IC or
\* for one that has not lost the focus yet, and for the current IC only while
\* it takes keys: no window of an IC the user has left stays up.  The exception is
\* real: while there is no current IC, its own having been deleted, nothing is
\* hidden, and the window of an IC that loses the focus then stays up under the
\* next one (gui.c:426-467, 507-514).
NoStaleCandidates == \A w \in DOMAIN s.win :
    Shown(w) /\ s.win[w].map /\ s.win[w].imid # NULL /\ s.ic # NULL /\ ~Closing =>
        /\ s.win[w].imid \in InFocus \cup s.left
        /\ s.win[w].imid = s.ic => converts(s, s.ic)

\* The two main windows are never up together.  Unless a phrase key has just
\* made another IC the current one, a window that comes and goes with the
\* input is up only while the current IC takes keys, and then the one it
\* needs is: the wide window for the root style, else the small one
\* (gui_main.c:366-400, gui_main2.c:146-172).
MainWindowsAgree ==
    LET up(w)  == w # NULL /\ s.win[w].map
        any    == up(s.mainwin) \/ up(s.mainwin2)
        small  == in_mode(s, "MAINWIN2") /\ s.IC[s.ic].style # "Root"
    IN  Closing \/
        /\ ~(up(s.mainwin) /\ up(s.mainwin2))
        /\ any /\ in_mode(s, "HIDE") /\ ~s.unseen => asked_for(s)
        /\ asked_for(s) => IF small THEN up(s.mainwin2) \/ in_mode(s, "WINONLY")
                                    ELSE up(s.mainwin)

\* The title on a main window names the input method and the width of the
\* current IC as they are now, however the ICs took the focus from each other
\* and were changed, and not as they were when the window was drawn last;
\* only a phrase key may leave another IC's (gui_main.c:271-300,
\* gui_main2.c:100-125).
TitleOfCurrent ==
    \A w \in {s.mainwin, s.mainwin2} \ {NULL} :
        s.win[w].map /\ ~Closing /\ ~s.unseen
            => s.drawn[s.win[w].kind] = title(s, s.ic)
=============================================================================
