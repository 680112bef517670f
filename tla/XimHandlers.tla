---------------------------- MODULE XimHandlers ----------------------------
(***************************************************************************)
(* What the handlers of xim.c and the window code of gui.c do to the       *)
(* memory of the server.  An operator with one outcome is a memory; one    *)
(* that can end in several ways is a set of memories.                      *)
(***************************************************************************)
EXTENDS XimIC

\* The functional keys of fkey.c, with the minor code of FKEY_IMN.
Plain(code) == <<code, 0>>
FKey == {Plain(f) : f \in {"ZHEN", "2BSB", "CIRIM", "CIRRIM", "QPHRASE",
                           "CHREP", "SIMD", "IMFOCUS", "OTHER"}}
        \cup {<<"IMN", n>> : n \in Inp}

imc_of(m, i) == m.IMC[m.IC[i].imc]
is_on(m, i, flag) == flag \in imc_of(m, i).inp_state

xim_connect(m, i)    == [m EXCEPT !.IC[i].ic_state = @ \cup {"CONNECT"}]
xim_disconnect(m, i) == [m EXCEPT !.IC[i].ic_state = @ \ {"CONNECT"}]

(***************************************************************************)
(* XIM_SET_IC_FOCUS.  A new IC enters the focused input method when the IM *)
(* focus is running; under a shared IMC the connection follows its state.  *)
(***************************************************************************)
\* Slip: a new IC enters the default input method.
focus_new_default(m, i) ==
    LET run == m.mode \cap {"RUN_IM_FOCUS", "RUN_2B_FOCUS"}
        a == IF run # {} THEN xim_connect(m, i) ELSE m
        b == IF "RUN_IM_FOCUS" \in run THEN change_IM(a, i, m.default_im) ELSE a
    IN  [b EXCEPT !.IC[i].ic_state = @ \ {"NEWIC"}]

focus_new(m, i) ==
    LET run == m.mode \cap {"RUN_IM_FOCUS", "RUN_2B_FOCUS"}
        a == IF run # {} THEN xim_connect(m, i) ELSE m
        b == IF "RUN_IM_FOCUS" \in run THEN change_IM(a, i, m.im_focus) ELSE a
    IN  [b EXCEPT !.IC[i].ic_state = @ \ {"NEWIC"}]

focus_shared(m, i) ==
    LET a == IF is_on(m, i, "CINPUT") \/ is_on(m, i, "2BYTES")
             THEN xim_connect(m, i) ELSE xim_disconnect(m, i)
    IN  [a EXCEPT !.IMC[a.IC[i].imc].ic_rec = i]

set_focus(m, i) ==
    LET k == m.IC[i].imc
        x == [m.IMC[k] EXCEPT !.icid = i,
                              !.inp_state = IF "CINPUT" \in @
                                            THEN @ \cup {"XIMFOCUS"} ELSE @]
        a == [m EXCEPT !.IMC[k] = x,
                       !.IC[i].ic_state = @ \cup {"FOCUS"},
                       !.ic = i]
        b == IF "NEWIC" \in m.IC[i].ic_state THEN focus_new(a, i) ELSE a
    IN  IF "FOCUS" \in m.IC[i].ic_state THEN m
        ELSE IF SingleIMC THEN focus_shared(b, i) ELSE b

\* XIM_UNSET_IC_FOCUS; it leaves xccore->ic as it is.
\* Slip: only the wide ASCII focus is lost.
lost_focus_wide(s) == IF "2BYTES" \in s THEN {"2BFOCUS"} ELSE {}

lost_focus(s) == (IF "CINPUT" \in s THEN {"XIMFOCUS"} ELSE {})
                 \cup (IF "2BYTES" \in s THEN {"2BFOCUS"} ELSE {})

unset_focus(m, i) ==
    IF "FOCUS" \notin m.IC[i].ic_state THEN m
    ELSE [m EXCEPT !.IMC[m.IC[i].imc].inp_state =
                       IF SingleIMC THEN @ ELSE @ \ lost_focus(@),
                   !.icp = i,
                   !.IC[i].ic_state = @ \ {"FOCUS"}]

(***************************************************************************)
(* Toggling the wide ASCII mode and the IM focus, which FKEY_2BSB and      *)
(* FKEY_IMFOCUS do when they are forwarded.                                *)
(***************************************************************************)
enter_2bytes(m, k) ==
    [m EXCEPT !.IMC[k].inp_state = @ \cup {"2BYTES", "2BFOCUS"},
              !.mode = IF "IM_FOCUS" \in @ THEN @ \cup {"RUN_2B_FOCUS"} ELSE @]

leave_2bytes(m, k) ==
    [m EXCEPT !.IMC[k].inp_state = @ \ {"2BYTES", "2BFOCUS"},
              !.mode = IF "IM_FOCUS" \in @ THEN @ \ {"RUN_2B_FOCUS"} ELSE @]

toggle_im_focus(m, i) ==
    IF "IM_FOCUS" \in m.mode
    THEN [m EXCEPT !.mode = @ \ {"IM_FOCUS", "RUN_IM_FOCUS", "RUN_2B_FOCUS"}]
    ELSE [m EXCEPT !.mode = @ \cup {"IM_FOCUS",
                                    IF is_on(m, i, "CINPUT")
                                    THEN "RUN_IM_FOCUS" ELSE "RUN_2B_FOCUS"},
                   !.im_focus = imc_of(m, i).inp_num]

(***************************************************************************)
(* XIM_TRIGGER_NOTIFY of an on key: the client asks for the connection.    *)
(* IMdkit matches the key against a table of which make_trigger_keys()     *)
(* leaves three slots unwritten, so any code may come out of it.           *)
(***************************************************************************)
trigger_base(m, i) ==
    [m EXCEPT !.icp = m.ic,
              !.ic = i,
              !.IC[i].ic_state = @ \cup {"FOCUS", "CONNECT"},
              !.IMC[m.IC[i].imc].icid = i]

trigger_IM(m, i, n) ==
    LET a == change_IM(m, i, n)
    IN  IF change_IM_ok(m, n) THEN a ELSE xim_disconnect(a, i)

trigger_circle(m, i, d) ==
    {IF is_on(a, i, "CINPUT") THEN a ELSE xim_disconnect(a, i) :
       a \in circular_change_IM(m, i, d)}

trigger(m, i, key) ==
    LET a == trigger_base(m, i)
    IN  CASE key[1] = "ZHEN"    -> {trigger_IM(a, i, imc_of(a, i).inp_num)}
          [] key[1] = "2BSB"    -> {enter_2bytes(a, a.IC[i].imc)}
          [] key[1] = "CIRIM"   -> trigger_circle(a, i, 1)
          [] key[1] = "CIRRIM"  -> trigger_circle(a, i, -1)
          [] key[1] = "IMN"     -> {trigger_IM(a, i, key[2])}
          [] key[1] = "QPHRASE" -> {xim_disconnect(a, i)}
          [] OTHER              -> {a}

(***************************************************************************)
(* XIM_FORWARD_EVENT of a KeyPress that is a functional key: it acts, then *)
(* the IC is disconnected if it is left in neither input mode.             *)
(***************************************************************************)
ZhEn(m, i) == IF is_on(m, i, "CINPUT") THEN change_IM(m, i, -1)
              ELSE change_IM(m, i, imc_of(m, i).inp_num)

funckey(m, i, key) ==
    CASE key[1] = "ZHEN"    -> {ZhEn(m, i)}
      [] key[1] = "2BSB"    -> {IF is_on(m, i, "2BYTES")
                                THEN leave_2bytes(m, m.IC[i].imc)
                                ELSE enter_2bytes(m, m.IC[i].imc)}
      [] key[1] = "CIRIM"   -> circular_change_IM(m, i, 1)
      [] key[1] = "CIRRIM"  -> circular_change_IM(m, i, -1)
      [] key[1] = "IMN"     -> {change_IM(m, i, key[2])}
      [] key[1] = "SIMD"    -> change_simd(m, i)
      [] key[1] = "IMFOCUS" -> {toggle_im_focus(m, i)}
      [] OTHER              -> {m}

\* Slip: the IC stays connected.
forward_connected(m, i, key) == funckey(m, i, key)

forward(m, i, key) ==
    {IF is_on(a, i, "CINPUT") \/ is_on(a, i, "2BYTES") THEN a
     ELSE xim_disconnect(a, i) : a \in funckey(m, i, key)}

(***************************************************************************)
(* xim_close(): from now on every handler but the one of XIM_SYNC_REPLY    *)
(* returns at once, and the client of the current IC is asked to answer.   *)
(***************************************************************************)
xim_close(m) ==
    LET a == [m EXCEPT !.mode = @ \cup {"RUN_EXIT", "ICCHECK_OFF"}]
    IN  IF m.ic = NULL THEN [a EXCEPT !.mode = @ \cup {"RUN_EXITALL"}]
        ELSE xim_disconnect(a, m.ic)

\* Slip: like the other handlers, this one returns when the server exits.
sync_reply_ignored(m) == m

sync_reply(m) == IF "RUN_EXIT" \in m.mode
                 THEN [m EXCEPT !.mode = @ \cup {"RUN_EXITALL"}] ELSE m

\* xcin_mainwin_destroy(), before it calls xim_close().
free_spot(m) ==
    IF m.ic = NULL THEN m
    ELSE [m EXCEPT !.IMC[m.IC[m.ic].imc].overspot_win = FALSE]

(***************************************************************************)
(* gui_update_winlist(): an OverSpot IC without its candidate window gets  *)
(* one.  The window is placed by asking the X server about the window of   *)
(* the IMC's ic_rec, which is an X error when that window does not exist.  *)
(***************************************************************************)
spot_on(m) == m.ic # NULL /\ m.IC[m.ic].input_style = "OverSpot"

needs_spot(m) == spot_on(m) /\ ~imc_of(m, m.ic).overspot_win

gui_update_winlist(m) ==
    IF needs_spot(m)
    THEN LET k == m.IC[m.ic].imc
         IN  [m EXCEPT !.IMC[k].ic_rec = m.ic, !.IMC[k].overspot_win = TRUE]
    ELSE m

spot_window(m, k) ==
    LET rec == m.IC[m.IMC[k].ic_rec]
    IN  IF m.IMC[k].ic_rec = NULL THEN NoWindow
        ELSE IF rec.focus_win # NoWindow THEN rec.focus_win
        ELSE rec.client_win

may_draw(m, k) == m.IMC[k].inp_state \cap {"XIMFOCUS", "2BFOCUS"} # {}
=============================================================================
