----------------------------- MODULE ImSwitch -----------------------------
(***************************************************************************)
(* Switching the input method of an IC: call_xim_init, call_xim_end,       *)
(* change_IM, circular_change_IM and change_simd of xim.c, with the part   *)
(* of module.c they drive (get_cinput, get_cinput_next, load_module and    *)
(* free_cinput).                                                           *)
(***************************************************************************)
EXTENDS XcinState

can_bind(m, n) == m.cinput[n] = "loaded"
                  \/ (m.cinput[n] = "named" /\ n \in Loadable)

(***************************************************************************)
(* xim_init() of the bound module runs when the IMC enters Chinese mode    *)
(* and the caller wants the inpinfo reset; the flags are set in any case.  *)
(***************************************************************************)
call_xim_init(x, reset) ==
    LET runs == reset /\ x.imodp # NoMod /\ "CINPUT" \notin x.inp_state
    IN  [x EXCEPT !.inp_state = @ \cup {"CINPUT", "XIMFOCUS"},
                  !.inited = IF runs THEN x.imodp ELSE @,
                  !.reinit = @ \/ (runs /\ x.inited # NoMod)]

\* call_xim_end() with ic_delete = 0.
call_xim_end(x, clear) ==
    LET runs == clear /\ x.imodp # NoMod /\ "CINPUT" \in x.inp_state
    IN  [x EXCEPT !.inp_state = @ \ {"CINPUT", "XIMFOCUS"},
                  !.inited = IF runs THEN NoMod ELSE @]

(***************************************************************************)
(* change_IM(ic, n).  It fails, and touches only the cinput table, when    *)
(* the entry has no name or its module does not load.                      *)
(***************************************************************************)
change_IM_ok(m, n) == n \in Inp => can_bind(m, n)

\* Slip: the first call of change_IM() is not special.
reset_inpinfo_no_first(m, x, n) == SingleIMC => n \in Inp /\ x.inp_num # n

reset_inpinfo(m, x, n) ==
    m.first_call /\ SingleIMC => n \in Inp /\ x.inp_num # n

\* Slip: the module that is left is not told.
leave_IM_silently(m, x, n) == x

leave_IM(m, x, n) ==
    LET imodp == IF n \in Inp THEN n ELSE NoMod
    IN  IF x.imodp # NoMod /\ x.imodp # imodp
        THEN call_xim_end(x, reset_inpinfo(m, x, n))
        ELSE x

\* Slip: the binding is set to the number that asks for English mode.
enter_English_bound(m, k) ==
    [m EXCEPT !.IMC[k] = [leave_IM(m, m.IMC[k], English)
                            EXCEPT !.imodp = English]]

enter_English(m, k) ==
    [m EXCEPT !.IMC[k] = [leave_IM(m, m.IMC[k], English)
                            EXCEPT !.imodp = NoMod],
              !.mode = IF "IM_FOCUS" \in m.mode THEN @ \ {"RUN_IM_FOCUS"}
                                                ELSE @,
              !.first_call = TRUE]

\* The focused entry follows while the IM focus is on, the default entry
\* when there is a single IMC.
follow_IM(m, n) ==
    [m EXCEPT !.mode = IF "IM_FOCUS" \in @ THEN @ \cup {"RUN_IM_FOCUS"} ELSE @,
              !.im_focus = IF "IM_FOCUS" \in m.mode THEN n ELSE @,
              !.default_im = IF SingleIMC THEN n ELSE @]

enter_IM(m, k, n) ==
    LET x == m.IMC[k]
        s == IF "SHOW_CINPUT" \in m.mode THEN n ELSE m.default_im_sinmd
        y == call_xim_init([leave_IM(m, x, n) EXCEPT !.imodp = n,
                                                     !.inp_num = n],
                           reset_inpinfo(m, x, n))
    IN  [follow_IM(m, n) EXCEPT
            !.cinput = load_cinput(@, {n}),
            !.IMC[k] = [y EXCEPT !.s_imodp = s, !.sinp_num = s],
            !.first_call = TRUE]

change_IM(m, i, n) ==
    IF n \notin Inp THEN enter_English(m, m.IC[i].imc)
    ELSE IF can_bind(m, n) THEN enter_IM(m, m.IC[i].imc, n)
    ELSE [m EXCEPT !.cinput = load_cinput(@, {n})]

(***************************************************************************)
(* circular_change_IM(ic, d): from the current entry, English counting as  *)
(* the one past the table, the first entry in direction d that change_IM   *)
(* accepts.  The outcomes are the one-element set of the memory it leaves. *)
(***************************************************************************)
\* Slip: English mode is left out of the circle.
circle_no_English(s, d, t) == (s + d * t) % NInp

circle(s, d, t) == (s + d * t) % (NInp + 1)

circular_change_IM(m, i, d) ==
    LET x == m.IMC[m.IC[i].imc]
        s == IF "CINPUT" \in x.inp_state THEN x.inp_num ELSE English
        passed(t) == {circle(s, d, u) : u \in 1..(t - 1)}
    IN  {change_IM([m EXCEPT !.cinput = load_cinput(@, passed(t))],
                   i, circle(s, d, t)) :
           t \in {t \in 1..(NInp + 1) :
                    /\ change_IM_ok(m, circle(s, d, t))
                    /\ \A n \in passed(t) : ~change_IM_ok(m, n)}}

(***************************************************************************)
(* change_simd(ic): the keystroke display moves to the next entry whose    *)
(* module is loaded or loads; nothing but the table changes when that is   *)
(* the entry it already shows.                                             *)
(***************************************************************************)
change_simd(m, i) ==
    LET k == m.IC[i].imc
        s == m.IMC[k].sinp_num
        next(t) == (s + t) % NInp
        tried(t) == {next(u) : u \in 1..t}
        loaded(t) == [m EXCEPT !.cinput = load_cinput(@, tried(t))]
    IN  {IF next(t) = s THEN loaded(t)
         ELSE [loaded(t) EXCEPT !.IMC[k].sinp_num = next(t),
                                !.IMC[k].s_imodp = next(t),
                                !.default_im_sinmd = next(t),
                                !.mode = @ \ {"SHOW_CINPUT"}] :
           t \in {t \in 1..NInp :
                    /\ can_bind(m, next(t))
                    /\ \A n \in tried(t - 1) : ~can_bind(m, n)}}
=============================================================================
