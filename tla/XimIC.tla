------------------------------- MODULE XimIC -------------------------------
(***************************************************************************)
(* The IC and IMC manager of xim_IC.c: creation, deletion, attributes and  *)
(* the garbage collection of ICs.  The list of the live ICs is the set     *)
(* m.ic_list; the free list is the ids handed out before that are not in   *)
(* it, from which the model lets new_IC() take any (the code takes the     *)
(* last one deleted).  Of a deleted IC only the ic_rec is kept, to which the *)
(* ic_rec pointer of a shared IMC may still point.                         *)
(***************************************************************************)
EXTENDS ImSwitch

ic_free(m) == (1..m.icid) \ m.ic_list

new_ids(m) == IF ic_free(m) # {} THEN ic_free(m)
              ELSE {n \in {m.icid + 1} : n <= MaxIC}

(***************************************************************************)
(* new_IMC(): the only IMC when there is to be a single one, else a blank  *)
(* one named like the IC it is made for; either way it is attached to the  *)
(* new IC.                                                                 *)
(***************************************************************************)
imc_for(m, i) == IF SingleIMC /\ m.imc_list # {}
                 THEN CHOOSE k \in m.imc_list : TRUE
                 ELSE i

\* Slip: the IMC is not attached to the new IC.
new_IMC_unattached(m, i) ==
    LET k == imc_for(m, i)
    IN  [m EXCEPT !.imc_list = @ \cup {k},
                  !.IMC[k] = IF SingleIMC /\ m.imc_list # {} THEN @ ELSE ZeroIMC]

new_IMC(m, i) ==
    LET k == imc_for(m, i)
        imc == IF SingleIMC /\ m.imc_list # {} THEN m.IMC[k] ELSE ZeroIMC
    IN  [m EXCEPT !.imc_list = @ \cup {k},
                  !.IMC[k] = [imc EXCEPT !.icid = i]]

new_IC(m, i) ==
    [new_IMC(m, i) EXCEPT !.icid = IF i > @ THEN i ELSE @,
                          !.ic_list = @ \cup {i},
                          !.IC[i] = [ZeroIC EXCEPT !.imc = imc_for(m, i)]]

(***************************************************************************)
(* delete_IC() of every IC of D, with the IMC each of them owns.  The      *)
(* xim_end() that delete_IC() calls acts on an IMC that is freed with it,  *)
(* and is not called at all when the IMC is shared.                        *)
(***************************************************************************)
forget(rec) == [ZeroIC EXCEPT !.client_win = rec.client_win,
                              !.focus_win = rec.focus_win,
                              !.input_style = rec.input_style]

\* Slip: the IMC of a deleted IC stays in the list.
own_IMCs_kept(m, D) == {}

own_IMCs(m, D) == IF SingleIMC THEN {} ELSE {m.IC[i].imc : i \in D}

\* Slip: xccore->icp is forgotten.
unpoint_ic(m, D) == [m EXCEPT !.ic = IF @ \in D THEN NULL ELSE @]

unpoint(m, D) == [m EXCEPT !.ic = IF @ \in D THEN NULL ELSE @,
                           !.icp = IF @ \in D THEN NULL ELSE @]

delete_ICs(m, D) ==
    LET own == own_IMCs(m, D)
    IN  [unpoint(m, D) EXCEPT
            !.ic_list = @ \ D,
            !.IC = [i \in ICID |-> IF i \in D THEN forget(@[i]) ELSE @[i]],
            !.imc_list = @ \ own,
            !.IMC = [k \in ICID |-> IF k \in own THEN ZeroIMC ELSE @[k]]]

(***************************************************************************)
(* ic_set_values(): v carries the attributes the client passed, and a No   *)
(* value for each one it left out.  A style the rcfile does not enable     *)
(* falls back to Root.                                                     *)
(***************************************************************************)
given_window(w, old) == IF w # NoWindow THEN w ELSE old

set_values(rec, v) ==
    [rec EXCEPT !.client_win = given_window(v.client_win, @),
                !.focus_win = given_window(v.focus_win, @),
                !.input_style = IF v.input_style = NoStyle THEN @
                                ELSE IF v.input_style \in Supported
                                THEN v.input_style ELSE "Root"]

ic_set_values(m, i, v) == [m EXCEPT !.IC[i] = set_values(@, v)]

\* ic_create() of an IC with the id i for the client c.
ic_create(m, i, c, v) ==
    LET a == new_IC(m, i)
        rec == [a.IC[i] EXCEPT !.connect_id = c, !.ic_state = {"NEWIC"}]
    IN  ic_set_values(
          [a EXCEPT !.IC[i] = rec,
                    !.IMC[a.IC[i].imc].inp_num =
                        IF "IM_FOCUS" \in m.mode THEN m.im_focus
                                                 ELSE m.default_im],
          i, v)

ic_destroy(m, i) == delete_ICs(m, {i} \cap m.ic_list)

\* Slip: the connect_id is not compared.
ic_clean_everything(m, c) == delete_ICs(m, m.ic_list)

ic_clean_all(m, c) ==
    delete_ICs(m, {i \in m.ic_list : m.IC[i].connect_id = c})

(***************************************************************************)
(* check_ic_exist(ref): when the last sweep is long enough ago, delete the *)
(* ICs that have the focus window of ref, and probe the client window of   *)
(* the others that have been idle, deleting those whose window is gone.    *)
(***************************************************************************)
sweeps(m, r) == r \in m.ic_list /\ m.check_age > TIMECHECK_STEP

\* Slip: ICs without a focus window are taken to share one.
shadowed_by_none(m, r) ==
    {i \in m.ic_list \ {r} : m.IC[i].focus_win = m.IC[r].focus_win}

shadowed(m, r) ==
    {i \in m.ic_list \ {r} : /\ m.IC[i].focus_win # NoWindow
                             /\ m.IC[i].focus_win = m.IC[r].focus_win}

probed(m, r) ==
    {i \in m.ic_list \ ({r} \cup shadowed(m, r)) :
        /\ m.IC[i].exec_age > IC_IDLE_TIME
        /\ m.IC[i].client_win # NoWindow}

\* Slip: a sweep sets the exec_time of every IC.
stamped_all(m, r) == m.ic_list

stamped(m, r) == {r} \cup probed(m, r)

check_ic_exist(m, r, alive) ==
    LET gone == {i \in probed(m, r) : m.IC[i].client_win \notin alive}
    IN  IF ~sweeps(m, r) THEN m
        ELSE delete_ICs([m EXCEPT !.check_age = 0,
                                  !.IC = [i \in ICID |->
                                            IF i \in stamped(m, r)
                                            THEN [@[i] EXCEPT !.exec_age = 0]
                                            ELSE @[i]]],
                        shadowed(m, r) \cup gone)

\* One tick of the clock; a deleted IC's age is never looked at again.
older(rec) == [rec EXCEPT !.exec_age = IF @ > IC_IDLE_TIME THEN @ ELSE @ + 1]

tick(m) ==
    [m EXCEPT !.check_age = IF @ > TIMECHECK_STEP THEN @ ELSE @ + 1,
              !.IC = [i \in ICID |-> IF i \in m.ic_list THEN older(@[i])
                                                        ELSE @[i]]]
=============================================================================
