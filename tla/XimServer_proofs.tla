-------------------------- MODULE XimServer_proofs --------------------------
(***************************************************************************)
(* Proofs about XimServer, for every value of its constants that satisfies *)
(* StateAssumption and ServerAssumption.                                   *)
(*                                                                         *)
(* TypeOK is not inductive: a handler writes m.IMC[m.IC[i].imc], which has *)
(* a type only if a listed IC has an IMC.  The invariant proved is TypeOK  *)
(* with Attached, which says how the two lists, the two IC pointers and    *)
(* the icid counter hang together.  Most handlers leave all of that alone  *)
(* (Steady), so they preserve Attached by one lemma.                       *)
(***************************************************************************)
EXTENDS XimProperties, WellFoundedInduction, TLAPS

\* How the ICs, the IMCs and the pointers of a memory hang together.
Pointed(a) == {a.ic, a.icp} \subseteq a.ic_list \cup {NULL}

Owned(a) ==
    IF SingleIMC
    THEN a.imc_list \subseteq {1} /\ (a.imc_list = {} => a.icid = 0)
    ELSE /\ a.imc_list = a.ic_list
         /\ \A i \in a.ic_list : a.IC[i].imc = i /\ a.IMC[i].icid = i

Attached(a) == /\ a.ic_list \subseteq 1..a.icid
               /\ \A i \in a.ic_list : a.IC[i].imc \in a.imc_list
               /\ Pointed(a)
               /\ Owned(a)

Sound(a) == a \in Memory /\ Attached(a)

\* A step from the memory a to b that touches none of it.
Steady(a, b) ==
    /\ b \in Memory
    /\ b.ic = a.ic /\ b.icp = a.icp
    /\ b.icid = a.icid /\ b.ic_list = a.ic_list /\ b.imc_list = a.imc_list
    /\ \A i \in ICID : b.IC[i].imc = a.IC[i].imc /\ b.IMC[i].icid = a.IMC[i].icid

IInv == TypeOK /\ Attached(m)

-----------------------------------------------------------------------------
\* Steady steps compose, and keep a memory sound.
LEMMA SteadyTrans ==
    ASSUME NEW a, NEW b, NEW c, Steady(a, b), Steady(b, c)
    PROVE  Steady(a, c)
BY DEF Steady

LEMMA SteadySound ==
    ASSUME NEW a, NEW b, Sound(a), Steady(a, b)
    PROVE  Sound(b)
<1>1. a.ic_list \subseteq ICID
  BY DEF Sound, Memory
<1>2. b \in Memory
  BY DEF Steady
<1>3. b.ic_list \subseteq 1..b.icid /\ \A i \in b.ic_list : b.IC[i].imc \in b.imc_list
  BY <1>1 DEF Sound, Steady, Attached
<1>4. Pointed(b)
  BY DEF Sound, Steady, Attached, Pointed
<1>5. Owned(b)
  BY <1>1 DEF Sound, Steady, Attached, Owned
<1> QED BY <1>2, <1>3, <1>4, <1>5 DEF Sound, Attached

\* A step that writes one IMC and keeps its icid is steady.
LEMMA SteadyIMC ==
    ASSUME NEW a \in Memory, NEW b \in Memory, NEW k \in ICID, NEW x,
           b.ic = a.ic, b.icp = a.icp, b.icid = a.icid, b.IC = a.IC,
           b.ic_list = a.ic_list, b.imc_list = a.imc_list,
           b.IMC = [a.IMC EXCEPT ![k] = x], x.icid = a.IMC[k].icid
    PROVE  Steady(a, b)
<1>1. a.IMC \in [ICID -> IMCRec]
  BY DEF Memory
<1>2. \A i \in ICID : b.IMC[i].icid = a.IMC[i].icid
  BY <1>1
<1> QED BY <1>2 DEF Steady

LEMMA Stutter ==
    ASSUME NEW a \in Memory
    PROVE  Steady(a, a)
BY DEF Steady

\* A listed IC has an IMC.
LEMMA HasIMC ==
    ASSUME NEW a, Sound(a), NEW i \in a.ic_list
    PROVE  i \in ICID /\ a.IC[i].imc \in ICID /\ a.IC[i].imc \in a.imc_list
BY DEF Sound, Attached, Memory

-----------------------------------------------------------------------------
\* ImSwitch: the operators that switch the input method.
LEMMA LoadType ==
    ASSUME NEW f \in [Inp -> CinputState], NEW S
    PROVE  load_cinput(f, S) \in [Inp -> CinputState]
BY DEF load_cinput, CinputState

LEMMA XimInitType ==
    ASSUME NEW x \in IMCRec, NEW r
    PROVE  call_xim_init(x, r) \in IMCRec /\ call_xim_init(x, r).icid = x.icid
BY DEF call_xim_init, IMCRec, InpState

LEMMA LeaveType ==
    ASSUME NEW a, NEW x \in IMCRec, NEW n
    PROVE  leave_IM(a, x, n) \in IMCRec /\ leave_IM(a, x, n).icid = x.icid
<1>1. \A r : call_xim_end(x, r) \in IMCRec /\ call_xim_end(x, r).icid = x.icid
  BY DEF call_xim_end, IMCRec, InpState, NoMod
<1> QED BY <1>1 DEF leave_IM

LEMMA EnterEnglish ==
    ASSUME NEW a \in Memory, NEW k \in ICID
    PROVE  Steady(a, enter_English(a, k))
<1> DEFINE x == [leave_IM(a, a.IMC[k], English) EXCEPT !.imodp = NoMod]
           mode == IF "IM_FOCUS" \in a.mode THEN a.mode \ {"RUN_IM_FOCUS"}
                                            ELSE a.mode
           b == enter_English(a, k)
<1>1. a.IMC[k] \in IMCRec
  BY DEF Memory
<1>2. x \in IMCRec /\ x.icid = a.IMC[k].icid
  BY <1>1, LeaveType DEF IMCRec
<1>3. mode \in SUBSET ModeFlag
  BY DEF Memory
<1>4. b = [a EXCEPT !.IMC[k] = x, !.mode = mode, !.first_call = TRUE]
  BY DEF enter_English
<1> HIDE DEF x, mode, b
<1>5. b \in Memory
  BY <1>2, <1>3, <1>4, Zenon DEF Memory
<1>6. /\ b.IMC = [a.IMC EXCEPT ![k] = x]
      /\ b.ic = a.ic /\ b.icp = a.icp /\ b.icid = a.icid /\ b.IC = a.IC
      /\ b.ic_list = a.ic_list /\ b.imc_list = a.imc_list
  BY <1>4 DEF Memory
<1> QED BY <1>2, <1>5, <1>6, SteadyIMC DEF b

LEMMA EnterIM ==
    ASSUME NEW a \in Memory, NEW k \in ICID, NEW n \in Inp
    PROVE  Steady(a, enter_IM(a, k, n))
<1> DEFINE s == IF "SHOW_CINPUT" \in a.mode THEN n ELSE a.default_im_sinmd
           y == call_xim_init([leave_IM(a, a.IMC[k], n) EXCEPT !.imodp = n,
                                                              !.inp_num = n],
                              reset_inpinfo(a, a.IMC[k], n))
           x == [y EXCEPT !.s_imodp = s, !.sinp_num = s]
<1>1. a.IMC[k] \in IMCRec /\ s \in Inp
  BY DEF Memory
<1>2. y \in IMCRec /\ y.icid = a.IMC[k].icid
  <2>1. /\ leave_IM(a, a.IMC[k], n) \in IMCRec
        /\ leave_IM(a, a.IMC[k], n).icid = a.IMC[k].icid
    BY <1>1, LeaveType
  <2>2. [leave_IM(a, a.IMC[k], n) EXCEPT !.imodp = n, !.inp_num = n] \in IMCRec
    BY <2>1 DEF IMCRec
  <2> QED BY <2>1, <2>2, XimInitType DEF IMCRec
<1> HIDE DEF y
<1>3. x \in IMCRec /\ x.icid = a.IMC[k].icid
  BY <1>1, <1>2 DEF IMCRec
<1>4. load_cinput(a.cinput, {n}) \in [Inp -> CinputState]
  BY LoadType DEF Memory
<1>5. /\ follow_IM(a, n) \in Memory
      /\ Steady(a, follow_IM(a, n))
      /\ follow_IM(a, n).cinput = a.cinput
  BY DEF follow_IM, Memory, ModeFlag, Steady
<1>6. enter_IM(a, k, n) = [follow_IM(a, n) EXCEPT
                             !.cinput = load_cinput(@, {n}),
                             !.IMC[k] = x,
                             !.first_call = TRUE]
  BY DEF enter_IM, y
<1> DEFINE c == follow_IM(a, n)
           b == enter_IM(a, k, n)
<1> HIDE DEF x, c, b
<1>7. b = [c EXCEPT !.cinput = load_cinput(a.cinput, {n}), !.IMC[k] = x,
                    !.first_call = TRUE]
  BY <1>5, <1>6 DEF b, c
<1>8. c \in Memory /\ c.IMC[k].icid = x.icid
  BY <1>3, <1>5 DEF Steady, c
<1>9. b \in Memory
  BY <1>3, <1>4, <1>7, <1>8, Zenon DEF Memory
<1>10. /\ b.IMC = [c.IMC EXCEPT ![k] = x]
       /\ b.ic = c.ic /\ b.icp = c.icp /\ b.icid = c.icid /\ b.IC = c.IC
       /\ b.ic_list = c.ic_list /\ b.imc_list = c.imc_list
  BY <1>7, <1>8 DEF Memory
<1>11. Steady(c, b)
  BY <1>8, <1>9, <1>10, SteadyIMC
<1> QED BY <1>5, <1>11, SteadyTrans DEF b, c

LEMMA ChangeIM ==
    ASSUME NEW a \in Memory, NEW i \in ICID, a.IC[i].imc \in ICID, NEW n
    PROVE  Steady(a, change_IM(a, i, n))
<1>1. CASE n \notin Inp
  BY <1>1, EnterEnglish DEF change_IM
<1>2. CASE n \in Inp /\ can_bind(a, n)
  BY <1>2, EnterIM DEF change_IM
<1>3. CASE n \in Inp /\ ~can_bind(a, n)
  <2>1. load_cinput(a.cinput, {n}) \in [Inp -> CinputState]
    BY LoadType DEF Memory
  <2> QED BY <1>3, <2>1 DEF change_IM, Steady, Memory
<1> QED BY <1>1, <1>2, <1>3

LEMMA CircularChangeIM ==
    ASSUME NEW a \in Memory, NEW i \in ICID, a.IC[i].imc \in ICID, NEW d,
           NEW b \in circular_change_IM(a, i, d)
    PROVE  Steady(a, b)
<1>1. PICK S, n : b = change_IM([a EXCEPT !.cinput = load_cinput(@, S)], i, n)
  BY DEF circular_change_IM
<1> DEFINE c == [a EXCEPT !.cinput = load_cinput(@, S)]
<1>2. load_cinput(a.cinput, S) \in [Inp -> CinputState]
  BY LoadType DEF Memory
<1>3. Steady(a, c) /\ c.IC = a.IC
  BY <1>2 DEF Steady, Memory
<1> HIDE DEF c
<1>4. Steady(c, change_IM(c, i, n))
  BY <1>3, ChangeIM DEF Steady
<1> QED BY <1>1, <1>3, <1>4, SteadyTrans DEF c

LEMMA ChangeSimd ==
    ASSUME NEW a \in Memory, NEW i \in ICID, a.IC[i].imc \in ICID,
           NEW b \in change_simd(a, i)
    PROVE  Steady(a, b)
<1> DEFINE k == a.IC[i].imc
           s == a.IMC[k].sinp_num
           c(S) == [a EXCEPT !.cinput = load_cinput(@, S)]
<1>1. PICK t \in 1..NInp :
        LET S == {(s + u) % NInp : u \in 1..t}
        IN  b = IF (s + t) % NInp = s THEN c(S)
                ELSE [c(S) EXCEPT !.IMC[k].sinp_num = (s + t) % NInp,
                                  !.IMC[k].s_imodp = (s + t) % NInp,
                                  !.default_im_sinmd = (s + t) % NInp,
                                  !.mode = @ \ {"SHOW_CINPUT"}]
  BY DEF change_simd
<1> DEFINE S == {(s + u) % NInp : u \in 1..t}
<1>2. s \in Inp
  BY DEF Memory, IMCRec
<1>3. (s + t) % NInp \in Inp
  BY <1>2, StateAssumption DEF Inp
<1>4. load_cinput(a.cinput, S) \in [Inp -> CinputState]
  BY LoadType DEF Memory
<1>5. c(S) \in Memory /\ Steady(a, c(S))
  BY <1>4 DEF Steady, Memory
<1>6. ASSUME NEW e \in Memory, NEW n \in Inp
      PROVE  Steady(e, [e EXCEPT !.IMC[k].sinp_num = n, !.IMC[k].s_imodp = n,
                                 !.default_im_sinmd = n,
                                 !.mode = @ \ {"SHOW_CINPUT"}])
  <2> DEFINE x == [e.IMC[k] EXCEPT !.sinp_num = n, !.s_imodp = n]
             mode == e.mode \ {"SHOW_CINPUT"}
             f == [e EXCEPT !.IMC[k] = x, !.default_im_sinmd = n, !.mode = mode]
  <2>1. e.IMC[k] \in IMCRec /\ mode \in SUBSET ModeFlag
    BY DEF Memory
  <2>2. x \in IMCRec /\ x.icid = e.IMC[k].icid
    BY <2>1 DEF IMCRec
  <2>3. [e EXCEPT !.IMC[k].sinp_num = n, !.IMC[k].s_imodp = n,
                  !.default_im_sinmd = n, !.mode = @ \ {"SHOW_CINPUT"}] = f
    BY DEF Memory
  <2>4. f \in Memory
    <3> HIDE DEF x, mode
    <3> QED BY <2>1, <2>2, Zenon DEF Memory
  <2>5. /\ f.IMC = [e.IMC EXCEPT ![k] = x]
        /\ f.ic = e.ic /\ f.icp = e.icp /\ f.icid = e.icid /\ f.IC = e.IC
        /\ f.ic_list = e.ic_list /\ f.imc_list = e.imc_list
    BY DEF Memory
  <2> HIDE DEF x, mode, f
  <2>6. Steady(e, f)
    BY <2>2, <2>4, <2>5, SteadyIMC
  <2> QED BY <2>3, <2>6
<1> QED BY <1>1, <1>3, <1>5, <1>6, SteadyTrans

-----------------------------------------------------------------------------
\* XimHandlers.
LEMMA SetICState ==
    ASSUME NEW a \in Memory, NEW i \in ICID, NEW S \in SUBSET ICState
    PROVE  Steady(a, [a EXCEPT !.IC[i].ic_state = S])
<1> DEFINE x == [a.IC[i] EXCEPT !.ic_state = S]
           b == [a EXCEPT !.IC[i] = x]
<1>1. a.IC[i] \in ICRec /\ a.IC \in [ICID -> ICRec]
  BY DEF Memory
<1>2. x \in ICRec /\ x.imc = a.IC[i].imc
  BY <1>1 DEF ICRec
<1>3. [a EXCEPT !.IC[i].ic_state = S] = b
  BY DEF Memory
<1>4. /\ b.IC = [a.IC EXCEPT ![i] = x]
      /\ b.ic = a.ic /\ b.icp = a.icp /\ b.icid = a.icid /\ b.IMC = a.IMC
      /\ b.ic_list = a.ic_list /\ b.imc_list = a.imc_list
  BY DEF Memory
<1>5. b \in Memory
  <2> HIDE DEF x
  <2> QED BY <1>2, Zenon DEF Memory
<1> HIDE DEF x, b
<1>6. \A j \in ICID : b.IC[j].imc = a.IC[j].imc
  BY <1>1, <1>2, <1>4
<1> QED BY <1>3, <1>4, <1>5, <1>6 DEF Steady

LEMMA SetInpState ==
    ASSUME NEW a \in Memory, NEW k \in ICID, NEW S \in SUBSET InpState
    PROVE  Steady(a, [a EXCEPT !.IMC[k].inp_state = S])
<1> DEFINE x == [a.IMC[k] EXCEPT !.inp_state = S]
           b == [a EXCEPT !.IMC[k] = x]
<1>1. a.IMC[k] \in IMCRec
  BY DEF Memory
<1>2. x \in IMCRec /\ x.icid = a.IMC[k].icid
  BY <1>1 DEF IMCRec
<1>3. [a EXCEPT !.IMC[k].inp_state = S] = b
  BY DEF Memory
<1>4. /\ b.IMC = [a.IMC EXCEPT ![k] = x]
      /\ b.ic = a.ic /\ b.icp = a.icp /\ b.icid = a.icid /\ b.IC = a.IC
      /\ b.ic_list = a.ic_list /\ b.imc_list = a.imc_list
  BY DEF Memory
<1>5. b \in Memory
  <2> HIDE DEF x
  <2> QED BY <1>2, Zenon DEF Memory
<1> HIDE DEF x, b
<1> QED BY <1>2, <1>3, <1>4, <1>5, SteadyIMC

LEMMA SetMode ==
    ASSUME NEW a \in Memory, NEW S \in SUBSET ModeFlag
    PROVE  Steady(a, [a EXCEPT !.mode = S])
<1>1. [a EXCEPT !.mode = S] \in Memory
  BY Zenon DEF Memory
<1> QED BY <1>1 DEF Steady, Memory

LEMMA Connect ==
    ASSUME NEW a \in Memory, NEW i \in ICID
    PROVE  Steady(a, xim_connect(a, i)) /\ Steady(a, xim_disconnect(a, i))
<1>1. a.IC[i].ic_state \in SUBSET ICState
  BY DEF Memory, ICRec
<1> DEFINE S == a.IC[i].ic_state \cup {"CONNECT"}
           T == a.IC[i].ic_state \ {"CONNECT"}
<1>2. S \in SUBSET ICState /\ T \in SUBSET ICState
  BY <1>1 DEF ICState
<1>3. /\ xim_connect(a, i) = [a EXCEPT !.IC[i].ic_state = S]
      /\ xim_disconnect(a, i) = [a EXCEPT !.IC[i].ic_state = T]
  BY DEF xim_connect, xim_disconnect, Memory
<1> HIDE DEF S, T
<1> QED BY <1>2, <1>3, SetICState

\* A functional key leaves the lists alone.
LEMMA TwoBytes ==
    ASSUME NEW a \in Memory, NEW k \in ICID
    PROVE  Steady(a, enter_2bytes(a, k)) /\ Steady(a, leave_2bytes(a, k))
<1>1. a.IMC[k].inp_state \in SUBSET InpState /\ a.mode \in SUBSET ModeFlag
  BY DEF Memory, IMCRec
<1>2. ASSUME NEW S \in SUBSET InpState, NEW T \in SUBSET ModeFlag
      PROVE  Steady(a, [a EXCEPT !.IMC[k].inp_state = S, !.mode = T])
  <2> DEFINE b == [a EXCEPT !.IMC[k].inp_state = S]
  <2>1. Steady(a, b)
    BY SetInpState
  <2>2. [a EXCEPT !.IMC[k].inp_state = S, !.mode = T] = [b EXCEPT !.mode = T]
    BY DEF Memory
  <2> HIDE DEF b
  <2>3. b \in Memory
    BY <2>1 DEF Steady
  <2> QED BY <2>1, <2>2, <2>3, SetMode, SteadyTrans
<1>3. /\ a.IMC[k].inp_state \cup {"2BYTES", "2BFOCUS"} \in SUBSET InpState
      /\ a.IMC[k].inp_state \ {"2BYTES", "2BFOCUS"} \in SUBSET InpState
      /\ a.mode \cup {"RUN_2B_FOCUS"} \in SUBSET ModeFlag
      /\ a.mode \ {"RUN_2B_FOCUS"} \in SUBSET ModeFlag
  BY <1>1 DEF InpState, ModeFlag
<1> DEFINE on  == IF "IM_FOCUS" \in a.mode THEN a.mode \cup {"RUN_2B_FOCUS"}
                                            ELSE a.mode
           off == IF "IM_FOCUS" \in a.mode THEN a.mode \ {"RUN_2B_FOCUS"}
                                            ELSE a.mode
<1>4. /\ enter_2bytes(a, k)
           = [a EXCEPT !.IMC[k].inp_state = a.IMC[k].inp_state \cup {"2BYTES", "2BFOCUS"},
                       !.mode = on]
      /\ leave_2bytes(a, k)
           = [a EXCEPT !.IMC[k].inp_state = a.IMC[k].inp_state \ {"2BYTES", "2BFOCUS"},
                       !.mode = off]
  BY DEF enter_2bytes, leave_2bytes, Memory
<1>5. on \in SUBSET ModeFlag /\ off \in SUBSET ModeFlag
  BY <1>1, <1>3
<1> HIDE DEF on, off
<1> QED BY <1>2, <1>3, <1>4, <1>5

LEMMA ToggleIMFocus ==
    ASSUME NEW a \in Memory, NEW i \in ICID, a.IC[i].imc \in ICID
    PROVE  Steady(a, toggle_im_focus(a, i))
<1> DEFINE n == imc_of(a, i).inp_num
           S == a.mode \cup {"IM_FOCUS", IF is_on(a, i, "CINPUT")
                                         THEN "RUN_IM_FOCUS" ELSE "RUN_2B_FOCUS"}
           T == a.mode \ {"IM_FOCUS", "RUN_IM_FOCUS", "RUN_2B_FOCUS"}
<1>1. n \in Inp /\ S \in SUBSET ModeFlag /\ T \in SUBSET ModeFlag
  BY DEF Memory, IMCRec, imc_of, ModeFlag
<1>2. toggle_im_focus(a, i) = IF "IM_FOCUS" \in a.mode THEN [a EXCEPT !.mode = T]
                              ELSE [a EXCEPT !.mode = S, !.im_focus = n]
  BY DEF toggle_im_focus, Memory
<1> HIDE DEF n, S, T
<1>3. [a EXCEPT !.mode = S, !.im_focus = n] \in Memory
  BY <1>1, Zenon DEF Memory
<1>4. Steady(a, [a EXCEPT !.mode = S, !.im_focus = n])
  BY <1>3 DEF Steady, Memory
<1> QED BY <1>1, <1>2, <1>4, SetMode

LEMMA Funckey ==
    ASSUME NEW a \in Memory, NEW i \in ICID, a.IC[i].imc \in ICID, NEW key,
           NEW b \in funckey(a, i, key)
    PROVE  Steady(a, b)
<1>1. \A n : Steady(a, change_IM(a, i, n))
  BY ChangeIM
<1>2. Steady(a, ZhEn(a, i))
  BY <1>1 DEF ZhEn
<1>3. Steady(a, a)
  BY Stutter
<1>4. \A d : \A c \in circular_change_IM(a, i, d) : Steady(a, c)
  BY CircularChangeIM
<1>5. \A c \in change_simd(a, i) : Steady(a, c)
  BY ChangeSimd
<1>6. Steady(a, enter_2bytes(a, a.IC[i].imc)) /\ Steady(a, leave_2bytes(a, a.IC[i].imc))
  BY TwoBytes
<1>7. Steady(a, toggle_im_focus(a, i))
  BY ToggleIMFocus
<1> QED BY <1>1, <1>2, <1>3, <1>4, <1>5, <1>6, <1>7 DEF funckey

LEMMA ForwardSteady ==
    ASSUME NEW a \in Memory, NEW i \in ICID, a.IC[i].imc \in ICID, NEW key,
           NEW b \in forward(a, i, key)
    PROVE  Steady(a, b)
<1>1. PICK c \in funckey(a, i, key) : b = c \/ b = xim_disconnect(c, i)
  BY DEF forward
<1>2. Steady(a, c) /\ c \in Memory
  BY Funckey DEF Steady
<1> QED BY <1>1, <1>2, Connect, SteadyTrans

\* A step that attaches the IMC of the IC i to i, makes i one of the two
\* pointers, and leaves the lists alone.
LEMMA Attach ==
    ASSUME NEW a, Sound(a), NEW i \in a.ic_list, NEW b \in Memory, NEW x, NEW y,
           {b.ic, b.icp} \subseteq {a.ic, a.icp, i},
           b.icid = a.icid, b.ic_list = a.ic_list, b.imc_list = a.imc_list,
           b.IC = [a.IC EXCEPT ![i] = x], x.imc = a.IC[i].imc,
           b.IMC = [a.IMC EXCEPT ![a.IC[i].imc] = y],
           y.icid \in {i, a.IMC[a.IC[i].imc].icid}
    PROVE  Sound(b)
<1>1. /\ a.ic_list \subseteq ICID /\ i \in ICID /\ a.IC[i].imc \in ICID
      /\ a.IC \in [ICID -> ICRec] /\ a.IMC \in [ICID -> IMCRec]
  BY HasIMC DEF Sound, Memory
<1>2. \A j \in ICID : b.IC[j].imc = a.IC[j].imc
  BY <1>1
<1>3. ~SingleIMC => \A j \in b.ic_list : b.IMC[j].icid = j
  <2> SUFFICES ASSUME ~SingleIMC, NEW j \in a.ic_list
               PROVE  b.IMC[j].icid = j
    OBVIOUS
  <2>1. a.IC[i].imc = i /\ a.IMC[j].icid = j /\ a.IMC[i].icid = i
    BY DEF Sound, Attached, Owned
  <2>2. CASE j = i
    BY <1>1, <2>1, <2>2
  <2>3. CASE j # i
    BY <1>1, <2>1, <2>3
  <2> QED BY <2>2, <2>3
<1>4. Pointed(b)
  BY DEF Sound, Attached, Pointed
<1>5. Owned(b)
  BY <1>1, <1>2, <1>3 DEF Sound, Attached, Owned
<1>6. b.ic_list \subseteq 1..b.icid /\ \A j \in b.ic_list : b.IC[j].imc \in b.imc_list
  BY <1>1, <1>2 DEF Sound, Attached
<1> QED BY <1>4, <1>5, <1>6 DEF Sound, Attached

LEMMA FocusNew ==
    ASSUME NEW a \in Memory, NEW i \in ICID, a.IC[i].imc \in ICID
    PROVE  Steady(a, focus_new(a, i))
<1> DEFINE run == a.mode \cap {"RUN_IM_FOCUS", "RUN_2B_FOCUS"}
           b == IF run # {} THEN xim_connect(a, i) ELSE a
           c == IF "RUN_IM_FOCUS" \in run THEN change_IM(b, i, a.im_focus) ELSE b
           S == c.IC[i].ic_state \ {"NEWIC"}
<1>1. Steady(a, b) /\ b \in Memory
  <2>1. Steady(a, xim_connect(a, i)) /\ Steady(a, a)
    BY Connect, Stutter
  <2>2. Steady(a, b)
    BY <2>1
  <2> QED BY <2>2 DEF Steady
<1>2. Steady(a, c) /\ c \in Memory
  <2>1. b.IC[i].imc \in ICID
    BY <1>1 DEF Steady
  <2> HIDE DEF b, run
  <2>2. Steady(b, change_IM(b, i, a.im_focus))
    BY <1>1, <2>1, ChangeIM
  <2> QED BY <1>1, <2>2, SteadyTrans DEF Steady
<1>3. S \in SUBSET ICState
  <2> HIDE DEF c
  <2> QED BY <1>2 DEF Memory, ICRec
<1>4. focus_new(a, i) = [c EXCEPT !.IC[i].ic_state = S]
  <2>1. focus_new(a, i) = [c EXCEPT !.IC[i].ic_state = @ \ {"NEWIC"}]
    BY DEF focus_new
  <2> HIDE DEF c
  <2> QED BY <1>2, <2>1 DEF Memory
<1> HIDE DEF c, S
<1> QED BY <1>2, <1>3, <1>4, SetICState, SteadyTrans

LEMMA FocusShared ==
    ASSUME NEW a \in Memory, NEW i \in ICID, a.IC[i].imc \in ICID
    PROVE  Steady(a, focus_shared(a, i))
<1> DEFINE b == IF is_on(a, i, "CINPUT") \/ is_on(a, i, "2BYTES")
                THEN xim_connect(a, i) ELSE xim_disconnect(a, i)
           k == b.IC[i].imc
           x == [b.IMC[k] EXCEPT !.ic_rec = i]
           c == [b EXCEPT !.IMC[k] = x]
<1>1. Steady(a, b) /\ b \in Memory
  <2>1. Steady(a, xim_connect(a, i)) /\ Steady(a, xim_disconnect(a, i))
    BY Connect
  <2>2. Steady(a, b)
    BY <2>1
  <2> QED BY <2>2 DEF Steady
<1>2. k \in ICID
  BY <1>1 DEF Steady
<1>3. focus_shared(a, i) = [b EXCEPT !.IMC[k].ic_rec = i]
  BY DEF focus_shared
<1> HIDE DEF b, k
<1>4. b.IMC[k] \in IMCRec
  BY <1>1, <1>2 DEF Memory
<1>5. x \in IMCRec /\ x.icid = b.IMC[k].icid
  BY <1>4 DEF IMCRec
<1>6. focus_shared(a, i) = c
  BY <1>1, <1>2, <1>3 DEF Memory
<1>7. c \in Memory
  <2> HIDE DEF x
  <2> QED BY <1>1, <1>2, <1>5, Zenon DEF Memory
<1>8. /\ c.IMC = [b.IMC EXCEPT ![k] = x]
      /\ c.ic = b.ic /\ c.icp = b.icp /\ c.icid = b.icid /\ c.IC = b.IC
      /\ c.ic_list = b.ic_list /\ c.imc_list = b.imc_list
  BY <1>1 DEF Memory
<1> HIDE DEF x, c
<1>9. Steady(b, c)
  BY <1>1, <1>2, <1>5, <1>7, <1>8, SteadyIMC
<1> QED BY <1>1, <1>6, <1>9, SteadyTrans

LEMMA SetFocusSound ==
    ASSUME NEW a, Sound(a), NEW i \in a.ic_list
    PROVE  Sound(set_focus(a, i))
<1> DEFINE k == a.IC[i].imc
           S == IF "CINPUT" \in a.IMC[k].inp_state
                THEN a.IMC[k].inp_state \cup {"XIMFOCUS"} ELSE a.IMC[k].inp_state
           T == a.IC[i].ic_state \cup {"FOCUS"}
           y == [a.IMC[k] EXCEPT !.icid = i, !.inp_state = S]
           x == [a.IC[i] EXCEPT !.ic_state = T]
           b == [a EXCEPT !.IMC[k] = y, !.IC[i] = x, !.ic = i]
           c == IF "NEWIC" \in a.IC[i].ic_state THEN focus_new(b, i) ELSE b
<1>1. a \in Memory /\ i \in ICID /\ k \in ICID
  BY HasIMC DEF Sound
<1>2. a.IMC[k] \in IMCRec /\ a.IC[i] \in ICRec
  BY <1>1 DEF Memory
<1>3. y \in IMCRec /\ y.icid = i
  BY <1>1, <1>2 DEF IMCRec, InpState
<1>4. x \in ICRec /\ x.imc = k
  BY <1>2 DEF ICRec, ICState
<1>5. b \in Memory
  <2> HIDE DEF x, y, k
  <2> QED BY <1>1, <1>3, <1>4, Zenon DEF Memory
<1>6. /\ b.IMC = [a.IMC EXCEPT ![k] = y] /\ b.IC = [a.IC EXCEPT ![i] = x]
      /\ b.ic = i /\ b.icp = a.icp /\ b.icid = a.icid
      /\ b.ic_list = a.ic_list /\ b.imc_list = a.imc_list
  <2> HIDE DEF x, y, k
  <2> QED BY <1>1 DEF Memory
<1>7. Sound(b)
  <2> HIDE DEF x, y, b
  <2> QED BY <1>3, <1>4, <1>5, <1>6, Attach
<1>8. b.IC[i].imc \in ICID
  BY <1>6, <1>7, HasIMC
<1>9. Sound(c) /\ Steady(b, c)
  <2> HIDE DEF b
  <2> QED BY <1>1, <1>5, <1>7, <1>8, FocusNew, SteadySound, Stutter
<1>10. set_focus(a, i) = IF "FOCUS" \in a.IC[i].ic_state THEN a
                         ELSE IF SingleIMC THEN focus_shared(c, i) ELSE c
  <2> DEFINE z == [a.IMC[k] EXCEPT !.icid = i,
                                   !.inp_state = IF "CINPUT" \in @
                                                 THEN @ \cup {"XIMFOCUS"} ELSE @]
  <2>1. z = y
    BY <1>2 DEF IMCRec
  <2>2. [a EXCEPT !.IMC[k] = y, !.IC[i].ic_state = @ \cup {"FOCUS"}, !.ic = i] = b
    <3> HIDE DEF k, y
    <3> QED BY <1>1, <1>2 DEF Memory
  <2>3. set_focus(a, i)
          = LET e == [a EXCEPT !.IMC[k] = z,
                               !.IC[i].ic_state = @ \cup {"FOCUS"}, !.ic = i]
                f == IF "NEWIC" \in a.IC[i].ic_state THEN focus_new(e, i) ELSE e
            IN  IF "FOCUS" \in a.IC[i].ic_state THEN a
                ELSE IF SingleIMC THEN focus_shared(f, i) ELSE f
    BY DEF set_focus
  <2> HIDE DEF z, y
  <2> QED BY <2>1, <2>2, <2>3
<1>11. Sound(focus_shared(c, i))
  <2>1. c \in Memory /\ c.IC[i].imc \in ICID
    BY <1>1, <1>8, <1>9 DEF Steady
  <2> HIDE DEF c
  <2> QED BY <1>1, <1>9, <2>1, FocusShared, SteadySound
<1> HIDE DEF c
<1> QED BY <1>9, <1>10, <1>11

LEMMA UnsetFocusSound ==
    ASSUME NEW a, Sound(a), NEW i \in a.ic_list
    PROVE  Sound(unset_focus(a, i))
<1> DEFINE k == a.IC[i].imc
           S == IF SingleIMC THEN a.IMC[k].inp_state
                ELSE a.IMC[k].inp_state \ lost_focus(a.IMC[k].inp_state)
           T == a.IC[i].ic_state \ {"FOCUS"}
           y == [a.IMC[k] EXCEPT !.inp_state = S]
           x == [a.IC[i] EXCEPT !.ic_state = T]
           b == [a EXCEPT !.IMC[k] = y, !.icp = i, !.IC[i] = x]
<1>1. a \in Memory /\ i \in ICID /\ k \in ICID
  BY HasIMC DEF Sound
<1>2. a.IMC[k] \in IMCRec /\ a.IC[i] \in ICRec
  BY <1>1 DEF Memory
<1>3. y \in IMCRec /\ y.icid = a.IMC[k].icid
  BY <1>1, <1>2 DEF IMCRec, InpState
<1>4. x \in ICRec /\ x.imc = k
  BY <1>2 DEF ICRec, ICState
<1>5. b \in Memory
  <2> HIDE DEF x, y, k
  <2> QED BY <1>1, <1>3, <1>4, Zenon DEF Memory
<1>6. /\ b.IMC = [a.IMC EXCEPT ![k] = y] /\ b.IC = [a.IC EXCEPT ![i] = x]
      /\ b.ic = a.ic /\ b.icp = i /\ b.icid = a.icid
      /\ b.ic_list = a.ic_list /\ b.imc_list = a.imc_list
  <2> HIDE DEF x, y, k
  <2> QED BY <1>1 DEF Memory
<1>7. Sound(b)
  <2> HIDE DEF x, y, b
  <2> QED BY <1>3, <1>4, <1>5, <1>6, Attach
<1>8. unset_focus(a, i) = IF "FOCUS" \notin a.IC[i].ic_state THEN a ELSE b
  <2>1. unset_focus(a, i) = IF "FOCUS" \notin a.IC[i].ic_state THEN a
                            ELSE [a EXCEPT !.IMC[k].inp_state = S, !.icp = i,
                                           !.IC[i].ic_state = @ \ {"FOCUS"}]
    BY <1>1 DEF unset_focus, Memory
  <2>2. [a EXCEPT !.IMC[k].inp_state = S, !.icp = i,
                  !.IC[i].ic_state = @ \ {"FOCUS"}] = b
    <3> HIDE DEF k, S
    <3> QED BY <1>1 DEF Memory
  <2> QED BY <2>1, <2>2
<1> QED BY <1>7, <1>8

\* A trigger key makes the IC current; then it acts like a functional key.
LEMMA TriggerBase ==
    ASSUME NEW a, Sound(a), NEW i \in a.ic_list
    PROVE  Sound(trigger_base(a, i)) /\ i \in trigger_base(a, i).ic_list
<1> DEFINE k == a.IC[i].imc
           T == a.IC[i].ic_state \cup {"FOCUS", "CONNECT"}
           y == [a.IMC[k] EXCEPT !.icid = i]
           x == [a.IC[i] EXCEPT !.ic_state = T]
           b == [a EXCEPT !.icp = a.ic, !.ic = i, !.IC[i] = x, !.IMC[k] = y]
<1>1. a \in Memory /\ i \in ICID /\ k \in ICID /\ a.ic \in ICID \cup {NULL}
  BY HasIMC DEF Sound, Memory
<1>2. a.IMC[k] \in IMCRec /\ a.IC[i] \in ICRec
  BY <1>1 DEF Memory
<1>3. y \in IMCRec /\ y.icid = i
  BY <1>1, <1>2 DEF IMCRec
<1>4. x \in ICRec /\ x.imc = k
  BY <1>2 DEF ICRec, ICState
<1>5. b \in Memory
  <2> HIDE DEF x, y, k
  <2> QED BY <1>1, <1>3, <1>4, Zenon DEF Memory
<1>6. /\ b.IMC = [a.IMC EXCEPT ![k] = y] /\ b.IC = [a.IC EXCEPT ![i] = x]
      /\ b.ic = i /\ b.icp = a.ic /\ b.icid = a.icid
      /\ b.ic_list = a.ic_list /\ b.imc_list = a.imc_list
  <2> HIDE DEF x, y, k
  <2> QED BY <1>1 DEF Memory
<1>7. Sound(b)
  <2> HIDE DEF x, y, b
  <2> QED BY <1>3, <1>4, <1>5, <1>6, Attach
<1>8. trigger_base(a, i) = b
  <2> HIDE DEF k
  <2>1. trigger_base(a, i) = [a EXCEPT !.icp = a.ic, !.ic = i,
            !.IC[i].ic_state = @ \cup {"FOCUS", "CONNECT"}, !.IMC[k].icid = i]
    BY DEF trigger_base, k
  <2> QED BY <1>1, <2>1 DEF Memory
<1> HIDE DEF b
<1> QED BY <1>6, <1>7, <1>8

LEMMA TriggerSound ==
    ASSUME NEW a, Sound(a), NEW i \in a.ic_list, NEW key,
           NEW b \in trigger(a, i, key)
    PROVE  Sound(b)
<1> DEFINE c == trigger_base(a, i)
<1>1. Sound(c) /\ i \in c.ic_list
  BY TriggerBase
<1> HIDE DEF c
<1>2. c \in Memory /\ i \in ICID /\ c.IC[i].imc \in ICID
  BY <1>1, HasIMC DEF Sound
<1>3. \A n : Steady(c, trigger_IM(c, i, n))
  <2> TAKE n
  <2> DEFINE d == change_IM(c, i, n)
  <2>1. Steady(c, d) /\ d \in Memory
    BY <1>2, ChangeIM DEF Steady
  <2>2. trigger_IM(c, i, n) = d \/ trigger_IM(c, i, n) = xim_disconnect(d, i)
    BY DEF trigger_IM
  <2> HIDE DEF d
  <2> QED BY <1>2, <2>1, <2>2, Connect, SteadyTrans
<1>4. \A t : \A d \in trigger_circle(c, i, t) : Steady(c, d)
  <2> SUFFICES ASSUME NEW t, NEW d \in trigger_circle(c, i, t)
               PROVE  Steady(c, d)
    OBVIOUS
  <2>1. PICK e \in circular_change_IM(c, i, t) : d = e \/ d = xim_disconnect(e, i)
    BY DEF trigger_circle
  <2>2. Steady(c, e) /\ e \in Memory
    BY <1>2, CircularChangeIM DEF Steady
  <2> QED BY <1>2, <2>1, <2>2, Connect, SteadyTrans
<1>5. /\ Steady(c, enter_2bytes(c, c.IC[i].imc))
      /\ Steady(c, xim_disconnect(c, i))
      /\ Steady(c, c)
  BY <1>2, TwoBytes, Connect, Stutter
<1>6. Steady(c, b)
  BY <1>3, <1>4, <1>5 DEF trigger, c
<1> QED BY <1>1, <1>6, SteadySound

\* Closing the input method, and the window code.
LEMMA CloseSteady ==
    ASSUME NEW a, Sound(a)
    PROVE  Steady(a, xim_close(a)) /\ Steady(a, sync_reply(a))
<1>1. a \in Memory /\ a.mode \in SUBSET ModeFlag
  BY DEF Sound, Memory
<1>2. \A S \in SUBSET ModeFlag : Steady(a, [a EXCEPT !.mode = S])
  BY <1>1, SetMode
<1>3. Steady(a, sync_reply(a))
  <2>1. sync_reply(a) = [a EXCEPT !.mode = a.mode \cup {"RUN_EXITALL"}]
        \/ sync_reply(a) = a
    BY DEF sync_reply
  <2>2. a.mode \cup {"RUN_EXITALL"} \in SUBSET ModeFlag
    BY <1>1 DEF ModeFlag
  <2> QED BY <1>1, <1>2, <2>1, <2>2, Stutter
<1>4. Steady(a, xim_close(a))
  <2> DEFINE S == a.mode \cup {"RUN_EXIT", "ICCHECK_OFF"}
             T == S \cup {"RUN_EXITALL"}
             b == [a EXCEPT !.mode = S]
  <2>1. S \in SUBSET ModeFlag /\ T \in SUBSET ModeFlag
    BY <1>1 DEF ModeFlag
  <2>2. xim_close(a) = IF a.ic = NULL THEN [b EXCEPT !.mode = T]
                       ELSE xim_disconnect(b, a.ic)
    BY <1>1 DEF xim_close, Memory
  <2> HIDE DEF S, T
  <2>3. Steady(a, b) /\ b \in Memory
    BY <1>2, <2>1 DEF Steady
  <2> HIDE DEF b
  <2>4. CASE a.ic = NULL
    BY <2>1, <2>2, <2>3, <2>4, SetMode, SteadyTrans
  <2>5. CASE a.ic # NULL
    <3>1. a.ic \in ICID
      BY <1>1, <2>5 DEF Memory
    <3> QED BY <2>2, <2>3, <2>5, <3>1, Connect, SteadyTrans
  <2> QED BY <2>4, <2>5
<1> QED BY <1>3, <1>4

LEMMA CurrentIMC ==
    ASSUME NEW a, Sound(a), a.ic # NULL
    PROVE  a.ic \in a.ic_list /\ a.ic \in ICID /\ a.IC[a.ic].imc \in ICID
<1>1. a.ic \in a.ic_list
  BY DEF Sound, Attached, Pointed
<1> QED BY <1>1, HasIMC

LEMMA FreeSpotSteady ==
    ASSUME NEW a, Sound(a)
    PROVE  Steady(a, free_spot(a))
<1>1. CASE a.ic = NULL
  BY <1>1, Stutter DEF free_spot, Sound
<1>2. CASE a.ic # NULL
  <2> DEFINE k == a.IC[a.ic].imc
             x == [a.IMC[k] EXCEPT !.overspot_win = FALSE]
             b == [a EXCEPT !.IMC[k] = x]
  <2>1. a \in Memory /\ k \in ICID
    BY <1>2, CurrentIMC DEF Sound
  <2>2. x \in IMCRec /\ x.icid = a.IMC[k].icid
    <3> HIDE DEF k
    <3>1. a.IMC[k] \in IMCRec
      BY <2>1 DEF Memory
    <3> QED BY <2>1, <3>1 DEF IMCRec
  <2>3. free_spot(a) = b
    <3>1. free_spot(a) = [a EXCEPT !.IMC[k].overspot_win = FALSE]
      BY <1>2 DEF free_spot
    <3> HIDE DEF k
    <3> QED BY <2>1, <3>1 DEF Memory
  <2>4. b \in Memory
    <3> HIDE DEF x, k
    <3> QED BY <2>1, <2>2, Zenon DEF Memory
  <2>5. /\ b.IMC = [a.IMC EXCEPT ![k] = x]
        /\ b.ic = a.ic /\ b.icp = a.icp /\ b.icid = a.icid /\ b.IC = a.IC
        /\ b.ic_list = a.ic_list /\ b.imc_list = a.imc_list
    BY <2>1 DEF Memory
  <2> HIDE DEF b, x, k
  <2> QED BY <2>1, <2>2, <2>3, <2>4, <2>5, SteadyIMC
<1> QED BY <1>1, <1>2

LEMMA WinlistSteady ==
    ASSUME NEW a, Sound(a)
    PROVE  Steady(a, gui_update_winlist(a))
<1>1. CASE ~needs_spot(a)
  BY <1>1, Stutter DEF gui_update_winlist, Sound
<1>2. CASE needs_spot(a)
  <2> DEFINE k == a.IC[a.ic].imc
             x == [a.IMC[k] EXCEPT !.ic_rec = a.ic, !.overspot_win = TRUE]
             b == [a EXCEPT !.IMC[k] = x]
  <2>1. a \in Memory /\ k \in ICID /\ a.ic \in ICID
    BY <1>2, CurrentIMC DEF Sound, needs_spot, spot_on
  <2>2. x \in IMCRec /\ x.icid = a.IMC[k].icid
    <3> HIDE DEF k
    <3>1. a.IMC[k] \in IMCRec
      BY <2>1 DEF Memory
    <3> QED BY <2>1, <3>1 DEF IMCRec
  <2>3. gui_update_winlist(a) = b
    <3>1. gui_update_winlist(a)
            = [a EXCEPT !.IMC[k].ic_rec = a.ic, !.IMC[k].overspot_win = TRUE]
      BY <1>2 DEF gui_update_winlist
    <3> HIDE DEF k
    <3> QED BY <2>1, <3>1 DEF Memory
  <2>4. b \in Memory
    <3> HIDE DEF x, k
    <3> QED BY <2>1, <2>2, Zenon DEF Memory
  <2>5. /\ b.IMC = [a.IMC EXCEPT ![k] = x]
        /\ b.ic = a.ic /\ b.icp = a.icp /\ b.icid = a.icid /\ b.IC = a.IC
        /\ b.ic_list = a.ic_list /\ b.imc_list = a.imc_list
    BY <2>1 DEF Memory
  <2> HIDE DEF b, x, k
  <2> QED BY <2>1, <2>2, <2>3, <2>4, <2>5, SteadyIMC
<1> QED BY <1>1, <1>2

-----------------------------------------------------------------------------
\* XimIC: attributes, creation and deletion.
LEMMA WriteIC ==
    ASSUME NEW a \in Memory, NEW i \in ICID, NEW x \in ICRec,
           x.imc = a.IC[i].imc
    PROVE  Steady(a, [a EXCEPT !.IC[i] = x])
<1> DEFINE b == [a EXCEPT !.IC[i] = x]
<1>1. a.IC \in [ICID -> ICRec]
  BY DEF Memory
<1>2. /\ b.IC = [a.IC EXCEPT ![i] = x]
      /\ b.ic = a.ic /\ b.icp = a.icp /\ b.icid = a.icid /\ b.IMC = a.IMC
      /\ b.ic_list = a.ic_list /\ b.imc_list = a.imc_list
  BY DEF Memory
<1>3. b \in Memory
  BY Zenon DEF Memory
<1> HIDE DEF b
<1>4. \A j \in ICID : b.IC[j].imc = a.IC[j].imc
  BY <1>1, <1>2
<1>5. Steady(a, b)
  BY <1>2, <1>3, <1>4 DEF Steady
<1> QED BY <1>5 DEF b

LEMMA SetValues ==
    ASSUME NEW a \in Memory, NEW i \in ICID, NEW v \in ICValues
    PROVE  Steady(a, ic_set_values(a, i, v))
<1>1. a.IC[i] \in ICRec
  BY DEF Memory
<1>2. /\ set_values(a.IC[i], v) \in ICRec
      /\ set_values(a.IC[i], v).imc = a.IC[i].imc
  <2> DEFINE u == given_window(v.client_win, a.IC[i].client_win)
             w == given_window(v.focus_win, a.IC[i].focus_win)
             s == IF v.input_style = NoStyle THEN a.IC[i].input_style
                  ELSE IF v.input_style \in Supported
                  THEN v.input_style ELSE "Root"
  <2>1. u \in Window \cup {NoWindow} /\ w \in Window \cup {NoWindow}
    BY <1>1 DEF given_window, ICRec, ICValues
  <2>2. s \in Style \cup {NoStyle}
    BY <1>1 DEF ICRec, ICValues, Style
  <2>3. set_values(a.IC[i], v) = [a.IC[i] EXCEPT !.client_win = u, !.focus_win = w,
                                                 !.input_style = s]
    BY <1>1 DEF set_values, ICRec
  <2> HIDE DEF u, w, s
  <2> QED BY <1>1, <2>1, <2>2, <2>3 DEF ICRec
<1>3. ic_set_values(a, i, v) = [a EXCEPT !.IC[i] = set_values(a.IC[i], v)]
  BY DEF ic_set_values, Memory
<1> QED BY <1>2, <1>3, WriteIC

\* The id of a new IC is that of no listed one, and 1 for the first one.
LEMMA NewId ==
    ASSUME NEW a, Sound(a), NEW i \in new_ids(a)
    PROVE  /\ i \in ICID /\ i \notin a.ic_list
           /\ i <= a.icid + 1 /\ (a.icid = 0 => i = 1)
<1>1. a.icid \in 0..MaxIC /\ a.ic_list \subseteq 1..a.icid
  BY DEF Sound, Attached, Memory
<1>2. CASE i \in ic_free(a)
  BY <1>1, <1>2, StateAssumption DEF ic_free, ICID
<1>3. CASE i = a.icid + 1 /\ i <= MaxIC
  BY <1>1, <1>3, StateAssumption DEF ICID
<1> QED BY <1>2, <1>3 DEF new_ids

LEMMA NewIMC ==
    ASSUME NEW a, Sound(a), NEW i \in new_ids(a)
    PROVE  /\ imc_for(a, i) \in ICID
           /\ ~SingleIMC => imc_for(a, i) = i
           /\ SingleIMC => imc_for(a, i) = 1
<1>1. CASE SingleIMC /\ a.imc_list # {}
  <2>1. imc_for(a, i) \in a.imc_list
    BY <1>1 DEF imc_for
  <2> QED BY <1>1, <2>1, StateAssumption DEF Sound, Attached, Owned, ICID
<1>2. CASE SingleIMC /\ a.imc_list = {}
  <2>1. a.icid = 0
    BY <1>2 DEF Sound, Attached, Owned
  <2> QED BY <1>2, <2>1, NewId DEF imc_for
<1>3. CASE ~SingleIMC
  BY <1>3, NewId DEF imc_for
<1> QED BY <1>1, <1>2, <1>3

LEMMA NewICSound ==
    ASSUME NEW a, Sound(a), NEW i \in new_ids(a)
    PROVE  /\ Sound(new_IC(a, i))
           /\ i \in new_IC(a, i).ic_list
<1> DEFINE k == imc_for(a, i)
           y == [(IF SingleIMC /\ a.imc_list # {} THEN a.IMC[k] ELSE ZeroIMC)
                   EXCEPT !.icid = i]
           x == [ZeroIC EXCEPT !.imc = k]
           n == IF i > a.icid THEN i ELSE a.icid
           L == a.imc_list \cup {k}
           M == a.ic_list \cup {i}
           b == [a EXCEPT !.imc_list = L, !.IMC[k] = y, !.icid = n,
                          !.ic_list = M, !.IC[i] = x]
<1>1. /\ a \in Memory /\ a.icid \in 0..MaxIC
      /\ a.ic_list \in SUBSET ICID /\ a.imc_list \in SUBSET ICID
      /\ a.IC \in [ICID -> ICRec] /\ a.IMC \in [ICID -> IMCRec]
  BY DEF Sound, Memory
<1>2. /\ i \in ICID /\ i \notin a.ic_list
      /\ i <= a.icid + 1 /\ (a.icid = 0 => i = 1)
  BY NewId
<1>3. k \in ICID /\ (~SingleIMC => k = i) /\ (SingleIMC => k = 1)
  BY NewIMC
<1> HIDE DEF k
<1>4. y \in IMCRec /\ y.icid = i
  <2>1. ZeroIMC \in IMCRec
    BY StateAssumption DEF ZeroIMC, IMCRec, Inp, NULL, NoMod
  <2> QED BY <1>1, <1>2, <1>3, <2>1 DEF IMCRec
<1>5. x \in ICRec /\ x.imc = k
  <2>1. ZeroIC \in ICRec
    BY StateAssumption DEF ZeroIC, ICRec, NULL
  <2> QED BY <1>3, <2>1 DEF ICRec
<1>6. n \in 0..MaxIC /\ i \in 1..n /\ a.icid <= n /\ n # 0
  BY <1>1, <1>2, StateAssumption DEF ICID
<1>7. L \in SUBSET ICID /\ M \in SUBSET ICID
  BY <1>1, <1>2, <1>3
<1>8. new_IC(a, i) = b
  <2> HIDE DEF y
  <2>1. new_IMC(a, i) = [a EXCEPT !.imc_list = L, !.IMC[k] = y]
    BY <1>1 DEF new_IMC, k, y, Memory
  <2>2. /\ new_IMC(a, i).icid = a.icid /\ new_IMC(a, i).ic_list = a.ic_list
        /\ new_IMC(a, i).IC = a.IC
    BY <1>1, <2>1 DEF Memory
  <2>3. new_IC(a, i) = [new_IMC(a, i) EXCEPT !.icid = n, !.ic_list = M, !.IC[i] = x]
    BY <2>2 DEF new_IC, k
  <2> HIDE DEF L, M, n, x
  <2> QED BY <1>1, <2>1, <2>3 DEF Memory
<1>9. b \in Memory
  <2> HIDE DEF L, M, n, x, y
  <2> QED BY <1>1, <1>2, <1>3, <1>4, <1>5, <1>6, <1>7, Zenon DEF Memory
<1>10. /\ b.IMC = [a.IMC EXCEPT ![k] = y] /\ b.IC = [a.IC EXCEPT ![i] = x]
       /\ b.ic = a.ic /\ b.icp = a.icp /\ b.icid = n
       /\ b.ic_list = M /\ b.imc_list = L
  <2> HIDE DEF L, M, n, x, y
  <2> QED BY <1>1 DEF Memory
<1> HIDE DEF b, x, y, n
<1>11. b.ic_list \subseteq 1..b.icid
  BY <1>1, <1>6, <1>10 DEF Sound, Attached
<1>12. \A j \in b.ic_list : b.IC[j].imc \in b.imc_list
  <2> SUFFICES ASSUME NEW j \in M
               PROVE  b.IC[j].imc \in L
    BY <1>10
  <2>1. CASE j = i
    BY <1>1, <1>2, <1>5, <1>10, <2>1
  <2>2. CASE j # i
    BY <1>1, <1>2, <1>10, <2>2 DEF Sound, Attached
  <2> QED BY <2>1, <2>2
<1>13. Pointed(b)
  BY <1>10 DEF Sound, Attached, Pointed
<1>14. Owned(b)
  <2>1. CASE SingleIMC
    BY <1>3, <1>10, <2>1 DEF Sound, Attached, Owned
  <2>2. CASE ~SingleIMC
    <3>1. L = M
      BY <1>3, <2>2 DEF Sound, Attached, Owned
    <3>2. ASSUME NEW j \in M
          PROVE  b.IC[j].imc = j /\ b.IMC[j].icid = j
      <4>1. CASE j = i
        BY <1>1, <1>2, <1>3, <1>4, <1>5, <1>10, <2>2, <4>1
      <4>2. CASE j # i
        BY <1>1, <1>2, <1>3, <1>10, <2>2, <3>2, <4>2 DEF Sound, Attached, Owned
      <4> QED BY <4>1, <4>2
    <3> QED BY <1>10, <2>2, <3>1, <3>2 DEF Owned
  <2> QED BY <2>1, <2>2
<1>15. Sound(b)
  BY <1>9, <1>11, <1>12, <1>13, <1>14 DEF Sound, Attached
<1> QED BY <1>8, <1>10, <1>15

LEMMA CreateSound ==
    ASSUME NEW a, Sound(a), NEW i \in new_ids(a), NEW c \in Client,
           NEW v \in ICValues
    PROVE  Sound(ic_create(a, i, c, v))
<1> DEFINE b == new_IC(a, i)
           k == b.IC[i].imc
           n == IF "IM_FOCUS" \in a.mode THEN a.im_focus ELSE a.default_im
           x == [b.IC[i] EXCEPT !.connect_id = c, !.ic_state = {"NEWIC"}]
           y == [b.IMC[k] EXCEPT !.inp_num = n]
           d == [b EXCEPT !.IC[i] = x]
           e == [d EXCEPT !.IMC[k] = y]
<1>1. Sound(b) /\ i \in b.ic_list
  BY NewICSound
<1>2. n \in Inp
  BY DEF Sound, Memory
<1>3. ic_create(a, i, c, v)
        = ic_set_values([b EXCEPT !.IC[i] = x, !.IMC[k].inp_num = n], i, v)
  BY DEF ic_create
<1> HIDE DEF b, n
<1>4. b \in Memory /\ i \in ICID /\ k \in ICID
  BY <1>1, HasIMC DEF Sound
<1> HIDE DEF k
<1>5. b.IC[i] \in ICRec /\ b.IMC[k] \in IMCRec
  BY <1>4 DEF Memory
<1>6. x \in ICRec /\ x.imc = b.IC[i].imc
  BY <1>5 DEF ICRec, ICState
<1>7. y \in IMCRec /\ y.icid = b.IMC[k].icid
  BY <1>2, <1>5 DEF IMCRec
<1>8. [b EXCEPT !.IC[i] = x, !.IMC[k].inp_num = n] = e
  <2> HIDE DEF x
  <2> QED BY <1>4 DEF Memory
<1> HIDE DEF x, y
<1>9. Steady(b, d) /\ d \in Memory /\ d.IMC = b.IMC
  <2>1. Steady(b, d)
    BY <1>4, <1>6, WriteIC
  <2> QED BY <1>4, <2>1 DEF Steady, Memory
<1> HIDE DEF d
<1>10. e \in Memory
  BY <1>4, <1>7, <1>9, Zenon DEF Memory
<1>11. /\ e.IMC = [d.IMC EXCEPT ![k] = y]
       /\ e.ic = d.ic /\ e.icp = d.icp /\ e.icid = d.icid /\ e.IC = d.IC
       /\ e.ic_list = d.ic_list /\ e.imc_list = d.imc_list
  BY <1>9 DEF Memory
<1> HIDE DEF e
<1>12. Steady(d, e)
  BY <1>4, <1>7, <1>9, <1>10, <1>11, SteadyIMC
<1>13. Steady(e, ic_set_values(e, i, v))
  BY <1>4, <1>10, SetValues
<1> QED BY <1>1, <1>3, <1>8, <1>9, <1>12, <1>13, SteadySound

\* Deleting listed ICs, with the IMCs they own, keeps a memory sound.
LEMMA DeleteSound ==
    ASSUME NEW a, Sound(a), NEW D, D \subseteq a.ic_list
    PROVE  Sound(delete_ICs(a, D))
<1> DEFINE own == own_IMCs(a, D)
           p == IF a.ic \in D THEN NULL ELSE a.ic
           q == IF a.icp \in D THEN NULL ELSE a.icp
           L == a.ic_list \ D
           M == a.imc_list \ own
           f == [i \in ICID |-> IF i \in D THEN forget(a.IC[i]) ELSE a.IC[i]]
           g == [k \in ICID |-> IF k \in own THEN ZeroIMC ELSE a.IMC[k]]
           b == [a EXCEPT !.ic = p, !.icp = q, !.ic_list = L, !.IC = f,
                          !.imc_list = M, !.IMC = g]
<1>1. /\ a \in Memory /\ a.ic_list \in SUBSET ICID /\ a.imc_list \in SUBSET ICID
      /\ a.ic \in ICID \cup {NULL} /\ a.icp \in ICID \cup {NULL}
      /\ a.IC \in [ICID -> ICRec] /\ a.IMC \in [ICID -> IMCRec]
  BY DEF Sound, Memory
<1>2. f \in [ICID -> ICRec]
  <2>1. \A rec \in ICRec : forget(rec) \in ICRec
    <3> SUFFICES ASSUME NEW rec \in ICRec
                 PROVE  forget(rec) \in ICRec
      OBVIOUS
    <3>1. /\ rec.client_win \in Window \cup {NoWindow}
          /\ rec.focus_win \in Window \cup {NoWindow}
          /\ rec.input_style \in Style \cup {NoStyle}
      BY DEF ICRec
    <3>2. ZeroIC \in ICRec
      BY StateAssumption DEF ZeroIC, ICRec, NULL
    <3> QED BY <3>1, <3>2, Zenon DEF forget, ICRec
  <2>2. \A i \in ICID : (IF i \in D THEN forget(a.IC[i]) ELSE a.IC[i]) \in ICRec
    BY <1>1, <2>1
  <2> QED BY <2>2
<1>3. g \in [ICID -> IMCRec]
  <2>1. ZeroIMC \in IMCRec
    BY StateAssumption DEF ZeroIMC, IMCRec, Inp, NULL, NoMod
  <2> QED BY <1>1, <2>1
<1>4. p \in ICID \cup {NULL} /\ q \in ICID \cup {NULL}
      /\ L \in SUBSET ICID /\ M \in SUBSET ICID
  BY <1>1
<1>5. ~SingleIMC => own = D
  BY DEF own_IMCs, Sound, Attached, Owned
<1>6. SingleIMC => own = {}
  BY DEF own_IMCs
<1>7. delete_ICs(a, D) = b
  <2>1. unpoint(a, D) = [a EXCEPT !.ic = p, !.icp = q]
    BY <1>1 DEF unpoint, Memory
  <2>2. /\ unpoint(a, D).ic_list = a.ic_list /\ unpoint(a, D).IC = a.IC
        /\ unpoint(a, D).imc_list = a.imc_list /\ unpoint(a, D).IMC = a.IMC
    BY <1>1, <2>1 DEF Memory
  <2>3. delete_ICs(a, D) = [unpoint(a, D) EXCEPT !.ic_list = L, !.IC = f,
                                                 !.imc_list = M, !.IMC = g]
    BY <2>2 DEF delete_ICs
  <2> HIDE DEF p, q, L, M, f, g
  <2> QED BY <1>1, <2>1, <2>3 DEF Memory
<1> HIDE DEF own
<1>8. b \in Memory
  <2> HIDE DEF p, q, L, M, f, g
  <2> QED BY <1>1, <1>2, <1>3, <1>4, Zenon DEF Memory
<1>9. /\ b.IMC = g /\ b.IC = f /\ b.ic = p /\ b.icp = q /\ b.icid = a.icid
      /\ b.ic_list = L /\ b.imc_list = M
  <2> HIDE DEF p, q, L, M, f, g
  <2> QED BY <1>1 DEF Memory
<1> HIDE DEF b
<1>10. b.ic_list \subseteq 1..b.icid
  BY <1>9 DEF Sound, Attached
<1>11. \A i \in b.ic_list : b.IC[i].imc \in b.imc_list
  <2>1. \A i \in L : b.IC[i].imc = a.IC[i].imc /\ i \notin D
    BY <1>1, <1>9
  <2>2. ~SingleIMC => \A i \in L : a.IC[i].imc = i
    BY DEF Sound, Attached, Owned
  <2> QED BY <1>5, <1>6, <1>9, <2>1, <2>2 DEF Sound, Attached
<1>12. Pointed(b)
  BY <1>9 DEF Sound, Attached, Pointed
<1>13. Owned(b)
  <2>1. CASE SingleIMC
    BY <1>6, <1>9, <2>1 DEF Sound, Attached, Owned
  <2>2. CASE ~SingleIMC
    <3>1. b.imc_list = b.ic_list
      BY <1>5, <1>9, <2>2 DEF Sound, Attached, Owned
    <3>2. \A i \in L : b.IC[i].imc = i /\ b.IMC[i].icid = i
      BY <1>1, <1>5, <1>9, <2>2 DEF Sound, Attached, Owned
    <3> QED BY <1>9, <2>2, <3>1, <3>2 DEF Owned
  <2> QED BY <2>1, <2>2
<1> QED BY <1>7, <1>8, <1>10, <1>11, <1>12, <1>13 DEF Sound, Attached

LEMMA SweepSound ==
    ASSUME NEW a, Sound(a), NEW r, NEW S
    PROVE  Sound(check_ic_exist(a, r, S))
<1> DEFINE gone == {i \in probed(a, r) : a.IC[i].client_win \notin S}
           f == [i \in ICID |-> IF i \in stamped(a, r)
                                THEN [a.IC[i] EXCEPT !.exec_age = 0]
                                ELSE a.IC[i]]
           b == [a EXCEPT !.check_age = 0, !.IC = f]
           D == shadowed(a, r) \cup gone
<1>1. a \in Memory /\ a.IC \in [ICID -> ICRec]
  BY DEF Sound, Memory
<1>2. check_ic_exist(a, r, S) = IF sweeps(a, r) THEN delete_ICs(b, D) ELSE a
  BY <1>1 DEF check_ic_exist, Memory
<1>3. D \subseteq a.ic_list
  BY DEF shadowed, probed
<1>4. f \in [ICID -> ICRec] /\ \A i \in ICID : f[i].imc = a.IC[i].imc
  <2>1. \A rec \in ICRec : /\ [rec EXCEPT !.exec_age = 0] \in ICRec
                           /\ [rec EXCEPT !.exec_age = 0].imc = rec.imc
    BY StateAssumption DEF ICRec
  <2> HIDE DEF gone, D
  <2> QED BY <1>1, <2>1
<1>5. 0 \in 0..(TIMECHECK_STEP + 1)
  BY StateAssumption
<1> HIDE DEF f, D
<1>6. b \in Memory
  BY <1>1, <1>4, <1>5, Zenon DEF Memory
<1>7. Steady(a, b)
  BY <1>1, <1>4, <1>6 DEF Steady, Memory
<1>8. Sound(b) /\ b.ic_list = a.ic_list
  BY <1>7, SteadySound DEF Steady
<1> HIDE DEF b
<1> QED BY <1>2, <1>3, <1>8, DeleteSound

LEMMA TickSteady ==
    ASSUME NEW a \in Memory
    PROVE  Steady(a, tick(a))
<1> DEFINE f == [i \in ICID |-> IF i \in a.ic_list THEN older(a.IC[i]) ELSE a.IC[i]]
           t == IF a.check_age > TIMECHECK_STEP THEN a.check_age ELSE a.check_age + 1
<1>1. a.IC \in [ICID -> ICRec] /\ a.check_age \in 0..(TIMECHECK_STEP + 1)
  BY DEF Memory
<1>2. t \in 0..(TIMECHECK_STEP + 1)
  BY <1>1, StateAssumption
<1>3. f \in [ICID -> ICRec] /\ \A i \in ICID : f[i].imc = a.IC[i].imc
  <2>1. \A rec \in ICRec : older(rec) \in ICRec /\ older(rec).imc = rec.imc
    BY StateAssumption DEF older, ICRec
  <2> QED BY <1>1, <2>1
<1>4. tick(a) = [a EXCEPT !.check_age = t, !.IC = f]
  BY DEF tick, Memory
<1> HIDE DEF t, f
<1>5. tick(a) \in Memory
  BY <1>2, <1>3, <1>4, Zenon DEF Memory
<1> QED BY <1>3, <1>4, <1>5 DEF Steady, Memory

-----------------------------------------------------------------------------
\* The start: the default input method exists, and the lists are empty.
LEMMA LeastElement ==
    ASSUME NEW S \in SUBSET Nat, S # {}
    PROVE  \E n \in S : \A k \in S : n <= k
<1>1. PICK n \in S : \A k \in S : ~(<<k, n>> \in OpToRel(<, Nat))
  BY NatLessThanWellFounded, WFMin
<1>2. \A k \in S : ~(k < n)
  BY <1>1 DEF OpToRel
<1> QED BY <1>2

LEMMA DefaultCinput ==
    ASSUME NEW d
    PROVE  default_cinput(Named, d) \in Named \cap Loadable
<1>1. Named \cap Loadable \in SUBSET Nat /\ Named \cap Loadable # {}
  BY StateAssumption, ServerAssumption DEF Inp
<1>2. \E n \in Named \cap Loadable : \A k \in Named \cap Loadable : n <= k
  BY <1>1, LeastElement
<1> QED BY <1>2 DEF default_cinput

LEMMA StartSound ==
    ASSUME NEW mode \in StartModes, NEW d, NEW s
    PROVE  Sound(StartMemory(mode, Named, d, s))
<1> DEFINE n == default_cinput(Named, d)
           f == load_default_cinput(Named, d)
           ics == [i \in ICID |-> ZeroIC]
           imcs == [k \in ICID |-> ZeroIMC]
           t == TIMECHECK_STEP + 1
           a == [mode |-> mode, ic |-> NULL, icp |-> NULL,
                 default_im |-> n, default_im_sinmd |-> 0,
                 im_focus |-> n, first_call |-> FALSE,
                 cinput |-> f, icid |-> 0, ic_list |-> {}, IC |-> ics,
                 imc_list |-> {}, IMC |-> imcs, check_age |-> t]
           g == load_cinput(f, {s})
           b == load_default_sinmd(a, s)
<1>1. n \in Inp /\ 0 \in Inp
  <2>1. n \in Named \cap Loadable
    BY DefaultCinput
  <2> HIDE DEF n
  <2> QED BY <2>1, StateAssumption, ServerAssumption DEF Inp
<1>2. f \in [Inp -> CinputState] /\ g \in [Inp -> CinputState]
  <2>1. f \in [Inp -> CinputState]
    <3>1. [k \in Inp |-> IF k \in Named THEN "named" ELSE "free"]
            \in [Inp -> CinputState]
      BY DEF CinputState
    <3> QED BY <3>1, LoadType DEF load_default_cinput
  <2> QED BY <2>1, LoadType
<1>3. mode \in SUBSET ModeFlag /\ mode \cup {"SHOW_CINPUT"} \in SUBSET ModeFlag
  BY ServerAssumption DEF ModeFlag
<1>4. ics \in [ICID -> ICRec] /\ imcs \in [ICID -> IMCRec]
  <2>1. ZeroIC \in ICRec
    BY StateAssumption DEF ZeroIC, ICRec, NULL
  <2>2. ZeroIMC \in IMCRec
    BY StateAssumption DEF ZeroIMC, IMCRec, Inp, NULL, NoMod
  <2> QED BY <2>1, <2>2
<1>5. t \in 0..(TIMECHECK_STEP + 1) /\ 0 \in 0..MaxIC
  BY StateAssumption
<1>6. StartMemory(mode, Named, d, s) = b
  BY DEF StartMemory
<1> HIDE DEF n, f, ics, imcs, t, g
<1>7. a \in Memory
  <2>1. /\ NULL \in ICID \cup {NULL} /\ {} \in SUBSET ICID /\ FALSE \in BOOLEAN
    OBVIOUS
  <2> QED BY <1>1, <1>2, <1>3, <1>4, <1>5, <2>1, Zenon DEF Memory
<1>8. b = IF s \in Inp /\ g[s] = "loaded"
          THEN [a EXCEPT !.cinput = g, !.default_im_sinmd = s]
          ELSE [a EXCEPT !.cinput = g, !.mode = mode \cup {"SHOW_CINPUT"}]
  BY DEF load_default_sinmd, g
<1>9. a.ic_list = {} /\ a.imc_list = {} /\ a.icid = 0 /\ a.ic = NULL /\ a.icp = NULL
  OBVIOUS
<1> HIDE DEF a, b
<1>10. /\ b.ic = a.ic /\ b.icp = a.icp /\ b.icid = a.icid
       /\ b.ic_list = a.ic_list /\ b.imc_list = a.imc_list
  BY <1>7, <1>8 DEF Memory
<1>11. b \in Memory
  <2>1. CASE s \in Inp /\ g[s] = "loaded"
    BY <1>2, <1>7, <1>8, <2>1, Zenon DEF Memory
  <2>2. CASE ~(s \in Inp /\ g[s] = "loaded")
    <3>1. b = [a EXCEPT !.cinput = g, !.mode = mode \cup {"SHOW_CINPUT"}]
      BY <1>8, <2>2
    <3> QED BY <1>2, <1>3, <1>7, <3>1, Zenon DEF Memory
  <2> QED BY <2>1, <2>2
<1> QED BY <1>6, <1>9, <1>10, <1>11 DEF Sound, Attached, Pointed, Owned

LEMMA InitIInv == Init => IInv
<1> SUFFICES ASSUME Init
             PROVE  IInv
  OBVIOUS
<1>1. Sound(m)
  BY StartSound DEF Init
<1> QED BY <1>1 DEF Init, IInv, TypeOK, Sound

-----------------------------------------------------------------------------
\* The steps.  A message that is handled leaves one of its outcomes.
LEMMA HandledSound ==
    ASSUME IInv, NEW r, NEW outcomes, Handled(r, outcomes),
           \A a \in outcomes : Sound(a)
    PROVE  Sound(m') /\ pc' = "check" /\ ref' = r
BY DEF Handled, IInv, TypeOK, Sound

LEMMA HandledICSound ==
    ASSUME IInv, NEW i, NEW outcomes, HandledIC(i, outcomes),
           i \in m.ic_list => \A a \in outcomes : Sound(a)
    PROVE  Sound(m') /\ pc' = "check" /\ ref' = i
<1>1. Sound(m)
  BY DEF IInv, TypeOK, Sound
<1> QED BY <1>1, HandledSound DEF HandledIC

LEMMA MessageIInv ==
    ASSUME IInv, NEW c \in clients, Message(c)
    PROVE  IInv'
<1>1. Sound(m) /\ c \in Client /\ held \in [Client -> SUBSET ICID]
      /\ clients \subseteq Client /\ alive \subseteq Window /\ owed \subseteq Client
  BY DEF IInv, TypeOK, Sound
<1>2. m \in Memory /\ m.ic_list \subseteq ICID
  BY <1>1 DEF Sound, Memory
<1>3. CASE CreateIC(c)
  <2>1. PICK v \in CreateValues, i \in new_ids(m) :
          /\ Handled(NULL, {ic_create(m, i, c, v)})
          /\ held' = IF Exiting THEN held ELSE [held EXCEPT ![c] = @ \cup {i}]
          /\ UNCHANGED <<clients, alive, owed>>
    BY <1>3 DEF CreateIC
  <2>2. Sound(ic_create(m, i, c, v))
    BY <1>1, CreateSound, ServerAssumption
  <2>3. i \in ICID
    BY <1>1, NewId
  <2>4. Sound(m') /\ pc' = "check" /\ ref' = NULL
    BY <2>1, <2>2, HandledSound
  <2>5. held' \in [Client -> SUBSET ICID]
    BY <1>1, <2>1, <2>3
  <2> QED BY <1>1, <2>1, <2>4, <2>5 DEF IInv, TypeOK, Sound
<1>4. CASE Close(c)
  <2>1. Sound(ic_clean_all(m, c))
    BY <1>1, DeleteSound DEF ic_clean_all
  <2>2. Sound(m') /\ pc' = "check" /\ ref' = -1
    BY <1>4, <2>1, HandledSound DEF Close
  <2>3. held' \in [Client -> SUBSET ICID]
    BY <1>1, <1>4 DEF Close
  <2> QED BY <1>1, <1>4, <2>2, <2>3 DEF IInv, TypeOK, Sound, Close
<1>5. CASE SyncReply(c)
  <2>1. Sound(sync_reply(m))
    BY <1>1, CloseSteady, SteadySound
  <2>2. Sound(m') /\ pc' \in {"idle", "check", "winlist"} \cup Stopped
        /\ ref' \in ICID \cup {NULL, -1}
    BY <1>1, <1>5, <2>1 DEF SyncReply, IInv, TypeOK
  <2> QED BY <1>1, <1>5, <2>2 DEF IInv, TypeOK, Sound, SyncReply
<1>6. ASSUME NEW i \in held[c],
             \/ DestroyIC(c, i) \/ SetFocus(c, i) \/ UnsetFocus(c, i)
             \/ SetICValues(c, i) \/ GetICValues(c, i)
             \/ Trigger(c, i) \/ Forward(c, i) \/ PlainKey(c, i)
      PROVE  IInv'
  <2>1. i \in ICID
    BY <1>1
  <2>2. i \in m.ic_list => m.IC[i].imc \in ICID
    BY <1>1, HasIMC
  <2>3. CASE DestroyIC(c, i)
    <3>1. Sound(ic_destroy(m, i))
      BY <1>1, DeleteSound DEF ic_destroy
    <3>2. Sound(m') /\ pc' = "check" /\ ref' = i
      BY <2>3, <3>1, HandledSound DEF DestroyIC
    <3>3. held' \in [Client -> SUBSET ICID]
      BY <1>1, <2>3 DEF DestroyIC
    <3> QED BY <1>1, <2>1, <2>3, <3>2, <3>3 DEF IInv, TypeOK, Sound, DestroyIC
  <2>4. CASE SetFocus(c, i)
    <3>1. i \in m.ic_list => Sound(set_focus(m, i))
      BY <1>1, SetFocusSound
    <3>2. Sound(m') /\ pc' = "check" /\ ref' = i
      BY <2>4, <3>1, HandledICSound DEF SetFocus
    <3> QED BY <1>1, <2>1, <2>4, <3>2 DEF IInv, TypeOK, Sound, SetFocus, world
  <2>5. CASE UnsetFocus(c, i)
    <3>1. i \in m.ic_list => Sound(unset_focus(m, i))
      BY <1>1, UnsetFocusSound
    <3>2. Sound(m') /\ pc' = "check" /\ ref' = i
      BY <2>5, <3>1, HandledICSound DEF UnsetFocus
    <3> QED BY <1>1, <2>1, <2>5, <3>2 DEF IInv, TypeOK, Sound, UnsetFocus, world
  <2>6. CASE SetICValues(c, i)
    <3>1. PICK v \in ChangeValues : HandledIC(i, {ic_set_values(m, i, v)})
      BY <2>6 DEF SetICValues
    <3>2. Sound(ic_set_values(m, i, v))
      BY <1>1, <1>2, <2>1, SetValues, SteadySound, ServerAssumption
    <3>3. Sound(m') /\ pc' = "check" /\ ref' = i
      BY <3>1, <3>2, HandledICSound
    <3> QED BY <1>1, <2>1, <2>6, <3>3 DEF IInv, TypeOK, Sound, SetICValues, world
  <2>7. CASE GetICValues(c, i)
    <3>1. Sound(m') /\ pc' = "check" /\ ref' = i
      BY <1>1, <2>7, HandledICSound DEF GetICValues
    <3> QED BY <1>1, <2>1, <2>7, <3>1 DEF IInv, TypeOK, Sound, GetICValues, world
  <2>8. CASE Trigger(c, i)
    <3>1. PICK key \in TriggerKeys : HandledIC(i, trigger(m, i, key))
      BY <2>8 DEF Trigger
    <3>2. i \in m.ic_list => \A a \in trigger(m, i, key) : Sound(a)
      BY <1>1, TriggerSound
    <3>3. Sound(m') /\ pc' = "check" /\ ref' = i
      BY <3>1, <3>2, HandledICSound
    <3> QED BY <1>1, <2>1, <2>8, <3>3 DEF IInv, TypeOK, Sound, Trigger, world
  <2>9. CASE Forward(c, i)
    <3>1. PICK key \in ForwardKeys : HandledIC(i, forward(m, i, key))
      BY <2>9 DEF Forward
    <3>2. i \in m.ic_list => \A a \in forward(m, i, key) : Sound(a)
      BY <1>1, <1>2, <2>1, <2>2, ForwardSteady, SteadySound
    <3>3. Sound(m') /\ pc' = "check" /\ ref' = i
      BY <3>1, <3>2, HandledICSound
    <3> QED BY <1>1, <2>1, <2>9, <3>3 DEF IInv, TypeOK, Sound, Forward, world
  <2>10. CASE PlainKey(c, i)
    <3>1. Sound(m') /\ pc' = "check" /\ ref' = i
      BY <1>1, <2>10, HandledICSound DEF PlainKey
    <3>2. owed' \subseteq Client
      BY <1>1, <2>10 DEF PlainKey
    <3> QED BY <1>1, <2>1, <2>10, <3>1, <3>2 DEF IInv, TypeOK, Sound, PlainKey
  <2> QED BY <1>6, <2>3, <2>4, <2>5, <2>6, <2>7, <2>8, <2>9, <2>10
<1> QED BY <1>3, <1>4, <1>5, <1>6 DEF Message

LEMMA NextIInv == IInv /\ [Next]_vars => IInv'
<1> SUFFICES ASSUME IInv, [Next]_vars
             PROVE  IInv'
  OBVIOUS
<1>1. Sound(m) /\ m \in Memory
      /\ clients \subseteq Client /\ alive \subseteq Window /\ owed \subseteq Client
      /\ held \in [Client -> SUBSET ICID]
  BY DEF IInv, TypeOK, Sound
<1>2. ASSUME NEW c \in clients, Message(c)
      PROVE  IInv'
  BY <1>2, MessageIInv
<1>3. CASE CheckICs
  <2>1. Sound(m')
    BY <1>1, <1>3, SweepSound DEF CheckICs
  <2> QED BY <1>1, <1>3, <2>1 DEF IInv, TypeOK, Sound, CheckICs, world
<1>4. CASE UpdateWinlist
  <2>1. Sound(m')
    BY <1>1, <1>4, WinlistSteady, SteadySound DEF UpdateWinlist
  <2>2. pc' \in {"idle", "killed"}
    BY <1>4 DEF UpdateWinlist
  <2> QED BY <1>1, <1>4, <2>1, <2>2 DEF IInv, TypeOK, Sound, UpdateWinlist, world,
                                         Stopped
<1>5. CASE LoopExit
  BY <1>5 DEF LoopExit, IInv, TypeOK, Attached, Pointed, Owned, Stopped, world
<1>6. CASE Expose
  BY <1>6 DEF Expose, IInv, TypeOK, Attached, Pointed, Owned, Stopped, world
<1>7. ASSUME NEW a, Sound(a), NEW next, XimClose(a, next),
             next \in {"idle", "check", "winlist"} \cup Stopped
      PROVE  IInv'
  <2>1. Sound(m')
    BY <1>7, CloseSteady, SteadySound DEF XimClose
  <2>2. pc' \in {"idle", "check", "winlist"} \cup Stopped
    BY <1>7 DEF XimClose, Stopped
  <2>3. owed' \subseteq Client
    BY <1>1, <1>7 DEF XimClose
  <2> QED BY <1>1, <1>7, <2>1, <2>2, <2>3 DEF IInv, TypeOK, Sound, XimClose
<1>8. CASE Signal
  BY <1>1, <1>7, <1>8 DEF Signal, IInv, TypeOK, Stopped
<1>9. CASE CloseMainWindow
  <2>1. Sound(free_spot(m))
    BY <1>1, FreeSpotSteady, SteadySound
  <2> QED BY <1>7, <1>9, <2>1 DEF CloseMainWindow
<1>10. CASE Tick
  <2>1. Sound(m')
    BY <1>1, <1>10, TickSteady, SteadySound DEF Tick
  <2> QED BY <1>1, <1>10, <2>1 DEF IInv, TypeOK, Sound, Tick, world
<1>11. ASSUME NEW w \in Window, WindowGone(w)
       PROVE  IInv'
  BY <1>1, <1>11 DEF WindowGone, IInv, TypeOK, Attached, Pointed, Owned
<1>12. ASSUME NEW c \in clients, Die(c)
       PROVE  IInv'
  <2>1. held' \in [Client -> SUBSET ICID]
    BY <1>1, <1>12 DEF Die
  <2> QED BY <1>1, <1>12, <2>1 DEF Die, IInv, TypeOK, Attached, Pointed, Owned
<1>13. CASE UNCHANGED vars
  BY <1>13 DEF vars, IInv, TypeOK, Attached, Pointed, Owned
<1> QED BY <1>2, <1>3, <1>4, <1>5, <1>6, <1>8, <1>9, <1>10, <1>11, <1>12, <1>13
        DEF Next, Server, Environment

-----------------------------------------------------------------------------
\* The invariant, and what it gives.
THEOREM Invariance == Spec => []IInv
<1> QED BY InitIInv, NextIInv, PTL DEF Spec

\* Every variable keeps its type: in particular every handler finds the IMC
\* of the IC it is called for (m.IC[i].imc is never NULL for a listed IC).
THEOREM TypeCorrect == Spec => []TypeOK
<1>1. IInv => TypeOK
  BY DEF IInv
<1> QED BY <1>1, Invariance, PTL

\* xccore->ic and xccore->icp never dangle, with any number of clients, ICs
\* and input methods, with and without the garbage collection.
THEOREM PointersAreLive == Spec => []PointersLive
<1>1. IInv => PointersLive
  BY DEF IInv, Attached, Pointed, PointersLive
<1> QED BY <1>1, Invariance, PTL

\* Every IC has the IMC it should have, its own or the shared one.
THEOREM ImcsAreOwned == Spec => []ImcOwnership
<1>1. IInv => ImcOwnership
  BY DEF IInv, Attached, Owned, ImcOwnership
<1> QED BY <1>1, Invariance, PTL
=============================================================================
